------------------------------ MODULE TaskWorkers ------------------------------
(***************************************************************************)
(* The `task` tool: slots of the parent process, one worker process per    *)
(* task, the event log each worker appends to and the parent tails, and    *)
(* the lifeline pipe whose hangup tells a worker that its parent is gone.  *)
(*                                                                         *)
(* Of a log only its terminal event is kept: every other line is view      *)
(* material (tasklog.c, header). A prompt, a report and a label are        *)
(* abstracted to the task's number and to the outcome the worker wrote.    *)
(* The parent is one thread; its polling loops (task_wait, task_pump) are  *)
(* split where a worker may run between two of their system calls.         *)
(***************************************************************************)
EXTENDS Naturals, Sequences, FiniteSets

CONSTANTS
    NSlots,     \* AGENT_MAX_TASKS
    Limit,      \* task_limit(): the configured number of active tasks
    MaxTasks    \* bound on the tasks one conversation starts

ASSUME NSlotsAssumption   == NSlots \in Nat \ {0}
ASSUME LimitAssumption    == Limit \in 1..NSlots
ASSUME MaxTasksAssumption == MaxTasks \in Nat

VARIABLES
    w,          \* g_task.w: what the parent keeps for each slot
    next_id,    \* g_task.next_id
    proc,       \* each worker process: none, boot, run, closing, gone (a zombie), reaped
    log,        \* the terminal event in each task's log, or "none"
    told,       \* history: the terminal answers the model got for each task
    at,         \* where the parent is inside task_answer
    cur,        \* the slot task_answer works on
    fresh,      \* task_answer started the task in this call
    ran,        \* an in-process slice has run a round
    pump,       \* the slot task_pump is draining, 0 outside it
    reaping,    \* task_drain has read the log and not yet called waitpid
    sigint,     \* g_got_sigint
    alive       \* the parent process

vars == <<w, next_id, proc, log, told, at, cur, fresh, ran, pump, reaping, sigint, alive>>

Slots    == 1..NSlots
Ids      == 1..MaxTasks
\* SUB_EXHAUSTED ends a task as SUB_REPORTED does, with a text of the worker's own.
Outcomes == {"reported", "interrupted", "failed"}
\* "silence" is the answer "stopped without reporting", "cut" the same words given while
\* an interrupt is pending.
Says     == Outcomes \cup {"silence", "cut", "dropped"}

SlotRec == [id: 0..MaxTasks, live: BOOLEAN, running: BOOLEAN, ended: BOOLEAN,
            fallback: BOOLEAN, pid: 0..MaxTasks, lifeline: BOOLEAN, fd: 0..MaxTasks,
            said: Outcomes \cup {"none"}]

\* task_slot_reset: fd and pid are the task's number, 0 for none.
Blank == [id |-> 0, live |-> FALSE, running |-> FALSE,
          ended |-> FALSE, fallback |-> FALSE, pid |-> 0,
          lifeline |-> FALSE, fd |-> 0, said |-> "none"]

\* subagent_begin, then what task_spawn fills in for a worker that started.
Begun(i)    == [Blank EXCEPT !.id = i, !.live = TRUE]
Spawned_StaleLog(i) ==
    [Begun(i) EXCEPT !.running = TRUE, !.pid = i, !.lifeline = TRUE, !.fd = i - 1]
Spawned(i)  == [Begun(i) EXCEPT !.running = TRUE, !.pid = i, !.lifeline = TRUE, !.fd = i]
Fallback(i) == [Begun(i) EXCEPT !.fallback = TRUE]

Active     == {s \in Slots : w[s].live \/ w[s].running}
Free       == Slots \ Active

First(S)   == {s \in S : \A t \in S : s <= t}

\* task_slot: none at the limit, else the first slot that is not active.
TaskSlot_OffByOne == IF Cardinality(Active) <= Limit THEN First(Free) ELSE {}
TaskSlot   == IF Cardinality(Active) < Limit THEN First(Free) ELSE {}

\* The write end is the parent's alone: child_close_fds drops the worker's own copy.
LifelineOpen_Leaked(i) == \E s \in Slots : w[s].pid = i /\ w[s].lifeline
LifelineOpen(i) == alive /\ \E s \in Slots : w[s].pid = i /\ w[s].lifeline

--------------------------------------------------------------------------------
(* Steps of a slot, as functions of its record *)

\* tasklog_read with task_on_event: a log that holds the terminal event ends the task.
Read(r) == IF r.fd # 0 /\ log[r.fd] # "none"
           THEN [r EXCEPT !.ended = TRUE, !.said = log[r.fd]]
           ELSE r

\* task_reap: waitpid(WNOHANG) collects a process that has exited.
Dead(r)   == r.running /\ r.pid # 0 /\ proc[r.pid] = "gone"
Reaped(r) == IF Dead(r) THEN [r EXCEPT !.running = FALSE] ELSE r
ProcReaped(r) == IF Dead(r) THEN [proc EXCEPT ![r.pid] = "reaped"] ELSE proc

\* task_worker_stop: hang up, SIGTERM, SIGKILL, wait. It returns with no process left.
ProcStopped_NoKill(S) == proc
ProcStopped(S) ==
    [i \in Ids |-> IF \E s \in S : w[s].running /\ w[s].pid = i THEN "reaped" ELSE proc[i]]
Stopped(r) == [r EXCEPT !.lifeline = FALSE, !.running = FALSE]

DropLog(r) == [r EXCEPT !.fd = 0]

\* task_retire: stop the worker, close and unlink the log, live = false. What is left is
\* the transcript the task view shows, and nothing below reads it: the slot is free.
Retired_StillLive(r) == DropLog(Stopped(r))
Retired(r) == Blank

Answer(i, say) == told' = [told EXCEPT ![i] = Append(@, say)]

Return == at' = "idle" /\ cur' = 0 /\ fresh' = FALSE /\ ran' = FALSE
Quiet == at = "idle" /\ pump = 0 /\ alive   \* between two tool calls, or at the prompt

--------------------------------------------------------------------------------
Init ==
    /\ w = [s \in Slots |-> Blank]
    /\ next_id = 0
    /\ proc = [i \in Ids |-> "none"]
    /\ log = [i \in Ids |-> "none"]
    /\ told = [i \in Ids |-> <<>>]
    /\ at = "idle" /\ cur = 0 /\ fresh = FALSE /\ ran = FALSE
    /\ pump = 0 /\ reaping = FALSE
    /\ sigint = FALSE /\ alive = TRUE

(* task_answer without an id: begin in a free slot, spawn a worker, maybe wait. A call
   that is refused (no slot, no prompt, no room for the conversation) changes nothing. *)
TaskStart ==
    /\ Quiet /\ next_id < MaxTasks
    /\ \E s \in TaskSlot : LET i == next_id + 1 IN
          /\ w' = [w EXCEPT ![s] = Spawned(i)]
          /\ proc' = [proc EXCEPT ![i] = "boot"]
          /\ next_id' = i
          /\ \/ Return
             \/ at' = "read" /\ cur' = s /\ fresh' = TRUE /\ UNCHANGED ran
    /\ UNCHANGED <<log, told, pump, reaping, sigint, alive>>

(* task_spawn fails: the slice runs here, in this process. *)
TaskStartHere ==
    /\ Quiet /\ next_id < MaxTasks
    /\ \E s \in TaskSlot : LET i == next_id + 1 IN
          /\ w' = [w EXCEPT ![s] = Fallback(i)]
          /\ next_id' = i
          /\ cur' = s
    /\ at' = "here" /\ fresh' = TRUE /\ ran' = FALSE
    /\ UNCHANGED <<proc, log, told, pump, reaping, sigint, alive>>

Named(i, s) == w[s].id = i /\ w[s].live    \* task_find, and still live

(* task(id): a parked in-process task runs another slice, any other is waited for. *)
TaskCollect(i) ==
    /\ Quiet
    /\ \E s \in Slots :
        /\ Named(i, s)
        /\ cur' = s /\ fresh' = FALSE
        /\ at' = IF w[s].fallback /\ ~w[s].ended THEN "here"
                 ELSE IF ~w[s].ended /\ (w[s].running \/ w[s].fd # 0) THEN "read"
                 ELSE "collect"
    /\ ran' = FALSE
    /\ UNCHANGED <<w, next_id, proc, log, told, pump, reaping, sigint, alive>>

(* task(id, action="drop") *)
TaskDrop(i) ==
    /\ Quiet
    /\ \E s \in Slots :
        /\ Named(i, s)
        /\ w' = [w EXCEPT ![s] = Retired(@)]
        /\ proc' = ProcStopped({s})
    /\ Answer(i, "dropped")
    /\ UNCHANGED <<next_id, log, at, cur, fresh, ran, pump, reaping, sigint, alive>>

--------------------------------------------------------------------------------
(* task_wait, one step per system call a worker can run between *)

WaitRead ==
    /\ alive /\ at = "read"
    /\ w' = [w EXCEPT ![cur] = Read(@)]
    /\ at' = "reap"
    /\ UNCHANGED <<next_id, proc, log, told, cur, fresh, ran, pump, reaping, sigint, alive>>

WaitReap ==
    /\ alive /\ at = "reap"
    /\ w' = [w EXCEPT ![cur] = Reaped(@)]
    /\ proc' = ProcReaped(w[cur])
    /\ at' = "test"
    /\ UNCHANGED <<next_id, log, told, cur, fresh, ran, pump, reaping, sigint, alive>>

\* After a drain: the answer is in or the user interrupted; the worker is gone, so
\* drain once more; the time is up or a message is queued; or poll and go round.
AfterDrain(next) ==
    /\ alive /\ at = "test" /\ at' = next
    /\ UNCHANGED <<w, next_id, proc, log, told, cur, fresh, ran, pump, reaping, sigint, alive>>

WaitOver    == AfterDrain("collect") /\ (w[cur].ended \/ sigint)
WaitGone_NoDrain ==
    AfterDrain("collect") /\ ~w[cur].ended /\ ~sigint /\ ~w[cur].running
WaitGone    == AfterDrain("last") /\ ~w[cur].ended /\ ~sigint /\ ~w[cur].running
WaitTimeout == AfterDrain("collect") /\ ~w[cur].ended /\ ~sigint /\ w[cur].running
WaitAgain   == AfterDrain("read") /\ ~w[cur].ended /\ ~sigint /\ w[cur].running

WaitLast ==
    /\ alive /\ at = "last"
    /\ w' = [w EXCEPT ![cur] = Read(@)]
    /\ at' = "collect"
    /\ UNCHANGED <<next_id, proc, log, told, cur, fresh, ran, pump, reaping, sigint, alive>>

\* The rest of task_answer: what the model is told, and the slot retired if it is over.
\* Only a call with an id gives up on a worker that ended without a terminal event.
Ended(r) == r.ended \/ (~fresh /\ ~r.running)
Word(r) == IF r.said # "none" THEN r.said ELSE IF sigint THEN "cut" ELSE "silence"

Collect ==
    /\ alive /\ at = "collect"
    /\ Return
    /\ IF Ended(w[cur])
       THEN /\ Answer(w[cur].id, Word(w[cur]))
            /\ w' = [w EXCEPT ![cur] = Retired(@)]
            /\ proc' = ProcStopped({cur})
       ELSE UNCHANGED <<told, w, proc>>
    /\ UNCHANGED <<next_id, log, pump, reaping, sigint, alive>>

--------------------------------------------------------------------------------
(* task_run_here: subagent_slice in the parent, with a deadline *)

HereStep == alive /\ at = "here" /\ pump = 0

HereRound ==
    /\ HereStep /\ ~sigint
    /\ ran' = TRUE
    /\ UNCHANGED <<w, next_id, proc, log, told, at, cur, fresh, pump, reaping, sigint, alive>>

HerePark ==
    /\ HereStep /\ ~sigint /\ ran
    /\ Return
    /\ UNCHANGED <<w, next_id, proc, log, told, pump, reaping, sigint, alive>>

HereEnd(o) ==
    /\ HereStep
    /\ o = "interrupted" => sigint
    /\ o = "failed" => ~sigint
    /\ Return
    /\ w' = [w EXCEPT ![cur] = Retired(@)]
    /\ proc' = ProcStopped({cur})
    /\ Answer(w[cur].id, o)
    /\ UNCHANGED <<next_id, log, pump, reaping, sigint, alive>>

--------------------------------------------------------------------------------
(* task_pump, from on_idle and from the prompt's tick: every slot is drained in turn *)

PumpStep == alive /\ UNCHANGED <<next_id, log, told, at, cur, fresh, ran, sigint, alive>>

\* The loop skips a slot whose log is closed; only the parent opens and closes them.
After_Short(k) == {s \in Slots : s > k /\ s < NSlots /\ w[s].fd # 0}
After(k)    == {s \in Slots : s > k /\ w[s].fd # 0}
PumpNext(k) == IF After(k) = {} THEN {0} ELSE First(After(k))

PumpStart ==
    /\ PumpStep /\ at \in {"idle", "here"} /\ pump = 0
    /\ pump' \in PumpNext(0) /\ UNCHANGED <<w, proc, reaping>>

PumpRead ==
    /\ PumpStep /\ pump # 0 /\ ~reaping
    /\ w' = [w EXCEPT ![pump] = Read(@)]
    /\ reaping' = TRUE /\ UNCHANGED <<proc, pump>>

PumpReap ==
    /\ PumpStep /\ pump # 0 /\ reaping
    /\ w' = [w EXCEPT ![pump] = Reaped(@)]
    /\ proc' = ProcReaped(w[pump])
    /\ pump' \in PumpNext(pump) /\ reaping' = FALSE

--------------------------------------------------------------------------------
(* The parent as a whole *)

Sigint ==           \* nothing reads the flag between two calls
    /\ alive /\ at # "idle" /\ ~sigint /\ sigint' = TRUE
    /\ UNCHANGED <<w, next_id, proc, log, told, at, cur, fresh, ran, pump, reaping, alive>>

SigintTaken ==      \* the turn ends, or the next one begins
    /\ Quiet /\ sigint /\ sigint' = FALSE
    /\ UNCHANGED <<w, next_id, proc, log, told, at, cur, fresh, ran, pump, reaping, alive>>

(* task_release: /clear, a rewind, another session, compaction, a handoff *)
TaskRelease ==
    /\ Quiet
    /\ w' = [s \in Slots |-> Blank]
    /\ proc' = ProcStopped(Slots)
    /\ UNCHANGED <<next_id, log, told, at, cur, fresh, ran, pump, reaping, sigint, alive>>

(* exit: atexit(task_workers_stop) stops every worker and drops every log *)
ParentExit ==
    /\ Quiet
    /\ w' = [s \in Slots |-> DropLog(Stopped(w[s]))]
    /\ proc' = ProcStopped(Slots)
    /\ alive' = FALSE
    /\ UNCHANGED <<next_id, log, told, at, cur, fresh, ran, pump, reaping, sigint>>

(* killed: the kernel closes the lifelines, and nothing else is cleaned up *)
ParentCrash ==
    /\ alive /\ alive' = FALSE
    /\ UNCHANGED <<w, next_id, proc, log, told, at, cur, fresh, ran, pump, reaping, sigint>>

--------------------------------------------------------------------------------
(* The worker process of task i *)

Worker(i, from, to, end) ==
    /\ proc[i] = from
    /\ proc' = [proc EXCEPT ![i] = to]
    /\ log' = [log EXCEPT ![i] = end]
    /\ UNCHANGED <<w, next_id, told, at, cur, fresh, ran, pump, reaping, sigint, alive>>

\* task_worker_main up to its START event; worker_fail when the parent hung up or the
\* record is not one it can use.
WorkerStart(i)     == LifelineOpen(i) /\ Worker(i, "boot", "run", log[i])
WorkerFail(i)      == Worker(i, "boot", "closing", "failed")

\* subagent_slice without a deadline, then worker_end. worker_idle turns the hangup of
\* the lifeline into an interrupt.
WorkerEnd(i, o)    == o # "interrupted" /\ Worker(i, "run", "closing", o)
WorkerHangup(i)    == ~LifelineOpen(i) /\ Worker(i, "run", "closing", "interrupted")

\* The process exits after its terminal event, or dies without one (exec failed, killed).
WorkerExit(i)      == Worker(i, "closing", "gone", log[i])
WorkerDie(i)       == \E from \in {"boot", "run"} : Worker(i, from, "gone", log[i])

WorkerNext(i) ==
    \/ WorkerStart(i) \/ WorkerFail(i)
    \/ \E o \in Outcomes : WorkerEnd(i, o)
    \/ WorkerHangup(i) \/ WorkerExit(i) \/ WorkerDie(i)

WaitNext == WaitRead \/ WaitReap \/ WaitOver \/ WaitGone \/ WaitTimeout \/ WaitAgain
            \/ WaitLast \/ Collect

ParentNext ==
    \/ TaskStart \/ TaskStartHere
    \/ \E i \in Ids : TaskCollect(i) \/ TaskDrop(i)
    \/ WaitNext
    \/ HereRound \/ HerePark \/ \E o \in Outcomes : HereEnd(o)
    \/ PumpStart \/ PumpRead \/ PumpReap
    \/ Sigint \/ SigintTaken \/ TaskRelease \/ ParentExit \/ ParentCrash

Next == ParentNext \/ \E i \in Ids : WorkerNext(i)

Spec == Init /\ [][Next]_vars

(* The scheduler runs every process. A wait ends because the clock reaches it; between  *)
(* two tool calls the parent waits on the provider or at the prompt, where on_idle or    *)
(* the tick pumps the logs. Nothing is assumed of the model, the user or a provider.     *)
Fairness ==
    /\ \A i \in Ids : /\ WF_vars(WorkerStart(i) \/ WorkerFail(i))
                      /\ WF_vars(WorkerHangup(i))
                      /\ WF_vars(WorkerExit(i))
    /\ WF_vars(WaitRead \/ WaitReap \/ WaitOver \/ WaitGone \/ WaitLast \/ Collect)
    /\ SF_vars(WaitTimeout)
    /\ SF_vars(PumpStart)
    /\ WF_vars(PumpRead \/ PumpReap)

FairSpec == Spec /\ Fairness

--------------------------------------------------------------------------------
(* Properties *)

\* Every variable keeps its type: slot records name tasks this conversation started.
TypeOK ==
    /\ w \in [Slots -> SlotRec]
    /\ next_id \in 0..MaxTasks
    /\ proc \in [Ids -> {"none", "boot", "run", "closing", "gone", "reaped"}]
    /\ log \in [Ids -> Outcomes \cup {"none"}]
    /\ told \in [Ids -> Seq(Says)]
    /\ at \in {"idle", "read", "reap", "test", "last", "collect", "here"}
    /\ cur \in 0..NSlots
    /\ fresh \in BOOLEAN /\ ran \in BOOLEAN
    /\ pump \in 0..NSlots /\ reaping \in BOOLEAN
    /\ sigint \in BOOLEAN /\ alive \in BOOLEAN

\* No more tasks are live or running at once than the configured limit (task_slot).
LimitHeld == Cardinality(Active) <= Limit

\* While the parent lives, a worker process that has not been waited for belongs to
\* exactly one slot, which holds its lifeline and a task the model can still collect or
\* drop: retiring, dropping, /clear and slot reuse leave no process behind.
Owner(i, s) == w[s].pid = i /\ w[s].running /\ w[s].lifeline /\ w[s].live /\ w[s].id = i
WorkersOwned ==
    alive => \A i \in Ids : proc[i] \notin {"none", "reaped"} =>
        \E s \in Slots : Owner(i, s) /\ \A t \in Slots \ {s} : w[t].pid # i

\* A task is answered for good once: no poll repeats a report, and a dropped task says
\* no more.
AnsweredOnce == \A i \in Ids : Len(told[i]) <= 1

\* What the model is told of a delegated task is what that task's worker wrote in its
\* terminal event, never another task's ("only the terminal event decides what the
\* model is told", main.c).
WorkersWord ==
    \A i \in Ids : \A k \in DOMAIN told[i] :
        told[i][k] \in Outcomes /\ proc[i] # "none" => log[i] = told[i][k]

\* "stopped without reporting" is said only of a worker that wrote no terminal event:
\* the terminal event decides what the model is told.
SilenceIsTrue ==
    \A i \in Ids : \A k \in DOMAIN told[i] :
        told[i][k] \in {"silence", "cut"} => log[i] = "none"

\* The same, but for an answer cut short by an interrupt: a report written between the
\* last read of the log and waitpid is not lost.
SilenceUnlessCut ==
    \A i \in Ids : \A k \in DOMAIN told[i] :
        told[i][k] = "silence" => log[i] = "none"

\* A worker never outlives its parent for good, however the parent ended: the lifeline's
\* hangup stops it.
OrphansStop == ~alive ~> \A i \in Ids : proc[i] \in {"none", "gone", "reaped"}

\* A terminal event in the log of a task that is kept open is seen without the model
\* asking: the pump reaches every slot.
EndSeen ==
    \A s \in Slots : \A i \in Ids :
        alive /\ w[s].fd = i /\ log[i] # "none" ~> ~alive \/ w[s].fd # i \/ w[s].ended

\* The promise to the model: each task goes from open to one final answer, or is gone.
Task == [i \in Ids |->
    IF told[i] # <<>> THEN told[i][1]
    ELSE IF \E s \in Slots : Named(i, s) THEN "open"
    ELSE IF i <= next_id THEN "gone" ELSE "new"]

Board == INSTANCE TaskBoard WITH task <- Task
ImplementsBoard == Board!Spec
================================================================================
