-------------------------------- MODULE Jobs --------------------------------
(* Shell commands and the jobs they become (tools.c, spill.c).

   A command runs in a session of its own and writes into a pipe. The agent
   reads the pipe, with a copy to a log file, until the command ends. A `bash`
   call past its deadline becomes a job: a forked drainer takes the pipe and
   the log over, and the `job` tool lists, polls, waits for or kills it.

   Output is counted in chunks. A log file is known by the run that opened it,
   and its name by the command, because the name is a hash of the command. *)
EXTENDS Naturals, FiniteSets, FiniteSetsExt

CONSTANTS
    Cmd,        \* commands
    NJobs,      \* AGENT_MAX_JOBS
    Page,       \* chunks one result shows: AGENT_SHELL_OUT_BYTES
    LogCap,     \* chunks a log holds: AGENT_SPILL_BYTES
    MaxRuns,    \* bound: commands started
    MaxOut,     \* bound: chunks a command writes
    MaxBreaks   \* bound: interrupts

ASSUME JobsAssumption == /\ {NJobs, Page, LogCap, MaxRuns, MaxOut} \subseteq Nat \ {0}
                         /\ MaxBreaks \in Nat /\ Cmd # {}

VARIABLES
    proc,    \* the process of each run, and the pipe it writes into
    drain,   \* the drainer of each run that was detached
    log,     \* chunks in the log file of each run
    dir,     \* what the log's name leads to, 0 for nothing
    job,     \* the table of jobs
    sh,      \* the call the agent is in
    started, \* runs started
    broke,   \* g_got_sigint
    breaks,  \* interrupts so far
    noted,   \* notes that named the run's end
    said     \* the model was told that the run ended

jobsVars == <<proc, drain, log, dir, job, sh, started, broke, breaks, noted, said>>

Run  == 1..MaxRuns
Slot == 1..NJobs

--------------------------------------------------------------------------------
NoProc == [st |-> "none", out |-> FALSE, pipe |-> 0, made |-> 0]
NoJob  == [run |-> 0, cmd |-> CHOOSE c \in Cmd : TRUE, running |-> FALSE, drained |-> FALSE,
           reported |-> FALSE, announced |-> FALSE, read |-> 0]
Idle   == [pc |-> "idle", kind |-> "none", run |-> 0, cmd |-> CHOOSE c \in Cmd : TRUE, slot |-> 0,
           intr |-> FALSE, killed |-> FALSE, undet |-> FALSE, reaped |-> FALSE, spill |-> FALSE, got |-> 0]

JobsInit == /\ proc = [r \in Run |-> NoProc] /\ drain = [r \in Run |-> "none"]
            /\ log = [r \in Run |-> 0] /\ dir = [c \in Cmd |-> 0]
            /\ job = [s \in Slot |-> NoJob] /\ sh = Idle
            /\ started = 0 /\ broke = FALSE /\ breaks = 0
            /\ noted = [r \in Run |-> 0] /\ said = [r \in Run |-> FALSE]

Live(s)     == job[s].run # 0
InCall(r)   == sh.run = r /\ sh.pc \in {"run", "polled", "over", "reap"}
Reading(r)  == (sh.run = r /\ sh.pc \in {"run", "polled"}) \/ drain[r] = "runs"
Logged(n)   == IF n > LogCap THEN LogCap ELSE n

\* What SIGKILL to the group leaves: a child in a group of its own keeps the pipe.
Killed(p) == {[p EXCEPT !.st = IF @ = "runs" THEN "zombie" ELSE @, !.out = o] : o \in {FALSE, p.out}}
Reaped(p) == [p EXCEPT !.st = "gone"]

--------------------------------------------------------------------------------
\* The commands: they write, close their output or hand it to a child, and end.
Writes(r) == /\ proc[r].out /\ Reading(r) /\ proc[r].made < MaxOut
             /\ proc' = [proc EXCEPT ![r].pipe = @ + 1, ![r].made = @ + 1]
             /\ UNCHANGED <<drain, log, dir, job, sh, started, broke, breaks, noted, said>>

ClosesOutput(r) == /\ proc[r].out
                   /\ proc' = [proc EXCEPT ![r].out = FALSE]
                   /\ UNCHANGED <<drain, log, dir, job, sh, started, broke, breaks, noted, said>>

Exits(r) == /\ proc[r].st = "runs"
            /\ \E o \in {FALSE, proc[r].out} : proc' = [proc EXCEPT ![r].st = "zombie", ![r].out = o]
            /\ UNCHANGED <<drain, log, dir, job, sh, started, broke, breaks, noted, said>>

\* job_drain, in a process of its own.
Drains(r) == /\ drain[r] = "runs"
             /\ \/ /\ proc[r].pipe > 0
                   /\ proc' = [proc EXCEPT ![r].pipe = @ - 1]
                   /\ log' = [log EXCEPT ![r] = Logged(@ + 1)]
                   /\ UNCHANGED drain
                \/ /\ proc[r].pipe = 0 /\ ~proc[r].out
                   /\ drain' = [drain EXCEPT ![r] = "zombie"]
                   /\ UNCHANGED <<proc, log>>
             /\ UNCHANGED <<dir, job, sh, started, broke, breaks, noted, said>>

\* The user interrupts; the flag is cleared with the turn.
Break == /\ breaks < MaxBreaks /\ ~broke /\ sh.pc # "quit"
         /\ broke' = TRUE /\ breaks' = breaks + 1
         /\ UNCHANGED <<proc, drain, log, dir, job, sh, started, noted, said>>

TurnOver == /\ sh.pc = "idle" /\ broke /\ broke' = FALSE
            /\ UNCHANGED <<proc, drain, log, dir, job, sh, started, breaks, noted, said>>

--------------------------------------------------------------------------------
\* shell_run. spill_open takes the name for itself, whatever it led to; the spill may be
\* refused. A `!` command of the user has no log, and neither has a program.
ShellStart == /\ sh.pc = "idle" /\ ~broke /\ started < MaxRuns
              /\ \E k \in {"bash", "user", "program"}, c \in Cmd, ok \in BOOLEAN :
                    LET r == started + 1
                    IN  /\ k # "bash" => ~ok
                        /\ dir' = IF k # "bash" THEN dir ELSE [dir EXCEPT ![c] = IF ok THEN r ELSE 0]
                        /\ proc' = [proc EXCEPT ![r].st = "runs", ![r].out = TRUE]
                        /\ sh' = [Idle EXCEPT !.pc = "run", !.kind = k, !.run = r, !.cmd = c, !.spill = ok]
              /\ started' = started + 1
              /\ UNCHANGED <<drain, log, job, broke, breaks, noted, said>>

\* The top of the loop: SIGTERM on the first sight of an interrupt, and the end of the wait
\* for a pipe that outlives its command.
ShellTop == /\ sh.pc = "run"
            /\ \E pc \in {"polled"} \cup (IF sh.reaped THEN {"over"} ELSE {}) :
                  sh' = [sh EXCEPT !.pc = pc, !.intr = @ \/ broke, !.killed = @ \/ broke]
            /\ UNCHANGED <<proc, drain, log, dir, job, started, broke, breaks, noted, said>>

\* After the poll. A second look at the flag sends SIGKILL when SIGTERM was sent; waitpid
\* looks once; what is left is the deadline, or what the poll found.
Struck == IF broke /\ sh.killed THEN Killed(proc[sh.run]) ELSE {proc[sh.run]}
Looked == [sh EXCEPT !.intr = @ \/ broke, !.killed = @ \/ broke,
                     !.reaped = @ \/ proc[sh.run].st = "zombie"]
AfterLook(p) == IF proc[sh.run].st = "zombie" THEN Reaped(p) ELSE p

ShellGoesOn ==
    /\ sh.pc = "polled"
    /\ \E p \in Struck :
          LET q == AfterLook(p)
          IN  \/ /\ q.pipe > 0
                 /\ proc' = [proc EXCEPT ![sh.run] = [q EXCEPT !.pipe = @ - 1]]
                 /\ sh' = [Looked EXCEPT !.pc = "run", !.got = @ + 1]
                 /\ log' = IF sh.spill THEN [log EXCEPT ![sh.run] = Logged(@ + 1)] ELSE log
              \/ /\ q.pipe = 0 /\ ~q.out
                 /\ proc' = [proc EXCEPT ![sh.run] = q]
                 /\ sh' = [Looked EXCEPT !.pc = "over"] /\ UNCHANGED log
              \/ /\ q.pipe = 0 /\ q.out
                 /\ \E k \in IF Looked.intr /\ ~Looked.reaped THEN Killed(q) ELSE {q} :
                       proc' = [proc EXCEPT ![sh.run] = k]
                 /\ sh' = [Looked EXCEPT !.pc = IF Looked.intr /\ Looked.reaped THEN "over" ELSE "run"]
                 /\ UNCHANGED log
    /\ UNCHANGED <<drain, dir, job, started, broke, breaks, noted, said>>

\* A call may be detached once its deadline, or a message of the user, is there.
Due == /\ sh.pc = "polled" /\ sh.kind # "user"
       /\ ~Looked.intr /\ ~Looked.reaped /\ ~sh.undet

\* A program is killed at its deadline, and waited for.
ProgramStop == /\ Due /\ sh.kind = "program"
               /\ \E p \in Killed(proc[sh.run]) : proc' = [proc EXCEPT ![sh.run] = p]
               /\ sh' = [sh EXCEPT !.pc = "run", !.undet = TRUE]
               /\ UNCHANGED <<drain, log, dir, job, started, broke, breaks, noted, said>>

--------------------------------------------------------------------------------
\* job_refresh, of the jobs in S.
Ended(s)   == job[s].running /\ proc[job[s].run].st = "zombie"
Drained(s) == Live(s) /\ ~job[s].drained /\ drain[job[s].run] = "zombie"
Refreshed(S) == [s \in Slot |-> [job[s] EXCEPT !.running = @ /\ ~(s \in S /\ Ended(s)),
                                               !.drained = @ \/ (s \in S /\ Drained(s))]]
ProcAfter(S)  == [r \in Run |-> IF \E s \in S : Ended(s) /\ job[s].run = r THEN Reaped(proc[r]) ELSE proc[r]]
DrainAfter(S) == [r \in Run |-> IF \E s \in S : Drained(s) /\ job[s].run = r THEN "gone" ELSE drain[r]]
Refresh(S) == job' = Refreshed(S) /\ proc' = ProcAfter(S) /\ drain' = DrainAfter(S)

\* A bug: a drainer that still runs is left behind.
Spent_KeepsDrainer(s) == IF job[s].drained THEN "gone" ELSE drain[job[s].run]

\* job_release: the drainer is killed and reaped.
Spent(s) == "gone"

\* job_detach: a blank slot, or the first whose job was reported.
Blank == {s \in Slot : ~Live(s)}
Given == {s \in Slot : ~Refreshed(Slot)[s].running /\ job[s].reported}
Taken == IF Blank # {} THEN Min(Blank) ELSE Min(Given)
Seen  == IF Blank # {} THEN {} ELSE IF Given # {} THEN 1..Taken ELSE Slot
Freed == [r \in Run |-> IF Blank = {} /\ Given # {} /\ job[Taken].run = r THEN Spent(Taken) ELSE DrainAfter(Seen)[r]]
Named == IF Blank = {} /\ Given # {} THEN [dir EXCEPT ![job[Taken].cmd] = 0] ELSE dir

Detach == /\ Due /\ sh.kind = "bash" /\ sh.spill /\ Blank \cup Given # {}
          /\ job' = [Refreshed(Seen) EXCEPT ![Taken] = [NoJob EXCEPT !.run = sh.run, !.cmd = sh.cmd,
                                                        !.running = TRUE, !.read = log[sh.run]]]
          /\ proc' = ProcAfter(Seen)
          /\ drain' = [Freed EXCEPT ![sh.run] = "runs"] /\ dir' = Named
          /\ sh' = [Idle EXCEPT !.pc = "note"]
          /\ UNCHANGED <<log, started, broke, breaks, noted, said>>

\* No slot, or no log: the command is waited out. A slot found is released all the same.
DetachRefused == /\ Due /\ sh.kind = "bash" /\ ~(sh.spill /\ Blank \cup Given # {})
                 /\ job' = IF Blank = {} /\ Given # {} THEN [Refreshed(Seen) EXCEPT ![Taken] = NoJob]
                           ELSE Refreshed(Seen)
                 /\ proc' = ProcAfter(Seen) /\ drain' = Freed /\ dir' = Named
                 /\ sh' = [sh EXCEPT !.pc = "run", !.undet = TRUE]
                 /\ UNCHANGED <<log, started, broke, breaks, noted, said>>

--------------------------------------------------------------------------------
\* The end of shell_run, and of the call. The log is kept when the result shows less.
Answered == /\ dir' = IF sh.spill /\ sh.got <= Page THEN [dir EXCEPT ![sh.cmd] = 0] ELSE dir
            /\ sh' = [Idle EXCEPT !.pc = IF sh.kind = "bash" THEN "note" ELSE "idle"]

ShellOver == /\ sh.pc = "over"
             /\ \E p \in IF sh.intr THEN Killed(proc[sh.run]) ELSE {proc[sh.run]} :
                   proc' = [proc EXCEPT ![sh.run] = [p EXCEPT !.pipe = 0]]
             /\ log' = IF sh.spill /\ sh.intr
                       THEN [log EXCEPT ![sh.run] = Logged(@ + proc[sh.run].pipe)] ELSE log
             /\ IF sh.reaped THEN Answered
                ELSE /\ sh' = [sh EXCEPT !.pc = "reap",
                                         !.got = IF sh.intr THEN @ + proc[sh.run].pipe ELSE @]
                     /\ UNCHANGED dir
             /\ UNCHANGED <<drain, job, started, broke, breaks, noted, said>>

\* waitpid without WNOHANG.
ShellReap == /\ sh.pc = "reap" /\ proc[sh.run].st = "zombie"
             /\ proc' = [proc EXCEPT ![sh.run] = Reaped(@)]
             /\ Answered
             /\ UNCHANGED <<drain, log, job, started, broke, breaks, noted, said>>

--------------------------------------------------------------------------------
\* The job tool. Listing says of each job that ended that it did.
JobList == /\ sh.pc = "idle" /\ \E s \in Slot : Live(s)
           /\ proc' = ProcAfter(Slot) /\ drain' = DrainAfter(Slot)
           /\ job' = [s \in Slot |-> [Refreshed(Slot)[s] EXCEPT !.announced = @ \/ (Live(s) /\ ~Refreshed(Slot)[s].running)]]
           /\ said' = [r \in Run |-> said[r] \/ \E s \in Slot : job[s].run = r /\ ~Refreshed(Slot)[s].running]
           /\ sh' = [Idle EXCEPT !.pc = "note"]
           /\ UNCHANGED <<log, dir, started, broke, breaks, noted>>

JobCall == /\ sh.pc = "idle"
           /\ \E s \in Slot, k \in {"poll", "wait", "kill"} :
                 /\ Live(s)
                 /\ sh' = [Idle EXCEPT !.pc = IF k # "kill" THEN "wait" ELSE IF job[s].running THEN "signal" ELSE "page",
                                       !.kind = k, !.slot = s]
           /\ UNCHANGED <<proc, drain, log, dir, job, started, broke, breaks, noted, said>>

\* One look of the wait loop: it ends, goes on, or turns into a kill. A wait gives a job
\* that ended some time to be drained; a poll does not.
JobLook == /\ sh.pc = "wait" /\ Refresh({sh.slot})
           /\ LET j == job'[sh.slot]
              IN  \/ /\ ~j.running /\ sh' = [sh EXCEPT !.pc = "page"]
                  \/ /\ ~j.running /\ ~j.drained /\ sh.kind = "wait" /\ UNCHANGED sh
                  \/ /\ j.running /\ broke /\ sh' = [sh EXCEPT !.pc = "signal", !.intr = TRUE]
                  \/ /\ j.running /\ ~broke
                     /\ \E pc \in {"page"} \cup (IF sh.kind = "wait" THEN {"wait"} ELSE {}) : sh' = [sh EXCEPT !.pc = pc]
           /\ UNCHANGED <<log, dir, started, broke, breaks, noted, said>>

\* job_signal: SIGTERM, a second of looks, then SIGKILL and a wait.
JobSignal == /\ sh.pc = "signal"
             /\ \/ /\ Refresh({sh.slot})
                   /\ sh' = [sh EXCEPT !.pc = IF job'[sh.slot].running THEN "signal" ELSE "page"]
                \/ /\ \E p \in Killed(proc[job[sh.slot].run]) : proc' = [proc EXCEPT ![job[sh.slot].run] = Reaped(p)]
                   /\ job' = [job EXCEPT ![sh.slot].running = FALSE]
                   /\ sh' = [sh EXCEPT !.pc = "page"] /\ UNCHANGED drain
             /\ UNCHANGED <<log, dir, started, broke, breaks, noted, said>>

\* A page of what the log gained since the last one.
JobPage == /\ sh.pc = "page"
           /\ LET j == job[sh.slot]
                  n == Min({Page, log[j.run] - j.read})
                  pending == log[j.run] > j.read + n
              IN  /\ job' = [job EXCEPT ![sh.slot].read = @ + n,
                                        ![sh.slot].announced = @ \/ ~j.running,
                                        ![sh.slot].reported = @ \/ (~j.running /\ ~pending)]
                  /\ said' = [said EXCEPT ![j.run] = @ \/ ~j.running]
           /\ sh' = [Idle EXCEPT !.pc = "note"]
           /\ UNCHANGED <<proc, drain, log, dir, started, broke, breaks, noted>>

\* A bug: a job that was listed as ended counts as one nobody was told of.
Unsaid_Reported(s) == Live(s) /\ ~job[s].reported

\* jobs_note: every result names the jobs that ended unannounced.
Unsaid(s) == Live(s) /\ ~job[s].announced

JobsNote == /\ sh.pc = "note"
            /\ LET S == {s \in Slot : Unsaid(s)}
                   named(s) == s \in S /\ ~Refreshed(S)[s].running
               IN  /\ job' = [s \in Slot |-> [Refreshed(S)[s] EXCEPT !.announced = @ \/ named(s)]]
                   /\ proc' = ProcAfter(S) /\ drain' = DrainAfter(S)
                   /\ noted' = [r \in Run |-> noted[r] + Cardinality({s \in Slot : job[s].run = r /\ named(s)})]
                   /\ said' = [r \in Run |-> said[r] \/ \E s \in Slot : job[s].run = r /\ named(s)]
            /\ sh' = Idle
            /\ UNCHANGED <<log, dir, started, broke, breaks>>

\* jobs_stop, as the process ends.
JobsStop == /\ sh.pc = "idle"
            /\ \E left \in SUBSET Run :
                  proc' = [r \in Run |-> IF \E s \in Slot : job[s].run = r /\ job[s].running
                                         THEN [proc[r] EXCEPT !.st = "gone", !.out = @ /\ r \in left] ELSE proc[r]]
            /\ drain' = [r \in Run |-> IF \E s \in Slot : job[s].run = r THEN "gone" ELSE drain[r]]
            /\ dir' = [c \in Cmd |-> IF \E s \in Slot : Live(s) /\ job[s].cmd = c THEN 0 ELSE dir[c]]
            /\ job' = [s \in Slot |-> NoJob]
            /\ sh' = [Idle EXCEPT !.pc = "quit"]
            /\ UNCHANGED <<log, started, broke, breaks, noted, said>>

--------------------------------------------------------------------------------
ShellStep == ShellTop \/ ShellGoesOn \/ ProgramStop \/ Detach \/ DetachRefused \/ ShellOver \/ ShellReap
JobStep   == JobLook \/ JobSignal \/ JobPage \/ JobsNote

JobsNext == \/ \E r \in Run : Writes(r) \/ ClosesOutput(r) \/ Exits(r) \/ Drains(r)
            \/ Break \/ TurnOver
            \/ ShellStart \/ ShellStep \/ JobList \/ JobCall \/ JobStep \/ JobsStop

JobsSpec == JobsInit /\ [][JobsNext]_jobsVars

--------------------------------------------------------------------------------
JobsTypeOK ==
    /\ proc \in [Run -> [st : {"none", "runs", "zombie", "gone"}, out : BOOLEAN, pipe : 0..MaxOut, made : 0..MaxOut]]
    /\ drain \in [Run -> {"none", "runs", "zombie", "gone"}]
    /\ log \in [Run -> 0..LogCap] /\ dir \in [Cmd -> 0..MaxRuns]
    /\ job \in [Slot -> [run : 0..MaxRuns, cmd : Cmd, running : BOOLEAN, drained : BOOLEAN,
                         reported : BOOLEAN, announced : BOOLEAN, read : 0..LogCap]]
    /\ sh.pc \in {"idle", "run", "polled", "over", "reap", "note", "wait", "signal", "page", "quit"}
    /\ noted \in [Run -> 0..MaxRuns] /\ said \in [Run -> BOOLEAN]

\* No process is lost: a command that was not reaped is the one of the call or a running job,
\* and a drainer that was not reaped is the one of a job whose pipe it still drains. Nothing
\* the agent started is left when it ends (jobs_stop, job_release, shell_run).
JobsOwned ==
    \A r \in Run :
       /\ proc[r].st \in {"runs", "zombie"} => InCall(r) \/ \E s \in Slot : job[s].run = r /\ job[s].running
       /\ drain[r] \in {"runs", "zombie"} => \E s \in Slot : job[s].run = r /\ ~job[s].drained

\* The model is told of each job's end once: a note names only an end that nothing said
\* before (tests/cases/test_job.py: "a job the job tool reported is not named again"), and a
\* job leaves the table only when its end was said (job_page, jobs_note, job_detach).
InTable(r) == \E s \in Slot : job[s].run = r
EndToldOnce == [][\A r \in Run : /\ noted'[r] > noted[r] => ~said[r] /\ noted'[r] = 1
                                 /\ InTable(r) /\ ~InTable(r)' /\ sh'.pc # "quit" => said[r]]_jobsVars
=============================================================================
