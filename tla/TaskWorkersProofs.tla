--------------------------- MODULE TaskWorkersProofs ---------------------------
(***************************************************************************)
(* The inductive invariant of TaskWorkers and the theorems that follow     *)
(* from it, the last of which is that it implements TaskBoard, for every   *)
(* number of slots, limit and number of tasks.                             *)
(***************************************************************************)
EXTENDS TaskWorkers, FiniteSetTheorems, TLAPS

Unreaped == {"boot", "run", "closing", "gone"}

\* A slot in use holds one task; a spawned task's process, log and lifeline are its own,
\* and the process is unreaped exactly while the slot says it runs.
SlotOK(r) ==
    /\ r.live <=> r.id # 0
    /\ r.id <= next_id
    /\ r.pid \in {0, r.id} /\ r.fd \in {0, r.id}
    /\ r.fallback => r.pid = 0 /\ r.id # 0 /\ proc[r.id] = "none"
    /\ r.live /\ ~r.fallback => r.pid # 0
    /\ r.running => r.pid # 0
    /\ r.ended <=> r.said # "none"
    /\ r.said # "none" => r.pid # 0 /\ log[r.pid] = r.said
    /\ r.fd # 0 => r.pid # 0
    /\ r.id # 0 => told[r.id] = <<>>
    /\ alive /\ r.pid # 0 => r.lifeline /\ r.fd = r.id
                             /\ (r.running <=> proc[r.pid] \in Unreaped)
    /\ alive /\ r.pid # 0 => proc[r.pid] # "none"

SlotsOK  == \A s \in Slots : SlotOK(w[s])
Distinct == \A s, t \in Slots : w[s].id = w[t].id /\ w[s].id # 0 => s = t

ProcsOK ==
    \A i \in Ids :
        /\ i > next_id => proc[i] = "none" /\ told[i] = <<>>
        /\ proc[i] \in {"none", "boot", "run"} => log[i] = "none"
        /\ alive /\ proc[i] \in Unreaped => \E s \in Slots : w[s].pid = i /\ w[s].running

ToldOK ==
    \A i \in Ids : told[i] # <<>> =>
        \E a \in Says :
            /\ told[i] = <<a>>
            /\ a \in Outcomes /\ proc[i] # "none" => log[i] = a
            /\ a = "silence" => log[i] = "none" /\ proc[i] = "reaped"

ControlOK ==
    /\ at # "idle" => cur \in Slots /\ w[cur].live
    /\ at \notin {"idle", "here"} => pump = 0 /\ ~w[cur].fallback
    /\ at = "here" => w[cur].fallback
    /\ at = "last" => ~w[cur].running
    /\ alive /\ at = "collect" => \/ w[cur].ended \/ w[cur].running \/ sigint
                                  \/ log[w[cur].id] = "none"
    /\ reaping => pump # 0

IInv == TypeOK /\ SlotsOK /\ Distinct /\ ProcsOK /\ ToldOK /\ ControlOK

USE DEF Ids, Slots

LEMMA InitIInv == Init => IInv
<1> SUFFICES ASSUME Init PROVE IInv
  OBVIOUS
<1> USE NSlotsAssumption, MaxTasksAssumption DEF Init
<1>1. TypeOK
  <2>1. Blank \in SlotRec
    BY DEF SlotRec, Blank
  <2>2. told \in [Ids -> Seq(Says)]
    OBVIOUS
  <2>3. w \in [Slots -> SlotRec]
    BY <2>1
  <2>4. /\ next_id \in 0..MaxTasks /\ cur \in 0..NSlots /\ pump \in 0..NSlots
        /\ proc \in [Ids -> {"none", "boot", "run", "closing", "gone", "reaped"}]
    OBVIOUS
  <2>5. log \in [Ids -> Outcomes \cup {"none"}]
    OBVIOUS
  <2>6. /\ at \in {"idle", "read", "reap", "test", "last", "collect", "here"}
        /\ fresh \in BOOLEAN /\ ran \in BOOLEAN /\ reaping \in BOOLEAN
        /\ sigint \in BOOLEAN /\ alive \in BOOLEAN
    OBVIOUS
  <2> HIDE DEF Init
  <2> QED BY <2>2, <2>3, <2>4, <2>5, <2>6 DEF TypeOK
<1>2. SlotsOK
  BY DEF SlotsOK, SlotOK, Blank
<1>3. Distinct /\ ProcsOK /\ ToldOK
  BY DEF Distinct, ProcsOK, ToldOK, Unreaped, Blank
<1>4. ControlOK
  BY DEF ControlOK
<1> QED BY <1>1, <1>2, <1>3, <1>4 DEF IInv

LEMMA WorkerStep == ASSUME IInv, NEW i \in Ids, WorkerNext(i) PROVE IInv'
<1>1. PICK from \in {"boot", "run", "closing"}, to \in {"run", "closing", "gone"},
           end \in Outcomes \cup {"none"} :
        /\ Worker(i, from, to, end)
        /\ to = "run" => from = "boot"
        /\ to \in {"run", "gone"} => end = log[i]
        /\ from = "closing" => to = "gone"
        /\ to = "closing" => end # "none"
  BY DEF IInv, TypeOK, WorkerNext, WorkerStart, WorkerFail, WorkerEnd, WorkerHangup,
         WorkerExit, WorkerDie, Outcomes
<1>2. TypeOK'
  BY <1>1 DEF IInv, TypeOK, Worker
<1>3. SlotsOK'
  BY <1>1 DEF IInv, TypeOK, Worker, SlotsOK, SlotOK, ProcsOK, SlotRec, Unreaped
<1>4. Distinct'
  BY <1>1 DEF IInv, Worker, Distinct
<1>5. ProcsOK'
  BY <1>1 DEF IInv, TypeOK, Worker, ProcsOK, Unreaped
<1>6. ToldOK'
  BY <1>1 DEF IInv, TypeOK, Worker, ToldOK, ProcsOK, Says, Outcomes
<1>7. ControlOK'
  BY <1>1 DEF IInv, TypeOK, Worker, ControlOK, SlotsOK, SlotOK, SlotRec, Unreaped
<1> QED BY <1>2, <1>3, <1>4, <1>5, <1>6, <1>7 DEF IInv

(* What each kind of step does to the slots, the processes and the answers. *)

DataType ==
    /\ w \in [Slots -> SlotRec]
    /\ next_id \in 0..MaxTasks
    /\ proc \in [Ids -> {"none", "boot", "run", "closing", "gone", "reaped"}]
    /\ log \in [Ids -> Outcomes \cup {"none"}]
    /\ told \in [Ids -> Seq(Says)]

Data == DataType /\ SlotsOK /\ Distinct /\ ProcsOK /\ ToldOK

\* A step that moves the parent's control point leaves the data invariant alone.
LEMMA ControlStep ==
    ASSUME Data, UNCHANGED <<w, next_id, proc, log, told>>, alive' => alive
    PROVE  Data'
BY DEF Data, DataType, SlotsOK, SlotOK, Distinct, ProcsOK, ToldOK

\* Reading a log only learns what is in it.
LEMMA ReadStep ==
    ASSUME Data, NEW s \in Slots, w' = [w EXCEPT ![s] = Read(w[s])],
           UNCHANGED <<next_id, proc, log, told, alive>>
    PROVE  /\ Data'
           /\ w'[s].ended \/ w[s].pid = 0 \/ ~alive \/ log[w[s].id] = "none"
<1>1. Read(w[s]) \in SlotRec /\ SlotOK(w[s]) /\ w'[s] = Read(w[s])
  <2>1. w[s] \in SlotRec /\ SlotOK(w[s]) /\ w'[s] = Read(w[s])
    BY DEF Data, DataType, SlotsOK
  <2>2. w[s].fd # 0 => log[w[s].fd] \in Outcomes \cup {"none"}
    BY <2>1, MaxTasksAssumption DEF Data, DataType, SlotRec
  <2>3. Read(w[s]) \in SlotRec
    BY <2>1, <2>2 DEF Read, SlotRec
  <2> QED BY <2>1, <2>3
<1>2. /\ Read(w[s]).id = w[s].id /\ Read(w[s]).live = w[s].live
      /\ Read(w[s]).running = w[s].running /\ Read(w[s]).fallback = w[s].fallback
      /\ Read(w[s]).pid = w[s].pid /\ Read(w[s]).fd = w[s].fd
      /\ Read(w[s]).lifeline = w[s].lifeline
      /\ Read(w[s]).ended <=> Read(w[s]).said # "none"
      /\ Read(w[s]).said # "none" => w[s].pid # 0 /\ log[w[s].pid] = Read(w[s]).said
  <2>1. CASE w[s].fd # 0 /\ log[w[s].fd] # "none"
    <3>1. Read(w[s]) = [w[s] EXCEPT !.ended = TRUE, !.said = log[w[s].fd]]
      BY <2>1 DEF Read
    <3>2. w[s].fd = w[s].pid
      BY <1>1, <2>1 DEF SlotOK
    <3> QED BY <2>1, <3>1, <3>2 DEF Data, DataType, SlotRec
  <2>2. CASE ~(w[s].fd # 0 /\ log[w[s].fd] # "none")
    <3>1. Read(w[s]) = w[s]
      BY <2>2 DEF Read
    <3> QED BY <1>1, <3>1 DEF SlotOK
  <2> QED BY <2>1, <2>2
<1>3. SlotsOK'
  BY <1>1, <1>2 DEF Data, DataType, SlotsOK, SlotOK, SlotRec
<1>4. DataType' /\ Distinct' /\ ProcsOK' /\ ToldOK'
  BY <1>1, <1>2 DEF Data, DataType, Distinct, ProcsOK, ToldOK
<1>5. w'[s].ended \/ w[s].pid = 0 \/ ~alive \/ log[w[s].id] = "none"
  BY <1>1 DEF SlotOK, Read, SlotRec, Data, DataType
<1> QED BY <1>3, <1>4, <1>5 DEF Data

\* waitpid clears `running` exactly when it collects the process.
LEMMA ReapStep ==
    ASSUME Data, alive, NEW s \in Slots, w' = [w EXCEPT ![s] = Reaped(w[s])],
           proc' = ProcReaped(w[s]), UNCHANGED <<next_id, log, told, alive>>
    PROVE  Data'
<1>1. CASE ~Dead(w[s])
  <2>1. UNCHANGED <<w, proc>>
    BY <1>1 DEF Reaped, ProcReaped, Data, DataType
  <2> QED BY <2>1, ControlStep
<1>2. CASE Dead(w[s])
  <2> DEFINE i == w[s].pid
  <2>1. /\ i \in Ids /\ i = w[s].id /\ w[s].live /\ ~w[s].fallback
        /\ proc[i] = "gone" /\ SlotOK(w[s])
    BY <1>2 DEF Dead, Data, DataType, SlotsOK, SlotOK, SlotRec
  <2>2. /\ w' = [w EXCEPT ![s] = [w[s] EXCEPT !.running = FALSE]]
        /\ proc' = [proc EXCEPT ![i] = "reaped"]
    <3>1. Reaped(w[s]) = [w[s] EXCEPT !.running = FALSE]
      BY <1>2 DEF Reaped
    <3>2. ProcReaped(w[s]) = [proc EXCEPT ![i] = "reaped"]
      BY <1>2 DEF ProcReaped
    <3> QED BY <3>1, <3>2
  <2>3. DataType'
    <3> w[s] \in SlotRec
      BY DEF Data, DataType
    <3>1. [w[s] EXCEPT !.running = FALSE] \in SlotRec
      BY DEF SlotRec
    <3>2. w' \in [Slots -> SlotRec]
      BY <2>2, <3>1 DEF Data, DataType
    <3> QED BY <2>1, <2>2, <3>2 DEF Data, DataType
  <2>4. SlotsOK'
    BY <2>1, <2>2 DEF Data, DataType, SlotsOK, SlotOK, SlotRec, Distinct, Unreaped
  <2>5. Distinct'
    BY <2>1, <2>2 DEF Data, DataType, Distinct, SlotRec
  <2>6. ProcsOK'
    BY <2>1, <2>2 DEF Data, DataType, ProcsOK, SlotRec, Unreaped
  <2>7. ToldOK'
    BY <2>1, <2>2 DEF Data, DataType, ToldOK
  <2> QED BY <2>3, <2>4, <2>5, <2>6, <2>7 DEF Data
<1> QED BY <1>1, <1>2

\* Retiring a live slot after its one final answer: nothing of the task is left behind.
LEMMA RetireStep ==
    ASSUME Data, alive, NEW s \in Slots, w[s].live, NEW a \in Says,
           a \in Outcomes => w[s].fallback \/ log[w[s].id] = a,
           a = "silence" => ~w[s].running /\ ~w[s].fallback /\ log[w[s].id] = "none",
           w' = [w EXCEPT ![s] = Blank], proc' = ProcStopped({s}),
           told' = [told EXCEPT ![w[s].id] = Append(@, a)],
           UNCHANGED <<next_id, log, alive>>
    PROVE  Data'
<1> DEFINE i == w[s].id
<1>1. /\ i \in Ids /\ i <= next_id /\ told[i] = <<>> /\ SlotOK(w[s]) /\ w[s] \in SlotRec
  BY DEF Data, DataType, SlotsOK, SlotOK, SlotRec
<1>2. told' = [told EXCEPT ![i] = <<a>>]
  BY <1>1 DEF Data, DataType
<1>3. \A j \in Ids : proc'[j] = IF w[s].running /\ w[s].pid = j THEN "reaped" ELSE proc[j]
  BY DEF ProcStopped
<1>4. \A t \in Slots : w'[t] = IF t = s THEN Blank ELSE w[t]
  BY DEF Data, DataType
<1>5. DataType'
  <2>1. Blank \in SlotRec
    BY MaxTasksAssumption DEF SlotRec, Blank
  <2>2. <<a>> \in Seq(Says)
    OBVIOUS
  <2>3. w' \in [Slots -> SlotRec]
    BY <2>1 DEF Data, DataType
  <2>4. told' \in [Ids -> Seq(Says)]
    BY <1>1, <1>2, <2>2 DEF Data, DataType
  <2> QED BY <1>3, <2>3, <2>4 DEF Data, DataType, ProcStopped
<1>6. \A t \in Slots : t # s => w[t].id # i /\ w[t].pid # i
  BY <1>1 DEF Data, Distinct, SlotsOK, SlotOK
<1>7. SlotsOK'
  <2> SUFFICES ASSUME NEW t \in Slots PROVE SlotOK(w[t])'
    BY DEF SlotsOK
  <2>1. CASE t = s
    BY <1>4, <2>1 DEF SlotOK, Blank, Data, DataType
  <2>2. CASE t # s
    <3>1. /\ SlotOK(w[t]) /\ w[t] \in SlotRec /\ w'[t] = w[t] /\ w[t].id # i /\ w[t].pid # i
      BY <1>4, <1>6, <2>2 DEF Data, DataType, SlotsOK
    <3>2. w[t].id # 0 => w[t].id \in Ids /\ (w[t].pid # 0 => w[t].pid = w[t].id)
      BY <3>1, MaxTasksAssumption DEF SlotRec, SlotOK
    <3>3. w[t].id # 0 => proc'[w[t].id] = proc[w[t].id]
      BY <1>1, <1>3, <3>1, <3>2 DEF SlotOK
    <3>4. w[t].id # 0 => told'[w[t].id] = told[w[t].id]
      BY <1>1, <1>2, <3>1, <3>2 DEF Data, DataType
    <3> QED BY <3>1, <3>2, <3>3, <3>4 DEF SlotOK, SlotRec
  <2> QED BY <2>1, <2>2
<1>8. Distinct'
  BY <1>4 DEF Data, DataType, Distinct, Blank
<1>9. ProcsOK'
  <2> SUFFICES ASSUME NEW j \in Ids
               PROVE  /\ j > next_id => proc'[j] = "none" /\ told'[j] = <<>>
                      /\ proc'[j] \in {"none", "boot", "run"} => log[j] = "none"
                      /\ proc'[j] \in Unreaped =>
                            \E t \in Slots : w'[t].pid = j /\ w'[t].running
    BY DEF ProcsOK
  <2>1. /\ j > next_id => proc[j] = "none" /\ told[j] = <<>> /\ j # i
        /\ proc[j] \in {"none", "boot", "run"} => log[j] = "none"
        /\ proc[j] \in Unreaped => \E t \in Slots : w[t].pid = j /\ w[t].running
    BY <1>1 DEF Data, ProcsOK, DataType
  <2>2. CASE w[s].running /\ w[s].pid = j
    BY <1>1, <1>3, <2>1, <2>2 DEF Unreaped, SlotOK
  <2>3. CASE ~(w[s].running /\ w[s].pid = j)
    <3>1. proc'[j] = proc[j]
      BY <1>3, <2>3
    <3>2. j # i => told'[j] = told[j]
      BY <1>1, <1>2 DEF Data, DataType
    <3>3. \A t \in Slots : w[t].pid = j /\ w[t].running => w'[t] = w[t]
      BY <1>4, <2>3
    <3> QED BY <2>1, <3>1, <3>2, <3>3
  <2> QED BY <2>2, <2>3
<1>10. ToldOK'
  <2> SUFFICES ASSUME NEW j \in Ids, told'[j] # <<>>
               PROVE  \E b \in Says :
                        /\ told'[j] = <<b>>
                        /\ b \in Outcomes /\ proc'[j] # "none" => log'[j] = b
                        /\ b = "silence" => log'[j] = "none" /\ proc'[j] = "reaped"
    BY DEF ToldOK
  <2>1. CASE j = i
    <3>1. told'[j] = <<a>>
      BY <1>1, <1>2, <2>1 DEF Data, DataType
    <3>2. w[s].fallback => proc'[j] = "none"
      BY <1>1, <1>3, <2>1 DEF SlotOK
    <3>3. ~w[s].running /\ ~w[s].fallback => proc'[j] = "reaped"
      BY <1>1, <1>3, <2>1 DEF SlotOK, Unreaped, Data, DataType
    <3> QED BY <2>1, <3>1, <3>2, <3>3
  <2>2. CASE j # i
    <3>1. told'[j] = told[j]
      BY <1>1, <1>2, <2>2 DEF Data, DataType
    <3>2. proc'[j] = proc[j]
      BY <1>1, <1>3, <2>2 DEF SlotOK
    <3> QED BY <2>2, <3>1, <3>2 DEF Data, ToldOK
  <2> QED BY <2>1, <2>2
<1> QED BY <1>5, <1>7, <1>8, <1>9, <1>10 DEF Data

\* A new task takes the next number, which nothing has used.
LEMMA BeginStep ==
    ASSUME Data, alive, NEW s \in Slots, w[s].id = 0, next_id < MaxTasks,
           NEW here \in BOOLEAN,
           w' = [w EXCEPT ![s] = IF here THEN Fallback(next_id + 1) ELSE Spawned(next_id + 1)],
           proc' = IF here THEN proc ELSE [proc EXCEPT ![next_id + 1] = "boot"],
           next_id' = next_id + 1, UNCHANGED <<log, told, alive>>
    PROVE  Data'
<1> DEFINE i == next_id + 1
           r == IF here THEN Fallback(i) ELSE Spawned(i)
<1>1. i \in Ids /\ proc[i] = "none" /\ told[i] = <<>> /\ log[i] = "none"
  BY MaxTasksAssumption DEF Data, DataType, ProcsOK
<1>2. /\ r \in SlotRec /\ r.id = i /\ r.live /\ r.said = "none" /\ ~r.ended
      /\ r.fallback = here /\ r.running = ~here /\ r.lifeline = ~here
      /\ r.pid = (IF here THEN 0 ELSE i) /\ r.fd = (IF here THEN 0 ELSE i)
  <2>1. CASE here
    <3>1. r = [id |-> i, live |-> TRUE, running |-> FALSE, ended |-> FALSE, fallback |-> TRUE,
               pid |-> 0, lifeline |-> FALSE, fd |-> 0, said |-> "none"]
      BY <2>1 DEF Fallback, Begun, Blank
    <3>2. here = TRUE
      BY <2>1
    <3> HIDE DEF r
    <3>3. i \in 0..MaxTasks
      BY <1>1, MaxTasksAssumption
    <3>4. r \in SlotRec
      BY <3>1, <3>3, MaxTasksAssumption DEF SlotRec
    <3> QED BY <3>1, <3>2, <3>4
  <2>2. CASE ~here
    <3>1. r = [id |-> i, live |-> TRUE, running |-> TRUE, ended |-> FALSE, fallback |-> FALSE,
               pid |-> i, lifeline |-> TRUE, fd |-> i, said |-> "none"]
      BY <2>2 DEF Spawned, Begun, Blank
    <3>2. here = FALSE
      BY <2>2
    <3> HIDE DEF r
    <3>3. i \in 0..MaxTasks
      BY <1>1, MaxTasksAssumption
    <3>4. r \in SlotRec
      BY <3>1, <3>3, MaxTasksAssumption DEF SlotRec
    <3> QED BY <3>1, <3>2, <3>4
  <2> QED BY <2>1, <2>2
<1>3. \A t \in Slots : w'[t] = IF t = s THEN r ELSE w[t]
  BY DEF Data, DataType
<1>4. \A j \in Ids : proc'[j] = IF j = i /\ ~here THEN "boot" ELSE proc[j]
  BY <1>1 DEF Data, DataType
<1>5. \A t \in Slots : w[t].id <= next_id /\ w[t].id # i /\ w[t].pid # i /\ w[t] \in SlotRec
  BY <1>1 DEF Data, DataType, SlotsOK, SlotOK, SlotRec
<1>6. DataType'
  BY <1>1, <1>2 DEF Data, DataType
<1>7. SlotsOK'
  BY <1>1, <1>2, <1>3, <1>4, <1>5 DEF Data, DataType, SlotsOK, SlotOK, SlotRec, Unreaped
<1>8. Distinct'
  BY <1>1, <1>2, <1>3, <1>5 DEF Data, DataType, Distinct
<1>9. ProcsOK'
  <2> SUFFICES ASSUME NEW j \in Ids
               PROVE  /\ j > i => proc'[j] = "none" /\ told[j] = <<>>
                      /\ proc'[j] \in {"none", "boot", "run"} => log[j] = "none"
                      /\ proc'[j] \in Unreaped =>
                            \E t \in Slots : w'[t].pid = j /\ w'[t].running
    BY DEF ProcsOK
  <2>1. CASE j = i
    <3>1. w'[s] = r /\ log[j] = "none" /\ told[j] = <<>>
      BY <1>1, <1>3, <2>1
    <3>2. ~here => proc'[j] = "boot" /\ r.pid = j /\ r.running
      BY <1>2, <1>4, <2>1
    <3>3. here => proc'[j] = "none"
      BY <1>1, <1>4, <2>1
    <3>4. ~(j > i)
      BY <2>1, <1>1
    <3> QED BY <3>1, <3>2, <3>3, <3>4 DEF Unreaped
  <2>2. CASE j # i
    <3>1. \A t \in Slots : w[t].pid = j /\ w[t].running => t # s
      BY DEF Data, DataType, SlotsOK, SlotOK, SlotRec
    <3> QED BY <1>3, <1>4, <2>2, <3>1 DEF Data, DataType, ProcsOK
  <2> QED BY <2>1, <2>2
<1>10. ToldOK'
  BY <1>1, <1>4 DEF Data, DataType, ToldOK
<1> QED BY <1>6, <1>7, <1>8, <1>9, <1>10 DEF Data

\* Stopping every worker, with the conversation (TaskRelease) or with the parent (ParentExit).
LEMMA ReleaseStep ==
    ASSUME Data, alive, w' = [s \in Slots |-> Blank], proc' = ProcStopped(Slots),
           UNCHANGED <<next_id, log, told, alive>>
    PROVE  Data'
<1>1. Blank \in SlotRec
  BY MaxTasksAssumption DEF SlotRec, Blank
<1>2. \A j \in Ids : proc'[j] = IF \E s \in Slots : w[s].running /\ w[s].pid = j
                              THEN "reaped" ELSE proc[j]
  BY DEF ProcStopped
<1>3. \A j \in Ids : proc'[j] \notin Unreaped
  BY <1>2 DEF Data, ProcsOK, Unreaped
<1>4. \A j \in Ids : proc'[j] # proc[j] => proc[j] # "none" /\ proc'[j] = "reaped"
  BY <1>2 DEF Data, DataType, SlotsOK, SlotOK
<1>5. DataType'
  BY <1>1 DEF Data, DataType, ProcStopped
<1>6. SlotsOK' /\ Distinct'
  BY DEF SlotsOK, SlotOK, Distinct, Blank, Data, DataType
<1>7. ProcsOK'
  BY <1>3, <1>4 DEF Data, DataType, ProcsOK, Unreaped
<1>8. ToldOK'
  BY <1>4 DEF Data, ToldOK
<1> QED BY <1>5, <1>6, <1>7, <1>8 DEF Data

LEMMA ExitStep ==
    ASSUME Data, alive, w' = [s \in Slots |-> DropLog(Stopped(w[s]))],
           proc' = ProcStopped(Slots), UNCHANGED <<next_id, log, told>>, ~alive'
    PROVE  Data'
<1>1. \A s \in Slots : w[s] \in SlotRec /\ SlotOK(w[s])
  BY DEF Data, DataType, SlotsOK
<1>2. \A s \in Slots :
        w'[s] = [w[s] EXCEPT !.lifeline = FALSE, !.running = FALSE, !.fd = 0]
  BY <1>1 DEF Stopped, DropLog, SlotRec
<1>3. \A s \in Slots :
        /\ w'[s] \in SlotRec /\ w'[s].id = w[s].id /\ w'[s].live = w[s].live
        /\ w'[s].pid = w[s].pid /\ w'[s].fallback = w[s].fallback /\ ~w'[s].running
        /\ w'[s].ended = w[s].ended /\ w'[s].said = w[s].said /\ w'[s].fd = 0
  <2> SUFFICES ASSUME NEW s \in Slots
               PROVE  /\ w'[s] \in SlotRec /\ w'[s].id = w[s].id /\ w'[s].live = w[s].live
                      /\ w'[s].pid = w[s].pid /\ w'[s].fallback = w[s].fallback
                      /\ ~w'[s].running /\ w'[s].ended = w[s].ended
                      /\ w'[s].said = w[s].said /\ w'[s].fd = 0
    OBVIOUS
  <2>1. w[s] \in SlotRec /\ 0 \in 0..MaxTasks
    BY <1>1, MaxTasksAssumption
  <2>2. w'[s] = [w[s] EXCEPT !.lifeline = FALSE, !.running = FALSE, !.fd = 0]
    BY <1>2
  <2> QED BY <2>1, <2>2 DEF SlotRec
<1>4. \A j \in Ids : proc'[j] = IF \E s \in Slots : w[s].running /\ w[s].pid = j
                              THEN "reaped" ELSE proc[j]
  BY DEF ProcStopped
<1>5. \A j \in Ids : proc'[j] # proc[j] => proc[j] # "none" /\ proc'[j] = "reaped"
  BY <1>1, <1>4 DEF SlotOK
<1>6. DataType'
  BY <1>3 DEF Data, DataType, ProcStopped
<1>7. SlotsOK'
  <2> SUFFICES ASSUME NEW s \in Slots PROVE SlotOK(w[s])'
    BY DEF SlotsOK
  <2>1. w[s].fallback => proc'[w[s].id] = "none"
    BY <1>1, <1>5, MaxTasksAssumption DEF SlotOK, SlotRec
  <2> QED BY <1>1, <1>3, <2>1 DEF SlotOK
<1>8. Distinct'
  BY <1>3 DEF Data, Distinct
<1>9. ProcsOK'
  BY <1>5 DEF Data, DataType, ProcsOK
<1>10. ToldOK'
  BY <1>5 DEF Data, ToldOK
<1> QED BY <1>6, <1>7, <1>8, <1>9, <1>10 DEF Data

(* The parent's actions, one by one. *)

ControlType ==
    /\ at \in {"idle", "read", "reap", "test", "last", "collect", "here"}
    /\ cur \in 0..NSlots
    /\ fresh \in BOOLEAN /\ ran \in BOOLEAN
    /\ pump \in 0..NSlots /\ reaping \in BOOLEAN
    /\ sigint \in BOOLEAN /\ alive \in BOOLEAN

LEMMA IInvSplit == IInv <=> Data /\ ControlType /\ ControlOK
BY DEF IInv, TypeOK, Data, DataType, ControlType

LEMMA StartStep == ASSUME IInv, TaskStart PROVE IInv'
<1>0. Data /\ ControlType /\ ControlOK
  BY IInvSplit
<1>1. PICK s \in TaskSlot :
        /\ w' = [w EXCEPT ![s] = Spawned(next_id + 1)]
        /\ \/ Return
           \/ at' = "read" /\ cur' = s /\ fresh' = TRUE /\ UNCHANGED ran
  BY DEF TaskStart
<1>2. s \in Slots /\ ~w[s].live
  BY DEF TaskSlot, First, Free, Active
<1>3. w[s].id = 0 /\ next_id < MaxTasks /\ Quiet
  BY <1>2, <1>0 DEF TaskStart, Data, DataType, SlotsOK, SlotOK
<1>4. Data'
  BY <1>0, <1>1, <1>2, <1>3, BeginStep DEF TaskStart, Quiet
<1>5. w'[s].live /\ ~w'[s].fallback
  BY <1>0, <1>1, <1>2 DEF Data, DataType, Spawned, Begun, Blank
<1>6. ControlType'
  <2>1. UNCHANGED <<pump, reaping, sigint, alive>>
    BY DEF TaskStart
  <2>2. s \in 0..NSlots /\ 0 \in 0..NSlots
    BY <1>2, NSlotsAssumption
  <2> QED BY <1>0, <1>1, <2>1, <2>2 DEF ControlType, Return
<1>7. ControlOK'
  BY <1>0, <1>1, <1>2, <1>3, <1>5 DEF TaskStart, ControlOK, Return, Quiet
<1> QED BY <1>4, <1>6, <1>7 DEF IInv, TypeOK, Data, DataType, ControlType

LEMMA StartHereStep == ASSUME IInv, TaskStartHere PROVE IInv'
<1>0. Data /\ ControlType /\ ControlOK
  BY IInvSplit
<1>1. PICK s \in TaskSlot : w' = [w EXCEPT ![s] = Fallback(next_id + 1)] /\ cur' = s
  BY DEF TaskStartHere
<1>2. s \in Slots /\ ~w[s].live
  BY DEF TaskSlot, First, Free, Active
<1>3. w[s].id = 0 /\ next_id < MaxTasks /\ Quiet
  BY <1>2, <1>0 DEF TaskStartHere, Data, DataType, SlotsOK, SlotOK
<1>4. Data'
  BY <1>0, <1>1, <1>2, <1>3, BeginStep DEF TaskStartHere, Quiet
<1>5. w'[s].live /\ w'[s].fallback
  BY <1>0, <1>1, <1>2 DEF Data, DataType, Fallback, Begun, Blank
<1>6. ControlType'
  <2>1. /\ at' = "here" /\ fresh' = TRUE /\ ran' = FALSE
        /\ UNCHANGED <<pump, reaping, sigint, alive>>
    BY DEF TaskStartHere
  <2>2. s \in 0..NSlots
    BY <1>2, NSlotsAssumption
  <2> QED BY <1>0, <1>1, <2>1, <2>2 DEF ControlType
<1>7. ControlOK'
  BY <1>0, <1>1, <1>2, <1>3, <1>5 DEF TaskStartHere, ControlOK, Quiet
<1> QED BY <1>4, <1>6, <1>7 DEF IInv, TypeOK, Data, DataType, ControlType

LEMMA MoveStep ==
    ASSUME IInv, UNCHANGED <<w, next_id, proc, log, told>>, alive' => alive,
           ControlType', ControlOK'
    PROVE  IInv'
<1>1. Data'
  BY IInvSplit, ControlStep
<1> QED BY <1>1 DEF IInv, TypeOK, Data, DataType, ControlType

LEMMA CollectCallStep == ASSUME IInv, NEW i \in Ids, TaskCollect(i) PROVE IInv'
<1>0. Data /\ ControlType /\ ControlOK
  BY IInvSplit
<1>1. PICK s \in Slots :
        /\ Named(i, s) /\ cur' = s /\ fresh' = FALSE
        /\ at' = IF w[s].fallback /\ ~w[s].ended THEN "here"
                 ELSE IF ~w[s].ended /\ (w[s].running \/ w[s].fd # 0) THEN "read"
                 ELSE "collect"
  BY DEF TaskCollect
<1>2. /\ Quiet /\ ran' = FALSE
      /\ UNCHANGED <<w, next_id, proc, log, told, pump, reaping, sigint, alive>>
  BY DEF TaskCollect
<1>3. /\ w[s].live /\ (w[s].fallback => ~w[s].ended)
      /\ ~w[s].fallback /\ ~w[s].ended => w[s].fd # 0
  BY <1>0, <1>1, <1>2, MaxTasksAssumption
     DEF Named, Quiet, Data, DataType, SlotsOK, SlotOK, SlotRec
<1>4. ControlType'
  <2>1. s \in 0..NSlots
    BY NSlotsAssumption
  <2> QED BY <1>0, <1>1, <1>2, <2>1 DEF ControlType
<1>5. ControlOK'
  BY <1>0, <1>1, <1>2, <1>3 DEF ControlOK, Quiet
<1> QED BY <1>2, <1>4, <1>5, MoveStep

LEMMA DropStep == ASSUME IInv, NEW i \in Ids, TaskDrop(i) PROVE IInv'
<1>0. Data /\ ControlType /\ ControlOK
  BY IInvSplit
<1>1. PICK s \in Slots :
        Named(i, s) /\ w' = [w EXCEPT ![s] = Blank] /\ proc' = ProcStopped({s})
  BY DEF TaskDrop, Retired
<1>2. /\ Quiet /\ told' = [told EXCEPT ![i] = Append(@, "dropped")]
      /\ UNCHANGED <<next_id, log, at, cur, fresh, ran, pump, reaping, sigint, alive>>
  BY DEF TaskDrop, Answer
<1>3. Data'
  BY <1>0, <1>1, <1>2, RetireStep DEF Named, Quiet, Says, Outcomes
<1>4. ControlType' /\ ControlOK'
  BY <1>0, <1>2 DEF ControlType, ControlOK, Quiet
<1> QED BY <1>3, <1>4 DEF IInv, TypeOK, Data, DataType, ControlType

\* A read by the wait loop, the last read after the worker is gone, a read by the pump.
LEMMA ReadsStep == ASSUME IInv, WaitRead \/ WaitLast \/ PumpRead PROVE IInv'
<1>0. Data /\ ControlType /\ ControlOK
  BY IInvSplit
<1> DEFINE s == IF at \in {"read", "last"} /\ pump = 0 THEN cur ELSE pump
<1>1. /\ s \in Slots /\ w' = [w EXCEPT ![s] = Read(w[s])] /\ alive
      /\ UNCHANGED <<next_id, proc, log, told, cur, fresh, ran, pump, sigint, alive>>
  BY <1>0, NSlotsAssumption DEF WaitRead, WaitLast, PumpRead, PumpStep, ControlOK, ControlType
<1>2. /\ Data'
      /\ w'[s].ended \/ w[s].pid = 0 \/ ~alive \/ log[w[s].id] = "none"
  <2> HIDE DEF s
  <2> QED BY <1>0, <1>1, ReadStep
<1>3. \A t \in Slots : /\ w'[t].live = w[t].live /\ w'[t].fallback = w[t].fallback
                       /\ w'[t].running = w[t].running /\ w'[t].id = w[t].id
                       /\ w[t].ended => w'[t].ended
  <2> SUFFICES ASSUME NEW t \in Slots
               PROVE  /\ w'[t].live = w[t].live /\ w'[t].fallback = w[t].fallback
                      /\ w'[t].running = w[t].running /\ w'[t].id = w[t].id
                      /\ w[t].ended => w'[t].ended
    OBVIOUS
  <2>1. w[t] \in SlotRec /\ w'[t] = IF t = s THEN Read(w[t]) ELSE w[t]
    BY <1>0, <1>1 DEF Data, DataType
  <2> QED BY <2>1 DEF Read, SlotRec
<1>4. ControlType'
  BY <1>0, <1>1 DEF ControlType, WaitRead, WaitLast, PumpRead, PumpStep
<1>5. ControlOK'
  <2>1. CASE WaitRead
    BY <1>0, <1>1, <1>3, <2>1 DEF ControlOK, WaitRead
  <2>2. CASE WaitLast
    <3>1. s = cur /\ w[cur].pid # 0
      BY <1>0, <1>1, <2>2 DEF WaitLast, ControlOK, Data, SlotsOK, SlotOK
    <3> QED BY <1>0, <1>1, <1>2, <1>3, <2>2, <3>1 DEF ControlOK, WaitLast
  <2>3. CASE PumpRead
    BY <1>0, <1>1, <1>3, <2>3 DEF ControlOK, PumpRead, PumpStep
  <2> QED BY <2>1, <2>2, <2>3
<1> QED BY <1>2, <1>4, <1>5 DEF IInv, TypeOK, Data, DataType, ControlType

LEMMA ReapsStep == ASSUME IInv, WaitReap \/ PumpReap PROVE IInv'
<1>0. Data /\ ControlType /\ ControlOK
  BY IInvSplit
<1> DEFINE s == IF WaitReap THEN cur ELSE pump
<1>1. /\ s \in Slots /\ w' = [w EXCEPT ![s] = Reaped(w[s])] /\ proc' = ProcReaped(w[s])
      /\ alive /\ UNCHANGED <<next_id, log, told, cur, fresh, ran, sigint, alive>>
  BY <1>0, NSlotsAssumption DEF WaitReap, PumpReap, PumpStep, ControlOK, ControlType
<1>2. Data'
  <2> HIDE DEF s
  <2> QED BY <1>0, <1>1, ReapStep
<1>3. \A t \in Slots : /\ w'[t].live = w[t].live /\ w'[t].fallback = w[t].fallback
                       /\ w'[t].running => w[t].running
  <2> SUFFICES ASSUME NEW t \in Slots
               PROVE  /\ w'[t].live = w[t].live /\ w'[t].fallback = w[t].fallback
                      /\ w'[t].running => w[t].running
    OBVIOUS
  <2>1. w[t] \in SlotRec /\ w'[t] = IF t = s THEN Reaped(w[t]) ELSE w[t]
    BY <1>0, <1>1 DEF Data, DataType
  <2> QED BY <2>1 DEF Reaped, SlotRec
<1>4. CASE WaitReap
  <2>1. ControlType'
    BY <1>0, <1>1, <1>4 DEF ControlType, WaitReap
  <2>2. ControlOK'
    BY <1>0, <1>1, <1>3, <1>4 DEF ControlOK, WaitReap
  <2> QED BY <1>2, <2>1, <2>2 DEF IInv, TypeOK, Data, DataType, ControlType
<1>5. CASE PumpReap
  <2>1. pump' \in 0..NSlots /\ reaping' = FALSE /\ UNCHANGED at
    BY <1>5, NSlotsAssumption DEF PumpReap, PumpNext, After, First, PumpStep
  <2>2. ControlType'
    BY <1>0, <1>1, <2>1 DEF ControlType
  <2>3. at \in {"idle", "here"}
    BY <1>0, <1>5 DEF ControlOK, PumpReap, ControlType
  <2>4. ControlOK'
    BY <1>0, <1>1, <1>3, <2>1, <2>3 DEF ControlOK
  <2> QED BY <1>2, <2>2, <2>4 DEF IInv, TypeOK, Data, DataType, ControlType
<1> QED BY <1>4, <1>5

LEMMA WaitMoveStep ==
    ASSUME IInv, WaitOver \/ WaitGone \/ WaitTimeout \/ WaitAgain PROVE IInv'
<1>0. Data /\ ControlType /\ ControlOK
  BY IInvSplit
<1>1. ControlType'
  BY <1>0 DEF WaitOver, WaitGone, WaitTimeout, WaitAgain, AfterDrain, ControlType
<1>2. ControlOK'
  BY <1>0 DEF WaitOver, WaitGone, WaitTimeout, WaitAgain, AfterDrain, ControlOK
<1> QED BY <1>1, <1>2, MoveStep DEF WaitOver, WaitGone, WaitTimeout, WaitAgain, AfterDrain

LEMMA CollectStep == ASSUME IInv, Collect PROVE IInv'
<1>0. Data /\ ControlType /\ ControlOK
  BY IInvSplit
<1>1. /\ cur \in Slots /\ w[cur].live /\ ~w[cur].fallback /\ alive
      /\ w[cur].ended \/ w[cur].running \/ sigint \/ log[w[cur].id] = "none"
  BY <1>0 DEF Collect, ControlOK
<1>2. Return /\ pump = 0 /\ UNCHANGED <<next_id, log, pump, reaping, sigint, alive>>
  BY <1>0 DEF Collect, ControlOK
<1>3. ControlType' /\ ControlOK'
  BY <1>0, <1>2, NSlotsAssumption DEF Return, ControlType, ControlOK
<1>4. CASE ~Ended(w[cur])
  <2>1. UNCHANGED <<told, w, proc>>
    BY <1>4 DEF Collect
  <2> QED BY <1>2, <1>3, <2>1, MoveStep
<1>5. CASE Ended(w[cur])
  <2> DEFINE a == Word(w[cur])
  <2>1. /\ told' = [told EXCEPT ![w[cur].id] = Append(@, a)]
        /\ w' = [w EXCEPT ![cur] = Blank] /\ proc' = ProcStopped({cur})
    BY <1>5 DEF Collect, Answer, Retired
  <2>2. /\ w[cur] \in SlotRec /\ SlotOK(w[cur])
    BY <1>0, <1>1 DEF Data, DataType, SlotsOK
  <2>3. w[cur].pid = w[cur].id
    BY <1>1, <2>2 DEF SlotOK
  <2>4. a \in Says /\ (a \in Outcomes => log[w[cur].id] = a)
    BY <2>2, <2>3 DEF Word, SlotOK, SlotRec, Says, Outcomes
  <2>5. a = "silence" => ~w[cur].running /\ log[w[cur].id] = "none"
    BY <1>1, <1>5, <2>2 DEF Word, Ended, SlotOK, SlotRec, Outcomes
  <2>6. Data'
    <3> HIDE DEF a
    <3> QED BY <1>0, <1>1, <1>2, <2>1, <2>4, <2>5, RetireStep
  <2> QED BY <1>3, <2>6 DEF IInv, TypeOK, Data, DataType, ControlType
<1> QED BY <1>4, <1>5

LEMMA HereEndStep == ASSUME IInv, NEW o \in Outcomes, HereEnd(o) PROVE IInv'
<1>0. Data /\ ControlType /\ ControlOK
  BY IInvSplit
<1>1. cur \in Slots /\ w[cur].live /\ w[cur].fallback /\ alive
  BY <1>0 DEF HereEnd, HereStep, ControlOK
<1>2. /\ Return /\ pump = 0 /\ UNCHANGED <<next_id, log, pump, reaping, sigint, alive>>
      /\ told' = [told EXCEPT ![w[cur].id] = Append(@, o)]
      /\ w' = [w EXCEPT ![cur] = Blank] /\ proc' = ProcStopped({cur})
  BY DEF HereEnd, HereStep, Answer, Retired
<1>3. ControlType' /\ ControlOK'
  BY <1>0, <1>2, NSlotsAssumption DEF Return, ControlType, ControlOK
<1>4. o \in Says /\ o # "silence"
  BY DEF Says, Outcomes
<1>5. Data'
  BY <1>0, <1>1, <1>2, <1>4, RetireStep
<1> QED BY <1>3, <1>5 DEF IInv, TypeOK, Data, DataType, ControlType

LEMMA IdleStep ==
    ASSUME IInv, HereRound \/ HerePark \/ PumpStart \/ Sigint \/ SigintTaken \/ ParentCrash
    PROVE  IInv'
<1>0. Data /\ ControlType /\ ControlOK
  BY IInvSplit
<1> USE DEF HereRound, HerePark, HereStep, PumpStart, PumpStep, Sigint, SigintTaken,
            ParentCrash, Return, Quiet
<1>1. ControlType'
  <2>1. PumpStart => pump' \in 0..NSlots
    BY NSlotsAssumption DEF PumpNext, After, First
  <2> QED BY <1>0, <2>1, NSlotsAssumption DEF ControlType
<1>2. ControlOK'
  BY <1>0 DEF ControlOK
<1> QED BY <1>1, <1>2, MoveStep

LEMMA StopStep == ASSUME IInv, TaskRelease \/ ParentExit PROVE IInv'
<1>0. Data /\ ControlType /\ ControlOK
  BY IInvSplit
<1>1. ControlType' /\ ControlOK'
  <2>1. /\ at = "idle" /\ alive' \in BOOLEAN
        /\ UNCHANGED <<at, cur, fresh, ran, pump, reaping, sigint>>
    BY <1>0 DEF TaskRelease, ParentExit, Quiet, ControlType
  <2>2. ControlType'
    BY <1>0, <2>1 DEF ControlType
  <2>3. ControlOK'
    BY <1>0, <2>1 DEF ControlOK
  <2> QED BY <2>2, <2>3
<1>2. Data'
  BY <1>0, ReleaseStep, ExitStep DEF TaskRelease, ParentExit, Quiet
<1> QED BY <1>1, <1>2 DEF IInv, TypeOK, Data, DataType, ControlType

LEMMA NextIInv == IInv /\ [Next]_vars => IInv'
<1> SUFFICES ASSUME IInv, [Next]_vars PROVE IInv'
  OBVIOUS
<1>1. ASSUME TaskStart PROVE IInv'            BY <1>1, StartStep
<1>2. ASSUME TaskStartHere PROVE IInv'        BY <1>2, StartHereStep
<1>3. ASSUME NEW i \in Ids, TaskCollect(i) PROVE IInv'   BY <1>3, CollectCallStep
<1>4. ASSUME NEW i \in Ids, TaskDrop(i) PROVE IInv'      BY <1>4, DropStep
<1>5. ASSUME WaitNext PROVE IInv'
  BY <1>5, ReadsStep, ReapsStep, WaitMoveStep, CollectStep DEF WaitNext
<1>6. ASSUME NEW o \in Outcomes, HereEnd(o) PROVE IInv'  BY <1>6, HereEndStep
<1>7. ASSUME PumpRead \/ PumpReap PROVE IInv'
  BY <1>7, ReadsStep, ReapsStep
<1>8. ASSUME HereRound \/ HerePark \/ PumpStart \/ Sigint \/ SigintTaken \/ ParentCrash
      PROVE  IInv'
  BY <1>8, IdleStep
<1>9. ASSUME TaskRelease \/ ParentExit PROVE IInv'       BY <1>9, StopStep
<1>10. ASSUME NEW i \in Ids, WorkerNext(i) PROVE IInv'   BY <1>10, WorkerStep
<1>11. CASE UNCHANGED vars
  <2>1. UNCHANGED <<w, next_id, proc, log, told, at, cur, fresh, ran, pump, reaping, sigint, alive>>
    BY <1>11 DEF vars
  <2>2. ControlType' /\ ControlOK'
    BY <2>1, IInvSplit DEF ControlType, ControlOK
  <2> QED BY <2>1, <2>2, MoveStep
<1> QED BY <1>1, <1>2, <1>3, <1>4, <1>5, <1>6, <1>7, <1>8, <1>9, <1>10, <1>11
        DEF Next, ParentNext

\* Every behaviour of the task tool stays inside the inductive invariant.
THEOREM Invariance == Spec => []IInv
BY InitIInv, NextIInv, PTL DEF Spec

\* Type correctness, for any number of slots and tasks.
THEOREM TypeCorrect == Spec => []TypeOK
<1>1. IInv => TypeOK
  BY DEF IInv
<1> QED BY <1>1, Invariance, PTL

\* No worker process is left without the slot that can stop it while the parent lives.
THEOREM OwnedWorkers == Spec => []WorkersOwned
<1>1. IInv => WorkersOwned
  <2> SUFFICES ASSUME IInv, alive, NEW i \in Ids, proc[i] \notin {"none", "reaped"}
               PROVE  \E s \in Slots : Owner(i, s) /\ \A t \in Slots \ {s} : w[t].pid # i
    BY DEF WorkersOwned
  <2>1. PICK s \in Slots : w[s].pid = i /\ w[s].running
    BY DEF IInv, TypeOK, ProcsOK, Unreaped
  <2>2. SlotOK(w[s]) /\ w[s] \in SlotRec
    BY DEF IInv, TypeOK, SlotsOK
  <2>3. Owner(i, s)
    BY <2>1, <2>2 DEF Owner, SlotOK
  <2>4. \A t \in Slots \ {s} : w[t].pid # i
    BY <2>1, <2>2 DEF IInv, SlotsOK, SlotOK, Distinct
  <2> QED BY <2>3, <2>4
<1> QED BY <1>1, Invariance, PTL

\* A task has at most one final answer, whatever the model, the user and the workers do.
THEOREM OneAnswer == Spec => []AnsweredOnce
<1>1. IInv => AnsweredOnce
  <2> SUFFICES ASSUME IInv, NEW i \in Ids PROVE Len(told[i]) <= 1
    BY DEF AnsweredOnce
  <2>1. CASE told[i] = <<>>
    BY <2>1
  <2>2. CASE told[i] # <<>>
    <3>1. PICK a \in Says : told[i] = <<a>>
      BY <2>2 DEF IInv, ToldOK
    <3> QED BY <3>1
  <2> QED BY <2>1, <2>2
<1> QED BY <1>1, Invariance, PTL

\* The answer is the one the task's own worker wrote.
THEOREM OwnWord == Spec => []WorkersWord
<1>1. IInv => WorkersWord
  BY DEF IInv, ToldOK, WorkersWord
<1> QED BY <1>1, Invariance, PTL

\* Without an interrupt a report that was written is never answered with silence: the
\* drain that follows waitpid reads what the worker wrote before it exited.
THEOREM NoLostReport == Spec => []SilenceUnlessCut
<1>1. IInv => SilenceUnlessCut
  BY DEF IInv, ToldOK, SilenceUnlessCut
<1> QED BY <1>1, Invariance, PTL

--------------------------------------------------------------------------------
(* The board. The workers implement the board the model is promised: every step
   of the parent and of the workers starts a task, settles one, forgets all of
   them or leaves the board as it is. Besides IInv this needs the limit on the
   slots in use, which gives the limit on the open tasks: an open task has a
   slot of its own. *)

USE DEF Board!Ids

--------------------------------------------------------------------------------
(* The board, read off the slots and the answers *)

TaskFacts ==
    /\ \A i \in Ids : Task[i] = "open" <=> \E s \in Slots : w[s].id = i
    /\ \A i \in Ids : Task[i] = "new" <=> i > next_id
    /\ \A i \in Ids : told[i] # <<>> => Task[i] = told[i][1] /\ Task[i] \in Says

LEMMA TaskIs == IInv => TaskFacts
<1> SUFFICES ASSUME IInv, NEW i \in Ids
             PROVE  /\ Task[i] = "open" <=> \E s \in Slots : w[s].id = i
                    /\ Task[i] = "new" <=> i > next_id
                    /\ told[i] # <<>> => Task[i] = told[i][1] /\ Task[i] \in Says
  BY DEF TaskFacts
<1>0. i \in Nat /\ i # 0 /\ next_id \in Nat
  BY MaxTasksAssumption DEF IInv, TypeOK
<1>1. \A s \in Slots : w[s].id = i => Named(i, s) /\ told[i] = <<>> /\ i <= next_id
  BY <1>0 DEF IInv, SlotsOK, SlotOK, Named
<1>2. \A s \in Slots : Named(i, s) => w[s].id = i
  BY DEF Named
<1>3. CASE told[i] # <<>>
  <2>1. PICK a \in Says : told[i] = <<a>>
    BY <1>3 DEF IInv, ToldOK
  <2>2. Task[i] = a
    <3>1. Task[i] = told[i][1]
      BY <1>3 DEF Task
    <3>2. <<a>>[1] = a
      OBVIOUS
    <3> QED
      BY <2>1, <3>1, <3>2
  <2>3. a # "open" /\ a # "new"
    BY <2>1 DEF Says, Outcomes
  <2>4. ~(i > next_id)
    BY <1>3 DEF IInv, ProcsOK
  <2> QED
    BY <1>1, <1>3, <2>1, <2>2, <2>3, <2>4
<1>4. CASE told[i] = <<>> /\ \E s \in Slots : w[s].id = i
  <2>1. Task[i] = "open"
    BY <1>1, <1>4 DEF Task
  <2> QED
    BY <1>0, <1>1, <1>4, <2>1
<1>5. CASE told[i] = <<>> /\ ~\E s \in Slots : w[s].id = i
  <2>1. Task[i] = IF i <= next_id THEN "gone" ELSE "new"
    BY <1>2, <1>5 DEF Task
  <2> QED
    BY <1>0, <1>5, <2>1
<1> QED
  BY <1>3, <1>4, <1>5

LEMMA TaskIsFunction ==
    /\ DOMAIN Task = Ids /\ Task = [i \in Ids |-> Task[i]]
    /\ DOMAIN Task' = Ids /\ Task' = [i \in Ids |-> Task'[i]]
BY DEF Task

\* The board does not see how a slot's worker is doing.
LEMMA SameBoard ==
    ASSUME IInv, UNCHANGED <<told, next_id>>,
           \A s \in Slots : w'[s].id = w[s].id /\ w'[s].live = w[s].live
    PROVE  Task' = Task
BY DEF Task, Named

--------------------------------------------------------------------------------
(* The limit *)

LEMMA FiniteSlots == IsFiniteSet(Active) /\ Cardinality(Active) \in Nat
<1>1. IsFiniteSet(1..NSlots)
  BY FS_Interval, NSlotsAssumption
<1>2. Active \in SUBSET (1..NSlots)
  BY DEF Active
<1>3. IsFiniteSet(Active)
  BY <1>1, <1>2, FS_Subset
<1> QED
  BY <1>3, FS_CardinalityType

\* Every open task has a slot, and no two the same one.
LEMMA OpenLimited == ASSUME IInv PROVE Cardinality(Board!Open) <= Cardinality(Active)
<1> DEFINE O == Board!Open
           f == [i \in O |-> CHOOSE s \in Slots : w[s].id = i]
<1>1. \A i \in O : i \in Ids /\ \E s \in Slots : w[s].id = i
  BY TaskIs DEF TaskFacts, Board!Open, Board!Ids
<1>2. \A i \in O : f[i] \in Slots /\ w[f[i]].id = i
  BY <1>1
<1>3. \A i \in O : f[i] \in Active
  BY <1>1, <1>2 DEF Active, IInv, SlotsOK, SlotOK
<1>4. f \in [O -> Active]
  BY <1>3
<1>5. \A i, j \in O : f[i] = f[j] => i = j
  BY <1>2
<1> HIDE DEF f, O
<1>6. f \in Injection(O, Active)
  BY <1>4, <1>5 DEF Injection, IsInjective
<1> QED
  BY <1>6, FiniteSlots, FS_Injection DEF O

--------------------------------------------------------------------------------
(* The steps that change the board *)

LEMMA StartBoard ==
    ASSUME IInv, NEW s \in Slots, NEW r, w[s].id = 0, r.id = next_id + 1, r.live,
           next_id < MaxTasks, Cardinality(Active) < Limit,
           w' = [w EXCEPT ![s] = r], next_id' = next_id + 1, told' = told
    PROVE  Board!Start(next_id + 1)
<1> DEFINE k == next_id + 1
<1>0. next_id \in Nat /\ k \in Ids /\ w \in [Slots -> SlotRec] /\ \A i \in Ids : i \in Nat /\ i # 0
  BY MaxTasksAssumption DEF IInv, TypeOK
<1>1. Task[k] = "new" /\ \A j \in 1..(k - 1) : Task[j] # "new"
  <2>1. \A j \in 1..(k - 1) : j \in Ids /\ ~(j > next_id)
    BY MaxTasksAssumption DEF IInv, TypeOK
  <2> QED
    BY <1>0, <2>1, TaskIs DEF TaskFacts
<1>2. Cardinality(Board!Open) < Limit
  <2>1. Board!Open \in SUBSET (1..MaxTasks) /\ IsFiniteSet(1..MaxTasks)
    BY MaxTasksAssumption, FS_Interval DEF Board!Open, Board!Ids
  <2>2. Cardinality(Board!Open) \in Nat
    BY <2>1, FS_Subset, FS_CardinalityType
  <2>3. Limit \in Nat
    BY LimitAssumption, NSlotsAssumption
  <2> QED
    BY <2>2, <2>3, FiniteSlots, OpenLimited
<1>3. \A i \in Ids : Task'[i] = IF i = k THEN "open" ELSE Task[i]
  <2> TAKE i \in Ids
  <2>1. \A t \in Slots : w'[t] = IF t = s THEN r ELSE w[t]
    BY <1>0
  <2>2. CASE i = k
    <3>1. told[i] = <<>>
      BY <1>0, <2>2 DEF IInv, ProcsOK
    <3>2. \E t \in Slots : w'[t].id = i /\ w'[t].live
      BY <2>1, <2>2
    <3> QED
      BY <2>2, <3>1, <3>2 DEF Task, Named
  <2>3. CASE i # k
    <3>1. \A t \in Slots : (w'[t].id = i /\ w'[t].live) <=> (w[t].id = i /\ w[t].live)
      BY <1>0, <2>1, <2>3
    <3>2. i <= next_id' <=> i <= next_id
      BY <1>0, <2>3
    <3> QED
      BY <2>3, <3>1, <3>2 DEF Task, Named
  <2> QED
    BY <2>2, <2>3
<1>4. Task' = [Task EXCEPT ![k] = "open"]
  BY <1>3, TaskIsFunction
<1>5. Board!Cardinality(Board!Open) < Limit
  BY <1>2 DEF Board!Cardinality, Cardinality
<1> QED
  BY <1>1, <1>4, <1>5 DEF Board!Start

LEMMA SettleBoard ==
    ASSUME IInv, NEW s \in Slots, NEW i \in Ids, NEW a \in Says, w[s].id = i,
           w' = [w EXCEPT ![s] = Blank], Answer(i, a), UNCHANGED next_id
    PROVE  Board!Settle(i, a)
<1>0. /\ w \in [Slots -> SlotRec] /\ told \in [Ids -> Seq(Says)] /\ i # 0
      /\ \A j \in Ids : j \in Nat /\ j # 0
  BY MaxTasksAssumption DEF IInv, TypeOK
<1>1. Task[i] = "open" /\ told[i] = <<>>
  BY <1>0, TaskIs DEF TaskFacts, IInv, SlotsOK, SlotOK
<1>2. told'[i] = <<a>> /\ \A j \in Ids \ {i} : told'[j] = told[j]
  BY <1>0, <1>1 DEF Answer
<1>3. \A j \in Ids : Task'[j] = IF j = i THEN a ELSE Task[j]
  <2> TAKE j \in Ids
  <2>1. \A t \in Slots : w'[t] = IF t = s THEN Blank ELSE w[t]
    BY <1>0
  <2>2. CASE j = i
    BY <1>2, <2>2 DEF Task
  <2>3. CASE j # i
    <3>1. \A t \in Slots : (w'[t].id = j /\ w'[t].live) <=> (w[t].id = j /\ w[t].live)
      BY <1>0, <2>1, <2>3 DEF Blank
    <3> QED
      BY <1>2, <2>3, <3>1 DEF Task, Named
  <2> QED
    BY <2>2, <2>3
<1>4. Task' = [Task EXCEPT ![i] = a]
  BY <1>3, TaskIsFunction
<1> QED
  BY <1>1, <1>4 DEF Board!Settle

LEMMA ForgetBoard ==
    ASSUME IInv, w' = [s \in Slots |-> Blank], UNCHANGED <<told, next_id>>
    PROVE  Board!Forget
<1>1. \A i \in Ids : Task'[i] = IF Task[i] = "open" THEN "gone" ELSE Task[i]
  <2> TAKE i \in Ids
  <2>1. \A t \in Slots : ~w'[t].live
    BY DEF Blank
  <2>2. CASE Task[i] = "open"
    <3>1. PICK s \in Slots : w[s].id = i
      BY <2>2, TaskIs DEF TaskFacts
    <3>2. SlotOK(w[s]) /\ i # 0
      BY MaxTasksAssumption DEF IInv, SlotsOK
    <3>3. told[i] = <<>> /\ i <= next_id
      BY <3>1, <3>2 DEF SlotOK
    <3> QED
      BY <2>1, <2>2, <3>3 DEF Task, Named
  <2>3. CASE Task[i] # "open"
    BY <2>1, <2>3 DEF Task, Named
  <2> QED
    BY <2>2, <2>3
<1> QED
  BY <1>1, TaskIsFunction DEF Board!Forget

--------------------------------------------------------------------------------
(* What a step can do to the slots *)

Begins ==
    \E s \in Slots, r \in SlotRec :
        /\ ~w[s].live /\ ~w[s].running /\ w[s].id = 0 /\ r.id = next_id + 1 /\ r.live
        /\ next_id < MaxTasks /\ Cardinality(Active) < Limit
        /\ w' = [w EXCEPT ![s] = r] /\ next_id' = next_id + 1 /\ told' = told

Settles ==
    \E s \in Slots, i \in Ids, a \in Says :
        w[s].id = i /\ w' = [w EXCEPT ![s] = Blank] /\ Answer(i, a) /\ UNCHANGED next_id

Forgets == w' = [s \in Slots |-> Blank] /\ UNCHANGED <<told, next_id>>

Keeps ==
    /\ UNCHANGED <<told, next_id>>
    /\ \A s \in Slots : /\ w'[s].id = w[s].id /\ w'[s].live = w[s].live
                        /\ w'[s].running => w[s].running

\* Reading, reaping and stopping leave a slot's task to it.
LEMMA KeptRecord ==
    ASSUME NEW r \in SlotRec, NEW q \in {Read(r), Reaped(r), DropLog(Stopped(r))}
    PROVE  q.id = r.id /\ q.live = r.live /\ (q.running => r.running)
BY DEF SlotRec, Read, Reaped, DropLog, Stopped

LEMMA SlotKeeps ==
    ASSUME IInv, UNCHANGED <<told, next_id>>, NEW s \in Slots,
           w' = [w EXCEPT ![s] = Read(@)] \/ w' = [w EXCEPT ![s] = Reaped(@)]
    PROVE  Keeps
<1>1. w \in [Slots -> SlotRec]
  BY DEF IInv, TypeOK
<1>2. \A t \in Slots : w'[t] = w[t] \/ w'[t] = Read(w[t]) \/ w'[t] = Reaped(w[t])
  BY <1>1
<1> QED
  BY <1>1, <1>2, KeptRecord DEF Keeps

LEMMA StartBegins ==
    ASSUME IInv, TaskStart \/ TaskStartHere PROVE Begins
<1>0. w \in [Slots -> SlotRec] /\ next_id \in Nat /\ next_id + 1 \in 0..MaxTasks
  BY MaxTasksAssumption DEF IInv, TypeOK, TaskStart, TaskStartHere
<1>1. PICK s \in TaskSlot, r \in {Spawned(next_id + 1), Fallback(next_id + 1)} :
          w' = [w EXCEPT ![s] = r]
  BY DEF TaskStart, TaskStartHere
<1>2. s \in Slots /\ ~w[s].live /\ ~w[s].running /\ Cardinality(Active) < Limit
  BY <1>1 DEF TaskSlot, First, Free, Active
<1>3. w[s].id = 0
  BY <1>0, <1>2 DEF IInv, SlotsOK, SlotOK, SlotRec
<1>4. r \in SlotRec /\ r.id = next_id + 1 /\ r.live
  <2> DEFINE k == next_id + 1
  <2>0. k \in 0..MaxTasks /\ 0 \in 0..MaxTasks
    BY <1>0, MaxTasksAssumption
  <2> HIDE DEF k
  <2>1. Begun(k) \in SlotRec /\ Begun(k).id = k /\ Begun(k).live
    BY <2>0 DEF SlotRec, Begun, Blank
  <2>2. Spawned(k) \in SlotRec /\ Spawned(k).id = k /\ Spawned(k).live
    BY <2>0, <2>1 DEF SlotRec, Spawned
  <2>3. Fallback(k) \in SlotRec /\ Fallback(k).id = k /\ Fallback(k).live
    BY <2>0, <2>1 DEF SlotRec, Fallback
  <2> QED
    BY <1>1, <2>2, <2>3 DEF k
<1>5. next_id < MaxTasks /\ next_id' = next_id + 1 /\ told' = told
  BY DEF TaskStart, TaskStartHere
<1> QED
  BY <1>1, <1>2, <1>3, <1>4, <1>5 DEF Begins

LEMMA EndSettles ==
    ASSUME IInv, cur \in Slots, w[cur].live, NEW a \in Says,
           w' = [w EXCEPT ![cur] = Retired(@)], Answer(w[cur].id, a), UNCHANGED next_id
    PROVE  Settles
<1>1. w[cur].id \in Ids
  <2>1. w[cur].id \in 0..MaxTasks
    BY DEF IInv, TypeOK, SlotRec
  <2>2. w[cur].id # 0
    BY DEF IInv, SlotsOK, SlotOK
  <2> QED
    BY <2>1, <2>2, MaxTasksAssumption
<1> QED
  BY <1>1 DEF Settles, Retired

LEMMA StepKinds ==
    ASSUME IInv, [Next]_vars PROVE Begins \/ Settles \/ Forgets \/ Keeps
<1>0. w \in [Slots -> SlotRec]
  BY DEF IInv, TypeOK
<1>1. CASE TaskStart \/ TaskStartHere
  BY <1>1, StartBegins
<1>2. CASE \E i \in Ids : TaskDrop(i)
  <2>1. PICK i \in Ids : TaskDrop(i)
    BY <1>2
  <2>2. PICK s \in Slots : Named(i, s) /\ w' = [w EXCEPT ![s] = Blank]
    BY <2>1 DEF TaskDrop, Retired
  <2>3. Answer(i, "dropped") /\ UNCHANGED next_id /\ w[s].id = i /\ "dropped" \in Says
    BY <2>1, <2>2 DEF TaskDrop, Named, Says
  <2> QED
    BY <2>2, <2>3 DEF Settles
<1>3. CASE Collect
  <2>1. cur \in Slots /\ w[cur].live /\ UNCHANGED next_id
    BY <1>3 DEF Collect, IInv, ControlOK
  <2>2. CASE Ended(w[cur])
    <3>1. Word(w[cur]) \in Says
      BY <1>0, <2>1 DEF Word, SlotRec, Says
    <3> QED
      BY <1>3, <2>1, <2>2, <3>1, EndSettles DEF Collect
  <2>3. CASE ~Ended(w[cur])
    BY <1>3, <2>1, <2>3 DEF Collect, Keeps
  <2> QED
    BY <2>2, <2>3
<1>4. CASE \E o \in Outcomes : HereEnd(o)
  <2>1. PICK o \in Outcomes : HereEnd(o)
    BY <1>4
  <2>2. cur \in Slots /\ w[cur].live /\ o \in Says
    BY <2>1 DEF HereEnd, HereStep, IInv, ControlOK, Says
  <2> QED
    BY <2>1, <2>2, EndSettles DEF HereEnd
<1>5. CASE TaskRelease
  BY <1>5 DEF TaskRelease, Forgets
<1>6. CASE ParentExit
  <2>1. \A s \in Slots : w'[s] = DropLog(Stopped(w[s]))
    BY <1>6 DEF ParentExit
  <2>2. UNCHANGED <<told, next_id>>
    BY <1>6 DEF ParentExit
  <2> QED
    BY <1>0, <2>1, <2>2, KeptRecord DEF Keeps
<1>7. CASE WaitRead \/ WaitLast \/ WaitReap
  <2>1. cur \in Slots
    BY <1>7 DEF WaitRead, WaitLast, WaitReap, IInv, ControlOK
  <2> QED
    BY <1>7, <2>1, SlotKeeps DEF WaitRead, WaitLast, WaitReap
<1>8. CASE PumpRead \/ PumpReap
  <2>1. pump \in Slots
    BY <1>8, NSlotsAssumption DEF PumpRead, PumpReap, IInv, TypeOK
  <2> QED
    BY <1>8, <2>1, SlotKeeps DEF PumpRead, PumpReap, PumpStep
<1>9. CASE UNCHANGED <<w, told, next_id>>
  BY <1>9 DEF Keeps
<1>10. ASSUME NEW i \in Ids, WorkerNext(i) PROVE UNCHANGED <<w, told, next_id>>
  BY <1>10 DEF WorkerNext, WorkerStart, WorkerFail, WorkerEnd, WorkerHangup, WorkerExit,
               WorkerDie, Worker
<1>11. ASSUME \/ \E i \in Ids : TaskCollect(i)
              \/ WaitOver \/ WaitGone \/ WaitTimeout \/ WaitAgain \/ HereRound \/ HerePark
              \/ PumpStart \/ Sigint \/ SigintTaken \/ ParentCrash \/ UNCHANGED vars
       PROVE  UNCHANGED <<w, told, next_id>>
  BY <1>11 DEF TaskCollect, WaitOver, WaitGone, WaitTimeout, WaitAgain, AfterDrain,
               HereRound, HerePark, PumpStart, PumpStep, Sigint, SigintTaken,
               ParentCrash, vars
<1> QED
  BY <1>1, <1>2, <1>3, <1>4, <1>5, <1>6, <1>7, <1>8, <1>9, <1>10, <1>11
     DEF Next, ParentNext, WaitNext

--------------------------------------------------------------------------------
(* The theorems *)

\* No step of the parent takes a slot beyond the configured number: more tasks than that
\* are never live or running at once.
THEOREM LimitKept == Spec => []LimitHeld
<1>0. Limit \in Nat
  BY LimitAssumption, NSlotsAssumption
<1>1. Init => LimitHeld
  <2> SUFFICES ASSUME Init PROVE LimitHeld
    OBVIOUS
  <2>1. Active = {}
    BY DEF Init, Active, Blank
  <2> QED
    BY <1>0, <2>1, FS_EmptySet DEF LimitHeld
<1>2. ASSUME IInv, LimitHeld, [Next]_vars PROVE LimitHeld'
  <2>0. w \in [Slots -> SlotRec]
    BY <1>2 DEF IInv, TypeOK
  <2>1. CASE Begins
    <3>1. PICK s \in Slots, r \in SlotRec :
              w' = [w EXCEPT ![s] = r] /\ Cardinality(Active) < Limit
      BY <2>1 DEF Begins
    <3>2. Active' \in SUBSET (Active \cup {s})
      BY <2>0, <3>1 DEF Active
    <3>3. Cardinality(Active \cup {s}) <= Cardinality(Active) + 1
          /\ IsFiniteSet(Active \cup {s})
      BY FiniteSlots, FS_AddElement
    <3>4. Cardinality(Active') <= Cardinality(Active \cup {s})
          /\ Cardinality(Active') \in Nat /\ Cardinality(Active \cup {s}) \in Nat
      BY <3>2, <3>3, FS_Subset, FS_CardinalityType
    <3> QED
      BY <1>0, <3>1, <3>3, <3>4, FiniteSlots DEF LimitHeld
  <2>2. CASE Settles \/ Forgets \/ Keeps
    <3>1. Active' \in SUBSET Active
      <4>1. ~Blank.live /\ ~Blank.running
        BY DEF Blank
      <4>2. \A s \in Slots :
              w'[s] = Blank \/ (w'[s].live = w[s].live /\ (w'[s].running => w[s].running))
        BY <2>0, <2>2 DEF Settles, Forgets, Keeps
      <4> QED
        BY <4>1, <4>2 DEF Active
    <3>2. Cardinality(Active') <= Cardinality(Active) /\ Cardinality(Active') \in Nat
      BY <3>1, FiniteSlots, FS_Subset, FS_CardinalityType
    <3> QED
      BY <1>0, <1>2, <3>2, FiniteSlots DEF LimitHeld
  <2> QED
    BY <1>2, <2>1, <2>2, StepKinds
<1> QED
  BY <1>1, <1>2, Invariance, PTL DEF Spec

\* Whatever the model, the user and the workers do, and whichever step they interleave at,
\* what happens to the tasks is what the board allows: numbers in order, never more open
\* than the limit, one answer for an open task and none for any other.
THEOREM BoardImplemented == Spec => ImplementsBoard
<1>1. Init => Board!Init
  <2> SUFFICES ASSUME Init PROVE Board!Init
    OBVIOUS
  <2>1. \A i \in Ids : i \in Nat /\ i # 0 /\ ~(i <= 0)
    BY MaxTasksAssumption
  <2> QED
    BY <2>1 DEF Init, Board!Init, Task, Named, Blank
<1>2. ASSUME IInv, [Next]_vars PROVE [Board!Next]_Task
  <2>1. CASE Begins
    <3>1. PICK s \in Slots, r \in SlotRec :
            /\ w[s].id = 0 /\ r.id = next_id + 1 /\ r.live
            /\ next_id < MaxTasks /\ Cardinality(Active) < Limit
            /\ w' = [w EXCEPT ![s] = r] /\ next_id' = next_id + 1 /\ told' = told
      BY <2>1 DEF Begins
    <3>2. Board!Start(next_id + 1)
      BY <1>2, <3>1, StartBoard
    <3>3. next_id + 1 \in Board!Ids
      BY <1>2, <3>1, MaxTasksAssumption DEF IInv, TypeOK
    <3> QED
      BY <3>2, <3>3 DEF Board!Next
  <2>2. CASE Settles
    <3>1. PICK s \in Slots, i \in Ids, a \in Says :
            w[s].id = i /\ w' = [w EXCEPT ![s] = Blank] /\ Answer(i, a) /\ UNCHANGED next_id
      BY <2>2 DEF Settles
    <3>2. Board!Settle(i, a)
      BY <1>2, <3>1, SettleBoard
    <3>3. a \in Board!Answers
      BY DEF Board!Answers, Says, Outcomes
    <3> QED
      BY <3>2, <3>3 DEF Board!Next
  <2>3. CASE Forgets
    BY <1>2, <2>3, ForgetBoard DEF Forgets, Board!Next
  <2>4. CASE Keeps
    BY <1>2, <2>4, SameBoard DEF Keeps
  <2> QED
    BY <1>2, <2>1, <2>2, <2>3, <2>4, StepKinds
<1> QED
  BY <1>1, <1>2, Invariance, PTL DEF Spec, ImplementsBoard, Board!Spec
================================================================================
