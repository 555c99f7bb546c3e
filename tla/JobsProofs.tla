------------------------------ MODULE JobsProofs ------------------------------
(***************************************************************************)
(* Theorems about commands and jobs, for any number of jobs, commands and  *)
(* runs and every size of output, page and log. The inductive invariant    *)
(* has a part for each job in the table, which ties it to the process and  *)
(* the drainer of its run, and a part for the command of the call; between *)
(* them they own every process that was not reaped.                        *)
(***************************************************************************)
EXTENDS Jobs, FiniteSetTheorems, WellFoundedInduction, TLAPS

ProcRec == [st : {"none", "runs", "zombie", "gone"}, out : BOOLEAN, pipe : 0..MaxOut, made : 0..MaxOut]
JobRec  == [run : 0..MaxRuns, cmd : Cmd, running : BOOLEAN, drained : BOOLEAN,
            reported : BOOLEAN, announced : BOOLEAN, read : 0..LogCap]
Calling == {"run", "polled", "over", "reap"}
InTool  == {"wait", "signal", "page"}
Places  == Calling \cup InTool \cup {"idle", "note", "quit"}
Kinds   == {"none", "bash", "user", "program", "poll", "wait", "kill"}
ShRec   == [pc : Places, kind : Kinds,
            run : 0..MaxRuns, cmd : Cmd, slot : 0..NJobs, intr : BOOLEAN, killed : BOOLEAN,
            undet : BOOLEAN, reaped : BOOLEAN, spill : BOOLEAN, got : Nat]

Alive == {"runs", "zombie"}     \* started and not reaped

ProcsOK ==
    /\ proc \in [Run -> ProcRec] /\ drain \in [Run -> {"none", "runs", "zombie", "gone"}]
    /\ log \in [Run -> 0..LogCap] /\ dir \in [Cmd -> 0..MaxRuns] /\ started \in 0..MaxRuns
    /\ \A r \in Run : proc[r].pipe <= proc[r].made
    /\ \A r \in Run : r > started => proc[r].st = "none" /\ drain[r] = "none"

\* A job j, its process p, its drainer d, the length l of its log, and whether the model was told.
JobOK(j, p, d, l, told) ==
    /\ j.running <=> p.st \in Alive
    /\ p.st # "none"
    /\ IF j.drained THEN d = "gone" ELSE d \in Alive
    /\ j.read <= l
    /\ j.announced <=> told
    /\ j.reported => j.announced

TableOK ==
    /\ job \in [Slot -> JobRec]
    /\ \A s \in Slot : ~Live(s) => ~job[s].running
    /\ \A s \in Slot : Live(s) => LET r == job[s].run
                                  IN  r <= started /\ JobOK(job[s], proc[r], drain[r], log[r], said[r])
    /\ \A s, t \in Slot : Live(s) /\ job[s].run = job[t].run => s = t

\* The call: of a command, which no job has, or of the job tool, which is about a live job.
CallOK ==
    /\ sh \in ShRec
    /\ sh.pc \in Calling <=> sh.run # 0
    /\ sh.run # 0 => LET r == sh.run
                     IN  /\ r <= started /\ drain[r] = "none" /\ ~said[r]
                         /\ proc[r].st # "none" /\ (sh.reaped <=> proc[r].st = "gone")
                         /\ \A s \in Slot : job[s].run # r
    /\ sh.pc = "reap" => ~sh.reaped
    /\ sh.pc \in InTool => sh.slot \in Slot /\ Live(sh.slot)
    /\ sh.pc = "signal" => job[sh.slot].running
    /\ sh.pc = "quit" => \A s \in Slot : ~Live(s)

SaidOK ==
    /\ noted \in [Run -> 0..1] /\ said \in [Run -> BOOLEAN]
    /\ broke \in BOOLEAN /\ breaks \in 0..MaxBreaks
    /\ \A r \in Run : noted[r] > 0 => said[r]
    /\ \A r \in Run : said[r] => r <= started

IInv == ProcsOK /\ TableOK /\ CallOK /\ SaidOK /\ JobsOwned

LEMMA Sizes == /\ NJobs \in Nat /\ Page \in Nat /\ LogCap \in Nat /\ MaxRuns \in Nat /\ MaxOut \in Nat
               /\ NJobs > 0 /\ Page > 0 /\ LogCap > 0 /\ MaxRuns > 0 /\ MaxOut > 0
               /\ MaxBreaks \in Nat /\ \E c \in Cmd : TRUE
BY JobsAssumption

USE Sizes DEF Run, Slot

LEMMA PlacesAre ==
    /\ "idle" \in Places /\ "note" \in Places /\ "quit" \in Places /\ "run" \in Places /\ "polled" \in Places
    /\ "over" \in Places /\ "reap" \in Places /\ "wait" \in Places /\ "signal" \in Places /\ "page" \in Places
    /\ "none" \in Kinds /\ "bash" \in Kinds /\ "user" \in Kinds /\ "program" \in Kinds /\ "poll" \in Kinds
    /\ "wait" \in Kinds /\ "kill" \in Kinds
BY DEF Places, Kinds, Calling, InTool

LEMMA InitIInv == JobsInit => IInv
<1> SUFFICES ASSUME JobsInit PROVE IInv
  OBVIOUS
<1>0. NoJob \in JobRec /\ Idle \in ShRec /\ NoProc \in ProcRec
  BY PlacesAre DEF NoJob, Idle, NoProc, JobRec, ShRec, ProcRec
<1>1. ProcsOK
  BY <1>0 DEF JobsInit, ProcsOK, NoProc
<1>2. TableOK
  BY <1>0 DEF JobsInit, TableOK, NoJob, Live
<1>3. CallOK
  BY <1>0 DEF JobsInit, CallOK, Idle, Calling, InTool
<1>4. SaidOK
  <2>1. 0 \in 0..1 /\ 0 \in 0..MaxBreaks /\ ~(0 > 0)
    OBVIOUS
  <2> QED
    BY <2>1 DEF JobsInit, SaidOK
<1>5. JobsOwned
  BY DEF JobsInit, JobsOwned, NoProc
<1> QED
  BY <1>1, <1>2, <1>3, <1>4, <1>5 DEF IInv

--------------------------------------------------------------------------------
(* What the invariant says of a job, of a log, of the call *)

LEMMA JobFacts ==
    ASSUME IInv, NEW s \in Slot, Live(s)
    PROVE  /\ job[s] \in JobRec /\ job[s].run \in Run /\ job[s].run <= started /\ job[s].read \in Nat
           /\ JobOK(job[s], proc[job[s].run], drain[job[s].run], log[job[s].run], said[job[s].run])
<1>1. job[s] \in JobRec
  BY DEF IInv, TableOK
<1>2. job[s].run \in Run /\ job[s].read \in Nat
  BY <1>1 DEF JobRec, Live
<1> QED
  BY <1>1, <1>2 DEF IInv, TableOK

LEMMA RunFacts ==
    ASSUME IInv, NEW r \in Run
    PROVE  /\ proc[r] \in ProcRec /\ proc[r].pipe <= proc[r].made /\ proc[r].pipe \in Nat
           /\ log[r] \in 0..LogCap /\ log[r] \in Nat /\ drain[r] \in {"none", "runs", "zombie", "gone"}
<1>1. proc[r] \in ProcRec /\ proc[r].pipe <= proc[r].made /\ log[r] \in 0..LogCap /\ drain[r] \in {"none", "runs", "zombie", "gone"}
  BY DEF IInv, ProcsOK
<1> QED
  BY <1>1 DEF ProcRec

--------------------------------------------------------------------------------
(* The processes by themselves *)

\* What the steps make of a process.
LEMMA ProcTypes ==
    ASSUME NEW p \in ProcRec, p.pipe <= p.made
    PROVE  /\ p.made < MaxOut => LET q == [p EXCEPT !.pipe = @ + 1, !.made = @ + 1]
                                 IN  q \in ProcRec /\ q.pipe <= q.made /\ q.st = p.st
           /\ p.pipe > 0 => LET q == [p EXCEPT !.pipe = @ - 1]
                            IN  q \in ProcRec /\ q.pipe <= q.made /\ q.st = p.st
           /\ LET q == [p EXCEPT !.pipe = 0] IN q \in ProcRec /\ q.pipe <= q.made /\ q.st = p.st
           /\ LET q == [p EXCEPT !.out = FALSE] IN q \in ProcRec /\ q.pipe <= q.made /\ q.st = p.st
<1>1. p.pipe \in 0..MaxOut /\ p.made \in 0..MaxOut
  BY DEF ProcRec
<1>2. ASSUME p.made < MaxOut
      PROVE  LET q == [p EXCEPT !.pipe = @ + 1, !.made = @ + 1]
             IN  q \in ProcRec /\ q.pipe <= q.made /\ q.st = p.st
  <2>1. p.pipe + 1 \in 0..MaxOut /\ p.made + 1 \in 0..MaxOut /\ p.pipe + 1 <= p.made + 1
    BY <1>1, <1>2
  <2> QED
    BY <2>1 DEF ProcRec
<1>3. ASSUME p.pipe > 0
      PROVE  LET q == [p EXCEPT !.pipe = @ - 1] IN q \in ProcRec /\ q.pipe <= q.made /\ q.st = p.st
  <2>1. p.pipe - 1 \in 0..MaxOut /\ p.pipe - 1 <= p.made
    BY <1>1, <1>3
  <2> QED
    BY <2>1 DEF ProcRec
<1>4. 0 \in 0..MaxOut /\ 0 <= p.made
  BY <1>1
<1> QED
  BY <1>2, <1>3, <1>4 DEF ProcRec

\* What a step does to one process, when it neither starts nor reaps it.
LEMMA ProcStep ==
    ASSUME IInv, NEW r \in Run, proc' \in [Run -> ProcRec], log' \in [Run -> 0..LogCap],
           \A q \in Run : q # r => proc'[q] = proc[q] /\ log'[q] = log[q],
           proc'[r].pipe <= proc'[r].made, log'[r] >= log[r],
           proc'[r].st \in Alive <=> proc[r].st \in Alive, proc'[r].st # "none" <=> proc[r].st # "none",
           UNCHANGED <<drain, dir, job, started, broke, breaks, noted, said, sh>>
    PROVE  IInv'
<1>1. ProcsOK'
  BY DEF IInv, ProcsOK, ProcRec
<1>2. TableOK'
  <2>1. ASSUME NEW s \in Slot, Live(s) PROVE JobOK(job[s], proc'[job[s].run], drain[job[s].run], log'[job[s].run], said[job[s].run])
    <3>1. JobOK(job[s], proc[job[s].run], drain[job[s].run], log[job[s].run], said[job[s].run]) /\ job[s].run \in Run
          /\ job[s].read \in Nat /\ log[job[s].run] \in Nat
      BY <2>1, JobFacts, RunFacts
    <3>2. log[job[s].run] <= log'[job[s].run] /\ log'[job[s].run] \in Nat
      BY <3>1
    <3>3. (proc'[job[s].run].st \in Alive <=> proc[job[s].run].st \in Alive)
          /\ (proc'[job[s].run].st # "none" <=> proc[job[s].run].st # "none")
      BY <3>1
    <3>4. job[s].read <= log'[job[s].run]
      BY <3>1, <3>2 DEF JobOK
    <3> QED
      BY <3>1, <3>3, <3>4 DEF JobOK
  <2> QED
    BY <2>1 DEF IInv, TableOK, Live
<1>3. CallOK'
  <2>1. sh.run # 0 => /\ sh.run \in Run /\ proc'[sh.run].st # "none"
                      /\ proc'[sh.run].st = "gone" <=> proc[sh.run].st = "gone"
    <3>1. sh.run # 0 => sh.run \in Run /\ proc[sh.run].st # "none"
      BY DEF IInv, CallOK, ShRec
    <3>2. \A q \in Run : {proc[q].st, proc'[q].st} \subseteq {"none", "runs", "zombie", "gone"}
      BY RunFacts DEF ProcRec
    <3>3. proc'[r].st # "none" => (proc'[r].st = "gone" <=> proc[r].st = "gone")
      BY <3>2 DEF Alive
    <3> QED
      BY <3>1, <3>3
  <2> QED
    BY <2>1 DEF IInv, CallOK, Live
<1>4. SaidOK'
  BY DEF IInv, SaidOK
<1>5. JobsOwned'
  BY DEF IInv, JobsOwned, ProcsOK, InCall, Alive, ProcRec
<1> QED
  BY <1>1, <1>2, <1>3, <1>4, <1>5 DEF IInv

LEMMA WritesStep == ASSUME IInv, NEW r \in Run, Writes(r) PROVE IInv'
<1> DEFINE p == [proc[r] EXCEPT !.pipe = @ + 1, !.made = @ + 1]
<1>0. proc[r] \in ProcRec /\ proc[r].pipe <= proc[r].made /\ proc[r].made < MaxOut
      /\ proc \in [Run -> ProcRec] /\ log \in [Run -> 0..LogCap]
  BY DEF IInv, ProcsOK, Writes
<1>1. p \in ProcRec /\ p.pipe <= p.made /\ p.st = proc[r].st
  BY <1>0, ProcTypes
<1>2. proc' = [proc EXCEPT ![r] = p]
  BY DEF Writes
<1> HIDE DEF p
<1>3. proc' \in [Run -> ProcRec] /\ proc'[r] = p /\ \A q \in Run : q # r => proc'[q] = proc[q]
  BY <1>0, <1>1, <1>2
<1>4. UNCHANGED <<log, drain, dir, job, started, broke, breaks, noted, said, sh>>
  BY DEF Writes
<1>5. /\ log[r] >= log[r] /\ \A q \in Run : q # r => proc'[q] = proc[q] /\ log'[q] = log[q]
      /\ proc'[r].pipe <= proc'[r].made
      /\ proc'[r].st \in Alive <=> proc[r].st \in Alive
      /\ proc'[r].st # "none" <=> proc[r].st # "none"
  BY <1>0, <1>1, <1>3, <1>4
<1> QED
  BY <1>0, <1>3, <1>4, <1>5, ProcStep

LEMMA ClosesOutputStep == ASSUME IInv, NEW r \in Run, ClosesOutput(r) PROVE IInv'
<1> DEFINE p == [proc[r] EXCEPT !.out = FALSE]
<1>0. proc[r] \in ProcRec /\ proc[r].pipe <= proc[r].made /\ proc \in [Run -> ProcRec] /\ log \in [Run -> 0..LogCap]
  BY DEF IInv, ProcsOK
<1>1. p \in ProcRec /\ p.pipe <= p.made /\ p.st = proc[r].st
  BY <1>0, ProcTypes
<1>2. proc' = [proc EXCEPT ![r] = p]
  BY DEF ClosesOutput
<1> HIDE DEF p
<1>3. proc' \in [Run -> ProcRec] /\ proc'[r] = p /\ \A q \in Run : q # r => proc'[q] = proc[q]
  BY <1>0, <1>1, <1>2
<1>4. UNCHANGED <<log, drain, dir, job, started, broke, breaks, noted, said, sh>>
  BY DEF ClosesOutput
<1>5. /\ log[r] >= log[r] /\ \A q \in Run : q # r => proc'[q] = proc[q] /\ log'[q] = log[q]
      /\ proc'[r].pipe <= proc'[r].made
      /\ proc'[r].st \in Alive <=> proc[r].st \in Alive
      /\ proc'[r].st # "none" <=> proc[r].st # "none"
  BY <1>0, <1>1, <1>3, <1>4
<1> QED
  BY <1>0, <1>3, <1>4, <1>5, ProcStep

LEMMA ExitsStep == ASSUME IInv, NEW r \in Run, Exits(r) PROVE IInv'
<1>1. PICK o \in {FALSE, proc[r].out} : proc' = [proc EXCEPT ![r].st = "zombie", ![r].out = o]
  BY DEF Exits
<1> DEFINE p == [proc[r] EXCEPT !.st = "zombie", !.out = o]
<1>0. proc[r] \in ProcRec /\ proc[r].pipe <= proc[r].made /\ proc \in [Run -> ProcRec] /\ log \in [Run -> 0..LogCap]
      /\ proc[r].st = "runs"
  BY DEF IInv, ProcsOK, Exits
<1>2. p \in ProcRec /\ p.pipe <= p.made /\ p.st = "zombie"
  BY <1>0 DEF ProcRec
<1>3. proc' = [proc EXCEPT ![r] = p]
  BY <1>1
<1> HIDE DEF p
<1>4. proc' \in [Run -> ProcRec] /\ proc'[r] = p /\ \A q \in Run : q # r => proc'[q] = proc[q]
  BY <1>0, <1>2, <1>3
<1>5. UNCHANGED <<log, drain, dir, job, started, broke, breaks, noted, said, sh>>
  BY DEF Exits
<1>6. /\ log[r] >= log[r] /\ \A q \in Run : q # r => proc'[q] = proc[q] /\ log'[q] = log[q]
      /\ proc'[r].pipe <= proc'[r].made
      /\ proc'[r].st \in Alive <=> proc[r].st \in Alive
      /\ proc'[r].st # "none" <=> proc[r].st # "none"
  BY <1>0, <1>2, <1>4, <1>5 DEF Alive
<1> QED
  BY <1>0, <1>4, <1>5, <1>6, ProcStep

LEMMA LoggedMore == ASSUME NEW n \in 0..LogCap, NEW k \in Nat PROVE Logged(n + k) \in 0..LogCap /\ Logged(n + k) >= n
BY DEF Logged

LEMMA DrainsStep == ASSUME IInv, NEW r \in Run, Drains(r) PROVE IInv'
<1>1. CASE proc[r].pipe > 0 /\ proc' = [proc EXCEPT ![r].pipe = @ - 1] /\ log' = [log EXCEPT ![r] = Logged(@ + 1)]
           /\ UNCHANGED drain
  <2> DEFINE p == [proc[r] EXCEPT !.pipe = @ - 1]
             l == Logged(log[r] + 1)
  <2>0. proc[r] \in ProcRec /\ proc[r].pipe <= proc[r].made /\ proc \in [Run -> ProcRec] /\ log \in [Run -> 0..LogCap]
    BY DEF IInv, ProcsOK
  <2>1. p \in ProcRec /\ p.pipe <= p.made /\ p.st = proc[r].st
    BY <1>1, <2>0, ProcTypes
  <2>2. l \in 0..LogCap /\ l >= log[r]
    BY <2>0, LoggedMore
  <2>3. proc' = [proc EXCEPT ![r] = p] /\ log' = [log EXCEPT ![r] = l]
    BY <1>1
  <2> HIDE DEF p, l
  <2>4. /\ proc' \in [Run -> ProcRec] /\ log' \in [Run -> 0..LogCap] /\ proc'[r] = p /\ log'[r] = l
        /\ \A q \in Run : q # r => proc'[q] = proc[q] /\ log'[q] = log[q]
    BY <2>0, <2>1, <2>2, <2>3
  <2>5. UNCHANGED <<drain, dir, job, started, broke, breaks, noted, said, sh>>
    BY <1>1 DEF Drains
  <2> QED
    BY <2>1, <2>2, <2>4, <2>5, ProcStep
<1>2. CASE drain' = [drain EXCEPT ![r] = "zombie"] /\ UNCHANGED <<proc, log>>
  <2>0. drain[r] = "runs" /\ UNCHANGED <<dir, job, sh, started, broke, breaks, noted, said>>
    BY DEF Drains
  <2>1. ProcsOK'
    BY <1>2, <2>0 DEF IInv, ProcsOK
  <2>2. TableOK'
    <3>1. ASSUME NEW s \in Slot, Live(s) PROVE JobOK(job[s], proc[job[s].run], drain'[job[s].run], log[job[s].run], said[job[s].run])
      <4>1. JobOK(job[s], proc[job[s].run], drain[job[s].run], log[job[s].run], said[job[s].run]) /\ job[s].run \in Run
        BY <3>1, JobFacts
      <4>2. drain'[job[s].run] = drain[job[s].run] \/ (drain[job[s].run] = "runs" /\ drain'[job[s].run] = "zombie")
        BY <1>2, <2>0, <4>1 DEF IInv, ProcsOK
      <4> QED
        BY <4>1, <4>2 DEF JobOK, Alive
    <3> QED
      BY <1>2, <2>0, <3>1 DEF IInv, TableOK, Live
  <2>3. CallOK'
    BY <1>2, <2>0 DEF IInv, CallOK, ProcsOK, Live, ShRec
  <2>4. SaidOK'
    BY <2>0 DEF IInv, SaidOK
  <2>5. JobsOwned'
    BY <1>2, <2>0 DEF IInv, JobsOwned, InCall, ProcsOK
  <2> QED
    BY <2>1, <2>2, <2>3, <2>4, <2>5 DEF IInv
<1> QED
  BY <1>1, <1>2 DEF Drains

--------------------------------------------------------------------------------
(* The call of a command *)

LEMMA KilledIs ==
    ASSUME NEW q \in ProcRec, NEW p \in Killed(q)
    PROVE  /\ p \in ProcRec /\ p.pipe = q.pipe /\ p.made = q.made
           /\ p.st = IF q.st = "runs" THEN "zombie" ELSE q.st
BY DEF Killed, ProcRec

\* A step of the call of a command: it changes its own process and log, may take its name
\* away, and goes on or returns.
LEMMA CommandStep ==
    ASSUME IInv, sh.run # 0, proc'[sh.run] \in ProcRec, log'[sh.run] \in 0..LogCap,
           proc'[sh.run].pipe <= proc'[sh.run].made, proc'[sh.run].st # "none", log'[sh.run] >= log[sh.run],
           proc' = [proc EXCEPT ![sh.run] = proc'[sh.run]], log' = [log EXCEPT ![sh.run] = log'[sh.run]],
           sh' \in ShRec, dir' \in [Cmd -> 0..MaxRuns],
           \/ /\ sh'.run = sh.run /\ sh'.pc \in Calling /\ (sh'.reaped <=> proc'[sh.run].st = "gone")
              /\ sh'.pc = "reap" => ~sh'.reaped
           \/ sh'.run = 0 /\ sh'.pc \in {"note", "idle"} /\ proc'[sh.run].st = "gone",
           UNCHANGED <<drain, job, started, broke, breaks, noted, said>>
    PROVE  IInv'
<1>0. sh.run \in Run /\ proc[sh.run].st # "none" /\ drain[sh.run] = "none" /\ ~said[sh.run] /\ sh.run <= started
      /\ \A s \in Slot : job[s].run # sh.run
  BY DEF IInv, CallOK, ShRec
<1>1. /\ proc' \in [Run -> ProcRec] /\ log' \in [Run -> 0..LogCap]
      /\ \A q \in Run : q # sh.run => proc'[q] = proc[q] /\ log'[q] = log[q]
  BY <1>0 DEF IInv, ProcsOK
<1>2. ProcsOK'
  BY <1>0, <1>1 DEF IInv, ProcsOK
<1>3. TableOK'
  <2>1. ASSUME NEW s \in Slot, Live(s)
        PROVE  proc'[job[s].run] = proc[job[s].run] /\ log'[job[s].run] = log[job[s].run]
    BY <1>0, <1>1, <2>1, JobFacts
  <2> QED
    BY <2>1 DEF IInv, TableOK, Live
<1>4. CallOK'
  BY <1>0, <1>1 DEF CallOK, Calling, InTool
<1>5. SaidOK'
  BY DEF IInv, SaidOK
<1>6. JobsOwned'
  <2>1. ASSUME NEW r \in Run, r # sh.run PROVE proc'[r] = proc[r] /\ ~InCall(r)
    BY <1>1, <2>1 DEF InCall
  <2>2. proc'[sh.run].st \in Alive => InCall(sh.run)'
    BY DEF InCall, Alive, Calling
  <2>3. ASSUME NEW r \in Run, r # sh.run
        PROVE  /\ proc'[r].st \in Alive => \E s \in Slot : job[s].run = r /\ job[s].running
               /\ drain[r] \in Alive => \E s \in Slot : job[s].run = r /\ ~job[s].drained
    BY <2>1, <2>3 DEF IInv, JobsOwned, Alive
  <2> QED
    BY <1>0, <2>2, <2>3 DEF JobsOwned, Alive
<1> QED
  BY <1>2, <1>3, <1>4, <1>5, <1>6 DEF IInv

\* The same, from what the step writes.
LEMMA CommandWrites ==
    ASSUME IInv, sh.run # 0, NEW p \in ProcRec, NEW l \in 0..LogCap,
           proc' = [proc EXCEPT ![sh.run] = p], log' = [log EXCEPT ![sh.run] = l]
    PROVE  /\ proc'[sh.run] = p /\ proc' = [proc EXCEPT ![sh.run] = proc'[sh.run]]
           /\ log'[sh.run] = l /\ log' = [log EXCEPT ![sh.run] = log'[sh.run]]
<1>1. sh.run \in Run /\ proc \in [Run -> ProcRec] /\ log \in [Run -> 0..LogCap]
  BY DEF IInv, CallOK, ShRec, ProcsOK
<1> QED
  BY <1>1

LEMMA IdleIs == Idle \in ShRec /\ Idle.run = 0 /\ Idle.reaped = FALSE
BY PlacesAre DEF Idle, ShRec

\* What is known of the process of the call.
LEMMA OwnProc ==
    ASSUME IInv, sh.run # 0
    PROVE  /\ sh \in ShRec /\ sh.run \in Run /\ proc[sh.run] \in ProcRec /\ proc[sh.run].pipe <= proc[sh.run].made
           /\ proc[sh.run].st # "none" /\ (sh.reaped <=> proc[sh.run].st = "gone")
           /\ log[sh.run] \in 0..LogCap /\ dir \in [Cmd -> 0..MaxRuns] /\ broke \in BOOLEAN
           /\ proc = [proc EXCEPT ![sh.run] = proc[sh.run]] /\ log = [log EXCEPT ![sh.run] = log[sh.run]]
           /\ sh.pc \in Calling
BY DEF IInv, ProcsOK, CallOK, ShRec, SaidOK

LEMMA ShellTopStep == ASSUME IInv, ShellTop PROVE IInv'
<1>1. sh.run # 0
  BY DEF ShellTop, IInv, CallOK, Calling
<1>2. PICK pc \in {"polled"} \cup (IF sh.reaped THEN {"over"} ELSE {}) :
          sh' = [sh EXCEPT !.pc = pc, !.intr = sh.intr \/ broke, !.killed = sh.killed \/ broke]
  BY DEF ShellTop
<1>3. (sh.intr \/ broke) \in BOOLEAN /\ (sh.killed \/ broke) \in BOOLEAN /\ pc \in Places /\ pc \in {"polled", "over"}
  BY <1>1, OwnProc, PlacesAre DEF ShRec
<1>4. sh' \in ShRec /\ sh'.run = sh.run /\ sh'.pc \in {"polled", "over"} /\ sh'.reaped = sh.reaped
  BY <1>1, <1>2, <1>3, OwnProc, PlacesAre DEF ShRec
<1>5. UNCHANGED <<proc, log, drain, dir, job, started, broke, breaks, noted, said>>
  BY DEF ShellTop
<1> QED
  BY <1>1, <1>4, <1>5, OwnProc, CommandStep DEF Calling

LEMMA LookedIs ==
    ASSUME IInv, sh.run # 0
    PROVE  /\ Looked \in ShRec /\ Looked.run = sh.run
           /\ Looked.reaped <=> proc[sh.run].st \in {"zombie", "gone"}
BY OwnProc DEF Looked, ShRec

LEMMA ShellGoesOnStep == ASSUME IInv, ShellGoesOn PROVE IInv'
<1>1. sh.run # 0
  BY DEF ShellGoesOn, IInv, CallOK, Calling
<1>2. PICK p \in Struck :
         LET q == AfterLook(p)
         IN  \/ /\ q.pipe > 0
                /\ proc' = [proc EXCEPT ![sh.run] = [q EXCEPT !.pipe = @ - 1]]
                /\ sh' = [Looked EXCEPT !.pc = "run", !.got = @ + 1]
                /\ log' = IF sh.spill THEN [log EXCEPT ![sh.run] = Logged(@ + 1)] ELSE log
             \/ /\ q.pipe = 0 /\ ~q.out
                /\ proc' = [proc EXCEPT ![sh.run] = q]
                /\ sh' = [Looked EXCEPT !.pc = "over"] /\ UNCHANGED log
             \/ /\ q.pipe = 0 /\ q.out
                /\ \E k \in IF Looked.intr /\ ~Looked.reaped THEN Killed(q) ELSE {q} :
                      proc' = [proc EXCEPT ![sh.run] = k]
                /\ sh' = [Looked EXCEPT !.pc = IF Looked.intr /\ Looked.reaped THEN "over" ELSE "run"]
                /\ UNCHANGED log
  BY DEF ShellGoesOn
<1>3. p \in ProcRec /\ p.pipe = proc[sh.run].pipe /\ p.made = proc[sh.run].made
      /\ p.st \in {proc[sh.run].st, "zombie"} /\ (proc[sh.run].st = "gone" => p.st = "gone")
      /\ (proc[sh.run].st = "zombie" => p.st = "zombie")
  BY <1>1, OwnProc, KilledIs DEF Struck
<1> DEFINE q == AfterLook(p)
<1>4. q \in ProcRec /\ q.pipe <= q.made /\ q.st # "none" /\ (q.st = "gone" <=> Looked.reaped)
  BY <1>1, <1>3, OwnProc, LookedIs DEF AfterLook, Reaped, ProcRec
<1>5. UNCHANGED <<drain, dir, job, started, broke, breaks, noted, said>>
  BY DEF ShellGoesOn
<1> HIDE DEF q
<1>6. CASE /\ q.pipe > 0
           /\ proc' = [proc EXCEPT ![sh.run] = [q EXCEPT !.pipe = @ - 1]]
           /\ sh' = [Looked EXCEPT !.pc = "run", !.got = @ + 1]
           /\ log' = IF sh.spill THEN [log EXCEPT ![sh.run] = Logged(@ + 1)] ELSE log
  <2> DEFINE x == [q EXCEPT !.pipe = @ - 1]
             l == IF sh.spill THEN Logged(log[sh.run] + 1) ELSE log[sh.run]
  <2>1. x \in ProcRec /\ x.pipe <= x.made /\ x.st = q.st
    BY <1>4, <1>6, ProcTypes
  <2>2. Looked.got + 1 \in Nat
    BY <1>1, LookedIs DEF ShRec
  <2>3. sh' \in ShRec /\ sh'.run = sh.run /\ sh'.pc = "run" /\ sh'.reaped = Looked.reaped
    BY <1>1, <1>6, <2>2, LookedIs, PlacesAre DEF ShRec
  <2>4. l \in 0..LogCap /\ l >= log[sh.run]
    BY <1>1, OwnProc, LoggedMore
  <2>5. proc' = [proc EXCEPT ![sh.run] = x] /\ log' = [log EXCEPT ![sh.run] = l]
    BY <1>1, <1>6, OwnProc
  <2> HIDE DEF x, l
  <2>6. /\ proc'[sh.run] = x /\ proc' = [proc EXCEPT ![sh.run] = proc'[sh.run]]
        /\ log'[sh.run] = l /\ log' = [log EXCEPT ![sh.run] = log'[sh.run]]
    BY <1>1, <2>1, <2>4, <2>5, CommandWrites
  <2> QED
    BY <1>1, <1>4, <1>5, <2>1, <2>3, <2>4, <2>6, OwnProc, CommandStep DEF Calling
<1>7. CASE /\ proc' = [proc EXCEPT ![sh.run] = q]
           /\ sh' = [Looked EXCEPT !.pc = "over"] /\ UNCHANGED log
  <2>1. sh' \in ShRec /\ sh'.run = sh.run /\ sh'.pc = "over" /\ sh'.reaped = Looked.reaped
    BY <1>1, <1>7, LookedIs, PlacesAre DEF ShRec
  <2>2. proc'[sh.run] = q /\ log' = [log EXCEPT ![sh.run] = log'[sh.run]] /\ log'[sh.run] \in 0..LogCap
        /\ log'[sh.run] >= log[sh.run]
    BY <1>1, <1>7, OwnProc DEF IInv, ProcsOK
  <2> QED
    BY <1>1, <1>4, <1>5, <1>7, <2>1, <2>2, OwnProc, CommandStep DEF Calling
<1>8. CASE /\ \E k \in IF Looked.intr /\ ~Looked.reaped THEN Killed(q) ELSE {q} :
                 proc' = [proc EXCEPT ![sh.run] = k]
           /\ sh' = [Looked EXCEPT !.pc = IF Looked.intr /\ Looked.reaped THEN "over" ELSE "run"]
           /\ UNCHANGED log
  <2>1. PICK k \in IF Looked.intr /\ ~Looked.reaped THEN Killed(q) ELSE {q} : proc' = [proc EXCEPT ![sh.run] = k]
    BY <1>8
  <2>2. k \in ProcRec /\ k.pipe <= k.made /\ k.st # "none" /\ (k.st = "gone" <=> q.st = "gone")
    BY <1>4, KilledIs
  <2>3. sh' \in ShRec /\ sh'.run = sh.run /\ sh'.pc \in {"over", "run"} /\ sh'.reaped = Looked.reaped
    BY <1>1, <1>8, LookedIs, PlacesAre DEF ShRec
  <2>4. proc'[sh.run] = k /\ log' = [log EXCEPT ![sh.run] = log'[sh.run]] /\ log'[sh.run] \in 0..LogCap
        /\ log'[sh.run] >= log[sh.run]
    BY <1>1, <1>8, <2>1, OwnProc DEF IInv, ProcsOK
  <2> QED
    BY <1>1, <1>4, <1>5, <2>1, <2>2, <2>3, <2>4, OwnProc, CommandStep DEF Calling
<1> QED
  BY <1>2, <1>6, <1>7, <1>8 DEF q

LEMMA ProgramStopStep == ASSUME IInv, ProgramStop PROVE IInv'
<1>1. sh.run # 0 /\ ~sh.reaped
  BY LookedIs, OwnProc DEF ProgramStop, Due, IInv, CallOK, Calling
<1>2. PICK p \in Killed(proc[sh.run]) : proc' = [proc EXCEPT ![sh.run] = p]
  BY DEF ProgramStop
<1>3. p \in ProcRec /\ p.pipe <= p.made /\ p.st \notin {"none", "gone"}
  BY <1>1, OwnProc, KilledIs
<1>4. sh' \in ShRec /\ sh'.run = sh.run /\ sh'.pc = "run" /\ sh'.reaped = sh.reaped
  BY <1>1, OwnProc, PlacesAre DEF ShRec, ProgramStop
<1>5. proc'[sh.run] = p /\ UNCHANGED <<log, dir, drain, job, started, broke, breaks, noted, said>>
  BY <1>1, <1>2, OwnProc DEF IInv, ProcsOK, ProgramStop
<1>6. log' = [log EXCEPT ![sh.run] = log'[sh.run]] /\ log'[sh.run] \in 0..LogCap /\ log'[sh.run] >= log[sh.run]
      /\ dir' \in [Cmd -> 0..MaxRuns] /\ sh.reaped = FALSE
  BY <1>1, <1>5, OwnProc DEF ShRec
<1> QED
  BY <1>1, <1>2, <1>3, <1>4, <1>5, <1>6, CommandStep DEF Calling

\* What the call of a command becomes when it is over.
LEMMA AnsweredIs ==
    ASSUME IInv, sh.run # 0, Answered
    PROVE  sh' \in ShRec /\ sh'.run = 0 /\ sh'.pc \in {"note", "idle"} /\ dir' \in [Cmd -> 0..MaxRuns]
<1>1. sh' \in ShRec /\ sh'.run = 0 /\ sh'.pc \in {"note", "idle"}
  BY IdleIs, PlacesAre DEF ShRec, Answered
<1>2. dir' \in [Cmd -> 0..MaxRuns]
  <2>1. dir \in [Cmd -> 0..MaxRuns] /\ 0 \in 0..MaxRuns
    BY OwnProc
  <2> QED
    BY <2>1 DEF Answered
<1> QED
  BY <1>1, <1>2

LEMMA ShellOverStep == ASSUME IInv, ShellOver PROVE IInv'
<1>1. sh.run # 0
  BY DEF ShellOver, IInv, CallOK, Calling
<1>2. PICK p \in IF sh.intr THEN Killed(proc[sh.run]) ELSE {proc[sh.run]} :
          proc' = [proc EXCEPT ![sh.run] = [p EXCEPT !.pipe = 0]]
  BY DEF ShellOver
<1> DEFINE x == [p EXCEPT !.pipe = 0]
           l == IF sh.spill /\ sh.intr THEN Logged(log[sh.run] + proc[sh.run].pipe) ELSE log[sh.run]
<1>3. p \in ProcRec /\ p.pipe <= p.made /\ p.st # "none" /\ (p.st = "gone" <=> sh.reaped)
  BY <1>1, OwnProc, KilledIs
<1>4. x \in ProcRec /\ x.pipe <= x.made /\ x.st # "none" /\ (x.st = "gone" <=> sh.reaped)
  BY <1>3, ProcTypes
<1>5. proc[sh.run].pipe \in Nat /\ log[sh.run] \in 0..LogCap
  BY <1>1, OwnProc, RunFacts
<1>6. l \in 0..LogCap /\ l >= log[sh.run]
  BY <1>5, LoggedMore
<1>7. proc' = [proc EXCEPT ![sh.run] = x] /\ log' = [log EXCEPT ![sh.run] = l]
  BY <1>1, <1>2, OwnProc DEF ShellOver
<1>8. UNCHANGED <<drain, job, started, broke, breaks, noted, said>>
  BY DEF ShellOver
<1> HIDE DEF x, l
<1>9. /\ proc'[sh.run] = x /\ proc' = [proc EXCEPT ![sh.run] = proc'[sh.run]]
      /\ log'[sh.run] = l /\ log' = [log EXCEPT ![sh.run] = log'[sh.run]]
  BY <1>1, <1>4, <1>6, <1>7, CommandWrites
<1>10. CASE sh.reaped
  <2>1. sh' \in ShRec /\ sh'.run = 0 /\ sh'.pc \in {"note", "idle"} /\ dir' \in [Cmd -> 0..MaxRuns]
    BY <1>1, <1>10, AnsweredIs DEF ShellOver
  <2> QED
    BY <1>1, <1>4, <1>6, <1>8, <1>9, <1>10, <2>1, CommandStep
<1>11. CASE ~sh.reaped
  <2>1. sh' = [sh EXCEPT !.pc = "reap", !.got = IF sh.intr THEN sh.got + proc[sh.run].pipe ELSE sh.got] /\ UNCHANGED dir
    BY <1>11 DEF ShellOver
  <2>2. (IF sh.intr THEN sh.got + proc[sh.run].pipe ELSE sh.got) \in Nat
    BY <1>1, <1>5, OwnProc DEF ShRec
  <2>3. sh' \in ShRec /\ sh'.run = sh.run /\ sh'.pc = "reap" /\ sh'.reaped = sh.reaped
    BY <1>1, <2>1, <2>2, OwnProc, PlacesAre DEF ShRec
  <2> QED
    BY <1>1, <1>4, <1>6, <1>8, <1>9, <1>11, <2>1, <2>3, OwnProc, CommandStep DEF Calling
<1> QED
  BY <1>10, <1>11

LEMMA ShellReapStep == ASSUME IInv, ShellReap PROVE IInv'
<1>1. sh.run # 0
  BY DEF ShellReap, IInv, CallOK, Calling
<1> DEFINE x == Reaped(proc[sh.run])
<1>2. x \in ProcRec /\ x.pipe <= x.made /\ x.st = "gone" /\ proc' = [proc EXCEPT ![sh.run] = x]
  BY <1>1, OwnProc DEF ShellReap, Reaped, ProcRec
<1> HIDE DEF x
<1>3. sh' \in ShRec /\ sh'.run = 0 /\ sh'.pc \in {"note", "idle"} /\ dir' \in [Cmd -> 0..MaxRuns]
  BY <1>1, AnsweredIs DEF ShellReap
<1>4. proc'[sh.run] = x /\ UNCHANGED <<log, drain, job, started, broke, breaks, noted, said>>
  BY <1>1, <1>2, OwnProc DEF IInv, ProcsOK, ShellReap
<1>5. log' = [log EXCEPT ![sh.run] = log'[sh.run]] /\ log'[sh.run] \in 0..LogCap /\ log'[sh.run] >= log[sh.run]
  BY <1>1, <1>4, OwnProc
<1> QED
  BY <1>1, <1>2, <1>3, <1>4, <1>5, CommandStep

LEMMA ShellStartStep == ASSUME IInv, ShellStart PROVE IInv'
<1>1. PICK k \in {"bash", "user", "program"}, c \in Cmd, ok \in BOOLEAN :
         LET r == started + 1
         IN  /\ k # "bash" => ~ok
             /\ dir' = IF k # "bash" THEN dir ELSE [dir EXCEPT ![c] = IF ok THEN r ELSE 0]
             /\ proc' = [proc EXCEPT ![r].st = "runs", ![r].out = TRUE]
             /\ sh' = [Idle EXCEPT !.pc = "run", !.kind = k, !.run = r, !.cmd = c, !.spill = ok]
  BY DEF ShellStart
<1> DEFINE r == started + 1
<1>2. r \in Run /\ r > started /\ started \in Nat /\ sh.run = 0 /\ r \in 0..MaxRuns
  BY DEF ShellStart, IInv, ProcsOK, CallOK, Calling
<1>3. UNCHANGED <<drain, log, job, broke, breaks, noted, said>> /\ started' = r
  BY DEF ShellStart
<1>4. sh' \in ShRec /\ sh'.run = r /\ sh'.pc = "run" /\ ~sh'.reaped
  BY <1>1, <1>2, IdleIs, PlacesAre DEF ShRec
<1>5. proc[r] \in ProcRec /\ proc[r].st = "none" /\ drain[r] = "none" /\ ~said[r]
  BY <1>2 DEF IInv, ProcsOK, SaidOK
<1>6. ASSUME NEW s \in Slot PROVE job[s].run # r
  <2>1. CASE Live(s)
    BY <1>2, <2>1, JobFacts
  <2>2. CASE ~Live(s)
    BY <1>2, <2>2 DEF Live
  <2> QED
    BY <2>1, <2>2
<1>7. proc' = [proc EXCEPT ![r] = [proc[r] EXCEPT !.st = "runs", !.out = TRUE]]
  BY <1>1
<1>8. LET p == [proc[r] EXCEPT !.st = "runs", !.out = TRUE]
      IN  p \in ProcRec /\ p.st = "runs" /\ p.pipe = proc[r].pipe /\ p.made = proc[r].made
  BY <1>5 DEF ProcRec
<1>9. proc' \in [Run -> ProcRec] /\ proc'[r].st = "runs" /\ proc'[r].pipe = proc[r].pipe /\ proc'[r].made = proc[r].made
      /\ \A q \in Run : q # r => proc'[q] = proc[q]
  BY <1>2, <1>7, <1>8 DEF IInv, ProcsOK
<1>10. dir' \in [Cmd -> 0..MaxRuns]
  BY <1>1, <1>2 DEF IInv, ProcsOK
<1> HIDE DEF r
<1>11. ProcsOK'
  <2>1. \A q \in Run : proc'[q].pipe <= proc'[q].made
    BY <1>2, <1>9 DEF IInv, ProcsOK
  <2>2. \A q \in Run : q > r => proc'[q].st = "none" /\ drain[q] = "none"
    BY <1>2, <1>9 DEF IInv, ProcsOK
  <2> QED
    BY <1>2, <1>3, <1>9, <1>10, <2>1, <2>2 DEF IInv, ProcsOK
<1>12. TableOK'
  <2>1. ASSUME NEW s \in Slot, Live(s) PROVE proc'[job[s].run] = proc[job[s].run] /\ job[s].run <= r
    BY <1>2, <1>6, <1>9, <2>1, JobFacts
  <2> QED
    BY <1>3, <2>1 DEF IInv, TableOK, Live
<1>13. CallOK'
  BY <1>2, <1>3, <1>4, <1>5, <1>6, <1>9 DEF CallOK, Calling, InTool
<1>14. SaidOK'
  BY <1>2, <1>3 DEF IInv, SaidOK
<1>15. JobsOwned'
  BY <1>2, <1>3, <1>4, <1>9 DEF IInv, JobsOwned, InCall
<1> QED
  BY <1>11, <1>12, <1>13, <1>14, <1>15 DEF IInv

\* A step that changes only what the call is about, outside a command.
LEMMA CallStep ==
    ASSUME IInv, sh.run = 0, sh.pc # "quit", UNCHANGED <<proc, drain, log, dir, job, started, broke, breaks, noted, said>>,
           sh' \in ShRec, sh'.run = 0, sh'.pc \notin Calling \cup {"quit"},
           sh'.pc \in InTool => sh'.slot \in Slot /\ Live(sh'.slot),
           sh'.pc = "signal" => job[sh'.slot].running
    PROVE  IInv'
<1>1. ProcsOK' /\ TableOK' /\ SaidOK'
  BY DEF IInv, ProcsOK, TableOK, SaidOK, Live
<1>2. CallOK'
  BY DEF CallOK, Calling, InTool, Live
<1>3. JobsOwned'
  BY DEF IInv, JobsOwned, InCall, CallOK, ShRec
<1> QED
  BY <1>1, <1>2, <1>3 DEF IInv

LEMMA JobCallStep == ASSUME IInv, JobCall PROVE IInv'
<1>1. PICK s \in Slot, k \in {"poll", "wait", "kill"} :
         /\ Live(s)
         /\ sh' = [Idle EXCEPT !.pc = IF k # "kill" THEN "wait" ELSE IF job[s].running THEN "signal" ELSE "page",
                               !.kind = k, !.slot = s]
  BY DEF JobCall
<1>0. k \in Kinds /\ s \in 0..NJobs
  BY PlacesAre
<1>2. sh' \in ShRec /\ sh'.run = 0 /\ sh'.slot = s /\ sh'.pc \in InTool /\ (sh'.pc = "signal" => job[s].running)
  BY <1>0, <1>1, IdleIs, PlacesAre DEF ShRec, InTool
<1> QED
  BY <1>1, <1>2, CallStep DEF JobCall, IInv, CallOK, Calling, InTool

LEMMA FlagStep == ASSUME IInv, Break \/ TurnOver PROVE IInv'
<1>1. UNCHANGED <<proc, drain, log, dir, job, sh, started, noted, said>>
  BY DEF Break, TurnOver
<1>2. broke' \in BOOLEAN /\ breaks' \in 0..MaxBreaks
  <2>1. breaks \in Nat /\ breaks <= MaxBreaks /\ broke \in BOOLEAN
    BY DEF IInv, SaidOK
  <2>2. breaks' \in 0..MaxBreaks
    BY <2>1 DEF Break, TurnOver
  <2>3. broke' \in BOOLEAN
    BY DEF Break, TurnOver
  <2> QED
    BY <2>2, <2>3
<1>3. ProcsOK' /\ TableOK' /\ CallOK'
  BY <1>1 DEF IInv, ProcsOK, TableOK, CallOK, Live
<1>4. SaidOK' /\ JobsOwned'
  BY <1>1, <1>2 DEF IInv, SaidOK, JobsOwned, InCall
<1> QED
  BY <1>3, <1>4 DEF IInv

--------------------------------------------------------------------------------
(* The job tool and the notes *)

\* What job_refresh makes of a job, of its process and of its drainer.
LEMMA RefreshedJob ==
    ASSUME IInv, NEW S \in SUBSET Slot, NEW s \in Slot
    PROVE  LET j == Refreshed(S)[s]
           IN  /\ j \in JobRec /\ j.run = job[s].run /\ j.cmd = job[s].cmd /\ j.read = job[s].read
               /\ j.reported = job[s].reported /\ j.announced = job[s].announced
               /\ j.running <=> job[s].running /\ ~(s \in S /\ Ended(s))
               /\ j.drained <=> job[s].drained \/ (s \in S /\ Drained(s))
<1>1. job[s] \in JobRec
  BY DEF IInv, TableOK
<1>2. Refreshed(S)[s] = [job[s] EXCEPT !.running = @ /\ ~(s \in S /\ Ended(s)),
                                       !.drained = @ \/ (s \in S /\ Drained(s))]
  BY DEF Refreshed
<1>3. (job[s].running /\ ~(s \in S /\ Ended(s))) \in BOOLEAN /\ (job[s].drained \/ (s \in S /\ Drained(s))) \in BOOLEAN
  OBVIOUS
<1> QED
  BY <1>1, <1>2, <1>3 DEF JobRec

LEMMA RefreshedProc ==
    ASSUME IInv, NEW S \in SUBSET Slot, NEW r \in Run
    PROVE  /\ ProcAfter(S)[r] \in ProcRec /\ ProcAfter(S)[r].pipe <= ProcAfter(S)[r].made
           /\ ProcAfter(S)[r].st = IF \E s \in S : Ended(s) /\ job[s].run = r THEN "gone" ELSE proc[r].st
           /\ DrainAfter(S)[r] = IF \E s \in S : Drained(s) /\ job[s].run = r THEN "gone" ELSE drain[r]
           /\ DrainAfter(S)[r] \in {"none", "runs", "zombie", "gone"}
<1>1. proc[r] \in ProcRec /\ proc[r].pipe <= proc[r].made /\ drain[r] \in {"none", "runs", "zombie", "gone"}
  BY RunFacts
<1>2. Reaped(proc[r]) \in ProcRec /\ Reaped(proc[r]).pipe <= Reaped(proc[r]).made /\ Reaped(proc[r]).st = "gone"
  BY <1>1 DEF Reaped, ProcRec
<1> QED
  BY <1>1, <1>2 DEF ProcAfter, DrainAfter

\* The job stays tied to its run, and a run without a job is let alone.
LEMMA RefreshKeeps ==
    ASSUME IInv, NEW S \in SUBSET Slot
    PROVE  /\ Refreshed(S) \in [Slot -> JobRec] /\ ProcAfter(S) \in [Run -> ProcRec]
           /\ DrainAfter(S) \in [Run -> {"none", "runs", "zombie", "gone"}]
           /\ \A r \in Run : ProcAfter(S)[r].pipe <= ProcAfter(S)[r].made
           /\ \A r \in Run : (\A s \in Slot : job[s].run # r) => ProcAfter(S)[r].st = proc[r].st /\ DrainAfter(S)[r] = drain[r]
           /\ \A s \in Slot : ~Live(s) => ~Refreshed(S)[s].running
           /\ \A s \in Slot : Live(s) => LET r == job[s].run
                                         IN  JobOK(Refreshed(S)[s], ProcAfter(S)[r], DrainAfter(S)[r], log[r], said[r])
<1>1. Refreshed(S) \in [Slot -> JobRec]
  <2>1. \A s \in Slot : Refreshed(S)[s] \in JobRec
    BY RefreshedJob
  <2> QED
    BY <2>1 DEF Refreshed
<1>2. /\ ProcAfter(S) \in [Run -> ProcRec] /\ DrainAfter(S) \in [Run -> {"none", "runs", "zombie", "gone"}]
      /\ \A r \in Run : ProcAfter(S)[r].pipe <= ProcAfter(S)[r].made
  <2>1. \A r \in Run : /\ ProcAfter(S)[r] \in ProcRec /\ ProcAfter(S)[r].pipe <= ProcAfter(S)[r].made
                       /\ DrainAfter(S)[r] \in {"none", "runs", "zombie", "gone"}
    BY RefreshedProc
  <2>2. ProcAfter(S) = [r \in Run |-> ProcAfter(S)[r]] /\ DrainAfter(S) = [r \in Run |-> DrainAfter(S)[r]]
    BY DEF ProcAfter, DrainAfter
  <2> QED
    BY <2>1, <2>2
<1>3. ASSUME NEW r \in Run, \A s \in Slot : job[s].run # r
      PROVE  ProcAfter(S)[r].st = proc[r].st /\ DrainAfter(S)[r] = drain[r]
  <2>1. ~\E s \in S : job[s].run = r
    BY <1>3
  <2> QED
    BY <2>1, RefreshedProc
<1>4. ASSUME NEW s \in Slot, ~Live(s) PROVE ~Refreshed(S)[s].running
  BY <1>4, RefreshedJob DEF IInv, TableOK
<1>5. ASSUME NEW s \in Slot, Live(s)
      PROVE  LET r == job[s].run IN JobOK(Refreshed(S)[s], ProcAfter(S)[r], DrainAfter(S)[r], log[r], said[r])
  <2> DEFINE r == job[s].run
             j == Refreshed(S)[s]
  <2>1. r \in Run /\ JobOK(job[s], proc[r], drain[r], log[r], said[r])
    BY <1>5, JobFacts
  <2>2. \A t \in Slot : job[t].run = r => t = s
    BY <1>5 DEF IInv, TableOK
  <2>3. j.read = job[s].read /\ j.reported = job[s].reported /\ j.announced = job[s].announced
        /\ (j.running <=> job[s].running /\ ~(s \in S /\ Ended(s)))
        /\ (j.drained <=> job[s].drained \/ (s \in S /\ Drained(s)))
    BY RefreshedJob
  <2>4. ProcAfter(S)[r].st = IF s \in S /\ Ended(s) THEN "gone" ELSE proc[r].st
    BY <2>1, <2>2, RefreshedProc
  <2>5. DrainAfter(S)[r] = IF s \in S /\ Drained(s) THEN "gone" ELSE drain[r]
    BY <2>1, <2>2, RefreshedProc
  <2>6. Ended(s) <=> job[s].running /\ proc[r].st = "zombie"
    BY DEF Ended
  <2>7. Drained(s) <=> ~job[s].drained /\ drain[r] = "zombie"
    BY <1>5 DEF Drained
  <2> HIDE DEF j, r
  <2>8. j.running <=> ProcAfter(S)[r].st \in Alive
    BY <2>1, <2>3, <2>4, <2>6 DEF JobOK, Alive
  <2>9. IF j.drained THEN DrainAfter(S)[r] = "gone" ELSE DrainAfter(S)[r] \in Alive
    BY <2>1, <2>3, <2>5, <2>7 DEF JobOK, Alive
  <2>10. ProcAfter(S)[r].st # "none" /\ j.read <= log[r] /\ (j.announced <=> said[r]) /\ (j.reported => j.announced)
    BY <2>1, <2>3, <2>4 DEF JobOK
  <2> QED
    BY <2>8, <2>9, <2>10 DEF JobOK, j, r
<1> QED
  BY <1>1, <1>2, <1>3, <1>4, <1>5

\* A step of the job tool, or a note: every job keeps its run, and what is said of it stays true.
LEMMA TableStep ==
    ASSUME IInv, sh.run = 0, sh.pc # "quit",
           proc' \in [Run -> ProcRec], drain' \in [Run -> {"none", "runs", "zombie", "gone"}], job' \in [Slot -> JobRec],
           \A r \in Run : proc'[r].pipe <= proc'[r].made,
           \A r \in Run : (\A s \in Slot : job[s].run # r) => proc'[r].st = proc[r].st /\ drain'[r] = drain[r],
           \A s \in Slot : job'[s].run = job[s].run,
           \A s \in Slot : ~Live(s) => ~job'[s].running,
           \A s \in Slot : Live(s) => LET r == job[s].run IN JobOK(job'[s], proc'[r], drain'[r], log[r], said'[r]),
           noted' \in [Run -> 0..1], said' \in [Run -> BOOLEAN],
           \A r \in Run : noted'[r] > 0 => said'[r], \A r \in Run : said'[r] => r <= started,
           sh' \in ShRec, sh'.run = 0, sh'.pc \notin Calling \cup {"quit"},
           sh'.pc \in InTool => sh'.slot \in Slot /\ Live(sh'.slot),
           sh'.pc = "signal" => job'[sh'.slot].running,
           UNCHANGED <<log, dir, started, broke, breaks>>
    PROVE  IInv'
<1>1. \A s \in Slot : Live(s)' <=> Live(s)
  BY DEF Live
<1>2. \A r \in Run : r > started => \A s \in Slot : job[s].run # r
  <2> SUFFICES ASSUME NEW r \in Run, r > started, NEW s \in Slot, job[s].run = r PROVE FALSE
    OBVIOUS
  <2>1. Live(s)
    BY DEF Live
  <2>2. job[s].run <= started
    BY <2>1, JobFacts
  <2>3. started \in Nat
    BY DEF IInv, ProcsOK
  <2> QED
    BY <2>2, <2>3
<1>3. ProcsOK'
  BY <1>2 DEF IInv, ProcsOK
<1>4. TableOK'
  BY <1>1 DEF IInv, TableOK, Live
<1>5. CallOK'
  BY <1>1 DEF CallOK, Calling, InTool
<1>6. SaidOK'
  BY DEF IInv, SaidOK
<1>7. JobsOwned'
  <2> SUFFICES ASSUME NEW r \in Run
               PROVE  /\ proc'[r].st \in Alive => \E s \in Slot : job'[s].run = r /\ job'[s].running
                      /\ drain'[r] \in Alive => \E s \in Slot : job'[s].run = r /\ ~job'[s].drained
    BY DEF JobsOwned, Alive
  <2>1. CASE \E s \in Slot : job[s].run = r
    <3>1. PICK s \in Slot : job[s].run = r
      BY <2>1
    <3>2. JobOK(job'[s], proc'[r], drain'[r], log[r], said'[r])
      BY <3>1 DEF Live
    <3> QED
      BY <3>1, <3>2 DEF JobOK, Alive
  <2>2. CASE \A s \in Slot : job[s].run # r
    <3>1. ~InCall(r)
      BY DEF InCall
    <3>2. /\ proc[r].st \in Alive => InCall(r) \/ \E s \in Slot : job[s].run = r /\ job[s].running
          /\ drain[r] \in Alive => \E s \in Slot : job[s].run = r /\ ~job[s].drained
      BY DEF IInv, JobsOwned, Alive
    <3> QED
      BY <2>2, <3>1, <3>2
  <2> QED
    BY <2>1, <2>2
<1> QED
  BY <1>3, <1>4, <1>5, <1>6, <1>7 DEF IInv

LEMMA NotCalling == ASSUME IInv, sh.pc \notin Calling PROVE sh.run = 0
BY DEF IInv, CallOK

LEMMA SaidFacts ==
    ASSUME IInv
    PROVE  /\ noted \in [Run -> 0..1] /\ said \in [Run -> BOOLEAN]
           /\ \A r \in Run : noted[r] > 0 => said[r]
           /\ \A r \in Run : said[r] => r <= started
BY DEF IInv, SaidOK

\* The jobs of a run: its slot, if it has one.
LEMMA OneSlot == ASSUME IInv, NEW s \in Slot, NEW t \in Slot, Live(s), job[t].run = job[s].run PROVE t = s
BY DEF IInv, TableOK

LEMMA JobListStep == ASSUME IInv, JobList PROVE IInv'
<1>1. sh.run = 0 /\ sh.pc # "quit"
  BY NotCalling DEF JobList, Calling
<1>2. job' = [s \in Slot |-> [Refreshed(Slot)[s] EXCEPT !.announced = @ \/ (Live(s) /\ ~Refreshed(Slot)[s].running)]]
      /\ said' = [r \in Run |-> said[r] \/ \E s \in Slot : job[s].run = r /\ ~Refreshed(Slot)[s].running]
      /\ proc' = ProcAfter(Slot) /\ drain' = DrainAfter(Slot)
      /\ UNCHANGED <<log, dir, started, broke, breaks, noted>> /\ sh' = [Idle EXCEPT !.pc = "note"]
  BY DEF JobList
<1>3. sh' \in ShRec /\ sh'.run = 0 /\ sh'.pc = "note"
  BY <1>2, IdleIs, PlacesAre DEF ShRec
<1>4. ASSUME NEW s \in Slot
      PROVE  /\ job'[s] \in JobRec /\ job'[s].run = job[s].run /\ job'[s].running = Refreshed(Slot)[s].running
             /\ job'[s].drained = Refreshed(Slot)[s].drained /\ job'[s].read = Refreshed(Slot)[s].read
             /\ job'[s].reported = Refreshed(Slot)[s].reported
             /\ job'[s].announced <=> Refreshed(Slot)[s].announced \/ (Live(s) /\ ~Refreshed(Slot)[s].running)
  <2>1. Refreshed(Slot)[s] \in JobRec /\ Refreshed(Slot)[s].run = job[s].run
    BY RefreshedJob
  <2>2. job'[s] = [Refreshed(Slot)[s] EXCEPT !.announced = @ \/ (Live(s) /\ ~Refreshed(Slot)[s].running)]
    BY <1>2
  <2>3. (Refreshed(Slot)[s].announced \/ (Live(s) /\ ~Refreshed(Slot)[s].running)) \in BOOLEAN
    OBVIOUS
  <2> QED
    BY <2>1, <2>2, <2>3 DEF JobRec
<1>5. job' \in [Slot -> JobRec]
  BY <1>2, <1>4
<1>6. ASSUME NEW s \in Slot, Live(s)
      PROVE  LET r == job[s].run IN JobOK(job'[s], proc'[r], drain'[r], log[r], said'[r])
  <2> DEFINE r == job[s].run
             j == Refreshed(Slot)[s]
  <2>1. JobOK(j, proc'[r], drain'[r], log[r], said[r]) /\ r \in Run
    BY <1>2, <1>6, RefreshKeeps, JobFacts
  <2>2. said'[r] <=> said[r] \/ ~j.running
    BY <1>2, <1>6, <2>1, OneSlot
  <2> HIDE DEF r, j
  <2>3. JobOK(job'[s], proc'[r], drain'[r], log[r], said'[r])
    BY <1>4, <1>6, <2>1, <2>2 DEF JobOK, j
  <2> QED
    BY <2>3 DEF r
<1>7. ASSUME NEW r \in Run, said'[r] PROVE r <= started
  <2>1. CASE said[r]
    BY <2>1, SaidFacts
  <2>2. CASE \E s \in Slot : job[s].run = r
    BY <2>2, JobFacts DEF Live
  <2> QED
    BY <1>2, <1>7, <2>1, <2>2
<1>8. said' \in [Run -> BOOLEAN] /\ \A r \in Run : said[r] => said'[r]
  BY <1>2
<1>9. \A s \in Slot : ~Live(s) => ~job'[s].running
  BY <1>4, RefreshKeeps
<1>10. /\ proc' \in [Run -> ProcRec] /\ drain' \in [Run -> {"none", "runs", "zombie", "gone"}]
       /\ \A r \in Run : proc'[r].pipe <= proc'[r].made
       /\ \A r \in Run : (\A s \in Slot : job[s].run # r) => proc'[r].st = proc[r].st /\ drain'[r] = drain[r]
  BY <1>2, RefreshKeeps
<1>11. /\ \A s \in Slot : job'[s].run = job[s].run
       /\ noted' \in [Run -> 0..1] /\ \A r \in Run : noted'[r] > 0 => said'[r]
  BY <1>2, <1>4, <1>8, SaidFacts
<1> QED
  BY <1>1, <1>2, <1>3, <1>5, <1>6, <1>7, <1>8, <1>9, <1>10, <1>11, TableStep DEF Calling, InTool

\* One look at the job the call is about.
LEMMA LookStep ==
    ASSUME IInv, sh.pc \in InTool, Refresh({sh.slot}), sh' \in ShRec, sh'.run = 0, sh'.slot = sh.slot, sh'.pc \in InTool,
           sh'.pc = "signal" => job'[sh.slot].running,
           UNCHANGED <<log, dir, started, broke, breaks, noted, said>>
    PROVE  IInv'
<1>1. sh.run = 0 /\ sh.pc # "quit" /\ sh.slot \in Slot /\ Live(sh.slot)
  BY DEF IInv, CallOK, Calling, InTool
<1>2. job' = Refreshed({sh.slot}) /\ proc' = ProcAfter({sh.slot}) /\ drain' = DrainAfter({sh.slot})
  BY DEF Refresh
<1>3. {sh.slot} \in SUBSET Slot
  BY <1>1
<1>4. \A s \in Slot : job'[s].run = job[s].run
  BY <1>2, <1>3, RefreshedJob
<1> QED
  BY <1>1, <1>2, <1>3, <1>4, RefreshKeeps, SaidFacts, TableStep DEF Calling, InTool

LEMMA JobLookStep == ASSUME IInv, JobLook PROVE IInv'
<1>1. sh.pc = "wait" /\ Refresh({sh.slot}) /\ UNCHANGED <<log, dir, started, broke, breaks, noted, said>>
  BY DEF JobLook
<1>2. sh \in ShRec /\ sh.run = 0
  BY <1>1 DEF IInv, CallOK, Calling
<1>3. \/ ~job'[sh.slot].running /\ sh' = [sh EXCEPT !.pc = "page"]
      \/ UNCHANGED sh
      \/ job'[sh.slot].running /\ sh' = [sh EXCEPT !.pc = "signal", !.intr = TRUE]
      \/ sh' = [sh EXCEPT !.pc = "page"]
      \/ sh' = [sh EXCEPT !.pc = "wait"]
  BY DEF JobLook
<1>4. /\ sh' \in ShRec /\ sh'.run = 0 /\ sh'.slot = sh.slot /\ sh'.pc \in InTool
      /\ sh'.pc = "signal" => job'[sh.slot].running
  BY <1>1, <1>2, <1>3, PlacesAre DEF ShRec, InTool
<1> QED
  BY <1>1, <1>4, LookStep DEF InTool

LEMMA JobSignalStep == ASSUME IInv, JobSignal PROVE IInv'
<1>0. sh.pc = "signal" /\ UNCHANGED <<log, dir, started, broke, breaks, noted, said>>
  BY DEF JobSignal
<1>1. sh \in ShRec /\ sh.run = 0 /\ sh.slot \in Slot /\ Live(sh.slot) /\ job[sh.slot].running
  BY <1>0 DEF IInv, CallOK, Calling, InTool
<1>2. CASE Refresh({sh.slot}) /\ sh' = [sh EXCEPT !.pc = IF job'[sh.slot].running THEN "signal" ELSE "page"]
  <2>1. /\ sh' \in ShRec /\ sh'.run = 0 /\ sh'.slot = sh.slot /\ sh'.pc \in InTool
        /\ sh'.pc = "signal" => job'[sh.slot].running
    BY <1>1, <1>2, PlacesAre DEF ShRec, InTool
  <2> QED
    BY <1>0, <1>2, <2>1, LookStep DEF InTool
<1>3. CASE /\ \E p \in Killed(proc[job[sh.slot].run]) : proc' = [proc EXCEPT ![job[sh.slot].run] = Reaped(p)]
           /\ job' = [job EXCEPT ![sh.slot].running = FALSE]
           /\ sh' = [sh EXCEPT !.pc = "page"] /\ UNCHANGED drain
  <2> DEFINE r == job[sh.slot].run
             t == sh.slot
  <2>1. r \in Run /\ job[t] \in JobRec /\ JobOK(job[t], proc[r], drain[r], log[r], said[r])
    BY <1>1, JobFacts
  <2>2. PICK p \in Killed(proc[r]) : proc' = [proc EXCEPT ![r] = Reaped(p)]
    BY <1>3
  <2>3. p \in ProcRec /\ p.pipe <= p.made
    BY <2>1, <2>2, KilledIs, RunFacts
  <2>4. Reaped(p) \in ProcRec /\ Reaped(p).pipe <= Reaped(p).made /\ Reaped(p).st = "gone"
    BY <2>3 DEF Reaped, ProcRec
  <2>5. proc \in [Run -> ProcRec] /\ job \in [Slot -> JobRec] /\ \A q \in Run : proc[q].pipe <= proc[q].made
    BY DEF IInv, ProcsOK, TableOK
  <2>6. /\ proc' \in [Run -> ProcRec] /\ proc'[r] = Reaped(p) /\ \A q \in Run : q # r => proc'[q] = proc[q]
        /\ \A q \in Run : proc'[q].pipe <= proc'[q].made
    BY <2>1, <2>2, <2>4, <2>5
  <2>7. job'[t] = [job[t] EXCEPT !.running = FALSE] /\ \A s \in Slot : s # t => job'[s] = job[s]
    BY <1>1, <1>3, <2>5
  <2>8. [job[t] EXCEPT !.running = FALSE] \in JobRec
    BY <2>1 DEF JobRec
  <2>9. job' \in [Slot -> JobRec]
    BY <1>1, <1>3, <2>5, <2>8
  <2>10. /\ job'[t].run = r /\ ~job'[t].running /\ job'[t].drained = job[t].drained /\ job'[t].read = job[t].read
         /\ job'[t].reported = job[t].reported /\ job'[t].announced = job[t].announced
    BY <2>1, <2>7 DEF JobRec
  <2>11. JobOK(job'[t], proc'[r], drain'[r], log[r], said'[r])
    BY <1>0, <1>3, <2>1, <2>4, <2>6, <2>10 DEF JobOK, Alive
  <2>12. \A s \in Slot : job'[s].run = job[s].run
    BY <2>7, <2>10
  <2>13. ASSUME NEW s \in Slot, Live(s)
         PROVE  LET q == job[s].run IN JobOK(job'[s], proc'[q], drain'[q], log[q], said'[q])
    <3>1. CASE s = t
      BY <2>11, <3>1
    <3>2. CASE s # t
      <4>1. job[s].run # r /\ job[s].run \in Run
        BY <1>1, <2>13, <3>2, OneSlot, JobFacts
      <4> QED
        BY <1>0, <1>3, <2>6, <2>7, <2>13, <3>2, <4>1, JobFacts
    <3> QED
      BY <3>1, <3>2
  <2>14. \A s \in Slot : ~Live(s) => ~job'[s].running
    BY <1>1, <2>7 DEF IInv, TableOK
  <2>15. sh' \in ShRec /\ sh'.run = 0 /\ sh'.slot = t /\ sh'.pc = "page"
    BY <1>1, <1>3, PlacesAre DEF ShRec
  <2>16. drain' \in [Run -> {"none", "runs", "zombie", "gone"}]
    BY <1>3 DEF IInv, ProcsOK
  <2>17. \A q \in Run : (\A s \in Slot : job[s].run # q) => proc'[q].st = proc[q].st /\ drain'[q] = drain[q]
    BY <1>1, <1>3, <2>6
  <2> QED
    BY <1>0, <1>1, <2>6, <2>9, <2>12, <2>13, <2>14, <2>15, <2>16, <2>17, SaidFacts, TableStep DEF Calling, InTool
<1> QED
  BY <1>2, <1>3 DEF JobSignal

\* A page is read, and no further than the log goes.
LEMMA PageIs ==
    ASSUME NEW l \in Nat, NEW k \in Nat, k <= l
    PROVE  LET n == Min({Page, l - k}) IN n \in Nat /\ k + n <= l
<1> DEFINE n == IF Page <= l - k THEN Page ELSE l - k
<1>1. n \in {Page, l - k} /\ \A y \in {Page, l - k} : n <= y
  OBVIOUS
<1>2. \A x \in {Page, l - k} : (\A y \in {Page, l - k} : x <= y) => x = n
  OBVIOUS
<1>3. Min({Page, l - k}) = n
  BY <1>1, <1>2 DEF Min
<1> QED
  BY <1>3

LEMMA JobPageStep == ASSUME IInv, JobPage PROVE IInv'
<1> DEFINE t == sh.slot
           r == job[t].run
           n == Min({Page, log[r] - job[t].read})
           pending == log[r] > job[t].read + n
<1>0. sh.pc = "page" /\ UNCHANGED <<proc, drain, log, dir, started, broke, breaks, noted>>
      /\ sh' = [Idle EXCEPT !.pc = "note"]
      /\ said' = [said EXCEPT ![r] = @ \/ ~job[t].running]
      /\ job' = [job EXCEPT ![t].read = @ + n, ![t].announced = @ \/ ~job[t].running,
                            ![t].reported = @ \/ (~job[t].running /\ ~pending)]
  BY DEF JobPage
<1>1. sh.run = 0 /\ t \in Slot /\ Live(t)
  BY <1>0 DEF IInv, CallOK, Calling, InTool
<1>2. r \in Run /\ r <= started /\ job[t] \in JobRec /\ JobOK(job[t], proc[r], drain[r], log[r], said[r])
      /\ job[t].read \in Nat /\ log[r] \in 0..LogCap /\ log[r] \in Nat
  BY <1>1, JobFacts, RunFacts
<1>3. n \in Nat /\ job[t].read + n <= log[r]
  BY <1>2, PageIs DEF JobOK
<1>4. job \in [Slot -> JobRec] /\ proc \in [Run -> ProcRec] /\ drain \in [Run -> {"none", "runs", "zombie", "gone"}]
      /\ \A q \in Run : proc[q].pipe <= proc[q].made
  BY DEF IInv, ProcsOK, TableOK
<1> HIDE DEF n, pending
<1> DEFINE j == [job[t] EXCEPT !.read = @ + n, !.announced = @ \/ ~job[t].running,
                               !.reported = @ \/ (~job[t].running /\ ~pending)]
<1>5. job' = [job EXCEPT ![t] = j]
  BY <1>0, <1>4
<1>6. job[t].read + n \in 0..LogCap
  BY <1>2, <1>3
<1>7. (job[t].announced \/ ~job[t].running) \in BOOLEAN /\ (job[t].reported \/ (~job[t].running /\ ~pending)) \in BOOLEAN
  OBVIOUS
<1>8. /\ j \in JobRec /\ j.run = r /\ j.running = job[t].running /\ j.drained = job[t].drained
      /\ j.read = job[t].read + n /\ (j.announced <=> job[t].announced \/ ~job[t].running)
      /\ j.reported <=> job[t].reported \/ (~job[t].running /\ ~pending)
  BY <1>2, <1>6, <1>7 DEF JobRec
<1> HIDE DEF j
<1>9. job' \in [Slot -> JobRec] /\ job'[t] = j /\ \A s \in Slot : s # t => job'[s] = job[s]
  BY <1>1, <1>4, <1>5, <1>8
<1>10. /\ said' \in [Run -> BOOLEAN] /\ (said'[r] <=> said[r] \/ ~job[t].running)
       /\ \A q \in Run : q # r => said'[q] = said[q]
  BY <1>0, <1>2, SaidFacts
<1>11. JobOK(j, proc'[r], drain'[r], log[r], said'[r])
  BY <1>0, <1>2, <1>3, <1>8, <1>10 DEF JobOK
<1>12. ASSUME NEW s \in Slot, Live(s)
       PROVE  LET q == job[s].run IN JobOK(job'[s], proc'[q], drain'[q], log[q], said'[q])
  <2>1. CASE s = t
    BY <1>9, <1>11, <2>1
  <2>2. CASE s # t
    <3>1. job[s].run # r /\ job[s].run \in Run
      BY <1>1, <1>12, <2>2, OneSlot, JobFacts
    <3> QED
      BY <1>0, <1>9, <1>10, <1>12, <2>2, <3>1, JobFacts
  <2> QED
    BY <2>1, <2>2
<1>13. \A s \in Slot : job'[s].run = job[s].run
  BY <1>8, <1>9
<1>14. \A s \in Slot : ~Live(s) => ~job'[s].running
  BY <1>1, <1>9 DEF IInv, TableOK
<1>15. sh' \in ShRec /\ sh'.run = 0 /\ sh'.pc = "note"
  BY <1>0, IdleIs, PlacesAre DEF ShRec
<1>16. /\ \A q \in Run : noted'[q] > 0 => said'[q]
       /\ \A q \in Run : said'[q] => q <= started
  BY <1>0, <1>2, <1>10, SaidFacts
<1> HIDE DEF r, t
<1> QED
  BY <1>0, <1>1, <1>4, <1>9, <1>10, <1>12, <1>13, <1>14, <1>15, <1>16, SaidFacts, TableStep DEF Calling, InTool

\* A note names the end of a run once: the run has one slot, and nothing has said its end.
LEMMA NotedIs ==
    ASSUME IInv, JobsNote, NEW r \in Run
    PROVE  LET S == {s \in Slot : Unsaid(s)}
               told == \E s \in Slot : job[s].run = r /\ s \in S /\ ~Refreshed(S)[s].running
           IN  /\ said'[r] <=> said[r] \/ told
               /\ noted'[r] = IF told THEN 1 ELSE noted[r]
               /\ told => ~said[r]
<1> DEFINE S == {s \in Slot : Unsaid(s)}
           N == {s \in Slot : job[s].run = r /\ s \in S /\ ~Refreshed(S)[s].running}
           told == \E s \in Slot : job[s].run = r /\ s \in S /\ ~Refreshed(S)[s].running
<1>1. noted'[r] = noted[r] + Cardinality(N)
  BY DEF JobsNote
<1>2. said'[r] <=> said[r] \/ told
  BY DEF JobsNote
<1>3. noted[r] \in Nat /\ (noted[r] > 0 => said[r])
  BY SaidFacts
<1>4. CASE told
  <2>1. PICK s \in Slot : job[s].run = r /\ s \in S /\ ~Refreshed(S)[s].running
    BY <1>4
  <2>2. Live(s) /\ ~job[s].announced
    BY <2>1 DEF Unsaid
  <2>3. ~said[r]
    BY <2>1, <2>2, JobFacts DEF JobOK
  <2>4. \A u \in N : u = s
    BY <2>1, <2>2, OneSlot
  <2>5. N = {s}
    BY <2>1, <2>4
  <2>6. Cardinality(N) = 1
    BY <2>5, FS_Singleton
  <2> QED
    BY <1>1, <1>2, <1>3, <1>4, <2>3, <2>6
<1>5. CASE ~told
  <2>1. Cardinality(N) = 0
    BY <1>5, FS_EmptySet
  <2> QED
    BY <1>1, <1>2, <1>3, <1>5, <2>1
<1> QED
  BY <1>4, <1>5

LEMMA JobsNoteStep == ASSUME IInv, JobsNote PROVE IInv'
<1> DEFINE S == {s \in Slot : Unsaid(s)}
           told(r) == \E s \in Slot : job[s].run = r /\ s \in S /\ ~Refreshed(S)[s].running
<1>1. sh.run = 0 /\ sh.pc # "quit" /\ S \in SUBSET Slot
  BY NotCalling DEF JobsNote, Calling
<1>2. /\ job' = [s \in Slot |-> [Refreshed(S)[s] EXCEPT !.announced = @ \/ (s \in S /\ ~Refreshed(S)[s].running)]]
      /\ proc' = ProcAfter(S) /\ drain' = DrainAfter(S)
      /\ UNCHANGED <<log, dir, started, broke, breaks>> /\ sh' = Idle
      /\ said' = [r \in Run |-> said[r] \/ told(r)] /\ DOMAIN noted' = Run
      /\ noted' = [r \in Run |-> noted'[r]]
  BY DEF JobsNote
<1>3. sh' \in ShRec /\ sh'.run = 0 /\ sh'.pc = "idle"
  BY <1>2, IdleIs DEF Idle
<1>4. ASSUME NEW s \in Slot
      PROVE  /\ job'[s] \in JobRec /\ job'[s].run = job[s].run /\ job'[s].running = Refreshed(S)[s].running
             /\ job'[s].drained = Refreshed(S)[s].drained /\ job'[s].read = Refreshed(S)[s].read
             /\ job'[s].reported = Refreshed(S)[s].reported
             /\ job'[s].announced <=> Refreshed(S)[s].announced \/ (s \in S /\ ~Refreshed(S)[s].running)
  <2>1. Refreshed(S)[s] \in JobRec /\ Refreshed(S)[s].run = job[s].run
    BY <1>1, RefreshedJob
  <2>2. job'[s] = [Refreshed(S)[s] EXCEPT !.announced = @ \/ (s \in S /\ ~Refreshed(S)[s].running)]
    BY <1>2
  <2>3. (Refreshed(S)[s].announced \/ (s \in S /\ ~Refreshed(S)[s].running)) \in BOOLEAN
    OBVIOUS
  <2> QED
    BY <2>1, <2>2, <2>3 DEF JobRec
<1>5. job' \in [Slot -> JobRec]
  BY <1>2, <1>4
<1>6. ASSUME NEW r \in Run
      PROVE  /\ said'[r] <=> said[r] \/ told(r)
             /\ noted'[r] = IF told(r) THEN 1 ELSE noted[r]
  BY NotedIs
<1>7. ASSUME NEW s \in Slot, Live(s)
      PROVE  LET r == job[s].run IN JobOK(job'[s], proc'[r], drain'[r], log[r], said'[r])
  <2> DEFINE r == job[s].run
             j == Refreshed(S)[s]
  <2>1. JobOK(j, proc'[r], drain'[r], log[r], said[r]) /\ r \in Run
    BY <1>1, <1>2, <1>7, RefreshKeeps, JobFacts
  <2>2. told(r) <=> s \in S /\ ~j.running
    BY <1>7, <2>1, OneSlot
  <2>3. said'[r] <=> said[r] \/ (s \in S /\ ~j.running)
    BY <1>6, <2>1, <2>2
  <2> HIDE DEF r, j
  <2>4. JobOK(job'[s], proc'[r], drain'[r], log[r], said'[r])
    BY <1>4, <1>7, <2>1, <2>3 DEF JobOK, j
  <2> QED
    BY <2>4 DEF r
<1>8. ASSUME NEW r \in Run, said'[r] PROVE r <= started
  <2>1. CASE said[r]
    BY <2>1, SaidFacts
  <2>2. CASE \E s \in Slot : job[s].run = r
    BY <2>2, JobFacts DEF Live
  <2> QED
    BY <1>6, <1>8, <2>1, <2>2
<1>9. /\ said' \in [Run -> BOOLEAN] /\ noted' \in [Run -> 0..1]
      /\ \A r \in Run : noted'[r] > 0 => said'[r]
  <2>1. \A r \in Run : noted'[r] \in 0..1 /\ (noted'[r] > 0 => said'[r])
    BY <1>6, SaidFacts
  <2> QED
    BY <1>2, <2>1
<1>10. \A s \in Slot : ~Live(s) => ~job'[s].running
  BY <1>1, <1>4, RefreshKeeps
<1>11. /\ proc' \in [Run -> ProcRec] /\ drain' \in [Run -> {"none", "runs", "zombie", "gone"}]
       /\ \A r \in Run : proc'[r].pipe <= proc'[r].made
       /\ \A r \in Run : (\A s \in Slot : job[s].run # r) => proc'[r].st = proc[r].st /\ drain'[r] = drain[r]
  BY <1>1, <1>2, RefreshKeeps
<1>12. \A s \in Slot : job'[s].run = job[s].run
  BY <1>4
<1> HIDE DEF S, told
<1> QED
  BY <1>1, <1>2, <1>3, <1>5, <1>7, <1>8, <1>9, <1>10, <1>11, <1>12, TableStep DEF Calling, InTool

--------------------------------------------------------------------------------
(* A command becomes a job *)

LEMMA LeastIsIn == ASSUME NEW S \in SUBSET Nat, S # {} PROVE Min(S) \in S
<1> DEFINE R == {ss \in Nat \X Nat : ss[1] < ss[2]}
<1>1. IsWellFoundedOn(R, Nat)
  BY NatLessThanWellFounded, Zenon DEF OpToRel
<1>2. \A x, y \in Nat : <<x, y>> \in R <=> x < y
  OBVIOUS
<1> HIDE DEF R
<1>3. PICK x \in S : \A y \in S : ~(<<y, x>> \in R)
  BY <1>1, WFMin
<1>4. x \in Nat /\ \A y \in S : y \in Nat /\ ~(y < x)
  BY <1>2, <1>3
<1>5. \A y \in S : x <= y
  BY <1>4
<1>6. x \in S
  BY <1>3
<1> QED
  BY <1>5, <1>6 DEF Min

\* The slot a new job gets: a blank one, or one whose job was reported.
LEMMA TakenIs ==
    ASSUME Blank \cup Given # {}
    PROVE  /\ Taken \in Slot /\ Taken \in 0..NJobs /\ Taken # 0
           /\ Blank # {} => Taken \in Blank
           /\ Blank = {} => Taken \in Given
<1>1. Blank \in SUBSET Nat /\ Given \in SUBSET Nat /\ Blank \subseteq Slot /\ Given \subseteq Slot
  BY DEF Blank, Given
<1>2. CASE Blank # {}
  <2>1. Taken \in Blank
    BY <1>1, <1>2, LeastIsIn DEF Taken
  <2> QED
    BY <1>1, <1>2, <2>1
<1>3. CASE Blank = {}
  <2>1. Taken \in Given
    BY <1>1, <1>3, LeastIsIn DEF Taken
  <2> QED
    BY <1>1, <1>3, <2>1
<1> QED
  BY <1>2, <1>3

LEMMA SeenIs == Seen \in SUBSET Slot /\ (Blank = {} /\ Given # {} => Taken \in Seen)
<1>1. CASE Blank # {}
  BY <1>1 DEF Seen
<1>2. CASE Blank = {} /\ Given # {}
  <2>1. Taken \in 1..NJobs
    BY <1>2, TakenIs
  <2> QED
    BY <1>2, <2>1 DEF Seen
<1>3. CASE Blank = {} /\ Given = {}
  BY <1>3 DEF Seen
<1> QED
  BY <1>1, <1>2, <1>3

\* The job that gives its slot up: it ended, its drainer is reaped, and its end was said.
LEMMA FreedIs ==
    ASSUME IInv, Blank = {}, Given # {}
    PROVE  /\ Live(Taken) /\ Taken \in Slot /\ job[Taken].run \in Run
           /\ ProcAfter(Seen)[job[Taken].run].st \notin Alive
           /\ Freed[job[Taken].run] = "gone" /\ said[job[Taken].run]
<1>1. Taken \in Slot /\ Taken \in Given /\ Taken \in Seen /\ Seen \in SUBSET Slot
  BY TakenIs, SeenIs
<1>2. Live(Taken)
  BY <1>1 DEF Blank
<1>3. job[Taken].run \in Run
  BY <1>1, <1>2, JobFacts
<1>4. ~Refreshed(Slot)[Taken].running /\ job[Taken].reported
  BY <1>1 DEF Given
<1>5. ~Refreshed(Seen)[Taken].running
  BY <1>1, <1>4, RefreshedJob
<1>6. ProcAfter(Seen)[job[Taken].run].st \notin Alive
  BY <1>1, <1>2, <1>5, RefreshKeeps DEF JobOK
<1>7. said[job[Taken].run]
  BY <1>1, <1>2, <1>4, JobFacts DEF JobOK
<1>8. Freed[job[Taken].run] = "gone"
  BY <1>3 DEF Freed, Spent
<1> QED
  BY <1>1, <1>2, <1>3, <1>6, <1>7, <1>8

\* The drainers and names after the slot was looked for.
LEMMA FreedOthers ==
    ASSUME IInv
    PROVE  /\ Freed \in [Run -> {"none", "runs", "zombie", "gone"}] /\ Named \in [Cmd -> 0..MaxRuns]
           /\ \A r \in Run : (~(Blank = {} /\ Given # {} /\ job[Taken].run = r)) => Freed[r] = DrainAfter(Seen)[r]
<1>1. DrainAfter(Seen) \in [Run -> {"none", "runs", "zombie", "gone"}]
  BY SeenIs, RefreshKeeps
<1>2. Freed \in [Run -> {"none", "runs", "zombie", "gone"}]
  BY <1>1 DEF Freed, Spent
<1>3. dir \in [Cmd -> 0..MaxRuns] /\ 0 \in 0..MaxRuns
  BY DEF IInv, ProcsOK
<1>4. Named \in [Cmd -> 0..MaxRuns]
  BY <1>3 DEF Named
<1> QED
  BY <1>2, <1>4 DEF Freed

\* The call of a command looked for a slot: the slot t, if there is one, was given up, and is
\* blank or holds the job the command became.
LEMMA TakeStep ==
    ASSUME IInv, sh.run # 0, NEW t \in 0..NJobs,
           proc' \in [Run -> ProcRec], drain' \in [Run -> {"none", "runs", "zombie", "gone"}], job' \in [Slot -> JobRec],
           dir' \in [Cmd -> 0..MaxRuns], \A r \in Run : proc'[r].pipe <= proc'[r].made,
           \A r \in Run : r # sh.run /\ (\A s \in Slot : job[s].run # r)
                             => proc'[r].st = proc[r].st /\ drain'[r] = drain[r],
           proc'[sh.run].st = proc[sh.run].st,
           \A s \in Slot : s # t => job'[s].run = job[s].run /\ (~Live(s) => ~job'[s].running),
           \A s \in Slot : s # t /\ Live(s) => LET r == job[s].run
                                               IN  JobOK(job'[s], proc'[r], drain'[r], log[r], said[r]),
           t \in Slot /\ Live(t) => proc'[job[t].run].st \notin Alive /\ drain'[job[t].run] \notin Alive,
           \/ /\ t \in Slot /\ job'[t].run = sh.run
              /\ JobOK(job'[t], proc'[sh.run], drain'[sh.run], log[sh.run], said[sh.run])
              /\ sh'.run = 0 /\ sh'.pc = "note"
           \/ /\ t \in Slot => job'[t].run = 0 /\ ~job'[t].running
              /\ drain'[sh.run] = "none" /\ sh'.run = sh.run /\ sh'.pc = "run" /\ sh'.reaped = sh.reaped,
           sh' \in ShRec, UNCHANGED <<log, started, broke, breaks, noted, said>>
    PROVE  IInv'
<1>0. sh.run \in Run /\ sh.run <= started /\ ~said[sh.run] /\ \A s \in Slot : job[s].run # sh.run
  BY DEF IInv, CallOK, ShRec
<1>1. \A r \in Run : r > started => r # sh.run /\ \A s \in Slot : job[s].run # r
  <2>1. started \in Nat
    BY DEF IInv, ProcsOK
  <2>2. ASSUME NEW s \in Slot, NEW r \in Run, job[s].run = r PROVE r <= started
    BY <2>2, JobFacts DEF Live
  <2> QED
    BY <1>0, <2>1, <2>2
<1>2. ProcsOK'
  <2>1. \A r \in Run : r > started => proc[r].st = "none" /\ drain[r] = "none"
    BY DEF IInv, ProcsOK
  <2>2. \A r \in Run : r > started => proc'[r].st = "none" /\ drain'[r] = "none"
    BY <1>1, <2>1
  <2> QED
    BY <2>2 DEF IInv, ProcsOK
<1>3. ASSUME NEW s \in Slot, s # t PROVE Live(s)' <=> Live(s)
  BY <1>3 DEF Live
<1>4. TableOK'
  <2>1. \A s \in Slot : ~Live(s)' => ~job'[s].running
    BY <1>0, <1>3 DEF Live
  <2>2. ASSUME NEW s \in Slot, Live(s)'
        PROVE  job'[s].run <= started /\ JobOK(job'[s], proc'[job'[s].run], drain'[job'[s].run], log[job'[s].run], said[job'[s].run])
    <3>1. CASE s = t
      BY <1>0, <2>2, <3>1 DEF Live
    <3>2. CASE s # t
      BY <1>3, <2>2, <3>2, JobFacts
    <3> QED
      BY <3>1, <3>2
  <2>3. ASSUME NEW s \in Slot, NEW u \in Slot, Live(s)', job'[s].run = job'[u].run PROVE s = u
    <3>1. CASE s # t /\ u # t
      BY <1>3, <2>3, <3>1, OneSlot
    <3>2. CASE s = t /\ u # t
      BY <1>0, <2>3, <3>2 DEF Live
    <3>3. CASE s # t /\ u = t
      BY <1>0, <2>3, <3>3 DEF Live
    <3> QED
      BY <3>1, <3>2, <3>3
  <2> QED
    BY <2>1, <2>2, <2>3 DEF TableOK
<1>5. CallOK'
  <2>1. CASE sh'.run = 0 /\ sh'.pc = "note"
    BY <2>1 DEF CallOK, Calling, InTool
  <2>2. CASE sh'.run = sh.run /\ sh'.pc = "run" /\ sh'.reaped = sh.reaped /\ drain'[sh.run] = "none"
             /\ (t \in Slot => job'[t].run = 0)
    <3>1. \A s \in Slot : job'[s].run # sh.run
      BY <1>0, <2>2
    <3>2. proc[sh.run].st # "none" /\ (sh.reaped <=> proc[sh.run].st = "gone")
      BY DEF IInv, CallOK
    <3> QED
      BY <1>0, <2>2, <3>1, <3>2 DEF CallOK, Calling, InTool
  <2> QED
    BY <1>0, <2>1, <2>2
<1>6. SaidOK'
  BY DEF IInv, SaidOK
<1>7. JobsOwned'
  <2> SUFFICES ASSUME NEW r \in Run
               PROVE  /\ proc'[r].st \in Alive => InCall(r)' \/ \E s \in Slot : job'[s].run = r /\ job'[s].running
                      /\ drain'[r] \in Alive => \E s \in Slot : job'[s].run = r /\ ~job'[s].drained
    BY DEF JobsOwned, Alive
  <2>1. CASE r = sh.run
    BY <2>1 DEF JobOK, InCall, Alive
  <2>2. CASE r # sh.run /\ \E s \in Slot : job[s].run = r
    <3>1. PICK s \in Slot : job[s].run = r
      BY <2>2
    <3>2. Live(s)
      BY <3>1 DEF Live
    <3>3. CASE s # t
      <4>1. JobOK(job'[s], proc'[r], drain'[r], log[r], said[r]) /\ job'[s].run = r
        BY <3>1, <3>2, <3>3
      <4> QED
        BY <4>1 DEF JobOK, Alive
    <3> QED
      BY <3>1, <3>2, <3>3
  <2>3. CASE r # sh.run /\ \A s \in Slot : job[s].run # r
    <3>1. ~InCall(r)
      BY <2>3 DEF InCall
    <3>2. /\ proc[r].st \in Alive => InCall(r) \/ \E s \in Slot : job[s].run = r /\ job[s].running
          /\ drain[r] \in Alive => \E s \in Slot : job[s].run = r /\ ~job[s].drained
      BY DEF IInv, JobsOwned, Alive
    <3> QED
      BY <2>3, <3>1, <3>2
  <2> QED
    BY <2>1, <2>2, <2>3
<1> QED
  BY <1>2, <1>4, <1>5, <1>6, <1>7 DEF IInv

\* What the call of a command that is due knows: its process runs.
LEMMA DueIs ==
    ASSUME IInv, Due
    PROVE  /\ sh.run # 0 /\ sh.run \in Run /\ proc[sh.run].st = "runs" /\ drain[sh.run] = "none" /\ ~said[sh.run]
           /\ sh \in ShRec /\ sh.reaped = FALSE /\ \A s \in Slot : job[s].run # sh.run
<1>1. sh.run # 0
  BY DEF Due, IInv, CallOK, Calling
<1>2. proc[sh.run].st \notin {"zombie", "gone", "none"}
  BY <1>1, LookedIs, OwnProc DEF Due
<1>3. proc[sh.run].st = "runs"
  BY <1>1, <1>2, OwnProc DEF ProcRec
<1>4. sh.reaped = FALSE
  BY <1>1, <1>3, OwnProc DEF ShRec
<1> QED
  BY <1>1, <1>3, <1>4, OwnProc DEF IInv, CallOK

LEMMA DetachStep == ASSUME IInv, Detach PROVE IInv'
<1> DEFINE t == Taken
           n == [NoJob EXCEPT !.run = sh.run, !.cmd = sh.cmd, !.running = TRUE, !.read = log[sh.run]]
<1>0. /\ Due /\ Blank \cup Given # {} /\ job' = [Refreshed(Seen) EXCEPT ![t] = n]
      /\ proc' = ProcAfter(Seen) /\ drain' = [Freed EXCEPT ![sh.run] = "runs"] /\ dir' = Named
      /\ sh' = [Idle EXCEPT !.pc = "note"] /\ UNCHANGED <<log, started, broke, breaks, noted, said>>
  BY DEF Detach
<1>1. sh.run # 0 /\ sh.run \in Run /\ proc[sh.run].st = "runs" /\ ~said[sh.run] /\ sh \in ShRec
      /\ \A s \in Slot : job[s].run # sh.run
  BY <1>0, DueIs
<1>2. t \in Slot /\ t \in 0..NJobs /\ (Blank # {} => t \in Blank) /\ (Blank = {} => t \in Given)
  BY <1>0, TakenIs
<1>3. log[sh.run] \in 0..LogCap /\ log[sh.run] \in Nat
  BY <1>1, RunFacts
<1>4. /\ n \in JobRec /\ n.run = sh.run /\ n.running = TRUE /\ n.drained = FALSE /\ n.reported = FALSE
      /\ n.announced = FALSE /\ n.read = log[sh.run]
  BY <1>1, <1>3 DEF JobRec, NoJob, ShRec
<1> HIDE DEF n, t
<1>5. /\ Refreshed(Seen) \in [Slot -> JobRec] /\ proc' \in [Run -> ProcRec]
      /\ \A r \in Run : proc'[r].pipe <= proc'[r].made
      /\ \A r \in Run : (\A s \in Slot : job[s].run # r) => proc'[r].st = proc[r].st /\ DrainAfter(Seen)[r] = drain[r]
      /\ \A s \in Slot : ~Live(s) => ~Refreshed(Seen)[s].running
      /\ \A s \in Slot : Live(s) => LET r == job[s].run
                                    IN  JobOK(Refreshed(Seen)[s], proc'[r], DrainAfter(Seen)[r], log[r], said[r])
  BY <1>0, SeenIs, RefreshKeeps
<1>6. job' \in [Slot -> JobRec] /\ job'[t] = n /\ \A s \in Slot : s # t => job'[s] = Refreshed(Seen)[s]
  BY <1>0, <1>2, <1>4, <1>5
<1>7. drain' \in [Run -> {"none", "runs", "zombie", "gone"}] /\ drain'[sh.run] = "runs"
      /\ \A r \in Run : r # sh.run => drain'[r] = Freed[r]
  BY <1>0, <1>1, FreedOthers
<1>8. ASSUME NEW r \in Run, r # sh.run, \A s \in Slot : job[s].run # r
      PROVE  proc'[r].st = proc[r].st /\ drain'[r] = drain[r]
  BY <1>2, <1>5, <1>7, <1>8, FreedOthers DEF t
<1>9. ASSUME NEW s \in Slot, s # t
      PROVE  job'[s].run = job[s].run /\ (~Live(s) => ~job'[s].running)
  BY <1>5, <1>6, <1>9, SeenIs, RefreshedJob
<1>10. ASSUME NEW s \in Slot, s # t, Live(s)
       PROVE  LET r == job[s].run IN JobOK(job'[s], proc'[r], drain'[r], log[r], said[r])
  <2>1. job[s].run \in Run /\ job[s].run # sh.run /\ job[t].run # job[s].run
    BY <1>1, <1>2, <1>10, JobFacts, OneSlot
  <2>2. drain'[job[s].run] = DrainAfter(Seen)[job[s].run]
    BY <1>7, <2>1, FreedOthers DEF t
  <2> QED
    BY <1>5, <1>6, <1>10, <2>2
<1>11. ASSUME Live(t) PROVE proc'[job[t].run].st \notin Alive /\ drain'[job[t].run] \notin Alive
  <2>1. Blank = {} /\ Given # {}
    BY <1>2, <1>11 DEF Blank
  <2>2. proc'[job[t].run].st \notin Alive /\ Freed[job[t].run] = "gone" /\ job[t].run \in Run
    BY <1>0, <2>1, FreedIs DEF t
  <2> QED
    BY <1>1, <1>2, <1>7, <2>2 DEF Alive
<1>12. proc'[sh.run].st = proc[sh.run].st
  BY <1>1, <1>5
<1>13. JobOK(job'[t], proc'[sh.run], drain'[sh.run], log[sh.run], said[sh.run])
  BY <1>1, <1>3, <1>4, <1>6, <1>7, <1>12 DEF JobOK, Alive
<1>14. sh' \in ShRec /\ sh'.run = 0 /\ sh'.pc = "note"
  BY <1>0, IdleIs, PlacesAre DEF ShRec
<1>15. dir' \in [Cmd -> 0..MaxRuns] /\ job'[t].run = sh.run
  BY <1>0, <1>4, <1>6, FreedOthers
<1> QED
  BY <1>0, <1>1, <1>2, <1>5, <1>6, <1>7, <1>8, <1>9, <1>10, <1>11, <1>12, <1>13, <1>14, <1>15, TakeStep

LEMMA DetachRefusedStep == ASSUME IInv, DetachRefused PROVE IInv'
<1> DEFINE give == Blank = {} /\ Given # {}
           t == IF give THEN Taken ELSE 0
<1>0. /\ Due /\ proc' = ProcAfter(Seen) /\ drain' = Freed /\ dir' = Named
      /\ job' = IF give THEN [Refreshed(Seen) EXCEPT ![Taken] = NoJob] ELSE Refreshed(Seen)
      /\ sh' = [sh EXCEPT !.pc = "run", !.undet = TRUE] /\ UNCHANGED <<log, started, broke, breaks, noted, said>>
  BY DEF DetachRefused
<1>1. sh.run # 0 /\ sh.run \in Run /\ drain[sh.run] = "none" /\ sh \in ShRec /\ \A s \in Slot : job[s].run # sh.run
  BY <1>0, DueIs
<1>2. give => Taken \in Slot /\ Taken \in 0..NJobs
  BY TakenIs
<1>3. t \in 0..NJobs /\ (t \in Slot => give /\ t = Taken) /\ (~give => t \notin Slot)
  BY <1>2
<1>4. NoJob \in JobRec /\ NoJob.run = 0 /\ NoJob.running = FALSE
  BY DEF JobRec, NoJob
<1> HIDE DEF t
<1>5. /\ Refreshed(Seen) \in [Slot -> JobRec] /\ proc' \in [Run -> ProcRec]
      /\ \A r \in Run : proc'[r].pipe <= proc'[r].made
      /\ \A r \in Run : (\A s \in Slot : job[s].run # r) => proc'[r].st = proc[r].st /\ DrainAfter(Seen)[r] = drain[r]
      /\ \A s \in Slot : ~Live(s) => ~Refreshed(Seen)[s].running
      /\ \A s \in Slot : Live(s) => LET r == job[s].run
                                    IN  JobOK(Refreshed(Seen)[s], proc'[r], DrainAfter(Seen)[r], log[r], said[r])
  BY <1>0, SeenIs, RefreshKeeps
<1>6. /\ job' \in [Slot -> JobRec] /\ \A s \in Slot : s # t => job'[s] = Refreshed(Seen)[s]
      /\ t \in Slot => job'[t] = NoJob
  BY <1>0, <1>3, <1>4, <1>5 DEF t
<1>7. drain' \in [Run -> {"none", "runs", "zombie", "gone"}]
  BY <1>0, FreedOthers
<1>8. ASSUME NEW r \in Run, \A s \in Slot : job[s].run # r
      PROVE  proc'[r].st = proc[r].st /\ drain'[r] = drain[r]
  BY <1>0, <1>2, <1>5, <1>8, FreedOthers
<1>9. ASSUME NEW s \in Slot, s # t
      PROVE  job'[s].run = job[s].run /\ (~Live(s) => ~job'[s].running)
  BY <1>5, <1>6, <1>9, SeenIs, RefreshedJob
<1>10. ASSUME NEW s \in Slot, s # t, Live(s)
       PROVE  LET r == job[s].run IN JobOK(job'[s], proc'[r], drain'[r], log[r], said[r])
  <2>1. job[s].run \in Run /\ (give => job[Taken].run # job[s].run)
    BY <1>2, <1>10, JobFacts, OneSlot DEF t
  <2>2. drain'[job[s].run] = DrainAfter(Seen)[job[s].run]
    BY <1>0, <2>1, FreedOthers
  <2> QED
    BY <1>5, <1>6, <1>10, <2>2
<1>11. ASSUME t \in Slot PROVE proc'[job[t].run].st \notin Alive /\ drain'[job[t].run] \notin Alive
  BY <1>0, <1>3, <1>11, FreedIs DEF Alive
<1>12. /\ sh' \in ShRec /\ sh'.run = sh.run /\ sh'.pc = "run" /\ sh'.reaped = sh.reaped
       /\ proc'[sh.run].st = proc[sh.run].st /\ drain'[sh.run] = "none"
  BY <1>0, <1>1, <1>5, <1>8, PlacesAre DEF ShRec
<1>13. dir' \in [Cmd -> 0..MaxRuns] /\ (t \in Slot => job'[t].run = 0 /\ ~job'[t].running)
  BY <1>0, <1>4, <1>6, FreedOthers
<1> QED
  BY <1>0, <1>1, <1>3, <1>5, <1>6, <1>7, <1>8, <1>9, <1>10, <1>11, <1>12, <1>13, TakeStep

--------------------------------------------------------------------------------
(* The end of the process *)

LEMMA JobsStopStep == ASSUME IInv, JobsStop PROVE IInv'
<1>0. /\ sh.pc = "idle" /\ job' = [s \in Slot |-> NoJob] /\ sh' = [Idle EXCEPT !.pc = "quit"]
      /\ drain' = [r \in Run |-> IF \E s \in Slot : job[s].run = r THEN "gone" ELSE drain[r]]
      /\ dir' = [c \in Cmd |-> IF \E s \in Slot : Live(s) /\ job[s].cmd = c THEN 0 ELSE dir[c]]
      /\ UNCHANGED <<log, started, broke, breaks, noted, said>>
  BY DEF JobsStop
<1>1. PICK left \in SUBSET Run :
         proc' = [r \in Run |-> IF \E s \in Slot : job[s].run = r /\ job[s].running
                                THEN [proc[r] EXCEPT !.st = "gone", !.out = @ /\ r \in left] ELSE proc[r]]
  BY DEF JobsStop
<1>2. sh.run = 0
  BY <1>0, NotCalling DEF Calling
<1>3. ASSUME NEW r \in Run
      PROVE  /\ proc'[r] \in ProcRec /\ proc'[r].pipe <= proc'[r].made
             /\ proc'[r].st = IF \E s \in Slot : job[s].run = r /\ job[s].running THEN "gone" ELSE proc[r].st
  <2>1. proc[r] \in ProcRec /\ proc[r].pipe <= proc[r].made /\ (proc[r].out /\ r \in left) \in BOOLEAN
    BY RunFacts
  <2>2. LET p == [proc[r] EXCEPT !.st = "gone", !.out = @ /\ r \in left]
        IN  p \in ProcRec /\ p.pipe = proc[r].pipe /\ p.made = proc[r].made /\ p.st = "gone"
    BY <2>1 DEF ProcRec
  <2>3. CASE \E s \in Slot : job[s].run = r /\ job[s].running
    <3>1. proc'[r] = [proc[r] EXCEPT !.st = "gone", !.out = @ /\ r \in left]
      BY <1>1, <2>3
    <3> QED
      BY <2>1, <2>2, <2>3, <3>1
  <2>4. CASE ~\E s \in Slot : job[s].run = r /\ job[s].running
    <3>1. proc'[r] = proc[r]
      BY <1>1, <2>4
    <3> QED
      BY <2>1, <2>4, <3>1
  <2> QED
    BY <2>3, <2>4
<1>4. ASSUME NEW r \in Run PROVE proc'[r].st \notin Alive /\ drain'[r] \notin Alive
  <2>1. ~InCall(r)
    BY <1>2 DEF InCall
  <2>2. /\ proc[r].st \in Alive => \E s \in Slot : job[s].run = r /\ job[s].running
        /\ drain[r] \in Alive => \E s \in Slot : job[s].run = r
    BY <2>1 DEF IInv, JobsOwned, Alive
  <2>3. drain'[r] = IF \E s \in Slot : job[s].run = r THEN "gone" ELSE drain[r]
    BY <1>0
  <2> QED
    BY <1>3, <2>2, <2>3 DEF Alive
<1>5. ASSUME NEW s \in Slot, NEW r \in Run, job[s].run = r PROVE r <= started
  BY <1>5, JobFacts DEF Live
<1>6. ProcsOK'
  <2>1. proc' \in [Run -> ProcRec]
    BY <1>1, <1>3
  <2>2. drain' \in [Run -> {"none", "runs", "zombie", "gone"}]
    BY <1>0, RunFacts
  <2>3. dir' \in [Cmd -> 0..MaxRuns]
    <3>1. dir \in [Cmd -> 0..MaxRuns] /\ 0 \in 0..MaxRuns
      BY DEF IInv, ProcsOK
    <3> QED
      BY <1>0, <3>1
  <2>4. ASSUME NEW r \in Run, r > started PROVE proc'[r].st = "none" /\ drain'[r] = "none"
    <3>1. \A s \in Slot : job[s].run # r
      <4>1. started \in Nat
        BY DEF IInv, ProcsOK
      <4> QED
        BY <1>5, <2>4, <4>1
    <3>2. proc[r].st = "none" /\ drain[r] = "none"
      BY <2>4 DEF IInv, ProcsOK
    <3> QED
      BY <1>0, <1>3, <3>1, <3>2
  <2>5. log' \in [Run -> 0..LogCap] /\ started' \in 0..MaxRuns
    BY <1>0 DEF IInv, ProcsOK
  <2> QED
    BY <1>0, <1>3, <2>1, <2>2, <2>3, <2>4, <2>5 DEF ProcsOK
<1>7. NoJob \in JobRec /\ NoJob.run = 0 /\ NoJob.running = FALSE
  BY DEF JobRec, NoJob
<1>8. TableOK'
  BY <1>0, <1>7 DEF TableOK, Live
<1>9. CallOK'
  <2>1. sh' \in ShRec /\ sh'.run = 0 /\ sh'.pc = "quit"
    BY <1>0, IdleIs, PlacesAre DEF ShRec
  <2> QED
    BY <1>0, <1>7, <2>1 DEF CallOK, Calling, InTool, Live
<1>10. SaidOK'
  BY <1>0 DEF IInv, SaidOK
<1>11. JobsOwned'
  BY <1>4 DEF JobsOwned, Alive
<1> QED
  BY <1>6, <1>8, <1>9, <1>10, <1>11 DEF IInv

--------------------------------------------------------------------------------
LEMMA StutterIInv == ASSUME IInv, UNCHANGED jobsVars PROVE IInv'
<1> USE DEF jobsVars
<1>1. ProcsOK' /\ TableOK' /\ CallOK' /\ SaidOK'
  BY DEF IInv, ProcsOK, TableOK, CallOK, SaidOK, Live
<1>2. JobsOwned'
  BY DEF IInv, JobsOwned, InCall
<1> QED
  BY <1>1, <1>2 DEF IInv

LEMMA NextIInv == IInv /\ [JobsNext]_jobsVars => IInv'
<1> SUFFICES ASSUME IInv, [JobsNext]_jobsVars PROVE IInv'
  OBVIOUS
<1>1. CASE \E r \in Run : Writes(r) \/ ClosesOutput(r) \/ Exits(r) \/ Drains(r)
  BY <1>1, WritesStep, ClosesOutputStep, ExitsStep, DrainsStep
<1>2. CASE Break \/ TurnOver
  BY <1>2, FlagStep
<1>3. CASE ShellStart \/ ShellStep
  BY <1>3, ShellStartStep, ShellTopStep, ShellGoesOnStep, ProgramStopStep, DetachStep, DetachRefusedStep,
     ShellOverStep, ShellReapStep DEF ShellStep
<1>4. CASE JobList \/ JobCall \/ JobStep
  BY <1>4, JobListStep, JobCallStep, JobLookStep, JobSignalStep, JobPageStep, JobsNoteStep DEF JobStep
<1>5. CASE JobsStop
  BY <1>5, JobsStopStep
<1>6. CASE UNCHANGED jobsVars
  BY <1>6, StutterIInv
<1> QED
  BY <1>1, <1>2, <1>3, <1>4, <1>5, <1>6 DEF JobsNext

\* Every state of the shell, its jobs and its drainers satisfies the invariant (shell_run,
\* the job tool, jobs_note, jobs_stop).
THEOREM Invariance == JobsSpec => []IInv
<1>1. JobsInit => IInv
  BY InitIInv
<1>2. IInv /\ [JobsNext]_jobsVars => IInv'
  BY NextIInv
<1> QED
  BY <1>1, <1>2, PTL DEF JobsSpec

\* Every variable keeps its type; what a job read never passes the end of its log
\* (job_page), and a run is named by one note at most (jobs_note).
THEOREM TypeCorrect == JobsSpec => []JobsTypeOK
<1>1. IInv => JobsTypeOK
  <2> SUFFICES ASSUME IInv PROVE JobsTypeOK
    OBVIOUS
  <2>1. sh.pc \in {"idle", "run", "polled", "over", "reap", "note", "wait", "signal", "page", "quit"}
    BY DEF IInv, CallOK, ShRec, Places, Calling, InTool
  <2>2. noted \in [Run -> 0..MaxRuns]
    BY DEF IInv, SaidOK
  <2> QED
    BY <2>1, <2>2 DEF IInv, ProcsOK, TableOK, SaidOK, JobsTypeOK, ProcRec, JobRec
<1> QED
  BY <1>1, Invariance, PTL

\* No process is lost: one that was not reaped is the command of the call or of a running
\* job, and a drainer that was not reaped is the one of a job in the table (job_detach,
\* job_refresh, job_release, jobs_stop).
THEOREM OwnedProcesses == JobsSpec => []JobsOwned
<1>1. IInv => JobsOwned
  BY DEF IInv
<1> QED
  BY <1>1, Invariance, PTL

\* When the agent has ended, every command and every drainer it started was reaped.
NothingLeft == sh.pc = "quit" => \A r \in Run : proc[r].st \notin Alive /\ drain[r] \notin Alive

\* jobs_stop leaves nothing behind, whatever was detached, drained or killed before.
THEOREM NothingIsLeft == JobsSpec => []NothingLeft
<1>1. IInv => NothingLeft
  <2> SUFFICES ASSUME IInv, sh.pc = "quit", NEW r \in Run PROVE proc[r].st \notin Alive /\ drain[r] \notin Alive
    BY DEF NothingLeft
  <2>1. ~InCall(r)
    BY DEF InCall
  <2>2. \A s \in Slot : job[s].run # r
    BY DEF IInv, CallOK, Live
  <2> QED
    BY <2>1, <2>2 DEF IInv, JobsOwned, Alive
<1> QED
  BY <1>1, Invariance, PTL

--------------------------------------------------------------------------------
(* What a step tells of a job *)

\* A refreshed table holds the same runs.
LEMMA RefreshedRuns == ASSUME IInv, NEW S \in SUBSET Slot PROVE \A s \in Slot : Refreshed(S)[s].run = job[s].run
BY RefreshedJob

\* The job tool and the notes take no job away.
LEMMA ToolKeepsRuns ==
    ASSUME IInv, JobList \/ JobStep
    PROVE  \A s \in Slot : job'[s].run = job[s].run
<1>0. job \in [Slot -> JobRec] /\ (sh.pc \in InTool => sh.slot \in Slot)
  BY DEF IInv, TableOK, CallOK
<1>1. CASE JobList
  <2> SUFFICES ASSUME NEW s \in Slot PROVE job'[s].run = job[s].run
    OBVIOUS
  <2>1. job'[s] = [Refreshed(Slot)[s] EXCEPT !.announced = @ \/ (Live(s) /\ ~Refreshed(Slot)[s].running)]
    BY <1>1 DEF JobList
  <2>2. Refreshed(Slot)[s] \in JobRec /\ Refreshed(Slot)[s].run = job[s].run
    BY RefreshedJob
  <2> QED
    BY <2>1, <2>2 DEF JobRec
<1>2. CASE JobLook
  <2>1. sh.slot \in Slot /\ job' = Refreshed({sh.slot})
    BY <1>0, <1>2 DEF JobLook, Refresh, InTool
  <2>2. {sh.slot} \in SUBSET Slot
    BY <2>1
  <2> QED
    BY <2>1, <2>2, RefreshedRuns
<1>3. CASE JobSignal
  <2>1. sh.slot \in Slot /\ {sh.slot} \in SUBSET Slot
    BY <1>0, <1>3 DEF JobSignal, InTool
  <2>2. CASE job' = Refreshed({sh.slot})
    BY <2>1, <2>2, RefreshedRuns
  <2>3. CASE job' = [job EXCEPT ![sh.slot].running = FALSE]
    BY <1>0, <2>1, <2>3 DEF JobRec
  <2> QED
    BY <1>3, <2>2, <2>3 DEF JobSignal, Refresh
<1>4. CASE JobPage
  <2> DEFINE t == sh.slot
             n == Min({Page, log[job[t].run] - job[t].read})
             a == job[t].announced \/ ~job[t].running
             b == job[t].reported \/ (~job[t].running /\ ~(log[job[t].run] > job[t].read + n))
  <2>1. t \in Slot
    BY <1>0, <1>4 DEF JobPage, InTool
  <2>2. job' = [job EXCEPT ![t].read = @ + n, ![t].announced = a, ![t].reported = b]
    BY <1>0, <1>4, <2>1 DEF JobPage
  <2> HIDE DEF n, a, b, t
  <2> QED
    BY <1>0, <2>1, <2>2 DEF JobRec
<1>5. CASE JobsNote
  <2> DEFINE S == {s \in Slot : Unsaid(s)}
  <2> SUFFICES ASSUME NEW s \in Slot PROVE job'[s].run = job[s].run
    OBVIOUS
  <2>1. job'[s] = [Refreshed(S)[s] EXCEPT !.announced = @ \/ (s \in S /\ ~Refreshed(S)[s].running)]
    BY <1>5 DEF JobsNote
  <2>2. Refreshed(S)[s] \in JobRec /\ Refreshed(S)[s].run = job[s].run
    BY RefreshedJob
  <2> QED
    BY <2>1, <2>2 DEF JobRec
<1> QED
  BY <1>1, <1>2, <1>3, <1>4, <1>5 DEF JobStep

\* A job that leaves the table for another one had its end said.
LEMMA DetachTold ==
    ASSUME IInv, Detach \/ DetachRefused, NEW s \in Slot, Live(s), job'[s].run # job[s].run
    PROVE  said[job[s].run]
<1>0. Refreshed(Seen) \in [Slot -> JobRec] /\ \A u \in Slot : Refreshed(Seen)[u].run = job[u].run
  BY SeenIs, RefreshKeeps, RefreshedRuns
<1>1. CASE Detach
  <2>1. Taken \in Slot /\ (Blank # {} => Taken \in Blank)
    BY <1>1, TakenIs DEF Detach
  <2>2. s = Taken
    BY <1>0, <1>1, <2>1 DEF Detach
  <2>3. Blank = {} /\ Given # {}
    BY <1>1, <2>1, <2>2 DEF Blank, Detach
  <2> QED
    BY <2>2, <2>3, FreedIs
<1>2. CASE DetachRefused
  <2>1. Blank = {} /\ Given # {}
    BY <1>0, <1>2 DEF DetachRefused
  <2>2. Taken \in Slot
    BY <2>1, TakenIs
  <2>3. s = Taken
    BY <1>0, <1>2, <2>1, <2>2 DEF DetachRefused
  <2> QED
    BY <2>1, <2>3, FreedIs
<1> QED
  BY <1>1, <1>2

\* The end of a job is told once: a note names only what nothing said before, and a job
\* leaves the table only when its end was said (jobs_note, job_page, job_detach).
THEOREM EndTold == JobsSpec => EndToldOnce
<1> DEFINE Once(r) == /\ noted'[r] > noted[r] => ~said[r] /\ noted'[r] = 1
                      /\ InTable(r) /\ ~InTable(r)' /\ sh'.pc # "quit" => said[r]
<1>1. ASSUME IInv, JobsNext, NEW r \in Run PROVE Once(r)
  <2>0. noted[r] \in Nat
    BY <1>1, SaidFacts
  <2>1. CASE JobsNote
    <3>1. InTable(r) => InTable(r)'
      BY <1>1, <2>1, ToolKeepsRuns DEF InTable, JobStep
    <3>2. noted'[r] > noted[r] => ~said[r] /\ noted'[r] = 1
      BY <1>1, <2>0, <2>1, NotedIs
    <3> QED
      BY <3>1, <3>2
  <2>2. ASSUME UNCHANGED noted, InTable(r) => InTable(r)' PROVE Once(r)
    BY <2>0, <2>2
  <2>3. CASE \/ \E q \in Run : Writes(q) \/ ClosesOutput(q) \/ Exits(q) \/ Drains(q)
             \/ Break \/ TurnOver \/ ShellStart \/ ShellTop \/ ShellGoesOn \/ ProgramStop \/ ShellOver \/ ShellReap
             \/ JobCall
    <3>1. UNCHANGED <<noted, job>>
      BY <2>3 DEF Writes, ClosesOutput, Exits, Drains, Break, TurnOver, ShellStart, ShellTop, ShellGoesOn, ProgramStop,
                  ShellOver, ShellReap, JobCall
    <3> QED
      BY <2>2, <3>1 DEF InTable
  <2>4. CASE JobList \/ JobLook \/ JobSignal \/ JobPage
    <3>1. UNCHANGED noted
      BY <2>4 DEF JobList, JobLook, JobSignal, JobPage
    <3>2. \A s \in Slot : job'[s].run = job[s].run
      BY <1>1, <2>4, ToolKeepsRuns DEF JobStep
    <3> QED
      BY <2>2, <3>1, <3>2 DEF InTable
  <2>5. CASE Detach \/ DetachRefused
    <3>1. UNCHANGED noted
      BY <2>5 DEF Detach, DetachRefused
    <3>2. ASSUME InTable(r), ~InTable(r)' PROVE said[r]
      <4>1. PICK s \in Slot : job[s].run = r
        BY <3>2 DEF InTable
      <4>2. Live(s) /\ job'[s].run # r
        BY <3>2, <4>1 DEF InTable, Live
      <4> QED
        BY <1>1, <2>5, <4>1, <4>2, DetachTold
    <3> QED
      BY <2>0, <3>1, <3>2
  <2>6. CASE JobsStop
    <3>1. sh' = [Idle EXCEPT !.pc = "quit"] /\ UNCHANGED noted
      BY <2>6 DEF JobsStop
    <3> QED
      BY <2>0, <3>1, IdleIs DEF ShRec
  <2> QED
    BY <1>1, <2>1, <2>3, <2>4, <2>5, <2>6 DEF JobsNext, ShellStep, JobStep
<1>2. IInv /\ [JobsNext]_jobsVars => [\A r \in Run : Once(r)]_jobsVars
  BY <1>1
<1> QED
  BY <1>2, Invariance, PTL DEF JobsSpec, EndToldOnce

--------------------------------------------------------------------------------
\* The model is told of the end of a run only when its process has been waited for.
SaidTrue == \A r \in Run : said[r] => proc[r].st \notin Alive

\* A step that says nothing new and brings no process to life.
LEMMA NothingSaid ==
    ASSUME IInv, SaidTrue, UNCHANGED said,
           \A r \in Run : proc'[r].st \in Alive => proc[r].st \in Alive \/ ~said[r]
    PROVE  SaidTrue'
BY DEF SaidTrue

LEMMA RefreshKills ==
    ASSUME IInv, NEW S \in SUBSET Slot, proc' = ProcAfter(S), NEW r \in Run
    PROVE  proc'[r].st \in Alive => proc[r].st \in Alive
BY RefreshedProc DEF Alive

LEMMA SaidTrueStep == ASSUME IInv, SaidTrue, JobsNext PROVE SaidTrue'
<1>0. proc \in [Run -> ProcRec] /\ (sh.run # 0 => sh.run \in Run /\ ~said[sh.run])
  BY DEF IInv, ProcsOK, CallOK, ShRec
<1>1. CASE \E r \in Run : Writes(r) \/ ClosesOutput(r) \/ Exits(r) \/ Drains(r)
  <2>1. PICK r \in Run : Writes(r) \/ ClosesOutput(r) \/ Exits(r) \/ Drains(r)
    BY <1>1
  <2>2. UNCHANGED said
    BY <2>1 DEF Writes, ClosesOutput, Exits, Drains
  <2>3. \A q \in Run : q # r => proc'[q] = proc[q]
    BY <1>0, <2>1 DEF Writes, ClosesOutput, Exits, Drains
  <2>4. proc'[r].st \in Alive => proc[r].st \in Alive
    <3>1. CASE Writes(r) \/ ClosesOutput(r) \/ Drains(r)
      BY <1>0, <3>1 DEF Writes, ClosesOutput, Drains, ProcRec
    <3>2. CASE Exits(r)
      BY <3>2 DEF Exits, Alive
    <3> QED
      BY <2>1, <3>1, <3>2
  <2> QED
    BY <2>2, <2>3, <2>4, NothingSaid
<1>2. CASE Break \/ TurnOver \/ JobCall \/ ShellTop
  <2>1. UNCHANGED <<proc, said>>
    BY <1>2 DEF Break, TurnOver, JobCall, ShellTop
  <2> QED
    BY <2>1, NothingSaid
<1>3. CASE ShellStart
  <2>1. UNCHANGED said /\ started \in Nat /\ started + 1 \in Run /\ ~said[started + 1]
    BY <1>3 DEF ShellStart, IInv, ProcsOK, SaidOK
  <2>2. \A q \in Run : q # started + 1 => proc'[q] = proc[q]
    BY <1>0, <1>3, <2>1 DEF ShellStart
  <2> QED
    BY <2>1, <2>2, NothingSaid
<1>4. CASE ShellGoesOn \/ ProgramStop \/ ShellOver \/ ShellReap
  <2>1. sh.run # 0 /\ UNCHANGED said
    BY <1>4 DEF ShellGoesOn, ProgramStop, ShellOver, ShellReap, Due, IInv, CallOK, Calling
  <2>2. \A q \in Run : q # sh.run => proc'[q] = proc[q]
    <3>1. CASE ShellGoesOn
      BY <1>0, <2>1, <3>1 DEF ShellGoesOn
    <3>2. CASE ProgramStop \/ ShellOver \/ ShellReap
      BY <1>0, <2>1, <3>2 DEF ProgramStop, ShellOver, ShellReap
    <3> QED
      BY <1>4, <3>1, <3>2
  <2> QED
    BY <1>0, <2>1, <2>2, NothingSaid
<1>5. CASE Detach \/ DetachRefused
  <2>1. UNCHANGED said /\ proc' = ProcAfter(Seen)
    BY <1>5 DEF Detach, DetachRefused
  <2> QED
    BY <2>1, SeenIs, RefreshKills, NothingSaid
<1>6. CASE JobList
  <2> SUFFICES ASSUME NEW r \in Run, said'[r] PROVE proc'[r].st \notin Alive
    BY DEF SaidTrue
  <2>1. proc' = ProcAfter(Slot)
    BY <1>6 DEF JobList
  <2>2. CASE said[r]
    BY <2>1, <2>2, RefreshKills DEF SaidTrue
  <2>3. CASE ~said[r]
    <3>1. PICK s \in Slot : job[s].run = r /\ ~Refreshed(Slot)[s].running
      BY <1>6, <2>3 DEF JobList
    <3> QED
      BY <2>1, <3>1, RefreshKeeps DEF JobOK, Live
  <2> QED
    BY <2>2, <2>3
<1>7. CASE JobLook
  <2>1. sh.slot \in Slot /\ UNCHANGED said /\ proc' = ProcAfter({sh.slot})
    BY <1>7 DEF JobLook, Refresh, IInv, CallOK, InTool
  <2>2. {sh.slot} \in SUBSET Slot
    BY <2>1
  <2> QED
    BY <2>1, <2>2, RefreshKills, NothingSaid
<1>8. CASE JobSignal
  <2>1. sh.slot \in Slot /\ UNCHANGED said /\ Live(sh.slot)
    BY <1>8 DEF JobSignal, IInv, CallOK, InTool
  <2>2. CASE proc' = ProcAfter({sh.slot})
    <3>1. {sh.slot} \in SUBSET Slot
      BY <2>1
    <3> QED
      BY <2>1, <2>2, <3>1, RefreshKills, NothingSaid
  <2>3. CASE \E p \in Killed(proc[job[sh.slot].run]) : proc' = [proc EXCEPT ![job[sh.slot].run] = Reaped(p)]
    <3>1. job[sh.slot].run \in Run
      BY <2>1, JobFacts
    <3>2. PICK p \in Killed(proc[job[sh.slot].run]) : proc' = [proc EXCEPT ![job[sh.slot].run] = Reaped(p)]
      BY <2>3
    <3>3. p \in ProcRec
      BY <1>0, <3>1, <3>2, KilledIs
    <3>4. Reaped(p).st = "gone"
      BY <3>3 DEF Reaped, ProcRec
    <3>5. \A q \in Run : proc'[q] = proc[q] \/ proc'[q].st = "gone"
      BY <1>0, <3>1, <3>2, <3>4
    <3> QED
      BY <2>1, <3>5, NothingSaid DEF Alive
  <2> QED
    BY <1>8, <2>2, <2>3 DEF JobSignal, Refresh
<1>9. CASE JobPage
  <2>1. sh.slot \in Slot /\ Live(sh.slot) /\ UNCHANGED proc
        /\ said' = [said EXCEPT ![job[sh.slot].run] = @ \/ ~job[sh.slot].running]
    BY <1>9 DEF JobPage, IInv, CallOK, InTool
  <2>2. ~job[sh.slot].running => proc[job[sh.slot].run].st \notin Alive
    BY <2>1, JobFacts DEF JobOK
  <2> QED
    BY <2>1, <2>2, SaidFacts DEF SaidTrue
<1>10. CASE JobsNote
  <2> DEFINE S == {s \in Slot : Unsaid(s)}
  <2> SUFFICES ASSUME NEW r \in Run, said'[r] PROVE proc'[r].st \notin Alive
    BY DEF SaidTrue
  <2>1. proc' = ProcAfter(S) /\ S \in SUBSET Slot
    BY <1>10 DEF JobsNote
  <2>2. CASE said[r]
    BY <2>1, <2>2, RefreshKills DEF SaidTrue
  <2>3. CASE ~said[r]
    <3>1. PICK s \in Slot : job[s].run = r /\ ~Refreshed(S)[s].running
      BY <1>10, <2>3, NotedIs
    <3> QED
      BY <2>1, <3>1, RefreshKeeps DEF JobOK, Live
  <2> QED
    BY <2>2, <2>3
<1>11. CASE JobsStop
  <2>1. UNCHANGED said
    BY <1>11 DEF JobsStop
  <2>2. ASSUME NEW r \in Run PROVE proc'[r].st \in Alive => proc[r].st \in Alive
    <3>1. PICK left \in SUBSET Run :
             proc' = [q \in Run |-> IF \E s \in Slot : job[s].run = q /\ job[s].running
                                    THEN [proc[q] EXCEPT !.st = "gone", !.out = @ /\ q \in left] ELSE proc[q]]
      BY <1>11 DEF JobsStop
    <3>2. proc'[r] = proc[r] \/ proc'[r] = [proc[r] EXCEPT !.st = "gone", !.out = @ /\ r \in left]
      BY <3>1
    <3> QED
      BY <1>0, <3>2 DEF ProcRec, Alive
  <2> QED
    BY <2>1, <2>2, NothingSaid
<1> QED
  BY <1>1, <1>2, <1>3, <1>4, <1>5, <1>6, <1>7, <1>8, <1>9, <1>10, <1>11 DEF JobsNext, ShellStep, JobStep

\* What the model is told is so: a job the list, a page or a note calls ended was waited
\* for, and stays ended (job_list, job_page, jobs_note).
THEOREM SaidIsTrue == JobsSpec => []SaidTrue
<1>1. JobsInit => SaidTrue
  BY DEF JobsInit, SaidTrue
<1>2. IInv /\ SaidTrue /\ [JobsNext]_jobsVars => SaidTrue'
  BY SaidTrueStep DEF SaidTrue, jobsVars
<1> QED
  BY <1>1, <1>2, Invariance, PTL DEF JobsSpec

===============================================================================
