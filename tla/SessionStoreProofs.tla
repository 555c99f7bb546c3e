--------------------------- MODULE SessionStoreProofs ---------------------------
(***************************************************************************)
(* Theorems about transcripts, for any number of instances and paths and   *)
(* every bound. The inductive invariant speaks of one instance at a time:  *)
(* which locks its sessions and its program counter account for, and what  *)
(* the transcripts of those sessions hold. It is kept by the steps of the  *)
(* other instances, because a transcript is changed only by the instance   *)
(* that has its lock.                                                      *)
(***************************************************************************)
EXTENDS SessionStore, SequenceTheorems, TLAPS

Saving == {"take", "retake", "write"}

\* What the program counter says of the sessions and of the lock that a delete has.
Control(n) ==
    /\ pc[n] \in Saving => s[n].path \in Paths /\ ~s[n].blocked
    /\ pc[n] \in {"take", "retake"} => ~s[n].lock
    /\ pc[n] = "write" => s[n].lock
    /\ pc[n] \notin Saving => job[n] = "save"
    /\ job[n] = "save" => ~old[n].lock
    /\ pc[n] \in {"release", "apply", "delete"} => at[n] \in Paths
    /\ pc[n] = "apply" => ~s[n].lock /\ s[n].path = at[n]

\* The locks of an instance are those of its two sessions and of its delete, all different.
Has(n, p) == \/ s[n].lock /\ s[n].path = p
             \/ old[n].lock /\ old[n].path = p
             \/ pc[n] = "delete" /\ at[n] = p
Locks(n) ==
    /\ s[n].lock => s[n].path \in Paths
    /\ old[n].lock => old[n].path \in Paths
    /\ s[n].lock /\ old[n].lock => s[n].path # old[n].path
    /\ pc[n] = "delete" => ~(s[n].lock /\ s[n].path = at[n])
    /\ \A p \in Paths : owner[p] = n <=> Has(n, p)

\* A session's transcript has the part of the conversation c that it saved. A fork that fails
\* goes on with the old session and the same conversation; a rewind never goes back.
Part(c, i, w) == SubSeq(c, i + 1, w)
SavedOK(r, c) ==
    r.lock /\ ~r.blocked =>
        /\ r.start <= r.written
        /\ file[r.path].rows = r.base \o Part(c, r.start, r.written)
Saved(n) ==
    /\ s[n].written <= Len(conv[n]) /\ SavedOK(s[n], conv[n])
    /\ job[n] = "fork" => old[n].written <= Len(conv[n]) /\ SavedOK(old[n], conv[n])

InstOK(n) == Control(n) /\ Locks(n) /\ Saved(n)
IInv == TypeOK /\ \A n \in Insts : InstOK(n)

USE NoPathAssumption, NoInstAssumption, BoundsAssumption

Step(n) ==
    \/ Begin(n) \/ Say(n) \/ Save(n) \/ SaveTake(n) \/ SaveRetake(n) \/ SaveWrite(n)
    \/ SaveFail(n) \/ SaveStuck(n) \/ Fork(n) \/ RewindInPlace(n) \/ RewindFork(n)
    \/ ResumeRelease(n) \/ ResumeApply(n) \/ DeleteUnlink(n) \/ Leave(n)
    \/ \E p \in Paths : ResumeRead(n, p) \/ Delete(n, p)

LEMMA FreshType == \A p \in Paths \cup {NoPath} : Fresh(p) \in SessionRec
BY DEF Fresh, SessionRec

\* What the steps make of a Session.
LEMMA SessionTypes ==
    ASSUME NEW r \in SessionRec
    PROVE  /\ ReadOnly(r) \in SessionRec
           /\ \A k \in Nat : [r EXCEPT !.written = k] \in SessionRec /\ Rewound(r, k) \in SessionRec
           /\ \A p \in Paths \cup {NoPath} : [r EXCEPT !.blocked = TRUE, !.bad = p] \in SessionRec
           /\ \A p \in Paths \cup {NoPath} :
                 [r EXCEPT !.path = p, !.lock = FALSE, !.ro = FALSE, !.resumed = TRUE,
                           !.base = <<>>, !.start = 0] \in SessionRec
           /\ \A b \in Seq(Msgs), k \in Nat : [r EXCEPT !.lock = TRUE, !.base = b, !.start = k] \in SessionRec
<1>0. <<>> \in Seq(Msgs)
  OBVIOUS
<1>1. ReadOnly(r) \in SessionRec
  BY DEF ReadOnly, SessionRec
<1>2. ASSUME NEW k \in Nat PROVE [r EXCEPT !.written = k] \in SessionRec
  BY DEF SessionRec
<1>3. ASSUME NEW k \in Nat PROVE Rewound(r, k) \in SessionRec
  BY <1>0 DEF Rewound, SessionRec
<1>4. ASSUME NEW p \in Paths \cup {NoPath} PROVE [r EXCEPT !.blocked = TRUE, !.bad = p] \in SessionRec
  BY DEF SessionRec
<1>5. ASSUME NEW p \in Paths \cup {NoPath}
      PROVE  [r EXCEPT !.path = p, !.lock = FALSE, !.ro = FALSE, !.resumed = TRUE,
                       !.base = <<>>, !.start = 0] \in SessionRec
  BY <1>0 DEF SessionRec
<1>6. ASSUME NEW b \in Seq(Msgs), NEW k \in Nat
      PROVE  [r EXCEPT !.lock = TRUE, !.base = b, !.start = k] \in SessionRec
  BY DEF SessionRec
<1> QED
  BY <1>1, <1>2, <1>3, <1>4, <1>5, <1>6

LEMMA InitIInv == Init => IInv
<1> SUFFICES ASSUME Init PROVE IInv
  OBVIOUS
<1>1. TypeOK
  BY FreshType DEF Init, TypeOK, L!OwnerInit, L!OwnerTypeOK, NoSession, NoLines
<1>2. ASSUME NEW n \in Insts PROVE InstOK(n)
  BY <1>2 DEF Init, InstOK, Control, Locks, Saved, SavedOK, Has, NoSession, Fresh, Saving, L!OwnerInit
<1> QED
  BY <1>1, <1>2 DEF IInv

--------------------------------------------------------------------------------
(* Every step keeps the types *)

FileRec == [rows: Seq(Msgs), torn: BOOLEAN]
Places == {"idle", "take", "retake", "write", "release", "apply", "delete"}
Jobs == {"save", "fork", "rewind"}

\* The types of what an instance has.
LEMMA Fields ==
    ASSUME TypeOK, NEW n \in Insts
    PROVE  /\ s[n] \in SessionRec /\ s[n].path \in Paths \cup {NoPath} /\ s[n].written \in Nat
           /\ s[n].start \in Nat /\ s[n].base \in Seq(Msgs) /\ s[n].lock \in BOOLEAN
           /\ s[n].blocked \in BOOLEAN
           /\ old[n] \in SessionRec /\ old[n].path \in Paths \cup {NoPath} /\ old[n].written \in Nat
           /\ old[n].start \in Nat /\ old[n].base \in Seq(Msgs) /\ old[n].lock \in BOOLEAN
           /\ conv[n] \in Seq(Msgs) /\ src[n] \in Seq(Msgs) /\ at[n] \in Paths \cup {NoPath}
           /\ pc[n] \in Places /\ job[n] \in Jobs
<1>1. s[n] \in SessionRec /\ old[n] \in SessionRec
  BY DEF TypeOK
<1>2. conv[n] \in Seq(Msgs) /\ src[n] \in Seq(Msgs) /\ at[n] \in Paths \cup {NoPath}
      /\ pc[n] \in Places /\ job[n] \in Jobs
  BY DEF TypeOK, Places, Jobs
<1> QED
  BY <1>1, <1>2 DEF SessionRec

\* What an append puts in a transcript.
LEMMA AppendType ==
    ASSUME TypeOK, NEW n \in Insts
    PROVE  /\ Rest(n) \in Seq(Msgs) /\ Whole(n) \in FileRec
           /\ \A r \in Partial(n) : r \in FileRec
           /\ \A f, r \in FileRec : Appended(f, r) \in FileRec
<1>1. s[n].written \in Nat /\ conv[n] \in Seq(Msgs)
  BY Fields
<1>2. Rest(n) \in Seq(Msgs)
  BY <1>1 DEF Rest
<1>3. \A k \in 0..Len(Rest(n)) : SubSeq(Rest(n), 1, k) \in Seq(Msgs)
  BY <1>2
<1>4. ASSUME NEW r \in Partial(n) PROVE r \in FileRec
  <2>1. CASE r \in {[rows |-> SubSeq(Rest(n), 1, k), torn |-> FALSE] : k \in 1..Len(Rest(n))}
    <3>1. PICK k \in 1..Len(Rest(n)) : r = [rows |-> SubSeq(Rest(n), 1, k), torn |-> FALSE]
      BY <2>1
    <3> QED
      BY <1>2, <1>3, <3>1 DEF FileRec
  <2>2. CASE r \in {[rows |-> SubSeq(Rest(n), 1, k), torn |-> TRUE] : k \in 0..(Len(Rest(n)) - 1)}
    <3>1. PICK k \in 0..(Len(Rest(n)) - 1) : r = [rows |-> SubSeq(Rest(n), 1, k), torn |-> TRUE]
      BY <2>2
    <3> QED
      BY <1>2, <1>3, <3>1 DEF FileRec
  <2> QED
    BY <1>4, <2>1, <2>2 DEF Partial
<1>5. ASSUME NEW f \in FileRec, NEW r \in FileRec PROVE Appended(f, r) \in FileRec
  <2>1. f.rows \o r.rows \in Seq(Msgs)
    BY DEF FileRec
  <2> QED
    BY <2>1 DEF FileRec, Appended
<1> QED
  BY <1>2, <1>4, <1>5 DEF Whole, FileRec

LEMMA UnlockType ==
    ASSUME TypeOK, NEW n \in Insts, NEW r, Unlock(n, r)
    PROVE  L!OwnerTypeOK'
BY DEF TypeOK, L!OwnerTypeOK, Unlock, L!Release

LEMMA FailedType ==
    ASSUME TypeOK, NEW n \in Insts, NEW r \in SessionRec, Failed(n, r)
    PROVE  /\ L!OwnerTypeOK' /\ s' \in [Insts -> SessionRec] /\ old' \in [Insts -> SessionRec]
           /\ job' \in [Insts -> Jobs] /\ pc' \in [Insts -> Places]
<1> USE DEF Jobs, Places, NoSession
<1>1. \A p \in SomeName : Fresh(p) \in SessionRec /\ p \in Paths \cup {NoPath}
  BY FreshType DEF SomeName, Names
<1>2. CASE job[n] = "save" /\ s' = Set(s, n, r) /\ pc' = Set(pc, n, "idle") /\ UNCHANGED <<owner, old, job>>
  BY <1>2 DEF TypeOK, L!OwnerTypeOK, Set
<1>3. CASE /\ job[n] = "fork" /\ s' = Set(s, n, old[n]) /\ Unlock(n, r)
           /\ old' = Set(old, n, NoSession)
           /\ job' = Set(job, n, "save") /\ pc' = Set(pc, n, "idle")
  BY <1>3, UnlockType, FreshType, Fields DEF TypeOK, Set
<1>4. ASSUME job[n] = "rewind", old' = Set(old, n, NoSession),
             owner' = [p \in Paths |-> IF owner[p] = n THEN NoInst ELSE owner[p]],
             NEW p \in SomeName, s' = Set(s, n, Fresh(p)),
             pc' = Set(pc, n, IF p = NoPath THEN "idle" ELSE "take"),
             job' = Set(job, n, "save")
      PROVE  /\ L!OwnerTypeOK' /\ s' \in [Insts -> SessionRec] /\ old' \in [Insts -> SessionRec]
             /\ job' \in [Insts -> Jobs] /\ pc' \in [Insts -> Places]
  <2>1. L!OwnerTypeOK'
    BY <1>4 DEF TypeOK, L!OwnerTypeOK
  <2>2. s' \in [Insts -> SessionRec] /\ old' \in [Insts -> SessionRec]
    BY <1>1, <1>4, FreshType DEF TypeOK, Set
  <2>3. job' \in [Insts -> Jobs] /\ pc' \in [Insts -> Places]
    <3>1. (IF p = NoPath THEN "idle" ELSE "take") \in Places
      OBVIOUS
    <3> HIDE DEF Places
    <3> QED
      BY <1>4, <3>1 DEF TypeOK, Set, Places
  <2> QED
    BY <2>1, <2>2, <2>3
<1> QED
  BY <1>2, <1>3, <1>4 DEF Failed

\* ForkTo makes a copy of a Session, or begins one.
LEMMA ForkType ==
    ASSUME TypeOK, NEW n \in Insts, NEW p \in Names, NEW c, NEW j \in Jobs, ForkTo(n, p, c, j)
    PROVE  /\ L!OwnerTypeOK' /\ s' \in [Insts -> SessionRec] /\ old' \in [Insts -> SessionRec]
           /\ job' \in [Insts -> Jobs] /\ pc' \in [Insts -> Places]
<1>1. Fresh(p) \in SessionRec /\ s[n] \in SessionRec
  BY FreshType, Fields DEF Names
<1>2. CASE c = <<>>
  <2>1. L!OwnerTypeOK'
    BY <1>2, UnlockType DEF ForkTo
  <2>2. s' = Set(s, n, Fresh(p)) /\ UNCHANGED <<old, job, pc>>
    BY <1>2 DEF ForkTo
  <2>3. s' \in [Insts -> SessionRec]
    BY <1>1, <2>2 DEF Set, TypeOK
  <2> QED
    BY <2>1, <2>2, <2>3 DEF TypeOK, Jobs, Places
<1>3. CASE c # <<>>
  <2>1. L!OwnerTypeOK'
    BY <1>3 DEF ForkTo, Copied, TypeOK, L!OwnerTypeOK
  <2>2. s' \in [Insts -> SessionRec] /\ old' \in [Insts -> SessionRec]
    <3>1. s' = Set(s, n, Fresh(p)) /\ old' = Set(old, n, s[n])
      BY <1>3 DEF ForkTo, Copied
    <3> QED
      BY <1>1, <3>1 DEF Set, TypeOK
  <2>3. job' \in [Insts -> Jobs] /\ pc' \in [Insts -> Places]
    BY <1>3 DEF ForkTo, Set, TypeOK, Jobs, Places
  <2> QED
    BY <2>1, <2>2, <2>3
<1> QED
  BY <1>2, <1>3

\* A path that a lock is asked for or that an append goes to is one.
LEMMA PathKnown ==
    ASSUME IInv, NEW n \in Insts
    PROVE  /\ pc[n] \in Saving => s[n].path \in Paths
           /\ pc[n] \in {"release", "apply", "delete"} => at[n] \in Paths
           /\ s[n].lock => s[n].path \in Paths
           /\ old[n].lock => old[n].path \in Paths
BY DEF IInv, InstOK, Control, Locks

LEMMA TypeStep == IInv /\ [Next]_vars => TypeOK'
<1> SUFFICES ASSUME IInv, [Next]_vars PROVE TypeOK'
  OBVIOUS
<1>a. TypeOK
  BY DEF IInv
<1>b. \A p \in Paths \cup {NoPath} : Fresh(p) \in SessionRec
  BY FreshType
<1>c. SomeName \subseteq Paths \cup {NoPath} /\ Names \subseteq Paths
  BY DEF SomeName, Names
<1>d. L!OwnerTypeOK /\ (UNCHANGED owner => L!OwnerTypeOK')
  BY <1>a DEF TypeOK, L!OwnerTypeOK
<1>e. NoSession \in SessionRec
  BY <1>b DEF NoSession
<1>2. ASSUME NEW n \in Insts, Begin(n) PROVE TypeOK'
  <2>1. L!OwnerTypeOK'
    BY <1>a, <1>2, UnlockType DEF Begin
  <2>2. s' \in [Insts -> SessionRec]
    BY <1>a, <1>b, <1>c, <1>2 DEF Begin, TypeOK, Set
  <2>3. conv' \in [Insts -> Seq(Msgs)] /\ ops' \in 0..MaxOps
    BY <1>a, <1>2 DEF Begin, Start, TypeOK, Set
  <2> QED
    BY <1>a, <1>2, <2>1, <2>2, <2>3 DEF Begin, TypeOK
<1>3. ASSUME NEW n \in Insts, Say(n) PROVE TypeOK'
  <2>1. said' \in 0..MaxMsgs /\ conv' \in [Insts -> Seq(Msgs)]
    BY <1>a, <1>3 DEF Say, Msgs, TypeOK, Set
  <2> QED
    BY <1>a, <1>d, <1>3, <2>1 DEF Say, TypeOK
<1>4. ASSUME NEW n \in Insts, Save(n) PROVE TypeOK'
  BY <1>a, <1>d, <1>4 DEF Save, TypeOK, Set
<1>5. ASSUME NEW n \in Insts, SaveTake(n) \/ SaveRetake(n) PROVE TypeOK'
  <2>1. s[n].path \in Paths /\ s[n] \in SessionRec
    BY <1>a, <1>5, PathKnown, Fields DEF SaveTake, SaveRetake, Saving
  <2>2. Locked(n) \in SessionRec
    <3>1. file[s[n].path].rows \in Seq(Msgs) /\ s[n].written \in Nat
      BY <1>a, <2>1, Fields DEF TypeOK
    <3> QED
      BY <2>1, <3>1, SessionTypes DEF Locked
  <2>3. ReadOnly(s[n]) \in SessionRec /\ ReadOnly(NoSession) \in SessionRec
    BY <1>e, <2>1, SessionTypes
  <2>4. ASSUME NEW r \in SessionRec, Failed(n, r) PROVE TypeOK'
    BY <1>a, <1>5, <2>4, FailedType DEF SaveTake, SaveRetake, TypeOK, Jobs, Places
  <2>5. ASSUME L!Grant(n, s[n].path), s' = Set(s, n, Locked(n)), pc' = Set(pc, n, "write"),
               UNCHANGED <<old, job>>
        PROVE  TypeOK'
    <3>1. L!OwnerTypeOK'
      BY <1>d, <2>1, <2>5 DEF L!OwnerTypeOK, L!Grant
    <3> QED
      BY <1>a, <1>5, <2>2, <2>5, <3>1 DEF SaveTake, SaveRetake, TypeOK, Set
  <2>6. ASSUME NEW p \in Names, s' = Set(s, n, Fresh(p)), pc' = Set(pc, n, "retake"),
               UNCHANGED <<owner, old, job>>
        PROVE  TypeOK'
    <3>1. Fresh(p) \in SessionRec
      BY <1>b, <1>c
    <3> QED
      BY <1>a, <1>d, <1>5, <2>6, <3>1 DEF SaveTake, SaveRetake, TypeOK, Set
  <2> QED
    BY <1>5, <2>3, <2>4, <2>5, <2>6 DEF SaveTake, SaveRetake
<1>6. ASSUME NEW n \in Insts, SaveWrite(n) PROVE TypeOK'
  <2>1. s[n].path \in Paths /\ exists' \subseteq Paths
    BY <1>a, <1>6, PathKnown DEF SaveWrite, Saving, TypeOK
  <2>2. L!OwnerTypeOK' /\ old' \in [Insts -> SessionRec]
    BY <1>a, <1>e, <1>6, UnlockType DEF SaveWrite, OriginalGone, Set, TypeOK
  <2>3. file' \in [Paths -> FileRec]
    <3>1. file[s[n].path] \in FileRec
      BY <1>a, <2>1 DEF TypeOK, FileRec
    <3>2. Appended(file[s[n].path], Whole(n)) \in FileRec
      BY <1>a, <3>1, AppendType
    <3> QED
      BY <1>a, <1>6, <3>2 DEF SaveWrite, Set, TypeOK, FileRec
  <2>4. s' \in [Insts -> SessionRec]
    <3>1. s[n] \in SessionRec /\ Len(conv[n]) \in Nat
      BY <1>a, Fields
    <3>2. [s[n] EXCEPT !.written = Len(conv[n])] \in SessionRec
      BY <3>1, SessionTypes
    <3> QED
      BY <1>a, <1>6, <3>2 DEF SaveWrite, Set, TypeOK
  <2>5. job' \in [Insts -> Jobs] /\ pc' \in [Insts -> Places]
    BY <1>a, <1>6 DEF SaveWrite, Set, TypeOK, Jobs, Places
  <2> QED
    BY <1>a, <1>6, <2>1, <2>2, <2>3, <2>4, <2>5 DEF SaveWrite, TypeOK, FileRec, Jobs, Places
<1>7. ASSUME NEW n \in Insts, SaveFail(n) \/ SaveStuck(n) PROVE TypeOK'
  <2>1. s[n].path \in Paths /\ s[n] \in SessionRec
    BY <1>a, <1>7, PathKnown, Fields DEF SaveFail, SaveStuck, Saving
  <2>2. CASE SaveFail(n)
    BY <1>a, <2>1, <2>2, FailedType DEF SaveFail, TypeOK, Jobs, Places
  <2>3. CASE SaveStuck(n)
    <3>1. PICK r \in Partial(n) : file' = Set(file, s[n].path, Appended(file[s[n].path], r))
      BY <2>3 DEF SaveStuck
    <3>2. Appended(file[s[n].path], r) \in FileRec
      BY <1>a, <2>1, AppendType DEF TypeOK, FileRec
    <3>3. file' \in [Paths -> FileRec] /\ faults' \in 0..MaxFaults /\ exists' \subseteq Paths
      BY <1>a, <2>1, <2>3, <3>1, <3>2 DEF TypeOK, FileRec, Set, SaveStuck
    <3>4. [s[n] EXCEPT !.blocked = TRUE, !.bad = s[n].path] \in SessionRec
      BY <2>1, SessionTypes
    <3> QED
      BY <1>a, <2>3, <3>3, <3>4, FailedType DEF SaveStuck, TypeOK, FileRec, Jobs, Places
  <2> QED
    BY <1>7, <2>2, <2>3
<1>8. ASSUME NEW n \in Insts, Fork(n) PROVE TypeOK'
  <2>1. ops' \in 0..MaxOps
    BY <1>a, <1>8 DEF Fork, Start, TypeOK
  <2>2. "fork" \in Jobs
    BY DEF Jobs
  <2> QED
    BY <1>a, <1>8, <2>1, <2>2, ForkType DEF Fork, TypeOK, Jobs, Places
<1>9. ASSUME NEW n \in Insts, RewindInPlace(n) PROVE TypeOK'
  <2>1. PICK k \in 1..(Len(conv[n]) - 1) :
            /\ conv' = Set(conv, n, SubSeq(conv[n], 1, k))
            /\ file' = Set(file, s[n].path, [rows |-> SubSeq(conv[n], 1, k), torn |-> FALSE])
            /\ s' = Set(s, n, Rewound(s[n], k))
    BY <1>9 DEF RewindInPlace
  <2>2. s[n].path \in Paths
    BY <1>9, PathKnown DEF RewindInPlace
  <2>3. SubSeq(conv[n], 1, k) \in Seq(Msgs) /\ k \in Nat
    BY <1>a, Fields
  <2>4. Rewound(s[n], k) \in SessionRec
    BY <1>a, <2>3, Fields, SessionTypes
  <2>5. [rows |-> SubSeq(conv[n], 1, k), torn |-> FALSE] \in FileRec
    BY <2>3 DEF FileRec
  <2>6. /\ conv' \in [Insts -> Seq(Msgs)] /\ s' \in [Insts -> SessionRec]
        /\ file' \in [Paths -> FileRec]
    BY <1>a, <2>1, <2>3, <2>4, <2>5 DEF TypeOK, Set, FileRec
  <2>7. ops' \in 0..MaxOps /\ exists' \subseteq Paths
    BY <1>a, <1>9, <2>2 DEF RewindInPlace, Start, TypeOK
  <2> QED
    BY <1>a, <1>d, <1>9, <2>6, <2>7 DEF RewindInPlace, TypeOK, FileRec
<1>10. ASSUME NEW n \in Insts, RewindFork(n) PROVE TypeOK'
  <2>1. PICK k \in 0..(Len(conv[n]) - 1) :
            /\ conv' = Set(conv, n, SubSeq(conv[n], 1, k))
            /\ \/ \E p \in Names : ForkTo(n, p, SubSeq(conv[n], 1, k), "rewind")
               \/ /\ Names = {} /\ Unlock(n, s[n]) /\ s' = Set(s, n, NoSession)
                  /\ UNCHANGED <<old, job, pc>>
    BY <1>10 DEF RewindFork
  <2>2. conv' \in [Insts -> Seq(Msgs)] /\ ops' \in 0..MaxOps
    <3>1. SubSeq(conv[n], 1, k) \in Seq(Msgs)
      BY <1>a, Fields
    <3> QED
      BY <1>a, <1>10, <2>1, <3>1 DEF TypeOK, Set, RewindFork, Start
  <2>3. CASE \E p \in Names : ForkTo(n, p, SubSeq(conv[n], 1, k), "rewind")
    <3>1. "rewind" \in Jobs
      BY DEF Jobs
    <3> QED
      BY <1>a, <1>10, <2>2, <2>3, <3>1, ForkType DEF RewindFork, TypeOK, Jobs, Places
  <2>4. CASE Unlock(n, s[n]) /\ s' = Set(s, n, NoSession) /\ UNCHANGED <<old, job, pc>>
    <3>1. L!OwnerTypeOK' /\ s' \in [Insts -> SessionRec]
      BY <1>a, <1>e, <2>4, UnlockType DEF TypeOK, Set
    <3> QED
      BY <1>a, <1>10, <2>2, <2>4, <3>1 DEF RewindFork, TypeOK
  <2> QED
    BY <2>1, <2>3, <2>4
<1>11. ASSUME NEW n \in Insts, NEW p \in Paths, ResumeRead(n, p) PROVE TypeOK'
  <2>1. src' \in [Insts -> Seq(Msgs)] /\ at' \in [Insts -> Paths \cup {NoPath}] /\ ops' \in 0..MaxOps
    BY <1>a, <1>11 DEF ResumeRead, Start, TypeOK, Set
  <2>2. pc' \in [Insts -> Places]
    BY <1>a, <1>11 DEF ResumeRead, TypeOK, Set, Places
  <2> QED
    BY <1>a, <1>d, <1>11, <2>1, <2>2 DEF ResumeRead, TypeOK, Places
<1>12. ASSUME NEW n \in Insts, ResumeRelease(n) PROVE TypeOK'
  <2>1. [s[n] EXCEPT !.path = at[n], !.lock = FALSE, !.ro = FALSE, !.resumed = TRUE,
                     !.base = <<>>, !.start = 0] \in SessionRec
    BY <1>a, Fields, SessionTypes
  <2>2. L!OwnerTypeOK'
    BY <1>a, <1>12, UnlockType DEF ResumeRelease
  <2>3. s' \in [Insts -> SessionRec] /\ pc' \in [Insts -> Places]
    BY <1>a, <1>12, <2>1 DEF ResumeRelease, TypeOK, Set, Places
  <2> QED
    BY <1>a, <1>12, <2>2, <2>3 DEF ResumeRelease, TypeOK, Places
<1>13. ASSUME NEW n \in Insts, ResumeApply(n) PROVE TypeOK'
  <2> DEFINE r == [s[n] EXCEPT !.written = Len(src[n])]
  <2>1. at[n] \in Paths /\ src[n] \in Seq(Msgs) /\ Len(src[n]) \in Nat
    BY <1>a, <1>13, PathKnown, Fields DEF ResumeApply
  <2>2. r \in SessionRec
    BY <1>a, <2>1, Fields, SessionTypes
  <2>3. file[at[n]].rows \in Seq(Msgs)
    BY <1>a, <2>1 DEF TypeOK
  <2>4. /\ [r EXCEPT !.lock = TRUE, !.base = file[at[n]].rows, !.start = Len(src[n])] \in SessionRec
        /\ ReadOnly(r) \in SessionRec
    <3> HIDE DEF r
    <3> QED
      BY <2>1, <2>2, <2>3, SessionTypes
  <2>5. L!OwnerTypeOK'
    BY <1>d, <1>13, <2>1 DEF ResumeApply, L!Grant, L!OwnerTypeOK
  <2>6. s' \in [Insts -> SessionRec]
    BY <1>a, <1>13, <2>4 DEF ResumeApply, Set, TypeOK
  <2>7. /\ conv' \in [Insts -> Seq(Msgs)] /\ src' \in [Insts -> Seq(Msgs)]
        /\ at' \in [Insts -> Paths \cup {NoPath}] /\ pc' \in [Insts -> Places]
    BY <1>a, <1>13, <2>1 DEF ResumeApply, Set, TypeOK, Places
  <2> QED
    BY <1>a, <1>13, <2>5, <2>6, <2>7 DEF ResumeApply, TypeOK, Places
<1>14. ASSUME NEW n \in Insts, NEW p \in Paths, Delete(n, p) PROVE TypeOK'
  <2>1. L!OwnerTypeOK'
    BY <1>d, <1>14 DEF Delete, DeleteTake, L!Grant, L!OwnerTypeOK
  <2>2. at' \in [Insts -> Paths \cup {NoPath}] /\ pc' \in [Insts -> Places] /\ ops' \in 0..MaxOps
    BY <1>a, <1>14 DEF Delete, Start, Set, TypeOK, Places
  <2> QED
    BY <1>a, <1>14, <2>1, <2>2 DEF Delete, TypeOK, Places
<1>15. ASSUME NEW n \in Insts, DeleteUnlink(n) PROVE TypeOK'
  <2>1. L!OwnerTypeOK'
    BY <1>d, <1>15 DEF DeleteUnlink, L!Release, L!OwnerTypeOK
  <2>2. file' \in [Paths -> FileRec]
    <3>1. NoLines \in FileRec
      BY DEF NoLines, FileRec
    <3> QED
      BY <1>a, <1>15, <3>1 DEF DeleteUnlink, Set, TypeOK, FileRec
  <2>3. at' \in [Insts -> Paths \cup {NoPath}] /\ pc' \in [Insts -> Places] /\ exists' \subseteq Paths
    BY <1>a, <1>15 DEF DeleteUnlink, Set, TypeOK, Places
  <2> QED
    BY <1>a, <1>15, <2>1, <2>2, <2>3 DEF DeleteUnlink, TypeOK, FileRec, Places
<1>16. ASSUME NEW n \in Insts, Leave(n) PROVE TypeOK'
  <2>1. L!OwnerTypeOK' /\ s' \in [Insts -> SessionRec] /\ old' \in [Insts -> SessionRec]
    BY <1>a, <1>d, <1>e, <1>16 DEF Leave, L!Die, L!OwnerTypeOK, TypeOK, Set
  <2>2. /\ conv' \in [Insts -> Seq(Msgs)] /\ src' \in [Insts -> Seq(Msgs)]
        /\ at' \in [Insts -> Paths \cup {NoPath}] /\ pc' \in [Insts -> Places] /\ job' \in [Insts -> Jobs]
    BY <1>a, <1>16 DEF Leave, TypeOK, Set, Places, Jobs
  <2>3. exists' \subseteq Paths /\ file' \in [Paths -> FileRec] /\ faults' \in 0..MaxFaults
    <3>1. CASE UNCHANGED <<exists, file, faults>>
      BY <1>a, <3>1 DEF TypeOK, FileRec
    <3>2. ASSUME pc[n] = "write", faults < MaxFaults, faults' = faults + 1,
                 exists' = exists \cup {s[n].path}, NEW r \in Partial(n),
                 file' = Set(file, s[n].path, Appended(file[s[n].path], r))
          PROVE  exists' \subseteq Paths /\ file' \in [Paths -> FileRec] /\ faults' \in 0..MaxFaults
      <4>1. s[n].path \in Paths
        BY <3>2, PathKnown DEF Saving
      <4>2. Appended(file[s[n].path], r) \in FileRec
        BY <1>a, <4>1, AppendType DEF TypeOK, FileRec
      <4> QED
        BY <1>a, <3>2, <4>1, <4>2 DEF TypeOK, FileRec, Set
    <3> QED
      BY <1>16, <3>1, <3>2 DEF Leave
  <2> QED
    BY <1>a, <1>16, <2>1, <2>2, <2>3 DEF Leave, TypeOK, FileRec, Places, Jobs
<1>17. CASE UNCHANGED vars
  BY <1>a, <1>d, <1>17 DEF vars, TypeOK
<1> QED
  BY <1>2, <1>3, <1>4, <1>5, <1>6, <1>7, <1>8, <1>9, <1>10, <1>11, <1>12, <1>13, <1>14, <1>15, <1>16,
     <1>17 DEF Next

--------------------------------------------------------------------------------
(* The other instances *)

\* What a step of n leaves alone: all that another instance has, and every transcript
\* whose lock n does not have.
Only(n) ==
    /\ \A m \in Insts \ {n} :
         /\ s'[m] = s[m] /\ old'[m] = old[m] /\ job'[m] = job[m] /\ pc'[m] = pc[m]
         /\ at'[m] = at[m] /\ conv'[m] = conv[m]
         /\ \A p \in Paths : owner'[p] = m <=> owner[p] = m
    /\ \A p \in Paths : file'[p] = file[p] \/ owner[p] = n

LEMMA OthersOK ==
    ASSUME IInv, NEW n \in Insts, Only(n), NEW m \in Insts \ {n}
    PROVE  InstOK(m)'
<1>1. InstOK(m)
  BY DEF IInv
<1>2. /\ s'[m] = s[m] /\ old'[m] = old[m] /\ job'[m] = job[m] /\ pc'[m] = pc[m]
      /\ at'[m] = at[m] /\ conv'[m] = conv[m]
      /\ \A p \in Paths : owner'[p] = m <=> owner[p] = m
  BY DEF Only
<1>3. Control(m)'
  BY <1>1, <1>2 DEF InstOK, Control
<1>4. Locks(m)'
  BY <1>1, <1>2 DEF InstOK, Locks, Has
<1>5. Saved(m)'
  <2>1. \A p \in Paths : Has(m, p) => file'[p] = file[p]
    BY <1>1 DEF InstOK, Locks, Only
  <2>2. /\ s[m].lock => file'[s[m].path] = file[s[m].path]
        /\ old[m].lock => file'[old[m].path] = file[old[m].path]
    BY <1>1, <2>1 DEF InstOK, Locks, Has
  <2> QED
    BY <1>1, <1>2, <2>2 DEF InstOK, Saved, SavedOK
<1> QED
  BY <1>3, <1>4, <1>5 DEF InstOK

\* An instance lets go of what it has, and takes what nobody has.
LEMMA OwnersKept ==
    ASSUME TypeOK, NEW n \in Insts, NEW m \in Insts \ {n}, NEW p \in Paths
    PROVE  /\ \A r : Unlock(n, r) => (owner'[p] = m <=> owner[p] = m)
           /\ \A q \in Paths : L!Grant(n, q) \/ L!Release(n, q) => (owner'[p] = m <=> owner[p] = m)
           /\ L!Die(n) => (owner'[p] = m <=> owner[p] = m)
           /\ UNCHANGED owner => (owner'[p] = m <=> owner[p] = m)
<1> USE DEF TypeOK, L!OwnerTypeOK
<1>1. ASSUME NEW r, Unlock(n, r) PROVE owner'[p] = m <=> owner[p] = m
  BY <1>1 DEF Unlock, L!Release
<1>2. ASSUME NEW q \in Paths, L!Grant(n, q) \/ L!Release(n, q) PROVE owner'[p] = m <=> owner[p] = m
  BY <1>2 DEF L!Grant, L!Release
<1>3. ASSUME L!Die(n) PROVE owner'[p] = m <=> owner[p] = m
  BY <1>3 DEF L!Die
<1> QED
  BY <1>1, <1>2, <1>3

LEMMA FailedOnly ==
    ASSUME TypeOK, NEW n \in Insts, NEW r, Failed(n, r), NEW m \in Insts \ {n}
    PROVE  /\ s'[m] = s[m] /\ old'[m] = old[m] /\ job'[m] = job[m] /\ pc'[m] = pc[m]
           /\ \A p \in Paths : owner'[p] = m <=> owner[p] = m
<1>1. CASE job[n] = "save" /\ s' = Set(s, n, r) /\ pc' = Set(pc, n, "idle") /\ UNCHANGED <<owner, old, job>>
  BY <1>1 DEF Set, TypeOK
<1>2. CASE /\ job[n] = "fork" /\ s' = Set(s, n, old[n]) /\ Unlock(n, r)
           /\ old' = Set(old, n, NoSession)
           /\ job' = Set(job, n, "save") /\ pc' = Set(pc, n, "idle")
  BY <1>2, OwnersKept DEF Set, TypeOK
<1>3. ASSUME old' = Set(old, n, NoSession),
             owner' = [p \in Paths |-> IF owner[p] = n THEN NoInst ELSE owner[p]],
             NEW p \in SomeName, s' = Set(s, n, Fresh(p)),
             pc' = Set(pc, n, IF p = NoPath THEN "idle" ELSE "take"),
             job' = Set(job, n, "save")
      PROVE  /\ s'[m] = s[m] /\ old'[m] = old[m] /\ job'[m] = job[m] /\ pc'[m] = pc[m]
             /\ \A q \in Paths : owner'[q] = m <=> owner[q] = m
  <2>1. L!Die(n)
    BY <1>3 DEF L!Die
  <2> QED
    BY <1>3, <2>1, OwnersKept DEF Set, TypeOK
<1> QED
  BY <1>1, <1>2, <1>3 DEF Failed

LEMMA ForkOnly ==
    ASSUME TypeOK, NEW n \in Insts, NEW p, NEW c, NEW j, ForkTo(n, p, c, j), NEW m \in Insts \ {n}
    PROVE  /\ s'[m] = s[m] /\ old'[m] = old[m] /\ job'[m] = job[m] /\ pc'[m] = pc[m]
           /\ \A q \in Paths : owner'[q] = m <=> owner[q] = m
<1>1. \A q \in Paths : owner'[q] = m <=> owner[q] = m
  BY OwnersKept DEF ForkTo, Copied
<1>2. s' = Set(s, n, Fresh(p)) /\ (old' = old \/ old' = Set(old, n, s[n]))
  BY DEF ForkTo, Copied
<1>3. (job' = job \/ job' = Set(job, n, j)) /\ (pc' = pc \/ pc' = Set(pc, n, "take"))
  BY DEF ForkTo
<1> QED
  BY <1>1, <1>2, <1>3 DEF Set, TypeOK

\* The transcripts an instance may change are those whose lock it has.
LEMMA OwnTranscripts ==
    ASSUME IInv, NEW n \in Insts
    PROVE  /\ s[n].lock \/ pc[n] = "write" => s[n].path \in Paths /\ owner[s[n].path] = n
           /\ old[n].lock => old[n].path \in Paths /\ owner[old[n].path] = n
           /\ pc[n] = "delete" => at[n] \in Paths /\ owner[at[n]] = n
BY DEF IInv, InstOK, Control, Locks, Has

LEMMA StepOnly ==
    ASSUME IInv, NEW n \in Insts, Step(n)
    PROVE  Only(n)
<1>a. TypeOK
  BY DEF IInv
<1> USE <1>a
<1>1. CASE Begin(n)
  BY <1>1, OwnersKept DEF Begin, Only, Set, TypeOK
<1>2. CASE Say(n)
  BY <1>2 DEF Say, Only, Set, TypeOK
<1>3. CASE Save(n)
  BY <1>3 DEF Save, Only, Set, TypeOK
<1>4. CASE SaveTake(n) \/ SaveRetake(n)
  <2>1. UNCHANGED <<file, at, conv>>
    BY <1>4 DEF SaveTake, SaveRetake
  <2>2. ASSUME NEW r, Failed(n, r) PROVE Only(n)
    BY <2>1, <2>2, FailedOnly DEF Only
  <2>3. ASSUME L!Grant(n, s[n].path), s' = Set(s, n, Locked(n)), pc' = Set(pc, n, "write"),
               UNCHANGED <<old, job>>
        PROVE  Only(n)
    <3>1. s[n].path \in Paths
      BY <1>4, PathKnown DEF SaveTake, SaveRetake, Saving
    <3> QED
      BY <2>1, <2>3, <3>1, OwnersKept DEF Only, Set, TypeOK
  <2>4. ASSUME NEW p, s' = Set(s, n, Fresh(p)), pc' = Set(pc, n, "retake"),
               UNCHANGED <<owner, old, job>>
        PROVE  Only(n)
    BY <2>1, <2>4 DEF Only, Set, TypeOK
  <2> QED
    BY <1>4, <2>2, <2>3, <2>4 DEF SaveTake, SaveRetake
<1>5. CASE SaveWrite(n)
  BY <1>5, OwnersKept, OwnTranscripts DEF SaveWrite, OriginalGone, Only, Set, TypeOK
<1>6. CASE SaveFail(n)
  BY <1>6, FailedOnly DEF SaveFail, Only
<1>7. CASE SaveStuck(n)
  <2>1. \A p \in Paths : file'[p] = file[p] \/ owner[p] = n
    BY <1>7, OwnTranscripts DEF SaveStuck, Set, TypeOK
  <2> QED
    BY <1>7, <2>1, FailedOnly DEF SaveStuck, Only
<1>8. CASE Fork(n)
  BY <1>8, ForkOnly DEF Fork, Only
<1>9. CASE RewindInPlace(n)
  BY <1>9, OwnTranscripts DEF RewindInPlace, Only, Set, TypeOK
<1>10. CASE RewindFork(n)
  <2>1. PICK k \in 0..(Len(conv[n]) - 1) :
            /\ conv' = Set(conv, n, SubSeq(conv[n], 1, k))
            /\ \/ \E p \in Names : ForkTo(n, p, SubSeq(conv[n], 1, k), "rewind")
               \/ /\ Names = {} /\ Unlock(n, s[n]) /\ s' = Set(s, n, NoSession)
                  /\ UNCHANGED <<old, job, pc>>
    BY <1>10 DEF RewindFork
  <2>2. UNCHANGED <<file, at>> /\ \A m \in Insts \ {n} : conv'[m] = conv[m]
    BY <1>10, <2>1 DEF RewindFork, Set, TypeOK
  <2>3. CASE \E p \in Names : ForkTo(n, p, SubSeq(conv[n], 1, k), "rewind")
    BY <2>2, <2>3, ForkOnly DEF Only
  <2>4. CASE Unlock(n, s[n]) /\ s' = Set(s, n, NoSession) /\ UNCHANGED <<old, job, pc>>
    BY <2>2, <2>4, OwnersKept DEF Only, Set, TypeOK
  <2> QED
    BY <2>1, <2>3, <2>4
<1>11. CASE ResumeRelease(n)
  BY <1>11, OwnersKept DEF ResumeRelease, Only, Set, TypeOK
<1>12. CASE ResumeApply(n)
  <2>1. at[n] \in Paths
    BY <1>12, PathKnown DEF ResumeApply
  <2>2. \A m \in Insts \ {n} : s'[m] = s[m]
    BY <1>12 DEF ResumeApply, Set, TypeOK
  <2>3. \A m \in Insts \ {n}, p \in Paths : owner'[p] = m <=> owner[p] = m
    BY <1>12, <2>1, OwnersKept DEF ResumeApply
  <2> QED
    BY <1>12, <2>2, <2>3 DEF ResumeApply, Only, Set, TypeOK
<1>13. CASE DeleteUnlink(n)
  BY <1>13, OwnersKept, OwnTranscripts DEF DeleteUnlink, Only, Set, TypeOK
<1>14. CASE Leave(n)
  <2>1. \A p \in Paths : file'[p] = file[p] \/ owner[p] = n
    BY <1>14, OwnTranscripts DEF Leave, Set, TypeOK
  <2> QED
    BY <1>14, <2>1, OwnersKept DEF Leave, Only, Set, TypeOK
<1>15. CASE \E p \in Paths : ResumeRead(n, p) \/ Delete(n, p)
  <2>1. PICK p \in Paths : ResumeRead(n, p) \/ Delete(n, p)
    BY <1>15
  <2>2. CASE ResumeRead(n, p)
    BY <2>2 DEF ResumeRead, Only, Set, TypeOK
  <2>3. CASE Delete(n, p)
    BY <2>3, OwnersKept DEF Delete, DeleteTake, Only, Set, TypeOK
  <2> QED
    BY <2>1, <2>2, <2>3
<1> QED
  BY <1>1, <1>2, <1>3, <1>4, <1>5, <1>6, <1>7, <1>8, <1>9, <1>10, <1>11, <1>12, <1>13, <1>14, <1>15 DEF Step

--------------------------------------------------------------------------------
(* The instance that takes the step *)

\* What grants, saves and messages do to the part of a conversation that was saved.
LEMMA GrantPart ==
    \A c, b \in Seq(Msgs), w \in Nat : b \o Part(c, w, w) = b
BY SubSeqEmpty, ConcatEmptySeq DEF Part

LEMMA SavePart ==
    \A c, b \in Seq(Msgs), i, w \in Nat : i <= w /\ w <= Len(c) =>
        (b \o Part(c, i, w)) \o Part(c, w, Len(c)) = b \o Part(c, i, Len(c))
<1> SUFFICES ASSUME NEW c \in Seq(Msgs), NEW b \in Seq(Msgs), NEW i \in Nat, NEW w \in Nat,
                    i <= w, w <= Len(c)
             PROVE  (b \o Part(c, i, w)) \o Part(c, w, Len(c)) = b \o Part(c, i, Len(c))
  OBVIOUS
<1> DEFINE x == Part(c, i, w)
           y == Part(c, w, Len(c))
<1>1. x \in Seq(Msgs) /\ y \in Seq(Msgs)
  BY DEF Part
<1>2. x \o y = Part(c, i, Len(c))
  <2>1. i + 1 \in 1..(Len(c) + 1) /\ w \in (i + 1) - 1..Len(c) /\ Len(c) \in w..Len(c)
    OBVIOUS
  <2> QED
    BY <2>1, ConcatAdjacentSubSeq DEF Part
<1> HIDE DEF x, y
<1>3. (b \o x) \o y = b \o (x \o y)
  BY <1>1
<1> QED
  BY <1>2, <1>3 DEF x, y

LEMMA SayPart ==
    \A c \in Seq(Msgs), x \in Msgs, i, w \in Nat : w <= Len(c) => Part(Append(c, x), i, w) = Part(c, i, w)
<1> SUFFICES ASSUME NEW c \in Seq(Msgs), NEW x \in Msgs, NEW i \in Nat, NEW w \in Nat, w <= Len(c)
             PROVE  Part(Append(c, x), i, w) = Part(c, i, w)
  OBVIOUS
<1>1. Part(c, i, w) \in Seq(Msgs) /\ Part(Append(c, x), i, w) \in Seq(Msgs)
  BY DEF Part
<1>2. Len(Part(Append(c, x), i, w)) = Len(Part(c, i, w))
  BY DEF Part
<1>3. \A k \in 1..Len(Part(c, i, w)) : Part(Append(c, x), i, w)[k] = Part(c, i, w)[k]
  BY DEF Part
<1> QED
  BY <1>1, <1>2, <1>3, SeqEqual

\* What InstOK says, with the types, for one instance.
LEMMA InstFacts ==
    ASSUME IInv, NEW n \in Insts
    PROVE  TypeOK /\ Control(n) /\ Locks(n) /\ Saved(n)
BY DEF IInv, InstOK

\* A fresh Session has no lock and has saved nothing.
LEMMA FreshOK ==
    /\ ~NoSession.lock /\ ~NoSession.blocked /\ NoSession.written = 0
    /\ \A p : ~Fresh(p).lock /\ ~Fresh(p).blocked /\ Fresh(p).written = 0 /\ Fresh(p).path = p
BY DEF Fresh, NoSession

LEMMA ReadOnlyOK ==
    ASSUME NEW r \in SessionRec
    PROVE  /\ ReadOnly(r) \in SessionRec /\ ReadOnly(r).lock = r.lock
           /\ ReadOnly(r).written = r.written
<1>1. ReadOnly(r) \in SessionRec
  BY SessionTypes
<1> QED
  BY <1>1 DEF ReadOnly, SessionRec

\* Outside a save and a delete, the lock of its session is all an instance has.
LEMMA UnlockAll ==
    ASSUME IInv, NEW n \in Insts, pc[n] \in {"idle", "release"}, Unlock(n, s[n])
    PROVE  \A q \in Paths : owner'[q] # n
<1>1. TypeOK /\ n # NoInst /\ ~old[n].lock /\ pc[n] # "delete"
  BY InstFacts DEF Control, Saving
<1>2. \A q \in Paths : owner[q] = n => s[n].lock /\ s[n].path = q
  BY <1>1, InstFacts DEF Locks, Has
<1>3. CASE s[n].lock
  BY <1>1, <1>2, <1>3 DEF Unlock, L!Release, TypeOK, L!OwnerTypeOK
<1>4. CASE ~s[n].lock
  BY <1>2, <1>4 DEF Unlock
<1> QED
  BY <1>3, <1>4

\* A session without a lock has nothing to show for what it saved.
LEMMA NothingSaved ==
    ASSUME NEW n \in Insts, ~s'[n].lock, s'[n].written <= Len(conv'[n]), job'[n] # "fork"
    PROVE  Saved(n)'
BY DEF Saved, SavedOK

\* A save that fails leaves nothing behind, whatever it was part of.
LEMMA FailedOK ==
    ASSUME IInv, TypeOK', NEW n \in Insts, NEW r \in SessionRec, Failed(n, r), pc[n] \in Saving,
           r.lock = s[n].lock, r.lock => r.path = s[n].path, r.written <= Len(conv[n]),
           UNCHANGED <<conv, at>>, SavedOK(r, conv[n])',
           \A p \in Paths : file'[p] = file[p] \/ (s[n].lock /\ p = s[n].path)
    PROVE  InstOK(n)'
<1>1. TypeOK /\ Control(n) /\ Locks(n) /\ Saved(n)
  BY InstFacts
<1>2. s[n].path \in Paths /\ pc[n] # "delete"
  BY <1>1 DEF Control, Saving
<1>3. CASE job[n] = "save" /\ s' = Set(s, n, r) /\ pc' = Set(pc, n, "idle") /\ UNCHANGED <<owner, old, job>>
  <2>1. s'[n] = r /\ pc'[n] = "idle" /\ old'[n] = old[n] /\ job'[n] = "save" /\ conv'[n] = conv[n]
    BY <1>1, <1>3 DEF TypeOK, Set
  <2>2. Control(n)' /\ Locks(n)'
    BY <1>1, <1>2, <1>3, <2>1 DEF Control, Locks, Has, Saving
  <2>3. Saved(n)'
    BY <2>1 DEF Saved, SavedOK
  <2> QED
    BY <2>2, <2>3 DEF InstOK
<1>4. CASE /\ job[n] = "fork" /\ s' = Set(s, n, old[n]) /\ Unlock(n, r)
           /\ old' = Set(old, n, NoSession)
           /\ job' = Set(job, n, "save") /\ pc' = Set(pc, n, "idle")
  <2>1. /\ s'[n] = old[n] /\ pc'[n] = "idle" /\ old'[n] = NoSession /\ job'[n] = "save"
        /\ conv'[n] = conv[n]
    BY <1>1, <1>4 DEF TypeOK, Set
  <2>2. Control(n)'
    BY <2>1, FreshOK DEF Control, Saving
  <2>3. \A p \in Paths : owner'[p] = n <=> old[n].lock /\ old[n].path = p
    <3>1. CASE r.lock
      <4>1. owner' = [owner EXCEPT ![s[n].path] = NoInst]
        BY <1>4, <3>1 DEF Unlock, L!Release
      <4>2. \A p \in Paths : owner'[p] = n <=> owner[p] = n /\ p # s[n].path
        BY <1>1, <4>1 DEF TypeOK, L!OwnerTypeOK
      <4> QED
        BY <1>1, <1>2, <3>1, <4>2 DEF Locks, Has
    <3>2. CASE ~r.lock
      BY <1>1, <1>2, <1>4, <3>2 DEF Unlock, Locks, Has
    <3> QED
      BY <3>1, <3>2
  <2>4. Locks(n)'
    BY <1>1, <2>1, <2>3, FreshOK DEF Locks, Has
  <2>5. Saved(n)'
    <3>1. old[n].lock => file'[old[n].path] = file[old[n].path]
      BY <1>1 DEF Locks
    <3> QED
      BY <1>1, <1>4, <2>1, <3>1 DEF Saved, SavedOK
  <2> QED
    BY <2>2, <2>4, <2>5 DEF InstOK
<1>5. ASSUME old' = Set(old, n, NoSession),
             owner' = [p \in Paths |-> IF owner[p] = n THEN NoInst ELSE owner[p]],
             NEW p \in SomeName, s' = Set(s, n, Fresh(p)),
             pc' = Set(pc, n, IF p = NoPath THEN "idle" ELSE "take"),
             job' = Set(job, n, "save")
      PROVE  InstOK(n)'
  <2>1. /\ s'[n] = Fresh(p) /\ old'[n] = NoSession /\ job'[n] = "save" /\ conv'[n] = conv[n]
        /\ pc'[n] = IF p = NoPath THEN "idle" ELSE "take"
    BY <1>1, <1>5 DEF TypeOK, Set
  <2>2. p \in Paths \cup {NoPath}
    BY DEF SomeName, Names
  <2>3. Control(n)'
    BY <2>1, <2>2, FreshOK DEF Control, Saving
  <2>4. Locks(n)'
    BY <1>5, <2>1, FreshOK DEF Locks, Has
  <2>5. Saved(n)'
    <3>1. conv[n] \in Seq(Msgs)
      BY <1>1, Fields
    <3> QED
      BY <2>1, <3>1, FreshOK, NothingSaved
  <2> QED
    BY <2>3, <2>4, <2>5 DEF InstOK
<1> QED
  BY <1>3, <1>4, <1>5 DEF Failed

\* A copy of a Session, or a fresh one when there is nothing to copy.
LEMMA ForkOK ==
    ASSUME IInv, TypeOK', NEW n \in Insts, NEW p \in Names, NEW c, NEW j \in {"fork", "rewind"},
           ForkTo(n, p, c, j), pc[n] = "idle", UNCHANGED <<at, file>>, j = "fork" => conv'[n] = conv[n]
    PROVE  InstOK(n)'
<1>1. TypeOK /\ Control(n) /\ Locks(n) /\ Saved(n)
  BY InstFacts
<1>2. job[n] = "save" /\ ~old[n].lock /\ p \in Paths /\ conv'[n] \in Seq(Msgs) /\ Len(conv'[n]) \in Nat
  BY <1>1 DEF Control, Saving, Names, TypeOK
<1>3. CASE s' = Set(s, n, Fresh(p)) /\ Unlock(n, s[n]) /\ UNCHANGED <<old, job, pc>>
  <2>1. s'[n] = Fresh(p)
    BY <1>1, <1>3 DEF TypeOK, Set
  <2>2. Control(n)'
    BY <1>1, <1>2, <1>3, <2>1, FreshOK DEF Control, Saving
  <2>3. \A q \in Paths : owner'[q] # n
    BY <1>3, UnlockAll
  <2>4. Locks(n)'
    BY <1>2, <1>3, <2>1, <2>3, FreshOK DEF Locks, Has
  <2>5. Saved(n)'
    BY <1>2, <1>3, <2>1, FreshOK, NothingSaved
  <2> QED
    BY <2>2, <2>4, <2>5 DEF InstOK
<1>4. CASE /\ Copied(n, p) /\ job' = Set(job, n, j)
           /\ old' = Set(old, n, s[n]) /\ pc' = Set(pc, n, "take")
  <2>1. s'[n] = Fresh(p) /\ old'[n] = s[n] /\ job'[n] = j /\ pc'[n] = "take" /\ UNCHANGED owner
    BY <1>1, <1>4 DEF TypeOK, Set, Copied
  <2>2. Control(n)'
    BY <1>2, <2>1, FreshOK DEF Control, Saving
  <2>3. Locks(n)'
    BY <1>1, <1>2, <2>1, FreshOK DEF Locks, Has
  <2>4. Saved(n)'
    <3>1. s'[n].written <= Len(conv'[n]) /\ ~s'[n].lock
      BY <1>2, <2>1, FreshOK
    <3>2. CASE j = "fork"
      <4>1. conv'[n] = conv[n] /\ s[n].written <= Len(conv[n]) /\ SavedOK(s[n], conv[n])
        BY <1>1, <3>2 DEF Saved
      <4> QED
        BY <2>1, <3>1, <4>1 DEF Saved, SavedOK
    <3>3. CASE j # "fork"
      BY <2>1, <3>1, <3>3 DEF Saved, SavedOK
    <3> QED
      BY <3>2, <3>3
  <2> QED
    BY <2>2, <2>3, <2>4 DEF InstOK
<1> QED
  BY <1>3, <1>4 DEF ForkTo

LEMMA OwnOK ==
    ASSUME IInv, TypeOK', NEW n \in Insts, Step(n)
    PROVE  InstOK(n)'
<1>a. TypeOK /\ Control(n) /\ Locks(n) /\ Saved(n)
  BY InstFacts
<1>b. /\ conv[n] \in Seq(Msgs) /\ conv'[n] \in Seq(Msgs) /\ src[n] \in Seq(Msgs)
      /\ s[n].written \in Nat /\ s[n].start \in Nat /\ s[n].base \in Seq(Msgs)
      /\ s[n] \in SessionRec /\ s[n].lock \in BOOLEAN /\ n # NoInst
  BY <1>a, Fields DEF TypeOK
<1>c. Len(conv[n]) \in Nat /\ Len(conv'[n]) \in Nat /\ Len(src[n]) \in Nat
  BY <1>b
<1>d. pc[n] \notin Saving => job[n] = "save" /\ ~old[n].lock
  BY <1>a DEF Control
<1>e. \A q \in Paths : owner[q] = n <=> Has(n, q)
  BY <1>a DEF Locks
<1>1. CASE Begin(n)
  <2>1. pc[n] = "idle" /\ Unlock(n, s[n]) /\ UNCHANGED <<old, job, pc, at, file>>
    BY <1>1 DEF Begin, Start
  <2>2. PICK p \in SomeName : s' = Set(s, n, Fresh(p))
    BY <1>1 DEF Begin
  <2>3. s'[n] = Fresh(p)
    BY <1>a, <2>2 DEF TypeOK, Set
  <2>4. \A q \in Paths : owner'[q] # n
    BY <2>1, UnlockAll
  <2>5. Control(n)' /\ Locks(n)'
    BY <1>d, <2>1, <2>3, <2>4, FreshOK DEF Control, Saving, Locks, Has
  <2>6. Saved(n)'
    BY <1>c, <1>d, <2>1, <2>3, FreshOK, NothingSaved DEF Saving
  <2> QED
    BY <2>5, <2>6 DEF InstOK
<1>2. CASE Say(n)
  <2>1. pc[n] = "idle" /\ UNCHANGED <<owner, file, s, old, job, pc, at>>
    BY <1>2 DEF Say
  <2>2. conv'[n] = Append(conv[n], said + 1) /\ said + 1 \in Msgs
    BY <1>2, <1>a DEF Say, Set, TypeOK, Msgs
  <2>3. Control(n)' /\ Locks(n)'
    BY <1>a, <2>1 DEF Control, Locks, Has
  <2>4. SavedOK(s[n], conv[n])'
    <3>1. s[n].written <= Len(conv[n]) /\ SavedOK(s[n], conv[n])
      BY <1>a DEF Saved
    <3>2. Part(conv'[n], s[n].start, s[n].written) = Part(conv[n], s[n].start, s[n].written)
      BY <1>b, <2>2, <3>1, SayPart
    <3> QED
      BY <2>1, <3>1, <3>2 DEF SavedOK
  <2>5. s'[n].written <= Len(conv'[n])
    BY <1>a, <1>b, <2>1, <2>2 DEF Saved
  <2>6. Saved(n)'
    BY <1>d, <2>1, <2>4, <2>5 DEF Saved, SavedOK, Saving
  <2> QED
    BY <2>3, <2>6 DEF InstOK
<1>3. CASE Save(n)
  <2>1. /\ pc[n] = "idle" /\ ~s[n].blocked /\ s[n].path \in Paths /\ job'[n] = "save"
        /\ pc'[n] = IF s[n].lock THEN "write" ELSE "take"
        /\ UNCHANGED <<owner, file, s, old, conv, at>>
    BY <1>3, <1>a, Fields DEF Save, Set, TypeOK
  <2>2. Control(n)'
    BY <1>b, <1>d, <2>1 DEF Control, Saving
  <2>3. Locks(n)'
    BY <1>a, <2>1 DEF Locks, Has
  <2>4. Saved(n)'
    BY <1>a, <2>1 DEF Saved, SavedOK
  <2> QED
    BY <2>2, <2>3, <2>4 DEF InstOK
<1>4. CASE SaveTake(n) \/ SaveRetake(n)
  <2>1. /\ pc[n] \in Saving /\ ~s[n].lock /\ s[n].path \in Paths /\ ~s[n].blocked /\ pc[n] # "delete"
        /\ UNCHANGED <<file, conv, at>>
    BY <1>4, <1>a DEF SaveTake, SaveRetake, Control, Saving
  <2>2. ASSUME NEW r \in SessionRec, ~r.lock, r.written <= Len(conv[n]), Failed(n, r)
        PROVE  InstOK(n)'
    <3>1. SavedOK(r, conv[n])' /\ r.lock = s[n].lock
      BY <1>b, <2>1, <2>2 DEF SavedOK, SessionRec
    <3>2. \A p \in Paths : file'[p] = file[p]
      BY <2>1
    <3> QED
      BY <2>1, <2>2, <3>1, <3>2, FailedOK
  <2>3. /\ ReadOnly(s[n]) \in SessionRec /\ ~ReadOnly(s[n]).lock
        /\ ReadOnly(s[n]).written = s[n].written
    BY <1>b, <2>1, ReadOnlyOK
  <2>4. ReadOnly(NoSession) \in SessionRec /\ ~ReadOnly(NoSession).lock /\ ReadOnly(NoSession).written = 0
    BY FreshType, FreshOK, ReadOnlyOK DEF NoSession
  <2>5. ASSUME L!Grant(n, s[n].path), s' = Set(s, n, Locked(n)), pc' = Set(pc, n, "write"),
               UNCHANGED <<old, job>>
        PROVE  InstOK(n)'
    <3>1. s'[n] = Locked(n) /\ pc'[n] = "write"
      BY <1>a, <2>5 DEF TypeOK, Set
    <3>2. /\ s'[n].lock /\ s'[n].path = s[n].path /\ ~s'[n].blocked /\ s'[n].written = s[n].written
          /\ s'[n].start = s[n].written /\ s'[n].base = file[s[n].path].rows
      BY <1>b, <2>1, <3>1 DEF Locked, SessionRec
    <3>3. Control(n)'
      BY <1>a, <2>1, <2>5, <3>1, <3>2 DEF Control, Saving
    <3>4. \A p \in Paths : owner'[p] = n <=> owner[p] = n \/ p = s[n].path
      BY <1>a, <2>1, <2>5 DEF L!Grant, TypeOK, L!OwnerTypeOK
    <3>5. owner[s[n].path] # n
      BY <1>b, <2>5 DEF L!Grant
    <3>6. Locks(n)'
      BY <1>a, <2>1, <2>5, <3>1, <3>2, <3>4, <3>5 DEF Locks, Has
    <3>7. Saved(n)'
      <4>1. s[n].written <= Len(conv[n]) /\ file[s[n].path].rows \in Seq(Msgs)
        BY <1>a, <2>1 DEF Saved, TypeOK
      <4>2. file[s[n].path].rows \o Part(conv[n], s[n].written, s[n].written) = file[s[n].path].rows
        BY <1>b, <4>1, GrantPart
      <4>3. SavedOK(s[n], conv[n])' /\ s'[n].written <= Len(conv'[n])
        BY <1>b, <2>1, <3>2, <4>1, <4>2 DEF SavedOK
      <4>4. job[n] = "fork" => old[n].written <= Len(conv[n]) /\ SavedOK(old[n], conv[n])
        BY <1>a DEF Saved
      <4>5. SavedOK(old[n], conv[n])' = SavedOK(old[n], conv[n])
        BY <2>1, <2>5 DEF SavedOK
      <4> QED
        BY <2>1, <2>5, <4>3, <4>4, <4>5 DEF Saved
    <3> QED
      BY <3>3, <3>6, <3>7 DEF InstOK
  <2>6. ASSUME NEW p \in Names, s' = Set(s, n, Fresh(p)), pc' = Set(pc, n, "retake"),
               UNCHANGED <<owner, old, job>>
        PROVE  InstOK(n)'
    <3>1. s'[n] = Fresh(p) /\ pc'[n] = "retake" /\ p \in Paths
      BY <1>a, <2>6 DEF TypeOK, Set, Names
    <3>2. Control(n)'
      BY <1>a, <2>1, <2>6, <3>1, FreshOK DEF Control, Saving
    <3>3. Locks(n)'
      BY <1>a, <2>1, <2>6, <3>1, FreshOK DEF Locks, Has
    <3>4. Saved(n)'
      <4>1. SavedOK(s[n], conv[n])'
        BY <3>1, FreshOK DEF SavedOK
      <4>0. s'[n].written <= Len(conv'[n])
        BY <1>c, <3>1, FreshOK
      <4>2. job[n] = "fork" => old[n].written <= Len(conv[n]) /\ SavedOK(old[n], conv[n])
        BY <1>a DEF Saved
      <4>3. SavedOK(old[n], conv[n])' = SavedOK(old[n], conv[n])
        BY <2>1, <2>6 DEF SavedOK
      <4> QED
        BY <2>1, <2>6, <4>0, <4>1, <4>2, <4>3 DEF Saved
    <3> QED
      BY <3>2, <3>3, <3>4 DEF InstOK
  <2> QED
    BY <1>4, <1>a, <1>c, <2>2, <2>3, <2>4, <2>5, <2>6 DEF SaveTake, SaveRetake, Saved
<1>5. CASE SaveWrite(n)
  <2>1. /\ pc[n] = "write" /\ s[n].lock /\ s[n].path \in Paths /\ ~s[n].blocked
        /\ UNCHANGED <<conv, at>> /\ Unlock(n, old[n])
    BY <1>5, <1>a DEF SaveWrite, OriginalGone, Control, Saving
  <2>2. /\ s'[n] = [s[n] EXCEPT !.written = Len(conv[n])] /\ pc'[n] = "idle" /\ job'[n] = "save"
        /\ old'[n] = NoSession
        /\ file'[s[n].path] = Appended(file[s[n].path], Whole(n))
    BY <1>5, <1>a, <2>1 DEF SaveWrite, OriginalGone, TypeOK, Set
  <2>3. /\ s'[n].lock /\ s'[n].path = s[n].path /\ s'[n].blocked = s[n].blocked
        /\ s'[n].written = Len(conv[n]) /\ s'[n].start = s[n].start /\ s'[n].base = s[n].base
    BY <1>b, <2>1, <2>2 DEF SessionRec
  <2>4. Control(n)'
    BY <2>2, FreshOK DEF Control, Saving
  <2>5. \A q \in Paths : owner'[q] = n <=> q = s[n].path
    <3>1. CASE old[n].lock
      <4>1. owner' = [owner EXCEPT ![old[n].path] = NoInst]
        BY <2>1, <3>1 DEF Unlock, L!Release
      <4>2. \A q \in Paths : owner'[q] = n <=> owner[q] = n /\ q # old[n].path
        BY <1>a, <1>b, <4>1 DEF TypeOK, L!OwnerTypeOK
      <4> QED
        BY <1>a, <2>1, <3>1, <4>2 DEF Locks, Has
    <3>2. CASE ~old[n].lock
      BY <1>a, <2>1, <3>2 DEF Unlock, Locks, Has
    <3> QED
      BY <3>1, <3>2
  <2>6. Locks(n)'
    BY <2>1, <2>2, <2>3, <2>5, FreshOK DEF Locks, Has
  <2>7. Saved(n)'
    <3>1. file'[s[n].path].rows = file[s[n].path].rows \o Rest(n)
      BY <2>2 DEF Appended, Whole
    <3>2. /\ s[n].start <= s[n].written /\ s[n].written <= Len(conv[n])
          /\ file[s[n].path].rows = s[n].base \o Part(conv[n], s[n].start, s[n].written)
      BY <1>a, <2>1 DEF Saved, SavedOK
    <3>3. file'[s[n].path].rows = s[n].base \o Part(conv[n], s[n].start, Len(conv[n]))
      <4>1. Rest(n) = Part(conv[n], s[n].written, Len(conv[n]))
        BY DEF Rest, Part
      <4>2. (s[n].base \o Part(conv[n], s[n].start, s[n].written)) \o Part(conv[n], s[n].written, Len(conv[n]))
              = s[n].base \o Part(conv[n], s[n].start, Len(conv[n]))
        <5> DEFINE c == conv[n]
                   b == s[n].base
                   i == s[n].start
                   w == s[n].written
        <5>1. c \in Seq(Msgs) /\ b \in Seq(Msgs) /\ i \in Nat /\ w \in Nat /\ i <= w /\ w <= Len(c)
          BY <1>b, <3>2
        <5> HIDE DEF c, b, i, w
        <5>2. (b \o Part(c, i, w)) \o Part(c, w, Len(c)) = b \o Part(c, i, Len(c))
          BY <5>1, SavePart
        <5> QED
          BY <5>2 DEF c, b, i, w
      <4> QED
        BY <3>1, <3>2, <4>1, <4>2
    <3>4. s[n].start <= Len(conv[n])
      BY <1>b, <1>c, <3>2
    <3>5. SavedOK(s[n], conv[n])'
      BY <2>1, <2>3, <3>3, <3>4 DEF SavedOK
    <3> QED
      BY <1>c, <2>1, <2>2, <2>3, <3>5 DEF Saved
  <2> QED
    BY <2>4, <2>6, <2>7 DEF InstOK
<1>6. CASE SaveFail(n)
  <2>1. pc[n] \in Saving /\ Failed(n, s[n]) /\ UNCHANGED <<file, conv, at>>
    BY <1>6 DEF SaveFail, Saving
  <2>2. s[n].written <= Len(conv[n]) /\ SavedOK(s[n], conv[n])
    BY <1>a DEF Saved
  <2>3. s[n].lock /\ ~s[n].blocked =>
          /\ s[n].start <= s[n].written
          /\ file'[s[n].path].rows = s[n].base \o Part(conv'[n], s[n].start, s[n].written)
    BY <2>1, <2>2 DEF SavedOK
  <2> QED
    BY <1>b, <2>1, <2>2, <2>3, FailedOK DEF SavedOK
<1>7. CASE SaveStuck(n)
  <2> DEFINE r == [s[n] EXCEPT !.blocked = TRUE, !.bad = s[n].path]
  <2>1. /\ pc[n] \in Saving /\ Failed(n, r) /\ UNCHANGED <<conv, at>>
        /\ s[n].lock /\ s[n].path \in Paths
    BY <1>7, <1>a DEF SaveStuck, Saving, Control
  <2>2. r \in SessionRec
    BY <1>b, <2>1, SessionTypes
  <2>3. r.lock = s[n].lock /\ r.path = s[n].path /\ r.written = s[n].written /\ r.blocked
    BY <1>b DEF SessionRec
  <2>4. \A p \in Paths : file'[p] = file[p] \/ p = s[n].path
    BY <1>7, <1>a DEF SaveStuck, Set, TypeOK
  <2>5. s[n].written <= Len(conv[n])
    BY <1>a DEF Saved
  <2> HIDE DEF r
  <2> QED
    BY <2>1, <2>2, <2>3, <2>4, <2>5, FailedOK DEF SavedOK
<1>8. CASE Fork(n)
  BY <1>8, ForkOK DEF Fork, Start
<1>9. CASE RewindInPlace(n)
  <2>1. PICK k \in 1..(Len(conv[n]) - 1) :
            /\ conv' = Set(conv, n, SubSeq(conv[n], 1, k))
            /\ file' = Set(file, s[n].path, [rows |-> SubSeq(conv[n], 1, k), torn |-> FALSE])
            /\ s' = Set(s, n, Rewound(s[n], k))
    BY <1>9 DEF RewindInPlace
  <2>2. pc[n] = "idle" /\ s[n].lock /\ UNCHANGED <<owner, old, job, pc, at>> /\ s[n].path \in Paths
    BY <1>9, <1>a DEF RewindInPlace, Start, Locks
  <2>3. /\ conv'[n] = SubSeq(conv[n], 1, k) /\ s'[n] = Rewound(s[n], k)
        /\ file'[s[n].path].rows = SubSeq(conv[n], 1, k)
    BY <1>a, <2>1, <2>2 DEF TypeOK, Set
  <2>4. /\ s'[n].lock = s[n].lock /\ s'[n].path = s[n].path /\ s'[n].blocked = s[n].blocked
        /\ s'[n].written = k /\ s'[n].start = 0 /\ s'[n].base = <<>>
    BY <1>b, <2>3 DEF Rewound, SessionRec
  <2>5. Control(n)'
    BY <1>a, <2>2, <2>4 DEF Control, Saving
  <2>6. Locks(n)'
    BY <1>a, <2>2, <2>4 DEF Locks, Has
  <2>7. Saved(n)'
    <3> DEFINE kept == SubSeq(conv[n], 1, k)
    <3>1. kept \in Seq(Msgs) /\ Len(kept) = k /\ k \in Nat
      BY <1>b
    <3>2. <<>> \o Part(kept, 0, k) = kept
      <4> HIDE DEF kept
      <4>1. Part(kept, 0, k) = kept
        BY <3>1, SubSeqFull DEF Part
      <4> QED
        BY <3>1, <4>1, ConcatEmptySeq
    <3>3. SavedOK(s[n], conv[n])'
      BY <2>3, <2>4, <3>1, <3>2 DEF SavedOK
    <3>4. s'[n].written <= Len(conv'[n])
      BY <2>3, <2>4, <3>1
    <3> QED
      BY <1>d, <2>2, <3>3, <3>4 DEF Saved, Saving
  <2> QED
    BY <2>5, <2>6, <2>7 DEF InstOK
<1>10. CASE RewindFork(n)
  <2>1. PICK k \in 0..(Len(conv[n]) - 1) :
            /\ conv' = Set(conv, n, SubSeq(conv[n], 1, k))
            /\ \/ \E p \in Names : ForkTo(n, p, SubSeq(conv[n], 1, k), "rewind")
               \/ /\ Names = {} /\ Unlock(n, s[n]) /\ s' = Set(s, n, NoSession)
                  /\ UNCHANGED <<old, job, pc>>
    BY <1>10 DEF RewindFork
  <2>2. UNCHANGED <<file, at>> /\ pc[n] = "idle"
    BY <1>10 DEF RewindFork, Start
  <2>3. CASE \E p \in Names : ForkTo(n, p, SubSeq(conv[n], 1, k), "rewind")
    BY <2>2, <2>3, ForkOK
  <2>4. CASE Unlock(n, s[n]) /\ s' = Set(s, n, NoSession) /\ UNCHANGED <<old, job, pc>>
    <3>1. s'[n] = NoSession
      BY <1>a, <2>4 DEF TypeOK, Set
    <3>2. \A q \in Paths : owner'[q] # n
      BY <2>2, <2>4, UnlockAll
    <3>3. Control(n)' /\ Locks(n)'
      BY <1>d, <2>2, <2>4, <3>1, <3>2, FreshOK DEF Control, Saving, Locks, Has
    <3>4. Saved(n)'
      BY <1>c, <1>d, <2>2, <2>4, <3>1, FreshOK, NothingSaved DEF Saving
    <3> QED
      BY <3>3, <3>4 DEF InstOK
  <2> QED
    BY <2>1, <2>3, <2>4
<1>11. CASE ResumeRelease(n)
  <2>1. pc[n] = "release" /\ Unlock(n, s[n]) /\ UNCHANGED <<old, job, at, conv>> /\ at[n] \in Paths
    BY <1>11, <1>a DEF ResumeRelease, Control
  <2>2. /\ s'[n] = [s[n] EXCEPT !.path = at[n], !.lock = FALSE, !.ro = FALSE,
                                !.resumed = TRUE, !.base = <<>>, !.start = 0]
        /\ pc'[n] = "apply"
    BY <1>11, <1>a DEF ResumeRelease, TypeOK, Set
  <2>3. ~s'[n].lock /\ s'[n].path = at[n] /\ s'[n].written = s[n].written
    BY <1>b, <2>2 DEF SessionRec
  <2>4. Control(n)'
    BY <1>a, <2>1, <2>2, <2>3 DEF Control, Saving
  <2>5. \A q \in Paths : owner'[q] # n
    BY <2>1, UnlockAll
  <2>6. Locks(n)'
    BY <1>d, <2>1, <2>2, <2>3, <2>5 DEF Locks, Has, Saving
  <2>7. Saved(n)'
    BY <1>a, <1>d, <2>1, <2>3 DEF Saved, SavedOK, Saving
  <2> QED
    BY <2>4, <2>6, <2>7 DEF InstOK
<1>12. CASE ResumeApply(n)
  <2> DEFINE r == [s[n] EXCEPT !.written = Len(src[n])]
             granted == [r EXCEPT !.lock = TRUE, !.base = file[at[n]].rows, !.start = Len(src[n])]
  <2>1. /\ pc[n] = "apply" /\ ~s[n].lock /\ s[n].path = at[n] /\ at[n] \in Paths
        /\ UNCHANGED <<file, old, job>> /\ pc'[n] = "idle" /\ conv'[n] = src[n]
    BY <1>12, <1>a DEF ResumeApply, Control, TypeOK, Set
  <2>2. CASE L!Grant(n, at[n]) /\ s' = Set(s, n, granted)
    <3>1. s'[n] = granted
      BY <1>a, <2>2 DEF TypeOK, Set
    <3>2. /\ s'[n].lock /\ s'[n].path = at[n] /\ s'[n].written = Len(src[n])
          /\ s'[n].start = Len(src[n]) /\ s'[n].base = file[at[n]].rows
      BY <1>b, <1>c, <2>1, <3>1 DEF SessionRec
    <3>3. Control(n)'
      BY <1>d, <2>1 DEF Control, Saving
    <3>4. \A p \in Paths : owner'[p] = n <=> p = at[n]
      BY <1>a, <1>b, <1>d, <1>e, <2>1, <2>2 DEF L!Grant, TypeOK, L!OwnerTypeOK, Has, Saving
    <3>5. Locks(n)'
      BY <1>d, <2>1, <3>2, <3>4 DEF Locks, Has, Saving
    <3>6. Saved(n)'
      <4>1. file[at[n]].rows \in Seq(Msgs)
        BY <1>a, <2>1 DEF TypeOK
      <4>2. file[at[n]].rows \o Part(src[n], Len(src[n]), Len(src[n])) = file[at[n]].rows
        BY <1>b, <1>c, <4>1, GrantPart
      <4>3. file'[s'[n].path].rows = s'[n].base \o Part(conv'[n], s'[n].start, s'[n].written)
        <5>1. file' = file /\ s'[n].path = at[n] /\ conv'[n] = src[n]
          BY <2>1, <3>2
        <5> QED
          BY <3>2, <4>2, <5>1
      <4>4. SavedOK(s[n], conv[n])'
        BY <1>c, <3>2, <4>3 DEF SavedOK
      <4> QED
        BY <1>c, <1>d, <2>1, <3>2, <4>4 DEF Saved, Saving
    <3> QED
      BY <3>3, <3>5, <3>6 DEF InstOK
  <2>3. CASE UNCHANGED owner /\ s' = Set(s, n, ReadOnly(r))
    <3>1. s'[n] = ReadOnly(r)
      BY <1>a, <2>3 DEF TypeOK, Set
    <3>2. ~s'[n].lock /\ s'[n].written = Len(src[n])
      BY <1>b, <1>c, <2>1, <3>1 DEF SessionRec, ReadOnly
    <3>3. Control(n)' /\ Locks(n)'
      BY <1>d, <1>e, <2>1, <2>3, <3>2 DEF Control, Locks, Has, Saving
    <3>4. Saved(n)'
      BY <1>c, <1>d, <2>1, <3>2, NothingSaved DEF Saving
    <3> QED
      BY <3>3, <3>4 DEF InstOK
  <2> QED
    BY <1>12, <2>2, <2>3 DEF ResumeApply
<1>13. CASE DeleteUnlink(n)
  <2>1. /\ pc[n] = "delete" /\ at[n] \in Paths /\ owner[at[n]] = n /\ L!Release(n, at[n])
        /\ UNCHANGED <<s, old, job, conv>> /\ pc'[n] = "idle"
    BY <1>13, <1>a, OwnTranscripts DEF DeleteUnlink, TypeOK, Set
  <2>2. Control(n)'
    BY <1>d, <2>1 DEF Control, Saving
  <2>3. \A p \in Paths : owner'[p] = n <=> owner[p] = n /\ p # at[n]
    BY <1>a, <1>b, <2>1 DEF L!Release, TypeOK, L!OwnerTypeOK
  <2>4. Locks(n)'
    BY <1>a, <1>d, <2>1, <2>3 DEF Locks, Has, Saving
  <2>5. s[n].lock => file'[s[n].path] = file[s[n].path]
    BY <1>13, <1>a, <2>1 DEF DeleteUnlink, Set, TypeOK, Locks
  <2>6. Saved(n)'
    BY <1>a, <1>d, <2>1, <2>5 DEF Saved, SavedOK, Saving
  <2> QED
    BY <2>2, <2>4, <2>6 DEF InstOK
<1>14. CASE Leave(n)
  <2>1. s'[n] = NoSession /\ old'[n] = NoSession /\ pc'[n] = "idle" /\ job'[n] = "save"
    BY <1>14, <1>a DEF Leave, TypeOK, Set
  <2>2. \A q \in Paths : owner'[q] # n
    BY <1>14, <1>b DEF Leave, L!Die
  <2>3. Control(n)' /\ Locks(n)'
    BY <2>1, <2>2, FreshOK DEF Control, Saving, Locks, Has
  <2>4. Saved(n)'
    BY <1>c, <2>1, FreshOK, NothingSaved
  <2> QED
    BY <2>3, <2>4 DEF InstOK
<1>15. CASE \E p \in Paths : ResumeRead(n, p)
  <2>1. /\ pc[n] = "idle" /\ pc'[n] = "release" /\ at'[n] \in Paths
        /\ UNCHANGED <<owner, file, s, old, job, conv>>
    BY <1>15, <1>a DEF ResumeRead, Start, TypeOK, Set
  <2>2. Control(n)' /\ Locks(n)'
    BY <1>a, <1>d, <2>1 DEF Control, Locks, Has, Saving
  <2>3. Saved(n)'
    BY <1>a, <2>1 DEF Saved, SavedOK
  <2> QED
    BY <2>2, <2>3 DEF InstOK
<1>16. ASSUME NEW p \in Paths, Delete(n, p) PROVE InstOK(n)'
  <2>1. /\ pc[n] = "idle" /\ pc'[n] = "delete" /\ at'[n] = p /\ p # s[n].path /\ L!Grant(n, p)
        /\ UNCHANGED <<file, s, old, job, conv>>
    BY <1>16, <1>a DEF Delete, Start, DeleteTake, TypeOK, Set
  <2>2. Control(n)'
    BY <1>d, <2>1 DEF Control, Saving
  <2>3. \A q \in Paths : owner'[q] = n <=> owner[q] = n \/ q = p
    BY <1>a, <1>b, <2>1 DEF L!Grant, TypeOK, L!OwnerTypeOK
  <2>4. Locks(n)'
    BY <1>a, <1>d, <2>1, <2>3 DEF Locks, Has, Saving
  <2>5. Saved(n)'
    BY <1>a, <2>1 DEF Saved, SavedOK
  <2> QED
    BY <2>2, <2>4, <2>5 DEF InstOK
<1> QED
  BY <1>1, <1>2, <1>3, <1>4, <1>5, <1>6, <1>7, <1>8, <1>9, <1>10, <1>11, <1>12, <1>13, <1>14, <1>15, <1>16
     DEF Step

--------------------------------------------------------------------------------
(* The invariant holds, and what follows from it *)

LEMMA NextStep ==
    ASSUME IInv, Next
    PROVE  \E n \in Insts : Step(n)
BY DEF Next, Step

LEMMA Inductive == IInv /\ [Next]_vars => IInv'
<1> SUFFICES ASSUME IInv, [Next]_vars PROVE IInv'
  OBVIOUS
<1>1. TypeOK'
  BY TypeStep
<1>2. ASSUME NEW m \in Insts PROVE InstOK(m)'
  <2>1. CASE UNCHANGED vars
    BY <2>1 DEF vars, IInv, InstOK, Control, Locks, Has, Saved, SavedOK
  <2>2. ASSUME NEW n \in Insts, Step(n) PROVE InstOK(m)'
    <3>1. CASE m = n
      BY <1>1, <2>2, <3>1, OwnOK
    <3>2. CASE m # n
      BY <2>2, <3>2, StepOnly, OthersOK
    <3> QED
      BY <3>1, <3>2
  <2> QED
    BY <2>1, <2>2, NextStep
<1> QED
  BY <1>1, <1>2 DEF IInv

\* The inductive invariant: the types, and what every instance has and has saved.
THEOREM Invariant == Spec => []IInv
BY InitIInv, Inductive, PTL DEF Spec

\* Every variable keeps its type.
THEOREM TypeCorrect == Spec => []TypeOK
<1>1. IInv => TypeOK
  BY DEF IInv
<1> QED
  BY <1>1, Invariant, PTL

\* An instance has the locks of its sessions and of its delete, and no other.
THEOREM LockTracked == Spec => []LeaseTracked
<1>1. IInv => LeaseTracked
  BY DEF IInv, InstOK, Locks, Has, LeaseTracked
<1> QED
  BY <1>1, Invariant, PTL

\* The transcript of a live session is what it found and then what it saved.
THEOREM TranscriptLeased == Spec => []LeasedTranscript
<1>1. IInv => LeasedTranscript
  BY DEF IInv, InstOK, Saved, SavedOK, Part, LeasedTranscript
<1> QED
  BY <1>1, Invariant, PTL

\* Two sessions that are live never have the same transcript.
OneLive == \A m, n \in Insts : s[m].lock /\ s[n].lock /\ s[m].path = s[n].path => m = n

\* One instance to a live transcript, which is what keeps a line from being written twice.
THEOREM NoneShared == Spec => []OneLive
<1>1. IInv => OneLive
  BY OwnTranscripts DEF OneLive
<1> QED
  BY <1>1, Invariant, PTL

--------------------------------------------------------------------------------
(* What no step does *)

\* The lines of a transcript are still there after an append.
LEMMA AppendKeeps ==
    ASSUME NEW f \in FileRec, NEW r \in FileRec
    PROVE  Records(f) \subseteq Records(Appended(f, r))
<1> DEFINE a == f.rows
           b == r.rows
<1>1. a \in Seq(Msgs) /\ b \in Seq(Msgs) /\ Appended(f, r).rows = a \o b
  BY DEF FileRec, Appended
<1> HIDE DEF a, b
<1>2. DOMAIN a \subseteq DOMAIN (a \o b) /\ \A i \in DOMAIN a : (a \o b)[i] = a[i]
  BY <1>1
<1>3. Records(f) = {a[i] : i \in DOMAIN a}
  BY DEF Records, a
<1>4. Records(Appended(f, r)) = {(a \o b)[i] : i \in DOMAIN (a \o b)}
  BY <1>1 DEF Records
<1> QED
  BY <1>2, <1>3, <1>4

\* What a step does to a transcript: append to it, or delete or rewind it.
LEMMA FileStep ==
    ASSUME IInv, NEW n \in Insts, Step(n), NEW p \in Paths
    PROVE  \/ file'[p] = file[p]
           \/ /\ pc[n] = "write" /\ p = s[n].path
              /\ \E r \in FileRec : file'[p] = Appended(file[p], r)
           \/ pc[n] = "delete" /\ owner[p] = n
           \/ pc[n] = "idle" /\ s[n].path = p /\ owner[p] = n /\ conv'[n] # conv[n]
<1>a. TypeOK
  BY DEF IInv
<1>1. CASE \/ Begin(n) \/ Say(n) \/ Save(n) \/ SaveTake(n) \/ SaveRetake(n) \/ SaveFail(n) \/ Fork(n)
           \/ RewindFork(n) \/ ResumeRelease(n) \/ ResumeApply(n)
           \/ \E q \in Paths : ResumeRead(n, q) \/ Delete(n, q)
  BY <1>1 DEF Begin, Say, Save, SaveTake, SaveRetake, SaveFail, Fork, RewindFork, ResumeRelease,
              ResumeApply, ResumeRead, Delete
<1>2. CASE SaveWrite(n)
  <2>1. Whole(n) \in FileRec
    BY <1>a, AppendType
  <2> QED
    BY <1>a, <1>2, <2>1 DEF SaveWrite, Set, TypeOK
<1>3. CASE SaveStuck(n)
  <2>1. Partial(n) \subseteq FileRec
    BY <1>a, AppendType
  <2> QED
    BY <1>a, <1>3, <2>1 DEF SaveStuck, Set, TypeOK
<1>4. CASE RewindInPlace(n)
  <2>1. PICK k \in 1..(Len(conv[n]) - 1) :
            /\ conv' = Set(conv, n, SubSeq(conv[n], 1, k))
            /\ file' = Set(file, s[n].path, [rows |-> SubSeq(conv[n], 1, k), torn |-> FALSE])
    BY <1>4 DEF RewindInPlace
  <2>2. conv[n] \in Seq(Msgs) /\ conv'[n] = SubSeq(conv[n], 1, k)
    BY <1>a, <2>1 DEF TypeOK, Set
  <2>3. conv'[n] # conv[n]
    BY <2>2
  <2>4. owner[s[n].path] = n /\ pc[n] = "idle"
    BY <1>4, OwnTranscripts DEF RewindInPlace, Start
  <2> QED
    BY <1>a, <2>1, <2>3, <2>4 DEF TypeOK, Set
<1>5. CASE DeleteUnlink(n)
  BY <1>a, <1>5, OwnTranscripts DEF DeleteUnlink, Set, TypeOK
<1>6. CASE Leave(n)
  <2>1. Partial(n) \subseteq FileRec
    BY <1>a, AppendType
  <2> QED
    BY <1>a, <1>6, <2>1 DEF Leave, Set, TypeOK
<1> QED
  BY <1>1, <1>2, <1>3, <1>4, <1>5, <1>6 DEF Step

\* A line that can be read stays, unless the instance with the lock deletes or rewinds.
THEOREM LinesKept == Spec => RecordsKept
<1>1. IInv /\ [Next]_vars => [KeepRecords]_vars
  <2> SUFFICES ASSUME IInv, Next PROVE KeepRecords
    OBVIOUS
  <2>1. PICK n \in Insts : Step(n)
    BY NextStep
  <2>2. ASSUME NEW p \in Paths
        PROVE  \/ Records(file[p]) \subseteq Records(file'[p])
               \/ \E m \in Insts : /\ owner[p] = m
                                   /\ \/ pc[m] = "delete"
                                      \/ s[m].path = p /\ conv'[m] # conv[m]
    <3>1. CASE file'[p] = file[p]
      BY <3>1
    <3>2. ASSUME NEW r \in FileRec, file'[p] = Appended(file[p], r)
          PROVE  Records(file[p]) \subseteq Records(file'[p])
      <4>1. file[p] \in FileRec
        BY DEF IInv, TypeOK, FileRec
      <4> QED
        BY <3>2, <4>1, AppendKeeps
    <3> QED
      BY <2>1, <3>1, <3>2, FileStep
  <2> QED
    BY <2>2 DEF KeepRecords
<1> QED
  BY <1>1, Invariant, PTL DEF Spec, RecordsKept

\* Until its copy is saved, nobody changes the transcript a fork came from.
THEOREM ForkedKept == Spec => ForkKeepsOriginal
<1>1. IInv /\ [Next]_vars => [ForkKeeps]_vars
  <2> SUFFICES ASSUME IInv, Next, NEW m \in Insts, old[m].lock
               PROVE  file'[old[m].path] = file[old[m].path]
    BY DEF ForkKeeps
  <2>1. PICK n \in Insts : Step(n)
    BY NextStep
  <2> DEFINE p == old[m].path
  <2>2. p \in Paths /\ owner[p] = m
    BY OwnTranscripts
  <2>3. CASE n # m
    BY <2>1, <2>2, <2>3, StepOnly DEF Only
  <2>4. CASE n = m
    <3>1. pc[m] \in Saving
      BY InstFacts DEF Control
    <3>2. pc[m] = "write" => p # s[m].path
      BY InstFacts DEF Control, Locks
    <3> QED
      BY <2>1, <2>2, <2>4, <3>1, <3>2, FileStep DEF Saving
  <2> QED
    BY <2>3, <2>4
<1> QED
  BY <1>1, Invariant, PTL DEF Spec, ForkKeepsOriginal

--------------------------------------------------------------------------------
(* The store asks of the lock what the lock promises *)

LEMMA LeaseStep ==
    ASSUME IInv, NEW n \in Insts, Step(n)
    PROVE  L!LeaseNext \/ UNCHANGED owner
<1>1. ASSUME NEW p \in Paths, L!Grant(n, p) \/ L!Release(n, p) PROVE L!LeaseNext
  BY <1>1 DEF L!LeaseNext
<1>2. ASSUME L!Die(n) PROVE L!LeaseNext
  BY <1>2 DEF L!LeaseNext
<1>3. ASSUME NEW r, Unlock(n, r), r.lock => r.path \in Paths PROVE L!LeaseNext \/ UNCHANGED owner
  BY <1>1, <1>3 DEF Unlock
<1>4. ASSUME Unlock(n, s[n]) \/ Unlock(n, old[n]) PROVE L!LeaseNext \/ UNCHANGED owner
  BY <1>3, <1>4, PathKnown
<1>5. ASSUME NEW r, Failed(n, r), r.lock => r.path \in Paths PROVE L!LeaseNext \/ UNCHANGED owner
  BY <1>2, <1>3, <1>5 DEF Failed, L!Die
<1>6. ASSUME NEW p, NEW c, NEW j, ForkTo(n, p, c, j) PROVE L!LeaseNext \/ UNCHANGED owner
  BY <1>4, <1>6 DEF ForkTo, Copied
<1>7. CASE Begin(n) \/ ResumeRelease(n)
  BY <1>4, <1>7 DEF Begin, ResumeRelease
<1>8. CASE Say(n) \/ Save(n) \/ RewindInPlace(n) \/ \E p \in Paths : ResumeRead(n, p)
  BY <1>8 DEF Say, Save, RewindInPlace, ResumeRead
<1>9. CASE SaveTake(n) \/ SaveRetake(n)
  <2>1. s[n] \in SessionRec /\ s[n].path \in Paths /\ NoSession \in SessionRec
    BY <1>9, InstFacts, PathKnown, Fields, FreshType DEF SaveTake, SaveRetake, Saving, NoSession
  <2>2. ReadOnly(s[n]).lock => ReadOnly(s[n]).path \in Paths
    BY <2>1 DEF ReadOnly, SessionRec
  <2>3. ~ReadOnly(NoSession).lock
    BY <2>1, FreshOK, ReadOnlyOK
  <2> QED
    BY <1>1, <1>5, <1>9, <2>1, <2>2, <2>3 DEF SaveTake, SaveRetake
<1>10. CASE SaveWrite(n)
  BY <1>4, <1>10 DEF SaveWrite, OriginalGone
<1>11. CASE SaveFail(n)
  BY <1>5, <1>11, PathKnown DEF SaveFail
<1>12. CASE SaveStuck(n)
  <2>1. s[n] \in SessionRec /\ s[n].path \in Paths
    BY <1>12, InstFacts, PathKnown, Fields DEF SaveStuck, Saving
  <2>2. [s[n] EXCEPT !.blocked = TRUE, !.bad = s[n].path].path \in Paths
    BY <2>1 DEF SessionRec
  <2> QED
    BY <1>5, <1>12, <2>2 DEF SaveStuck
<1>13. CASE Fork(n) \/ RewindFork(n)
  BY <1>4, <1>6, <1>13 DEF Fork, RewindFork
<1>14. CASE ResumeApply(n)
  BY <1>1, <1>14, PathKnown DEF ResumeApply
<1>15. CASE DeleteUnlink(n)
  BY <1>1, <1>15, PathKnown DEF DeleteUnlink
<1>16. CASE Leave(n)
  BY <1>2, <1>16 DEF Leave
<1>17. CASE \E p \in Paths : Delete(n, p)
  BY <1>1, <1>17 DEF Delete, DeleteTake
<1> QED
  BY <1>7, <1>8, <1>9, <1>10, <1>11, <1>12, <1>13, <1>14, <1>15, <1>16, <1>17 DEF Step

\* Whatever the sessions of all the instances do, the locks change hands only as the lease
\* promises: granted when nobody has them, let go by the instance that has them.
THEOREM StoreKeepsLease == Spec => L!LeaseSpec
<1>1. Init => L!OwnerInit
  BY DEF Init
<1>2. IInv /\ [Next]_vars => [L!LeaseNext]_owner
  BY NextStep, LeaseStep DEF vars
<1> QED
  BY <1>1, <1>2, Invariant, PTL DEF Spec, L!LeaseSpec
================================================================================
