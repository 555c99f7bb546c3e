---------------------------- MODULE SessionLockProofs ----------------------------
(***************************************************************************)
(* Theorems about the session lock, for any number of processes, lock      *)
(* files, inodes and tries. The inductive invariant says who has flock on  *)
(* which inode, and that the inode of every live session still has its     *)
(* name: no name can be taken away from it, because unlinking takes the    *)
(* flock of the inode the name links, and only one descriptor can have it. *)
(***************************************************************************)
EXTENDS SessionLock, TLAPS

\* One descriptor at most has an inode locked.
FlockOnce ==
    /\ \A m, n \in Insts : got[m] /\ got[n] /\ fd[m] = fd[n] => m = n
    /\ \A m, n \in Insts : \A p \in Paths :
          got[m] /\ lease[n][p] # NoInode => fd[m] # lease[n][p]
    /\ \A m, n \in Insts : \A p, q \in Paths :
          lease[m][p] # NoInode /\ lease[m][p] = lease[n][q] => m = n /\ p = q

\* What the program counter says of the descriptor a routine has open.
Registers == \A n \in Insts :
    /\ got[n] => fd[n] # NoInode
    /\ pc[n] \in {"idle", "refused", "take_open", "drop_close",
                  "take_flock", "probe_flock", "prune_flock"} => ~got[n]
    /\ pc[n] \in {"take_flock", "probe_flock", "prune_flock", "take_stat"} => fd[n] # NoInode
    /\ pc[n] \in {"prune_stat", "prune_unlink"} => got[n]
    /\ pc[n] = "prune_unlink" => Current(n)
    /\ pc[n] \in Taking => tries[n] < MaxTries

IInv == TypeOK /\ FlockOnce /\ Registers /\ LockNamed

USE InodeAssumption

\* The initial state: nothing is locked and no lock file exists.
LEMMA InitIInv == Init => IInv
BY TriesAssumption DEF Init, IInv, TypeOK, FlockOnce, Registers, LockNamed, PCs, Taking, Owns, Current

--------------------------------------------------------------------------------
(* Every step keeps the types *)

LEMMA TypeStep == TypeOK /\ Registers /\ [Next]_vars => TypeOK'
<1> SUFFICES ASSUME TypeOK, Registers, [Next]_vars PROVE TypeOK'
  OBVIOUS
<1> USE TriesAssumption DEF TypeOK, PCs, Taking, Pruning, Goto, Opened, Closed
<1>1. ASSUME NEW n \in Insts, NEW p \in Paths, Take(n, p) PROVE TypeOK'
  BY <1>1 DEF Take, Begin
<1>2. ASSUME NEW n \in Insts, NEW p \in Paths, Probe(n, p) PROVE TypeOK'
  BY <1>2 DEF Probe, Begin
<1>3. ASSUME NEW n \in Insts, NEW p \in Paths, Prune(n, p) PROVE TypeOK'
  BY <1>3 DEF Prune, Begin
<1>4. ASSUME NEW n \in Insts, NEW p \in Paths, Drop(n, p) PROVE TypeOK'
  BY <1>4 DEF Drop, Begin
<1>5. ASSUME NEW n \in Insts, TakeOpen(n) PROVE TypeOK'
  BY <1>5 DEF TakeOpen
<1>6. ASSUME NEW n \in Insts, Flock(n) PROVE TypeOK'
  BY <1>6 DEF Flock
<1>7. ASSUME NEW n \in Insts, TakeStat(n) PROVE TypeOK'
  <2>1. CASE Granted(n)
    <3>1. /\ at[n] \in Paths /\ fd[n] \in Inodes \cup {NoInode}
          /\ lease' = [lease EXCEPT ![n][at[n]] = fd[n]]
      BY <1>7, <2>1 DEF TakeStat
    <3>2. lease' \in [Insts -> [Paths -> Inodes \cup {NoInode}]]
      BY <3>1
    <3> QED
      BY <1>7, <2>1, <3>2 DEF TakeStat
  <2>2. CASE ~Granted(n)
    BY <1>7, <2>2 DEF TakeStat
  <2> QED
    BY <2>1, <2>2
<1>8. ASSUME NEW n \in Insts, HeldClose(n) \/ Close(n) PROVE TypeOK'
  BY <1>8 DEF HeldClose, Close
<1>13. ASSUME NEW n \in Insts, DropClose(n) PROVE TypeOK'
  BY <1>13 DEF DropClose
<1>9. ASSUME NEW n \in Insts, PruneStat(n) \/ PruneUnlink(n) PROVE TypeOK'
  BY <1>9 DEF PruneStat, PruneUnlink
<1>10. ASSUME NEW n \in Insts, Killed(n) PROVE TypeOK'
  BY <1>10 DEF Killed
<1>12. CASE UNCHANGED vars
  BY <1>12 DEF vars
<1>11. ASSUME NEW n \in Insts, TakeNoDir(n) \/ RetryClose(n) PROVE TypeOK'
  <2>1. tries[n] + 1 \in 0..MaxTries
    BY <1>11 DEF TakeNoDir, RetryClose, Registers
  <2>2. Retry(n)
    BY <1>11 DEF TakeNoDir, RetryClose
  <2>3. tries' \in [Insts -> 0..MaxTries]
    BY <2>1, <2>2 DEF Retry
  <2>4. pc' \in [Insts -> PCs]
    <3>1. (IF tries[n] + 1 < MaxTries THEN "take_open" ELSE "refused") \in PCs
      OBVIOUS
    <3> QED
      BY <2>2, <3>1, Zenon DEF Retry
  <2> QED
    BY <1>11, <2>3, <2>4 DEF TakeNoDir, RetryClose
<1> QED
  BY <1>1, <1>2, <1>3, <1>4, <1>5, <1>6, <1>7, <1>8, <1>9, <1>10, <1>11, <1>12, <1>13 DEF Next, Step

--------------------------------------------------------------------------------
(* One flock per inode, and what the program counter promises of it *)

LEMMA FlockStep == IInv /\ [Next]_vars => FlockOnce'
<1> SUFFICES ASSUME IInv, [Next]_vars PROVE FlockOnce'
  OBVIOUS
<1> USE DEF IInv, TypeOK, FlockOnce, Goto, Opened, Closed
<1>1. ASSUME NEW n \in Insts, NEW p \in Paths, Take(n, p) \/ Drop(n, p) PROVE FlockOnce'
  BY <1>1 DEF Take, Drop, Begin
<1>2. ASSUME NEW n \in Insts, NEW p \in Paths, Probe(n, p) \/ Prune(n, p) PROVE FlockOnce'
  <2>1. UNCHANGED lease
    BY <1>2 DEF Probe, Prune, Begin
  <2>2. \A m \in Insts : got'[m] => got[m] /\ fd'[m] = fd[m]
    BY <1>2 DEF Probe, Prune, Begin
  <2> QED
    BY <2>1, <2>2
<1>3. ASSUME NEW n \in Insts, TakeOpen(n) PROVE FlockOnce'
  BY <1>3 DEF TakeOpen
<1>4. ASSUME NEW n \in Insts, Flock(n) PROVE FlockOnce'
  <2>1. CASE Locked(fd[n])
    <3>1. got' = [got EXCEPT ![n] = FALSE] /\ UNCHANGED <<fd, lease>>
      BY <1>4, <2>1 DEF Flock
    <3> QED
      BY <3>1
  <2>2. CASE ~Locked(fd[n])
    <3>1. got' = [got EXCEPT ![n] = TRUE] /\ UNCHANGED <<fd, lease>>
      BY <1>4, <2>2 DEF Flock
    <3> QED
      BY <2>2, <3>1 DEF Locked
  <2> QED
    BY <2>1, <2>2
<1>5. ASSUME NEW n \in Insts, TakeStat(n) PROVE FlockOnce'
  <2>1. CASE Granted(n)
    <3>1. /\ lease' = [lease EXCEPT ![n][at[n]] = fd[n]]
          /\ fd' = [fd EXCEPT ![n] = NoInode] /\ got' = [got EXCEPT ![n] = FALSE]
          /\ got[n] /\ fd[n] # NoInode /\ at[n] \in Paths
      BY <1>5, <2>1 DEF TakeStat, Granted, Registers
    <3>2. \A m \in Insts, p \in Paths :
             lease'[m][p] = IF m = n /\ p = at[n] THEN fd[n] ELSE lease[m][p]
      BY <3>1
    <3>3. \A m \in Insts : got'[m] => m # n /\ got[m] /\ fd'[m] = fd[m]
      BY <3>1
    <3>4. \A m, k \in Insts : got'[m] /\ got'[k] /\ fd'[m] = fd'[k] => m = k
      BY <3>3
    <3>5. \A m, k \in Insts : \A p \in Paths :
             got'[m] /\ lease'[k][p] # NoInode => fd'[m] # lease'[k][p]
      BY <3>1, <3>2, <3>3
    <3>6. \A m, k \in Insts : \A p, q \in Paths :
             lease'[m][p] # NoInode /\ lease'[m][p] = lease'[k][q] => m = k /\ p = q
      BY <3>1, <3>2
    <3> QED
      BY <3>4, <3>5, <3>6
  <2>2. CASE ~Granted(n)
    BY <1>5, <2>2 DEF TakeStat
  <2> QED
    BY <2>1, <2>2
<1>6. ASSUME NEW n \in Insts, HeldClose(n) \/ Close(n) \/ RetryClose(n) PROVE FlockOnce'
  <2>1. UNCHANGED lease
    BY <1>6 DEF HeldClose, Close, RetryClose
  <2>2. \A m \in Insts : got'[m] => got[m] /\ fd'[m] = fd[m]
    BY <1>6 DEF HeldClose, Close, RetryClose
  <2> QED
    BY <2>1, <2>2
<1>7. ASSUME NEW n \in Insts, TakeNoDir(n) \/ PruneStat(n) \/ PruneUnlink(n) PROVE FlockOnce'
  BY <1>7 DEF TakeNoDir, PruneStat, PruneUnlink
<1>8. ASSUME NEW n \in Insts, DropClose(n) PROVE FlockOnce'
  <2>1. \A m \in Insts, p \in Paths : lease'[m][p] \in {lease[m][p], NoInode}
    BY <1>8 DEF DropClose
  <2>2. UNCHANGED <<fd, got>>
    BY <1>8 DEF DropClose
  <2> QED
    BY <2>1, <2>2
<1>9. ASSUME NEW n \in Insts, Killed(n) PROVE FlockOnce'
  <2>1. \A m \in Insts, p \in Paths : lease'[m][p] \in {lease[m][p], NoInode}
    BY <1>9 DEF Killed
  <2>2. \A m \in Insts : got'[m] => got[m] /\ fd'[m] = fd[m]
    BY <1>9 DEF Killed
  <2> QED
    BY <2>1, <2>2
<1>10. CASE UNCHANGED vars
  BY <1>10 DEF vars
<1> QED
  BY <1>1, <1>2, <1>3, <1>4, <1>5, <1>6, <1>7, <1>8, <1>9, <1>10 DEF Next, Step

\* Only the instance that steps moves its registers, so only its own line has to be shown.
LEMMA RegistersStep == IInv /\ [Next]_vars => Registers'
<1> SUFFICES ASSUME IInv, [Next]_vars PROVE Registers'
  OBVIOUS
<1> USE TriesAssumption DEF IInv, TypeOK, Registers, Taking, Goto, Opened, Closed, Current
<1>1. ASSUME NEW n \in Insts, NEW p \in Paths, Take(n, p) PROVE Registers'
  BY <1>1 DEF Take, Begin
<1>2. ASSUME NEW n \in Insts, NEW p \in Paths, Probe(n, p) PROVE Registers'
  BY <1>2 DEF Probe, Begin
<1>3. ASSUME NEW n \in Insts, NEW p \in Paths, Prune(n, p) PROVE Registers'
  BY <1>3 DEF Prune, Begin
<1>4. ASSUME NEW n \in Insts, NEW p \in Paths, Drop(n, p) PROVE Registers'
  <2>1. Owns(n, p) /\ link[p] = lease[n][p] /\ lease[n][p] # NoInode
    BY <1>4 DEF Drop, Begin, LockNamed, Owns
  <2>2. \A m \in Insts : pc[m] = "prune_unlink" => at[m] # p
    BY <2>1 DEF FlockOnce
  <2> QED
    BY <1>4, <2>2 DEF Drop, Begin
<1>5. ASSUME NEW n \in Insts, TakeOpen(n) PROVE Registers'
  <2>1. PICK i \in Inodes : /\ link[at[n]] # NoInode => i = link[at[n]]
                            /\ link' = [link EXCEPT ![at[n]] = i]
                            /\ Opened(n, i)
    BY <1>5 DEF TakeOpen
  <2>2. \A m \in Insts : pc[m] = "prune_unlink" => link'[at[m]] = link[at[m]]
    BY <2>1
  <2> QED
    BY <1>5, <2>1, <2>2 DEF TakeOpen
<1>6. ASSUME NEW n \in Insts, Flock(n) PROVE Registers'
  <2>1. UNCHANGED <<link, lease, at, fd, tries>> /\ fd[n] # NoInode
    BY <1>6 DEF Flock
  <2>2. \A m \in Insts \ {n} : pc'[m] = pc[m] /\ got'[m] = got[m]
    BY <1>6 DEF Flock
  <2>3. pc'[n] \in {"take_stat", "close", "prune_stat"}
    BY <1>6 DEF Flock
  <2>4. pc'[n] = "prune_stat" => got'[n]
    BY <1>6 DEF Flock
  <2>5. pc'[n] \in Taking => tries[n] < MaxTries
    BY <1>6 DEF Flock
  <2> QED
    BY <2>1, <2>2, <2>3, <2>4, <2>5
<1>7. ASSUME NEW n \in Insts, TakeStat(n) PROVE Registers'
  <2>1. CASE Granted(n)
    BY <1>7, <2>1 DEF TakeStat
  <2>2. CASE ~Granted(n)
    BY <1>7, <2>2 DEF TakeStat
  <2> QED
    BY <2>1, <2>2
<1>8. ASSUME NEW n \in Insts, HeldClose(n) \/ Close(n) PROVE Registers'
  BY <1>8 DEF HeldClose, Close
<1>9. ASSUME NEW n \in Insts, RetryClose(n) PROVE Registers'
  BY <1>9 DEF RetryClose, Retry
<1>10. ASSUME NEW n \in Insts, TakeNoDir(n) PROVE Registers'
  BY <1>10 DEF TakeNoDir, Retry
<1>11. ASSUME NEW n \in Insts, PruneStat(n) PROVE Registers'
  BY <1>11 DEF PruneStat, Stale
<1>12. ASSUME NEW n \in Insts, PruneUnlink(n) PROVE Registers'
  <2>1. \A m \in Insts \ {n} : pc[m] = "prune_unlink" => at[m] # at[n]
    BY <1>12 DEF PruneUnlink, FlockOnce
  <2> QED
    BY <1>12, <2>1 DEF PruneUnlink
<1>13. ASSUME NEW n \in Insts, DropClose(n) PROVE Registers'
  BY <1>13 DEF DropClose
<1>14. ASSUME NEW n \in Insts, Killed(n) PROVE Registers'
  BY <1>14 DEF Killed
<1>15. CASE UNCHANGED vars
  BY <1>15 DEF vars
<1> QED
  BY <1>1, <1>2, <1>3, <1>4, <1>5, <1>6, <1>7, <1>8, <1>9, <1>10, <1>11, <1>12, <1>13,
     <1>14, <1>15 DEF Next, Step

--------------------------------------------------------------------------------
(* The name of a live session's lock file stays where it is *)

\* Who owns what changes in four steps only.
LEMMA OwnersStep ==
    ASSUME IInv, NEW n \in Insts, NEW p \in Paths
    PROVE  /\ Take(n, p) \/ Probe(n, p) \/ Prune(n, p) =>
                \A m \in Insts, q \in Paths : Owns(m, q)' <=> Owns(m, q)
           /\ Drop(n, p) =>
                \A m \in Insts, q \in Paths :
                   Owns(m, q)' <=> Owns(m, q) /\ ~(m = n /\ q = p)
           /\ Step(n) /\ ~(TakeStat(n) /\ Granted(n)) =>
                \A m \in Insts, q \in Paths : Owns(m, q)' <=> Owns(m, q)
           /\ TakeStat(n) /\ Granted(n) =>
                \A m \in Insts, q \in Paths :
                   Owns(m, q)' <=> Owns(m, q) \/ (m = n /\ q = at[n])
           /\ Killed(n) =>
                \A m \in Insts, q \in Paths : Owns(m, q)' <=> Owns(m, q) /\ m # n
<1> USE DEF IInv, TypeOK, Goto, Opened, Closed, Owns
<1>1. ASSUME Take(n, p) \/ Probe(n, p) \/ Prune(n, p)
      PROVE  \A m \in Insts, q \in Paths : Owns(m, q)' <=> Owns(m, q)
  BY <1>1 DEF Take, Probe, Prune, Begin
<1>2. ASSUME Drop(n, p)
      PROVE  \A m \in Insts, q \in Paths : Owns(m, q)' <=> Owns(m, q) /\ ~(m = n /\ q = p)
  BY <1>2 DEF Drop, Begin
<1>3. ASSUME TakeStat(n), Granted(n)
      PROVE  \A m \in Insts, q \in Paths :
                Owns(m, q)' <=> Owns(m, q) \/ (m = n /\ q = at[n])
  <2>1. /\ lease' = [lease EXCEPT ![n][at[n]] = fd[n]] /\ UNCHANGED at
        /\ pc' = [pc EXCEPT ![n] = "idle"] /\ pc[n] = "take_stat"
        /\ at[n] \in Paths /\ fd[n] # NoInode
    BY <1>3 DEF TakeStat, Granted, Registers
  <2>2. \A m \in Insts, q \in Paths :
           lease'[m][q] = IF m = n /\ q = at[n] THEN fd[n] ELSE lease[m][q]
    BY <2>1
  <2> QED
    BY <2>1, <2>2
<1>4. ASSUME Killed(n)
      PROVE  \A m \in Insts, q \in Paths : Owns(m, q)' <=> Owns(m, q) /\ m # n
  BY <1>4 DEF Killed
<1>5. ASSUME Step(n), ~(TakeStat(n) /\ Granted(n))
      PROVE  \A m \in Insts, q \in Paths : Owns(m, q)' <=> Owns(m, q)
  <2>1. CASE TakeOpen(n) \/ HeldClose(n)
    BY <2>1 DEF TakeOpen, HeldClose
  <2>2. CASE TakeNoDir(n) \/ RetryClose(n)
    <3>1. /\ pc' = [pc EXCEPT ![n] = IF tries[n] + 1 < MaxTries THEN "take_open" ELSE "refused"]
          /\ pc[n] # "drop_close" /\ UNCHANGED <<lease, at>>
      BY <2>2 DEF TakeNoDir, RetryClose, Retry
    <3> QED
      BY <3>1
  <2>3. CASE Flock(n)
    <3>1. /\ UNCHANGED <<lease, at>> /\ pc[n] # "drop_close" /\ pc'[n] # "drop_close"
          /\ \A m \in Insts \ {n} : pc'[m] = pc[m]
      BY <2>3 DEF Flock
    <3> QED
      BY <3>1
  <2>4. CASE TakeStat(n)
    BY <1>5, <2>4 DEF TakeStat
  <2>5. CASE PruneStat(n) \/ PruneUnlink(n) \/ Close(n)
    BY <2>5 DEF PruneStat, PruneUnlink, Close
  <2>6. CASE DropClose(n)
    <3>1. /\ lease' = [lease EXCEPT ![n][at[n]] = NoInode] /\ UNCHANGED at
          /\ pc' = [pc EXCEPT ![n] = "idle"] /\ pc[n] = "drop_close"
      BY <2>6 DEF DropClose
    <3>2. \A m \in Insts, q \in Paths :
             lease'[m][q] = IF m = n /\ q = at[n] THEN NoInode ELSE lease[m][q]
      BY <3>1
    <3> QED
      BY <3>1, <3>2
  <2> QED
    BY <1>5, <2>1, <2>2, <2>3, <2>4, <2>5, <2>6 DEF Step
<1> QED
  BY <1>1, <1>2, <1>3, <1>4, <1>5

\* Whoever makes or unlinks a name is alone in having a lock on what it links.
LEMMA NamesStep ==
    ASSUME IInv, [Next]_vars, NEW m \in Insts, NEW q \in Paths, Owns(m, q),
           link'[q] # link[q]
    PROVE  Drop(m, q)
<1> USE DEF IInv, TypeOK, LockNamed
<1>1. link[q] = lease[m][q] /\ lease[m][q] # NoInode
  BY DEF Owns
<1>2. ASSUME NEW n \in Insts, TakeOpen(n) PROVE FALSE
  BY <1>1, <1>2 DEF TakeOpen
<1>3. ASSUME NEW n \in Insts, PruneUnlink(n) PROVE FALSE
  <2>1. at[n] = q /\ got[n] /\ fd[n] = link[q]
    BY <1>3 DEF PruneUnlink, Registers, Current
  <2> QED
    BY <1>1, <2>1 DEF FlockOnce
<1>4. ASSUME NEW n \in Insts, NEW p \in Paths, Drop(n, p) PROVE Drop(m, q)
  <2>1. p = q
    BY <1>4 DEF Drop
  <2>2. Owns(n, q) /\ lease[n][q] = link[q]
    BY <1>4, <2>1 DEF Drop, Begin, Owns
  <2>3. n = m
    BY <1>1, <2>2 DEF FlockOnce, Owns
  <2> QED
    BY <1>4, <2>1, <2>3
<1>5. UNCHANGED link \/ \E n \in Insts : \/ TakeOpen(n) \/ PruneUnlink(n)
                                        \/ \E p \in Paths : Drop(n, p)
  BY DEF Next, Step, vars, Take, Probe, Prune, Killed, TakeNoDir, Flock, TakeStat, HeldClose,
         RetryClose, PruneStat, Close, DropClose
<1> QED
  BY <1>2, <1>3, <1>4, <1>5

LEMMA NamedStep == IInv /\ [Next]_vars => LockNamed'
<1> SUFFICES ASSUME IInv, [Next]_vars PROVE LockNamed'
  OBVIOUS
<1> USE DEF IInv, LockNamed
<1> SUFFICES ASSUME NEW m \in Insts, NEW q \in Paths, Owns(m, q)'
             PROVE  link'[q] = lease'[m][q]
  OBVIOUS
<1>1. ASSUME NEW n \in Insts, TakeStat(n), Granted(n) PROVE link'[q] = lease'[m][q]
  <2>1. lease' = [lease EXCEPT ![n][at[n]] = fd[n]] /\ UNCHANGED link /\ link[at[n]] = fd[n]
    BY <1>1 DEF TakeStat, Granted, Current
  <2>2. CASE m = n /\ q = at[n]
    BY <2>1, <2>2 DEF TypeOK
  <2>3. CASE ~(m = n /\ q = at[n])
    <3>1. Owns(m, q)
      BY <1>1, <2>3, OwnersStep
    <3> QED
      BY <2>1, <2>3, <3>1 DEF TypeOK
  <2> QED
    BY <2>2, <2>3
<1>2. CASE \A n \in Insts : ~(TakeStat(n) /\ Granted(n))
  <2>1. Owns(m, q) /\ ~Drop(m, q)
    <3>1. ASSUME NEW n \in Insts, Step(n) PROVE Owns(m, q) /\ ~Drop(m, q)
      <4>1. Owns(m, q)
        BY <1>2, <3>1, OwnersStep
      <4>2. ~Drop(m, q)
        BY <4>1, OwnersStep
      <4> QED
        BY <4>1, <4>2
    <3>2. ASSUME NEW n \in Insts, NEW p \in Paths,
                 Killed(n) \/ Take(n, p) \/ Probe(n, p) \/ Prune(n, p) \/ Drop(n, p)
          PROVE  Owns(m, q) /\ ~Drop(m, q)
      BY <3>2, OwnersStep
    <3>3. CASE UNCHANGED vars
      <4>1. Owns(m, q)
        BY <3>3 DEF vars, Owns
      <4> QED
        BY <4>1, OwnersStep
    <3> QED
      BY <3>1, <3>2, <3>3 DEF Next
  <2>2. link'[q] = link[q]
    BY <2>1, NamesStep
  <2>3. lease'[m][q] # NoInode
    BY DEF Owns
  <2>4. lease'[m][q] = lease[m][q]
    <3>1. ASSUME NEW n \in Insts, TakeStat(n) PROVE lease' = lease
      BY <1>2, <3>1 DEF TakeStat
    <3>2. ASSUME NEW n \in Insts, DropClose(n) PROVE lease'[m][q] \in {lease[m][q], NoInode}
      BY <3>2 DEF DropClose, TypeOK
    <3>3. ASSUME NEW n \in Insts, Killed(n) PROVE lease'[m][q] \in {lease[m][q], NoInode}
      BY <3>3 DEF Killed, TypeOK
    <3>4. \/ UNCHANGED lease
          \/ \E n \in Insts : TakeStat(n) \/ DropClose(n) \/ Killed(n)
      BY DEF Next, Step, vars, Take, Probe, Prune, Drop, TakeOpen, TakeNoDir, Flock, HeldClose,
             RetryClose, PruneStat, PruneUnlink, Close
    <3> QED
      BY <2>3, <3>1, <3>2, <3>3, <3>4
  <2> QED
    BY <2>1, <2>2, <2>4
<1> QED
  BY <1>1, <1>2

--------------------------------------------------------------------------------
(* The theorems *)

LEMMA IInvStep == IInv /\ [Next]_vars => IInv'
BY TypeStep, FlockStep, RegistersStep, NamedStep DEF IInv

\* The invariant holds in every reachable state.
THEOREM Invariance == Spec => []IInv
BY InitIInv, IInvStep, PTL DEF Spec

\* The registers of every routine and the lock directory keep their types.
THEOREM TypeCorrect == Spec => []TypeOK
<1>1. IInv => TypeOK
  BY DEF IInv
<1> QED
  BY <1>1, Invariance, PTL

LEMMA OwnersAlone == IInv => OneAppender
BY DEF IInv, FlockOnce, LockNamed, OneAppender, Owns

\* One instance appends to a session at a time: two never have the lock of one transcript.
THEOREM Exclusive == Spec => []OneAppender
BY OwnersAlone, Invariance, PTL

\* The path of a live session always names the inode its instance locked.
THEOREM NameKept == Spec => []LockNamed
<1>1. IInv => LockNamed
  BY DEF IInv
<1> QED
  BY <1>1, Invariance, PTL

\* A lock file's name goes away only by the hand of the process that has its flock.
THEOREM OnlyHolderUnlinks == Spec => UnlinkedByHolder
<1>1. IInv /\ [Next]_vars => [UnlinkByHolder]_vars
  <2> SUFFICES ASSUME IInv, [Next]_vars, NEW p \in Paths, link[p] # NoInode, link'[p] # link[p]
               PROVE  \E n \in Insts :
                         /\ pc'[n] # pc[n]
                         /\ (got[n] /\ fd[n] = link[p]) \/ lease[n][p] = link[p]
    BY DEF UnlinkByHolder
  <2>1. CASE \E m \in Insts : Owns(m, p)
    <3>1. PICK m \in Insts : Owns(m, p)
      BY <2>1
    <3>2. Drop(m, p)
      BY <3>1, NamesStep
    <3>3. pc'[m] # pc[m] /\ lease[m][p] = link[p]
      BY <3>1, <3>2 DEF Drop, Begin, Goto, IInv, TypeOK, LockNamed
    <3> QED
      BY <3>3
  <2>2. CASE \A m \in Insts : ~Owns(m, p)
    <3>1. ASSUME NEW n \in Insts, TakeOpen(n) PROVE FALSE
      BY <3>1 DEF TakeOpen, IInv, TypeOK
    <3>2. ASSUME NEW n \in Insts, NEW q \in Paths, Drop(n, q) PROVE FALSE
      BY <2>2, <3>2 DEF Drop, Begin, Owns, IInv, TypeOK
    <3>3. PICK n \in Insts : PruneUnlink(n)
      BY <3>1, <3>2 DEF Next, Step, vars, Take, Probe, Prune, Killed, TakeNoDir, Flock, TakeStat,
             HeldClose, RetryClose, PruneStat, Close, DropClose
    <3>4. at[n] = p /\ got[n] /\ fd[n] = link[p] /\ pc'[n] # pc[n]
      BY <3>3 DEF PruneUnlink, Goto, IInv, TypeOK, Registers, Current
    <3> QED
      BY <3>4
  <2> QED
    BY <2>1, <2>2
<1> QED
  BY <1>1, Invariance, PTL DEF Spec, UnlinkedByHolder

--------------------------------------------------------------------------------
(* The lock implements the lease *)

\* With one appender at most, the owner is the instance that has the lock.
LEMMA OwnerIs ==
    ASSUME OneAppender, NEW p \in Paths
    PROVE  /\ \A n \in Insts : Owns(n, p) => Owner[p] = n
           /\ (\A n \in Insts : ~Owns(n, p)) => Owner[p] = NoInst
           /\ \A n \in Insts : Owner[p] = n => Owns(n, p)
<1>1. ASSUME NEW n \in Insts, Owns(n, p) PROVE Owner[p] = n
  <2>1. (CHOOSE m \in Insts : Owns(m, p)) = n
    BY <1>1 DEF OneAppender
  <2> QED
    BY <1>1, <2>1 DEF Owner
<1>2. ASSUME \A n \in Insts : ~Owns(n, p) PROVE Owner[p] = NoInst
  BY <1>2 DEF Owner
<1>3. ASSUME NEW n \in Insts, Owner[p] = n PROVE Owns(n, p)
  BY <1>1, <1>2, <1>3, InstAssumption
<1> QED
  BY <1>1, <1>2, <1>3

\* A step that moves nobody's ownership is a stutter of the lease.
LEMMA OwnerSame ==
    ASSUME \A m \in Insts, q \in Paths : Owns(m, q)' <=> Owns(m, q)
    PROVE  Owner' = Owner
<1>1. \A q \in Paths : (\E m \in Insts : Owns(m, q))' <=> (\E m \in Insts : Owns(m, q))
  OBVIOUS
<1>2. \A q \in Paths : (CHOOSE m \in Insts : Owns(m, q)') = (CHOOSE m \in Insts : Owns(m, q))
  OBVIOUS
<1> QED
  BY <1>1, <1>2 DEF Owner

LEMMA LeaseStep == IInv /\ IInv' /\ [Next]_vars => [Lease!LeaseNext]_Owner
<1> SUFFICES ASSUME IInv, IInv', [Next]_vars PROVE [Lease!LeaseNext]_Owner
  OBVIOUS
<1>1. OneAppender /\ OneAppender'
  <2>1. OneAppender
    BY OwnersAlone
  <2>2. OneAppender'
    BY DEF IInv, FlockOnce, LockNamed, OneAppender, Owns
  <2> QED
    BY <2>1, <2>2
<1>2. /\ Owner = [q \in Paths |-> Owner[q]]
      /\ Owner' = [q \in Paths |-> Owner'[q]]
  BY DEF Owner
<1>3. \A q \in Paths : /\ \A n \in Insts : Owns(n, q) => Owner[q] = n
                       /\ (\A n \in Insts : ~Owns(n, q)) => Owner[q] = NoInst
                       /\ \A n \in Insts : Owner[q] = n => Owns(n, q)
  BY <1>1, OwnerIs
<1>4. \A q \in Paths : /\ \A n \in Insts : Owns(n, q)' => Owner'[q] = n
                       /\ (\A n \in Insts : ~Owns(n, q)') => Owner'[q] = NoInst
  <2>1. ASSUME OneAppender', NEW q \in Paths
        PROVE  /\ \A n \in Insts : Owns(n, q)' => Owner'[q] = n
               /\ (\A n \in Insts : ~Owns(n, q)') => Owner'[q] = NoInst
    <3>1. ASSUME NEW n \in Insts, Owns(n, q)' PROVE Owner'[q] = n
      <4>1. (CHOOSE m \in Insts : Owns(m, q)') = n
        BY <2>1, <3>1 DEF OneAppender
      <4> QED
        BY <3>1, <4>1 DEF Owner
    <3> QED
      BY <3>1 DEF Owner
  <2> QED
    BY <1>1, <2>1
<1>5. ASSUME NEW n \in Insts, TakeStat(n), Granted(n) PROVE Lease!LeaseNext
  <2>1. at[n] \in Paths /\ \A m \in Insts : ~Owns(m, at[n])
    BY <1>5 DEF Granted, Current, IInv, TypeOK, FlockOnce, LockNamed, Owns
  <2>2. Lease!Grant(n, at[n])
    <3>1. Owner[at[n]] = NoInst
      BY <1>3, <2>1
    <3>2. \A q \in Paths : Owner'[q] = IF q = at[n] THEN n ELSE Owner[q]
      BY <1>3, <1>4, <1>5, OwnersStep
    <3> QED
      BY <1>2, <3>1, <3>2 DEF Lease!Grant
  <2> QED
    BY <2>1, <2>2 DEF Lease!LeaseNext
<1>6. ASSUME NEW n \in Insts, NEW p \in Paths, Drop(n, p) PROVE Lease!LeaseNext
  <2>1. Owns(n, p)
    BY <1>6 DEF Drop, Begin, Owns
  <2>2. \A m \in Insts : Owns(m, p) => m = n
    BY <1>1, <2>1 DEF OneAppender
  <2>3. \A q \in Paths : Owner'[q] = IF q = p THEN NoInst ELSE Owner[q]
    BY <1>3, <1>4, <1>6, <2>2, OwnersStep
  <2>4. Lease!Release(n, p)
    BY <1>2, <1>3, <2>1, <2>3 DEF Lease!Release
  <2> QED
    BY <2>4 DEF Lease!LeaseNext
<1>7. ASSUME NEW n \in Insts, NEW p \in Paths, Killed(n) PROVE Lease!LeaseNext
  <2>1. \A q \in Paths : Owner'[q] = IF Owner[q] = n THEN NoInst ELSE Owner[q]
    BY <1>1, <1>3, <1>4, <1>7, OwnersStep DEF OneAppender
  <2>2. Lease!Die(n)
    BY <1>2, <2>1 DEF Lease!Die
  <2> QED
    BY <2>2 DEF Lease!LeaseNext
<1>8. ASSUME NEW n \in Insts, NEW p \in Paths,
             \/ Take(n, p) \/ Probe(n, p) \/ Prune(n, p)
             \/ Step(n) /\ ~(TakeStat(n) /\ Granted(n))
      PROVE  Owner' = Owner
  BY <1>8, OwnersStep, OwnerSame
<1>9. CASE UNCHANGED vars
  <2>1. \A m \in Insts, q \in Paths : Owns(m, q)' <=> Owns(m, q)
    BY <1>9 DEF vars, Owns
  <2> QED
    BY <2>1, OwnerSame
<1>10. CASE Paths = {}
  BY <1>2, <1>10
<1> QED
  BY <1>5, <1>6, <1>7, <1>8, <1>9, <1>10 DEF Next

\* The protocol of opens, flocks, stats, unlinks and closes implements the lease: a
\* transcript passes from one instance to another only through a release or a death.
THEOREM LockImplementsLease == Spec => ImplementsLease
<1>1. Init => Lease!OwnerInit
  BY DEF Init, Owner, Owns, Lease!OwnerInit
<1> QED
  BY <1>1, LeaseStep, IInvStep, Invariance, PTL DEF Spec, ImplementsLease, Lease!LeaseSpec
================================================================================
