------------------------------ MODULE SessionLease ------------------------------
(***************************************************************************)
(* What the session lock promises: a transcript is live in one instance at *)
(* a time, from the grant until that instance lets it go or dies.          *)
(***************************************************************************)
CONSTANTS Insts, Paths, NoInst

VARIABLE owner      \* the instance each transcript is live in, or NoInst

OwnerTypeOK == owner \in [Paths -> Insts \cup {NoInst}]

OwnerInit == owner = [p \in Paths |-> NoInst]

\* Another instance may ask as well, and be refused: that changes nothing.
Grant(n, p)   == owner[p] = NoInst /\ owner' = [owner EXCEPT ![p] = n]
Release(n, p) == owner[p] = n /\ owner' = [owner EXCEPT ![p] = NoInst]

\* A process that dies lets go of everything it held.
Die(n) == owner' = [p \in Paths |-> IF owner[p] = n THEN NoInst ELSE owner[p]]

LeaseNext == \E n \in Insts : Die(n) \/ \E p \in Paths : Grant(n, p) \/ Release(n, p)

LeaseSpec == OwnerInit /\ [][LeaseNext]_owner
================================================================================
