------------------------------ MODULE MCSessionLock ------------------------------
(* Processes and inodes are interchangeable: no operator tells one from another. *)
EXTENDS SessionLock, TLC

Symmetry == Permutations(Insts) \cup Permutations(Inodes)
================================================================================
