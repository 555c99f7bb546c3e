----------------------------- MODULE MCSessionStore -----------------------------
(* Processes are interchangeable, and so are the timestamps transcripts are named after. *)
EXTENDS SessionStore, TLC

Symmetry == Permutations(Insts) \cup Permutations(Paths)
================================================================================
