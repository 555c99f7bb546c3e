------------------------------- MODULE TaskBoard -------------------------------
(***************************************************************************)
(* What the `task` tool promises the model: a numbered task is started,    *)
(* stays open while it runs, at most Limit of them at once, and ends in    *)
(* one final answer or goes away with the conversation that started it.    *)
(***************************************************************************)
EXTENDS Naturals, FiniteSets

CONSTANTS Limit, MaxTasks

VARIABLE task   \* each task number: new, open, gone, or the final answer

Ids     == 1..MaxTasks
Answers == {"reported", "interrupted", "failed", "silence", "cut", "dropped"}
Open    == {i \in Ids : task[i] = "open"}

Init == task = [i \in Ids |-> "new"]

\* Numbers are given out in order and never again.
Start(i) ==
    /\ task[i] = "new" /\ \A j \in 1..(i - 1) : task[j] # "new"
    /\ Cardinality(Open) < Limit
    /\ task' = [task EXCEPT ![i] = "open"]

Settle(i, a) == task[i] = "open" /\ task' = [task EXCEPT ![i] = a]

\* /clear, a rewind, a new session: every open task is forgotten.
Forget == task' = [i \in Ids |-> IF task[i] = "open" THEN "gone" ELSE task[i]]

Next == \/ \E i \in Ids : Start(i) \/ \E a \in Answers : Settle(i, a)
        \/ Forget

Spec == Init /\ [][Next]_task
================================================================================
