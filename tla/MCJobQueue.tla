---------------------------- MODULE MCJobQueue ----------------------------
(***************************************************************************)
(* Instances of JobQueue for TLC: jobs a, b, threads t1, t2, source s.    *)
(***************************************************************************)
EXTENDS JobQueueContract, TLC

CONSTANTS a, b, t1, t2, s

Budgets12 == [j \in Job |-> IF j = a THEN 1 ELSE 2]
Budgets21 == [j \in Job |-> IF j = a THEN 2 ELSE 1]

\* One lane with two threads.
OneLane == [x \in Job \cup Worker |-> "ai"]
\* b is the parked follow-up of a.
Pair == {<<a, b>>}

\* Threads of one lane are alike.
Threads == Permutations({t1, t2})

SameSource == [j \in Job |-> s]
NoSources == [j \in Job |-> NoSource]
=============================================================================
