------------------------- MODULE JobQueueContract -------------------------
(* The durable queue implements its contract: a running row is held by the *)
(* thread whose guard is armed on it, and orphaned when there is none.     *)
EXTENDS JobQueue

Holders(j) == {w \in Worker : Owns(w, j)}

phaseOf == [j \in Job |->
  CASE row[j].status = "absent"    -> "none"
    [] row[j].status = "pending"   -> "queued"
    [] row[j].status = "running"   -> IF Holders(j) = {} THEN "orphaned" ELSE "held"
    [] row[j].status = "succeeded" -> "done"
    [] row[j].status = "failed"    -> "dead"]

spentOf == [j \in Job |-> row[j].attempts]

holderOf == [j \in Job |->
  IF Running(j) /\ Holders(j) # {} THEN CHOOSE w \in Worker : Owns(w, j) ELSE Free]

Contract == INSTANCE JobContract
  WITH Nobody <- Free, Limit <- [j \in Job |-> Budget(j)], Exclusive <- Followup,
       phase <- phaseOf, spent <- spentOf, holder <- holderOf

\* Every step of the queue, with its storage failures, panics, crashes and the
\* partial starts after them, is a step of the contract or changes nothing in it.
ImplementsContract == Contract!Spec

=============================================================================
