-------------------------- MODULE MCJobQueueLanes --------------------------
(***************************************************************************)
(* Two instances of JobQueue in one run, for the liveness of the queue.    *)
(* "fifo" is the jobs c and d, which compete for one thread; "lanes" is    *)
(* a and b, each with a thread and a lane of its own, the one gated, which *)
(* share the source s.                                                     *)
(***************************************************************************)
EXTENDS MCJobQueue

CONSTANTS c, d, t3
VARIABLE focus

ThreeLanes == [x \in Job \cup Worker |->
  IF x \in {a, t1} THEN "source" ELSE IF x \in {b, t2} THEN "kpi_ingest" ELSE "ai"]
LaneBudgets == [j \in Job |-> IF j \in {a, d} THEN 1 ELSE 2]
LanePairOnSource == [j \in Job |-> IF j \in {a, b} THEN s ELSE NoSource]

Absent(js) == \A j \in js : row[j].status = "absent"
InFocus ==
  \/ focus = "fifo" /\ Absent({a, b})
  \/ focus = "lanes" /\ Absent({c, d}) /\ manual = {}

LanesInit == Init /\ focus \in {"fifo", "lanes"}
LanesNext == Next /\ UNCHANGED focus /\ InFocus'
LanesSpec == LanesInit /\ [][LanesNext]_<<vars, focus>> /\ Fairness
=============================================================================
