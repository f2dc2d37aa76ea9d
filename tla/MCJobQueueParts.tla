-------------------------- MODULE MCJobQueueParts --------------------------
(***************************************************************************)
(* Two instances of the counted queue in one run: focus is chosen at the   *)
(* start and only its jobs are ever produced.  "sources" is a and b on the *)
(* source s, two threads and the awaited command; "ledger" is the recorded *)
(* job d, on one thread, with more of the faults.                          *)
(***************************************************************************)
EXTENDS MCJobQueue, JobQueueHandlers

CONSTANT d
VARIABLE focus

\* d has no serialization key.
PairOnSource == [j \in Job |-> IF j = d THEN NoSource ELSE s]

InFocus ==
  \/ /\ focus = "sources"
     /\ row[d].status = "absent"
     /\ faults <= 2 /\ crashes <= 1 /\ faults + panics + crashes <= 3
  \/ /\ focus = "ledger"
     /\ \A j \in {a, b} : row[j].status = "absent"
     /\ worker[t1] = Idle \/ worker[t2] = Idle
     /\ faults + panics + crashes <= 5
     /\ locks[s] = Free

PartsInit == HandlerInit /\ focus \in {"sources", "ledger"}
PartsNext == HandlerNext /\ UNCHANGED focus /\ InFocus'
PartsSpec == PartsInit /\ [][PartsNext]_<<handlerVars, focus>>
=============================================================================
