------------------------ MODULE KpiIngestRunContract ------------------------
(***************************************************************************)
(* KpiIngestRun implements KpiIngestContract.  The owner is the holder of  *)
(* a live lease: an expired one has been let go, whether or not some later *)
(* statement clears its columns.  A committed run is sealed by its         *)
(* receipt, not by the hash that is still on its row.                      *)
(***************************************************************************)
EXTENDS KpiIngestRun

PhaseOf(r) ==
  CASE run[r].status = "absent" -> "none"
    [] run[r].status = "ready_to_commit" -> "frozen"
    [] run[r].status \in {"complete", "partial"} -> "committed"
    [] run[r].status \in {"failed", "cancelled"} -> "closed"
    [] OTHER -> "open"

SealOf(r) ==
  CASE PhaseOf(r) = "frozen" -> run[r].hash
    [] PhaseOf(r) = "committed" -> receipt[r]
    [] OTHER -> NoManifest

OwnerOf(r) == IF run[r].live THEN run[r].holder ELSE NoHolder
RevisionIn(m) == m.rev

Promise == INSTANCE KpiIngestContract WITH
  phase <- [r \in Run |-> PhaseOf(r)],
  owner <- [r \in Run |-> OwnerOf(r)],
  revision <- [r \in Run |-> run[r].rev],
  seal <- [r \in Run |-> SealOf(r)],
  RevisionOf <- RevisionIn

\* Every step of the run's stores, calls and restarts is one step of the
\* contract or leaves it alone: one owner at a time, only the owner stages,
\* what is committed is what was frozen, and an end is an end.
ImplementsIngestContract == Promise!Contract
=============================================================================
