--------------------------- MODULE MCKpiIngestParts ---------------------------
(***************************************************************************)
(* Three instances of KpiIngestRun in one run, chosen at the start.        *)
(* "life" is a run whose observations come in single calls of one content, *)
(* with two threads, two contents of the document and two revisions;       *)
(* "drafts" is one revision of two chunked drafts, on one thread, where    *)
(* chunk 0 has two contents; "targets" is two runs of one target, one      *)
(* revision each, on one thread.                                           *)
(***************************************************************************)
EXTENDS MCKpiIngestRun

VARIABLE focus

SingleCalls ==
  /\ \A x \in Draft : draft[x].status = "unused"
  /\ \A r \in Run : \A i \in DOMAIN staged[r].chunks : staged[r].chunks[i].payload = p1

\* Of two contents, chunk 1 has the one.
OneConflict ==
  /\ \A x \in Draft : 1 \in DOMAIN draft[x].chunks => draft[x].chunks[1].payload = p1
  /\ \A r \in Run : 1 \in DOMAIN staged[r].chunks => staged[r].chunks[1].payload = p1

OneRevision == call[t2] = Idle /\ \A r \in Run : run[r].rev <= 1 /\ run[r].blob # b2

\* The runs are alike: r1 is the one that comes first.
InFocus ==
  /\ order # <<>> => order[1] = r1
  /\ \/ focus = "life" /\ run[r2].status = "absent" /\ SingleCalls
     \/ focus = "drafts" /\ run[r2].status = "absent" /\ OneConflict /\ OneRevision
     \/ focus = "targets" /\ SingleCalls /\ OneRevision

PartsInit == Init /\ focus \in {"life", "drafts", "targets"}
PartsNext == Next /\ UNCHANGED focus /\ InFocus'
PartsSpec == PartsInit /\ [][PartsNext]_<<ingestVars, focus>>
=============================================================================
