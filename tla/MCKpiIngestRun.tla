--------------------------- MODULE MCKpiIngestRun ---------------------------
(***************************************************************************)
(* Instances of KpiIngestRun for TLC.                                      *)
(***************************************************************************)
EXTENDS KpiIngestRunContract

CONSTANTS r1, r2, h1, h2, t1, t2, b1, b2, d1, d2, p1, p2, c1, none

\* All runs are for the same document, company and profile.
OneTarget == [r \in Run |-> none]
=============================================================================
