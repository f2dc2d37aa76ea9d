---------------------------- MODULE MCStoredWork ----------------------------
(***************************************************************************)
(* Four components that share nothing, in one run: the queue side of an    *)
(* ingest run, the sweeps and batches of a company, a staged restore and   *)
(* the capture of a document.  part is chosen at the start, and the        *)
(* variables of the others keep their initial values.                      *)
(***************************************************************************)
EXTENDS KpiIngestQueue, BatchJobs, RestoreJournal, DocumentCapture

VARIABLE part
partVars == <<part, genVars, batchVars, restoreVars, capVars>>

\* A document that is not being captured is an unknown one.
Unknown == row = NoRow /\ container = "none" /\ file = [e \in Ext |-> "gone"]

PartInit ==
  /\ part \in {"generations", "batches", "restore", "capture"}
  /\ GenInit /\ BatchInit /\ RestoreInit /\ CaptureInit
  /\ part # "capture" => Unknown

PartNext ==
  /\ UNCHANGED part
  /\ \/ part = "generations" /\ GenNext /\ UNCHANGED <<batchVars, restoreVars, capVars>>
     \/ part = "batches" /\ BatchNext /\ UNCHANGED <<genVars, restoreVars, capVars>>
     \/ part = "restore" /\ RestoreNext /\ UNCHANGED <<genVars, batchVars, capVars>>
     \/ part = "capture" /\ CaptureNext /\ UNCHANGED <<genVars, batchVars, restoreVars>>

\* The lane's thread and the batch runners go on; a start goes on, and the user
\* starts a program that is down.  Agents, failures and crashes are not
\* required to happen, and nothing is required of captures.
PartFairness ==
  /\ WF_genVars(part = "generations" /\ WorkerSteps)
  /\ \A w \in Runner : WF_batchVars(part = "batches" /\ RunnerStep(w))
  /\ WF_restoreVars(part = "restore" /\ StartProceeds)

PartSpec == PartInit /\ [][PartNext]_partVars /\ PartFairness

\* The variables of every component keep their types.
PartTypeOK == GenTypeOK /\ BatchTypeOK /\ RestoreTypeOK /\ CaptureTypeOK
=============================================================================
