----------------------------- MODULE BatchJobs ------------------------------
(***************************************************************************)
(* The history sweeps and re-extraction batches of one company: a row and  *)
(* a queue row under the same id, created together                         *)
(* (storage/history_sweeps.rs, storage/pipeline_reextraction.rs), the      *)
(* handlers that drive the row (jobs/history_sweep.rs,                     *)
(* jobs/pipeline_reextraction.rs) and the rule of a start for rows that no *)
(* job drives (jobs/activity_reconcile.rs).                                *)
(*                                                                         *)
(* A step is one storage call.  What a batch enqueues is AutopilotRun's.   *)
(* Rows are settled without failures: those are JobQueue's.                *)
(*                                                                         *)
(* D_Bug is D with a plausible bug, as in JobQueue.                        *)
(***************************************************************************)
EXTENDS Naturals

CONSTANTS
  MaxItems,    \* bound: sweeps and batches created
  Runner,      \* threads of the autopilot lane
  MaxBlunders  \* bound: failed calls, panics and crashes

ASSUME BatchAssumption == MaxItems \in Nat \ {0} /\ MaxBlunders \in Nat

VARIABLES
  item,      \* the rows of both tables; an id is its place in creation order
  itemJob,   \* the queue row of the same id
  runner,    \* what a lane thread is at, and its item
  deskUp,    \* the process runs and has finished its start
  blunders,
  \* History variables, read by the properties only.
  hits,      \* how many runs of the item's handler were cut short
  left       \* items whose last run, or whose reconciliation, was cut short

batchVars == <<item, itemJob, runner, deskUp, blunders, hits, left>>

-----------------------------------------------------------------------------
(* Rows. *)

Item == 1..MaxItems
ItemKind == {"sweep", "batch"}

\* HISTORY_SWEEP_MAX_ATTEMPTS, PIPELINE_REEXTRACTION_MAX_ATTEMPTS
Attempts_One(kind) == 1
Attempts(kind) == IF kind = "sweep" THEN 1 ELSE 2

Unmade == [st |-> "absent", kind |-> "sweep"]
ItemRow == [st : {"queued", "running", "completed", "failed"}, kind : ItemKind]
NoJob == [st |-> "missing", tries |-> 0]
ItemJob == [st : {"pending", "running", "succeeded", "failed"}, tries : 0..2]

MadeItems == {i \in Item : item[i].st # "absent"}
ActiveItem(i) == item[i].st \in {"queued", "running"}
EndedItem(i) == item[i].st \in {"completed", "failed"}
Backed(i) == itemJob[i].st \in {"pending", "running"}

Off == [at |-> "idle", item |-> 1]
RunnerAt(w, p) == deskUp /\ runner[w].at = p
RunnerGoes(w, p) == runner' = [runner EXCEPT ![w].at = p]
Put(i, st) == item' = [item EXCEPT ![i].st = st]

Blunder == blunders < MaxBlunders /\ blunders' = blunders + 1
Unhurt == UNCHANGED <<blunders, hits, left>>

-----------------------------------------------------------------------------
(* create_history_sweep_with_job, create_batch_with_job_if_none_active. *)

NextItem == CHOOSE i \in Item \ MadeItems : \A j \in Item \ MadeItems : i <= j

\* A row and its job are inserted in one transaction.
Mint_TwoStatements(kind, base) ==
  /\ MadeItems # Item
  /\ item' = [base EXCEPT ![NextItem] = [st |-> "queued", kind |-> kind]]
  /\ \/ itemJob' = [itemJob EXCEPT ![NextItem] = [st |-> "pending", tries |-> 0]]
     \/ UNCHANGED itemJob
Mint(kind, base) ==
  /\ MadeItems # Item
  /\ item' = [base EXCEPT ![NextItem] = [st |-> "queued", kind |-> kind]]
  /\ itemJob' = [itemJob EXCEPT ![NextItem] = [st |-> "pending", tries |-> 0]]

CreateSweep ==
  /\ deskUp
  /\ Mint("sweep", item)
  /\ UNCHANGED <<runner, deskUp>> /\ Unhurt

\* The newest active batch, as a set of at most one.
NewestActive_Any ==
  LET B == {i \in MadeItems : item[i].kind = "batch"}
  IN  {i \in B : \A j \in B : j <= i}
NewestActive ==
  LET B == {i \in MadeItems : item[i].kind = "batch" /\ ActiveItem(i)}
  IN  {i \in B : \A j \in B : j <= i}

\* An active batch is returned while its job lives, and failed otherwise.
CreateBatch_PendingOnly ==
  /\ deskUp
  /\ \A i \in NewestActive : itemJob[i].st # "pending"
  /\ Mint("batch", [i \in Item |-> IF i \in NewestActive THEN [item[i] EXCEPT !.st = "failed"]
                                                         ELSE item[i]])
  /\ UNCHANGED <<runner, deskUp>> /\ Unhurt
CreateBatch ==
  /\ deskUp
  /\ \A i \in NewestActive : ~Backed(i)
  /\ Mint("batch", [i \in Item |-> IF i \in NewestActive THEN [item[i] EXCEPT !.st = "failed"]
                                                         ELSE item[i]])
  /\ UNCHANGED <<runner, deskUp>> /\ Unhurt

-----------------------------------------------------------------------------
(* run_history_sweep_job, run_pipeline_reextraction_job. *)

ClaimItem(w, i) ==
  /\ RunnerAt(w, "idle")
  /\ itemJob[i].st = "pending"
  /\ itemJob' = [itemJob EXCEPT ![i] = [st |-> "running", tries |-> @.tries + 1]]
  /\ runner' = [runner EXCEPT ![w] = [at |-> "mark", item |-> i]]
  /\ UNCHANGED <<item, deskUp>> /\ Unhurt

\* The row is read, then set running whatever it is.
MarkRunning(w) ==
  /\ RunnerAt(w, "mark")
  /\ Put(runner[w].item, "running")
  /\ RunnerGoes(w, "list")
  /\ UNCHANGED <<itemJob, deskUp>> /\ Unhurt

\* The mode and the candidates are read, each candidate's run is enqueued.
\* A company with the mode off completes its sweep at once.
ListCandidates(w) ==
  /\ RunnerAt(w, "list")
  /\ RunnerGoes(w, "complete")
  /\ UNCHANGED <<item, itemJob, deskUp>> /\ Unhurt

\* The row is failed with the error of the listing, unless that fails too.
ListingFails(w) ==
  /\ RunnerAt(w, "list")
  /\ Blunder
  /\ Put(runner[w].item, "failed")
  /\ RunnerGoes(w, "err")
  /\ UNCHANGED <<itemJob, deskUp, hits, left>>

Complete_Skipped(w) ==
  /\ RunnerAt(w, "complete")
  /\ RunnerGoes(w, "ok")
  /\ UNCHANGED <<item, itemJob, deskUp>> /\ Unhurt
Complete(w) ==
  /\ RunnerAt(w, "complete")
  /\ Put(runner[w].item, "completed")
  /\ RunnerGoes(w, "ok")
  /\ UNCHANGED <<itemJob, deskUp>> /\ Unhurt

\* Any storage call fails or panics, fail_* included; an UPDATE may have
\* landed before the re-read that follows it failed.
CallFails(w) ==
  LET i == runner[w].item IN
  /\ \E p \in {"mark", "list", "complete"} : RunnerAt(w, p)
  /\ Blunder
  /\ \/ UNCHANGED item
     \/ runner[w].at = "mark" /\ Put(i, "running")
     \/ runner[w].at = "complete" /\ Put(i, "completed")
  /\ RunnerGoes(w, "err")
  /\ left' = left \cup {i}
  /\ UNCHANGED <<itemJob, deskUp, hits>>

\* mark_succeeded_with_run, mark_failed_with_run
SettleItem(w) ==
  LET i == runner[w].item
      spent == itemJob[i].tries >= Attempts(item[i].kind)
  IN
  /\ deskUp /\ runner[w].at \in {"ok", "err"}
  /\ itemJob' = [itemJob EXCEPT ![i].st =
       IF runner[w].at = "ok" THEN "succeeded" ELSE IF spent THEN "failed" ELSE "pending"]
  /\ hits' = [hits EXCEPT ![i] = IF runner[w].at = "ok" THEN @ ELSE @ + 1]
  /\ runner' = [runner EXCEPT ![w] = Off]
  /\ UNCHANGED <<item, deskUp, blunders, left>>

-----------------------------------------------------------------------------
(* The process ends and starts. *)

GoesDown ==
  /\ deskUp
  /\ Blunder
  /\ deskUp' = FALSE
  /\ hits' = [i \in Item |-> IF itemJob[i].st = "running" THEN hits[i] + 1 ELSE hits[i]]
  /\ runner' = [w \in Runner |-> Off]
  /\ UNCHANGED <<item, itemJob, left>>

\* reclaim_stale_running
Reclaimed == [i \in Item |->
  IF itemJob[i].st # "running" THEN itemJob[i]
  ELSE [itemJob[i] EXCEPT !.st =
          IF itemJob[i].tries >= Attempts(item[i].kind) THEN "failed" ELSE "pending"]]

\* An active row without a live job is failed.
Orphans_None == {}
Orphans == {i \in Item : ActiveItem(i) /\ Reclaimed[i].st \notin {"pending", "running"}}
FailOrphans(D) == [i \in Item |-> IF i \in D THEN [item[i] EXCEPT !.st = "failed"] ELSE item[i]]

\* reclaim_stale_running, then fail_orphaned_domain_rows row by row; an error
\* ends the pass and the start goes on.
ComesUp ==
  /\ ~deskUp
  /\ itemJob' = Reclaimed
  /\ \/ item' = FailOrphans(Orphans) /\ UNCHANGED <<blunders, left>>
     \/ \E D \in SUBSET Orphans :
          /\ D # Orphans
          /\ Blunder
          /\ item' = FailOrphans(D)
          /\ left' = left \cup (Orphans \ D)
  /\ deskUp' = TRUE
  /\ UNCHANGED <<runner, hits>>

-----------------------------------------------------------------------------
BatchInit ==
  /\ item = [i \in Item |-> Unmade]
  /\ itemJob = [i \in Item |-> NoJob]
  /\ runner = [w \in Runner |-> Off]
  /\ deskUp = TRUE
  /\ blunders = 0
  /\ hits = [i \in Item |-> 0]
  /\ left = {}

\* What a lane thread does without help and without a failure.
RunnerStep(w) ==
  \/ \E i \in Item : ClaimItem(w, i)
  \/ MarkRunning(w) \/ ListCandidates(w) \/ Complete(w) \/ SettleItem(w)

BatchNext ==
  \/ CreateSweep \/ CreateBatch
  \/ \E w \in Runner : RunnerStep(w) \/ ListingFails(w) \/ CallFails(w)
  \/ GoesDown \/ ComesUp

BatchSpec == BatchInit /\ [][BatchNext]_batchVars

-----------------------------------------------------------------------------
(* Properties. *)

\* Types: no job is tried more often than its kind allows, a row exists
\* exactly when its job does, and a thread drives a row whose job runs.
BatchTypeOK ==
  /\ item \in [Item -> ItemRow \cup {Unmade}]
  /\ itemJob \in [Item -> ItemJob \cup {NoJob}]
  /\ \A i \in Item : /\ i \in MadeItems <=> itemJob[i] # NoJob
                     /\ itemJob[i].tries <= Attempts(item[i].kind)
  /\ runner \in [Runner -> [at : {"idle", "mark", "list", "complete", "ok", "err"}, item : Item]]
  /\ \A w \in Runner : runner[w].at # "idle" => itemJob[runner[w].item].st = "running"
  /\ deskUp \in BOOLEAN /\ blunders \in 0..MaxBlunders
  /\ hits \in [Item -> 0..2] /\ left \subseteq Item

\* A row that says queued or running has a job that will drive it, unless a
\* run of it, or the start that should have failed it, was itself cut short
\* by a failed call: an ordinary crash never leaves such a row behind
\* (create_history_sweep_with_job, fail_orphaned_domain_rows).
ActiveIsBacked ==
  deskUp => \A i \in Item : ActiveItem(i) => Backed(i) \/ i \in left

\* Two batches of a company work at once only when the older one had failed
\* and is tried again by its own job: otherwise the check and the creation,
\* being one transaction, return the batch in flight
\* (create_batch_with_job_if_none_active).
OneBatchAtATime ==
  \A i, j \in Item :
    /\ i < j
    /\ {i, j} \subseteq {b \in MadeItems : item[b].kind = "batch" /\ ActiveItem(b) /\ Backed(b)}
    => hits[i] > 0

\* A batch whose handler was cut short once, by a crash in particular, still
\* gets its second attempt; a sweep has none
\* (PIPELINE_REEXTRACTION_MAX_ATTEMPTS).
OneCrashIsResumed ==
  \A i \in Item : item[i].kind = "batch" /\ itemJob[i].st = "failed" => hits[i] >= 2

\* An active row has its job, and the job of a batch the second attempt.
BatchIsDriven == ActiveIsBacked /\ OneCrashIsResumed

\* What is active has a job, and one batch at a time is
\* (history_sweeps, pipeline_reextraction).
BatchesAreSound == BatchIsDriven /\ OneBatchAtATime

\* The record of what a sweep or batch did is final once its job ended: no
\* later sweep, batch or start rewrites it.
EndedRecordStays ==
  [][\A i \in Item : EndedItem(i) /\ ~Backed(i) => item'[i] = item[i]]_batchVars

\* Every sweep and batch ends while the process stays up, unless a failed
\* call cut its last run short.
BatchEnds ==
  \A i \in Item : ActiveItem(i) ~> EndedItem(i) \/ ~deskUp \/ i \in left
=============================================================================
