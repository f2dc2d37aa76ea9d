# TLA+ models of Brawler

Brawler is a local-first desktop application (Tauri, Rust core under
`src-tauri/src`, SQLite) that collects company reports and market data, extracts
facts from them and keeps a research notebook. Everything that takes time runs
in the background of one process: a durable job queue in SQLite, worker threads
that drain it, a scheduler that re-arms jobs, awaited commands of the window and
of the MCP server that do the same work directly, and a start-up sequence that
repairs what a crash left behind. That background is what these modules model;
the parsing, the arithmetic over facts and the presentation are left out.

File names below are relative to `src-tauri/src`.

## Inventory

| Component | State | Operations | Correct when |
|---|---|---|---|
| Job queue: `storage/jobs.rs`, `jobs/queue.rs`, `jobs/handlers.rs` | `job_queue` rows; per thread the claimed job and its guard | enqueue, re-arm, claim, defer, settle, reclaim | one owner per running row, bounded retries, nothing lost or starved, siblings exclusive |
| Occurrence ledger: `storage/job_runs.rs`, `jobs/activity_reconcile.rs` | `job_runs` rows | begin attempt, settle, prune, interrupt at start | row and ledger agree, an outcome is final, no occurrence stays open without a worker |
| Source lock: `storage/mod.rs` | `sources_in_flight`, in memory | try-acquire, drop | one refresh per source, no leak |
| Failure surface: `jobs/failure_surface.rs`, `storage/attention.rs` | attention events | raise `job_failed` once per job id | a terminal failure is visible |
| Start: `lib.rs` | which lanes run | reclaim, reconcile, interrupt, start lanes, catch-ups | residue of a crash is settled before new work, a failure of one step does not stop the rest |
| KPI ingest runs: `storage/kpi_ingest_*.rs`, `mcp/kpi_ingest*.rs` | run status, lease, generation, staging, commit rows | claim, heartbeat, stage, validate, commit, cancel, reclaim | only the lease holder of the current generation writes, a commit happens once |
| Ingest jobs: `jobs/kpi_ingest_queue.rs` | a job row per generation of a run | arm, validate, commit, hand over, fail, reconcile at start | a late job never touches a later generation, no generation is left without a job |
| Scheduler: `jobs/scheduler.rs` | next-due times in memory | tick: decide, re-arm, publish | no source is refreshed early or dropped |
| Activity: `storage/activity_registry.rs`, `storage/activity_reads.rs`, `commands/activity.rs` | live entries in memory | start, settle, drop, snapshot | an entry is live exactly while its occurrence is open, a failed settle stays visible |
| Autopilot: `jobs/autopilot.rs`, `storage/autopilot.rs`, `commands/autopilot.rs` | runs and stages | create or re-arm, advance, finalize | every run reaches a terminal status, a stage runs once per pass |
| Sweeps and batches: `jobs/history_sweep.rs`, `jobs/pipeline_reextraction.rs`, `jobs/backfill.rs` | a batch row and its job | create with job, run, complete, fail | no batch is active without a job |
| Backup and restore: `storage/backup.rs` | database file, staged file, journal | stage, apply, recover | after any crash one complete database is in place |
| Fact slots: `storage/kpi_extraction.rs`, `storage/fundamentals_provenance.rs`, `storage/financials.rs`, `storage/espi_cover_note_facts.rs`, `jobs/aggregator_fundamentals_pull.rs`, `mcp/acts.rs` | a row of `financial_facts` per slot, its provenance row | record by tier, pull, stamp, act, edit, delete | the better source stands, a manual entry is kept, label and stamp are true of the figure |
| Document capture: `report_documents_capture.rs`, `storage/report_documents.rs`, `storage/report_documents/status.rs`, `report_documents_container.rs` | a row of `report_documents` and the file it names, a lock per document | register, inspect, reset, heal, fetch, publish, record, stamp, sniff at start | the row names bytes that are in its file, a verified document is never given up |
| MCP server: `mcp/lifecycle.rs`, `mcp/server.rs`, `commands/mcp.rs` | handle, parked processors | start, stop | at most one listener, bounded parked threads |

How they meet: producers (scheduler, commands, handlers) write `job_queue` rows;
worker threads claim them, take the source lock, open an occurrence, run the
handler, settle row and occurrence in one transaction and raise the failure
event; awaited commands share the source lock and the ledger with the workers
but not the rows; a start finds the rows, the ledger and the events as the last
process left them and everything in memory empty.

What is hard: producers re-arm a stable id while a worker owns it; every storage
call of a dispatch may fail, be tried again and fail again; a panic anywhere
turns into a settle, and a panic in that settle kills the thread; the process
may die between any two statements; deferral refunds an attempt that a crash
must not; retention deletes from the ledger in the transaction that adds to it.
A row of domain data (an ingest run, a report pipeline, a batch) and the job that
drives it are two tables that agree only by the order of their writes. A restore
replaces the database by file operations a crash may cut anywhere. A captured document
is a row and a file, written one after the other.
`PROJECT.json` lists these hazards with the line where each bites.

## Modules

| Module | What it is |
|---|---|
| `JobQueue` | rows, ledger, dispatch, source lock, failure event, process start, as one state machine |
| `JobContract` | what the queue promises a producer, without threads, ledger or locks |
| `JobQueueContract` | the refinement mapping from `JobQueue` to `JobContract` |
| `MCJobQueue`, `MCJobQueueParts`, `MCJobQueueLanes` | instances for the runs |
| `JobQueueProofs` | types, ownership, retry budget, siblings, ledger, failure events, and that the queue implements `JobContract`: proved |
| `JobQueueHandlers` | the queue with a count of the handlers begun since a job was armed |
| `JobQueueDispatchProofs` | the source lock, and the bound on handlers: proved |
| `KpiIngestRun` | one KPI ingest run: lease, start, staging, drafts, validation, commit, end, process start |
| `KpiIngestContract` | what a run promises an agent, without statuses, drafts or restarts |
| `KpiIngestRunContract` | the refinement mapping from `KpiIngestRun` to `KpiIngestContract` |
| `MCKpiIngestRun`, `MCKpiIngestParts` | instances for the runs |
| `KpiIngestRunProofs` | all its safety properties, and that it implements `KpiIngestContract`: proved |
| `KpiIngestQueue` | the job rows of an ingest run, their handlers and the reconciliation of a start |
| `KpiIngestQueueProofs` | all its safety properties: proved |
| `AutopilotRun`, `MCAutopilotRun` | the report pipeline of one document: stages, triggers, undo, start |
| `BatchJobs` | history sweeps and re-extraction batches with their jobs |
| `RestoreJournal` | the staged restore, file operation by file operation |
| `DocumentCapture` | the capture of one document: its row, its file and the calls that write them |
| `StoredFilesProofs` | all safety properties of `RestoreJournal` and `DocumentCapture`: proved |
| `ActivityRegistry` | awaited work under guards, and the Activity read |
| `Scheduler` | due times, ticks, daily jobs |
| `McpLifecycle` | the MCP server under its settings and its token |
| `FactSlot` | one fact, its label and its witness stamp, under all their writers |
| `FactSlotProofs` | all its safety properties: proved |
| `TrackingProofs` | all safety properties of `ActivityRegistry`, `Scheduler` and `McpLifecycle`: proved |
| `PipelineProofs` | all safety properties of `BatchJobs` and `AutopilotRun`: proved |
| `MCQueueAndTracking`, `MCStoredWork` | several components side by side in one run |

### JobQueue against the code

`row[j]` is the `job_queue` row of job id `j`: status, attempts, and `due` for
"`available_at` has passed". Kind, payload, lane and budget are functions of the
id, as every producer of the code derives them from it. `older` keeps the order
of `available_at` among due rows, the only thing the claim's `ORDER BY` reads.
`open` and `finished` are the `job_runs` rows; `finishes` stands for
`finished_at`. `worker[w]` is where thread `w` is in `dispatch` and
`dispatch_claimed`, with what its `ClaimGuard` holds: job, occurrence, outcome.
`tries` is the second call in `settle_with_recovery`, `arm` says that `dispatch`
is settling after a caught panic.

Every action is one storage call or one lock operation, so that the process can
die, or another thread act, between any two of them:

| Action | Code |
|---|---|
| `Enqueue`, `Reschedule` | `enqueue`, `reschedule` |
| `Claim` | `claim_next_for_kinds`, one `UPDATE ... RETURNING` |
| `AcquireSource` | `try_acquire_source`, or the way to a deferral |
| `BeginAttempt`, `BeginAttemptFails` | identity and `begin_attempt`; a failure defers |
| `RunHandler` | the handler under `catch_unwind`, with any result |
| `Settle`, `SettleFails` | `mark_succeeded_with_run` / `mark_failed_with_run` under `settle_with_recovery` |
| `Defer` | `defer` |
| `Panic`, `PanicAgain` | the `catch_unwind` of `dispatch`, and a panic in its own settle |
| `DropGuard`, `Unwind`, `DropFails` | `ClaimGuard::drop`, on the normal path and while unwinding |
| `TerminalHooks` | `surface_terminal_failure` |
| `OnDemand*`, `Manual*` | the awaited pull under the lock, the manual refresh without it |
| `Crash` | the process dies: memory is gone, rows, ledger and events stay |
| `DeadLetter`, `Requeue`, `ReclaimFails`, `Interrupt` | `reclaim_stale_running` (twice: `lib.rs` before the reconciliation, `spawn_pools` after), `interrupt_open_occurrences` |

`stranded`, `orphans`, `everFailed` and `silent` are history variables: they
record which rows and occurrences lost every chance of recovery to failed storage
calls, which jobs ever failed, and which failure events were lost. Properties read
them; no guard does.

### The contract

`JobContract` has a phase, a spent count and a holder per job. A producer may arm
a job that is not running; somebody takes an armed job, one at a time and never
beside its sibling; whoever holds it lets go with success, a failure that goes
back to waiting while budget is left, a final failure, or a refund; a restart
takes all holders away, after which a held job is given up when its budget is
spent and recovered otherwise. Five short actions are all a producer has to know.
`ImplementsContract` checks that every step of the queue is one of them or
changes nothing the contract speaks of.

### KpiIngestRun against the code

An agent works on a run through MCP tools. It starts or resumes the run, which
claims a lease (`claim_run`), pins the bytes of the document, and stages a
snapshot of observations, in one call or as a draft in chunks. A validation
freezes the snapshot under a manifest or sends it back; a commit writes the facts
of the frozen manifest and leaves a receipt. Validation and commit come from the
tools and from queue jobs. MCP sessions of one credential share one holder name,
so two agents may be the same holder; `Thread` and `Holder` are separate.

`run[r]` is the row of `kpi_ingest_runs`; its lease columns are `holder` and
`live`. A manifest is its revision and its verdict, which stands for outcome and
completeness; equal manifests have equal hashes. A chunk holds one observation.

Every transaction of a store is one step. What a tool call read before its next
transaction is in `call[t]`:

| Action | Code |
|---|---|
| `BeginStartIngest`, `FinishStartIngest` | the two transactions of `start_kpi_ingest`, with `pin_source_blob` between them |
| `StageObservations`, `OpenDraft`, `AppendChunk`, `FinalizeDraft`, `RefuseStaleDraft` | `stage_kpi_observations` in its forms; the last is an append or finalize on a draft of an older lease |
| `ValidateCall`, `SealRun`, `ApplyOutcome` | the caller's check of the revision, the validator's read, `apply_validation_outcome` |
| `CommitReplay`, `CommitCall`, `CommitTx`, `CommitLost` | the receipt fast path, the attempt lookup, the transaction, the race loser |
| `CancelRun`, `MarkFailed`, `InvalidateManifest` | the stores' operations of these names |
| `LeaseExpires` | time |
| `ClaimNext`, `ReleaseLease`, `ReclaimExpiredLeases` | lease operations of the store |
| `CallFails` | a call refused at, or failing in, a later transaction |
| `Crash`, `StartupReclaim`, `StartupReclaimFails` | process death, `reclaim_ingest_runs_on_startup`, which is best-effort |

`claim_next`, `release_lease`, `reclaim_expired_leases`, `invalidate_manifest` and
`mark_failed` are public operations that only tests call at this commit; they are
modelled because the store promises to be safe under them. A heartbeat or a
renewal by the live holder changes nothing, because expiry may come at any moment.
`committing` is entered and left inside one transaction, so no reader sees it and
the branches of the start that repair it are never taken; they are left out.

`pinned`, `acks`, `refused`, `answers` and `written` are history: what callers were
told, and how often facts were written. `from` and `by` in a snapshot and `by` in a
chunk are history too.

### The ingest contract

In `KpiIngestContract` a run is open, frozen, committed or closed. While it is open
it has at most one owner, who puts revisions in; freezing takes it out of the
owner's hands; only a frozen run is committed, under the very manifest it was
frozen with. In the mapping the owner is the holder of a live lease and the
manifest of a committed run is that of its receipt, so the refinement says that
what was committed is what was frozen.

### KpiIngestQueue against the code

A generation of a run is its revision, or its revision and manifest hash once it is
ready, and each has a job row of its own: `genRow`. `tuple` is what this code reads
of the run. The lane has one thread; `hand` is what it is at, with the row it last
read. Agents move the run at any moment, and what the thread read may be stale in
every step.

| Action | Code |
|---|---|
| `AgentStages`, `AgentValidates`, `AgentEnds`, `AgentThaws` | the tools and `invalidate_manifest`; none arms a row |
| `ClaimJob`, `ReadRun`, `SealManifest`, `ApplyVerdict` | claim, `get_run`, the second read in `validate_kpi_ingest_run`, `apply_validation_outcome` |
| `ChainCommit`, `CommitManifest`, `Reread`, `ArmCurrent` | `enqueue_commit`, `commit_manifest`, the read after an error, `arm_current_generation` |
| `SettleJob`, `RaiseEvent`, `TerminalHook` | settle, `surface_terminal_failure`, `on_terminal_failure` |
| `Reclaims`, `ListStaged`, `ListReady`, `ReconcileRow`, `ReconcileLive`, `ReconcileEvent`, `ReconcileMark`, `StartLane` | the start |
| `HandlerFails`, `ReconcileFails`, `Dies` | failed calls, process death |

The run is that of `KpiIngestRun` reduced to five fields, and the rows are those of
`JobQueue` with one owner. `mover`, `lost`, `unheard`, `clash`, `fell` are history.

### AutopilotRun against the code

`report` is the `autopilot_run` row of one document, `stageRow` the queue row of each
stage. A thread loads the run, stamps it, runs the stage, hands on and settles, each
a step. A trigger creates the run (two statements: forget a failed run without
facts, insert), looks at the one it found, re-arms it, enqueues its stage. `MaybeUpgraded` is a new
build that counts a later pipeline version, which makes an ended run a candidate
for re-extraction. `StartsAgain` is the reclaim and
`fail_orphaned_autopilot_runs`, or a start whose reconciliation failed.

A fact is its id. `StoreFact` is one `record_structured_fact` of
`run_structured_extraction`, a transaction of its own; `produced` is what the pass of
a thread has stored so far. The pass ends by listing it on the run, in a read of the
run (`ReadList`, which merges) and a write of the whole list (`WriteList`), or without:
an error of the extraction after any of its facts (`structured_extraction.rs:1331`) is
taken by `stage_extract` (`autopilot.rs:340`) for an unreadable document, and the stage
succeeds (`ExtractionErrs`); a panic, a crash, a failed call or a deleted run cut it off.
What it stored is then `adrift`. An undo reads the list (`undoing`), deletes the facts on
it one by one, passing over what cannot be deleted, and clears whatever list the run has
by then. The id of a deleted fact stays in the lists that hold it and names nothing (`Gone`).

### BatchJobs against the code

`item` is a row of `history_sweeps` or `pipeline_reextraction_batches`, `itemJob` the
queue row under the same id. `Mint` is the one transaction that creates both.
`CallFails` is a storage call that fails or a panic, before or after its UPDATE
landed. `ComesUp` is the reclaim and `fail_orphaned_domain_rows`, which may end
after any part of the orphans.

### RestoreJournal against the code

`live` is the file at the database path: what it is (a whole database, the candidate,
half a copy, an empty file, ...) and which pieces of what the user wrote it has; `wal` is the
pieces in the sidecar. `mine` is what he wrote into the database he is in. When the program
opens the candidate, or the empty database that an emptied file is, he is in another one:
`mine` moves to `before`, and what he writes from then on goes into that one and
restores nothing. `std::fs::copy` is three steps: the destination is empty, partial, whole. `copy` is
the pre-restore copies by age. `restoring` names the place in
`apply_staged_restore_with` and `recover_from_crash_journal`; each has a step that
succeeds and, where the code returns or swallows an error, one that fails.
`Garbled` is a journal that does not parse, which the code expects of file systems
that lie about a completed write.

### ActivityRegistry, Scheduler, McpLifecycle against the code

`ActivityRegistry` has the occurrences of one activity key, the live entries, the
guards of the threads that run awaited work, and a queue job of the same key. The
Activity read goes over its sources one statement at a time while all of them move;
`truth` and `steady` record what was true meanwhile.

`Scheduler` counts time in units. `NextDue` is `compute_schedule`, a function of the
time since the last tick; `Tick` is `run_tick`, with any set of re-arms lost.
`DayFires` and `NextDay` are `fire_daily`. A refresh row is pending, running or
settled.

`McpLifecycle` has the two settings, the token in the keychain, the running server
with the token and port it was started with, processors that sit in a body read and
those parked by a stop. Commands are whole steps: they run on the main thread one
after the other. `Starts` is `ensure_started_with` on a stopped server.

### FactSlot against the code

`fact` is the row in one slot, `prov` its provenance row, and a figure stands for value
and currency. Writers that use a transaction are one step: `RecordStructuredFact`
(filings, batches of an agent, commits of an ingest run) and `RecordAggregatorFacts`.
After its transaction the pull stamps the slots that agree with it, by `pull`.
Two writers work statement by statement on a bare connection, and `scribe` says where
each is: the cover note of the feed and the single-fact act of an agent.

| Action | Code |
|---|---|
| `CoverFinds`, `CoverRanks`, `CoverInserts` | `find_fact_by_slot`, `outranked_stored_tier_of`, `create_financial_fact` in `extract_one` |
| `AgentCreates`, `AgentUpdates` | the reads and the insert of the two handlers in `mcp/acts.rs` |
| `Rewrite`, `SyncMethod`, `CheckMethod`, `WriteLabel` | the update of `update_financial_fact`, the two halves of `write_fact_provenance_fields`, the check and the upsert of `set_fact_provenance` |
| `RecordCorroboration` | `corroborate_fact` after the page's transaction |
| `Cut` | a call that fails or ends between two of these |
| `CreateFact`, `EditFact`, `DeleteFact` | the commands of the window |

`author` and `clean` are history: whose figure it is, and whether another writer's step
came into a call on the slot, a call was cut short, or the user edited a labelled figure.

### DocumentCapture against the code

One document. `row` and `container` are its row of `report_documents`, `file` what
there is at `report_documents/<id>.<ext>` for each extension `determine_extension` may
choose, `lock` the document's entry in `DOC_LOCKS`. A hash stands for the bytes it is of and a
container for the bytes it was read from. `capture[c].at` is where thread `c` stands in
`capture_report_document`, `fetch_report_document` or one turn of
`fetch_pending_attachments`, which do the same after they have the row's id; a storage
call is one step, and so is a file operation.

| Action | Code |
|---|---|
| `Register`, `Begin` | `create_or_find_with_status` from an ingested filing, and before a call takes the lock |
| `TakeLock`, `ReadRow` | `doc_lock`, the row read again under it |
| `Inspect` | `resolve_before_fetch_bounded`, `local_file_matches_row` |
| `Reset`, `ResetDeclined` | `mark_pending_for_refetch` with its compare-and-set, one inspection more when it declines |
| `Heal` | `heal_failed_if_unchanged` |
| `Fetch`, `MarkRowFailed` | the download, `mark_failed` with its guard |
| `Publish`, `FindObstacle`, `ClearResidue`, `PublishAgain` | `publish_no_clobber`: link or rename, a second look at the row, removal of what is in the way, second try |
| `Record`, `Stamp` | `mark_fetched_if_unchanged`, `set_report_document_detected_container` |
| `Fails` | any storage or file operation that ends the call; a panic too, since the next caller takes a poisoned lock |
| `Sniff` | a start: `sniff_missing_containers`, which may fail |
| `RemoveRow`, `DamageFile`, `ProcessDies` | the company is deleted (or the start drops a misassociated document); somebody alters, deletes or obstructs the file; the process ends |

`touched`, `owed` and `meddled` are history: the file was changed from outside since a call
wrote it, the container was not yet written for the row, and row or file were changed from outside
during a call.

## Properties and runs

Of the queue, safety of `Spec`:

- `ExclusiveOwnership`: an armed guard means a running row, and nobody else's.
- `RunningRowIsWorkedOn`: no running row without a thread, except one that every
  recovery failed for.
- `SiblingsNeverBothRun`, `RetryBudget`: as named; the budget counts claims minus
  refunds, over re-arms, reclaims and dead-lettering.
- `OpenRunIsLive`, `SuccessIsRecorded`, `OutcomeIsFinal` (an action property): the
  ledger.
- `HandlerIsBounded` (of `HandlerSpec`): the handler of a job is begun at most `max_attempts`
  times per arming. `RetryBudget` bounds a column, which a deferral lowers; this bounds
  what the column is there for.
- `OneRefreshPerSource`, `NoLeakedLock`: the lock excludes, and does not leak.
- `EventsAreTerminal`, `FailureVisibleUnlessLost`: the event comes with the
  terminal failure, and the only ways to lose it are the four named in the module.
- `ImplementsContract`: refinement.

Liveness, of `FairSpec`: `EveryJobSettles`, a pending job is settled for good
unless it is re-armed for ever, stranded, or its lane is off.

Of an ingest run, all safety:

- `LeaseEndsAtFreeze`: nobody holds a lease from the verdict on.
- `SourceAgreement`: everybody who was told which bytes the run reads was told the
  same.
- `FrozenByLatestVerdict`: the manifest of a frozen run is the newest verdict, on its
  own revision.
- `ReceiptMatchesRun`, `AnswersAreTheReceipt`: facts are written once, for the manifest
  of the run, and every caller got that answer.
- `EndIsFinal` (an action property): nothing moves a run that has ended.
- `OneRunAtATime`: the runs of one document, company and profile follow one another, and
  only the newest can be open.
- `OneOpenDraft`, `SnapshotIsWhatWasAcked`, `SnapshotOfOneHolder`: an assembled snapshot is
  the acknowledged chunks of one holder, each once, without a gap.
- `LiveDraftSurvives` (an action property): a takeover, a release or a restart does not
  cost the holder of a live lease an acknowledged chunk.
- `ImplementsIngestContract`: refinement.

Of the job rows of an ingest run:

- `FailureIsExplained`: the queue fails a run only in the generation whose own job
  failed, and the event is there or could not be written.
- `SingleArmer`: nobody arms a running row.
- `RunIsNotLeftBehind`, `BatonIsPassed`: a run the queue owns has a job, and a job that
  ends well has handed over.
- `GenerationEnds` (liveness): a pending job of the current generation moves the run
  on or fails.

Of the report pipeline:

- `NoRunIsLeftUndriven`: an unfinished run has a live stage job, unless a call failed
  or the last enqueue met the stage still running.
- `FactsAreListed`: every fact a run stored is on the list its undo reverts, or its pass is
  about to put it there. What is excused, fact by fact, is exactly this (`adrift`): the pass
  that stored it erred, panicked or was cut off before the list was written, its read or
  write of the list failed, or the run was gone; or an undo cleared the list with the fact
  on it, which it could not delete or which came after it had read the list. A merge, a
  self-heal, a re-arm, a second extraction or a restart must lose none.
- `RunEnds` (liveness): an unfinished run ends.

Of sweeps and batches: `ActiveIsBacked` (an active row has a live job),
`OneBatchAtATime`, `OneCrashIsResumed` (the second attempt a batch is given),
`EndedRecordStays` (an action property), `BatchEnds` (liveness).

Of the restore: `NothingLost` (all that the user wrote into the database he is in is together in the
database or in one pre-restore copy, and so is all he wrote into each database he was in before),
`OpensWhole`, `SwapIsJournaled`, `RecoveryEnds` (liveness:
every journal is resolved if the program is only started often enough).

Of the activity view: `WorkIsTracked`, `NoGhostEntry` (entry, guard and occurrence
agree however work ends), `ViewIsTrue` (what a read shows was true during it),
`SteadyIsShown` (what does not change during a read is not missed).

Of the scheduler: `NeverHammered` (no source sooner than its interval, whatever the
settings do), `WaitIsBounded` (nor later, but for one interval per lost re-arm).

Of a fact slot: `EverySourceIsLabelled` (a figure of a source is never left without a
label, whichever two calls overlap), `WitnessIsAnother` (the aggregator confirms others
only), `LabelsAreTrue` (without an overlap the label names whose figure it is, and the stamp
agrees with it), `ManualIsKept` (an action property: nothing automatic changes a manual entry).

Of a document capture: `RowIsTrue` (a fetched row names bytes that are in its file, unless
somebody outside changed the file), `ObstacleIsResidue` (from the decision to fetch until the row is
written nobody has a fetched row whose file the publish could take), `ContainerIsTrue` (a container
that was written is that of the stored bytes), and two action properties: `VerifiedIsKept` (no step of the
program touches a verified document) and `AnswersAreTrue` (success means that row, file and
answer agree).

Of the MCP server: `ServesStoredToken`, `DownIsExplained`, and in `McpTypeOK` the bound on
parked processors.

Properties that speak of two sides of one matter are checked together, as a
conjunction of the parts above:

| Checked | Parts |
|---|---|
| `OwnershipIsSound` | `ExclusiveOwnership`, `RunningRowIsWorkedOn`, `SiblingsNeverBothRun` |
| `SourceLockIsSound` | `OneRefreshPerSource`, `NoLeakedLock` |
| `LateJobsDoNoHarm` | `FailureIsExplained`, `SingleArmer` |
| `SlotIsSound` | `EverySourceIsLabelled`, `WitnessIsAnother`, `LabelsAreTrue` |
| `FailureEventsAreExact` | `EventsAreTerminal`, `FailureVisibleUnlessLost` |
| `LedgerIsTrue` | `OpenRunIsLive`, `SuccessIsRecorded` |
| `FreezeIsSound` | `LeaseEndsAtFreeze`, `FrozenByLatestVerdict` |
| `ReceiptIsExact` | `ReceiptMatchesRun`, `AnswersAreTheReceipt` |
| `DraftsAreSound` | `OneOpenDraft`, and `SnapshotIsOneHoldersWork`, which is `SnapshotIsWhatWasAcked` and `SnapshotOfOneHolder` |
| `GenerationIsCovered` | `RunIsNotLeftBehind`, `BatonIsPassed` |
| `BatchesAreSound` | `OneBatchAtATime`, and `BatchIsDriven`, which is `ActiveIsBacked` and `OneCrashIsResumed` |
| `PipelineIsSound` | `NoRunIsLeftUndriven`, `FactsAreListed` |
| `CaptureIsSound` | `RowIsTrue`, `ObstacleIsResidue`, `ContainerIsTrue` |
| `RestoreIsSafe` | `NothingLost`, `SwapIsJournaled`, `OpensWhole` |
| `EntriesAreExact` | `WorkIsTracked`, `NoGhostEntry` |
| `ViewIsFaithful` | `ViewIsTrue`, `SteadyIsShown` |
| `DueTimesAreKept` | `NeverHammered`, `WaitIsBounded` |
| `ServerMatchesSettings` | `ServesStoredToken`, `DownIsExplained` |
| `PartTypeOK` | the type invariants of the components of a run |

| Run | Instance | Question |
|---|---|---|
| `queue_and_tracking` | job and follow-up, 2 threads, 2 failures, panic, crash | who owns a row, how often it is tried, is the contract implemented |
| | 2 guards of a key, a queue job of it, one reader, 2 failures or restarts | is the Activity view true |
| | a feed, or the registry, over two intervals, ticks of 1 or 2 units | are due times kept |
| | 3 tokens, 2 ports, pool of 2, cap of 3 | does the server follow settings and token |
| | a slot, 2 facts one after the other, 3 figures, one call in flight, a call cut short; or two that use no transaction, and 2 figures | does the better source stand, with its label |
| `queue_parts` | 2 jobs on one source, awaited command, at most three of 2 failures, 2 panics, 1 crash | lock and failure events, how often is a handler begun |
| | 1 recorded job, 3 occurrences, at most five of 3 failures, 2 panics, 2 crashes, any retention | do row and ledger agree |
| `queue_lanes` | 1 thread, 2 jobs, one re-armed without bound, manual refreshes | does claim order starve |
| | 2 lanes, one source, partial start, failed settle, panic, crash | does a deferral, a failed settle or the gated lane lose a job |
| `queue_visible` | 1 thread, 2 jobs, crash | counterexample, see Findings |
| `queue_manual` | 1 thread, 2 jobs, 1 source | counterexample, see Findings |
| `ingest_parts` | 1 run, 2 holders, 2 threads, 2 contents of the document, 2 revisions, 2 leases | start, validation, commit, end, and the contract |
| | 2 holders, 2 drafts, 2 chunks, 2 contents, 1 thread | takeovers and restarts in the middle of a draft |
| | 2 runs of one target, 2 holders, 1 thread, 1 revision, 2 leases | can two runs of a target be open |
| `ingest_stale` | 2 holders, 1 draft | counterexample, see Findings |
| `ingest_pinned` | 1 holder, 2 threads, 2 revisions | counterexample, see Findings |
| `stored_work` | 2 revisions, 1 hash, 2 tries, 2 failures or crashes, 1 invalidation | is a generation left behind |
| | 2 rows, 2 threads, 2 failures or crashes | is a sweep or batch left active without a job |
| | 2 pieces of data, 3 copies, 4 crashes or failures | is anything lost in a restore |
| | 2 calls, 1 extension, 2 contents, failures, crashes, deletions and damage without bound | does the row name what is in the file, is a verified document kept, is success true |
| `autopilot_driven` | 3 stages, 1 fact, 1 thread, a failure or crash, undo; or 2 facts, undo and no failure; or 2 threads without | is a run driven, are its facts listed, does it end |
| `cover_note` | a slot, 1 fact, 2 figures | counterexample, see Findings |
| `restore_empty` | 2 pieces of data, 3 copies, 4 crashes or failures | counterexample, see Findings |

A run with several lines checks several instances: a variable (`part`, `focus`) is
chosen in the initial state and never changes, and the variables of the other
instances keep their initial values. The instances share no state, so that their
state spaces add up and do not multiply, and nothing is said about interactions
between them.

### Bounds

`MaxRuns` bounds occurrences and, through the producers' guard, re-arms;
`MaxFaults`, `MaxPanics`, `MaxCrashes` bound failed storage calls, panics and
process deaths. They occur only in guards. Two faults are needed to get past
`settle_with_recovery` and a third to strand the row; one panic to reach the
settle in `dispatch`, a second to kill the thread; one crash to reach every
branch of the start, two to crash during a start. The ledger instance allows three
faults, two panics and two crashes, five in all; instances with more jobs have less of each. The second
instance of `queue_lanes` has one fault, so that a settle that fails twice is left to the safety runs. Two threads and two
jobs are enough for every conflict in the code, all of which are between two rows,
two threads or one thread and one command. `KeptFinished` is the set of sizes a
retention pass may leave: the code's count and age limits are covered by choosing
any of them at each settle.

Two instances of `ingest_parts` have one run: two runs share nothing but the order `claim_next` goes
by and the rule that keeps one of them open per target, which the third checks with two
runs of one target and without drafts; the runs are alike, and `r1` is the one that comes first.
Of the two chunks of a draft one has two contents, which is enough for a conflicting repeat. Two leases
(`MaxAttempt`) make one takeover, which is all an epoch comparison can tell; two
revisions make a moved generation; two threads make every race of two calls; a
snapshot of two chunks can have a gap, a repeat and a conflict. Crashes, expiries
and cancellations are not bounded.

In runs whose instance records no occurrences `nextRun` never advances, so
re-arming is unbounded there, which the first instance of `queue_lanes` needs. Threads of
one lane are alike, and the queue's safety runs use that symmetry.

An autopilot run has two stages less than the code: `diff` and `cross_reference` are run
and handed on alike, so `Middle` is empty in the runs and a run has the stages fetch,
extract and notify, which differ.
`StageTries` is 1 (3 in the code): a retry of a stage is another pass of the same steps, and
the dead letter, which differs, is reached sooner. With one trigger two re-arms from stale reads do
not meet in the run, only one beside the threads and the sweep; the safety proofs are for any number of
triggers, tries and facts. One fact is what a failure can cut off; two are needed for a second pass that has to keep what
the first one listed. Two revisions and one hash of an ingest
run make a stale job, a hand-over and a chained commit. Two rows of `BatchJobs` are the
one in flight and the one that replaces it. Four mishaps of a restore are a failed
operation, a crash in its rollback, one in the recovery, and a damaged journal;
each crash may come at any file operation. Of two pieces of data one may be in a file that lacks the
other, or be written into the database opened in place of the first. The scheduler's due times are bounded by
themselves, its `MaxMissed` keeps the wait of a source that is missed for ever
finite. The cap of the MCP server is smaller than the code's, and the pool is
smaller than the cap as in the code. Of three figures two agree within the tolerance and
one does not; a second fact in the slot is what a stale id can meet.

Two calls are all that can meet at one document, one with the lock and one without;
two contents are one the row names and one it does not. With the one extension of the run a refetch
publishes over the old file; that it may publish beside it is covered by the proofs, which are for any
set of extensions. Nothing is counted in `DocumentCapture`, so failures,
crashes, deletions and damage need no bound.

`CHECK_DEADLOCK FALSE` appears where the queue may really come to rest: all
budgets of the model used up, all rows terminal or stranded, nobody re-arming.

### Fairness

Each thread's `Progress`, the lapse of a back-off, the end of an awaited command
and the start sequence are weakly fair: threads are scheduled by the operating
system, loop for ever with `IDLE_POLL`, and time passes. Weak fairness of
`RunHandler` says that handlers return, which nothing in the code enforces: a
handler that hangs holds its row and its lock until the process ends. Producers,
failures, panics and crashes are not fair. The liveness runs allow at most one
panic: the second one kills a thread for good (the pools do not replace it), and
with it the lane. In the second instance of `queue_lanes` awaited commands are off and re-arming is bounded
through the recorded occurrences: a user who starts them again and again, or a job
on the same source that is re-armed for ever, can starve a deferred job, because
the lock is a try-lock.

Nothing is fair in `KpiIngestRun`: agents come and go. Its properties are safety.

`KpiIngestQueue`: the one thread of the lane goes on (`WorkerSteps`); agents, failures
and crashes need not happen. `BatchJobs`: each thread of the lane goes on.
`AutopilotRun`: a thread in a stage and a trigger that has begun go on (weak fairness).
A pending stage is claimed if it can be again and again, and detection sweeps come
again and again (strong fairness): the claim is oldest-first, and the scheduler
refreshes the sources of an opted-in company for as long as the program runs.
`RunEnds` needs the sweep, which is what picks up a run that was stranded.
`RestoreJournal`: a start goes on, and the user starts a program that is down; without
that a program that failed to start resolves nothing.

## Proofs

`JobQueueProofs` and `JobQueueDispatchProofs` prove, for all values of the constants
that satisfy `JobAssumption`, `SourceAssumption`, `LedgerAssumption`:

| Theorem | Inductive invariant |
|---|---|
| `TypeCorrect` | `TypeInv`: types, and a thread that is not idle or dead has a job |
| `ExclusiveOwnershipHolds`, `RunningRowIsWorkedOnHolds`, and with the siblings `OwnershipIsSoundHolds` | `TypeInv /\ Ownership` |
| `RetryBudgetHolds` | `TypeInv /\ Ownership /\ Budgeted` |
| `SiblingsNeverBothRunHolds` | itself, with `TypeInv` |
| `NoLeakedLockHolds`, `OneRefreshPerSourceHolds` | `TypeInv /\ LockInv` |
| `FailureEventsAreExactHolds` | `TypeInv /\ EventInv` |
| `LedgerIsTrueHolds`, `OutcomeIsFinalHolds` | `TypeInv /\ Ownership /\ LedgerInv` |
| `HandlerIsBoundedHolds` | `TypeInv /\ Ownership /\ HandlerInv` |
| `ImplementsContractHolds` | `TypeInv /\ Ownership /\ Budgeted` |

`ExclusiveOwnership` is not inductive: nothing in it says that a start cannot move a
row from under a thread, or that a thread which has settled has let go.
`Ownership` adds that outside `boot = "up"` no thread is engaged and that a running
row is owned or stranded. `LockInv` says of each thread exactly which lock it
holds at each point, and that a thread whose dispatch panicked holds none: without
the last part the unwinding of the thread could leak a lock as far as the
invariant knows. Each proof of preservation has a step per action.

`HandlerIsBounded` is of `HandlerSpec`, which is the queue with a counter and allows the queue
no step it would not take by itself. What makes it inductive is that a thread on its way to the handler has
an attempt in hand that no handler has used (`Used`): a deferral gives exactly that one back, and
only such a thread defers.

`EventInv` says what `FailureVisibleUnlessLost` says in every phase of a start, not
only once the lanes run, and that a thread at the hooks carries a job that failed.
`LedgerInv` adds to the two ledger properties that ids are used once, which occurrence
each thread has in hand and that it is newer than all its job has settled, that the
attempts of a job are settled in the order they were begun, and what of `OpenRunIsLive`
holds between the interruption of a start and its end. Retention is any newest part of
what is settled; the proof needs that such a part has, with an occurrence, all later
ones (`NewestOf`), and the finite-set theorems for it.

`ImplementsContractHolds` shows that each step of the queue is a step of `JobContract`
on the mapped variables, or leaves them alone. `MappedJob` says what the mapping makes of
a job (its phase from row and owner, its holder from the one guard that is armed for it),
`ContractMoves` that a step on one row changes the contract at one job, and
`ContractLetGo` covers the settle, the deferral, the guard and the unwinding at once,
which are all the same to a producer. The ownership invariant is what makes the
holder unique and the restart find no holders; the budget invariant is what rules out a
claim beyond the budget.

`KpiIngestRunProofs` proves, for all values of the constants that satisfy
`RunAssumption`, `ManifestAssumption` and `IngestBoundAssumption`:

| Theorem | Inductive invariant |
|---|---|
| `TypeCorrect` | `TypeOK` |
| `LeaseEndsAtFreezeHolds`, `FrozenByLatestVerdictHolds`, `ReceiptMatchesRunHolds`, `AnswersAreTheReceiptHolds`, `EndIsFinalHolds` | `TypeOK /\ CommitInv` |
| `OneRunAtATimeHolds` | `TypeOK /\ CommitInv /\ OneRunAtATime` |
| `SourceAgreementHolds` | with `RunInv` |
| `OneOpenDraftHolds`, `SnapshotIsOneHoldersWorkHolds`, together `DraftsAreSoundHolds`; `LiveDraftSurvivesHolds` | with `RunInv /\ DraftInv` |
| `ImplementsIngestContractHolds` | `TypeOK /\ CommitInv /\ RunInv` |

`CommitInv` is the conjunction of the first four properties. Each leans on the others:
a lease can be released or expire without touching a frozen run only because no
frozen run has one; a commit finds no receipt because receipt and status agree, and
what it writes is ready because the row carries the newest ready verdict. A commit
call needs no invariant about the manifest it remembers: `Committable` compares it with
the row in the transaction. Most steps either leave a run alone (`Kept`) or move it
before the verdict (`BeforeVerdict`), and `QuietStep` disposes of both. `EndIsFinal` then holds
because no guard admits an ended run, which has no lease to release. `OneRunAtATime` rests on that:
a step either creates one run, for a target that has no open one, or none (`RunSteps`), and what has
ended stays ended (`FinalStep`), so that what was true of all runs but the newest of a target stays true.

`RunInv` says that a live lease has a holder and that before the capture a run has no
source, nobody was told of one and nothing is staged. `DraftInv` is about drafts, what
was acknowledged and what is staged, and no part of it holds without the rest: chunks and
acknowledgements of a draft that is not deleted agree; of an open draft no epoch is
ahead of its run's, and if it is current and the lease live, all its chunks are the
lease holder's; an installed draft is deleted, so that nothing can be acknowledged into a
snapshot later. What carries these from step to step is one lemma about rows, `Moves`: while a
run stays open for staging its attempt only grows, and a lease of the same attempt
that is live was live before and is the same holder's. That is why comparing epochs
(`load_live_draft_or_supersede`) is enough, and comparing holders is not needed.
`DraftSteps` sorts the actions by what they do to drafts, so that the proof has one lemma
for each way.

The refinement maps the status to a phase, a live lease to an owner and the manifest, or
after the commit the receipt, to a seal. Each action of the code has its lemma: starts open or
take, expiry and release let go, both ways of staging put, a ready verdict freezes,
`invalidate_manifest` thaws, closings shut; the reclaims change nothing, since an
expired lease was let go when it expired. That a commit is of what was frozen is
`FrozenByLatestVerdict`.

`StoredFilesProofs` proves `RestoreTypeOK`, `NothingLost`, `OpensWhole` and
`SwapIsJournaled`, together `RestoreIsSafe`, for all values that satisfy `RestoreAssumption`, from
`RestoreTypeOK /\ NothingLost /\ InOrder /\ OnlyWhole /\ Progressed /\ Repairable`. What has to be added
to the properties is where the process is relative to the files: `InOrder` says
that copies are made one after the other with none missing, `OnlyWhole` that what holds anything of the
user's is a whole database, `Progressed` which places
are reached only without, and which only with a journal, and what the copy of this start
and the database contain at each, and `Repairable` that a journal leads to a whole copy.
The proofs have no bound on data, copies, crashes and failures, nor on how often another database is
opened in place of the user's.

It proves of `DocumentCapture`, for all values that satisfy `CaptureAssumption`, from
`CaptureTypeOK /\ CaptureInv`: `CaptureTypeOK`, `CaptureIsSound` (`RowIsTrue`, `ObstacleIsResidue`,
`ContainerIsTrue`), and the action properties `VerifiedIsKept` and `AnswersAreTrue`, for
any number of calls, contents and extensions. `CaptureInv` has four parts. `OneInside`: who
is past the lock holds it. `RowShape`: which columns a row of each status has.
`Knows`: what a call inside knows of the row at each point, which is where the properties
come from; in particular a call that will reset or heal still has the row it saw, unless the
row was deleted or the file damaged, and from `fetch` on nobody has a fetched row.
`ContainerFits`: which bytes the container may be of while the row is fetched, failed or pending again.
The lock carries all of it: the compare-and-sets of `status.rs` and the second look of
`publish_no_clobber` are never needed between calls that take it, which is what the comments there
say (defence in depth); they matter against a deletion only.

`KpiIngestQueueProofs` proves `GenTypeOK`, `FailureIsExplained`, `SingleArmer`,
`RunIsNotLeftBehind` and `BatonIsPassed` for all values that satisfy `GenAssumption`, from
`GenInv`: any number of revisions, hashes, tries, failures and crashes. The
properties say little of the moments in between: `GenInv` adds that the job in hand
is the only running row, that the thread is between the settle and the hook only
with a failed row, and what the snapshots of a reconciliation have in common with the
run while the lane is not running yet.

`FactSlotProofs` proves `FactTypeOK`, `SlotIsSound` and `ManualIsKept` for all values that
satisfy `FactAssumption`, from `SlotInv`: any figures, any number of facts and of calls cut
short, and every overlap of calls, which the run bounds. The properties speak of the slot
at rest; `SlotInv` says at which statement a call may still be when the slot is of a kind:
`ManualInv` that nobody who will write without asking again stands on a manual entry (a
stale call holds the id of another fact, `IdsAreMade`), `LabelledInv` which of two
overlapping calls will label a figure by its method, `WitnessInv` that no stamp is owed to
the aggregator, `TrueInv` what a call without an overlap has written so far.

`TrackingProofs` holds the proofs of three components, each for all values of its constants:

- `ActivityRegistry` (`RegistryTypesHold`, `EntriesAreExactHolds`, `ViewIsFaithfulHolds`), under
  `RegistryAssumption`, from `RegistryInv`: `GuardsAgree` says what handle, entry and
  occurrence are at each point of a guard, `EntriesAgree` and `RunsAgree` the converse, that
  every entry and every running occurrence belongs to exactly one of guard, job and failed
  settle. For the read, `FoundWasTrue` keeps what was found inside what was true during it,
  and `SteadyIsFound` orders the sources of the read: what stood still and whose source has been read was found.
- `Scheduler` (`SchedTypesHold`, `DueTimesAreKeptHolds`), under `ScheduleAssumption`, from
  `SchedInv`: `SourcesKept` balances, for each source, the time since it last was refreshed, the time
  left and the time waited against its interval, its jitter and the ticks missed. The
  assumption says that the poll interval setting, the default intervals and the jitters
  have a largest value each, as the finite settings and registry of the code have;
  without one the bound on due times (`Latest`) does not exist.
- `McpLifecycle` (`McpTypesHold`, `ServerMatchesSettingsHolds`), under `McpAssumption`, from
  `McpInv`: a server that runs was started below the cap, which `McpTypeOK` needs to bound
  the parked processors by the cap and one pool.

`PipelineProofs` holds the proofs of two:

- `BatchJobs` (`BatchTypesHold`, `BatchIsDrivenHolds`, `OneBatchAtATimeHolds`,
  together `BatchesAreSoundHolds`, and `EndedRecordStaysHolds`), under `BatchAssumption`, from `BatchInv`: `RunnersAgree` says what an
  item's row says while a thread is at each point of it, `TriesAreCounted` that every
  try of a job was a run that succeeded, was cut short or is under way (this is what turns
  "cut short once" into "has a second try left"), `OlderIsRetried` what
  `OneBatchAtATime` says of an older batch beside a later one that is not at work yet.
- `AutopilotRun` (`AutoTypesHold`, `NoRunIsLeftUndrivenHolds`, `FactsAreListedHolds`, together
  `PipelineIsSoundHolds`), under `AutoAssumption`, from `AutoInv`: `RunIsCarried` names who will take an unfinished run
  further at every moment, `NoRunIsLeftUndriven` only speaks of rows at rest. It holds for any
  number of stages between the first and the last, where the run has three stages in all. For the
  facts, `ListsAgree` says who can have stored and not yet listed any: one pass of the extraction,
  which between the read and the write of the list has all that is on it.

Only model-checked: all liveness (`EveryJobSettles`, `GenerationEnds`, `BatchEnds`, `RunEnds`,
`RecoveryEnds`), which is out of the prover's reach. `PartTypeOK` is a name that two run modules
give to the type invariants of their components; each of those is proved where the component is.
The six properties that the code violates are counterexamples and have nothing to prove.

## Findings

- `queue_visible`: `docs/data-model.md` says "A terminal failure is user-visible."
  The dead-letter of a start and a crash between settle and event leave failed
  rows without one.
- `ingest_stale`: `docs/data-model.md` says that the first operation on a draft of an
  older lease, an append or a finalize too, "marks it `superseded`". Both leave the
  transaction with an error after the update, so the mark is rolled back. The answer
  is right each time; the row stays active until an open, a snapshot or a cleanup.
- `ingest_pinned`: `docs/contracts.md` calls `validate_kpi_ingest` "generation-pinned"; the
  revision is checked on one read and judged on another, so a call for revision 1 may
  write the verdict of revision 2 and answer with its hash.
- `restore_empty`: `docs/data-model.md` calls a crash in the swap "resumable on the next
  start" and a rollback that cannot complete fatal. The rollback copies over the database
  with `std::fs::copy`, which truncates first. A crash there leaves an empty file; an
  empty file is an empty database to SQLite and passes `integrity_check`, so the next
  start takes the swap for done, drops the journal and opens an empty database. What the user
  had written is whole in the pre-restore copy (`NothingLost`), which nothing puts back; what he
  writes from then on is in the new database, and no file has both.
- `cover_note`: the module comment of `espi_cover_note_facts.rs` says that "a fact already
  produced by ESEF/structured xHTML is never touched". The cover note reads the tier of the
  slot and writes figure, method and label afterwards, each by a statement of its own and
  without a transaction. A filing that takes the slot over in between is overwritten.
- `queue_manual`: the comment on `sources_in_flight` says "guaranteeing at most one
  touches the *same* source"; the manual refresh takes no lock.

## What the models leave out

- What handlers do. A handler is a step with any result.
- Clock readings. A back-off lapses when it lapses; ties of `available_at` do not
  occur; the wall clock does not go back.
- Rows deleted under a thread: nothing in the program deletes them.
- A panic inside the claim statement: it happens before there is a guard, and the
  row is reclaimed at the next start as after a crash.
- The catch-up enqueues of a start.
- Of an ingest run: which facts a commit writes, what the validator looks at, definition
  proposals, expected-KPI stamps, period rows, cost and progress snapshots, and caps
  on sizes. Scope, quality and period are one context value, set together or not at all.
- Of the ingest jobs: the producer that arms the first validation, which only tests
  call. A validation that judges a later revision than its own chains the commit under
  its own revision; the commit refuses and hands over.
- Of the pipeline: which facts; companies that are not opted in; the sweep's choice of
  reports. A stage checks that its run has not ended before it works and not again
  after, so that it may go on with a run that ended meanwhile; a sweep that finds a
  run waiting for a retry resets its attempts. Both are in the model.
  `docs/data-model.md:1107` calls the list "the `financial_facts` ids this run created, so a
  single "undo this run" reverts exactly those facts", and `docs/contracts.md:808` says that
  the undo "reverts exactly the facts a run produced". That holds up to `adrift`: after an error between two facts
  the run succeeds with facts that no list names, and a later pass finds them there
  and does not list them either. `FactsAreListed` is what does hold; there is no run of its own for the difference.
  A value of a fact that a higher tier takes over is listed like a new one, and an undo deletes it.
  A trigger that re-arms a run while the row of its failed stage is still running arms
  nothing, and the run waits for the next sweep or start (`excuse`).
- Of fact slots: currencies, citations, periods and bases, the siblings a final fact
  supersedes, provenance rows of deleted facts, the retired tiers. An edit by the user
  keeps label and stamp of the figure it replaces, and a stamp that comes late may land
  beside a figure it was not compared with: both are in the model and excused by `clean`.
- Of batches: the counters; the backfill, whose progress is in memory. A failed batch
  that its own retry revives may run beside the one created in its place; a sweep whose
  last call failed keeps an active row until the next start. Both are in the model.
- Of the restore: what a candidate holds (the models count none of it as the user's own, the
  cautious choice for `NothingLost`), rotation of periodic backups, directory syncs, other processes that
  open the database.
- Of document captures: temporary files, sizes and types, who reads the files, batches over several
  documents (a storage error of one ends the batch, and the next batch lists the rest again),
  the restoration of documents by a start (`report_documents_restore.rs`), the repair of incomplete links,
  reclassification, and retention, which only tests call. A row that lost its file keeps the
  extension of the last fetch only: a file under another extension stays behind. A container that could not be
  written after a refetch of other bytes stays that of the old ones: the comment there says that the row stays
  `NULL` and the start repairs it, which is so after a first fetch. `ContainerIsTrue` is what does hold.
- Of the activity view: sections of domain rows and of ingest leases, backfill
  progress, labels. Work that is claimed, begins or ends between two statements of a
  read may be missed by that read.
- Of the scheduler: the effect of a refresh. A source with a daily interval is never
  refreshed by sessions shorter than that, since due times are in memory and the first
  is a full interval after the start; daily jobs fire at every start. A changed poll
  interval applies after the standing due time.
- Of the MCP server: requests, and the acquisition credential. The command `update_settings`
  also takes `mcp_enabled` (`storage/settings.rs:424`) and does not touch the listener; no caller of it is
  modelled, since the window sends only the port, the writes and the KPI gate
  (`useSettingsController.ts`), an import of settings leaves it out and the MCP server does not offer the command. A failed read of the
  settings sets the error of a server that runs; at a start it leaves an enabled
  server down without one.
- The components marked `not_modelled` in `PROJECT.json`, each with its reason: parsing
  of documents, valuation, read models and single-statement stores hold most of the
  lines of this repository and have no interleavings to check; what the models could
  add there is arithmetic that unit tests reach.

## Plan

Done: every component of the table above is model-checked, every safety invariant, action
property and refinement of the runs is proved for all values of the constants.

1. Proofs that would say more than the runs check: that `JobContract` and `KpiIngestContract`
   have the properties their readers rely on.
2. The facts a commit of an ingest run writes, over several slots, with retraction and undo.
3. Attention rules and reminders (`storage/attention.rs`).
