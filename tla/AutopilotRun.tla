---------------------------- MODULE AutopilotRun ----------------------------
(***************************************************************************)
(* The report pipeline of one document (jobs/autopilot.rs): the            *)
(* autopilot_run row, one queue row per stage, the lane's threads that run *)
(* a stage and enqueue the next, and the triggers that create, re-arm and  *)
(* undo the run (commands/autopilot.rs, the detection and history sweeps,  *)
(* the re-extraction batch), over failed storage calls, panics, crashes    *)
(* and the reconciliation of a start (jobs/activity_reconcile.rs).         *)
(*                                                                         *)
(* A step is one storage call; a fact is its id.  Rows are settled without *)
(* failures: those are JobQueue's.                                         *)
(*                                                                         *)
(* D_Bug is D with a plausible bug, as in JobQueue.                        *)
(***************************************************************************)
EXTENDS Naturals

CONSTANTS
  Actor,       \* threads of the autopilot lane
  Trigger,     \* threads that trigger or undo runs
  Fact,        \* ids of the facts a document can yield
  Middle,      \* the stages between extract and notify, which run alike
  StageTries,  \* STAGE_MAX_ATTEMPTS
  MaxSlips     \* bound: failed calls, panics, network errors and crashes

\* What the id of a deleted fact, in a list that still holds it, has become: ids
\* are never used again.
Gone == "gone"

ASSUME AutoAssumption ==
  /\ Gone \notin Fact
  /\ Middle \subseteq {"diff", "cross_reference"}
  /\ StageTries \in Nat \ {0}
  /\ MaxSlips \in Nat

VARIABLES
  report,    \* the autopilot_run row
  stageRow,  \* job_queue, by stage
  appUp,     \* the process runs and has finished its start
  actor,     \* what each lane thread is at, and its stage
  trigger,   \* what each trigger is at, and the stage it will enqueue
  facts,     \* the facts of the document in financial_facts
  produced,  \* the ids a thread's extraction will put on the run's list
  undoing,   \* the ids a trigger's undo has read from the list and not passed
  slips,
  \* History variables, read by the properties only.
  excuse,    \* why the last attempt to enqueue may have armed nothing
  adrift     \* the facts a known accident kept or took off the list

factVars == <<facts, produced, undoing, adrift>>
autoVars == <<report, stageRow, appUp, actor, trigger, factVars, slips, excuse>>

-----------------------------------------------------------------------------
(* Rows. *)

StageRank == [fetch |-> 1, extract |-> 2, diff |-> 3, cross_reference |-> 4, notify |-> 5]
Stage == {"fetch", "extract", "notify"} \cup Middle

NextStage(s) ==
  CHOOSE n \in Stage : /\ StageRank[n] > StageRank[s]
                       /\ \A m \in Stage : StageRank[m] > StageRank[s] => StageRank[m] >= StageRank[n]

FactId == Fact \cup {Gone}

\* old: the verdict on its document is that of an earlier pipeline version;
\* listed: the ids an undo of the run reverts.
Report == [st : {"pending", "running", "succeeded", "failed"}, stage : Stage,
           old : BOOLEAN, listed : SUBSET FactId]
NoReport == [st |-> "absent", stage |-> "fetch", old |-> FALSE, listed |-> {}]
NewReport == [NoReport EXCEPT !.st = "pending"]

Exists == report.st # "absent"
Active == report.st \in {"pending", "running"}

\* An UPDATE of a row that is not there changes nothing.
Updated(r) == IF Exists THEN r ELSE report
Ended(how, s) == Updated([report EXCEPT !.st = how, !.stage = s])

StageJob == [st : {"missing", "pending", "running", "succeeded", "failed"},
             tries : 0..StageTries]
ArmedJob == [st |-> "pending", tries |-> 0]
\* Nobody reads the attempts of a settled row.
SettledJob(how) == [st |-> how, tries |-> 0]
LiveJob(s) == stageRow[s].st \in {"pending", "running"}

\* A failed storage call or a panic.
Slip == slips < MaxSlips /\ slips' = slips + 1 /\ excuse' = "slip"
NoSlip == UNCHANGED <<slips, excuse>>
Settled == UNCHANGED slips /\ excuse' = "none"

Resting == [at |-> "idle", stage |-> "fetch"]
ActorGoes(t, p) == actor' = [actor EXCEPT ![t].at = p]
TriggerGoes(c, p) == trigger' = [trigger EXCEPT ![c].at = p]
TriggerRests(c) == trigger' = [trigger EXCEPT ![c] = Resting]

ActorAt(t, p) == appUp /\ actor[t].at = p
TriggerAt(c, p) == appUp /\ trigger[c].at = p

-----------------------------------------------------------------------------
(* enqueue_stage. *)

\* reschedule leaves a running row alone and resets any other.
Rescheduled_InsertOnly(s) ==
  IF stageRow[s].st = "missing" THEN [stageRow EXCEPT ![s] = ArmedJob] ELSE stageRow
Rescheduled(s) ==
  IF stageRow[s].st = "running" THEN stageRow ELSE [stageRow EXCEPT ![s] = ArmedJob]

EnqueueStage(s) ==
  /\ stageRow' = Rescheduled(s)
  /\ excuse' = IF stageRow[s].st = "running" THEN "met" ELSE "none"
  /\ UNCHANGED slips

-----------------------------------------------------------------------------
(* A thread and its stage: claim_next_for_kinds, run_stage, the settle. *)

ClaimStage(t, s) ==
  /\ ActorAt(t, "idle")
  /\ stageRow[s].st = "pending"
  /\ stageRow' = [stageRow EXCEPT ![s] = [st |-> "running", tries |-> @.tries + 1]]
  /\ actor' = [actor EXCEPT ![t] = [at |-> "load", stage |-> s]]
  /\ NoSlip
  /\ UNCHANGED <<report, appUp, trigger, factVars>>

\* A run that ended does no more work; a run that is gone is an error.
LoadRun(t) ==
  /\ ActorAt(t, "load")
  /\ ActorGoes(t, IF ~Exists THEN "err" ELSE IF Active THEN "stamp" ELSE "ok")
  /\ NoSlip
  /\ UNCHANGED <<report, stageRow, appUp, trigger, factVars>>

StampRun(t) ==
  /\ ActorAt(t, "stamp")
  /\ report' = Updated([report EXCEPT !.st = "running", !.stage = actor[t].stage])
  /\ ActorGoes(t, IF actor[t].stage = "notify" THEN "finish" ELSE "body")
  /\ NoSlip
  /\ UNCHANGED <<stageRow, appUp, trigger, factVars>>

\* Extraction writes the document's facts one transaction each: a new fact, or one
\* that takes over the slot of a fact of a lower tier, which keeps its id.  A fact
\* that is there already changes nothing and is not one the run produced.
StoreFact(t, f) ==
  /\ ActorAt(t, "body") /\ actor[t].stage = "extract"
  /\ f \notin produced[t]
  /\ facts' = facts \cup {f}
  /\ produced' = [produced EXCEPT ![t] = @ \cup {f}]
  /\ NoSlip
  /\ UNCHANGED <<report, stageRow, appUp, actor, trigger, undoing, adrift>>

\* What the pass of a thread stored and nothing lists, once the pass is over.
Lost(t) == (produced[t] \cap facts) \ report.listed

PassIsLost(t) ==
  /\ produced' = [produced EXCEPT ![t] = {}]
  /\ adrift' = adrift \cup Lost(t)
  /\ UNCHANGED <<facts, undoing>>

\* The stage succeeds.
StageSucceeds(t) ==
  /\ ActorAt(t, "body")
  /\ ActorGoes(t, IF actor[t].stage # "extract" THEN "hand"
                  ELSE IF produced[t] # {} THEN "list" ELSE "note")
  /\ NoSlip
  /\ UNCHANGED <<report, stageRow, appUp, trigger, factVars>>

\* An error of the extraction, after any of its facts, is an unreadable document
\* to stage_extract: the stage succeeds and nothing is listed.
ExtractionErrs(t) ==
  /\ ActorAt(t, "body") /\ actor[t].stage = "extract"
  /\ PassIsLost(t)
  /\ ActorGoes(t, "note")
  /\ NoSlip
  /\ UNCHANGED <<report, stageRow, appUp, trigger>>

StageIsFatal(t) ==
  /\ ActorAt(t, "body") /\ actor[t].stage \in {"fetch", "diff", "cross_reference"}
  /\ ActorGoes(t, "fatal")
  /\ NoSlip
  /\ UNCHANGED <<report, stageRow, appUp, trigger, factVars>>

\* A network error: the queue retries, unless this was the last attempt.
LastAttempt(s) == stageRow[s].tries >= StageTries

FetchIsTransient(t) ==
  /\ ActorAt(t, "body") /\ actor[t].stage = "fetch"
  /\ slips < MaxSlips /\ slips' = slips + 1 /\ UNCHANGED excuse
  /\ ActorGoes(t, IF LastAttempt("fetch") THEN "fatal" ELSE "err")
  /\ UNCHANGED <<report, stageRow, appUp, trigger, factVars>>

\* add_produced_facts reads the run, merges its list with the new ids and writes
\* the whole list back.  It fails for a run that is gone when it reads.
Merged_NewOnly(t) == produced[t]
Merged(t) == produced[t] \cup report.listed

ReadList(t) ==
  /\ ActorAt(t, "list")
  /\ \/ /\ Exists
        /\ produced' = [produced EXCEPT ![t] = Merged(t)]
        /\ ActorGoes(t, "listing")
        /\ UNCHANGED <<facts, undoing, adrift>>
     \/ ~Exists /\ PassIsLost(t) /\ ActorGoes(t, "fatal")
  /\ NoSlip
  /\ UNCHANGED <<report, stageRow, appUp, trigger>>

WriteList(t) ==
  /\ ActorAt(t, "listing")
  /\ \/ /\ Exists
        /\ report' = [report EXCEPT !.listed = produced[t]]
        /\ produced' = [produced EXCEPT ![t] = {}]
        /\ adrift' = adrift \ produced[t]
        /\ UNCHANGED <<facts, undoing>>
     \/ ~Exists /\ PassIsLost(t) /\ UNCHANGED report
  /\ ActorGoes(t, "note")
  /\ NoSlip
  /\ UNCHANGED <<stageRow, appUp, trigger>>

\* set_kpi_delta_json stamps the pipeline version; its failure is ignored.
NoteDelta(t) ==
  /\ ActorAt(t, "note")
  /\ \/ report' = Updated([report EXCEPT !.old = FALSE]) /\ NoSlip
     \/ UNCHANGED report /\ Slip
  /\ ActorGoes(t, "hand")
  /\ UNCHANGED <<stageRow, appUp, trigger, factVars>>

HandOn(t) ==
  /\ ActorAt(t, "hand")
  /\ \/ EnqueueStage(NextStage(actor[t].stage)) /\ ActorGoes(t, "ok")
     \/ Slip /\ ActorGoes(t, "unhanded") /\ UNCHANGED stageRow
  /\ UNCHANGED <<report, appUp, trigger, factVars>>

\* The run fails at its stage, or at the one that was not enqueued.  Best effort.
FailRun(t) ==
  /\ \/ /\ ActorAt(t, "fatal")
        /\ report' = Ended("failed", actor[t].stage)
        /\ Settled
     \/ /\ ActorAt(t, "unhanded")
        /\ report' = Ended("failed", NextStage(actor[t].stage))
        /\ Settled
     \/ /\ ActorAt(t, "fatal") \/ ActorAt(t, "unhanded")
        /\ UNCHANGED report
        /\ Slip
  /\ ActorGoes(t, "ok")
  /\ UNCHANGED <<stageRow, appUp, trigger, factVars>>

\* finalize_notify; the row it returns is read back after the write.
FinishRun(t) ==
  /\ ActorAt(t, "finish")
  /\ \/ report' = Ended("succeeded", "notify") /\ Settled
        /\ ActorGoes(t, IF Exists THEN "ok" ELSE "err")
     \/ report' = Ended("succeeded", "notify") /\ Slip /\ ActorGoes(t, "err")
  /\ UNCHANGED <<stageRow, appUp, trigger, factVars>>

\* A failed read or write of the run, or a panic, fails the attempt.
StageSlips(t) ==
  /\ appUp
  /\ actor[t].at \in {"load", "stamp", "body", "list", "listing", "note", "hand", "finish"}
  /\ Slip
  /\ \/ ActorGoes(t, "err")
     \/ actor[t].at \in {"list", "listing"} /\ ActorGoes(t, "fatal")
  /\ PassIsLost(t)
  /\ UNCHANGED <<report, stageRow, appUp, trigger>>

TriesAgain_Always(s) == s \in Stage
TriesAgain(s) == stageRow[s].tries < StageTries

SettleStage(t) ==
  /\ ActorAt(t, "ok") \/ ActorAt(t, "err")
  /\ LET s == actor[t].stage IN
     stageRow' = [stageRow EXCEPT ![s] =
                    IF actor[t].at = "ok" THEN SettledJob("succeeded")
                    ELSE IF TriesAgain(s) THEN [@ EXCEPT !.st = "pending"]
                    ELSE SettledJob("failed")]
  /\ actor' = [actor EXCEPT ![t] = Resting]
  /\ NoSlip
  /\ UNCHANGED <<report, appUp, trigger, factVars>>

-----------------------------------------------------------------------------
(* Triggers. *)

\* create_run_if_absent, first statement: a failed run without facts goes.
SelfHeals_AnyFailed == report.st = "failed"
SelfHeals == report.st = "failed" /\ report.listed = {}

ForgetFailed(c, p) ==
  /\ TriggerAt(c, "idle")
  /\ report' = IF SelfHeals THEN NoReport ELSE report
  /\ TriggerGoes(c, p)
  /\ NoSlip
  /\ UNCHANGED <<stageRow, appUp, actor, factVars>>

BeginManual(c) == ForgetFailed(c, "insert manual")
BeginSweep(c) == ForgetFailed(c, "insert")

\* Second statement.  The inserted row is read back, which may fail; a row
\* that was there stops a manual trigger and is looked at by a sweep.
InsertRun(c) ==
  /\ TriggerAt(c, "insert") \/ TriggerAt(c, "insert manual")
  /\ \/ ~Exists /\ report' = NewReport /\ TriggerGoes(c, "arm") /\ NoSlip
     \/ ~Exists /\ report' = NewReport /\ TriggerRests(c) /\ Slip
     \/ /\ Exists /\ UNCHANGED report /\ NoSlip
        /\ IF trigger[c].at = "insert" THEN TriggerGoes(c, "look") ELSE TriggerRests(c)
  /\ UNCHANGED <<stageRow, appUp, actor, factVars>>

\* The rest of enqueue_extraction_run: an active run gets its stage enqueued
\* again, a gap of an older pipeline version is tried once more.
LookAtActive_Dedup == FALSE
LookAtActive == Active

LookAtRun(c) ==
  /\ TriggerAt(c, "look")
  /\ \/ LookAtActive /\ trigger' = [trigger EXCEPT ![c] = [at |-> "arm", stage |-> report.stage]]
     \/ report.st = "succeeded" /\ report.old /\ TriggerGoes(c, "rearm")
     \/ ~LookAtActive /\ TriggerRests(c)
  /\ NoSlip
  /\ UNCHANGED <<report, stageRow, appUp, actor, factVars>>

\* run_pipeline_reextraction_job lists the runs whose facts an older version emitted.
BeginReextraction(c) ==
  /\ TriggerAt(c, "idle")
  /\ report.st = "succeeded" /\ report.old
  /\ TriggerGoes(c, "rearm")
  /\ NoSlip
  /\ UNCHANGED <<report, stageRow, appUp, actor, factVars>>

\* rearm_run, whatever the run has become since it was looked at.
RearmRun(c) ==
  /\ TriggerAt(c, "rearm")
  /\ report' = Updated([report EXCEPT !.st = "pending", !.stage = "fetch"])
  /\ TriggerGoes(c, "arm")
  /\ NoSlip
  /\ UNCHANGED <<stageRow, appUp, actor, factVars>>

ArmStage(c) ==
  /\ TriggerAt(c, "arm")
  /\ \/ EnqueueStage(trigger[c].stage) /\ TriggerRests(c)
     \/ Slip /\ TriggerGoes(c, "unarmed") /\ UNCHANGED stageRow
  /\ UNCHANGED <<report, appUp, actor, factVars>>

\* fail_run_stage_enqueue.
FailUnarmed(c) ==
  /\ TriggerAt(c, "unarmed")
  /\ \/ report' = Ended("failed", trigger[c].stage) /\ Settled
     \/ UNCHANGED report /\ Slip
  /\ TriggerRests(c)
  /\ UNCHANGED <<stageRow, appUp, actor, factVars>>

\* undo_autopilot_run: read the list, delete the facts on it one by one, clear
\* the list, whatever it has become.
BeginUndo(c) ==
  /\ TriggerAt(c, "idle")
  /\ Exists
  /\ undoing' = [undoing EXCEPT ![c] = report.listed]
  /\ TriggerGoes(c, "revert")
  /\ NoSlip
  /\ UNCHANGED <<report, stageRow, appUp, actor, facts, produced, adrift>>

Erased(ids, f) == IF f \in ids THEN (ids \ {f}) \cup {Gone} ELSE ids

\* A fact that cannot be deleted is passed over.
RevertFact(c, f) ==
  /\ TriggerAt(c, "revert")
  /\ f \in undoing[c]
  /\ \/ /\ facts' = facts \ {f} /\ adrift' = adrift \ {f}
        /\ report' = [report EXCEPT !.listed = Erased(@, f)]
        /\ produced' = [t \in Actor |-> Erased(produced[t], f)]
        /\ undoing' = [d \in Trigger |-> Erased(undoing[d], f)]
        /\ NoSlip
     \/ /\ undoing' = [undoing EXCEPT ![c] = @ \ {f}]
        /\ UNCHANGED <<report, facts, produced, adrift>>
        /\ Slip
  /\ UNCHANGED <<stageRow, appUp, actor, trigger>>

ClearList(c) ==
  /\ TriggerAt(c, "revert")
  /\ undoing[c] \cap Fact = {}
  /\ report' = Updated([report EXCEPT !.listed = {}])
  /\ adrift' = adrift \cup (report.listed \cap facts)
  /\ undoing' = [undoing EXCEPT ![c] = {}]
  /\ TriggerRests(c)
  /\ NoSlip
  /\ UNCHANGED <<stageRow, appUp, actor, facts, produced>>

\* Any other failed call of a trigger ends it.
TriggerSlips(c) ==
  /\ appUp
  /\ trigger[c].at \in {"insert", "insert manual", "look", "rearm", "revert"}
  /\ undoing[c] \cap Fact = {}
  /\ Slip
  /\ undoing' = [undoing EXCEPT ![c] = {}]
  /\ TriggerRests(c)
  /\ UNCHANGED <<report, stageRow, appUp, actor, facts, produced, adrift>>

-----------------------------------------------------------------------------
(* The process ends at any moment, and starts again. *)

Stops ==
  /\ appUp /\ slips < MaxSlips
  /\ slips' = slips + 1
  /\ appUp' = FALSE
  /\ adrift' = adrift \cup UNION {Lost(t) : t \in Actor}
  /\ produced' = [t \in Actor |-> {}]
  /\ undoing' = [c \in Trigger |-> {}]
  /\ actor' = [t \in Actor |-> Resting]
  /\ trigger' = [c \in Trigger |-> Resting]
  /\ UNCHANGED <<report, stageRow, facts, excuse>>

\* reclaim_stale_running.
ReclaimedJobs ==
  [s \in Stage |->
     IF stageRow[s].st # "running" THEN stageRow[s]
     ELSE IF stageRow[s].tries >= StageTries THEN SettledJob("failed")
     ELSE [stageRow[s] EXCEPT !.st = "pending"]]

\* A new build may count a later pipeline version.
MaybeUpgraded == {report, Updated([report EXCEPT !.old = TRUE])}

\* fail_orphaned_autopilot_runs, after the reclaim and before any lane: a run
\* with no live stage job fails with its dead-lettered stage or has it enqueued.
OrphanFails(jobs) == jobs[report.stage].st = "failed"
ReconcileRun(jobs, r) ==
  LET orphan == Active /\ \A s \in Stage : jobs[s].st \notin {"pending", "running"} IN
  CASE orphan /\ OrphanFails(jobs) ->
         stageRow' = jobs /\ report' = [r EXCEPT !.st = "failed"] /\ UNCHANGED excuse
    [] orphan /\ ~OrphanFails(jobs) ->
         /\ stageRow' = [jobs EXCEPT ![report.stage] = ArmedJob]
         /\ report' = r
         /\ excuse' = "none"
    [] OTHER -> stageRow' = jobs /\ report' = r /\ UNCHANGED excuse

StartsAgain ==
  /\ ~appUp
  /\ appUp' = TRUE
  /\ \E r \in MaybeUpgraded :
       \/ ReconcileRun(ReclaimedJobs, r) /\ UNCHANGED slips
       \/ Slip /\ report' = r /\ stageRow' \in {stageRow, ReclaimedJobs}
  /\ UNCHANGED <<actor, trigger, factVars>>

-----------------------------------------------------------------------------
AutoInit ==
  /\ report = NoReport
  /\ stageRow = [s \in Stage |-> [st |-> "missing", tries |-> 0]]
  /\ appUp = TRUE
  /\ actor = [t \in Actor |-> Resting]
  /\ trigger = [c \in Trigger |-> Resting]
  /\ facts = {} /\ adrift = {}
  /\ produced = [t \in Actor |-> {}]
  /\ undoing = [c \in Trigger |-> {}]
  /\ slips = 0
  /\ excuse = "none"

RunsStage(t) ==
  \/ LoadRun(t) \/ StampRun(t)
  \/ StageSucceeds(t) \/ StageIsFatal(t) \/ FetchIsTransient(t)
  \/ (\E f \in Fact : StoreFact(t, f)) \/ ExtractionErrs(t)
  \/ ReadList(t) \/ WriteList(t) \/ NoteDelta(t) \/ HandOn(t) \/ FailRun(t) \/ FinishRun(t)
  \/ StageSlips(t) \/ SettleStage(t)

ActorStep(t) == RunsStage(t) \/ \E s \in Stage : ClaimStage(t, s)

TriggerProceeds(c) ==
  \/ InsertRun(c) \/ LookAtRun(c) \/ RearmRun(c) \/ ArmStage(c) \/ FailUnarmed(c)
  \/ (\E f \in Fact : RevertFact(c, f)) \/ ClearList(c) \/ TriggerSlips(c)

TriggerStep(c) ==
  \/ BeginManual(c) \/ BeginSweep(c) \/ BeginReextraction(c) \/ BeginUndo(c)
  \/ TriggerProceeds(c)

AutoNext ==
  \/ \E t \in Actor : ActorStep(t)
  \/ \E c \in Trigger : TriggerStep(c)
  \/ Stops \/ StartsAgain

AutoSpec == AutoInit /\ [][AutoNext]_autoVars

-----------------------------------------------------------------------------
(* Properties. *)

\* The rows and threads are well formed; no stage is tried more than
\* STAGE_MAX_ATTEMPTS times since it was last enqueued.
AutoTypeOK ==
  /\ report \in Report \cup {NoReport}
  /\ stageRow \in [Stage -> StageJob]
  /\ appUp \in BOOLEAN
  /\ actor \in [Actor -> [at : {"idle", "load", "stamp", "body", "list", "listing",
                                "note", "hand", "unhanded", "fatal", "finish",
                                "ok", "err"}, stage : Stage]]
  /\ trigger \in [Trigger -> [at : {"idle", "insert", "insert manual", "look", "rearm",
                                    "arm", "unarmed", "revert"}, stage : Stage]]
  /\ facts \in SUBSET Fact /\ adrift \in SUBSET Fact
  /\ produced \in [Actor -> SUBSET FactId]
  /\ undoing \in [Trigger -> SUBSET FactId]
  /\ slips \in 0..MaxSlips
  /\ excuse \in {"none", "met", "slip"}

\* A queue row will run a stage of the run, or somebody is about to enqueue one.
Driven ==
  \/ \E s \in Stage : LiveJob(s)
  \/ \E c \in Trigger : trigger[c].at \in {"arm", "unarmed"}

\* While the process runs, an unfinished run is being driven, whatever threads,
\* triggers, undos and restarts did to it - unless a storage call or a handler
\* failed, or the last enqueue of a stage met that stage's row still running.
\* (run_stage, enqueue_stage, fail_orphaned_autopilot_runs.)
NoRunIsLeftUndriven == appUp /\ Active /\ ~Driven => excuse # "none"

\* Every fact a run stored is on the list its undo reverts, or a pass is still
\* about to put it there - unless the pass that stored it is known to have ended
\* before it could (an error, a panic, a crash, a run that is gone) or an undo
\* cleared the list with the fact on it: no merge, self-heal, re-arm, second
\* extraction or restart forgets facts.
\* (add_produced_facts, create_run_if_absent, rearm_run, undo_autopilot_run.)
FactsAreListed ==
  \A f \in facts : \/ f \in report.listed \cup adrift
                   \/ \E t \in Actor : /\ actor[t].at \in {"body", "list", "listing"}
                                       /\ f \in produced[t]

\* A run loses neither its way nor its facts (autopilot).
PipelineIsSound == NoRunIsLeftUndriven /\ FactsAreListed

\* As long as the source refreshes sweep for the document, an unfinished run
\* ends, or the process does.  (run_detection_sweep re-arms an active run.)
RunEnds == Active ~> ~Active \/ ~appUp
=============================================================================
