---------------------------- MODULE KpiIngestQueue ----------------------------
(***************************************************************************)
(* The queue side of one KPI ingest run (jobs/kpi_ingest_queue.rs): a job  *)
(* row per generation of work, the handlers that validate and commit, the  *)
(* hook that fails the run of an exhausted job, and the reconciliation of  *)
(* a start.  Agents move the same run through tools at any moment.         *)
(*                                                                         *)
(* The rows are those of JobQueue and the run that of KpiIngestRun, both   *)
(* reduced to what this module's code reads.  The kpi_ingest lane has one  *)
(* thread (jobs/handlers.rs), which also starts the process here.  A step  *)
(* is one storage call; arm reads a row and resets it in two, but nobody   *)
(* else writes rows of the run between them.                               *)
(*                                                                         *)
(* D_Bug is D with a plausible bug, as in JobQueue.                        *)
(***************************************************************************)
EXTENDS Naturals

CONSTANTS
  Hash,         \* manifest hashes
  NoHash,
  MaxRev,       \* bound: revisions
  MaxTries,     \* MAX_ATTEMPTS
  MaxTroubles,  \* bound: crashes and failed storage calls
  MaxThaws      \* bound: invalidated manifests

ASSUME GenAssumption ==
  /\ NoHash \notin Hash
  /\ MaxRev \in Nat \ {0} /\ MaxTries \in Nat \ {0}
  /\ MaxTroubles \in Nat /\ MaxThaws \in Nat

VARIABLES
  tuple,     \* status, revision and hash of the run
  genRow,    \* job_queue, by generation
  lane,      \* the start's progress, then whether the lane runs
  listed,    \* the snapshots the reconciliation has still to look at
  hand,      \* what the one thread is at
  raised,    \* generations with a job_failed event
  troubles, thaws,
  \* History variables, read by the properties only.
  mover,     \* who made the tuple what it is, since the last start
  lost,      \* a job failed for good since the last start
  unheard,   \* generations whose event could not be written
  clash,     \* somebody armed a running row
  fell       \* the generation the queue failed the run in

genVars == <<tuple, genRow, lane, listed, hand, raised, troubles, thaws,
             mover, lost, unheard, clash, fell>>

-----------------------------------------------------------------------------
(* Generations. *)

Tuple == [st : {"agent", "staged", "ready", "committed", "failed", "cancelled"},
          rev : 0..MaxRev, hash : Hash \cup {NoHash}]

\* validate_job_id has no hash, commit_job_id has one.
Gen == [rev : 1..MaxRev, hash : Hash \cup {NoHash}]
NoGen == [rev |-> 0, hash |-> NoHash]
Validates(g) == g.hash = NoHash

QueueOwned(t) == t.st \in {"staged", "ready"}
Unended(t) == t.st \in {"agent", "staged", "ready"}
GenOf(t) == [rev |-> t.rev, hash |-> t.hash]
Owns(g, t) == QueueOwned(t) /\ GenOf(t) = g

Row == [st : {"missing", "pending", "running", "succeeded", "failed"}, tries : 0..MaxTries]
Fresh == [st |-> "pending", tries |-> 0]

Busy == {"read", "seal", "apply", "chain", "commit", "reread", "arm", "ok", "err",
         "event", "hook", "look", "live", "tell", "mark"}
Free == [at |-> "idle", job |-> NoGen, seen |-> [st |-> "agent", rev |-> 0, hash |-> NoHash]]
Hand == [at : Busy \cup {"idle"}, job : Gen \cup {NoGen}, seen : Tuple]

Trouble == troubles < MaxTroubles /\ troubles' = troubles + 1

At(p) == hand.at = p /\ lane = "on"
Go(p) == hand' = [hand EXCEPT !.at = p]

-----------------------------------------------------------------------------
(* Agents, through stage_kpi_observations, validate_kpi_ingest, commit_kpi_   *)
(* ingest, cancel and invalidate.  None of them arms a row.                   *)

AgentMoves(t) ==
  /\ lane # "down"
  /\ tuple' = t
  /\ mover' = "agent"
  /\ UNCHANGED <<genRow, lane, listed, hand, raised, troubles, lost, unheard, clash, fell>>

AgentStages ==
  /\ tuple.st = "agent" /\ tuple.rev < MaxRev
  /\ AgentMoves([st |-> "staged", rev |-> tuple.rev + 1, hash |-> NoHash])
  /\ UNCHANGED thaws

\* mark_ready_to_commit or mark_validation_failed.
Outcomes(t) ==
  {[t EXCEPT !.st = "agent"]} \cup {[t EXCEPT !.st = "ready", !.hash = h] : h \in Hash}

AgentValidates ==
  /\ tuple.st = "staged"
  /\ \E t \in Outcomes(tuple) : AgentMoves(t)
  /\ UNCHANGED thaws

AgentEnds ==
  /\ \/ tuple.st = "ready" /\ AgentMoves([tuple EXCEPT !.st = "committed"])
     \/ Unended(tuple) /\ AgentMoves([tuple EXCEPT !.st = "cancelled"])
  /\ UNCHANGED thaws

AgentThaws ==
  /\ thaws < MaxThaws
  /\ tuple.st = "ready"
  /\ AgentMoves([tuple EXCEPT !.st = "staged", !.hash = NoHash])
  /\ thaws' = thaws + 1

-----------------------------------------------------------------------------
(* Arming. *)

\* A pending row is armed already, a running one is the violation of the
\* single-armer invariant and an error, any other is rescheduled.
Arms(g) ==
  /\ genRow' = IF genRow[g].st \in {"pending", "running"} THEN genRow
               ELSE [genRow EXCEPT ![g] = Fresh]
  /\ clash' = (clash \/ genRow[g].st = "running")

ArmSucceeds(g) == genRow[g].st # "running"

\* Whoever arms the generation of the tuple makes it the queue's business.
Adopted(g) == IF Owns(g, tuple) THEN "queue" ELSE mover

-----------------------------------------------------------------------------
(* The thread. *)

ClaimJob(g) ==
  /\ lane = "on" /\ hand = Free
  /\ genRow[g].st = "pending"
  /\ genRow' = [genRow EXCEPT ![g] = [st |-> "running", tries |-> @.tries + 1]]
  /\ hand' = [Free EXCEPT !.at = "read", !.job = g]
  /\ UNCHANGED <<tuple, lane, listed, raised, troubles, thaws, mover, lost, unheard, clash, fell>>

Thinks == UNCHANGED <<tuple, genRow, lane, listed, raised, troubles, thaws, mover,
                      lost, unheard, clash, fell>>

\* get_run.  A validation whose generation is gone hands over; a commit is tried
\* in any case, commit_manifest being the judge.
ReadRun ==
  /\ At("read")
  /\ hand' = IF ~Validates(hand.job) THEN [hand EXCEPT !.at = "commit"]
             ELSE IF Owns(hand.job, tuple) THEN [hand EXCEPT !.at = "seal"]
             ELSE [hand EXCEPT !.at = "arm", !.seen = tuple]
  /\ Thinks

\* validate_kpi_ingest_run reads the run again, whatever its revision is now.
SealManifest ==
  /\ At("seal")
  /\ IF tuple.st = "staged" THEN hand' = [hand EXCEPT !.at = "apply", !.seen = tuple]
     ELSE Go("reread")
  /\ Thinks

\* apply_validation_outcome, on the revision that was sealed; a failed outcome
\* sends the run back to the agent and is a success of the job.
ApplyVerdict ==
  /\ At("apply")
  /\ IF tuple = hand.seen
     THEN \E t \in Outcomes(tuple) :
            /\ tuple' = t
            /\ mover' = "queue"
            /\ hand' = [hand EXCEPT !.at = IF t.st = "ready" THEN "chain" ELSE "ok", !.seen = t]
     ELSE Go("reread") /\ UNCHANGED <<tuple, mover>>
  /\ UNCHANGED <<genRow, lane, listed, raised, troubles, thaws, lost, unheard, clash, fell>>

\* enqueue_commit with the payload's revision and the hash just frozen.
ChainCommit_Dropped == At("chain") /\ Go("ok") /\ Thinks
ChainCommit ==
  LET g == [rev |-> hand.job.rev, hash |-> hand.seen.hash] IN
  /\ At("chain")
  /\ Arms(g)
  /\ mover' = Adopted(g)
  /\ Go(IF ArmSucceeds(g) THEN "ok" ELSE "err")
  /\ UNCHANGED <<tuple, lane, listed, raised, troubles, thaws, lost, unheard, fell>>

\* commit_manifest: commits its tuple, answers for a tuple it committed before,
\* and refuses any other.
CommitManifest ==
  LET mine == GenOf(tuple) = hand.job IN
  /\ At("commit")
  /\ tuple' = IF tuple.st = "ready" /\ mine THEN [tuple EXCEPT !.st = "committed"] ELSE tuple
  /\ Go(IF tuple.st \in {"ready", "committed"} /\ mine THEN "ok" ELSE "reread")
  /\ UNCHANGED <<genRow, lane, listed, raised, troubles, thaws, mover, lost, unheard, clash, fell>>

\* After an error: still this generation, then it is a failure of the job.
Reread_Swallows ==
  /\ At("reread")
  /\ hand' = IF Owns(hand.job, tuple) THEN [hand EXCEPT !.at = "ok"]
             ELSE [hand EXCEPT !.at = "arm", !.seen = tuple]
  /\ Thinks
Reread ==
  /\ At("reread")
  /\ hand' = IF Owns(hand.job, tuple) THEN [hand EXCEPT !.at = "err"]
             ELSE [hand EXCEPT !.at = "arm", !.seen = tuple]
  /\ Thinks

\* arm_current_generation, from the row that was read.
ArmCurrent_NoBaton == At("arm") /\ Go("ok") /\ Thinks
ArmCurrent_Own ==
  /\ At("arm")
  /\ Arms(hand.job)
  /\ mover' = mover
  /\ Go("ok")
  /\ UNCHANGED <<tuple, lane, listed, raised, troubles, thaws, lost, unheard, fell>>
ArmCurrent ==
  LET g == GenOf(hand.seen) IN
  /\ At("arm")
  /\ IF QueueOwned(hand.seen)
     THEN /\ Arms(g)
          /\ mover' = Adopted(g)
          /\ Go(IF ArmSucceeds(g) THEN "ok" ELSE "err")
     ELSE Go("ok") /\ UNCHANGED <<genRow, clash, mover>>
  /\ UNCHANGED <<tuple, lane, listed, raised, troubles, thaws, lost, unheard, fell>>

\* A storage call of the handler fails, or the commit meets contention.  The
\* validation looks at the run once more, unless that is what failed.
HandlerFails ==
  /\ \/ \E p \in {"read", "chain", "commit", "reread", "arm"} : At(p) /\ Go("err")
     \/ \E p \in {"seal", "apply"} : At(p) /\ Go("reread")
  /\ Trouble
  /\ UNCHANGED <<tuple, genRow, lane, listed, raised, thaws, mover, lost, unheard, clash, fell>>

\* mark_succeeded or mark_failed: back to pending while tries are left.
SettleJob ==
  LET g == hand.job
      left == genRow[g].tries < MaxTries
  IN /\ \/ /\ At("ok")
           /\ genRow' = [genRow EXCEPT ![g].st = "succeeded"]
           /\ hand' = Free /\ lost' = lost
        \/ /\ At("err")
           /\ genRow' = [genRow EXCEPT ![g].st = IF left THEN "pending" ELSE "failed"]
           /\ IF left THEN hand' = Free ELSE Go("event")
           /\ lost' = (lost \/ ~left)
     /\ UNCHANGED <<tuple, lane, listed, raised, troubles, thaws, mover, unheard, clash, fell>>

\* surface_terminal_failure: first the event, best-effort.
RaiseEvent ==
  /\ At("event")
  /\ Go("hook")
  /\ \/ raised' = raised \cup {hand.job} /\ UNCHANGED <<troubles, unheard>>
     \/ Trouble /\ unheard' = unheard \cup {hand.job} /\ UNCHANGED raised
  /\ UNCHANGED <<tuple, genRow, lane, listed, thaws, mover, lost, clash, fell>>

\* mark_failed_for_generation.
MarkFailedForGen_Unguarded(g) ==
  /\ tuple' = IF QueueOwned(tuple) THEN [tuple EXCEPT !.st = "failed"] ELSE tuple
  /\ fell' = IF QueueOwned(tuple) THEN g ELSE fell
MarkFailedForGen(g) ==
  /\ tuple' = IF Owns(g, tuple) THEN [tuple EXCEPT !.st = "failed"] ELSE tuple
  /\ fell' = IF Owns(g, tuple) THEN g ELSE fell

\* on_terminal_failure; an error of it is logged.
TerminalHook ==
  /\ At("hook")
  /\ hand' = Free
  /\ \/ MarkFailedForGen(hand.job) /\ UNCHANGED troubles
     \/ Trouble /\ UNCHANGED <<tuple, fell>>
  /\ UNCHANGED <<genRow, lane, listed, raised, thaws, mover, lost, unheard, clash>>

-----------------------------------------------------------------------------
(* The process dies and starts. *)

Dies ==
  /\ lane # "down"
  /\ lane' = "down" /\ hand' = Free /\ listed' = {}
  /\ Trouble
  /\ UNCHANGED <<tuple, genRow, raised, thaws, mover, lost, unheard, clash, fell>>

\* reclaim_stale_running.  History: what agents did before is the start's to find.
Reclaims_AllPending ==
  /\ lane = "down"
  /\ genRow' = [g \in Gen |->
       IF genRow[g].st # "running" THEN genRow[g] ELSE [genRow[g] EXCEPT !.st = "pending"]]
  /\ lane' = "listing"
  /\ mover' = "queue" /\ lost' = FALSE
  /\ UNCHANGED <<tuple, listed, hand, raised, troubles, thaws, unheard, clash, fell>>
Reclaims ==
  /\ lane = "down"
  /\ genRow' = [g \in Gen |->
       IF genRow[g].st # "running" THEN genRow[g]
       ELSE [genRow[g] EXCEPT !.st = IF genRow[g].tries >= MaxTries THEN "failed" ELSE "pending"]]
  /\ lane' = "listing"
  /\ mover' = "queue" /\ lost' = FALSE
  /\ UNCHANGED <<tuple, listed, hand, raised, troubles, thaws, unheard, clash, fell>>

\* Two queries, first the staged runs, then the ready ones.
ListStaged ==
  /\ lane = "listing"
  /\ listed' = IF tuple.st = "staged" THEN {tuple} ELSE {}
  /\ lane' = "listing_ready"
  /\ UNCHANGED <<tuple, genRow, hand, raised, troubles, thaws, mover, lost, unheard, clash, fell>>

ListReady ==
  /\ lane = "listing_ready"
  /\ listed' = IF tuple.st = "ready" THEN listed \cup {tuple} ELSE listed
  /\ lane' = "reconciling"
  /\ UNCHANGED <<tuple, genRow, hand, raised, troubles, thaws, mover, lost, unheard, clash, fell>>

Starting(p) == hand.at = p /\ lane = "reconciling"

\* reconcile_one_run: status of the row of the snapshot's generation.
ReconcileRow(t) ==
  LET g == GenOf(t) IN
  /\ Starting("idle") /\ t \in listed
  /\ t.st = "ready" => \A u \in listed : u.st = "ready"
  /\ CASE genRow[g].st = "failed" ->
            hand' = [at |-> "live", job |-> g, seen |-> t] /\ UNCHANGED <<genRow, clash, mover, listed>>
       [] genRow[g].st \in {"pending", "running"} ->
            listed' = listed \ {t} /\ UNCHANGED <<genRow, clash, mover, hand>>
       [] OTHER ->
            Arms(g) /\ mover' = Adopted(g) /\ listed' = listed \ {t} /\ UNCHANGED hand
  /\ UNCHANGED <<tuple, lane, raised, troubles, thaws, lost, unheard, fell>>

Reconciled == hand' = Free /\ listed' = listed \ {hand.seen}

\* Read again: a generation that moved is left alone.
ReconcileLive ==
  /\ Starting("live")
  /\ IF tuple = hand.seen THEN Go("tell") /\ UNCHANGED listed ELSE Reconciled
  /\ UNCHANGED <<tuple, genRow, lane, raised, troubles, thaws, mover, lost, unheard, clash, fell>>

ReconcileEvent_Skipped ==
  /\ Starting("tell") /\ Go("mark")
  /\ UNCHANGED <<tuple, genRow, lane, listed, raised, troubles, thaws, mover, lost, unheard, clash, fell>>
ReconcileEvent ==
  /\ Starting("tell")
  /\ raised' = raised \cup {hand.job}
  /\ Go("mark")
  /\ UNCHANGED <<tuple, genRow, lane, listed, troubles, thaws, mover, lost, unheard, clash, fell>>

ReconcileMark ==
  /\ Starting("mark")
  /\ MarkFailedForGen(hand.job)
  /\ Reconciled
  /\ UNCHANGED <<genRow, lane, raised, troubles, thaws, mover, lost, unheard, clash>>

\* An error ends the reconciliation, and the lane stays off until the next start.
ReconcileFails ==
  /\ lane \in {"listing", "listing_ready", "reconciling"}
  /\ lane' = "off" /\ hand' = Free /\ listed' = {}
  /\ Trouble
  /\ UNCHANGED <<tuple, genRow, raised, thaws, mover, lost, unheard, clash, fell>>

StartLane ==
  /\ Starting("idle") /\ listed = {}
  /\ lane' = "on"
  /\ UNCHANGED <<tuple, genRow, listed, hand, raised, troubles, thaws, mover, lost, unheard, clash, fell>>

-----------------------------------------------------------------------------
GenInit ==
  /\ tuple = [st |-> "agent", rev |-> 0, hash |-> NoHash]
  /\ genRow = [g \in Gen |-> [st |-> "missing", tries |-> 0]]
  /\ lane = "down" /\ listed = {} /\ hand = Free
  /\ raised = {} /\ unheard = {}
  /\ troubles = 0 /\ thaws = 0
  /\ mover = "queue" /\ lost = FALSE /\ clash = FALSE /\ fell = NoGen

Agents == AgentStages \/ AgentValidates \/ AgentEnds \/ AgentThaws

WorkerSteps ==
  \/ \E g \in Gen : ClaimJob(g)
  \/ ReadRun \/ SealManifest \/ ApplyVerdict \/ ChainCommit \/ CommitManifest \/ Reread
  \/ ArmCurrent \/ SettleJob \/ RaiseEvent \/ TerminalHook

StartSteps ==
  \/ Reclaims \/ ListStaged \/ ListReady \/ \E t \in listed : ReconcileRow(t)
  \/ ReconcileLive \/ ReconcileEvent \/ ReconcileMark \/ StartLane

GenNext == Agents \/ WorkerSteps \/ StartSteps \/ HandlerFails \/ ReconcileFails \/ Dies

GenSpec == GenInit /\ [][GenNext]_genVars

-----------------------------------------------------------------------------
\* Types of the run, the rows, the lane and what its thread holds.
GenTypeOK ==
  /\ tuple \in Tuple
  /\ genRow \in [Gen -> Row]
  /\ lane \in {"down", "listing", "listing_ready", "reconciling", "on", "off"}
  /\ listed \in SUBSET Tuple
  /\ hand \in Hand
  /\ raised \in SUBSET Gen /\ unheard \in SUBSET Gen
  /\ mover \in {"queue", "agent"} /\ lost \in BOOLEAN /\ clash \in BOOLEAN /\ fell \in Gen \cup {NoGen}
  /\ troubles \in 0..MaxTroubles /\ thaws \in 0..MaxThaws

\* The queue fails a run only in the very generation whose own job is failed, and
\* not before the user could hear of it: the event is there, unless it could not
\* be written (terminalize_ingest_run, reconcile_one_run).
FailureIsExplained ==
  tuple.st = "failed" =>
    /\ fell = GenOf(tuple) /\ fell \in Gen
    /\ genRow[fell].st = "failed"
    /\ fell \in raised \cup unheard

\* Nobody arms a running row: one thread, which arms only other generations than
\* its own, and a start before the lane runs (arm).
SingleArmer == ~clash

\* The two together: a late job fails no later generation, and arms no row that
\* is at work.
LateJobsDoNoHarm == FailureIsExplained /\ SingleArmer

\* Once the lane runs, a run the queue owns is never left behind: unless an agent
\* moved it meanwhile or a job failed for good, some job of the run is at work or
\* to be done (arm_current_generation, enqueue_commit, reconcile_ingest_jobs).
RunIsNotLeftBehind ==
  lane = "on" /\ QueueOwned(tuple) /\ mover = "queue" /\ ~lost =>
    \E g \in Gen : genRow[g].st \in {"pending", "running"}

\* A job that ends well with the run as it last saw it has handed it over to
\* another job (the supersession invariant of arm_current_generation).  Mostly
\* that is the job of the run's generation; a validation that judged a later
\* revision than its own chains a commit under its own, which hands over again.
BatonIsPassed ==
  At("ok") /\ QueueOwned(tuple) /\ tuple = hand.seen =>
    \E g \in Gen \ {hand.job} : genRow[g].st = "pending"

\* No generation the queue owns is without a job, neither at rest nor in the
\* middle of a hand-over.
GenerationIsCovered == RunIsNotLeftBehind /\ BatonIsPassed

\* A pending job of the current generation moves the run on, or fails, while the
\* lane runs.
GenerationEnds ==
  \A g \in Gen :
    (lane = "on" /\ Owns(g, tuple) /\ genRow[g].st = "pending")
      ~> (lane # "on" \/ ~Owns(g, tuple) \/ genRow[g].st = "failed")
=============================================================================
