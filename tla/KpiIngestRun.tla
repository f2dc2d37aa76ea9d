----------------------------- MODULE KpiIngestRun -----------------------------
(***************************************************************************)
(* The life of a KPI ingest run: the rows of kpi_ingest_runs with their    *)
(* lease (storage/kpi_ingest_runs.rs), chunked drafts                      *)
(* (kpi_ingest_drafts.rs), staging and validation (kpi_ingest_staging.rs,  *)
(* jobs/kpi_ingest_validation.rs), the commit (kpi_ingest_commit.rs), and  *)
(* the tool calls that use them (mcp/kpi_ingest.rs, kpi_ingest_submit.rs). *)
(*                                                                         *)
(* Every transaction is one step.  A tool call that takes more than one    *)
(* transaction keeps what it read in between in call[t], t being the       *)
(* processor thread it runs on; a call of one transaction is one action.   *)
(* The process may die between any two steps.  commit_manifest enters and  *)
(* leaves 'committing' inside one transaction, so no row is ever seen in   *)
(* that state.                                                             *)
(*                                                                         *)
(* A lease is live or expired; expiry is a step of its own and may come at *)
(* any moment, so a heartbeat or a renewal by the holder changes nothing.  *)
(*                                                                         *)
(* D_Bug is D with a plausible bug, as in JobQueue.                        *)
(***************************************************************************)
EXTENDS Naturals, Sequences, FiniteSets

CONSTANTS
  Run,        \* run ids
  TargetOf,   \* the (document, company, profile) each run is for
  Holder,     \* lease holders, one per credential
  NoHolder,
  Thread,     \* MCP processor threads
  Context,    \* values of scope, quality and period together
  NoContext,
  Blob,       \* content hashes the document's bytes may have
  NoBlob,
  Draft,      \* draft ids
  Payload,    \* contents of a chunk
  NoManifest,
  MaxChunks, MaxRevision, MaxAttempt   \* bounds

ASSUME RunAssumption ==
  /\ Run # {}
  /\ NoHolder \notin Holder
  /\ NoContext \notin Context
  /\ NoBlob \notin Blob

ASSUME IngestBoundAssumption ==
  /\ MaxChunks \in Nat \ {0} /\ MaxRevision \in Nat /\ MaxAttempt \in Nat

VARIABLES
  run,        \* kpi_ingest_runs
  order,      \* run ids by created_at
  draft,      \* kpi_ingest_drafts with their chunks
  staged,     \* kpi_staged_observations of the current revision
  attempts,   \* kpi_ingest_validation_attempts
  latest,     \* the newest of them
  receipt,    \* kpi_ingest_commit_receipts
  call,       \* what each processor thread is in the middle of
  up,         \* the start has run
  \* History variables, read by the properties only.
  pinned,     \* hashes callers were told their run was captured with
  acks,       \* <<draft, index, payload>> acknowledged to a caller
  refused,    \* drafts some call was refused on as superseded
  answers,    \* manifests callers were told were committed
  written     \* how often a run's facts were written

rows == <<run, order>>
staging == <<draft, staged>>
verdicts == <<attempts, latest>>
commits == <<receipt, answers, written>>
told == <<pinned, acks, refused>>
ingestVars == <<rows, staging, verdicts, commits, told, call, up>>

-----------------------------------------------------------------------------
(* The rows. *)

AgentClaimable == {"discovered", "source_captured", "extracting", "validation_failed"}
PreCommit == AgentClaimable \cup {"staged", "ready_to_commit"}
Stageable == {"extracting", "validation_failed"}
Ended == {"complete", "partial", "failed", "cancelled"}
RunStatus == {"absent"} \cup PreCommit \cup Ended

\* Outcome and completeness of a manifest; its hash is the manifest itself.
Verdict == {"complete", "partial", "failed"}
Manifest == [rev : 1..MaxRevision, verdict : Verdict]
ASSUME ManifestAssumption == NoManifest \notin Manifest
Ready(m) == m.verdict # "failed"

RunRow == [status : RunStatus, rev : 0..MaxRevision,
           hash : Manifest \cup {NoManifest},
           holder : Holder \cup {NoHolder}, live : BOOLEAN,
           attempt : 0..MaxAttempt,
           context : Context \cup {NoContext}, blob : Blob \cup {NoBlob}]

NewRow(status, c) ==
  [status |-> status, rev |-> 0, hash |-> NoManifest, holder |-> NoHolder,
   live |-> FALSE, attempt |-> 0, context |-> c, blob |-> NoBlob]

\* A chunk, and (for the properties) the holder who appended it.
Chunk == [payload : Payload, by : Holder]
Chunks == UNION {[is -> Chunk] : is \in SUBSET (0..MaxChunks - 1)}
NoChunks == [i \in {} |-> i]
DraftRow == [status : {"unused", "active", "superseded", "deleted"}, run : Run,
             epoch : 0..MaxAttempt, expected : 0..MaxChunks, chunks : Chunks]

\* An installed snapshot; from and by are read by the properties only: the
\* draft it was assembled from, if any, and who installed it.
Snapshot == [chunks : Chunks, expected : 0..MaxChunks,
             by : Holder \cup {NoHolder}, from : SUBSET Draft]
Nothing == [chunks |-> NoChunks, expected |-> 0, by |-> NoHolder, from |-> {}]

Idle == [op |-> "idle"]
Call ==
  {Idle}
  \cup [op : {"start"}, run : Run, holder : Holder, pins : BOOLEAN]
  \cup [op : {"validate"}, run : Run, asked : 1..MaxRevision, sealed : 0..MaxRevision]
  \cup [op : {"commit"}, run : Run, hash : Manifest]

-----------------------------------------------------------------------------
(* Leases. *)

Active(r) == run[r].status \in PreCommit

Leaseless(x) == [x EXCEPT !.holder = NoHolder, !.live = FALSE]

HoldsLease(h, x) == x.holder = h /\ x.live

\* Renewal by the live holder, or a claim of an absent or expired lease.
CanClaim(h, x) ==
  /\ x.status \in AgentClaimable
  /\ HoldsLease(h, x) \/ (~x.live /\ x.attempt < MaxAttempt)

Claimed_AlwaysCounts(h, x) == [x EXCEPT !.holder = h, !.live = TRUE, !.attempt = @ + 1]
Claimed(h, x) ==
  IF HoldsLease(h, x) THEN x
  ELSE [x EXCEPT !.holder = h, !.live = TRUE, !.attempt = @ + 1]

LeaseExpires(r) ==
  /\ run[r].live
  /\ run' = [run EXCEPT ![r].live = FALSE]
  /\ UNCHANGED <<order, staging, verdicts, commits, told, call, up>>

\* The oldest claimable run whose lease is absent or expired.
ClaimNext(h) ==
  LET Free(r) == CanClaim(h, run[r]) /\ ~run[r].live
  IN /\ up
     /\ \E i \in 1..Len(order) :
          /\ Free(order[i])
          /\ \A k \in 1..(i - 1) :
               run[order[k]].status \in AgentClaimable => run[order[k]].live
          /\ run' = [run EXCEPT ![order[i]] = Claimed(h, @)]
     /\ UNCHANGED <<order, staging, verdicts, commits, told, call, up>>

\* release_lease looks at the holder only: not at expiry, not at the status.
ReleaseLease(h, r) ==
  /\ up
  /\ run[r].holder = h
  /\ run' = [run EXCEPT ![r] = Leaseless(@)]
  /\ UNCHANGED <<order, staging, verdicts, commits, told, call, up>>

Expired(x) == x.status \in AgentClaimable /\ x.holder # NoHolder /\ ~x.live

WithoutExpiredLeases == [r \in Run |-> IF Expired(run[r]) THEN Leaseless(run[r]) ELSE run[r]]

ReclaimExpiredLeases ==
  /\ up
  /\ \E r \in Run : Expired(run[r])
  /\ run' = WithoutExpiredLeases
  /\ UNCHANGED <<order, staging, verdicts, commits, told, call, up>>

-----------------------------------------------------------------------------
(* start_kpi_ingest: two transactions with the pinning of the bytes between. *)

\* create_run_if_absent: at most one run per target that has not ended.
CreateRun_LeasedOnly(r, c) ==
  /\ run[r].status = "absent"
  /\ \A k \in Run : TargetOf[k] = TargetOf[r] => ~(Active(k) /\ run[k].holder # NoHolder)
  /\ order' = Append(order, r)
CreateRun(r, c) ==
  /\ run[r].status = "absent"
  /\ \A k \in Run : TargetOf[k] = TargetOf[r] => ~Active(k)
  /\ order' = Append(order, r)

\* Context is set once; another value rolls the whole transaction back.
Attachable(c, x) == c = NoContext \/ x.context \in {NoContext, c}
Attached(c, x) == IF c = NoContext THEN x ELSE [x EXCEPT !.context = c]

BeginStartIngest(t, h, r, c) ==
  LET old == IF run[r].status = "absent" THEN NewRow("discovered", c) ELSE run[r]
  IN /\ up
     /\ call[t] = Idle
     /\ CreateRun(r, c) \/ (Active(r) /\ UNCHANGED order)
     /\ CanClaim(h, old)
     /\ Attachable(c, old)
     /\ run' = [run EXCEPT ![r] = Attached(c, Claimed(h, old))]
     /\ call' = [call EXCEPT ![t] = [op |-> "start", run |-> r, holder |-> h,
                                     pins |-> old.status = "discovered"]]
     /\ UNCHANGED <<staging, verdicts, commits, told, up>>

\* mark_source_captured: needs the lease only while the run is discovered;
\* afterwards the same hash is acknowledged and another one refused.
Capturable_AnyHash(x, h, s) == x.status = "discovered" => HoldsLease(h, x)
Capturable(x, h, s) ==
  IF x.status = "discovered" THEN HoldsLease(h, x) ELSE x.blob = s

Captured(x, s) ==
  IF x.status = "discovered"
  THEN [x EXCEPT !.status = "source_captured", !.blob = s] ELSE x

\* begin_extracting, attempted once the context is complete.
MayExtract(x) == x.status = "source_captured" /\ x.context # NoContext
Extracting(x) == IF MayExtract(x) THEN [x EXCEPT !.status = "extracting"] ELSE x

FinishStartIngest(t, s) ==
  LET c == call[t]
      x == run[c.run]
      y == IF c.pins THEN Captured(x, s) ELSE x
  IN /\ c.op = "start"
     /\ c.pins => Capturable(x, c.holder, s)
     /\ MayExtract(y) => HoldsLease(c.holder, y)
     /\ run' = [run EXCEPT ![c.run] = Extracting(y)]
     /\ pinned' = IF c.pins THEN [pinned EXCEPT ![c.run] = @ \cup {s}] ELSE pinned
     /\ call' = [call EXCEPT ![t] = Idle]
     /\ UNCHANGED <<order, staging, verdicts, commits, acks, refused, up>>

\* Any call may be refused at its next transaction, or fail with its storage;
\* what it had begun there is rolled back.
CallFails(t) ==
  /\ call[t] # Idle
  /\ call' = [call EXCEPT ![t] = Idle]
  /\ UNCHANGED <<rows, staging, verdicts, commits, told, up>>

-----------------------------------------------------------------------------
(* stage_kpi_observations: a snapshot in one call, or a draft in chunks. *)

MayStage(h, r) == run[r].status \in Stageable /\ HoldsLease(h, run[r])

IsActive(d, r) == draft[d].status = "active" /\ draft[d].run = r
Current(d) == draft[d].epoch = run[draft[d].run].attempt

WithoutDrafts(r) ==
  [d \in Draft |-> IF draft[d].status # "unused" /\ draft[d].run = r
                   THEN [draft[d] EXCEPT !.status = "deleted", !.chunks = NoChunks]
                   ELSE draft[d]]

\* install_observations_on_connection.
Install(r, snapshot) ==
  /\ run[r].rev < MaxRevision
  /\ run' = [run EXCEPT ![r].status = "staged", ![r].rev = @ + 1, ![r].hash = NoManifest]
  /\ staged' = [staged EXCEPT ![r] = snapshot]
  /\ draft' = WithoutDrafts(r)
  /\ UNCHANGED <<order, verdicts, commits, told, call, up>>

\* resolve_active_draft_conflict: a current draft stands in the way, a stale
\* one does not.
NoConflict(r) == \A d \in Draft : IsActive(d, r) => ~Current(d)

Put(chunks, i, c) == [k \in DOMAIN chunks \cup {i} |-> IF k = i THEN c ELSE chunks[k]]

StageObservations(h, r, p) ==
  /\ up
  /\ MayStage(h, r)
  /\ NoConflict(r)
  /\ Install(r, [chunks |-> Put(NoChunks, 0, [payload |-> p, by |-> h]), expected |-> 1,
                 by |-> h, from |-> {}])

OpenDraft(h, r, d, n) ==
  /\ up
  /\ MayStage(h, r)
  /\ NoConflict(r)
  /\ draft[d].status = "unused"
  /\ draft' = [e \in Draft |->
       IF e = d THEN [status |-> "active", run |-> r, epoch |-> run[r].attempt,
                      expected |-> n, chunks |-> NoChunks]
       ELSE IF IsActive(e, r) THEN [draft[e] EXCEPT !.status = "superseded"]
       ELSE draft[e]]
  /\ UNCHANGED <<rows, staged, verdicts, commits, told, call, up>>

\* load_live_draft_or_supersede.
Live_AnyEpoch(h, d) == draft[d].status = "active" /\ MayStage(h, draft[d].run)
Live(h, d) ==
  /\ draft[d].status = "active"
  /\ MayStage(h, draft[d].run)
  /\ Current(d)

\* An index is written once; the same content again is acknowledged.
Appendable_Overwrite(d, i, p) == TRUE
Appendable(d, i, p) ==
  i \in DOMAIN draft[d].chunks => draft[d].chunks[i].payload = p

AppendChunk(h, d, i, p) ==
  /\ up
  /\ Live(h, d)
  /\ Appendable(d, i, p)
  /\ draft' = IF i \in DOMAIN draft[d].chunks /\ draft[d].chunks[i].payload = p
              THEN draft
              ELSE [draft EXCEPT ![d].chunks = Put(@, i, [payload |-> p, by |-> h])]
  /\ acks' = acks \cup {<<d, i, p>>}
  /\ UNCHANGED <<rows, staged, verdicts, commits, pinned, refused, call, up>>

\* Contiguous from 0, and as many observations as were declared; a chunk of
\* the model holds one observation.
Assembled(d) == DOMAIN draft[d].chunks = 0..(draft[d].expected - 1)

FinalizeDraft(h, d) ==
  /\ up
  /\ Live(h, d)
  /\ Assembled(d)
  /\ Install(draft[d].run, [chunks |-> draft[d].chunks, expected |-> draft[d].expected,
                            by |-> h, from |-> {d}])

\* An append or a finalize that meets a stale draft is refused.  The statement
\* that marks the draft superseded is rolled back with the transaction, which
\* ends in the error.
RefuseStaleDraft(h, d) ==
  /\ up
  /\ draft[d].status \in {"active", "superseded"}
  /\ MayStage(h, draft[d].run)
  /\ draft[d].status = "active" => ~Current(d)
  /\ refused' = refused \cup {d}
  /\ UNCHANGED <<rows, staging, verdicts, commits, pinned, acks, call, up>>

-----------------------------------------------------------------------------
(* Validation: the caller checks the revision it was asked for, the validator *)
(* reads the run again, and the outcome is written against what it read.      *)

ValidateCall(t, r, q) ==
  /\ up
  /\ call[t] = Idle
  /\ run[r].status = "staged"
  /\ run[r].rev = q
  /\ call' = [call EXCEPT ![t] = [op |-> "validate", run |-> r, asked |-> q, sealed |-> 0]]
  /\ UNCHANGED <<rows, staging, verdicts, commits, told, up>>

SealRun(t) ==
  LET c == call[t]
  IN /\ c.op = "validate"
     /\ c.sealed = 0
     /\ run[c.run].status = "staged"
     /\ call' = [call EXCEPT ![t].sealed = run[c.run].rev]
     /\ UNCHANGED <<rows, staging, verdicts, commits, told, up>>

\* apply_validation_outcome on the current unfrozen revision only.
Unfrozen_AnyRevision(x, q) == x.status = "staged" /\ x.hash = NoManifest
Unfrozen(x, q) ==
  /\ x.status = "staged"
  /\ x.hash = NoManifest
  /\ x.rev = q

\* mark_ready_to_commit ends the lease, mark_validation_failed keeps it.
Judged_KeepLease(x, m) ==
  IF Ready(m) THEN [x EXCEPT !.status = "ready_to_commit", !.hash = m]
  ELSE [x EXCEPT !.status = "validation_failed"]
Judged(x, m) ==
  IF Ready(m) THEN Leaseless([x EXCEPT !.status = "ready_to_commit", !.hash = m])
  ELSE [x EXCEPT !.status = "validation_failed"]

ApplyOutcome(t, v) ==
  LET c == call[t]
      m == [rev |-> c.sealed, verdict |-> v]
  IN /\ c.op = "validate"
     /\ c.sealed # 0
     /\ Unfrozen(run[c.run], c.sealed)
     /\ run' = [run EXCEPT ![c.run] = Judged(@, m)]
     /\ attempts' = [attempts EXCEPT ![c.run] = @ \cup {m}]
     /\ latest' = [latest EXCEPT ![c.run] = m]
     /\ call' = [call EXCEPT ![t] = Idle]
     /\ UNCHANGED <<order, staging, commits, told, up>>

\* ready_to_commit back to staged, revision unchanged.
Thawed(x) == [x EXCEPT !.status = "staged", !.hash = NoManifest]

InvalidateManifest(r) ==
  /\ up
  /\ run[r].status = "ready_to_commit"
  /\ run' = [run EXCEPT ![r] = Thawed(@)]
  /\ UNCHANGED <<order, staging, verdicts, commits, told, call, up>>

-----------------------------------------------------------------------------
(* Commit. *)

\* classify_stored_receipt, as the fast path and for the loser of a race.
ReceiptAnswers_AnyTuple(r, m) == receipt[r] # NoManifest
ReceiptAnswers(r, m) == receipt[r] = m

CommitReplay(r, m) ==
  /\ up
  /\ m # NoManifest
  /\ ReceiptAnswers(r, m)
  /\ answers' = [answers EXCEPT ![r] = @ \cup {m}]
  /\ UNCHANGED <<rows, staging, verdicts, receipt, written, told, call, up>>

\* No receipt yet: look up the ready attempt with the tuple asked for.
CommitCall(t, r, m) ==
  /\ up
  /\ call[t] = Idle
  /\ receipt[r] = NoManifest
  /\ m \in attempts[r]
  /\ Ready(m)
  /\ call' = [call EXCEPT ![t] = [op |-> "commit", run |-> r, hash |-> m]]
  /\ UNCHANGED <<rows, staging, verdicts, commits, told, up>>

\* begin_committing.
Committable_AnyHash(x, m) == x.status = "ready_to_commit" /\ x.holder = NoHolder
Committable_AnyStatus(x, m) == x.hash = m /\ x.rev = m.rev /\ x.holder = NoHolder
Committable(x, m) ==
  /\ x.status = "ready_to_commit"
  /\ x.hash = m
  /\ x.rev = m.rev
  /\ x.holder = NoHolder

CommitTx(t) ==
  LET c == call[t]
  IN /\ c.op = "commit"
     /\ Committable(run[c.run], c.hash)
     /\ run' = [run EXCEPT ![c.run].status = c.hash.verdict]
     /\ receipt' = [receipt EXCEPT ![c.run] = c.hash]
     /\ written' = [written EXCEPT ![c.run] = @ + 1]
     /\ answers' = [answers EXCEPT ![c.run] = @ \cup {c.hash}]
     /\ call' = [call EXCEPT ![t] = Idle]
     /\ UNCHANGED <<order, staging, verdicts, told, up>>

\* The other caller won, or the database was busy: the receipt answers.
CommitLost(t) ==
  LET c == call[t]
  IN /\ c.op = "commit"
     /\ ReceiptAnswers(c.run, c.hash)
     /\ answers' = [answers EXCEPT ![c.run] = @ \cup {c.hash}]
     /\ call' = [call EXCEPT ![t] = Idle]
     /\ UNCHANGED <<rows, staging, verdicts, receipt, written, told, up>>

-----------------------------------------------------------------------------
(* The end of a run, and of the process. *)

Closed_KeepDrafts(r) == draft
Closed(r) == WithoutDrafts(r)

\* cancel_run, mark_failed.
Close(r, status) ==
  /\ up
  /\ Active(r)
  /\ run' = [run EXCEPT ![r] = [Leaseless(@) EXCEPT !.status = status]]
  /\ draft' = Closed(r)
  /\ UNCHANGED <<order, staged, verdicts, commits, told, call, up>>

CancelRun(r) == Close(r, "cancelled")
MarkFailed(r) == Close(r, "failed")

Crash ==
  /\ up
  /\ up' = FALSE
  /\ call' = [t \in Thread |-> Idle]
  /\ UNCHANGED <<rows, staging, verdicts, commits, told>>

\* reclaim_ingest_runs_on_startup: expired leases go, and with them the drafts
\* of every run that has no lease.
Orphaned_All(d) == TRUE
Orphaned(d) == WithoutExpiredLeases[draft[d].run].holder = NoHolder

StartupReclaim ==
  /\ ~up
  /\ up' = TRUE
  /\ run' = WithoutExpiredLeases
  /\ draft' = [d \in Draft |->
       IF draft[d].status # "unused" /\ Orphaned(d)
       THEN [draft[d] EXCEPT !.status = "deleted", !.chunks = NoChunks] ELSE draft[d]]
  /\ UNCHANGED <<order, staged, verdicts, commits, told, call>>

\* It is best-effort: a failure is logged and the start goes on.
StartupReclaimFails ==
  /\ ~up
  /\ up' = TRUE
  /\ UNCHANGED <<rows, staging, verdicts, commits, told, call>>

-----------------------------------------------------------------------------
Init ==
  /\ run = [r \in Run |-> NewRow("absent", NoContext)]
  /\ order = <<>>
  /\ draft = [d \in Draft |-> [status |-> "unused", run |-> CHOOSE r \in Run : TRUE,
                               epoch |-> 0, expected |-> 0, chunks |-> NoChunks]]
  /\ staged = [r \in Run |-> Nothing]
  /\ attempts = [r \in Run |-> {}]
  /\ latest = [r \in Run |-> NoManifest]
  /\ receipt = [r \in Run |-> NoManifest]
  /\ call = [t \in Thread |-> Idle]
  /\ up = TRUE
  /\ pinned = [r \in Run |-> {}]
  /\ acks = {}
  /\ refused = {}
  /\ answers = [r \in Run |-> {}]
  /\ written = [r \in Run |-> 0]

Next ==
  \/ \E r \in Run :
       LeaseExpires(r) \/ InvalidateManifest(r) \/ CancelRun(r) \/ MarkFailed(r)
  \/ \E h \in Holder :
       \/ ClaimNext(h)
       \/ \E r \in Run : ReleaseLease(h, r)
       \/ \E r \in Run, p \in Payload : StageObservations(h, r, p)
       \/ \E r \in Run, d \in Draft, n \in 1..MaxChunks : OpenDraft(h, r, d, n)
       \/ \E d \in Draft, i \in 0..(MaxChunks - 1), p \in Payload : AppendChunk(h, d, i, p)
       \/ \E d \in Draft : FinalizeDraft(h, d) \/ RefuseStaleDraft(h, d)
  \/ \E t \in Thread :
       \/ \E h \in Holder, r \in Run, c \in Context \cup {NoContext} :
            BeginStartIngest(t, h, r, c)
       \/ \E s \in Blob : FinishStartIngest(t, s)
       \/ \E r \in Run, q \in 1..MaxRevision : ValidateCall(t, r, q)
       \/ SealRun(t)
       \/ \E v \in Verdict : ApplyOutcome(t, v)
       \/ \E r \in Run, m \in Manifest : CommitCall(t, r, m)
       \/ CommitTx(t)
       \/ CommitLost(t)
       \/ CallFails(t)
  \/ \E r \in Run, m \in Manifest : CommitReplay(r, m)
  \/ ReclaimExpiredLeases
  \/ Crash
  \/ StartupReclaim
  \/ StartupReclaimFails

Spec == Init /\ [][Next]_ingestVars

-----------------------------------------------------------------------------
(* Properties. *)

\* Every variable keeps its type.
TypeOK ==
  /\ run \in [Run -> RunRow]
  /\ order \in Seq(Run)
  /\ draft \in [Draft -> DraftRow]
  /\ staged \in [Run -> Snapshot]
  /\ attempts \in [Run -> SUBSET Manifest]
  /\ latest \in [Run -> Manifest \cup {NoManifest}]
  /\ receipt \in [Run -> Manifest \cup {NoManifest}]
  /\ call \in [Thread -> Call]
  /\ up \in BOOLEAN
  /\ pinned \in [Run -> SUBSET Blob]
  /\ acks \subseteq Draft \X (0..MaxChunks - 1) \X Payload
  /\ refused \subseteq Draft
  /\ answers \in [Run -> SUBSET Manifest]
  /\ written \in [Run -> Nat]

\* From the verdict on nobody holds a lease: an agent's work ends where the
\* manifest is frozen, and the commit does not compete with it.
LeaseEndsAtFreeze ==
  \A r \in Run : run[r].status \notin AgentClaimable \cup {"staged"} =>
                   run[r].holder = NoHolder /\ ~run[r].live

\* A frozen run carries the manifest of its own revision, which is ready and
\* the newest verdict there is; a run that is not frozen carries none.  Two
\* validators of one revision, one of an older revision, an invalidation or a
\* restage in between cannot leave a verdict on other observations.
FrozenByLatestVerdict ==
  \A r \in Run :
    LET x == run[r]
    IN /\ x.status \in {"ready_to_commit", "complete", "partial"} => x.hash # NoManifest
       /\ x.status \in AgentClaimable \cup {"staged"} => x.hash = NoManifest
       /\ x.hash # NoManifest =>
            x.hash = latest[r] /\ x.hash \in attempts[r] /\ Ready(x.hash) /\ x.hash.rev = x.rev

\* A freeze ends the agent's lease and is by the newest verdict on what is staged.
FreezeIsSound == LeaseEndsAtFreeze /\ FrozenByLatestVerdict

\* The receipt and the ended run agree (CommitReceiptRunMismatch is never
\* raised), and the facts of a run are written once, with the receipt.
ReceiptMatchesRun ==
  \A r \in Run :
    /\ run[r].status \in {"complete", "partial"} <=> receipt[r] # NoManifest
    /\ receipt[r] # NoManifest => receipt[r] = run[r].hash /\ run[r].status = receipt[r].verdict
    /\ written[r] = (IF receipt[r] = NoManifest THEN 0 ELSE 1)

\* Every caller that was told its manifest is committed was told the truth,
\* and they were all told the same.
AnswersAreTheReceipt == \A r \in Run : answers[r] \subseteq {receipt[r]} \ {NoManifest}

\* What callers were told of a commit, the receipt, the run and what was written
\* agree.
ReceiptIsExact == ReceiptMatchesRun /\ AnswersAreTheReceipt

\* A snapshot that came through a draft is exactly what its caller had
\* acknowledged: as many chunks as declared, from 0 on without a gap, each
\* acknowledged chunk with its content.
SnapshotIsWhatWasAcked ==
  \A r \in Run : \A d \in staged[r].from :
    /\ DOMAIN staged[r].chunks = 0..(staged[r].expected - 1)
    /\ \A i \in 0..(MaxChunks - 1), p \in Payload :
         <<d, i, p>> \in acks <=>
           i \in DOMAIN staged[r].chunks /\ staged[r].chunks[i].payload = p

\* All of a snapshot comes from the holder who installed it: after a lease was
\* taken over nothing that the old holder appended gets in.
SnapshotOfOneHolder ==
  \A r \in Run : \A i \in DOMAIN staged[r].chunks : staged[r].chunks[i].by = staged[r].by

\* What a draft installs is what one holder sent, all of it and nothing else.
SnapshotIsOneHoldersWork == SnapshotIsWhatWasAcked /\ SnapshotOfOneHolder

\* A draft is open only on a run that can be staged, one per run.
OneOpenDraft ==
  \A d \in Draft : draft[d].status = "active" =>
    /\ run[draft[d].run].status \in Stageable
    /\ \A e \in Draft : IsActive(e, draft[d].run) => e = d

\* Drafts and what comes of them: one open draft, and a snapshot that is the
\* work of one holder (kpi_ingest_drafts).
DraftsAreSound == OneOpenDraft /\ SnapshotIsOneHoldersWork

\* All callers who were told that their bytes are the run's source were told
\* the same bytes, those of the run (mark_source_captured is set-once).
SourceAgreement ==
  \A r \in Run : pinned[r] \subseteq {run[r].blob} \ {NoBlob}

\* A run that has ended stays as it ended.
EndIsFinal ==
  [][\A r \in Run : run[r].status \in Ended =>
       run'[r] = run[r] /\ receipt'[r] = receipt[r] /\ staged'[r] = staged[r]]_ingestVars

\* The runs of one document, company and profile follow one another: each is
\* created once, and only the last of them can be open.  No expired lease, no
\* restart and no end of a run makes room for a second open one, and no run
\* that made room comes back.
OneRunAtATime ==
  /\ \A r \in Run : run[r].status # "absent" <=> \E i \in 1..Len(order) : order[i] = r
  /\ \A k \in 1..Len(order) : \A i \in 1..(k - 1) :
       /\ order[i] # order[k]
       /\ TargetOf[order[i]] = TargetOf[order[k]] => run[order[i]].status \in Ended

\* The holder of a live lease does not lose an open draft while its run stays
\* open for staging: not to a restart, not to another holder.
LiveDraftSurvives ==
  [][\A d \in Draft :
       LET r == draft[d].run
       IN draft[d].status = "active" /\ Current(d) /\ run[r].live /\ run'[r].status \in Stageable
            => draft'[d].status = "active"
               /\ \A i \in DOMAIN draft[d].chunks :
                    i \in DOMAIN draft'[d].chunks /\ draft'[d].chunks[i] = draft[d].chunks[i]]_ingestVars

-----------------------------------------------------------------------------
(* What the documents say and the code does not do. *)

\* data-model.md, KPI Ingest Drafts: the first operation that reads a stale
\* draft, an append or a finalize too, marks it superseded.
StaleDraftIsMarked == \A d \in refused : draft[d].status # "active"

\* contracts.md, validate_kpi_ingest: pinned to the generation asked for; when
\* that has moved the call writes nothing and answers superseded.
ValidateIsPinned ==
  [][\A t \in Thread :
       call[t].op = "validate" /\ attempts' # attempts /\ call'[t] = Idle
         => call[t].sealed = call[t].asked]_ingestVars
=============================================================================
