------------------------- MODULE KpiIngestRunProofs -------------------------
(* What holds of KpiIngestRun for every set of runs, holders, threads and   *)
(* drafts and every bound.                                                  *)
EXTENDS KpiIngestRunContract, TLAPS

-----------------------------------------------------------------------------
(* Types: first what the operators on a row and on chunks return. *)

LEMMA RowTypes ==
  ASSUME NEW x \in RunRow
  PROVE  /\ Leaseless(x) \in RunRow
         /\ \A h \in Holder : CanClaim(h, x) => Claimed(h, x) \in RunRow
         /\ \A c \in Context \cup {NoContext} : Attached(c, x) \in RunRow
         /\ \A s \in Blob : Captured(x, s) \in RunRow
         /\ Extracting(x) \in RunRow
         /\ Thawed(x) \in RunRow
         /\ \A m \in Manifest : Judged(x, m) \in RunRow
         /\ \A s \in RunStatus : [x EXCEPT !.status = s] \in RunRow
         /\ [x EXCEPT !.live = FALSE] \in RunRow
         /\ x.rev < MaxRevision =>
              [x EXCEPT !.status = "staged", !.rev = @ + 1, !.hash = NoManifest] \in RunRow
<1> USE DEF RunRow
<1>0. /\ "source_captured" \in RunStatus /\ "extracting" \in RunStatus /\ "staged" \in RunStatus
      /\ "validation_failed" \in RunStatus /\ "ready_to_commit" \in RunStatus
  BY DEF RunStatus, PreCommit, AgentClaimable
<1>1. Leaseless(x) \in RunRow  BY DEF Leaseless
<1>2. ASSUME NEW h \in Holder, CanClaim(h, x) PROVE Claimed(h, x) \in RunRow
  <2>1. CASE HoldsLease(h, x)  BY <2>1 DEF Claimed
  <2>2. CASE ~HoldsLease(h, x)
    <3>1. x.attempt < MaxAttempt /\ x.attempt \in 0..MaxAttempt  BY <1>2, <2>2 DEF CanClaim
    <3>2. x.attempt + 1 \in 0..MaxAttempt  BY <3>1, IngestBoundAssumption
    <3> QED BY <2>2, <3>2 DEF Claimed
  <2> QED BY <2>1, <2>2
<1>3. \A c \in Context \cup {NoContext} : Attached(c, x) \in RunRow  BY DEF Attached
<1>4. \A s \in Blob : Captured(x, s) \in RunRow  BY <1>0 DEF Captured
<1>5. Extracting(x) \in RunRow  BY <1>0 DEF Extracting
<1>6. Thawed(x) \in RunRow  BY <1>0 DEF Thawed
<1>7. ASSUME NEW m \in Manifest PROVE Judged(x, m) \in RunRow
  BY <1>0 DEF Judged, Leaseless
<1>8. \A s \in RunStatus : [x EXCEPT !.status = s] \in RunRow  OBVIOUS
<1>9. [x EXCEPT !.live = FALSE] \in RunRow  OBVIOUS
<1>10. ASSUME x.rev < MaxRevision
       PROVE  [x EXCEPT !.status = "staged", !.rev = @ + 1, !.hash = NoManifest] \in RunRow
  <2>1. x.rev \in 0..MaxRevision  OBVIOUS
  <2>2. x.rev + 1 \in 0..MaxRevision  BY <1>10, <2>1, IngestBoundAssumption
  <2> QED BY <1>0, <2>2
<1> QED BY <1>1, <1>2, <1>3, <1>4, <1>5, <1>6, <1>7, <1>8, <1>9, <1>10

LEMMA NewRowType ==
  ASSUME NEW s \in RunStatus, NEW c \in Context \cup {NoContext}
  PROVE  NewRow(s, c) \in RunRow
BY IngestBoundAssumption DEF NewRow, RunRow

LEMMA ChunkTypes ==
  /\ NoChunks \in Chunks
  /\ DOMAIN NoChunks = {}
  /\ \A c \in Chunks, i \in 0..(MaxChunks - 1), x \in Chunk : Put(c, i, x) \in Chunks
  /\ \A c \in Chunks : DOMAIN c \subseteq 0..(MaxChunks - 1)
<1>1. NoChunks \in Chunks /\ DOMAIN NoChunks = {}
  <2>1. NoChunks \in [{} -> Chunk]  BY DEF NoChunks
  <2>2. {} \in SUBSET (0..(MaxChunks - 1))  OBVIOUS
  <2> QED BY <2>1, <2>2 DEF Chunks, NoChunks
<1>2. ASSUME NEW c \in Chunks, NEW i \in 0..(MaxChunks - 1), NEW x \in Chunk
      PROVE  Put(c, i, x) \in Chunks
  <2>1. PICK is \in SUBSET (0..(MaxChunks - 1)) : c \in [is -> Chunk]  BY DEF Chunks
  <2>2. Put(c, i, x) \in [is \cup {i} -> Chunk]  BY <2>1 DEF Put
  <2>3. is \cup {i} \in SUBSET (0..(MaxChunks - 1))  OBVIOUS
  <2> QED BY <2>2, <2>3 DEF Chunks
<1>3. \A c \in Chunks : DOMAIN c \subseteq 0..(MaxChunks - 1)  BY DEF Chunks
<1> QED BY <1>1, <1>2, <1>3

LEMMA DraftTypes ==
  ASSUME TypeOK
  PROVE  /\ \A d \in Draft : draft[d].run \in Run /\ draft[d].chunks \in Chunks
         /\ \A r \in Run : WithoutDrafts(r) \in [Draft -> DraftRow]
         /\ WithoutExpiredLeases \in [Run -> RunRow]
<1>1. \A d \in Draft : draft[d].run \in Run /\ draft[d].chunks \in Chunks
  BY DEF TypeOK, DraftRow
<1>2. \A r \in Run : WithoutDrafts(r) \in [Draft -> DraftRow]
  <2> SUFFICES ASSUME NEW r \in Run PROVE WithoutDrafts(r) \in [Draft -> DraftRow]
    OBVIOUS
  <2>1. ASSUME NEW d \in Draft
        PROVE  [draft[d] EXCEPT !.status = "deleted", !.chunks = NoChunks] \in DraftRow
    BY ChunkTypes, draft[d] \in DraftRow DEF TypeOK, DraftRow
  <2>2. \A d \in Draft : draft[d] \in DraftRow  BY DEF TypeOK
  <2> QED BY <2>1, <2>2 DEF WithoutDrafts
<1>3. WithoutExpiredLeases \in [Run -> RunRow]
  BY RowTypes DEF TypeOK, WithoutExpiredLeases
<1> QED BY <1>1, <1>2, <1>3

LEMMA TypeInit == Init => TypeOK
<1> SUFFICES ASSUME Init PROVE TypeOK  OBVIOUS
<1>1. run \in [Run -> RunRow]
  BY NewRowType DEF Init, RunStatus
<1>2. (CHOOSE r \in Run : TRUE) \in Run
  BY RunAssumption
<1>3. draft \in [Draft -> DraftRow]
  BY <1>2, ChunkTypes, IngestBoundAssumption DEF Init, DraftRow
<1>4. staged \in [Run -> Snapshot]
  BY ChunkTypes, IngestBoundAssumption DEF Init, Snapshot, Nothing
<1>5. call \in [Thread -> Call] /\ order \in Seq(Run)
  BY DEF Init, Call
<1> QED BY <1>1, <1>3, <1>4, <1>5 DEF Init, TypeOK

\* A call is what its op says.
LEMMA CallTypes ==
  ASSUME NEW c \in Call
  PROVE  /\ c.op = "start" => c \in [op : {"start"}, run : Run, holder : Holder, pins : BOOLEAN]
         /\ c.op = "validate" => c \in [op : {"validate"}, run : Run, asked : 1..MaxRevision,
                                       sealed : 0..MaxRevision]
         /\ c.op = "commit" => c \in [op : {"commit"}, run : Run, hash : Manifest]
BY DEF Call, Idle

LEMMA IdleType == Idle \in Call
BY DEF Call

LEMMA LeaseStepTypes ==
  ASSUME TypeOK,
         \/ \E r \in Run :
              LeaseExpires(r) \/ InvalidateManifest(r) \/ CancelRun(r) \/ MarkFailed(r)
         \/ \E h \in Holder : ClaimNext(h) \/ \E r \in Run : ReleaseLease(h, r)
         \/ ReclaimExpiredLeases
  PROVE  TypeOK'
<1> USE DEF rows, staging, verdicts, commits, told
<1>1. ASSUME NEW r \in Run, LeaseExpires(r) PROVE TypeOK'
  BY <1>1, RowTypes DEF LeaseExpires, TypeOK
<1>2. ASSUME NEW h \in Holder, ClaimNext(h)
      PROVE  TypeOK'
  <2>1. PICK i \in 1..Len(order) :
          /\ CanClaim(h, run[order[i]])
          /\ run' = [run EXCEPT ![order[i]] = Claimed(h, @)]
    BY <1>2 DEF ClaimNext
  <2>2. order[i] \in Run  BY <2>1 DEF TypeOK
  <2>3. run' \in [Run -> RunRow]  BY <2>1, <2>2, RowTypes DEF TypeOK
  <2> QED BY <1>2, <2>3 DEF ClaimNext, TypeOK
<1>3. ASSUME NEW h \in Holder, NEW r \in Run, ReleaseLease(h, r) PROVE TypeOK'
  BY <1>3, RowTypes DEF ReleaseLease, TypeOK
<1>4. CASE ReclaimExpiredLeases  BY <1>4, DraftTypes DEF ReclaimExpiredLeases, TypeOK
<1>5. ASSUME NEW r \in Run, InvalidateManifest(r) PROVE TypeOK'
  BY <1>5, RowTypes DEF InvalidateManifest, TypeOK
<1>6. ASSUME NEW r \in Run, NEW s \in RunStatus, Close(r, s) PROVE TypeOK'
  <2>1. [Leaseless(run[r]) EXCEPT !.status = s] \in RunRow
    BY <1>6, RowTypes DEF TypeOK
  <2>2. run' \in [Run -> RunRow]  BY <1>6, <2>1 DEF Close, TypeOK
  <2>3. draft' \in [Draft -> DraftRow]  BY <1>6, DraftTypes DEF Close, Closed
  <2> QED BY <1>6, <2>2, <2>3 DEF Close, TypeOK
<1>7. "cancelled" \in RunStatus /\ "failed" \in RunStatus  BY DEF RunStatus, Ended
<1> QED BY <1>1, <1>2, <1>3, <1>4, <1>5, <1>6, <1>7 DEF CancelRun, MarkFailed

LEMMA InstallTypes ==
  ASSUME TypeOK, NEW r \in Run, NEW snapshot \in Snapshot, Install(r, snapshot)
  PROVE  TypeOK'
<1>1. run' \in [Run -> RunRow]
  <2>1. [run[r] EXCEPT !.status = "staged", !.rev = @ + 1, !.hash = NoManifest] \in RunRow
    BY RowTypes DEF Install, TypeOK
  <2>2. run' = [run EXCEPT ![r] = [run[r] EXCEPT !.status = "staged", !.rev = @ + 1,
                                                !.hash = NoManifest]]
    BY DEF Install, TypeOK
  <2> QED BY <2>1, <2>2 DEF TypeOK
<1>2. draft' \in [Draft -> DraftRow] /\ staged' \in [Run -> Snapshot]
  BY DraftTypes DEF Install, TypeOK
<1> QED BY <1>1, <1>2 DEF Install, TypeOK, verdicts, commits, told

LEMMA StageStepTypes ==
  ASSUME TypeOK, NEW h \in Holder,
         \/ \E r \in Run, p \in Payload : StageObservations(h, r, p)
         \/ \E r \in Run, d \in Draft, n \in 1..MaxChunks : OpenDraft(h, r, d, n)
         \/ \E d \in Draft, i \in 0..(MaxChunks - 1), p \in Payload : AppendChunk(h, d, i, p)
         \/ \E d \in Draft : FinalizeDraft(h, d) \/ RefuseStaleDraft(h, d)
  PROVE  TypeOK'
<1> USE DEF rows, staging, verdicts, commits, told
<1>0. \A p \in Payload : [payload |-> p, by |-> h] \in Chunk  BY DEF Chunk
<1>1. ASSUME NEW r \in Run, NEW d \in Draft, NEW n \in 1..MaxChunks, OpenDraft(h, r, d, n)
      PROVE  TypeOK'
  <2>1. run[r].attempt \in 0..MaxAttempt  BY DEF TypeOK, RunRow
  <2>2. n \in 0..MaxChunks  BY IngestBoundAssumption
  <2>3. [status |-> "active", run |-> r, epoch |-> run[r].attempt, expected |-> n,
         chunks |-> NoChunks] \in DraftRow
    BY <2>1, <2>2, ChunkTypes DEF DraftRow
  <2>4. ASSUME NEW e \in Draft
        PROVE  draft[e] \in DraftRow /\ [draft[e] EXCEPT !.status = "superseded"] \in DraftRow
    <3>1. draft[e] \in DraftRow  BY DEF TypeOK
    <3> QED BY <3>1 DEF DraftRow
  <2>5. draft' \in [Draft -> DraftRow]
    BY <1>1, <2>3, <2>4 DEF OpenDraft
  <2> QED BY <1>1, <2>5 DEF OpenDraft, TypeOK
<1>2. ASSUME NEW d \in Draft, NEW i \in 0..(MaxChunks - 1), NEW p \in Payload,
             AppendChunk(h, d, i, p)
      PROVE  TypeOK'
  <2>1. Put(draft[d].chunks, i, [payload |-> p, by |-> h]) \in Chunks
    BY <1>0, DraftTypes, ChunkTypes
  <2>2. [draft[d] EXCEPT !.chunks = Put(@, i, [payload |-> p, by |-> h])] \in DraftRow
    <3>1. draft[d] \in DraftRow  BY DEF TypeOK
    <3> QED BY <2>1, <3>1 DEF DraftRow
  <2>3. draft' = draft \/ draft' = [draft EXCEPT ![d] =
          [draft[d] EXCEPT !.chunks = Put(@, i, [payload |-> p, by |-> h])]]
    BY <1>2 DEF AppendChunk, TypeOK
  <2>4. draft' \in [Draft -> DraftRow]
    BY <2>2, <2>3 DEF TypeOK
  <2> QED BY <1>2, <2>4 DEF AppendChunk, TypeOK
<1>3. ASSUME NEW d \in Draft, FinalizeDraft(h, d)
      PROVE  TypeOK'
  <2>1. [chunks |-> draft[d].chunks, expected |-> draft[d].expected, by |-> h, from |-> {d}]
          \in Snapshot
    BY DEF TypeOK, DraftRow, Snapshot
  <2> QED BY <1>3, <2>1, DraftTypes, InstallTypes DEF FinalizeDraft
<1>4. ASSUME NEW d \in Draft, RefuseStaleDraft(h, d) PROVE TypeOK'
  BY <1>4 DEF RefuseStaleDraft, TypeOK
<1>5. ASSUME NEW r \in Run, NEW p \in Payload, StageObservations(h, r, p)
      PROVE  TypeOK'
  <2>1. MaxChunks >= 1 /\ 0 \in 0..(MaxChunks - 1) /\ 1 \in 0..MaxChunks
    BY IngestBoundAssumption
  <2>2. Put(NoChunks, 0, [payload |-> p, by |-> h]) \in Chunks
    BY <1>0, <2>1, ChunkTypes
  <2>3. [chunks |-> Put(NoChunks, 0, [payload |-> p, by |-> h]), expected |-> 1,
         by |-> h, from |-> {}] \in Snapshot
    BY <2>1, <2>2 DEF Snapshot
  <2> QED BY <1>5, <2>3, InstallTypes DEF StageObservations
<1> QED BY <1>1, <1>2, <1>3, <1>4, <1>5

LEMMA ThreadStepTypes ==
  ASSUME TypeOK, NEW t \in Thread,
         \/ \E h \in Holder, r \in Run, c \in Context \cup {NoContext} :
              BeginStartIngest(t, h, r, c)
         \/ \E s \in Blob : FinishStartIngest(t, s)
         \/ \E r \in Run, q \in 1..MaxRevision : ValidateCall(t, r, q)
         \/ SealRun(t)
         \/ \E v \in Verdict : ApplyOutcome(t, v)
         \/ \E r \in Run, m \in Manifest : CommitCall(t, r, m)
         \/ CommitTx(t) \/ CommitLost(t) \/ CallFails(t)
  PROVE  TypeOK'
<1> USE DEF rows, staging, verdicts, commits, told
<1>0. call[t] \in Call  BY DEF TypeOK
<1>1. ASSUME NEW h \in Holder, NEW r \in Run, NEW c \in Context \cup {NoContext},
             BeginStartIngest(t, h, r, c)
      PROVE  TypeOK'
  <2> DEFINE old == IF run[r].status = "absent" THEN NewRow("discovered", c) ELSE run[r]
  <2>1. old \in RunRow
    BY NewRowType DEF TypeOK, RunStatus, PreCommit, AgentClaimable
  <2>2. Attached(c, Claimed(h, old)) \in RunRow
    BY <1>1, <2>1, RowTypes DEF BeginStartIngest
  <2>3. run' \in [Run -> RunRow]
    BY <1>1, <2>2 DEF BeginStartIngest, TypeOK
  <2>4. [op |-> "start", run |-> r, holder |-> h, pins |-> old.status = "discovered"] \in Call
    BY DEF Call
  <2>5. call' \in [Thread -> Call]
    BY <1>1, <2>4 DEF BeginStartIngest, TypeOK
  <2>6. order' \in Seq(Run)
    <3>1. order \in Seq(Run) /\ Append(order, r) \in Seq(Run)  BY DEF TypeOK
    <3>2. order' = order \/ order' = Append(order, r)
      BY <1>1 DEF BeginStartIngest, CreateRun
    <3> QED BY <3>1, <3>2
  <2> QED BY <1>1, <2>3, <2>5, <2>6 DEF BeginStartIngest, TypeOK
<1>2. ASSUME NEW s \in Blob, FinishStartIngest(t, s)
      PROVE  TypeOK'
  <2>1. call[t].run \in Run  BY <1>0, <1>2, CallTypes DEF FinishStartIngest
  <2>2. /\ Extracting(run[call[t].run]) \in RunRow
        /\ Extracting(Captured(run[call[t].run], s)) \in RunRow
    BY <2>1, RowTypes DEF TypeOK
  <2>3. run' \in [Run -> RunRow]
    BY <1>2, <2>1, <2>2 DEF FinishStartIngest, TypeOK
  <2>4. pinned' \in [Run -> SUBSET Blob]
    BY <1>2, <2>1 DEF FinishStartIngest, TypeOK
  <2>5. call' \in [Thread -> Call]
    BY <1>2, IdleType DEF FinishStartIngest, TypeOK
  <2> QED BY <1>2, <2>3, <2>4, <2>5 DEF FinishStartIngest, TypeOK
<1>3. ASSUME NEW r \in Run, NEW q \in 1..MaxRevision, ValidateCall(t, r, q)
      PROVE  TypeOK'
  <2>1. [op |-> "validate", run |-> r, asked |-> q, sealed |-> 0] \in Call
    BY IngestBoundAssumption DEF Call
  <2> QED BY <1>3, <2>1 DEF ValidateCall, TypeOK
<1>4. CASE SealRun(t)
  <2>1. call[t].run \in Run /\ run[call[t].run].rev \in 0..MaxRevision
    BY <1>0, <1>4, CallTypes DEF SealRun, TypeOK, RunRow
  <2>2. call[t] \in [op : {"validate"}, run : Run, asked : 1..MaxRevision,
                     sealed : 0..MaxRevision]
    BY <1>0, <1>4, CallTypes DEF SealRun
  <2>3. [call[t] EXCEPT !.sealed = run[call[t].run].rev] \in Call
    BY <2>1, <2>2 DEF Call
  <2>4. call' = [call EXCEPT ![t] = [call[t] EXCEPT !.sealed = run[call[t].run].rev]]
    BY <1>4 DEF SealRun, TypeOK
  <2> QED BY <1>4, <2>3, <2>4 DEF SealRun, TypeOK
<1>5. ASSUME NEW v \in Verdict, ApplyOutcome(t, v)
      PROVE  TypeOK'
  <2> DEFINE x == [rev |-> call[t].sealed, verdict |-> v]
  <2>1. call[t].run \in Run /\ call[t].sealed \in 0..MaxRevision /\ call[t].sealed # 0
    BY <1>0, <1>5, CallTypes DEF ApplyOutcome
  <2>2. x \in Manifest  BY <2>1, IngestBoundAssumption DEF Manifest
  <2>3. Judged(run[call[t].run], x) \in RunRow
    BY <2>1, <2>2, RowTypes DEF TypeOK
  <2>4. run' \in [Run -> RunRow]  BY <1>5, <2>1, <2>3 DEF ApplyOutcome, TypeOK
  <2>5. attempts' \in [Run -> SUBSET Manifest]
    BY <1>5, <2>1, <2>2 DEF ApplyOutcome, TypeOK
  <2>6. latest' \in [Run -> Manifest \cup {NoManifest}]
    BY <1>5, <2>1, <2>2 DEF ApplyOutcome, TypeOK
  <2>7. call' \in [Thread -> Call]  BY <1>5, IdleType DEF ApplyOutcome, TypeOK
  <2> QED BY <1>5, <2>4, <2>5, <2>6, <2>7 DEF ApplyOutcome, TypeOK
<1>6. ASSUME NEW r \in Run, NEW m \in Manifest, CommitCall(t, r, m)
      PROVE  TypeOK'
  <2>1. [op |-> "commit", run |-> r, hash |-> m] \in Call  BY DEF Call
  <2> QED BY <1>6, <2>1 DEF CommitCall, TypeOK
<1>7. CASE CommitTx(t)
  <2>1. call[t].run \in Run /\ call[t].hash \in Manifest
    BY <1>0, <1>7, CallTypes DEF CommitTx
  <2>2. call[t].hash.verdict \in RunStatus
    BY <2>1 DEF Manifest, Verdict, RunStatus, Ended
  <2>3. [run[call[t].run] EXCEPT !.status = call[t].hash.verdict] \in RunRow
    BY <2>1, <2>2, RowTypes DEF TypeOK
  <2>4. run' = [run EXCEPT ![call[t].run] =
                  [run[call[t].run] EXCEPT !.status = call[t].hash.verdict]]
    BY <1>7, <2>1 DEF CommitTx, TypeOK
  <2>5. run' \in [Run -> RunRow]  BY <2>1, <2>3, <2>4 DEF TypeOK
  <2>6. /\ receipt' \in [Run -> Manifest \cup {NoManifest}]
        /\ answers' \in [Run -> SUBSET Manifest]
        /\ written' \in [Run -> Nat]
    BY <1>7, <2>1 DEF CommitTx, TypeOK
  <2>7. call' \in [Thread -> Call]  BY <1>7, IdleType DEF CommitTx, TypeOK
  <2> QED BY <1>7, <2>5, <2>6, <2>7 DEF CommitTx, TypeOK
<1>8. CASE CommitLost(t)
  <2>1. call[t].run \in Run /\ call[t].hash \in Manifest
    BY <1>0, <1>8, CallTypes DEF CommitLost
  <2>2. answers' \in [Run -> SUBSET Manifest]  BY <1>8, <2>1 DEF CommitLost, TypeOK
  <2>3. call' \in [Thread -> Call]  BY <1>8, IdleType DEF CommitLost, TypeOK
  <2> QED BY <1>8, <2>2, <2>3 DEF CommitLost, TypeOK
<1>9. CASE CallFails(t)  BY <1>9, IdleType DEF CallFails, TypeOK
<1> QED BY <1>1, <1>2, <1>3, <1>4, <1>5, <1>6, <1>7, <1>8, <1>9

LEMMA ProcessStepTypes ==
  ASSUME TypeOK,
         Crash \/ StartupReclaim \/ StartupReclaimFails \/ UNCHANGED ingestVars
  PROVE  TypeOK'
<1> USE DEF rows, staging, verdicts, commits, told
<1>1. CASE Crash  BY <1>1, IdleType DEF Crash, TypeOK
<1>2. CASE StartupReclaim
  <2>1. ASSUME NEW d \in Draft
        PROVE  [draft[d] EXCEPT !.status = "deleted", !.chunks = NoChunks] \in DraftRow
    <3>1. draft[d] \in DraftRow  BY DEF TypeOK
    <3> QED BY <3>1, ChunkTypes DEF DraftRow
  <2>2. \A d \in Draft : draft[d] \in DraftRow  BY DEF TypeOK
  <2>3. draft' \in [Draft -> DraftRow]  BY <1>2, <2>1, <2>2 DEF StartupReclaim
  <2> QED BY <1>2, <2>3, DraftTypes DEF StartupReclaim, TypeOK
<1>3. CASE StartupReclaimFails  BY <1>3 DEF StartupReclaimFails, TypeOK
<1>4. CASE UNCHANGED ingestVars  BY <1>4 DEF ingestVars, TypeOK
<1> QED BY <1>1, <1>2, <1>3, <1>4

LEMMA TypeStep == TypeOK /\ [Next]_ingestVars => TypeOK'
<1> SUFFICES ASSUME TypeOK, [Next]_ingestVars PROVE TypeOK'  OBVIOUS
<1>1. ASSUME NEW r \in Run, NEW m \in Manifest, CommitReplay(r, m) PROVE TypeOK'
  BY <1>1 DEF CommitReplay, TypeOK, rows, staging, verdicts, told
<1> QED
  BY <1>1, LeaseStepTypes, StageStepTypes, ThreadStepTypes, ProcessStepTypes DEF Next

\* Every variable keeps its type: the rows of kpi_ingest_runs, drafts, staged
\* observations, verdicts and receipts never leave the values their columns admit.
THEOREM TypeCorrect == Spec => []TypeOK
<1>1. Init => TypeOK  BY TypeInit
<1>2. TypeOK /\ [Next]_ingestVars => TypeOK'  BY TypeStep
<1> QED BY <1>1, <1>2, PTL DEF Spec

-----------------------------------------------------------------------------
(* The verdict and the commit.  The four properties hold together: none of  *)
(* them is inductive without the others.                                    *)

CommitInv ==
  LeaseEndsAtFreeze /\ FrozenByLatestVerdict /\ ReceiptMatchesRun /\ AnswersAreTheReceipt

\* Nothing of a run that the four properties speak of changes.
Kept(r) ==
  /\ run'[r] = run[r] /\ latest'[r] = latest[r] /\ attempts'[r] = attempts[r]
  /\ receipt'[r] = receipt[r] /\ answers'[r] = answers[r] /\ written'[r] = written[r]

\* A run without receipt goes, or stays, before the verdict.
BeforeVerdict(r) ==
  /\ run[r].status \notin {"complete", "partial"}
  /\ run'[r].status \in AgentClaimable \cup {"staged"}
  /\ run'[r].hash = NoManifest
  /\ receipt'[r] = receipt[r] /\ answers'[r] = answers[r] /\ written'[r] = written[r]

LEMMA QuietStep ==
  ASSUME CommitInv, \A r \in Run : Kept(r) \/ BeforeVerdict(r)
  PROVE  CommitInv'
<1> USE DEF CommitInv
<1>1. LeaseEndsAtFreeze'  BY DEF LeaseEndsAtFreeze, Kept, BeforeVerdict
<1>2. FrozenByLatestVerdict'
  BY DEF FrozenByLatestVerdict, Kept, BeforeVerdict, AgentClaimable, Ready
<1>3. ReceiptMatchesRun'
  BY DEF ReceiptMatchesRun, Kept, BeforeVerdict, AgentClaimable
<1>4. AnswersAreTheReceipt'  BY DEF AnswersAreTheReceipt, Kept, BeforeVerdict
<1> QED BY <1>1, <1>2, <1>3, <1>4

\* Before the verdict there is no manifest, and while somebody holds a lease
\* there is no verdict.
LEMMA EarlyRuns ==
  ASSUME CommitInv, NEW r \in Run
  PROVE  /\ run[r].status \in AgentClaimable \cup {"staged"} => run[r].hash = NoManifest
         /\ run[r].live \/ run[r].holder # NoHolder =>
              run[r].status \in AgentClaimable \cup {"staged"}
BY DEF CommitInv, LeaseEndsAtFreeze, FrozenByLatestVerdict

\* Lease and context are edited without touching status, manifest and revision.
LEMMA RowEdits ==
  ASSUME NEW x \in RunRow
  PROVE  /\ Leaseless(x).status = x.status /\ Leaseless(x).hash = x.hash
         /\ Leaseless(x).rev = x.rev
         /\ Leaseless(x).holder = NoHolder /\ Leaseless(x).live = FALSE
         /\ \A h \in Holder : Claimed(h, x).status = x.status /\ Claimed(h, x).hash = x.hash
         /\ \A c \in Context \cup {NoContext} :
              Attached(c, x).status = x.status /\ Attached(c, x).hash = x.hash
BY DEF RunRow, Leaseless, Claimed, Attached

LEMMA CommitInit == Init => CommitInv
<1> SUFFICES ASSUME Init PROVE CommitInv  OBVIOUS
<1>1. ASSUME NEW r \in Run
      PROVE  /\ run[r].status = "absent" /\ run[r].hash = NoManifest
             /\ run[r].holder = NoHolder /\ run[r].live = FALSE
             /\ receipt[r] = NoManifest /\ answers[r] = {} /\ written[r] = 0
  BY DEF Init, NewRow
<1>2. LeaseEndsAtFreeze  BY <1>1 DEF LeaseEndsAtFreeze
<1>3. FrozenByLatestVerdict  BY <1>1 DEF FrozenByLatestVerdict
<1>4. ReceiptMatchesRun  BY <1>1 DEF ReceiptMatchesRun
<1>5. AnswersAreTheReceipt  BY <1>1 DEF AnswersAreTheReceipt
<1> QED BY <1>2, <1>3, <1>4, <1>5 DEF CommitInv

\* What a reclaim does to each run.
LEMMA ReclaimedRuns ==
  ASSUME TypeOK, CommitInv, run' = WithoutExpiredLeases, UNCHANGED <<verdicts, commits>>
  PROVE  \A k \in Run : Kept(k) \/ BeforeVerdict(k)
<1> SUFFICES ASSUME NEW k \in Run PROVE Kept(k) \/ BeforeVerdict(k)  OBVIOUS
<1>1. CASE ~Expired(run[k])
  BY <1>1 DEF WithoutExpiredLeases, Kept, verdicts, commits
<1>2. CASE Expired(run[k])
  <2>1. run'[k] = Leaseless(run[k]) /\ run[k] \in RunRow  BY <1>2 DEF WithoutExpiredLeases, TypeOK
  <2>2. run[k].status \in AgentClaimable  BY <1>2 DEF Expired
  <2>3. receipt'[k] = receipt[k] /\ answers'[k] = answers[k] /\ written'[k] = written[k]
    BY DEF commits
  <2> QED BY <2>1, <2>2, <2>3, RowEdits, EarlyRuns DEF BeforeVerdict, AgentClaimable
<1> QED BY <1>1, <1>2

LEMMA LeaseStepCommit ==
  ASSUME TypeOK, CommitInv,
         \/ \E r \in Run : LeaseExpires(r) \/ InvalidateManifest(r)
         \/ \E h \in Holder : ClaimNext(h) \/ \E r \in Run : ReleaseLease(h, r)
         \/ ReclaimExpiredLeases
  PROVE  CommitInv'
<1> USE DEF staging, verdicts, commits, told, Kept, BeforeVerdict, AgentClaimable
<1>1. ASSUME NEW r \in Run, LeaseExpires(r) PROVE CommitInv'
  <2>1. /\ run[r] \in RunRow /\ run[r].live /\ run'[r] = [run[r] EXCEPT !.live = FALSE]
        /\ \A k \in Run : k # r => run'[k] = run[k]
    BY <1>1 DEF LeaseExpires, TypeOK
  <2>2. run'[r].status = run[r].status /\ run'[r].hash = run[r].hash
    BY <2>1 DEF RunRow
  <2>3. BeforeVerdict(r)
    BY <1>1, <2>1, <2>2, EarlyRuns DEF LeaseExpires
  <2>4. \A k \in Run : k # r => Kept(k)
    BY <1>1, <2>1 DEF LeaseExpires
  <2> QED BY <2>3, <2>4, QuietStep
<1>2. ASSUME NEW h \in Holder, ClaimNext(h) PROVE CommitInv'
  <2>1. PICK i \in 1..Len(order) :
          /\ CanClaim(h, run[order[i]])
          /\ run' = [run EXCEPT ![order[i]] = Claimed(h, @)]
    BY <1>2 DEF ClaimNext
  <2>2. order[i] \in Run  BY <2>1 DEF TypeOK
  <2>3. /\ run[order[i]] \in RunRow /\ run[order[i]].status \in AgentClaimable
        /\ run'[order[i]] = Claimed(h, run[order[i]])
        /\ \A k \in Run : k # order[i] => run'[k] = run[k]
    BY <2>1, <2>2 DEF CanClaim, TypeOK
  <2>4. BeforeVerdict(order[i])
    <3>1. run'[order[i]].status = run[order[i]].status /\ run'[order[i]].hash = run[order[i]].hash
      BY <2>3, RowEdits
    <3> QED BY <1>2, <2>2, <2>3, <3>1, EarlyRuns DEF ClaimNext
  <2>5. \A k \in Run : k # order[i] => Kept(k)  BY <1>2, <2>3 DEF ClaimNext
  <2> QED BY <2>4, <2>5, QuietStep
<1>3. ASSUME NEW h \in Holder, NEW r \in Run, ReleaseLease(h, r) PROVE CommitInv'
  <2>1. /\ run[r] \in RunRow /\ run[r].holder # NoHolder
        /\ run'[r] = Leaseless(run[r])
        /\ \A k \in Run : k # r => run'[k] = run[k]
    BY <1>3, RunAssumption DEF ReleaseLease, TypeOK
  <2>2. BeforeVerdict(r)  BY <1>3, <2>1, EarlyRuns, RowEdits DEF ReleaseLease
  <2>3. \A k \in Run : k # r => Kept(k)  BY <1>3, <2>1 DEF ReleaseLease
  <2> QED BY <2>2, <2>3, QuietStep
<1>4. CASE ReclaimExpiredLeases
  <2>1. \A k \in Run : Kept(k) \/ BeforeVerdict(k)
    BY <1>4, ReclaimedRuns DEF ReclaimExpiredLeases
  <2> QED BY <2>1, QuietStep
<1>5. ASSUME NEW r \in Run, InvalidateManifest(r) PROVE CommitInv'
  <2>1. /\ run[r].status = "ready_to_commit" /\ run'[r] = Thawed(run[r])
        /\ \A k \in Run : k # r => run'[k] = run[k]
    BY <1>5 DEF InvalidateManifest, TypeOK
  <2>2. run'[r].status = "staged" /\ run'[r].hash = NoManifest
    BY <2>1 DEF Thawed, TypeOK, RunRow
  <2>3. BeforeVerdict(r)
    BY <1>5, <2>1, <2>2 DEF InvalidateManifest
  <2>4. \A k \in Run : k # r => Kept(k)
    BY <1>5, <2>1 DEF InvalidateManifest
  <2> QED BY <2>3, <2>4, QuietStep
<1> QED BY <1>1, <1>2, <1>3, <1>4, <1>5

LEMMA StageStepCommit ==
  ASSUME TypeOK, CommitInv, NEW h \in Holder,
         \/ \E r \in Run, p \in Payload : StageObservations(h, r, p)
         \/ \E r \in Run, d \in Draft, n \in 1..MaxChunks : OpenDraft(h, r, d, n)
         \/ \E d \in Draft, i \in 0..(MaxChunks - 1), p \in Payload : AppendChunk(h, d, i, p)
         \/ \E d \in Draft : FinalizeDraft(h, d) \/ RefuseStaleDraft(h, d)
  PROVE  CommitInv'
<1> USE DEF rows, staging, verdicts, commits, told
<1>1. ASSUME NEW r \in Run, NEW x, MayStage(h, r), Install(r, x) PROVE CommitInv'
  <2>1. \A k \in Run : Kept(k) \/ BeforeVerdict(k)
    BY <1>1 DEF Install, MayStage, Stageable, Kept, BeforeVerdict, TypeOK, RunRow
  <2> QED BY <2>1, QuietStep
<1>2. ASSUME UNCHANGED <<rows, verdicts, commits>> PROVE CommitInv'
  BY <1>2, QuietStep DEF Kept
<1>3. ASSUME NEW r \in Run, NEW p \in Payload, StageObservations(h, r, p) PROVE CommitInv'
  BY <1>1, <1>3 DEF StageObservations
<1>4. ASSUME NEW d \in Draft, FinalizeDraft(h, d) PROVE CommitInv'
  BY <1>1, <1>4, DraftTypes DEF FinalizeDraft, Live
<1> QED BY <1>2, <1>3, <1>4 DEF OpenDraft, AppendChunk, RefuseStaleDraft

LEMMA CloseCommit ==
  ASSUME TypeOK, CommitInv, NEW r \in Run, NEW s \in {"cancelled", "failed"}, Close(r, s)
  PROVE  CommitInv'
<1> USE DEF CommitInv
<1>1. /\ run[r].status \in PreCommit
      /\ run'[r].status = s /\ run'[r].hash = run[r].hash /\ run'[r].rev = run[r].rev
      /\ run'[r].holder = NoHolder /\ run'[r].live = FALSE
      /\ \A k \in Run : k # r => run'[k] = run[k]
      /\ UNCHANGED <<verdicts, commits>>
  BY DEF Close, Active, Leaseless, TypeOK, RunRow
<1>2. LeaseEndsAtFreeze'  BY <1>1 DEF LeaseEndsAtFreeze
<1>3. FrozenByLatestVerdict'
  BY <1>1 DEF FrozenByLatestVerdict, verdicts, AgentClaimable, Ready
<1>4. ReceiptMatchesRun'
  BY <1>1 DEF ReceiptMatchesRun, commits, PreCommit, AgentClaimable
<1>5. AnswersAreTheReceipt'  BY <1>1 DEF AnswersAreTheReceipt, commits
<1> QED BY <1>2, <1>3, <1>4, <1>5

LEMMA StartCommit ==
  ASSUME TypeOK, CommitInv, NEW t \in Thread,
         \/ \E h \in Holder, r \in Run, c \in Context \cup {NoContext} :
              BeginStartIngest(t, h, r, c)
         \/ \E s \in Blob : FinishStartIngest(t, s)
  PROVE  CommitInv'
<1> USE DEF staging, verdicts, commits, told
<1>1. ASSUME NEW h \in Holder, NEW r \in Run, NEW c \in Context \cup {NoContext},
             BeginStartIngest(t, h, r, c)
      PROVE  CommitInv'
  <2> DEFINE old == IF run[r].status = "absent" THEN NewRow("discovered", c) ELSE run[r]
  <2>1. old \in RunRow /\ old.status \in AgentClaimable /\ CanClaim(h, old)
    BY <1>1, NewRowType
    DEF BeginStartIngest, CanClaim, TypeOK, RunStatus, PreCommit, AgentClaimable
  <2>2. old.hash = NoManifest /\ run[r].status \notin {"complete", "partial"}
    BY <2>1, EarlyRuns DEF NewRow, AgentClaimable
  <2>3. Claimed(h, old) \in RunRow  BY <2>1, RowTypes
  <2>4. run'[r] = Attached(c, Claimed(h, old)) /\ \A k \in Run : k # r => run'[k] = run[k]
    BY <1>1 DEF BeginStartIngest, TypeOK
  <2>5. run'[r].status = old.status /\ run'[r].hash = old.hash
    <3> HIDE DEF old
    <3>1. Claimed(h, old).status = old.status /\ Claimed(h, old).hash = old.hash
      BY <2>1, RowEdits
    <3>2. /\ Attached(c, Claimed(h, old)).status = Claimed(h, old).status
          /\ Attached(c, Claimed(h, old)).hash = Claimed(h, old).hash
      BY <2>3, RowEdits
    <3> QED BY <2>4, <3>1, <3>2
  <2>6. BeforeVerdict(r)  BY <1>1, <2>1, <2>2, <2>5 DEF BeginStartIngest, BeforeVerdict
  <2>7. \A k \in Run : k # r => Kept(k)  BY <1>1, <2>4 DEF BeginStartIngest, Kept
  <2> QED BY <2>6, <2>7, QuietStep
<1>2. ASSUME NEW s \in Blob, FinishStartIngest(t, s) PROVE CommitInv'
  <2> DEFINE r == call[t].run
             x == run[r]
             y == IF call[t].pins THEN Captured(x, s) ELSE x
  <2>1. r \in Run  BY <1>2, CallTypes DEF FinishStartIngest, TypeOK
  <2>2. x \in RunRow /\ y \in RunRow  BY <2>1, RowTypes DEF TypeOK
  <2>3. run'[r] = Extracting(y) /\ \A k \in Run : k # r => run'[k] = run[k]
    BY <1>2, <2>1 DEF FinishStartIngest, TypeOK
  <2>4. y = x \/ (x.status = "discovered" /\ y.status = "source_captured" /\ y.hash = x.hash)
    BY <2>2 DEF Captured, RunRow
  <2>5. Extracting(y) = y \/ (/\ y.status = "source_captured"
                             /\ Extracting(y).status = "extracting" /\ Extracting(y).hash = y.hash)
    BY <2>2 DEF Extracting, MayExtract, RunRow
  <2>6. /\ latest' = latest /\ attempts' = attempts
        /\ receipt' = receipt /\ answers' = answers /\ written' = written
    BY <1>2 DEF FinishStartIngest
  <2>7. Kept(r) \/ BeforeVerdict(r)
    BY <2>1, <2>3, <2>4, <2>5, <2>6, EarlyRuns DEF Kept, BeforeVerdict, AgentClaimable
  <2>8. \A k \in Run : k # r => Kept(k)  BY <2>3, <2>6 DEF Kept
  <2> QED BY <2>7, <2>8, QuietStep
<1> QED BY <1>1, <1>2

\* FrozenByLatestVerdict and ReceiptMatchesRun of one run.
FrozenRun(r) ==
  /\ run[r].status \in {"ready_to_commit", "complete", "partial"} => run[r].hash # NoManifest
  /\ run[r].status \in AgentClaimable \cup {"staged"} => run[r].hash = NoManifest
  /\ run[r].hash # NoManifest =>
       /\ run[r].hash = latest[r] /\ run[r].hash \in attempts[r]
       /\ Ready(run[r].hash) /\ run[r].hash.rev = run[r].rev

ReceiptOf(r) ==
  /\ run[r].status \in {"complete", "partial"} <=> receipt[r] # NoManifest
  /\ receipt[r] # NoManifest => receipt[r] = run[r].hash /\ run[r].status = receipt[r].verdict
  /\ written[r] = (IF receipt[r] = NoManifest THEN 0 ELSE 1)

LEMMA VerdictCommit ==
  ASSUME TypeOK, CommitInv, NEW t \in Thread, NEW v \in Verdict, ApplyOutcome(t, v)
  PROVE  CommitInv'
<1> USE DEF staging, commits, told
<1> DEFINE r == call[t].run
           m == [rev |-> call[t].sealed, verdict |-> v]
<1>1. r \in Run /\ call[t].sealed \in 0..MaxRevision
  BY CallTypes DEF ApplyOutcome, TypeOK
<1>2. /\ run[r] \in RunRow /\ run[r].status = "staged" /\ run[r].hash = NoManifest
      /\ run[r].rev = m.rev
      /\ run'[r] = Judged(run[r], m) /\ \A k \in Run : k # r => run'[k] = run[k]
      /\ latest'[r] = m /\ attempts'[r] = attempts[r] \cup {m}
      /\ \A k \in Run : k # r => latest'[k] = latest[k] /\ attempts'[k] = attempts[k]
      /\ receipt' = receipt /\ answers' = answers /\ written' = written
  BY <1>1 DEF ApplyOutcome, Unfrozen, TypeOK
<1>3. CASE ~Ready(m)
  <2>1. run'[r].status = "validation_failed" /\ run'[r].hash = NoManifest
    BY <1>2, <1>3 DEF Judged, RunRow
  <2>2. BeforeVerdict(r)  BY <1>2, <2>1 DEF BeforeVerdict, AgentClaimable
  <2>3. \A k \in Run : k # r => Kept(k)  BY <1>2 DEF Kept
  <2> QED BY <2>2, <2>3, QuietStep
<1>4. CASE Ready(m)
  <2> DEFINE x == [run[r] EXCEPT !.status = "ready_to_commit", !.hash = m]
  <2>1. x.status = "ready_to_commit" /\ x.hash = m /\ x.rev = m.rev
    BY <1>2 DEF RunRow
  <2>2. run'[r] = Leaseless(x)  BY <1>2, <1>4 DEF Judged
  <2>0. m # NoManifest
    <3>1. call[t].sealed # 0  BY DEF ApplyOutcome
    <3>2. m \in Manifest  BY <1>1, <3>1, IngestBoundAssumption DEF Manifest
    <3> QED BY <3>2, ManifestAssumption
  <2>3. /\ run'[r].status = "ready_to_commit" /\ run'[r].hash = m /\ run'[r].rev = m.rev
        /\ run'[r].holder = NoHolder /\ run'[r].live = FALSE
    BY <1>2, <2>1, <2>2 DEF Leaseless, RunRow
  <2>4. LeaseEndsAtFreeze'  BY <1>2, <2>3 DEF CommitInv, LeaseEndsAtFreeze
  <2>5. FrozenByLatestVerdict'
    <3> SUFFICES ASSUME NEW k \in Run PROVE FrozenRun(k)'  BY DEF FrozenByLatestVerdict, FrozenRun
    <3>1. CASE k = r  BY <1>2, <1>4, <2>0, <2>3, <3>1 DEF FrozenRun, Ready, AgentClaimable
    <3>2. CASE k # r  BY <1>2, <3>2 DEF CommitInv, FrozenByLatestVerdict, FrozenRun, Ready
    <3> QED BY <3>1, <3>2
  <2>6. ReceiptMatchesRun'  BY <1>1, <1>2, <2>3 DEF CommitInv, ReceiptMatchesRun
  <2>7. AnswersAreTheReceipt'  BY <1>2 DEF CommitInv, AnswersAreTheReceipt
  <2> QED BY <2>4, <2>5, <2>6, <2>7 DEF CommitInv
<1> QED BY <1>3, <1>4

LEMMA CommitTxCommit ==
  ASSUME TypeOK, CommitInv, NEW t \in Thread, CommitTx(t)
  PROVE  CommitInv'
<1> USE DEF staging, verdicts, told
<1> DEFINE r == call[t].run
           m == call[t].hash
<1>1. r \in Run /\ m \in Manifest /\ m # NoManifest
  BY CallTypes, ManifestAssumption DEF CommitTx, TypeOK
<1>2. /\ run[r] \in RunRow /\ run[r].status = "ready_to_commit" /\ run[r].hash = m
      /\ run'[r] = [run[r] EXCEPT !.status = m.verdict]
      /\ \A k \in Run : k # r => run'[k] = run[k]
      /\ latest' = latest /\ attempts' = attempts
      /\ receipt'[r] = m /\ written'[r] = written[r] + 1 /\ answers'[r] = answers[r] \cup {m}
      /\ \A k \in Run : k # r => /\ receipt'[k] = receipt[k] /\ written'[k] = written[k]
                                 /\ answers'[k] = answers[k]
  BY <1>1 DEF CommitTx, Committable, TypeOK
<1>3. /\ run[r].holder = NoHolder /\ run[r].live = FALSE
      /\ m = latest[r] /\ m \in attempts[r] /\ Ready(m) /\ m.rev = run[r].rev
      /\ receipt[r] = NoManifest /\ written[r] = 0 /\ answers[r] = {}
  <2>1. run[r].holder = NoHolder /\ run[r].live = FALSE
    BY <1>1, <1>2 DEF CommitInv, LeaseEndsAtFreeze, AgentClaimable, RunRow
  <2>2. m = latest[r] /\ m \in attempts[r] /\ Ready(m) /\ m.rev = run[r].rev
    BY <1>1, <1>2 DEF CommitInv, FrozenByLatestVerdict
  <2>3. receipt[r] = NoManifest /\ written[r] = 0
    BY <1>1, <1>2 DEF CommitInv, ReceiptMatchesRun
  <2>4. answers[r] = {}  BY <1>1, <2>3 DEF CommitInv, AnswersAreTheReceipt
  <2> QED BY <2>1, <2>2, <2>3, <2>4
<1>4. m.verdict \in {"complete", "partial"}
  BY <1>1, <1>3 DEF Ready, Manifest, Verdict
<1>5. /\ run'[r].status = m.verdict /\ run'[r].hash = m /\ run'[r].rev = run[r].rev
      /\ run'[r].holder = NoHolder /\ run'[r].live = FALSE
  BY <1>2, <1>3 DEF RunRow
<1>6. LeaseEndsAtFreeze'  BY <1>2, <1>5 DEF CommitInv, LeaseEndsAtFreeze
<1>7. FrozenByLatestVerdict'
  <2> SUFFICES ASSUME NEW k \in Run PROVE FrozenRun(k)'  BY DEF FrozenByLatestVerdict, FrozenRun
  <2>1. CASE k = r  BY <1>1, <1>2, <1>3, <1>4, <1>5, <2>1 DEF FrozenRun, Ready, AgentClaimable
  <2>2. CASE k # r  BY <1>2, <2>2 DEF CommitInv, FrozenByLatestVerdict, FrozenRun, Ready
  <2> QED BY <2>1, <2>2
<1>8. ReceiptMatchesRun'
  <2> SUFFICES ASSUME NEW k \in Run PROVE ReceiptOf(k)'  BY DEF ReceiptMatchesRun, ReceiptOf
  <2>1. CASE k = r
    <3>1. receipt'[r] = m /\ m # NoManifest  BY <1>1, <1>2
    <3>2. run'[r].status = m.verdict /\ run'[r].hash = m  BY <1>5
    <3>3. written'[r] = 1  BY <1>2, <1>3
    <3> QED BY <1>4, <2>1, <3>1, <3>2, <3>3 DEF ReceiptOf
  <2>2. CASE k # r  BY <1>2, <2>2 DEF CommitInv, ReceiptMatchesRun, ReceiptOf
  <2> QED BY <2>1, <2>2
<1>9. AnswersAreTheReceipt'
  BY <1>1, <1>2, <1>3 DEF CommitInv, AnswersAreTheReceipt
<1> QED BY <1>6, <1>7, <1>8, <1>9 DEF CommitInv

\* An answer out of the receipt, to a replay or to the loser of a race.
LEMMA AnswerCommit ==
  ASSUME TypeOK, CommitInv, NEW r \in Run, NEW m \in Manifest, ReceiptAnswers(r, m),
         answers' = [answers EXCEPT ![r] = @ \cup {m}],
         UNCHANGED <<run, verdicts, receipt, written>>
  PROVE  CommitInv'
<1> USE DEF CommitInv, verdicts
<1>1. LeaseEndsAtFreeze' /\ FrozenByLatestVerdict' /\ ReceiptMatchesRun'
  BY DEF LeaseEndsAtFreeze, FrozenByLatestVerdict, ReceiptMatchesRun, Ready
<1>2. AnswersAreTheReceipt'
  BY ManifestAssumption DEF AnswersAreTheReceipt, ReceiptAnswers, TypeOK
<1> QED BY <1>1, <1>2

LEMMA CommitStep == TypeOK /\ CommitInv /\ [Next]_ingestVars => CommitInv'
<1> SUFFICES ASSUME TypeOK, CommitInv, [Next]_ingestVars PROVE CommitInv'  OBVIOUS
<1> USE DEF rows, staging, verdicts, commits, told
<1>1. ASSUME UNCHANGED <<rows, verdicts, commits>> PROVE CommitInv'
  BY <1>1, QuietStep DEF Kept
<1>2. ASSUME NEW r \in Run, CancelRun(r) \/ MarkFailed(r) PROVE CommitInv'
  BY <1>2, CloseCommit DEF CancelRun, MarkFailed
<1>3. ASSUME NEW t \in Thread, CommitLost(t) PROVE CommitInv'
  <2>1. call[t].run \in Run /\ call[t].hash \in Manifest
    BY <1>3, CallTypes DEF CommitLost, TypeOK
  <2> QED BY <1>3, <2>1, AnswerCommit DEF CommitLost
<1>4. ASSUME NEW r \in Run, NEW m \in Manifest, CommitReplay(r, m) PROVE CommitInv'
  BY <1>4, AnswerCommit DEF CommitReplay
<1>5. CASE StartupReclaim  BY <1>5, ReclaimedRuns, QuietStep DEF StartupReclaim
<1>6. ASSUME \/ Crash \/ StartupReclaimFails \/ UNCHANGED ingestVars
             \/ \E t \in Thread :
                  \/ \E r \in Run, q \in 1..MaxRevision : ValidateCall(t, r, q)
                  \/ SealRun(t) \/ CallFails(t)
                  \/ \E r \in Run, m \in Manifest : CommitCall(t, r, m)
      PROVE  CommitInv'
  BY <1>1, <1>6
  DEF Crash, StartupReclaimFails, ingestVars, ValidateCall, SealRun, CallFails, CommitCall
<1> QED
  BY <1>2, <1>3, <1>4, <1>5, <1>6, LeaseStepCommit, StageStepCommit, StartCommit,
     VerdictCommit, CommitTxCommit DEF Next

LEMMA CommitAlways == Spec => [](TypeOK /\ CommitInv)
<1>1. Init => TypeOK /\ CommitInv  BY TypeInit, CommitInit
<1>2. TypeOK /\ CommitInv /\ [Next]_ingestVars => (TypeOK /\ CommitInv)'
  BY TypeStep, CommitStep
<1> QED BY <1>1, <1>2, PTL DEF Spec

\* From the verdict on nobody holds a lease of the run (mark_ready_to_commit
\* ends it, begin_committing and the two closings find or leave none).
THEOREM LeaseEndsAtFreezeHolds == Spec => []LeaseEndsAtFreeze
BY CommitAlways, PTL DEF CommitInv

\* A run is frozen by the newest verdict on its own revision, and only by one
\* that is ready: whatever restages, invalidations and other validators came
\* between the seal and apply_validation_outcome.
THEOREM FrozenByLatestVerdictHolds == Spec => []FrozenByLatestVerdict
BY CommitAlways, PTL DEF CommitInv

\* The receipt and the ended run agree, and the facts of a run are written
\* once, however many callers of commit_manifest race or ask again.
THEOREM ReceiptMatchesRunHolds == Spec => []ReceiptMatchesRun
BY CommitAlways, PTL DEF CommitInv

\* All callers who were told that a manifest is committed were told the one in
\* the receipt.
THEOREM AnswersAreTheReceiptHolds == Spec => []AnswersAreTheReceipt
BY CommitAlways, PTL DEF CommitInv

\* A freeze ends the lease and is by the newest verdict on what is staged
\* (apply_validation_outcome).
THEOREM FreezeIsSoundHolds == Spec => []FreezeIsSound
BY LeaseEndsAtFreezeHolds, FrozenByLatestVerdictHolds, PTL DEF FreezeIsSound

\* Run, receipt, what was written and what callers were told agree
\* (commit_manifest).
THEOREM ReceiptIsExactHolds == Spec => []ReceiptIsExact
BY ReceiptMatchesRunHolds, AnswersAreTheReceiptHolds, PTL DEF ReceiptIsExact

-----------------------------------------------------------------------------
(* The end of a run. *)

Final(r) ==
  run[r].status \in Ended =>
    run'[r] = run[r] /\ receipt'[r] = receipt[r] /\ staged'[r] = staged[r]

\* An ended run has no lease, and no guard of a writer admits it.
LEMMA EndedRuns ==
  ASSUME TypeOK, CommitInv, NEW r \in Run, run[r].status \in Ended
  PROVE  /\ run[r].holder = NoHolder /\ run[r].live = FALSE
         /\ run[r].status \notin PreCommit /\ run[r].status # "absent"
<1>1. run[r].status \notin PreCommit /\ run[r].status # "absent"
  BY DEF Ended, PreCommit, AgentClaimable
<1>2. run[r].holder = NoHolder /\ run[r].live = FALSE
  BY <1>1 DEF CommitInv, LeaseEndsAtFreeze, PreCommit, TypeOK, RunRow
<1> QED BY <1>1, <1>2

LEMMA FinalStep ==
  ASSUME TypeOK, CommitInv, [Next]_ingestVars
  PROVE  \A r \in Run : Final(r)
<1> SUFFICES ASSUME NEW r \in Run, run[r].status \in Ended
             PROVE  run'[r] = run[r] /\ receipt'[r] = receipt[r] /\ staged'[r] = staged[r]
  BY DEF Final
<1> DEFINE Stays == run'[r] = run[r] /\ receipt'[r] = receipt[r] /\ staged'[r] = staged[r]
<1> USE DEF rows, staging, verdicts, commits, told
<1>0. /\ run[r].holder = NoHolder /\ run[r].live = FALSE
      /\ run[r].status \notin PreCommit /\ run[r].status # "absent"
  BY EndedRuns
<1>2. ASSUME NEW k \in Run,
             LeaseExpires(k) \/ InvalidateManifest(k) \/ CancelRun(k) \/ MarkFailed(k)
      PROVE  Stays
  <2>1. k # r
    BY <1>0, <1>2
    DEF LeaseExpires, InvalidateManifest, CancelRun, MarkFailed, Close, Active, PreCommit
  <2> QED
    BY <1>2, <2>1 DEF LeaseExpires, InvalidateManifest, CancelRun, MarkFailed, Close, TypeOK
<1>3. ASSUME NEW h \in Holder, ClaimNext(h) PROVE Stays
  <2>1. PICK i \in 1..Len(order) :
          /\ CanClaim(h, run[order[i]])
          /\ run' = [run EXCEPT ![order[i]] = Claimed(h, @)]
    BY <1>3 DEF ClaimNext
  <2>2. order[i] \in Run  BY <2>1 DEF TypeOK
  <2>3. order[i] # r  BY <1>0, <2>1 DEF CanClaim, PreCommit
  <2>4. run'[r] = run[r]  BY <2>1, <2>2, <2>3 DEF TypeOK
  <2> QED BY <1>3, <2>4 DEF ClaimNext
<1>4. ASSUME NEW h \in Holder, NEW k \in Run, ReleaseLease(h, k) PROVE Stays
  <2>1. k # r  BY <1>0, <1>4, RunAssumption DEF ReleaseLease
  <2> QED BY <1>4, <2>1 DEF ReleaseLease, TypeOK
<1>5. ASSUME NEW h \in Holder, NEW k \in Run, NEW x, MayStage(h, k), Install(k, x)
      PROVE  Stays
  <2>1. k # r
    BY <1>0, <1>5 DEF MayStage, Stageable, PreCommit, AgentClaimable
  <2> QED BY <1>5, <2>1 DEF Install, TypeOK
<1>6. ASSUME NEW h \in Holder, NEW k \in Run, NEW p \in Payload, StageObservations(h, k, p)
      PROVE  Stays
  BY <1>5, <1>6 DEF StageObservations
<1>7. ASSUME NEW h \in Holder, NEW d \in Draft, FinalizeDraft(h, d) PROVE Stays
  BY <1>5, <1>7, DraftTypes DEF FinalizeDraft, Live
<1>8. ASSUME run' = WithoutExpiredLeases, UNCHANGED <<staged, receipt>> PROVE Stays
  BY <1>0, <1>8 DEF WithoutExpiredLeases, Expired, PreCommit
<1>9. ASSUME NEW t \in Thread, NEW h \in Holder, NEW k \in Run, NEW c \in Context \cup {NoContext},
             BeginStartIngest(t, h, k, c)
      PROVE  Stays
  <2>1. k # r
    BY <1>0, <1>9 DEF BeginStartIngest, CreateRun, Active
  <2> QED BY <1>9, <2>1 DEF BeginStartIngest, TypeOK
<1>10. ASSUME NEW t \in Thread, NEW s \in Blob, FinishStartIngest(t, s) PROVE Stays
  <2>1. call[t].run \in Run  BY <1>10, CallTypes DEF FinishStartIngest, TypeOK
  <2>2. run[r].status # "discovered" /\ run[r].status # "source_captured"
    BY <1>0 DEF PreCommit, AgentClaimable
  <2>3. Captured(run[r], s) = run[r] /\ Extracting(run[r]) = run[r]
    BY <2>2 DEF Captured, Extracting, MayExtract
  <2>4. run'[r] = run[r]
    BY <1>10, <2>1, <2>3 DEF FinishStartIngest, TypeOK
  <2> QED BY <1>10, <2>4 DEF FinishStartIngest
<1>11. ASSUME NEW t \in Thread, NEW v \in Verdict, ApplyOutcome(t, v) PROVE Stays
  <2>1. call[t].run \in Run  BY <1>11, CallTypes DEF ApplyOutcome, TypeOK
  <2>2. call[t].run # r  BY <1>0, <1>11 DEF ApplyOutcome, Unfrozen, PreCommit
  <2> QED BY <1>11, <2>1, <2>2 DEF ApplyOutcome, TypeOK
<1>12. ASSUME NEW t \in Thread, CommitTx(t) PROVE Stays
  <2>1. call[t].run \in Run  BY <1>12, CallTypes DEF CommitTx, TypeOK
  <2>2. call[t].run # r  BY <1>0, <1>12 DEF CommitTx, Committable, PreCommit
  <2> QED BY <1>12, <2>1, <2>2 DEF CommitTx, TypeOK
<1>13. ASSUME UNCHANGED <<run, staged, receipt>> PROVE Stays  BY <1>13
<1>14. ASSUME NEW h \in Holder,
              \/ \E k \in Run, d \in Draft, n \in 1..MaxChunks : OpenDraft(h, k, d, n)
              \/ \E d \in Draft, i \in 0..(MaxChunks - 1), p \in Payload : AppendChunk(h, d, i, p)
              \/ \E d \in Draft : RefuseStaleDraft(h, d)
       PROVE  Stays
  BY <1>13, <1>14 DEF OpenDraft, AppendChunk, RefuseStaleDraft
<1>15. ASSUME NEW t \in Thread,
              \/ \E k \in Run, q \in 1..MaxRevision : ValidateCall(t, k, q)
              \/ SealRun(t) \/ CommitLost(t) \/ CallFails(t)
              \/ \E k \in Run, m \in Manifest : CommitCall(t, k, m)
       PROVE  Stays
  BY <1>13, <1>15 DEF ValidateCall, SealRun, CommitLost, CallFails, CommitCall
<1>16. ASSUME NEW k \in Run, NEW m \in Manifest, CommitReplay(k, m) PROVE Stays
  BY <1>13, <1>16 DEF CommitReplay
<1>17. CASE ReclaimExpiredLeases \/ StartupReclaim
  BY <1>8, <1>17 DEF ReclaimExpiredLeases, StartupReclaim
<1>18. CASE Crash \/ StartupReclaimFails \/ UNCHANGED ingestVars
  BY <1>13, <1>18 DEF Crash, StartupReclaimFails, ingestVars
<1>19. ASSUME NEW h \in Holder,
              \/ ClaimNext(h)
              \/ \E k \in Run : ReleaseLease(h, k)
              \/ \E k \in Run, p \in Payload : StageObservations(h, k, p)
              \/ \E d \in Draft : FinalizeDraft(h, d)
       PROVE  Stays
  BY <1>3, <1>4, <1>6, <1>7, <1>19
<1>20. ASSUME NEW t \in Thread,
              \/ \E h \in Holder, k \in Run, c \in Context \cup {NoContext} :
                   BeginStartIngest(t, h, k, c)
              \/ \E s \in Blob : FinishStartIngest(t, s)
              \/ \E v \in Verdict : ApplyOutcome(t, v)
              \/ CommitTx(t)
       PROVE  Stays
  BY <1>9, <1>10, <1>11, <1>12, <1>20
<1>21. CASE \E h \in Holder :
              \/ ClaimNext(h)
              \/ \E k \in Run : ReleaseLease(h, k)
              \/ \E k \in Run, p \in Payload : StageObservations(h, k, p)
              \/ \E k \in Run, d \in Draft, n \in 1..MaxChunks : OpenDraft(h, k, d, n)
              \/ \E d \in Draft, i \in 0..(MaxChunks - 1), p \in Payload : AppendChunk(h, d, i, p)
              \/ \E d \in Draft : FinalizeDraft(h, d) \/ RefuseStaleDraft(h, d)
  BY <1>14, <1>19, <1>21
<1>22. CASE \E t \in Thread :
              \/ \E h \in Holder, k \in Run, c \in Context \cup {NoContext} :
                   BeginStartIngest(t, h, k, c)
              \/ \E s \in Blob : FinishStartIngest(t, s)
              \/ \E k \in Run, q \in 1..MaxRevision : ValidateCall(t, k, q)
              \/ SealRun(t)
              \/ \E v \in Verdict : ApplyOutcome(t, v)
              \/ \E k \in Run, m \in Manifest : CommitCall(t, k, m)
              \/ CommitTx(t) \/ CommitLost(t) \/ CallFails(t)
  BY <1>15, <1>20, <1>22
<1>23. Stays
  BY <1>2, <1>16, <1>17, <1>18, <1>21, <1>22 DEF Next
<1> QED BY <1>23 DEF Stays

\* A run that has ended stays as it ended: neither a late call of a holder or a
\* validator, nor a reclaim, nor a restart changes its row, its receipt or its
\* staged observations.
THEOREM EndIsFinalHolds == Spec => EndIsFinal
<1>1. TypeOK /\ CommitInv /\ [Next]_ingestVars =>
        [\A r \in Run : run[r].status \in Ended =>
            run'[r] = run[r] /\ receipt'[r] = receipt[r] /\ staged'[r] = staged[r]]_ingestVars
  BY FinalStep DEF Final
<1> QED BY <1>1, CommitAlways, PTL DEF Spec, EndIsFinal

-----------------------------------------------------------------------------
(* The runs of a target. *)

\* No run is created, and none comes from or goes to nowhere.
NoneCreated ==
  /\ order' = order
  /\ \A r \in Run : run'[r].status = "absent" <=> run[r].status = "absent"

\* Run r is, for a target that has no open run.
Created(r) ==
  /\ run[r].status = "absent" /\ run'[r].status # "absent"
  /\ \A k \in Run : TargetOf[k] = TargetOf[r] => ~Active(k)
  /\ order' = Append(order, r)
  /\ \A k \in Run \ {r} : run'[k] = run[k]

LEMMA StartCreates ==
  ASSUME TypeOK, NEW t \in Thread, NEW h \in Holder, NEW r \in Run,
         NEW c \in Context \cup {NoContext}, BeginStartIngest(t, h, r, c)
  PROVE  NoneCreated \/ Created(r)
<1> DEFINE old == IF run[r].status = "absent" THEN NewRow("discovered", c) ELSE run[r]
<1>1. old \in RunRow
  BY NewRowType DEF TypeOK, RunStatus, PreCommit, AgentClaimable
<1>2. run' = [run EXCEPT ![r] = Attached(c, Claimed(h, old))] /\ CanClaim(h, old)
  BY DEF BeginStartIngest
<1>3. Attached(c, Claimed(h, old)).status = old.status
  <2> HIDE DEF old
  <2>1. Claimed(h, old) \in RunRow /\ Claimed(h, old).status = old.status
    BY <1>1, <1>2, RowTypes, RowEdits
  <2> QED BY <2>1, RowEdits
<1>4. old.status # "absent"
  BY <1>2 DEF CanClaim, AgentClaimable
<1>5. run'[r].status # "absent" /\ \A k \in Run \ {r} : run'[k] = run[k]
  BY <1>2, <1>3, <1>4 DEF TypeOK
<1>6. CASE CreateRun(r, c)
  BY <1>5, <1>6 DEF CreateRun, Created
<1>7. CASE Active(r) /\ UNCHANGED order
  BY <1>5, <1>7 DEF Active, PreCommit, AgentClaimable, NoneCreated
<1>8. CreateRun(r, c) \/ (Active(r) /\ UNCHANGED order)  BY DEF BeginStartIngest
<1> QED BY <1>6, <1>7, <1>8

LEMMA RunSteps ==
  ASSUME TypeOK, [Next]_ingestVars
  PROVE  NoneCreated \/ \E r \in Run : Created(r)
<1> USE DEF rows, staging, verdicts, commits, told
<1>1. ASSUME UNCHANGED rows PROVE NoneCreated  BY <1>1 DEF NoneCreated
<1>2. ASSUME NEW k \in Run, NEW x \in RunRow, UNCHANGED order, run' = [run EXCEPT ![k] = x],
             run[k].status # "absent", x.status # "absent"
      PROVE  NoneCreated
  BY <1>2 DEF NoneCreated, TypeOK
<1>3. ASSUME NEW k \in Run, NEW x \in RunRow, UNCHANGED order, run' = [run EXCEPT ![k] = x],
             x.status = run[k].status
      PROVE  NoneCreated
  BY <1>3 DEF NoneCreated, TypeOK
<1>4. ASSUME NEW k \in Run, LeaseExpires(k) \/ \E h \in Holder : ReleaseLease(h, k)
      PROVE  NoneCreated
  <2>1. run[k] \in RunRow  BY DEF TypeOK
  <2>2. CASE LeaseExpires(k)
    <3>1. run' = [run EXCEPT ![k] = [run[k] EXCEPT !.live = FALSE]]
      BY <2>2 DEF LeaseExpires, TypeOK
    <3>2. [run[k] EXCEPT !.live = FALSE] \in RunRow /\ [run[k] EXCEPT !.live = FALSE].status = run[k].status
      BY <2>1, RowTypes DEF RunRow
    <3> QED BY <1>3, <2>2, <3>1, <3>2 DEF LeaseExpires
  <2>3. CASE \E h \in Holder : ReleaseLease(h, k)
    <3>1. run' = [run EXCEPT ![k] = Leaseless(run[k])] /\ UNCHANGED order
      BY <2>3 DEF ReleaseLease, TypeOK
    <3> QED BY <1>3, <2>1, <3>1, RowTypes, RowEdits
  <2> QED BY <1>4, <2>2, <2>3
<1>5. ASSUME NEW k \in Run, InvalidateManifest(k) \/ CancelRun(k) \/ MarkFailed(k)
      PROVE  NoneCreated
  <2>1. run[k] \in RunRow  BY DEF TypeOK
  <2>2. CASE InvalidateManifest(k)
    <3>1. run' = [run EXCEPT ![k] = Thawed(run[k])]
      BY <2>2 DEF InvalidateManifest, TypeOK
    <3>2. Thawed(run[k]) \in RunRow /\ Thawed(run[k]).status = "staged"
      BY <2>1, RowTypes DEF Thawed, RunRow
    <3> QED BY <1>2, <2>2, <3>1, <3>2 DEF InvalidateManifest
  <2>3. ASSUME NEW s \in {"cancelled", "failed"}, Close(k, s) PROVE NoneCreated
    <3>1. run' = [run EXCEPT ![k] = [Leaseless(run[k]) EXCEPT !.status = s]]
      BY <2>3 DEF Close, TypeOK
    <3>2. s \in RunStatus  BY DEF RunStatus, Ended
    <3>3. Leaseless(run[k]) \in RunRow  BY <2>1, RowTypes
    <3>4. /\ [Leaseless(run[k]) EXCEPT !.status = s] \in RunRow
          /\ [Leaseless(run[k]) EXCEPT !.status = s].status = s
      BY <3>2, <3>3, RowTypes DEF RunRow
    <3>5. run[k].status # "absent" /\ UNCHANGED order
      BY <2>3 DEF Close, Active, PreCommit, AgentClaimable
    <3> QED BY <1>2, <3>1, <3>4, <3>5
  <2> QED BY <1>5, <2>2, <2>3 DEF CancelRun, MarkFailed
<1>6. ASSUME NEW h \in Holder, ClaimNext(h) PROVE NoneCreated
  <2>1. PICK i \in 1..Len(order) :
          /\ CanClaim(h, run[order[i]])
          /\ run' = [run EXCEPT ![order[i]] = Claimed(h, @)]
    BY <1>6 DEF ClaimNext
  <2>2. order[i] \in Run /\ run[order[i]] \in RunRow  BY <2>1 DEF TypeOK
  <2>3. run' = [run EXCEPT ![order[i]] = Claimed(h, run[order[i]])]  BY <2>1, <2>2 DEF TypeOK
  <2>4. Claimed(h, run[order[i]]) \in RunRow
    BY <2>1, <2>2, RowTypes
  <2>5. Claimed(h, run[order[i]]).status = run[order[i]].status /\ UNCHANGED order
    BY <1>6, <2>2, RowEdits DEF ClaimNext
  <2> QED BY <1>3, <2>2, <2>3, <2>4, <2>5
<1>7. ASSUME NEW h \in Holder, NEW k \in Run, NEW x, MayStage(h, k), Install(k, x)
      PROVE  NoneCreated
  <2>1. run[k] \in RunRow /\ run[k].rev < MaxRevision  BY <1>7 DEF Install, TypeOK
  <2> DEFINE y == [run[k] EXCEPT !.status = "staged", !.rev = @ + 1, !.hash = NoManifest]
  <2>2. run' = [run EXCEPT ![k] = y]  BY <1>7 DEF Install, TypeOK
  <2>3. y \in RunRow /\ y.status = "staged"  BY <2>1, RowTypes DEF RunRow
  <2>4. run[k].status # "absent" /\ UNCHANGED order
    BY <1>7 DEF Install, MayStage, Stageable
  <2> HIDE DEF y
  <2> QED BY <1>2, <2>2, <2>3, <2>4
<1>8. ASSUME NEW h \in Holder,
             \/ \E k \in Run, p \in Payload : StageObservations(h, k, p)
             \/ \E d \in Draft : FinalizeDraft(h, d)
      PROVE  NoneCreated
  BY <1>7, <1>8, DraftTypes DEF StageObservations, FinalizeDraft, Live
<1>9. ASSUME run' = WithoutExpiredLeases, UNCHANGED order PROVE NoneCreated
  <2>1. \A r \in Run : run[r] \in RunRow  BY DEF TypeOK
  <2> QED BY <1>9, <2>1, RowEdits DEF NoneCreated, WithoutExpiredLeases
<1>10. ASSUME NEW t \in Thread, NEW s \in Blob, FinishStartIngest(t, s) PROVE NoneCreated
  <2> DEFINE k == call[t].run
             y == IF call[t].pins THEN Captured(run[k], s) ELSE run[k]
  <2>1. k \in Run /\ run[k] \in RunRow  BY <1>10, CallTypes DEF FinishStartIngest, TypeOK
  <2>2. y \in RunRow /\ (y.status = "absent" <=> run[k].status = "absent")
    BY <2>1, RowTypes DEF Captured, RunRow
  <2>3. Extracting(y) \in RunRow /\ (Extracting(y).status = "absent" <=> y.status = "absent")
    <3> HIDE DEF y
    <3> QED BY <2>2, RowTypes DEF Extracting, MayExtract, RunRow
  <2>4. run' = [run EXCEPT ![k] = Extracting(y)] /\ UNCHANGED order
    BY <1>10 DEF FinishStartIngest
  <2> HIDE DEF y, k
  <2> QED BY <2>1, <2>2, <2>3, <2>4 DEF NoneCreated, TypeOK
<1>11. ASSUME NEW t \in Thread, NEW v \in Verdict, ApplyOutcome(t, v) PROVE NoneCreated
  <2> DEFINE k == call[t].run
             m == [rev |-> call[t].sealed, verdict |-> v]
  <2>1. k \in Run /\ run[k] \in RunRow /\ call[t].sealed \in 1..MaxRevision
    BY <1>11, CallTypes, IngestBoundAssumption DEF ApplyOutcome, TypeOK
  <2>2. m \in Manifest  BY <2>1 DEF Manifest
  <2>3. run' = [run EXCEPT ![k] = Judged(run[k], m)]  BY <1>11, <2>1 DEF ApplyOutcome, TypeOK
  <2>4. Judged(run[k], m) \in RunRow  BY <2>1, <2>2, RowTypes
  <2>5. Judged(run[k], m).status # "absent"
    BY <2>1 DEF Judged, Leaseless, RunRow
  <2>6. run[k].status # "absent"  BY <1>11 DEF ApplyOutcome, Unfrozen
  <2> HIDE DEF m, k
  <2> QED BY <1>2, <1>11, <2>1, <2>3, <2>4, <2>5, <2>6 DEF ApplyOutcome
<1>12. ASSUME NEW t \in Thread, CommitTx(t) PROVE NoneCreated
  <2> DEFINE k == call[t].run
             y == [run[k] EXCEPT !.status = call[t].hash.verdict]
  <2>1. k \in Run /\ run[k] \in RunRow /\ call[t].hash \in Manifest
    BY <1>12, CallTypes DEF CommitTx, TypeOK
  <2>2. call[t].hash.verdict \in RunStatus \ {"absent"}
    BY <2>1 DEF Manifest, Verdict, RunStatus, Ended
  <2>3. run' = [run EXCEPT ![k] = y]  BY <1>12, <2>1 DEF CommitTx, TypeOK
  <2>4. y \in RunRow /\ y.status # "absent"  BY <2>1, <2>2, RowTypes DEF RunRow
  <2>5. run[k].status # "absent"  BY <1>12 DEF CommitTx, Committable
  <2> HIDE DEF y, k
  <2> QED BY <1>2, <1>12, <2>1, <2>3, <2>4, <2>5 DEF CommitTx
<1>13. ASSUME NEW h \in Holder,
              \/ \E k \in Run, d \in Draft, n \in 1..MaxChunks : OpenDraft(h, k, d, n)
              \/ \E d \in Draft, i \in 0..(MaxChunks - 1), p \in Payload : AppendChunk(h, d, i, p)
              \/ \E d \in Draft : RefuseStaleDraft(h, d)
       PROVE  NoneCreated
  BY <1>1, <1>13 DEF OpenDraft, AppendChunk, RefuseStaleDraft
<1>14. ASSUME NEW t \in Thread,
              \/ \E k \in Run, q \in 1..MaxRevision : ValidateCall(t, k, q)
              \/ SealRun(t) \/ CommitLost(t) \/ CallFails(t)
              \/ \E k \in Run, m \in Manifest : CommitCall(t, k, m)
       PROVE  NoneCreated
  BY <1>1, <1>14 DEF ValidateCall, SealRun, CommitLost, CallFails, CommitCall
<1>15. ASSUME \/ \E k \in Run, m \in Manifest : CommitReplay(k, m)
              \/ Crash \/ StartupReclaimFails \/ UNCHANGED ingestVars
       PROVE  NoneCreated
  BY <1>1, <1>15 DEF CommitReplay, Crash, StartupReclaimFails, ingestVars
<1>16. ASSUME ReclaimExpiredLeases \/ StartupReclaim PROVE NoneCreated
  BY <1>9, <1>16 DEF ReclaimExpiredLeases, StartupReclaim
<1>17. ASSUME NEW h \in Holder,
              \/ ClaimNext(h)
              \/ \E k \in Run : ReleaseLease(h, k)
              \/ \E k \in Run, p \in Payload : StageObservations(h, k, p)
              \/ \E k \in Run, d \in Draft, n \in 1..MaxChunks : OpenDraft(h, k, d, n)
              \/ \E d \in Draft, i \in 0..(MaxChunks - 1), p \in Payload : AppendChunk(h, d, i, p)
              \/ \E d \in Draft : FinalizeDraft(h, d) \/ RefuseStaleDraft(h, d)
       PROVE  NoneCreated
  BY <1>4, <1>6, <1>8, <1>13, <1>17
<1>18. ASSUME NEW t \in Thread,
              \/ \E h \in Holder, k \in Run, c \in Context \cup {NoContext} :
                   BeginStartIngest(t, h, k, c)
              \/ \E s \in Blob : FinishStartIngest(t, s)
              \/ \E k \in Run, q \in 1..MaxRevision : ValidateCall(t, k, q)
              \/ SealRun(t)
              \/ \E v \in Verdict : ApplyOutcome(t, v)
              \/ \E k \in Run, m \in Manifest : CommitCall(t, k, m)
              \/ CommitTx(t) \/ CommitLost(t) \/ CallFails(t)
       PROVE  NoneCreated \/ \E r \in Run : Created(r)
  BY <1>10, <1>11, <1>12, <1>14, <1>18, StartCreates
<1> QED BY <1>4, <1>5, <1>15, <1>16, <1>17, <1>18 DEF Next

\* The two ways a step keeps it: the ended stay ended, and a new run comes last.
LEMMA OneRunStep ==
  ASSUME TypeOK, CommitInv, OneRunAtATime, [Next]_ingestVars
  PROVE  OneRunAtATime'
<1> USE DEF OneRunAtATime
<1>0. order \in Seq(Run) /\ \A i \in 1..Len(order) : order[i] \in Run
  BY DEF TypeOK
<1>1. ASSUME NEW i \in 1..Len(order), run[order[i]].status \in Ended
      PROVE  run'[order[i]].status \in Ended
  BY <1>0, <1>1, FinalStep DEF Final
<1>2. CASE NoneCreated
  BY <1>0, <1>1, <1>2 DEF NoneCreated
<1>3. ASSUME NEW r \in Run, Created(r) PROVE OneRunAtATime'
  <2>1. /\ Len(order') = Len(order) + 1 /\ order'[Len(order) + 1] = r
        /\ \A i \in 1..Len(order) : order'[i] = order[i]
    BY <1>0, <1>3 DEF Created
  <2>2. \A i \in 1..Len(order) : order[i] # r /\ run[order[i]].status # "absent"
    BY <1>0, <1>3 DEF Created
  <2>3. ASSUME NEW i \in 1..Len(order), TargetOf[order[i]] = TargetOf[r]
        PROVE  run[order[i]].status \in Ended
    <3>1. run[order[i]].status \in RunStatus /\ ~Active(order[i])
      BY <1>0, <1>3, <2>3 DEF Created, TypeOK, RunRow
    <3> QED BY <2>2, <3>1 DEF RunStatus, Active
  <2>4. ASSUME NEW k \in Run
        PROVE  run'[k].status # "absent" <=> \E i \in 1..Len(order') : order'[i] = k
    <3>1. CASE k = r  BY <1>0, <1>3, <2>1, <3>1 DEF Created
    <3>2. CASE k # r
      <4>1. run'[k] = run[k]  BY <1>3, <3>2 DEF Created
      <4>2. (\E i \in 1..Len(order') : order'[i] = k) <=> \E i \in 1..Len(order) : order[i] = k
        BY <1>0, <2>1, <3>2
      <4> QED BY <4>1, <4>2
    <3> QED BY <3>1, <3>2
  <2>5. ASSUME NEW k \in 1..Len(order'), NEW i \in 1..(k - 1)
        PROVE  /\ order'[i] # order'[k]
               /\ TargetOf[order'[i]] = TargetOf[order'[k]] => run'[order'[i]].status \in Ended
    <3>1. i \in 1..Len(order) /\ order'[i] = order[i]  BY <1>0, <2>1
    <3>2. CASE k = Len(order) + 1
      BY <1>1, <2>1, <2>2, <2>3, <3>1, <3>2
    <3>3. CASE k # Len(order) + 1
      <4>1. k \in 1..Len(order) /\ order'[k] = order[k]  BY <1>0, <2>1, <3>3
      <4> QED BY <1>1, <3>1, <4>1
    <3> QED BY <3>2, <3>3
  <2> QED BY <2>4, <2>5
<1> QED BY <1>2, <1>3, RunSteps

\* The runs of one document, company and profile follow one another
\* (create_run_if_absent): nothing but the end of a run makes room for the next,
\* and no run that has ended, or was created, is created or opened again.
THEOREM OneRunAtATimeHolds == Spec => []OneRunAtATime
<1>1. Init => OneRunAtATime  BY DEF Init, NewRow, OneRunAtATime
<1> QED BY <1>1, OneRunStep, CommitAlways, PTL DEF Spec

-----------------------------------------------------------------------------
(* The source, the lease and the drafts of a run. *)

\* A live lease is somebody's; before the capture there is no source, nobody was
\* told of one, and nothing is staged.
Unpinned == {"absent", "discovered"}
RunInv ==
  /\ \A r \in Run : run[r].live => run[r].holder # NoHolder
  /\ \A r \in Run : run[r].status \in Unpinned =>
       pinned[r] = {} /\ run[r].blob = NoBlob /\ run[r].rev = 0
  /\ SourceAgreement

\* What a step may do to a row: the bytes stay once they are captured, and while
\* the run stays open for staging another holder is another attempt.
LeaseMoves(x, y) ==
  /\ y.live => y.holder # NoHolder
  /\ x.status \in Stageable /\ y.status \in Stageable =>
       /\ y.attempt >= x.attempt
       /\ y.attempt = x.attempt /\ y.live => x.live /\ y.holder = x.holder
SourceMoves(x, y) ==
  /\ x.status \notin Unpinned => y.status \notin Unpinned /\ y.blob = x.blob
  /\ y.status \in Unpinned => y.blob \in {x.blob, NoBlob} /\ y.rev \in {x.rev, 0}
Moves(x, y) == LeaseMoves(x, y) /\ SourceMoves(x, y)

\* No step takes a run out of staging without its drafts.
Abandons(r) == run[r].status \in Stageable /\ run'[r].status \notin Stageable

LEMMA SameMoves ==
  ASSUME TypeOK, RunInv, NEW r \in Run PROVE Moves(run[r], run[r])
BY DEF RunInv, Moves, LeaseMoves, SourceMoves, TypeOK, RunRow

LEMMA LeaselessMoves ==
  ASSUME NEW x \in RunRow PROVE Moves(x, Leaseless(x))
BY DEF Moves, LeaseMoves, SourceMoves, Leaseless, RunRow

LEMMA ClaimedMoves ==
  ASSUME NEW x \in RunRow, NEW h \in Holder, CanClaim(h, x)
  PROVE  Moves(x, Claimed(h, x)) /\ Claimed(h, x).status = x.status /\ Claimed(h, x).blob = x.blob
         /\ Claimed(h, x).rev = x.rev
<1>1. CASE HoldsLease(h, x)
  BY <1>1, RunAssumption DEF HoldsLease, Claimed, Moves, LeaseMoves, SourceMoves, RunRow
<1>2. CASE ~HoldsLease(h, x)
  <2>1. x.attempt \in Nat
    BY IngestBoundAssumption DEF RunRow
  <2>2. /\ Claimed(h, x).status = x.status /\ Claimed(h, x).blob = x.blob
        /\ Claimed(h, x).rev = x.rev
        /\ Claimed(h, x).holder = h /\ Claimed(h, x).attempt = x.attempt + 1
    BY <1>2 DEF Claimed, RunRow
  <2> QED BY <2>1, <2>2, RunAssumption DEF Moves, LeaseMoves, SourceMoves
<1> QED BY <1>1, <1>2

\* Of the rows, one call after the other.
LEMMA RowSteps ==
  ASSUME TypeOK, CommitInv, RunInv, [Next]_ingestVars, NEW r \in Run
  PROVE  Moves(run[r], run'[r])
<1> USE DEF rows, staging, verdicts, commits, told
<1>a. run[r] \in RunRow /\ Moves(run[r], run[r])
  BY SameMoves DEF TypeOK
<1>b. run'[r] = run[r] => Moves(run[r], run'[r])
  BY <1>a
<1>1. ASSUME NEW k \in Run,
             LeaseExpires(k) \/ InvalidateManifest(k) \/ CancelRun(k) \/ MarkFailed(k)
      PROVE  Moves(run[r], run'[r])
  <2>1. CASE k # r
    BY <1>1, <1>b, <2>1
    DEF LeaseExpires, InvalidateManifest, CancelRun, MarkFailed, Close, TypeOK
  <2>2. CASE k = r /\ LeaseExpires(k)
    <3>1. run'[r] = [run[r] EXCEPT !.live = FALSE]
      BY <2>2 DEF LeaseExpires, TypeOK
    <3> QED BY <1>a, <3>1 DEF Moves, LeaseMoves, SourceMoves, RunRow
  <2>3. CASE k = r /\ InvalidateManifest(k)
    <3>1. run'[r] = Thawed(run[r]) /\ run[r].status = "ready_to_commit"
      BY <2>3 DEF InvalidateManifest, TypeOK
    <3>2. run[r].live = FALSE
      BY <3>1, <1>a DEF CommitInv, LeaseEndsAtFreeze, AgentClaimable, RunRow
    <3> QED BY <1>a, <3>1, <3>2 DEF Thawed, Moves, LeaseMoves, SourceMoves, Stageable, Unpinned, RunRow
  <2>4. CASE k = r /\ (CancelRun(k) \/ MarkFailed(k))
    <3>1. PICK s \in {"cancelled", "failed"} : run'[r] = [Leaseless(run[r]) EXCEPT !.status = s]
      BY <2>4 DEF CancelRun, MarkFailed, Close, TypeOK
    <3> QED BY <1>a, <3>1 DEF Leaseless, Moves, LeaseMoves, SourceMoves, Stageable, Unpinned, RunRow
  <2> QED BY <1>1, <2>1, <2>2, <2>3, <2>4
<1>2. ASSUME NEW h \in Holder, ClaimNext(h) PROVE Moves(run[r], run'[r])
  <2>1. PICK i \in 1..Len(order) :
          /\ CanClaim(h, run[order[i]])
          /\ run' = [run EXCEPT ![order[i]] = Claimed(h, @)]
    BY <1>2 DEF ClaimNext
  <2>2. order[i] \in Run
    BY <2>1 DEF TypeOK
  <2>3. CASE order[i] = r
    BY <1>a, <2>1, <2>3, ClaimedMoves DEF TypeOK
  <2>4. CASE order[i] # r
    BY <1>b, <2>1, <2>2, <2>4 DEF TypeOK
  <2> QED BY <2>3, <2>4
<1>3. ASSUME NEW h \in Holder, NEW k \in Run, ReleaseLease(h, k) PROVE Moves(run[r], run'[r])
  <2>1. run'[r] = run[r] \/ run'[r] = Leaseless(run[r])
    BY <1>3 DEF ReleaseLease, TypeOK
  <2> QED BY <1>a, <2>1, LeaselessMoves
<1>4. ASSUME run' = WithoutExpiredLeases PROVE Moves(run[r], run'[r])
  <2>1. run'[r] = run[r] \/ run'[r] = Leaseless(run[r])
    BY <1>4 DEF WithoutExpiredLeases
  <2> QED BY <1>a, <2>1, LeaselessMoves
<1>5. ASSUME NEW h \in Holder, NEW k \in Run, NEW s, MayStage(h, k), Install(k, s)
      PROVE  Moves(run[r], run'[r])
  <2>1. run'[r] = run[r] \/ run'[r] = [run[r] EXCEPT !.status = "staged", !.rev = @ + 1, !.hash = NoManifest]
    BY <1>5 DEF Install, TypeOK
  <2>2. CASE run'[r] = [run[r] EXCEPT !.status = "staged", !.rev = @ + 1, !.hash = NoManifest]
    <3>1. /\ run'[r].status = "staged" /\ run'[r].live = run[r].live
          /\ run'[r].holder = run[r].holder /\ run'[r].blob = run[r].blob
      BY <1>a, <2>2 DEF RunRow
    <3> QED BY <3>1, <1>a DEF RunInv, Moves, LeaseMoves, SourceMoves, Stageable, Unpinned
  <2> QED BY <1>b, <2>1, <2>2
<1>6. ASSUME NEW t \in Thread, NEW h \in Holder, NEW k \in Run, NEW c \in Context \cup {NoContext},
             BeginStartIngest(t, h, k, c)
      PROVE  Moves(run[r], run'[r])
  <2> DEFINE old == IF run[k].status = "absent" THEN NewRow("discovered", c) ELSE run[k]
  <2>1. CASE k # r
    BY <1>6, <1>b, <2>1 DEF BeginStartIngest, TypeOK
  <2>2. CASE k = r
    <3>1. old \in RunRow /\ CanClaim(h, old) /\ run'[r] = Attached(c, Claimed(h, old))
      BY <1>6, <2>2, NewRowType DEF BeginStartIngest, TypeOK, RunStatus, PreCommit, AgentClaimable
    <3>2. run[r].status \in Unpinned \/ old = run[r]
      BY <2>2 DEF Unpinned
    <3>3. run[r].status = "absent" =>
            /\ run[r].status \notin Stageable /\ old.status = "discovered"
            /\ old.blob = NoBlob /\ old.rev = 0
      BY <2>2 DEF Stageable, NewRow
    <3>c. run[r].status # "absent" => old = run[r]
      BY <2>2
    <3> HIDE DEF old
    <3>4. /\ Moves(old, Claimed(h, old)) /\ Claimed(h, old).status = old.status
          /\ Claimed(h, old).blob = old.blob /\ Claimed(h, old).rev = old.rev
          /\ Claimed(h, old) \in RunRow
      BY <3>1, ClaimedMoves, RowTypes
    <3>5. Moves(old, run'[r]) /\ run'[r].live = Claimed(h, old).live /\ run'[r].status = old.status
      BY <3>1, <3>4 DEF Attached, Moves, LeaseMoves, SourceMoves, RunRow
    <3> QED BY <3>2, <3>3, <3>c, <3>5 DEF Moves, LeaseMoves, SourceMoves, Unpinned
  <2> QED BY <2>1, <2>2
<1>7. ASSUME NEW t \in Thread, NEW s \in Blob, FinishStartIngest(t, s) PROVE Moves(run[r], run'[r])
  <2> DEFINE x == run[r]
             y == IF call[t].pins THEN Captured(x, s) ELSE x
  <2>1. run'[r] = run[r] \/ run'[r] = Extracting(y)
    BY <1>7 DEF FinishStartIngest, TypeOK
  <2>2. y \in RunRow /\ y.live = x.live /\ y.holder = x.holder /\ y.attempt = x.attempt
    BY <1>a, RowTypes DEF Captured, RunRow
  <2>3. y = x \/ (x.status = "discovered" /\ y.status = "source_captured")
    BY <1>a DEF Captured, RunRow
  <2> HIDE DEF y
  <2>4. Extracting(y) = y \/ (y.status = "source_captured" /\ Extracting(y).status = "extracting")
    BY <2>2 DEF Extracting, MayExtract, RunRow
  <2>5. /\ Extracting(y).live = y.live /\ Extracting(y).holder = y.holder
        /\ Extracting(y).attempt = y.attempt /\ Extracting(y).blob = y.blob
        /\ Extracting(y).rev = y.rev
    BY <2>2 DEF Extracting, RunRow
  <2>6. x.live => x.holder # NoHolder
    BY DEF RunInv
  <2>7. LeaseMoves(x, Extracting(y))
    BY <1>a, <2>2, <2>3, <2>4, <2>5, <2>6 DEF Moves, LeaseMoves, Stageable, RunRow
  <2>8. SourceMoves(x, Extracting(y))
    BY <2>3, <2>4, <2>5 DEF SourceMoves, Unpinned
  <2> QED BY <1>b, <2>1, <2>7, <2>8 DEF Moves
<1>8. ASSUME NEW t \in Thread, NEW v \in Verdict, ApplyOutcome(t, v) PROVE Moves(run[r], run'[r])
  <2> DEFINE m == [rev |-> call[t].sealed, verdict |-> v]
  <2>1. CASE run'[r] = run[r]
    BY <1>b, <2>1
  <2>2. CASE run'[r] # run[r]
    <3>1. run'[r] = Judged(run[r], m) /\ run[r].status = "staged"
      BY <1>8, <2>2 DEF ApplyOutcome, Unfrozen, TypeOK
    <3>2. /\ run'[r].status \in {"ready_to_commit", "validation_failed"} /\ run'[r].blob = run[r].blob
          /\ run'[r].live => run[r].live /\ run'[r].holder = run[r].holder
      BY <1>a, <3>1 DEF Judged, Leaseless, RunRow
    <3> QED BY <3>1, <3>2 DEF RunInv, Moves, LeaseMoves, SourceMoves, Stageable, Unpinned
  <2> QED BY <2>1, <2>2
<1>9. ASSUME NEW t \in Thread, CommitTx(t) PROVE Moves(run[r], run'[r])
  <2>1. CASE run'[r] = run[r]
    BY <1>b, <2>1
  <2>2. CASE run'[r] # run[r]
    <3>0. call[t].run \in Run /\ call[t].hash \in Manifest
      BY <1>9, CallTypes DEF CommitTx, TypeOK
    <3>a. run' = [run EXCEPT ![call[t].run].status = call[t].hash.verdict]
      BY <1>9 DEF CommitTx
    <3>b. call[t].run = r
      BY <2>2, <3>0, <3>a DEF TypeOK
    <3>1. run'[r] = [run[r] EXCEPT !.status = call[t].hash.verdict] /\ run[r].status = "ready_to_commit"
      BY <1>9, <3>a, <3>b DEF CommitTx, Committable, TypeOK
    <3>2. /\ run'[r].status \in {"complete", "partial", "failed"} /\ run'[r].blob = run[r].blob
          /\ run'[r].live = run[r].live /\ run'[r].holder = run[r].holder
      BY <1>a, <3>0, <3>1 DEF RunRow, Manifest, Verdict
    <3> QED BY <3>0, <3>1, <3>2 DEF RunInv, Moves, LeaseMoves, SourceMoves, Stageable, Unpinned
  <2> QED BY <2>1, <2>2
<1>10. CASE \E h \in Holder :
              \/ ClaimNext(h)
              \/ \E k \in Run : ReleaseLease(h, k)
              \/ \E k \in Run, p \in Payload : StageObservations(h, k, p)
              \/ \E k \in Run, d \in Draft, n \in 1..MaxChunks : OpenDraft(h, k, d, n)
              \/ \E d \in Draft, i \in 0..(MaxChunks - 1), p \in Payload : AppendChunk(h, d, i, p)
              \/ \E d \in Draft : FinalizeDraft(h, d) \/ RefuseStaleDraft(h, d)
  <2>1. PICK h \in Holder :
              \/ ClaimNext(h)
              \/ \E k \in Run : ReleaseLease(h, k)
              \/ \E k \in Run, p \in Payload : StageObservations(h, k, p)
              \/ \E k \in Run, d \in Draft, n \in 1..MaxChunks : OpenDraft(h, k, d, n)
              \/ \E d \in Draft, i \in 0..(MaxChunks - 1), p \in Payload : AppendChunk(h, d, i, p)
              \/ \E d \in Draft : FinalizeDraft(h, d) \/ RefuseStaleDraft(h, d)
    BY <1>10
  <2>2. CASE ClaimNext(h) \/ \E k \in Run : ReleaseLease(h, k)
    BY <1>2, <1>3, <2>2
  <2>3. ASSUME NEW k \in Run, NEW p \in Payload, StageObservations(h, k, p) PROVE Moves(run[r], run'[r])
    BY <1>5, <2>3 DEF StageObservations
  <2>4. ASSUME NEW d \in Draft, FinalizeDraft(h, d) PROVE Moves(run[r], run'[r])
    BY <1>5, <2>4, DraftTypes DEF FinalizeDraft, Live
  <2>5. CASE \/ \E k \in Run, d \in Draft, n \in 1..MaxChunks : OpenDraft(h, k, d, n)
             \/ \E d \in Draft, i \in 0..(MaxChunks - 1), p \in Payload : AppendChunk(h, d, i, p)
             \/ \E d \in Draft : RefuseStaleDraft(h, d)
    BY <1>b, <2>5 DEF OpenDraft, AppendChunk, RefuseStaleDraft
  <2> QED BY <2>1, <2>2, <2>3, <2>4, <2>5
<1>11. CASE \E t \in Thread :
              \/ \E h \in Holder, k \in Run, c \in Context \cup {NoContext} :
                   BeginStartIngest(t, h, k, c)
              \/ \E s \in Blob : FinishStartIngest(t, s)
              \/ \E k \in Run, q \in 1..MaxRevision : ValidateCall(t, k, q)
              \/ SealRun(t)
              \/ \E v \in Verdict : ApplyOutcome(t, v)
              \/ \E k \in Run, m \in Manifest : CommitCall(t, k, m)
              \/ CommitTx(t) \/ CommitLost(t) \/ CallFails(t)
  <2>1. ASSUME NEW t \in Thread,
              \/ \E k \in Run, q \in 1..MaxRevision : ValidateCall(t, k, q)
              \/ SealRun(t)
              \/ \E k \in Run, m \in Manifest : CommitCall(t, k, m)
              \/ CommitLost(t) \/ CallFails(t)
        PROVE  Moves(run[r], run'[r])
    BY <1>b, <2>1 DEF ValidateCall, SealRun, CommitCall, CommitLost, CallFails
  <2> QED BY <1>6, <1>7, <1>8, <1>9, <1>11, <2>1
<1>12. CASE \/ \E k \in Run, m \in Manifest : CommitReplay(k, m)
            \/ Crash \/ StartupReclaimFails \/ UNCHANGED ingestVars
  BY <1>b, <1>12 DEF CommitReplay, Crash, StartupReclaimFails, ingestVars
<1>13. CASE ReclaimExpiredLeases \/ StartupReclaim
  BY <1>4, <1>13 DEF ReclaimExpiredLeases, StartupReclaim
<1> QED BY <1>1, <1>10, <1>11, <1>12, <1>13 DEF Next

\* Only the end of a start pins a source.
LEMMA PinSteps ==
  ASSUME [Next]_ingestVars
  PROVE  pinned' = pinned \/ \E t \in Thread, s \in Blob : FinishStartIngest(t, s)
<1> USE DEF rows, staging, verdicts, commits, told
<1>1. CASE \E r \in Run :
             LeaseExpires(r) \/ InvalidateManifest(r) \/ CancelRun(r) \/ MarkFailed(r)
  BY <1>1 DEF LeaseExpires, InvalidateManifest, CancelRun, MarkFailed, Close
<1>2. ASSUME NEW h \in Holder,
             \/ ClaimNext(h)
             \/ \E r \in Run : ReleaseLease(h, r)
             \/ \E r \in Run, p \in Payload : StageObservations(h, r, p)
             \/ \E r \in Run, d \in Draft, n \in 1..MaxChunks : OpenDraft(h, r, d, n)
             \/ \E d \in Draft, i \in 0..(MaxChunks - 1), p \in Payload : AppendChunk(h, d, i, p)
             \/ \E d \in Draft : FinalizeDraft(h, d) \/ RefuseStaleDraft(h, d)
      PROVE  pinned' = pinned
  <2>1. CASE ClaimNext(h) \/ \E r \in Run : ReleaseLease(h, r)
    BY <2>1 DEF ClaimNext, ReleaseLease
  <2>2. CASE \/ \E r \in Run, p \in Payload : StageObservations(h, r, p)
             \/ \E d \in Draft : FinalizeDraft(h, d)
    BY <2>2 DEF StageObservations, FinalizeDraft, Install
  <2>3. CASE \/ \E r \in Run, d \in Draft, n \in 1..MaxChunks : OpenDraft(h, r, d, n)
             \/ \E d \in Draft, i \in 0..(MaxChunks - 1), p \in Payload : AppendChunk(h, d, i, p)
             \/ \E d \in Draft : RefuseStaleDraft(h, d)
    BY <2>3 DEF OpenDraft, AppendChunk, RefuseStaleDraft
  <2> QED BY <1>2, <2>1, <2>2, <2>3
<1>3. ASSUME NEW t \in Thread,
             \/ \E h \in Holder, r \in Run, c \in Context \cup {NoContext} :
                  BeginStartIngest(t, h, r, c)
             \/ \E r \in Run, q \in 1..MaxRevision : ValidateCall(t, r, q)
             \/ SealRun(t)
             \/ \E v \in Verdict : ApplyOutcome(t, v)
             \/ \E r \in Run, m \in Manifest : CommitCall(t, r, m)
             \/ CommitTx(t) \/ CommitLost(t) \/ CallFails(t)
      PROVE  pinned' = pinned
  <2>1. CASE \/ \E h \in Holder, r \in Run, c \in Context \cup {NoContext} :
                  BeginStartIngest(t, h, r, c)
             \/ \E v \in Verdict : ApplyOutcome(t, v)
             \/ CommitTx(t)
    BY <2>1 DEF BeginStartIngest, ApplyOutcome, CommitTx
  <2>2. CASE \/ \E r \in Run, q \in 1..MaxRevision : ValidateCall(t, r, q)
             \/ SealRun(t)
             \/ \E r \in Run, m \in Manifest : CommitCall(t, r, m)
             \/ CommitLost(t) \/ CallFails(t)
    BY <2>2 DEF ValidateCall, SealRun, CommitCall, CommitLost, CallFails
  <2> QED BY <1>3, <2>1, <2>2
<1>4. CASE \/ \E r \in Run, m \in Manifest : CommitReplay(r, m)
           \/ ReclaimExpiredLeases \/ Crash \/ StartupReclaim \/ StartupReclaimFails
           \/ UNCHANGED ingestVars
  BY <1>4 DEF CommitReplay, ReclaimExpiredLeases, Crash, StartupReclaim, StartupReclaimFails, ingestVars
<1> QED BY <1>1, <1>2, <1>3, <1>4 DEF Next

LEMMA RunInit == Init => RunInv
<1> SUFFICES ASSUME Init PROVE RunInv
  OBVIOUS
<1>1. \A r \in Run : /\ run[r].live = FALSE /\ pinned[r] = {}
                    /\ run[r].blob = NoBlob /\ run[r].rev = 0
  BY DEF Init, NewRow
<1> QED BY <1>1 DEF RunInv, SourceAgreement

LEMMA RunStep == TypeOK /\ CommitInv /\ RunInv /\ [Next]_ingestVars => RunInv'
<1> SUFFICES ASSUME TypeOK, CommitInv, RunInv, [Next]_ingestVars PROVE RunInv'
  OBVIOUS
<1>1. \A r \in Run : Moves(run[r], run'[r])
  BY RowSteps
<1>2. CASE pinned' = pinned
  BY <1>1, <1>2 DEF RunInv, SourceAgreement, Moves, LeaseMoves, SourceMoves
<1>3. ASSUME NEW t \in Thread, NEW s \in Blob, FinishStartIngest(t, s) PROVE RunInv'
  <2> DEFINE r == call[t].run
             x == run[r]
  <2>1. r \in Run /\ x \in RunRow
    BY <1>3, CallTypes DEF FinishStartIngest, TypeOK
  <2>2. CASE ~call[t].pins
    BY <1>2, <1>3, <2>2 DEF FinishStartIngest
  <2>3. CASE call[t].pins
    <3>1. /\ Capturable(x, call[t].holder, s) /\ run'[r] = Extracting(Captured(x, s))
          /\ pinned'[r] = pinned[r] \cup {s}
          /\ \A k \in Run : k # r => run'[k] = run[k] /\ pinned'[k] = pinned[k]
      BY <1>3, <2>1, <2>3 DEF FinishStartIngest, TypeOK
    <3>2. /\ Captured(x, s) \in RunRow
          /\ x.status = "discovered" => Captured(x, s).blob = s /\ Captured(x, s).status = "source_captured"
          /\ x.status # "discovered" => Captured(x, s) = x /\ x.blob = s
      BY <2>1, <3>1, RowTypes DEF Captured, Capturable, RunRow
    <3>3. \A y \in RunRow : /\ Extracting(y).blob = y.blob
                            /\ Extracting(y).status = y.status \/ Extracting(y).status = "extracting"
      BY DEF Extracting, RunRow
    <3>4. run'[r].blob = s
      BY <3>1, <3>2, <3>3
    <3>5. pinned[r] \subseteq {s}
      BY <2>1, <3>2 DEF RunInv, SourceAgreement, Unpinned
    <3>6. pinned'[r] \subseteq {run'[r].blob} \ {NoBlob}
      BY <3>1, <3>4, <3>5, RunAssumption
    <3>7. x.status # "absent"
      BY <2>1, <3>2, RunAssumption DEF RunInv, Unpinned
    <3>8. run'[r].status \notin Unpinned
      <4>1. Captured(x, s).status \notin Unpinned
        BY <3>2, <3>7 DEF Unpinned
      <4> QED BY <3>1, <3>2, <3>3, <4>1 DEF Unpinned
    <3>9. \A k \in Run : k # r => /\ run'[k].status \in Unpinned =>
                                     pinned'[k] = {} /\ run'[k].blob = NoBlob /\ run'[k].rev = 0
                                /\ pinned'[k] \subseteq {run'[k].blob} \ {NoBlob}
      BY <3>1 DEF RunInv, SourceAgreement
    <3>10. \A k \in Run : run'[k].live => run'[k].holder # NoHolder
      BY <1>1 DEF Moves, LeaseMoves
    <3> QED BY <3>6, <3>8, <3>9, <3>10 DEF RunInv, SourceAgreement
  <2> QED BY <2>2, <2>3
<1> QED BY <1>2, <1>3, PinSteps

\* What the drafts, the acknowledgements and what is staged know of each other.  Of a
\* draft that is neither installed nor deleted every chunk was acknowledged, and
\* nothing else; of an open one of the current attempt every chunk is the lease
\* holder's; an installed one is deleted, so that nothing is acknowledged later.
Acknowledged(d, chunks) ==
  \A i \in 0..(MaxChunks - 1), p \in Payload :
    <<d, i, p>> \in acks <=> i \in DOMAIN chunks /\ chunks[i].payload = p
OpenDraftInv(d) ==
  LET x == run[draft[d].run] IN
  draft[d].status = "active" =>
    /\ x.status \in Stageable
    /\ draft[d].epoch <= x.attempt
    /\ draft[d].epoch = x.attempt /\ x.live =>
         \A i \in DOMAIN draft[d].chunks : draft[d].chunks[i].by = x.holder
DraftInv ==
  /\ OneOpenDraft
  /\ \A d \in Draft : OpenDraftInv(d)
  /\ \A d \in Draft : draft[d].status = "unused" => draft[d].chunks = NoChunks
  /\ \A d \in Draft : draft[d].status # "deleted" => Acknowledged(d, draft[d].chunks)
  /\ \A r \in Run : \A d \in staged[r].from : draft[d].status = "deleted"
  /\ SnapshotIsWhatWasAcked
  /\ SnapshotOfOneHolder

LEMMA DraftInit == Init => DraftInv
<1> SUFFICES ASSUME Init PROVE DraftInv
  OBVIOUS
<1>1. \A d \in Draft : draft[d].status = "unused" /\ draft[d].chunks = NoChunks
  BY DEF Init
<1>2. \A r \in Run : staged[r].from = {} /\ DOMAIN staged[r].chunks = {}
  BY ChunkTypes DEF Init, Nothing
<1>3. acks = {} /\ DOMAIN NoChunks = {}
  BY ChunkTypes DEF Init
<1>4. \A d \in Draft : Acknowledged(d, draft[d].chunks)
  BY <1>1, <1>3 DEF Acknowledged
<1> QED BY <1>1, <1>2, <1>4
        DEF DraftInv, OneOpenDraft, OpenDraftInv, SnapshotIsWhatWasAcked, SnapshotOfOneHolder

\* A step that leaves an open draft and its run's staging alone.
LEMMA OpenDraftKept ==
  ASSUME TypeOK, TypeOK', NEW d \in Draft, OpenDraftInv(d), draft'[d] = draft[d],
         Moves(run[draft[d].run], run'[draft[d].run]),
         draft[d].status = "active" => run'[draft[d].run].status \in Stageable
  PROVE  OpenDraftInv(d)'
<1>1. /\ draft[d].run \in Run /\ draft[d].epoch \in Nat
      /\ run[draft[d].run].attempt \in Nat /\ run'[draft[d].run].attempt \in Nat
  BY IngestBoundAssumption DEF TypeOK, DraftRow, RunRow
<1>2. CASE draft[d].status # "active"
  BY <1>2 DEF OpenDraftInv
<1>3. CASE draft[d].status = "active"
  <2> DEFINE x == run[draft[d].run]
             y == run'[draft[d].run]
  <2>1. /\ x.status \in Stageable /\ y.status \in Stageable
        /\ draft[d].epoch <= x.attempt /\ y.attempt >= x.attempt
        /\ y.attempt = x.attempt /\ y.live => x.live /\ y.holder = x.holder
    BY <1>3 DEF OpenDraftInv, Moves, LeaseMoves
  <2>2. draft[d].epoch <= y.attempt
    BY <1>1, <2>1
  <2>3. ASSUME draft[d].epoch = y.attempt, y.live
        PROVE  \A i \in DOMAIN draft[d].chunks : draft[d].chunks[i].by = y.holder
    <3>1. draft[d].epoch = x.attempt /\ y.attempt = x.attempt
      BY <1>1, <2>1, <2>3
    <3> QED BY <1>3, <2>1, <2>3, <3>1 DEF OpenDraftInv
  <2> QED BY <2>1, <2>2, <2>3 DEF OpenDraftInv
<1> QED BY <1>2, <1>3

\* The rows move; drafts, what is staged and what was acknowledged stay.
LEMMA RowsOnly ==
  ASSUME TypeOK, TypeOK', DraftInv, UNCHANGED <<draft, staged, acks>>,
         \A r \in Run : Moves(run[r], run'[r]),
         \A r \in Run : run[r].status \in Stageable => run'[r].status \in Stageable
  PROVE  DraftInv'
<1>1. \A d \in Draft : draft[d].run \in Run
  BY DraftTypes
<1>2. OneOpenDraft'
  BY <1>1 DEF DraftInv, OneOpenDraft, IsActive
<1>3. \A d \in Draft : OpenDraftInv(d)'
  BY <1>1, OpenDraftKept DEF DraftInv, OneOpenDraft
<1>4. SnapshotIsWhatWasAcked' /\ SnapshotOfOneHolder'
  BY DEF DraftInv, SnapshotIsWhatWasAcked, SnapshotOfOneHolder
<1> QED BY <1>2, <1>3, <1>4 DEF DraftInv, Acknowledged

\* Drafts are deleted, among them every one of a run that is no longer open for
\* staging.
LEMMA DraftsDeleted ==
  ASSUME TypeOK, TypeOK', DraftInv, UNCHANGED <<staged, acks>>,
         \A r \in Run : Moves(run[r], run'[r]),
         \A d \in Draft : draft'[d] = draft[d] \/ draft'[d].status = "deleted",
         \A d \in Draft : draft'[d].status = "active" => run'[draft[d].run].status \in Stageable
  PROVE  DraftInv'
<1>1. \A d \in Draft : draft[d].run \in Run
  BY DraftTypes
<1>2. OneOpenDraft'
  BY <1>1 DEF DraftInv, OneOpenDraft, IsActive
<1>3. ASSUME NEW d \in Draft PROVE OpenDraftInv(d)'
  <2>1. CASE draft'[d] = draft[d]
    BY <1>1, <2>1, OpenDraftKept DEF DraftInv
  <2>2. CASE draft'[d].status = "deleted"
    BY <2>2 DEF OpenDraftInv
  <2> QED BY <2>1, <2>2
<1>4. SnapshotIsWhatWasAcked' /\ SnapshotOfOneHolder'
  BY DEF DraftInv, SnapshotIsWhatWasAcked, SnapshotOfOneHolder
<1>5. \A d \in Draft : draft'[d].status # "deleted" => Acknowledged(d, draft[d].chunks)' /\ draft'[d] = draft[d]
  BY DEF DraftInv, Acknowledged
<1>6. \A r \in Run : \A d \in staged'[r].from : draft'[d].status = "deleted"
  <2>1. \A r \in Run : staged[r].from \subseteq Draft
    BY DEF TypeOK, Snapshot
  <2> QED BY <2>1 DEF DraftInv
<1> QED BY <1>2, <1>3, <1>4, <1>5, <1>6 DEF DraftInv, Acknowledged

\* A snapshot is installed: one of a single call, or a draft of the lease holder.
LEMMA DraftInstalled ==
  ASSUME TypeOK, TypeOK', DraftInv, NEW h \in Holder, NEW r \in Run, NEW s, MayStage(h, r), Install(r, s),
         \A k \in Run : Moves(run[k], run'[k]),
         s.by = h, \A i \in DOMAIN s.chunks : s.chunks[i].by = h,
         \A d \in s.from : /\ d \in Draft /\ draft[d].status = "active" /\ draft[d].run = r
                           /\ s.chunks = draft[d].chunks /\ s.expected = draft[d].expected /\ Assembled(d)
  PROVE  DraftInv'
<1>1. \A d \in Draft : draft[d].run \in Run
  BY DraftTypes
<1>2. /\ staged' = [staged EXCEPT ![r] = s] /\ acks' = acks
      /\ \A k \in Run : k # r => run'[k] = run[k]
      /\ \A d \in Draft : draft'[d] = IF draft[d].status # "unused" /\ draft[d].run = r
                           THEN [draft[d] EXCEPT !.status = "deleted", !.chunks = NoChunks] ELSE draft[d]
  BY DEF Install, WithoutDrafts, told, TypeOK
<1>3. staged'[r] = s /\ \A k \in Run : k # r => staged'[k] = staged[k]
  BY <1>2 DEF TypeOK
<1>4. \A d \in Draft : \/ draft'[d] = draft[d] /\ (draft[d].status = "active" => draft[d].run # r)
                       \/ draft'[d].status = "deleted"
  BY <1>2 DEF TypeOK, DraftRow
<1>a. \A d \in Draft : draft'[d].status = "active" =>
        /\ draft'[d] = draft[d] /\ draft[d].run # r /\ run'[draft[d].run] = run[draft[d].run]
  BY <1>1, <1>2, <1>4
<1>5. OneOpenDraft'
  <2> SUFFICES ASSUME NEW d \in Draft, draft'[d].status = "active"
               PROVE  /\ run'[draft'[d].run].status \in Stageable
                      /\ \A e \in Draft : IsActive(e, draft[d].run)' => e = d
    BY DEF OneOpenDraft, IsActive
  <2>1. draft'[d] = draft[d] /\ run'[draft[d].run] = run[draft[d].run]
    BY <1>a
  <2>2. \A e \in Draft : IsActive(e, draft[d].run)' => IsActive(e, draft[d].run)
    BY <1>a, <2>1 DEF IsActive
  <2> QED BY <2>1, <2>2 DEF DraftInv, OneOpenDraft
<1>6. ASSUME NEW d \in Draft PROVE OpenDraftInv(d)'
  <2>1. CASE draft'[d] = draft[d] /\ (draft[d].status = "active" => draft[d].run # r)
    BY <1>1, <1>2, <2>1, OpenDraftKept DEF DraftInv, OneOpenDraft
  <2>2. CASE draft'[d].status = "deleted"
    BY <2>2 DEF OpenDraftInv
  <2> QED BY <1>4, <2>1, <2>2
<1>7. ASSUME NEW d \in Draft, draft'[d].status # "deleted"
      PROVE  Acknowledged(d, draft[d].chunks)' /\ (draft'[d].status = "unused" => draft'[d].chunks = NoChunks)
  <2>1. draft'[d] = draft[d] /\ acks' = acks
    BY <1>2, <1>4, <1>7
  <2>2. Acknowledged(d, draft[d].chunks) /\ (draft[d].status = "unused" => draft[d].chunks = NoChunks)
    BY <1>7, <2>1 DEF DraftInv
  <2> QED BY <2>1, <2>2 DEF Acknowledged
<1>8. \A k \in Run : \A d \in staged'[k].from : draft'[d].status = "deleted"
  <2>1. \A k \in Run : staged[k].from \subseteq Draft
    BY DEF TypeOK, Snapshot
  <2>2. \A d \in s.from : draft'[d].status = "deleted"
    BY <1>2, <1>4
  <2> QED BY <1>3, <1>4, <2>1, <2>2 DEF DraftInv
<1>9. SnapshotIsWhatWasAcked'
  <2> SUFFICES ASSUME NEW k \in Run, NEW d \in staged'[k].from
               PROVE  /\ DOMAIN staged'[k].chunks = 0..(staged'[k].expected - 1)
                      /\ Acknowledged(d, staged[k].chunks)'
    BY DEF SnapshotIsWhatWasAcked, Acknowledged
  <2>1. CASE k # r
    <3>1. staged'[k] = staged[k] /\ acks' = acks
      BY <1>2, <1>3, <2>1
    <3>2. DOMAIN staged[k].chunks = 0..(staged[k].expected - 1) /\ Acknowledged(d, staged[k].chunks)
      BY <3>1 DEF DraftInv, SnapshotIsWhatWasAcked, Acknowledged
    <3> QED BY <3>1, <3>2 DEF Acknowledged
  <2>2. CASE k = r
    <3>1. d \in s.from /\ staged'[k] = s
      BY <1>3, <2>2
    <3>2. Acknowledged(d, s.chunks)
      BY <3>1 DEF DraftInv
    <3>3. DOMAIN s.chunks = 0..(s.expected - 1)
      BY <3>1 DEF Assembled
    <3>4. Acknowledged(d, staged[k].chunks)'
      <4>1. staged'[k].chunks = s.chunks /\ acks' = acks
        BY <1>2, <3>1
      <4>2. s.chunks = draft[d].chunks
        BY <3>1
      <4> QED BY <3>2, <4>1, <4>2 DEF Acknowledged
    <3> QED BY <3>1, <3>3, <3>4
  <2> QED BY <2>1, <2>2
<1>10. SnapshotOfOneHolder'
  BY <1>3 DEF DraftInv, SnapshotOfOneHolder
<1>11. \A d \in Draft : draft'[d].status = "unused" => draft'[d].status # "deleted"
  OBVIOUS
<1> QED BY <1>5, <1>6, <1>7, <1>8, <1>9, <1>10, <1>11 DEF DraftInv

LEMMA DraftOpened ==
  ASSUME TypeOK, DraftInv, NEW h \in Holder, NEW r \in Run, NEW d \in Draft, NEW n, OpenDraft(h, r, d, n)
  PROVE  DraftInv'
<1>1. /\ MayStage(h, r) /\ NoConflict(r) /\ draft[d].status = "unused"
      /\ run' = run /\ staged' = staged /\ acks' = acks
      /\ draft' = [e \in Draft |->
           IF e = d THEN [status |-> "active", run |-> r, epoch |-> run[r].attempt,
                          expected |-> n, chunks |-> NoChunks]
           ELSE IF IsActive(e, r) THEN [draft[e] EXCEPT !.status = "superseded"]
           ELSE draft[e]]
  BY DEF OpenDraft, rows, told
<1>2. /\ draft'[d].status = "active" /\ draft'[d].run = r /\ draft'[d].epoch = run[r].attempt
      /\ draft'[d].chunks = NoChunks /\ draft[d].chunks = NoChunks
      /\ \A e \in Draft : e # d /\ ~IsActive(e, r) => draft'[e] = draft[e]
      /\ \A e \in Draft : e # d /\ IsActive(e, r) =>
           draft'[e].status = "superseded" /\ draft'[e].chunks = draft[e].chunks
  BY <1>1 DEF DraftInv, TypeOK, DraftRow
<1>3. OneOpenDraft'
  <2> SUFFICES ASSUME NEW e \in Draft, draft'[e].status = "active"
               PROVE  /\ run'[draft'[e].run].status \in Stageable
                      /\ \A f \in Draft : IsActive(f, draft[e].run)' => f = e
    BY DEF OneOpenDraft, IsActive
  <2>1. CASE e = d
    BY <1>1, <1>2, <2>1 DEF MayStage, IsActive
  <2>2. CASE e # d
    BY <1>1, <1>2, <2>2 DEF DraftInv, OneOpenDraft, IsActive
  <2> QED BY <2>1, <2>2
<1>4. ASSUME NEW e \in Draft PROVE OpenDraftInv(e)'
  <2>1. CASE e = d
    BY <1>1, <1>2, <2>1, ChunkTypes, IngestBoundAssumption DEF OpenDraftInv, MayStage, TypeOK, RunRow
  <2>2. CASE e # d
    BY <1>1, <1>2, <2>2 DEF DraftInv, OpenDraftInv
  <2> QED BY <2>1, <2>2
<1>5. \A e \in Draft : draft'[e].chunks = draft[e].chunks /\ (draft'[e].status = "deleted" <=> draft[e].status = "deleted")
  BY <1>1, <1>2 DEF IsActive
<1>6. /\ \A e \in Draft : draft'[e].status # "deleted" => Acknowledged(e, draft[e].chunks)'
      /\ \A e \in Draft : draft'[e].status = "unused" => draft'[e].chunks = NoChunks
  BY <1>1, <1>2, <1>5 DEF DraftInv, Acknowledged
<1>7. \A k \in Run : \A e \in staged'[k].from : draft'[e].status = "deleted"
  <2>1. \A k \in Run : staged[k].from \subseteq Draft
    BY DEF TypeOK, Snapshot
  <2> QED BY <1>1, <1>5, <2>1 DEF DraftInv
<1>8. SnapshotIsWhatWasAcked' /\ SnapshotOfOneHolder'
  BY <1>1 DEF DraftInv, SnapshotIsWhatWasAcked, SnapshotOfOneHolder
<1> QED BY <1>3, <1>4, <1>6, <1>7, <1>8 DEF DraftInv

LEMMA ChunkAppended ==
  ASSUME TypeOK, DraftInv, NEW h \in Holder, NEW d \in Draft, NEW i \in 0..(MaxChunks - 1),
         NEW p \in Payload, AppendChunk(h, d, i, p)
  PROVE  DraftInv'
<1> DEFINE c == draft[d].chunks
           c2 == draft'[d].chunks
<1>1. /\ Live(h, d) /\ Appendable(d, i, p) /\ run' = run /\ staged' = staged
      /\ acks' = acks \cup {<<d, i, p>>}
      /\ draft' = IF i \in DOMAIN c /\ c[i].payload = p
                  THEN draft ELSE [draft EXCEPT ![d].chunks = Put(@, i, [payload |-> p, by |-> h])]
  BY DEF AppendChunk, rows
<1>2. /\ draft[d].status = "active" /\ Current(d)
      /\ run[draft[d].run].live /\ run[draft[d].run].holder = h
      /\ \A e \in Draft : e # d => draft'[e] = draft[e]
      /\ draft'[d].status = "active" /\ draft'[d].run = draft[d].run /\ draft'[d].epoch = draft[d].epoch
  BY <1>1 DEF Live, MayStage, HoldsLease, TypeOK, DraftRow
<1>3. \/ i \in DOMAIN c /\ c[i].payload = p /\ c2 = c
      \/ i \notin DOMAIN c /\ c2 = Put(c, i, [payload |-> p, by |-> h])
  BY <1>1 DEF Appendable, TypeOK, DraftRow
<1>4. /\ \A k \in DOMAIN c : k \in DOMAIN c2 /\ c2[k] = c[k]
      /\ i \in DOMAIN c2 /\ c2[i].payload = p
      /\ \A k \in DOMAIN c2 : k \in DOMAIN c \/ (k = i /\ i \notin DOMAIN c /\ c2[k].by = h)
  BY <1>3 DEF Put
<1>5. Acknowledged(d, c)
  BY <1>2 DEF DraftInv
<1>6. Acknowledged(d, draft[d].chunks)'
  <2> SUFFICES ASSUME NEW k \in 0..(MaxChunks - 1), NEW q \in Payload
               PROVE  <<d, k, q>> \in acks' <=> k \in DOMAIN c2 /\ c2[k].payload = q
    BY DEF Acknowledged
  <2>1. <<d, k, q>> \in acks' <=> <<d, k, q>> \in acks \/ (k = i /\ q = p)
    BY <1>1
  <2>2. <<d, k, q>> \in acks <=> k \in DOMAIN c /\ c[k].payload = q
    BY <1>5 DEF Acknowledged
  <2> HIDE DEF c, c2
  <2> QED BY <1>4, <2>1, <2>2
<1>7. \A e \in Draft : e # d /\ draft[e].status # "deleted" => Acknowledged(e, draft[e].chunks)'
  BY <1>1, <1>2 DEF DraftInv, Acknowledged
<1>8. OneOpenDraft'
  BY <1>1, <1>2 DEF DraftInv, OneOpenDraft, IsActive
<1>9. ASSUME NEW e \in Draft PROVE OpenDraftInv(e)'
  <2>1. CASE e = d
    <3>1. OpenDraftInv(d)
      BY DEF DraftInv
    <3>2. \A k \in DOMAIN c2 : c2[k].by = h
      BY <1>2, <1>4, <3>1 DEF OpenDraftInv, Current
    <3> QED BY <1>1, <1>2, <2>1, <3>1, <3>2 DEF OpenDraftInv
  <2>2. CASE e # d
    BY <1>1, <1>2, <2>2 DEF DraftInv, OpenDraftInv
  <2> QED BY <2>1, <2>2
<1>10. \A k \in Run : \A e \in staged'[k].from : draft'[e].status = "deleted" /\ e # d
  <2>1. \A k \in Run : staged[k].from \subseteq Draft
    BY DEF TypeOK, Snapshot
  <2> QED BY <1>1, <1>2, <2>1 DEF DraftInv
<1>11. SnapshotIsWhatWasAcked'
  BY <1>1, <1>10 DEF DraftInv, SnapshotIsWhatWasAcked
<1>12. SnapshotOfOneHolder'
  BY <1>1 DEF DraftInv, SnapshotOfOneHolder
<1> QED BY <1>2, <1>6, <1>7, <1>8, <1>9, <1>10, <1>11, <1>12 DEF DraftInv

\* What a step does to drafts, what is staged and what was acknowledged; a step that
\* does nothing to them takes no run out of staging.
LEMMA DraftSteps ==
  ASSUME TypeOK, CommitInv, [Next]_ingestVars
  PROVE  \/ /\ UNCHANGED <<draft, staged, acks>>
            /\ \A r \in Run : run[r].status \in Stageable => run'[r].status \in Stageable
         \/ \E r \in Run : Close(r, "cancelled") \/ Close(r, "failed")
         \/ StartupReclaim
         \/ \E h \in Holder :
              \/ \E r \in Run, p \in Payload : StageObservations(h, r, p)
              \/ \E d \in Draft : FinalizeDraft(h, d)
              \/ \E r \in Run, d \in Draft, n \in 1..MaxChunks : OpenDraft(h, r, d, n)
              \/ \E d \in Draft, i \in 0..(MaxChunks - 1), p \in Payload : AppendChunk(h, d, i, p)
<1> DEFINE Stays == /\ UNCHANGED <<draft, staged, acks>>
                    /\ \A r \in Run : run[r].status \in Stageable => run'[r].status \in Stageable
<1> USE DEF rows, staging, verdicts, commits, told
<1>0. \A r \in Run : run[r] \in RunRow
  BY DEF TypeOK
<1>1. ASSUME NEW k \in Run, LeaseExpires(k) \/ InvalidateManifest(k) PROVE Stays
  <2>1. CASE LeaseExpires(k)
    BY <1>0, <2>1 DEF LeaseExpires, TypeOK, RunRow
  <2>2. CASE InvalidateManifest(k)
    BY <1>0, <2>2 DEF InvalidateManifest, Stageable, TypeOK, RunRow
  <2> QED BY <1>1, <2>1, <2>2
<1>2. ASSUME NEW h \in Holder, ClaimNext(h) PROVE Stays
  <2>1. PICK i \in 1..Len(order) :
          /\ CanClaim(h, run[order[i]])
          /\ run' = [run EXCEPT ![order[i]] = Claimed(h, @)]
    BY <1>2 DEF ClaimNext
  <2>2. order[i] \in Run
    BY <2>1 DEF TypeOK
  <2>3. Claimed(h, run[order[i]]).status = run[order[i]].status
    BY <1>0, <2>1, <2>2, ClaimedMoves
  <2>4. \A r \in Run : run'[r].status = run[r].status
    BY <2>1, <2>2, <2>3 DEF TypeOK
  <2> QED BY <1>2, <2>4 DEF ClaimNext
<1>3. ASSUME NEW h \in Holder, NEW k \in Run, ReleaseLease(h, k) PROVE Stays
  BY <1>0, <1>3 DEF ReleaseLease, Leaseless, TypeOK, RunRow
<1>4. CASE ReclaimExpiredLeases
  BY <1>0, <1>4 DEF ReclaimExpiredLeases, WithoutExpiredLeases, Leaseless, RunRow
<1>5. ASSUME NEW t \in Thread, NEW h \in Holder, NEW k \in Run, NEW c \in Context \cup {NoContext},
             BeginStartIngest(t, h, k, c)
      PROVE  Stays
  <2> DEFINE old == IF run[k].status = "absent" THEN NewRow("discovered", c) ELSE run[k]
  <2>1. ASSUME run[k].status \in Stageable PROVE run'[k].status \in Stageable
    <3>1. old = run[k]
      BY <2>1 DEF Stageable
    <3>2. CanClaim(h, run[k]) /\ run' = [run EXCEPT ![k] = Attached(c, Claimed(h, run[k]))]
      BY <1>5, <3>1 DEF BeginStartIngest
    <3>3. Claimed(h, run[k]).status = run[k].status /\ Claimed(h, run[k]) \in RunRow
      BY <1>0, <3>2, ClaimedMoves, RowTypes
    <3>4. Attached(c, Claimed(h, run[k])).status = run[k].status
      BY <3>3 DEF Attached, RunRow
    <3> QED BY <2>1, <3>2, <3>4 DEF TypeOK
  <2>2. \A r \in Run : r # k => run'[r] = run[r]
    BY <1>5 DEF BeginStartIngest, TypeOK
  <2>3. UNCHANGED <<draft, staged, acks>>
    BY <1>5 DEF BeginStartIngest
  <2> QED BY <2>1, <2>2, <2>3
<1>6. ASSUME NEW t \in Thread, NEW s \in Blob, FinishStartIngest(t, s) PROVE Stays
  <2> DEFINE k == call[t].run
  <2>1. k \in Run
    BY <1>6, CallTypes DEF FinishStartIngest, TypeOK
  <2>2. \A x \in RunRow : x.status \in Stageable => Captured(x, s) = x /\ Extracting(x) = x
    BY DEF Captured, Extracting, MayExtract, Stageable
  <2>3. run[k].status \in Stageable => run'[k] = run[k]
    BY <1>0, <1>6, <2>1, <2>2 DEF FinishStartIngest, TypeOK
  <2>4. \A r \in Run : r # k => run'[r] = run[r]
    BY <1>6, <2>1 DEF FinishStartIngest, TypeOK
  <2>5. UNCHANGED <<draft, staged, acks>>
    BY <1>6 DEF FinishStartIngest
  <2> QED BY <2>3, <2>4, <2>5
<1>7. ASSUME NEW t \in Thread, NEW v \in Verdict, ApplyOutcome(t, v) PROVE Stays
  <2>1. call[t].run \in Run /\ run[call[t].run].status \notin Stageable
    BY <1>7, CallTypes DEF ApplyOutcome, Unfrozen, Stageable, TypeOK
  <2> QED BY <1>7, <2>1 DEF ApplyOutcome, TypeOK
<1>8. ASSUME NEW t \in Thread, CommitTx(t) PROVE Stays
  <2>1. call[t].run \in Run /\ run[call[t].run].status \notin Stageable
    BY <1>8, CallTypes DEF CommitTx, Committable, Stageable, TypeOK
  <2> QED BY <1>8, <2>1 DEF CommitTx, TypeOK
<1>9. ASSUME NEW t \in Thread,
             \/ \E k \in Run, q \in 1..MaxRevision : ValidateCall(t, k, q)
             \/ SealRun(t)
             \/ \E k \in Run, m \in Manifest : CommitCall(t, k, m)
             \/ CommitLost(t) \/ CallFails(t)
      PROVE  Stays
  BY <1>9 DEF ValidateCall, SealRun, CommitCall, CommitLost, CallFails
<1>10. CASE \/ \E k \in Run, m \in Manifest : CommitReplay(k, m)
            \/ Crash \/ StartupReclaimFails \/ UNCHANGED ingestVars
            \/ \E h \in Holder, d \in Draft : RefuseStaleDraft(h, d)
  BY <1>10 DEF CommitReplay, Crash, StartupReclaimFails, ingestVars, RefuseStaleDraft
<1>11. CASE \E t \in Thread :
              \/ \E h \in Holder, k \in Run, c \in Context \cup {NoContext} :
                   BeginStartIngest(t, h, k, c)
              \/ \E s \in Blob : FinishStartIngest(t, s)
              \/ \E k \in Run, q \in 1..MaxRevision : ValidateCall(t, k, q)
              \/ SealRun(t)
              \/ \E v \in Verdict : ApplyOutcome(t, v)
              \/ \E k \in Run, m \in Manifest : CommitCall(t, k, m)
              \/ CommitTx(t) \/ CommitLost(t) \/ CallFails(t)
  <2>1. Stays
    BY <1>5, <1>6, <1>7, <1>8, <1>9, <1>11
  <2> QED BY <2>1
<1>12. CASE \E r \in Run :
              LeaseExpires(r) \/ InvalidateManifest(r) \/ CancelRun(r) \/ MarkFailed(r)
  BY <1>1, <1>12 DEF CancelRun, MarkFailed
<1>13. CASE \E h \in Holder :
              \/ ClaimNext(h)
              \/ \E r \in Run : ReleaseLease(h, r)
              \/ \E r \in Run, p \in Payload : StageObservations(h, r, p)
              \/ \E r \in Run, d \in Draft, n \in 1..MaxChunks : OpenDraft(h, r, d, n)
              \/ \E d \in Draft, i \in 0..(MaxChunks - 1), p \in Payload : AppendChunk(h, d, i, p)
              \/ \E d \in Draft : FinalizeDraft(h, d) \/ RefuseStaleDraft(h, d)
  <2> HIDE DEF Stays
  <2>1. \/ Stays
        \/ \E h \in Holder :
             \/ \E r \in Run, p \in Payload : StageObservations(h, r, p)
             \/ \E d \in Draft : FinalizeDraft(h, d)
             \/ \E r \in Run, d \in Draft, n \in 1..MaxChunks : OpenDraft(h, r, d, n)
             \/ \E d \in Draft, i \in 0..(MaxChunks - 1), p \in Payload : AppendChunk(h, d, i, p)
    <3>1. ASSUME NEW h \in Holder, NEW d \in Draft, RefuseStaleDraft(h, d) PROVE Stays
      BY <3>1 DEF Stays, RefuseStaleDraft
    <3> QED BY <1>2, <1>3, <1>13, <3>1
  <2> QED BY <2>1 DEF Stays
<1> QED BY <1>4, <1>10, <1>11, <1>12, <1>13 DEF Next

\* A closed run's drafts go with it.
LEMMA ClosedDrafts ==
  ASSUME TypeOK, TypeOK', DraftInv, NEW r \in Run, NEW s \in {"cancelled", "failed"}, Close(r, s),
         \A k \in Run : Moves(run[k], run'[k])
  PROVE  DraftInv'
<1>1. /\ \A k \in Run : k # r => run'[k] = run[k]
      /\ UNCHANGED <<staged, acks>>
      /\ \A d \in Draft : draft'[d] = IF draft[d].status # "unused" /\ draft[d].run = r
                           THEN [draft[d] EXCEPT !.status = "deleted", !.chunks = NoChunks] ELSE draft[d]
  BY DEF Close, Closed, WithoutDrafts, told, TypeOK
<1>2. \A d \in Draft : \/ draft'[d] = draft[d] /\ (draft[d].status = "active" => draft[d].run # r)
                       \/ draft'[d].status = "deleted"
  BY <1>1 DEF TypeOK, DraftRow
<1>3. ASSUME NEW d \in Draft, draft'[d].status = "active"
      PROVE  run'[draft[d].run].status \in Stageable
  <2>1. draft'[d] = draft[d] /\ draft[d].run # r
    BY <1>2, <1>3
  <2>2. run'[draft[d].run] = run[draft[d].run]
    BY <1>1, <2>1, DraftTypes
  <2> QED BY <1>3, <2>1, <2>2 DEF DraftInv, OneOpenDraft
<1> QED BY <1>1, <1>2, <1>3, DraftsDeleted

\* The start leaves the drafts of a live lease alone, and no run's status moves.
LEMMA ReclaimedDrafts ==
  ASSUME TypeOK, StartupReclaim
  PROVE  /\ UNCHANGED <<staged, acks>>
         /\ \A r \in Run : run'[r].status = run[r].status
         /\ \A d \in Draft : draft'[d] = draft[d] \/ draft'[d].status = "deleted"
         /\ \A d \in Draft : run[draft[d].run].live /\ run[draft[d].run].holder # NoHolder =>
              draft'[d] = draft[d]
<1>1. UNCHANGED <<staged, acks>>
  BY DEF StartupReclaim, told
<1>2. \A r \in Run : run'[r].status = run[r].status
  BY DEF StartupReclaim, WithoutExpiredLeases, Leaseless, TypeOK, RunRow
<1>3. \A d \in Draft : draft'[d] = IF draft[d].status # "unused" /\ Orphaned(d)
                         THEN [draft[d] EXCEPT !.status = "deleted", !.chunks = NoChunks] ELSE draft[d]
  BY DEF StartupReclaim
<1>4. \A d \in Draft : draft'[d] = draft[d] \/ draft'[d].status = "deleted"
  BY <1>3 DEF TypeOK, DraftRow
<1>5. \A d \in Draft : run[draft[d].run].live /\ run[draft[d].run].holder # NoHolder => ~Orphaned(d)
  BY DraftTypes DEF Orphaned, WithoutExpiredLeases, Expired
<1> QED BY <1>1, <1>2, <1>3, <1>4, <1>5

LEMMA DraftStep ==
  ASSUME TypeOK, TypeOK', CommitInv, RunInv, DraftInv, [Next]_ingestVars
  PROVE  DraftInv'
<1>1. \A r \in Run : Moves(run[r], run'[r])
  BY RowSteps
<1>2. ASSUME UNCHANGED <<draft, staged, acks>>,
             \A r \in Run : run[r].status \in Stageable => run'[r].status \in Stageable
      PROVE  DraftInv'
  BY <1>1, <1>2, RowsOnly
<1>3. ASSUME NEW r \in Run, Close(r, "cancelled") \/ Close(r, "failed") PROVE DraftInv'
  BY <1>1, <1>3, ClosedDrafts
<1>4. CASE StartupReclaim
  <2>1. ASSUME NEW d \in Draft, draft'[d].status = "active"
        PROVE  run'[draft[d].run].status \in Stageable
    <3>1. draft'[d] = draft[d]
      BY <1>4, <2>1, ReclaimedDrafts
    <3>2. run[draft[d].run].status \in Stageable
      BY <2>1, <3>1 DEF DraftInv, OneOpenDraft
    <3> QED BY <1>4, <3>2, ReclaimedDrafts, DraftTypes
  <2>2. /\ UNCHANGED <<staged, acks>>
        /\ \A d \in Draft : draft'[d] = draft[d] \/ draft'[d].status = "deleted"
    BY <1>4, ReclaimedDrafts
  <2> QED BY <1>1, <2>1, <2>2, DraftsDeleted
<1>5. ASSUME NEW h \in Holder, NEW r \in Run, NEW p \in Payload, StageObservations(h, r, p)
      PROVE  DraftInv'
  <2> DEFINE s == [chunks |-> Put(NoChunks, 0, [payload |-> p, by |-> h]), expected |-> 1,
                   by |-> h, from |-> {}]
  <2>1. MayStage(h, r) /\ Install(r, s)
    BY <1>5 DEF StageObservations
  <2>2. s.by = h /\ s.from = {} /\ \A i \in DOMAIN s.chunks : s.chunks[i].by = h
    BY ChunkTypes DEF Put
  <2> HIDE DEF s
  <2> QED BY <1>1, <2>1, <2>2, DraftInstalled
<1>6. ASSUME NEW h \in Holder, NEW d \in Draft, FinalizeDraft(h, d) PROVE DraftInv'
  <2> DEFINE r == draft[d].run
             s == [chunks |-> draft[d].chunks, expected |-> draft[d].expected, by |-> h, from |-> {d}]
  <2>1. r \in Run /\ MayStage(h, r) /\ Install(r, s) /\ Assembled(d)
        /\ draft[d].status = "active" /\ Current(d)
    BY <1>6, DraftTypes DEF FinalizeDraft, Live
  <2>2. \A i \in DOMAIN draft[d].chunks : draft[d].chunks[i].by = h
    BY <2>1 DEF DraftInv, OpenDraftInv, MayStage, HoldsLease, Current
  <2>3. /\ s.by = h /\ \A i \in DOMAIN s.chunks : s.chunks[i].by = h
        /\ \A e \in s.from : /\ e \in Draft /\ draft[e].status = "active" /\ draft[e].run = r
                             /\ s.chunks = draft[e].chunks /\ s.expected = draft[e].expected
                             /\ Assembled(e)
    BY <2>1, <2>2
  <2> HIDE DEF r, s
  <2> QED BY <1>1, <2>1, <2>3, DraftInstalled
<1> QED BY <1>2, <1>3, <1>4, <1>5, <1>6, DraftSteps, DraftOpened, ChunkAppended

LEMMA RunAlways == Spec => [](TypeOK /\ CommitInv /\ RunInv /\ DraftInv)
<1>1. Init => TypeOK /\ CommitInv /\ RunInv /\ DraftInv
  BY TypeInit, CommitInit, RunInit, DraftInit
<1>2. TypeOK /\ CommitInv /\ RunInv /\ DraftInv /\ [Next]_ingestVars
        => (TypeOK /\ CommitInv /\ RunInv /\ DraftInv)'
  BY TypeStep, CommitStep, RunStep, DraftStep
<1> QED BY <1>1, <1>2, PTL DEF Spec

\* All callers who were told that their bytes are the run's source were told the same
\* bytes, and those are the run's: mark_source_captured sets them once, whichever of
\* two starts of one run comes first, and whatever holder the run has by then.
THEOREM SourceAgreementHolds == Spec => []SourceAgreement
BY RunAlways, PTL DEF RunInv

\* A draft is open only on a run that can be staged, and one per run: every statement
\* that takes a run out of staging deletes its drafts in the same transaction, and
\* opening one supersedes the stale one (resolve_active_draft_conflict).
THEOREM OneOpenDraftHolds == Spec => []OneOpenDraft
BY RunAlways, PTL DEF DraftInv

\* What a draft installs is what was acknowledged, all of it and nothing else, and all
\* of it comes from the holder who finalized it: a chunk an earlier holder appended
\* never reaches the staged observations (append_draft_chunk, finalize_draft).
THEOREM SnapshotIsOneHoldersWorkHolds == Spec => []SnapshotIsOneHoldersWork
BY RunAlways, PTL DEF DraftInv, SnapshotIsOneHoldersWork

\* One draft is open, and what a draft installs is one holder's work
\* (open_draft, append_chunk, finalize_draft).
THEOREM DraftsAreSoundHolds == Spec => []DraftsAreSound
BY OneOpenDraftHolds, SnapshotIsOneHoldersWorkHolds, PTL DEF DraftsAreSound

Survives(d) ==
  LET r == draft[d].run
  IN draft[d].status = "active" /\ Current(d) /\ run[r].live /\ run'[r].status \in Stageable
       => draft'[d].status = "active"
          /\ \A i \in DOMAIN draft[d].chunks :
               i \in DOMAIN draft'[d].chunks /\ draft'[d].chunks[i] = draft[d].chunks[i]

LEMMA SurvivesStep ==
  ASSUME TypeOK, CommitInv, RunInv, DraftInv, [Next]_ingestVars, NEW d \in Draft
  PROVE  Survives(d)
<1> DEFINE r == draft[d].run
<1> SUFFICES ASSUME draft[d].status = "active", Current(d), run[r].live, run'[r].status \in Stageable
             PROVE  draft'[d].status = "active"
                    /\ \A i \in DOMAIN draft[d].chunks :
                         i \in DOMAIN draft'[d].chunks /\ draft'[d].chunks[i] = draft[d].chunks[i]
  BY DEF Survives
<1>0. r \in Run /\ run[r].holder # NoHolder
  BY DraftTypes DEF RunInv
<1>1. draft'[d] = draft[d] => draft'[d].status = "active"
                    /\ \A i \in DOMAIN draft[d].chunks :
                         i \in DOMAIN draft'[d].chunks /\ draft'[d].chunks[i] = draft[d].chunks[i]
  OBVIOUS
<1>2. CASE UNCHANGED <<draft, staged, acks>>
  BY <1>1, <1>2
<1>3. ASSUME NEW k \in Run, Close(k, "cancelled") \/ Close(k, "failed") PROVE draft'[d] = draft[d]
  <2>1. ASSUME k = r PROVE FALSE
    <3>1. PICK s \in {"cancelled", "failed"} : run'[r] = [Leaseless(run[r]) EXCEPT !.status = s]
      BY <1>3, <2>1 DEF Close, TypeOK
    <3>2. run'[r].status = s
      BY <1>0, <3>1 DEF Leaseless, TypeOK, RunRow
    <3> QED BY <3>2 DEF Stageable
  <2> QED BY <1>3, <2>1 DEF Close, Closed, WithoutDrafts
<1>4. CASE StartupReclaim
  BY <1>0, <1>1, <1>4, ReclaimedDrafts
<1>5. ASSUME NEW k \in Run, NEW s, Install(k, s) PROVE draft'[d] = draft[d]
  <2>1. k # r
    BY <1>0, <1>5 DEF Install, Stageable, TypeOK, RunRow
  <2> QED BY <1>5, <2>1 DEF Install, WithoutDrafts
<1>6. ASSUME NEW h \in Holder, NEW k \in Run, NEW e \in Draft, NEW n \in 1..MaxChunks, OpenDraft(h, k, e, n)
      PROVE  draft'[d] = draft[d]
  <2>1. e # d /\ ~IsActive(d, k)
    BY <1>6 DEF OpenDraft, NoConflict
  <2> QED BY <1>6, <2>1 DEF OpenDraft
<1>7. ASSUME NEW h \in Holder, NEW e \in Draft, NEW i \in 0..(MaxChunks - 1), NEW p \in Payload,
             AppendChunk(h, e, i, p)
      PROVE  draft'[d].status = "active"
             /\ \A j \in DOMAIN draft[d].chunks :
                  j \in DOMAIN draft'[d].chunks /\ draft'[d].chunks[j] = draft[d].chunks[j]
  <2>1. CASE draft'[d] = draft[d]
    BY <1>1, <2>1
  <2>2. CASE draft'[d] # draft[d]
    <3>1. e = d
      BY <1>7, <2>2 DEF AppendChunk, TypeOK
    <3>2. /\ i \in DOMAIN draft[d].chunks => draft[d].chunks[i].payload = p
          /\ ~(i \in DOMAIN draft[d].chunks /\ draft[d].chunks[i].payload = p)
          /\ draft'[d] = [draft[d] EXCEPT !.chunks = Put(@, i, [payload |-> p, by |-> h])]
      BY <1>7, <2>2, <3>1 DEF AppendChunk, Appendable, TypeOK
    <3>3. /\ draft'[d].status = "active"
          /\ draft'[d].chunks = Put(draft[d].chunks, i, [payload |-> p, by |-> h])
      BY <3>2 DEF TypeOK, DraftRow
    <3> QED BY <3>2, <3>3 DEF Put
  <2> QED BY <2>1, <2>2
<1>8. ASSUME NEW h \in Holder, NEW k \in Run, NEW p \in Payload, StageObservations(h, k, p)
      PROVE  draft'[d] = draft[d]
  BY <1>5, <1>8 DEF StageObservations
<1>9. ASSUME NEW h \in Holder, NEW e \in Draft, FinalizeDraft(h, e) PROVE draft'[d] = draft[d]
  BY <1>5, <1>9, DraftTypes DEF FinalizeDraft
<1> HIDE DEF r
<1> QED BY <1>1, <1>2, <1>3, <1>4, <1>6, <1>7, <1>8, <1>9, DraftSteps

\* The holder of a live lease keeps the open draft and every chunk in it while the run
\* stays open for staging, through other holders' calls, a second upload session and a
\* restart (reclaim_ingest_runs_on_startup spares the drafts of leased runs).
THEOREM LiveDraftSurvivesHolds == Spec => LiveDraftSurvives
<1>1. TypeOK /\ CommitInv /\ RunInv /\ DraftInv /\ [Next]_ingestVars =>
        [\A d \in Draft :
           LET r == draft[d].run
           IN draft[d].status = "active" /\ Current(d) /\ run[r].live /\ run'[r].status \in Stageable
                => draft'[d].status = "active"
                   /\ \A i \in DOMAIN draft[d].chunks :
                        i \in DOMAIN draft'[d].chunks /\ draft'[d].chunks[i] = draft[d].chunks[i]]_ingestVars
  BY SurvivesStep DEF Survives
<1> QED BY <1>1, RunAlways, PTL DEF Spec, LiveDraftSurvives

-----------------------------------------------------------------------------
(* The contract. *)

\* The contract sees of run r the same before and after the step.
SameView(r) ==
  /\ PhaseOf(r)' = PhaseOf(r) /\ OwnerOf(r)' = OwnerOf(r)
  /\ run'[r].rev = run[r].rev /\ SealOf(r)' = SealOf(r)

\* What it sees, by the status.
LEMMA Views ==
  ASSUME TypeOK, RunInv, NEW r \in Run
  PROVE  /\ run[r].status = "absent" => PhaseOf(r) = "none" /\ SealOf(r) = NoManifest
         /\ run[r].status \in AgentClaimable \cup {"staged"} =>
              PhaseOf(r) = "open" /\ SealOf(r) = NoManifest
         /\ run[r].status = "ready_to_commit" => PhaseOf(r) = "frozen" /\ SealOf(r) = run[r].hash
         /\ run[r].status \in {"complete", "partial"} =>
              PhaseOf(r) = "committed" /\ SealOf(r) = receipt[r]
         /\ run[r].status \in {"failed", "cancelled"} =>
              PhaseOf(r) = "closed" /\ SealOf(r) = NoManifest
         /\ run[r].live => OwnerOf(r) = run[r].holder /\ OwnerOf(r) # NoHolder
         /\ ~run[r].live => OwnerOf(r) = NoHolder
<1>1. run[r].live => run[r].holder # NoHolder
  BY DEF RunInv
<1> QED BY <1>1 DEF PhaseOf, SealOf, OwnerOf, AgentClaimable

LEMMA SameRow ==
  ASSUME NEW r \in Run, run'[r] = run[r], receipt'[r] = receipt[r]
  PROVE  SameView(r)
BY DEF SameView, PhaseOf, OwnerOf, SealOf

\* A step that moves a run among the statuses the contract calls open.
LEMMA StillOpen ==
  ASSUME TypeOK, TypeOK', RunInv, RunInv', NEW r \in Run,
         run[r].status \in AgentClaimable \cup {"staged"},
         run'[r].status \in AgentClaimable \cup {"staged"},
         run'[r].rev = run[r].rev, run'[r].live = run[r].live, run'[r].holder = run[r].holder
  PROVE  SameView(r)
<1>1. PhaseOf(r) = "open" /\ SealOf(r) = NoManifest
  BY Views
<1>2. PhaseOf(r)' = "open" /\ SealOf(r)' = NoManifest
  BY DEF PhaseOf, SealOf, AgentClaimable
<1> QED BY <1>1, <1>2 DEF SameView, OwnerOf

LEMMA PromiseStutters ==
  ASSUME \A r \in Run : SameView(r)
  PROVE  UNCHANGED Promise!contractVars
BY DEF SameView, Promise!contractVars

\* Losing a live lease, by expiry or by release, is letting go.
LEMMA PromiseLetGo ==
  ASSUME TypeOK, RunInv, NEW k \in Run, \A r \in Run : r # k => SameView(r), receipt'[k] = receipt[k],
         run'[k].status = run[k].status, run'[k].rev = run[k].rev, run'[k].hash = run[k].hash,
         ~run'[k].live
  PROVE  Promise!LetGo(k) \/ UNCHANGED Promise!contractVars
<1>1. PhaseOf(k)' = PhaseOf(k) /\ SealOf(k)' = SealOf(k) /\ OwnerOf(k)' = NoHolder
  BY DEF PhaseOf, SealOf, OwnerOf
<1>2. CASE OwnerOf(k) = NoHolder
  <2>1. \A r \in Run : SameView(r)
    BY <1>1, <1>2 DEF SameView
  <2> QED BY <2>1, PromiseStutters
<1>3. CASE OwnerOf(k) # NoHolder
  BY <1>1, <1>3 DEF SameView, Promise!LetGo
<1> QED BY <1>2, <1>3

\* A claim of a run whose lease is absent or expired is taking it over.
LEMMA PromiseTake ==
  ASSUME TypeOK, RunInv, NEW k \in Run, NEW h \in Holder,
         \A r \in Run : r # k => SameView(r),
         run[k].status \in AgentClaimable, ~run[k].live,
         run'[k].status = run[k].status, run'[k].rev = run[k].rev,
         run'[k].live, run'[k].holder = h
  PROVE  Promise!Take(k, h)
<1>1. PhaseOf(k) = "open" /\ SealOf(k) = NoManifest /\ OwnerOf(k) = NoHolder
  BY Views
<1>2. PhaseOf(k)' = "open" /\ SealOf(k)' = NoManifest /\ OwnerOf(k)' = h
  BY DEF PhaseOf, SealOf, OwnerOf, AgentClaimable
<1> QED BY <1>1, <1>2 DEF SameView, Promise!Take

LEMMA PromiseInit == Init => Promise!ContractInit
BY DEF Init, NewRow, Promise!ContractInit, PhaseOf, OwnerOf, SealOf

\* Starting a run opens it, takes it over, or renews the lease the caller has.
LEMMA PromiseBegin ==
  ASSUME TypeOK, TypeOK', RunInv, RunInv', NEW t \in Thread, NEW h \in Holder, NEW k \in Run,
         NEW c \in Context \cup {NoContext}, BeginStartIngest(t, h, k, c)
  PROVE  Promise!Open(k, h) \/ Promise!Take(k, h) \/ UNCHANGED Promise!contractVars
<1> DEFINE old == IF run[k].status = "absent" THEN NewRow("discovered", c) ELSE run[k]
<1>1. /\ CanClaim(h, old) /\ run' = [run EXCEPT ![k] = Attached(c, Claimed(h, old))]
      /\ receipt' = receipt
  BY DEF BeginStartIngest, commits
<1>2. old \in RunRow
  BY NewRowType DEF TypeOK, RunStatus, PreCommit, AgentClaimable
<1>3. \A r \in Run : r # k => SameView(r)
  BY <1>1, SameRow DEF TypeOK
<1>4. /\ run'[k].status = old.status /\ run'[k].rev = old.rev
      /\ run'[k].live = Claimed(h, old).live /\ run'[k].holder = Claimed(h, old).holder
  <2>1. Claimed(h, old) \in RunRow /\ Claimed(h, old).status = old.status /\ Claimed(h, old).rev = old.rev
    BY <1>1, <1>2, RowTypes, ClaimedMoves
  <2>2. run'[k] = Attached(c, Claimed(h, old))
    BY <1>1 DEF TypeOK
  <2> QED BY <2>1, <2>2 DEF Attached, RunRow
<1>5. Claimed(h, old).live /\ Claimed(h, old).holder = h
  BY <1>2 DEF Claimed, HoldsLease, RunRow
<1>6. CASE run[k].status = "absent"
  <2>1. old.status = "discovered" /\ old.rev = 0 /\ run[k].rev = 0 /\ run[k].live \in BOOLEAN
    BY <1>6 DEF NewRow, RunInv, Unpinned, TypeOK, RunRow
  <2>2. PhaseOf(k) = "none" /\ SealOf(k) = NoManifest
    BY <1>6, Views
  <2>3. PhaseOf(k)' = "open" /\ SealOf(k)' = NoManifest /\ OwnerOf(k)' = h
    BY <1>4, <1>5, <2>1 DEF PhaseOf, SealOf, OwnerOf
  <2>4. run'[k].rev = run[k].rev
    BY <1>4, <2>1
  <2> QED BY <1>3, <2>2, <2>3, <2>4 DEF SameView, Promise!Open
<1>7. CASE run[k].status # "absent" /\ ~run[k].live
  <2>1. old = run[k] /\ run[k].status \in AgentClaimable
    BY <1>1, <1>7 DEF CanClaim
  <2> HIDE DEF old
  <2>2. /\ run'[k].status = run[k].status /\ run'[k].rev = run[k].rev
        /\ run'[k].live /\ run'[k].holder = h
    BY <1>4, <1>5, <2>1
  <2> QED BY <1>3, <1>7, <2>1, <2>2, PromiseTake
<1>8. CASE run[k].status # "absent" /\ run[k].live
  <2>1. old = run[k] /\ run[k].status \in AgentClaimable /\ HoldsLease(h, old)
    BY <1>1, <1>8 DEF CanClaim
  <2> HIDE DEF old
  <2>2. /\ run'[k].status = run[k].status /\ run'[k].rev = run[k].rev
        /\ run'[k].live = run[k].live /\ run'[k].holder = run[k].holder
    BY <1>4, <2>1 DEF Claimed
  <2>3. SameView(k)
    BY <2>1, <2>2, StillOpen
  <2> QED BY <1>3, <2>3, PromiseStutters
<1> QED BY <1>6, <1>7, <1>8

\* Installing a snapshot puts a revision in, by the owner.
LEMMA PromisePut ==
  ASSUME TypeOK, RunInv, NEW h \in Holder, NEW k \in Run, NEW s, MayStage(h, k), Install(k, s)
  PROVE  Promise!Put(k)
<1>1. /\ \A r \in Run : r # k => SameView(r)
      /\ run'[k] = [run[k] EXCEPT !.status = "staged", !.rev = @ + 1, !.hash = NoManifest]
  BY SameRow DEF Install, commits, TypeOK
<1>2. /\ run'[k].status = "staged" /\ run'[k].rev = run[k].rev + 1
      /\ run'[k].live = run[k].live /\ run'[k].holder = run[k].holder
  BY <1>1 DEF TypeOK, RunRow
<1>3. run[k].status \in AgentClaimable /\ run[k].live
  BY DEF MayStage, Stageable, AgentClaimable, HoldsLease
<1>4. PhaseOf(k) = "open" /\ SealOf(k) = NoManifest /\ OwnerOf(k) # NoHolder
  BY <1>3, Views
<1>5. PhaseOf(k)' = "open" /\ SealOf(k)' = NoManifest /\ OwnerOf(k)' = OwnerOf(k)
  BY <1>2 DEF PhaseOf, SealOf, OwnerOf
<1>6. /\ \A r \in Run : PhaseOf(r)' = PhaseOf(r) /\ OwnerOf(r)' = OwnerOf(r) /\ SealOf(r)' = SealOf(r)
      /\ \A r \in Run : run'[r].rev = IF r = k THEN run[r].rev + 1 ELSE run[r].rev
  BY <1>1, <1>2, <1>4, <1>5 DEF SameView
<1> QED BY <1>4, <1>6 DEF Promise!Put

\* A ready verdict freezes what it is about, another leaves the run to its owner.
LEMMA PromiseVerdict ==
  ASSUME TypeOK, TypeOK', RunInv, RunInv', NEW t \in Thread, NEW v \in Verdict, ApplyOutcome(t, v)
  PROVE  (\E k \in Run, m \in Manifest : Promise!Freeze(k, m)) \/ UNCHANGED Promise!contractVars
<1>0. PICK k \in Run : k = call[t].run
  BY CallTypes DEF ApplyOutcome, TypeOK
<1>1. PICK m \in Manifest : m = [rev |-> call[t].sealed, verdict |-> v]
  BY CallTypes, IngestBoundAssumption DEF ApplyOutcome, Manifest, TypeOK
<1>2. /\ run[k].status = "staged" /\ run[k].rev = m.rev
      /\ run' = [run EXCEPT ![k] = Judged(@, m)] /\ receipt' = receipt
  BY <1>0, <1>1 DEF ApplyOutcome, Unfrozen, commits
<1>3. run'[k] = Judged(run[k], m) /\ \A r \in Run : r # k => SameView(r)
  BY <1>1, <1>2, SameRow DEF TypeOK
<1>4. CASE Ready(m)
  <2>1. /\ run'[k].status = "ready_to_commit" /\ run'[k].hash = m
        /\ run'[k].rev = run[k].rev /\ ~run'[k].live
    BY <1>1, <1>3, <1>4 DEF Judged, Leaseless, TypeOK, RunRow
  <2>2. PhaseOf(k) = "open"
    BY <1>1, <1>2, Views
  <2>3. PhaseOf(k)' = "frozen" /\ SealOf(k)' = m /\ OwnerOf(k)' = NoHolder
    BY <2>1 DEF PhaseOf, SealOf, OwnerOf
  <2>4. Promise!Freeze(k, m)
    BY <1>1, <1>2, <1>3, <2>1, <2>2, <2>3 DEF SameView, Promise!Freeze, RevisionIn
  <2> QED BY <1>1, <2>4
<1>5. CASE ~Ready(m)
  <2>1. /\ run'[k].status = "validation_failed" /\ run'[k].rev = run[k].rev
        /\ run'[k].live = run[k].live /\ run'[k].holder = run[k].holder
    BY <1>1, <1>3, <1>5 DEF Judged, TypeOK, RunRow
  <2>2. SameView(k)
    BY <1>1, <1>2, <2>1, StillOpen DEF AgentClaimable
  <2> QED BY <1>3, <2>2, PromiseStutters
<1> QED BY <1>4, <1>5

\* The commit seals what was frozen.
LEMMA PromiseCommit ==
  ASSUME TypeOK, CommitInv, RunInv, NEW t \in Thread, CommitTx(t)
  PROVE  \E k \in Run : Promise!Commit(k)
<1>1. PICK k \in Run, m \in Manifest : k = call[t].run /\ m = call[t].hash
  BY CallTypes DEF CommitTx, TypeOK
<1>2. /\ run[k].status = "ready_to_commit" /\ run[k].hash = m
      /\ run' = [run EXCEPT ![k].status = m.verdict] /\ receipt' = [receipt EXCEPT ![k] = m]
  BY <1>1 DEF CommitTx, Committable
<1>3. m.verdict \in {"complete", "partial"}
  BY <1>1, <1>2, ManifestAssumption DEF CommitInv, FrozenByLatestVerdict, Ready, Manifest, Verdict
<1>4. /\ run'[k].status = m.verdict /\ run'[k].rev = run[k].rev /\ run'[k].live = run[k].live
      /\ run'[k].holder = run[k].holder /\ receipt'[k] = m
      /\ \A r \in Run : r # k => SameView(r)
  <2>1. \A r \in Run : r # k => run'[r] = run[r] /\ receipt'[r] = receipt[r]
    BY <1>1, <1>2 DEF TypeOK
  <2>2. run'[k] = [run[k] EXCEPT !.status = m.verdict] /\ receipt'[k] = m
    BY <1>1, <1>2 DEF TypeOK
  <2> QED BY <1>1, <2>1, <2>2, SameRow DEF TypeOK, RunRow
<1>5. PhaseOf(k) = "frozen" /\ SealOf(k) = m
  BY <1>1, <1>2, Views
<1>6. PhaseOf(k)' = "committed" /\ SealOf(k)' = m /\ OwnerOf(k)' = OwnerOf(k)
  BY <1>3, <1>4 DEF PhaseOf, SealOf, OwnerOf
<1>7. Promise!Commit(k)
  BY <1>1, <1>4, <1>5, <1>6 DEF SameView, Promise!Commit
<1> QED BY <1>1, <1>7

\* Closing shuts what is open or frozen.
LEMMA PromiseShut ==
  ASSUME TypeOK, RunInv, NEW k \in Run, NEW s \in {"cancelled", "failed"}, Close(k, s)
  PROVE  Promise!Shut(k)
<1>1. /\ run'[k] = [Leaseless(run[k]) EXCEPT !.status = s]
      /\ \A r \in Run : r # k => SameView(r)
  BY SameRow DEF Close, commits, TypeOK
<1>2. run'[k].status = s /\ run'[k].rev = run[k].rev /\ ~run'[k].live
  BY <1>1 DEF Leaseless, TypeOK, RunRow
<1>3. PhaseOf(k) \in {"open", "frozen"}
  BY Views DEF Close, Active, PreCommit
<1>4. PhaseOf(k)' = "closed" /\ SealOf(k)' = NoManifest /\ OwnerOf(k)' = NoHolder
  BY <1>2 DEF PhaseOf, SealOf, OwnerOf
<1> QED BY <1>1, <1>2, <1>3, <1>4 DEF SameView, Promise!Shut

LEMMA PromiseThaw ==
  ASSUME TypeOK, RunInv, NEW k \in Run, InvalidateManifest(k)
  PROVE  Promise!Thaw(k)
<1>1. /\ run'[k] = Thawed(run[k]) /\ run[k].status = "ready_to_commit"
      /\ \A r \in Run : r # k => SameView(r)
  BY SameRow DEF InvalidateManifest, commits, TypeOK
<1>2. /\ run'[k].status = "staged" /\ run'[k].rev = run[k].rev
      /\ run'[k].live = run[k].live /\ run'[k].holder = run[k].holder
  BY <1>1 DEF Thawed, TypeOK, RunRow
<1>3. PhaseOf(k) = "frozen"
  BY <1>1, Views
<1>4. PhaseOf(k)' = "open" /\ SealOf(k)' = NoManifest /\ OwnerOf(k)' = OwnerOf(k)
  BY <1>2 DEF PhaseOf, SealOf, OwnerOf
<1> QED BY <1>1, <1>2, <1>3, <1>4 DEF SameView, Promise!Thaw

\* An expired lease is let go already: clearing its columns shows nothing.
LEMMA PromiseReclaim ==
  ASSUME TypeOK, run' = WithoutExpiredLeases, receipt' = receipt
  PROVE  UNCHANGED Promise!contractVars
<1> SUFFICES ASSUME NEW r \in Run PROVE SameView(r)
  BY PromiseStutters
<1>1. CASE ~Expired(run[r])
  BY <1>1, SameRow DEF WithoutExpiredLeases
<1>2. CASE Expired(run[r])
  <2>1. ~run[r].live /\ run'[r] = Leaseless(run[r])
    BY <1>2 DEF WithoutExpiredLeases, Expired
  <2>2. /\ run'[r].status = run[r].status /\ run'[r].rev = run[r].rev
        /\ run'[r].hash = run[r].hash /\ ~run'[r].live
    BY <2>1 DEF Leaseless, TypeOK, RunRow
  <2> QED BY <2>1, <2>2 DEF SameView, PhaseOf, OwnerOf, SealOf
<1> QED BY <1>1, <1>2

\* The second half of a start moves a run that stays open.
LEMMA PromiseFinish ==
  ASSUME TypeOK, TypeOK', RunInv, RunInv', NEW t \in Thread, NEW s \in Blob, FinishStartIngest(t, s)
  PROVE  UNCHANGED Promise!contractVars
<1>1. PICK k \in Run : k = call[t].run /\ run[k] \in RunRow
  BY CallTypes DEF FinishStartIngest, TypeOK
<1> DEFINE y == IF call[t].pins THEN Captured(run[k], s) ELSE run[k]
<1>2. run' = [run EXCEPT ![k] = Extracting(y)] /\ receipt' = receipt
  BY <1>1 DEF FinishStartIngest, commits
<1>3. run'[k] = Extracting(y) /\ \A r \in Run : r # k => SameView(r)
  BY <1>1, <1>2, SameRow DEF TypeOK
<1>4. y = run[k] \/ (/\ run[k].status = "discovered" /\ y.status = "source_captured"
                     /\ y.rev = run[k].rev /\ y.live = run[k].live /\ y.holder = run[k].holder)
  BY <1>1 DEF Captured, RunRow
<1>5. y \in RunRow
  BY <1>1, RowTypes
<1> HIDE DEF y
<1>6. Extracting(y) = y \/ (/\ y.status = "source_captured" /\ Extracting(y).status = "extracting"
                            /\ Extracting(y).rev = y.rev /\ Extracting(y).live = y.live
                            /\ Extracting(y).holder = y.holder)
  BY <1>5 DEF Extracting, MayExtract, RunRow
<1>7. SameView(k)
  <2>1. CASE run'[k] = run[k]
    BY <1>1, <1>2, <2>1, SameRow
  <2>2. CASE run'[k] # run[k]
    <3>1. /\ run[k].status \in {"discovered", "source_captured"}
          /\ run'[k].status \in {"source_captured", "extracting"}
          /\ run'[k].rev = run[k].rev /\ run'[k].live = run[k].live /\ run'[k].holder = run[k].holder
      BY <1>3, <1>4, <1>6, <2>2
    <3> QED BY <1>1, <3>1, StillOpen DEF AgentClaimable
  <2> QED BY <2>1, <2>2
<1> QED BY <1>3, <1>7, PromiseStutters

LEMMA PromiseStep ==
  ASSUME TypeOK, TypeOK', CommitInv, RunInv, RunInv', [Next]_ingestVars
  PROVE  [Promise!ContractNext]_(Promise!contractVars)
<1> DEFINE Keeps == [Promise!ContractNext]_(Promise!contractVars)
<1> USE DEF rows, staging, verdicts, commits, told
<1>0. ASSUME UNCHANGED Promise!contractVars PROVE Keeps
  BY <1>0
<1>a. ASSUME NEW k \in Run,
             \/ \E h \in Holder : Promise!Open(k, h) \/ Promise!Take(k, h)
             \/ \E m \in Manifest : Promise!Freeze(k, m)
             \/ Promise!LetGo(k) \/ Promise!Put(k) \/ Promise!Thaw(k) \/ Promise!Commit(k)
             \/ Promise!Shut(k)
      PROVE  Keeps
  BY <1>a DEF Promise!ContractNext
<1> HIDE DEF Keeps
<1>1. ASSUME UNCHANGED <<run, receipt>> PROVE Keeps
  <2>1. \A r \in Run : SameView(r)
    BY <1>1, SameRow
  <2> QED BY <1>0, <2>1, PromiseStutters
<1>2. ASSUME NEW k \in Run, LeaseExpires(k) PROVE Keeps
  <2>1. /\ run'[k] = [run[k] EXCEPT !.live = FALSE] /\ receipt'[k] = receipt[k]
        /\ \A r \in Run : r # k => SameView(r)
    BY <1>2, SameRow DEF LeaseExpires, TypeOK
  <2>2. /\ run'[k].status = run[k].status /\ run'[k].rev = run[k].rev
        /\ run'[k].hash = run[k].hash /\ ~run'[k].live
    BY <2>1 DEF TypeOK, RunRow
  <2> QED BY <1>0, <1>a, <2>1, <2>2, PromiseLetGo
<1>3. ASSUME NEW k \in Run, NEW h \in Holder, ReleaseLease(h, k) PROVE Keeps
  <2>1. /\ run'[k] = Leaseless(run[k]) /\ receipt'[k] = receipt[k]
        /\ \A r \in Run : r # k => SameView(r)
    BY <1>3, SameRow DEF ReleaseLease, TypeOK
  <2>2. /\ run'[k].status = run[k].status /\ run'[k].rev = run[k].rev
        /\ run'[k].hash = run[k].hash /\ ~run'[k].live
    BY <2>1 DEF Leaseless, TypeOK, RunRow
  <2> QED BY <1>0, <1>a, <2>1, <2>2, PromiseLetGo
<1>4. ASSUME NEW h \in Holder, ClaimNext(h) PROVE Keeps
  <2>1. PICK i \in 1..Len(order) :
          /\ CanClaim(h, run[order[i]]) /\ ~run[order[i]].live
          /\ run' = [run EXCEPT ![order[i]] = Claimed(h, @)]
    BY <1>4 DEF ClaimNext
  <2>2. PICK k \in Run : k = order[i] /\ receipt' = receipt
    BY <1>4 DEF ClaimNext, TypeOK
  <2>3. run'[k] = Claimed(h, run[k]) /\ \A r \in Run : r # k => SameView(r)
    BY <2>1, <2>2, SameRow DEF TypeOK
  <2>4. run[k].status \in AgentClaimable /\ ~HoldsLease(h, run[k]) /\ ~run[k].live /\ run[k] \in RunRow
    BY <2>1, <2>2 DEF CanClaim, HoldsLease, TypeOK
  <2>5. /\ run'[k].status = run[k].status /\ run'[k].rev = run[k].rev
        /\ run'[k].live /\ run'[k].holder = h
    BY <2>3, <2>4 DEF Claimed, RunRow
  <2> QED BY <1>a, <2>2, <2>3, <2>4, <2>5, PromiseTake
<1>5. ASSUME NEW h \in Holder,
             \/ \E k \in Run, p \in Payload : StageObservations(h, k, p)
             \/ \E d \in Draft : FinalizeDraft(h, d)
      PROVE  Keeps
  <2>1. \E k \in Run : \E s : MayStage(h, k) /\ Install(k, s)
    BY <1>5, DraftTypes DEF StageObservations, FinalizeDraft, Live
  <2> QED BY <1>a, <2>1, PromisePut
<1>6. ASSUME NEW h \in Holder,
             \/ \E r \in Run, d \in Draft, n \in 1..MaxChunks : OpenDraft(h, r, d, n)
             \/ \E d \in Draft, i \in 0..(MaxChunks - 1), p \in Payload : AppendChunk(h, d, i, p)
             \/ \E d \in Draft : RefuseStaleDraft(h, d)
      PROVE  Keeps
  BY <1>1, <1>6 DEF OpenDraft, AppendChunk, RefuseStaleDraft
<1>7. ASSUME NEW t \in Thread,
             \/ \E k \in Run, q \in 1..MaxRevision : ValidateCall(t, k, q)
             \/ SealRun(t)
             \/ \E k \in Run, m \in Manifest : CommitCall(t, k, m)
             \/ CommitLost(t) \/ CallFails(t)
      PROVE  Keeps
  BY <1>1, <1>7 DEF ValidateCall, SealRun, CommitCall, CommitLost, CallFails
<1>8. ASSUME \/ \E k \in Run, m \in Manifest : CommitReplay(k, m)
             \/ Crash \/ StartupReclaimFails \/ UNCHANGED ingestVars
      PROVE  Keeps
  BY <1>1, <1>8 DEF CommitReplay, Crash, StartupReclaimFails, ingestVars
<1>9. ASSUME ReclaimExpiredLeases \/ StartupReclaim
      PROVE  Keeps
  BY <1>0, <1>9, PromiseReclaim DEF ReclaimExpiredLeases, StartupReclaim
<1>10. ASSUME NEW t \in Thread,
              \/ \E h \in Holder, k \in Run, c \in Context \cup {NoContext} :
                   BeginStartIngest(t, h, k, c)
              \/ \E s \in Blob : FinishStartIngest(t, s)
              \/ \E v \in Verdict : ApplyOutcome(t, v)
              \/ CommitTx(t)
       PROVE  Keeps
  <2>1. ASSUME NEW h \in Holder, NEW k \in Run, NEW c \in Context \cup {NoContext},
               BeginStartIngest(t, h, k, c)
        PROVE  Keeps
    BY <1>0, <1>a, <2>1, PromiseBegin
  <2>2. ASSUME NEW s \in Blob, FinishStartIngest(t, s) PROVE Keeps
    BY <1>0, <2>2, PromiseFinish
  <2>3. ASSUME NEW v \in Verdict, ApplyOutcome(t, v) PROVE Keeps
    BY <1>0, <1>a, <2>3, PromiseVerdict
  <2>4. CASE CommitTx(t)
    BY <1>a, <2>4, PromiseCommit
  <2> QED BY <1>10, <2>1, <2>2, <2>3, <2>4
<1>11. ASSUME NEW k \in Run, InvalidateManifest(k) \/ CancelRun(k) \/ MarkFailed(k) PROVE Keeps
  BY <1>a, <1>11, PromiseThaw, PromiseShut DEF CancelRun, MarkFailed
<1>12. ASSUME \E h \in Holder :
                \/ ClaimNext(h)
                \/ \E r \in Run : ReleaseLease(h, r)
                \/ \E r \in Run, p \in Payload : StageObservations(h, r, p)
                \/ \E r \in Run, d \in Draft, n \in 1..MaxChunks : OpenDraft(h, r, d, n)
                \/ \E d \in Draft, i \in 0..(MaxChunks - 1), p \in Payload : AppendChunk(h, d, i, p)
                \/ \E d \in Draft : FinalizeDraft(h, d) \/ RefuseStaleDraft(h, d)
       PROVE  Keeps
  BY <1>3, <1>4, <1>5, <1>6, <1>12
<1>13. ASSUME \E t \in Thread :
                \/ \E h \in Holder, k \in Run, c \in Context \cup {NoContext} :
                     BeginStartIngest(t, h, k, c)
                \/ \E s \in Blob : FinishStartIngest(t, s)
                \/ \E k \in Run, q \in 1..MaxRevision : ValidateCall(t, k, q)
                \/ SealRun(t)
                \/ \E v \in Verdict : ApplyOutcome(t, v)
                \/ \E k \in Run, m \in Manifest : CommitCall(t, k, m)
                \/ CommitTx(t) \/ CommitLost(t) \/ CallFails(t)
       PROVE  Keeps
  BY <1>7, <1>10, <1>13
<1>14. ASSUME \E r \in Run :
                LeaseExpires(r) \/ InvalidateManifest(r) \/ CancelRun(r) \/ MarkFailed(r)
       PROVE  Keeps
  BY <1>2, <1>11, <1>14
<1>15. Keeps
  BY <1>8, <1>9, <1>12, <1>13, <1>14 DEF Next
<1> QED BY <1>15 DEF Keeps

\* An ingest run keeps its contract with the agents: one owner at a time, only the
\* owner's work enters, what is committed is what was frozen, and an end is an end,
\* whatever drafts, validators, late calls and restarts do in between
\* (kpi_ingest_runs.rs, kpi_ingest_commit.rs).
THEOREM ImplementsIngestContractHolds == Spec => ImplementsIngestContract
<1>1. TypeOK /\ TypeOK' /\ CommitInv /\ RunInv /\ RunInv' /\ [Next]_ingestVars
        => [Promise!ContractNext]_(Promise!contractVars)
  BY PromiseStep
<1> QED BY <1>1, RunAlways, PromiseInit, PTL DEF Spec, ImplementsIngestContract, Promise!Contract
=============================================================================
