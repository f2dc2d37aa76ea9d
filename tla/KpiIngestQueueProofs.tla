------------------------- MODULE KpiIngestQueueProofs -------------------------
(***************************************************************************)
(* Proofs about KpiIngestQueue, for any hashes, revisions, tries and       *)
(* troubles.                                                               *)
(***************************************************************************)
EXTENDS KpiIngestQueue, TLAPS

\* A validation has no hash to go by, a frozen run has one.
WellFormed(t) ==
  /\ t.st = "staged" => t.rev # 0 /\ t.hash = NoHash
  /\ t.st = "ready" => t.rev # 0 /\ t.hash # NoHash

Working == {"read", "seal", "apply", "chain", "commit", "reread", "arm", "ok", "err"}
Hooks == {"event", "hook"}
Reconciles == {"live", "tell", "mark"}

ShapeInv ==
  /\ WellFormed(tuple) /\ WellFormed(hand.seen)
  /\ \A t \in listed : QueueOwned(t) /\ WellFormed(t)
  /\ hand.at # "idle" => hand.job \in Gen
  /\ hand.at \in Working \cup Hooks => lane = "on"
  /\ hand.at \in Reconciles => lane = "reconciling" /\ hand.seen \in listed
                               /\ hand.job = GenOf(hand.seen)
  /\ lane \in {"down", "listing", "on", "off"} => listed = {}
  /\ lane = "listing_ready" => \A t \in listed : t.st = "staged"

\* Where a running row is, and which rows the thread is about to arm.
ThreadInv ==
  /\ \A g \in Gen : genRow[g].st = "running" =>
       lane = "down" \/ (lane = "on" /\ hand.job = g /\ hand.at \in Working)
  /\ \A g \in Gen : genRow[g].st = "pending" => genRow[g].tries < MaxTries
  /\ hand.at \in Working => genRow[hand.job].st = "running"
  /\ hand.at = "arm" /\ QueueOwned(hand.seen) => GenOf(hand.seen) # hand.job
  /\ hand.at \in {"seal", "apply", "chain"} => Validates(hand.job)
  /\ hand.at = "chain" => hand.seen.st = "ready"
  /\ hand.at = "apply" => hand.seen.st = "staged"
  /\ hand.at \in {"read", "commit"} => ~QueueOwned(hand.seen)

\* A failed run keeps its explanation.
FailureInv ==
  /\ hand.at \in Hooks \cup Reconciles => genRow[hand.job].st = "failed"
  /\ hand.at = "hook" => hand.job \in raised \cup unheard
  /\ hand.at = "mark" => hand.job \in raised
  /\ tuple.st = "failed" =>
       /\ hand.at # "chain"
       /\ hand.at = "arm" => ~QueueOwned(hand.seen)
       /\ \A t \in listed : GenOf(t) # fell

\* Who is going to see to the run, unless an agent moved it.
Pending(g) == genRow[g].st = "pending"
BatonInv ==
  /\ mover = "queue" /\ QueueOwned(tuple) =>
       /\ hand.at \in {"arm", "chain"} => tuple = hand.seen
       /\ hand.at = "ok" => \E g \in Gen \ {hand.job} : Pending(g)
       /\ lane = "listing_ready" => tuple \in listed \/ tuple.st = "ready"
       /\ lane = "reconciling" => tuple \in listed \/ Pending(GenOf(tuple))
  /\ hand.at = "ok" /\ QueueOwned(hand.seen) => \E g \in Gen \ {hand.job} : Pending(g)

GenInv == /\ GenTypeOK /\ SingleArmer /\ FailureIsExplained /\ RunIsNotLeftBehind
          /\ ShapeInv /\ ThreadInv /\ FailureInv /\ BatonInv

\* Abbreviations, expanded everywhere below.
USE DEF WellFormed, Working, Hooks, Reconciles, Pending, QueueOwned, GenOf, Owns, Validates,
        At, Trouble

\* The hand between jobs.
LEMMA FreeType == /\ Free \in Hand /\ Free.at = "idle" /\ Free.job = NoGen
                  /\ ~QueueOwned(Free.seen) /\ WellFormed(Free.seen)
BY GenAssumption DEF Free, Hand, Tuple, Gen, NoGen, Busy, QueueOwned, WellFormed

LEMMA OutcomeTypes ==
  ASSUME NEW t \in Tuple, NEW o \in Outcomes(t)
  PROVE  /\ o \in Tuple /\ o.rev = t.rev
         /\ \/ o.st = "agent" /\ o.hash = t.hash
            \/ o.st = "ready" /\ o.hash \in Hash
<1>1. CASE o = [t EXCEPT !.st = "agent"]
  BY <1>1 DEF Tuple
<1>2. ASSUME NEW h \in Hash, o = [t EXCEPT !.st = "ready", !.hash = h]
      PROVE  /\ o \in Tuple /\ o.rev = t.rev /\ o.st = "ready" /\ o.hash = h
  BY <1>2 DEF Tuple
<1> QED
  BY <1>1, <1>2 DEF Outcomes

LEMMA AgentStagesKeeps == GenInv /\ AgentStages => GenInv'
BY GenAssumption, SMTT(20)
   DEF GenInv, GenTypeOK, SingleArmer, FailureIsExplained, RunIsNotLeftBehind,
       ShapeInv, ThreadInv, FailureInv, BatonInv, Tuple, Gen, NoGen, Row, Hand, Busy,
       AgentStages, AgentMoves

LEMMA AgentValidatesKeeps == GenInv /\ AgentValidates => GenInv'
<1> SUFFICES ASSUME GenInv, AgentValidates PROVE GenInv'
  OBVIOUS
<1> USE GenAssumption
<1>t. tuple \in Tuple /\ hand \in Hand /\ WellFormed(tuple) /\ WellFormed(hand.seen)
  BY DEF GenInv, GenTypeOK, ShapeInv
<1>a. PICK t \in Outcomes(tuple) : AgentMoves(t)
  BY DEF AgentValidates
<1>c. t \in Tuple /\ t.rev = tuple.rev /\ (t.st = "agent" \/ (t.st = "ready" /\ t.hash \in Hash))
  BY <1>a, <1>t, OutcomeTypes
<1>b. tuple' = t
  BY <1>a DEF AgentMoves
<1> QED
  BY <1>t, <1>a, <1>c, <1>b, SMTT(30)
     DEF GenInv, GenTypeOK, SingleArmer, FailureIsExplained, RunIsNotLeftBehind,
         ShapeInv, ThreadInv, FailureInv, BatonInv, Tuple, Gen, NoGen, Row, Hand,
         Busy, AgentValidates, AgentMoves

LEMMA AgentEndsKeeps == GenInv /\ AgentEnds => GenInv'
<1> SUFFICES ASSUME GenInv, AgentEnds PROVE GenInv'
  OBVIOUS
<1> USE GenAssumption
<1>t. tuple \in Tuple /\ hand \in Hand /\ WellFormed(tuple) /\ WellFormed(hand.seen)
  BY DEF GenInv, GenTypeOK, ShapeInv
<1>a. tuple' \in Tuple /\ tuple'.rev = tuple.rev /\ tuple'.hash = tuple.hash /\ tuple'.st \in {"committed", "cancelled"}
  BY <1>t DEF AgentEnds, AgentMoves, Tuple
<1>b. mover' = "agent" /\ UNCHANGED <<genRow, lane, listed, hand, raised, troubles, thaws, lost,
        unheard, clash, fell>>
  BY DEF AgentEnds, AgentMoves
<1> QED
  BY <1>t, <1>a, <1>b, SMTT(30)
     DEF GenInv, GenTypeOK, SingleArmer, FailureIsExplained, RunIsNotLeftBehind,
         ShapeInv, ThreadInv, FailureInv, BatonInv, Tuple, Gen, NoGen, Row, Hand,
         Busy, AgentEnds

LEMMA ReadRunKeeps == GenInv /\ ReadRun => GenInv'
<1> SUFFICES ASSUME GenInv, ReadRun PROVE GenInv'
  OBVIOUS
<1> USE GenAssumption
<1>t. tuple \in Tuple /\ hand \in Hand /\ WellFormed(tuple) /\ WellFormed(hand.seen)
  BY DEF GenInv, GenTypeOK, ShapeInv
<1>b. UNCHANGED <<tuple, genRow, lane, listed, raised, troubles, thaws, mover,
                      lost, unheard, clash, fell>>
  BY DEF ReadRun, Thinks
<1>a. hand' \in Hand /\ hand'.job = hand.job /\
      IF ~Validates(hand.job) THEN hand'.at = "commit" /\ hand'.seen = hand.seen
      ELSE IF Owns(hand.job, tuple) THEN hand'.at = "seal" /\ hand'.seen = hand.seen
      ELSE hand'.at = "arm" /\ hand'.seen = tuple
  BY <1>t DEF ReadRun, Busy, Hand
<1> QED
  BY <1>t, <1>b, <1>a, SMTT(30)
     DEF GenInv, GenTypeOK, SingleArmer, FailureIsExplained, RunIsNotLeftBehind,
         ShapeInv, ThreadInv, FailureInv, BatonInv, Tuple, Gen, NoGen, Row, Hand,
         Busy, ReadRun

LEMMA SealManifestKeeps == GenInv /\ SealManifest => GenInv'
<1> SUFFICES ASSUME GenInv, SealManifest PROVE GenInv'
  OBVIOUS
<1> USE GenAssumption
<1>t. tuple \in Tuple /\ hand \in Hand /\ WellFormed(tuple) /\ WellFormed(hand.seen)
  BY DEF GenInv, GenTypeOK, ShapeInv
<1>b. UNCHANGED <<tuple, genRow, lane, listed, raised, troubles, thaws, mover,
                      lost, unheard, clash, fell>>
  BY DEF SealManifest, Thinks
<1>a. hand' \in Hand /\ hand'.job = hand.job /\
      IF tuple.st = "staged" THEN hand'.at = "apply" /\ hand'.seen = tuple
      ELSE hand'.at = "reread" /\ hand'.seen = hand.seen
  BY <1>t DEF SealManifest, Busy, Go, Hand
<1> QED
  BY <1>t, <1>b, <1>a, SMTT(30)
     DEF GenInv, GenTypeOK, SingleArmer, FailureIsExplained, RunIsNotLeftBehind,
         ShapeInv, ThreadInv, FailureInv, BatonInv, Tuple, Gen, NoGen, Row, Hand,
         Busy, SealManifest

LEMMA RereadKeeps == GenInv /\ Reread => GenInv'
<1> SUFFICES ASSUME GenInv, Reread PROVE GenInv'
  OBVIOUS
<1> USE GenAssumption
<1>t. tuple \in Tuple /\ hand \in Hand /\ WellFormed(tuple) /\ WellFormed(hand.seen)
  BY DEF GenInv, GenTypeOK, ShapeInv
<1>b. UNCHANGED <<tuple, genRow, lane, listed, raised, troubles, thaws, mover,
                      lost, unheard, clash, fell>>
  BY DEF Reread, Thinks
<1>a. hand' \in Hand /\ hand'.job = hand.job /\
      IF Owns(hand.job, tuple) THEN hand'.at = "err" /\ hand'.seen = hand.seen
      ELSE hand'.at = "arm" /\ hand'.seen = tuple
  BY <1>t DEF Reread, Busy, Hand
<1> QED
  BY <1>t, <1>b, <1>a, SMTT(30)
     DEF GenInv, GenTypeOK, SingleArmer, FailureIsExplained, RunIsNotLeftBehind,
         ShapeInv, ThreadInv, FailureInv, BatonInv, Tuple, Gen, NoGen, Row, Hand,
         Busy, Reread

LEMMA ApplyVerdictKeeps == GenInv /\ ApplyVerdict => GenInv'
<1> SUFFICES ASSUME GenInv, ApplyVerdict PROVE GenInv'
  OBVIOUS
<1> USE GenAssumption
<1>t. tuple \in Tuple /\ hand \in Hand /\ WellFormed(tuple) /\ WellFormed(hand.seen) /\ At("apply")
  BY DEF GenInv, GenTypeOK, ShapeInv, ApplyVerdict
<1>u. UNCHANGED <<genRow, lane, listed, raised, troubles, thaws, lost, unheard, clash, fell>>
  BY DEF ApplyVerdict
<1>1. CASE tuple # hand.seen
  <2>1. UNCHANGED <<tuple, mover>> /\ Go("reread")
    BY <1>1 DEF ApplyVerdict
  <2>2. hand' \in Hand /\ hand'.job = hand.job /\ hand'.seen = hand.seen /\ hand'.at = "reread"
    BY <2>1, <1>t DEF Go, Hand, Busy
  <2> QED
    BY <1>t, <1>u, <2>1, <2>2, SMTT(40)
       DEF GenInv, GenTypeOK, SingleArmer, FailureIsExplained, RunIsNotLeftBehind,
           ShapeInv, ThreadInv, FailureInv, BatonInv, Tuple, Gen, NoGen, Row, Hand,
           Busy
<1>2. CASE tuple = hand.seen
  <2>1. PICK t \in Outcomes(tuple) :
          /\ tuple' = t
          /\ mover' = "queue"
          /\ hand' = [hand EXCEPT !.at = IF t.st = "ready" THEN "chain" ELSE "ok", !.seen = t]
    BY <1>2 DEF ApplyVerdict
  <2>2. t \in Tuple /\ t.rev = tuple.rev /\ (t.st = "agent" \/ (t.st = "ready" /\ t.hash \in Hash))
    BY <1>t, OutcomeTypes
  <2>a. hand' \in Hand /\ hand'.job = hand.job /\ hand'.seen = t
        /\ hand'.at = IF t.st = "ready" THEN "chain" ELSE "ok"
    BY <2>1, <2>2, <1>t DEF Hand, Busy
  <2>b. tuple' = t /\ mover' = "queue"
    BY <2>1
  <2> QED
    BY <1>t, <1>u, <1>2, <2>a, <2>b, <2>2, SMTT(40)
       DEF GenInv, GenTypeOK, SingleArmer, FailureIsExplained, RunIsNotLeftBehind,
           ShapeInv, ThreadInv, FailureInv, BatonInv, Tuple, Gen, NoGen, Row, Hand,
           Busy
<1> QED
  BY <1>1, <1>2

LEMMA AgentThawsKeeps == GenInv /\ AgentThaws => GenInv'
<1> SUFFICES ASSUME GenInv, AgentThaws PROVE GenInv'
  OBVIOUS
<1> USE GenAssumption
<1>t. tuple \in Tuple /\ hand \in Hand /\ WellFormed(tuple) /\ WellFormed(hand.seen)
  BY DEF GenInv, GenTypeOK, ShapeInv
<1>a. tuple' \in Tuple /\ tuple'.rev = tuple.rev /\ tuple'.hash = NoHash /\ tuple'.st = "staged"
  BY <1>t DEF AgentThaws, AgentMoves, Tuple
<1> QED
  BY <1>t, <1>a, SMTT(30)
     DEF GenInv, GenTypeOK, SingleArmer, FailureIsExplained, RunIsNotLeftBehind,
         ShapeInv, ThreadInv, FailureInv, BatonInv, Tuple, Gen, NoGen, Row, Hand,
         Busy, AgentThaws, AgentMoves

LEMMA ClaimJobKeeps == ASSUME NEW g \in Gen, GenInv, ClaimJob(g) PROVE GenInv'
<1> USE GenAssumption
<1>t. /\ genRow \in [Gen -> Row] /\ hand = Free /\ lane = "on"
      /\ ~QueueOwned(Free.seen) /\ WellFormed(Free.seen)
  BY FreeType DEF GenInv, GenTypeOK, ClaimJob
<1>a. /\ genRow' \in [Gen -> Row] /\ genRow'[g].st = "running"
      /\ \A i \in Gen : i # g => genRow'[i] = genRow[i]
  <2>1. genRow[g].tries + 1 \in 0..MaxTries
    BY <1>t DEF GenInv, ThreadInv, Row, ClaimJob
  <2> QED
    BY <1>t, <2>1 DEF Row, ClaimJob
<1>p. genRow[g].st = "pending"
  BY DEF ClaimJob
<1>h. hand' \in Hand /\ hand'.at = "read" /\ hand'.job = g /\ hand'.seen = Free.seen
  BY <1>t, FreeType DEF ClaimJob, Hand, Busy
<1>n. \A i \in Gen : genRow[i].st # "running"
  BY <1>t, FreeType DEF GenInv, ThreadInv, Working
<1>u. UNCHANGED <<tuple, lane, listed, raised, troubles, thaws, mover, lost, unheard, clash, fell>>
  BY DEF ClaimJob
<1> QED
  BY <1>t, <1>a, <1>h, <1>n, <1>p, <1>u, SMTT(40)
     DEF GenInv, GenTypeOK, SingleArmer, FailureIsExplained, RunIsNotLeftBehind,
         ShapeInv, ThreadInv, FailureInv, BatonInv, Tuple, Gen, NoGen, Row, Hand, Busy

LEMMA ArmsType ==
  ASSUME NEW g \in Gen, genRow \in [Gen -> Row], Arms(g)
  PROVE  /\ genRow' \in [Gen -> Row]
         /\ \A i \in Gen : i # g => genRow'[i] = genRow[i]
         /\ genRow'[g] = IF genRow[g].st \in {"pending", "running"} THEN genRow[g] ELSE Fresh
         /\ Fresh \in Row /\ Fresh.st = "pending" /\ Fresh.tries < MaxTries
BY GenAssumption DEF Arms, Fresh, Row

LEMMA ChainCommitKeeps == GenInv /\ ChainCommit => GenInv'
<1> SUFFICES ASSUME GenInv, ChainCommit PROVE GenInv'
  OBVIOUS
<1> USE GenAssumption
<1> DEFINE g == [rev |-> hand.job.rev, hash |-> hand.seen.hash]
<1>t. /\ tuple \in Tuple /\ hand \in Hand /\ genRow \in [Gen -> Row]
      /\ WellFormed(tuple) /\ WellFormed(hand.seen) /\ At("chain")
      /\ hand.job \in Gen /\ hand.seen.st = "ready" /\ Validates(hand.job)
  BY DEF GenInv, GenTypeOK, ShapeInv, ThreadInv, ChainCommit, At, Working
<1>g. g \in Gen /\ g # hand.job /\ Arms(g) /\ mover' = Adopted(g)
  BY <1>t DEF ChainCommit, WellFormed, Gen, Hand, Tuple, Validates
<1>r. /\ genRow[hand.job].st = "running" /\ lane = "on"
      /\ \A i \in Gen : genRow[i].st = "running" => i = hand.job
  BY <1>t DEF GenInv, ThreadInv, Working, At
<1>a. /\ genRow' \in [Gen -> Row]
      /\ \A i \in Gen : i # g => genRow'[i] = genRow[i]
      /\ genRow'[g] = IF genRow[g].st = "pending" THEN genRow[g] ELSE Fresh
      /\ genRow'[g].st = "pending" /\ genRow'[g].tries < MaxTries /\ clash' = clash
  <2> HIDE DEF g
  <2>1. genRow[g].st # "running" /\ clash \in BOOLEAN
       /\ (genRow[g].st = "pending" => genRow[g].tries < MaxTries)
    BY <1>g, <1>r DEF GenInv, GenTypeOK, ThreadInv
  <2>2. clash' = clash
    BY <2>1, <1>g DEF Arms
  <2> QED
    BY <1>t, <1>g, <2>1, <2>2, ArmsType
<1>h. hand' \in Hand /\ hand'.job = hand.job /\ hand'.seen = hand.seen /\ hand'.at = "ok"
  BY <1>t, <1>g, <1>r DEF ChainCommit, ArmSucceeds, Go, Hand, Busy
<1>u. UNCHANGED <<tuple, lane, listed, raised, troubles, thaws, lost, unheard, fell>>
  BY DEF ChainCommit
<1>m. mover' \in {"queue", "agent"}
  BY <1>g DEF Adopted, GenInv, GenTypeOK
<1> HIDE DEF g
<1> QED
  BY <1>t, <1>g, <1>r, <1>a, <1>h, <1>u, <1>m, SMTT(40)
     DEF GenInv, GenTypeOK, SingleArmer, FailureIsExplained, RunIsNotLeftBehind,
         ShapeInv, ThreadInv, FailureInv, BatonInv, Tuple, Gen, NoGen, Row, Hand, Busy

LEMMA ArmCurrentKeeps == GenInv /\ ArmCurrent => GenInv'
<1> SUFFICES ASSUME GenInv, ArmCurrent PROVE GenInv'
  OBVIOUS
<1> USE GenAssumption
<1> DEFINE g == GenOf(hand.seen)
<1>t. /\ tuple \in Tuple /\ hand \in Hand /\ genRow \in [Gen -> Row]
      /\ WellFormed(tuple) /\ WellFormed(hand.seen) /\ At("arm") /\ hand.job \in Gen
  BY DEF GenInv, GenTypeOK, ShapeInv, ArmCurrent, At
<1>r. /\ genRow[hand.job].st = "running" /\ lane = "on"
      /\ \A i \in Gen : genRow[i].st = "running" => i = hand.job
  BY <1>t DEF GenInv, ThreadInv, Working, At
<1>u. UNCHANGED <<tuple, lane, listed, raised, troubles, thaws, lost, unheard, fell>>
  BY DEF ArmCurrent
<1>1. CASE ~QueueOwned(hand.seen)
  <2>h. hand' \in Hand /\ hand'.job = hand.job /\ hand'.seen = hand.seen /\ hand'.at = "ok"
    BY <1>t, <1>1 DEF ArmCurrent, Go, Hand, Busy
  <2>u. UNCHANGED <<genRow, clash, mover>>
    BY <1>1 DEF ArmCurrent
  <2> QED
    BY <1>t, <1>r, <1>u, <1>1, <2>h, <2>u, SMTT(40)
       DEF GenInv, GenTypeOK, SingleArmer, FailureIsExplained, RunIsNotLeftBehind,
           ShapeInv, ThreadInv, FailureInv, BatonInv, Tuple, Gen, NoGen, Row, Hand,
           Busy
<1>2. CASE QueueOwned(hand.seen)
  <2>g. g \in Gen /\ g # hand.job /\ Arms(g) /\ mover' = Adopted(g)
    BY <1>t, <1>2 DEF ArmCurrent, Gen, Hand, Tuple, GenInv, ThreadInv
  <2>a. /\ genRow' \in [Gen -> Row]
        /\ \A i \in Gen : i # g => genRow'[i] = genRow[i]
        /\ genRow'[g] = IF genRow[g].st = "pending" THEN genRow[g] ELSE Fresh
        /\ genRow'[g].st = "pending" /\ genRow'[g].tries < MaxTries /\ clash' = clash
    <3> HIDE DEF g
    <3>1. genRow[g].st # "running" /\ clash \in BOOLEAN
         /\ (genRow[g].st = "pending" => genRow[g].tries < MaxTries)
      BY <2>g, <1>r DEF GenInv, GenTypeOK, ThreadInv
    <3>2. clash' = clash
      BY <3>1, <2>g DEF Arms
    <3> QED
      BY <1>t, <2>g, <3>1, <3>2, ArmsType
  <2>h. hand' \in Hand /\ hand'.job = hand.job /\ hand'.seen = hand.seen /\ hand'.at = "ok"
    BY <1>t, <2>g, <1>r, <1>2 DEF ArmCurrent, ArmSucceeds, Go, Hand, Busy
  <2>m. mover' \in {"queue", "agent"}
    BY <2>g DEF Adopted, GenInv, GenTypeOK
  <2>s. g = GenOf(hand.seen)
    OBVIOUS
  <2> HIDE DEF g
  <2> QED
    BY <1>t, <1>2, <2>g, <1>r, <2>a, <2>h, <1>u, <2>m, <2>s, SMTT(40)
       DEF GenInv, GenTypeOK, SingleArmer, FailureIsExplained, RunIsNotLeftBehind,
           ShapeInv, ThreadInv, FailureInv, BatonInv, Tuple, Gen, NoGen, Row, Hand,
           Busy
<1> QED
  BY <1>1, <1>2

LEMMA SettleJobKeeps == GenInv /\ SettleJob => GenInv'
<1> SUFFICES ASSUME GenInv, SettleJob PROVE GenInv'
  OBVIOUS
<1> USE GenAssumption
<1> DEFINE g == hand.job
<1>t. /\ tuple \in Tuple /\ hand \in Hand /\ genRow \in [Gen -> Row]
      /\ WellFormed(tuple) /\ WellFormed(hand.seen) /\ g \in Gen /\ lane = "on"
      /\ hand.at \in {"ok", "err"}
  BY DEF GenInv, GenTypeOK, ShapeInv, SettleJob, At
<1>r. /\ genRow[g].st = "running"
      /\ \A i \in Gen : genRow[i].st = "running" => i = g
  BY <1>t DEF GenInv, ThreadInv, Working
<1>u. UNCHANGED <<tuple, lane, listed, raised, troubles, thaws, mover, unheard, clash, fell>>
  BY DEF SettleJob
<1>f. \E x \in {"succeeded", "pending", "failed"} :
        /\ genRow' = [genRow EXCEPT ![g].st = x]
        /\ x = "pending" => genRow[g].tries < MaxTries
        /\ hand.at = "ok" => x = "succeeded" /\ hand' = Free /\ lost' = lost
        /\ hand.at = "err" => \/ x = "pending" /\ hand' = Free /\ lost' = lost
                              \/ x = "failed" /\ Go("event") /\ lost'
  <2>1. CASE hand.at = "ok"
    BY <2>1 DEF SettleJob, At
  <2>2. CASE hand.at = "err" /\ genRow[g].tries < MaxTries
    <3>1. lost' = (lost \/ FALSE) /\ lost \in BOOLEAN
      BY <2>2 DEF SettleJob, At, GenInv, GenTypeOK
    <3>2. genRow' = [genRow EXCEPT ![g].st = "pending"] /\ hand' = Free
      BY <2>2 DEF SettleJob, At
    <3>3. lost' = lost
      BY <3>1, Zenon
    <3> WITNESS "pending" \in {"succeeded", "pending", "failed"}
    <3> QED
      BY <2>2, <3>3, <3>2, Zenon
  <2>3. CASE hand.at = "err" /\ ~(genRow[g].tries < MaxTries)
    <3>1. lost' = (lost \/ TRUE) /\ lost \in BOOLEAN
      BY <2>3 DEF SettleJob, At, GenInv, GenTypeOK
    <3>2. genRow' = [genRow EXCEPT ![g].st = "failed"] /\ Go("event")
      BY <2>3 DEF SettleJob, At
    <3> QED
      BY <2>3, <3>1, <3>2
  <2> QED
    BY <1>t, <2>1, <2>2, <2>3
<1>x. PICK x \in {"succeeded", "pending", "failed"} :
        /\ genRow' = [genRow EXCEPT ![g].st = x]
        /\ x = "pending" => genRow[g].tries < MaxTries
        /\ hand.at = "ok" => x = "succeeded" /\ hand' = Free /\ lost' = lost
        /\ hand.at = "err" => \/ x = "pending" /\ hand' = Free /\ lost' = lost
                              \/ x = "failed" /\ Go("event") /\ lost'
  BY <1>f
<1>a. /\ genRow' \in [Gen -> Row] /\ genRow'[g].st = x
      /\ x = "pending" => genRow'[g].tries < MaxTries
      /\ \A i \in Gen : i # g => genRow'[i] = genRow[i]
  BY <1>t, <1>x DEF Row
<1>h. /\ hand' \in Hand /\ WellFormed(hand'.seen)
      /\ hand'.at = IF x = "failed" THEN "event" ELSE "idle"
      /\ x = "failed" => hand'.job = g
      /\ ~QueueOwned(Free.seen)
  BY <1>t, <1>x, FreeType DEF Go, Hand, Busy
<1>k. lost \in BOOLEAN /\ lost' \in BOOLEAN
  BY DEF SettleJob, GenInv, GenTypeOK
<1>l. (x = "failed" => lost') /\ (lost => lost')
  BY <1>t, <1>x, <1>k
<1>o. hand.at = "ok" <=> x = "succeeded"
  BY <1>t, <1>x
<1> HIDE DEF g
<1>g. g = hand.job
  BY DEF g
<1> QED
  BY <1>t, <1>g, <1>r, <1>a, <1>h, <1>k, <1>l, <1>o, <1>u, SMTT(40)
     DEF GenInv, GenTypeOK, SingleArmer, FailureIsExplained, RunIsNotLeftBehind,
         ShapeInv, ThreadInv, FailureInv, BatonInv, Tuple, Gen, NoGen, Row, Hand, Busy

LEMMA ReclaimsKeeps == GenInv /\ Reclaims => GenInv'
<1> SUFFICES ASSUME GenInv, Reclaims PROVE GenInv'
  OBVIOUS
<1> USE GenAssumption
<1>t. tuple \in Tuple /\ hand \in Hand /\ WellFormed(tuple) /\ WellFormed(hand.seen)
  BY DEF GenInv, GenTypeOK, ShapeInv
<1>a. /\ genRow' \in [Gen -> Row]
      /\ \A i \in Gen : /\ genRow'[i].st # "running"
                        /\ genRow'[i].st = "pending" => genRow'[i].tries < MaxTries
                        /\ genRow[i].st # "running" => genRow'[i] = genRow[i]
  BY DEF GenInv, GenTypeOK, ThreadInv, Reclaims, Row
<1>b. /\ lane = "down" /\ lane' = "listing" /\ mover' = "queue" /\ lost' = FALSE
      /\ UNCHANGED <<tuple, listed, hand, raised, troubles, thaws, unheard, clash, fell>>
  BY DEF Reclaims
<1>1. GenTypeOK'
  BY <1>t, <1>a, <1>b DEF GenInv, GenTypeOK
<1>2. SingleArmer'
  BY <1>t, <1>a, <1>b, SMTT(20)
     DEF GenInv, GenTypeOK, SingleArmer, FailureIsExplained, RunIsNotLeftBehind,
         ShapeInv, ThreadInv, FailureInv, BatonInv, Tuple, Gen, NoGen, Row, Hand, Busy
<1>3. FailureIsExplained'
  BY <1>t, <1>a, <1>b, SMTT(20)
     DEF GenInv, GenTypeOK, SingleArmer, FailureIsExplained, RunIsNotLeftBehind,
         ShapeInv, ThreadInv, FailureInv, BatonInv, Tuple, Gen, NoGen, Row, Hand, Busy
<1>4. RunIsNotLeftBehind'
  BY <1>t, <1>a, <1>b, SMTT(20)
     DEF GenInv, GenTypeOK, SingleArmer, FailureIsExplained, RunIsNotLeftBehind,
         ShapeInv, ThreadInv, FailureInv, BatonInv, Tuple, Gen, NoGen, Row, Hand, Busy
<1>5. ShapeInv'
  BY <1>t, <1>a, <1>b, SMTT(20)
     DEF GenInv, GenTypeOK, SingleArmer, FailureIsExplained, RunIsNotLeftBehind,
         ShapeInv, ThreadInv, FailureInv, BatonInv, Tuple, Gen, NoGen, Row, Hand, Busy
<1>6. ThreadInv'
  BY <1>t, <1>a, <1>b, SMTT(20)
     DEF GenInv, GenTypeOK, SingleArmer, FailureIsExplained, RunIsNotLeftBehind,
         ShapeInv, ThreadInv, FailureInv, BatonInv, Tuple, Gen, NoGen, Row, Hand, Busy
<1>7. FailureInv'
  BY <1>t, <1>a, <1>b, SMTT(20)
     DEF GenInv, GenTypeOK, SingleArmer, FailureIsExplained, RunIsNotLeftBehind,
         ShapeInv, ThreadInv, FailureInv, BatonInv, Tuple, Gen, NoGen, Row, Hand, Busy
<1>8. BatonInv'
  BY <1>t, <1>a, <1>b, SMTT(20)
     DEF GenInv, GenTypeOK, SingleArmer, FailureIsExplained, RunIsNotLeftBehind,
         ShapeInv, ThreadInv, FailureInv, BatonInv, Tuple, Gen, NoGen, Row, Hand, Busy
<1> QED
  BY <1>1, <1>2, <1>3, <1>4, <1>5, <1>6, <1>7, <1>8 DEF GenInv

LEMMA CommitManifestKeeps == GenInv /\ CommitManifest => GenInv'
<1> SUFFICES ASSUME GenInv, CommitManifest PROVE GenInv'
  OBVIOUS
<1> USE GenAssumption
<1>t. tuple \in Tuple /\ hand \in Hand /\ WellFormed(tuple) /\ WellFormed(hand.seen)
  BY DEF GenInv, GenTypeOK, ShapeInv
<1>a. /\ tuple' \in Tuple /\ tuple'.rev = tuple.rev /\ tuple'.hash = tuple.hash
      /\ tuple' = tuple \/ (tuple.st = "ready" /\ tuple'.st = "committed")
      /\ hand' \in Hand /\ hand'.job = hand.job /\ hand'.seen = hand.seen
      /\ hand'.at \in {"ok", "reread"} /\ (hand'.at = "ok" => ~QueueOwned(tuple'))
  BY <1>t DEF CommitManifest, Go, Hand, Busy, Tuple, QueueOwned
<1>b. At("commit") /\ UNCHANGED <<genRow, lane, listed, raised, troubles, thaws, mover, lost,
        unheard, clash, fell>>
  BY DEF CommitManifest
<1> QED
  BY <1>t, <1>a, <1>b, SMTT(30)
     DEF GenInv, GenTypeOK, SingleArmer, FailureIsExplained, RunIsNotLeftBehind,
         ShapeInv, ThreadInv, FailureInv, BatonInv, Tuple, Gen, NoGen, Row, Hand, Busy

LEMMA HandlerFailsKeeps == GenInv /\ HandlerFails => GenInv'
BY GenAssumption, SMTT(20)
   DEF GenInv, GenTypeOK, SingleArmer, FailureIsExplained, RunIsNotLeftBehind,
       ShapeInv, ThreadInv, FailureInv, BatonInv, Tuple, Gen, NoGen, Row, Hand, Busy,
       HandlerFails, Go

LEMMA RaiseEventKeeps == GenInv /\ RaiseEvent => GenInv'
BY GenAssumption, SMTT(20)
   DEF GenInv, GenTypeOK, SingleArmer, FailureIsExplained, RunIsNotLeftBehind,
       ShapeInv, ThreadInv, FailureInv, BatonInv, Tuple, Gen, NoGen, Row, Hand, Busy,
       RaiseEvent, Go

LEMMA TerminalHookKeeps == GenInv /\ TerminalHook => GenInv'
BY GenAssumption, SMTT(20)
   DEF GenInv, GenTypeOK, SingleArmer, FailureIsExplained, RunIsNotLeftBehind,
       ShapeInv, ThreadInv, FailureInv, BatonInv, Tuple, Gen, NoGen, Row, Hand, Busy,
       TerminalHook, MarkFailedForGen, Free

LEMMA DiesKeeps == GenInv /\ Dies => GenInv'
BY GenAssumption, SMTT(20)
   DEF GenInv, GenTypeOK, SingleArmer, FailureIsExplained, RunIsNotLeftBehind,
       ShapeInv, ThreadInv, FailureInv, BatonInv, Tuple, Gen, NoGen, Row, Hand, Busy,
       Dies, Free

LEMMA ListStagedKeeps == GenInv /\ ListStaged => GenInv'
BY GenAssumption, SMTT(20)
   DEF GenInv, GenTypeOK, SingleArmer, FailureIsExplained, RunIsNotLeftBehind,
       ShapeInv, ThreadInv, FailureInv, BatonInv, Tuple, Gen, NoGen, Row, Hand, Busy,
       ListStaged

LEMMA ListReadyKeeps == GenInv /\ ListReady => GenInv'
BY GenAssumption, SMTT(20)
   DEF GenInv, GenTypeOK, SingleArmer, FailureIsExplained, RunIsNotLeftBehind,
       ShapeInv, ThreadInv, FailureInv, BatonInv, Tuple, Gen, NoGen, Row, Hand, Busy,
       ListReady

LEMMA ReconcileRowKeeps == ASSUME NEW t \in listed, GenInv, ReconcileRow(t) PROVE GenInv'
<1> USE GenAssumption
<1> DEFINE g == GenOf(t)
<1>t. /\ tuple \in Tuple /\ hand \in Hand /\ genRow \in [Gen -> Row] /\ t \in Tuple
      /\ WellFormed(tuple) /\ WellFormed(t) /\ QueueOwned(t)
      /\ hand.at = "idle" /\ lane = "reconciling"
  BY DEF GenInv, GenTypeOK, ShapeInv, ReconcileRow, Starting
<1>g. g \in Gen
  BY <1>t DEF WellFormed, Gen, GenOf, Tuple, QueueOwned
<1>n. \A i \in Gen : genRow[i].st # "running"
  BY <1>t DEF GenInv, ThreadInv
<1>u. UNCHANGED <<tuple, lane, raised, troubles, thaws, lost, unheard, fell>>
  BY DEF ReconcileRow
<1>1. CASE genRow[g].st = "failed"
  <2>1. hand' = [at |-> "live", job |-> g, seen |-> t] /\ UNCHANGED <<genRow, clash, mover, listed>>
    BY <1>1 DEF ReconcileRow
  <2>2. hand' \in Hand /\ hand'.at = "live" /\ hand'.job = g /\ hand'.seen = t
    BY <2>1, <1>t, <1>g DEF Hand, Busy
  <2> QED
    BY <1>t, <1>u, <1>1, <2>1, <2>2, <1>g, SMTT(30)
       DEF GenInv, GenTypeOK, SingleArmer, FailureIsExplained, RunIsNotLeftBehind,
           ShapeInv, ThreadInv, FailureInv, BatonInv, Tuple, Gen, NoGen, Row, Hand,
           Busy
<1>2. CASE genRow[g].st = "pending"
  <2>1. listed' = listed \ {t} /\ UNCHANGED <<genRow, clash, mover, hand>>
    BY <1>2 DEF ReconcileRow
  <2> QED
    BY <1>t, <1>u, <1>2, <2>1, <1>g, SMTT(30)
       DEF GenInv, GenTypeOK, SingleArmer, FailureIsExplained, RunIsNotLeftBehind,
           ShapeInv, ThreadInv, FailureInv, BatonInv, Tuple, Gen, NoGen, Row, Hand,
           Busy
<1>3. CASE genRow[g].st \notin {"failed", "pending"}
  <2>1. Arms(g) /\ mover' = Adopted(g) /\ listed' = listed \ {t} /\ UNCHANGED hand
    BY <1>3, <1>n, <1>g DEF ReconcileRow
  <2>2. clash' = clash
    BY <2>1, <1>n, <1>g DEF Arms, GenInv, GenTypeOK
  <2>3. /\ genRow' \in [Gen -> Row] /\ genRow'[g].st = "pending" /\ genRow'[g].tries < MaxTries
        /\ \A i \in Gen : i # g => genRow'[i] = genRow[i]
    <3> HIDE DEF g
    <3> QED
      BY <2>1, <1>3, <1>n, <1>g, <1>t, ArmsType
  <2>m. mover' \in {"queue", "agent"} /\ (mover' # mover => Owns(g, tuple))
    BY <2>1 DEF Adopted, GenInv, GenTypeOK
  <2> QED
    BY <1>t, <1>u, <1>n, <1>g, <1>3, <2>1, <2>2, <2>3, <2>m, SMTT(30)
       DEF GenInv, GenTypeOK, SingleArmer, FailureIsExplained, RunIsNotLeftBehind,
           ShapeInv, ThreadInv, FailureInv, BatonInv, Tuple, Gen, NoGen, Row, Hand,
           Busy
<1> QED
  BY <1>1, <1>2, <1>3

LEMMA ReconcileLiveKeeps == GenInv /\ ReconcileLive => GenInv'
BY GenAssumption, SMTT(20)
   DEF GenInv, GenTypeOK, SingleArmer, FailureIsExplained, RunIsNotLeftBehind,
       ShapeInv, ThreadInv, FailureInv, BatonInv, Tuple, Gen, NoGen, Row, Hand, Busy,
       ReconcileLive, Starting, Go, Reconciled, Free

LEMMA ReconcileEventKeeps == GenInv /\ ReconcileEvent => GenInv'
BY GenAssumption, SMTT(20)
   DEF GenInv, GenTypeOK, SingleArmer, FailureIsExplained, RunIsNotLeftBehind,
       ShapeInv, ThreadInv, FailureInv, BatonInv, Tuple, Gen, NoGen, Row, Hand, Busy,
       ReconcileEvent, Starting, Go

LEMMA ReconcileMarkKeeps == GenInv /\ ReconcileMark => GenInv'
BY GenAssumption, SMTT(20)
   DEF GenInv, GenTypeOK, SingleArmer, FailureIsExplained, RunIsNotLeftBehind,
       ShapeInv, ThreadInv, FailureInv, BatonInv, Tuple, Gen, NoGen, Row, Hand, Busy,
       ReconcileMark, Starting, MarkFailedForGen, Reconciled, Free

LEMMA ReconcileFailsKeeps == GenInv /\ ReconcileFails => GenInv'
BY GenAssumption, SMTT(20)
   DEF GenInv, GenTypeOK, SingleArmer, FailureIsExplained, RunIsNotLeftBehind,
       ShapeInv, ThreadInv, FailureInv, BatonInv, Tuple, Gen, NoGen, Row, Hand, Busy,
       ReconcileFails, Free

LEMMA StartLaneKeeps == GenInv /\ StartLane => GenInv'
BY GenAssumption, SMTT(20)
   DEF GenInv, GenTypeOK, SingleArmer, FailureIsExplained, RunIsNotLeftBehind,
       ShapeInv, ThreadInv, FailureInv, BatonInv, Tuple, Gen, NoGen, Row, Hand, Busy,
       StartLane, Starting, Free

LEMMA GenInitInv == GenInit => GenInv
<1> SUFFICES ASSUME GenInit PROVE GenInv
  OBVIOUS
<1> USE GenAssumption
<1>r. tuple \in Tuple /\ genRow \in [Gen -> Row]
  BY DEF GenInit, Tuple, Row
<1>h. hand = Free /\ hand \in Hand
  BY FreeType DEF GenInit
<1>c. troubles \in 0..MaxTroubles /\ thaws \in 0..MaxThaws
  BY DEF GenInit
<1>u. /\ lane = "down" /\ listed = {} /\ raised = {} /\ unheard = {} /\ lost = FALSE
      /\ clash = FALSE /\ fell = NoGen /\ mover = "queue"
  BY DEF GenInit
<1>t. GenTypeOK
  BY <1>r, <1>h, <1>c, <1>u DEF GenTypeOK
<1>o. tuple.st = "agent" /\ \A g \in Gen : genRow[g].st = "missing"
  BY DEF GenInit
<1> QED
  BY <1>t, <1>u, <1>h, <1>o, FreeType, SMTT(20)
     DEF GenInv, GenTypeOK, SingleArmer, FailureIsExplained, RunIsNotLeftBehind,
         ShapeInv, ThreadInv, FailureInv, BatonInv, Tuple, Gen, NoGen, Row, Hand, Busy

LEMMA GenInvStep == GenInv /\ [GenNext]_genVars => GenInv'
<1> SUFFICES ASSUME GenInv, [GenNext]_genVars PROVE GenInv'
  OBVIOUS
<1>1. CASE Agents
  BY <1>1, AgentStagesKeeps, AgentValidatesKeeps, AgentEndsKeeps, AgentThawsKeeps
     DEF Agents
<1>2. CASE WorkerSteps
  BY <1>2, ClaimJobKeeps, ReadRunKeeps, SealManifestKeeps, ApplyVerdictKeeps, ChainCommitKeeps,
     CommitManifestKeeps, RereadKeeps, ArmCurrentKeeps, SettleJobKeeps, RaiseEventKeeps,
     TerminalHookKeeps DEF WorkerSteps
<1>3. CASE StartSteps
  BY <1>3, ReclaimsKeeps, ListStagedKeeps, ListReadyKeeps, ReconcileRowKeeps, ReconcileLiveKeeps,
     ReconcileEventKeeps, ReconcileMarkKeeps, StartLaneKeeps DEF StartSteps
<1>4. CASE HandlerFails \/ ReconcileFails \/ Dies
  BY <1>4, HandlerFailsKeeps, ReconcileFailsKeeps, DiesKeeps
<1>5. CASE UNCHANGED genVars
  BY <1>5
     DEF genVars, GenInv, GenTypeOK, SingleArmer, FailureIsExplained,
         RunIsNotLeftBehind, ShapeInv, ThreadInv, FailureInv, BatonInv, Tuple, Gen,
         NoGen, Row, Hand, Busy
<1> QED
  BY <1>1, <1>2, <1>3, <1>4, <1>5 DEF GenNext

\* The invariant holds in every reachable state of the queue.
THEOREM GenInvHolds == GenSpec => []GenInv
BY GenInitInv, GenInvStep, PTL DEF GenSpec

\* Run, rows, lane and thread keep their types
\* (kpi_ingest_queue.rs).
THEOREM GenTypesHold == GenSpec => []GenTypeOK
BY GenInvHolds, PTL DEF GenInv

\* However crashes, agents and retries interleave, the queue fails a run only in
\* the generation whose own job is failed, after its event (terminalize_ingest_run,
\* reconcile_one_run).
THEOREM FailureIsExplainedHolds == GenSpec => []FailureIsExplained
BY GenInvHolds, PTL DEF GenInv

\* No running row is ever armed again (arm).
THEOREM SingleArmerHolds == GenSpec => []SingleArmer
BY GenInvHolds, PTL DEF GenInv

\* A run the queue owns has a job that will see to it, unless an agent moved it or
\* a job failed for good (arm_current_generation, reconcile_ingest_jobs).
THEOREM RunIsNotLeftBehindHolds == GenSpec => []RunIsNotLeftBehind
BY GenInvHolds, PTL DEF GenInv

\* A job ends well only after the run it last saw is in another job's hands
\* (arm_current_generation).
THEOREM BatonIsPassedHolds == GenSpec => []BatonIsPassed
<1>1. GenInv => BatonIsPassed
  BY DEF GenInv, BatonInv, BatonIsPassed, Pending, At
<1> QED
  BY <1>1, GenInvHolds, PTL

\* A generation the queue owns has a job, at rest and while one hands over to the
\* next (arm_current_generation, enqueue_commit, reconcile_ingest_jobs).
THEOREM GenerationIsCoveredHolds == GenSpec => []GenerationIsCovered
BY RunIsNotLeftBehindHolds, BatonIsPassedHolds, PTL DEF GenerationIsCovered

\* A late job fails no later generation and arms no row that is at work (arm,
\* terminalize_ingest_run, reconcile_one_run).
THEOREM LateJobsDoNoHarmHolds == GenSpec => []LateJobsDoNoHarm
BY FailureIsExplainedHolds, SingleArmerHolds, PTL DEF LateJobsDoNoHarm
=============================================================================
