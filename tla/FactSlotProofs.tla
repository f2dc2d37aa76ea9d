--------------------------- MODULE FactSlotProofs ---------------------------
(***************************************************************************)
(* What FactSlot says of one slot, proved for every set of figures, every  *)
(* number of facts and of calls cut short, and every overlap of calls.     *)
(***************************************************************************)
EXTENDS FactSlot, TLAPS

USE FactAssumption
DEF Tier, RankOf, Method, Scribe, TierOf, MethodOf, StatusOf, Statement, Empty, NoRow,
    FactRow, ProvRow, ScribeRow, StillThere, Doing

-----------------------------------------------------------------------------
(* The inductive invariant. *)

\* A call that has begun has a figure, and a fact once it is past the lookup.
ScribeInv ==
  \A w \in Scribe :
    /\ scribe[w].at # "rest" => scribe[w].value \in Figure
    /\ scribe[w].at \notin {"rest", "insert"} => scribe[w].id # 0

\* A call holds the id of a fact that was made: the next fact is not its fact.
IdsAreMade == fact.id <= made /\ pull.id <= made /\ \A w \in Scribe : scribe[w].id <= made

\* A manual entry has no label of a source, and nobody is about to write it who
\* does not ask again: a cover note past its look at the tier, an act past the
\* method.
ManualInv ==
  fact # Empty /\ fact.method = "manual" =>
    /\ prov.tier \notin Tier
    /\ ~(StillThere("cover") /\ scribe["cover"].at \in {"rewrite", "method", "check", "label"})
    /\ ~(StillThere("agent") /\ scribe["agent"].at \in {"check", "label"})

\* A verdict is a source's, and no stamp is owed to the aggregator's own figure.
WitnessInv ==
  /\ WitnessIsAnother
  /\ prov.tier \notin Tier => prov.status = "none"
  /\ pull.at = "stamp" =>
       pull.value # 0 /\ pull.id # 0 /\ (pull.id = fact.id => fact # Empty /\ prov.tier # "html_aggregator")

\* Unless a call was cut short, the method of a figure without a label names the
\* writer who will label it: of two that overlap, the later one.
LabelledInv ==
  cuts = 0 /\ prov.tier \notin Tier =>
    /\ fact.method # "api"
    /\ fact.method = "mcp_agent" => AtWork("agent")
    /\ fact.method = "espi_cover_note" => AtWork("cover")

\* On a fact with a clean history a call in progress has written its own figure
\* and method, and the stamp still owed agrees with the figure.
TrueInv ==
  clean /\ fact # Empty =>
    /\ author # "nobody"
    /\ \A w \in Scribe : AtWork(w) =>
         author = TierOf[w] /\ (scribe[w].at # "method" => fact.method = MethodOf[w])
    /\ LabelsAreTrue
    /\ pull.at = "stamp" /\ pull.id = fact.id => Agree(pull.value, fact.value)

SlotInv == FactTypeOK /\ ScribeInv /\ IdsAreMade /\ ManualInv /\ WitnessInv /\ LabelledInv /\ TrueInv

CleanStep == clean' = (fact' = Empty \/ (clean /\ ~Spoils))

-----------------------------------------------------------------------------
(* What the statements of a call keep of the types. *)

LEMMA AgreeSymmetric ==
  ASSUME NEW x \in Int, NEW y \in Int, Agree(x, y) PROVE Agree(y, x)
BY DEF Agree

LEMMA AwayType == Away \in ScribeRow
BY DEF Away

LEMMA ScribeReplaced ==
  ASSUME scribe \in [Scribe -> ScribeRow], NEW w \in Scribe, NEW r \in ScribeRow
  PROVE  [scribe EXCEPT ![w] = r] \in [Scribe -> ScribeRow]
OBVIOUS

LEMMA ScribeMoves ==
  ASSUME scribe \in [Scribe -> ScribeRow], NEW w \in Scribe, NEW s \in Statement, MovesTo(w, s)
  PROVE  scribe' \in [Scribe -> ScribeRow]
<1>1. [scribe[w] EXCEPT !.at = s] \in ScribeRow
  OBVIOUS
<1> QED BY <1>1 DEF MovesTo

LEMMA ScribeStops ==
  ASSUME scribe \in [Scribe -> ScribeRow], NEW w \in Scribe, Stops(w)
  PROVE  scribe' \in [Scribe -> ScribeRow]
BY AwayType, ScribeReplaced DEF Stops

-----------------------------------------------------------------------------
(* One lemma per step. *)

LEMMA SlotFilled ==
  ASSUME SlotInv, NEW t \in Tier, NEW m \in {"api", "mcp_agent"}, Matches(t, m),
  NEW v \in Figure, NEW s \in {"passed", "unreviewed"}, Insert(v, m), prov' = Label(t, s),
  Attributed(t), UNCHANGED <<scribe, pull, cuts>>,
         CleanStep
  PROVE  SlotInv'
<1>1. FactTypeOK'
  BY DEF SlotInv, FactTypeOK, Insert, Label, Attributed, CleanStep
<1>2. ScribeInv'
  BY <1>1 DEF SlotInv, ScribeInv
<1>3. IdsAreMade'
  BY <1>1 DEF SlotInv, FactTypeOK, IdsAreMade, Insert
<1>4. ManualInv'
  BY <1>1 DEF ManualInv, Insert
<1>5. WitnessInv'
  BY <1>1 DEF SlotInv, FactTypeOK, IdsAreMade, WitnessInv, WitnessIsAnother,
     Insert, Label
<1>6. LabelledInv'
  BY <1>1 DEF LabelledInv, Label
<1>7. TrueInv'
  BY <1>1 DEF SlotInv, FactTypeOK, IdsAreMade, TrueInv, AtWork, LabelsAreTrue,
     Insert, Label, Attributed
<1> QED BY <1>1, <1>2, <1>3, <1>4, <1>5, <1>6, <1>7
  DEF SlotInv

LEMMA SlotTaken ==
  ASSUME SlotInv, NEW t \in Tier, NEW m \in {"api", "mcp_agent"}, Matches(t, m),
  NEW v \in Figure, NEW s \in {"passed", "unreviewed"}, fact # Empty, prov.tier \in Tier,
  t = "html_aggregator" => pull.at = "rest", fact' = [fact EXCEPT !.value = v, !.method = m],
  prov' = Label(t, s), Attributed(t), UNCHANGED <<made, scribe, pull, cuts>>,
         CleanStep
  PROVE  SlotInv'
<1>1. FactTypeOK'
  BY DEF SlotInv, FactTypeOK, Label, Attributed, CleanStep
<1>2. ScribeInv'
  BY <1>1 DEF SlotInv, ScribeInv
<1>3. IdsAreMade'
  BY <1>1 DEF SlotInv, IdsAreMade
<1>4. ManualInv'
  BY <1>1 DEF ManualInv
<1>5. WitnessInv'
  BY <1>1 DEF SlotInv, WitnessInv, WitnessIsAnother, Label
<1>6. LabelledInv'
  BY <1>1 DEF LabelledInv, Label
<1>7. TrueInv'
  BY <1>1 DEF FactTypeOK, TrueInv, AtWork, LabelsAreTrue, CleanStep, Spoils,
     Overlaps, Label, Attributed
<1> QED BY <1>1, <1>2, <1>3, <1>4, <1>5, <1>6, <1>7
  DEF SlotInv

LEMMA StampOwed ==
  ASSUME SlotInv, NEW v \in Figure, pull.at = "rest", fact # Empty, HeldByAnother,
  Agree(fact.value, v), Owe(v), UNCHANGED <<fact, prov, made, author, scribe, cuts>>,
         CleanStep
  PROVE  SlotInv'
<1>1. FactTypeOK'
  BY DEF SlotInv, FactTypeOK, Owe, CleanStep
<1>2. ScribeInv'
  BY <1>1 DEF SlotInv, ScribeInv
<1>3. IdsAreMade'
  BY <1>1 DEF SlotInv, IdsAreMade, Owe
<1>4. ManualInv'
  BY <1>1 DEF SlotInv, ManualInv
<1>5. WitnessInv'
  BY <1>1 DEF SlotInv, FactTypeOK, ManualInv, WitnessInv, WitnessIsAnother,
     HeldByAnother, Outranks, Owe
<1>6. LabelledInv'
  BY <1>1 DEF SlotInv, LabelledInv, AtWork
<1>7. TrueInv'
  <2>1. Agree(v, fact.value)
    <3>1. fact.value \in Figure
      BY DEF SlotInv, FactTypeOK
    <3>2. Figure \subseteq Int
      OBVIOUS
    <3> QED BY <3>1, <3>2, AgreeSymmetric
  <2>2. clean' /\ fact' # Empty => clean /\ fact # Empty
    BY DEF CleanStep
  <2>3. LabelsAreTrue' <=> (fact # Empty /\ clean' /\ ~(\E w \in Scribe : AtWork(w)) => LabelsAreTrue)
    BY <2>2 DEF LabelsAreTrue, AtWork
  <2> QED
    BY <2>1, <2>2, <2>3 DEF SlotInv, TrueInv, LabelsAreTrue, AtWork, Owe
<1> QED BY <1>1, <1>2, <1>3, <1>4, <1>5, <1>6, <1>7
  DEF SlotInv

LEMMA Corroboration ==
  ASSUME SlotInv, RecordCorroboration,
         CleanStep
  PROVE  SlotInv'
<1>1. FactTypeOK'
  BY DEF SlotInv, FactTypeOK, RecordCorroboration, Stamped, Rest, CleanStep
<1>2. ScribeInv'
  BY <1>1 DEF SlotInv, ScribeInv, RecordCorroboration
<1>3. IdsAreMade'
  BY <1>1 DEF SlotInv, FactTypeOK, IdsAreMade, RecordCorroboration, Rest
<1>4. ManualInv'
  BY <1>1 DEF SlotInv, ManualInv, RecordCorroboration, Stamped
<1>5. WitnessInv'
  BY <1>1 DEF SlotInv, WitnessInv, WitnessIsAnother, RecordCorroboration, Stamped,
     Rest
<1>6. LabelledInv'
  BY <1>1 DEF SlotInv, LabelledInv, AtWork, RecordCorroboration, Stamped
<1>7. TrueInv'
  BY <1>1 DEF SlotInv, FactTypeOK, TrueInv, AtWork, Matches, LabelsAreTrue,
     CleanStep, RecordCorroboration, Stamped, Rest
<1> QED BY <1>1, <1>2, <1>3, <1>4, <1>5, <1>6, <1>7
  DEF SlotInv

LEMMA CoverFind ==
  ASSUME SlotInv, NEW v \in Figure, CoverFinds(v),
         CleanStep
  PROVE  SlotInv'
<1>1. FactTypeOK'
  BY DEF SlotInv, FactTypeOK, CoverFinds, CleanStep
<1>2. ScribeInv'
  BY <1>1 DEF SlotInv, FactTypeOK, ScribeInv, CoverFinds
<1>3. IdsAreMade'
  BY <1>1 DEF SlotInv, IdsAreMade, CoverFinds
<1>4. ManualInv'
  BY <1>1 DEF SlotInv, ManualInv, CoverFinds
<1>5. WitnessInv'
  BY <1>1 DEF SlotInv, WitnessInv, WitnessIsAnother, CoverFinds
<1>6. LabelledInv'
  BY <1>1 DEF SlotInv, LabelledInv, AtWork, CoverFinds
<1>7. TrueInv'
  BY <1>1 DEF SlotInv, FactTypeOK, TrueInv, AtWork, LabelsAreTrue, CleanStep,
     CoverFinds
<1> QED BY <1>1, <1>2, <1>3, <1>4, <1>5, <1>6, <1>7
  DEF SlotInv

LEMMA CoverRank ==
  ASSUME SlotInv, CoverRanks,
         CleanStep
  PROVE  SlotInv'
<1>1. FactTypeOK'
  <2>1. scribe' \in [Scribe -> ScribeRow]
    <3>1. CASE scribe' = [scribe EXCEPT !["cover"].at = "rewrite",
                 !["cover"].value = IF scribe["cover"].agrees THEN fact.value ELSE @]
      <4> DEFINE r == [scribe["cover"] EXCEPT !.at = "rewrite",
                        !.value = IF scribe["cover"].agrees THEN fact.value ELSE @]
      <4>1. r \in ScribeRow
        <5>1. scribe["cover"] \in ScribeRow /\ fact.value \in Figure \cup {0}
          BY DEF SlotInv, FactTypeOK
        <5> QED BY <5>1
      <4>2. scribe' = [scribe EXCEPT !["cover"] = r]
        BY <3>1 DEF SlotInv, FactTypeOK
      <4> HIDE DEF r
      <4> QED BY <4>1, <4>2, ScribeReplaced DEF SlotInv, FactTypeOK
    <3>2. CASE Stops("cover")
      BY <3>2, ScribeReplaced, AwayType DEF SlotInv, FactTypeOK, Stops
    <3> QED BY <3>1, <3>2 DEF CoverRanks
  <2> QED
    BY <2>1 DEF SlotInv, FactTypeOK, ScribeInv, CoverRanks, CleanStep
<1>2. ScribeInv'
  BY <1>1 DEF SlotInv, FactTypeOK, ScribeInv, CoverRanks, Stops, Away
<1>3. IdsAreMade'
  BY <1>1 DEF SlotInv, FactTypeOK, IdsAreMade, CoverRanks, Stops, Away
<1>4. ManualInv'
  BY <1>1 DEF SlotInv, FactTypeOK, ManualInv, CoverRanks, Outranks, Stops, Away
<1>5. WitnessInv'
  BY <1>1 DEF SlotInv, WitnessInv, WitnessIsAnother, CoverRanks
<1>6. LabelledInv'
  BY <1>1 DEF SlotInv, FactTypeOK, LabelledInv, AtWork, CoverRanks, Stops
<1>7. TrueInv'
  BY <1>1 DEF SlotInv, FactTypeOK, TrueInv, AtWork, LabelsAreTrue, CleanStep,
     CoverRanks, Stops, Away
<1> QED BY <1>1, <1>2, <1>3, <1>4, <1>5, <1>6, <1>7
  DEF SlotInv

LEMMA CoverInsert ==
  ASSUME SlotInv, CoverInserts,
         CleanStep
  PROVE  SlotInv'
<1>1. FactTypeOK'
  <2>1. scribe' \in [Scribe -> ScribeRow]
    <3>1. CASE /\ scribe' = [scribe EXCEPT !["cover"].at = "method", !["cover"].id = made + 1]
               /\ made < MaxFacts
      <4> DEFINE r == [scribe["cover"] EXCEPT !.at = "method", !.id = made + 1]
      <4>1. r \in ScribeRow
        <5>1. scribe["cover"] \in ScribeRow /\ made + 1 \in 0..MaxFacts
          BY <3>1 DEF SlotInv, FactTypeOK
        <5> QED BY <5>1
      <4>2. scribe' = [scribe EXCEPT !["cover"] = r]
        BY <3>1 DEF SlotInv, FactTypeOK
      <4> HIDE DEF r
      <4> QED BY <4>1, <4>2, ScribeReplaced DEF SlotInv, FactTypeOK
    <3>2. CASE Stops("cover")
      BY <3>2, ScribeReplaced, AwayType DEF SlotInv, FactTypeOK, Stops
    <3> QED BY <3>1, <3>2 DEF CoverInserts, Insert
  <2> QED
    BY <2>1 DEF SlotInv, FactTypeOK, ScribeInv, CoverInserts, Insert,
       Attributed, CleanStep
<1>2. ScribeInv'
  BY <1>1 DEF SlotInv, FactTypeOK, ScribeInv, CoverInserts, Stops, Away
<1>3. IdsAreMade'
  BY <1>1 DEF SlotInv, FactTypeOK, IdsAreMade, CoverInserts, Stops, Away
<1>4. ManualInv'
  BY <1>1 DEF SlotInv, FactTypeOK, IdsAreMade, ManualInv, CoverInserts, Stops,
     Away
<1>5. WitnessInv'
  BY <1>1 DEF SlotInv, WitnessInv, WitnessIsAnother, CoverInserts
<1>6. LabelledInv'
  BY <1>1 DEF SlotInv, FactTypeOK, IdsAreMade, LabelledInv, AtWork, CoverInserts,
     Stops
<1>7. TrueInv'
  BY <1>1 DEF SlotInv, FactTypeOK, IdsAreMade, TrueInv, AtWork, LabelsAreTrue,
     CleanStep, CoverInserts, Stops, Away
<1> QED BY <1>1, <1>2, <1>3, <1>4, <1>5, <1>6, <1>7
  DEF SlotInv

LEMMA AgentCreate ==
  ASSUME SlotInv, NEW v \in Figure, AgentCreates(v),
         CleanStep
  PROVE  SlotInv'
<1>1. FactTypeOK'
  BY DEF SlotInv, FactTypeOK, AgentCreates, Insert, Attributed, CleanStep
<1>2. ScribeInv'
  BY <1>1 DEF SlotInv, FactTypeOK, ScribeInv, AgentCreates
<1>3. IdsAreMade'
  BY <1>1 DEF SlotInv, FactTypeOK, IdsAreMade, AgentCreates, Insert
<1>4. ManualInv'
  BY <1>1 DEF ManualInv, AgentCreates, Insert
<1>5. WitnessInv'
  BY <1>1 DEF SlotInv, WitnessInv, WitnessIsAnother, AgentCreates
<1>6. LabelledInv'
  BY <1>1 DEF FactTypeOK, LabelledInv, AtWork, AgentCreates, Insert
<1>7. TrueInv'
  BY <1>1 DEF SlotInv, FactTypeOK, IdsAreMade, TrueInv, AtWork, LabelsAreTrue,
     AgentCreates, Insert, Attributed
<1> QED BY <1>1, <1>2, <1>3, <1>4, <1>5, <1>6, <1>7
  DEF SlotInv

LEMMA AgentUpdate ==
  ASSUME SlotInv, NEW v \in Figure, AgentUpdates(v),
         CleanStep
  PROVE  SlotInv'
<1>1. FactTypeOK'
  BY DEF SlotInv, FactTypeOK, AgentUpdates, CleanStep
<1>2. ScribeInv'
  BY <1>1 DEF SlotInv, FactTypeOK, ScribeInv, AgentUpdates
<1>3. IdsAreMade'
  BY <1>1 DEF SlotInv, IdsAreMade, AgentUpdates
<1>4. ManualInv'
  BY <1>1 DEF SlotInv, ManualInv, AgentUpdates
<1>5. WitnessInv'
  BY <1>1 DEF SlotInv, WitnessInv, WitnessIsAnother, AgentUpdates
<1>6. LabelledInv'
  BY <1>1 DEF SlotInv, LabelledInv, AtWork, AgentUpdates
<1>7. TrueInv'
  BY <1>1 DEF SlotInv, FactTypeOK, TrueInv, AtWork, LabelsAreTrue, CleanStep,
     AgentUpdates
<1> QED BY <1>1, <1>2, <1>3, <1>4, <1>5, <1>6, <1>7
  DEF SlotInv

LEMMA RewriteStep ==
  ASSUME SlotInv, NEW w \in Scribe, Rewrite(w),
         CleanStep
  PROVE  SlotInv'
<1>1. FactTypeOK'
  <2>1. scribe' \in [Scribe -> ScribeRow]
    <3>1. MovesTo(w, "method") \/ Stops(w)
      BY DEF Rewrite
    <3> QED BY <3>1, ScribeMoves, ScribeStops DEF SlotInv, FactTypeOK
  <2> QED
    BY <2>1 DEF SlotInv, FactTypeOK, ScribeInv, Rewrite, Attributed, CleanStep
<1>2. ScribeInv'
  BY <1>1 DEF SlotInv, FactTypeOK, ScribeInv, Rewrite, MovesTo, Stops, Away
<1>3. IdsAreMade'
  BY <1>1 DEF SlotInv, FactTypeOK, IdsAreMade, Rewrite, MovesTo, Stops, Away
<1>4. ManualInv'
  BY <1>1 DEF SlotInv, FactTypeOK, ManualInv, Rewrite, MovesTo, Stops, Away
<1>5. WitnessInv'
  BY <1>1 DEF SlotInv, FactTypeOK, WitnessInv, WitnessIsAnother, Rewrite
<1>6. LabelledInv'
  BY <1>1 DEF SlotInv, FactTypeOK, LabelledInv, AtWork, Rewrite, MovesTo, Stops
<1>7. TrueInv'
  <2>1. CASE StillThere(w)
    <3>1. ASSUME clean', fact' # Empty
          PROVE  clean /\ ~Spoils /\ fact # Empty
      <4>1. clean /\ ~Spoils
        BY <1>1, <3>1 DEF CleanStep, SlotInv, FactTypeOK
      <4>2. fact # Empty
        BY <2>1 DEF Rewrite, SlotInv, FactTypeOK, ScribeInv
      <4> QED BY <4>1, <4>2
    <3>2. ASSUME clean', fact' # Empty
          PROVE  /\ \A x \in Scribe \ {w} : ~AtWork(x) /\ ~AtWork(x)'
                 /\ ~(pull.at = "stamp" /\ pull.id = fact.id)
                 /\ AtWork(w)' /\ scribe'[w].at = "method"
      BY <2>1, <3>1, <3>2
      DEF Rewrite, MovesTo, Spoils, Overlaps, AtWork, SlotInv, FactTypeOK
    <3> QED
      BY <1>1, <2>1, <3>2
      DEF SlotInv, FactTypeOK, TrueInv, LabelsAreTrue, Rewrite, MovesTo, Attributed
  <2>2. CASE ~StillThere(w)
    <3>1. UNCHANGED <<fact, prov, pull, author>> /\ (clean' /\ fact' # Empty => clean)
      BY <2>2 DEF Rewrite, CleanStep
    <3>2. \A x \in Scribe : AtWork(x)' <=> AtWork(x)
      BY <2>2 DEF Rewrite, Stops, Away, AtWork, SlotInv, FactTypeOK
    <3>3. \A x \in Scribe : AtWork(x) => scribe'[x] = scribe[x]
      BY <2>2 DEF Rewrite, Stops, AtWork, SlotInv, FactTypeOK
    <3> QED BY <3>1, <3>2, <3>3 DEF SlotInv, TrueInv, LabelsAreTrue
  <2> QED BY <2>1, <2>2
<1> QED BY <1>1, <1>2, <1>3, <1>4, <1>5, <1>6, <1>7
  DEF SlotInv

LEMMA SyncStep ==
  ASSUME SlotInv, NEW w \in Scribe, SyncMethod(w),
         CleanStep
  PROVE  SlotInv'
<1>1. FactTypeOK'
  <2>1. scribe' \in [Scribe -> ScribeRow]
    BY ScribeMoves DEF SyncMethod, SlotInv, FactTypeOK
  <2> QED
    BY <2>1 DEF SlotInv, FactTypeOK, ScribeInv, SyncMethod, CleanStep
<1>2. ScribeInv'
  BY <1>1 DEF SlotInv, ScribeInv, SyncMethod, MovesTo
<1>3. IdsAreMade'
  BY <1>1 DEF SlotInv, IdsAreMade, SyncMethod, MovesTo
<1>4. ManualInv'
  BY <1>1 DEF SlotInv, ManualInv, SyncMethod, MovesTo
<1>5. WitnessInv'
  BY <1>1 DEF SlotInv, WitnessInv, WitnessIsAnother, SyncMethod
<1>6. LabelledInv'
  BY <1>1 DEF SlotInv, LabelledInv, AtWork, SyncMethod, MovesTo
<1>7. TrueInv'
  BY <1>1 DEF SlotInv, FactTypeOK, TrueInv, AtWork, LabelsAreTrue, CleanStep,
     SyncMethod, MovesTo
<1> QED BY <1>1, <1>2, <1>3, <1>4, <1>5, <1>6, <1>7
  DEF SlotInv

LEMMA CheckStep ==
  ASSUME SlotInv, NEW w \in Scribe, CheckMethod(w),
         CleanStep
  PROVE  SlotInv'
<1>1. FactTypeOK'
  <2>1. scribe' \in [Scribe -> ScribeRow]
    <3>1. MovesTo(w, "label") \/ Stops(w)
      BY DEF CheckMethod
    <3> QED BY <3>1, ScribeMoves, ScribeStops DEF SlotInv, FactTypeOK
  <2> QED
    BY <2>1 DEF SlotInv, FactTypeOK, ScribeInv, CheckMethod, CleanStep
<1>2. ScribeInv'
  BY <1>1 DEF SlotInv, FactTypeOK, ScribeInv, CheckMethod, MovesTo, Stops, Away
<1>3. IdsAreMade'
  BY <1>1 DEF SlotInv, FactTypeOK, IdsAreMade, CheckMethod, MovesTo, Stops, Away
<1>4. ManualInv'
  BY <1>1 DEF SlotInv, FactTypeOK, ManualInv, CheckMethod, MovesTo
<1>5. WitnessInv'
  BY <1>1 DEF SlotInv, WitnessInv, WitnessIsAnother, CheckMethod
<1>6. LabelledInv'
  BY <1>1 DEF SlotInv, FactTypeOK, LabelledInv, AtWork, Matches, MethodsOf,
     CheckMethod, MovesTo, Stops
<1>7. TrueInv'
  BY <1>1 DEF SlotInv, FactTypeOK, TrueInv, AtWork, Matches, MethodsOf,
     LabelsAreTrue, CleanStep, CheckMethod, MovesTo
<1> QED BY <1>1, <1>2, <1>3, <1>4, <1>5, <1>6, <1>7
  DEF SlotInv

LEMMA LabelStep ==
  ASSUME SlotInv, NEW w \in Scribe, WriteLabel(w),
         CleanStep
  PROVE  SlotInv'
<1>1. FactTypeOK'
  BY DEF SlotInv, FactTypeOK, WriteLabel, Label, Stops, Away, CleanStep
<1>2. ScribeInv'
  BY <1>1 DEF SlotInv, ScribeInv, WriteLabel, Stops, Away
<1>3. IdsAreMade'
  BY <1>1 DEF SlotInv, FactTypeOK, IdsAreMade, WriteLabel, Stops, Away
<1>4. ManualInv'
  BY <1>1 DEF SlotInv, ManualInv, WriteLabel, Stops, Away
<1>5. WitnessInv'
  BY <1>1 DEF SlotInv, WitnessInv, WitnessIsAnother, WriteLabel, Label
<1>6. LabelledInv'
  BY <1>1 DEF SlotInv, LabelledInv, AtWork, WriteLabel, Label, Stops
<1>7. TrueInv'
  BY <1>1 DEF SlotInv, FactTypeOK, TrueInv, AtWork, Matches, MethodsOf,
     LabelsAreTrue, CleanStep, WriteLabel, Label, Stops, Away
<1> QED BY <1>1, <1>2, <1>3, <1>4, <1>5, <1>6, <1>7
  DEF SlotInv

LEMMA CutStep ==
  ASSUME SlotInv, Cut,
         CleanStep
  PROVE  SlotInv'
<1>1. FactTypeOK'
  <2>1. scribe' \in [Scribe -> ScribeRow]
    BY ScribeStops DEF Cut, SlotInv, FactTypeOK
  <2>2. cuts' \in 0..MaxCuts
    BY DEF Cut, SlotInv, FactTypeOK
  <2>3. pull' \in [at : {"rest", "stamp"}, id : 0..MaxFacts, value : Figure \cup {0}, upgrade : BOOLEAN]
    <3>1. CASE pull' = Rest
      BY <3>1 DEF Rest, SlotInv, FactTypeOK
    <3>2. CASE UNCHANGED pull
      BY <3>2 DEF SlotInv, FactTypeOK
    <3> QED BY <3>1, <3>2 DEF Cut
  <2> QED
    BY <2>1, <2>2, <2>3 DEF SlotInv, FactTypeOK, Cut, CleanStep
<1>2. ScribeInv'
  BY <1>1 DEF SlotInv, FactTypeOK, ScribeInv, Cut, Stops, Away
<1>3. IdsAreMade'
  BY <1>1 DEF SlotInv, FactTypeOK, IdsAreMade, Cut, Stops, Away, Rest
<1>4. ManualInv'
  BY <1>1 DEF SlotInv, FactTypeOK, ManualInv, Cut, Stops, Away
<1>5. WitnessInv'
  BY <1>1 DEF SlotInv, WitnessInv, WitnessIsAnother, Cut, Rest
<1>6. LabelledInv'
  BY <1>1 DEF SlotInv, FactTypeOK, LabelledInv, Cut
<1>7. TrueInv'
  BY <1>1 DEF FactTypeOK, TrueInv, CleanStep, Spoils, Cut, Stops, Away, Rest
<1> QED BY <1>1, <1>2, <1>3, <1>4, <1>5, <1>6, <1>7
  DEF SlotInv

LEMMA CreateStep ==
  ASSUME SlotInv, NEW v \in Figure, CreateFact(v),
         CleanStep
  PROVE  SlotInv'
<1>1. FactTypeOK'
  BY DEF SlotInv, FactTypeOK, CreateFact, Insert, Attributed, CleanStep
<1>2. ScribeInv'
  BY <1>1 DEF SlotInv, ScribeInv, CreateFact
<1>3. IdsAreMade'
  BY <1>1 DEF SlotInv, FactTypeOK, IdsAreMade, CreateFact, Insert
<1>4. ManualInv'
  BY <1>1 DEF SlotInv, FactTypeOK, IdsAreMade, ManualInv, CreateFact, Insert
<1>5. WitnessInv'
  BY <1>1 DEF SlotInv, WitnessInv, WitnessIsAnother, CreateFact
<1>6. LabelledInv'
  BY <1>1 DEF LabelledInv, CreateFact, Insert
<1>7. TrueInv'
  BY <1>1 DEF SlotInv, FactTypeOK, IdsAreMade, TrueInv, AtWork, Matches,
     LabelsAreTrue, CreateFact, Insert, Attributed
<1> QED BY <1>1, <1>2, <1>3, <1>4, <1>5, <1>6, <1>7
  DEF SlotInv

LEMMA EditStep ==
  ASSUME SlotInv, NEW v \in Figure, EditFact(v),
         CleanStep
  PROVE  SlotInv'
<1>1. FactTypeOK'
  BY DEF SlotInv, FactTypeOK, EditFact, Attributed, CleanStep
<1>2. ScribeInv'
  BY <1>1 DEF SlotInv, ScribeInv, EditFact
<1>3. IdsAreMade'
  BY <1>1 DEF SlotInv, IdsAreMade, EditFact
<1>4. ManualInv'
  BY <1>1 DEF SlotInv, ManualInv, EditFact
<1>5. WitnessInv'
  BY <1>1 DEF SlotInv, WitnessInv, WitnessIsAnother, EditFact
<1>6. LabelledInv'
  BY <1>1 DEF SlotInv, LabelledInv, AtWork, EditFact
<1>7. TrueInv'
  <2>1. CASE clean' = FALSE
    BY <2>1 DEF TrueInv, LabelsAreTrue
  <2>2. CASE clean' # FALSE
    <3>1. clean /\ ~Spoils /\ fact # Empty
      BY <2>2 DEF EditFact, CleanStep, SlotInv, FactTypeOK
    <3>2. \A w \in Scribe : ~AtWork(w)
      BY <3>1 DEF EditFact, Spoils, Overlaps, AtWork
    <3>3. ~(pull.at = "stamp" /\ pull.id = fact.id)
      BY <3>1 DEF EditFact, Spoils, Overlaps
    <3>4. CASE v = fact.value
      BY <1>1, <3>1, <3>2, <3>3, <3>4
      DEF SlotInv, FactTypeOK, TrueInv, LabelsAreTrue, AtWork, EditFact, Attributed
    <3>5. CASE v # fact.value
      <4>1. prov = NoRow
        BY <3>1, <3>5 DEF SlotInv, FactTypeOK, EditFact, Attributed, Spoils
      <4>2. fact.method = "manual"
        BY <3>1, <3>2, <4>1 DEF SlotInv, FactTypeOK, TrueInv, LabelsAreTrue
      <4> QED
        BY <1>1, <3>2, <3>3, <3>5, <4>1, <4>2
        DEF SlotInv, FactTypeOK, TrueInv, LabelsAreTrue, AtWork, Matches, EditFact, Attributed
    <3> QED BY <3>4, <3>5
  <2> QED BY <2>1, <2>2
<1> QED BY <1>1, <1>2, <1>3, <1>4, <1>5, <1>6, <1>7
  DEF SlotInv

LEMMA DeleteStep ==
  ASSUME SlotInv, DeleteFact,
         CleanStep
  PROVE  SlotInv'
<1>1. FactTypeOK'
  BY DEF SlotInv, FactTypeOK, DeleteFact, Attributed, CleanStep
<1>2. ScribeInv'
  BY <1>1 DEF SlotInv, ScribeInv, DeleteFact
<1>3. IdsAreMade'
  BY <1>1 DEF SlotInv, FactTypeOK, IdsAreMade, DeleteFact
<1>4. ManualInv'
  BY <1>1 DEF ManualInv, DeleteFact
<1>5. WitnessInv'
  BY <1>1 DEF SlotInv, WitnessInv, WitnessIsAnother, DeleteFact
<1>6. LabelledInv'
  BY <1>1 DEF LabelledInv, DeleteFact
<1>7. TrueInv'
  BY <1>1 DEF TrueInv, DeleteFact
<1> QED BY <1>1, <1>2, <1>3, <1>4, <1>5, <1>6, <1>7
  DEF SlotInv

-----------------------------------------------------------------------------
(* The steps together. *)

LEMMA StructuredStep ==
  ASSUME SlotInv, NEW t \in {"esef", "agent"}, NEW m \in {"api", "mcp_agent"}, Matches(t, m),
         NEW v \in Figure, NEW s \in {"passed", "unreviewed"},
         RecordStructuredFact(t, m, v, s), CleanStep
  PROVE  SlotInv'
<1>1. CASE Insert(v, m) /\ prov' = Label(t, s) /\ Attributed(t)
  BY <1>1, SlotFilled DEF RecordStructuredFact
<1>2. CASE fact # Empty /\ TakeOver(t, m, v, s)
  BY <1>2, SlotTaken DEF RecordStructuredFact, TakeOver, Outranks
<1> QED BY <1>1, <1>2 DEF RecordStructuredFact

LEMMA AggregatorStep ==
  ASSUME SlotInv, NEW v \in Figure, RecordAggregatorFacts(v), CleanStep
  PROVE  SlotInv'
<1>1. Matches("html_aggregator", "api")
  BY DEF Matches, MethodsOf
<1>2. UNCHANGED <<scribe, cuts>> /\ pull.at = "rest"
  BY DEF RecordAggregatorFacts
<1>3. CASE /\ Insert(v, "api") /\ prov' = Label("html_aggregator", "unreviewed")
           /\ Attributed("html_aggregator") /\ UNCHANGED pull
  BY <1>1, <1>2, <1>3, SlotFilled
<1>4. CASE /\ fact # Empty /\ OwnSlot /\ fact' = [fact EXCEPT !.value = v, !.method = "api"]
           /\ prov' = Label("html_aggregator", "unreviewed") /\ Attributed("html_aggregator")
           /\ UNCHANGED <<made, pull>>
  <2>1. prov.tier \in Tier
    BY <1>4 DEF OwnSlot
  <2> QED BY <1>1, <1>2, <1>4, <2>1, SlotTaken
<1>5. CASE /\ fact # Empty /\ HeldByAnother /\ Agree(fact.value, v) /\ Owe(v)
           /\ UNCHANGED <<fact, prov, made, author>>
  BY <1>2, <1>5, StampOwed
<1> QED BY <1>3, <1>4, <1>5 DEF RecordAggregatorFacts

LEMMA SlotInit == FactInit => SlotInv
BY DEF FactInit, SlotInv, FactTypeOK, ScribeInv, IdsAreMade, ManualInv, WitnessInv,
   WitnessIsAnother, LabelledInv, TrueInv, Away, Rest

LEMMA SlotStep == SlotInv /\ [FactNext]_factVars => SlotInv'
<1> SUFFICES ASSUME SlotInv, [FactNext]_factVars PROVE SlotInv'
  OBVIOUS
<1>1. CASE UNCHANGED factVars
  BY <1>1
  DEF factVars, SlotInv, FactTypeOK, ScribeInv, IdsAreMade, ManualInv, WitnessInv,
      WitnessIsAnother, LabelledInv, TrueInv, AtWork, LabelsAreTrue
<1>2. CASE FactNext
  <2>1. CleanStep
    BY <1>2 DEF FactNext, CleanStep
  <2>2. CASE InOneTransaction
    <3>1. Matches("esef", "api") /\ Matches("agent", "mcp_agent")
      BY DEF Matches, MethodsOf
    <3> QED BY <2>1, <2>2, <3>1, StructuredStep, AggregatorStep
      DEF InOneTransaction, Filing, AgentBatch
  <2>3. CASE RecordCorroboration
    BY <2>1, <2>3, Corroboration
  <2>4. CASE CoverStep
    BY <2>1, <2>4, CoverFind, CoverRank, CoverInsert, RewriteStep, SyncStep, CheckStep, LabelStep
    DEF CoverStep
  <2>5. CASE AgentStep
    BY <2>1, <2>5, AgentCreate, AgentUpdate, RewriteStep, SyncStep, CheckStep, LabelStep
    DEF AgentStep
  <2>6. CASE Cut
    BY <2>1, <2>6, CutStep
  <2>7. CASE UserStep
    BY <2>1, <2>7, CreateStep, EditStep, DeleteStep DEF UserStep
  <2> QED BY <1>2, <2>2, <2>3, <2>4, <2>5, <2>6, <2>7 DEF FactNext
<1> QED BY <1>1, <1>2

LEMMA SlotInvHolds == FactSpec => []SlotInv
BY SlotInit, SlotStep, PTL DEF FactSpec

-----------------------------------------------------------------------------
(* The theorems. *)

\* Fact, label, calls in progress and the owed stamp keep their types.
THEOREM FactTypesHold == FactSpec => []FactTypeOK
BY SlotInvHolds, PTL DEF SlotInv

\* Whichever calls overlap and are cut short: a figure of a source has a label or
\* is about to get one, the aggregator confirms others only, and without an
\* overlap label and stamp are true of the figure (write_fact_provenance_fields,
\* set_fact_provenance, corroborate_fact).
THEOREM SlotIsSoundHolds == FactSpec => []SlotIsSound
<1>1. SlotInv => SlotIsSound
  <2> SUFFICES ASSUME SlotInv PROVE SlotIsSound
    OBVIOUS
  <2>1. EverySourceIsLabelled
    <3>1. fact.method \in {"manual", "api", "espi_cover_note", "mcp_agent"}
      BY DEF SlotInv, FactTypeOK
    <3> QED BY <3>1 DEF SlotInv, LabelledInv, EverySourceIsLabelled
  <2>2. WitnessIsAnother
    BY DEF SlotInv, WitnessInv
  <2>3. LabelsAreTrue
    BY DEF SlotInv, TrueInv, LabelsAreTrue
  <2> QED BY <2>1, <2>2, <2>3 DEF SlotIsSound
<1> QED BY <1>1, SlotInvHolds, PTL

\* No filing, batch, pull, stamp or cover note changes a manual entry, not even
\* with what it read before the user made it (outranked_stored_tier_of,
\* aggregator_owns_slot).
THEOREM ManualIsKeptHolds == FactSpec => ManualIsKept
<1>1. SlotInv /\ [FactNext]_factVars =>
        [fact.method = "manual" /\ fact # Empty /\ fact' # fact => AgentStep \/ UserStep]_factVars
  <2> SUFFICES ASSUME SlotInv, FactNext, fact.method = "manual", fact # Empty, fact' # fact
               PROVE  AgentStep \/ UserStep
    BY DEF factVars
  <2>1. prov.tier \notin Tier
    BY DEF SlotInv, ManualInv
  <2>2. CASE InOneTransaction
    BY <2>1, <2>2
    DEF InOneTransaction, Filing, AgentBatch, RecordStructuredFact, RecordAggregatorFacts,
        TakeOver, Outranks, OwnSlot, Insert
  <2>3. CASE CoverStep
    BY <2>3
    DEF SlotInv, ManualInv, CoverStep, CoverFinds, CoverRanks, CoverInserts, Insert, Rewrite,
        SyncMethod, CheckMethod, WriteLabel
  <2>4. ~RecordCorroboration /\ ~Cut
    BY DEF RecordCorroboration, Cut
  <2> QED BY <2>2, <2>3, <2>4 DEF FactNext
<1> QED BY <1>1, SlotInvHolds, PTL DEF FactSpec, ManualIsKept
=============================================================================
