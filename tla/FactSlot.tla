------------------------------ MODULE FactSlot ------------------------------
(***************************************************************************)
(* One uniqueness slot of financial_facts and the provenance row of the    *)
(* fact in it, under its writers: issuer filings, manifests and agent      *)
(* batches (storage/kpi_extraction.rs), the daily aggregator pull          *)
(* (jobs/aggregator_fundamentals_pull.rs), the cover notes of the feed     *)
(* (storage/espi_cover_note_facts.rs), the single-fact acts of an agent    *)
(* (mcp/acts.rs) and the user (commands/financials.rs).                    *)
(*                                                                         *)
(* A transaction is one step.  Cover notes and single-fact acts run on a   *)
(* bare connection: each of their statements is a step of its own.         *)
(* A value stands for a figure with its currency.  The retired tiers have  *)
(* no writer and are left out, and so are the siblings a final fact        *)
(* supersedes, currencies, citations, and rows of facts that are gone.     *)
(*                                                                         *)
(* D_Bug is D with a plausible bug, as in JobQueue.                        *)
(***************************************************************************)
EXTENDS Integers

CONSTANTS
  Figure,    \* the figures sources print
  MaxFacts,  \* bound: facts made in the slot, one after the other
  MaxCuts    \* bound: calls that end between two of their statements

ASSUME FactAssumption ==
  Figure \subseteq Nat \ {0} /\ MaxFacts \in Nat \ {0} /\ MaxCuts \in Nat

VARIABLES
  fact,    \* the row in the slot
  prov,    \* its row in financial_fact_provenance
  made,    \* ids given so far
  scribe,  \* the writers without a transaction: the statement each is at
  pull,    \* the pull: the stamp it still owes the slot
  cuts,
  \* History variables, read by the properties only.
  author,  \* whose figure the slot holds
  clean    \* nobody edited it, was cut short on it, or wrote it during a call

factVars == <<fact, prov, made, scribe, pull, cuts, author, clean>>

-----------------------------------------------------------------------------
(* Tiers and rows. *)

Tier == {"esef", "espi_cover_note", "agent", "html_aggregator"}
RankOf == [esef |-> 1, espi_cover_note |-> 2, agent |-> 3, html_aggregator |-> 4]

\* SourceTier::outranks over SourceTier::parse: what parses to no tier - no
\* row, or the tier "manual" - is outranked by nothing and outranks nothing.
Outranks_Unknown(tier, stored) ==
  tier \in Tier /\ (stored \in Tier => RankOf[tier] < RankOf[stored])
Outranks(tier, stored) ==
  tier \in Tier /\ stored \in Tier /\ RankOf[tier] < RankOf[stored]

Method == {"manual", "api", "espi_cover_note", "mcp_agent"}
MethodsOf == [esef |-> {"api"}, espi_cover_note |-> {"api", "espi_cover_note"},
              agent |-> {"mcp_agent"}, html_aggregator |-> {"api"}]
Matches(tier, method) ==
  tier \in Tier => method \in MethodsOf[tier] \cup {"manual"}

Empty == [id |-> 0, value |-> 0, method |-> "manual"]
FactRow == [id : 1..MaxFacts, value : Figure, method : Method]
NoRow == [tier |-> "none", status |-> "none", witness |-> 0]
ProvRow ==
  [tier : Tier \cup {"manual"},
   status : {"none", "passed", "unreviewed", "witness_confirmed"},
   witness : Figure \cup {0}]

\* The tolerance of a witness, for small figures: one base unit.
Agree(x, y) == x - y \in -1..1

-----------------------------------------------------------------------------
(* The two rows. *)

\* create_financial_fact; the slot admits one row.
Insert(v, method) ==
  /\ fact = Empty /\ made < MaxFacts
  /\ made' = made + 1
  /\ fact' = [id |-> made + 1, value |-> v, method |-> method]

\* set_fact_provenance: a new label, and the witness stamp is cleared.
Label_KeepsStamp(tier, status) == [prov EXCEPT !.tier = tier, !.status = status]
Label(tier, status) == [tier |-> tier, status |-> status, witness |-> 0]

Attributed(who) == author' = who

-----------------------------------------------------------------------------
(* record_structured_fact and record_pinned_fact: one transaction. *)

TakeOver_StaleMethod(tier, method, v, status) ==
  /\ Outranks(tier, prov.tier)
  /\ fact' = [fact EXCEPT !.value = v]
  /\ prov' = Label(tier, status) /\ Attributed(tier)
  /\ UNCHANGED made
TakeOver(tier, method, v, status) ==
  /\ Outranks(tier, prov.tier)
  /\ fact' = [fact EXCEPT !.value = v, !.method = method]
  /\ prov' = Label(tier, status) /\ Attributed(tier)
  /\ UNCHANGED made

\* An empty slot is filled; a slot of a lower tier is taken over, whether its
\* figure agrees or not; any other is left as it is.
RecordStructuredFact(tier, method, v, status) ==
  /\ \/ Insert(v, method) /\ prov' = Label(tier, status) /\ Attributed(tier)
     \/ fact # Empty /\ TakeOver(tier, method, v, status)
  /\ UNCHANGED <<scribe, pull, cuts>>

Filing == \E v \in Figure, s \in {"passed", "unreviewed"} :
            RecordStructuredFact("esef", "api", v, s)

\* record_financial_facts, and the observations of a committed manifest.
AgentBatch == \E v \in Figure, s \in {"passed", "unreviewed"} :
                RecordStructuredFact("agent", "mcp_agent", v, s)

-----------------------------------------------------------------------------
(* The pull: a transaction per page, then a stamp for every slot of another
   that agrees with the page. *)

Rest == [at |-> "rest", id |-> 0, value |-> 0, upgrade |-> FALSE]

\* aggregator_owns_slot
OwnSlot == prov.tier = "html_aggregator" /\ fact.method # "manual"
HeldByAnother_Any == TRUE
HeldByAnother == fact.method = "manual" \/ Outranks(prov.tier, "html_aggregator")

Owe(v) ==
  pull' = [at |-> "stamp", id |-> fact.id, value |-> v, upgrade |-> fact.method # "manual"]

RecordAggregatorFacts(v) ==
  /\ pull.at = "rest"
  /\ \/ /\ Insert(v, "api")
        /\ prov' = Label("html_aggregator", "unreviewed") /\ Attributed("html_aggregator")
        /\ UNCHANGED pull
     \/ /\ fact # Empty /\ OwnSlot /\ fact.value # v
        /\ fact' = [fact EXCEPT !.value = v, !.method = "api"]
        /\ prov' = Label("html_aggregator", "unreviewed") /\ Attributed("html_aggregator")
        /\ UNCHANGED <<made, pull>>
     \/ /\ fact # Empty /\ HeldByAnother /\ Agree(fact.value, v)
        /\ Owe(v)
        /\ UNCHANGED <<fact, prov, made, author>>
  /\ UNCHANGED <<scribe, cuts>>

\* corroborate_fact, outside that transaction; the row of a manual fact is made.
Stamped ==
  [tier |-> IF prov = NoRow THEN "manual" ELSE prov.tier,
   witness |-> pull.value,
   status |-> IF pull.upgrade /\ prov.status \in {"passed", "unreviewed"}
              THEN "witness_confirmed" ELSE prov.status]

RecordCorroboration ==
  /\ pull.at = "stamp"
  /\ pull' = Rest
  /\ prov' = IF pull.id = fact.id THEN Stamped ELSE prov
  /\ UNCHANGED <<fact, made, scribe, cuts, author>>

-----------------------------------------------------------------------------
(* The writers without a transaction: a cover note ("cover") and a single-fact
   act of an agent ("agent"). *)

Scribe == {"cover", "agent"}
TierOf == [cover |-> "espi_cover_note", agent |-> "agent"]
MethodOf == [cover |-> "espi_cover_note", agent |-> "mcp_agent"]
StatusOf == [cover |-> "passed", agent |-> "unreviewed"]

Statement == {"rest", "insert", "rank", "rewrite", "method", "check", "label"}
ScribeRow == [at : Statement, id : 0..MaxFacts, value : Figure \cup {0}, agrees : BOOLEAN]
Away == [at |-> "rest", id |-> 0, value |-> 0, agrees |-> FALSE]

Doing(w, step) == scribe[w].at = step
MovesTo(w, step) == scribe' = [scribe EXCEPT ![w].at = step]
Stops(w) == scribe' = [scribe EXCEPT ![w] = Away]
StillThere(w) == scribe[w].id = fact.id

\* find_fact_by_slot, and whether the figures agree.
CoverFinds(v) ==
  /\ Doing("cover", "rest")
  /\ scribe' = [scribe EXCEPT !["cover"] =
       [at |-> IF fact = Empty THEN "insert" ELSE "rank",
        id |-> fact.id, value |-> v, agrees |-> fact.value = v]]
  /\ UNCHANGED <<fact, prov, made, pull, cuts, author>>

\* outranked_stored_tier_of, and the row update_financial_fact reads: where the
\* figures agreed it is the row's figure, read now, that is written back.
CoverRanks ==
  /\ Doing("cover", "rank")
  /\ IF StillThere("cover") /\ Outranks("espi_cover_note", prov.tier)
     THEN scribe' = [scribe EXCEPT !["cover"].at = "rewrite",
                       !["cover"].value = IF scribe["cover"].agrees THEN fact.value ELSE @]
     ELSE Stops("cover")
  /\ UNCHANGED <<fact, prov, made, pull, cuts, author>>

CoverInserts ==
  /\ Doing("cover", "insert")
  /\ \/ /\ Insert(scribe["cover"].value, "espi_cover_note")
        /\ Attributed("espi_cover_note")
        /\ prov' = NoRow
        /\ scribe' = [scribe EXCEPT !["cover"].at = "method", !["cover"].id = made + 1]
     \/ /\ fact # Empty
        /\ Stops("cover")
        /\ UNCHANGED <<fact, prov, made, author>>
  /\ UNCHANGED <<pull, cuts>>

\* create_financial_fact_handler
AgentCreates(v) ==
  /\ Doing("agent", "rest")
  /\ Insert(v, "mcp_agent")
  /\ Attributed("agent")
  /\ prov' = NoRow
  /\ scribe' = [scribe EXCEPT !["agent"] =
       [at |-> "method", id |-> made + 1, value |-> v, agrees |-> FALSE]]
  /\ UNCHANGED <<pull, cuts>>

\* update_financial_fact_handler; an act without a figure writes the one it read.
AgentUpdates(v) ==
  /\ Doing("agent", "rest")
  /\ fact # Empty
  /\ \E given \in {v, fact.value} :
       scribe' = [scribe EXCEPT !["agent"] =
         [at |-> "rewrite", id |-> fact.id, value |-> given, agrees |-> FALSE]]
  /\ UNCHANGED <<fact, prov, made, pull, cuts, author>>

\* The UPDATE of update_financial_fact, by id.
Rewrite(w) ==
  /\ Doing(w, "rewrite")
  /\ IF StillThere(w)
     THEN /\ fact' = [fact EXCEPT !.value = scribe[w].value]
          /\ Attributed(TierOf[w])
          /\ MovesTo(w, "method")
     ELSE Stops(w) /\ UNCHANGED <<fact, author>>
  /\ UNCHANGED <<prov, made, pull, cuts>>

\* write_fact_provenance_fields: the method first.
SyncMethod(w) ==
  /\ Doing(w, "method")
  /\ fact' = IF StillThere(w) THEN [fact EXCEPT !.method = MethodOf[w]] ELSE fact
  /\ MovesTo(w, "check")
  /\ UNCHANGED <<prov, made, pull, cuts, author>>

\* set_fact_provenance refuses a tier that the stored method contradicts.
CheckMethod_Strict(w) ==
  /\ Doing(w, "check")
  /\ IF StillThere(w) /\ fact.method = "espi_cover_note" THEN Stops(w) ELSE MovesTo(w, "label")
  /\ UNCHANGED <<fact, prov, made, pull, cuts, author>>
CheckMethod(w) ==
  /\ Doing(w, "check")
  /\ IF StillThere(w) /\ ~Matches(TierOf[w], fact.method) THEN Stops(w) ELSE MovesTo(w, "label")
  /\ UNCHANGED <<fact, prov, made, pull, cuts, author>>

WriteLabel(w) ==
  /\ Doing(w, "label")
  /\ prov' = IF StillThere(w) THEN Label(TierOf[w], StatusOf[w]) ELSE prov
  /\ Stops(w)
  /\ UNCHANGED <<fact, made, pull, cuts, author>>

\* A statement fails, or the process ends, between two statements of a call.
Cut ==
  /\ cuts < MaxCuts /\ cuts' = cuts + 1
  /\ \/ \E w \in Scribe : ~Doing(w, "rest") /\ Stops(w) /\ UNCHANGED pull
     \/ pull # Rest /\ pull' = Rest /\ UNCHANGED scribe
  /\ UNCHANGED <<fact, prov, made, author>>

-----------------------------------------------------------------------------
(* The user: create_financial_fact, update_financial_fact and
   delete_financial_fact; the undo of an autopilot run deletes too. *)

CreateFact(v) ==
  /\ Insert(v, "manual")
  /\ prov' = NoRow /\ Attributed("user")
  /\ UNCHANGED <<scribe, pull, cuts>>

EditFact(v) ==
  /\ fact # Empty
  /\ fact' = [fact EXCEPT !.value = v]
  /\ Attributed(IF v = fact.value THEN author ELSE "user")
  /\ UNCHANGED <<prov, made, scribe, pull, cuts>>

DeleteFact ==
  /\ fact # Empty
  /\ fact' = Empty /\ prov' = NoRow /\ Attributed("nobody")
  /\ UNCHANGED <<made, scribe, pull, cuts>>

-----------------------------------------------------------------------------
(* The specification. *)

FactInit ==
  /\ fact = Empty /\ prov = NoRow /\ made = 0 /\ author = "nobody" /\ clean = TRUE
  /\ scribe = [w \in Scribe |-> Away] /\ pull = Rest /\ cuts = 0

InOneTransaction ==
  Filing \/ AgentBatch \/ \E v \in Figure : RecordAggregatorFacts(v)
CoverStep ==
  \/ CoverRanks \/ CoverInserts \/ \E v \in Figure : CoverFinds(v)
  \/ Rewrite("cover") \/ SyncMethod("cover") \/ CheckMethod("cover") \/ WriteLabel("cover")
AgentStep ==
  \/ \E v \in Figure : AgentCreates(v) \/ AgentUpdates(v)
  \/ Rewrite("agent") \/ SyncMethod("agent") \/ CheckMethod("agent") \/ WriteLabel("agent")
UserStep ==
  DeleteFact \/ \E v \in Figure : CreateFact(v) \/ EditFact(v)

\* What spoils the history of a fact: a step of another writer within a call
\* on it, a call cut short, and an edit of a labelled fact.
Overlaps ==
  \/ \E w \in Scribe : ~Doing(w, "rest") /\ StillThere(w) /\ scribe'[w] = scribe[w]
  \/ pull.at = "stamp" /\ pull.id = fact.id /\ pull' = pull
Spoils ==
  Overlaps \/ cuts' # cuts \/ (prov # NoRow /\ author' = "user" /\ fact'.value # fact.value)

FactNext ==
  /\ InOneTransaction \/ RecordCorroboration \/ CoverStep \/ AgentStep \/ Cut \/ UserStep
  /\ clean' = (fact' = Empty \/ (clean /\ ~Spoils))

FactSpec == FactInit /\ [][FactNext]_factVars

-----------------------------------------------------------------------------
(* Properties. *)

FactTypeOK ==
  /\ fact \in FactRow \cup {Empty}
  /\ prov \in ProvRow \cup {NoRow}
  /\ made \in 0..MaxFacts
  /\ scribe \in [Scribe -> ScribeRow]
  /\ pull \in [at : {"rest", "stamp"}, id : 0..MaxFacts,
               value : Figure \cup {0}, upgrade : BOOLEAN]
  /\ cuts \in 0..MaxCuts
  /\ author \in Tier \cup {"user", "nobody"}
  /\ clean \in BOOLEAN

AtWork(w) == scribe[w].at \in {"method", "check", "label"} /\ StillThere(w)

\* A figure that a source wrote has a label, or a writer is about to give it
\* one: without it the figure would pass for a manual entry that no filing may
\* correct.  Two writers on one slot may refuse each other's label, never both.
\* Only a call cut short leaves a figure unlabelled.
EverySourceIsLabelled ==
  fact.method # "manual" /\ prov.tier \notin Tier /\ cuts = 0 => \E w \in Scribe : AtWork(w)

\* The aggregator is never a witness of itself, and a verdict is raised by a
\* witness that stands beside it, never on a manual entry.
WitnessIsAnother ==
  /\ prov.witness # 0 => prov.tier # "html_aggregator"
  /\ prov.status = "witness_confirmed" => prov.witness # 0 /\ prov.tier # "manual"

\* Where nobody overlapped, was cut short or edited, the label names whose
\* figure it is and the route it came by, and a stamp agrees with the figure.
LabelsAreTrue ==
  fact # Empty /\ clean /\ ~(\E w \in Scribe : AtWork(w)) =>
    /\ author \in Tier => prov.tier = author
    /\ author = "user" => prov.tier \notin Tier /\ fact.method = "manual"
    /\ Matches(prov.tier, fact.method)
    /\ prov.witness # 0 => Agree(prov.witness, fact.value)

\* The three together.
SlotIsSound == EverySourceIsLabelled /\ WitnessIsAnother /\ LabelsAreTrue

\* A manual entry is changed by the user and by an agent's act on that fact,
\* by nothing else: kpi_extraction.rs, "untouchable by every automatic path".
ManualIsKept ==
  [][fact.method = "manual" /\ fact # Empty /\ fact' # fact => AgentStep \/ UserStep]_factVars

\* espi_cover_note_facts.rs: "a fact already produced by ESEF/structured xHTML
\* is never touched".
FiledFactIsNeverTouched ==
  [][CoverStep /\ prov.tier = "esef" => fact' = fact /\ prov' = prov]_factVars
=============================================================================
