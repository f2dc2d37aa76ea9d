--------------------------- MODULE TrackingProofs ---------------------------
(* What holds of the registry of running work, of the scheduler and of the *)
(* MCP server for every value of their constants: three components that    *)
(* share no variable.                                                      *)
EXTENDS ActivityRegistry, Scheduler, McpLifecycle, TLAPS

-----------------------------------------------------------------------------
(* The registry of running work and the view of it (ActivityRegistry).     *)

\* A guard holds a handle from its start to its end, and handle, entry and
\* occurrence say how far it is.
GuardsAgree ==
  \A w \in Awaiter :
    LET h == guard[w].handle IN
    /\ guard[w].at = "idle" <=> h = None
    /\ guard[w].at \in {"begun", "settled"} => h \in Run
    /\ guard[w].at = "begun" => occ[h] = "running" /\ registry[h] = "none"
    /\ guard[w].at = "working" =>
         \/ h \in Run /\ occ[h] = "running" /\ registry[h] = "live"
         \/ h \in Handle \ Run /\ registry[h] = "unrecorded"
    /\ guard[w].at = "settled" => registry[h] = "live" /\ occ[h] # "running"

\* An entry has its guard; one whose settle failed has none, and its row runs.
EntriesAgree ==
  \A h \in Handle :
    /\ registry[h] \in {"live", "unrecorded"} => \E w \in Awaiter : Holds(w, h)
    /\ registry[h] = "stalled" => h \in Run /\ occ[h] = "running" /\ \A w \in Awaiter : ~Holds(w, h)

\* An occurrence belongs to the job, to a guard or to a failed settle, never to two.
RunsAgree ==
  /\ \A r \in Run : occ[r] = "absent" => queued.run # r /\ registry[r] = "none" /\ \A w \in Awaiter : ~Holds(w, r)
  /\ queued.run # None => /\ queued.st = "running" /\ occ[queued.run] = "running"
                          /\ registry[queued.run] = "none" /\ \A w \in Awaiter : ~Holds(w, queued.run)
  /\ \A r \in Run : occ[r] = "running" =>
       queued.run = r \/ registry[r] = "stalled" \/ \E w \in Awaiter : Holds(w, r)

\* What a read found was true when it was found.
FoundWasTrue ==
  /\ reader.at \in {"off", "jobs", "entries", "stalledJobs", "stalledEntries", "pending", "recent", "done"}
  /\ reader.at # "off" => Sections \subseteq truth /\ reader.found \subseteq truth

\* A piece of work that stood still was found when its source was read.
StepOf == [off |-> 0, jobs |-> 1, entries |-> 2, stalledJobs |-> 3, stalledEntries |-> 4,
           pending |-> 5, recent |-> 6, done |-> 7]
SourceOfPiece(p) ==
  IF p[1] = "running" THEN IF p[2] = None THEN 1 ELSE 2
  ELSE IF p[1] = "stalled" THEN IF p[2] = None THEN 3 ELSE 4
  ELSE 5
SteadyIsFound ==
  /\ steady \subseteq Pieces
  /\ \A p \in steady : StepOf[reader.at] > SourceOfPiece(p) => p[1] \in reader.found

RegistryInv ==
  /\ RegistryTypeOK /\ GuardsAgree /\ EntriesAgree /\ RunsAgree /\ FoundWasTrue /\ SteadyIsFound

LEMMA HandlesAre ==
  /\ Run \subseteq Nat \ {0} /\ Run \subseteq Handle /\ Handle \subseteq Int
  /\ \A h \in Handle : h > 0 <=> h \in Run
  /\ None \notin Handle /\ None \notin Run
BY RegistryAssumption DEF Run, Handle, None

\* Which handle a working guard has, by its sign.
LEMMA WorkingHandle ==
  ASSUME RegistryInv, NEW w \in Awaiter, guard[w].at = "working"
  PROVE  /\ guard[w].handle \in Handle
         /\ guard[w].handle > 0 => guard[w].handle \in Run /\ registry[guard[w].handle] = "live"
                                   /\ occ[guard[w].handle] = "running"
         /\ guard[w].handle < 0 => guard[w].handle \notin Run
<1>1. \/ guard[w].handle \in Run /\ occ[guard[w].handle] = "running" /\ registry[guard[w].handle] = "live"
      \/ guard[w].handle \in Handle \ Run
  BY DEF RegistryInv, GuardsAgree
<1>2. guard[w].handle \in Handle
  BY <1>1, HandlesAre
<1>3. guard[w].handle > 0 <=> guard[w].handle \in Run
  BY <1>2, HandlesAre
<1>4. guard[w].handle < 0 => ~(guard[w].handle > 0)
  BY <1>2, RegistryAssumption DEF Handle, Run
<1> QED BY <1>1, <1>2, <1>3, <1>4

LEMMA ReadWatched ==
  ASSUME RegistryInv, Watched,
         reader'.at = "off" \/ UNCHANGED reader
  PROVE  reader'.at # "off" => FoundWasTrue' /\ SteadyIsFound'
BY DEF RegistryInv, FoundWasTrue, SteadyIsFound, Watched

LEMMA UnreadKeeps ==
  ASSUME RegistryInv, Unread
  PROVE  FoundWasTrue' /\ SteadyIsFound'
<1>1. CASE reader.at = "off"
  BY <1>1 DEF RegistryInv, FoundWasTrue, SteadyIsFound, Unread, Watched
<1>2. CASE reader.at # "off"
  BY <1>2 DEF RegistryInv, FoundWasTrue, SteadyIsFound, Unread, Watched
<1> QED BY <1>1, <1>2


LEMMA OccurrenceBegun ==
  ASSUME RegistryInv, NEW w \in Awaiter, BeginsOccurrence(w)
  PROVE  RegistryInv'
<1>0. /\ guard \in [Awaiter -> [at : {"idle", "begun", "working", "settled"}, handle : Handle \cup {None}]]
      /\ registry \in [Handle -> {"none", "live", "stalled", "unrecorded"}]
      /\ occ \in [Run -> {"absent", "running", "ended", "interrupted", "retry"}]
  BY DEF RegistryInv, RegistryTypeOK
<1>g. PICK r \in NewRuns : /\ occ' = [occ EXCEPT ![r] = "running"]
                           /\ guard'[w] = [at |-> "begun", handle |-> r]
                           /\ \A v \in Awaiter : v # w => guard'[v] = guard[v]
  BY <1>0 DEF BeginsOccurrence, GuardGoes
<1>r. r \in Run /\ occ[r] = "absent" /\ registry[r] = "none" /\ \A v \in Awaiter : ~Holds(v, r)
  BY <1>g DEF NewRuns, RegistryInv, RunsAgree
<1>1. RegistryTypeOK'
  BY HandlesAre, RegistryAssumption
  DEF RegistryInv, BeginsOccurrence, NewRuns, Unread, RegistryTypeOK, GuardGoes, Idling,
      GuardsAgree, RunsAgree, Holds
<1>2. GuardsAgree'
  BY HandlesAre, RegistryAssumption
  DEF RegistryInv, BeginsOccurrence, NewRuns, Unread, GuardsAgree, RegistryTypeOK,
      GuardGoes, Idling, Holds, EntriesAgree, RunsAgree
<1>3. EntriesAgree'
  BY HandlesAre, <1>0, <1>g, <1>r DEF RegistryInv, EntriesAgree, GuardsAgree, Holds, BeginsOccurrence
<1>4. RunsAgree'
  BY HandlesAre, RegistryAssumption
  DEF RegistryInv, BeginsOccurrence, NewRuns, Unread, RunsAgree, GuardsAgree,
      RegistryTypeOK, GuardGoes, Idling, Holds, EntriesAgree
<1>5. FoundWasTrue'
  BY UnreadKeeps DEF BeginsOccurrence
<1>6. SteadyIsFound'
  BY UnreadKeeps DEF BeginsOccurrence
<1> QED BY <1>1, <1>2, <1>3, <1>4, <1>5, <1>6 DEF RegistryInv

LEMMA EntryMade ==
  ASSUME RegistryInv, NEW w \in Awaiter, Registers(w)
  PROVE  RegistryInv'
<1>0. /\ guard \in [Awaiter -> [at : {"idle", "begun", "working", "settled"}, handle : Handle \cup {None}]]
      /\ registry \in [Handle -> {"none", "live", "stalled", "unrecorded"}]
      /\ occ \in [Run -> {"absent", "running", "ended", "interrupted", "retry"}]
  BY DEF RegistryInv, RegistryTypeOK
<1>g. guard'[w] = [at |-> "working", handle |-> guard[w].handle] /\ \A v \in Awaiter : v # w => guard'[v] = guard[v]
  BY <1>0 DEF Registers, GuardGoes
<1>h. /\ guard[w].handle \in Run /\ registry[guard[w].handle] = "none" /\ registry'[guard[w].handle] = "live"
      /\ guard[w].handle \in Handle
      /\ occ[guard[w].handle] = "running" /\ Holds(w, guard[w].handle)
      /\ \A h \in Handle : h # guard[w].handle => registry'[h] = registry[h]
      /\ UNCHANGED <<occ, queued>>
  BY <1>0, HandlesAre DEF Registers, RegistryInv, GuardsAgree, Holds
<1>i. \A v \in Awaiter, h \in Handle : Holds(v, h)' <=> Holds(v, h)
  BY <1>0, <1>g DEF Holds
<1>1. RegistryTypeOK'
  BY HandlesAre, RegistryAssumption
  DEF RegistryInv, Registers, Unread, RegistryTypeOK, GuardGoes, Idling, GuardsAgree,
      RunsAgree, Holds
<1>2. GuardsAgree'
  BY HandlesAre, RegistryAssumption
  DEF RegistryInv, Registers, Unread, GuardsAgree, RegistryTypeOK, GuardGoes, Idling,
      Holds, EntriesAgree, RunsAgree
<1>3. EntriesAgree'
  <2> SUFFICES ASSUME NEW k \in Handle
               PROVE  /\ registry'[k] \in {"live", "unrecorded"} => \E v \in Awaiter : Holds(v, k)'
                      /\ registry'[k] = "stalled" => k \in Run /\ occ'[k] = "running" /\ \A v \in Awaiter : ~Holds(v, k)'
    BY DEF EntriesAgree, Holds
  <2>1. CASE k = guard[w].handle
    BY <1>h, <1>i, <2>1
  <2>2. CASE k # guard[w].handle
    BY <1>h, <1>i, <2>2 DEF RegistryInv, EntriesAgree
  <2> QED BY <2>1, <2>2
<1>4. RunsAgree'
  BY <1>h, <1>i, HandlesAre DEF RegistryInv, RegistryTypeOK, RunsAgree
<1>5. FoundWasTrue'
  BY UnreadKeeps DEF Registers
<1>6. SteadyIsFound'
  BY UnreadKeeps DEF Registers
<1> QED BY <1>1, <1>2, <1>3, <1>4, <1>5, <1>6 DEF RegistryInv

LEMMA UnrecordedBegun ==
  ASSUME RegistryInv, NEW w \in Awaiter, BeginsUnrecorded(w)
  PROVE  RegistryInv'
<1>0. /\ guard \in [Awaiter -> [at : {"idle", "begun", "working", "settled"}, handle : Handle \cup {None}]]
      /\ registry \in [Handle -> {"none", "live", "stalled", "unrecorded"}]
      /\ occ \in [Run -> {"absent", "running", "ended", "interrupted", "retry"}]
  BY DEF RegistryInv, RegistryTypeOK
<1>g. PICK h \in NewHandles : /\ registry' = [registry EXCEPT ![h] = "unrecorded"]
                              /\ guard' = [guard EXCEPT ![w] = [at |-> "working", handle |-> h]]
  BY DEF BeginsUnrecorded, GuardGoes
<1>h. /\ h \in Handle \ Run /\ h < 0 /\ registry[h] = "none" /\ \A v \in Awaiter : ~Holds(v, h)
      /\ guard'[w] = [at |-> "working", handle |-> h]
      /\ \A v \in Awaiter : v # w => guard'[v] = guard[v]
      /\ registry'[h] = "unrecorded" /\ \A g \in Handle : g # h => registry'[g] = registry[g]
  BY <1>0, <1>g, HandlesAre DEF NewHandles, Guards, Handle, Run
<1>i. lapses' \in 0..MaxLapses /\ UNCHANGED <<occ, queued, reader>>
  BY RegistryAssumption DEF BeginsUnrecorded, Lapse, RegistryInv, RegistryTypeOK, Unread
<1>1. RegistryTypeOK'
  <2>1. guard' \in [Awaiter -> [at : {"idle", "begun", "working", "settled"}, handle : Handle \cup {None}]]
    BY <1>0, <1>g, <1>h
  <2>2. registry' \in [Handle -> {"none", "live", "stalled", "unrecorded"}]
    BY <1>0, <1>g, <1>h
  <2> QED BY <1>h, <1>i, <2>1, <2>2 DEF RegistryInv, RegistryTypeOK, Holds
<1>2. GuardsAgree'
  <2> SUFFICES ASSUME NEW v \in Awaiter
               PROVE  LET h1 == guard'[v].handle IN
                      /\ guard'[v].at = "idle" <=> h1 = None
                      /\ guard'[v].at \in {"begun", "settled"} => h1 \in Run
                      /\ guard'[v].at = "begun" => occ'[h1] = "running" /\ registry'[h1] = "none"
                      /\ guard'[v].at = "working" =>
                           \/ h1 \in Run /\ occ'[h1] = "running" /\ registry'[h1] = "live"
                           \/ h1 \in Handle \ Run /\ registry'[h1] = "unrecorded"
                      /\ guard'[v].at = "settled" => registry'[h1] = "live" /\ occ'[h1] # "running"
    BY DEF GuardsAgree
  <2>1. CASE v = w
    BY <1>h, <2>1, HandlesAre
  <2>2. CASE v # w
    <3>1. guard'[v] = guard[v] /\ guard[v].handle # h /\ UNCHANGED occ
      BY <1>h, <1>i, <2>2 DEF Holds
    <3>2. guard[v].handle \in Handle => registry'[guard[v].handle] = registry[guard[v].handle]
      BY <1>h, <3>1
    <3> QED BY <3>1, <3>2, HandlesAre DEF RegistryInv, GuardsAgree
  <2> QED BY <2>1, <2>2
<1>3. EntriesAgree'
  <2> SUFFICES ASSUME NEW k \in Handle
               PROVE  /\ registry'[k] \in {"live", "unrecorded"} => \E v \in Awaiter : Holds(v, k)'
                      /\ registry'[k] = "stalled" => k \in Run /\ occ'[k] = "running" /\ \A v \in Awaiter : ~Holds(v, k)'
    BY DEF EntriesAgree, Holds
  <2>i. guard[w].handle # k
    BY HandlesAre DEF BeginsUnrecorded, RegistryInv, GuardsAgree
  <2>1. CASE k = h
    BY <1>h, <2>1 DEF Holds
  <2>2. CASE k # h
    <3>1. \A v \in Awaiter : Holds(v, k) => Holds(v, k)'
      BY <1>h, <2>i DEF Holds
    <3>3. \A v \in Awaiter : Holds(v, k)' => Holds(v, k)
      BY <1>h, <2>2 DEF Holds
    <3>2. registry'[k] = registry[k] /\ occ' = occ
      BY <1>h, <1>i, <2>2
    <3> QED BY <3>1, <3>2, <3>3 DEF RegistryInv, EntriesAgree
  <2> QED BY <2>1, <2>2
<1>4. RunsAgree'
  BY HandlesAre, RegistryAssumption
  DEF RegistryInv, BeginsUnrecorded, NewHandles, Guards, Lapse, Unread, RunsAgree,
      GuardsAgree, RegistryTypeOK, GuardGoes, Idling, Holds, EntriesAgree
<1>5. FoundWasTrue'
  BY UnreadKeeps DEF BeginsUnrecorded
<1>6. SteadyIsFound'
  BY UnreadKeeps DEF BeginsUnrecorded
<1> QED BY <1>1, <1>2, <1>3, <1>4, <1>5, <1>6 DEF RegistryInv

LEMMA OccurrenceSettled ==
  ASSUME RegistryInv, NEW w \in Awaiter, SettlesOccurrence(w)
  PROVE  RegistryInv'
<1>0. /\ guard \in [Awaiter -> [at : {"idle", "begun", "working", "settled"}, handle : Handle \cup {None}]]
      /\ registry \in [Handle -> {"none", "live", "stalled", "unrecorded"}]
      /\ occ \in [Run -> {"absent", "running", "ended", "interrupted", "retry"}]
  BY DEF RegistryInv, RegistryTypeOK
<1>g. guard'[w] = [at |-> "settled", handle |-> guard[w].handle] /\ \A v \in Awaiter : v # w => guard'[v] = guard[v]
  BY <1>0 DEF SettlesOccurrence, GuardGoes
<1>k. guard[w].handle \in Run /\ guard[w].at = "working" /\ registry[guard[w].handle] = "live"
  BY WorkingHandle DEF SettlesOccurrence
<1>h. /\ UNCHANGED registry
      /\ \A r \in Run : r # guard[w].handle => occ'[r] = occ[r]
      /\ occ'[guard[w].handle] \in {"ended", "interrupted"}
      /\ occ' \in [Run -> {"absent", "running", "ended", "interrupted", "retry"}]
  BY <1>0, <1>k DEF SettlesOccurrence
<1>1. RegistryTypeOK'
  BY <1>0, <1>g, <1>h, <1>k DEF RegistryInv, RegistryTypeOK, SettlesOccurrence, Unread, GuardGoes
<1>2. GuardsAgree'
  <2>1. \A v \in Awaiter : v # w => guard[v].handle # guard[w].handle
    BY <1>k, HandlesAre DEF RegistryInv, RegistryTypeOK
  <2>2. \A v \in Awaiter : v # w /\ guard[v].handle \in Run => occ'[guard[v].handle] = occ[guard[v].handle]
    BY <1>h, <2>1
  <2> QED BY <1>g, <1>h, <1>k, <2>1, <2>2, HandlesAre DEF RegistryInv, GuardsAgree
<1>3. EntriesAgree'
  BY <1>0, <1>g, <1>h, <1>k, HandlesAre DEF RegistryInv, EntriesAgree, GuardsAgree, Holds
<1>4. RunsAgree'
  BY HandlesAre, RegistryAssumption
  DEF RegistryInv, SettlesOccurrence, Unread, RunsAgree, GuardsAgree, RegistryTypeOK,
      GuardGoes, Idling, Holds, EntriesAgree
<1>5. FoundWasTrue'
  BY UnreadKeeps DEF SettlesOccurrence
<1>6. SteadyIsFound'
  BY UnreadKeeps DEF SettlesOccurrence
<1> QED BY <1>1, <1>2, <1>3, <1>4, <1>5, <1>6 DEF RegistryInv

LEMMA EntryRemoved ==
  ASSUME RegistryInv, NEW w \in Awaiter, LeavesRegistry(w)
  PROVE  RegistryInv'
<1>0. /\ guard \in [Awaiter -> [at : {"idle", "begun", "working", "settled"}, handle : Handle \cup {None}]]
      /\ registry \in [Handle -> {"none", "live", "stalled", "unrecorded"}]
      /\ occ \in [Run -> {"absent", "running", "ended", "interrupted", "retry"}]
  BY DEF RegistryInv, RegistryTypeOK
<1>g. guard'[w] = Idling /\ \A v \in Awaiter : v # w => guard'[v] = guard[v]
  BY <1>0 DEF LeavesRegistry, GuardGoes
<1>k. guard[w].handle \in Handle /\ (guard[w].handle \in Run => guard[w].at = "settled")
  <2>1. CASE guard[w].at = "settled"
    BY <2>1, HandlesAre DEF RegistryInv, GuardsAgree
  <2>2. CASE guard[w].at = "working" /\ guard[w].handle < 0
    BY <2>2, WorkingHandle
  <2> QED BY <2>1, <2>2 DEF LeavesRegistry
<1>h. /\ guard[w].handle \in Handle /\ registry'[guard[w].handle] = "none"
      /\ \A h \in Handle : h # guard[w].handle => registry'[h] = registry[h]
      /\ UNCHANGED <<occ, queued>> /\ (guard[w].handle \in Run => guard[w].at = "settled")
  BY <1>0, <1>k DEF LeavesRegistry, Removed
<1>1. RegistryTypeOK'
  BY HandlesAre, RegistryAssumption
  DEF RegistryInv, LeavesRegistry, Removed, Unread, RegistryTypeOK, GuardGoes, Idling,
      GuardsAgree, RunsAgree, Holds
<1>2. GuardsAgree'
  BY HandlesAre, RegistryAssumption
  DEF RegistryInv, LeavesRegistry, Removed, Unread, GuardsAgree, RegistryTypeOK,
      GuardGoes, Idling, Holds, EntriesAgree, RunsAgree
<1>3. EntriesAgree'
  BY <1>0, <1>g, <1>h, HandlesAre DEF RegistryInv, RegistryTypeOK, EntriesAgree, GuardsAgree, Holds, Idling
<1>4. RunsAgree'
  <2>1. \A r \in Run : registry'[r] = registry[r] \/ r = guard[w].handle
    BY <1>h, HandlesAre
  <2>2. \A h \in Handle : \A v \in Awaiter : (guard'[v].handle = h <=> v # w /\ guard[v].handle = h)
    BY <1>0, <1>g, HandlesAre DEF Idling
  <2>3. queued.run # None => registry'[queued.run] = "none"
    BY <1>h, <2>1 DEF RegistryInv, RegistryTypeOK, RunsAgree
  <2>4. guard[w].handle \in Run => occ[guard[w].handle] # "running"
    BY <1>h DEF RegistryInv, GuardsAgree
  <2>5. \A h \in Handle : \A v \in Awaiter : Holds(v, h)' <=> v # w /\ Holds(v, h)
    BY <2>2 DEF Holds
  <2>6. \A r \in Run : occ[r] = "running" => r # guard[w].handle
    BY <2>4
  <2>7. queued.run # None => queued.run \in Run
    BY DEF RegistryInv, RegistryTypeOK
  <2>8. \A r \in Run : occ[r] = "running" =>
          queued.run = r \/ registry'[r] = "stalled" \/ \E v \in Awaiter : Holds(v, r)'
    <3> SUFFICES ASSUME NEW r \in Run, occ[r] = "running", queued.run # r, registry'[r] # "stalled"
                 PROVE  \E v \in Awaiter : Holds(v, r)'
      OBVIOUS
    <3>1. PICK v \in Awaiter : Holds(v, r)
      BY <1>h, <2>6, HandlesAre DEF RegistryInv, RunsAgree
    <3>2. v # w
      BY <2>6, <3>1 DEF Holds
    <3> QED BY <2>5, <3>1, <3>2, HandlesAre
  <2>9. \A r \in Run : occ[r] = "absent" => queued.run # r /\ registry'[r] = "none" /\ \A v \in Awaiter : ~Holds(v, r)'
    BY <1>h, <2>1, <2>5, HandlesAre DEF RegistryInv, RunsAgree
  <2>10. queued.run # None => occ[queued.run] = "running" /\ \A v \in Awaiter : ~Holds(v, queued.run)'
    <3>1. queued.run # None => queued.run \in Handle
      BY <2>7, HandlesAre
    <3> QED BY <1>h, <2>5, <3>1 DEF RegistryInv, RunsAgree
  <2> QED BY <1>h, <2>3, <2>8, <2>9, <2>10 DEF RegistryInv, RunsAgree
<1>5. FoundWasTrue'
  BY UnreadKeeps DEF LeavesRegistry
<1>6. SteadyIsFound'
  BY UnreadKeeps DEF LeavesRegistry
<1> QED BY <1>1, <1>2, <1>3, <1>4, <1>5, <1>6 DEF RegistryInv

LEMMA SettleFailed ==
  ASSUME RegistryInv, NEW w \in Awaiter, SettleErrs(w)
  PROVE  RegistryInv'
<1>0. /\ guard \in [Awaiter -> [at : {"idle", "begun", "working", "settled"}, handle : Handle \cup {None}]]
      /\ registry \in [Handle -> {"none", "live", "stalled", "unrecorded"}]
      /\ occ \in [Run -> {"absent", "running", "ended", "interrupted", "retry"}]
  BY DEF RegistryInv, RegistryTypeOK
<1>g. guard'[w] = Idling /\ \A v \in Awaiter : v # w => guard'[v] = guard[v]
  BY <1>0 DEF SettleErrs, GuardGoes
<1>h. /\ guard[w].handle \in Run /\ registry'[guard[w].handle] = "stalled" /\ guard[w].at = "working"
      /\ \A h \in Handle : h # guard[w].handle => registry'[h] = registry[h]
      /\ UNCHANGED <<occ, queued>> /\ occ[guard[w].handle] = "running"
  BY <1>0, HandlesAre DEF SettleErrs, Kept, RegistryInv, GuardsAgree, None
<1>1. RegistryTypeOK'
  BY HandlesAre, RegistryAssumption
  DEF RegistryInv, SettleErrs, Kept, Lapse, Unread, RegistryTypeOK, GuardGoes, Idling,
      GuardsAgree, RunsAgree, Holds
<1>2. GuardsAgree'
  BY HandlesAre, RegistryAssumption
  DEF RegistryInv, SettleErrs, Kept, Lapse, Unread, GuardsAgree, RegistryTypeOK,
      GuardGoes, Idling, Holds, EntriesAgree, RunsAgree
<1>3. EntriesAgree'
  BY <1>0, <1>g, <1>h, HandlesAre DEF RegistryInv, RegistryTypeOK, EntriesAgree, GuardsAgree, Holds, Idling
<1>4. RunsAgree'
  BY HandlesAre, RegistryAssumption
  DEF RegistryInv, SettleErrs, Kept, Lapse, Unread, RunsAgree, GuardsAgree,
      RegistryTypeOK, GuardGoes, Idling, Holds, EntriesAgree
<1>5. FoundWasTrue'
  BY UnreadKeeps DEF SettleErrs
<1>6. SteadyIsFound'
  BY UnreadKeeps DEF SettleErrs
<1> QED BY <1>1, <1>2, <1>3, <1>4, <1>5, <1>6 DEF RegistryInv

LEMMA JobWasArmed ==
  ASSUME RegistryInv, JobArmed
  PROVE  RegistryInv'
<1>1. RegistryTypeOK'
  BY HandlesAre, RegistryAssumption
  DEF RegistryInv, JobArmed, Unread, RegistryTypeOK, GuardGoes, Idling, GuardsAgree,
      RunsAgree, Holds
<1>2. GuardsAgree'
  BY HandlesAre, RegistryAssumption
  DEF RegistryInv, JobArmed, Unread, GuardsAgree, RegistryTypeOK, GuardGoes, Idling,
      Holds, EntriesAgree, RunsAgree
<1>3. EntriesAgree'
  BY DEF RegistryInv, EntriesAgree, Holds, JobArmed
<1>4. RunsAgree'
  BY HandlesAre DEF RegistryInv, RunsAgree, Holds, JobArmed
<1>5. FoundWasTrue'
  BY UnreadKeeps DEF JobArmed
<1>6. SteadyIsFound'
  BY UnreadKeeps DEF JobArmed
<1> QED BY <1>1, <1>2, <1>3, <1>4, <1>5, <1>6 DEF RegistryInv

LEMMA JobWasClaimed ==
  ASSUME RegistryInv, JobClaimed
  PROVE  RegistryInv'
<1>1. RegistryTypeOK'
  BY HandlesAre, RegistryAssumption
  DEF RegistryInv, JobClaimed, Unread, RegistryTypeOK, GuardGoes, Idling, GuardsAgree,
      RunsAgree, Holds
<1>2. GuardsAgree'
  BY HandlesAre, RegistryAssumption
  DEF RegistryInv, JobClaimed, Unread, GuardsAgree, RegistryTypeOK, GuardGoes, Idling,
      Holds, EntriesAgree, RunsAgree
<1>3. EntriesAgree'
  BY DEF RegistryInv, EntriesAgree, Holds, JobClaimed
<1>4. RunsAgree'
  BY HandlesAre DEF RegistryInv, RegistryTypeOK, RunsAgree, Holds, JobClaimed
<1>5. FoundWasTrue'
  BY UnreadKeeps DEF JobClaimed
<1>6. SteadyIsFound'
  BY UnreadKeeps DEF JobClaimed
<1> QED BY <1>1, <1>2, <1>3, <1>4, <1>5, <1>6 DEF RegistryInv

LEMMA JobBegun ==
  ASSUME RegistryInv, JobBegins
  PROVE  RegistryInv'
<1>1. RegistryTypeOK'
  BY HandlesAre, RegistryAssumption
  DEF RegistryInv, JobBegins, NewRuns, Unread, RegistryTypeOK, GuardGoes, Idling,
      GuardsAgree, RunsAgree, Holds
<1>2. GuardsAgree'
  BY HandlesAre, RegistryAssumption
  DEF RegistryInv, JobBegins, NewRuns, Unread, GuardsAgree, RegistryTypeOK, GuardGoes,
      Idling, Holds, EntriesAgree, RunsAgree
<1>3. EntriesAgree'
  BY HandlesAre, RegistryAssumption
  DEF RegistryInv, JobBegins, NewRuns, Unread, EntriesAgree, GuardsAgree, RegistryTypeOK,
      GuardGoes, Idling, Holds, RunsAgree
<1>4. RunsAgree'
  BY HandlesAre, RegistryAssumption
  DEF RegistryInv, JobBegins, NewRuns, Unread, RunsAgree, GuardsAgree, RegistryTypeOK,
      GuardGoes, Idling, Holds, EntriesAgree
<1>5. FoundWasTrue'
  BY UnreadKeeps DEF JobBegins
<1>6. SteadyIsFound'
  BY UnreadKeeps DEF JobBegins
<1> QED BY <1>1, <1>2, <1>3, <1>4, <1>5, <1>6 DEF RegistryInv

LEMMA JobSettled ==
  ASSUME RegistryInv, JobSettles
  PROVE  RegistryInv'
<1>h. /\ queued.run \in Run /\ \A w \in Awaiter : ~Holds(w, queued.run)
      /\ registry[queued.run] = "none" /\ UNCHANGED <<guard, registry>>
      /\ \A r \in Run : r # queued.run => occ'[r] = occ[r]
  BY HandlesAre DEF JobSettles, JobRuns, RegistryInv, RegistryTypeOK, RunsAgree
<1>1. RegistryTypeOK'
  BY HandlesAre, RegistryAssumption
  DEF RegistryInv, JobSettles, JobRuns, Unread, RegistryTypeOK, GuardGoes, Idling,
      GuardsAgree, RunsAgree, Holds
<1>2. GuardsAgree'
  BY <1>h, HandlesAre DEF RegistryInv, RegistryTypeOK, GuardsAgree, Holds
<1>3. EntriesAgree'
  BY <1>h, HandlesAre DEF RegistryInv, EntriesAgree, Holds
<1>4. RunsAgree'
  BY HandlesAre, RegistryAssumption
  DEF RegistryInv, JobSettles, JobRuns, Unread, RunsAgree, GuardsAgree, RegistryTypeOK,
      GuardGoes, Idling, Holds, EntriesAgree
<1>5. FoundWasTrue'
  BY UnreadKeeps DEF JobSettles
<1>6. SteadyIsFound'
  BY UnreadKeeps DEF JobSettles
<1> QED BY <1>1, <1>2, <1>3, <1>4, <1>5, <1>6 DEF RegistryInv

\* What a step of the read does to the read.
LEMMA SourceRead ==
  ASSUME RegistryInv, NEW from \in {"jobs", "entries", "stalledJobs", "stalledEntries", "pending", "recent"},
         NEW to \in {"entries", "stalledJobs", "stalledEntries", "pending", "recent", "done"},
         StepOf[to] = StepOf[from] + 1,
         NEW found \in SUBSET Section, found \subseteq Sections,
         \A p \in Pieces : SourceOfPiece(p) = StepOf[from] => p[1] \in found,
         ReadStep(from, to, found)
  PROVE  RegistryInv'
<1>1. /\ reader.at = from /\ reader'.at = to /\ reader'.found = reader.found \cup found
      /\ UNCHANGED <<occ, registry, guard, queued, lapses>>
      /\ truth' = truth \cup Sections' /\ steady' = steady \cap Pieces'
  BY DEF ReadStep, Watched
<1>2. Pieces' = Pieces /\ Sections' = Sections
  BY <1>1 DEF Pieces, Sections, LiveEntries, JobWaits
<1>3. RegistryTypeOK'
  BY <1>1 DEF RegistryInv, RegistryTypeOK
<1>4. GuardsAgree' /\ EntriesAgree' /\ RunsAgree'
  BY <1>1 DEF RegistryInv, GuardsAgree, EntriesAgree, RunsAgree, Holds
<1>5. FoundWasTrue'
  BY <1>1, <1>2 DEF RegistryInv, FoundWasTrue
<1>6. SteadyIsFound'
  <2> SUFFICES ASSUME NEW p \in steady', StepOf[to] > SourceOfPiece(p)
               PROVE  p[1] \in reader'.found
    BY <1>1, <1>2 DEF SteadyIsFound
  <2>1. p \in steady /\ p \in Pieces
    BY <1>1, <1>2 DEF RegistryInv, SteadyIsFound
  <2>2. StepOf[from] \in Nat /\ SourceOfPiece(p) \in Nat
    BY DEF StepOf, SourceOfPiece
  <2>3. CASE SourceOfPiece(p) = StepOf[from]
    BY <1>1, <2>1, <2>3
  <2>4. CASE StepOf[from] > SourceOfPiece(p)
    BY <1>1, <2>1, <2>4 DEF RegistryInv, SteadyIsFound
  <2> QED BY <2>2, <2>3, <2>4
<1> QED BY <1>3, <1>4, <1>5, <1>6 DEF RegistryInv

\* Where the pieces of live work are found.
LEMMA PiecesAre ==
  ASSUME RegistryInv, NEW p \in Pieces
  PROVE  /\ p[1] \in Sections /\ p[1] \in {"running", "stalled", "queued"}
         /\ SourceOfPiece(p) = 1 <=> p = <<"running", None>>
         /\ p = <<"running", None>> => JobRuns
         /\ SourceOfPiece(p) = 2 => p[1] = "running" /\ LiveEntries # {}
         /\ SourceOfPiece(p) = 3 => p[1] = "stalled" /\ JobStalls
         /\ SourceOfPiece(p) = 4 => p[1] = "stalled" /\ StalledEntries # {}
         /\ SourceOfPiece(p) = 5 => p[1] = "queued" /\ JobWaits
         /\ SourceOfPiece(p) \in 1..5
<1>1. p[1] \in Sections
  BY DEF Sections
<1>2. CASE \E h \in LiveEntries : p = <<"running", h>>
  BY <1>1, <1>2, HandlesAre DEF SourceOfPiece, LiveEntries
<1>3. CASE \E h \in Handle : registry[h] \in {"stalled", "unrecorded"} /\ p = <<"stalled", h>>
  BY <1>1, <1>3, HandlesAre DEF SourceOfPiece, StalledEntries
<1>4. CASE queued.st = "running" /\ p = <<IF queued.run = None THEN "stalled" ELSE "running", None>>
  BY <1>1, <1>4 DEF SourceOfPiece, JobRuns, JobStalls
<1>5. CASE JobWaits /\ p = <<"queued", None>>
  BY <1>1, <1>5 DEF SourceOfPiece
<1> QED BY <1>2, <1>3, <1>4, <1>5 DEF Pieces

\* What is found in a source is true.
LEMMA FoundAreSections ==
  ASSUME RegistryInv
  PROVE  /\ JobRuns \/ LiveEntries # {} => "running" \in Sections
         /\ JobStalls \/ StalledEntries # {} => "stalled" \in Sections
         /\ JobWaits => "queued" \in Sections
         /\ Recent # {} => "recent" \in Sections
<1>1. JobRuns => <<"running", None>> \in Pieces
  BY DEF JobRuns, Pieces
<1>2. JobStalls => <<"stalled", None>> \in Pieces
  BY DEF JobStalls, Pieces
<1>3. JobWaits => <<"queued", None>> \in Pieces
  BY DEF JobWaits, Pieces
<1>4. \A h \in LiveEntries : <<"running", h>> \in Pieces
  BY DEF Pieces
<1>5. \A h \in StalledEntries : <<"stalled", h>> \in Pieces
  BY DEF Pieces, StalledEntries
<1>6. \A p \in Pieces : p[1] \in Sections
  BY DEF Sections
<1>7. Recent # {} => "recent" \in Sections
  BY DEF Sections, Recent
<1> QED BY <1>1, <1>2, <1>3, <1>4, <1>5, <1>6, <1>7

LEMMA ReadSteps ==
  ASSUME RegistryInv,
         ReadJobs \/ ReadEntries \/ ReadStalledJobs \/ ReadStalledEntries \/ ReadPending \/ ReadRecent
  PROVE  RegistryInv'
<1>0. \A n \in {"jobs", "entries", "stalledJobs", "stalledEntries", "pending", "recent", "done"} :
        StepOf[n] = CASE n = "jobs" -> 1 [] n = "entries" -> 2 [] n = "stalledJobs" -> 3
                      [] n = "stalledEntries" -> 4 [] n = "pending" -> 5 [] n = "recent" -> 6 [] OTHER -> 7
  BY DEF StepOf
<1>1. CASE ReadJobs
  BY <1>0, <1>1, SourceRead, PiecesAre, FoundAreSections DEF ReadJobs, Section
<1>2. CASE ReadEntries
  BY <1>0, <1>2, SourceRead, PiecesAre, FoundAreSections DEF ReadEntries, Section
<1>3. CASE ReadStalledJobs
  BY <1>0, <1>3, SourceRead, PiecesAre, FoundAreSections DEF ReadStalledJobs, Section
<1>4. CASE ReadStalledEntries
  BY <1>0, <1>4, SourceRead, PiecesAre, FoundAreSections DEF ReadStalledEntries, Section
<1>5. CASE ReadPending
  BY <1>0, <1>5, SourceRead, PiecesAre, FoundAreSections DEF ReadPending, Section
<1>6. CASE ReadRecent
  BY <1>0, <1>6, SourceRead, PiecesAre, FoundAreSections DEF ReadRecent, Section
<1> QED BY <1>1, <1>2, <1>3, <1>4, <1>5, <1>6

LEMMA ReadStarted ==
  ASSUME RegistryInv, ReadStarts
  PROVE  RegistryInv'
<1>1. /\ reader' = [at |-> "jobs", found |-> {}] /\ truth' = Sections /\ steady' = Pieces
      /\ UNCHANGED <<occ, registry, guard, queued, lapses>>
  BY DEF ReadStarts
<1>2. Pieces' = Pieces /\ Sections' = Sections
  BY <1>1 DEF Pieces, Sections, LiveEntries, JobWaits
<1>3. RegistryTypeOK'
  BY <1>1 DEF RegistryInv, RegistryTypeOK
<1>4. GuardsAgree' /\ EntriesAgree' /\ RunsAgree'
  BY <1>1 DEF RegistryInv, GuardsAgree, EntriesAgree, RunsAgree, Holds
<1>5. FoundWasTrue'
  BY <1>1, <1>2 DEF FoundWasTrue
<1>6. \A p \in Pieces : SourceOfPiece(p) \in Nat /\ SourceOfPiece(p) >= 1
  BY DEF SourceOfPiece
<1>7. SteadyIsFound'
  BY <1>1, <1>2, <1>6 DEF SteadyIsFound, StepOf
<1> QED BY <1>3, <1>4, <1>5, <1>7 DEF RegistryInv

LEMMA ReadEnded ==
  ASSUME RegistryInv, ReadEnds
  PROVE  RegistryInv'
<1>1. /\ reader' = [at |-> "off", found |-> {}] /\ truth' = {} /\ steady' = {}
      /\ UNCHANGED <<occ, registry, guard, queued, lapses>>
  BY DEF ReadEnds, Watched
<1>3. RegistryTypeOK'
  BY <1>1 DEF RegistryInv, RegistryTypeOK
<1>4. GuardsAgree' /\ EntriesAgree' /\ RunsAgree'
  BY <1>1 DEF RegistryInv, GuardsAgree, EntriesAgree, RunsAgree, Holds
<1>5. FoundWasTrue' /\ SteadyIsFound'
  BY <1>1 DEF FoundWasTrue, SteadyIsFound
<1> QED BY <1>3, <1>4, <1>5 DEF RegistryInv

LEMMA Restarted ==
  ASSUME RegistryInv, Restart
  PROVE  RegistryInv'
<1>1. /\ reader' = [at |-> "off", found |-> {}] /\ truth' = {} /\ steady' = {}
      /\ occ' \in [Run -> {"absent", "running", "ended", "interrupted", "retry"}]
      /\ \A r \in Run : occ'[r] = "absent" <=> occ[r] = "absent"
      /\ \A r \in Run : occ'[r] # "running"
      /\ registry' = [h \in Handle |-> "none"]
      /\ guard' = [w \in Awaiter |-> Idling]
  BY DEF Restart, Watched, RegistryInv, RegistryTypeOK
<1>2. queued'.run = None /\ queued' \in [st : {"pending", "running", "settled"}, run : Run \cup {None}]
  BY DEF Restart, RegistryInv, RegistryTypeOK, RunsAgree
<1>3. lapses' \in 0..MaxLapses
  BY RegistryAssumption DEF Restart, Lapse, RegistryInv, RegistryTypeOK
<1>4. RegistryTypeOK'
  BY <1>1, <1>2, <1>3 DEF RegistryTypeOK, Idling
<1>5. GuardsAgree' /\ EntriesAgree'
  BY <1>1, HandlesAre DEF GuardsAgree, EntriesAgree, Idling, Holds
<1>6. RunsAgree'
  BY <1>1, <1>2, HandlesAre DEF RunsAgree, Idling, Holds
<1>7. FoundWasTrue' /\ SteadyIsFound'
  BY <1>1 DEF FoundWasTrue, SteadyIsFound
<1> QED BY <1>4, <1>5, <1>6, <1>7 DEF RegistryInv

LEMMA RegistryInitInv == RegistryInit => RegistryInv
<1> SUFFICES ASSUME RegistryInit PROVE RegistryInv
  OBVIOUS
<1>1. RegistryTypeOK
  BY RegistryAssumption DEF RegistryInit, RegistryTypeOK, Idling
<1>2. GuardsAgree /\ EntriesAgree /\ RunsAgree
  BY HandlesAre DEF RegistryInit, GuardsAgree, EntriesAgree, RunsAgree, Idling, Holds
<1>3. FoundWasTrue /\ SteadyIsFound
  BY DEF RegistryInit, FoundWasTrue, SteadyIsFound
<1> QED BY <1>1, <1>2, <1>3 DEF RegistryInv

LEMMA RegistryStep == RegistryInv /\ [RegistryNext]_registryVars => RegistryInv'
<1> SUFFICES ASSUME RegistryInv, [RegistryNext]_registryVars PROVE RegistryInv'
  OBVIOUS
<1>1. CASE UNCHANGED registryVars
  <2>1. Pieces' = Pieces /\ Sections' = Sections
    BY <1>1 DEF registryVars, Pieces, Sections, LiveEntries, JobWaits
  <2> QED BY <1>1, <2>1 DEF registryVars, RegistryInv, RegistryTypeOK, GuardsAgree, EntriesAgree, RunsAgree,
                   FoundWasTrue, SteadyIsFound, Holds
<1> QED BY <1>1, OccurrenceBegun, EntryMade, UnrecordedBegun, OccurrenceSettled, EntryRemoved,
           SettleFailed, JobWasArmed, JobWasClaimed, JobBegun, JobSettled, ReadSteps, ReadStarted,
           ReadEnded, Restarted
        DEF RegistryNext, GuardStep, JobStep, ReaderStep

\* Guards, entries, occurrences, the queued job and the read keep their types.
THEOREM RegistryTypesHold == RegistrySpec => []RegistryTypeOK
BY RegistryInitInv, RegistryStep, PTL DEF RegistrySpec, RegistryInv

\* The registry and the occurrences agree, over every interleaving of guards, of the
\* failure of either write and of restarts: a thread at work has its entry, a
\* running occurrence its guard, its job or a failed settle on record, and no entry
\* claims work that nobody does (ActivityGuard, settle_failed).
THEOREM EntriesAreExactHolds == RegistrySpec => []EntriesAreExact
<1>1. RegistryInv => EntriesAreExact
  <2> SUFFICES ASSUME RegistryInv PROVE EntriesAreExact
    OBVIOUS
  <2>1. \A w \in Awaiter : guard[w].at = "working" => registry[guard[w].handle] # "none"
    BY DEF RegistryInv, GuardsAgree
  <2>2. \A r \in Run : occ[r] = "running" =>
          Guards(r) # {} \/ queued.run = r \/ registry[r] = "stalled"
    BY DEF RegistryInv, RunsAgree, Guards
  <2>3. NoGhostEntry
    BY HandlesAre DEF RegistryInv, EntriesAgree, NoGhostEntry, Guards
  <2> QED BY <2>1, <2>2, <2>3 DEF EntriesAreExact, WorkIsTracked
<1> QED BY <1>1, RegistryInitInv, RegistryStep, PTL DEF RegistrySpec

\* The view shows nothing that was not there at some moment of the read, and misses
\* nothing that stood still for all of it, though it reads one source after the
\* other (activity_reads).
THEOREM ViewIsFaithfulHolds == RegistrySpec => []ViewIsFaithful
<1>1. RegistryInv => ViewIsFaithful
  <2> SUFFICES ASSUME RegistryInv, reader.at = "done" PROVE ViewIsFaithful
    BY DEF ViewIsFaithful, ViewIsTrue, SteadyIsShown
  <2>1. Shown # "none" => Shown \in reader.found
    BY DEF Shown
  <2>2. ViewIsTrue
    BY <2>1 DEF RegistryInv, FoundWasTrue, ViewIsTrue
  <2>3. SteadyIsShown
    <3> SUFFICES ASSUME NEW p \in steady PROVE Rank[Shown] <= Rank[p[1]]
      BY DEF SteadyIsShown
    <3>1. p \in Pieces
      BY DEF RegistryInv, SteadyIsFound
    <3>2. SourceOfPiece(p) \in 1..5 /\ p[1] \in {"running", "stalled", "queued"}
      BY <3>1, PiecesAre
    <3>3. p[1] \in reader.found
      BY <3>2 DEF RegistryInv, SteadyIsFound, StepOf
    <3> QED BY <3>2, <3>3 DEF Shown, Rank
  <2> QED BY <2>2, <2>3 DEF ViewIsFaithful
<1> QED BY <1>1, RegistryInitInv, RegistryStep, PTL DEF RegistrySpec

-----------------------------------------------------------------------------
(* The scheduler: no source too early, none too late.                      *)

\* The longest interval of a source.
Longest(s) == IF s \in Registry THEN Default[s] ELSE Max({Default[s]} \cup Polls)

\* How long a source may have waited and have left to wait, missed m times.
Allowed(s, m) == (m + 1) * Longest(s) + m * (MaxGap - 1) + Jitter[s]

\* What is left until a source is due and what passed since it last was make up its
\* interval; a due time that has passed has been missed at least once.
SourceKept(s, passed, left, wait, misses) ==
  /\ passed \in 0..Default[s] /\ wait \in Nat /\ misses \in Nat
  /\ left \in {Never} \cup 0..Latest
  /\ left = Never => wait = 0 /\ misses = 0
  /\ left # Never =>
       /\ passed + left >= Default[s]
       /\ Longest(s) > 0
       /\ wait + (IF left = 0 THEN 1 ELSE left) <= Allowed(s, misses)

SourcesKept == \A s \in Adapter : SourceKept(s, since[s], due[s], waited[s], missed[s])

\* The same of the daily job.
DayKept ==
  /\ daySince \in 0..Day
  /\ awake => IF dayDue = Never THEN daySince = Day ELSE daySince + dayDue >= Day

SchedInv ==
  /\ SchedTypeOK
  /\ since \in [Adapter -> Nat]
  /\ SourcesKept /\ DayKept /\ NeverHammered

-----------------------------------------------------------------------------
LEMMA MaxIs ==
  ASSUME NEW S, \E m \in S : \A k \in S : k <= m, S \subseteq Nat
  PROVE  Max(S) \in S /\ \A k \in S : k <= Max(S)
<1>1. \E m \in S : \A k \in S : m >= k
  OBVIOUS
<1> QED BY <1>1 DEF Max

LEMMA LongestIs ==
  ASSUME NEW s \in Adapter
  PROVE  /\ Longest(s) \in Nat /\ Default[s] <= Longest(s) /\ Default[s] \in Nat /\ Jitter[s] \in Nat
         /\ s \notin Registry => \A p \in Polls : p <= Longest(s)
<1>1. Default[s] \in Nat /\ Jitter[s] \in Nat /\ Polls \subseteq Nat
  BY ScheduleAssumption
<1>2. PICK p \in Polls : \A q \in Polls : q <= p
  BY ScheduleAssumption
<1> DEFINE S == {Default[s]} \cup Polls
<1>3. \E m \in S : \A k \in S : k <= m
  <2>1. CASE Default[s] <= p
    BY <1>1, <1>2, <2>1
  <2>2. CASE p <= Default[s]
    <3>1. \A k \in Polls : k <= Default[s]
      BY <1>1, <1>2, <2>2
    <3>2. Default[s] <= Default[s]
      BY <1>1
    <3>3. \A k \in S : k <= Default[s]
      BY <3>1, <3>2, Zenon
    <3> QED BY <3>3, Zenon
  <2> QED BY <1>1, <1>2, <2>1, <2>2
<1>4. Max(S) \in S /\ \A k \in S : k <= Max(S)
  <2>1. S \subseteq Nat
    BY <1>1
  <2> HIDE DEF S
  <2> QED BY <1>3, <2>1, MaxIs
<1>5. CASE s \in Registry
  <2>1. Longest(s) = Default[s]
    BY <1>5 DEF Longest
  <2> QED BY <1>1, <1>5, <2>1
<1>6. CASE s \notin Registry
  <2>1. Longest(s) = Max(S)
    BY <1>6 DEF Longest
  <2> QED BY <1>1, <1>4, <2>1
<1> QED BY <1>5, <1>6

LEMMA LatestIs ==
  ASSUME NEW s \in Adapter
  PROVE  Latest \in Nat /\ Longest(s) + Jitter[s] <= Latest
<1> DEFINE D == {Default[t] : t \in Adapter}
           S == D \cup Polls
           J == {Jitter[t] : t \in Adapter}
<1>1. S \subseteq Nat /\ J \subseteq Nat
  BY ScheduleAssumption
<1>2. \E m \in J : \A k \in J : k <= m
  BY ScheduleAssumption
<1>3. \E m \in S : \A k \in S : k <= m
  <2>1. PICK p \in Polls : \A q \in Polls : q <= p
    BY ScheduleAssumption
  <2>2. PICK d \in D : \A q \in D : q <= d
    BY ScheduleAssumption
  <2>3. CASE p <= d
    BY <1>1, <2>1, <2>2, <2>3
  <2>4. CASE d <= p
    <3>1. \A q \in D : q <= p
      BY <1>1, <2>1, <2>2, <2>4
    <3> QED BY <2>1, <3>1
  <2> QED BY <1>1, <2>1, <2>2, <2>3, <2>4
<1>4. Max(J) \in Nat /\ Jitter[s] <= Max(J)
  BY <1>1, <1>2, MaxIs
<1>5. Max(S) \in Nat /\ \A k \in S : k <= Max(S)
  BY <1>1, <1>3, MaxIs
<1>6. Longest(s) <= Max(S)
  <2>1. CASE s \in Registry
    BY <1>5, <2>1 DEF Longest
  <2>2. CASE s \notin Registry
    <3>1. {Default[s]} \cup Polls \subseteq Nat /\ Default[s] \in D
      BY ScheduleAssumption
    <3>2. \E m \in {Default[s]} \cup Polls : \A k \in {Default[s]} \cup Polls : k <= m
      <4>1. PICK p \in Polls : \A q \in Polls : q <= p
        BY ScheduleAssumption
      <4>2. CASE Default[s] <= p
        BY <3>1, <4>1, <4>2
      <4>3. CASE p <= Default[s]
        BY <3>1, <4>1, <4>3
      <4> QED BY <3>1, <4>1, <4>2, <4>3
    <3>3. Max({Default[s]} \cup Polls) \in {Default[s]} \cup Polls
      BY <3>1, <3>2, MaxIs
    <3> QED BY <1>5, <2>2, <3>1, <3>3 DEF Longest
  <2> QED BY <2>1, <2>2
<1>7. Latest = Max(S) + Max(J)
  BY DEF Latest
<1> QED BY <1>4, <1>5, <1>6, <1>7, LongestIs

\* One more miss allows one more interval and the length of one more tick.
LEMMA AllowedGrows ==
  ASSUME NEW s \in Adapter, NEW m \in Nat
  PROVE  /\ Allowed(s, m) \in Nat
         /\ Allowed(s, 0) = Longest(s) + Jitter[s]
         /\ Allowed(s, m + 1) = Allowed(s, m) + Longest(s) + MaxGap - 1
         /\ Allowed(s, m) <= (m + 1) * (Longest(s) + MaxGap - 1) + Jitter[s]
<1>1. Longest(s) \in Nat /\ MaxGap - 1 \in Nat /\ MaxGap \in Nat /\ Jitter[s] \in Nat
  BY LongestIs, ScheduleAssumption
<1>2. \A L, G, J \in Nat :
        /\ (m + 1) * L + m * G + J \in Nat
        /\ (0 + 1) * L + 0 * G + J = L + J
        /\ ((m + 1) + 1) * L + (m + 1) * G + J = (m + 1) * L + m * G + J + L + G
        /\ (m + 1) * L + m * G + J <= (m + 1) * (L + G) + J
  OBVIOUS
<1>3. /\ Allowed(s, m) = (m + 1) * Longest(s) + m * (MaxGap - 1) + Jitter[s]
      /\ Allowed(s, 0) = (0 + 1) * Longest(s) + 0 * (MaxGap - 1) + Jitter[s]
      /\ Allowed(s, m + 1) = ((m + 1) + 1) * Longest(s) + (m + 1) * (MaxGap - 1) + Jitter[s]
  BY DEF Allowed
<1>4. Allowed(s, m) \in Nat
  BY <1>1, <1>2, <1>3
<1>5. Allowed(s, 0) = Longest(s) + Jitter[s]
  BY <1>1, <1>2, <1>3
<1>6. Allowed(s, m + 1) = Allowed(s, m) + Longest(s) + (MaxGap - 1)
  BY <1>1, <1>2, <1>3
<1>7. Allowed(s, m) <= (m + 1) * (Longest(s) + (MaxGap - 1)) + Jitter[s]
  BY <1>1, <1>2, <1>3
<1>8. Longest(s) + (MaxGap - 1) = Longest(s) + MaxGap - 1
  BY <1>1
<1>9. Allowed(s, m) + Longest(s) + (MaxGap - 1) = Allowed(s, m) + Longest(s) + MaxGap - 1
  BY <1>1, <1>4
<1> QED BY <1>4, <1>5, <1>6, <1>7, <1>8, <1>9

LEMMA IntervalIs ==
  ASSUME NEW s \in Adapter, poll \in Polls
  PROVE  /\ Interval(s) \in Nat /\ Default[s] <= Interval(s) /\ Interval(s) <= Longest(s)
         /\ Scheduled(s) => Interval(s) > 0
<1>1. poll \in Nat
  BY ScheduleAssumption
<1> QED BY <1>1, LongestIs DEF Interval, Scheduled

\* A source that is armed, or gets its first due time.
LEMMA KeptWhenArmed ==
  ASSUME NEW s \in Adapter, poll \in Polls, Scheduled(s),
         NEW j \in {0, Jitter[s]}, NEW p \in 0..Default[s]
  PROVE  SourceKept(s, p, Interval(s) + j, 0, 0)
<1>1. Allowed(s, 0) = Longest(s) + Jitter[s]
  BY AllowedGrows
<1> QED BY <1>1, LongestIs, LatestIs, IntervalIs DEF SourceKept, Never

\* A source that was due, and its row was not armed.
LEMMA KeptWhenMissed ==
  ASSUME NEW s \in Adapter, poll \in Polls, Scheduled(s), NEW dt \in 1..MaxGap,
         NEW p, NEW left, NEW wait, NEW misses, SourceKept(s, p, left, wait, misses),
         left # Never, left <= dt
  PROVE  SourceKept(s, 0, Interval(s), wait + dt, misses + 1)
<1>1. misses \in Nat /\ left \in Nat /\ wait \in Nat /\ MaxGap \in Nat /\ dt \in Nat /\ dt <= MaxGap /\ dt >= 1
  BY LatestIs, ScheduleAssumption DEF SourceKept, Never
<1>2. /\ Allowed(s, misses) \in Nat
      /\ Allowed(s, misses + 1) = Allowed(s, misses) + Longest(s) + MaxGap - 1
  BY <1>1, AllowedGrows
<1>3. wait + (IF left = 0 THEN 1 ELSE left) <= Allowed(s, misses)
  BY DEF SourceKept
<1>4. wait + dt <= Allowed(s, misses) + MaxGap - 1
  BY <1>1, <1>2, <1>3
<1> QED BY <1>1, <1>2, <1>4, LongestIs, LatestIs, IntervalIs DEF SourceKept, Never

\* A source that is not due yet.
LEMMA KeptWhenWaiting ==
  ASSUME NEW s \in Adapter, NEW dt \in 1..MaxGap,
         NEW p, NEW left, NEW wait, NEW misses, SourceKept(s, p, left, wait, misses),
         left # Never, left > dt
  PROVE  SourceKept(s, UpTo(p + dt, Default[s]), left - dt, wait + dt, misses)
<1>1. misses \in Nat /\ left \in Nat /\ wait \in Nat /\ p \in Nat /\ dt \in Nat
      /\ Latest \in Nat /\ left <= Latest
  BY LatestIs, LongestIs, ScheduleAssumption DEF SourceKept, Never
<1>2. Allowed(s, misses) \in Nat
  BY <1>1, AllowedGrows
<1> QED BY <1>1, <1>2, LongestIs DEF SourceKept, UpTo, Never

\* A source in a tick that could not read the settings.
LEMMA KeptWhenSkipped ==
  ASSUME NEW s \in Adapter, NEW dt \in 1..MaxGap,
         NEW p, NEW left, NEW wait, NEW misses, SourceKept(s, p, left, wait, misses),
         left # Never
  PROVE  SourceKept(s, UpTo(p + dt, Default[s]), Less(left, dt), wait + dt, misses + 1)
<1>1. misses \in Nat /\ left \in Nat /\ wait \in Nat /\ p \in Nat /\ dt \in Nat /\ dt >= 1 /\ dt <= MaxGap
      /\ MaxGap \in Nat /\ Latest \in Nat /\ left <= Latest /\ Longest(s) > 0 /\ Longest(s) \in Nat
  BY LatestIs, LongestIs, ScheduleAssumption DEF SourceKept, Never
<1>2. /\ Allowed(s, misses) \in Nat
      /\ Allowed(s, misses + 1) = Allowed(s, misses) + Longest(s) + MaxGap - 1
  BY <1>1, AllowedGrows
<1>3. wait + (IF left = 0 THEN 1 ELSE left) <= Allowed(s, misses)
  BY DEF SourceKept
<1>4. CASE left > dt
  BY <1>1, <1>2, <1>3, <1>4, LongestIs DEF SourceKept, UpTo, Less, Never
<1>5. CASE left <= dt
  BY <1>1, <1>2, <1>3, <1>5, LongestIs DEF SourceKept, UpTo, Less, Never
<1> QED BY <1>1, <1>4, <1>5

\* A source without a due time.
LEMMA KeptWithout ==
  ASSUME NEW s \in Adapter, NEW p \in 0..Default[s]
  PROVE  SourceKept(s, p, Never, 0, 0)
BY DEF SourceKept, Never

\* Time passes for the daily job: it fires again a day after it did.
LEMMA DayPasses ==
  ASSUME SchedInv, NEW dt \in 1..MaxGap, NEW found, Passed(found, dt),
         awake, awake' = awake, dayDue' = NextDay(dt)
  PROVE  DayKept' /\ dayDue' \in {Never} \cup 0..Day /\ ~(DayFires(dt) /\ daySince + dt < Day)
<1>1. Day \in Nat /\ Day > 0 /\ dt \in Nat /\ dt >= 1 /\ daySince \in Nat /\ daySince <= Day
  BY ScheduleAssumption DEF SchedInv, DayKept
<1>2. CASE dayDue = Never
  BY <1>1, <1>2 DEF SchedInv, DayKept, Passed, NextDay, DayFires, Less, UpTo, Never
<1>3. CASE dayDue # Never
  <2>1. dayDue \in Nat /\ dayDue <= Day /\ daySince + dayDue >= Day
    BY <1>1, <1>3 DEF SchedInv, SchedTypeOK, DayKept, Never
  <2>2. CASE dayDue > dt
    BY <1>1, <1>3, <2>1, <2>2 DEF DayKept, Passed, NextDay, DayFires, Less, UpTo, Never
  <2>3. CASE dayDue <= dt
    BY <1>1, <1>3, <2>1, <2>3 DEF DayKept, Passed, NextDay, DayFires, Less, UpTo, Never
  <2> QED BY <1>1, <2>1, <2>2, <2>3
<1> QED BY <1>2, <1>3

-----------------------------------------------------------------------------
(* Every action keeps the invariant. *)

LEMMA SchedBegins == SchedInit => SchedInv
<1> SUFFICES ASSUME SchedInit PROVE SchedInv
  OBVIOUS
<1>1. SchedTypeOK
  BY ScheduleAssumption DEF SchedInit, SchedTypeOK, Never
<1>2. \A s \in Adapter : SourceKept(s, since[s], due[s], waited[s], missed[s])
  <2> TAKE s \in Adapter
  <2>1. since[s] \in 0..Default[s] /\ due[s] = Never /\ waited[s] = 0 /\ missed[s] = 0
    BY LongestIs DEF SchedInit
  <2> QED BY <2>1, KeptWithout
<1>3. since \in [Adapter -> Nat] /\ DayKept /\ NeverHammered
  BY ScheduleAssumption DEF SchedInit, DayKept, NeverHammered, Never
<1> QED BY <1>1, <1>2, <1>3 DEF SchedInv, SourcesKept

\* The time since a source was due, and no source is due too early.
LEMMA SourcesPass ==
  ASSUME SchedInv, NEW dt \in 1..MaxGap, NEW found \in SUBSET Adapter, Passed(found, dt),
         \A s \in found : due[s] # Never /\ Less(due[s], dt) = 0
  PROVE  /\ since' \in [Adapter -> Nat]
         /\ \A s \in Adapter : since'[s] \in 0..Default[s]
         /\ {s \in found : since[s] + dt < Default[s]} = {}
<1>1. \A s \in Adapter : since[s] \in Nat /\ since[s] <= Default[s] /\ Default[s] \in Nat
  BY LongestIs DEF SchedInv, SourcesKept, SourceKept
<1>2. dt \in Nat
  BY ScheduleAssumption
<1>3. \A s \in Adapter : since'[s] \in 0..Default[s]
  BY <1>1, <1>2 DEF Passed, UpTo
<1>4. since' \in [Adapter -> Nat]
  BY <1>1, <1>2 DEF Passed, UpTo
<1>5. ASSUME NEW s \in found PROVE ~(since[s] + dt < Default[s])
  <2>1. SourceKept(s, since[s], due[s], waited[s], missed[s])
    BY DEF SchedInv, SourcesKept
  <2>2. due[s] \in Nat /\ due[s] <= dt /\ since[s] + due[s] >= Default[s]
    BY <1>2, <1>5, <2>1, LatestIs DEF SourceKept, Less, Never
  <2> QED BY <1>1, <1>2, <2>2
<1> QED BY <1>3, <1>4, <1>5

LEMMA TickKeeps ==
  ASSUME SchedInv, NEW dt \in 1..MaxGap, Tick(dt)
  PROVE  SchedInv'
<1>1. PICK lost \in SUBSET DueNow(dt) :
        /\ IF lost = {} THEN UNCHANGED tickFaults ELSE TickFault
        /\ refresh' = [s \in Adapter |-> IF s \in Rearmed(lost, dt) THEN "pending" ELSE refresh[s]]
        /\ due' = NextDue(dt)
        /\ Waits(Rearmed(lost, dt), DueNow(dt), dt)
  BY DEF Tick
<1>2. /\ awake /\ awake' = awake /\ dayDue' = NextDay(dt) /\ Passed(DueNow(dt), dt)
      /\ poll' = poll /\ enabled' = enabled
  BY DEF Tick
<1>3. DueNow(dt) \subseteq Adapter /\ Rearmed(lost, dt) \subseteq DueNow(dt) /\ dt \in Nat
  BY ScheduleAssumption DEF DueNow, Rearmed
<1>4. \A s \in Adapter : SourceKept(s, since[s], due[s], waited[s], missed[s])
  BY DEF SchedInv, SourcesKept
<1>5. poll \in Polls
  BY DEF SchedInv, SchedTypeOK
<1>6. \A s \in DueNow(dt) : due[s] # Never /\ Less(due[s], dt) = 0
  BY DEF DueNow, Less, Never
<1>7. /\ since' \in [Adapter -> Nat]
      /\ \A s \in Adapter : since'[s] \in 0..Default[s]
      /\ {s \in DueNow(dt) : since[s] + dt < Default[s]} = {}
  BY <1>2, <1>3, <1>6, SourcesPass
<1>8. DayKept' /\ dayDue' \in {Never} \cup 0..Day /\ ~(DayFires(dt) /\ daySince + dt < Day)
  BY <1>2, DayPasses
<1>9. NeverHammered'
  BY <1>2, <1>7, <1>8 DEF SchedInv, NeverHammered, Passed
<1>10. ASSUME NEW s \in Adapter
       PROVE  SourceKept(s, since'[s], due'[s], waited'[s], missed'[s])
  <2>1. /\ due'[s] = IF ~Scheduled(s) THEN Never
                     ELSE IF due[s] = Never THEN Interval(s) + Jitter[s]
                     ELSE IF s \in DueNow(dt) THEN Interval(s) ELSE Less(due[s], dt)
        /\ since'[s] = IF s \in DueNow(dt) THEN 0 ELSE UpTo(since[s] + dt, Default[s])
    BY <1>1, <1>2 DEF NextDue, Passed
  <2>2. /\ waited'[s] = IF s \in Rearmed(lost, dt) \/ due[s] = Never \/ due'[s] = Never THEN 0 ELSE waited[s] + dt
        /\ missed'[s] = IF s \in Rearmed(lost, dt) \/ due[s] = Never \/ due'[s] = Never THEN 0
                        ELSE IF s \in DueNow(dt) THEN missed[s] + 1 ELSE missed[s]
    BY <1>1 DEF Waits
  <2>3. CASE ~Scheduled(s)
    BY <1>7, <2>1, <2>2, <2>3, KeptWithout
  <2>4. CASE Scheduled(s) /\ due[s] = Never
    <3>1. SourceKept(s, since'[s], Interval(s) + Jitter[s], 0, 0)
      BY <1>5, <1>7, <2>4, KeptWhenArmed
    <3> QED BY <2>1, <2>2, <2>4, <3>1
  <2>5. CASE Scheduled(s) /\ s \in Rearmed(lost, dt)
    <3>1. SourceKept(s, since'[s], Interval(s) + 0, 0, 0)
      BY <1>5, <1>7, <2>5, KeptWhenArmed
    <3>2. due[s] # Never /\ s \in DueNow(dt) /\ Interval(s) + 0 = Interval(s)
      BY <1>3, <1>5, <1>6, <2>5, IntervalIs
    <3> QED BY <2>1, <2>2, <2>5, <3>1, <3>2
  <2>6. CASE Scheduled(s) /\ s \in DueNow(dt) /\ s \notin Rearmed(lost, dt)
    <3>1. due[s] # Never /\ due[s] \in Nat /\ due[s] <= dt
      BY <1>3, <1>4, <1>6, <2>6, LatestIs DEF SourceKept, Less, Never
    <3>2. SourceKept(s, 0, Interval(s), waited[s] + dt, missed[s] + 1)
      BY <1>4, <1>5, <2>6, <3>1, KeptWhenMissed
    <3>3. due'[s] = Interval(s) /\ Interval(s) # Never
      BY <1>5, <2>1, <2>6, <3>1, IntervalIs DEF Never
    <3> QED BY <2>1, <2>2, <2>6, <3>1, <3>2, <3>3
  <2>7. CASE Scheduled(s) /\ due[s] # Never /\ s \notin DueNow(dt)
    <3>1. due[s] \in Nat /\ due[s] > dt /\ Less(due[s], dt) = due[s] - dt
      BY <1>3, <1>4, <2>7, LatestIs DEF SourceKept, DueNow, Less, Never
    <3>2. SourceKept(s, UpTo(since[s] + dt, Default[s]), due[s] - dt, waited[s] + dt, missed[s])
      BY <1>4, <2>7, <3>1, KeptWhenWaiting
    <3>3. due'[s] = due[s] - dt /\ due'[s] # Never
      BY <1>3, <2>1, <2>7, <3>1 DEF Never
    <3> QED BY <1>3, <2>1, <2>2, <2>7, <3>2, <3>3
  <2> QED BY <2>3, <2>4, <2>5, <2>6, <2>7
<1>11. due' \in [Adapter -> {Never} \cup 0..Latest]
  <2>1. due' = [s \in Adapter |-> due'[s]]
    BY <1>1 DEF NextDue
  <2>2. \A s \in Adapter : due'[s] \in {Never} \cup 0..Latest
    BY <1>10 DEF SourceKept
  <2> QED BY <2>1, <2>2
<1>12. tickFaults' \in 0..MaxTickFaults
  BY <1>1, ScheduleAssumption DEF TickFault, SchedInv, SchedTypeOK
<1>13. refresh' \in [Adapter -> {"pending", "running", "settled"}]
  BY <1>1 DEF SchedInv, SchedTypeOK
<1>14. SchedTypeOK'
  BY <1>2, <1>8, <1>11, <1>12, <1>13 DEF SchedInv, SchedTypeOK
<1>15. SourcesKept'
  BY <1>10 DEF SourcesKept
<1> QED BY <1>7, <1>8, <1>9, <1>14, <1>15 DEF SchedInv

LEMMA TickSkippedKeeps ==
  ASSUME SchedInv, NEW dt \in 1..MaxGap, TickSkipped(dt)
  PROVE  SchedInv'
<1>1. /\ awake /\ awake' = awake /\ dayDue' = NextDay(dt) /\ Passed({}, dt)
      /\ poll' = poll /\ enabled' = enabled /\ refresh' = refresh
      /\ due' = [s \in Adapter |-> Less(due[s], dt)] /\ Waits({}, Adapter, dt) /\ TickFault
  BY DEF TickSkipped
<1>2. \A s \in Adapter : SourceKept(s, since[s], due[s], waited[s], missed[s])
  BY DEF SchedInv, SourcesKept
<1>3. since' \in [Adapter -> Nat] /\ \A s \in Adapter : since'[s] \in 0..Default[s]
  BY <1>1, SourcesPass
<1>4. DayKept' /\ dayDue' \in {Never} \cup 0..Day /\ ~(DayFires(dt) /\ daySince + dt < Day)
  BY <1>1, DayPasses
<1>5. NeverHammered'
  BY <1>1, <1>4 DEF SchedInv, NeverHammered, Passed
<1>6. ASSUME NEW s \in Adapter
      PROVE  SourceKept(s, since'[s], due'[s], waited'[s], missed'[s])
  <2>1. due'[s] = Less(due[s], dt) /\ since'[s] = UpTo(since[s] + dt, Default[s])
    BY <1>1 DEF Passed
  <2>2. /\ waited'[s] = IF due[s] = Never \/ due'[s] = Never THEN 0 ELSE waited[s] + dt
        /\ missed'[s] = IF due[s] = Never \/ due'[s] = Never THEN 0 ELSE missed[s] + 1
    BY <1>1 DEF Waits
  <2>3. CASE due[s] = Never
    BY <1>3, <2>1, <2>2, <2>3, KeptWithout DEF Less
  <2>4. CASE due[s] # Never
    <3>1. SourceKept(s, UpTo(since[s] + dt, Default[s]), Less(due[s], dt), waited[s] + dt, missed[s] + 1)
      BY <1>2, <2>4, KeptWhenSkipped
    <3>2. due[s] \in Nat /\ dt \in Nat
      BY <1>2, <2>4, LatestIs, ScheduleAssumption DEF SourceKept, Never
    <3>3. Less(due[s], dt) # Never
      BY <2>4, <3>2 DEF Less, Never
    <3> QED BY <2>1, <2>2, <2>4, <3>1, <3>3
  <2> QED BY <2>3, <2>4
<1>7. due' \in [Adapter -> {Never} \cup 0..Latest]
  <2>1. due' = [s \in Adapter |-> due'[s]]
    BY <1>1
  <2>2. \A s \in Adapter : due'[s] \in {Never} \cup 0..Latest
    BY <1>6 DEF SourceKept
  <2> QED BY <2>1, <2>2
<1>8. tickFaults' \in 0..MaxTickFaults
  BY <1>1, ScheduleAssumption DEF TickFault, SchedInv, SchedTypeOK
<1>9. SchedTypeOK'
  BY <1>1, <1>4, <1>7, <1>8 DEF SchedInv, SchedTypeOK
<1>10. SourcesKept'
  BY <1>6 DEF SourcesKept
<1> QED BY <1>3, <1>4, <1>5, <1>9, <1>10 DEF SchedInv

LEMMA RefreshGoesKeeps ==
  ASSUME SchedInv, NEW s \in Adapter, NEW from, NEW to \in {"running", "settled"},
         RefreshGoes(s, from, to)
  PROVE  SchedInv'
<1>1. SchedTypeOK'
  BY DEF SchedInv, SchedTypeOK, RefreshGoes, schedHistory
<1> QED BY <1>1 DEF SchedInv, SourcesKept, DayKept, NeverHammered, RefreshGoes, schedHistory

LEMMA ChangeSettingsKeeps ==
  ASSUME SchedInv, ChangeSettings
  PROVE  SchedInv'
<1>1. SchedTypeOK'
  BY DEF SchedInv, SchedTypeOK, ChangeSettings, schedHistory
<1> QED BY <1>1 DEF SchedInv, SourcesKept, DayKept, NeverHammered, ChangeSettings, schedHistory

LEMMA QuitsKeeps ==
  ASSUME SchedInv, Quits
  PROVE  SchedInv'
<1>1. SchedTypeOK'
  BY DEF SchedInv, SchedTypeOK, Quits, Never
<1>2. \A s \in Adapter : SourceKept(s, since'[s], due'[s], waited'[s], missed'[s])
  <2> TAKE s \in Adapter
  <2>1. since'[s] \in 0..Default[s]
    BY DEF Quits, SchedInv, SourcesKept, SourceKept
  <2>2. due'[s] = Never /\ waited'[s] = 0 /\ missed'[s] = 0
    BY DEF Quits, Waits
  <2> QED BY <2>1, <2>2, KeptWithout
<1>3. since' \in [Adapter -> Nat] /\ DayKept' /\ NeverHammered'
  BY ScheduleAssumption DEF Quits, SchedInv, DayKept, NeverHammered
<1> QED BY <1>1, <1>2, <1>3 DEF SchedInv, SourcesKept

LEMMA OpensKeeps ==
  ASSUME SchedInv, NEW dt \in 1..MaxGap, Opens(dt)
  PROVE  SchedInv'
<1>1. Passed({}, dt) /\ ~awake /\ awake' = TRUE
      /\ UNCHANGED <<poll, enabled, due, dayDue, refresh, tickFaults, waited, missed>>
  BY DEF Opens
<1>2. \A s \in Adapter : due[s] = Never
  BY <1>1 DEF SchedInv, SchedTypeOK
<1>3. since' \in [Adapter -> Nat] /\ \A s \in Adapter : since'[s] \in 0..Default[s]
  BY <1>1, SourcesPass
<1>4. SchedTypeOK'
  BY <1>1 DEF SchedInv, SchedTypeOK
<1>5. \A s \in Adapter : SourceKept(s, since'[s], due'[s], waited'[s], missed'[s])
  <2> TAKE s \in Adapter
  <2>1. due'[s] = Never /\ waited'[s] = 0 /\ missed'[s] = 0
    BY <1>1, <1>2 DEF SchedInv, SourcesKept, SourceKept
  <2> QED BY <1>3, <2>1, KeptWithout
<1>6. DayKept' /\ NeverHammered'
  BY <1>1, ScheduleAssumption DEF Passed, SchedInv, SchedTypeOK, DayKept, NeverHammered
<1> QED BY <1>3, <1>4, <1>5, <1>6 DEF SchedInv, SourcesKept

LEMMA SchedStep == SchedInv /\ [SchedNext]_schedVars => SchedInv'
<1> SUFFICES ASSUME SchedInv, [SchedNext]_schedVars PROVE SchedInv'
  OBVIOUS
<1>1. ASSUME NEW dt \in 1..MaxGap, Tick(dt) \/ TickSkipped(dt) \/ Opens(dt) PROVE SchedInv'
  BY <1>1, TickKeeps, TickSkippedKeeps, OpensKeeps
<1>2. ASSUME NEW s \in Adapter, RefreshGoes(s, "pending", "running") \/ RefreshGoes(s, "running", "settled")
      PROVE  SchedInv'
  BY <1>2, RefreshGoesKeeps
<1>3. CASE UNCHANGED schedVars
  BY <1>3 DEF schedVars, SchedInv, SchedTypeOK, SourcesKept, DayKept, NeverHammered
<1> QED BY <1>1, <1>2, <1>3, ChangeSettingsKeeps, QuitsKeeps DEF SchedNext

LEMMA SchedInvHolds == SchedSpec => []SchedInv
BY SchedBegins, SchedStep, PTL DEF SchedSpec

\* The variables of the scheduler keep their types: no due time is further away than
\* the longest interval and its jitter, and none outlives the process
\* (compute_schedule, compute_daily_due).
THEOREM SchedTypesHold == SchedSpec => []SchedTypeOK
<1>1. SchedInv => SchedTypeOK
  BY DEF SchedInv
<1> QED BY <1>1, SchedInvHolds, PTL

\* A source is never found due before its own interval is over, and is re-armed once
\* per interval but for the arms and ticks that failed, whatever the settings are
\* changed to and however often the process restarts (compute_schedule, run_tick,
\* fire_daily).
THEOREM DueTimesAreKeptHolds == SchedSpec => []DueTimesAreKept
<1>1. SchedInv => DueTimesAreKept
  <2> SUFFICES ASSUME SchedInv PROVE WaitIsBounded
    BY DEF SchedInv, DueTimesAreKept
  <2>1. ASSUME NEW s \in Adapter
        PROVE  waited[s] <= (missed[s] + 1) * (Longest(s) + MaxGap - 1) + Jitter[s]
    <3>1. SourceKept(s, since[s], due[s], waited[s], missed[s])
      BY DEF SchedInv, SourcesKept
    <3>2. missed[s] \in Nat /\ waited[s] \in Nat
      BY <3>1 DEF SourceKept
    <3>3. waited[s] <= Allowed(s, missed[s]) /\ Allowed(s, missed[s]) \in Nat
      <4>1. Allowed(s, missed[s]) \in Nat
        BY <3>2, AllowedGrows
      <4>2. CASE due[s] = Never
        BY <3>1, <4>1, <4>2 DEF SourceKept
      <4>3. CASE due[s] # Never
        <5>1. due[s] \in Nat
          BY <3>1, <4>3, LatestIs DEF SourceKept
        <5> QED BY <3>1, <3>2, <4>1, <4>3, <5>1 DEF SourceKept
      <4> QED BY <4>1, <4>2, <4>3
    <3>4. Allowed(s, missed[s]) <= (missed[s] + 1) * (Longest(s) + MaxGap - 1) + Jitter[s]
      BY <3>2, AllowedGrows
    <3>5. (missed[s] + 1) * (Longest(s) + MaxGap - 1) + Jitter[s] \in Int
      BY <3>2, LongestIs, ScheduleAssumption
    <3> QED BY <3>2, <3>3, <3>4, <3>5
  <2> QED BY <2>1 DEF WaitIsBounded, Longest
<1> QED BY <1>1, SchedInvHolds, PTL

-----------------------------------------------------------------------------
(* The MCP server: it serves what the settings say, or a reason is known.  *)

\* A server that runs was started below the cap: McpTypeOK bounds what one more
\* pool of processors can add to that, and would not bound it again without it.
McpInv ==
  /\ McpTypeOK
  /\ ServerMatchesSettings
  /\ RunsMcp => parked < StalledCap

\* A start, whatever came of it: a server has the token and port it was started
\* with, was not refused, and no server has a reason.
LEMMA StartOutcome ==
  ASSUME NEW on \in BOOLEAN, NEW port \in McpPort, NEW key \in {0} \cup Tokens, NEW n \in Nat,
         Starts(on, port, key, n)
  PROVE  /\ parked' = n /\ bodies' = 0
         /\ \/ server' = NoServer /\ mcpError' \in {"none", "settings", "stalled", "token", "bind"}
            \/ /\ server' = [token |-> key, port |-> port] /\ mcpError' = "none"
               /\ on /\ key \in Tokens /\ port \notin taken /\ n < StalledCap
         /\ on /\ server' = NoServer => mcpError' # "none"
<1>1. Refusal(on, port, key, n) \in {"none", "disabled", "stalled", "token", "bind"}
  BY DEF Refusal
<1>2. Refusal(on, port, key, n) = "none" => on /\ key \in Tokens /\ port \notin taken /\ n < StalledCap
  BY McpAssumption DEF Refusal
<1>3. Refusal(on, port, key, n) = "disabled" => ~on
  BY DEF Refusal
<1>4. key \in Tokens => [token |-> key, port |-> port] # NoServer
  BY McpAssumption DEF NoServer, Tokens
<1> QED BY <1>1, <1>2, <1>3, <1>4 DEF Starts

\* After a start the invariant holds again, of the settings and the token the
\* start was made with.
LEMMA StartKeeps ==
  ASSUME NEW n \in Nat, n < StalledCap + PoolSize,
         Starts(mcp'.on, mcp'.port, token', n),
         mcp' \in [on : BOOLEAN, port : McpPort], token' \in {0} \cup Tokens,
         minted' \in {0} \cup Tokens, taken' = taken
  PROVE  McpInv'
<1>1. /\ parked' = n /\ bodies' = 0
      /\ \/ server' = NoServer /\ mcpError' \in {"none", "settings", "stalled", "token", "bind"}
         \/ /\ server' = [token |-> token', port |-> mcp'.port] /\ mcpError' = "none"
            /\ mcp'.on /\ token' \in Tokens /\ mcp'.port \notin taken /\ n < StalledCap
      /\ mcp'.on /\ server' = NoServer => mcpError' # "none"
  BY StartOutcome
<1> QED BY <1>1, McpAssumption
        DEF McpInv, McpTypeOK, ServerMatchesSettings, ServesStoredToken, DownIsExplained, RunsMcp,
            NoServer

LEMMA McpInitInv == McpInit => McpInv
<1> SUFFICES ASSUME McpInit PROVE McpInv
  OBVIOUS
<1>1. mcp \in [on : BOOLEAN, port : McpPort] /\ mcp.on = FALSE
  BY DEF McpInit
<1> QED BY <1>1, McpAssumption
DEF McpInit, McpInv, McpTypeOK, ServerMatchesSettings, ServesStoredToken, DownIsExplained,
    RunsMcp, NoServer, Tokens

LEMMA McpStep == McpInv /\ [McpNext]_mcpVars => McpInv'
<1> SUFFICES ASSUME McpInv, [McpNext]_mcpVars PROVE McpInv'
  OBVIOUS
<1> USE McpAssumption
<1>a. /\ mcp \in [on : BOOLEAN, port : McpPort] /\ token \in {0} \cup Tokens
      /\ minted \in {0} \cup Tokens /\ parked \in Nat /\ parked < StalledCap + PoolSize
      /\ bodies \in 0..PoolSize
  BY DEF McpInv, McpTypeOK
<1>b. \A n \in ParkedAfterStop : n \in Nat /\ n < StalledCap + PoolSize
  BY <1>a DEF ParkedAfterStop, McpInv, McpTypeOK
<1>1. CASE Enable
  <2>1. CASE RunsMcp
    BY <1>1, <2>1
    DEF Enable, Stays, McpInv, McpTypeOK, ServerMatchesSettings, ServesStoredToken,
        DownIsExplained, RunsMcp
  <2>2. CASE ~RunsMcp
    BY <1>1, <2>2, <1>a, StartKeeps DEF Enable
  <2> QED BY <2>1, <2>2
<1>2. CASE Disable
  <2>1. mcp' \in [on : BOOLEAN, port : McpPort] /\ mcp'.on = FALSE
    BY <1>2, <1>a DEF Disable
  <2>2. parked' \in 0..(StalledCap + PoolSize - 1)
    BY <1>2, <1>b DEF Disable
  <2> QED BY <1>2, <2>1, <2>2
  DEF Disable, McpInv, McpTypeOK, ServerMatchesSettings, ServesStoredToken, DownIsExplained, RunsMcp
<1>3. CASE ChangePort
  BY <1>3
  DEF ChangePort, McpInv, McpTypeOK, ServerMatchesSettings, ServesStoredToken, DownIsExplained,
      RunsMcp
<1>4. CASE Regenerate
  <2>1. minted' \in Tokens /\ token' = minted' /\ UNCHANGED <<mcp, taken>>
    BY <1>4, <1>a DEF Regenerate, Tokens
  <2>2. PICK n \in ParkedAfterStop : Starts(mcp.on, mcp.port, token', n)
    BY <1>4 DEF Regenerate, Restarts
  <2> QED BY <1>a, <1>b, <2>1, <2>2, StartKeeps
<1>5. CASE RegenerateFails
  <2>1. minted' \in Tokens /\ token' \in {0} \cup Tokens
    BY <1>5, <1>a DEF RegenerateFails, Tokens
  <2> QED BY <1>5, <2>1
          DEF RegenerateFails, McpInv, McpTypeOK, ServerMatchesSettings, ServesStoredToken,
              DownIsExplained, RunsMcp
<1>6. CASE Revoke
  <2>1. PICK n \in ParkedAfterStop : Starts(mcp.on, mcp.port, 0, n)
    BY <1>6 DEF Revoke, Restarts
  <2> QED BY <1>6, <1>a, <1>b, <2>1, StartKeeps DEF Revoke
<1>7. CASE BodyStalls
  BY <1>7
  DEF BodyStalls, McpInv, McpTypeOK, ServerMatchesSettings, ServesStoredToken, DownIsExplained,
      RunsMcp
<1>8. CASE BodyEnds
  BY <1>8
  DEF BodyEnds, McpInv, McpTypeOK, ServerMatchesSettings, ServesStoredToken, DownIsExplained,
      RunsMcp
<1>9. CASE ParkedExits
  BY <1>9
  DEF ParkedExits, McpInv, McpTypeOK, ServerMatchesSettings, ServesStoredToken, DownIsExplained,
      RunsMcp
<1>10. CASE OtherProgram
  BY <1>10
  DEF OtherProgram, McpInv, McpTypeOK, ServerMatchesSettings, ServesStoredToken, DownIsExplained,
      RunsMcp
<1>11. CASE Reopens
  <2>1. CASE mcp.on /\ Starts(TRUE, mcp.port, token, 0)
    <3>1. mcp.on = TRUE /\ 0 < StalledCap + PoolSize
      BY <1>a, <2>1
    <3> QED BY <1>11, <1>a, <2>1, <3>1, StartKeeps DEF Reopens
  <2>2. CASE /\ server' = NoServer /\ mcpError' = "none" /\ bodies' = 0 /\ parked' = 0
             /\ IF mcp.on THEN Outage /\ unread' = TRUE ELSE NoOutage /\ unread' = FALSE
    BY <1>11, <2>2
    DEF Reopens, McpInv, McpTypeOK, ServerMatchesSettings, ServesStoredToken, DownIsExplained,
        RunsMcp
  <2> QED BY <1>11, <2>1, <2>2 DEF Reopens
<1>12. CASE UNCHANGED mcpVars
  BY <1>12
  DEF mcpVars, McpInv, McpTypeOK, ServerMatchesSettings, ServesStoredToken, DownIsExplained, RunsMcp
<1> QED
  BY <1>1, <1>2, <1>3, <1>4, <1>5, <1>6, <1>7, <1>8, <1>9, <1>10, <1>11, <1>12 DEF McpNext

\* Settings, keychain, server and processors keep their types; however often the
\* server is restarted, no more processors are parked than the cap and one pool.
THEOREM McpTypesHold == McpSpec => []McpTypeOK
BY McpInitInv, McpStep, PTL DEF McpSpec, McpInv

\* What runs, and what is shown of it, is what settings and keychain say, over
\* every order of rotations, refusals, outages and restarts
\* (ensure_started_with, regenerate_token_with_restart_impl).
THEOREM ServerMatchesSettingsHolds == McpSpec => []ServerMatchesSettings
BY McpInitInv, McpStep, PTL DEF McpSpec, McpInv
=============================================================================
