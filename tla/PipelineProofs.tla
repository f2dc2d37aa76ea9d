--------------------------- MODULE PipelineProofs ---------------------------
(* What holds of the batches and of the report pipeline for every value of *)
(* their constants: two components that share no variable.                 *)
EXTENDS BatchJobs, AutopilotRun, WellFoundedInduction, TLAPS

-----------------------------------------------------------------------------
(* Batches: history sweeps, re-extractions, backfills (BatchJobs).         *)

\* Threads: none is in an item while the process is down, no two in one; what the
\* item's row says at each point.
RunnersAgree ==
  /\ ~deskUp => \A w \in Runner : runner[w].at = "idle"
  /\ \A v, w \in Runner :
       runner[v].at # "idle" /\ runner[w].at # "idle" /\ runner[v].item = runner[w].item => v = w
  /\ \A w \in Runner :
       LET i == runner[w].item IN
       /\ runner[w].at = "mark" => ActiveItem(i) \/ hits[i] > 0
       /\ runner[w].at \in {"list", "complete"} => ActiveItem(i)
       /\ runner[w].at = "ok" => EndedItem(i)
       /\ runner[w].at = "err" => EndedItem(i) \/ i \in left

\* Every try of a job is a run that succeeded, was cut short, or is under way.
Underway(i) == itemJob[i].st = "succeeded" \/ (itemJob[i].st = "running" /\ deskUp)
TriesAreCounted ==
  \A i \in Item :
    /\ itemJob[i].tries = hits[i] + (IF Underway(i) THEN 1 ELSE 0)
    /\ itemJob[i].st = "running" => itemJob[i].tries > 0
    /\ itemJob[i].st = "pending" => itemJob[i].tries < Attempts(item[i].kind)
    /\ itemJob[i].st = "pending" /\ hits[i] = 0 => ActiveItem(i)
    /\ itemJob[i].st = "failed" => itemJob[i].tries >= Attempts(item[i].kind)

\* Rows are made in the order of their ids.
MadeInOrder == \A i \in MadeItems, k \in Item : k < i => k \in MadeItems

\* OneBatchAtATime, of an older batch beside any later one, at work or not.
OlderIsRetried ==
  \A i, j \in MadeItems :
    i < j /\ item[i].kind = "batch" /\ item[j].kind = "batch" /\ ActiveItem(i) /\ Backed(i)
      => hits[i] > 0

BatchInv ==
  /\ BatchTypeOK /\ RunnersAgree /\ TriesAreCounted /\ MadeInOrder /\ ActiveIsBacked
  /\ OlderIsRetried

-----------------------------------------------------------------------------
(* A set of ids has a least and a greatest one. *)

LEMMA LeastOf ==
  ASSUME NEW S \in SUBSET Nat, S # {}
  PROVE  \E m \in S : \A k \in S : m <= k
<1>1. \E m \in S : \A k \in S : <<k, m>> \notin OpToRel(<, Nat)
  BY NatLessThanWellFounded, WFMin
<1>2. \A k, m \in S : <<k, m>> \notin OpToRel(<, Nat) => m <= k
  BY DEF OpToRel
<1> QED BY <1>1, <1>2

LEMMA GreatestOf ==
  ASSUME NEW n \in Nat, NEW S \in SUBSET (0..n), S # {}
  PROVE  \E m \in S : \A k \in S : k <= m
<1> DEFINE T == {n - k : k \in S}
<1>1. T \in SUBSET Nat
  OBVIOUS
<1>5. T # {}
  OBVIOUS
<1>2. PICK t \in T : \A u \in T : t <= u
  BY <1>1, <1>5, LeastOf
<1>3. PICK m \in S : t = n - m
  BY <1>2
<1>4. \A k \in S : n - m <= n - k
  BY <1>2, <1>3
<1> QED BY <1>3, <1>4

LEMMA NextIsFresh ==
  ASSUME MadeItems # Item
  PROVE  /\ NextItem \in Item /\ NextItem \notin MadeItems
         /\ \A k \in Item : k < NextItem => k \in MadeItems
<1> DEFINE S == Item \ MadeItems
<1>3. S \in SUBSET Nat
  BY BatchAssumption DEF Item
<1>4. S # {}
  BY DEF MadeItems
<1>5. \E m \in S : \A k \in S : m <= k
  BY ONLY <1>3, <1>4, LeastOf
<1>1. \E m \in Item \ MadeItems : \A k \in Item \ MadeItems : m <= k
  BY <1>5
<1>2. NextItem \in Item \ MadeItems /\ \A k \in Item \ MadeItems : NextItem <= k
  BY <1>1 DEF NextItem
<1> QED BY <1>2, BatchAssumption DEF Item

LEMMA NewestIsThere ==
  ASSUME NEW i \in MadeItems, item[i].kind = "batch", ActiveItem(i)
  PROVE  \E n \in NewestActive : i <= n
<1> DEFINE B == {b \in MadeItems : item[b].kind = "batch" /\ ActiveItem(b)}
<1>1. B \in SUBSET (0..MaxItems) /\ i \in B
  BY BatchAssumption DEF MadeItems, Item
<1>2. PICK n \in B : \A k \in B : k <= n
  BY <1>1, GreatestOf, BatchAssumption
<1> QED BY <1>1, <1>2 DEF NewestActive

LEMMA RowsOf ==
  ASSUME BatchTypeOK, NEW i \in Item
  PROVE  /\ item[i].st \in {"absent", "queued", "running", "completed", "failed"}
         /\ item[i].kind \in ItemKind
         /\ itemJob[i].st \in {"missing", "pending", "running", "succeeded", "failed"}
         /\ itemJob[i].tries \in 0..2 /\ hits[i] \in 0..2
         /\ itemJob[i].tries <= Attempts(item[i].kind)
         /\ item[i].st = "absent" <=> itemJob[i].st = "missing"
         /\ i \in MadeItems <=> item[i].st # "absent"
         /\ itemJob[i].st = "missing" => itemJob[i].tries = 0
<1>1. item[i] \in ItemRow \cup {Unmade} /\ itemJob[i] \in ItemJob \cup {NoJob}
  BY DEF BatchTypeOK
<1>2. itemJob[i] # NoJob <=> itemJob[i].st # "missing"
  BY <1>1 DEF ItemJob, NoJob
<1>3. i \in MadeItems <=> item[i].st # "absent"
  BY DEF MadeItems
<1>4. itemJob[i].tries \in 0..2 /\ (itemJob[i].st = "missing" => itemJob[i].tries = 0)
  BY <1>1 DEF ItemJob, NoJob
<1>5. item[i].kind \in ItemKind
  BY <1>1 DEF ItemRow, Unmade, ItemKind
<1>6. item[i].st \in {"absent", "queued", "running", "completed", "failed"}
  BY <1>1 DEF ItemRow, Unmade
<1>7. itemJob[i].st \in {"missing", "pending", "running", "succeeded", "failed"}
  BY <1>1 DEF ItemJob, NoJob
<1>8. hits[i] \in 0..2
  BY DEF BatchTypeOK
<1>9. /\ i \in MadeItems <=> itemJob[i] # NoJob
      /\ itemJob[i].tries <= Attempts(item[i].kind)
  BY DEF BatchTypeOK
<1> QED BY <1>2, <1>3, <1>4, <1>5, <1>6, <1>7, <1>8, <1>9

\* What the next rows must be for the types to hold again.
LEMMA RowsTyped ==
  ASSUME item' \in [Item -> ItemRow \cup {Unmade}], itemJob' \in [Item -> ItemJob \cup {NoJob}],
         \A i \in Item : /\ item'[i].st = "absent" <=> itemJob'[i].st = "missing"
                         /\ itemJob'[i].tries <= Attempts(item'[i].kind)
  PROVE  \A i \in Item : /\ i \in MadeItems' <=> itemJob'[i] # NoJob
                         /\ itemJob'[i].tries <= Attempts(item'[i].kind)
<1>1. \A i \in Item : itemJob'[i] # NoJob <=> itemJob'[i].st # "missing"
  BY DEF ItemJob, NoJob
<1> QED BY <1>1 DEF MadeItems

\* What a creation writes.
LEMMA Minted ==
  ASSUME BatchInv, NEW kind \in ItemKind, NEW base \in [Item -> ItemRow \cup {Unmade}],
         Mint(kind, base)
  PROVE  \E m \in Item :
           /\ item[m].st = "absent" /\ \A k \in Item : k < m => item[k].st # "absent"
           /\ item' \in [Item -> ItemRow \cup {Unmade}] /\ itemJob' \in [Item -> ItemJob \cup {NoJob}]
           /\ item'[m].st = "queued" /\ item'[m].kind = kind
           /\ itemJob'[m].st = "pending" /\ itemJob'[m].tries = 0
           /\ \A i \in Item : i # m => item'[i] = base[i] /\ itemJob'[i] = itemJob[i]
<1>1. /\ NextItem \in Item /\ NextItem \notin MadeItems
      /\ \A k \in Item : k < NextItem => k \in MadeItems
  BY NextIsFresh DEF Mint
<1>2. [st |-> "queued", kind |-> kind] \in ItemRow /\ [st |-> "pending", tries |-> 0] \in ItemJob
  BY DEF ItemRow, ItemJob
<1>3. item' = [base EXCEPT ![NextItem] = [st |-> "queued", kind |-> kind]]
  BY DEF Mint
<1>4. itemJob' = [itemJob EXCEPT ![NextItem] = [st |-> "pending", tries |-> 0]]
  BY DEF Mint
<1>5. itemJob \in [Item -> ItemJob \cup {NoJob}]
  BY DEF BatchInv, BatchTypeOK
<1>6. item' \in [Item -> ItemRow \cup {Unmade}] /\ itemJob' \in [Item -> ItemJob \cup {NoJob}]
  BY <1>1, <1>2, <1>3, <1>4, <1>5
<1>7. item[NextItem].st = "absent" /\ \A k \in Item : k < NextItem => item[k].st # "absent"
  BY <1>1 DEF MadeItems
<1> QED BY <1>1, <1>3, <1>4, <1>5, <1>6, <1>7

\* What a handler writes to the row of its item.
LEMMA Written ==
  ASSUME BatchInv, NEW i \in Item, item[i].st # "absent",
         NEW st \in {"queued", "running", "completed", "failed"}, Put(i, st)
  PROVE  /\ item' \in [Item -> ItemRow \cup {Unmade}]
         /\ item'[i].st = st /\ item'[i].kind = item[i].kind
         /\ \A k \in Item : k # i => item'[k] = item[k]
<1>1. item \in [Item -> ItemRow \cup {Unmade}]
  BY DEF BatchInv, BatchTypeOK
<1>2. item[i] \in ItemRow
  BY <1>1 DEF Unmade
<1>3. [item[i] EXCEPT !.st = st] \in ItemRow
  BY <1>2 DEF ItemRow
<1>4. item' = [item EXCEPT ![i] = [item[i] EXCEPT !.st = st]]
  BY DEF Put
<1>5. item'[i] = [item[i] EXCEPT !.st = st]
  BY <1>1, <1>4
<1>6. item'[i].st = st /\ item'[i].kind = item[i].kind
  BY <1>2, <1>5 DEF ItemRow
<1> QED BY <1>1, <1>3, <1>4, <1>6


LEMMA SweepMade ==
  ASSUME BatchInv, CreateSweep
  PROVE  BatchInv'
<1>r. \A k \in Item :
        /\ item[k].st \in {"absent", "queued", "running", "completed", "failed"}
        /\ item[k].kind \in ItemKind
        /\ itemJob[k].st \in {"missing", "pending", "running", "succeeded", "failed"}
        /\ itemJob[k].tries \in 0..2 /\ hits[k] \in 0..2
        /\ itemJob[k].tries <= Attempts(item[k].kind)
        /\ item[k].st = "absent" <=> itemJob[k].st = "missing"
        /\ k \in MadeItems <=> item[k].st # "absent"
        /\ itemJob[k].st = "missing" => itemJob[k].tries = 0
  BY RowsOf DEF BatchInv
<1>m. PICK m \in Item :
        /\ item[m].st = "absent" /\ \A k \in Item : k < m => item[k].st # "absent"
        /\ item' \in [Item -> ItemRow \cup {Unmade}] /\ itemJob' \in [Item -> ItemJob \cup {NoJob}]
        /\ item'[m].st = "queued" /\ item'[m].kind = "sweep"
        /\ itemJob'[m].st = "pending" /\ itemJob'[m].tries = 0
        /\ \A i \in Item : i # m => item'[i] = item[i] /\ itemJob'[i] = itemJob[i]
  BY Minted DEF CreateSweep, BatchInv, BatchTypeOK, ItemKind
<1>n. \A i \in Item : /\ i \in MadeItems' <=> itemJob'[i] # NoJob
                    /\ itemJob'[i].tries <= Attempts(item'[i].kind)
  BY <1>r, <1>m, RowsTyped DEF Attempts
<1>1. BatchTypeOK'
  <2>1. item' \in [Item -> ItemRow \cup {Unmade}] /\ itemJob' \in [Item -> ItemJob \cup {NoJob}]
    BY <1>m DEF BatchInv, BatchTypeOK, CreateSweep, Unhurt
  <2>2. runner' \in [Runner -> [at : {"idle", "mark", "list", "complete", "ok", "err"}, item : Item]]
    BY BatchAssumption, <1>m DEF BatchInv, BatchTypeOK, Item, CreateSweep, Unhurt
  <2>3. \A v \in Runner : runner'[v].at # "idle" => itemJob'[runner'[v].item].st = "running"
    BY <1>m, <1>r DEF BatchInv, BatchTypeOK, RunnersAgree, CreateSweep, Unhurt
  <2>4. hits' \in [Item -> 0..2]
    BY DEF BatchInv, BatchTypeOK, CreateSweep, Unhurt
  <2>5. deskUp' \in BOOLEAN /\ blunders' \in 0..MaxBlunders /\ left' \subseteq Item
    BY BatchAssumption, <1>m DEF BatchInv, BatchTypeOK, CreateSweep, Unhurt
  <2> QED BY <1>n, <2>1, <2>2, <2>3, <2>4, <2>5 DEF BatchTypeOK
<1>2. RunnersAgree'
  BY BatchAssumption, <1>r, <1>m, <1>n
  DEF BatchInv, CreateSweep, Unhurt, RunnersAgree, ActiveItem, EndedItem, BatchTypeOK,
      Attempts
<1>3. TriesAreCounted'
  BY BatchAssumption, <1>r, <1>m, <1>n
  DEF BatchInv, CreateSweep, Unhurt, TriesAreCounted, Underway, Attempts, ActiveItem,
      BatchTypeOK, RunnersAgree, EndedItem, ItemKind
<1>4. MadeInOrder'
  BY BatchAssumption, <1>r, <1>m, <1>n
  DEF BatchInv, CreateSweep, Unhurt, MadeInOrder, MadeItems, BatchTypeOK
<1>5. ActiveIsBacked'
  BY BatchAssumption, <1>r, <1>m, <1>n
  DEF BatchInv, CreateSweep, Unhurt, ActiveIsBacked, ActiveItem, Backed, BatchTypeOK,
      RunnersAgree, EndedItem
<1>6. OlderIsRetried'
  BY BatchAssumption, <1>r, <1>m, <1>n
  DEF BatchInv, CreateSweep, Unhurt, OlderIsRetried, MadeItems, ActiveItem, Backed,
      BatchTypeOK, RunnersAgree, EndedItem, TriesAreCounted
<1> QED BY <1>1, <1>2, <1>3, <1>4, <1>5, <1>6 DEF BatchInv

LEMMA BatchMade ==
  ASSUME BatchInv, CreateBatch
  PROVE  BatchInv'
<1>r. \A k \in Item :
        /\ item[k].st \in {"absent", "queued", "running", "completed", "failed"}
        /\ item[k].kind \in ItemKind
        /\ itemJob[k].st \in {"missing", "pending", "running", "succeeded", "failed"}
        /\ itemJob[k].tries \in 0..2 /\ hits[k] \in 0..2
        /\ itemJob[k].tries <= Attempts(item[k].kind)
        /\ item[k].st = "absent" <=> itemJob[k].st = "missing"
        /\ k \in MadeItems <=> item[k].st # "absent"
        /\ itemJob[k].st = "missing" => itemJob[k].tries = 0
  BY RowsOf DEF BatchInv
<1> DEFINE base == [i \in Item |-> IF i \in NewestActive THEN [item[i] EXCEPT !.st = "failed"]
                                                         ELSE item[i]]
<1>a. \A i \in NewestActive : i \in Item /\ ActiveItem(i) /\ ~Backed(i)
  BY DEF CreateBatch, NewestActive, MadeItems
<1>b. \A i \in Item : base[i] \in ItemRow \cup {Unmade} /\ base[i].kind = item[i].kind
                    /\ base[i].st = IF i \in NewestActive THEN "failed" ELSE item[i].st
  <2> TAKE i \in Item
  <2>1. item[i] \in ItemRow \cup {Unmade}
    BY DEF BatchInv, BatchTypeOK
  <2>2. i \in NewestActive => item[i] \in ItemRow
    BY <2>1, <1>a DEF Unmade, ActiveItem
  <2> QED BY <2>1, <2>2 DEF ItemRow
<1>c. base \in [Item -> ItemRow \cup {Unmade}] /\ Mint("batch", base)
  BY <1>b DEF CreateBatch
<1> HIDE DEF base
<1>m. PICK m \in Item :
        /\ item[m].st = "absent" /\ \A k \in Item : k < m => item[k].st # "absent"
        /\ item' \in [Item -> ItemRow \cup {Unmade}] /\ itemJob' \in [Item -> ItemJob \cup {NoJob}]
        /\ item'[m].st = "queued" /\ item'[m].kind = "batch"
        /\ itemJob'[m].st = "pending" /\ itemJob'[m].tries = 0
        /\ \A i \in Item : i # m => item'[i] = base[i] /\ itemJob'[i] = itemJob[i]
  BY <1>c, Minted DEF ItemKind
<1>d. \A i \in Item : i # m =>
        /\ item'[i].kind = item[i].kind /\ itemJob'[i] = itemJob[i]
        /\ \/ item'[i].st = item[i].st
           \/ /\ item'[i].st = "failed"
              /\ ActiveItem(i) /\ ~Backed(i) /\ i \in NewestActive
  BY <1>a, <1>b, <1>m
<1>e. m \notin NewestActive
  BY <1>a, <1>m DEF ActiveItem
<1>n. \A i \in Item : /\ i \in MadeItems' <=> itemJob'[i] # NoJob
                    /\ itemJob'[i].tries <= Attempts(item'[i].kind)
  BY <1>r, <1>m, <1>d, RowsTyped DEF Attempts, ActiveItem
<1>1. BatchTypeOK'
  <2>1. item' \in [Item -> ItemRow \cup {Unmade}] /\ itemJob' \in [Item -> ItemJob \cup {NoJob}]
    BY <1>m, <1>d DEF BatchInv, BatchTypeOK, CreateBatch, Unhurt
  <2>2. runner' \in [Runner -> [at : {"idle", "mark", "list", "complete", "ok", "err"}, item : Item]]
    BY BatchAssumption, <1>m, <1>d DEF BatchInv, BatchTypeOK, Item, CreateBatch, Unhurt
  <2>3. \A v \in Runner : runner'[v].at # "idle" => itemJob'[runner'[v].item].st = "running"
    BY <1>m, <1>d, <1>r DEF BatchInv, BatchTypeOK, RunnersAgree, CreateBatch, Unhurt
  <2>4. hits' \in [Item -> 0..2]
    BY DEF BatchInv, BatchTypeOK, CreateBatch, Unhurt
  <2>5. deskUp' \in BOOLEAN /\ blunders' \in 0..MaxBlunders /\ left' \subseteq Item
    BY BatchAssumption, <1>m, <1>d DEF BatchInv, BatchTypeOK, CreateBatch, Unhurt
  <2> QED BY <1>n, <2>1, <2>2, <2>3, <2>4, <2>5 DEF BatchTypeOK
<1>2. RunnersAgree'
  BY SMTT(30), BatchAssumption, <1>r, <1>m, <1>d, <1>e, <1>n, NewestIsThere
  DEF BatchInv, CreateBatch, Unhurt, RunnersAgree, ActiveItem, EndedItem, BatchTypeOK,
      Attempts, Backed
<1>3. TriesAreCounted'
  BY BatchAssumption, <1>r, <1>m, <1>d, <1>e, <1>n, NewestIsThere
  DEF BatchInv, CreateBatch, Unhurt, TriesAreCounted, Underway, Attempts, ActiveItem,
      BatchTypeOK, RunnersAgree, EndedItem, ItemKind, Backed
<1>4. MadeInOrder'
  BY BatchAssumption, <1>r, <1>m, <1>d, <1>e, <1>n, NewestIsThere
  DEF BatchInv, CreateBatch, Unhurt, MadeInOrder, MadeItems, BatchTypeOK
<1>5. ActiveIsBacked'
  BY BatchAssumption, <1>r, <1>m, <1>d, <1>e, <1>n, NewestIsThere
  DEF BatchInv, CreateBatch, Unhurt, ActiveIsBacked, ActiveItem, Backed, BatchTypeOK,
      RunnersAgree, EndedItem
<1>6. OlderIsRetried'
  <2> SUFFICES ASSUME NEW i \in MadeItems', NEW j \in MadeItems', i < j, item'[i].kind = "batch",
                      item'[j].kind = "batch", ActiveItem(i)', Backed(i)'
               PROVE  hits'[i] > 0
    BY DEF OlderIsRetried
  <2>0. i \in Item /\ j \in Item /\ hits' = hits
    BY DEF MadeItems, CreateBatch, Unhurt
  <2>1. i # m
    <3> SUFFICES ASSUME i = m PROVE FALSE
      OBVIOUS
    <3>1. j # m /\ j \in MadeItems
      BY <1>m, <1>d, <1>r, <2>0, BatchAssumption DEF MadeItems, ActiveItem, Item
    <3> QED BY <1>m, <1>r, <2>0, <3>1 DEF BatchInv, MadeInOrder
  <2>2. i \in MadeItems /\ item[i].kind = "batch" /\ ActiveItem(i) /\ Backed(i)
    BY <1>d, <1>r, <2>0, <2>1 DEF ActiveItem, Backed
  <2>3. PICK n \in NewestActive : i <= n
    BY <2>2, NewestIsThere
  <2>4. n \in MadeItems /\ item[n].kind = "batch" /\ ~Backed(n)
    BY <1>a DEF NewestActive
  <2>5. i < n
    BY <2>0, <2>2, <2>3, <2>4, BatchAssumption DEF MadeItems, Item
  <2> QED BY <2>0, <2>2, <2>4, <2>5 DEF BatchInv, OlderIsRetried
<1> QED BY <1>1, <1>2, <1>3, <1>4, <1>5, <1>6 DEF BatchInv

LEMMA ItemClaimed ==
  ASSUME BatchInv, NEW w \in Runner, NEW i \in Item, ClaimItem(w, i)
  PROVE  BatchInv'
<1>r. \A k \in Item :
        /\ item[k].st \in {"absent", "queued", "running", "completed", "failed"}
        /\ item[k].kind \in ItemKind
        /\ itemJob[k].st \in {"missing", "pending", "running", "succeeded", "failed"}
        /\ itemJob[k].tries \in 0..2 /\ hits[k] \in 0..2
        /\ itemJob[k].tries <= Attempts(item[k].kind)
        /\ item[k].st = "absent" <=> itemJob[k].st = "missing"
        /\ k \in MadeItems <=> item[k].st # "absent"
        /\ itemJob[k].st = "missing" => itemJob[k].tries = 0
  BY RowsOf DEF BatchInv
<1>j. [st |-> "running", tries |-> itemJob[i].tries + 1] \in ItemJob
  BY BatchAssumption, <1>r DEF BatchInv, BatchTypeOK, ClaimItem, TriesAreCounted, Attempts, ItemJob
<1>k. /\ itemJob' \in [Item -> ItemJob \cup {NoJob}]
      /\ itemJob'[i].st = "running" /\ itemJob'[i].tries = itemJob[i].tries + 1
      /\ \A k \in Item : k # i => itemJob'[k] = itemJob[k]
  BY <1>j DEF BatchInv, BatchTypeOK, ClaimItem
<1>n. \A k \in Item : /\ k \in MadeItems' <=> itemJob'[k] # NoJob
                    /\ itemJob'[k].tries <= Attempts(item'[k].kind)
  BY BatchAssumption, <1>r, <1>k, RowsTyped
  DEF BatchInv, BatchTypeOK, TriesAreCounted, ClaimItem, Attempts
<1>1. BatchTypeOK'
  <2>1. item' \in [Item -> ItemRow \cup {Unmade}] /\ itemJob' \in [Item -> ItemJob \cup {NoJob}]
    BY <1>k DEF BatchInv, BatchTypeOK, ClaimItem, RunnerAt, Unhurt
  <2>2. runner' \in [Runner -> [at : {"idle", "mark", "list", "complete", "ok", "err"}, item : Item]]
    BY BatchAssumption, <1>k DEF BatchInv, BatchTypeOK, Item, ClaimItem, RunnerAt, Unhurt
  <2>3. \A v \in Runner : runner'[v].at # "idle" => itemJob'[runner'[v].item].st = "running"
    BY <1>k, <1>r DEF BatchInv, BatchTypeOK, RunnersAgree, ClaimItem, RunnerAt, Unhurt
  <2>4. hits' \in [Item -> 0..2]
    BY DEF BatchInv, BatchTypeOK, ClaimItem, RunnerAt, Unhurt
  <2>5. deskUp' \in BOOLEAN /\ blunders' \in 0..MaxBlunders /\ left' \subseteq Item
    BY BatchAssumption, <1>k DEF BatchInv, BatchTypeOK, ClaimItem, RunnerAt, Unhurt
  <2> QED BY <1>n, <2>1, <2>2, <2>3, <2>4, <2>5 DEF BatchTypeOK
<1>2. RunnersAgree'
  BY BatchAssumption, <1>r, <1>k, <1>n
  DEF BatchInv, ClaimItem, RunnerAt, Unhurt, RunnersAgree, ActiveItem, EndedItem,
      BatchTypeOK, Attempts, TriesAreCounted
<1>3. TriesAreCounted'
  BY BatchAssumption, <1>r, <1>k, <1>n
  DEF BatchInv, ClaimItem, RunnerAt, Unhurt, TriesAreCounted, Underway, Attempts,
      ActiveItem, BatchTypeOK, RunnersAgree, EndedItem, ItemKind
<1>4. MadeInOrder'
  BY BatchAssumption, <1>r, <1>k, <1>n
  DEF BatchInv, ClaimItem, RunnerAt, Unhurt, MadeInOrder, MadeItems, BatchTypeOK
<1>5. ActiveIsBacked'
  BY BatchAssumption, <1>r, <1>k, <1>n
  DEF BatchInv, ClaimItem, RunnerAt, Unhurt, ActiveIsBacked, ActiveItem, Backed,
      BatchTypeOK, RunnersAgree, EndedItem
<1>6. OlderIsRetried'
  BY BatchAssumption, <1>r, <1>k, <1>n
  DEF BatchInv, ClaimItem, RunnerAt, Unhurt, OlderIsRetried, MadeItems, ActiveItem,
      Backed, BatchTypeOK, RunnersAgree, EndedItem, TriesAreCounted
<1> QED BY <1>1, <1>2, <1>3, <1>4, <1>5, <1>6 DEF BatchInv

LEMMA RunningMarked ==
  ASSUME BatchInv, NEW w \in Runner, MarkRunning(w)
  PROVE  BatchInv'
<1>r. \A k \in Item :
        /\ item[k].st \in {"absent", "queued", "running", "completed", "failed"}
        /\ item[k].kind \in ItemKind
        /\ itemJob[k].st \in {"missing", "pending", "running", "succeeded", "failed"}
        /\ itemJob[k].tries \in 0..2 /\ hits[k] \in 0..2
        /\ itemJob[k].tries <= Attempts(item[k].kind)
        /\ item[k].st = "absent" <=> itemJob[k].st = "missing"
        /\ k \in MadeItems <=> item[k].st # "absent"
        /\ itemJob[k].st = "missing" => itemJob[k].tries = 0
  BY RowsOf DEF BatchInv
<1>t. runner[w].item \in Item /\ itemJob[runner[w].item].st = "running"
  BY BatchAssumption DEF BatchInv, BatchTypeOK, MarkRunning, RunnerAt
<1>u. item[runner[w].item].st # "absent"
  BY <1>r, <1>t
<1>p. /\ item' \in [Item -> ItemRow \cup {Unmade}]
      /\ item'[runner[w].item].st = "running" /\ item'[runner[w].item].kind = item[runner[w].item].kind
      /\ \A k \in Item : k # runner[w].item => item'[k] = item[k]
  BY <1>t, <1>u, Written DEF MarkRunning
<1>n. \A i \in Item : /\ i \in MadeItems' <=> itemJob'[i] # NoJob
                    /\ itemJob'[i].tries <= Attempts(item'[i].kind)
  BY <1>r, <1>t, <1>p, RowsTyped DEF BatchInv, BatchTypeOK, MarkRunning, Unhurt
<1>1. BatchTypeOK'
  BY BatchAssumption, <1>r, <1>t, <1>u, <1>p, <1>n
  DEF BatchInv, MarkRunning, RunnerAt, RunnerGoes, Unhurt, BatchTypeOK, Attempts, ItemKind
<1>2. RunnersAgree'
  BY BatchAssumption, <1>r, <1>t, <1>u, <1>p, <1>n
  DEF BatchInv, MarkRunning, RunnerAt, RunnerGoes, Unhurt, RunnersAgree, ActiveItem,
      EndedItem, BatchTypeOK, Attempts
<1>3. TriesAreCounted'
  BY BatchAssumption, <1>r, <1>t, <1>u, <1>p, <1>n
  DEF BatchInv, MarkRunning, RunnerAt, RunnerGoes, Unhurt, TriesAreCounted, Underway,
      Attempts, ActiveItem, BatchTypeOK, RunnersAgree, EndedItem, ItemKind
<1>4. MadeInOrder'
  BY BatchAssumption, <1>r, <1>t, <1>u, <1>p, <1>n
  DEF BatchInv, MarkRunning, RunnerAt, RunnerGoes, Unhurt, MadeInOrder, MadeItems,
      BatchTypeOK
<1>5. ActiveIsBacked'
  BY BatchAssumption, <1>r, <1>t, <1>u, <1>p, <1>n
  DEF BatchInv, MarkRunning, RunnerAt, RunnerGoes, Unhurt, ActiveIsBacked, ActiveItem,
      Backed, BatchTypeOK, RunnersAgree, EndedItem
<1>6. OlderIsRetried'
  BY BatchAssumption, <1>r, <1>t, <1>u, <1>p, <1>n
  DEF BatchInv, MarkRunning, RunnerAt, RunnerGoes, Unhurt, OlderIsRetried, MadeItems,
      ActiveItem, Backed, BatchTypeOK, RunnersAgree, EndedItem, TriesAreCounted
<1> QED BY <1>1, <1>2, <1>3, <1>4, <1>5, <1>6 DEF BatchInv

LEMMA CandidatesListed ==
  ASSUME BatchInv, NEW w \in Runner, ListCandidates(w)
  PROVE  BatchInv'
<1>r. \A k \in Item :
        /\ item[k].st \in {"absent", "queued", "running", "completed", "failed"}
        /\ item[k].kind \in ItemKind
        /\ itemJob[k].st \in {"missing", "pending", "running", "succeeded", "failed"}
        /\ itemJob[k].tries \in 0..2 /\ hits[k] \in 0..2
        /\ itemJob[k].tries <= Attempts(item[k].kind)
        /\ item[k].st = "absent" <=> itemJob[k].st = "missing"
        /\ k \in MadeItems <=> item[k].st # "absent"
        /\ itemJob[k].st = "missing" => itemJob[k].tries = 0
  BY RowsOf DEF BatchInv
<1>t. runner[w].item \in Item /\ itemJob[runner[w].item].st = "running"
  BY BatchAssumption DEF BatchInv, BatchTypeOK, ListCandidates, RunnerAt
<1>u. item[runner[w].item].st # "absent"
  BY <1>r, <1>t
<1>v. /\ runner' \in [Runner -> [at : {"idle", "mark", "list", "complete", "ok", "err"}, item : Item]]
      /\ \A v \in Runner : /\ runner'[v].item = runner[v].item
                          /\ runner'[v].at = IF v = w THEN "complete" ELSE runner[v].at
  BY DEF BatchInv, BatchTypeOK, ListCandidates, RunnerGoes
<1>1. BatchTypeOK'
  BY BatchAssumption, <1>r, <1>t, <1>v
  DEF BatchInv, ListCandidates, RunnerAt, RunnerGoes, Unhurt, BatchTypeOK, Attempts,
      ItemKind, MadeItems
<1>2. RunnersAgree'
  BY BatchAssumption, <1>r, <1>t, <1>v
  DEF BatchInv, ListCandidates, RunnerAt, RunnerGoes, Unhurt, RunnersAgree, ActiveItem,
      EndedItem, BatchTypeOK, Attempts
<1>3. TriesAreCounted'
  BY BatchAssumption, <1>r, <1>t, <1>v
  DEF BatchInv, ListCandidates, RunnerAt, RunnerGoes, Unhurt, TriesAreCounted, Underway,
      Attempts, ActiveItem, BatchTypeOK, RunnersAgree, EndedItem, ItemKind
<1>4. MadeInOrder'
  BY BatchAssumption, <1>r, <1>t, <1>v
  DEF BatchInv, ListCandidates, RunnerAt, RunnerGoes, Unhurt, MadeInOrder, MadeItems,
      BatchTypeOK
<1>5. ActiveIsBacked'
  BY BatchAssumption, <1>r, <1>t, <1>v
  DEF BatchInv, ListCandidates, RunnerAt, RunnerGoes, Unhurt, ActiveIsBacked, ActiveItem,
      Backed, BatchTypeOK, RunnersAgree, EndedItem
<1>6. OlderIsRetried'
  BY BatchAssumption, <1>r, <1>t, <1>v
  DEF BatchInv, ListCandidates, RunnerAt, RunnerGoes, Unhurt, OlderIsRetried, MadeItems,
      ActiveItem, Backed, BatchTypeOK, RunnersAgree, EndedItem, TriesAreCounted
<1> QED BY <1>1, <1>2, <1>3, <1>4, <1>5, <1>6 DEF BatchInv

LEMMA ListingFailed ==
  ASSUME BatchInv, NEW w \in Runner, ListingFails(w)
  PROVE  BatchInv'
<1>r. \A k \in Item :
        /\ item[k].st \in {"absent", "queued", "running", "completed", "failed"}
        /\ item[k].kind \in ItemKind
        /\ itemJob[k].st \in {"missing", "pending", "running", "succeeded", "failed"}
        /\ itemJob[k].tries \in 0..2 /\ hits[k] \in 0..2
        /\ itemJob[k].tries <= Attempts(item[k].kind)
        /\ item[k].st = "absent" <=> itemJob[k].st = "missing"
        /\ k \in MadeItems <=> item[k].st # "absent"
        /\ itemJob[k].st = "missing" => itemJob[k].tries = 0
  BY RowsOf DEF BatchInv
<1>t. runner[w].item \in Item /\ itemJob[runner[w].item].st = "running"
  BY BatchAssumption DEF BatchInv, BatchTypeOK, ListingFails, RunnerAt
<1>u. item[runner[w].item].st # "absent"
  BY <1>r, <1>t
<1>p. /\ item' \in [Item -> ItemRow \cup {Unmade}]
      /\ item'[runner[w].item].st = "failed" /\ item'[runner[w].item].kind = item[runner[w].item].kind
      /\ \A k \in Item : k # runner[w].item => item'[k] = item[k]
  BY <1>t, <1>u, Written DEF ListingFails
<1>n. \A i \in Item : /\ i \in MadeItems' <=> itemJob'[i] # NoJob
                    /\ itemJob'[i].tries <= Attempts(item'[i].kind)
  BY <1>r, <1>t, <1>p, RowsTyped DEF BatchInv, BatchTypeOK, ListingFails, Unhurt
<1>1. BatchTypeOK'
  BY BatchAssumption, <1>r, <1>t, <1>u, <1>p, <1>n
  DEF BatchInv, ListingFails, RunnerAt, RunnerGoes, Blunder, BatchTypeOK, Attempts,
      ItemKind
<1>2. RunnersAgree'
  BY BatchAssumption, <1>r, <1>t, <1>u, <1>p, <1>n
  DEF BatchInv, ListingFails, RunnerAt, RunnerGoes, Blunder, RunnersAgree, ActiveItem,
      EndedItem, BatchTypeOK, Attempts
<1>3. TriesAreCounted'
  BY BatchAssumption, <1>r, <1>t, <1>u, <1>p, <1>n
  DEF BatchInv, ListingFails, RunnerAt, RunnerGoes, Blunder, TriesAreCounted, Underway,
      Attempts, ActiveItem, BatchTypeOK, RunnersAgree, EndedItem, ItemKind
<1>4. MadeInOrder'
  BY BatchAssumption, <1>r, <1>t, <1>u, <1>p, <1>n
  DEF BatchInv, ListingFails, RunnerAt, RunnerGoes, Blunder, MadeInOrder, MadeItems,
      BatchTypeOK
<1>5. ActiveIsBacked'
  BY BatchAssumption, <1>r, <1>t, <1>u, <1>p, <1>n
  DEF BatchInv, ListingFails, RunnerAt, RunnerGoes, Blunder, ActiveIsBacked, ActiveItem,
      Backed, BatchTypeOK, RunnersAgree, EndedItem
<1>6. OlderIsRetried'
  BY BatchAssumption, <1>r, <1>t, <1>u, <1>p, <1>n
  DEF BatchInv, ListingFails, RunnerAt, RunnerGoes, Blunder, OlderIsRetried, MadeItems,
      ActiveItem, Backed, BatchTypeOK, RunnersAgree, EndedItem, TriesAreCounted
<1> QED BY <1>1, <1>2, <1>3, <1>4, <1>5, <1>6 DEF BatchInv

LEMMA Completed ==
  ASSUME BatchInv, NEW w \in Runner, Complete(w)
  PROVE  BatchInv'
<1>r. \A k \in Item :
        /\ item[k].st \in {"absent", "queued", "running", "completed", "failed"}
        /\ item[k].kind \in ItemKind
        /\ itemJob[k].st \in {"missing", "pending", "running", "succeeded", "failed"}
        /\ itemJob[k].tries \in 0..2 /\ hits[k] \in 0..2
        /\ itemJob[k].tries <= Attempts(item[k].kind)
        /\ item[k].st = "absent" <=> itemJob[k].st = "missing"
        /\ k \in MadeItems <=> item[k].st # "absent"
        /\ itemJob[k].st = "missing" => itemJob[k].tries = 0
  BY RowsOf DEF BatchInv
<1>t. runner[w].item \in Item /\ itemJob[runner[w].item].st = "running"
  BY BatchAssumption DEF BatchInv, BatchTypeOK, Complete, RunnerAt
<1>u. item[runner[w].item].st # "absent"
  BY <1>r, <1>t
<1>p. /\ item' \in [Item -> ItemRow \cup {Unmade}]
      /\ item'[runner[w].item].st = "completed" /\ item'[runner[w].item].kind = item[runner[w].item].kind
      /\ \A k \in Item : k # runner[w].item => item'[k] = item[k]
  BY <1>t, <1>u, Written DEF Complete
<1>n. \A i \in Item : /\ i \in MadeItems' <=> itemJob'[i] # NoJob
                    /\ itemJob'[i].tries <= Attempts(item'[i].kind)
  BY <1>r, <1>t, <1>p, RowsTyped DEF BatchInv, BatchTypeOK, Complete, Unhurt
<1>1. BatchTypeOK'
  BY BatchAssumption, <1>r, <1>t, <1>u, <1>p, <1>n
  DEF BatchInv, Complete, RunnerAt, RunnerGoes, Unhurt, BatchTypeOK, Attempts, ItemKind
<1>2. RunnersAgree'
  BY BatchAssumption, <1>r, <1>t, <1>u, <1>p, <1>n
  DEF BatchInv, Complete, RunnerAt, RunnerGoes, Unhurt, RunnersAgree, ActiveItem,
      EndedItem, BatchTypeOK, Attempts
<1>3. TriesAreCounted'
  BY BatchAssumption, <1>r, <1>t, <1>u, <1>p, <1>n
  DEF BatchInv, Complete, RunnerAt, RunnerGoes, Unhurt, TriesAreCounted, Underway,
      Attempts, ActiveItem, BatchTypeOK, RunnersAgree, EndedItem, ItemKind
<1>4. MadeInOrder'
  BY BatchAssumption, <1>r, <1>t, <1>u, <1>p, <1>n
  DEF BatchInv, Complete, RunnerAt, RunnerGoes, Unhurt, MadeInOrder, MadeItems,
      BatchTypeOK
<1>5. ActiveIsBacked'
  BY BatchAssumption, <1>r, <1>t, <1>u, <1>p, <1>n
  DEF BatchInv, Complete, RunnerAt, RunnerGoes, Unhurt, ActiveIsBacked, ActiveItem,
      Backed, BatchTypeOK, RunnersAgree, EndedItem
<1>6. OlderIsRetried'
  BY BatchAssumption, <1>r, <1>t, <1>u, <1>p, <1>n
  DEF BatchInv, Complete, RunnerAt, RunnerGoes, Unhurt, OlderIsRetried, MadeItems,
      ActiveItem, Backed, BatchTypeOK, RunnersAgree, EndedItem, TriesAreCounted
<1> QED BY <1>1, <1>2, <1>3, <1>4, <1>5, <1>6 DEF BatchInv

LEMMA CallFailed ==
  ASSUME BatchInv, NEW w \in Runner, CallFails(w)
  PROVE  BatchInv'
<1>r. \A k \in Item :
        /\ item[k].st \in {"absent", "queued", "running", "completed", "failed"}
        /\ item[k].kind \in ItemKind
        /\ itemJob[k].st \in {"missing", "pending", "running", "succeeded", "failed"}
        /\ itemJob[k].tries \in 0..2 /\ hits[k] \in 0..2
        /\ itemJob[k].tries <= Attempts(item[k].kind)
        /\ item[k].st = "absent" <=> itemJob[k].st = "missing"
        /\ k \in MadeItems <=> item[k].st # "absent"
        /\ itemJob[k].st = "missing" => itemJob[k].tries = 0
  BY RowsOf DEF BatchInv
<1>t. runner[w].item \in Item /\ itemJob[runner[w].item].st = "running"
  BY BatchAssumption DEF BatchInv, BatchTypeOK, CallFails, RunnerAt
<1>u. item[runner[w].item].st # "absent"
  BY <1>r, <1>t
<1>p. /\ item' \in [Item -> ItemRow \cup {Unmade}]
      /\ item'[runner[w].item].kind = item[runner[w].item].kind
      /\ item'[runner[w].item].st \in {item[runner[w].item].st, "running", "completed"}
      /\ \A k \in Item : k # runner[w].item => item'[k] = item[k]
  <2>1. CASE UNCHANGED item
    BY <2>1 DEF BatchInv, BatchTypeOK
  <2>2. CASE Put(runner[w].item, "running")
    BY <1>t, <1>u, <2>2, Written
  <2>3. CASE Put(runner[w].item, "completed")
    BY <1>t, <1>u, <2>3, Written
  <2> QED BY <2>1, <2>2, <2>3 DEF CallFails
<1>n. \A i \in Item : /\ i \in MadeItems' <=> itemJob'[i] # NoJob
                    /\ itemJob'[i].tries <= Attempts(item'[i].kind)
  BY <1>r, <1>t, <1>p, RowsTyped DEF BatchInv, BatchTypeOK, CallFails
<1>1. BatchTypeOK'
  BY BatchAssumption, <1>r, <1>t, <1>u, <1>p, <1>n
  DEF BatchInv, CallFails, RunnerAt, RunnerGoes, Blunder, BatchTypeOK, Attempts, ItemKind
<1>2. RunnersAgree'
  BY BatchAssumption, <1>r, <1>t, <1>u, <1>p, <1>n
  DEF BatchInv, CallFails, RunnerAt, RunnerGoes, Blunder, RunnersAgree, ActiveItem,
      EndedItem, BatchTypeOK, Attempts
<1>3. TriesAreCounted'
  BY BatchAssumption, <1>r, <1>t, <1>u, <1>p, <1>n
  DEF BatchInv, CallFails, RunnerAt, RunnerGoes, Blunder, TriesAreCounted, Underway,
      Attempts, ActiveItem, BatchTypeOK, RunnersAgree, EndedItem, ItemKind
<1>4. MadeInOrder'
  BY BatchAssumption, <1>r, <1>t, <1>u, <1>p, <1>n
  DEF BatchInv, CallFails, RunnerAt, RunnerGoes, Blunder, MadeInOrder, MadeItems,
      BatchTypeOK
<1>5. ActiveIsBacked'
  BY BatchAssumption, <1>r, <1>t, <1>u, <1>p, <1>n
  DEF BatchInv, CallFails, RunnerAt, RunnerGoes, Blunder, ActiveIsBacked, ActiveItem,
      Backed, BatchTypeOK, RunnersAgree, EndedItem
<1>6. OlderIsRetried'
  BY BatchAssumption, <1>r, <1>t, <1>u, <1>p, <1>n
  DEF BatchInv, CallFails, RunnerAt, RunnerGoes, Blunder, OlderIsRetried, MadeItems,
      ActiveItem, Backed, BatchTypeOK, RunnersAgree, EndedItem, TriesAreCounted
<1> QED BY <1>1, <1>2, <1>3, <1>4, <1>5, <1>6 DEF BatchInv

LEMMA ItemSettled ==
  ASSUME BatchInv, NEW w \in Runner, SettleItem(w)
  PROVE  BatchInv'
<1>r. \A k \in Item :
        /\ item[k].st \in {"absent", "queued", "running", "completed", "failed"}
        /\ item[k].kind \in ItemKind
        /\ itemJob[k].st \in {"missing", "pending", "running", "succeeded", "failed"}
        /\ itemJob[k].tries \in 0..2 /\ hits[k] \in 0..2
        /\ itemJob[k].tries <= Attempts(item[k].kind)
        /\ item[k].st = "absent" <=> itemJob[k].st = "missing"
        /\ k \in MadeItems <=> item[k].st # "absent"
        /\ itemJob[k].st = "missing" => itemJob[k].tries = 0
  BY RowsOf DEF BatchInv
<1>t. runner[w].item \in Item /\ itemJob[runner[w].item].st = "running"
  BY BatchAssumption DEF BatchInv, BatchTypeOK, SettleItem
<1>u. item[runner[w].item].st # "absent"
  BY <1>r, <1>t
<1>j. itemJob[runner[w].item] \in ItemJob
  BY <1>t DEF BatchInv, BatchTypeOK, NoJob
<1>o. PICK st \in {"pending", "succeeded", "failed"} :
        /\ itemJob' = [itemJob EXCEPT ![runner[w].item] = [itemJob[runner[w].item] EXCEPT !.st = st]]
        /\ runner[w].at = "ok" <=> st = "succeeded"
        /\ st # "succeeded" =>
             (st = "failed" <=> itemJob[runner[w].item].tries >= Attempts(item[runner[w].item].kind))
  BY DEF SettleItem
<1>k. /\ itemJob' \in [Item -> ItemJob \cup {NoJob}]
      /\ itemJob'[runner[w].item].st = st
      /\ itemJob'[runner[w].item].tries = itemJob[runner[w].item].tries
      /\ \A k \in Item : k # runner[w].item => itemJob'[k] = itemJob[k]
  <2>1. [itemJob[runner[w].item] EXCEPT !.st = st] \in ItemJob
    BY <1>j DEF ItemJob
  <2> QED BY <1>j, <1>o, <1>t, <2>1 DEF BatchInv, BatchTypeOK, ItemJob
<1>h. /\ hits' \in [Item -> 0..2]
      /\ \A k \in Item : k # runner[w].item => hits'[k] = hits[k]
      /\ hits'[runner[w].item] = hits[runner[w].item] + (IF st = "succeeded" THEN 0 ELSE 1)
  BY <1>r, <1>t, <1>o DEF SettleItem, BatchInv, BatchTypeOK, TriesAreCounted, Underway, RunnersAgree
<1>n. \A i \in Item : /\ i \in MadeItems' <=> itemJob'[i] # NoJob
                    /\ itemJob'[i].tries <= Attempts(item'[i].kind)
  BY SMTT(30), <1>r, <1>t, <1>u, <1>k, RowsTyped DEF BatchInv, BatchTypeOK, SettleItem
<1>1. BatchTypeOK'
  <2>1. item' \in [Item -> ItemRow \cup {Unmade}] /\ itemJob' \in [Item -> ItemJob \cup {NoJob}]
    BY <1>t, <1>k, <1>h DEF BatchInv, BatchTypeOK, SettleItem, Off
  <2>2. runner' \in [Runner -> [at : {"idle", "mark", "list", "complete", "ok", "err"}, item : Item]]
    BY BatchAssumption, <1>t, <1>k, <1>h DEF BatchInv, BatchTypeOK, Item, SettleItem, Off
  <2>3. \A v \in Runner : runner'[v].at # "idle" => itemJob'[runner'[v].item].st = "running"
    BY <1>t, <1>k, <1>h, <1>r DEF BatchInv, BatchTypeOK, RunnersAgree, SettleItem, Off
  <2>4. hits' \in [Item -> 0..2]
    BY <1>h
  <2>5. deskUp' \in BOOLEAN /\ blunders' \in 0..MaxBlunders /\ left' \subseteq Item
    BY BatchAssumption, <1>t, <1>k, <1>h DEF BatchInv, BatchTypeOK, SettleItem, Off
  <2> QED BY <1>n, <2>1, <2>2, <2>3, <2>4, <2>5 DEF BatchTypeOK
<1>2. RunnersAgree'
  BY SMTT(30), BatchAssumption, <1>r, <1>t, <1>u, <1>o, <1>k, <1>h, <1>n
  DEF BatchInv, SettleItem, Off, RunnersAgree, ActiveItem, EndedItem, BatchTypeOK,
      Attempts
<1>3. TriesAreCounted'
  BY SMTT(30), BatchAssumption, <1>r, <1>t, <1>u, <1>o, <1>k, <1>h, <1>n
  DEF BatchInv, SettleItem, Off, TriesAreCounted, Underway, Attempts, ActiveItem,
      BatchTypeOK, RunnersAgree, EndedItem, ItemKind
<1>4. MadeInOrder'
  BY BatchAssumption, <1>r, <1>t, <1>u, <1>o, <1>k, <1>h, <1>n
  DEF BatchInv, SettleItem, Off, MadeInOrder, MadeItems, BatchTypeOK
<1>5. ActiveIsBacked'
  BY BatchAssumption, <1>r, <1>t, <1>u, <1>o, <1>k, <1>h, <1>n
  DEF BatchInv, SettleItem, Off, ActiveIsBacked, ActiveItem, Backed, BatchTypeOK,
      RunnersAgree, EndedItem
<1>6. OlderIsRetried'
  BY SMTT(30), BatchAssumption, <1>r, <1>t, <1>u, <1>o, <1>k, <1>h, <1>n
  DEF BatchInv, SettleItem, Off, OlderIsRetried, MadeItems, ActiveItem, Backed,
      BatchTypeOK, RunnersAgree, EndedItem, TriesAreCounted
<1> QED BY <1>1, <1>2, <1>3, <1>4, <1>5, <1>6 DEF BatchInv

LEMMA WentDown ==
  ASSUME BatchInv, GoesDown
  PROVE  BatchInv'
<1>r. \A k \in Item :
        /\ item[k].st \in {"absent", "queued", "running", "completed", "failed"}
        /\ item[k].kind \in ItemKind
        /\ itemJob[k].st \in {"missing", "pending", "running", "succeeded", "failed"}
        /\ itemJob[k].tries \in 0..2 /\ hits[k] \in 0..2
        /\ itemJob[k].tries <= Attempts(item[k].kind)
        /\ item[k].st = "absent" <=> itemJob[k].st = "missing"
        /\ k \in MadeItems <=> item[k].st # "absent"
        /\ itemJob[k].st = "missing" => itemJob[k].tries = 0
  BY RowsOf DEF BatchInv
<1>b. /\ blunders' \in 0..MaxBlunders
      /\ deskUp' \in BOOLEAN
      /\ left' \subseteq Item
  <2>1. blunders \in 0..MaxBlunders /\ left \subseteq Item
    BY DEF BatchInv, BatchTypeOK
  <2>2. blunders < MaxBlunders /\ blunders' = blunders + 1 /\ ~deskUp' /\ left' = left
    BY DEF GoesDown, Blunder
  <2>3. blunders' \in 0..MaxBlunders
    BY <2>1, <2>2, BatchAssumption
  <2>4. deskUp' \in BOOLEAN
    BY DEF GoesDown
  <2> QED BY <2>1, <2>2, <2>3, <2>4
<1>h. /\ hits' \in [Item -> 0..2]
      /\ \A k \in Item : hits'[k] = hits[k] + (IF itemJob[k].st = "running" THEN 1 ELSE 0)
  <2>1. ASSUME NEW k \in Item, itemJob[k].st = "running"
        PROVE  hits[k] + 1 \in 0..2
    <3>1. itemJob[k].tries = hits[k] + 1
      BY <2>1 DEF BatchInv, TriesAreCounted, Underway, GoesDown
    <3> QED BY <1>r, <3>1
  <2>2. hits' = [k \in Item |-> IF itemJob[k].st = "running" THEN hits[k] + 1 ELSE hits[k]]
    BY DEF GoesDown
  <2>3. \A k \in Item : hits'[k] \in 0..2
    BY <1>r, <2>1, <2>2
  <2>4. \A k \in Item : hits'[k] = hits[k] + (IF itemJob[k].st = "running" THEN 1 ELSE 0)
    BY <1>r, <2>2
  <2> QED BY <2>2, <2>3, <2>4
<1>n. \A i \in Item : /\ i \in MadeItems' <=> itemJob'[i] # NoJob
                    /\ itemJob'[i].tries <= Attempts(item'[i].kind)
  BY <1>r DEF BatchInv, BatchTypeOK, GoesDown, MadeItems
<1>1. BatchTypeOK'
  <2>1. item' \in [Item -> ItemRow \cup {Unmade}] /\ itemJob' \in [Item -> ItemJob \cup {NoJob}]
    BY <1>h DEF BatchInv, BatchTypeOK, GoesDown, Off
  <2>2. runner' \in [Runner -> [at : {"idle", "mark", "list", "complete", "ok", "err"}, item : Item]]
    BY BatchAssumption, <1>h DEF BatchInv, BatchTypeOK, Item, GoesDown, Off
  <2>3. \A v \in Runner : runner'[v].at # "idle" => itemJob'[runner'[v].item].st = "running"
    BY <1>h, <1>r DEF BatchInv, BatchTypeOK, RunnersAgree, GoesDown, Off
  <2>4. hits' \in [Item -> 0..2]
    BY <1>h
  <2>5. deskUp' \in BOOLEAN /\ blunders' \in 0..MaxBlunders /\ left' \subseteq Item
    BY BatchAssumption, <1>b DEF BatchInv, BatchTypeOK
  <2> QED BY <1>n, <2>1, <2>2, <2>3, <2>4, <2>5 DEF BatchTypeOK
<1>2. RunnersAgree'
  BY BatchAssumption, <1>r, <1>h, <1>n
  DEF BatchInv, GoesDown, Blunder, Off, RunnersAgree, ActiveItem, EndedItem, BatchTypeOK,
      Attempts
<1>3. TriesAreCounted'
  BY BatchAssumption, <1>r, <1>h, <1>n
  DEF BatchInv, GoesDown, Blunder, Off, TriesAreCounted, Underway, Attempts, ActiveItem,
      BatchTypeOK, RunnersAgree, EndedItem, ItemKind
<1>4. MadeInOrder'
  BY BatchAssumption, <1>r, <1>h, <1>n
  DEF BatchInv, GoesDown, Blunder, Off, MadeInOrder, MadeItems, BatchTypeOK
<1>5. ActiveIsBacked'
  BY BatchAssumption, <1>r, <1>h, <1>n
  DEF BatchInv, GoesDown, Blunder, Off, ActiveIsBacked, ActiveItem, Backed, BatchTypeOK,
      RunnersAgree, EndedItem
<1>6. OlderIsRetried'
  BY BatchAssumption, <1>r, <1>h, <1>n
  DEF BatchInv, GoesDown, Blunder, Off, OlderIsRetried, MadeItems, ActiveItem, Backed,
      BatchTypeOK, RunnersAgree, EndedItem, TriesAreCounted
<1> QED BY <1>1, <1>2, <1>3, <1>4, <1>5, <1>6 DEF BatchInv

LEMMA CameUp ==
  ASSUME BatchInv, ComesUp
  PROVE  BatchInv'
<1>r. \A k \in Item :
        /\ item[k].st \in {"absent", "queued", "running", "completed", "failed"}
        /\ item[k].kind \in ItemKind
        /\ itemJob[k].st \in {"missing", "pending", "running", "succeeded", "failed"}
        /\ itemJob[k].tries \in 0..2 /\ hits[k] \in 0..2
        /\ itemJob[k].tries <= Attempts(item[k].kind)
        /\ item[k].st = "absent" <=> itemJob[k].st = "missing"
        /\ k \in MadeItems <=> item[k].st # "absent"
        /\ itemJob[k].st = "missing" => itemJob[k].tries = 0
  BY RowsOf DEF BatchInv
<1>j. /\ itemJob' \in [Item -> ItemJob \cup {NoJob}]
      /\ \A k \in Item :
           /\ itemJob'[k].tries = itemJob[k].tries
           /\ itemJob'[k].st = IF itemJob[k].st # "running" THEN itemJob[k].st
                               ELSE IF itemJob[k].tries >= Attempts(item[k].kind) THEN "failed"
                               ELSE "pending"
  <2>1. \A k \in Item : itemJob[k] \in ItemJob \cup {NoJob}
    BY DEF BatchInv, BatchTypeOK
  <2>2. \A k \in Item : itemJob[k].st = "running" => itemJob[k] \in ItemJob
    BY <2>1 DEF NoJob
  <2>3. \A k \in Item : Reclaimed[k] \in ItemJob \cup {NoJob}
    BY <2>1, <2>2 DEF Reclaimed, ItemJob
  <2> QED BY <2>2, <2>3 DEF ComesUp, Reclaimed, ItemJob
<1>o. \A k \in Orphans : k \in Item /\ ActiveItem(k) /\ itemJob'[k].st \notin {"pending", "running"}
  BY DEF Orphans, ComesUp
<1>q. \A k \in Item : ActiveItem(k) /\ k \notin Orphans => itemJob'[k].st \in {"pending", "running"}
  BY DEF Orphans, ComesUp
<1>d. PICK D \in SUBSET Orphans :
        item' = FailOrphans(D) /\ left' = left \cup (Orphans \ D)
        /\ blunders' \in 0..MaxBlunders
  BY BatchAssumption DEF ComesUp, Blunder, BatchInv, BatchTypeOK
<1>p. /\ item' \in [Item -> ItemRow \cup {Unmade}]
      /\ \A k \in Item : item'[k].kind = item[k].kind
                       /\ item'[k].st = IF k \in D THEN "failed" ELSE item[k].st
  <2>1. \A k \in Item : item[k] \in ItemRow \cup {Unmade}
    BY DEF BatchInv, BatchTypeOK
  <2>2. \A k \in D : item[k] \in ItemRow
    BY <1>o, <2>1 DEF Unmade, ActiveItem
  <2>3. \A k \in Item : FailOrphans(D)[k] \in ItemRow \cup {Unmade}
    BY <2>1, <2>2 DEF FailOrphans, ItemRow
  <2> QED BY <1>d, <2>2, <2>3 DEF FailOrphans, ItemRow
<1>e. \A k \in Item : item'[k].st = "absent" <=> item[k].st = "absent"
  BY <1>o, <1>p DEF ActiveItem
<1>n. \A i \in Item : /\ i \in MadeItems' <=> itemJob'[i] # NoJob
                    /\ itemJob'[i].tries <= Attempts(item'[i].kind)
  BY <1>r, <1>j, <1>e, <1>p, RowsTyped DEF Attempts
<1>1. BatchTypeOK'
  <2>1. item' \in [Item -> ItemRow \cup {Unmade}] /\ itemJob' \in [Item -> ItemJob \cup {NoJob}]
    BY <1>j, <1>d, <1>p, <1>o DEF BatchInv, BatchTypeOK, ComesUp
  <2>2. runner' \in [Runner -> [at : {"idle", "mark", "list", "complete", "ok", "err"}, item : Item]]
    BY BatchAssumption, <1>j, <1>d, <1>p, <1>o DEF BatchInv, BatchTypeOK, Item, ComesUp
  <2>3. \A v \in Runner : runner'[v].at # "idle" => itemJob'[runner'[v].item].st = "running"
    BY <1>j, <1>d, <1>p, <1>o, <1>r DEF BatchInv, BatchTypeOK, RunnersAgree, ComesUp
  <2>4. hits' \in [Item -> 0..2]
    BY DEF BatchInv, BatchTypeOK, ComesUp
  <2>5. deskUp' \in BOOLEAN /\ blunders' \in 0..MaxBlunders /\ left' \subseteq Item
    BY BatchAssumption, <1>j, <1>d, <1>p, <1>o DEF BatchInv, BatchTypeOK, ComesUp
  <2> QED BY <1>n, <2>1, <2>2, <2>3, <2>4, <2>5 DEF BatchTypeOK
<1>2. RunnersAgree'
  BY BatchAssumption, <1>r, <1>j, <1>o, <1>q, <1>d, <1>p, <1>e, <1>n
  DEF BatchInv, ComesUp, RunnersAgree, ActiveItem, EndedItem, BatchTypeOK, Attempts
<1>3. TriesAreCounted'
  BY BatchAssumption, <1>r, <1>j, <1>o, <1>q, <1>d, <1>p, <1>e, <1>n
  DEF BatchInv, ComesUp, TriesAreCounted, Underway, Attempts, ActiveItem, BatchTypeOK,
      RunnersAgree, EndedItem, ItemKind
<1>4. MadeInOrder'
  BY BatchAssumption, <1>r, <1>j, <1>o, <1>q, <1>d, <1>p, <1>e, <1>n
  DEF BatchInv, ComesUp, MadeInOrder, MadeItems, BatchTypeOK
<1>5. ActiveIsBacked'
  BY BatchAssumption, <1>r, <1>j, <1>o, <1>q, <1>d, <1>p, <1>e, <1>n
  DEF BatchInv, ComesUp, ActiveIsBacked, ActiveItem, Backed, BatchTypeOK, RunnersAgree,
      EndedItem
<1>6. OlderIsRetried'
  BY BatchAssumption, <1>r, <1>j, <1>o, <1>q, <1>d, <1>p, <1>e, <1>n
  DEF BatchInv, ComesUp, OlderIsRetried, MadeItems, ActiveItem, Backed, BatchTypeOK,
      RunnersAgree, EndedItem, TriesAreCounted
<1> QED BY <1>1, <1>2, <1>3, <1>4, <1>5, <1>6 DEF BatchInv

LEMMA BatchInitInv == BatchInit => BatchInv
<1> SUFFICES ASSUME BatchInit PROVE BatchInv
  OBVIOUS
<1>1. BatchTypeOK
  BY BatchAssumption DEF BatchInit, BatchTypeOK, Off, Unmade, NoJob, MadeItems, Attempts, Item
<1>2. /\ RunnersAgree /\ TriesAreCounted /\ MadeInOrder /\ ActiveIsBacked /\ OlderIsRetried
  BY DEF BatchInit, Off, Unmade, NoJob, RunnersAgree, TriesAreCounted, MadeInOrder, MadeItems,
         ActiveIsBacked, OlderIsRetried, ActiveItem, Underway, Attempts
<1> QED BY <1>1, <1>2 DEF BatchInv

LEMMA BatchStep == BatchInv /\ [BatchNext]_batchVars => BatchInv'
<1> SUFFICES ASSUME BatchInv, [BatchNext]_batchVars PROVE BatchInv'
  OBVIOUS
<1>1. CASE UNCHANGED batchVars
  BY <1>1 DEF batchVars, BatchInv, BatchTypeOK, RunnersAgree, TriesAreCounted, MadeInOrder,
              MadeItems, ActiveIsBacked, OlderIsRetried, ActiveItem, Underway, Backed, EndedItem
<1> QED BY <1>1, SweepMade, BatchMade, ItemClaimed, RunningMarked, CandidatesListed, ListingFailed,
           Completed, CallFailed, ItemSettled, WentDown, CameUp DEF BatchNext, RunnerStep

\* Items, their jobs and the threads that run them keep their types.
THEOREM BatchTypesHold == BatchSpec => []BatchTypeOK
BY BatchInitInv, BatchStep, PTL DEF BatchSpec, BatchInv

\* A row that says queued or running has a job that will drive it, unless a failed call
\* cut its last run or the start short; and the job of a batch gives up after a second
\* run that was cut short, never after the first (create_history_sweep_with_job,
\* fail_orphaned_domain_rows, PIPELINE_REEXTRACTION_MAX_ATTEMPTS).
THEOREM BatchIsDrivenHolds == BatchSpec => []BatchIsDriven
<1>1. BatchInv => BatchIsDriven
  <2> SUFFICES ASSUME BatchInv, NEW i \in Item, item[i].kind = "batch", itemJob[i].st = "failed"
               PROVE  hits[i] >= 2
    BY DEF BatchInv, BatchIsDriven, OneCrashIsResumed
  <2> QED BY RowsOf DEF BatchInv, TriesAreCounted, Attempts, Underway
<1> QED BY <1>1, BatchInitInv, BatchStep, PTL DEF BatchSpec

\* Two batches of a company work at once only when the older one had failed and is tried
\* again by its own job (create_batch_with_job_if_none_active).
THEOREM OneBatchAtATimeHolds == BatchSpec => []OneBatchAtATime
<1>1. BatchInv => OneBatchAtATime
  BY DEF BatchInv, OneBatchAtATime, OlderIsRetried
<1> QED BY <1>1, BatchInitInv, BatchStep, PTL DEF BatchSpec

\* What is active has its job, and one batch at a time is
\* (create_batch_with_job_if_none_active, fail_orphaned_domain_rows).
THEOREM BatchesAreSoundHolds == BatchSpec => []BatchesAreSound
BY BatchIsDrivenHolds, OneBatchAtATimeHolds, PTL DEF BatchesAreSound

\* A record that has ended does not change again, whichever sweep, batch
\* or start comes after it (mark_running, complete, fail_orphaned_domain_rows).
THEOREM EndedRecordStaysHolds == BatchSpec => EndedRecordStays
<1>1. BatchInv /\ [BatchNext]_batchVars =>
        [\A i \in Item : EndedItem(i) /\ ~Backed(i) => item'[i] = item[i]]_batchVars
  <2> SUFFICES ASSUME BatchInv, BatchNext, NEW i \in Item, EndedItem(i), ~Backed(i)
               PROVE  item'[i] = item[i]
    OBVIOUS
  <2>r. item[i].st # "absent" /\ itemJob[i].st \notin {"pending", "running"}
    BY DEF EndedItem, Backed
  <2>w. \A w \in Runner : runner[w].at # "idle" => runner[w].item # i
    BY <2>r DEF BatchInv, BatchTypeOK
  <2>0. item \in [Item -> ItemRow \cup {Unmade}]
    BY DEF BatchInv, BatchTypeOK
  <2>p. ASSUME NEW k \in Item, NEW st, k # i, Put(k, st)
        PROVE  item'[i] = item[i]
    BY <2>0, <2>p DEF Put
  <2>1. CASE CreateSweep
    <3>1. PICK m \in Item : item[m].st = "absent" /\ \A k \in Item : k # m => item'[k] = item[k]
      BY <2>0, <2>1, Minted DEF CreateSweep, ItemKind
    <3> QED BY <2>r, <3>1
  <2>2. CASE CreateBatch
    <3> DEFINE base == [k \in Item |-> IF k \in NewestActive THEN [item[k] EXCEPT !.st = "failed"]
                                                             ELSE item[k]]
    <3>1. i \notin NewestActive
      BY DEF EndedItem, NewestActive, ActiveItem
    <3>2. base[i] = item[i]
      BY <3>1
    <3>3. NextItem # i
      BY <2>r, <2>2, NextIsFresh DEF CreateBatch, Mint, MadeItems
    <3>4. item' = [base EXCEPT ![NextItem] = [st |-> "queued", kind |-> "batch"]]
      BY <2>2 DEF CreateBatch, Mint
    <3> QED BY <3>2, <3>3, <3>4
  <2>3. CASE \E w \in Runner : MarkRunning(w) \/ Complete(w) \/ ListingFails(w) \/ CallFails(w)
    <3> PICK w \in Runner : MarkRunning(w) \/ Complete(w) \/ ListingFails(w) \/ CallFails(w)
      BY <2>3
    <3>1. runner[w].item \in Item /\ runner[w].item # i
      BY <2>w DEF BatchInv, BatchTypeOK, MarkRunning, Complete, ListingFails, CallFails, RunnerAt
    <3>2. item' = item \/ \E st \in {"running", "completed", "failed"} : Put(runner[w].item, st)
      BY DEF MarkRunning, Complete, ListingFails, CallFails
    <3> QED BY <2>p, <3>1, <3>2
  <2>4. CASE \E w \in Runner : (\E k \in Item : ClaimItem(w, k)) \/ ListCandidates(w) \/ SettleItem(w)
    BY <2>4 DEF ClaimItem, ListCandidates, SettleItem
  <2>5. CASE GoesDown
    BY <2>5 DEF GoesDown
  <2>6. CASE ComesUp
    <3>1. i \notin Orphans
      BY DEF Orphans, EndedItem, ActiveItem
    <3>2. PICK D \in SUBSET Orphans : item' = FailOrphans(D)
      BY <2>6 DEF ComesUp
    <3> QED BY <3>1, <3>2 DEF FailOrphans
  <2> QED BY <2>1, <2>2, <2>3, <2>4, <2>5, <2>6 DEF BatchNext, RunnerStep
<1> QED BY <1>1, BatchInitInv, BatchStep, PTL DEF BatchSpec, EndedRecordStays

-----------------------------------------------------------------------------
(* The report pipeline (AutopilotRun).                                     *)

\* A thread's stage has a running row of its own, which no other thread runs;
\* which stages reach which points of run_stage.
ActorsAgree ==
  /\ ~appUp => \A t \in Actor : actor[t].at = "idle"
  /\ \A t \in Actor : actor[t].at # "idle" => stageRow[actor[t].stage].st = "running"
  /\ \A t, u \in Actor :
       actor[t].at # "idle" /\ actor[u].at # "idle" /\ actor[t].stage = actor[u].stage => t = u
  /\ \A t \in Actor :
       actor[t].at \in {"body", "list", "listing", "note", "hand", "unhanded"} =>
         actor[t].stage # "notify"

\* A stage that waits has an attempt left.
TriesAreLeft == \A s \in Stage : stageRow[s].st = "pending" => stageRow[s].tries < StageTries

\* Who will take an unfinished run further: a waiting stage, a running row that only a
\* start can settle, a thread in the middle of its stage, one whose failed attempt will
\* be repeated, or a trigger about to enqueue.
Working == {"load", "stamp", "body", "list", "listing", "note", "hand", "unhanded", "fatal",
            "finish"}
Carried ==
  \/ \E s \in Stage : stageRow[s].st = "pending"
  \/ \E s \in Stage : stageRow[s].st = "running" /\ \A t \in Actor : actor[t].at # "idle" => actor[t].stage # s
  \/ \E t \in Actor : actor[t].at \in Working
  \/ \E t \in Actor : actor[t].at = "err" /\ TriesAgain(actor[t].stage)
  \/ \E c \in Trigger : trigger[c].at \in {"arm", "unarmed"}
RunIsCarried == appUp /\ Active /\ excuse = "none" => Carried

\* Only a pass of the extraction has produced ids; between the read and the write of
\* the run's list it has all of them.
InPass == {"body", "list", "listing"}
ListsAgree ==
  \A t \in Actor :
    /\ actor[t].at \in {"list", "listing"} => actor[t].stage = "extract"
    /\ produced[t] # {} => actor[t].at \in InPass /\ actor[t].stage = "extract"
    /\ actor[t].at = "listing" => report.listed \subseteq produced[t]

AutoInv == /\ AutoTypeOK /\ ActorsAgree /\ TriesAreLeft /\ RunIsCarried
           /\ ListsAgree /\ FactsAreListed

\* A stage but the last has a next one.
LEMMA NextStageIs ==
  ASSUME NEW s \in Stage, s # "notify"
  PROVE  NextStage(s) \in Stage
<1> DEFINE Later == {n \in Stage : StageRank[n] > StageRank[s]}
           Ranks == {StageRank[n] : n \in Later}
<1>1. \A n \in Stage : StageRank[n] \in Nat
  BY AutoAssumption DEF Stage, StageRank
<1>2. Ranks \in SUBSET Nat
  BY <1>1
<1>3. "notify" \in Later
  <2>1. s \in {"fetch", "extract", "diff", "cross_reference"}
    BY AutoAssumption DEF Stage
  <2>2. StageRank["notify"] = 5 /\ StageRank["fetch"] = 1 /\ StageRank["extract"] = 2
    BY DEF StageRank
  <2>3. StageRank["diff"] = 3 /\ StageRank["cross_reference"] = 4
    BY DEF StageRank
  <2>4. StageRank["notify"] > StageRank[s]
    BY <2>1, <2>2, <2>3
  <2>5. "notify" \in Stage
    BY DEF Stage
  <2> QED BY <2>4, <2>5
<1>4. Ranks # {}
  BY <1>3
<1>5. PICK r \in Ranks : \A q \in Ranks : r <= q
  BY <1>2, <1>4, LeastOf
<1>6. PICK n \in Later : StageRank[n] = r
  BY <1>5
<1>7. \A m \in Stage : StageRank[m] > StageRank[s] => StageRank[m] >= StageRank[n]
  BY <1>1, <1>5, <1>6
<1> HIDE DEF Ranks
<1>8. \E k \in Stage : /\ StageRank[k] > StageRank[s]
                       /\ \A m \in Stage : StageRank[m] > StageRank[s] => StageRank[m] >= StageRank[k]
  BY <1>6, <1>7
<1> QED BY <1>8 DEF NextStage

\* What a thread and a trigger can be at.
ActorPoint == {"idle", "load", "stamp", "body", "list", "listing", "note", "hand", "unhanded",
               "fatal", "finish", "ok", "err"}
TriggerPoint == {"idle", "insert", "insert manual", "look", "rearm", "arm", "unarmed",
                 "revert"}
Arming(c) == trigger[c].at \in {"arm", "unarmed"}

LEMMA AutoTypes ==
  AutoTypeOK <=>
    /\ report \in Report \cup {NoReport} /\ stageRow \in [Stage -> StageJob]
    /\ actor \in [Actor -> [at : ActorPoint, stage : Stage]]
    /\ trigger \in [Trigger -> [at : TriggerPoint, stage : Stage]]
    /\ appUp \in BOOLEAN /\ facts \in SUBSET Fact /\ adrift \in SUBSET Fact
    /\ produced \in [Actor -> SUBSET FactId] /\ undoing \in [Trigger -> SUBSET FactId]
    /\ slips \in 0..MaxSlips /\ excuse \in {"none", "met", "slip"}
BY DEF AutoTypeOK, ActorPoint, TriggerPoint

LEMMA TypesKept ==
  ASSUME report' \in Report \cup {NoReport}, stageRow' \in [Stage -> StageJob],
         actor' \in [Actor -> [at : ActorPoint, stage : Stage]],
         trigger' \in [Trigger -> [at : TriggerPoint, stage : Stage]],
         appUp' \in BOOLEAN, facts' \in SUBSET Fact, adrift' \in SUBSET Fact,
         produced' \in [Actor -> SUBSET FactId], undoing' \in [Trigger -> SUBSET FactId],
         slips' \in 0..MaxSlips, excuse' \in {"none", "met", "slip"}
  PROVE  AutoTypeOK'
BY DEF AutoTypeOK, ActorPoint, TriggerPoint

\* A thread that moves on within its stage.
LEMMA ActorMoved ==
  ASSUME AutoInv, NEW t \in Actor, NEW p \in ActorPoint, ActorGoes(t, p)
  PROVE  /\ actor' \in [Actor -> [at : ActorPoint, stage : Stage]]
         /\ actor'[t].at = p /\ actor'[t].stage = actor[t].stage
         /\ \A u \in Actor : u # t => actor'[u] = actor[u]
<1>1. actor \in [Actor -> [at : ActorPoint, stage : Stage]]
  BY AutoTypes DEF AutoInv
<1>2. actor' = [actor EXCEPT ![t] = [actor[t] EXCEPT !.at = p]]
  BY DEF ActorGoes
<1>3. [actor[t] EXCEPT !.at = p] \in [at : ActorPoint, stage : Stage]
  BY <1>1
<1> QED BY <1>1, <1>2, <1>3

LEMMA MovedAgree ==
  ASSUME AutoInv, NEW t \in Actor, NEW p \in ActorPoint, ActorGoes(t, p),
         appUp, UNCHANGED appUp, actor[t].at # "idle",
         \A s \in Stage : stageRow[s].st = "running" => stageRow'[s].st = "running",
         p \in {"body", "list", "listing", "note", "hand", "unhanded"} => actor[t].stage # "notify"
  PROVE  ActorsAgree'
<1>1. /\ actor'[t].at = p /\ actor'[t].stage = actor[t].stage /\ actor[t].stage \in Stage
      /\ \A u \in Actor : u # t => actor'[u] = actor[u]
      /\ \A u \in Actor : actor[u].stage \in Stage
  BY ActorMoved, AutoTypes DEF AutoInv
<1>2. \A u \in Actor : actor'[u].stage = actor[u].stage /\ (actor'[u].at # "idle" => actor[u].at # "idle")
  BY <1>1
<1> QED BY <1>1, <1>2 DEF AutoInv, ActorsAgree

LEMMA WorkIsCarried ==
  ASSUME NEW t \in Actor, actor'[t].at \in Working
  PROVE  RunIsCarried'
BY DEF RunIsCarried, Carried

\* A trigger that moves on.
LEMMA TriggerMoved ==
  ASSUME AutoInv, NEW c \in Trigger, NEW p \in TriggerPoint,
         TriggerGoes(c, p) \/ (TriggerRests(c) /\ p = "idle")
  PROVE  /\ trigger' \in [Trigger -> [at : TriggerPoint, stage : Stage]]
         /\ trigger'[c].at = p
         /\ \A d \in Trigger : d # c => trigger'[d] = trigger[d]
<1>1. trigger \in [Trigger -> [at : TriggerPoint, stage : Stage]]
  BY AutoTypes DEF AutoInv
<1>2. CASE TriggerGoes(c, p)
  <2>1. trigger' = [trigger EXCEPT ![c] = [trigger[c] EXCEPT !.at = p]]
    BY <1>2 DEF TriggerGoes
  <2>2. [trigger[c] EXCEPT !.at = p] \in [at : TriggerPoint, stage : Stage]
    BY <1>1
  <2> QED BY <1>1, <2>1, <2>2
<1>3. CASE TriggerRests(c) /\ p = "idle"
  BY <1>1, <1>3 DEF TriggerRests, Resting, Stage
<1> QED BY <1>2, <1>3

LEMMA ThreadsUnmoved ==
  ASSUME AutoInv, UNCHANGED <<actor, stageRow, appUp>>
  PROVE  ActorsAgree' /\ TriesAreLeft'
BY DEF AutoInv, ActorsAgree, TriesAreLeft

LEMMA CarriedStays ==
  ASSUME AutoInv, UNCHANGED <<actor, stageRow>>, Active' => Active, appUp' => appUp,
         excuse' \in {excuse, "slip"},
         \A d \in Trigger : Arming(d) => Arming(d)'
  PROVE  RunIsCarried'
BY DEF AutoInv, RunIsCarried, Carried, TriesAgain, Arming

\* A call that fails, or does not.
LEMMA SlipsTyped ==
  ASSUME AutoInv, NoSlip \/ Slip
  PROVE  slips' \in 0..MaxSlips /\ excuse' \in {"none", "met", "slip"}
BY AutoTypes, AutoAssumption DEF AutoInv, NoSlip, Slip

\* An UPDATE of the run.
LEMMA ReportKept ==
  ASSUME AutoInv
  PROVE  /\ Exists => report \in Report
         /\ report.listed \in SUBSET FactId /\ report.stage \in Stage
         /\ ~Exists => report = NoReport /\ report.listed = {} /\ ~Active
<1>1. report \in Report \cup {NoReport}
  BY AutoTypes DEF AutoInv
<1>2. CASE report \in Report
  <2>1. report.st \in {"pending", "running", "succeeded", "failed"} /\ report.stage \in Stage
    BY <1>2 DEF Report
  <2>2. report.listed \in SUBSET FactId
    BY <1>2 DEF Report
  <2>3. Exists
    BY <2>1 DEF Exists
  <2> QED BY <1>2, <2>1, <2>2, <2>3
<1>3. CASE report = NoReport
  BY <1>3 DEF NoReport, Exists, Active, Stage
<1> QED BY <1>1, <1>2, <1>3

LEMMA ReportUpdated ==
  ASSUME AutoInv, NEW st \in {"pending", "running", "succeeded", "failed"}, NEW s \in Stage,
         report' = Updated([report EXCEPT !.st = st, !.stage = s])
  PROVE  /\ report' \in Report \cup {NoReport}
         /\ report'.listed = report.listed
         /\ Exists => report'.st = st
         /\ ~Exists => report' = report /\ ~Active /\ ~Active'
<1>1. CASE Exists
  <2>1. report \in Report /\ report' = [report EXCEPT !.st = st, !.stage = s]
    BY <1>1, ReportKept DEF Updated
  <2>2. report' \in Report
    BY <2>1 DEF Report
  <2>3. report'.st = st /\ report'.listed = report.listed
    BY <2>1 DEF Report
  <2> QED BY <1>1, <2>2, <2>3
<1>2. CASE ~Exists
  BY <1>2, ReportKept, AutoTypes DEF Updated, Active, AutoInv
<1> QED BY <1>1, <1>2

\* Steps that store, list and drop no fact.
LEMMA FactsKept ==
  ASSUME AutoInv, UNCHANGED <<facts, produced, adrift>>, report'.listed = report.listed,
         \A u \in Actor : \/ actor'[u] = actor[u]
                          \/ produced[u] = {} /\ actor'[u].at \notin {"list", "listing"}
  PROVE  ListsAgree' /\ FactsAreListed'
BY DEF AutoInv, ListsAgree, FactsAreListed, InPass

LEMMA PassKept ==
  ASSUME AutoInv, NEW t \in Actor, NEW p \in ActorPoint \ {"list", "listing"}, ActorGoes(t, p),
         UNCHANGED factVars, report'.listed = report.listed,
         actor[t].at \notin InPass \/ actor[t].stage # "extract"
  PROVE  ListsAgree' /\ FactsAreListed'
<1>1. actor'[t].at = p /\ \A u \in Actor : u # t => actor'[u] = actor[u]
  BY ActorMoved
<1>2. produced[t] = {}
  BY DEF AutoInv, ListsAgree
<1> QED BY <1>1, <1>2, FactsKept DEF factVars

\* A pass that ends without having listed what it stored.
LEMMA PassLost ==
  ASSUME AutoInv, NEW t \in Actor, NEW p \in ActorPoint \ {"list", "listing"}, ActorGoes(t, p),
         PassIsLost(t), report'.listed = report.listed
  PROVE  /\ ListsAgree' /\ FactsAreListed'
         /\ produced' \in [Actor -> SUBSET FactId] /\ undoing' \in [Trigger -> SUBSET FactId]
         /\ facts' \in SUBSET Fact /\ adrift' \in SUBSET Fact
<1>0. /\ produced \in [Actor -> SUBSET FactId] /\ undoing \in [Trigger -> SUBSET FactId]
      /\ facts \in SUBSET Fact /\ adrift \in SUBSET Fact
  BY AutoTypes DEF AutoInv
<1>1. actor'[t].at = p /\ \A u \in Actor : u # t => actor'[u] = actor[u]
  BY ActorMoved
<1>2. /\ produced' \in [Actor -> SUBSET FactId] /\ produced'[t] = {}
      /\ \A u \in Actor : u # t => produced'[u] = produced[u]
  BY <1>0 DEF PassIsLost
<1>3. facts' = facts /\ undoing' = undoing
      /\ adrift' = adrift \cup ((produced[t] \cap facts) \ report.listed)
  BY DEF PassIsLost, Lost
<1>4. ListsAgree'
  BY <1>1, <1>2 DEF AutoInv, ListsAgree, InPass
<1>5. FactsAreListed'
  <2> SUFFICES ASSUME NEW f \in facts
               PROVE  \/ f \in report.listed \cup adrift'
                      \/ \E u \in Actor : actor'[u].at \in InPass /\ f \in produced'[u]
    BY <1>3 DEF FactsAreListed, InPass
  <2>1. \/ f \in report.listed \cup adrift
        \/ \E u \in Actor : actor[u].at \in InPass /\ f \in produced[u]
    BY DEF AutoInv, FactsAreListed, InPass
  <2> QED BY <1>1, <1>2, <1>3, <2>1
<1> QED BY <1>0, <1>2, <1>3, <1>4, <1>5

LEMMA JobsEnqueued ==
  ASSUME AutoInv, NEW s \in Stage, EnqueueStage(s)
  PROVE  /\ stageRow' \in [Stage -> StageJob]
         /\ slips' = slips
         /\ \A r \in Stage : stageRow[r].st = "running" => stageRow'[r].st = "running"
         /\ excuse' \in {"none", "met"}
         /\ RunIsCarried' /\ TriesAreLeft'
<1>1. ArmedJob \in StageJob /\ ArmedJob.st = "pending" /\ ArmedJob.tries < StageTries
  BY AutoAssumption DEF ArmedJob, StageJob
<1>2. stageRow \in [Stage -> StageJob]
  BY AutoTypes DEF AutoInv
<1>3. CASE stageRow[s].st = "running"
  BY <1>2, <1>3 DEF EnqueueStage, Rescheduled, RunIsCarried, AutoInv, TriesAreLeft
<1>4. CASE stageRow[s].st # "running"
  <2>1. stageRow' = [stageRow EXCEPT ![s] = ArmedJob] /\ excuse' = "none" /\ slips' = slips
    BY <1>4 DEF EnqueueStage, Rescheduled
  <2>2. stageRow'[s] = ArmedJob /\ \A r \in Stage : r # s => stageRow'[r] = stageRow[r]
    BY <1>2, <2>1
  <2>3. RunIsCarried'
    BY <1>1, <2>2 DEF RunIsCarried, Carried
  <2>4. TriesAreLeft'
    BY <1>1, <2>2 DEF TriesAreLeft, AutoInv
  <2> QED BY <1>1, <1>2, <1>4, <2>1, <2>2, <2>3, <2>4
<1> QED BY <1>3, <1>4


LEMMA RunLoaded ==
  ASSUME AutoInv, NEW t \in Actor, LoadRun(t)
  PROVE  AutoInv'
<1>0. /\ actor[t].at # "idle" /\ actor[t].stage \in Stage /\ appUp /\ UNCHANGED appUp
      /\ stageRow \in [Stage -> StageJob]
  BY AutoTypes DEF AutoInv, LoadRun, NoSlip, ActorAt
<1>m. PICK p \in {"err", "stamp", "ok"} : ActorGoes(t, p) /\ (Active => p = "stamp")
  BY DEF LoadRun, Active, Exists
<1>p. p \in ActorPoint
  BY DEF ActorPoint
<1>g. /\ actor' \in [Actor -> [at : ActorPoint, stage : Stage]]
      /\ actor'[t].at = p /\ actor'[t].stage = actor[t].stage
      /\ \A u \in Actor : u # t => actor'[u] = actor[u]
  BY <1>m, <1>p, ActorMoved
<1>1. AutoTypeOK'
  BY AutoTypes, TypesKept, AutoAssumption, <1>g DEF AutoInv, factVars, LoadRun, NoSlip
<1>2. ActorsAgree'
  BY <1>0, <1>m, <1>p, MovedAgree DEF LoadRun
<1>3. TriesAreLeft'
  BY DEF AutoInv, TriesAreLeft, LoadRun
<1>4. RunIsCarried'
  BY <1>g, <1>m, <1>0, WorkIsCarried DEF Working, LoadRun, RunIsCarried, Active
<1>5. ListsAgree' /\ FactsAreListed'
  BY <1>m, PassKept DEF LoadRun, ActorAt, ActorPoint, InPass
<1> QED BY <1>1, <1>2, <1>3, <1>4, <1>5 DEF AutoInv

LEMMA RunStamped ==
  ASSUME AutoInv, NEW t \in Actor, StampRun(t)
  PROVE  AutoInv'
<1>0. /\ actor[t].at # "idle" /\ actor[t].stage \in Stage /\ appUp /\ UNCHANGED appUp
      /\ stageRow \in [Stage -> StageJob]
  BY AutoTypes DEF AutoInv, StampRun, ActorAt
<1>m. PICK p \in {"finish", "body"} : ActorGoes(t, p) /\ (p = "body" => actor[t].stage # "notify")
  BY DEF StampRun
<1>p. p \in ActorPoint
  BY DEF ActorPoint
<1>g. /\ actor' \in [Actor -> [at : ActorPoint, stage : Stage]]
      /\ actor'[t].at = p /\ actor'[t].stage = actor[t].stage
      /\ \A u \in Actor : u # t => actor'[u] = actor[u]
  BY <1>m, <1>p, ActorMoved
<1>r. /\ report' \in Report \cup {NoReport}
      /\ report'.listed = report.listed
      /\ Exists => report'.st = "running"
      /\ ~Exists => report' = report /\ ~Active /\ ~Active'
  BY <1>0, ReportUpdated DEF StampRun
<1>1. AutoTypeOK'
  BY AutoTypes, TypesKept, AutoAssumption, <1>g, <1>r DEF AutoInv, factVars, StampRun, NoSlip
<1>2. ActorsAgree'
  BY <1>0, <1>m, <1>p, MovedAgree DEF StampRun
<1>3. TriesAreLeft'
  BY DEF AutoInv, TriesAreLeft, StampRun
<1>4. RunIsCarried'
  BY <1>g, WorkIsCarried DEF Working, Active
<1>5. ListsAgree' /\ FactsAreListed'
  BY <1>m, <1>r, PassKept DEF StampRun, ActorAt, ActorPoint, InPass
<1> QED BY <1>1, <1>2, <1>3, <1>4, <1>5 DEF AutoInv

LEMMA FactStored ==
  ASSUME AutoInv, NEW t \in Actor, NEW f \in Fact, StoreFact(t, f)
  PROVE  AutoInv'
<1>0. actor[t].at = "body" /\ actor[t].stage = "extract"
  BY DEF StoreFact, ActorAt
<1>t. /\ produced \in [Actor -> SUBSET FactId] /\ undoing \in [Trigger -> SUBSET FactId]
      /\ facts \in SUBSET Fact /\ adrift \in SUBSET Fact
  BY AutoTypes DEF AutoInv
<1>m. /\ produced' \in [Actor -> SUBSET FactId] /\ produced'[t] = produced[t] \cup {f}
      /\ \A u \in Actor : u # t => produced'[u] = produced[u]
      /\ facts' = facts \cup {f} /\ UNCHANGED <<report, actor, undoing, adrift>>
  BY <1>t DEF StoreFact, FactId
<1>1. AutoTypeOK'
  BY <1>t, <1>m, AutoTypes, TypesKept DEF AutoInv, StoreFact, NoSlip
<1>2. ActorsAgree'
  BY ThreadsUnmoved DEF StoreFact
<1>3. TriesAreLeft'
  BY ThreadsUnmoved DEF StoreFact
<1>4. RunIsCarried'
  BY <1>0, <1>m, WorkIsCarried DEF Working
<1>5. ListsAgree' /\ FactsAreListed'
  <2>1. ListsAgree'
    BY <1>0, <1>m DEF AutoInv, ListsAgree, InPass
  <2>2. FactsAreListed'
    BY <1>0, <1>m DEF AutoInv, FactsAreListed
  <2> QED BY <2>1, <2>2
<1> QED BY <1>1, <1>2, <1>3, <1>4, <1>5 DEF AutoInv

LEMMA StageSucceeded ==
  ASSUME AutoInv, NEW t \in Actor, StageSucceeds(t)
  PROVE  AutoInv'
<1>0. /\ actor[t].at # "idle" /\ actor[t].stage \in Stage /\ appUp /\ UNCHANGED appUp
      /\ stageRow \in [Stage -> StageJob]
  BY AutoTypes DEF AutoInv, StageSucceeds, ActorAt
<1>m. PICK p \in {"list", "note", "hand"} :
        /\ ActorGoes(t, p) /\ actor[t].at = "body"
        /\ p = "list" => actor[t].stage = "extract"
        /\ p # "list" => actor[t].stage # "extract" \/ produced[t] = {}
  BY DEF StageSucceeds, ActorAt
<1>p. p \in ActorPoint
  BY DEF ActorPoint
<1>g. /\ actor' \in [Actor -> [at : ActorPoint, stage : Stage]]
      /\ actor'[t].at = p /\ actor'[t].stage = actor[t].stage
      /\ \A u \in Actor : u # t => actor'[u] = actor[u]
  BY <1>m, <1>p, ActorMoved
<1>1. AutoTypeOK'
  BY AutoTypes, TypesKept, AutoAssumption, <1>g, <1>m DEF AutoInv, factVars, StageSucceeds, NoSlip
<1>2. ActorsAgree'
  BY <1>0, <1>m, <1>p, MovedAgree DEF StageSucceeds, AutoInv, ActorsAgree
<1>3. TriesAreLeft'
  BY DEF AutoInv, TriesAreLeft, StageSucceeds
<1>4. RunIsCarried'
  BY <1>g, WorkIsCarried DEF Working
<1>5. ListsAgree' /\ FactsAreListed'
  <2>1. UNCHANGED <<report, facts, produced, adrift>>
    BY DEF StageSucceeds, factVars
  <2>2. CASE p = "list"
    BY <1>g, <1>m, <2>1, <2>2 DEF AutoInv, ListsAgree, FactsAreListed, InPass
  <2>3. CASE p # "list"
    <3>1. produced[t] = {}
      BY <1>m, <2>3 DEF AutoInv, ListsAgree
    <3> QED BY <1>g, <2>1, <2>3, <3>1, FactsKept
  <2> QED BY <2>2, <2>3
<1> QED BY <1>1, <1>2, <1>3, <1>4, <1>5 DEF AutoInv

LEMMA ExtractionErred ==
  ASSUME AutoInv, NEW t \in Actor, ExtractionErrs(t)
  PROVE  AutoInv'
<1>0. /\ actor[t].at # "idle" /\ actor[t].stage \in Stage /\ appUp /\ UNCHANGED appUp
      /\ stageRow \in [Stage -> StageJob]
  BY AutoTypes DEF AutoInv, ExtractionErrs, ActorAt
<1>m. PICK p \in {"note"} : ActorGoes(t, p) /\ actor[t].at = "body"
  BY DEF ExtractionErrs, ActorAt
<1>p. p \in ActorPoint
  BY DEF ActorPoint
<1>g. /\ actor' \in [Actor -> [at : ActorPoint, stage : Stage]]
      /\ actor'[t].at = p /\ actor'[t].stage = actor[t].stage
      /\ \A u \in Actor : u # t => actor'[u] = actor[u]
  BY <1>m, <1>p, ActorMoved
<1>5. /\ ListsAgree' /\ FactsAreListed'
      /\ produced' \in [Actor -> SUBSET FactId] /\ undoing' \in [Trigger -> SUBSET FactId]
      /\ facts' \in SUBSET Fact /\ adrift' \in SUBSET Fact
  BY <1>m, PassLost DEF ExtractionErrs, ActorPoint
<1>1. AutoTypeOK'
  BY AutoTypes, TypesKept, <1>g, <1>5 DEF AutoInv, ExtractionErrs, NoSlip
<1>2. ActorsAgree'
  BY <1>0, <1>m, <1>p, MovedAgree DEF ExtractionErrs, AutoInv, ActorsAgree
<1>3. TriesAreLeft'
  BY DEF AutoInv, TriesAreLeft, ExtractionErrs
<1>4. RunIsCarried'
  BY <1>g, WorkIsCarried DEF Working
<1> QED BY <1>1, <1>2, <1>3, <1>4, <1>5 DEF AutoInv

LEMMA StageFatal ==
  ASSUME AutoInv, NEW t \in Actor, StageIsFatal(t)
  PROVE  AutoInv'
<1>0. /\ actor[t].at # "idle" /\ actor[t].stage \in Stage /\ appUp /\ UNCHANGED appUp
      /\ stageRow \in [Stage -> StageJob]
  BY AutoTypes DEF AutoInv, StageIsFatal, ActorAt
<1>m. PICK p \in {"fatal"} : ActorGoes(t, p)
  BY DEF StageIsFatal
<1>p. p \in ActorPoint
  BY DEF ActorPoint
<1>g. /\ actor' \in [Actor -> [at : ActorPoint, stage : Stage]]
      /\ actor'[t].at = p /\ actor'[t].stage = actor[t].stage
      /\ \A u \in Actor : u # t => actor'[u] = actor[u]
  BY <1>m, <1>p, ActorMoved
<1>1. AutoTypeOK'
  BY AutoTypes, TypesKept, AutoAssumption, <1>g DEF AutoInv, factVars, StageIsFatal, NoSlip
<1>2. ActorsAgree'
  BY <1>0, <1>m, <1>p, MovedAgree DEF StageIsFatal
<1>3. TriesAreLeft'
  BY DEF AutoInv, TriesAreLeft, StageIsFatal
<1>4. RunIsCarried'
  BY <1>g, WorkIsCarried DEF Working
<1>5. ListsAgree' /\ FactsAreListed'
  BY <1>m, PassKept DEF StageIsFatal, ActorPoint
<1> QED BY <1>1, <1>2, <1>3, <1>4, <1>5 DEF AutoInv

LEMMA FetchTransient ==
  ASSUME AutoInv, NEW t \in Actor, FetchIsTransient(t)
  PROVE  AutoInv'
<1>0. /\ actor[t].at # "idle" /\ actor[t].stage \in Stage /\ appUp /\ UNCHANGED appUp
      /\ stageRow \in [Stage -> StageJob]
  BY AutoTypes DEF AutoInv, FetchIsTransient, ActorAt
<1>m. PICK p \in {"fatal", "err"} : ActorGoes(t, p) /\ (p = "err" => TriesAgain(actor[t].stage))
  BY <1>0, AutoAssumption DEF FetchIsTransient, TriesAgain, LastAttempt, StageJob
<1>p. p \in ActorPoint
  BY DEF ActorPoint
<1>g. /\ actor' \in [Actor -> [at : ActorPoint, stage : Stage]]
      /\ actor'[t].at = p /\ actor'[t].stage = actor[t].stage
      /\ \A u \in Actor : u # t => actor'[u] = actor[u]
  BY <1>m, <1>p, ActorMoved
<1>1. AutoTypeOK'
  BY AutoTypes, TypesKept, AutoAssumption, <1>g DEF AutoInv, factVars, FetchIsTransient
<1>2. ActorsAgree'
  BY <1>0, <1>m, <1>p, MovedAgree DEF FetchIsTransient
<1>3. TriesAreLeft'
  BY DEF AutoInv, TriesAreLeft, FetchIsTransient
<1>4. RunIsCarried'
  BY <1>g, <1>m, WorkIsCarried DEF Working, FetchIsTransient, RunIsCarried, Carried, TriesAgain
<1>5. ListsAgree' /\ FactsAreListed'
  BY <1>m, PassKept DEF FetchIsTransient, ActorPoint
<1> QED BY <1>1, <1>2, <1>3, <1>4, <1>5 DEF AutoInv

LEMMA ListRead ==
  ASSUME AutoInv, NEW t \in Actor, ReadList(t)
  PROVE  AutoInv'
<1>0. /\ actor[t].at # "idle" /\ actor[t].stage \in Stage /\ appUp /\ UNCHANGED appUp
      /\ stageRow \in [Stage -> StageJob]
  BY AutoTypes DEF AutoInv, ReadList, ActorAt
<1>m. PICK p \in {"listing", "fatal"} :
        /\ ActorGoes(t, p) /\ actor[t].at = "list" /\ UNCHANGED report
        /\ \/ /\ p = "listing" /\ UNCHANGED <<facts, undoing, adrift>>
              /\ produced' = [produced EXCEPT ![t] = produced[t] \cup report.listed]
           \/ p = "fatal" /\ PassIsLost(t)
  BY DEF ReadList, ActorAt, Merged
<1>p. p \in ActorPoint
  BY DEF ActorPoint
<1>g. /\ actor' \in [Actor -> [at : ActorPoint, stage : Stage]]
      /\ actor'[t].at = p /\ actor'[t].stage = actor[t].stage
      /\ \A u \in Actor : u # t => actor'[u] = actor[u]
  BY <1>m, <1>p, ActorMoved
<1>t. /\ produced \in [Actor -> SUBSET FactId] /\ undoing \in [Trigger -> SUBSET FactId]
      /\ facts \in SUBSET Fact /\ adrift \in SUBSET Fact
  BY AutoTypes DEF AutoInv
<1>5. /\ ListsAgree' /\ FactsAreListed'
      /\ produced' \in [Actor -> SUBSET FactId] /\ undoing' \in [Trigger -> SUBSET FactId]
      /\ facts' \in SUBSET Fact /\ adrift' \in SUBSET Fact
  <2>1. CASE p = "fatal"
    BY <1>m, <2>1, PassLost DEF ActorPoint
  <2>2. CASE p = "listing"
    <3>1. /\ produced' \in [Actor -> SUBSET FactId]
          /\ produced'[t] = produced[t] \cup report.listed
          /\ \A u \in Actor : u # t => produced'[u] = produced[u]
      BY <1>m, <1>t, <2>2, ReportKept
    <3>2. UNCHANGED <<report, facts, undoing, adrift>>
      BY <1>m, <2>2
    <3>3. ListsAgree'
      BY <1>g, <1>m, <2>2, <3>1, <3>2 DEF AutoInv, ListsAgree, InPass
    <3>4. FactsAreListed'
      BY <1>g, <1>m, <2>2, <3>1, <3>2 DEF AutoInv, FactsAreListed
    <3> QED BY <1>t, <3>1, <3>2, <3>3, <3>4
  <2> QED BY <2>1, <2>2
<1>1. AutoTypeOK'
  BY AutoTypes, TypesKept, <1>g, <1>5 DEF AutoInv, ReadList, NoSlip
<1>2. ActorsAgree'
  BY <1>0, <1>m, <1>p, MovedAgree DEF ReadList, AutoInv, ActorsAgree
<1>3. TriesAreLeft'
  BY DEF AutoInv, TriesAreLeft, ReadList
<1>4. RunIsCarried'
  BY <1>g, WorkIsCarried DEF Working
<1> QED BY <1>1, <1>2, <1>3, <1>4, <1>5 DEF AutoInv

LEMMA ListWritten ==
  ASSUME AutoInv, NEW t \in Actor, WriteList(t)
  PROVE  AutoInv'
<1>0. /\ actor[t].at # "idle" /\ actor[t].stage \in Stage /\ appUp /\ UNCHANGED appUp
      /\ stageRow \in [Stage -> StageJob]
  BY AutoTypes DEF AutoInv, WriteList, ActorAt
<1>m. PICK p \in {"note"} : ActorGoes(t, p) /\ actor[t].at = "listing"
  BY DEF WriteList, ActorAt
<1>p. p \in ActorPoint
  BY DEF ActorPoint
<1>g. /\ actor' \in [Actor -> [at : ActorPoint, stage : Stage]]
      /\ actor'[t].at = p /\ actor'[t].stage = actor[t].stage
      /\ \A u \in Actor : u # t => actor'[u] = actor[u]
  BY <1>m, <1>p, ActorMoved
<1>t. /\ produced \in [Actor -> SUBSET FactId] /\ undoing \in [Trigger -> SUBSET FactId]
      /\ facts \in SUBSET Fact /\ adrift \in SUBSET Fact
  BY AutoTypes DEF AutoInv
<1>5. /\ ListsAgree' /\ FactsAreListed' /\ report' \in Report \cup {NoReport}
      /\ produced' \in [Actor -> SUBSET FactId] /\ undoing' \in [Trigger -> SUBSET FactId]
      /\ facts' \in SUBSET Fact /\ adrift' \in SUBSET Fact
  <2>1. CASE ~Exists
    BY <1>m, <2>1, PassLost, AutoTypes DEF ActorPoint, WriteList, AutoInv
  <2>2. CASE Exists
    <3>1. /\ report' = [report EXCEPT !.listed = produced[t]]
          /\ produced' = [produced EXCEPT ![t] = {}]
          /\ adrift' = adrift \ produced[t] /\ UNCHANGED <<facts, undoing>>
      BY <2>2 DEF WriteList
    <3>2. report' \in Report /\ report'.listed = produced[t]
      BY <1>t, <2>2, <3>1, ReportKept DEF Report
    <3>3. /\ produced' \in [Actor -> SUBSET FactId] /\ produced'[t] = {}
          /\ \A u \in Actor : u # t => produced'[u] = produced[u]
      BY <1>t, <3>1
    <3>4. report.listed \subseteq produced[t] /\ actor[t].stage = "extract"
      BY <1>m DEF AutoInv, ListsAgree
    <3>5. \A u \in Actor : actor[u].at = "listing" => u = t
      BY <1>m, <3>4 DEF AutoInv, ListsAgree, ActorsAgree
    <3>6. ListsAgree'
      BY <1>g, <3>3, <3>5 DEF AutoInv, ListsAgree, InPass
    <3>7. FactsAreListed'
      <4> SUFFICES ASSUME NEW f \in facts, f \notin produced[t], f \notin adrift
                   PROVE  \E u \in Actor : actor'[u].at \in InPass /\ f \in produced'[u]
        BY <3>1, <3>2 DEF FactsAreListed, InPass
      <4>1. PICK u \in Actor : actor[u].at \in InPass /\ f \in produced[u]
        BY <3>4 DEF AutoInv, FactsAreListed, InPass
      <4> QED BY <1>g, <3>3, <4>1
    <3> QED BY <1>t, <3>1, <3>2, <3>3, <3>6, <3>7
  <2> QED BY <2>1, <2>2
<1>1. AutoTypeOK'
  BY AutoTypes, TypesKept, <1>g, <1>5 DEF AutoInv, WriteList, NoSlip
<1>2. ActorsAgree'
  BY <1>0, <1>m, <1>p, <1>5, MovedAgree DEF WriteList, AutoInv, ActorsAgree, ListsAgree
<1>3. TriesAreLeft'
  BY DEF AutoInv, TriesAreLeft, WriteList
<1>4. RunIsCarried'
  BY <1>g, WorkIsCarried DEF Working
<1> QED BY <1>1, <1>2, <1>3, <1>4, <1>5 DEF AutoInv

LEMMA DeltaNoted ==
  ASSUME AutoInv, NEW t \in Actor, NoteDelta(t)
  PROVE  AutoInv'
<1>0. /\ actor[t].at # "idle" /\ actor[t].stage \in Stage /\ appUp /\ UNCHANGED appUp
      /\ stageRow \in [Stage -> StageJob]
  BY AutoTypes DEF AutoInv, NoteDelta, ActorAt
<1>m. PICK p \in {"hand"} : ActorGoes(t, p) /\ actor[t].at = "note"
  BY DEF NoteDelta, ActorAt
<1>p. p \in ActorPoint
  BY DEF ActorPoint
<1>g. /\ actor' \in [Actor -> [at : ActorPoint, stage : Stage]]
      /\ actor'[t].at = p /\ actor'[t].stage = actor[t].stage
      /\ \A u \in Actor : u # t => actor'[u] = actor[u]
  BY <1>m, <1>p, ActorMoved
<1>r. report' \in Report \cup {NoReport} /\ report'.listed = report.listed
  <2>1. CASE report' = Updated([report EXCEPT !.old = FALSE])
    <3>1. CASE Exists
      BY <2>1, <3>1, ReportKept DEF Updated, Report
    <3>2. CASE ~Exists
      BY <2>1, <3>2, ReportKept DEF Updated
    <3> QED BY <3>1, <3>2
  <2>2. CASE UNCHANGED report
    BY <2>2, AutoTypes DEF AutoInv
  <2> QED BY <2>1, <2>2 DEF NoteDelta
<1>1. AutoTypeOK'
  BY AutoTypes, TypesKept, AutoAssumption, <1>g, <1>r DEF AutoInv, factVars, NoteDelta, NoSlip, Slip
<1>2. ActorsAgree'
  BY <1>0, <1>m, <1>p, MovedAgree DEF NoteDelta, AutoInv, ActorsAgree
<1>3. TriesAreLeft'
  BY DEF AutoInv, TriesAreLeft, NoteDelta
<1>4. RunIsCarried'
  BY <1>g, WorkIsCarried DEF Working
<1>5. ListsAgree' /\ FactsAreListed'
  BY <1>m, <1>r, PassKept DEF NoteDelta, ActorPoint, InPass
<1> QED BY <1>1, <1>2, <1>3, <1>4, <1>5 DEF AutoInv

LEMMA HandedOn ==
  ASSUME AutoInv, NEW t \in Actor, HandOn(t)
  PROVE  AutoInv'
<1>0. /\ actor[t].at # "idle" /\ actor[t].stage \in Stage /\ appUp /\ UNCHANGED appUp
      /\ stageRow \in [Stage -> StageJob]
  BY AutoTypes DEF AutoInv, HandOn, ActorAt
<1>m. PICK p \in {"ok", "unhanded"} : ActorGoes(t, p) /\ actor[t].at = "hand"
  BY DEF HandOn, ActorAt
<1>p. p \in ActorPoint
  BY DEF ActorPoint
<1>g. /\ actor' \in [Actor -> [at : ActorPoint, stage : Stage]]
      /\ actor'[t].at = p /\ actor'[t].stage = actor[t].stage
      /\ \A u \in Actor : u # t => actor'[u] = actor[u]
  BY <1>m, <1>p, ActorMoved
<1>n. actor[t].stage # "notify" /\ NextStage(actor[t].stage) \in Stage
  BY <1>0, <1>m, NextStageIs DEF AutoInv, ActorsAgree
<1>b. ASSUME Slip, ActorGoes(t, "unhanded"), UNCHANGED stageRow
      PROVE  AutoTypeOK' /\ ActorsAgree' /\ TriesAreLeft' /\ RunIsCarried'
  <2>g. actor'[t].at = "unhanded"
    BY <1>b, <1>0, ActorMoved DEF ActorPoint
  <2>1. AutoTypeOK'
    BY <1>b, <1>g, AutoTypes, TypesKept, AutoAssumption DEF AutoInv, factVars, HandOn, Slip
  <2>2. ActorsAgree'
    BY <1>0, <1>b, <1>n, MovedAgree DEF ActorPoint
  <2>3. TriesAreLeft'
    BY <1>b DEF AutoInv, TriesAreLeft
  <2>4. RunIsCarried'
    BY <2>g, WorkIsCarried DEF Working
  <2> QED BY <2>1, <2>2, <2>3, <2>4
<1>c. ASSUME EnqueueStage(NextStage(actor[t].stage)), ActorGoes(t, "ok")
      PROVE  AutoTypeOK' /\ ActorsAgree' /\ TriesAreLeft' /\ RunIsCarried'
  <2>0. /\ stageRow' \in [Stage -> StageJob]
        /\ slips' = slips
        /\ \A r \in Stage : stageRow[r].st = "running" => stageRow'[r].st = "running"
        /\ excuse' \in {"none", "met"}
        /\ RunIsCarried' /\ TriesAreLeft'
    BY <1>c, <1>n, JobsEnqueued
  <2>1. AutoTypeOK'
    BY <1>g, <2>0, AutoTypes, TypesKept, AutoAssumption DEF AutoInv, factVars, HandOn
  <2>2. ActorsAgree'
    BY <1>0, <1>c, <2>0, MovedAgree DEF ActorPoint
  <2> QED BY <2>0, <2>1, <2>2
<1>k. AutoTypeOK' /\ ActorsAgree' /\ TriesAreLeft' /\ RunIsCarried'
  BY <1>b, <1>c DEF HandOn
<1>1. AutoTypeOK'
  BY <1>k
<1>2. ActorsAgree'
  BY <1>k
<1>3. TriesAreLeft'
  BY <1>k
<1>4. RunIsCarried'
  BY <1>k
<1>5. ListsAgree' /\ FactsAreListed'
  BY <1>m, PassKept DEF HandOn, ActorPoint, InPass
<1> QED BY <1>1, <1>2, <1>3, <1>4, <1>5 DEF AutoInv

LEMMA RunFailed ==
  ASSUME AutoInv, NEW t \in Actor, FailRun(t)
  PROVE  AutoInv'
<1>0. /\ actor[t].at # "idle" /\ actor[t].stage \in Stage /\ appUp /\ UNCHANGED appUp
      /\ stageRow \in [Stage -> StageJob]
  BY AutoTypes DEF AutoInv, FailRun, ActorAt
<1>m. PICK p \in {"ok"} : ActorGoes(t, p) /\ actor[t].at \in {"fatal", "unhanded"}
  BY DEF FailRun, ActorAt
<1>p. p \in ActorPoint
  BY DEF ActorPoint
<1>g. /\ actor' \in [Actor -> [at : ActorPoint, stage : Stage]]
      /\ actor'[t].at = p /\ actor'[t].stage = actor[t].stage
      /\ \A u \in Actor : u # t => actor'[u] = actor[u]
  BY <1>m, <1>p, ActorMoved
<1>r. /\ report' \in Report \cup {NoReport} /\ report'.listed = report.listed
      /\ ~Active' \/ excuse' = "slip"
      /\ excuse' \in {"none", "slip"} /\ slips' \in 0..MaxSlips
  <2>1. CASE \E s \in Stage : report' = Ended("failed", s) /\ Settled
    <3>1. /\ report' \in Report \cup {NoReport} /\ report'.listed = report.listed
          /\ Exists => report'.st = "failed"
          /\ ~Exists => ~Active'
      BY <2>1, ReportUpdated DEF Ended
    <3> QED BY <2>1, <3>1, AutoTypes DEF Settled, Active, AutoInv
  <2>2. CASE UNCHANGED report /\ Slip
    BY <2>2, AutoTypes, AutoAssumption DEF Slip, AutoInv
  <2>3. actor[t].at = "unhanded" => NextStage(actor[t].stage) \in Stage
    BY <1>0, NextStageIs DEF AutoInv, ActorsAgree
  <2> QED BY <1>0, <2>1, <2>2, <2>3 DEF FailRun, ActorAt
<1>1. AutoTypeOK'
  BY AutoTypes, TypesKept, AutoAssumption, <1>g, <1>r DEF AutoInv, factVars, FailRun
<1>2. ActorsAgree'
  BY <1>0, <1>m, <1>p, MovedAgree DEF FailRun
<1>3. TriesAreLeft'
  BY DEF AutoInv, TriesAreLeft, FailRun
<1>4. RunIsCarried'
  BY <1>r DEF RunIsCarried
<1>5. ListsAgree' /\ FactsAreListed'
  BY <1>m, <1>r, PassKept DEF FailRun, ActorPoint, InPass
<1> QED BY <1>1, <1>2, <1>3, <1>4, <1>5 DEF AutoInv

LEMMA RunFinished ==
  ASSUME AutoInv, NEW t \in Actor, FinishRun(t)
  PROVE  AutoInv'
<1>0. /\ actor[t].at # "idle" /\ actor[t].stage \in Stage /\ appUp /\ UNCHANGED appUp
      /\ stageRow \in [Stage -> StageJob]
  BY AutoTypes DEF AutoInv, FinishRun, ActorAt
<1>m. PICK p \in {"ok", "err"} : ActorGoes(t, p) /\ actor[t].at = "finish"
  BY DEF FinishRun, ActorAt
<1>p. p \in ActorPoint
  BY DEF ActorPoint
<1>g. /\ actor' \in [Actor -> [at : ActorPoint, stage : Stage]]
      /\ actor'[t].at = p /\ actor'[t].stage = actor[t].stage
      /\ \A u \in Actor : u # t => actor'[u] = actor[u]
  BY <1>m, <1>p, ActorMoved
<1>r. /\ report' \in Report \cup {NoReport} /\ report'.listed = report.listed
      /\ ~Active'
      /\ excuse' \in {"none", "slip"} /\ slips' \in 0..MaxSlips
  <2>1. report' = Ended("succeeded", "notify") /\ "notify" \in Stage
    BY DEF FinishRun, Stage
  <2>2. /\ report' \in Report \cup {NoReport} /\ report'.listed = report.listed
        /\ Exists => report'.st = "succeeded"
        /\ ~Exists => ~Active'
    BY <2>1, ReportUpdated DEF Ended
  <2> QED BY <2>2, AutoTypes, AutoAssumption DEF FinishRun, Settled, Slip, Active, AutoInv
<1>1. AutoTypeOK'
  BY AutoTypes, TypesKept, AutoAssumption, <1>g, <1>r DEF AutoInv, factVars, FinishRun
<1>2. ActorsAgree'
  BY <1>0, <1>m, <1>p, MovedAgree DEF FinishRun
<1>3. TriesAreLeft'
  BY DEF AutoInv, TriesAreLeft, FinishRun
<1>4. RunIsCarried'
  BY <1>r DEF RunIsCarried
<1>5. ListsAgree' /\ FactsAreListed'
  BY <1>m, <1>r, PassKept DEF FinishRun, ActorPoint, InPass
<1> QED BY <1>1, <1>2, <1>3, <1>4, <1>5 DEF AutoInv

LEMMA StageSlipped ==
  ASSUME AutoInv, NEW t \in Actor, StageSlips(t)
  PROVE  AutoInv'
<1>0. /\ actor[t].at # "idle" /\ actor[t].stage \in Stage /\ appUp /\ UNCHANGED appUp
      /\ stageRow \in [Stage -> StageJob]
  BY AutoTypes DEF AutoInv, StageSlips
<1>m. PICK p \in {"err", "fatal"} : ActorGoes(t, p)
  BY DEF StageSlips
<1>p. p \in ActorPoint
  BY DEF ActorPoint
<1>g. /\ actor' \in [Actor -> [at : ActorPoint, stage : Stage]]
      /\ actor'[t].at = p /\ actor'[t].stage = actor[t].stage
      /\ \A u \in Actor : u # t => actor'[u] = actor[u]
  BY <1>m, <1>p, ActorMoved
<1>5. /\ ListsAgree' /\ FactsAreListed'
      /\ produced' \in [Actor -> SUBSET FactId] /\ undoing' \in [Trigger -> SUBSET FactId]
      /\ facts' \in SUBSET Fact /\ adrift' \in SUBSET Fact
  BY <1>m, PassLost DEF StageSlips, ActorPoint
<1>1. AutoTypeOK'
  BY AutoTypes, TypesKept, AutoAssumption, <1>g, <1>5 DEF AutoInv, StageSlips, Slip
<1>2. ActorsAgree'
  BY <1>0, <1>m, <1>p, MovedAgree DEF StageSlips
<1>3. TriesAreLeft'
  BY DEF AutoInv, TriesAreLeft, StageSlips
<1>4. RunIsCarried'
  BY DEF StageSlips, Slip, RunIsCarried
<1> QED BY <1>1, <1>2, <1>3, <1>4, <1>5 DEF AutoInv

LEMMA StageClaimed ==
  ASSUME AutoInv, NEW t \in Actor, NEW s \in Stage, ClaimStage(t, s)
  PROVE  AutoInv'
<1>0. /\ stageRow \in [Stage -> StageJob] /\ appUp /\ actor[t].at = "idle"
      /\ stageRow[s].st = "pending" /\ stageRow[s].tries \in 0..StageTries
      /\ actor \in [Actor -> [at : ActorPoint, stage : Stage]]
  BY AutoTypes DEF AutoInv, ClaimStage, ActorAt, StageJob
<1>b. stageRow[s].tries + 1 \in 0..StageTries
  BY <1>0, AutoAssumption DEF AutoInv, TriesAreLeft
<1>j. /\ stageRow' \in [Stage -> StageJob] /\ stageRow'[s].st = "running"
      /\ \A r \in Stage : r # s => stageRow'[r] = stageRow[r]
  BY <1>0, <1>b DEF ClaimStage, StageJob
<1>g. /\ actor' \in [Actor -> [at : ActorPoint, stage : Stage]]
      /\ actor'[t] = [at |-> "load", stage |-> s]
      /\ \A u \in Actor : u # t => actor'[u] = actor[u]
  BY <1>0 DEF ClaimStage, ActorPoint
<1>1. AutoTypeOK'
  BY AutoTypes, TypesKept, AutoAssumption, <1>j, <1>g DEF AutoInv, factVars, ClaimStage, NoSlip
<1>2. ActorsAgree'
  BY <1>0, <1>j, <1>g DEF AutoInv, ActorsAgree, ClaimStage
<1>3. TriesAreLeft'
  BY <1>0, <1>j DEF AutoInv, TriesAreLeft
<1>4. RunIsCarried'
  BY <1>g, WorkIsCarried DEF Working
<1>5. ListsAgree' /\ FactsAreListed'
  <2>1. produced[t] = {}
    BY <1>0 DEF AutoInv, ListsAgree, InPass
  <2> QED BY <1>g, <2>1, FactsKept DEF ClaimStage, factVars
<1> QED BY <1>1, <1>2, <1>3, <1>4, <1>5 DEF AutoInv

LEMMA StageSettled ==
  ASSUME AutoInv, NEW t \in Actor, SettleStage(t)
  PROVE  AutoInv'
<1>0. /\ actor[t].at # "idle" /\ actor[t].stage \in Stage /\ appUp /\ UNCHANGED appUp
      /\ stageRow \in [Stage -> StageJob]
  BY AutoTypes DEF AutoInv, SettleStage, ActorAt
<1>b. /\ actor \in [Actor -> [at : ActorPoint, stage : Stage]]
      /\ actor[t].at \in {"ok", "err"} /\ Resting \in [at : ActorPoint, stage : Stage]
      /\ actor[t].stage \in Stage /\ stageRow[actor[t].stage] \in StageJob
  BY <1>0, AutoTypes DEF AutoInv, SettleStage, ActorAt, Resting, ActorPoint, Stage
<1>c. PICK j \in StageJob :
        /\ stageRow' = [stageRow EXCEPT ![actor[t].stage] = j]
        /\ j.st # "running"
        /\ j.st = "pending" => j.tries < StageTries
        /\ actor[t].at = "err" /\ TriesAgain(actor[t].stage) => j.st = "pending"
  <2>1. SettledJob("succeeded") \in StageJob /\ SettledJob("failed") \in StageJob
    BY AutoAssumption DEF SettledJob, StageJob
  <2>2. /\ [stageRow[actor[t].stage] EXCEPT !.st = "pending"] \in StageJob
        /\ [stageRow[actor[t].stage] EXCEPT !.st = "pending"].st = "pending"
        /\ [stageRow[actor[t].stage] EXCEPT !.st = "pending"].tries = stageRow[actor[t].stage].tries
    BY <1>b DEF StageJob
  <2>3. CASE actor[t].at = "ok"
    BY <2>1, <2>3 DEF SettleStage, SettledJob
  <2>4. CASE actor[t].at = "err" /\ TriesAgain(actor[t].stage)
    BY <2>2, <2>4 DEF SettleStage, TriesAgain
  <2>5. CASE actor[t].at = "err" /\ ~TriesAgain(actor[t].stage)
    BY <2>1, <2>5 DEF SettleStage, SettledJob
  <2> QED BY <1>b, <2>3, <2>4, <2>5
<1>a. /\ \A u \in Actor : actor[u].stage \in Stage
      /\ \A u \in Actor : actor[u].at # "idle" /\ u # t => actor[u].stage # actor[t].stage
  BY <1>0, <1>b DEF AutoInv, ActorsAgree
<1>j. /\ stageRow' \in [Stage -> StageJob] /\ stageRow'[actor[t].stage] = j
      /\ \A r \in Stage : r # actor[t].stage => stageRow'[r] = stageRow[r]
  BY <1>0, <1>c
<1>g. /\ actor' \in [Actor -> [at : ActorPoint, stage : Stage]]
      /\ actor'[t] = Resting /\ actor'[t].at = "idle"
      /\ \A u \in Actor : u # t => actor'[u] = actor[u]
  BY <1>b DEF SettleStage, Resting
<1>1. AutoTypeOK'
  BY AutoTypes, TypesKept, AutoAssumption, <1>j, <1>g DEF AutoInv, factVars, SettleStage, NoSlip
<1>2. ActorsAgree'
  <2>0. /\ \A u \in Actor : actor[u].at # "idle" => stageRow[actor[u].stage].st = "running"
        /\ \A u, v \in Actor :
             actor[u].at # "idle" /\ actor[v].at # "idle" /\ actor[u].stage = actor[v].stage => u = v
    BY DEF AutoInv, ActorsAgree
  <2>1. \A u \in Actor : actor'[u].at # "idle" => u # t /\ actor'[u] = actor[u]
    BY <1>g
  <2>2. \A u \in Actor : u # t /\ actor[u].at # "idle" => stageRow'[actor[u].stage].st = "running"
    BY <1>a, <1>j, <2>0
  <2>3. \A u \in Actor : actor'[u].at \in {"body", "list", "listing", "note", "hand", "unhanded"} =>
                         actor'[u].at # "idle"
    OBVIOUS
  <2>4. \A u \in Actor : actor'[u].at \in {"body", "list", "listing", "note", "hand", "unhanded"} =>
                         actor'[u].stage # "notify"
    BY <2>1, <2>3 DEF AutoInv, ActorsAgree
  <2>5. \A u, v \in Actor :
          actor'[u].at # "idle" /\ actor'[v].at # "idle" /\ actor'[u].stage = actor'[v].stage => u = v
    BY <2>0, <2>1
  <2>6. \A u \in Actor : actor'[u].at # "idle" => stageRow'[actor'[u].stage].st = "running"
    BY <2>1, <2>2
  <2> QED BY <1>0, <2>4, <2>5, <2>6 DEF ActorsAgree
<1>3. TriesAreLeft'
  BY <1>c, <1>j DEF AutoInv, TriesAreLeft
<1>4. RunIsCarried'
  <2> SUFFICES ASSUME Carried PROVE Carried'
    BY DEF AutoInv, RunIsCarried, SettleStage, NoSlip, Active
  <2>1. CASE \E s \in Stage : stageRow[s].st = "pending"
    BY <1>0, <1>b, <1>j, <2>1 DEF AutoInv, ActorsAgree, Carried
  <2>2. CASE \E s \in Stage : /\ stageRow[s].st = "running"
                              /\ \A u \in Actor : actor[u].at # "idle" => actor[u].stage # s
    BY <1>0, <1>j, <1>g, <2>2 DEF Carried
  <2>3. CASE \E u \in Actor : actor[u].at \in Working
    BY <1>b, <1>g, <2>3 DEF Carried, Working
  <2>4. CASE \E u \in Actor : actor[u].at = "err" /\ TriesAgain(actor[u].stage)
    <3> PICK u \in Actor : actor[u].at = "err" /\ TriesAgain(actor[u].stage)
      BY <2>4
    <3>1. CASE u = t
      BY <1>0, <1>c, <1>j, <3>1 DEF Carried
    <3>2. CASE u # t
      BY <1>j, <1>g, <1>a, <3>2 DEF Carried, TriesAgain
    <3> QED BY <3>1, <3>2
  <2>5. CASE \E c \in Trigger : trigger[c].at \in {"arm", "unarmed"}
    BY <2>5 DEF Carried, SettleStage
  <2> QED BY <2>1, <2>2, <2>3, <2>4, <2>5 DEF Carried
<1>5. ListsAgree' /\ FactsAreListed'
  <2>1. produced[t] = {}
    BY <1>b DEF AutoInv, ListsAgree, InPass
  <2> QED BY <1>g, <2>1, FactsKept DEF SettleStage, factVars
<1> QED BY <1>1, <1>2, <1>3, <1>4, <1>5 DEF AutoInv

LEMMA FailedForgotten ==
  ASSUME AutoInv, NEW c \in Trigger, NEW q \in {"insert", "insert manual"}, ForgetFailed(c, q)
  PROVE  AutoInv'
<1>m. PICK p \in {"insert", "insert manual"} : (TriggerGoes(c, p) \/ (TriggerRests(c) /\ p = "idle")) /\ ~Arming(c)
  BY DEF ForgetFailed, TriggerAt, Arming
<1>p. p \in TriggerPoint
  BY DEF TriggerPoint
<1>g. /\ trigger' \in [Trigger -> [at : TriggerPoint, stage : Stage]]
      /\ trigger'[c].at = p
      /\ \A d \in Trigger : d # c => trigger'[d] = trigger[d]
  BY <1>m, <1>p, TriggerMoved
<1>r. report' \in Report \cup {NoReport} /\ (report'.listed = report.listed) /\ (Active' => Active)
  BY AutoTypes, ReportKept DEF AutoInv, ForgetFailed, SelfHeals, NoReport, Active
<1>1. AutoTypeOK'
  BY AutoTypes, TypesKept, AutoAssumption, <1>g, <1>r DEF AutoInv, factVars, ForgetFailed, NoSlip
<1>2. ActorsAgree'
  BY ThreadsUnmoved DEF ForgetFailed
<1>3. TriesAreLeft'
  BY ThreadsUnmoved DEF ForgetFailed
<1>4. RunIsCarried'
  <2>1. \A d \in Trigger : Arming(d) => Arming(d)'
    BY <1>g, <1>m DEF Arming
  <2> QED BY <2>1, <1>r, CarriedStays DEF ForgetFailed, NoSlip
<1>5. ListsAgree' /\ FactsAreListed'
  BY <1>r, FactsKept DEF ForgetFailed, factVars
<1> QED BY <1>1, <1>2, <1>3, <1>4, <1>5 DEF AutoInv

LEMMA RunInserted ==
  ASSUME AutoInv, NEW c \in Trigger, InsertRun(c)
  PROVE  AutoInv'
<1>m. PICK p \in {"arm", "idle", "look"} : (TriggerGoes(c, p) \/ (TriggerRests(c) /\ p = "idle")) /\ ~Arming(c)
          /\ \/ UNCHANGED report /\ NoSlip
             \/ ~Exists /\ report' = NewReport /\ ((p = "arm" /\ NoSlip) \/ Slip)
  BY DEF InsertRun, TriggerAt, Arming
<1>p. p \in TriggerPoint
  BY DEF TriggerPoint
<1>g. /\ trigger' \in [Trigger -> [at : TriggerPoint, stage : Stage]]
      /\ trigger'[c].at = p
      /\ \A d \in Trigger : d # c => trigger'[d] = trigger[d]
  BY <1>m, <1>p, TriggerMoved
<1>n. NewReport \in Report /\ NewReport.listed = {}
  BY DEF NewReport, NoReport, Report, Stage
<1>r. report' \in Report \cup {NoReport} /\ report'.listed = report.listed
  BY <1>m, <1>n, AutoTypes, ReportKept DEF AutoInv
<1>x. slips' \in 0..MaxSlips /\ excuse' \in {"none", "met", "slip"}
  BY <1>m, SlipsTyped
<1>1. AutoTypeOK'
  BY AutoTypes, TypesKept, AutoAssumption, <1>g, <1>x, <1>r DEF AutoInv, factVars, InsertRun, NoSlip
<1>2. ActorsAgree'
  BY ThreadsUnmoved DEF InsertRun
<1>3. TriesAreLeft'
  BY ThreadsUnmoved DEF InsertRun
<1>4. RunIsCarried'
  <2>1. CASE UNCHANGED report /\ NoSlip
    <3>1. \A d \in Trigger : Arming(d) => Arming(d)'
      BY <1>g, <1>m DEF Arming
    <3> QED BY <2>1, <3>1, CarriedStays DEF InsertRun, NoSlip, Active
  <2>2. CASE p = "arm"
    BY <1>g, <2>2 DEF RunIsCarried, Carried
  <2>3. CASE Slip
    BY <2>3 DEF Slip, RunIsCarried
  <2> QED BY <1>m, <2>1, <2>2, <2>3
<1>5. ListsAgree' /\ FactsAreListed'
  BY <1>r, FactsKept DEF InsertRun, factVars
<1> QED BY <1>1, <1>2, <1>3, <1>4, <1>5 DEF AutoInv

LEMMA RunLookedAt ==
  ASSUME AutoInv, NEW c \in Trigger, LookAtRun(c)
  PROVE  AutoInv'
<1>g. /\ trigger' \in [Trigger -> [at : TriggerPoint, stage : Stage]]
      /\ \A d \in Trigger : d # c => trigger'[d] = trigger[d]
  <2>1. CASE trigger' = [trigger EXCEPT ![c] = [at |-> "arm", stage |-> report.stage]]
    BY <2>1, AutoTypes, ReportKept DEF AutoInv, TriggerPoint
  <2>2. CASE TriggerGoes(c, "rearm") \/ TriggerRests(c)
    BY <2>2, TriggerMoved DEF TriggerPoint
  <2> QED BY <2>1, <2>2 DEF LookAtRun
<1>m. ~Arming(c)
  BY DEF LookAtRun, TriggerAt, Arming
<1>1. AutoTypeOK'
  BY AutoTypes, TypesKept, AutoAssumption, <1>g DEF AutoInv, factVars, LookAtRun, NoSlip
<1>2. ActorsAgree'
  BY ThreadsUnmoved DEF LookAtRun
<1>3. TriesAreLeft'
  BY ThreadsUnmoved DEF LookAtRun
<1>4. RunIsCarried'
  <2>1. \A d \in Trigger : Arming(d) => Arming(d)'
    BY <1>g, <1>m DEF Arming
  <2> QED BY <2>1, CarriedStays DEF LookAtRun, NoSlip, Active
<1>5. ListsAgree' /\ FactsAreListed'
  BY FactsKept DEF LookAtRun, factVars
<1> QED BY <1>1, <1>2, <1>3, <1>4, <1>5 DEF AutoInv

LEMMA ReextractionBegun ==
  ASSUME AutoInv, NEW c \in Trigger, BeginReextraction(c)
  PROVE  AutoInv'
<1>m. PICK p \in {"rearm"} : (TriggerGoes(c, p) \/ (TriggerRests(c) /\ p = "idle")) /\ ~Arming(c)
  BY DEF BeginReextraction, TriggerAt, Arming
<1>p. p \in TriggerPoint
  BY DEF TriggerPoint
<1>g. /\ trigger' \in [Trigger -> [at : TriggerPoint, stage : Stage]]
      /\ trigger'[c].at = p
      /\ \A d \in Trigger : d # c => trigger'[d] = trigger[d]
  BY <1>m, <1>p, TriggerMoved
<1>1. AutoTypeOK'
  BY AutoTypes, TypesKept, AutoAssumption, <1>g DEF AutoInv, factVars, BeginReextraction, NoSlip
<1>2. ActorsAgree'
  BY ThreadsUnmoved DEF BeginReextraction
<1>3. TriesAreLeft'
  BY ThreadsUnmoved DEF BeginReextraction
<1>4. RunIsCarried'
  <2>1. \A d \in Trigger : Arming(d) => Arming(d)'
    BY <1>g, <1>m DEF Arming
  <2> QED BY <2>1, CarriedStays DEF BeginReextraction, NoSlip, Slip, Active
<1>5. ListsAgree' /\ FactsAreListed'
  BY FactsKept DEF BeginReextraction, factVars
<1> QED BY <1>1, <1>2, <1>3, <1>4, <1>5 DEF AutoInv

LEMMA RunRearmed ==
  ASSUME AutoInv, NEW c \in Trigger, RearmRun(c)
  PROVE  AutoInv'
<1>m. PICK p \in {"arm"} : (TriggerGoes(c, p) \/ (TriggerRests(c) /\ p = "idle")) /\ ~Arming(c)
  BY DEF RearmRun, TriggerAt, Arming
<1>p. p \in TriggerPoint
  BY DEF TriggerPoint
<1>g. /\ trigger' \in [Trigger -> [at : TriggerPoint, stage : Stage]]
      /\ trigger'[c].at = p
      /\ \A d \in Trigger : d # c => trigger'[d] = trigger[d]
  BY <1>m, <1>p, TriggerMoved
<1>r. report' \in Report \cup {NoReport} /\ report'.listed = report.listed
  BY ReportUpdated DEF RearmRun, Stage
<1>1. AutoTypeOK'
  BY AutoTypes, TypesKept, AutoAssumption, <1>g, <1>r DEF AutoInv, factVars, RearmRun, NoSlip
<1>2. ActorsAgree'
  BY ThreadsUnmoved DEF RearmRun
<1>3. TriesAreLeft'
  BY ThreadsUnmoved DEF RearmRun
<1>4. RunIsCarried'
  BY <1>g, <1>m DEF RunIsCarried, Carried
<1>5. ListsAgree' /\ FactsAreListed'
  BY <1>r, FactsKept DEF RearmRun, factVars
<1> QED BY <1>1, <1>2, <1>3, <1>4, <1>5 DEF AutoInv

LEMMA StageArmed ==
  ASSUME AutoInv, NEW c \in Trigger, ArmStage(c)
  PROVE  AutoInv'
<1>0. trigger[c].stage \in Stage
  BY AutoTypes DEF AutoInv
<1>b. ASSUME EnqueueStage(trigger[c].stage), TriggerRests(c)
      PROVE  AutoTypeOK' /\ TriesAreLeft' /\ RunIsCarried' /\ ActorsAgree'
  <2>0. /\ stageRow' \in [Stage -> StageJob]
        /\ slips' = slips
        /\ \A r \in Stage : stageRow[r].st = "running" => stageRow'[r].st = "running"
        /\ excuse' \in {"none", "met"}
        /\ RunIsCarried' /\ TriesAreLeft'
    BY <1>0, <1>b, JobsEnqueued
  <2>g. trigger' \in [Trigger -> [at : TriggerPoint, stage : Stage]]
    BY <1>b, TriggerMoved DEF TriggerPoint
  <2>1. AutoTypeOK'
    BY <2>g, <2>0, AutoTypes, TypesKept DEF AutoInv, factVars, ArmStage
  <2>2. ActorsAgree'
    BY <2>0, AutoTypes DEF ArmStage, AutoInv, ActorsAgree
  <2> QED BY <2>0, <2>1, <2>2
<1>c. ASSUME Slip, TriggerGoes(c, "unarmed"), UNCHANGED stageRow
      PROVE  AutoTypeOK' /\ TriesAreLeft' /\ RunIsCarried' /\ ActorsAgree'
  <2>g. trigger' \in [Trigger -> [at : TriggerPoint, stage : Stage]]
    BY <1>c, TriggerMoved DEF TriggerPoint
  <2>1. AutoTypeOK'
    BY <1>c, <2>g, AutoTypes, TypesKept, AutoAssumption DEF AutoInv, factVars, ArmStage, Slip
  <2>2. ActorsAgree' /\ TriesAreLeft'
    BY <1>c, ThreadsUnmoved DEF ArmStage
  <2>3. RunIsCarried'
    BY <1>c DEF Slip, RunIsCarried
  <2> QED BY <2>1, <2>2, <2>3
<1>k. AutoTypeOK' /\ TriesAreLeft' /\ RunIsCarried' /\ ActorsAgree'
  BY <1>b, <1>c DEF ArmStage
<1>1. AutoTypeOK'
  BY <1>k
<1>2. ActorsAgree'
  BY <1>k
<1>3. TriesAreLeft'
  BY <1>k
<1>4. RunIsCarried'
  BY <1>k
<1>5. ListsAgree' /\ FactsAreListed'
  BY FactsKept DEF ArmStage, factVars
<1> QED BY <1>1, <1>2, <1>3, <1>4, <1>5 DEF AutoInv

LEMMA UnarmedFailed ==
  ASSUME AutoInv, NEW c \in Trigger, FailUnarmed(c)
  PROVE  AutoInv'
<1>m. PICK p \in {"idle"} : (TriggerGoes(c, p) \/ (TriggerRests(c) /\ p = "idle")) /\ trigger[c].at = "unarmed"
  BY DEF FailUnarmed, TriggerAt, Arming
<1>p. p \in TriggerPoint
  BY DEF TriggerPoint
<1>g. /\ trigger' \in [Trigger -> [at : TriggerPoint, stage : Stage]]
      /\ trigger'[c].at = p
      /\ \A d \in Trigger : d # c => trigger'[d] = trigger[d]
  BY <1>m, <1>p, TriggerMoved
<1>r. /\ report' \in Report \cup {NoReport} /\ report'.listed = report.listed
      /\ ~Active' \/ excuse' = "slip"
      /\ excuse' \in {"none", "slip"} /\ slips' \in 0..MaxSlips
  <2>1. CASE report' = Ended("failed", trigger[c].stage) /\ Settled
    <3>0. trigger[c].stage \in Stage
      BY AutoTypes DEF AutoInv
    <3>1. /\ report' \in Report \cup {NoReport} /\ report'.listed = report.listed
          /\ Exists => report'.st = "failed"
          /\ ~Exists => ~Active'
      BY <2>1, <3>0, ReportUpdated DEF Ended
    <3> QED BY <2>1, <3>1, AutoTypes DEF Settled, Active, AutoInv
  <2>2. CASE UNCHANGED report /\ Slip
    BY <2>2, AutoTypes, AutoAssumption DEF Slip, AutoInv
  <2> QED BY <2>1, <2>2 DEF FailUnarmed
<1>1. AutoTypeOK'
  BY AutoTypes, TypesKept, AutoAssumption, <1>g, <1>r DEF AutoInv, factVars, FailUnarmed, Slip
<1>2. ActorsAgree'
  BY ThreadsUnmoved DEF FailUnarmed
<1>3. TriesAreLeft'
  BY ThreadsUnmoved DEF FailUnarmed
<1>4. RunIsCarried'
  BY <1>r DEF RunIsCarried
<1>5. ListsAgree' /\ FactsAreListed'
  BY <1>r, FactsKept DEF FailUnarmed, factVars
<1> QED BY <1>1, <1>2, <1>3, <1>4, <1>5 DEF AutoInv

LEMMA UndoBegun ==
  ASSUME AutoInv, NEW c \in Trigger, BeginUndo(c)
  PROVE  AutoInv'
<1>m. PICK p \in {"revert"} : (TriggerGoes(c, p) \/ (TriggerRests(c) /\ p = "idle")) /\ ~Arming(c)
  BY DEF BeginUndo, TriggerAt, Arming
<1>p. p \in TriggerPoint
  BY DEF TriggerPoint
<1>g. /\ trigger' \in [Trigger -> [at : TriggerPoint, stage : Stage]]
      /\ trigger'[c].at = p
      /\ \A d \in Trigger : d # c => trigger'[d] = trigger[d]
  BY <1>m, <1>p, TriggerMoved
<1>u. undoing' \in [Trigger -> SUBSET FactId]
  BY AutoTypes, ReportKept DEF AutoInv, BeginUndo
<1>1. AutoTypeOK'
  BY AutoTypes, TypesKept, <1>g, <1>u DEF AutoInv, BeginUndo, NoSlip
<1>2. ActorsAgree'
  BY ThreadsUnmoved DEF BeginUndo
<1>3. TriesAreLeft'
  BY ThreadsUnmoved DEF BeginUndo
<1>4. RunIsCarried'
  <2>1. \A d \in Trigger : Arming(d) => Arming(d)'
    BY <1>g, <1>m DEF Arming
  <2> QED BY <2>1, CarriedStays DEF BeginUndo, NoSlip, Slip, Active
<1>5. ListsAgree' /\ FactsAreListed'
  BY FactsKept DEF BeginUndo, factVars
<1> QED BY <1>1, <1>2, <1>3, <1>4, <1>5 DEF AutoInv

\* The id of a deleted fact names nothing.
LEMMA ErasedIs ==
  ASSUME NEW ids \in SUBSET FactId, NEW f \in Fact
  PROVE  /\ Erased(ids, f) \in SUBSET FactId /\ f \notin Erased(ids, f)
         /\ \A g \in Fact : g # f => (g \in Erased(ids, f) <=> g \in ids)
         /\ \A more \in SUBSET FactId : ids \subseteq more => Erased(ids, f) \subseteq Erased(more, f)
         /\ ids = {} => Erased(ids, f) = {}
<1>1. Gone \notin Fact
  BY AutoAssumption
<1>2. CASE f \in ids
  <2>1. Erased(ids, f) = (ids \ {f}) \cup {Gone}
    BY <1>2 DEF Erased
  <2>2. \A more \in SUBSET FactId : ids \subseteq more => Erased(more, f) = (more \ {f}) \cup {Gone}
    BY <1>2 DEF Erased
  <2> QED BY <1>1, <1>2, <2>1, <2>2 DEF FactId
<1>3. CASE f \notin ids
  <2>1. Erased(ids, f) = ids
    BY <1>3 DEF Erased
  <2>2. \A more \in SUBSET FactId : Erased(more, f) = more \/ Erased(more, f) = (more \ {f}) \cup {Gone}
    BY DEF Erased
  <2> QED BY <1>3, <2>1, <2>2
<1> QED BY <1>2, <1>3

LEMMA FactReverted ==
  ASSUME AutoInv, NEW c \in Trigger, NEW f \in Fact, RevertFact(c, f)
  PROVE  AutoInv'
<1>t. /\ produced \in [Actor -> SUBSET FactId] /\ undoing \in [Trigger -> SUBSET FactId]
      /\ facts \in SUBSET Fact /\ adrift \in SUBSET Fact
  BY AutoTypes DEF AutoInv
<1>0. UNCHANGED <<stageRow, appUp, actor, trigger>>
  BY DEF RevertFact
<1>x. slips' \in 0..MaxSlips /\ excuse' \in {"none", "met", "slip"}
  BY SlipsTyped DEF RevertFact
<1>u. CASE Slip /\ UNCHANGED <<report, facts, produced, adrift>>
           /\ undoing' = [undoing EXCEPT ![c] = undoing[c] \ {f}]
  <2>1. AutoTypeOK'
    BY <1>0, <1>t, <1>u, <1>x, AutoTypes, TypesKept DEF AutoInv
  <2>2. ActorsAgree' /\ TriesAreLeft'
    BY <1>0, ThreadsUnmoved
  <2>3. RunIsCarried'
    BY <1>u DEF Slip, RunIsCarried
  <2>4. ListsAgree' /\ FactsAreListed'
    BY <1>0, <1>u, FactsKept
  <2> QED BY <2>1, <2>2, <2>3, <2>4 DEF AutoInv
<1>d. CASE /\ facts' = facts \ {f} /\ adrift' = adrift \ {f}
           /\ report' = [report EXCEPT !.listed = Erased(report.listed, f)]
           /\ produced' = [u \in Actor |-> Erased(produced[u], f)]
           /\ undoing' = [d \in Trigger |-> Erased(undoing[d], f)]
           /\ NoSlip
  <2>1. /\ report' \in Report \cup {NoReport} /\ report'.listed = Erased(report.listed, f)
        /\ report'.st = report.st
    <3>1. report.listed \in SUBSET FactId /\ report \in Report \cup {NoReport}
      BY ReportKept, AutoTypes DEF AutoInv
    <3>2. Erased(report.listed, f) \in SUBSET FactId
      BY <3>1, ErasedIs
    <3>3. CASE report \in Report
      BY <1>d, <3>2, <3>3 DEF Report
    <3>4. CASE report = NoReport
      <4>1. report.listed = {}
        BY <3>4 DEF NoReport
      <4>2. Erased(report.listed, f) = {}
        BY <3>1, <4>1, ErasedIs
      <4> QED BY <1>d, <3>4, <4>1, <4>2 DEF NoReport
    <3> QED BY <3>1, <3>3, <3>4
  <2>2. \A u \in Actor : produced[u] \in SUBSET FactId /\ produced'[u] = Erased(produced[u], f)
    BY <1>d, <1>t
  <2>3. /\ produced' \in [Actor -> SUBSET FactId] /\ undoing' \in [Trigger -> SUBSET FactId]
        /\ facts' \in SUBSET Fact /\ adrift' \in SUBSET Fact
    BY <1>d, <1>t, ErasedIs
  <2>4. AutoTypeOK'
    BY <1>0, <1>x, <2>1, <2>3, AutoTypes, TypesKept DEF AutoInv
  <2>5. ActorsAgree' /\ TriesAreLeft'
    BY <1>0, ThreadsUnmoved
  <2>6. RunIsCarried'
    BY <1>0, <1>d, <2>1, CarriedStays DEF NoSlip, Active, Arming
  <2>7. ListsAgree'
    <3> SUFFICES ASSUME NEW t \in Actor
                 PROVE  /\ actor[t].at \in {"list", "listing"} => actor[t].stage = "extract"
                        /\ Erased(produced[t], f) # {} =>
                             actor[t].at \in InPass /\ actor[t].stage = "extract"
                        /\ actor[t].at = "listing" =>
                             Erased(report.listed, f) \subseteq Erased(produced[t], f)
      BY <1>0, <2>1, <2>2 DEF ListsAgree
    <3>1. report.listed \in SUBSET FactId /\ produced[t] \in SUBSET FactId
      BY <2>2, ReportKept
    <3>2. Erased(produced[t], f) # {} => produced[t] # {}
      BY <3>1, ErasedIs
    <3>3. report.listed \subseteq produced[t] => Erased(report.listed, f) \subseteq Erased(produced[t], f)
      BY <3>1, ErasedIs
    <3> QED BY <3>2, <3>3 DEF AutoInv, ListsAgree
  <2>8. FactsAreListed'
    <3> SUFFICES ASSUME NEW g \in facts, g # f
                 PROVE  \/ g \in report'.listed \cup adrift'
                        \/ \E u \in Actor : actor[u].at \in InPass /\ g \in produced'[u]
      BY <1>0, <1>d DEF FactsAreListed, InPass
    <3>1. g \in Fact /\ report.listed \in SUBSET FactId
      BY <1>t, ReportKept
    <3>2. g \in report.listed => g \in report'.listed
      BY <2>1, <3>1, ErasedIs
    <3>3. \A u \in Actor : g \in produced[u] => g \in produced'[u]
      BY <2>2, <3>1, ErasedIs
    <3>4. g \in adrift => g \in adrift'
      BY <1>d
    <3> QED BY <3>2, <3>3, <3>4 DEF AutoInv, FactsAreListed, InPass
  <2> QED BY <2>4, <2>5, <2>6, <2>7, <2>8 DEF AutoInv
<1> QED BY <1>u, <1>d DEF RevertFact

LEMMA ListCleared ==
  ASSUME AutoInv, NEW c \in Trigger, ClearList(c)
  PROVE  AutoInv'
<1>m. PICK p \in {"idle"} : (TriggerGoes(c, p) \/ (TriggerRests(c) /\ p = "idle")) /\ ~Arming(c)
  BY DEF ClearList, TriggerAt, Arming
<1>p. p \in TriggerPoint
  BY DEF TriggerPoint
<1>g. /\ trigger' \in [Trigger -> [at : TriggerPoint, stage : Stage]]
      /\ trigger'[c].at = p
      /\ \A d \in Trigger : d # c => trigger'[d] = trigger[d]
  BY <1>m, <1>p, TriggerMoved
<1>t. /\ produced \in [Actor -> SUBSET FactId] /\ undoing \in [Trigger -> SUBSET FactId]
      /\ facts \in SUBSET Fact /\ adrift \in SUBSET Fact
  BY AutoTypes DEF AutoInv
<1>r. report' \in Report \cup {NoReport} /\ (Active' => Active) /\ report'.listed = {}
  <2>1. CASE Exists
    <3>1. report \in Report /\ report' = [report EXCEPT !.listed = {}]
      BY <2>1, ReportKept DEF ClearList, Updated
    <3>2. report' \in Report /\ report'.st = report.st /\ report'.listed = {}
      BY <3>1 DEF Report
    <3> QED BY <3>2 DEF Active
  <2>2. CASE ~Exists
    BY <2>2, ReportKept DEF ClearList, Updated, Active
  <2> QED BY <2>1, <2>2
<1>f. /\ undoing' \in [Trigger -> SUBSET FactId] /\ UNCHANGED <<actor, facts, produced>>
      /\ adrift' = adrift \cup (report.listed \cap facts)
  BY <1>t DEF ClearList
<1>1. AutoTypeOK'
  BY AutoTypes, TypesKept, <1>g, <1>r, <1>t, <1>f DEF AutoInv, ClearList, NoSlip
<1>2. ActorsAgree'
  BY ThreadsUnmoved DEF ClearList
<1>3. TriesAreLeft'
  BY ThreadsUnmoved DEF ClearList
<1>4. RunIsCarried'
  <2>1. \A d \in Trigger : Arming(d) => Arming(d)'
    BY <1>g, <1>m DEF Arming
  <2> QED BY <2>1, <1>r, CarriedStays DEF ClearList, NoSlip
<1>5. ListsAgree' /\ FactsAreListed'
  BY <1>r, <1>f DEF AutoInv, ListsAgree, FactsAreListed
<1> QED BY <1>1, <1>2, <1>3, <1>4, <1>5 DEF AutoInv

LEMMA TriggerSlipped ==
  ASSUME AutoInv, NEW c \in Trigger, TriggerSlips(c)
  PROVE  AutoInv'
<1>m. PICK p \in {"idle"} : (TriggerGoes(c, p) \/ (TriggerRests(c) /\ p = "idle")) /\ ~Arming(c)
  BY DEF TriggerSlips, TriggerAt, Arming
<1>p. p \in TriggerPoint
  BY DEF TriggerPoint
<1>g. /\ trigger' \in [Trigger -> [at : TriggerPoint, stage : Stage]]
      /\ trigger'[c].at = p
      /\ \A d \in Trigger : d # c => trigger'[d] = trigger[d]
  BY <1>m, <1>p, TriggerMoved
<1>b. undoing' \in [Trigger -> SUBSET FactId]
  BY AutoTypes DEF AutoInv, TriggerSlips
<1>x. slips' \in 0..MaxSlips /\ excuse' \in {"none", "met", "slip"}
  BY SlipsTyped DEF TriggerSlips
<1>1. AutoTypeOK'
  BY AutoTypes, TypesKept, AutoAssumption, <1>g, <1>b, <1>x DEF AutoInv, factVars, TriggerSlips, Arming
<1>2. ActorsAgree'
  BY ThreadsUnmoved DEF TriggerSlips
<1>3. TriesAreLeft'
  BY ThreadsUnmoved DEF TriggerSlips
<1>4. RunIsCarried'
  <2>1. \A d \in Trigger : Arming(d) => Arming(d)'
    BY <1>g, <1>m DEF Arming
  <2> QED BY <2>1, CarriedStays DEF TriggerSlips, NoSlip, Slip, Active
<1>5. ListsAgree' /\ FactsAreListed'
  BY FactsKept DEF TriggerSlips, factVars
<1> QED BY <1>1, <1>2, <1>3, <1>4, <1>5 DEF AutoInv

LEMMA PipelineWentDown ==
  ASSUME AutoInv, Stops
  PROVE  AutoInv'
<1>b. Resting \in [at : ActorPoint, stage : Stage] /\ Resting.at = "idle"
  BY DEF Resting, ActorPoint, Stage
<1>c. Resting \in [at : TriggerPoint, stage : Stage]
  BY DEF Resting, TriggerPoint, Stage
<1>d. /\ actor' \in [Actor -> [at : ActorPoint, stage : Stage]]
      /\ trigger' \in [Trigger -> [at : TriggerPoint, stage : Stage]]
      /\ \A t \in Actor : actor'[t].at = "idle"
  BY <1>b, <1>c DEF Stops
<1>t. /\ produced \in [Actor -> SUBSET FactId] /\ undoing \in [Trigger -> SUBSET FactId]
      /\ facts \in SUBSET Fact /\ adrift \in SUBSET Fact
  BY AutoTypes DEF AutoInv
<1>e. /\ appUp' \in BOOLEAN /\ adrift' \in SUBSET Fact
      /\ produced' \in [Actor -> SUBSET FactId] /\ undoing' \in [Trigger -> SUBSET FactId]
      /\ \A t \in Actor : produced'[t] = {}
  BY <1>t DEF Stops, Lost
<1>f. slips' \in 0..MaxSlips
  BY AutoTypes, AutoAssumption DEF AutoInv, Stops
<1>h. UNCHANGED <<report, stageRow, facts, excuse>>
  BY DEF Stops
<1>1. AutoTypeOK'
  BY <1>d, <1>e, <1>f, <1>h, <1>t, AutoTypes, TypesKept DEF AutoInv
<1>2. ActorsAgree'
  BY <1>d DEF ActorsAgree
<1>3. TriesAreLeft'
  BY DEF AutoInv, TriesAreLeft, Stops
<1>4. RunIsCarried'
  BY DEF Stops, RunIsCarried
<1>5. ListsAgree' /\ FactsAreListed'
  <2>1. ListsAgree'
    BY <1>d, <1>e DEF ListsAgree
  <2>2. \A f \in facts : f \in report.listed \cup adrift'
    BY DEF AutoInv, FactsAreListed, Stops, Lost
  <2> QED BY <1>h, <2>1, <2>2 DEF FactsAreListed
<1> QED BY <1>1, <1>2, <1>3, <1>4, <1>5 DEF AutoInv

LEMMA PipelineCameUp ==
  ASSUME AutoInv, StartsAgain
  PROVE  AutoInv'
<1>0. /\ stageRow \in [Stage -> StageJob] /\ UNCHANGED <<actor, trigger, factVars>>
      /\ \A t \in Actor : actor[t].at = "idle"
  BY AutoTypes DEF AutoInv, ActorsAgree, StartsAgain
<1>b. PICK r \in MaybeUpgraded :
        \/ ReconcileRun(ReclaimedJobs, r) /\ UNCHANGED slips
        \/ Slip /\ report' = r /\ stageRow' \in {stageRow, ReclaimedJobs}
  BY DEF StartsAgain
<1>c. /\ r \in Report \cup {NoReport} /\ r.st = report.st /\ r.listed = report.listed
      /\ r.stage = report.stage /\ (Exists => r \in Report)
  BY <1>b, ReportKept DEF MaybeUpgraded, Updated, Report
<1>d. /\ ReclaimedJobs \in [Stage -> StageJob]
      /\ \A s \in Stage : /\ ReclaimedJobs[s].st # "running"
                          /\ ReclaimedJobs[s].st = "pending" => ReclaimedJobs[s].tries < StageTries
  <2> SUFFICES ASSUME NEW s \in Stage
               PROVE  /\ ReclaimedJobs[s] \in StageJob /\ ReclaimedJobs[s].st # "running"
                      /\ ReclaimedJobs[s].st = "pending" => ReclaimedJobs[s].tries < StageTries
    BY DEF ReclaimedJobs
  <2>0. stageRow[s] \in StageJob /\ (stageRow[s].st = "pending" => stageRow[s].tries < StageTries)
    BY <1>0 DEF AutoInv, TriesAreLeft
  <2>1. CASE stageRow[s].st # "running"
    BY <2>0, <2>1 DEF ReclaimedJobs
  <2>2. CASE stageRow[s].st = "running" /\ stageRow[s].tries >= StageTries
    BY <2>2, AutoAssumption DEF ReclaimedJobs, SettledJob, StageJob
  <2>3. CASE stageRow[s].st = "running" /\ ~(stageRow[s].tries >= StageTries)
    <3>1. ReclaimedJobs[s] = [stageRow[s] EXCEPT !.st = "pending"]
      BY <2>3 DEF ReclaimedJobs
    <3>2. ReclaimedJobs[s] \in StageJob /\ ReclaimedJobs[s].tries = stageRow[s].tries
          /\ ReclaimedJobs[s].st = "pending"
      BY <2>0, <3>1 DEF StageJob
    <3>3. stageRow[s].tries < StageTries
      BY <2>0, <2>3, AutoAssumption DEF StageJob
    <3> QED BY <3>2, <3>3
  <2> QED BY <2>1, <2>2, <2>3
<1>e. ArmedJob \in StageJob /\ ArmedJob.st = "pending" /\ ArmedJob.tries < StageTries
  BY AutoAssumption DEF ArmedJob, StageJob
<1> DEFINE jobs == ReclaimedJobs
           orphan == Active /\ \A s \in Stage : jobs[s].st \notin {"pending", "running"}
<1>f. \/ orphan /\ stageRow' = jobs /\ report' = [r EXCEPT !.st = "failed"] /\ UNCHANGED <<excuse, slips>>
      \/ /\ orphan /\ stageRow' = [jobs EXCEPT ![report.stage] = ArmedJob]
         /\ report' = r /\ excuse' = "none" /\ UNCHANGED slips
      \/ ~orphan /\ stageRow' = jobs /\ report' = r /\ UNCHANGED <<excuse, slips>>
      \/ Slip /\ report' = r /\ stageRow' \in {stageRow, jobs}
  BY <1>b DEF ReconcileRun
<1>h. stageRow' \in [Stage -> StageJob] /\ TriesAreLeft'
  <2>1. stageRow' \in {stageRow, jobs, [jobs EXCEPT ![report.stage] = ArmedJob]}
    BY <1>f
  <2>2. report.stage \in Stage
    BY ReportKept
  <2> QED BY <1>0, <1>d, <1>e, <2>1, <2>2 DEF AutoInv, TriesAreLeft
<1>i. orphan => r \in Report
  BY <1>c, ReportKept
<1>j. report' \in Report \cup {NoReport} /\ report'.listed = report.listed
  <2>1. r \in Report => [r EXCEPT !.st = "failed"] \in Report /\ [r EXCEPT !.st = "failed"].listed = r.listed
    BY DEF Report
  <2> QED BY <1>c, <1>f, <1>i, <2>1
<1>k. excuse' \in {"none", "met", "slip"} /\ slips' \in 0..MaxSlips
  BY <1>f, AutoTypes, AutoAssumption DEF AutoInv, Slip
<1>1. AutoTypeOK'
  BY AutoTypes, TypesKept, AutoAssumption, <1>0, <1>h, <1>j, <1>k DEF AutoInv, factVars, StartsAgain
<1>2. ActorsAgree'
  BY <1>0 DEF ActorsAgree
<1>3. TriesAreLeft'
  BY <1>h
<1>4. RunIsCarried'
  <2>1. CASE orphan /\ report' = [r EXCEPT !.st = "failed"]
    BY <1>i, <2>1 DEF RunIsCarried, Active, Report
  <2>2. CASE orphan /\ stageRow' = [jobs EXCEPT ![report.stage] = ArmedJob]
    BY <1>d, <1>e, <2>2, ReportKept DEF RunIsCarried, Carried
  <2>3. CASE ~orphan /\ stageRow' = jobs /\ report' = r
    BY <1>c, <1>d, <2>3 DEF RunIsCarried, Carried, Active
  <2>4. CASE Slip
    BY <2>4 DEF Slip, RunIsCarried
  <2> QED BY <1>f, <2>1, <2>2, <2>3, <2>4
<1>5. ListsAgree' /\ FactsAreListed'
  BY <1>0, <1>j, FactsKept DEF factVars
<1> QED BY <1>1, <1>2, <1>3, <1>4, <1>5 DEF AutoInv

LEMMA AutoInitInv == AutoInit => AutoInv
<1> SUFFICES ASSUME AutoInit PROVE AutoInv
  OBVIOUS
<1>1. /\ Resting \in [at : ActorPoint, stage : Stage] /\ Resting.at = "idle"
      /\ Resting \in [at : TriggerPoint, stage : Stage]
  BY DEF Resting, ActorPoint, TriggerPoint, Stage
<1>2. [st |-> "missing", tries |-> 0] \in StageJob
  BY AutoAssumption DEF StageJob
<1>3. AutoTypeOK
  <2>1. stageRow \in [Stage -> StageJob] /\ report \in Report \cup {NoReport}
    BY <1>2 DEF AutoInit
  <2>2. actor \in [Actor -> [at : ActorPoint, stage : Stage]]
    BY <1>1 DEF AutoInit
  <2>3. trigger \in [Trigger -> [at : TriggerPoint, stage : Stage]]
    BY <1>1 DEF AutoInit
  <2>4. slips \in 0..MaxSlips /\ excuse \in {"none", "met", "slip"}
    BY AutoAssumption DEF AutoInit
  <2>5. /\ appUp \in BOOLEAN /\ facts \in SUBSET Fact /\ adrift \in SUBSET Fact
        /\ produced \in [Actor -> SUBSET FactId] /\ undoing \in [Trigger -> SUBSET FactId]
    BY DEF AutoInit
  <2> QED BY <2>1, <2>2, <2>3, <2>4, <2>5, AutoTypes
<1>4. ~Active
  BY DEF AutoInit, NoReport, Active
<1> QED BY <1>1, <1>3, <1>4
        DEF AutoInit, AutoInv, ActorsAgree, TriesAreLeft, RunIsCarried, ListsAgree, FactsAreListed

LEMMA AutoStep == AutoInv /\ [AutoNext]_autoVars => AutoInv'
<1> SUFFICES ASSUME AutoInv, [AutoNext]_autoVars PROVE AutoInv'
  OBVIOUS
<1>1. CASE UNCHANGED autoVars
  <2>1. AutoTypeOK'
    BY <1>1, AutoTypes, TypesKept DEF AutoInv, factVars, autoVars
  <2>2. ActorsAgree' /\ TriesAreLeft'
    BY <1>1, ThreadsUnmoved DEF autoVars
  <2>3. RunIsCarried'
    BY <1>1, CarriedStays DEF autoVars, Active, Arming
  <2>4. ListsAgree' /\ FactsAreListed'
    BY <1>1, FactsKept DEF autoVars, factVars
  <2> QED BY <2>1, <2>2, <2>3, <2>4 DEF AutoInv
<1>2. ASSUME NEW t \in Actor, ActorStep(t)
      PROVE  AutoInv'
  BY <1>2, StageClaimed, RunLoaded, RunStamped, FactStored, StageSucceeded, ExtractionErred, StageFatal,
     FetchTransient, ListRead, ListWritten, DeltaNoted, HandedOn, RunFailed, RunFinished, StageSlipped, StageSettled
  DEF ActorStep, RunsStage
<1>3. ASSUME NEW c \in Trigger, TriggerStep(c)
      PROVE  AutoInv'
  BY <1>3, FailedForgotten, RunInserted, RunLookedAt, ReextractionBegun, RunRearmed, StageArmed,
     UnarmedFailed, UndoBegun, FactReverted, ListCleared, TriggerSlipped
  DEF TriggerStep, TriggerProceeds, BeginManual, BeginSweep
<1> QED BY <1>1, <1>2, <1>3, PipelineWentDown, PipelineCameUp DEF AutoNext

\* Runs, stage rows, threads, triggers, facts and lists keep their types.
THEOREM AutoTypesHold == AutoSpec => []AutoTypeOK
BY AutoInitInv, AutoStep, PTL DEF AutoSpec, AutoInv

\* While the process runs, a run that is not finished has a waiting row, a thread or a
\* trigger that takes it further, unless a storage call or a handler failed, or the
\* last enqueue of a stage met that stage's row still running (run_stage,
\* enqueue_stage, fail_orphaned_autopilot_runs).
THEOREM NoRunIsLeftUndrivenHolds == AutoSpec => []NoRunIsLeftUndriven
<1>1. AutoInv => NoRunIsLeftUndriven
  <2>1. AutoInv /\ Carried => Driven
    BY AutoTypes DEF AutoInv, Carried, Driven, LiveJob, ActorsAgree, Working
  <2> QED BY <2>1 DEF AutoInv, RunIsCarried, NoRunIsLeftUndriven
<1> QED BY <1>1, AutoInitInv, AutoStep, PTL DEF AutoSpec

\* Every fact a run stored is on the list its undo reverts, or a pass is still about to
\* put it there, unless the pass that stored it is known to have ended before it could
\* or an undo cleared the list with the fact on it (add_produced_facts,
\* create_run_if_absent, rearm_run, undo_autopilot_run).
THEOREM FactsAreListedHolds == AutoSpec => []FactsAreListed
BY AutoInitInv, AutoStep, PTL DEF AutoSpec, AutoInv

\* A run loses neither its way nor its facts (run_stage, enqueue_stage,
\* add_produced_facts, create_run_if_absent).
THEOREM PipelineIsSoundHolds == AutoSpec => []PipelineIsSound
BY NoRunIsLeftUndrivenHolds, FactsAreListedHolds, PTL DEF PipelineIsSound

=============================================================================
