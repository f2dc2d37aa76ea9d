----------------------- MODULE JobQueueDispatchProofs -----------------------
(* What holds over a dispatch of JobQueue: the per-source lock, and how     *)
(* often a handler is begun, for every set of jobs, threads and sources and *)
(* every bound.                                                             *)
EXTENDS JobQueueProofs, JobQueueHandlers

-----------------------------------------------------------------------------
\* What a thread's dispatch and the lock table know of each other.  The last
\* three conjuncts are the strengthening: a thread waits for a lock only of a
\* job that has a key, and once a panic dropped its lock it never holds it or
\* runs a handler again before the next claim.
Covers(w) ==
  LET v == worker[w] IN
  /\ \A s \in Source : locks[s] = w => v.pc \in Holding /\ SourceOf[v.job] = s
  /\ v.pc \in {"begin", "run"} /\ SourceOf[v.job] # NoSource => locks[SourceOf[v.job]] = w
  /\ v.pc = "lock" => SourceOf[v.job] # NoSource
  /\ v.pc \in {"lock", "begin", "run"} => ~v.arm
  /\ v.arm => \A s \in Source : locks[s] # w

LockInv == \A w \in Worker : Covers(w)

LEMMA LockInit == Init => LockInv
BY SourceAssumption DEF Init, LockInv, Covers, Idle

\* A step that keeps a thread's dispatch and its locks keeps what it covers.
LEMMA CoversFrame ==
  ASSUME TypeInv, NEW v \in Worker, Covers(v), worker'[v] = worker[v],
         \A s \in Source : locks'[s] = v <=> locks[s] = v
  PROVE  Covers(v)'
<1>1. worker[v].pc \in {"begin", "run"} /\ SourceOf[worker[v].job] # NoSource
        => SourceOf[worker[v].job] \in Source
  BY SourceAssumption DEF TypeInv, Engaged
<1> QED BY <1>1 DEF Covers

\* A step of one thread that takes or drops locks of its own only.
LEMMA CoversOthers ==
  ASSUME TypeInv, LockInv, NEW w \in Worker,
         \A v \in Worker : v # w => worker'[v] = worker[v],
         \A v \in Worker : v # w => \A s \in Source : locks'[s] = v <=> locks[s] = v,
         Covers(w)'
  PROVE  LockInv'
<1>1. ASSUME NEW v \in Worker, v # w PROVE Covers(v)'
  BY <1>1, CoversFrame DEF LockInv
<1> QED BY <1>1 DEF LockInv

LEMMA Released ==
  ASSUME TypeInv, NEW w \in Worker, locks' = Release(w)
  PROVE  /\ \A s \in Source : locks'[s] # w
         /\ \A v \in Worker : v # w => \A s \in Source : locks'[s] = v <=> locks[s] = v
BY SourceAssumption DEF Release, TypeInv, TypeOK

\* A thread that holds no lock and stands where it needs none is covered.
LEMMA CoversNothing ==
  ASSUME NEW w \in Worker, \A s \in Source : locks'[s] # w,
         worker'[w].pc \notin {"lock", "begin", "run"}
  PROVE  Covers(w)'
BY DEF Covers

\* A thread that moves on within its dispatch, with its locks, past the handler.
LEMMA CoversMove ==
  ASSUME TypeInv, LockInv, NEW w \in Worker, worker[w].pc \in Holding, UNCHANGED locks,
         worker' = [worker EXCEPT ![w] = worker'[w]],
         worker'[w].job = worker[w].job, worker'[w].arm = worker[w].arm,
         worker'[w].pc \in {"settle", "defer", "hooks"}
  PROVE  LockInv'
<1>1. Covers(w)'
  BY DEF LockInv, Covers, Holding
<1>2. \A v \in Worker : v # w => worker'[v] = worker[v]
  BY DEF TypeInv, TypeOK
<1> QED BY <1>1, <1>2, CoversOthers

\* A thread that ends its dispatch, or a part of it, without its locks.
LEMMA CoversRelease ==
  ASSUME TypeInv, LockInv, NEW w \in Worker, locks' = Release(w),
         worker' = [worker EXCEPT ![w] = worker'[w]],
         worker'[w].pc \notin {"lock", "begin", "run"}
  PROVE  LockInv'
<1>1. Covers(w)'
  BY Released, CoversNothing
<1>2. \A v \in Worker : v # w => worker'[v] = worker[v]
  BY DEF TypeInv, TypeOK
<1> QED BY <1>1, <1>2, CoversOthers, Released

\* A thread that holds nothing where it stands moves on without a lock.
LEMMA CoversBare ==
  ASSUME TypeInv, LockInv, NEW w \in Worker, UNCHANGED locks,
         \A s \in Source : locks[s] # w,
         worker' = [worker EXCEPT ![w] = worker'[w]],
         worker'[w].pc \notin {"lock", "begin", "run"}
  PROVE  LockInv'
<1>1. Covers(w)'
  BY CoversNothing
<1>2. \A v \in Worker : v # w => worker'[v] = worker[v]
  BY DEF TypeInv, TypeOK
<1> QED BY <1>1, <1>2, CoversOthers

LEMMA BareOutsideHolding ==
  ASSUME LockInv, NEW w \in Worker, worker[w].pc \notin Holding \/ worker[w].arm
  PROVE  \A s \in Source : locks[s] # w
BY DEF LockInv, Covers

-----------------------------------------------------------------------------
LEMMA ClaimCovers ==
  ASSUME TypeInv, LockInv, NEW w \in Worker, Claim(w) PROVE LockInv'
<1>1. PICK j \in Job :
        worker' = [worker EXCEPT ![w] =
          [Idle EXCEPT !.job = j,
                       !.pc = IF SourceOf[j] = NoSource THEN "begin" ELSE "lock"]]
  BY DEF Claim
<1> DEFINE x == [Idle EXCEPT !.job = j,
                             !.pc = IF SourceOf[j] = NoSource THEN "begin" ELSE "lock"]
<1>2. /\ x.job = j /\ x.arm = FALSE
      /\ x.pc = IF SourceOf[j] = NoSource THEN "begin" ELSE "lock"
  BY DEF Idle
<1>3. worker'[w] = x /\ \A v \in Worker : v # w => worker'[v] = worker[v]
  BY <1>1 DEF TypeInv, TypeOK
<1>4. \A s \in Source : locks[s] # w
  BY BareOutsideHolding DEF Claim, At, Holding
<1>5. UNCHANGED locks
  BY DEF Claim
<1> HIDE DEF x
<1>6. Covers(w)'
  BY <1>2, <1>3, <1>4, <1>5 DEF Covers
<1> QED BY <1>3, <1>5, <1>6, CoversOthers

LEMMA AcquireCovers ==
  ASSUME TypeInv, LockInv, NEW w \in Worker, AcquireSource(w) PROVE LockInv'
<1> DEFINE s == SourceOf[worker[w].job]
<1>1. worker[w].pc = "lock" /\ worker[w].job \in Job
  BY DEF AcquireSource, At, TypeInv, Engaged
<1>2. s \in Source /\ ~worker[w].arm /\ \A r \in Source : locks[r] # w
  <2>1. SourceOf[worker[w].job] # NoSource /\ ~worker[w].arm
    BY <1>1 DEF LockInv, Covers
  <2>2. \A r \in Source : locks[r] # w
    BY <1>1, BareOutsideHolding DEF Holding
  <2> QED BY <1>1, <2>1, <2>2, SourceAssumption
<1>3. CASE locks[s] = Free /\ locks' = [locks EXCEPT ![s] = w] /\ Goto(w, "begin")
  <2>1. worker'[w].pc = "begin" /\ worker'[w].job = worker[w].job /\ worker'[w].arm = worker[w].arm
    BY <1>3 DEF Goto, TypeInv, TypeOK, WorkerState
  <2>2. \A v \in Worker : v # w => worker'[v] = worker[v]
    BY <1>3 DEF Goto, TypeInv, TypeOK
  <2>3. \A r \in Source : locks'[r] = IF r = s THEN w ELSE locks[r]
    BY <1>3 DEF TypeInv, TypeOK
  <2>4. Covers(w)'
    BY <1>2, <2>1, <2>3 DEF Covers, Holding
  <2>5. \A v \in Worker : v # w => \A r \in Source : locks'[r] = v <=> locks[r] = v
    BY <1>3, <2>3, SourceAssumption
  <2> QED BY <2>2, <2>4, <2>5, CoversOthers
<1>4. CASE UNCHANGED locks /\ Goto(w, "defer")
  <2>1. worker' = [worker EXCEPT ![w] = worker'[w]] /\ worker'[w].pc = "defer"
    BY <1>4 DEF Goto, TypeInv, TypeOK, WorkerState
  <2> QED BY <1>2, <1>4, <2>1, CoversBare
<1> QED BY <1>3, <1>4 DEF AcquireSource, TryAcquire

LEMMA BeginCovers ==
  ASSUME TypeInv, LockInv, NEW w \in Worker, BeginAttempt(w) PROVE LockInv'
<1>1. UNCHANGED locks /\ worker[w].pc = "begin"
  BY DEF BeginAttempt, At
<1>2. /\ \A v \in Worker : v # w => worker'[v] = worker[v]
      /\ worker'[w].pc = "run" /\ worker'[w].job = worker[w].job
      /\ worker'[w].arm = worker[w].arm
  <2>1. CASE worker[w].job \in Recorded
    <3>1. worker' = [worker EXCEPT ![w].pc = "run", ![w].run = NewRun(worker[w].job).id]
      BY <2>1 DEF BeginAttempt
    <3> QED BY <3>1 DEF TypeInv, TypeOK, WorkerState
  <2>2. CASE worker[w].job \notin Recorded
    <3>1. Goto(w, "run")
      BY <2>2 DEF BeginAttempt
    <3> QED BY <3>1 DEF Goto, TypeInv, TypeOK, WorkerState
  <2> QED BY <2>1, <2>2
<1>3. Covers(w)'
  BY <1>1, <1>2 DEF LockInv, Covers, Holding
<1> QED BY <1>1, <1>2, <1>3, CoversOthers

\* What follows a committed settle, at a thread whose guard may hold the lock.
LEMMA AfterSettleCovers ==
  ASSUME TypeInv, LockInv, NEW w \in Worker, AfterSettle(w),
         worker[w].pc \in Holding \/ \A s \in Source : locks[s] # w
  PROVE  LockInv'
<1>1. CASE Goto(w, "hooks") /\ UNCHANGED locks
  <2>1. /\ worker' = [worker EXCEPT ![w] = worker'[w]]
        /\ worker'[w].job = worker[w].job /\ worker'[w].arm = worker[w].arm
        /\ worker'[w].pc = "hooks"
    BY <1>1 DEF Goto, TypeInv, TypeOK, WorkerState
  <2> QED BY <1>1, <2>1, CoversMove, CoversBare
<1>2. CASE worker' = [worker EXCEPT ![w] = Idle] /\ locks' = Release(w)
  <2>1. worker' = [worker EXCEPT ![w] = worker'[w]] /\ worker'[w].pc = "idle"
    BY <1>2 DEF Idle, TypeInv, TypeOK
  <2> QED BY <1>2, <2>1, CoversRelease
<1> QED BY <1>1, <1>2 DEF AfterSettle

LEMMA SettlingCovers ==
  ASSUME TypeInv, LockInv, NEW w \in Worker,
         Settle(w) \/ Defer(w) \/ DropGuard(w) \/ Unwind(w) \/ TerminalHooks(w) \/ RunHandler(w)
  PROVE  LockInv'
<1>1. CASE Settle(w)
  BY <1>1, AfterSettleCovers DEF Settle, At, Holding
<1>2. CASE Defer(w) \/ TerminalHooks(w)
  <2>1. locks' = Release(w) /\ worker' = [worker EXCEPT ![w] = Idle]
    BY <1>2 DEF Defer, TerminalHooks
  <2>2. worker' = [worker EXCEPT ![w] = worker'[w]] /\ worker'[w].pc = "idle"
    BY <2>1 DEF Idle, TypeInv, TypeOK
  <2> QED BY <2>1, <2>2, CoversRelease
<1>3. CASE DropGuard(w)
  <2>1. \A s \in Source : locks[s] # w
    BY <1>3, BareOutsideHolding DEF DropGuard, At, Holding
  <2> QED BY <1>3, <2>1, AfterSettleCovers DEF DropGuard
<1>4. CASE Unwind(w)
  <2>1. \A s \in Source : locks[s] # w
    BY <1>4, BareOutsideHolding DEF Unwind, At, Holding
  <2>2. /\ worker' = [worker EXCEPT ![w] = worker'[w]] /\ worker'[w].pc = "dead"
        /\ UNCHANGED locks
    BY <1>4 DEF Unwind, Dead, Idle, TypeInv, TypeOK
  <2> QED BY <2>1, <2>2, CoversBare
<1>5. CASE RunHandler(w)
  <2>1. PICK ok \in BOOLEAN : worker' = [worker EXCEPT ![w].pc = "settle", ![w].ok = ok]
    BY <1>5 DEF RunHandler
  <2>2. /\ worker' = [worker EXCEPT ![w] = worker'[w]]
        /\ worker'[w].job = worker[w].job /\ worker'[w].arm = worker[w].arm
        /\ worker'[w].pc = "settle"
    BY <2>1 DEF TypeInv, TypeOK, WorkerState
  <2>3. worker[w].pc \in Holding /\ UNCHANGED locks
    BY <1>5 DEF RunHandler, At, Holding
  <2> QED BY <2>2, <2>3, CoversMove
<1> QED BY <1>1, <1>2, <1>3, <1>4, <1>5

LEMMA TroubleCovers ==
  ASSUME TypeInv, LockInv, NEW w \in Worker, Trouble(w) PROVE LockInv'
<1>1. CASE BeginAttemptFails(w)
  <2>1. /\ worker' = [worker EXCEPT ![w] = worker'[w]]
        /\ worker'[w].job = worker[w].job /\ worker'[w].arm = worker[w].arm
        /\ worker'[w].pc = "defer"
    BY <1>1 DEF BeginAttemptFails, Goto, TypeInv, TypeOK, WorkerState
  <2>2. worker[w].pc \in Holding /\ UNCHANGED locks
    BY <1>1 DEF BeginAttemptFails, At, Holding
  <2> QED BY <2>1, <2>2, CoversMove
<1>2. CASE SettleFails(w)
  <2>1. worker[w].pc \in {"settle", "defer"}
    BY <1>2 DEF SettleFails, At
  <2>2. CASE worker' = [worker EXCEPT ![w].tries = 1] /\ UNCHANGED locks
    <3>1. /\ worker' = [worker EXCEPT ![w] = worker'[w]]
          /\ worker'[w].job = worker[w].job /\ worker'[w].arm = worker[w].arm
          /\ worker'[w].pc = worker[w].pc
      BY <2>2 DEF TypeInv, TypeOK, WorkerState
    <3> QED BY <2>1, <2>2, <3>1, CoversMove DEF Holding
  <2>3. CASE Unrecovered(w)
    <3>1. /\ worker' = [worker EXCEPT ![w] = worker'[w]] /\ worker'[w].pc = "drop"
          /\ locks' = Release(w)
      BY <2>3 DEF Unrecovered, Goto, TypeInv, TypeOK, WorkerState
    <3> QED BY <3>1, CoversRelease
  <2> QED BY <1>2, <2>2, <2>3 DEF SettleFails
<1>3. CASE Panic(w)
  <2>1. worker' = [worker EXCEPT ![w].pc = "settle", ![w].arm = TRUE, ![w].tries = 0]
        /\ locks' = Release(w)
    BY <1>3 DEF Panic
  <2>2. worker' = [worker EXCEPT ![w] = worker'[w]] /\ worker'[w].pc = "settle"
    BY <2>1 DEF TypeInv, TypeOK, WorkerState
  <2> QED BY <2>1, <2>2, CoversRelease
<1>4. CASE PanicAgain(w)
  <2>1. /\ worker' = [worker EXCEPT ![w] = worker'[w]] /\ worker'[w].pc = "unwind"
        /\ UNCHANGED locks
    BY <1>4 DEF PanicAgain, Goto, TypeInv, TypeOK, WorkerState
  <2>2. \A s \in Source : locks[s] # w
    BY <1>4, BareOutsideHolding DEF PanicAgain
  <2> QED BY <2>1, <2>2, CoversBare
<1>5. CASE DropFails(w)
  <2>1. /\ worker' = [worker EXCEPT ![w] = IF @.pc = "drop" THEN Idle ELSE Dead]
        /\ UNCHANGED locks
    BY <1>5 DEF DropFails
  <2>2. Idle.pc = "idle" /\ Dead.pc = "dead"
    BY DEF Idle, Dead
  <2>3. worker' = [worker EXCEPT ![w] = worker'[w]] /\ worker'[w].pc \in {"idle", "dead"}
    BY <2>1, <2>2 DEF TypeInv, TypeOK
  <2>4. \A s \in Source : locks[s] # w
    BY <1>5, BareOutsideHolding DEF DropFails, At, Holding
  <2> QED BY <2>1, <2>3, <2>4, CoversBare
<1> QED BY <1>1, <1>2, <1>3, <1>4, <1>5 DEF Trouble

LEMMA CommandCovers ==
  ASSUME TypeInv, LockInv, NEW s \in Source, Command(s) PROVE LockInv'
<1>1. UNCHANGED worker
  BY DEF Command, OnDemandStart, OnDemandEnd, ManualStart, ManualEnd
<1>2. \A v \in Worker : \A r \in Source : locks'[r] = v <=> locks[r] = v
  <2>1. CASE locks' = [locks EXCEPT ![s] = OnDemand] /\ locks[s] = Free
    BY <2>1, SourceAssumption DEF TypeInv, TypeOK
  <2>2. CASE locks' = [locks EXCEPT ![s] = Free] /\ locks[s] = OnDemand
    BY <2>2, SourceAssumption DEF TypeInv, TypeOK
  <2>3. CASE UNCHANGED locks
    BY <2>3
  <2> QED BY <2>1, <2>2, <2>3 DEF Command, OnDemandStart, OnDemandEnd, ManualStart, ManualEnd
<1> QED BY <1>1, <1>2, CoversFrame DEF LockInv

LEMMA LockStep == TypeInv /\ LockInv /\ [Next]_vars => LockInv'
<1> SUFFICES ASSUME TypeInv, LockInv, [Next]_vars PROVE LockInv'
  OBVIOUS
<1>1. CASE UNCHANGED <<worker, locks>>
  BY <1>1, CoversFrame DEF LockInv
<1>2. ASSUME NEW j \in Job, Producer(j) \/ BackoffElapses(j) PROVE LockInv'
  BY <1>1, <1>2 DEF Producer, Enqueue, Reschedule, BackoffElapses, volatile
<1>3. CASE Start
  BY <1>1, <1>3 DEF Start, DeadLetter, Requeue, ReclaimFails, Interrupt
<1>4. CASE Crash
  <2>1. \A s \in Source : locks'[s] = Free
    BY <1>4 DEF Crash
  <2>2. \A w \in Worker : worker'[w].pc = "idle"
    BY <1>4 DEF Crash, Idle
  <2> QED BY <2>1, <2>2, SourceAssumption DEF LockInv, Covers
<1>5. CASE UNCHANGED vars
  BY <1>1, <1>5 DEF vars, volatile
<1> QED
  BY <1>2, <1>3, <1>4, <1>5, ClaimCovers, AcquireCovers, BeginCovers, SettlingCovers,
     TroubleCovers, CommandCovers
  DEF Next, Progress

LEMMA LockCorrect == Spec => [](TypeInv /\ LockInv)
BY TypeInit, TypeStep, LockInit, LockStep, PTL DEF Spec

-----------------------------------------------------------------------------
\* Every lock in sources_in_flight has a holder that will still drop it: no path
\* of a dispatch, a panic and a failed settle included, leaks one.
THEOREM NoLeakedLockHolds == Spec => []NoLeakedLock
<1>1. LockInv => NoLeakedLock
  BY DEF LockInv, Covers, NoLeakedLock
<1> QED BY <1>1, LockCorrect, PTL

\* Handlers of jobs with one serialization key never run at once, nor beside the
\* command that takes the key.
THEOREM OneRefreshPerSourceHolds == Spec => []OneRefreshPerSource
<1>1. ASSUME LockInv PROVE OneRefreshPerSource
  <2>1. ASSUME NEW s \in Source, NEW w \in Refreshing(s) PROVE w \in Worker /\ locks[s] = w
    BY <1>1, <2>1, SourceAssumption DEF Refreshing, At, LockInv, Covers
  <2> QED BY <2>1, SourceAssumption DEF OneRefreshPerSource
<1> QED BY <1>1, LockCorrect, PTL

\* The two together (SourceRefreshGuard, try_acquire_source).
THEOREM SourceLockIsSoundHolds == Spec => []SourceLockIsSound
BY OneRefreshPerSourceHolds, NoLeakedLockHolds, PTL DEF SourceLockIsSound

-----------------------------------------------------------------------------
(* How often a handler is begun. *)

\* The threads that have claimed a job and not begun its handler.
Before == {"lock", "begin", "run", "defer"}

\* HandlerIsBounded is not inductive: a deferral lowers attempts.  It is only
\* reached from before the handler, and an attempt in hand there is not used.
Used(j) ==
  /\ begun[j] <= row[j].attempts
  /\ \A w \in Worker :
       worker[w].job = j /\ worker[w].pc \in Before => begun[j] < row[j].attempts

HandlerInv == begun \in [Job -> Nat] /\ \A j \in Job : Used(j)

LEMMA HandlerInitInv == HandlerInit => HandlerInv
BY DEF HandlerInit, Init, HandlerInv, Used, Idle, Before

\* A step that keeps counts and attempts and takes nobody back to where the
\* handler is still to come.
LEMMA UsedFrame ==
  ASSUME HandlerInv, UNCHANGED begun,
         \A j \in Job : row'[j].attempts = row[j].attempts,
         \A w \in Worker : worker'[w].pc \in Before =>
             worker'[w].job = worker[w].job /\ worker[w].pc \in Before
  PROVE  HandlerInv'
BY DEF HandlerInv, Used

\* Where the handler is still to come, the row is owned.
LEMMA BeforeOwns ==
  ASSUME NEW w \in Worker, NEW j \in Job, worker[w].job = j, worker[w].pc \in Before
  PROVE  Owns(w, j)
BY DEF Owns, Armed, Before

LEMMA SettledKeepsAttempts ==
  ASSUME TypeOK, NEW j \in Job, NEW run, NEW ok, MarkWithRun(j, run, ok)
  PROVE  \A k \in Job : row'[k].attempts = row[k].attempts
<1>1. row' = [row EXCEPT ![j].status = SettledStatus(j, ok), ![j].due = FALSE]
  BY DEF MarkWithRun
<1> QED BY <1>1 DEF TypeOK, Row

LEMMA ArmsStep ==
  ASSUME TypeInv, Ownership, HandlerInv, NEW j \in Job, Arms(j)
  PROVE  HandlerInv'
<1>1. /\ row' = [row EXCEPT ![j] = Fresh] /\ UNCHANGED worker
      /\ begun' = [begun EXCEPT ![j] = 0] /\ ~Running(j)
  BY DEF Arms, Producer, Enqueue, Reschedule, Rearmable, Running, volatile
<1>2. \A w \in Worker : ~(worker[w].job = j /\ worker[w].pc \in Before)
  BY <1>1, BeforeOwns DEF Ownership, ExclusiveOwnership
<1>3. begun' \in [Job -> Nat] /\ \A k \in Job \ {j} : begun'[k] = begun[k] /\ row'[k] = row[k]
  BY <1>1 DEF HandlerInv, TypeInv, TypeOK
<1>4. begun'[j] = 0 /\ row'[j].attempts = 0
  BY <1>1 DEF HandlerInv, TypeInv, TypeOK, Fresh
<1> QED BY <1>1, <1>2, <1>3, <1>4 DEF HandlerInv, Used

LEMMA BeginsStep ==
  ASSUME TypeInv, Ownership, HandlerInv, NEW w \in Worker, Begins(w)
  PROVE  HandlerInv'
<1> DEFINE j == worker[w].job
<1>1. /\ worker[w].pc = "run" /\ j \in Job /\ UNCHANGED row
      /\ begun' = [begun EXCEPT ![j] = @ + 1]
      /\ \E ok \in BOOLEAN : worker' = [worker EXCEPT ![w].pc = "settle", ![w].ok = ok]
  BY DEF Begins, RunHandler, At, durable, TypeInv, Engaged
<1>2. /\ worker'[w].pc = "settle"
      /\ \A v \in Worker \ {w} : worker'[v] = worker[v]
  BY <1>1 DEF TypeInv, TypeOK, WorkerState
<1>3. \A v \in Worker \ {w} : ~(worker[v].job = j /\ worker[v].pc \in Before)
  BY <1>1, BeforeOwns DEF Ownership, ExclusiveOwnership, Before
<1>4. begun[j] < row[j].attempts /\ row[j].attempts \in Nat /\ begun[j] \in Nat
  BY <1>1 DEF HandlerInv, Used, Before, TypeInv, TypeOK, Row
<1>5. /\ begun' \in [Job -> Nat] /\ begun'[j] = begun[j] + 1
      /\ \A k \in Job \ {j} : begun'[k] = begun[k]
  BY <1>1, <1>4 DEF HandlerInv
<1>6. ASSUME NEW k \in Job PROVE Used(k)'
  <2>1. CASE k = j
    <3>1. \A v \in Worker : ~(worker'[v].job = j /\ worker'[v].pc \in Before)
      BY <1>2, <1>3 DEF Before
    <3>2. begun'[j] <= row'[j].attempts
      BY <1>1, <1>4, <1>5
    <3> QED BY <2>1, <3>1, <3>2 DEF Used
  <2>2. CASE k # j
    <3>1. \A v \in Worker : worker'[v].pc \in Before => worker'[v] = worker[v]
      BY <1>2 DEF Before
    <3> QED BY <1>1, <1>5, <2>2, <3>1 DEF HandlerInv, Used
  <2> QED BY <2>1, <2>2
<1> QED BY <1>5, <1>6 DEF HandlerInv

LEMMA ClaimUses ==
  ASSUME TypeInv, Ownership, HandlerInv, NEW w \in Worker, Claim(w), UNCHANGED begun
  PROVE  HandlerInv'
<1>1. PICK j \in Job :
        /\ Claimable(j, LaneOf[w])
        /\ row' = [row EXCEPT ![j] = [status |-> "running", due |-> FALSE,
                                      attempts |-> @.attempts + 1]]
        /\ worker' = [worker EXCEPT ![w] =
             [Idle EXCEPT !.job = j,
                          !.pc = IF SourceOf[j] = NoSource THEN "begin" ELSE "lock"]]
  BY DEF Claim
<1>2. /\ \A k \in Job \ {j} : row'[k] = row[k]
      /\ row'[j].attempts = row[j].attempts + 1
      /\ row[j].attempts \in Nat /\ begun[j] \in Nat
  BY <1>1 DEF TypeInv, TypeOK, Row, HandlerInv
<1>3. worker'[w].job = j /\ \A v \in Worker \ {w} : worker'[v] = worker[v]
  BY <1>1 DEF TypeInv, TypeOK, Idle
<1>4. ASSUME NEW k \in Job PROVE Used(k)'
  <2>1. CASE k = j
    BY <1>2, <2>1 DEF HandlerInv, Used
  <2>2. CASE k # j
    <3>1. \A v \in Worker : worker'[v].job = k => worker'[v] = worker[v]
      BY <1>3, <2>2
    <3> QED BY <1>2, <2>2, <3>1 DEF HandlerInv, Used
  <2> QED BY <2>1, <2>2
<1> QED BY <1>4 DEF HandlerInv

LEMMA DeferRefunds ==
  ASSUME TypeInv, Ownership, HandlerInv, NEW w \in Worker, Defer(w), UNCHANGED begun
  PROVE  HandlerInv'
<1> DEFINE j == worker[w].job
<1>1. /\ worker[w].pc = "defer" /\ j \in Job
      /\ row' = [row EXCEPT ![j] =
             [status |-> "pending", due |-> FALSE, attempts |-> Refunded(@.attempts)]]
      /\ worker' = [worker EXCEPT ![w] = Idle]
  BY DEF Defer, At, TypeInv, Engaged
<1>2. begun[j] < row[j].attempts /\ row[j].attempts \in Nat /\ begun[j] \in Nat
  BY <1>1 DEF HandlerInv, Used, Before, TypeInv, TypeOK, Row
<1>3. /\ \A k \in Job \ {j} : row'[k] = row[k]
      /\ row'[j].attempts = row[j].attempts - 1
  BY <1>1, <1>2 DEF TypeInv, TypeOK, Refunded
<1>4. worker'[w].pc = "idle" /\ \A v \in Worker \ {w} : worker'[v] = worker[v]
  BY <1>1 DEF TypeInv, TypeOK, Idle
<1>5. \A v \in Worker \ {w} : ~(worker[v].job = j /\ worker[v].pc \in Before)
  BY <1>1, BeforeOwns DEF Ownership, ExclusiveOwnership, Before
<1>6. ASSUME NEW k \in Job PROVE Used(k)'
  <2>1. \A v \in Worker : worker'[v].pc \in Before => v # w /\ worker'[v] = worker[v]
    BY <1>4 DEF Before
  <2>2. CASE k = j
    BY <1>2, <1>3, <1>5, <2>1, <2>2 DEF HandlerInv, Used
  <2>3. CASE k # j
    BY <1>3, <2>1, <2>3 DEF HandlerInv, Used
  <2> QED BY <2>2, <2>3
<1> QED BY <1>6 DEF HandlerInv

LEMMA HandlerStep ==
  TypeInv /\ Ownership /\ HandlerInv /\ [HandlerNext]_handlerVars => HandlerInv'
<1> SUFFICES ASSUME TypeInv, Ownership, HandlerInv, [HandlerNext]_handlerVars
             PROVE  HandlerInv'
  OBVIOUS
<1>a. TypeOK /\ Engaged
  BY DEF TypeInv
<1>1. CASE UNCHANGED begun /\ UNCHANGED <<row, worker>>
  BY <1>1, UsedFrame
<1>2. ASSUME NEW j \in Job, BackoffElapses(j), UNCHANGED begun PROVE HandlerInv'
  <2>1. UNCHANGED worker /\ \A k \in Job : row'[k].attempts = row[k].attempts
    BY <1>2, <1>a DEF BackoffElapses, volatile, TypeOK, Row
  <2> QED BY <1>2, <2>1, UsedFrame
<1>3. ASSUME NEW w \in Worker, UNCHANGED begun,
             \/ AcquireSource(w) \/ BeginAttempt(w) \/ BeginAttemptFails(w)
             \/ SettleFails(w) \/ Panic(w) \/ PanicAgain(w) \/ DropFails(w)
             \/ TerminalHooks(w)
      PROVE  HandlerInv'
  <2>1. UNCHANGED row
    BY <1>3 DEF AcquireSource, BeginAttempt, BeginAttemptFails, SettleFails, Panic, PanicAgain,
                DropFails, TerminalHooks, durable
  <2>2. \A v \in Worker : worker'[v].pc \in Before =>
          worker'[v].job = worker[v].job /\ worker[v].pc \in Before
    BY <1>3, <1>a DEF AcquireSource, TryAcquire, BeginAttempt, BeginAttemptFails, SettleFails,
                      Unrecovered, Panic, PanicAgain, DropFails, TerminalHooks, At, Goto, Before,
                      Idle, Dead, TypeOK, WorkerState
  <2> QED BY <1>3, <2>1, <2>2, UsedFrame
<1>4. ASSUME NEW w \in Worker, UNCHANGED begun, Settle(w) \/ DropGuard(w) \/ Unwind(w)
      PROVE  HandlerInv'
  <2>1. worker[w].job \in Job
    BY <1>4, <1>a DEF Settle, DropGuard, Unwind, At, Engaged
  <2>2. \A k \in Job : row'[k].attempts = row[k].attempts
    BY <1>4, <1>a, <2>1, SettledKeepsAttempts DEF Settle, DropGuard, Unwind
  <2>3. \A v \in Worker : worker'[v].pc \in Before =>
          worker'[v].job = worker[v].job /\ worker[v].pc \in Before
    BY <1>4, <1>a DEF Settle, DropGuard, Unwind, AfterSettle, Goto, Before, Idle, Dead, TypeOK,
                      WorkerState
  <2> QED BY <1>4, <2>2, <2>3, UsedFrame
<1>5. ASSUME NEW s \in Source, Command(s), UNCHANGED begun PROVE HandlerInv'
  BY <1>1, <1>5 DEF Command, OnDemandStart, OnDemandEnd, ManualStart, ManualEnd, durable
<1>6. ASSUME Start, UNCHANGED begun PROVE HandlerInv'
  <2>1. UNCHANGED worker /\ \A k \in Job : row'[k].attempts = row[k].attempts
    <3>1. CASE DeadLetter
      BY <3>1, <1>a DEF DeadLetter, TypeOK, Row
    <3>2. CASE Requeue
      BY <3>2, <1>a DEF Requeue, TypeOK, Row
    <3>3. CASE ReclaimFails \/ Interrupt
      BY <3>3 DEF ReclaimFails, Interrupt, durable
    <3> QED BY <1>6, <3>1, <3>2, <3>3 DEF Start
  <2> QED BY <1>6, <2>1, UsedFrame
<1>7. ASSUME Crash, UNCHANGED begun PROVE HandlerInv'
  <2>1. UNCHANGED row /\ \A w \in Worker : worker'[w].pc \notin Before
    BY <1>7 DEF Crash, durable, Idle, Before
  <2> QED BY <1>7, <2>1, UsedFrame
<1>8. CASE UNCHANGED handlerVars
  BY <1>1, <1>8 DEF handlerVars, vars, durable, volatile
<1>9. CASE Elsewhere
  BY <1>2, <1>3, <1>4, <1>5, <1>6, <1>7, <1>9, ClaimUses, DeferRefunds
  DEF Elsewhere, Next, Progress, Trouble
<1> QED BY <1>8, <1>9, ArmsStep, BeginsStep DEF HandlerNext

LEMMA HandlerIsQueue == HandlerSpec => Spec
<1>1. HandlerInit => Init
  BY DEF HandlerInit
<1>2. [HandlerNext]_handlerVars => [Next]_vars
  BY DEF HandlerNext, Arms, Begins, Elsewhere, handlerVars, Next, Progress
<1> QED BY <1>1, <1>2, PTL DEF HandlerSpec, Spec

\* A handler is begun at most max_attempts times for each arming of its job,
\* whatever fails, panics or is cut off between its claim and its settle.
THEOREM HandlerIsBoundedHolds == HandlerSpec => []HandlerIsBounded
<1>1. TypeInv /\ Ownership /\ [Next]_vars => TypeInv' /\ Ownership'
  BY TypeStep, OwnershipStep
<1>2. [HandlerNext]_handlerVars => [Next]_vars
  BY DEF HandlerNext, Arms, Begins, Elsewhere, handlerVars, Next, Progress
<1>3. HandlerInit => TypeInv /\ Ownership /\ HandlerInv
  BY TypeInit, OwnershipInit, HandlerInitInv DEF HandlerInit
<1>4. HandlerSpec => []HandlerInv
  BY <1>1, <1>2, <1>3, HandlerStep, PTL DEF HandlerSpec
<1>5. HandlerInv /\ RetryBudget => HandlerIsBounded
  BY DEF HandlerInv, Used, RetryBudget, HandlerIsBounded
<1> QED BY <1>4, <1>5, HandlerIsQueue, RetryBudgetHolds, PTL
=============================================================================
