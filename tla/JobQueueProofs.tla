-------------------------- MODULE JobQueueProofs --------------------------
(* What holds of JobQueue for every set of jobs, threads and sources and   *)
(* every bound.                                                            *)
EXTENDS JobQueueContract, TLAPS, FiniteSetTheorems

-----------------------------------------------------------------------------
(* Types. *)

\* A thread that is not idle or dead is engaged with a job: what the history
\* variables record of it is a job.
Engaged == \A w \in Worker : worker[w].pc \notin {"idle", "dead"} => worker[w].job \in Job

TypeInv == TypeOK /\ Engaged

\* The counters, the ledger's part of a settlement.
LEMMA SettleRunsType ==
  ASSUME TypeOK, NEW ids, NEW o \in Outcome, SettleRuns(ids, o)
  PROVE  /\ open' \subseteq OpenRun /\ finished' \subseteq FinishedRun
         /\ nextRun' \in Nat \ {0} /\ finishes' \in Nat
BY DEF TypeOK, SettleRuns, Newest, Finish, OpenRun, FinishedRun

LEMMA OutcomeType ==
  ASSUME NEW j, NEW ok PROVE SettledOutcome(j, ok) \in Outcome
BY DEF SettledOutcome, Outcome

LEMMA StatusType ==
  ASSUME NEW j, NEW ok
  PROVE  /\ SettledStatus(j, ok) \in RowStatus
         /\ SettledStatus(j, ok) \in {"succeeded", "pending", "failed"}
BY DEF SettledStatus, RowStatus, Terminal

\* One settlement keeps the rows, the ledger and everFailed typed.
LEMMA MarkWithRunType ==
  ASSUME TypeOK, NEW j \in Job, NEW run, NEW ok, MarkWithRun(j, run, ok)
  PROVE  /\ row' \in [Job -> Row] /\ older' \subseteq Job \X Job
         /\ open' \subseteq OpenRun /\ finished' \subseteq FinishedRun
         /\ nextRun' \in Nat \ {0} /\ finishes' \in Nat
         /\ events' \subseteq Job /\ everFailed' \subseteq Job
<1>1. row' \in [Job -> Row]
  BY StatusType DEF MarkWithRun, TypeOK, Row
<1>2. /\ open' \subseteq OpenRun /\ finished' \subseteq FinishedRun
      /\ nextRun' \in Nat \ {0} /\ finishes' \in Nat
  <2>1. CASE run = 0  BY <2>1 DEF MarkWithRun, ledger, TypeOK
  <2>2. CASE run # 0  BY <2>2, SettleRunsType, OutcomeType DEF MarkWithRun
  <2> QED BY <2>1, <2>2
<1>3. older' \subseteq Job \X Job /\ events' \subseteq Job /\ everFailed' \subseteq Job
  BY DEF MarkWithRun, TypeOK
<1> QED BY <1>1, <1>2, <1>3

LEMMA TypeInit == Init => TypeInv
BY JobAssumption, SourceAssumption, LedgerAssumption
DEF Init, TypeInv, TypeOK, Engaged, Row, RowStatus, Terminal, BootPhase, WorkerState, Idle, Pc

LEMMA IdleType == Idle \in WorkerState /\ Dead \in WorkerState
<1>1. Idle \in WorkerState
  BY DEF Idle, WorkerState, Pc
<1>2. ASSUME NEW x \in WorkerState PROVE [x EXCEPT !.pc = "dead"] \in WorkerState
  BY DEF WorkerState, Pc
<1> QED BY <1>1, <1>2 DEF Dead

LEMMA ReleaseType ==
  ASSUME TypeOK, NEW w PROVE Release(w) \in [Source -> Worker \cup {Free, OnDemand}]
BY DEF TypeOK, Release

\* A thread that only moves to another point of its dispatch stays typed.
LEMMA GotoType ==
  ASSUME TypeInv, NEW w \in Worker, NEW p \in Pc, Goto(w, p),
         p \in {"idle", "dead"} \/ worker[w].pc \notin {"idle", "dead"}
  PROVE  worker' \in [Worker -> WorkerState] /\ Engaged'
BY DEF TypeInv, TypeOK, Engaged, Goto, WorkerState

LEMMA AfterSettleType ==
  ASSUME TypeInv, NEW w \in Worker, worker[w].pc \notin {"idle", "dead"}, AfterSettle(w)
  PROVE  /\ worker' \in [Worker -> WorkerState] /\ Engaged'
         /\ locks' \in [Source -> Worker \cup {Free, OnDemand}]
<1>1. CASE SettledStatus(worker[w].job, worker[w].ok) = "failed"
  BY <1>1, GotoType DEF AfterSettle, Pc, TypeInv, TypeOK
<1>2. CASE SettledStatus(worker[w].job, worker[w].ok) # "failed"
  <2>1. worker' = [worker EXCEPT ![w] = Idle] /\ locks' = Release(w)
    BY <1>2 DEF AfterSettle
  <2>2. worker' \in [Worker -> WorkerState]
    BY <2>1, IdleType DEF TypeInv, TypeOK
  <2>3. Engaged'
    BY <2>1 DEF TypeInv, TypeOK, Engaged, Idle
  <2>4. locks' \in [Source -> Worker \cup {Free, OnDemand}]
    BY <2>1, ReleaseType DEF TypeInv
  <2> QED BY <2>2, <2>3, <2>4
<1> QED BY <1>1, <1>2

LEMMA TypeStep == TypeInv /\ [Next]_vars => TypeInv'
<1> SUFFICES ASSUME TypeInv, [Next]_vars PROVE TypeInv'
  OBVIOUS
<1> USE JobAssumption, SourceAssumption, LedgerAssumption DEF TypeInv
<1>1. ASSUME NEW j \in Job, Enqueue(j) PROVE TypeInv'
  BY <1>1 DEF Enqueue, TypeOK, Engaged, Row, RowStatus, Fresh, Arrive, Leave, IsDue, ledger, volatile, bounds, history
<1>2. ASSUME NEW j \in Job, Reschedule(j) PROVE TypeInv'
  BY <1>2 DEF Reschedule, TypeOK, Engaged, Row, RowStatus, Fresh, Arrive, Leave, IsDue, ledger, volatile, bounds, history
<1>3. ASSUME NEW j \in Job, BackoffElapses(j) PROVE TypeInv'
  <2>1. row' \in [Job -> Row]
    <3>1. [row[j] EXCEPT !.due = TRUE] \in Row
      BY DEF TypeInv, TypeOK, Row
    <3> QED BY <1>3, <3>1 DEF BackoffElapses, TypeInv, TypeOK
  <2>2. older' \subseteq Job \X Job
    BY <1>3 DEF BackoffElapses, TypeOK, Arrive, Leave, IsDue
  <2> QED BY <1>3, <2>1, <2>2
           DEF BackoffElapses, TypeOK, Engaged, ledger, volatile, bounds, history
<1>4. ASSUME NEW w \in Worker, Claim(w) PROVE TypeInv'
  <2>1. PICK j \in Job :
          /\ row' = [row EXCEPT ![j] = [status |-> "running", due |-> FALSE,
                                        attempts |-> @.attempts + 1]]
          /\ older' = Leave(j)
          /\ worker' = [worker EXCEPT ![w] =
               [Idle EXCEPT !.job = j,
                            !.pc = IF SourceOf[j] = NoSource THEN "begin" ELSE "lock"]]
    BY <1>4 DEF Claim
  <2>2. row' \in [Job -> Row] /\ older' \subseteq Job \X Job
    BY <2>1 DEF TypeOK, Row, RowStatus, Leave
  <2>3. worker' \in [Worker -> WorkerState] /\ Engaged'
    <3>1. ASSUME NEW x \in WorkerState, NEW p \in Pc
          PROVE  /\ [x EXCEPT !.job = j, !.pc = p] \in WorkerState
                 /\ [x EXCEPT !.job = j, !.pc = p].job = j
      BY DEF WorkerState
    <3> DEFINE y == [Idle EXCEPT !.job = j,
                                 !.pc = IF SourceOf[j] = NoSource THEN "begin" ELSE "lock"]
    <3>2. y \in WorkerState /\ y.job = j
      BY <3>1, IdleType DEF Pc
    <3>3. worker' = [worker EXCEPT ![w] = y]
      BY <2>1
    <3> HIDE DEF y
    <3> QED BY <3>2, <3>3 DEF TypeOK, Engaged
  <2> QED BY <1>4, <2>2, <2>3
           DEF Claim, TypeOK, ledger, bounds, history
<1>5. ASSUME NEW w \in Worker, AcquireSource(w) PROVE TypeInv'
  <2>1. worker' \in [Worker -> WorkerState] /\ Engaged'
    BY <1>5, GotoType DEF AcquireSource, TryAcquire, At, Pc
  <2>2. locks' \in [Source -> Worker \cup {Free, OnDemand}]
    BY <1>5 DEF AcquireSource, TryAcquire, TypeOK
  <2> QED BY <1>5, <2>1, <2>2
           DEF AcquireSource, TypeOK,
               durable, bounds, history
<1>6. ASSUME NEW w \in Worker, BeginAttempt(w) PROVE TypeInv'
  <2>1. worker[w].job \in Job
    BY <1>6 DEF BeginAttempt, At, Engaged
  <2>2. CASE worker[w].job \in Recorded
    <3>1. worker' \in [Worker -> WorkerState] /\ Engaged'
      BY <1>6, <2>2, SMTT(30) DEF BeginAttempt, NewRun, At, TypeOK, Engaged, WorkerState, Pc
    <3>2. open' \subseteq OpenRun /\ nextRun' \in Nat \ {0}
      BY <1>6, <2>1, <2>2 DEF BeginAttempt, NewRun, OpenRun, TypeOK
    <3> QED BY <1>6, <3>1, <3>2
             DEF BeginAttempt, TypeOK, bounds, history
  <2>3. CASE worker[w].job \notin Recorded
    <3>1. worker' \in [Worker -> WorkerState] /\ Engaged'
      BY <1>6, <2>3, GotoType DEF BeginAttempt, At, Pc
    <3> QED BY <1>6, <2>3, <3>1
             DEF BeginAttempt, TypeOK, bounds, history
  <2> QED BY <2>2, <2>3
<1>7. ASSUME NEW w \in Worker, BeginAttemptFails(w) PROVE TypeInv'
  BY <1>7 DEF BeginAttemptFails, Fault, TypeOK, Engaged, At, Goto, WorkerState, Pc, durable, history
<1>8. ASSUME NEW w \in Worker, RunHandler(w) PROVE TypeInv'
  <2>1. PICK ok \in BOOLEAN :
          worker' = [worker EXCEPT ![w].pc = "settle", ![w].ok = ok]
    BY <1>8 DEF RunHandler
  <2>2. worker' \in [Worker -> WorkerState] /\ Engaged'
    <3>1. ASSUME NEW x \in WorkerState PROVE [x EXCEPT !.pc = "settle"] \in WorkerState
      BY DEF WorkerState, Pc
    <3>2. ASSUME NEW x \in WorkerState PROVE [x EXCEPT !.ok = ok] \in WorkerState
      BY DEF WorkerState
    <3> DEFINE y == [[worker[w] EXCEPT !.pc = "settle"] EXCEPT !.ok = ok]
    <3>3. y \in WorkerState
      BY <3>1, <3>2 DEF TypeOK
    <3>4. worker' = [worker EXCEPT ![w] = y] /\ y.job = worker[w].job
      BY <2>1 DEF TypeOK, WorkerState
    <3> HIDE DEF y
    <3> QED BY <1>8, <3>3, <3>4 DEF RunHandler, TypeOK, Engaged, At
  <2> QED BY <1>8, <2>2 DEF RunHandler, TypeOK, durable, bounds, history
<1>9. ASSUME NEW w \in Worker, Settle(w) \/ DropGuard(w) PROVE TypeInv'
  <2>1. MarkWithRun(worker[w].job, worker[w].run, worker[w].ok) /\ AfterSettle(w)
    BY <1>9 DEF Settle, DropGuard
  <2>2. worker[w].pc \notin {"idle", "dead"} /\ worker[w].job \in Job
    BY <1>9 DEF Settle, DropGuard, At, Engaged
  <2>3. /\ row' \in [Job -> Row] /\ older' \subseteq Job \X Job
        /\ open' \subseteq OpenRun /\ finished' \subseteq FinishedRun
        /\ nextRun' \in Nat \ {0} /\ finishes' \in Nat
        /\ events' \subseteq Job /\ everFailed' \subseteq Job
    BY <2>1, <2>2, MarkWithRunType
  <2>4. /\ worker' \in [Worker -> WorkerState] /\ Engaged'
        /\ locks' \in [Source -> Worker \cup {Free, OnDemand}]
    BY <2>1, <2>2, AfterSettleType
  <2> QED BY <1>9, <2>3, <2>4
           DEF Settle, DropGuard, TypeOK, bounds
<1>10. ASSUME NEW w \in Worker, Defer(w) PROVE TypeInv'
  <2>1. worker[w].job \in Job
    BY <1>10 DEF Defer, At, Engaged
  <2>2. row' \in [Job -> Row]
    BY <1>10, <2>1 DEF Defer, TypeOK, Row, RowStatus, Refunded
  <2>3. worker' \in [Worker -> WorkerState] /\ Engaged'
    BY <1>10, IdleType DEF Defer, TypeOK, Engaged, Idle
  <2>4. locks' \in [Source -> Worker \cup {Free, OnDemand}]
    BY <1>10, ReleaseType DEF Defer
  <2> QED BY <1>10, <2>2, <2>3, <2>4
           DEF Defer, TypeOK, ledger, bounds, history
<1>11. ASSUME NEW w \in Worker, Unwind(w) PROVE TypeInv'
  <2>1. worker[w].job \in Job
    BY <1>11 DEF Unwind, At, Engaged
  <2>2. /\ row' \in [Job -> Row] /\ older' \subseteq Job \X Job
        /\ open' \subseteq OpenRun /\ finished' \subseteq FinishedRun
        /\ nextRun' \in Nat \ {0} /\ finishes' \in Nat
        /\ events' \subseteq Job /\ everFailed' \subseteq Job
    BY <1>11, <2>1, MarkWithRunType DEF Unwind
  <2>3. worker' \in [Worker -> WorkerState] /\ Engaged'
    BY <1>11, IdleType DEF Unwind, TypeOK, Engaged, Dead, Idle
  <2>4. silent' \subseteq Job
    BY <1>11, <2>1 DEF Unwind, TypeOK
  <2> QED BY <1>11, <2>2, <2>3, <2>4
           DEF Unwind, TypeOK, bounds
<1>12. ASSUME NEW w \in Worker, TerminalHooks(w) PROVE TypeInv'
  <2>1. worker' \in [Worker -> WorkerState] /\ Engaged'
    BY <1>12, IdleType DEF TerminalHooks, TypeOK, Engaged, Idle
  <2>2. locks' \in [Source -> Worker \cup {Free, OnDemand}]
    BY <1>12, ReleaseType DEF TerminalHooks
  <2>3. events' \subseteq Job /\ silent' \subseteq Job /\ faults' \in Nat /\ panics' \in Nat /\ crashes' \in Nat
    BY <1>12 DEF TerminalHooks, TypeOK, Fault, bounds
  <2> QED BY <1>12, <2>1, <2>2, <2>3
           DEF TerminalHooks, TypeOK, ledger
<1>13. ASSUME NEW w \in Worker, SettleFails(w) PROVE TypeInv'
  <2>1. worker' \in [Worker -> WorkerState] /\ Engaged'
    BY <1>13 DEF SettleFails, Unrecovered, At, Goto, TypeOK, Engaged, WorkerState, Pc
  <2>2. locks' \in [Source -> Worker \cup {Free, OnDemand}]
    BY <1>13, ReleaseType DEF SettleFails, Unrecovered, TypeOK
  <2> QED BY <1>13, <2>1, <2>2
           DEF SettleFails, Fault, TypeOK,
               durable, history
<1>14. ASSUME NEW w \in Worker, Panic(w) PROVE TypeInv'
  <2>1. worker' \in [Worker -> WorkerState] /\ Engaged'
    BY <1>14 DEF Panic, At, TypeOK, Engaged, WorkerState, Pc
  <2>2. locks' \in [Source -> Worker \cup {Free, OnDemand}]
    BY <1>14, ReleaseType DEF Panic
  <2> QED BY <1>14, <2>1, <2>2
           DEF Panic, Panics, TypeOK,
               durable, history
<1>15. ASSUME NEW w \in Worker, PanicAgain(w) PROVE TypeInv'
  BY <1>15, GotoType
  DEF PanicAgain, Panics, At, Pc, TypeOK,
      durable, history
<1>16. ASSUME NEW w \in Worker, DropFails(w) PROVE TypeInv'
  <2>1. worker[w].job \in Job
    BY <1>16 DEF DropFails, At, Engaged
  <2>2. worker' \in [Worker -> WorkerState] /\ Engaged'
    BY <1>16, IdleType DEF DropFails, TypeOK, Engaged, Dead, Idle
  <2>3. stranded' \subseteq Job /\ orphans' \subseteq Nat
    <3>1. \A r \in open : r.id \in Nat
      BY DEF TypeOK, OpenRun
    <3> DEFINE ids == {r.id : r \in {q \in open : q.id = worker[w].run}}
    <3>2. ids \subseteq Nat
      BY <3>1
    <3>3. stranded' = stranded \cup {worker[w].job} /\ orphans' = orphans \cup ids
      BY <1>16 DEF DropFails
    <3> HIDE DEF ids
    <3> QED BY <2>1, <3>2, <3>3 DEF TypeOK
  <2> QED BY <1>16, <2>2, <2>3
           DEF DropFails, Fault, TypeOK, durable
<1>17. ASSUME NEW s \in Source, Command(s) PROVE TypeInv'
  BY <1>17 DEF Command, OnDemandStart, OnDemandEnd, ManualStart, ManualEnd, TypeOK, Engaged,
               durable, bounds, history
<1>18. ASSUME Crash PROVE TypeInv'
  <2>1. worker' \in [Worker -> WorkerState] /\ Engaged'
    BY <1>18, IdleType DEF Crash, Engaged, Idle
  <2>2. silent' \subseteq Job
    BY <1>18 DEF Crash, TypeOK, Engaged
  <2> QED BY <1>18, <2>1, <2>2 DEF Crash, TypeOK, BootPhase, durable
<1>19. ASSUME DeadLetter PROVE TypeInv'
  BY <1>19 DEF DeadLetter, TypeOK, Engaged, BootPhase, Row, RowStatus, Terminal, ledger, bounds
<1>20. ASSUME Requeue PROVE TypeInv'
  <2>1. row' \in [Job -> Row] /\ older' \subseteq Job \X Job
    <3>1. ASSUME NEW j \in Job PROVE [row[j] EXCEPT !.status = "pending", !.due = TRUE] \in Row
      <4>1. row[j] \in Row
        BY DEF TypeInv, TypeOK
      <4> QED BY <4>1 DEF Row, RowStatus
    <3>2. row' \in [Job -> Row]
      BY <1>20, <3>1 DEF Requeue, TypeInv, TypeOK
    <3>3. older' \subseteq Job \X Job
      BY <1>20 DEF Requeue, TypeInv, TypeOK
    <3> QED BY <3>2, <3>3
  <2>2. boot' \in BootPhase /\ laneReady' \in BOOLEAN /\ faults' \in Nat /\ panics' \in Nat /\ crashes' \in Nat
    <3>1. boot' \in BootPhase
      BY <1>20 DEF Requeue, AfterReclaim, BootPhase
    <3>2. \/ UNCHANGED <<laneReady, bounds>>
          \/ laneReady' = FALSE /\ Fault
      BY <1>20 DEF Requeue
    <3>3. CASE UNCHANGED <<laneReady, bounds>>
      BY <3>1, <3>3 DEF TypeOK, bounds
    <3>4. CASE laneReady' = FALSE /\ Fault
      <4>1. laneReady' \in BOOLEAN
        BY <3>4
      <4>2. faults' \in Nat /\ panics' \in Nat /\ crashes' \in Nat
        BY <3>4 DEF Fault, TypeOK
      <4> QED BY <3>1, <4>1, <4>2
    <3> QED BY <3>2, <3>3, <3>4
  <2> QED BY <1>20, <2>1, <2>2 DEF Requeue, TypeOK, Engaged, ledger
<1>21. ASSUME ReclaimFails PROVE TypeInv'
  BY <1>21 DEF ReclaimFails, AfterReclaim, BootPhase, Fault, TypeOK, Engaged, durable
<1>22. ASSUME Interrupt PROVE TypeInv'
  <2>1. /\ open' \subseteq OpenRun /\ finished' \subseteq FinishedRun
      /\ nextRun' \in Nat \ {0} /\ finishes' \in Nat /\ orphans' \subseteq Nat /\ faults' \in Nat /\ panics' \in Nat /\ crashes' \in Nat
    <3>1. "interrupted" \in Outcome
      BY DEF Outcome
    <3> QED BY <1>22, <3>1, SettleRunsType
             DEF Interrupt, Fault, TypeOK, OpenRun, ledger, bounds
  <2> QED BY <1>22, <2>1
           DEF Interrupt, TypeOK, Engaged, BootPhase
<1>23. CASE UNCHANGED vars
  BY <1>23 DEF vars, durable, volatile, bounds, history, TypeOK, Engaged
<1> QED
  BY <1>1, <1>2, <1>3, <1>4, <1>5, <1>6, <1>7, <1>8, <1>9, <1>10, <1>11, <1>12, <1>13, <1>14,
     <1>15, <1>16, <1>17, <1>18, <1>19, <1>20, <1>21, <1>22, <1>23
  DEF Next, Producer, Progress, Trouble, Start

\* Every variable keeps its type, and what the threads work on are jobs.
THEOREM TypeCorrect == Spec => []TypeOK
<1>1. Spec => []TypeInv
  BY TypeInit, TypeStep, PTL DEF Spec
<1> QED BY <1>1, PTL DEF TypeInv

-----------------------------------------------------------------------------
(* Ownership of the rows. *)

\* ExclusiveOwnership is not inductive: a stranded row must stay running for
\* nobody to claim it, and nothing is owned while the process starts.
Ownership ==
  /\ ExclusiveOwnership
  /\ RunningRowIsWorkedOn
  /\ \A j \in stranded : Running(j)
  /\ \A w \in Worker, j \in Job : Owns(w, j) => boot = "up"

LEMMA OwnershipInit == Init => Ownership
BY DEF Init, Ownership, ExclusiveOwnership, RunningRowIsWorkedOn, Owns, Armed, Running, Idle

\* A step that moves no row in or out of running and no thread in or out of its
\* guard.
LEMMA OwnershipFrame ==
  ASSUME Ownership, stranded' = stranded, boot' = boot,
         \A j \in Job : Running(j)' <=> Running(j),
         \A w \in Worker, j \in Job : Owns(w, j)' <=> Owns(w, j),
         stranded \subseteq Job
  PROVE  Ownership'
BY DEF Ownership, ExclusiveOwnership, RunningRowIsWorkedOn

\* A step that settles, defers or gives up the row of thread w.
LEMMA OwnershipReleased ==
  ASSUME Ownership, stranded' = stranded, boot' = boot, stranded \subseteq Job,
         NEW w \in Worker, NEW j \in Job, Owns(w, j),
         \A k \in Job : Running(k)' <=> Running(k) /\ k # j,
         \A v \in Worker, k \in Job : Owns(v, k)' <=> Owns(v, k) /\ v # w
  PROVE  Ownership'
<1>1. \A k \in Job : Owns(w, k) => k = j
  BY DEF Owns
<1> QED BY <1>1 DEF Ownership, ExclusiveOwnership, RunningRowIsWorkedOn

\* What a settlement does to the row.
LEMMA MarkedRow ==
  ASSUME TypeOK, NEW j \in Job, NEW run, NEW ok, MarkWithRun(j, run, ok)
  PROVE  \A k \in Job : Running(k)' <=> Running(k) /\ k # j
<1>1. SettledStatus(j, ok) # "running"
  BY StatusType
<1>2. row' = [row EXCEPT ![j].status = SettledStatus(j, ok), ![j].due = FALSE]
  BY DEF MarkWithRun
<1> QED BY <1>1, <1>2 DEF TypeOK, Row, Running

\* What the end of a settlement does to the threads.
LEMMA SettledThread ==
  ASSUME TypeInv, NEW w \in Worker, AfterSettle(w)
  PROVE  \A v \in Worker, k \in Job : Owns(v, k)' <=> Owns(v, k) /\ v # w
BY DEF AfterSettle, Goto, Owns, Armed, Idle, TypeInv, TypeOK, WorkerState

LEMMA OwnershipStep == TypeInv /\ Ownership /\ [Next]_vars => Ownership'
<1> SUFFICES ASSUME TypeInv, Ownership, [Next]_vars PROVE Ownership'
  OBVIOUS
<1>a. stranded \subseteq Job /\ TypeOK /\ Engaged
  BY DEF TypeInv, TypeOK
<1>1. ASSUME NEW j \in Job, Producer(j) \/ BackoffElapses(j) PROVE Ownership'
  <2>1. \A k \in Job : Running(k)' <=> Running(k)
    BY <1>1, <1>a DEF Producer, Enqueue, Reschedule, Rearmable, BackoffElapses, Fresh,
                      Running, TypeOK, Row
  <2>2. UNCHANGED <<stranded, boot, worker>>
    BY <1>1 DEF Producer, Enqueue, Reschedule, BackoffElapses, volatile, history
  <2> QED BY <1>a, <2>1, <2>2, OwnershipFrame DEF Owns
<1>2. ASSUME NEW w \in Worker, Claim(w) PROVE Ownership'
  <2>1. PICK j \in Job :
          /\ Claimable(j, LaneOf[w])
          /\ row' = [row EXCEPT ![j] = [status |-> "running", due |-> FALSE,
                                        attempts |-> @.attempts + 1]]
          /\ worker' = [worker EXCEPT ![w] =
               [Idle EXCEPT !.job = j,
                            !.pc = IF SourceOf[j] = NoSource THEN "begin" ELSE "lock"]]
    BY <1>2 DEF Claim
  <2>2. ~Running(j) /\ \A k \in Job : Running(k)' <=> Running(k) \/ k = j
    BY <1>a, <2>1 DEF Claimable, IsDue, Running, TypeOK, Row
  <2>3. \A v \in Worker, k \in Job : Owns(v, k)' <=> (v # w /\ Owns(v, k)) \/ (v = w /\ k = j)
    BY <1>a, <2>1 DEF Owns, Armed, Idle, TypeOK
  <2>4. \A k \in Job : ~Owns(w, k)
    BY <1>2 DEF Claim, At, Owns, Armed
  <2>5. boot = "up" /\ UNCHANGED <<boot, stranded>>
    BY <1>2 DEF Claim, At, history
  <2> QED BY <1>a, <2>2, <2>3, <2>4, <2>5
          DEF Ownership, ExclusiveOwnership, RunningRowIsWorkedOn
<1>3. ASSUME NEW w \in Worker,
             \/ AcquireSource(w) \/ BeginAttempt(w) \/ BeginAttemptFails(w)
             \/ RunHandler(w) \/ Panic(w) \/ PanicAgain(w)
      PROVE  Ownership'
  <2>1. \A v \in Worker, k \in Job : Owns(v, k)' <=> Owns(v, k)
    BY <1>3, <1>a DEF AcquireSource, TryAcquire, BeginAttempt, BeginAttemptFails, RunHandler,
                      Panic, PanicAgain, At, Goto, Owns, Armed, TypeOK, WorkerState
  <2>2. UNCHANGED <<stranded, boot, row>>
    BY <1>3 DEF AcquireSource, BeginAttempt, BeginAttemptFails, RunHandler, Panic, PanicAgain,
                durable, history
  <2> QED BY <1>a, <2>1, <2>2, OwnershipFrame DEF Running
<1>4. ASSUME NEW w \in Worker, SettleFails(w) PROVE Ownership'
  <2>1. \A v \in Worker, k \in Job : Owns(v, k)' <=> Owns(v, k)
    BY <1>4, <1>a DEF SettleFails, Unrecovered, At, Goto, Owns, Armed, TypeOK, WorkerState
  <2>2. UNCHANGED <<stranded, boot, row>>
    BY <1>4 DEF SettleFails, durable, history
  <2> QED BY <1>a, <2>1, <2>2, OwnershipFrame DEF Running
<1>5. ASSUME NEW w \in Worker, Settle(w) \/ DropGuard(w) PROVE Ownership'
  <2>1. Owns(w, worker[w].job) /\ worker[w].job \in Job
    BY <1>5, <1>a DEF Settle, DropGuard, At, Owns, Armed, Engaged
  <2>2. /\ \A k \in Job : Running(k)' <=> Running(k) /\ k # worker[w].job
        /\ \A v \in Worker, k \in Job : Owns(v, k)' <=> Owns(v, k) /\ v # w
    BY <1>5, <1>a, <2>1, MarkedRow, SettledThread DEF Settle, DropGuard
  <2>3. UNCHANGED <<stranded, boot>>
    BY <1>5 DEF Settle, DropGuard
  <2> QED BY <1>a, <2>1, <2>2, <2>3, OwnershipReleased
<1>6. ASSUME NEW w \in Worker, Unwind(w) PROVE Ownership'
  <2>1. Owns(w, worker[w].job) /\ worker[w].job \in Job
    BY <1>6, <1>a DEF Unwind, At, Owns, Armed, Engaged
  <2>2. \A k \in Job : Running(k)' <=> Running(k) /\ k # worker[w].job
    BY <1>6, <1>a, <2>1, MarkedRow DEF Unwind
  <2>3. \A v \in Worker, k \in Job : Owns(v, k)' <=> Owns(v, k) /\ v # w
    BY <1>6, <1>a DEF Unwind, Owns, Armed, Dead, Idle, TypeOK, WorkerState
  <2>4. UNCHANGED <<stranded, boot>>
    BY <1>6 DEF Unwind
  <2> QED BY <1>a, <2>1, <2>2, <2>3, <2>4, OwnershipReleased
<1>7. ASSUME NEW w \in Worker, Defer(w) PROVE Ownership'
  <2>1. Owns(w, worker[w].job) /\ worker[w].job \in Job
    BY <1>7, <1>a DEF Defer, At, Owns, Armed, Engaged
  <2>2. \A k \in Job : Running(k)' <=> Running(k) /\ k # worker[w].job
    BY <1>7, <1>a, <2>1 DEF Defer, Running, TypeOK, Row
  <2>3. \A v \in Worker, k \in Job : Owns(v, k)' <=> Owns(v, k) /\ v # w
    BY <1>7, <1>a DEF Defer, Owns, Armed, Idle, TypeOK, WorkerState
  <2>4. UNCHANGED <<stranded, boot>>
    BY <1>7 DEF Defer, history
  <2> QED BY <1>a, <2>1, <2>2, <2>3, <2>4, OwnershipReleased
<1>8. ASSUME NEW w \in Worker, DropFails(w) PROVE Ownership'
  <2>1. Owns(w, worker[w].job) /\ worker[w].job \in Job
    BY <1>8, <1>a DEF DropFails, At, Owns, Armed, Engaged
  <2>2. \A v \in Worker, k \in Job : Owns(v, k)' <=> Owns(v, k) /\ v # w
    BY <1>8, <1>a DEF DropFails, Owns, Armed, Dead, Idle, TypeOK, WorkerState
  <2>3. stranded' = stranded \cup {worker[w].job} /\ UNCHANGED <<boot, row>>
    BY <1>8 DEF DropFails, durable
  <2>4. \A k \in Job : Owns(w, k) => k = worker[w].job
    BY DEF Owns
  <2> QED BY <1>a, <2>1, <2>2, <2>3, <2>4
          DEF Ownership, ExclusiveOwnership, RunningRowIsWorkedOn, Running
<1>9. ASSUME NEW w \in Worker, TerminalHooks(w) PROVE Ownership'
  <2>1. \A v \in Worker, k \in Job : Owns(v, k)' <=> Owns(v, k)
    BY <1>9, <1>a DEF TerminalHooks, At, Owns, Armed, Idle, TypeOK, WorkerState
  <2>2. UNCHANGED <<stranded, boot, row>>
    BY <1>9 DEF TerminalHooks
  <2> QED BY <1>a, <2>1, <2>2, OwnershipFrame DEF Running
<1>10. ASSUME NEW s \in Source, Command(s) PROVE Ownership'
  <2>1. UNCHANGED <<stranded, boot, row, worker>>
    BY <1>10 DEF Command, OnDemandStart, OnDemandEnd, ManualStart, ManualEnd, durable, history
  <2> QED BY <1>a, <2>1, OwnershipFrame DEF Running, Owns
<1>11. ASSUME Crash PROVE Ownership'
  <2>1. boot' # "up" /\ UNCHANGED <<stranded, row>> /\ \A w \in Worker, j \in Job : ~Owns(w, j)'
    BY <1>11 DEF Crash, durable, Owns, Armed, Idle
  <2> QED BY <1>a, <2>1 DEF Ownership, ExclusiveOwnership, RunningRowIsWorkedOn, Running
<1>12. ASSUME DeadLetter \/ Requeue \/ ReclaimFails \/ Interrupt PROVE Ownership'
  <2>1. \A w \in Worker, j \in Job : ~Owns(w, j)'
    <3>1. boot # "up" /\ UNCHANGED worker
      BY <1>12 DEF DeadLetter, Requeue, ReclaimFails, Interrupt
    <3> QED BY <3>1 DEF Ownership, Owns
  <2>2. CASE DeadLetter
    <3>1. boot' # "up" /\ \A j \in Job : Running(j)' <=> Running(j) /\ ~Spent(j)
      BY <2>2, <1>a DEF DeadLetter, Running, Spent, TypeOK, Row
    <3>2. stranded' = {j \in stranded : ~Spent(j)}
      BY <2>2 DEF DeadLetter
    <3> QED BY <1>a, <2>1, <3>1, <3>2 DEF Ownership, ExclusiveOwnership, RunningRowIsWorkedOn
  <2>3. CASE Requeue
    <3>1. stranded' = {} /\ \A j \in Job : ~Running(j)'
      BY <2>3, <1>a DEF Requeue, Running, TypeOK, Row
    <3> QED BY <2>1, <3>1 DEF Ownership, ExclusiveOwnership, RunningRowIsWorkedOn
  <2>4. CASE ReclaimFails
    <3>1. stranded' = {j \in Job : Running(j)} /\ UNCHANGED row
      BY <2>4 DEF ReclaimFails, durable
    <3> QED BY <2>1, <3>1 DEF Ownership, ExclusiveOwnership, RunningRowIsWorkedOn, Running
  <2>5. CASE Interrupt
    <3>1. boot' # "up" /\ UNCHANGED <<row, stranded>>
      BY <2>5 DEF Interrupt
    <3> QED BY <1>a, <2>1, <3>1 DEF Ownership, ExclusiveOwnership, RunningRowIsWorkedOn, Running
  <2> QED BY <1>12, <2>2, <2>3, <2>4, <2>5
<1>13. CASE UNCHANGED vars
  <2>1. UNCHANGED <<stranded, boot, row, worker>>
    BY <1>13 DEF vars, durable, volatile, history
  <2> QED BY <1>a, <2>1, OwnershipFrame DEF Running, Owns
<1> QED
  BY <1>1, <1>2, <1>3, <1>4, <1>5, <1>6, <1>7, <1>8, <1>9, <1>10, <1>11, <1>12, <1>13
  DEF Next, Progress, Trouble, Start

LEMMA OwnershipCorrect == Spec => [](TypeInv /\ Ownership)
BY TypeInit, TypeStep, OwnershipInit, OwnershipStep, PTL DEF Spec

\* A claimed row belongs to one thread until that thread lets go of it: two
\* threads never settle, defer or re-run the same claim.
THEOREM ExclusiveOwnershipHolds == Spec => []ExclusiveOwnership
BY OwnershipCorrect, PTL DEF Ownership

\* No row is left running by a process that is up, unless every recovery failed.
THEOREM RunningRowIsWorkedOnHolds == Spec => []RunningRowIsWorkedOn
BY OwnershipCorrect, PTL DEF Ownership

-----------------------------------------------------------------------------
(* Siblings and the retry budget. *)

\* RetryBudget needs to know that the second statement of a reclaim finds no
\* spent row: between the two statements no row turns running or is claimed.
Budgeted ==
  /\ RetryBudget
  /\ boot \in {"requeue", "poolRequeue"} => \A j \in Job : ~Spent(j)

LEMMA BudgetType == \A j \in Job : Budget(j) \in Nat /\ Budget(j) >= 1
BY JobAssumption DEF Budget

\* Budgeted, job by job.
WithinBudget(j) ==
  /\ row[j].attempts <= Budget(j)
  /\ row[j].status = "pending" => row[j].attempts < Budget(j)
  /\ row[j].status = "running" => row[j].attempts > 0
  /\ row[j].status = "failed" => row[j].attempts = Budget(j)

LEMMA BudgetedByJob == RetryBudget <=> \A j \in Job : WithinBudget(j)
BY DEF RetryBudget, WithinBudget

LEMMA MarkWithRunBudget ==
  ASSUME TypeOK, RetryBudget, NEW j \in Job, Running(j), NEW run, NEW ok,
         MarkWithRun(j, run, ok)
  PROVE  RetryBudget'
<1>1. row' = [row EXCEPT ![j].status = SettledStatus(j, ok), ![j].due = FALSE]
  BY DEF MarkWithRun
<1>2. row[j].attempts \in Nat /\ row[j].attempts <= Budget(j) /\ Budget(j) \in Nat
  BY BudgetType DEF TypeOK, Row, RetryBudget
<1>3. \A k \in Job : k # j => row'[k] = row[k]
  BY <1>1 DEF TypeOK
<1>4. row'[j].status = SettledStatus(j, ok) /\ row'[j].attempts = row[j].attempts
  BY <1>1 DEF TypeOK, Row
<1>5. SettledStatus(j, ok) = "pending" => row[j].attempts < Budget(j)
  BY DEF SettledStatus, WillRetry
<1>6. SettledStatus(j, ok) = "failed" => row[j].attempts = Budget(j)
  BY <1>2 DEF SettledStatus, WillRetry
<1> QED BY <1>2, <1>3, <1>4, <1>5, <1>6, StatusType DEF RetryBudget, Budget

LEMMA BudgetInit == Init => Budgeted
BY BudgetType DEF Init, Budgeted, RetryBudget

LEMMA BudgetStep == TypeInv /\ Ownership /\ Budgeted /\ [Next]_vars => Budgeted'
<1> SUFFICES ASSUME TypeInv, Ownership, Budgeted, [Next]_vars PROVE Budgeted'
  OBVIOUS
<1>a. TypeOK /\ Engaged /\ RetryBudget /\ (\A j \in Job : Budget(j) \in Nat /\ Budget(j) >= 1)
  BY BudgetType DEF TypeInv, Budgeted
<1>1. ASSUME NEW j \in Job, Producer(j) PROVE Budgeted'
  BY <1>1, <1>a DEF Producer, Enqueue, Reschedule, Fresh, Budgeted, RetryBudget, Budget, TypeOK,
                    Row, volatile
<1>2. ASSUME NEW j \in Job, BackoffElapses(j) PROVE Budgeted'
  <2>1. \A k \in Job : row'[k].status = row[k].status /\ row'[k].attempts = row[k].attempts
    BY <1>2, <1>a DEF BackoffElapses, TypeOK, Row
  <2>2. boot' = boot
    BY <1>2 DEF BackoffElapses, volatile
  <2> QED BY <2>1, <2>2 DEF Budgeted, RetryBudget, Spent, Running, Budget
<1>3. ASSUME NEW w \in Worker, Claim(w) PROVE Budgeted'
  <2>1. PICK j \in Job :
          /\ Claimable(j, LaneOf[w])
          /\ row' = [row EXCEPT ![j] = [status |-> "running", due |-> FALSE,
                                        attempts |-> @.attempts + 1]]
    BY <1>3 DEF Claim
  <2>2. row[j].attempts \in Nat /\ row[j].attempts < Budget(j)
    BY <1>a, <2>1 DEF Claimable, IsDue, RetryBudget, TypeOK, Row
  <2>3. RetryBudget'
    BY <1>a, <2>1, <2>2 DEF RetryBudget, Budget, TypeOK
  <2> QED BY <1>3, <2>3 DEF Budgeted, Claim, At
<1>4. ASSUME NEW w \in Worker, Settle(w) \/ DropGuard(w) \/ Unwind(w) PROVE Budgeted'
  <2>1. worker[w].job \in Job /\ Running(worker[w].job) /\ boot' = "up"
    BY <1>4, <1>a DEF Settle, DropGuard, Unwind, At, Engaged, Owns, Armed, Ownership,
                      ExclusiveOwnership
  <2>2. RetryBudget'
    BY <1>4, <1>a, <2>1, MarkWithRunBudget DEF Settle, DropGuard, Unwind
  <2> QED BY <2>1, <2>2 DEF Budgeted
<1>5. ASSUME NEW w \in Worker, Defer(w) PROVE Budgeted'
  <2>1. worker[w].job \in Job /\ Running(worker[w].job) /\ boot' = "up"
    BY <1>5, <1>a DEF Defer, At, Engaged, Owns, Armed, Ownership, ExclusiveOwnership
  <2>2. RetryBudget'
    BY <1>5, <1>a, <2>1 DEF Defer, Refunded, RetryBudget, Budget, Running, TypeOK, Row
  <2> QED BY <2>1, <2>2 DEF Budgeted
<1>6. ASSUME NEW w \in Worker,
             \/ AcquireSource(w) \/ BeginAttempt(w) \/ TerminalHooks(w) \/ RunHandler(w)
             \/ Trouble(w)
      PROVE  Budgeted'
  <2>1. UNCHANGED <<row, boot>>
    BY <1>6 DEF AcquireSource, BeginAttempt, RunHandler, TerminalHooks, Trouble,
                BeginAttemptFails, SettleFails, Panic, PanicAgain, DropFails, durable
  <2> QED BY <2>1 DEF Budgeted, RetryBudget, Spent, Running, Budget
<1>7. ASSUME NEW s \in Source, Command(s) PROVE Budgeted'
  <2>1. UNCHANGED <<row, boot>>
    BY <1>7 DEF Command, OnDemandStart, OnDemandEnd, ManualStart, ManualEnd, durable
  <2> QED BY <2>1 DEF Budgeted, RetryBudget, Spent, Running, Budget
<1>8. ASSUME Crash \/ ReclaimFails \/ Interrupt PROVE Budgeted'
  <2>1. boot' \notin {"requeue", "poolRequeue"} /\ UNCHANGED row
    BY <1>8 DEF Crash, ReclaimFails, Interrupt, AfterReclaim, durable
  <2> QED BY <2>1 DEF Budgeted, RetryBudget, Budget
<1>9. ASSUME DeadLetter PROVE Budgeted'
  <2>1. row' = [j \in Job |-> IF Spent(j) THEN [row[j] EXCEPT !.status = "failed"] ELSE row[j]]
    BY <1>9 DEF DeadLetter
  <2>2. ASSUME NEW j \in Job PROVE WithinBudget(j)' /\ ~Spent(j)'
    <3>1. WithinBudget(j) /\ row[j].attempts \in Nat
      BY <1>a, BudgetedByJob DEF TypeOK, Row
    <3>2. CASE Spent(j)
      <4>1. row'[j].status = "failed" /\ row'[j].attempts = row[j].attempts
        BY <2>1, <3>2, <1>a DEF TypeOK, Row
      <4> QED BY <1>a, <3>1, <3>2, <4>1 DEF WithinBudget, Spent, Running, Budget
    <3>3. CASE ~Spent(j)
      BY <2>1, <3>1, <3>3 DEF WithinBudget, Spent, Running, Budget
    <3> QED BY <3>2, <3>3
  <2> QED BY <2>2 DEF Budgeted, RetryBudget, WithinBudget
<1>10. ASSUME Requeue PROVE Budgeted'
  <2>1. row' = [j \in Job |-> IF Running(j)
                               THEN [row[j] EXCEPT !.status = "pending", !.due = TRUE]
                               ELSE row[j]]
    BY <1>10 DEF Requeue
  <2>2. boot \in {"requeue", "poolRequeue"} /\ boot' \notin {"requeue", "poolRequeue"}
    BY <1>10 DEF Requeue, AfterReclaim
  <2>3. ASSUME NEW j \in Job PROVE WithinBudget(j)'
    <3>1. WithinBudget(j) /\ ~Spent(j) /\ row[j].attempts \in Nat
      BY <1>a, <2>2, BudgetedByJob DEF TypeOK, Row, Budgeted
    <3>2. CASE Running(j)
      <4>1. row'[j].status = "pending" /\ row'[j].attempts = row[j].attempts
        BY <2>1, <3>2, <1>a DEF TypeOK, Row
      <4> QED BY <1>a, <3>1, <3>2, <4>1 DEF WithinBudget, Spent, Running, Budget
    <3>3. CASE ~Running(j)
      BY <2>1, <3>1, <3>3 DEF WithinBudget, Budget
    <3> QED BY <3>2, <3>3
  <2> QED BY <2>2, <2>3 DEF Budgeted, RetryBudget, WithinBudget
<1>11. CASE UNCHANGED vars
  <2>1. UNCHANGED <<row, boot>>
    BY <1>11 DEF vars, durable, volatile
  <2> QED BY <2>1 DEF Budgeted, RetryBudget, Spent, Running, Budget
<1> QED
  BY <1>1, <1>2, <1>3, <1>4, <1>5, <1>6, <1>7, <1>8, <1>9, <1>10, <1>11
  DEF Next, Progress, Start

\* No job is tried more often than its budget, deferrals and crashes included,
\* and none is given up before the budget is spent.
THEOREM RetryBudgetHolds == Spec => []RetryBudget
<1>1. Spec => [](TypeInv /\ Ownership /\ Budgeted)
  BY TypeInit, TypeStep, OwnershipInit, OwnershipStep, BudgetInit, BudgetStep, PTL DEF Spec
<1> QED BY <1>1, PTL DEF Budgeted

\* Only a claim makes a row running, and it looks at the siblings in the same
\* statement.
LEMMA SiblingsStep == TypeInv /\ SiblingsNeverBothRun /\ [Next]_vars => SiblingsNeverBothRun'
<1> SUFFICES ASSUME TypeInv, SiblingsNeverBothRun, [Next]_vars PROVE SiblingsNeverBothRun'
  OBVIOUS
<1>a. TypeOK /\ Engaged /\ Followup \subseteq Job \X Job /\ \A j \in Job : <<j, j>> \notin Followup
  BY JobAssumption DEF TypeInv
<1>1. ASSUME NEW w \in Worker, Claim(w) PROVE SiblingsNeverBothRun'
  <2>1. PICK j \in Job :
          /\ Claimable(j, LaneOf[w])
          /\ row' = [row EXCEPT ![j] = [status |-> "running", due |-> FALSE,
                                        attempts |-> @.attempts + 1]]
    BY <1>1 DEF Claim
  <2>2. \A k \in Job : Running(k)' <=> Running(k) \/ k = j
    BY <1>a, <2>1 DEF Running, TypeOK, Row
  <2>3. \A k \in Job : Running(k) => <<j, k>> \notin Followup /\ <<k, j>> \notin Followup
    BY <2>1 DEF Claimable, SiblingRunning
  <2>4. ASSUME NEW p \in Followup, Running(p[1])', Running(p[2])' PROVE FALSE
    <3>1. PICK x \in Job, y \in Job : p = <<x, y>>
      BY <1>a
    <3> QED BY <1>a, <2>2, <2>3, <2>4, <3>1 DEF SiblingsNeverBothRun
  <2> QED BY <2>4 DEF SiblingsNeverBothRun
<1>2. ASSUME \A k \in Job : Running(k)' => Running(k) PROVE SiblingsNeverBothRun'
  <2>1. ASSUME NEW p \in Followup PROVE p[1] \in Job /\ p[2] \in Job
    BY <1>a
  <2> QED BY <1>2, <2>1 DEF SiblingsNeverBothRun
<1>3. ASSUME NEW j \in Job, Producer(j) \/ BackoffElapses(j) PROVE SiblingsNeverBothRun'
  <2>1. \A k \in Job : Running(k)' => Running(k)
    <3>1. CASE row' = [row EXCEPT ![j] = Fresh]
      <4>1. \A k \in Job : k # j => row'[k] = row[k]
        BY <3>1, <1>a DEF TypeOK
      <4>2. row'[j].status = "pending"
        BY <3>1, <1>a DEF TypeOK, Fresh
      <4> QED BY <4>1, <4>2 DEF Running
    <3>2. CASE row' = [row EXCEPT ![j].due = TRUE]
      <4>1. \A k \in Job : row'[k].status = row[k].status
        BY <3>2, <1>a DEF TypeOK, Row
      <4> QED BY <4>1 DEF Running
    <3> QED BY <1>3, <3>1, <3>2 DEF Producer, Enqueue, Reschedule, BackoffElapses
  <2> QED BY <2>1, <1>2
<1>4. ASSUME NEW w \in Worker, Settle(w) \/ DropGuard(w) \/ Unwind(w) PROVE SiblingsNeverBothRun'
  <2>1. worker[w].job \in Job
    BY <1>4, <1>a DEF Settle, DropGuard, Unwind, At, Engaged
  <2>2. \A k \in Job : Running(k)' => Running(k)
    BY <1>4, <1>a, <2>1, MarkedRow DEF Settle, DropGuard, Unwind
  <2> QED BY <2>2, <1>2
<1>5. ASSUME NEW w \in Worker, Defer(w) PROVE SiblingsNeverBothRun'
  <2>1. \A k \in Job : Running(k)' => Running(k)
    BY <1>5, <1>a DEF Defer, Running, TypeOK, Row
  <2> QED BY <2>1, <1>2
<1>6. ASSUME NEW w \in Worker,
             \/ AcquireSource(w) \/ BeginAttempt(w) \/ TerminalHooks(w) \/ RunHandler(w)
             \/ Trouble(w)
      PROVE  SiblingsNeverBothRun'
  <2>1. UNCHANGED row
    BY <1>6 DEF AcquireSource, BeginAttempt, RunHandler, TerminalHooks, Trouble,
                BeginAttemptFails, SettleFails, Panic, PanicAgain, DropFails, durable
  <2> QED BY <2>1, <1>2 DEF Running
<1>7. ASSUME NEW s \in Source, Command(s) PROVE SiblingsNeverBothRun'
  <2>1. UNCHANGED row
    BY <1>7 DEF Command, OnDemandStart, OnDemandEnd, ManualStart, ManualEnd, durable
  <2> QED BY <2>1, <1>2 DEF Running
<1>8. ASSUME Crash \/ ReclaimFails \/ Interrupt PROVE SiblingsNeverBothRun'
  <2>1. UNCHANGED row
    BY <1>8 DEF Crash, ReclaimFails, Interrupt, durable
  <2> QED BY <2>1, <1>2 DEF Running
<1>9. ASSUME DeadLetter \/ Requeue PROVE SiblingsNeverBothRun'
  <2>1. \A k \in Job : Running(k)' => Running(k)
    <3>1. CASE DeadLetter
      <4>1. ASSUME NEW k \in Job PROVE row'[k].status \in {row[k].status, "failed"}
        BY <3>1, <1>a DEF DeadLetter, TypeOK, Row
      <4> QED BY <4>1 DEF Running
    <3>2. CASE Requeue
      <4>1. ASSUME NEW k \in Job PROVE row'[k].status # "running"
        BY <3>2, <1>a DEF Requeue, TypeOK, Row, Running
      <4> QED BY <4>1 DEF Running
    <3> QED BY <1>9, <3>1, <3>2
  <2> QED BY <2>1, <1>2
<1>10. CASE UNCHANGED vars
  <2>1. UNCHANGED row
    BY <1>10 DEF vars, durable
  <2> QED BY <2>1, <1>2 DEF Running
<1> QED
  BY <1>1, <1>3, <1>4, <1>5, <1>6, <1>7, <1>8, <1>9, <1>10
  DEF Next, Progress, Start

\* A job and its parked follow-up never run at once.
THEOREM SiblingsNeverBothRunHolds == Spec => []SiblingsNeverBothRun
<1>1. Init => SiblingsNeverBothRun
  BY JobAssumption DEF Init, SiblingsNeverBothRun, Running
<1> QED BY <1>1, TypeInit, TypeStep, SiblingsStep, PTL DEF Spec

\* Rows and threads together: one owner, none without, and one of two siblings
\* (claim_next_for_kinds, settle_with_recovery, ClaimGuard).
THEOREM OwnershipIsSoundHolds == Spec => []OwnershipIsSound
BY ExclusiveOwnershipHolds, RunningRowIsWorkedOnHolds, SiblingsNeverBothRunHolds, PTL
   DEF OwnershipIsSound

-----------------------------------------------------------------------------
(* Terminal failures and their events. *)

\* A terminal failure is on its way to its event, has it, or is known to have lost
\* it: in every phase of a start, not only once the lanes run.
Eventful(j) == FailureVisible(j) \/ j \in silent
EventInv ==
  /\ EventsAreTerminal
  /\ \A w \in Worker : worker[w].pc = "hooks" => worker[w].job \in everFailed
  /\ \A j \in Attention : Eventful(j)

LEMMA EventInit == Init => EventInv
BY LedgerAssumption DEF Init, EventInv, Eventful, EventsAreTerminal, FailureVisible, Idle

\* A step that fails no job, ends no thread at the hooks and forgets nothing.
LEMMA EventFrame ==
  ASSUME EventInv, events' = events, everFailed' = everFailed,
         \A j \in Job : row'[j].status = "failed" => row[j].status = "failed" /\ (j \in silent => j \in silent'),
         \A w \in Worker : worker[w].pc = "hooks" <=> worker'[w].pc = "hooks",
         \A w \in Worker : worker[w].pc = "hooks" => worker'[w].job = worker[w].job
  PROVE  EventInv'
<1>1. \A j \in Attention : Eventful(j)'
  BY LedgerAssumption DEF EventInv, Eventful, FailureVisible
<1> QED BY <1>1 DEF EventInv, EventsAreTerminal

\* One settlement: the row of w is settled, and nobody else's.
LEMMA EventSettled ==
  ASSUME TypeInv, EventInv, NEW w \in Worker, worker[w].pc \in Armed, NEW ok,
         MarkWithRun(worker[w].job, worker[w].run, ok),
         \A v \in Worker : v # w => worker'[v] = worker[v],
         worker'[w].pc = "hooks" =>
           worker'[w].job = worker[w].job /\ SettledStatus(worker[w].job, ok) = "failed",
         \A j \in Job : j # worker[w].job => (j \in silent => j \in silent'),
         SettledStatus(worker[w].job, ok) = "failed" =>
           worker[w].job \in silent' \/ (worker'[w].pc = "hooks" /\ worker'[w].job = worker[w].job)
  PROVE  EventInv'
<1>a. worker[w].job \in Job /\ worker[w].pc # "hooks"
  BY DEF TypeInv, Engaged, Armed
<1>1. /\ \A j \in Job : j # worker[w].job => row'[j] = row[j]
      /\ row'[worker[w].job].status = SettledStatus(worker[w].job, ok)
      /\ events' = events
      /\ everFailed \subseteq everFailed'
      /\ SettledStatus(worker[w].job, ok) = "failed" => worker[w].job \in everFailed'
  BY <1>a DEF MarkWithRun, TypeInv, TypeOK, Row
<1>2. EventsAreTerminal'
  BY <1>1 DEF EventInv, EventsAreTerminal
<1>3. \A v \in Worker : worker'[v].pc = "hooks" => worker'[v].job \in everFailed'
  BY <1>1 DEF EventInv
<1>4. ASSUME NEW j \in Attention PROVE Eventful(j)'
  <2>1. j \in Job /\ Eventful(j)
    BY LedgerAssumption DEF EventInv
  <2>2. CASE j = worker[w].job
    BY <1>1, <2>1, <2>2 DEF Eventful, FailureVisible
  <2>3. CASE j # worker[w].job
    <3>1. \A v \in Worker : worker[v].job = j /\ worker[v].pc = "hooks" => worker'[v] = worker[v]
      BY <1>a
    <3> QED BY <1>1, <2>1, <2>3, <3>1 DEF Eventful, FailureVisible
  <2> QED BY <2>2, <2>3
<1> QED BY <1>2, <1>3, <1>4 DEF EventInv

LEMMA EventStep == TypeInv /\ EventInv /\ [Next]_vars => EventInv'
<1> SUFFICES ASSUME TypeInv, EventInv, [Next]_vars PROVE EventInv'
  OBVIOUS
<1>a. TypeOK /\ Engaged /\ Attention \subseteq Job
  BY LedgerAssumption DEF TypeInv
<1>1. ASSUME NEW j \in Job, Producer(j) \/ BackoffElapses(j) PROVE EventInv'
  <2>1. /\ UNCHANGED <<events, everFailed, worker>>
        /\ \A k \in Job : k # j => row'[k] = row[k] /\ (k \in silent => k \in silent')
        /\ row'[j].status # "failed"
    BY <1>1, <1>a DEF Producer, Enqueue, Reschedule, BackoffElapses, Fresh, TypeOK, Row,
                      volatile, history
  <2> QED BY <2>1, EventFrame
<1>2. ASSUME NEW w \in Worker,
             \/ Claim(w) \/ AcquireSource(w) \/ BeginAttempt(w) \/ BeginAttemptFails(w)
             \/ RunHandler(w) \/ Panic(w) \/ PanicAgain(w) \/ SettleFails(w) \/ Defer(w)
             \/ DropFails(w)
      PROVE  EventInv'
  <2>1. UNCHANGED <<events, everFailed, silent>>
    BY <1>2 DEF Claim, AcquireSource, BeginAttempt, BeginAttemptFails, RunHandler, Panic,
                PanicAgain, SettleFails, Defer, DropFails, durable, history
  <2>2. \A k \in Job : row'[k].status = "failed" => row[k].status = "failed"
    <3>1. CASE Claim(w)
      BY <3>1, <1>a DEF Claim, TypeOK, Row
    <3>2. CASE Defer(w)
      BY <3>2, <1>a DEF Defer, TypeOK, Row
    <3>3. CASE UNCHANGED row
      BY <3>3
    <3> QED BY <1>2, <3>1, <3>2, <3>3
        DEF AcquireSource, BeginAttempt, BeginAttemptFails, RunHandler, Panic, PanicAgain,
            SettleFails, DropFails, durable
  <2>3. worker[w].pc # "hooks" /\ worker'[w].pc # "hooks" /\ \A v \in Worker : v # w => worker'[v] = worker[v]
    <3>1. CASE Claim(w)
      BY <3>1, <1>a DEF Claim, At, Idle, TypeOK
    <3>2. CASE Defer(w) \/ DropFails(w)
      BY <3>2, <1>a DEF Defer, DropFails, At, Idle, Dead, TypeOK, WorkerState
    <3>3. CASE AcquireSource(w) \/ BeginAttempt(w) \/ BeginAttemptFails(w) \/ PanicAgain(w)
      BY <3>3, <1>a DEF AcquireSource, TryAcquire, BeginAttempt, BeginAttemptFails, PanicAgain,
                        At, Goto, TypeOK, WorkerState
    <3>4. CASE RunHandler(w) \/ Panic(w) \/ SettleFails(w)
      BY <3>4, <1>a DEF RunHandler, Panic, SettleFails, Unrecovered, At, Goto, TypeOK, WorkerState
    <3> QED BY <1>2, <3>1, <3>2, <3>3, <3>4
  <2> QED BY <2>1, <2>2, <2>3, EventFrame
<1>3. ASSUME NEW w \in Worker, Settle(w) \/ DropGuard(w) PROVE EventInv'
  <2>1. /\ worker[w].pc \in Armed /\ MarkWithRun(worker[w].job, worker[w].run, worker[w].ok)
        /\ AfterSettle(w) /\ silent' = silent \ {worker[w].job}
    BY <1>3 DEF Settle, DropGuard, At, Armed
  <2>2. /\ \A v \in Worker : v # w => worker'[v] = worker[v]
        /\ IF SettledStatus(worker[w].job, worker[w].ok) = "failed"
             THEN worker'[w].pc = "hooks" /\ worker'[w].job = worker[w].job
             ELSE worker'[w].pc # "hooks"
    BY <2>1, <1>a DEF AfterSettle, Goto, Idle, TypeOK, WorkerState
  <2> QED BY <2>1, <2>2, EventSettled
<1>4. ASSUME NEW w \in Worker, Unwind(w) PROVE EventInv'
  <2>1. /\ worker[w].pc \in Armed /\ MarkWithRun(worker[w].job, worker[w].run, worker[w].ok)
        /\ silent \subseteq silent'
        /\ SettledStatus(worker[w].job, worker[w].ok) = "failed" => worker[w].job \in silent'
    BY <1>4 DEF Unwind, At, Armed
  <2>2. worker'[w].pc # "hooks" /\ \A v \in Worker : v # w => worker'[v] = worker[v]
    BY <1>4, <1>a DEF Unwind, Dead, Idle, TypeOK, WorkerState
  <2> QED BY <2>1, <2>2, EventSettled
<1>5. ASSUME NEW w \in Worker, TerminalHooks(w) PROVE EventInv'
  <2>1. /\ worker[w].pc = "hooks" /\ UNCHANGED <<row, everFailed>>
        /\ worker'[w].pc # "hooks" /\ \A v \in Worker : v # w => worker'[v] = worker[v]
    BY <1>5, <1>a DEF TerminalHooks, At, Idle, TypeOK, WorkerState
  <2>2. /\ events \subseteq events' /\ events' \subseteq events \cup {worker[w].job}
        /\ silent \subseteq silent'
        /\ worker[w].job \in Attention => worker[w].job \in events' \cup silent'
    BY <1>5 DEF TerminalHooks
  <2>3. ASSUME NEW j \in Attention PROVE Eventful(j)'
    <3>1. CASE j = worker[w].job
      BY <2>2, <2>3, <3>1 DEF Eventful, FailureVisible
    <3>2. CASE j # worker[w].job
      BY <2>1, <2>2, <2>3, <3>2 DEF EventInv, Eventful, FailureVisible
    <3> QED BY <3>1, <3>2
  <2> QED BY <2>1, <2>2, <2>3 DEF EventInv, EventsAreTerminal
<1>6. ASSUME NEW s \in Source, Command(s) PROVE EventInv'
  <2>1. UNCHANGED <<row, events, everFailed, silent, worker>>
    BY <1>6 DEF Command, OnDemandStart, OnDemandEnd, ManualStart, ManualEnd, durable, history
  <2> QED BY <2>1, EventFrame
<1>7. ASSUME Crash PROVE EventInv'
  <2>1. /\ UNCHANGED <<row, events, everFailed>> /\ \A w \in Worker : worker'[w].pc # "hooks"
        /\ silent \subseteq silent'
        /\ \A w \in Worker : worker[w].pc = "hooks" => worker[w].job \in silent'
    BY <1>7 DEF Crash, durable, Idle
  <2>2. ASSUME NEW j \in Attention PROVE Eventful(j)'
    BY <2>1 DEF EventInv, Eventful, FailureVisible
  <2> QED BY <2>1, <2>2 DEF EventInv, EventsAreTerminal
<1>8. ASSUME DeadLetter PROVE EventInv'
  <2>1. /\ \A j \in Job : ~Spent(j) => row'[j] = row[j]
        /\ \A j \in Job : Spent(j) => j \in silent'
        /\ UNCHANGED <<events, worker>> /\ silent \subseteq silent' /\ everFailed \subseteq everFailed'
    BY <1>8 DEF DeadLetter
  <2>2. ASSUME NEW j \in Attention PROVE Eventful(j)'
    BY <1>a, <2>1 DEF EventInv, Eventful, FailureVisible
  <2> QED BY <2>1, <2>2 DEF EventInv, EventsAreTerminal
<1>9. ASSUME Requeue PROVE EventInv'
  <2>1. UNCHANGED <<events, everFailed, silent, worker>>
    BY <1>9 DEF Requeue
  <2>2. \A k \in Job : row'[k].status = "failed" => row[k].status = "failed"
    BY <1>9, <1>a DEF Requeue, TypeOK, Row
  <2> QED BY <2>1, <2>2, EventFrame
<1>10. ASSUME ReclaimFails \/ Interrupt PROVE EventInv'
  <2>1. UNCHANGED <<row, events, everFailed, silent, worker>>
    BY <1>10 DEF ReclaimFails, Interrupt, durable
  <2> QED BY <2>1, EventFrame
<1>11. CASE UNCHANGED vars
  <2>1. UNCHANGED <<row, events, everFailed, silent, worker>>
    BY <1>11 DEF vars, durable, volatile, history
  <2> QED BY <2>1, EventFrame
<1> QED
  BY <1>1, <1>2, <1>3, <1>4, <1>5, <1>6, <1>7, <1>8, <1>9, <1>10, <1>11
  DEF Next, Progress, Trouble, Start

\* A failure event is raised for terminal failures only and, unless it is known to be
\* lost to a failed write, a crash, an unwinding thread or a dead-lettering start, for
\* every one of them (surface_terminal_failure, ClaimGuard::drop, dead_letter).
THEOREM FailureEventsAreExactHolds == Spec => []FailureEventsAreExact
<1>1. EventInv => FailureEventsAreExact
  BY DEF EventInv, Eventful, FailureEventsAreExact, FailureVisibleUnlessLost
<1> QED BY <1>1, TypeInit, TypeStep, EventInit, EventStep, PTL DEF Spec

-----------------------------------------------------------------------------
(* The ledger. *)

\* Every id is used once; what is settled was settled in the past.
IdsAreUsedOnce ==
  /\ IsFiniteSet(open) /\ IsFiniteSet(finished)
  /\ \A r \in open : r.id # 0 /\ r.id < nextRun
  /\ \A f \in finished : f.id < nextRun /\ f.at <= finishes
  /\ \A q, r \in open : q.id = r.id => q = r
  /\ \A f, g \in finished : f.id = g.id => f = g
  /\ \A r \in open, f \in finished : r.id # f.id

\* The occurrence of a thread is open and newer than all that its job has settled;
\* a recorded job that runs, or ran to success, has one.
RunAgrees(w) ==
  worker[w].pc \in Armed =>
    /\ worker[w].pc \in {"lock", "begin", "defer"} => worker[w].run = 0
    /\ worker[w].run # 0 =>
         /\ [id |-> worker[w].run, job |-> worker[w].job] \in open
         /\ \A f \in finished : f.job = worker[w].job => f.id < worker[w].run
    /\ worker[w].job \in Recorded /\ (worker[w].pc = "run" \/ worker[w].ok) => worker[w].run # 0
RunsAgree == \A w \in Worker : RunAgrees(w)

\* OpenRunIsLive from the interruption of a start on.
OpenRunIsKept ==
  boot \in {"poolReclaim", "poolRequeue", "up"} =>
    \A r \in open : r.id \in orphans \/ \E w \in Worker : Owns(w, r.job) /\ worker[w].run = r.id

\* The attempts of a job are settled in the order they were begun, unless a start
\* interrupts them.
SettledInOrder ==
  \A f, g \in finished :
    f.job = g.job /\ f.outcome # "interrupted" /\ g.outcome # "interrupted" /\ f.id < g.id => f.at < g.at

LedgerInv == IdsAreUsedOnce /\ RunsAgree /\ OpenRunIsKept /\ SettledInOrder /\ SuccessIsRecorded

\* What retention keeps of a set of occurrences: with one, all that are later, and
\* always the last.
LEMMA NewestOf ==
  ASSUME NEW S, IsFiniteSet(S), S \subseteq FinishedRun, NEW n \in Nat \ {0}
  PROVE  /\ Newest(S, n) \subseteq S
         /\ \A q \in Newest(S, n), r \in S : Later(r, q) => r \in Newest(S, n)
         /\ \A r \in S : (\A q \in S : ~Later(q, r)) => r \in Newest(S, n)
<1>1. Newest(S, n) \subseteq S
  BY DEF Newest
<1>2. ASSUME NEW q \in Newest(S, n), NEW r \in S, Later(r, q) PROVE r \in Newest(S, n)
  <2> DEFINE A(x) == {y \in S : Later(y, x)}
  <2>1. \A y \in S : Later(y, r) => Later(y, q)
    BY <1>1, <1>2 DEF Later, FinishedRun
  <2>2. A(r) \subseteq A(q)
    BY <2>1
  <2>3. IsFiniteSet(A(q))
    BY FS_Subset
  <2>4. IsFiniteSet(A(r)) /\ Cardinality(A(r)) <= Cardinality(A(q))
    BY <2>2, <2>3, FS_Subset
  <2>5. Cardinality(A(q)) \in Nat /\ Cardinality(A(r)) \in Nat
    BY <2>3, <2>4, FS_CardinalityType
  <2>6. Cardinality(A(q)) < n
    BY DEF Newest
  <2>7. Cardinality(A(r)) < n
    BY <2>4, <2>5, <2>6
  <2> QED BY <2>7 DEF Newest
<1>3. ASSUME NEW r \in S, \A q \in S : ~Later(q, r) PROVE r \in Newest(S, n)
  <2>1. {q \in S : Later(q, r)} = {}
    BY <1>3
  <2>2. Cardinality({q \in S : Later(q, r)}) = 0
    BY <2>1, FS_EmptySet
  <2> QED BY <2>2 DEF Newest
<1> QED BY <1>1, <1>2, <1>3

\* What the settlement of some occurrences does to the ledger.
LEMMA Settles ==
  ASSUME TypeOK, IdsAreUsedOnce, NEW ids, NEW o \in Outcome, SettleRuns(ids, o)
  PROVE  /\ open' = {r \in open : r.id \notin ids}
         /\ nextRun' = nextRun /\ finishes' = finishes + 1
         /\ \A f \in finished' : f \in finished \/ \E r \in open : r.id \in ids /\ f = Finish(r, o)
         /\ \A f \in finished', g \in finished : Later(g, f) => g \in finished'
         /\ \A r \in open : r.id \in ids /\ (\A q \in open : q.id \in ids => q = r) => Finish(r, o) \in finished'
         /\ IdsAreUsedOnce'
<1> DEFINE C == {r \in open : r.id \in ids}
           F == {Finish(r, o) : r \in C}
<1>1. PICK n \in KeptFinished : finished' = Newest(finished \cup F, n)
  BY DEF SettleRuns
<1>2. n \in Nat \ {0}
  BY LedgerAssumption
<1>3. open' = open \ C /\ nextRun' = nextRun /\ finishes' = finishes + 1
  BY DEF SettleRuns
<1>4. \A r \in open : r.id \in Nat /\ r.job \in Job
  BY DEF TypeOK, OpenRun
<1>5. \A r \in C : Finish(r, o) \in FinishedRun /\ Finish(r, o).id = r.id /\ Finish(r, o).at = finishes + 1
  BY <1>4 DEF TypeOK, Finish, FinishedRun
<1>6. F \subseteq FinishedRun /\ finished \subseteq FinishedRun
  BY <1>5 DEF TypeOK
<1>7. IsFiniteSet(open') /\ IsFiniteSet(C)
  BY <1>3, FS_Subset DEF IdsAreUsedOnce
<1>8. IsFiniteSet(F)
  <2> DEFINE fin == [r \in C |-> Finish(r, o)]
  <2>1. fin \in Surjection(C, F)
    BY DEF Surjection
  <2> QED BY <1>7, <2>1, FS_Surjection
<1>9. IsFiniteSet(finished \cup F)
  BY <1>8, FS_Union DEF IdsAreUsedOnce
<1>10. /\ finished' \subseteq finished \cup F
       /\ \A q \in finished', r \in finished \cup F : Later(r, q) => r \in finished'
       /\ \A r \in finished \cup F : (\A q \in finished \cup F : ~Later(q, r)) => r \in finished'
  <2> DEFINE S == finished \cup F
  <2>1. S \subseteq FinishedRun /\ IsFiniteSet(S)
    BY <1>6, <1>9
  <2> HIDE DEF S
  <2>2. /\ Newest(S, n) \subseteq S
        /\ \A q \in Newest(S, n), r \in S : Later(r, q) => r \in Newest(S, n)
        /\ \A r \in S : (\A q \in S : ~Later(q, r)) => r \in Newest(S, n)
    BY <1>2, <2>1, NewestOf
  <2>3. finished' = Newest(S, n)
    BY <1>1 DEF S
  <2>4. /\ finished' \subseteq S
        /\ \A q \in finished', r \in S : Later(r, q) => r \in finished'
        /\ \A r \in S : (\A q \in S : ~Later(q, r)) => r \in finished'
    BY <2>2, <2>3, Zenon
  <2> QED BY <2>4 DEF S
<1>11. IsFiniteSet(finished')
  BY <1>9, <1>10, FS_Subset
<1>12. ASSUME NEW r \in open, r.id \in ids, \A q \in open : q.id \in ids => q = r
       PROVE  Finish(r, o) \in finished'
  <2>1. F = {Finish(r, o)} /\ r \in C
    BY <1>12
  <2>2. \A q \in finished : ~Later(q, Finish(r, o))
    BY <1>5, <1>6, <2>1 DEF IdsAreUsedOnce, Later, TypeOK, FinishedRun
  <2>3. ~Later(Finish(r, o), Finish(r, o))
    BY <1>5, <1>4, <2>1 DEF Later, TypeOK
  <2> QED BY <1>10, <2>1, <2>2, <2>3
<1>13. IdsAreUsedOnce'
  <2>1. \A r \in open' : r \in open /\ r.id # 0 /\ r.id < nextRun'
    BY <1>3 DEF IdsAreUsedOnce
  <2>2. \A f \in finished' : f \in finished \/ \E r \in C : f = Finish(r, o) /\ f.id = r.id /\ f.at = finishes + 1
    BY <1>5, <1>10
  <2>3. \A f \in finished' : f.id < nextRun' /\ f.at <= finishes'
    BY <1>3, <1>6, <2>2 DEF IdsAreUsedOnce, TypeOK, FinishedRun
  <2>4. \A q, r \in open' : q.id = r.id => q = r
    BY <2>1 DEF IdsAreUsedOnce
  <2>5. \A f, g \in finished' : f.id = g.id => f = g
    BY <2>2 DEF IdsAreUsedOnce
  <2>6. \A r \in open', f \in finished' : r.id # f.id
    BY <1>3, <2>2 DEF IdsAreUsedOnce
  <2> QED BY <1>7, <1>11, <2>1, <2>3, <2>4, <2>5, <2>6 DEF IdsAreUsedOnce
<1> QED BY <1>3, <1>10, <1>12, <1>13

LEMMA LedgerInit == Init => LedgerInv
<1> SUFFICES ASSUME Init PROVE LedgerInv
  OBVIOUS
<1>1. IdsAreUsedOnce
  BY FS_EmptySet DEF Init, IdsAreUsedOnce
<1> QED BY <1>1, LedgerAssumption
        DEF Init, LedgerInv, RunsAgree, RunAgrees, OpenRunIsKept, SettledInOrder, SuccessIsRecorded,
            Uninterrupted, Idle, Armed

\* A thread goes on with its attempt; one that has an occurrence to settle bears it.
KeepsRun(w) ==
  /\ worker[w].pc \in Armed /\ worker'[w].pc \in Armed
  /\ worker'[w].job = worker[w].job /\ worker'[w].run = worker[w].run
BearsRun(w) ==
  /\ worker'[w].pc \in {"lock", "begin", "defer"} => worker'[w].run = 0
  /\ worker'[w].job \in Recorded /\ (worker'[w].pc = "run" \/ worker'[w].ok) => worker'[w].run # 0

\* A step that leaves the ledger alone: threads go on with their occurrence, or begin
\* without one, or give it up as an orphan.
LEMMA LedgerFrame ==
  ASSUME TypeInv, LedgerInv, UNCHANGED ledger, orphans \subseteq orphans',
         boot' \in {"poolReclaim", "poolRequeue", "up"} => boot \in {"poolReclaim", "poolRequeue", "up"},
         \A j \in Job : row'[j].status = "succeeded" => row[j].status = "succeeded",
         \A w \in Worker : worker'[w].pc \in Armed =>
           (worker'[w].run # 0 => KeepsRun(w)) /\ BearsRun(w),
         boot' \in {"poolReclaim", "poolRequeue", "up"} =>
           \A w \in Worker : worker[w].pc \in Armed =>
             KeepsRun(w) \/ \A r \in open : r.id = worker[w].run => r.id \in orphans'
  PROVE  LedgerInv'
<1>1. UNCHANGED <<open, finished, nextRun, finishes>>
  BY DEF ledger
<1>2. IdsAreUsedOnce' /\ SettledInOrder'
  BY <1>1 DEF LedgerInv, IdsAreUsedOnce, SettledInOrder
<1>3. RunsAgree'
  BY <1>1 DEF LedgerInv, RunsAgree, RunAgrees, KeepsRun, BearsRun
<1>4. OpenRunIsKept'
  <2> SUFFICES ASSUME boot' \in {"poolReclaim", "poolRequeue", "up"}, NEW r \in open, r.id \notin orphans'
               PROVE  \E w \in Worker : Owns(w, r.job)' /\ worker'[w].run = r.id
    BY <1>1 DEF OpenRunIsKept
  <2>1. PICK w \in Worker : Owns(w, r.job) /\ worker[w].run = r.id
    BY DEF LedgerInv, OpenRunIsKept
  <2>2. r.id # 0
    BY DEF LedgerInv, IdsAreUsedOnce
  <2> QED BY <2>1, <2>2 DEF Owns, KeepsRun
<1>5. SuccessIsRecorded'
  BY <1>1, LedgerAssumption DEF LedgerInv, SuccessIsRecorded, Uninterrupted
<1> QED BY <1>2, <1>3, <1>4, <1>5 DEF LedgerInv

\* The other threads, when one settles its job or drops its claim.
Apart(w) == \A v \in Worker : v # w => worker'[v] = worker[v]

\* One settlement: of the row and of the occurrence of the thread that runs it.
LEMMA LedgerSettled ==
  ASSUME TypeInv, Ownership, LedgerInv, NEW w \in Worker, worker[w].pc \in Armed,
         MarkWithRun(worker[w].job, worker[w].run, worker[w].ok),
         Apart(w), worker'[w].pc \notin Armed, boot' = "up", boot = "up", orphans' = orphans
  PROVE  LedgerInv'
<1> DEFINE j == worker[w].job
           run == worker[w].run
           o == SettledOutcome(j, worker[w].ok)
<1>a. j \in Job /\ Owns(w, j) /\ TypeOK
  BY DEF TypeInv, Engaged, Owns, Armed
<1>b. /\ \A k \in Job : k # j => row'[k] = row[k]
      /\ row'[j].status = "succeeded" <=> worker[w].ok
  BY <1>a DEF MarkWithRun, SettledStatus, TypeOK, Row
<1>c. \A v \in Worker : worker[v].pc \in Armed /\ v # w => worker[v].job # j /\ worker[v].job \in Job
  <2> SUFFICES ASSUME NEW v \in Worker, worker[v].pc \in Armed, v # w
               PROVE  worker[v].job # j /\ worker[v].job \in Job
    OBVIOUS
  <2>1. worker[v].job \in Job
    BY DEF TypeInv, Engaged, Armed
  <2> QED BY <1>a, <2>1 DEF Owns, Ownership, ExclusiveOwnership
<1>d. \A v \in Worker, k \in Job : Owns(v, k)' <=> Owns(v, k) /\ v # w
  BY DEF Apart, Owns
<1>e. o \in Outcome /\ o # "interrupted" /\ (worker[w].ok => o = "succeeded")
  BY OutcomeType DEF SettledOutcome
<1>f. row[j].status = "running"
  BY <1>a DEF Ownership, ExclusiveOwnership, Running
<1>1. CASE run = 0
  <2>1. UNCHANGED <<open, finished, nextRun, finishes>>
    BY <1>1 DEF MarkWithRun, ledger
  <2>2. IdsAreUsedOnce' /\ SettledInOrder'
    BY <2>1 DEF LedgerInv, IdsAreUsedOnce, SettledInOrder
  <2>3. RunsAgree'
    BY <2>1 DEF LedgerInv, RunsAgree, RunAgrees, Apart
  <2>4. OpenRunIsKept'
    <3> SUFFICES ASSUME NEW r \in open, r.id \notin orphans
                 PROVE  \E v \in Worker : Owns(v, r.job)' /\ worker'[v].run = r.id
      BY <2>1 DEF OpenRunIsKept
    <3>1. PICK v \in Worker : Owns(v, r.job) /\ worker[v].run = r.id
      BY DEF LedgerInv, OpenRunIsKept
    <3>2. v # w
      BY <1>1, <3>1 DEF LedgerInv, IdsAreUsedOnce
    <3> QED BY <3>1, <3>2 DEF Owns, Apart
  <2>5. ~(j \in Recorded /\ worker[w].ok)
    BY <1>1 DEF LedgerInv, RunsAgree, RunAgrees
  <2>6. SuccessIsRecorded'
    BY <1>b, <2>1, <2>5, LedgerAssumption DEF LedgerInv, SuccessIsRecorded, Uninterrupted
  <2> QED BY <2>2, <2>3, <2>4, <2>6 DEF LedgerInv
<1>2. CASE run # 0
  <2> DEFINE r0 == [id |-> run, job |-> j]
             f0 == Finish(r0, o)
  <2>1. SettleRuns({run}, o) /\ IdsAreUsedOnce
    BY <1>2 DEF MarkWithRun, LedgerInv
  <2>2. /\ open' = {r \in open : r.id # run}
        /\ nextRun' = nextRun /\ finishes' = finishes + 1
        /\ \A f \in finished' : f \in finished \/ \E r \in open : r.id = run /\ f = Finish(r, o)
        /\ \A f \in finished', g \in finished : Later(g, f) => g \in finished'
        /\ \A r \in open : r.id = run /\ (\A q \in open : q.id = run => q = r) => Finish(r, o) \in finished'
        /\ IdsAreUsedOnce'
    BY <1>a, <1>e, <2>1, Settles
  <2>3. r0 \in open /\ (\A f \in finished : f.job = j => f.id < run)
    BY <1>2 DEF LedgerInv, RunsAgree, RunAgrees
  <2>4. \A q \in open : q.id = run => q = r0
    BY <2>1, <2>3 DEF IdsAreUsedOnce
  <2>5. f0 \in finished' /\ \A f \in finished' : f \in finished \/ f = f0
    BY <2>2, <2>3, <2>4
  <2>6. f0.id = run /\ f0.job = j /\ f0.outcome = o /\ f0.at = finishes + 1
    BY DEF Finish
  <2> HIDE DEF f0, o
  <2>7. RunsAgree'
    <3> SUFFICES ASSUME NEW v \in Worker PROVE RunAgrees(v)'
      BY DEF RunsAgree
    <3>1. CASE v = w
      BY <3>1 DEF RunAgrees
    <3>2. CASE v # w /\ worker[v].pc \in Armed
      <4>1. worker'[v] = worker[v] /\ worker[v].job # j /\ RunAgrees(v)
        BY <1>c, <3>2 DEF Apart, LedgerInv, RunsAgree
      <4>2. ASSUME worker[v].run # 0
            PROVE  /\ [id |-> worker[v].run, job |-> worker[v].job] \in open'
                   /\ \A f \in finished' : f.job = worker[v].job => f.id < worker[v].run
        <5>1. [id |-> worker[v].run, job |-> worker[v].job] \in open
          BY <3>2, <4>1, <4>2 DEF RunAgrees
        <5>2. worker[v].run # run
          BY <2>4, <4>1, <5>1
        <5> QED BY <2>2, <2>5, <2>6, <3>2, <4>1, <4>2, <5>1, <5>2 DEF RunAgrees
      <4> QED BY <3>2, <4>1, <4>2 DEF RunAgrees
    <3>3. CASE v # w /\ worker[v].pc \notin Armed
      BY <3>3 DEF RunAgrees, Apart
    <3> QED BY <3>1, <3>2, <3>3
  <2>8. OpenRunIsKept'
    <3> SUFFICES ASSUME NEW r \in open, r.id # run, r.id \notin orphans
                 PROVE  \E v \in Worker : Owns(v, r.job)' /\ worker'[v].run = r.id
      BY <2>2 DEF OpenRunIsKept
    <3>1. PICK v \in Worker : Owns(v, r.job) /\ worker[v].run = r.id
      BY DEF LedgerInv, OpenRunIsKept
    <3> QED BY <3>1 DEF Owns, Apart
  <2>9. SettledInOrder'
    <3> SUFFICES ASSUME NEW f \in finished', NEW g \in finished', f.job = g.job,
                        f.outcome # "interrupted", g.outcome # "interrupted", f.id < g.id
                 PROVE  f.at < g.at
      BY DEF SettledInOrder
    <3>t. finishes \in Nat /\ run \in Nat /\ \A h \in finished : h.at \in Nat /\ h.id \in Nat /\ h.at <= finishes
      BY <1>a, <2>1, <2>3 DEF TypeOK, FinishedRun, OpenRun, IdsAreUsedOnce
    <3>1. CASE f \in finished /\ g \in finished
      BY <3>1 DEF LedgerInv, SettledInOrder
    <3>2. CASE g = f0 /\ f \in finished
      BY <2>6, <3>t, <3>2
    <3>3. CASE f = f0 /\ g \in finished
      BY <2>3, <2>6, <3>t, <3>3
    <3>4. CASE f = f0 /\ g = f0
      BY <2>6, <3>t, <3>4
    <3> QED BY <2>5, <3>1, <3>2, <3>3, <3>4
  <2>10. SuccessIsRecorded'
    <3> SUFFICES ASSUME NEW k \in Recorded, row'[k].status = "succeeded"
                 PROVE  /\ \A f \in Uninterrupted(k)' :
                             (\A q \in Uninterrupted(k)' : q.id <= f.id) => f.outcome = "succeeded"
                        /\ \A r \in open' : r.job = k => r.id \in orphans'
      BY DEF SuccessIsRecorded
    <3>k. k \in Job
      BY LedgerAssumption
    <3>t. finishes \in Nat /\ run \in Nat /\ \A h \in finished : h.at \in Nat /\ h.id \in Nat /\ h.at <= finishes
      BY <1>a, <2>1, <2>3 DEF TypeOK, FinishedRun, OpenRun, IdsAreUsedOnce
    <3>1. CASE k = j
      <4>1. worker[w].ok /\ o = "succeeded"
        BY <1>b, <1>e, <3>1 DEF o
      <4>2. ASSUME NEW f \in Uninterrupted(k)', \A q \in Uninterrupted(k)' : q.id <= f.id
            PROVE  f.outcome = "succeeded"
        <5>1. f0 \in Uninterrupted(k)'
          BY <1>e, <2>5, <2>6, <3>1 DEF Uninterrupted
        <5>2. run <= f.id /\ f \in finished' /\ f.job = j
          BY <2>6, <3>1, <4>2, <5>1 DEF Uninterrupted
        <5>3. f \notin finished
          BY <2>3, <3>t, <5>2
        <5> QED BY <2>5, <2>6, <4>1, <5>2, <5>3
      <4>3. ASSUME NEW r \in open', r.job = k PROVE r.id \in orphans'
        <5>1. r \in open /\ r.id # run
          BY <2>2
        <5>2. CASE r.id \notin orphans
          <6>1. PICK v \in Worker : Owns(v, r.job) /\ worker[v].run = r.id
            BY <5>1, <5>2 DEF LedgerInv, OpenRunIsKept
          <6> QED BY <1>c, <3>1, <4>3, <5>1, <6>1 DEF Owns
        <5> QED BY <5>2
      <4> QED BY <4>2, <4>3
    <3>2. CASE k # j
      <4>1. row[k].status = "succeeded"
        BY <1>b, <3>k, <3>2
      <4>2. Uninterrupted(k)' \subseteq Uninterrupted(k)
        BY <2>5, <2>6, <3>2 DEF Uninterrupted
      <4>3. ASSUME NEW f \in Uninterrupted(k)', \A q \in Uninterrupted(k)' : q.id <= f.id
            PROVE  f.outcome = "succeeded"
        <5>1. ASSUME NEW q \in Uninterrupted(k) PROVE q.id <= f.id
          <6>1. f \in finished /\ q \in finished /\ f.job = q.job /\ f.outcome # "interrupted" /\ q.outcome # "interrupted"
            BY <4>2, <5>1 DEF Uninterrupted
          <6>2. CASE f.id < q.id
            <7>1. Later(q, f)
              BY <3>t, <6>1, <6>2 DEF LedgerInv, SettledInOrder, Later
            <7>2. q \in Uninterrupted(k)'
              BY <2>2, <4>3, <5>1, <6>1, <7>1 DEF Uninterrupted
            <7> QED BY <4>3, <7>2
          <6> QED BY <3>t, <6>1, <6>2
        <5> QED BY <4>1, <4>2, <4>3, <5>1 DEF LedgerInv, SuccessIsRecorded
      <4>4. \A r \in open' : r.job = k => r.id \in orphans'
        BY <2>2, <4>1 DEF LedgerInv, SuccessIsRecorded
      <4> QED BY <4>3, <4>4
    <3> QED BY <3>1, <3>2
  <2> QED BY <2>2, <2>7, <2>8, <2>9, <2>10 DEF LedgerInv
<1> QED BY <1>1, <1>2

LEMMA LedgerInterrupted ==
  ASSUME TypeInv, Ownership, LedgerInv, Interrupt
  PROVE  LedgerInv'
<1>a. /\ boot' = "poolReclaim" /\ UNCHANGED <<row, worker>>
      /\ \A w \in Worker : worker[w].pc \notin Armed
  <2>1. boot = "interrupt" /\ boot' = "poolReclaim" /\ UNCHANGED <<row, worker>>
    BY DEF Interrupt
  <2>2. \A w \in Worker : worker[w].pc \in Armed => worker[w].job \in Job
    BY DEF TypeInv, Engaged, Armed
  <2> QED BY <2>1, <2>2 DEF Ownership, Owns
<1>b. RunsAgree'
  BY <1>a DEF RunsAgree, RunAgrees
<1>c. TypeOK /\ IdsAreUsedOnce
  BY DEF TypeInv, LedgerInv
<1>1. CASE SettleRuns({r.id : r \in open}, "interrupted") /\ orphans' = {}
  <2>1. "interrupted" \in Outcome
    BY DEF Outcome
  <2>2. /\ open' = {r \in open : r.id \notin {q.id : q \in open}}
        /\ finishes' = finishes + 1
        /\ \A f \in finished' : f \in finished \/ \E r \in open : f = Finish(r, "interrupted")
        /\ \A f \in finished', g \in finished : Later(g, f) => g \in finished'
        /\ IdsAreUsedOnce'
    BY <1>1, <1>c, <2>1, Settles
  <2>3. open' = {}
    BY <2>2
  <2>4. \A f \in finished' : f.outcome # "interrupted" => f \in finished
    BY <2>2 DEF Finish
  <2>5. SettledInOrder'
    BY <2>4 DEF LedgerInv, SettledInOrder
  <2>6. OpenRunIsKept'
    BY <2>3 DEF OpenRunIsKept
  <2>7. SuccessIsRecorded'
    <3> SUFFICES ASSUME NEW k \in Recorded, row[k].status = "succeeded",
                        NEW f \in Uninterrupted(k)', \A q \in Uninterrupted(k)' : q.id <= f.id
                 PROVE  f.outcome = "succeeded"
      BY <1>a, <2>3 DEF SuccessIsRecorded
    <3>1. \A h \in finished : h.at \in Nat /\ h.id \in Nat
      BY <1>c DEF TypeOK, FinishedRun
    <3>2. f \in Uninterrupted(k)
      BY <2>4 DEF Uninterrupted
    <3>3. ASSUME NEW q \in Uninterrupted(k) PROVE q.id <= f.id
      <4>1. f \in finished /\ q \in finished /\ f.job = q.job /\ f.outcome # "interrupted" /\ q.outcome # "interrupted"
        BY <3>2, <3>3 DEF Uninterrupted
      <4>2. CASE f.id < q.id
        <5>1. Later(q, f)
          BY <3>1, <4>1, <4>2 DEF LedgerInv, SettledInOrder, Later
        <5>2. q \in Uninterrupted(k)'
          BY <2>2, <3>3, <4>1, <5>1 DEF Uninterrupted
        <5> QED BY <5>2
      <4> QED BY <3>1, <4>1, <4>2
    <3> QED BY <3>2, <3>3 DEF LedgerInv, SuccessIsRecorded
  <2> QED BY <1>b, <2>2, <2>5, <2>6, <2>7 DEF LedgerInv
<1>2. CASE UNCHANGED ledger /\ orphans' = {r.id : r \in open}
  <2>1. UNCHANGED <<open, finished, nextRun, finishes>> /\ \A r \in open : r.id \in orphans'
    BY <1>2 DEF ledger
  <2>2. IdsAreUsedOnce' /\ SettledInOrder'
    BY <2>1 DEF LedgerInv, IdsAreUsedOnce, SettledInOrder
  <2>3. OpenRunIsKept'
    BY <2>1 DEF OpenRunIsKept
  <2>4. SuccessIsRecorded'
    BY <1>a, <2>1 DEF LedgerInv, SuccessIsRecorded, Uninterrupted
  <2> QED BY <1>b, <2>2, <2>3, <2>4 DEF LedgerInv
<1> QED BY <1>1, <1>2 DEF Interrupt

LEMMA LedgerBegun ==
  ASSUME TypeInv, Ownership, LedgerInv, NEW w \in Worker, BeginAttempt(w), worker[w].job \in Recorded
  PROVE  LedgerInv'
<1> DEFINE r0 == [id |-> nextRun, job |-> worker[w].job]
<1>1. /\ worker[w].pc = "begin" /\ open' = open \cup {r0} /\ nextRun' = nextRun + 1
      /\ worker' = [worker EXCEPT ![w].pc = "run", ![w].run = nextRun]
      /\ UNCHANGED <<row, finished, finishes, boot, orphans>>
  BY DEF BeginAttempt, At, NewRun, history
<1>2. /\ worker'[w].pc = "run" /\ worker'[w].run = nextRun /\ worker'[w].job = worker[w].job
      /\ \A v \in Worker : v # w => worker'[v] = worker[v]
  BY <1>1 DEF TypeInv, TypeOK, WorkerState
<1>3. /\ nextRun \in Nat /\ nextRun # 0 /\ TypeOK
      /\ \A r \in open : r.id \in Nat /\ r.id # 0 /\ r.id < nextRun
      /\ \A f \in finished : f.id \in Nat /\ f.id < nextRun
  BY DEF TypeInv, TypeOK, OpenRun, FinishedRun, LedgerInv, IdsAreUsedOnce
<1>4. worker[w].run = 0
  BY <1>1 DEF LedgerInv, RunsAgree, RunAgrees, Armed
<1>5. IdsAreUsedOnce'
  <2>1. IsFiniteSet(open') /\ IsFiniteSet(finished')
    BY <1>1, FS_AddElement DEF LedgerInv, IdsAreUsedOnce
  <2>2. /\ \A r \in open' : r.id # 0 /\ r.id < nextRun'
        /\ \A f \in finished' : f.id < nextRun' /\ f.at <= finishes'
    BY <1>1, <1>3 DEF LedgerInv, IdsAreUsedOnce
  <2>3. /\ \A q, r \in open' : q.id = r.id => q = r
        /\ \A f, g \in finished' : f.id = g.id => f = g
        /\ \A r \in open', f \in finished' : r.id # f.id
    BY <1>1, <1>3 DEF LedgerInv, IdsAreUsedOnce
  <2> QED BY <2>1, <2>2, <2>3 DEF IdsAreUsedOnce
<1>6. RunsAgree'
  <2> SUFFICES ASSUME NEW v \in Worker PROVE RunAgrees(v)'
    BY DEF RunsAgree
  <2>1. CASE v = w
    <3>1. r0 \in open' /\ r0 = [id |-> worker'[v].run, job |-> worker'[v].job]
      BY <1>1, <1>2, <2>1
    <3>2. \A f \in finished' : f.id < worker'[v].run
      BY <1>1, <1>2, <1>3, <2>1
    <3>3. worker'[v].pc = "run" /\ worker'[v].run # 0
      BY <1>2, <1>3, <2>1
    <3> QED BY <3>1, <3>2, <3>3 DEF RunAgrees
  <2>2. CASE v # w
    <3>1. RunAgrees(v) /\ worker'[v] = worker[v] /\ finished' = finished /\ open \subseteq open'
      BY <1>1, <1>2, <2>2 DEF LedgerInv, RunsAgree
    <3> QED BY <3>1 DEF RunAgrees
  <2> QED BY <2>1, <2>2
<1>7. OpenRunIsKept'
  <2> SUFFICES ASSUME boot \in {"poolReclaim", "poolRequeue", "up"}, NEW r \in open', r.id \notin orphans
               PROVE  \E v \in Worker : Owns(v, r.job)' /\ worker'[v].run = r.id
    BY <1>1 DEF OpenRunIsKept
  <2>1. CASE r = r0
    BY <1>2, <2>1 DEF Owns, Armed
  <2>2. CASE r \in open
    <3>1. PICK v \in Worker : Owns(v, r.job) /\ worker[v].run = r.id
      BY <2>2 DEF LedgerInv, OpenRunIsKept
    <3>2. v # w
      BY <1>3, <1>4, <2>2, <3>1
    <3> QED BY <1>2, <3>1, <3>2 DEF Owns
  <2> QED BY <1>1, <2>1, <2>2
<1>8. SettledInOrder'
  BY <1>1 DEF LedgerInv, SettledInOrder
<1>9. SuccessIsRecorded'
  <2>1. Owns(w, worker[w].job) /\ worker[w].job \in Job
    BY <1>1 DEF Owns, Armed, TypeInv, Engaged
  <2>2. row[worker[w].job].status # "succeeded"
    BY <2>1 DEF Ownership, ExclusiveOwnership, Running
  <2> QED BY <1>1, <2>2 DEF LedgerInv, SuccessIsRecorded, Uninterrupted
<1> QED BY <1>5, <1>6, <1>7, <1>8, <1>9 DEF LedgerInv

LEMMA LedgerStep == TypeInv /\ Ownership /\ LedgerInv /\ [Next]_vars => LedgerInv'
<1> SUFFICES ASSUME TypeInv, Ownership, LedgerInv, [Next]_vars PROVE LedgerInv'
  OBVIOUS
<1>a. TypeOK /\ Engaged /\ \A w \in Worker : RunAgrees(w)
  BY DEF TypeInv, LedgerInv, RunsAgree
<1>1. ASSUME NEW j \in Job, Producer(j) \/ BackoffElapses(j) PROVE LedgerInv'
  <2>1. /\ UNCHANGED <<ledger, orphans, boot, worker>>
        /\ \A k \in Job : row'[k].status = "succeeded" => row[k].status = "succeeded"
    BY <1>1, <1>a DEF Producer, Enqueue, Reschedule, BackoffElapses, Fresh, TypeOK, Row,
                      volatile, history
  <2> QED BY <1>a, <2>1, LedgerFrame DEF RunAgrees, KeepsRun, BearsRun
<1>2. ASSUME NEW w \in Worker, Claim(w) PROVE LedgerInv'
  <2>1. PICK j \in Job :
          /\ row' = [row EXCEPT ![j] = [status |-> "running", due |-> FALSE,
                                        attempts |-> @.attempts + 1]]
          /\ worker' = [worker EXCEPT ![w] =
               [Idle EXCEPT !.job = j,
                            !.pc = IF SourceOf[j] = NoSource THEN "begin" ELSE "lock"]]
    BY <1>2 DEF Claim
  <2>2. UNCHANGED <<ledger, orphans, boot>> /\ worker[w].pc = "idle"
    BY <1>2 DEF Claim, At, history
  <2>3. \A k \in Job : row'[k].status = "succeeded" => row[k].status = "succeeded"
    BY <2>1, <1>a DEF TypeOK
  <2>4. /\ worker'[w].pc \in {"begin", "lock"} /\ worker'[w].run = 0 /\ worker'[w].ok = FALSE
        /\ Apart(w)
    BY <2>1, <1>a DEF Idle, TypeOK, Apart
  <2> QED BY <1>a, <2>2, <2>3, <2>4, LedgerFrame DEF RunAgrees, KeepsRun, BearsRun, Apart, Armed
<1>3. ASSUME NEW w \in Worker, BeginAttempt(w) PROVE LedgerInv'
  <2>1. CASE worker[w].job \in Recorded
    BY <1>3, <2>1, LedgerBegun
  <2>2. CASE worker[w].job \notin Recorded
    <3>1. /\ worker[w].pc = "begin" /\ worker'[w].pc = "run" /\ Apart(w)
          /\ worker'[w].run = worker[w].run /\ worker'[w].job = worker[w].job
          /\ UNCHANGED <<ledger, orphans, boot, row>>
      BY <1>3, <2>2, <1>a DEF BeginAttempt, At, Goto, Apart, ledger, history, TypeOK, WorkerState
    <3> QED BY <1>a, <2>2, <3>1, LedgerFrame DEF RunAgrees, KeepsRun, BearsRun, Apart, Armed
  <2> QED BY <2>1, <2>2
<1>4. ASSUME NEW w \in Worker,
             \/ AcquireSource(w) \/ BeginAttemptFails(w) \/ RunHandler(w) \/ Panic(w)
             \/ PanicAgain(w) \/ SettleFails(w)
      PROVE  LedgerInv'
  <2>1. UNCHANGED <<ledger, orphans, boot, row>>
    BY <1>4 DEF AcquireSource, BeginAttemptFails, RunHandler, Panic, PanicAgain, SettleFails,
                durable, ledger, history
  <2>2. /\ Apart(w) /\ worker[w].pc \in Armed /\ worker'[w].pc \in Armed
        /\ worker'[w].run = worker[w].run /\ worker'[w].job = worker[w].job
        /\ worker'[w].pc # "run"
        /\ worker'[w].ok => worker[w].ok \/ worker[w].pc = "run"
        /\ worker'[w].pc \in {"lock", "begin", "defer"} => worker[w].pc \in {"lock", "begin", "defer"}
    <3>1. CASE AcquireSource(w) \/ BeginAttemptFails(w) \/ PanicAgain(w)
      BY <3>1, <1>a DEF AcquireSource, TryAcquire, BeginAttemptFails, PanicAgain, At, Goto, Apart,
                        Armed, TypeOK, WorkerState
    <3>2. CASE RunHandler(w)
      BY <3>2, <1>a DEF RunHandler, At, Apart, Armed, TypeOK, WorkerState
    <3>3. CASE Panic(w)
      BY <3>3, <1>a DEF Panic, At, Apart, Armed, TypeOK, WorkerState
    <3>4. CASE SettleFails(w)
      BY <3>4, <1>a DEF SettleFails, Unrecovered, At, Goto, Apart, Armed, TypeOK, WorkerState
    <3> QED BY <1>4, <3>1, <3>2, <3>3, <3>4
  <2>3. ASSUME NEW v \in Worker, worker'[v].pc \in Armed
        PROVE  KeepsRun(v) /\ BearsRun(v)
    <3>1. RunAgrees(v)
      BY <1>a
    <3>2. CASE v = w
      BY <2>2, <3>1, <3>2 DEF RunAgrees, KeepsRun, BearsRun
    <3>3. CASE v # w
      BY <2>2, <2>3, <3>1, <3>3 DEF RunAgrees, Apart, KeepsRun, BearsRun
    <3> QED BY <3>2, <3>3
  <2>4. ASSUME NEW v \in Worker, worker[v].pc \in Armed
        PROVE  KeepsRun(v)
    <3>1. CASE v = w
      BY <2>2, <3>1 DEF KeepsRun
    <3>2. CASE v # w
      BY <2>2, <2>4, <3>2 DEF Apart, KeepsRun
    <3> QED BY <3>1, <3>2
  <2> QED BY <2>1, <2>3, <2>4, LedgerFrame
<1>5. ASSUME NEW w \in Worker, Settle(w) \/ DropGuard(w) \/ Unwind(w) PROVE LedgerInv'
  <2>1. /\ worker[w].pc \in Armed /\ MarkWithRun(worker[w].job, worker[w].run, worker[w].ok)
        /\ boot = "up" /\ boot' = "up" /\ orphans' = orphans
    BY <1>5 DEF Settle, DropGuard, Unwind, At, Armed
  <2>2. worker'[w].pc \notin Armed /\ Apart(w)
    BY <1>5, <1>a DEF Settle, DropGuard, Unwind, AfterSettle, Goto, Idle, Dead, Armed, Apart,
                      TypeOK, WorkerState
  <2> QED BY <2>1, <2>2, LedgerSettled
<1>6. ASSUME NEW w \in Worker, Defer(w) PROVE LedgerInv'
  <2>1. /\ worker[w].pc = "defer" /\ worker'[w].pc \notin Armed /\ Apart(w)
        /\ UNCHANGED <<ledger, orphans, boot>>
    BY <1>6, <1>a DEF Defer, At, Idle, Armed, Apart, history, TypeOK, WorkerState
  <2>2. \A k \in Job : row'[k].status = "succeeded" => row[k].status = "succeeded"
    BY <1>6, <1>a DEF Defer, TypeOK
  <2>3. worker[w].run = 0
    BY <1>a, <2>1 DEF RunAgrees, Armed
  <2>4. ASSUME NEW v \in Worker, worker'[v].pc \in Armed
        PROVE  KeepsRun(v) /\ BearsRun(v)
    <3>1. worker'[v] = worker[v]
      BY <2>1, <2>4 DEF Apart
    <3>2. RunAgrees(v)
      BY <1>a
    <3> QED BY <2>4, <3>1, <3>2 DEF RunAgrees, KeepsRun, BearsRun
  <2>5. ASSUME NEW v \in Worker, worker[v].pc \in Armed
        PROVE  KeepsRun(v) \/ \A r \in open : r.id # worker[v].run
    <3>1. CASE v = w
      BY <2>3, <3>1 DEF LedgerInv, IdsAreUsedOnce
    <3>2. CASE v # w
      BY <2>1, <2>5, <3>2 DEF Apart, KeepsRun
    <3> QED BY <3>1, <3>2
  <2> QED BY <2>1, <2>2, <2>4, <2>5, LedgerFrame
<1>7. ASSUME NEW w \in Worker, DropFails(w) PROVE LedgerInv'
  <2>1. /\ worker[w].pc \in Armed /\ worker'[w].pc \notin Armed /\ Apart(w)
        /\ UNCHANGED <<ledger, boot, row>>
    BY <1>7, <1>a DEF DropFails, At, Idle, Dead, Armed, Apart, durable, ledger, TypeOK, WorkerState
  <2>2. orphans \subseteq orphans' /\ \A r \in open : r.id = worker[w].run => r.id \in orphans'
    BY <1>7 DEF DropFails
  <2>3. ASSUME NEW v \in Worker, worker'[v].pc \in Armed
        PROVE  KeepsRun(v) /\ BearsRun(v)
    <3>1. v # w /\ worker'[v] = worker[v]
      BY <2>1, <2>3 DEF Apart
    <3>2. RunAgrees(v)
      BY <1>a
    <3> QED BY <2>3, <3>1, <3>2 DEF RunAgrees, KeepsRun, BearsRun
  <2>4. ASSUME NEW v \in Worker, worker[v].pc \in Armed
        PROVE  KeepsRun(v) \/ \A r \in open : r.id = worker[v].run => r.id \in orphans'
    <3>1. CASE v = w
      BY <2>2, <3>1
    <3>2. CASE v # w
      BY <2>1, <2>4, <3>2 DEF Apart, KeepsRun
    <3> QED BY <3>1, <3>2
  <2>5. \A k \in Job : row'[k].status = "succeeded" => row[k].status = "succeeded"
    BY <2>1
  <2>6. boot' \in {"poolReclaim", "poolRequeue", "up"} => boot \in {"poolReclaim", "poolRequeue", "up"}
    BY <2>1
  <2>7. UNCHANGED ledger /\ orphans \subseteq orphans'
    BY <2>1, <2>2
  <2> HIDE DEF ledger
  <2> QED BY <2>3, <2>4, <2>5, <2>6, <2>7, LedgerFrame
<1>8. ASSUME NEW w \in Worker, TerminalHooks(w) PROVE LedgerInv'
  <2>1. /\ worker[w].pc \notin Armed /\ worker'[w].pc \notin Armed /\ Apart(w)
        /\ UNCHANGED <<ledger, orphans, boot, row>>
    BY <1>8, <1>a DEF TerminalHooks, At, Idle, Armed, Apart, ledger, TypeOK, WorkerState
  <2>2. ASSUME NEW v \in Worker, worker'[v].pc \in Armed \/ worker[v].pc \in Armed
        PROVE  KeepsRun(v) /\ BearsRun(v)
    <3>1. worker'[v] = worker[v] /\ worker[v].pc \in Armed
      BY <2>1, <2>2 DEF Apart
    <3>2. RunAgrees(v)
      BY <1>a
    <3> QED BY <3>1, <3>2 DEF RunAgrees, KeepsRun, BearsRun
  <2> QED BY <2>1, <2>2, LedgerFrame
<1>9. ASSUME NEW s \in Source, Command(s) PROVE LedgerInv'
  <2>1. UNCHANGED <<ledger, orphans, boot, row, worker>>
    BY <1>9 DEF Command, OnDemandStart, OnDemandEnd, ManualStart, ManualEnd, durable, ledger, history
  <2> QED BY <1>a, <2>1, LedgerFrame DEF RunAgrees, KeepsRun, BearsRun
<1>10. ASSUME Crash PROVE LedgerInv'
  <2>1. /\ UNCHANGED <<ledger, orphans, row>> /\ boot' = "reclaim"
        /\ \A w \in Worker : worker'[w].pc \notin Armed
    BY <1>10 DEF Crash, durable, ledger, Idle, Armed
  <2> QED BY <1>a, <2>1, LedgerFrame
<1>11. ASSUME DeadLetter \/ Requeue \/ ReclaimFails PROVE LedgerInv'
  <2>1. /\ UNCHANGED <<ledger, orphans, worker>>
        /\ boot' \in {"poolReclaim", "poolRequeue", "up"} => boot \in {"poolReclaim", "poolRequeue", "up"}
    BY <1>11 DEF DeadLetter, Requeue, ReclaimFails, AfterReclaim, durable, ledger
  <2>2. \A k \in Job : row'[k].status = "succeeded" => row[k].status = "succeeded"
    <3>1. CASE DeadLetter
      BY <3>1, <1>a DEF DeadLetter, TypeOK, Row
    <3>2. CASE Requeue
      BY <3>2, <1>a DEF Requeue, TypeOK, Row
    <3>3. CASE ReclaimFails
      BY <3>3 DEF ReclaimFails, durable
    <3> QED BY <1>11, <3>1, <3>2, <3>3
  <2> QED BY <1>a, <2>1, <2>2, LedgerFrame DEF RunAgrees, KeepsRun, BearsRun
<1>12. CASE UNCHANGED vars
  <2>1. UNCHANGED <<ledger, orphans, boot, row, worker>>
    BY <1>12 DEF vars, durable, volatile, ledger, history
  <2> QED BY <1>a, <2>1, LedgerFrame DEF RunAgrees, KeepsRun, BearsRun
<1> QED
  BY <1>1, <1>2, <1>3, <1>4, <1>5, <1>6, <1>7, <1>8, <1>9, <1>10, <1>11, <1>12, LedgerInterrupted
  DEF Next, Progress, Trouble, Start

LEMMA LedgerCorrect == Spec => [](TypeInv /\ Ownership /\ LedgerInv)
BY TypeInit, TypeStep, OwnershipInit, OwnershipStep, LedgerInit, LedgerStep, PTL DEF Spec

\* Once the lanes run, an occurrence that is open is the one its thread will settle, or
\* known to be orphaned; and the newest occurrence of a succeeded job that no start
\* interrupted succeeded (settle_with_recovery, job_runs::settle, prune).
THEOREM LedgerIsTrueHolds == Spec => []LedgerIsTrue
<1>1. LedgerInv => LedgerIsTrue
  BY DEF LedgerInv, LedgerIsTrue, OpenRunIsKept, OpenRunIsLive
<1> QED BY <1>1, LedgerCorrect, PTL

\* No step reopens, rewrites or settles again what is settled, and none settles what
\* was not open (job_runs::settle, activity_reconcile).
THEOREM OutcomeIsFinalHolds == Spec => OutcomeIsFinal
<1>1. TypeInv /\ LedgerInv /\ LedgerInv' /\ [Next]_vars => [SettledForGood]_vars
  <2> SUFFICES ASSUME TypeInv, LedgerInv, LedgerInv', [Next]_vars PROVE SettledForGood
    OBVIOUS
  <2>a. TypeOK /\ IdsAreUsedOnce /\ IdsAreUsedOnce'
    BY DEF TypeInv, LedgerInv
  <2>1. CASE UNCHANGED <<open, finished>>
    BY <2>a, <2>1 DEF IdsAreUsedOnce, SettledForGood
  <2>2. ASSUME NEW w \in Worker, BeginAttempt(w), worker[w].job \in Recorded PROVE SettledForGood
    <3>1. open' = open \cup {[id |-> nextRun, job |-> worker[w].job]} /\ finished' = finished
      BY <2>2 DEF BeginAttempt, NewRun
    <3>2. \A f \in finished : f.id # nextRun
      BY <2>a DEF IdsAreUsedOnce, TypeOK, FinishedRun
    <3> QED BY <2>a, <3>1, <3>2 DEF IdsAreUsedOnce, SettledForGood
  <2>3. ASSUME NEW ids, NEW o \in Outcome, SettleRuns(ids, o) PROVE SettledForGood
    <3>1. /\ open' \subseteq open
          /\ \A f \in finished' : f \in finished \/ \E r \in open : f = Finish(r, o)
      BY <2>a, <2>3, Settles
    <3>2. \A f \in finished' : f \in finished \/ \E r \in open : f.id = r.id /\ f.job = r.job
      BY <3>1 DEF Finish
    <3> QED BY <2>a, <3>1, <3>2 DEF IdsAreUsedOnce, SettledForGood
  <2>4. ASSUME NEW w \in Worker, Settle(w) \/ DropGuard(w) \/ Unwind(w) PROVE SettledForGood
    <3>1. MarkWithRun(worker[w].job, worker[w].run, worker[w].ok)
      BY <2>4 DEF Settle, DropGuard, Unwind
    <3> QED BY <2>1, <2>3, <3>1, OutcomeType DEF MarkWithRun, ledger
  <2>5. CASE Interrupt
    <3>1. "interrupted" \in Outcome
      BY DEF Outcome
    <3>2. CASE UNCHANGED ledger
      BY <2>1, <3>2 DEF ledger
    <3>3. CASE SettleRuns({r.id : r \in open}, "interrupted")
      BY <2>3, <3>1, <3>3
    <3> QED BY <2>5, <3>2, <3>3 DEF Interrupt
  <2>6. ASSUME NEW w \in Worker, BeginAttempt(w), worker[w].job \notin Recorded PROVE SettledForGood
    BY <2>1, <2>6 DEF BeginAttempt
  <2>7. ASSUME NEW w \in Worker,
               \/ Claim(w) \/ AcquireSource(w) \/ RunHandler(w) \/ Defer(w) \/ TerminalHooks(w)
               \/ Trouble(w)
        PROVE  SettledForGood
    <3>1. UNCHANGED <<open, finished>>
      BY <2>7 DEF Claim, AcquireSource, RunHandler, Defer, TerminalHooks, Trouble,
                  BeginAttemptFails, SettleFails, Panic, PanicAgain, DropFails, durable, ledger
    <3> QED BY <2>1, <3>1
  <2>8. ASSUME NEW j \in Job, Producer(j) \/ BackoffElapses(j) PROVE SettledForGood
    BY <2>1, <2>8 DEF Producer, Enqueue, Reschedule, BackoffElapses, ledger
  <2>9. ASSUME NEW s \in Source, Command(s) PROVE SettledForGood
    BY <2>1, <2>9 DEF Command, OnDemandStart, OnDemandEnd, ManualStart, ManualEnd, durable
  <2>10. CASE DeadLetter \/ Requeue \/ ReclaimFails \/ Crash
    BY <2>1, <2>10 DEF DeadLetter, Requeue, ReclaimFails, Crash, durable, ledger
  <2>11. CASE UNCHANGED vars
    BY <2>1, <2>11 DEF vars, durable
  <2> QED BY <2>2, <2>4, <2>5, <2>6, <2>7, <2>8, <2>9, <2>10, <2>11
          DEF Next, Progress, Start
<1> QED BY <1>1, LedgerCorrect, PTL DEF Spec, OutcomeIsFinal

-----------------------------------------------------------------------------
(* The contract. *)

\* What the refinement mapping makes of a job, by its row and its owner.
MappedJob(j) ==
  /\ row[j].status \in RowStatus /\ spentOf[j] = row[j].attempts
  /\ \A w \in Worker : holderOf[j] = w <=> Owns(w, j)
  /\ phaseOf[j] = "none" <=> row[j].status = "absent"
  /\ phaseOf[j] = "queued" <=> row[j].status = "pending"
  /\ phaseOf[j] \in {"held", "orphaned"} <=> row[j].status = "running"
  /\ phaseOf[j] = "held" <=> \E w \in Worker : Owns(w, j)
  /\ phaseOf[j] = "done" <=> row[j].status = "succeeded"
  /\ phaseOf[j] = "dead" <=> row[j].status = "failed"
Mapped == Contract!TypeOK /\ \A j \in Job : MappedJob(j)

LEMMA MappingHolds == TypeInv /\ Ownership => Mapped
<1> SUFFICES ASSUME TypeInv, Ownership PROVE Mapped
  OBVIOUS
<1>1. ASSUME NEW j \in Job
      PROVE  /\ MappedJob(j) /\ phaseOf[j] \in Contract!Phase /\ spentOf[j] \in Nat
             /\ holderOf[j] \in Worker \cup {Free}
  <2>1. row[j].status \in RowStatus /\ row[j].attempts \in Nat
    BY DEF TypeInv, TypeOK, Row
  <2>2. \A w \in Worker : Owns(w, j) => Running(j) /\ \A v \in Worker : Owns(v, j) => v = w
    BY DEF Ownership, ExclusiveOwnership
  <2>3. spentOf[j] = row[j].attempts
    BY DEF spentOf
  <2>4. CASE \E w \in Worker : Owns(w, j)
    <3>1. PICK w \in Worker : Owns(w, j)
      BY <2>4
    <3>2. row[j].status = "running" /\ w \in Holders(j)
      BY <2>2, <3>1 DEF Running, Holders
    <3>3. phaseOf[j] = "held"
      BY <3>2 DEF phaseOf
    <3>4. holderOf[j] = CHOOSE v \in Worker : Owns(v, j)
      BY <3>2 DEF holderOf, Running
    <3>5. holderOf[j] \in Worker /\ Owns(holderOf[j], j)
      BY <3>1, <3>4
    <3>6. \A v \in Worker : holderOf[j] = v <=> Owns(v, j)
      BY <2>2, <3>5
    <3> QED BY <2>1, <2>3, <2>4, <3>2, <3>3, <3>5, <3>6 DEF MappedJob, Contract!Phase
  <2>5. CASE ~\E w \in Worker : Owns(w, j)
    <3>1. Holders(j) = {}
      BY <2>5 DEF Holders
    <3>2. holderOf[j] = Free
      BY <3>1 DEF holderOf
    <3>3. \A v \in Worker : ~(holderOf[j] = v) /\ ~Owns(v, j)
      BY <2>5, <3>2, SourceAssumption
    <3>4. /\ row[j].status = "absent" => phaseOf[j] = "none"
          /\ row[j].status = "pending" => phaseOf[j] = "queued"
          /\ row[j].status = "running" => phaseOf[j] = "orphaned"
          /\ row[j].status = "succeeded" => phaseOf[j] = "done"
          /\ row[j].status = "failed" => phaseOf[j] = "dead"
      BY <3>1 DEF phaseOf
    <3>5. row[j].status \in {"absent", "pending", "running", "succeeded", "failed"}
      BY <2>1 DEF RowStatus, Terminal
    <3> QED BY <2>1, <2>3, <2>5, <3>2, <3>3, <3>4, <3>5 DEF MappedJob, Contract!Phase
  <2> QED BY <2>4, <2>5
<1>2. Contract!TypeOK
  BY <1>1 DEF Contract!TypeOK, phaseOf, spentOf, holderOf
<1> QED BY <1>1, <1>2 DEF Mapped

\* A job that keeps its status, its attempts and its owner is the same to the contract.
LEMMA SameToContract ==
  ASSUME Mapped, Mapped', NEW j \in Job,
         row'[j].status = row[j].status, row'[j].attempts = row[j].attempts,
         \A w \in Worker : Owns(w, j)' <=> Owns(w, j)
  PROVE  phaseOf'[j] = phaseOf[j] /\ spentOf'[j] = spentOf[j] /\ holderOf'[j] = holderOf[j]
<1>1. MappedJob(j) /\ MappedJob(j)' /\ Contract!TypeOK /\ Contract!TypeOK'
  BY DEF Mapped
<1>2. phaseOf'[j] = phaseOf[j]
  BY <1>1 DEF MappedJob, RowStatus, Terminal, Contract!TypeOK, Contract!Phase
<1>3. holderOf'[j] = holderOf[j]
  BY <1>1 DEF MappedJob, Contract!TypeOK
<1> QED BY <1>1, <1>2, <1>3 DEF MappedJob

\* A function that changes at one point.
LEMMA ChangesAt ==
  ASSUME NEW S, NEW T, NEW f \in [S -> T], NEW g \in [S -> T], NEW j \in S,
         \A k \in S : k # j => g[k] = f[k]
  PROVE  g = [f EXCEPT ![j] = g[j]]
OBVIOUS

\* A step that leaves every job to the contract as it was.
LEMMA ContractStutters ==
  ASSUME Mapped, Mapped',
         \A j \in Job : row'[j].status = row[j].status /\ row'[j].attempts = row[j].attempts,
         \A j \in Job, w \in Worker : Owns(w, j)' <=> Owns(w, j)
  PROVE  UNCHANGED Contract!vars
<1>1. \A j \in Job : phaseOf'[j] = phaseOf[j] /\ spentOf'[j] = spentOf[j] /\ holderOf'[j] = holderOf[j]
  BY SameToContract
<1>2. phaseOf' = phaseOf /\ spentOf' = spentOf /\ holderOf' = holderOf
  BY <1>1 DEF Mapped, Contract!TypeOK
<1> QED BY <1>2 DEF Contract!vars

\* A step that changes one job for the contract.
LEMMA ContractMoves ==
  ASSUME Mapped, Mapped', NEW j \in Job,
         \A k \in Job : k # j => row'[k].status = row[k].status /\ row'[k].attempts = row[k].attempts,
         \A k \in Job, w \in Worker : k # j => (Owns(w, k)' <=> Owns(w, k))
  PROVE  /\ phaseOf' = [phaseOf EXCEPT ![j] = phaseOf'[j]]
         /\ spentOf' = [spentOf EXCEPT ![j] = spentOf'[j]]
         /\ holderOf' = [holderOf EXCEPT ![j] = holderOf'[j]]
<1>1. \A k \in Job : k # j => phaseOf'[k] = phaseOf[k] /\ spentOf'[k] = spentOf[k] /\ holderOf'[k] = holderOf[k]
  BY SameToContract
<1>2. /\ phaseOf \in [Job -> Contract!Phase] /\ phaseOf' \in [Job -> Contract!Phase]
      /\ spentOf \in [Job -> Nat] /\ spentOf' \in [Job -> Nat]
      /\ holderOf \in [Job -> Worker \cup {Free}] /\ holderOf' \in [Job -> Worker \cup {Free}]
  BY DEF Mapped, Contract!TypeOK
<1>3. phaseOf' = [phaseOf EXCEPT ![j] = phaseOf'[j]]
  BY <1>1, <1>2, ChangesAt
<1>4. spentOf' = [spentOf EXCEPT ![j] = spentOf'[j]]
  BY <1>1, <1>2, ChangesAt
<1>5. holderOf' = [holderOf EXCEPT ![j] = holderOf'[j]]
  BY <1>1, <1>2, ChangesAt
<1> QED BY <1>3, <1>4, <1>5

LEMMA ContractInit == Init => Contract!Init
<1> SUFFICES ASSUME Init PROVE Contract!Init
  OBVIOUS
<1>1. TypeInv /\ Ownership
  BY TypeInit, OwnershipInit
<1>2. \A j \in Job : phaseOf[j] = "none" /\ spentOf[j] = 0 /\ holderOf[j] = Free
  BY DEF Init, phaseOf, spentOf, holderOf, Running
<1> QED BY <1>2 DEF Contract!Init, phaseOf, spentOf, holderOf

\* Only its owner lets go of a job, and leaves it in one of five ways.
LEMMA ContractLetGo ==
  ASSUME Mapped, Mapped', Budgeted, NEW w \in Worker, NEW j \in Job, Owns(w, j),
         \A k \in Job : k # j => row'[k].status = row[k].status /\ row'[k].attempts = row[k].attempts,
         \A v \in Worker, k \in Job : Owns(v, k)' <=> Owns(v, k) /\ v # w,
         \A v \in Worker : Owns(v, j) => v = w,
         \/ row'[j].status = "succeeded" /\ row'[j].attempts = row[j].attempts
         \/ row'[j].status = "failed" /\ row'[j].attempts = row[j].attempts /\ row[j].attempts = Budget(j)
         \/ row'[j].status = "pending" /\ row'[j].attempts = row[j].attempts /\ row[j].attempts < Budget(j)
         \/ row'[j].status = "pending" /\ row'[j].attempts = row[j].attempts - 1
         \/ row'[j].status = "running" /\ row'[j].attempts = row[j].attempts
  PROVE  Contract!LetGo(w, j)
<1>1. \A k \in Job, v \in Worker : k # j => (Owns(v, k)' <=> Owns(v, k))
  BY DEF Owns
<1>2. /\ phaseOf' = [phaseOf EXCEPT ![j] = phaseOf'[j]]
      /\ spentOf' = [spentOf EXCEPT ![j] = spentOf'[j]]
      /\ holderOf' = [holderOf EXCEPT ![j] = holderOf'[j]]
  BY <1>1, ContractMoves
<1>3. MappedJob(j) /\ MappedJob(j)' /\ Contract!TypeOK /\ Contract!TypeOK'
  BY DEF Mapped
<1>4. holderOf[j] = w /\ spentOf[j] = row[j].attempts /\ spentOf'[j] = row'[j].attempts
  BY <1>3 DEF MappedJob
<1>5. holderOf'[j] = Free
  <2>1. \A v \in Worker : holderOf'[j] # v
    BY <1>3 DEF MappedJob
  <2> QED BY <1>3, <2>1 DEF Contract!TypeOK
<1>6. /\ row'[j].status = "succeeded" => phaseOf'[j] = "done"
      /\ row'[j].status = "failed" => phaseOf'[j] = "dead"
      /\ row'[j].status = "pending" => phaseOf'[j] = "queued"
      /\ row'[j].status = "running" => phaseOf'[j] = "orphaned"
  BY <1>3 DEF MappedJob
<1>7. spentOf = [spentOf EXCEPT ![j] = spentOf[j]]
  BY <1>3 DEF Contract!TypeOK
<1>8. /\ row'[j].attempts = row[j].attempts => UNCHANGED spentOf
      /\ row'[j].attempts = row[j].attempts - 1 => spentOf' = [spentOf EXCEPT ![j] = @ - 1]
  BY <1>2, <1>4, <1>7
<1>9. holderOf' = [holderOf EXCEPT ![j] = Free]
  BY <1>2, <1>5
<1>10. [i \in Job |-> Budget(i)][j] = Budget(j)
  OBVIOUS
<1> QED BY <1>2, <1>4, <1>6, <1>8, <1>9, <1>10 DEF Contract!LetGo

LEMMA ContractStep ==
  TypeInv /\ Ownership /\ Budgeted /\ [Next]_vars /\ TypeInv' /\ Ownership'
    => [Contract!Next]_(Contract!vars)
<1> SUFFICES ASSUME TypeInv, Ownership, Budgeted, [Next]_vars, Mapped, Mapped'
             PROVE  [Contract!Next]_(Contract!vars)
  BY MappingHolds, PTL
<1>a. /\ TypeOK /\ Engaged /\ RetryBudget
      /\ \A j \in Job : Budget(j) \in Nat /\ MappedJob(j) /\ MappedJob(j)'
      /\ Contract!TypeOK /\ Contract!TypeOK'
  BY BudgetType DEF TypeInv, Budgeted, Mapped
<1>b. \A w \in Worker, j \in Job : Owns(w, j) =>
        boot = "up" /\ Running(j) /\ \A v \in Worker : Owns(v, j) => v = w
  BY DEF Ownership, ExclusiveOwnership
<1>1. ASSUME NEW j \in Job, Producer(j) PROVE Contract!Arm(j)
  <2>1. row' = [row EXCEPT ![j] = Fresh] /\ ~Running(j) /\ UNCHANGED worker
    BY <1>1 DEF Producer, Enqueue, Reschedule, Rearmable, Running, volatile
  <2>2. /\ row'[j].status = "pending" /\ row'[j].attempts = 0
        /\ \A k \in Job : k # j => row'[k] = row[k]
        /\ \A w \in Worker, k \in Job : Owns(w, k)' <=> Owns(w, k)
    BY <1>a, <2>1 DEF TypeOK, Fresh, Owns
  <2>3. /\ phaseOf' = [phaseOf EXCEPT ![j] = phaseOf'[j]]
        /\ spentOf' = [spentOf EXCEPT ![j] = spentOf'[j]]
        /\ holderOf' = [holderOf EXCEPT ![j] = holderOf'[j]]
    BY <2>2, ContractMoves
  <2>4. phaseOf'[j] = "queued" /\ spentOf'[j] = 0 /\ phaseOf[j] \notin {"held", "orphaned"}
    BY <1>a, <2>1, <2>2 DEF MappedJob, Running
  <2>5. holderOf'[j] = holderOf[j]
    BY <1>a, <2>2 DEF MappedJob, Contract!TypeOK
  <2>6. UNCHANGED holderOf
    BY <1>a, <2>3, <2>5 DEF Contract!TypeOK
  <2> QED BY <2>3, <2>4, <2>6 DEF Contract!Arm, Contract!Busy
<1>2. ASSUME NEW w \in Worker, Claim(w) PROVE \E j \in Job : Contract!Take(w, j)
  <2>1. PICK j \in Job :
          /\ Claimable(j, LaneOf[w])
          /\ row' = [row EXCEPT ![j] = [status |-> "running", due |-> FALSE,
                                        attempts |-> @.attempts + 1]]
          /\ worker' = [worker EXCEPT ![w] =
               [Idle EXCEPT !.job = j,
                            !.pc = IF SourceOf[j] = NoSource THEN "begin" ELSE "lock"]]
    BY <1>2 DEF Claim
  <2>2. /\ row[j].status = "pending" /\ row[j].attempts < Budget(j) /\ ~SiblingRunning(j)
        /\ row'[j].status = "running" /\ row'[j].attempts = row[j].attempts + 1
        /\ \A k \in Job : k # j => row'[k] = row[k]
    BY <1>a, <2>1 DEF Claimable, IsDue, RetryBudget, TypeOK
  <2>3. \A v \in Worker, k \in Job : Owns(v, k)' <=> (v # w /\ Owns(v, k)) \/ (v = w /\ k = j)
    BY <1>a, <2>1 DEF Owns, Armed, Idle, TypeOK
  <2>4. \A k \in Job : ~Owns(w, k)
    BY <1>2 DEF Claim, At, Owns, Armed
  <2>5. /\ phaseOf' = [phaseOf EXCEPT ![j] = phaseOf'[j]]
        /\ spentOf' = [spentOf EXCEPT ![j] = spentOf'[j]]
        /\ holderOf' = [holderOf EXCEPT ![j] = holderOf'[j]]
    BY <2>2, <2>3, <2>4, ContractMoves
  <2>6. /\ phaseOf[j] = "queued" /\ spentOf[j] = row[j].attempts /\ phaseOf'[j] = "held"
        /\ spentOf'[j] = spentOf[j] + 1 /\ holderOf'[j] = w
    BY <1>a, <2>2, <2>3 DEF MappedJob
  <2>7. \A k \in Job : holderOf[k] # w
    BY <1>a, <2>4 DEF MappedJob
  <2>8. ~Contract!Excluded(j)
    BY <1>a, <2>2 DEF Contract!Excluded, Contract!Busy, MappedJob, SiblingRunning, Running
  <2>9. [i \in Job |-> Budget(i)][j] = Budget(j)
    OBVIOUS
  <2> QED BY <2>2, <2>5, <2>6, <2>7, <2>8, <2>9 DEF Contract!Take
<1>3. ASSUME NEW w \in Worker, Settle(w) \/ DropGuard(w) \/ Unwind(w)
      PROVE  \E j \in Job : Contract!LetGo(w, j)
  <2> DEFINE j == worker[w].job
             ok == worker[w].ok
  <2>1. Owns(w, j) /\ j \in Job
    BY <1>3, <1>a DEF Settle, DropGuard, Unwind, At, Owns, Armed, Engaged
  <2>2. row' = [row EXCEPT ![j].status = SettledStatus(j, ok), ![j].due = FALSE]
    BY <1>3 DEF Settle, DropGuard, Unwind, MarkWithRun
  <2>3. \A v \in Worker, k \in Job : Owns(v, k)' <=> Owns(v, k) /\ v # w
    <3>1. CASE Settle(w) \/ DropGuard(w)
      BY <3>1, SettledThread DEF Settle, DropGuard
    <3>2. CASE Unwind(w)
      BY <3>2, <1>a DEF Unwind, Owns, Armed, Dead, Idle, TypeOK, WorkerState
    <3> QED BY <1>3, <3>1, <3>2
  <2>4. /\ row'[j].status = SettledStatus(j, ok) /\ row'[j].attempts = row[j].attempts
        /\ \A k \in Job : k # j => row'[k] = row[k]
    BY <1>a, <2>1, <2>2 DEF TypeOK, Row
  <2>5. row[j].attempts \in Nat /\ row[j].attempts <= Budget(j) /\ Budget(j) \in Nat
    BY <1>a, <2>1 DEF TypeOK, Row, RetryBudget
  <2>6. \/ SettledStatus(j, ok) = "succeeded"
        \/ SettledStatus(j, ok) = "failed" /\ row[j].attempts = Budget(j)
        \/ SettledStatus(j, ok) = "pending" /\ row[j].attempts < Budget(j)
    BY <2>5 DEF SettledStatus, WillRetry
  <2>7. \A v \in Worker : Owns(v, j) => v = w
    BY <1>b, <2>1
  <2> HIDE DEF j
  <2> QED BY <2>1, <2>3, <2>4, <2>6, <2>7, ContractLetGo
<1>4. ASSUME NEW w \in Worker, Defer(w) PROVE \E j \in Job : Contract!LetGo(w, j)
  <2> DEFINE j == worker[w].job
  <2>1. Owns(w, j) /\ j \in Job
    BY <1>4, <1>a DEF Defer, At, Owns, Armed, Engaged
  <2>2. row[j].attempts \in Nat /\ row[j].attempts > 0
    BY <1>a, <1>b, <2>1 DEF RetryBudget, Running, TypeOK, Row
  <2>3. /\ row'[j].status = "pending" /\ row'[j].attempts = row[j].attempts - 1
        /\ \A k \in Job : k # j => row'[k] = row[k]
    BY <1>4, <1>a, <2>1, <2>2 DEF Defer, Refunded, TypeOK
  <2>4. \A v \in Worker, k \in Job : Owns(v, k)' <=> Owns(v, k) /\ v # w
    BY <1>4, <1>a DEF Defer, Owns, Armed, Idle, TypeOK, WorkerState
  <2>5. \A v \in Worker : Owns(v, j) => v = w
    BY <1>b, <2>1
  <2> HIDE DEF j
  <2> QED BY <2>1, <2>3, <2>4, <2>5, ContractLetGo
<1>5. ASSUME NEW w \in Worker, DropFails(w) PROVE \E j \in Job : Contract!LetGo(w, j)
  <2> DEFINE j == worker[w].job
  <2>1. Owns(w, j) /\ j \in Job
    BY <1>5, <1>a DEF DropFails, At, Owns, Armed, Engaged
  <2>2. row'[j].status = "running" /\ row' = row
    BY <1>5, <1>b, <2>1 DEF DropFails, durable, Running
  <2>3. \A v \in Worker, k \in Job : Owns(v, k)' <=> Owns(v, k) /\ v # w
    BY <1>5, <1>a DEF DropFails, Owns, Armed, Dead, Idle, TypeOK, WorkerState
  <2>4. \A v \in Worker : Owns(v, j) => v = w
    BY <1>b, <2>1
  <2> HIDE DEF j
  <2> QED BY <2>1, <2>2, <2>3, <2>4, ContractLetGo
<1>6. ASSUME Crash PROVE Contract!Restart
  <2>1. row' = row /\ \A w \in Worker, j \in Job : ~Owns(w, j)'
    BY <1>6 DEF Crash, durable, Owns, Armed, Idle
  <2>2. \A j \in Job : /\ phaseOf'[j] = IF phaseOf[j] = "held" THEN "orphaned" ELSE phaseOf[j]
                       /\ spentOf'[j] = spentOf[j] /\ holderOf'[j] = Free
    <3> SUFFICES ASSUME NEW j \in Job
                 PROVE  /\ phaseOf'[j] = IF phaseOf[j] = "held" THEN "orphaned" ELSE phaseOf[j]
                        /\ spentOf'[j] = spentOf[j] /\ holderOf'[j] = Free
      OBVIOUS
    <3>1. MappedJob(j) /\ MappedJob(j)'
      BY <1>a
    <3>2. spentOf'[j] = spentOf[j] /\ holderOf'[j] = Free
      BY <1>a, <2>1, <3>1 DEF MappedJob, Contract!TypeOK
    <3>3. phaseOf'[j] # "held"
      BY <2>1, <3>1 DEF MappedJob
    <3>4. row'[j].status = row[j].status
      BY <2>1
    <3>5. phaseOf[j] \in Contract!Phase /\ phaseOf'[j] \in Contract!Phase
      BY <1>a DEF Contract!TypeOK
    <3> QED BY <3>1, <3>2, <3>3, <3>4, <3>5 DEF MappedJob, Contract!Phase
  <2> QED BY <1>a, <2>2 DEF Contract!Restart, Contract!TypeOK
<1>7. ASSUME DeadLetter PROVE Contract!GiveUp
  <2>1. boot # "up" /\ UNCHANGED worker
    BY <1>7 DEF DeadLetter
  <2>2. \A j \in Job, w \in Worker : ~Owns(w, j) /\ ~Owns(w, j)'
    BY <1>b, <2>1 DEF Owns
  <2>3. \A j \in Job : holderOf[j] = Free /\ holderOf'[j] = Free
    BY <1>a, <2>2 DEF MappedJob, Contract!TypeOK
  <2>4. \A j \in Job : /\ phaseOf'[j] = IF phaseOf[j] = "orphaned" /\ spentOf[j] = [i \in Job |-> Budget(i)][j]
                                          THEN "dead" ELSE phaseOf[j]
                       /\ spentOf'[j] = spentOf[j]
    <3> SUFFICES ASSUME NEW j \in Job
                 PROVE  /\ phaseOf'[j] = IF phaseOf[j] = "orphaned" /\ spentOf[j] = Budget(j)
                                           THEN "dead" ELSE phaseOf[j]
                        /\ spentOf'[j] = spentOf[j]
      OBVIOUS
    <3>1. MappedJob(j) /\ MappedJob(j)' /\ phaseOf[j] \in Contract!Phase /\ phaseOf'[j] \in Contract!Phase
      BY <1>a DEF Contract!TypeOK
    <3>2. row[j].attempts \in Nat /\ row[j].attempts <= Budget(j) /\ Budget(j) \in Nat
      BY <1>a DEF TypeOK, Row, RetryBudget
    <3>3. Spent(j) <=> row[j].status = "running" /\ row[j].attempts = Budget(j)
      BY <3>2 DEF Spent, Running
    <3>4. /\ row'[j].attempts = row[j].attempts
          /\ row'[j].status = IF Spent(j) THEN "failed" ELSE row[j].status
      BY <1>7, <1>a DEF DeadLetter, TypeOK, Row
    <3>5. phaseOf[j] # "held" /\ phaseOf'[j] # "held"
      BY <2>2, <3>1 DEF MappedJob
    <3> QED BY <3>1, <3>3, <3>4, <3>5 DEF MappedJob, Contract!Phase
  <2>5. phaseOf' = [j \in Job |-> IF phaseOf[j] = "orphaned" /\ spentOf[j] = [i \in Job |-> Budget(i)][j]
                                    THEN "dead" ELSE phaseOf[j]]
    BY <1>a, <2>4 DEF Contract!TypeOK
  <2>6. UNCHANGED <<spentOf, holderOf>>
    BY <1>a, <2>3, <2>4 DEF Contract!TypeOK
  <2> QED BY <2>3, <2>5, <2>6 DEF Contract!GiveUp, Contract!Unattended
<1>8. ASSUME Requeue PROVE Contract!Recover
  <2>1. boot # "up" /\ UNCHANGED worker /\ \A j \in Job : ~Spent(j)
    BY <1>8 DEF Requeue, Budgeted
  <2>2. \A j \in Job, w \in Worker : ~Owns(w, j) /\ ~Owns(w, j)'
    BY <1>b, <2>1 DEF Owns
  <2>3. \A j \in Job : holderOf[j] = Free /\ holderOf'[j] = Free
    BY <1>a, <2>2 DEF MappedJob, Contract!TypeOK
  <2>4. \A j \in Job : /\ phaseOf'[j] = IF phaseOf[j] = "orphaned" THEN "queued" ELSE phaseOf[j]
                       /\ spentOf'[j] = spentOf[j]
                       /\ phaseOf[j] = "orphaned" => spentOf[j] < [i \in Job |-> Budget(i)][j]
    <3> SUFFICES ASSUME NEW j \in Job
                 PROVE  /\ phaseOf'[j] = IF phaseOf[j] = "orphaned" THEN "queued" ELSE phaseOf[j]
                        /\ spentOf'[j] = spentOf[j]
                        /\ phaseOf[j] = "orphaned" => spentOf[j] < Budget(j)
      OBVIOUS
    <3>1. MappedJob(j) /\ MappedJob(j)' /\ phaseOf[j] \in Contract!Phase /\ phaseOf'[j] \in Contract!Phase
      BY <1>a DEF Contract!TypeOK
    <3>2. row[j].status = "running" => row[j].attempts < Budget(j)
      BY <1>a, <2>1 DEF TypeOK, Row, Spent, Running
    <3>3. /\ row'[j].attempts = row[j].attempts
          /\ row'[j].status = IF row[j].status = "running" THEN "pending" ELSE row[j].status
      BY <1>8, <1>a DEF Requeue, TypeOK, Row, Running
    <3>4. phaseOf[j] # "held" /\ phaseOf'[j] # "held"
      BY <2>2, <3>1 DEF MappedJob
    <3> QED BY <3>1, <3>2, <3>3, <3>4 DEF MappedJob, Contract!Phase
  <2>5. phaseOf' = [j \in Job |-> IF phaseOf[j] = "orphaned" THEN "queued" ELSE phaseOf[j]]
    BY <1>a, <2>4 DEF Contract!TypeOK
  <2>6. UNCHANGED <<spentOf, holderOf>>
    BY <1>a, <2>3, <2>4 DEF Contract!TypeOK
  <2> QED BY <2>3, <2>4, <2>5, <2>6 DEF Contract!Recover, Contract!Unattended
<1>9. ASSUME NEW j \in Job, BackoffElapses(j) PROVE UNCHANGED Contract!vars
  <2>1. UNCHANGED worker /\ \A k \in Job : row'[k].status = row[k].status /\ row'[k].attempts = row[k].attempts
    BY <1>9, <1>a DEF BackoffElapses, volatile, TypeOK, Row
  <2> QED BY <2>1, ContractStutters DEF Owns
<1>10. ASSUME NEW w \in Worker,
              \/ AcquireSource(w) \/ BeginAttempt(w) \/ BeginAttemptFails(w) \/ RunHandler(w)
              \/ Panic(w) \/ PanicAgain(w) \/ SettleFails(w) \/ TerminalHooks(w)
       PROVE  UNCHANGED Contract!vars
  <2>1. row' = row
    BY <1>10 DEF AcquireSource, BeginAttempt, BeginAttemptFails, RunHandler, Panic, PanicAgain,
                 SettleFails, TerminalHooks, durable
  <2>2. \A k \in Job, v \in Worker : Owns(v, k)' <=> Owns(v, k)
    <3>1. CASE AcquireSource(w) \/ BeginAttempt(w) \/ BeginAttemptFails(w) \/ RunHandler(w)
      BY <3>1, <1>a DEF AcquireSource, TryAcquire, BeginAttempt, BeginAttemptFails, RunHandler,
                        At, Goto, Owns, Armed, TypeOK, WorkerState
    <3>2. CASE Panic(w) \/ PanicAgain(w)
      BY <3>2, <1>a DEF Panic, PanicAgain, At, Goto, Owns, Armed, TypeOK, WorkerState
    <3>3. CASE SettleFails(w)
      BY <3>3, <1>a DEF SettleFails, Unrecovered, At, Goto, Owns, Armed, TypeOK, WorkerState
    <3>4. CASE TerminalHooks(w)
      BY <3>4, <1>a DEF TerminalHooks, At, Owns, Armed, Idle, TypeOK, WorkerState
    <3> QED BY <1>10, <3>1, <3>2, <3>3, <3>4
  <2> QED BY <2>1, <2>2, ContractStutters
<1>11. ASSUME \/ \E s \in Source : Command(s)
              \/ ReclaimFails \/ Interrupt \/ UNCHANGED vars
       PROVE  UNCHANGED Contract!vars
  <2>1. UNCHANGED <<row, worker>>
    BY <1>11 DEF Command, OnDemandStart, OnDemandEnd, ManualStart, ManualEnd, ReclaimFails, Interrupt,
                 vars, durable, volatile
  <2> QED BY <2>1, ContractStutters DEF Owns
<1> QED
  BY <1>1, <1>2, <1>3, <1>4, <1>5, <1>6, <1>7, <1>8, <1>9, <1>10, <1>11
  DEF Next, Progress, Trouble, Start, Contract!Next

\* The queue keeps its contract with the producers: whatever storage failures, panics,
\* crashes and partial starts do, a claimed job has one holder, only that holder or a
\* restart decides its fate, and no arming is tried more often than its budget
\* (claim_next, settle_with_recovery, reclaim_stale_running).
THEOREM ImplementsContractHolds == Spec => ImplementsContract
<1>1. Spec => [](TypeInv /\ Ownership /\ Budgeted)
  BY TypeInit, TypeStep, OwnershipInit, OwnershipStep, BudgetInit, BudgetStep, PTL DEF Spec
<1> QED BY <1>1, ContractInit, ContractStep, PTL DEF Spec, ImplementsContract, Contract!Spec

=============================================================================
