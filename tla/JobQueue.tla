------------------------------ MODULE JobQueue ------------------------------
(***************************************************************************)
(* The durable job queue: the job_queue rows (storage/jobs.rs), the        *)
(* occurrence ledger job_runs (storage/job_runs.rs), the worker threads    *)
(* that dispatch claimed rows (jobs/queue.rs), the per-source lock, and    *)
(* what a process start does to the residue of a crash (lib.rs).           *)
(*                                                                         *)
(* Every storage call is one step.  It may fail without an effect, a       *)
(* worker may panic around it, and the process may die between any two     *)
(* steps: the rows, the ledger and the attention events survive, the       *)
(* workers and the in-memory locks do not.                                 *)
(*                                                                         *)
(* available_at is not a clock reading here.  A pending row is due once    *)
(* its available_at has passed, and older orders the due rows by it.       *)
(*                                                                         *)
(* A definition D_Bug, placed before D, is D with a plausible bug in it:   *)
(* it is what the properties are tried against and no action uses it.      *)
(***************************************************************************)
EXTENDS Naturals, FiniteSets

CONSTANTS
  Job,            \* job ids; kind, payload and budget are functions of the id
  NoJob,
  Worker,         \* worker threads of all lanes
  Lane,           \* worker lanes
  LaneOf,         \* lane of each job's kind, and of each worker thread
  GatedLane,      \* the kpi_ingest lane
  MaxAttempts,    \* max_attempts the producers of each job ask for
  Followup,       \* pairs <<id, id:followup>>
  Source,         \* serialization keys
  NoSource,
  SourceOf,       \* serialization key of each job, or NoSource
  OnDemandSource, \* keys an awaited command also takes
  ManualSource,   \* keys whose source the manual refresh touches
  Free, OnDemand, \* lock states other than a worker
  Recorded,       \* jobs whose kind resolves an activity identity
  Attention,      \* jobs whose kind has the TodayAttention failure surface
  KeptFinished,   \* how many finished occurrences a retention pass may keep
  MaxRuns, MaxFaults, MaxPanics, MaxCrashes   \* bounds

ASSUME JobAssumption ==
  /\ NoJob \notin Job
  /\ LaneOf \in [Job \cup Worker -> Lane]
  /\ MaxAttempts \in [Job -> Nat]
  /\ Followup \subseteq Job \X Job
  /\ \A j \in Job : <<j, j>> \notin Followup

ASSUME SourceAssumption ==
  /\ NoSource \notin Source
  /\ SourceOf \in [Job -> Source \cup {NoSource}]
  /\ OnDemandSource \subseteq Source
  /\ ManualSource \subseteq Source
  /\ Free \notin Worker /\ OnDemand \notin Worker /\ Free # OnDemand

ASSUME LedgerAssumption ==
  /\ Recorded \subseteq Job
  /\ Attention \subseteq Job
  /\ KeptFinished \subseteq Nat \ {0}

ASSUME BoundAssumption ==
  /\ MaxRuns \in Nat /\ MaxFaults \in Nat
  /\ MaxPanics \in Nat /\ MaxCrashes \in Nat

VARIABLES
  row,        \* job_queue
  older,      \* <<i, j>>: both due, i's available_at precedes j's
  open,       \* job_runs rows still 'running'
  finished,   \* job_runs rows that are terminal
  nextRun,    \* next job_runs id
  finishes,   \* finished_at of the last settlement
  events,     \* jobs with a job_failed attention event
  boot,       \* where the process start is, "up" once the lanes run
  laneReady,  \* the gated lane was started this launch
  worker,     \* the threads' dispatch state
  locks,      \* sources_in_flight
  manual,     \* manual refreshes under way
  faults, panics, crashes,   \* consumed bounds
  \* History variables: read by the properties, never by an action's guard.
  stranded,   \* running rows that lost their worker or their reclaim
  orphans,    \* open occurrences that lost theirs
  everFailed, \* jobs that went terminally failed at least once
  silent      \* failed jobs whose failure event was lost

durable == <<row, older, open, finished, nextRun, finishes, events>>
volatile == <<boot, laneReady, worker, locks, manual>>
bounds == <<faults, panics, crashes>>
history == <<stranded, orphans, everFailed, silent>>
vars == <<durable, volatile, bounds, history>>

ledger == <<open, finished, nextRun, finishes>>

-----------------------------------------------------------------------------
(* The rows. *)

Terminal == {"succeeded", "failed"}
RowStatus == {"absent", "pending", "running"} \cup Terminal
Row == [status : RowStatus, attempts : Nat, due : BOOLEAN]

Fresh == [status |-> "pending", attempts |-> 0, due |-> TRUE]

\* enqueue and reschedule store max_attempts.max(1).
Budget(j) == IF MaxAttempts[j] < 1 THEN 1 ELSE MaxAttempts[j]

Running(j) == row[j].status = "running"
IsDue(j) == row[j].status = "pending" /\ row[j].due

\* j's available_at is no longer compared / becomes the latest of the due rows.
Leave(j) == {p \in older : p[1] # j /\ p[2] # j}
Arrive(j) == Leave(j) \cup {<<i, j>> : i \in {k \in Job : IsDue(k) /\ k # j}}

SiblingRunning_OneWay(j) == \E k \in Job : Running(k) /\ <<k, j>> \in Followup
SiblingRunning(j) ==
  \E k \in Job : Running(k) /\ (<<j, k>> \in Followup \/ <<k, j>> \in Followup)

\* reschedule's WHERE status != 'running'.
Rearmable_Always(j) == j \in Job
Rearmable(j) == ~Running(j)

Claimable(j, l) == LaneOf[j] = l /\ IsDue(j) /\ ~SiblingRunning(j)

-----------------------------------------------------------------------------
(* The occurrence ledger. *)

Outcome == {"succeeded", "failed", "retry_scheduled", "interrupted"}
OpenRun == [id : Nat, job : Job]
FinishedRun == [id : Nat, job : Job, outcome : Outcome, at : Nat]

Finish(r, o) == [id |-> r.id, job |-> r.job, outcome |-> o, at |-> finishes + 1]

Later(q, r) == q.at > r.at \/ (q.at = r.at /\ q.id > r.id)
Newest(S, n) == {r \in S : Cardinality({q \in S : Later(q, r)}) < n}

\* settle followed by prune, on the occurrences of the given ids.
SettleRuns(ids, o) ==
  LET closing == {r \in open : r.id \in ids} IN
  /\ open' = open \ closing
  /\ \E n \in KeptFinished :
       finished' = Newest(finished \cup {Finish(r, o) : r \in closing}, n)
  /\ finishes' = finishes + 1
  /\ UNCHANGED nextRun

-----------------------------------------------------------------------------
(* The workers. *)

Pc == {"idle", "lock", "begin", "run", "settle", "defer", "drop", "hooks",
       "unwind", "dead"}
WorkerState == [pc : Pc, job : Job \cup {NoJob}, run : Nat, ok : BOOLEAN,
                tries : 0..1, arm : BOOLEAN]

Idle == [pc |-> "idle", job |-> NoJob, run |-> 0, ok |-> FALSE,
         tries |-> 0, arm |-> FALSE]
Dead == [Idle EXCEPT !.pc = "dead"]

At(w, p) == boot = "up" /\ worker[w].pc = p
Goto(w, p) == worker' = [worker EXCEPT ![w].pc = p]
Release_Leak(w) == locks
Release(w) == [s \in Source |-> IF locks[s] = w THEN Free ELSE locks[s]]

\* The guard of a claimed job is armed: its row is not settled yet.
Armed == {"lock", "begin", "run", "settle", "defer", "drop", "unwind"}
Owns(w, j) == worker[w].job = j /\ worker[w].pc \in Armed

Fault == faults < MaxFaults /\ faults' = faults + 1 /\ UNCHANGED <<panics, crashes>>
Panics == panics < MaxPanics /\ panics' = panics + 1 /\ UNCHANGED <<faults, crashes>>

-----------------------------------------------------------------------------
(* Producers: the scheduler, the handlers and the commands. *)

\* INSERT OR IGNORE: an existing row, terminal or not, makes it a no-op.
Enqueue(j) ==
  /\ boot = "up" /\ nextRun <= MaxRuns
  /\ row[j].status = "absent"
  /\ row' = [row EXCEPT ![j] = Fresh]
  /\ older' = Arrive(j)
  /\ UNCHANGED <<ledger, events, volatile, bounds, history>>

\* Re-arm under a stable id: anything but a running row is reset.
Reschedule(j) ==
  /\ boot = "up" /\ nextRun <= MaxRuns
  /\ Rearmable(j)
  /\ row' = [row EXCEPT ![j] = Fresh]
  /\ older' = Arrive(j)
  /\ silent' = silent \ {j}
  /\ UNCHANGED <<ledger, events, volatile, bounds, stranded, orphans, everFailed>>

\* Time passes a backed-off row's available_at.
BackoffElapses(j) ==
  /\ row[j].status = "pending" /\ ~row[j].due
  /\ row' = [row EXCEPT ![j].due = TRUE]
  /\ older' = Arrive(j)
  /\ UNCHANGED <<ledger, events, volatile, bounds, history>>

-----------------------------------------------------------------------------
(* One dispatch. *)

\* pool_layout leaves the gated lane out when its reconciliation failed.
LaneStarted_AllOrNone(w) == laneReady
LaneStarted(w) == LaneOf[w] = GatedLane => laneReady

First_Newest(j, l) == \A k \in Job : Claimable(k, l) => <<j, k>> \notin older
First(j, l) == \A k \in Job : Claimable(k, l) => <<k, j>> \notin older

\* The oldest claimable row of the lane: running and attempts + 1 in one UPDATE.
Claim(w) ==
  /\ At(w, "idle") /\ LaneStarted(w)
  /\ \E j \in Job :
       /\ Claimable(j, LaneOf[w]) /\ First(j, LaneOf[w])
       /\ row' = [row EXCEPT ![j] = [status |-> "running", due |-> FALSE,
                                     attempts |-> @.attempts + 1]]
       /\ older' = Leave(j)
       /\ worker' = [worker EXCEPT ![w] =
            [Idle EXCEPT !.job = j,
                         !.pc = IF SourceOf[j] = NoSource THEN "begin" ELSE "lock"]]
  /\ UNCHANGED <<ledger, events, boot, laneReady, locks, manual, bounds, history>>

\* try_acquire_source: the lock now, or a deferral.
TryAcquire_Overwrites(w, s) == locks' = [locks EXCEPT ![s] = w] /\ Goto(w, "begin")
TryAcquire(w, s) ==
  \/ locks[s] = Free /\ locks' = [locks EXCEPT ![s] = w] /\ Goto(w, "begin")
  \/ locks[s] # Free /\ UNCHANGED locks /\ Goto(w, "defer")

AcquireSource(w) ==
  /\ At(w, "lock")
  /\ TryAcquire(w, SourceOf[worker[w].job])
  /\ UNCHANGED <<durable, boot, laneReady, manual, bounds, history>>

\* The ledger's id of a new occurrence, never the reusable job id.
NewRun_Reused(j) == [id |-> 1, job |-> j]
NewRun(j) == [id |-> nextRun, job |-> j]

\* Identity checkout and begin_attempt; a storage failure of either defers.
BeginAttempt(w) ==
  /\ At(w, "begin")
  /\ LET j == worker[w].job IN
       IF j \in Recorded
         THEN /\ open' = open \cup {NewRun(j)}
              /\ nextRun' = nextRun + 1
              /\ worker' = [worker EXCEPT ![w].pc = "run", ![w].run = NewRun(j).id]
         ELSE Goto(w, "run") /\ UNCHANGED <<open, nextRun>>
  /\ UNCHANGED <<row, older, finished, finishes, events, boot, laneReady, locks,
                 manual, bounds, history>>

BeginAttemptFails(w) ==
  /\ At(w, "begin") /\ Fault
  /\ Goto(w, "defer")
  /\ UNCHANGED <<durable, boot, laneReady, locks, manual, history>>

\* Preflight and handler, under catch_unwind: Ok, or Err with any message.
RunHandler(w) ==
  /\ At(w, "run")
  /\ \E ok \in BOOLEAN :
       worker' = [worker EXCEPT ![w].pc = "settle", ![w].ok = ok]
  /\ UNCHANGED <<durable, boot, laneReady, locks, manual, bounds, history>>

\* What mark_succeeded_with_run / mark_failed_with_run do in one transaction.
WillRetry(j) == row[j].attempts < Budget(j)
SettledStatus(j, ok) ==
  IF ok THEN "succeeded" ELSE IF WillRetry(j) THEN "pending" ELSE "failed"
SettledOutcome_RowStatus(j, ok) == SettledStatus(j, ok)
SettledOutcome_RetryFirst(j, ok) ==
  IF WillRetry(j) THEN "retry_scheduled" ELSE IF ok THEN "succeeded" ELSE "failed"
SettledOutcome(j, ok) ==
  IF ok THEN "succeeded" ELSE IF WillRetry(j) THEN "retry_scheduled" ELSE "failed"

MarkWithRun_TerminalOnly(j, run, ok) ==
  /\ row' = [row EXCEPT ![j].status = SettledStatus(j, ok), ![j].due = FALSE]
  /\ everFailed' = IF SettledStatus(j, ok) = "failed" THEN everFailed \cup {j}
                                                      ELSE everFailed
  /\ IF run = 0 \/ SettledStatus(j, ok) = "pending"
       THEN UNCHANGED ledger ELSE SettleRuns({run}, SettledOutcome(j, ok))
  /\ UNCHANGED <<older, events>>

MarkWithRun(j, run, ok) ==
  /\ row' = [row EXCEPT ![j].status = SettledStatus(j, ok), ![j].due = FALSE]
  /\ everFailed' = IF SettledStatus(j, ok) = "failed" THEN everFailed \cup {j}
                                                      ELSE everFailed
  /\ IF run = 0 THEN UNCHANGED ledger ELSE SettleRuns({run}, SettledOutcome(j, ok))
  /\ UNCHANGED <<older, events>>

\* The committed settle: terminal hooks follow a terminal failure, otherwise
\* the thread is idle and the source guard is dropped.
AfterSettle_AnyFailure(w) ==
  IF ~worker[w].ok
    THEN Goto(w, "hooks") /\ UNCHANGED locks
    ELSE worker' = [worker EXCEPT ![w] = Idle] /\ locks' = Release(w)

AfterSettle(w) ==
  LET v == worker[w] IN
  IF SettledStatus(v.job, v.ok) = "failed"
    THEN Goto(w, "hooks") /\ UNCHANGED locks
    ELSE worker' = [worker EXCEPT ![w] = Idle] /\ locks' = Release(w)

Settle(w) ==
  /\ At(w, "settle")
  /\ MarkWithRun(worker[w].job, worker[w].run, worker[w].ok)
  /\ AfterSettle(w)
  /\ silent' = silent \ {worker[w].job}
  /\ UNCHANGED <<boot, laneReady, manual, bounds, stranded, orphans>>

\* Back to pending without consuming the attempt: MAX(attempts - 1, 0).
Refunded_Nothing(n) == n
Refunded(n) == IF n = 0 THEN 0 ELSE n - 1

Defer(w) ==
  /\ At(w, "defer")
  /\ row' = [row EXCEPT ![worker[w].job] =
       [status |-> "pending", due |-> FALSE, attempts |-> Refunded(@.attempts)]]
  /\ worker' = [worker EXCEPT ![w] = Idle]
  /\ locks' = Release(w)
  /\ UNCHANGED <<older, ledger, events, boot, laneReady, manual, bounds, history>>

\* settle_with_recovery: the call failed; once more, then the guard stays armed
\* and is dropped after the source lock.
Unrecovered_Disarmed(w) ==
  worker' = [worker EXCEPT ![w] = Idle] /\ locks' = Release(w)
Unrecovered(w) == Goto(w, "drop") /\ locks' = Release(w)

SettleFails(w) ==
  /\ At(w, "settle") \/ At(w, "defer")
  /\ Fault
  /\ IF worker[w].tries = 0
       THEN worker' = [worker EXCEPT ![w].tries = 1] /\ UNCHANGED locks
       ELSE Unrecovered(w)
  /\ UNCHANGED <<durable, boot, laneReady, manual, history>>

\* A panic around the handler (its serialization key, begin_attempt, a settle):
\* the lock is dropped while unwinding, then dispatch settles the success of the
\* handler, or a failure when there was none.
Panic_Refunds(w) ==
  /\ At(w, "lock") \/ At(w, "begin") \/ At(w, "settle") \/ At(w, "defer")
  /\ ~worker[w].arm
  /\ Panics
  /\ worker' = [worker EXCEPT ![w].pc = "defer", ![w].arm = TRUE, ![w].tries = 0]
  /\ locks' = Release(w)
  /\ UNCHANGED <<durable, boot, laneReady, manual, history>>
Panic(w) ==
  /\ At(w, "lock") \/ At(w, "begin") \/ At(w, "settle") \/ At(w, "defer")
  /\ ~worker[w].arm
  /\ Panics
  /\ worker' = [worker EXCEPT ![w].pc = "settle", ![w].arm = TRUE, ![w].tries = 0]
  /\ locks' = Release(w)
  /\ UNCHANGED <<durable, boot, laneReady, manual, history>>

\* A second panic, while dispatch settles the first, unwinds the thread.
PanicAgain(w) ==
  /\ At(w, "settle") /\ worker[w].arm
  /\ Panics
  /\ Goto(w, "unwind")
  /\ UNCHANGED <<durable, boot, laneReady, locks, manual, history>>

\* ClaimGuard::drop: one last settle, with the hooks only when not panicking.
DropGuard_NoHooks(w) ==
  /\ At(w, "drop")
  /\ MarkWithRun(worker[w].job, worker[w].run, worker[w].ok)
  /\ worker' = [worker EXCEPT ![w] = Idle]
  /\ silent' = silent \ {worker[w].job}
  /\ UNCHANGED <<locks, boot, laneReady, manual, bounds, stranded, orphans>>

DropGuard(w) ==
  /\ At(w, "drop")
  /\ MarkWithRun(worker[w].job, worker[w].run, worker[w].ok)
  /\ AfterSettle(w)
  /\ silent' = silent \ {worker[w].job}
  /\ UNCHANGED <<boot, laneReady, manual, bounds, stranded, orphans>>

Unwind(w) ==
  /\ At(w, "unwind")
  /\ MarkWithRun(worker[w].job, worker[w].run, worker[w].ok)
  /\ worker' = [worker EXCEPT ![w] = Dead]
  /\ silent' = IF SettledStatus(worker[w].job, worker[w].ok) = "failed"
                 THEN silent \cup {worker[w].job} ELSE silent
  /\ UNCHANGED <<boot, laneReady, locks, manual, bounds, stranded, orphans>>

DropFails(w) ==
  /\ At(w, "drop") \/ At(w, "unwind")
  /\ Fault
  /\ stranded' = stranded \cup {worker[w].job}
  /\ orphans' = orphans \cup {r.id : r \in {q \in open : q.id = worker[w].run}}
  /\ worker' = [worker EXCEPT ![w] = IF @.pc = "drop" THEN Idle ELSE Dead]
  /\ UNCHANGED <<durable, boot, laneReady, locks, manual, everFailed, silent>>

\* surface_terminal_failure, best-effort and deduplicated by job id; the generic
\* kinds keep the default on_terminal_failure.
TerminalHooks(w) ==
  /\ At(w, "hooks")
  /\ LET j == worker[w].job IN
       \/ /\ events' = IF j \in Attention THEN events \cup {j} ELSE events
          /\ UNCHANGED <<silent, bounds>>
       \/ /\ j \in Attention /\ Fault
          /\ silent' = silent \cup {j}
          /\ UNCHANGED events
  /\ worker' = [worker EXCEPT ![w] = Idle]
  /\ locks' = Release(w)
  /\ UNCHANGED <<row, older, ledger, boot, laneReady, manual, stranded, orphans,
                 everFailed>>

-----------------------------------------------------------------------------
(* Awaited commands that touch a source outside the queue. *)

OnDemandStart(s) ==
  /\ boot = "up" /\ s \in OnDemandSource /\ locks[s] = Free
  /\ locks' = [locks EXCEPT ![s] = OnDemand]
  /\ UNCHANGED <<durable, boot, laneReady, worker, manual, bounds, history>>

OnDemandEnd(s) ==
  /\ boot = "up" /\ locks[s] = OnDemand
  /\ locks' = [locks EXCEPT ![s] = Free]
  /\ UNCHANGED <<durable, boot, laneReady, worker, manual, bounds, history>>

\* refresh_source_direct does not take the lock.
ManualStart(s) ==
  /\ boot = "up" /\ s \in ManualSource \ manual
  /\ manual' = manual \cup {s}
  /\ UNCHANGED <<durable, boot, laneReady, worker, locks, bounds, history>>

ManualEnd(s) ==
  /\ boot = "up" /\ s \in manual
  /\ manual' = manual \ {s}
  /\ UNCHANGED <<durable, boot, laneReady, worker, locks, bounds, history>>

-----------------------------------------------------------------------------
(* Process death and process start. *)

Crash ==
  /\ crashes < MaxCrashes /\ crashes' = crashes + 1 /\ UNCHANGED <<faults, panics>>
  /\ boot' = "reclaim" /\ laneReady' = TRUE
  /\ worker' = [w \in Worker |-> Idle]
  /\ locks' = [s \in Source |-> Free]
  /\ manual' = {}
  /\ silent' = silent \cup {worker[w].job : w \in {v \in Worker : worker[v].pc = "hooks"}}
  /\ UNCHANGED <<durable, stranded, orphans, everFailed>>

AfterReclaim == IF boot \in {"reclaim", "requeue"} THEN "interrupt" ELSE "up"
Spent_Beyond(j) == Running(j) /\ row[j].attempts > Budget(j)
Spent(j) == Running(j) /\ row[j].attempts >= Budget(j)

\* reclaim_stale_running, first statement: exhausted rows are dead-lettered.
DeadLetter ==
  /\ boot \in {"reclaim", "poolReclaim"}
  /\ boot' = IF boot = "reclaim" THEN "requeue" ELSE "poolRequeue"
  /\ row' = [j \in Job |-> IF Spent(j) THEN [row[j] EXCEPT !.status = "failed"]
                                       ELSE row[j]]
  /\ everFailed' = everFailed \cup {j \in Job : Spent(j)}
  /\ silent' = silent \cup {j \in Job : Spent(j)}
  /\ stranded' = {j \in stranded : ~Spent(j)}
  /\ UNCHANGED <<older, ledger, events, laneReady, worker, locks, manual, bounds, orphans>>

\* Second statement: the other running rows are pending and due now.  The first
\* pass is followed by the ingest reconciliation, whose failure, like that of
\* the reclaim, keeps the gated lane off.
Requeue ==
  /\ boot \in {"requeue", "poolRequeue"}
  /\ boot' = AfterReclaim
  /\ LET stale == {j \in Job : Running(j)} IN
       /\ row' = [j \in Job |->
            IF j \in stale THEN [row[j] EXCEPT !.status = "pending", !.due = TRUE]
                           ELSE row[j]]
       /\ older' = older \cup ({k \in Job : IsDue(k)} \X stale)
  /\ stranded' = {}
  /\ \/ UNCHANGED <<laneReady, bounds>>
     \/ boot = "requeue" /\ laneReady' = FALSE /\ Fault
  /\ UNCHANGED <<ledger, events, worker, locks, manual, orphans, everFailed, silent>>

ReclaimFails ==
  /\ boot \in {"reclaim", "requeue", "poolReclaim", "poolRequeue"}
  /\ Fault
  /\ boot' = AfterReclaim
  /\ laneReady' = (laneReady /\ boot \in {"poolReclaim", "poolRequeue"})
  /\ stranded' = {j \in Job : Running(j)}
  /\ UNCHANGED <<durable, worker, locks, manual, orphans, everFailed, silent>>

\* activity_reconcile: every open occurrence is interrupted, in one transaction
\* and best-effort.
Interrupt ==
  /\ boot = "interrupt"
  /\ boot' = "poolReclaim"
  /\ \/ /\ SettleRuns({r.id : r \in open}, "interrupted")
        /\ orphans' = {}
        /\ UNCHANGED bounds
     \/ /\ Fault
        /\ orphans' = {r.id : r \in open}
        /\ UNCHANGED ledger
  /\ UNCHANGED <<row, older, events, laneReady, worker, locks, manual, stranded,
                 everFailed, silent>>

-----------------------------------------------------------------------------
Init ==
  /\ row = [j \in Job |-> [status |-> "absent", attempts |-> 0, due |-> FALSE]]
  /\ older = {} /\ open = {} /\ finished = {} /\ events = {}
  /\ nextRun = 1 /\ finishes = 0
  /\ boot = "reclaim" /\ laneReady = TRUE
  /\ worker = [w \in Worker |-> Idle]
  /\ locks = [s \in Source |-> Free]
  /\ manual = {}
  /\ faults = 0 /\ panics = 0 /\ crashes = 0
  /\ stranded = {} /\ orphans = {} /\ everFailed = {} /\ silent = {}

Producer(j) == Enqueue(j) \/ Reschedule(j)

Progress(w) ==
  \/ Claim(w) \/ AcquireSource(w) \/ BeginAttempt(w) \/ RunHandler(w)
  \/ Settle(w) \/ Defer(w) \/ DropGuard(w) \/ Unwind(w) \/ TerminalHooks(w)

Trouble(w) ==
  \/ BeginAttemptFails(w) \/ SettleFails(w) \/ Panic(w) \/ PanicAgain(w)
  \/ DropFails(w)

Command(s) ==
  \/ OnDemandStart(s) \/ OnDemandEnd(s) \/ ManualStart(s) \/ ManualEnd(s)

Start == DeadLetter \/ Requeue \/ ReclaimFails \/ Interrupt

Next ==
  \/ \E j \in Job : Producer(j) \/ BackoffElapses(j)
  \/ \E w \in Worker : Progress(w) \/ Trouble(w)
  \/ \E s \in Source : Command(s)
  \/ Start \/ Crash

Spec == Init /\ [][Next]_vars

(* Handlers return, time passes, a started process finishes starting and an *)
(* awaited command finishes; producers, failures, panics and crashes are    *)
(* not required to happen.                                                  *)
Fairness ==
  /\ \A w \in Worker : WF_vars(Progress(w))
  /\ \A j \in Job : WF_vars(BackoffElapses(j))
  /\ \A s \in Source : WF_vars(OnDemandEnd(s))
  /\ WF_vars(Start)

FairSpec == Spec /\ Fairness

-----------------------------------------------------------------------------
(* Properties. *)

BootPhase == {"reclaim", "requeue", "interrupt", "poolReclaim", "poolRequeue", "up"}

\* Type invariant of the rows, the ledger, the threads and the locks.
TypeOK ==
  /\ row \in [Job -> Row]
  /\ older \subseteq Job \X Job
  /\ open \subseteq OpenRun
  /\ finished \subseteq FinishedRun
  /\ nextRun \in Nat \ {0} /\ finishes \in Nat
  /\ events \subseteq Job
  /\ boot \in BootPhase /\ laneReady \in BOOLEAN
  /\ worker \in [Worker -> WorkerState]
  /\ locks \in [Source -> Worker \cup {Free, OnDemand}]
  /\ manual \subseteq Source
  /\ faults \in Nat /\ panics \in Nat /\ crashes \in Nat
  /\ stranded \subseteq Job /\ orphans \subseteq Nat
  /\ everFailed \subseteq Job /\ silent \subseteq Job

\* A thread whose guard is armed is the only owner of its row, and nobody moves
\* that row from under it: not a re-arm, a sibling, another lane or a reclaim.
ExclusiveOwnership ==
  \A w \in Worker, j \in Job : Owns(w, j) =>
    /\ Running(j) /\ j \notin stranded
    /\ \A v \in Worker : Owns(v, j) => v = w

\* Once the lanes run, a 'running' row is being worked on, unless every recovery
\* of its settle, or the reclaim at start, failed.
RunningRowIsWorkedOn ==
  boot = "up" =>
    \A j \in Job : Running(j) => j \in stranded \/ \E w \in Worker : Owns(w, j)

\* A job and its parked follow-up never run at once, in either direction, also
\* across a reclaim and when the one runs on as a stranded row.
SiblingsNeverBothRun ==
  \A p \in Followup : ~(Running(p[1]) /\ Running(p[2]))

\* Who works on which row: a thread has its row for itself, a running row has a
\* thread, and of a job and its follow-up one runs (claim_next_for_kinds).
OwnershipIsSound == ExclusiveOwnership /\ RunningRowIsWorkedOn /\ SiblingsNeverBothRun

\* The retry budget: a claim never starts an attempt beyond it, deferrals
\* refund exactly what their claim consumed, and only a spent row is failed.
RetryBudget ==
  \A j \in Job :
    /\ row[j].attempts <= Budget(j)
    /\ row[j].status = "pending" => row[j].attempts < Budget(j)
    /\ row[j].status = "running" => row[j].attempts > 0
    /\ row[j].status = "failed" => row[j].attempts = Budget(j)

\* Handlers of jobs with one serialization key, and the command that takes the
\* key, exclude each other.
Refreshing(s) == {w \in Worker : At(w, "run") /\ SourceOf[worker[w].job] = s}
OneRefreshPerSource ==
  \A s \in Source :
    /\ \A w, v \in Refreshing(s) : w = v
    /\ locks[s] = OnDemand => Refreshing(s) = {}

\* A lock is only ever held by an awaited command or by a thread that still has
\* work on that source, so no path of a dispatch leaks it.
Holding == {"begin", "run", "settle", "defer", "hooks"}
NoLeakedLock ==
  \A s \in Source : locks[s] \in Worker =>
    /\ worker[locks[s]].pc \in Holding
    /\ SourceOf[worker[locks[s]].job] = s

\* The two together: a source is refreshed by one at a time, and never locked
\* for nothing.
SourceLockIsSound == OneRefreshPerSource /\ NoLeakedLock

\* An open occurrence is the one its thread will settle: no path of a dispatch
\* leaves it running in the ledger while the job's row moves on.
OpenRunIsLive ==
  boot = "up" =>
    \A r \in open : r.id \in orphans \/
      \E w \in Worker : Owns(w, r.job) /\ worker[w].run = r.id

\* Row and ledger agree: the newest occurrence of a succeeded job that a crash
\* did not interrupt succeeded, whatever retention has forgotten.
Uninterrupted(j) == {r \in finished : r.job = j /\ r.outcome # "interrupted"}
SuccessIsRecorded ==
  \A j \in Recorded : row[j].status = "succeeded" =>
    /\ \A r \in Uninterrupted(j) :
         (\A q \in Uninterrupted(j) : q.id <= r.id) => r.outcome = "succeeded"
    /\ \A r \in open : r.job = j => r.id \in orphans

\* The ledger says of a job what its row says, while it runs and afterwards.
LedgerIsTrue == OpenRunIsLive /\ SuccessIsRecorded

\* A settled occurrence is final: it is never reopened, rewritten or mistaken
\* for another one; retention may only forget it.
SettledForGood ==
  /\ \A r \in finished : /\ \A q \in finished' : q.id = r.id => q = r
                         /\ \A q \in open' : q.id # r.id
  /\ \A q \in finished' \ finished : \E r \in open : r.id = q.id /\ r.job = q.job
OutcomeIsFinal == [][SettledForGood]_vars

\* job_failed is raised for a job that went terminally failed, never for a
\* failure with retries left.
EventsAreTerminal == events \subseteq everFailed

\* A failed row of a TodayAttention kind has its event, unless the event write
\* failed, the process died between the settle and the event, the thread was
\* unwinding, or a process start dead-lettered the row.
FailureVisible(j) ==
  row[j].status = "failed" =>
    \/ j \in events
    \/ \E w \in Worker : worker[w].job = j /\ worker[w].pc = "hooks"
FailureVisibleUnlessLost ==
  boot = "up" => \A j \in Attention : FailureVisible(j) \/ j \in silent

\* A failure event is raised for terminal failures and, with the exceptions
\* above, for every one of them.
FailureEventsAreExact == EventsAreTerminal /\ FailureVisibleUnlessLost

\* A pending job is eventually settled for good, across retries, deferrals,
\* failed settles and restarts, unless every recovery of its settle failed, its
\* lane is off this launch or it keeps being re-armed.
LaneOff(j) == LaneOf[j] = GatedLane /\ ~laneReady
Settled(j) == row[j].status \in Terminal \/ j \in stranded \/ LaneOff(j)
EveryJobSettles ==
  \A j \in Job :
    \/ []<><<Reschedule(j)>>_vars
    \/ row[j].status = "pending" ~> Settled(j)

\* ADR 0091, data-model.md: "A terminal failure is user-visible."
TerminalFailureIsVisible == boot = "up" => \A j \in Attention : FailureVisible(j)

\* storage/mod.rs on sources_in_flight: "guaranteeing at most one touches the
\* same source".
AtMostOneTouchesASource ==
  \A s \in Source : s \in manual => Refreshing(s) = {}

=============================================================================
