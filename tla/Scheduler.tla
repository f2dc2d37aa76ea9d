----------------------------- MODULE Scheduler ------------------------------
(***************************************************************************)
(* The source scheduler (jobs/scheduler.rs): one thread that wakes every   *)
(* tick, computes from the settings and its in-memory due times which      *)
(* sources are due, re-arms their stable refresh rows and publishes the    *)
(* due times; the daily jobs of the same loop; the refreshes the queue     *)
(* runs; changes of the settings, sleep of the machine and restarts.       *)
(*                                                                         *)
(* Time is counted in units; a due time is the time left until it.  The    *)
(* refresh rows keep their retries to themselves: those are JobQueue's.    *)
(*                                                                         *)
(* D_Bug is D with a plausible bug, as in JobQueue.                        *)
(***************************************************************************)
EXTENDS Integers, FiniteSetsExt

CONSTANTS
  Adapter,      \* source adapters
  Registry,    \* the one of them that is the company registry, in a set
  Default,     \* default_poll_interval_seconds of each source
  Jitter,      \* start_jitter_ms of each source
  Polls,       \* values of the poll interval setting; 0 is off
  Day,         \* DAILY_INTERVAL_MS
  MaxGap,      \* bound: the longest time from one tick to the next
  MaxTickFaults,
  MaxMissed    \* bound: how often a source is missed in a row

ASSUME ScheduleAssumption ==
  /\ Registry \subseteq Adapter
  /\ Default \in [Adapter -> Nat] /\ Jitter \in [Adapter -> Nat]
  /\ Polls \subseteq Nat /\ Polls # {}
  /\ \E p \in Polls : \A q \in Polls : q <= p
  /\ \E s \in Adapter : \A t \in Adapter : Default[t] <= Default[s]
  /\ \E s \in Adapter : \A t \in Adapter : Jitter[t] <= Jitter[s]
  /\ Day \in Nat \ {0} /\ MaxGap \in Nat \ {0} /\ MaxTickFaults \in Nat /\ MaxMissed \in Nat

VARIABLES
  poll, enabled,  \* the settings: poll interval, enabled sources
  due,            \* time left of each source's due time, Never if it has none
  dayDue,         \* the same of the daily job
  refresh,        \* the status of each source's refresh row
  awake,          \* the process runs
  tickFaults,
  \* History variables, read by the properties only.
  since,          \* time since the source was found due, up to its interval
  daySince,       \* time since the daily job fired in this process, up to a day
  hammered,       \* sources, or "day", due again before their interval was over
  waited,         \* time a due time stood without the row becoming pending
  missed          \* ticks in that time that could not read the settings, and
                  \* arms in it that failed or met a running row

schedVars == <<poll, enabled, due, dayDue, refresh, awake, tickFaults,
               since, daySince, hammered, waited, missed>>
schedHistory == <<since, daySince, hammered, waited, missed>>

-----------------------------------------------------------------------------
(* compute_schedule. *)

Never == -1

\* Sources follow the setting, unless their own interval is longer; the
\* registry follows its own.
Interval_Sum(s) == poll + Default[s]
Interval_Poll(s) == IF s \in Registry THEN Default[s] ELSE poll
Interval(s) == IF s \in Registry \/ Default[s] > poll THEN Default[s] ELSE poll

Scheduled(s) == s \in enabled /\ IF s \in Registry THEN Default[s] > 0 ELSE poll > 0

Less(n, dt) == IF n = Never THEN Never ELSE IF n > dt THEN n - dt ELSE 0

\* A source without a due time gets its first one, which is never now.
DueNow(dt) == {s \in Adapter : Scheduled(s) /\ Less(due[s], dt) = 0}

NextDue_Restarted(dt) == [s \in Adapter |->
  IF ~Scheduled(s) THEN Never
  ELSE IF s \in DueNow(dt) THEN Interval(s) ELSE Interval(s) + Jitter[s]]
NextDue(dt) == [s \in Adapter |->
  IF ~Scheduled(s) THEN Never
  ELSE IF due[s] = Never THEN Interval(s) + Jitter[s]
  ELSE IF s \in DueNow(dt) THEN Interval(s) ELSE Less(due[s], dt)]

\* compute_daily_due fires on the first tick of a process.
DayFires(dt) == Less(dayDue, dt) \in {Never, 0}
NextDay(dt) == IF DayFires(dt) THEN Day ELSE Less(dayDue, dt)

-----------------------------------------------------------------------------
Latest == Max({Default[s] : s \in Adapter} \cup Polls) + Max({Jitter[s] : s \in Adapter})

TickFault == tickFaults < MaxTickFaults /\ tickFaults' = tickFaults + 1

UpTo(n, most) == IF n > most THEN most ELSE n

Passed(found, dt) ==
  /\ since' = [s \in Adapter |-> IF s \in found THEN 0 ELSE UpTo(since[s] + dt, Default[s])]
  /\ daySince' = IF ~awake THEN Day ELSE IF DayFires(dt) THEN 0 ELSE UpTo(daySince + dt, Day)
  /\ hammered' = hammered \cup {s \in found : since[s] + dt < Default[s]}
                          \cup (IF awake /\ DayFires(dt) /\ daySince + dt < Day THEN {"day"} ELSE {})

\* Waiting ends when the row is armed, and with the due time.
Waits(ends, misses, dt) ==
  /\ waited' = [s \in Adapter |-> IF s \in ends \/ due[s] = Never \/ due'[s] = Never THEN 0 ELSE waited[s] + dt]
  /\ missed' = [s \in Adapter |-> IF s \in ends \/ due[s] = Never \/ due'[s] = Never THEN 0
                                 ELSE IF s \in misses THEN missed[s] + 1 ELSE missed[s]]
  /\ \A s \in Adapter : missed'[s] <= MaxMissed

-----------------------------------------------------------------------------
(* run_tick, fire_daily. *)

\* The due rows are re-armed one by one; an error is ignored, a running row
\* is left alone, and the due time moves on all the same.
Rearmed(lost, dt) == {s \in DueNow(dt) \ lost : refresh[s] # "running"}

Tick(dt) ==
  /\ awake
  /\ \E lost \in SUBSET DueNow(dt) :
       /\ IF lost = {} THEN UNCHANGED tickFaults ELSE TickFault
       /\ refresh' = [s \in Adapter |-> IF s \in Rearmed(lost, dt) THEN "pending" ELSE refresh[s]]
       /\ due' = NextDue(dt)
       /\ Waits(Rearmed(lost, dt), DueNow(dt), dt)
  /\ dayDue' = NextDay(dt)
  /\ Passed(DueNow(dt), dt)
  /\ UNCHANGED <<poll, enabled, awake>>

\* The settings or the adapters cannot be read: the due times stay.  The
\* daily jobs do not depend on them.
TickSkipped(dt) ==
  /\ awake
  /\ TickFault
  /\ due' = [s \in Adapter |-> Less(due[s], dt)]
  /\ dayDue' = NextDay(dt)
  /\ Waits({}, Adapter, dt)
  /\ Passed({}, dt)
  /\ UNCHANGED <<poll, enabled, refresh, awake>>

-----------------------------------------------------------------------------
(* Around the scheduler. *)

RefreshGoes(s, from, to) ==
  /\ awake /\ refresh[s] = from
  /\ refresh' = [refresh EXCEPT ![s] = to]
  /\ UNCHANGED <<poll, enabled, due, dayDue, awake, tickFaults, schedHistory>>

\* The user changes the poll interval or enables or disables a source.
ChangeSettings ==
  /\ awake
  /\ \/ poll' \in Polls \ {poll} /\ UNCHANGED enabled
     \/ /\ \E s \in Adapter : enabled' = IF s \in enabled THEN enabled \ {s} ELSE enabled \cup {s}
        /\ UNCHANGED poll
  /\ UNCHANGED <<due, dayDue, refresh, awake, tickFaults, schedHistory>>

\* The due times are in memory only; a running row is pending after a start.
Quits ==
  /\ awake
  /\ awake' = FALSE
  /\ due' = [s \in Adapter |-> Never] /\ dayDue' = Never
  /\ refresh' = [s \in Adapter |-> IF refresh[s] = "running" THEN "pending" ELSE refresh[s]]
  /\ Waits({}, {}, 0)
  /\ daySince' = Day
  /\ UNCHANGED <<poll, enabled, tickFaults, since, hammered>>

Opens(dt) ==
  /\ ~awake
  /\ awake' = TRUE
  /\ Passed({}, dt)
  /\ UNCHANGED <<poll, enabled, due, dayDue, refresh, tickFaults, waited, missed>>

-----------------------------------------------------------------------------
SchedInit ==
  /\ poll \in Polls /\ enabled \in SUBSET Adapter
  /\ due = [s \in Adapter |-> Never] /\ dayDue = Never
  /\ refresh = [s \in Adapter |-> "settled"]
  /\ awake = TRUE /\ tickFaults = 0
  /\ since = Default /\ daySince = Day /\ hammered = {}
  /\ waited = [s \in Adapter |-> 0] /\ missed = [s \in Adapter |-> 0]

SchedNext ==
  \/ \E dt \in 1..MaxGap : Tick(dt) \/ TickSkipped(dt) \/ Opens(dt)
  \/ \E s \in Adapter : RefreshGoes(s, "pending", "running") \/ RefreshGoes(s, "running", "settled")
  \/ ChangeSettings
  \/ Quits

SchedSpec == SchedInit /\ [][SchedNext]_schedVars

-----------------------------------------------------------------------------
(* Properties. *)

\* Types: a due time is never further away than the longest interval and its
\* jitter, and none survives the process.
SchedTypeOK ==
  /\ poll \in Polls /\ enabled \subseteq Adapter /\ awake \in BOOLEAN
  /\ due \in [Adapter -> {Never} \cup 0..Latest] /\ dayDue \in {Never} \cup 0..Day
  /\ refresh \in [Adapter -> {"pending", "running", "settled"}]
  /\ tickFaults \in 0..MaxTickFaults
  /\ ~awake => dayDue = Never /\ \A s \in Adapter : due[s] = Never

\* No source is found due again sooner than its own interval after the last
\* time, whatever the settings are changed to and however often the process
\* restarts (the max with default_poll_interval_seconds, and the first due
\* time of a process, a full interval after its first tick); the daily job
\* fires once a day while the process runs (fire_daily).
NeverHammered == hammered = {}

\* A scheduled source is re-armed once per interval: it waits longer only by
\* its jitter and the length of a tick, and by one more interval for each
\* arm that failed or met a running row and each tick that could not read the
\* settings (compute_schedule, and the result of reschedule that run_tick
\* ignores).
WaitIsBounded ==
  \A s \in Adapter :
    LET longest == IF s \in Registry THEN Default[s] ELSE Max({Default[s]} \cup Polls)
    IN  waited[s] <= (missed[s] + 1) * (longest + MaxGap - 1) + Jitter[s]

\* No source is refreshed too early and none too late (compute_schedule).
DueTimesAreKept == NeverHammered /\ WaitIsBounded
=============================================================================
