-------------------------- MODULE ActivityRegistry --------------------------
(***************************************************************************)
(* The live registry of awaited work (storage/activity_registry.rs) and    *)
(* the Activity read that composes it with the queue and the ledger        *)
(* (commands/activity.rs, storage/activity_reads.rs): guards that open an  *)
(* occurrence, register it, settle it and take it out again, beside a      *)
(* queue job of the same activity key, over failed storage calls, panics   *)
(* and restarts, while a read goes from one source to the next.            *)
(*                                                                         *)
(* Everything here has one activity key.                                   *)
(*                                                                         *)
(* D_Bug is D with a plausible bug, as in JobQueue.                        *)
(***************************************************************************)
EXTENDS Integers

CONSTANTS
  Awaiter,   \* threads that run awaited work under a guard
  MaxWork,   \* bound: occurrences and unrecorded guards
  MaxLapses  \* bound: failed calls and restarts

ASSUME RegistryAssumption == MaxWork \in Nat \ {0} /\ MaxLapses \in Nat

VARIABLES
  occ,       \* job_runs
  registry,  \* AppState::activity_registry
  guard,     \* what a thread's guard is at, and its handle
  queued,    \* the queue job of the key: its row and its open occurrence
  reader,    \* what the Activity read is at, and the sections it found
  lapses,
  \* History variables, read by the properties only.
  truth,     \* sections that were true at some moment of the read
  steady     \* pieces of live work that were in one section all through it

registryVars == <<occ, registry, guard, queued, reader, lapses, truth, steady>>

-----------------------------------------------------------------------------
(* Occurrences, handles, sections. *)

Run == 1..MaxWork
\* Rowids are positive; NEXT_UNRECORDED_HANDLE counts down from -1.
Handle == Run \cup {-r : r \in Run}
None == 0

NewRuns == {r \in Run : occ[r] = "absent" /\ \A q \in Run : q < r => occ[q] # "absent"}
Idling == [at |-> "idle", handle |-> None]

Holds(w, h) == guard[w].handle = h
Guards(h) == {w \in Awaiter : Holds(w, h)}
\* The fetch_sub of the counter: it never returns a handle twice.
NewHandles_One == {-1}
NewHandles == {-r : r \in {r \in Run : registry[-r] = "none" /\ Guards(-r) = {}}}

Section == {"running", "stalled", "queued", "recent"}

\* queue_running_occurrence_ids
JobRuns == queued.st = "running" /\ queued.run # None
\* stalled_queue_rows: no open occurrence.
JobStalls == queued.st = "running" /\ queued.run = None
JobWaits == queued.st = "pending"
\* snapshot
LiveEntries == {h \in Handle : registry[h] = "live"}
StalledEntries_Recorded == {h \in Handle : registry[h] = "stalled"}
StalledEntries == {h \in Handle : registry[h] \in {"stalled", "unrecorded"}}
\* recent_occurrences; retry_scheduled is not one of them.
Recent_AnyStatus == {r \in Run : occ[r] # "absent"}
Recent == {r \in Run : occ[r] \in {"ended", "interrupted"}}

\* The pieces of live work, each in the section it belongs to.
Pieces ==
  {<<"running", h>> : h \in LiveEntries}
    \cup {<<"stalled", h>> : h \in {h \in Handle : registry[h] \in {"stalled", "unrecorded"}}}
    \cup (IF queued.st = "running" THEN {<<IF queued.run = None THEN "stalled" ELSE "running", None>>}
          ELSE IF JobWaits THEN {<<"queued", None>>} ELSE {})
Sections == {p[1] : p \in Pieces} \cup (IF \E r \in Run : occ[r] \in {"ended", "interrupted"} THEN {"recent"} ELSE {})

\* Each step notes what is true after it while a read is under way.
Watched ==
  /\ truth' = IF reader'.at = "off" THEN {} ELSE truth \cup Sections'
  /\ steady' = IF reader'.at = "off" THEN {} ELSE steady \cap Pieces'
Unread == UNCHANGED reader /\ Watched

Lapse == lapses < MaxLapses /\ lapses' = lapses + 1
GuardGoes(w, p, h) == guard' = [guard EXCEPT ![w] = [at |-> p, handle |-> h]]

-----------------------------------------------------------------------------
(* start, settle_and_remove, Drop. *)

BeginsOccurrence(w) ==
  /\ guard[w].at = "idle"
  /\ \E r \in NewRuns : occ' = [occ EXCEPT ![r] = "running"] /\ GuardGoes(w, "begun", r)
  /\ UNCHANGED <<registry, queued, lapses>> /\ Unread

Registers(w) ==
  /\ guard[w].at = "begun"
  /\ registry' = [registry EXCEPT ![guard[w].handle] = "live"]
  /\ GuardGoes(w, "working", guard[w].handle)
  /\ UNCHANGED <<occ, queued, lapses>> /\ Unread

\* begin_attempt fails: the work goes on under an entry of its own.
BeginsUnrecorded(w) ==
  /\ guard[w].at = "idle"
  /\ Lapse
  /\ \E h \in NewHandles : registry' = [registry EXCEPT ![h] = "unrecorded"] /\ GuardGoes(w, "working", h)
  /\ UNCHANGED <<occ, queued>> /\ Unread

Removed_ByKey(w) == [h \in Handle |-> "none"]
Removed(w) == [registry EXCEPT ![guard[w].handle] = "none"]

\* Settled by its outcome, or as interrupted when the guard is dropped.
SettlesOccurrence(w) ==
  /\ guard[w].at = "working" /\ guard[w].handle > 0
  /\ \E how \in {"ended", "interrupted"} : occ' = [occ EXCEPT ![guard[w].handle] = how]
  /\ GuardGoes(w, "settled", guard[w].handle)
  /\ UNCHANGED <<registry, queued, lapses>> /\ Unread

LeavesRegistry(w) ==
  /\ guard[w].at = "settled" \/ (guard[w].at = "working" /\ guard[w].handle < 0)
  /\ registry' = Removed(w)
  /\ guard' = [guard EXCEPT ![w] = Idling]
  /\ UNCHANGED <<occ, queued, lapses>> /\ Unread

\* The settle fails: the row stays running and the entry says so.
Kept_Live(w) == registry
Kept(w) == [registry EXCEPT ![guard[w].handle] = "stalled"]

SettleErrs(w) ==
  /\ guard[w].at = "working" /\ guard[w].handle > 0
  /\ Lapse
  /\ registry' = Kept(w)
  /\ guard' = [guard EXCEPT ![w] = Idling]
  /\ UNCHANGED <<occ, queued>> /\ Unread

-----------------------------------------------------------------------------
(* The queue job of the key. *)

JobArmed ==
  /\ queued.st = "settled"
  /\ queued' = [st |-> "pending", run |-> None]
  /\ UNCHANGED <<occ, registry, guard, lapses>> /\ Unread

JobClaimed ==
  /\ queued.st = "pending"
  /\ queued' = [queued EXCEPT !.st = "running"]
  /\ UNCHANGED <<occ, registry, guard, lapses>> /\ Unread

JobBegins ==
  /\ queued.st = "running" /\ queued.run = None
  /\ \E r \in NewRuns : occ' = [occ EXCEPT ![r] = "running"] /\ queued' = [queued EXCEPT !.run = r]
  /\ UNCHANGED <<registry, guard, lapses>> /\ Unread

\* Row and occurrence in one transaction; a retry is pending again.
JobSettles ==
  /\ JobRuns
  /\ \/ queued' = [st |-> "settled", run |-> None] /\ occ' = [occ EXCEPT ![queued.run] = "ended"]
     \/ queued' = [st |-> "pending", run |-> None] /\ occ' = [occ EXCEPT ![queued.run] = "retry"]
  /\ UNCHANGED <<registry, guard, lapses>> /\ Unread

-----------------------------------------------------------------------------
(* compute_activity: one source after the other, each adding its section. *)

ReadStep(from, to, found) ==
  /\ reader.at = from
  /\ reader' = [at |-> to, found |-> reader.found \cup found]
  /\ UNCHANGED <<occ, registry, guard, queued, lapses>>
  /\ Watched

ReadStarts ==
  /\ reader.at = "off"
  /\ reader' = [at |-> "jobs", found |-> {}]
  /\ truth' = Sections /\ steady' = Pieces
  /\ UNCHANGED <<occ, registry, guard, queued, lapses>>
ReadJobs == ReadStep("jobs", "entries", IF JobRuns THEN {"running"} ELSE {})
ReadEntries == ReadStep("entries", "stalledJobs", IF LiveEntries # {} THEN {"running"} ELSE {})
ReadStalledJobs == ReadStep("stalledJobs", "stalledEntries", IF JobStalls THEN {"stalled"} ELSE {})
ReadStalledEntries == ReadStep("stalledEntries", "pending", IF StalledEntries # {} THEN {"stalled"} ELSE {})
ReadPending == ReadStep("pending", "recent", IF JobWaits THEN {"queued"} ELSE {})
ReadRecent == ReadStep("recent", "done", IF Recent # {} THEN {"recent"} ELSE {})
ReadEnds ==
  /\ reader.at = "done"
  /\ reader' = [at |-> "off", found |-> {}]
  /\ UNCHANGED <<occ, registry, guard, queued, lapses>> /\ Watched

\* collapse_by_activity_key: the key is in one section, the first found.
Shown == LET F == reader.found IN
  IF "running" \in F THEN "running" ELSE IF "stalled" \in F THEN "stalled"
  ELSE IF "queued" \in F THEN "queued" ELSE IF "recent" \in F THEN "recent" ELSE "none"

Rank == [running |-> 1, stalled |-> 2, queued |-> 3, recent |-> 4, none |-> 5]

-----------------------------------------------------------------------------
(* The process ends; the next one reclaims the row and interrupts what the *)
(* ledger left running, before it reads or awaits anything.                *)

Restart ==
  /\ Lapse
  /\ occ' = [r \in Run |-> IF occ[r] = "running" THEN "interrupted" ELSE occ[r]]
  /\ registry' = [h \in Handle |-> "none"]
  /\ guard' = [w \in Awaiter |-> Idling]
  /\ queued' = IF queued.st = "running" THEN [st |-> "pending", run |-> None] ELSE queued
  /\ reader' = [at |-> "off", found |-> {}]
  /\ Watched

-----------------------------------------------------------------------------
RegistryInit ==
  /\ occ = [r \in Run |-> "absent"]
  /\ registry = [h \in Handle |-> "none"]
  /\ guard = [w \in Awaiter |-> Idling]
  /\ queued = [st |-> "settled", run |-> None]
  /\ reader = [at |-> "off", found |-> {}]
  /\ lapses = 0
  /\ truth = {} /\ steady = {}

GuardStep(w) ==
  \/ BeginsOccurrence(w) \/ Registers(w) \/ BeginsUnrecorded(w)
  \/ SettlesOccurrence(w) \/ LeavesRegistry(w) \/ SettleErrs(w)
JobStep == JobArmed \/ JobClaimed \/ JobBegins \/ JobSettles
ReaderStep ==
  \/ ReadStarts \/ ReadJobs \/ ReadEntries \/ ReadStalledJobs \/ ReadStalledEntries
  \/ ReadPending \/ ReadRecent \/ ReadEnds

RegistryNext == (\E w \in Awaiter : GuardStep(w)) \/ JobStep \/ ReaderStep \/ Restart

RegistrySpec == RegistryInit /\ [][RegistryNext]_registryVars

-----------------------------------------------------------------------------
(* Properties. *)

\* Types, and no two guards share a handle, recorded or not.
RegistryTypeOK ==
  /\ occ \in [Run -> {"absent", "running", "ended", "interrupted", "retry"}]
  /\ registry \in [Handle -> {"none", "live", "stalled", "unrecorded"}]
  /\ guard \in [Awaiter -> [at : {"idle", "begun", "working", "settled"}, handle : Handle \cup {None}]]
  /\ \A v, w \in Awaiter : guard[v].handle = guard[w].handle /\ guard[v].handle # None => v = w
  /\ queued \in [st : {"pending", "running", "settled"}, run : Run \cup {None}]
  /\ reader.found \subseteq Section /\ lapses \in 0..MaxLapses

\* Work under a guard is in the registry however its siblings of the same
\* key end, and an occurrence that is still running is held by a guard or
\* the job, or its failed settle is on record (the handle of its own each
\* guard has, settle_failed).
WorkIsTracked ==
  /\ \A w \in Awaiter : guard[w].at = "working" => registry[guard[w].handle] # "none"
  /\ \A r \in Run : occ[r] = "running" =>
       Guards(r) # {} \/ queued.run = r \/ registry[r] = "stalled"

\* No entry claims work that nobody does: it has its guard, or its settle
\* failed and the row really is still running.
NoGhostEntry ==
  \A h \in Handle :
    /\ registry[h] \in {"live", "unrecorded"} => Guards(h) # {}
    /\ registry[h] = "stalled" => h > 0 /\ occ[h] = "running"

\* Entry, guard and occurrence agree, however work ends (ActivityGuard).
EntriesAreExact == WorkIsTracked /\ NoGhostEntry

\* What a read shows of the key was true at some moment of the read.
ViewIsTrue == reader.at = "done" /\ Shown # "none" => Shown \in truth

\* Work that stays what it is all through a read is shown, and no section
\* of lower precedence hides it.  Only work that is claimed, begins or ends
\* behind the read's back can be missed, the read being several statements.
SteadyIsShown == reader.at = "done" => \A p \in steady : Rank[Shown] <= Rank[p[1]]

\* A read of several statements neither invents work nor misses work that was
\* there all along (activity_reads).
ViewIsFaithful == ViewIsTrue /\ SteadyIsShown
=============================================================================
