---------------------------- MODULE RestoreJournal ----------------------------
(***************************************************************************)
(* The staged restore of storage/backup.rs: a backup is staged while the   *)
(* program runs and put in place of the database at the next start, before *)
(* anything is opened (storage/pool.rs).  Every file operation is a step,  *)
(* and a copy is three: the destination is truncated, filled and whole.    *)
(* The process may die between any two steps, and an operation may fail.   *)
(*                                                                         *)
(* D_Bug is D with a plausible bug, as in JobQueue.                        *)
(***************************************************************************)
EXTENDS Naturals

CONSTANTS
  Piece,        \* what the user may write, piece by piece; a bound on it too
  MaxCopies,    \* bound: pre-restore copies ever made
  MaxMishaps    \* bound: crashes and failed operations

ASSUME RestoreAssumption == MaxCopies \in Nat /\ MaxMishaps \in Nat

VARIABLES
  restoring,    \* where the process is
  live,         \* the file at the database path
  wal,          \* the pieces in the WAL sidecar, which the file lacks
  staged,       \* the staging file
  journal,      \* the copy the restore journal names
  copy,         \* backups/pre-restore-*, by age
  aside,        \* the copy this start has made
  mine,         \* what the user has written into the database he is in
  before,       \* what he had written into each database another was opened in place of
  mishaps

\* No file: what the files have to hold, to write the properties with.
owned == <<mine, before>>
restoreVars == <<restoring, live, wal, staged, journal, copy, aside, owned, mishaps>>

-----------------------------------------------------------------------------
(* Contents of files: what the file is, and which pieces of the user's it has. *)

Kind == {"whole", "candidate", "bad", "partial", "empty", "none"}
Content == [kind : Kind, has : SUBSET Piece]
Database(pieces) == [kind |-> "whole", has |-> pieces]
Other(kind) == [kind |-> kind, has |-> {}]   \* nothing of the user's

CopyId == 1..MaxCopies
NoJournal == 0
Garbled == MaxCopies + 1   \* a journal that does not parse

\* PRAGMA integrity_check: an empty file is an empty database, and passes.
PassesIntegrity(f) == f.kind \in {"whole", "candidate", "empty"}

Made(k) == copy[k].kind # "none"
Newest_Oldest(k) == Made(k) /\ \A i \in CopyId : Made(i) => k <= i
Newest(k) == Made(k) /\ \A i \in CopyId : Made(i) => i <= k

\* The copy a recovery takes: the named one, or the newest one under a journal
\* that does not parse.
Repairs_NamedOnly(k) == k = journal
Repairs(k) == IF journal = Garbled THEN Newest(k) ELSE k = journal

Step(p, q) == restoring = p /\ restoring' = q

Mishap == mishaps < MaxMishaps /\ mishaps' = mishaps + 1
Well == UNCHANGED mishaps

-----------------------------------------------------------------------------
(* The program runs. *)

\* The candidate was verified under a private name: only a good one is staged.
RequestRestore ==
  /\ restoring = "up"
  /\ staged' = "candidate"
  /\ UNCHANGED <<restoring, live, wal, journal, copy, aside, owned, mishaps>>

\* The staging file lies where anybody may exchange or damage it.
StagedIsDamaged ==
  /\ staged = "candidate"
  /\ staged' = "bad"
  /\ Mishap
  /\ UNCHANGED <<restoring, live, wal, journal, copy, aside, owned>>

UserWrites ==
  /\ restoring = "up"
  /\ \E p \in Piece \ (mine \cup UNION before) :
       /\ mine' = mine \cup {p}
       /\ wal' = wal \cup {p}
  /\ UNCHANGED <<restoring, live, staged, journal, copy, aside, before, mishaps>>

\* The WAL goes into the file.
Checkpoints ==
  /\ live' = IF wal = {} THEN live ELSE Database(live.has \cup wal)
  /\ wal' = {}

Exit ==
  /\ Step("up", "down")
  /\ Checkpoints
  /\ UNCHANGED <<staged, journal, copy, aside, owned, mishaps>>

Crashes ==
  /\ restoring # "down"
  /\ restoring' = "down"
  /\ Mishap
  /\ UNCHANGED <<live, wal, staged, journal, copy, aside, owned>>

Start ==
  /\ Step("down", "recover")
  /\ aside' = 0
  /\ UNCHANGED <<live, wal, staged, journal, copy, owned, mishaps>>

\* An operation whose error apply_staged_restore returns: open_pool gives up
\* and the program does not start.
Abort(p) == Step(p, "down") /\ Mishap /\ UNCHANGED <<live, wal, staged, journal, copy, aside, owned>>

-----------------------------------------------------------------------------
(* recover_from_crash_journal. *)

RecoverNothing ==
  /\ Step("recover", "verify")
  /\ journal = NoJournal
  /\ UNCHANGED <<live, wal, staged, journal, copy, aside, owned, mishaps>>

RecoverSwapped_Always ==
  /\ Step("recover", "recovered")
  /\ journal # NoJournal
  /\ UNCHANGED <<live, wal, staged, journal, copy, aside, owned, mishaps>>
RecoverSwapped ==
  /\ Step("recover", "recovered")
  /\ journal # NoJournal
  /\ PassesIntegrity(live)
  /\ UNCHANGED <<live, wal, staged, journal, copy, aside, owned, mishaps>>

RecoverByCopy ==
  /\ Step("recover", "recover_copy")
  /\ journal # NoJournal
  /\ ~PassesIntegrity(live)
  /\ \E k \in CopyId :
       /\ Repairs(k)
       /\ aside' = k
  /\ live' = Other("empty")
  /\ UNCHANGED <<wal, staged, journal, copy, owned, mishaps>>

FillsLive(p, q) ==
  /\ Step(p, q)
  /\ live' = Other("partial")
  /\ UNCHANGED <<wal, staged, journal, copy, aside, owned, mishaps>>

\* The copy is whole; the sidecars are removed with it.
FinishesLive(p, q) ==
  /\ Step(p, q)
  /\ live' = copy[aside]
  /\ wal' = {}
  /\ UNCHANGED <<staged, journal, copy, aside, owned, mishaps>>

RecoverCopies ==
  \/ FillsLive("recover_copy", "recover_fill")
  \/ FinishesLive("recover_fill", "recovered")

DropsJournal(p, q) ==
  /\ Step(p, q)
  /\ journal' = NoJournal
  /\ UNCHANGED <<live, wal, staged, copy, aside, owned, mishaps>>

RecoverEnds == DropsJournal("recovered", "verify")

-----------------------------------------------------------------------------
(* apply_staged_restore_with, up to the journal: a failure rejects. *)

NothingStaged ==
  /\ Step("verify", "open")
  /\ staged = "none"
  /\ UNCHANGED <<live, wal, staged, journal, copy, aside, owned, mishaps>>

VerifyStaged ==
  /\ Step("verify", "checkpoint")
  /\ staged = "candidate"
  /\ UNCHANGED <<live, wal, staged, journal, copy, aside, owned, mishaps>>

\* reject_staged_candidate renames the candidate away; its own failure is ignored.
Rejects(p) == Step(p, "open") /\ (staged' = "none" \/ staged' = staged)

RejectStaged ==
  /\ staged = "bad"
  /\ Rejects("verify")
  /\ UNCHANGED <<live, wal, journal, copy, aside, owned, mishaps>>

Checkpoint_Skipped ==
  /\ Step("checkpoint", "aside")
  /\ UNCHANGED <<live, wal, staged, journal, copy, aside, owned, mishaps>>
Checkpoint ==
  /\ Step("checkpoint", "aside")
  /\ Checkpoints
  /\ UNCHANGED <<staged, journal, copy, aside, owned, mishaps>>

CheckpointFails ==
  /\ Rejects("checkpoint")
  /\ Mishap
  /\ UNCHANGED <<live, wal, journal, copy, aside, owned>>

CopyAside_SameName ==
  /\ Step("aside", "aside_copy")
  /\ 1 \in CopyId
  /\ aside' = 1
  /\ copy' = [copy EXCEPT ![1] = Other("partial")]
  /\ UNCHANGED <<live, wal, staged, journal, owned, mishaps>>
CopyAside ==
  /\ Step("aside", "aside_copy")
  /\ \E k \in CopyId :
       /\ ~Made(k) /\ \A i \in 1..(k - 1) : Made(i)
       /\ aside' = k
       /\ copy' = [copy EXCEPT ![k] = Other("partial")]
  /\ UNCHANGED <<live, wal, staged, journal, owned, mishaps>>

FinishAside ==
  /\ Step("aside_copy", "journal")
  /\ copy' = [copy EXCEPT ![aside] = live]
  /\ UNCHANGED <<live, wal, staged, journal, aside, owned, mishaps>>

\* create_dir_all, the copy or the journal fails; removing the copy may too.
AsideFails ==
  /\ \/ Rejects("aside") /\ UNCHANGED copy
     \/ /\ Rejects("aside_copy") \/ Rejects("journal")
        /\ UNCHANGED copy \/ copy' = [copy EXCEPT ![aside] = Other("none")]
  /\ Mishap
  /\ UNCHANGED <<live, wal, journal, aside, owned>>

\* Written aside, synced and renamed.  A file system that lies about that
\* leaves a journal that does not parse.
WriteJournal_TooLate ==
  /\ Step("journal", "swap")
  /\ UNCHANGED <<live, wal, staged, journal, copy, aside, owned, mishaps>>
WriteJournal ==
  /\ Step("journal", "swap")
  /\ \/ journal' = aside /\ Well
     \/ journal' = Garbled /\ Mishap
  /\ UNCHANGED <<live, wal, staged, copy, aside, owned>>

-----------------------------------------------------------------------------
(* The swap and its rollback. *)

\* The sidecars are removed, the staged file is renamed onto the database.
SwapIn ==
  /\ Step("swap", "check")
  /\ live' = Other(staged)
  /\ staged' = "none"
  /\ wal' = {}
  /\ UNCHANGED <<journal, copy, aside, owned, mishaps>>

SwapChecked_Unchecked ==
  /\ Step("check", "swapped")
  /\ UNCHANGED <<live, wal, staged, journal, copy, aside, owned, mishaps>>
SwapChecked ==
  /\ Step("check", "swapped")
  /\ PassesIntegrity(live)
  /\ UNCHANGED <<live, wal, staged, journal, copy, aside, owned, mishaps>>

\* The rename failed and the candidate is moved away, or the check failed.
\* Either way the copy goes back over the database.
RollBack ==
  /\ \/ /\ Step("swap", "rollback_copy")
        /\ Mishap
        /\ staged' = "none" \/ staged' = staged
        /\ wal' = {}
     \/ /\ Step("check", "rollback_copy")
        /\ ~PassesIntegrity(live)
        /\ UNCHANGED <<staged, wal, owned, mishaps>>
  /\ live' = Other("empty")
  /\ UNCHANGED <<journal, copy, aside, owned>>

RollbackCopies ==
  \/ FillsLive("rollback_copy", "rollback_fill")
  \/ FinishesLive("rollback_fill", "swapped")

SwapEnds == DropsJournal("swapped", "open")

\* The copy back or the removal of the journal fails.
StartFails ==
  \E p \in {"recover_copy", "recover_fill", "recovered",
            "rollback_copy", "rollback_fill", "swapped"} : Abort(p)

\* open_pool opens the user's own database, or another in its place: the candidate
\* he chose, or the empty database that an emptied file is.
OpenPool ==
  /\ Step("open", "up")
  /\ \/ /\ live.kind \notin {"candidate", "empty"}
        /\ UNCHANGED <<live, owned>>
     \/ /\ live.kind \in {"candidate", "empty"}
        /\ live' = Database({})
        /\ before' = before \cup {mine}
        /\ mine' = {}
  /\ UNCHANGED <<wal, staged, journal, copy, aside, mishaps>>

-----------------------------------------------------------------------------
RestoreInit ==
  /\ restoring = "up"
  /\ live = Database({}) /\ wal = {}
  /\ staged = "none" /\ journal = NoJournal
  /\ copy = [k \in CopyId |-> Other("none")] /\ aside = 0
  /\ mine = {} /\ before = {}
  /\ mishaps = 0

\* What a start does of itself.
StartProceeds ==
  \/ Start \/ RecoverNothing \/ RecoverSwapped \/ RecoverByCopy \/ RecoverCopies
  \/ RecoverEnds \/ NothingStaged \/ VerifyStaged \/ RejectStaged \/ Checkpoint
  \/ CopyAside \/ FinishAside \/ WriteJournal \/ SwapIn \/ SwapChecked \/ RollBack
  \/ RollbackCopies \/ SwapEnds \/ OpenPool

RestoreNext ==
  \/ RequestRestore \/ StagedIsDamaged \/ UserWrites \/ Exit \/ Crashes
  \/ StartProceeds \/ CheckpointFails \/ AsideFails \/ StartFails

RestoreSpec == RestoreInit /\ [][RestoreNext]_restoreVars

-----------------------------------------------------------------------------
Place ==
  {"up", "down", "recover", "recover_copy", "recover_fill", "recovered", "verify",
   "checkpoint", "aside", "aside_copy", "journal", "swap", "check",
   "rollback_copy", "rollback_fill", "swapped", "open"}

\* Types of the files and of the start's position.
RestoreTypeOK ==
  /\ restoring \in Place
  /\ live \in Content
  /\ wal \in SUBSET Piece
  /\ staged \in {"none", "candidate", "bad"}
  /\ journal \in CopyId \cup {NoJournal, Garbled}
  /\ copy \in [CopyId -> Content]
  /\ aside \in CopyId \cup {0}
  /\ mine \in SUBSET Piece /\ before \in SUBSET SUBSET Piece
  /\ mishaps \in 0..MaxMishaps

\* All these pieces are together in the database or in a pre-restore copy.
Kept(pieces) ==
  \/ pieces \subseteq live.has \cup wal
  \/ \E k \in CopyId : pieces \subseteq copy[k].has

\* Nothing the user wrote is lost: at every moment, in the middle of any copy
\* and after any failure, the database or a pre-restore copy has all he wrote into
\* the database he is in, and the same goes for each database he was in before,
\* the one an emptied file took the place of included (apply_staged_restore_with,
\* recover_from_crash_journal).
NothingLost == \A pieces \in before \cup {mine} : Kept(pieces)

\* The program never opens a half-copied database, a candidate that failed its
\* check, or the user's own without something he wrote into it.  Only an empty
\* file passes for a database (recover_from_crash_journal).
OpensWhole ==
  restoring \in {"open", "up"} =>
    \/ live.kind \in {"candidate", "empty"}
    \/ live.kind = "whole" /\ mine \subseteq live.has \cup wal

\* A database that is not whole, or not checked yet, is repairable: the journal
\* stands, and the copy it leads to is whole and has what the user wrote, unless
\* the file it was made of had been emptied (the order of copy, journal, swap and
\* removal of the journal in apply_staged_restore_with).
SwapIsJournaled ==
  \/ live.kind \in {"bad", "partial"}
  \/ restoring \in {"check", "recover_copy", "rollback_copy"}
  => \E k \in CopyId :
       /\ Repairs(k)
       /\ copy[k].kind = "empty" \/ (copy[k].kind = "whole" /\ mine \subseteq copy[k].has)

\* At every moment of a restore: all of the user's data is somewhere, what is not
\* whole is repairable, and what is opened is whole.
RestoreIsSafe == NothingLost /\ SwapIsJournaled /\ OpensWhole

\* Every journal is resolved, a damaged one too, if only the program is started
\* often enough: there is always a copy to go back to (recover_from_crash_journal,
\* newest_pre_restore_backup).
RecoveryEnds == journal # NoJournal ~> journal = NoJournal

\* docs/data-model.md: a rollback that cannot complete is fatal, otherwise the
\* next start resumes it; so the program does not go on to open an emptied file.
RollbackIsResumed == restoring = "open" => live.kind # "empty"
=============================================================================
