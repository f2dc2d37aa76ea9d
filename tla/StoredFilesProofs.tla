--------------------------- MODULE StoredFilesProofs ---------------------------
(* What holds, for every value of their constants, of the two components    *)
(* that keep a file in step with what the program recorded of it: the       *)
(* staged restore of the database and the capture of a document.  They      *)
(* share no variable.                                                       *)
EXTENDS RestoreJournal, DocumentCapture, TLAPS

-----------------------------------------------------------------------------
(* The staged restore (RestoreJournal), for any number of copies and of     *)
(* mishaps.                                                                 *)


\* A file the program may open.
Settled == live.kind \in {"candidate", "empty", "whole"}

Whole(k) == copy[k].kind = "empty" \/ (copy[k].kind = "whole" /\ mine \subseteq copy[k].has)

\* Copies are made in order, and none is missing before a made one.
InOrder == \A k, i \in CopyId : Made(k) /\ i <= k => Made(i)

\* The user's own database has all of his, other files in its place nothing, and only
\* beside his own is a WAL.
OnlyWhole ==
  /\ live.kind = "whole" => mine \subseteq live.has \cup wal
  /\ live.kind # "whole" => live.has = {} /\ wal = {}
  /\ \A k \in CopyId : copy[k].kind # "whole" => copy[k].has = {}

\* Where the start is, what it has done.
Progressed ==
  /\ journal = NoJournal => Settled
  /\ restoring \in {"recovered", "swap", "swapped"} => Settled
  /\ restoring \in {"up", "verify", "checkpoint", "aside", "aside_copy", "journal", "open"}
       => journal = NoJournal
  /\ restoring \in {"recover_copy", "recover_fill", "recovered", "swap", "check",
                    "rollback_copy", "rollback_fill", "swapped"} => journal # NoJournal
  /\ restoring \in {"recover_copy", "recover_fill", "rollback_copy", "rollback_fill"} =>
       aside \in CopyId /\ Whole(aside) /\ live.kind \in {"empty", "partial"}
  /\ restoring \in {"aside_copy", "journal", "swap", "check"} =>
       aside \in CopyId /\ Newest(aside)
  /\ restoring = "aside_copy" => copy[aside] = Other("partial")
  /\ restoring \in {"journal", "swap"} => copy[aside] = live
  /\ restoring = "check" => Whole(aside)
  /\ restoring \in {"checkpoint", "aside", "aside_copy", "journal", "swap"} => staged # "none"
  /\ restoring \in {"aside", "aside_copy", "journal", "swap"} =>
       live.kind \in {"whole", "empty"} /\ wal = {}
  /\ restoring = "up" => live.kind = "whole"
  /\ restoring \in {"swap", "check"} => Repairs(aside)

\* What the journal leads to is whole, and a candidate in place is no longer staged.
Repairable ==
  /\ journal # NoJournal => \E k \in CopyId : Repairs(k) /\ Whole(k)
  /\ live.kind \in {"candidate", "bad"} => staged = "none"

RestoreInv == RestoreTypeOK /\ NothingLost /\ InOrder /\ OnlyWhole /\ Progressed /\ Repairable

-----------------------------------------------------------------------------
(* The invariant holds at first, and every step preserves it. *)

LEMMA Ids == /\ NoJournal \notin CopyId /\ Garbled \notin CopyId /\ NoJournal # Garbled
             /\ CopyId \subseteq Nat
BY RestoreAssumption DEF NoJournal, Garbled, CopyId

LEMMA MishapType == mishaps \in 0..MaxMishaps /\ Mishap => mishaps' \in 0..MaxMishaps
BY RestoreAssumption DEF Mishap

LEMMA InitInv == RestoreInit => RestoreInv
<1> SUFFICES ASSUME RestoreInit PROVE RestoreInv
  OBVIOUS
<1>1. RestoreTypeOK
  <2>1. 0 \in 0..MaxMishaps
    BY RestoreAssumption
  <2> QED BY <2>1 DEF RestoreInit, RestoreTypeOK, Place, Content, Kind, Other, Database, NoJournal
<1>2. NothingLost /\ InOrder /\ OnlyWhole /\ Progressed /\ Repairable
  BY Ids DEF RestoreInit, NothingLost, Kept, InOrder, OnlyWhole, Progressed, Repairable, Settled,
    Made, Other, Database
<1> QED BY <1>1, <1>2 DEF RestoreInv

LEMMA RequestRestoreKeeps == RestoreInv /\ RequestRestore => RestoreInv'
BY Ids DEF RestoreInv, RestoreTypeOK, NothingLost, Kept, InOrder, OnlyWhole, Progressed, Repairable, Settled,
  Whole, Made, Newest, Repairs, Step, Mishap, Well, Content, Kind, Other, owned, Place, RequestRestore

LEMMA StagedIsDamagedKeeps == RestoreInv /\ StagedIsDamaged => RestoreInv'
BY Ids, MishapType DEF RestoreInv, RestoreTypeOK, NothingLost, Kept, InOrder, OnlyWhole, Progressed, Repairable, Settled,
      Whole, Made, Newest, Repairs, Step, Content, Kind, Other, owned, Place,
      StagedIsDamaged

LEMMA UserWritesKeeps == RestoreInv /\ UserWrites => RestoreInv'
BY Ids DEF RestoreInv, RestoreTypeOK, NothingLost, Kept, InOrder, OnlyWhole, Progressed, Repairable, Settled,
  Whole, Made, Newest, Repairs, Step, Mishap, Well, Content, Kind, Other, owned, Place, UserWrites

LEMMA ExitKeeps == RestoreInv /\ Exit => RestoreInv'
BY Ids DEF RestoreInv, RestoreTypeOK, NothingLost, Kept, InOrder, OnlyWhole, Progressed, Repairable, Settled,
  Whole, Made, Newest, Repairs, Step, Mishap, Well, Content, Kind, Other, owned, Place, Exit,
  Checkpoints, Database

LEMMA CrashesKeeps == RestoreInv /\ Crashes => RestoreInv'
BY Ids, MishapType DEF RestoreInv, RestoreTypeOK, NothingLost, Kept, InOrder, OnlyWhole, Progressed, Repairable, Settled,
      Whole, Made, Newest, Repairs, Step, Content, Kind, Other, owned, Place,
      Crashes

LEMMA StartKeeps == RestoreInv /\ Start => RestoreInv'
BY Ids DEF RestoreInv, RestoreTypeOK, NothingLost, Kept, InOrder, OnlyWhole, Progressed, Repairable, Settled,
  Whole, Made, Newest, Repairs, Step, Mishap, Well, Content, Kind, Other, owned, Place, Start

LEMMA RecoverNothingKeeps == RestoreInv /\ RecoverNothing => RestoreInv'
BY Ids DEF RestoreInv, RestoreTypeOK, NothingLost, Kept, InOrder, OnlyWhole, Progressed, Repairable, Settled,
  Whole, Made, Newest, Repairs, Step, Mishap, Well, Content, Kind, Other, owned, Place, RecoverNothing

LEMMA RecoverSwappedKeeps == RestoreInv /\ RecoverSwapped => RestoreInv'
BY Ids DEF RestoreInv, RestoreTypeOK, NothingLost, Kept, InOrder, OnlyWhole, Progressed, Repairable, Settled,
  Whole, Made, Newest, Repairs, Step, Mishap, Well, Content, Kind, Other, owned, Place, RecoverSwapped, PassesIntegrity

LEMMA RecoverByCopyKeeps == RestoreInv /\ RecoverByCopy => RestoreInv'
BY Ids DEF RestoreInv, RestoreTypeOK, NothingLost, Kept, InOrder, OnlyWhole, Progressed, Repairable, Settled,
  Whole, Made, Newest, Repairs, Step, Mishap, Well, Content, Kind, Other, owned, Place, RecoverByCopy, PassesIntegrity

LEMMA RecoverCopiesKeeps == RestoreInv /\ RecoverCopies => RestoreInv'
<1>1. ASSUME RestoreInv, FillsLive("recover_copy", "recover_fill") PROVE RestoreInv'
  BY <1>1, Ids DEF RestoreInv, RestoreTypeOK, NothingLost, Kept, InOrder, OnlyWhole, Progressed, Repairable, Settled,
      Whole, Made, Newest, Repairs, Step, Content, Kind, Other, owned, Place, FillsLive
<1>2. ASSUME RestoreInv, FinishesLive("recover_fill", "recovered") PROVE RestoreInv'
  BY <1>2, Ids DEF RestoreInv, RestoreTypeOK, NothingLost, Kept, InOrder, OnlyWhole, Progressed, Repairable, Settled,
      Whole, Made, Newest, Repairs, Step, Content, Kind, Other, owned, Place, FinishesLive
<1> QED BY <1>1, <1>2 DEF RecoverCopies

LEMMA RecoverEndsKeeps == RestoreInv /\ RecoverEnds => RestoreInv'
BY Ids DEF RestoreInv, RestoreTypeOK, NothingLost, Kept, InOrder, OnlyWhole, Progressed, Repairable, Settled,
  Whole, Made, Newest, Repairs, Step, Mishap, Well, Content, Kind, Other, owned, Place, RecoverEnds, DropsJournal

LEMMA NothingStagedKeeps == RestoreInv /\ NothingStaged => RestoreInv'
BY Ids DEF RestoreInv, RestoreTypeOK, NothingLost, Kept, InOrder, OnlyWhole, Progressed, Repairable, Settled,
  Whole, Made, Newest, Repairs, Step, Mishap, Well, Content, Kind, Other, owned, Place, NothingStaged

LEMMA VerifyStagedKeeps == RestoreInv /\ VerifyStaged => RestoreInv'
BY Ids DEF RestoreInv, RestoreTypeOK, NothingLost, Kept, InOrder, OnlyWhole, Progressed, Repairable, Settled,
  Whole, Made, Newest, Repairs, Step, Mishap, Well, Content, Kind, Other, owned, Place, VerifyStaged

LEMMA RejectStagedKeeps == RestoreInv /\ RejectStaged => RestoreInv'
BY Ids DEF RestoreInv, RestoreTypeOK, NothingLost, Kept, InOrder, OnlyWhole, Progressed, Repairable, Settled,
  Whole, Made, Newest, Repairs, Step, Mishap, Well, Content, Kind, Other, owned, Place, RejectStaged, Rejects

LEMMA CheckpointKeeps == RestoreInv /\ Checkpoint => RestoreInv'
BY Ids DEF RestoreInv, RestoreTypeOK, NothingLost, Kept, InOrder, OnlyWhole, Progressed, Repairable, Settled,
  Whole, Made, Newest, Repairs, Step, Mishap, Well, Content, Kind, Other, owned, Place, Checkpoint,
  Checkpoints, Database

LEMMA CheckpointFailsKeeps == RestoreInv /\ CheckpointFails => RestoreInv'
BY Ids, MishapType DEF RestoreInv, RestoreTypeOK, NothingLost, Kept, InOrder, OnlyWhole, Progressed, Repairable, Settled,
      Whole, Made, Newest, Repairs, Step, Content, Kind, Other, owned, Place,
      CheckpointFails, Rejects

LEMMA CopyAsideKeeps == RestoreInv /\ CopyAside => RestoreInv'
<1> SUFFICES ASSUME RestoreInv, CopyAside PROVE RestoreInv'
  OBVIOUS
<1>1. PICK k \in CopyId : /\ ~Made(k) /\ \A i \in 1..(k - 1) : Made(i)
                          /\ aside' = k /\ copy' = [copy EXCEPT ![k] = Other("partial")]
  BY DEF CopyAside
<1>2. \A i \in CopyId : IF i < k THEN Made(i) ELSE ~Made(i)
  BY <1>1, Ids DEF RestoreInv, InOrder, CopyId
<1>3. /\ copy' \in [CopyId -> Content]
      /\ \A i \in CopyId : copy'[i] = IF i = k THEN Other("partial") ELSE copy[i]
  BY <1>1 DEF RestoreInv, RestoreTypeOK, Content, Kind, Other
<1>4. copy[k].has = {}
  BY <1>1 DEF RestoreInv, OnlyWhole, Made
<1>5. RestoreTypeOK'
  BY <1>1, <1>3 DEF RestoreInv, RestoreTypeOK, CopyAside, Step, Place, owned
<1>6. NothingLost'
  BY <1>3, <1>4 DEF RestoreInv, NothingLost, Kept, CopyAside, owned
<1>7. InOrder' /\ Newest(k)' /\ OnlyWhole'
  BY <1>2, <1>3, Ids DEF RestoreInv, InOrder, OnlyWhole, Newest, Made, Other, CopyAside, owned
<1>8. Progressed'
  BY <1>1, <1>3, <1>7 DEF RestoreInv, Progressed, Settled, CopyAside, Step, owned
<1>9. Repairable'
  BY DEF RestoreInv, Progressed, Repairable, CopyAside, Step
<1> QED BY <1>5, <1>6, <1>7, <1>8, <1>9 DEF RestoreInv

LEMMA FinishAsideKeeps == RestoreInv /\ FinishAside => RestoreInv'
BY Ids DEF RestoreInv, RestoreTypeOK, NothingLost, Kept, InOrder, OnlyWhole, Progressed, Repairable, Settled,
  Whole, Made, Newest, Repairs, Step, Mishap, Well, Content, Kind, Other, owned, Place, FinishAside

LEMMA AsideFailsKeeps == RestoreInv /\ AsideFails => RestoreInv'
<1>1. ASSUME RestoreInv, Rejects("aside") \/ Rejects("aside_copy") \/ Rejects("journal"),
             UNCHANGED <<live, wal, journal, copy, aside, owned>>, Mishap
      PROVE  RestoreInv'
  BY <1>1, Ids, MishapType DEF RestoreInv, RestoreTypeOK, NothingLost, Kept, InOrder, OnlyWhole, Progressed, Repairable, Settled,
      Whole, Made, Newest, Repairs, Step, Content, Kind, Other, owned, Place, Rejects
<1>2. ASSUME RestoreInv, Rejects("aside_copy") \/ Rejects("journal"),
             UNCHANGED <<live, wal, journal, aside, owned>>, Mishap,
             copy' = [copy EXCEPT ![aside] = Other("none")]
      PROVE  RestoreInv'
  <2>1. /\ aside \in CopyId /\ Newest(aside) /\ journal = NoJournal
        /\ live.kind \in {"whole", "empty"} /\ wal = {} /\ Settled
        /\ restoring' = "open"
    BY <1>2 DEF RestoreInv, Progressed, Rejects, Step
  <2>2. /\ copy' \in [CopyId -> Content]
        /\ \A i \in CopyId : copy'[i] = IF i = aside THEN Other("none") ELSE copy[i]
    BY <1>2, <2>1 DEF RestoreInv, RestoreTypeOK, Content, Kind, Other
  <2>3. copy[aside].has = {} \/ copy[aside].has = live.has
    BY <1>2 DEF RestoreInv, Progressed, Rejects, Step, Other
  <2>4. RestoreTypeOK'
    BY <1>2, <2>1, <2>2, MishapType DEF RestoreInv, RestoreTypeOK, Rejects, Step, Place, owned
  <2>5. NothingLost'
    BY <1>2, <2>1, <2>2, <2>3 DEF RestoreInv, NothingLost, Kept, owned
  <2>6. InOrder' /\ OnlyWhole'
    BY <1>2, <2>1, <2>2, Ids DEF RestoreInv, InOrder, OnlyWhole, Newest, Made, Other, owned
  <2>7. Progressed' /\ Repairable'
    BY <1>2, <2>1 DEF RestoreInv, Progressed, Repairable, Settled, Rejects, owned
  <2> QED BY <2>4, <2>5, <2>6, <2>7 DEF RestoreInv
<1> QED BY <1>1, <1>2 DEF AsideFails

LEMMA WriteJournalKeeps == RestoreInv /\ WriteJournal => RestoreInv'
<1>1. ASSUME RestoreInv, WriteJournal, journal' = aside, Well PROVE RestoreInv'
  BY <1>1, Ids DEF RestoreInv, RestoreTypeOK, NothingLost, Kept, InOrder, OnlyWhole, Progressed, Repairable, Settled,
      Whole, Made, Newest, Repairs, Step, Content, Kind, Other, owned, Place, Well, WriteJournal
<1>2. ASSUME RestoreInv, WriteJournal, journal' = Garbled, Mishap PROVE RestoreInv'
  BY <1>2, Ids, MishapType DEF RestoreInv, RestoreTypeOK, NothingLost, Kept, InOrder, OnlyWhole, Progressed, Repairable, Settled,
      Whole, Made, Newest, Repairs, Step, Content, Kind, Other, owned, Place, WriteJournal
<1> QED BY <1>1, <1>2 DEF WriteJournal

LEMMA SwapInKeeps == RestoreInv /\ SwapIn => RestoreInv'
BY Ids DEF RestoreInv, RestoreTypeOK, NothingLost, Kept, InOrder, OnlyWhole, Progressed, Repairable, Settled,
  Whole, Made, Newest, Repairs, Step, Mishap, Well, Content, Kind, Other, owned, Place, SwapIn

LEMMA SwapCheckedKeeps == RestoreInv /\ SwapChecked => RestoreInv'
BY Ids DEF RestoreInv, RestoreTypeOK, NothingLost, Kept, InOrder, OnlyWhole, Progressed, Repairable, Settled,
  Whole, Made, Newest, Repairs, Step, Mishap, Well, Content, Kind, Other, owned, Place, SwapChecked, PassesIntegrity

LEMMA RollBackKeeps == RestoreInv /\ RollBack => RestoreInv'
<1>1. ASSUME RestoreInv, RollBack, Step("swap", "rollback_copy"), Mishap,
             staged' = "none" \/ staged' = staged, wal' = {}
      PROVE  RestoreInv'
  BY <1>1, Ids, MishapType DEF RestoreInv, RestoreTypeOK, NothingLost, Kept, InOrder, OnlyWhole, Progressed, Repairable, Settled,
      Whole, Made, Newest, Repairs, Step, Content, Kind, Other, owned, Place, RollBack
<1>2. ASSUME RestoreInv, RollBack, Step("check", "rollback_copy"), ~PassesIntegrity(live),
             UNCHANGED <<staged, wal, mishaps>>
      PROVE  RestoreInv'
  BY <1>2, Ids DEF RestoreInv, RestoreTypeOK, NothingLost, Kept, InOrder, OnlyWhole, Progressed, Repairable, Settled,
      Whole, Made, Newest, Repairs, Step, Content, Kind, Other, owned, Place, RollBack, PassesIntegrity
<1> QED BY <1>1, <1>2 DEF RollBack

LEMMA RollbackCopiesKeeps == RestoreInv /\ RollbackCopies => RestoreInv'
<1>1. ASSUME RestoreInv, FillsLive("rollback_copy", "rollback_fill") PROVE RestoreInv'
  BY <1>1, Ids DEF RestoreInv, RestoreTypeOK, NothingLost, Kept, InOrder, OnlyWhole, Progressed, Repairable, Settled,
      Whole, Made, Newest, Repairs, Step, Content, Kind, Other, owned, Place, FillsLive
<1>2. ASSUME RestoreInv, FinishesLive("rollback_fill", "swapped") PROVE RestoreInv'
  BY <1>2, Ids DEF RestoreInv, RestoreTypeOK, NothingLost, Kept, InOrder, OnlyWhole, Progressed, Repairable, Settled,
      Whole, Made, Newest, Repairs, Step, Content, Kind, Other, owned, Place, FinishesLive
<1> QED BY <1>1, <1>2 DEF RollbackCopies

LEMMA SwapEndsKeeps == RestoreInv /\ SwapEnds => RestoreInv'
BY Ids DEF RestoreInv, RestoreTypeOK, NothingLost, Kept, InOrder, OnlyWhole, Progressed, Repairable, Settled,
  Whole, Made, Newest, Repairs, Step, Mishap, Well, Content, Kind, Other, owned, Place, SwapEnds, DropsJournal

LEMMA StartFailsKeeps == RestoreInv /\ StartFails => RestoreInv'
<1>1. ASSUME RestoreInv, NEW p, Abort(p) PROVE RestoreInv'
  BY <1>1, Ids, MishapType DEF RestoreInv, RestoreTypeOK, NothingLost, Kept, InOrder, OnlyWhole, Progressed, Repairable, Settled,
      Whole, Made, Newest, Repairs, Step, Content, Kind, Other, owned, Place, Abort
<1> QED BY <1>1 DEF StartFails

LEMMA OpenPoolKeeps == RestoreInv /\ OpenPool => RestoreInv'
BY Ids DEF RestoreInv, RestoreTypeOK, NothingLost, Kept, InOrder, OnlyWhole, Progressed, Repairable, Settled,
  Whole, Made, Newest, Repairs, Step, Mishap, Well, Content, Kind, Other, owned, Place, OpenPool, Database

LEMMA InvStep == RestoreInv /\ [RestoreNext]_restoreVars => RestoreInv'
<1> SUFFICES ASSUME RestoreInv, [RestoreNext]_restoreVars PROVE RestoreInv'
  OBVIOUS
<1>1. CASE UNCHANGED restoreVars
  BY <1>1 DEF restoreVars, owned, RestoreInv, RestoreTypeOK, NothingLost, Kept, InOrder, OnlyWhole,
    Progressed, Repairable, Settled, Whole, Made, Newest, Repairs
<1>2. CASE StartProceeds
  BY <1>2, StartKeeps, RecoverNothingKeeps, RecoverSwappedKeeps, RecoverByCopyKeeps,
    RecoverCopiesKeeps, RecoverEndsKeeps, NothingStagedKeeps, VerifyStagedKeeps,
    RejectStagedKeeps, CheckpointKeeps, CopyAsideKeeps, FinishAsideKeeps, WriteJournalKeeps,
    SwapInKeeps, SwapCheckedKeeps, RollBackKeeps, RollbackCopiesKeeps, SwapEndsKeeps,
    OpenPoolKeeps
    DEF StartProceeds
<1>3. CASE RequestRestore \/ StagedIsDamaged \/ UserWrites \/ Exit \/ Crashes
  BY <1>3, RequestRestoreKeeps, StagedIsDamagedKeeps, UserWritesKeeps, ExitKeeps, CrashesKeeps
<1>4. CASE CheckpointFails \/ AsideFails \/ StartFails
  BY <1>4, CheckpointFailsKeeps, AsideFailsKeeps, StartFailsKeeps
<1> QED BY <1>1, <1>2, <1>3, <1>4 DEF RestoreNext

LEMMA InvHolds == RestoreSpec => []RestoreInv
BY InitInv, InvStep, PTL DEF RestoreSpec

-----------------------------------------------------------------------------
(* What follows from the invariant. *)

\* Every file and the position of the start keep their types.
THEOREM RestoreTypesHold == RestoreSpec => []RestoreTypeOK
<1>1. RestoreInv => RestoreTypeOK
  BY DEF RestoreInv
<1> QED BY <1>1, InvHolds, PTL

\* All the user has written is in the database or in a pre-restore copy, at every
\* moment of every start (apply_staged_restore_with).
THEOREM NothingLostHolds == RestoreSpec => []NothingLost
<1>1. RestoreInv => NothingLost
  BY DEF RestoreInv
<1> QED BY <1>1, InvHolds, PTL

\* The program opens a whole database: the user's, a verified candidate, or an
\* empty file (recover_from_crash_journal).
THEOREM OpensWholeHolds == RestoreSpec => []OpensWhole
<1>1. RestoreInv => OpensWhole
  BY DEF RestoreInv, OnlyWhole, Progressed, Settled, OpensWhole
<1> QED BY <1>1, InvHolds, PTL

\* A database that is not whole or not checked is repairable from the journal
\* (recover_from_crash_journal, newest_pre_restore_backup).
THEOREM SwapIsJournaledHolds == RestoreSpec => []SwapIsJournaled
<1>1. RestoreInv => SwapIsJournaled
  BY DEF RestoreInv, Progressed, Repairable, Settled, SwapIsJournaled, Whole
<1> QED BY <1>1, InvHolds, PTL

\* In a restore cut anywhere nothing is lost, what is not whole is repairable and
\* what is opened is whole (apply_staged_restore_with, recover_from_crash_journal).
THEOREM RestoreIsSafeHolds == RestoreSpec => []RestoreIsSafe
BY NothingLostHolds, OpensWholeHolds, SwapIsJournaledHolds, PTL DEF RestoreIsSafe

-----------------------------------------------------------------------------
(* The capture of a document (DocumentCapture).                            *)

\* The caller that holds the lock is the one inside.
OneInside == \A c \in Caller : capture[c].at \in Locked <=> lock = c

Pathless == row.status \in {"absent", "pending", "metadata_only"}
RowShape ==
  /\ Pathless => row.path = "none"
  /\ row.status = "fetched" => row.path \in Ext

\* What the caller inside knows of row and file.  Outside the lock a row is
\* only removed and registered again, which leaves it without a file, and a
\* file only damaged, which makes it nobody's.
Knows(c) ==
  LET v == capture[c] IN
  /\ v.at \in {"inspect", "reset", "heal"} => (v.seen = row \/ (Pathless /\ v.meddled))
  /\ v.at = "inspect" => v.seen.status # "absent" /\ (v.seen.status = "fetched" => v.seen.path \in Ext)
  /\ v.at = "reset" => v.seen.status = "fetched" /\ ~Matches(v.seen)
  /\ v.at = "heal" =>
       /\ v.seen.status = "failed" /\ v.seen.path \in Ext /\ v.seen.hash \in Bytes
       /\ Matches(v.seen) \/ (touched[v.seen.path] /\ v.meddled)
  /\ v.at \in {"fetch", "fail", "publish", "residue", "again"} =>
       row.status # "fetched" /\ ~Matches(row)
  /\ v.at = "record" => row.status # "fetched"
  /\ v.at \in {"publish", "residue", "again", "record", "stamp"} => v.got \in Bytes /\ v.ext \in Ext
  /\ v.at = "record" => file[v.ext] = v.got \/ (touched[v.ext] /\ v.meddled)
  /\ v.at = "stamp" =>
       \/ row = [status |-> "fetched", path |-> v.ext, hash |-> v.got]
            /\ (file[v.ext] = v.got \/ v.meddled)
       \/ Pathless /\ v.meddled

\* The container of a stored file, and of one a failed row may be healed to.
ContainerFits ==
  /\ ContainerIsTrue
  /\ row.status = "failed" /\ row.path \in Ext /\ row.hash \in Bytes /\ ~owed
       => container \in {"none", row.hash}

CaptureInv ==
  /\ CaptureTypeOK /\ OneInside /\ RowShape /\ RowIsTrue /\ ContainerFits
  /\ \A c \in Caller : Knows(c)

-----------------------------------------------------------------------------
(* The invariant holds at first, and every step preserves it. *)

LEMMA CaptureInitInv == CaptureInit => CaptureInv
<1> SUFFICES ASSUME CaptureInit PROVE CaptureInv
  OBVIOUS
<1>1. \A c \in Caller : capture[c] = NoCall
  BY DEF CaptureInit
<1>2. NoCall \in CallOf
  BY DEF NoCall, CallOf, NoRow, RowOf, Status, Locked
<1>3. CaptureTypeOK
  BY <1>2 DEF CaptureInit, CaptureTypeOK
<1>4. OneInside
  BY <1>1, CaptureAssumption DEF CaptureInit, OneInside, NoCall, Locked
<1>5. RowShape
  BY CaptureAssumption DEF CaptureInit, RowShape, Pathless, NoRow
<1>6. RowIsTrue /\ ContainerFits
  BY CaptureAssumption DEF CaptureInit, RowIsTrue, ContainerFits, ContainerIsTrue, Matches, RowOf
<1>7. ASSUME NEW c \in Caller PROVE Knows(c)
  <2>1. capture[c].at = "idle"
    BY <1>1 DEF NoCall
  <2> QED BY <2>1 DEF Knows
<1> QED BY <1>3, <1>4, <1>5, <1>6, <1>7 DEF CaptureInv

\* Who is not inside claims nothing.
LEMMA KnowsOutside == ASSUME NEW d \in Caller, capture[d].at \notin Locked PROVE Knows(d)
BY DEF Knows, Locked

\* A step of the caller inside, which stays there or leaves.
LEMMA InsideStep ==
  ASSUME OneInside, NEW c \in Caller, capture[c].at \in Locked,
         \A d \in Caller : d # c => capture'[d] = capture[d],
         (capture'[c].at \in Locked /\ lock' = lock) \/ (capture'[c].at \notin Locked /\ lock' = "free"),
         Knows(c)'
  PROVE  OneInside' /\ \A d \in Caller : Knows(d)'
<1>1. lock = c
  BY DEF OneInside
<1>2. ASSUME NEW d \in Caller, d # c PROVE capture'[d].at \notin Locked
  BY <1>1, <1>2 DEF OneInside
<1>3. OneInside'
  BY <1>1, <1>2, CaptureAssumption DEF OneInside
<1>4. ASSUME NEW d \in Caller, d # c PROVE Knows(d)'
  BY <1>2, <1>4 DEF Knows, Locked
<1> QED BY <1>3, <1>4

\* What a step does to the call of c alone.
LEMMA GotoIs ==
  ASSUME CaptureTypeOK, NEW c \in Caller, NEW p \in Locked \cup {"idle", "waiting", "ok"}, Goto(c, p)
  PROVE  /\ capture' \in [Caller -> CallOf] /\ lock' = lock
         /\ \A d \in Caller : d # c => capture'[d] = capture[d]
         /\ capture'[c] = [capture[c] EXCEPT !.at = p]
         /\ capture'[c].at = p /\ capture'[c].seen = capture[c].seen /\ capture'[c].got = capture[c].got
         /\ capture'[c].ext = capture[c].ext /\ capture'[c].meddled = capture[c].meddled
BY DEF Goto, CaptureTypeOK, CallOf

LEMMA EndsIs ==
  ASSUME CaptureTypeOK, NEW c \in Caller, Ends(c)
  PROVE  /\ capture' \in [Caller -> CallOf] /\ lock' = "free"
         /\ \A d \in Caller : d # c => capture'[d] = capture[d]
         /\ capture'[c].at = "idle"
BY DEF Ends, CaptureTypeOK, CallOf, NoCall, NoRow, RowOf, Status

LEMMA AnswersIs ==
  ASSUME CaptureTypeOK, NEW c \in Caller, NEW e \in Ext, Answers(c, e)
  PROVE  /\ capture' \in [Caller -> CallOf] /\ lock' = "free"
         /\ \A d \in Caller : d # c => capture'[d] = capture[d]
         /\ capture'[c].at = "ok" /\ capture'[c].ext = e /\ capture'[c].meddled = capture[c].meddled
BY DEF Answers, CaptureTypeOK, CallOf, NoCall, NoRow, RowOf, Status

\* The stored part of the invariant speaks of row, container and file only.
Stored == CaptureTypeOK /\ RowShape /\ RowIsTrue /\ ContainerFits

LEMMA StoredFrame ==
  ASSUME Stored, UNCHANGED <<row, container, file, touched, owed>>, started' \in BOOLEAN,
         lock' \in Caller \cup {"free"}, capture' \in [Caller -> CallOf]
  PROVE  Stored'
BY DEF Stored, CaptureTypeOK, RowShape, Pathless, RowIsTrue, ContainerFits, ContainerIsTrue

LEMMA InvIsStored == CaptureInv <=> Stored /\ OneInside /\ \A c \in Caller : Knows(c)
BY DEF CaptureInv, Stored

-----------------------------------------------------------------------------

LEMMA TakeLockKeeps == ASSUME CaptureInv, NEW c \in Caller, TakeLock(c) PROVE CaptureInv'
<1> USE InvIsStored
<1>1. /\ capture' \in [Caller -> CallOf] /\ \A d \in Caller : d # c => capture'[d] = capture[d]
      /\ capture'[c].at = "locked" /\ lock' = c /\ lock = "free"
  BY DEF TakeLock, CallAt, Stored, CaptureTypeOK, CallOf, Locked
<1>2. \A d \in Caller : capture[d].at \notin Locked
  BY <1>1, CaptureAssumption DEF OneInside
<1>3. OneInside'
  BY <1>1, <1>2 DEF OneInside, Locked
<1>4. ASSUME NEW d \in Caller PROVE Knows(d)'
  <2>1. capture'[d].at \notin Locked \/ capture'[d].at = "locked"
    BY <1>1, <1>2
  <2> QED BY <2>1 DEF Knows, Locked
<1>5. Stored'
  BY <1>1, StoredFrame DEF TakeLock, Unnoticed, Stored, CaptureTypeOK
<1> QED BY <1>3, <1>4, <1>5 DEF CaptureInv, Stored

LEMMA BeginKeeps == ASSUME CaptureInv, NEW c \in Caller, Begin(c) PROVE CaptureInv'
<1> USE InvIsStored
<1>1. /\ capture' \in [Caller -> CallOf] /\ lock' = lock
      /\ \A d \in Caller : d # c => capture'[d] = capture[d]
      /\ capture'[c].at = "waiting"
  BY GotoIs DEF Begin, Stored
<1>2. row' = row \/ (row.status = "absent" /\ row' = Registered("pending"))
  BY DEF Begin
<1>3. OneInside'
  BY <1>1 DEF OneInside, Begin, CallAt, Locked
<1>4. Stored'
  BY <1>1, <1>2, CaptureAssumption DEF Begin, Unnoticed, Stored, CaptureTypeOK, RowShape,
     Pathless, RowIsTrue, ContainerFits, ContainerIsTrue, Registered, NoRow, RowOf, Status
<1>5. ASSUME NEW d \in Caller PROVE Knows(d)'
  <2>1. CASE d = c
    BY <1>1, <2>1 DEF Knows
  <2>2. CASE d # c
    <3>1. Knows(d) /\ capture'[d] = capture[d] /\ file' = file /\ touched' = touched
      BY <1>1, <2>2 DEF Begin, Unnoticed
    <3>2. CASE row' = row
      BY <3>1, <3>2 DEF Knows, Matches, Pathless
    <3>3. CASE row.status = "absent" /\ row' = Registered("pending")
      <4>1. row'.status = "pending" /\ row'.path = "none" /\ row # row' /\ row'.path \notin Ext
        BY <3>3, CaptureAssumption DEF Registered, NoRow
      <4> QED BY <3>1, <3>3, <4>1 DEF Knows, Matches, Pathless
    <3> QED BY <1>2, <3>2, <3>3
  <2> QED BY <2>1, <2>2
<1> QED BY <1>3, <1>4, <1>5 DEF CaptureInv, Stored

\* A step of the caller inside that stores nothing.
LEMMA QuietStep ==
  ASSUME CaptureInv, NEW c \in Caller, capture[c].at \in Locked,
         UNCHANGED <<row, container, file>>, Unnoticed,
         capture' \in [Caller -> CallOf],
         \A d \in Caller : d # c => capture'[d] = capture[d],
         (capture'[c].at \in Locked /\ lock' = lock) \/ (capture'[c].at \notin Locked /\ lock' = "free"),
         Knows(c)'
  PROVE  CaptureInv'
<1>1. OneInside' /\ \A d \in Caller : Knows(d)'
  BY InsideStep, InvIsStored
<1>2. Stored
  BY InvIsStored
<1>3. Stored'
  <2>1. lock' \in Caller \cup {"free"} /\ started' \in BOOLEAN
    BY <1>2 DEF Stored, CaptureTypeOK, Unnoticed
  <2> QED BY <1>2, <2>1, StoredFrame DEF Unnoticed
<1> QED BY <1>1, <1>3 DEF CaptureInv, Stored

LEMMA FailsKeeps == ASSUME CaptureInv, NEW c \in Caller, Fails(c) PROVE CaptureInv'
<1>1. /\ capture' \in [Caller -> CallOf] /\ lock' = "free"
      /\ \A d \in Caller : d # c => capture'[d] = capture[d]
      /\ capture'[c].at = "idle"
  BY EndsIs DEF Fails, CaptureInv
<1>2. Knows(c)' /\ capture'[c].at \notin Locked
  BY <1>1 DEF Knows, Locked
<1> QED BY <1>1, <1>2, QuietStep DEF Fails

LEMMA ReadRowKeeps == ASSUME CaptureInv, NEW c \in Caller, ReadRow(c) PROVE CaptureInv'
<1>1. /\ capture' \in [Caller -> CallOf] /\ lock' = lock /\ capture[c].at \in Locked
      /\ \A d \in Caller : d # c => capture'[d] = capture[d]
      /\ capture'[c].at = "inspect" /\ capture'[c].seen = row
  <2>1. capture \in [Caller -> CallOf] /\ row \in RowOf /\ "inspect" \in Locked
    BY DEF CaptureInv, CaptureTypeOK, Locked
  <2>2. capture' = [capture EXCEPT ![c] = [capture[c] EXCEPT !.at = "inspect", !.seen = row]]
    BY <2>1 DEF ReadRow, CallOf
  <2>3. [capture[c] EXCEPT !.at = "inspect", !.seen = row] \in CallOf
    BY <2>1 DEF CallOf
  <2> QED BY <2>1, <2>2, <2>3 DEF ReadRow, CallAt, Locked, CallOf
<1>2. Knows(c)' /\ capture'[c].at \in Locked
  <2>1. row' = row /\ row.status # "absent" /\ (row.status = "fetched" => row.path \in Ext)
    BY DEF ReadRow, CaptureInv, RowShape
  <2> QED BY <1>1, <2>1 DEF Knows, Locked
<1> QED BY <1>1, <1>2, QuietStep DEF ReadRow

LEMMA InspectKeeps == ASSUME CaptureInv, NEW c \in Caller, Inspect(c) PROVE CaptureInv'
<1> DEFINE seen == capture[c].seen
<1>1. /\ CaptureTypeOK /\ Knows(c) /\ capture[c].at = "inspect" /\ capture[c].at \in Locked
      /\ UNCHANGED <<row, container, file>> /\ Unnoticed
  BY DEF Inspect, CallAt, CaptureInv, Locked
<1>2. /\ seen = row \/ (Pathless /\ capture[c].meddled)
      /\ seen.status # "absent" /\ (seen.status = "fetched" => seen.path \in Ext)
      /\ seen \in RowOf
  BY <1>1 DEF Knows, CaptureTypeOK, CallOf
<1>3. row.path \notin Ext \/ ~Pathless
  BY CaptureAssumption DEF CaptureInv, RowShape
<1>4. CASE seen.status = "fetched" /\ Matches(seen) /\ Answers(c, seen.path)
  <2>1. /\ capture' \in [Caller -> CallOf] /\ lock' = "free"
        /\ \A d \in Caller : d # c => capture'[d] = capture[d]
        /\ capture'[c].at = "ok"
    BY <1>1, <1>2, <1>4, AnswersIs
  <2>2. Knows(c)' /\ capture'[c].at \notin Locked
    BY <2>1 DEF Knows, Locked
  <2> QED BY <1>1, <2>1, <2>2, QuietStep
<1>5. ASSUME NEW p \in {"reset", "heal", "fetch"}, Goto(c, p),
             p = "reset" => seen.status = "fetched" /\ ~Matches(seen),
             p = "heal" => seen.status = "failed" /\ Matches(seen),
             p = "fetch" => seen.status # "fetched" /\ (seen.status = "failed" => ~Matches(seen))
      PROVE  CaptureInv'
  <2>1. /\ capture' \in [Caller -> CallOf] /\ lock' = lock
        /\ \A d \in Caller : d # c => capture'[d] = capture[d]
        /\ capture'[c].at = p /\ capture'[c].seen = seen /\ capture'[c].meddled = capture[c].meddled
    BY <1>1, <1>5, GotoIs DEF Locked
  <2>2. capture'[c].at \in Locked
    BY <2>1 DEF Locked
  <2>4. Knows(c)'
    <3>1. CASE p = "reset"
      BY <1>1, <1>2, <1>5, <2>1, <3>1 DEF Knows, Pathless, Matches
    <3>2. CASE p = "heal"
      BY <1>1, <1>2, <1>5, <2>1, <3>2 DEF Knows, Pathless, Matches
    <3>3. CASE p = "fetch"
      <4>1. row.status # "fetched" /\ ~Matches(row)
        BY <1>2, <1>3, <1>5, <3>3 DEF Matches, Pathless, RowOf, Status
      <4> QED BY <1>1, <2>1, <3>3, <4>1 DEF Knows, Matches
    <3> QED BY <3>1, <3>2, <3>3
  <2> QED BY <1>1, <2>1, <2>2, <2>4, QuietStep
<1> QED BY <1>4, <1>5 DEF Inspect

LEMMA ResetDeclinedKeeps == ASSUME CaptureInv, NEW c \in Caller, ResetDeclined(c) PROVE CaptureInv'
<1>1. /\ CaptureTypeOK /\ Knows(c) /\ capture[c].at = "reset" /\ capture[c].at \in Locked
      /\ row # capture[c].seen /\ row.status # "absent"
      /\ UNCHANGED <<row, container, file>> /\ Unnoticed
  BY DEF ResetDeclined, CallAt, CaptureInv, Locked
<1>2. Pathless /\ capture[c].meddled /\ row.path = "none" /\ row.path \notin Ext
  BY <1>1, CaptureAssumption DEF Knows, CaptureInv, RowShape
<1>3. CASE ~capture[c].retried
  <2>1. capture \in [Caller -> CallOf] /\ row \in RowOf /\ "inspect" \in Locked
    BY <1>1 DEF CaptureTypeOK, Locked
  <2>2. capture' = [capture EXCEPT ![c] = [capture[c] EXCEPT !.at = "inspect", !.seen = row, !.retried = TRUE]]
    BY <1>3, <2>1 DEF ResetDeclined, CallOf
  <2>3. [capture[c] EXCEPT !.at = "inspect", !.seen = row, !.retried = TRUE] \in CallOf
    BY <2>1 DEF CallOf
  <2>4. /\ capture' \in [Caller -> CallOf] /\ lock' = lock
        /\ \A d \in Caller : d # c => capture'[d] = capture[d]
        /\ capture'[c].at = "inspect" /\ capture'[c].seen = row
    BY <1>3, <2>1, <2>2, <2>3 DEF ResetDeclined, CallOf
  <2>5. Knows(c)' /\ capture'[c].at \in Locked
    BY <1>1, <1>2, <2>4 DEF Knows, Locked, Pathless
  <2> QED BY <1>1, <2>4, <2>5, QuietStep
<1>4. CASE capture[c].retried
  <2>1. Goto(c, "fetch")
    BY <1>2, <1>4 DEF ResetDeclined, Pathless
  <2>2. /\ capture' \in [Caller -> CallOf] /\ lock' = lock
        /\ \A d \in Caller : d # c => capture'[d] = capture[d]
        /\ capture'[c].at = "fetch"
    BY <1>1, <2>1, GotoIs DEF Locked
  <2>3. Knows(c)' /\ capture'[c].at \in Locked
    BY <1>1, <1>2, <2>2 DEF Knows, Locked, Pathless, Matches
  <2> QED BY <1>1, <2>2, <2>3, QuietStep
<1> QED BY <1>3, <1>4 DEF ResetDeclined

LEMMA FetchKeeps == ASSUME CaptureInv, NEW c \in Caller, Fetch(c) PROVE CaptureInv'
<1>1. /\ CaptureTypeOK /\ Knows(c) /\ capture[c].at = "fetch" /\ capture[c].at \in Locked
      /\ UNCHANGED <<row, container, file>> /\ Unnoticed
  BY DEF Fetch, CallAt, CaptureInv, Locked
<1>2. CASE Goto(c, "fail")
  <2>1. /\ capture' \in [Caller -> CallOf] /\ lock' = lock
        /\ \A d \in Caller : d # c => capture'[d] = capture[d]
        /\ capture'[c].at = "fail"
    BY <1>1, <1>2, GotoIs DEF Locked
  <2>2. Knows(c)' /\ capture'[c].at \in Locked
    BY <1>1, <2>1 DEF Knows, Locked, Matches
  <2> QED BY <1>1, <2>1, <2>2, QuietStep
<1>3. ASSUME NEW b \in Bytes, NEW e \in Ext, UNCHANGED lock,
             capture' = [capture EXCEPT ![c].at = "publish", ![c].got = b, ![c].ext = e]
      PROVE  CaptureInv'
  <2>1. capture \in [Caller -> CallOf] /\ "publish" \in Locked
    BY <1>1 DEF CaptureTypeOK, Locked
  <2>2. capture' = [capture EXCEPT ![c] = [capture[c] EXCEPT !.at = "publish", !.got = b, !.ext = e]]
    BY <1>3, <2>1 DEF CallOf
  <2>3. [capture[c] EXCEPT !.at = "publish", !.got = b, !.ext = e] \in CallOf
    BY <2>1 DEF CallOf
  <2>4. /\ capture' \in [Caller -> CallOf]
        /\ \A d \in Caller : d # c => capture'[d] = capture[d]
        /\ capture'[c].at = "publish" /\ capture'[c].got = b /\ capture'[c].ext = e
    BY <2>1, <2>2, <2>3 DEF CallOf
  <2>5. Knows(c)' /\ capture'[c].at \in Locked
    BY <1>1, <2>4 DEF Knows, Locked, Matches
  <2> QED BY <1>1, <1>3, <2>4, <2>5, QuietStep
<1> QED BY <1>2, <1>3 DEF Fetch

LEMMA FindObstacleKeeps == ASSUME CaptureInv, NEW c \in Caller, FindObstacle(c) PROVE CaptureInv'
<1>1. /\ CaptureTypeOK /\ Knows(c) /\ capture[c].at = "publish" /\ capture[c].at \in Locked
      /\ UNCHANGED <<row, container, file>> /\ Unnoticed
  BY DEF FindObstacle, CallAt, CaptureInv, Locked
<1>2. Goto(c, "residue")
  BY <1>1 DEF FindObstacle, Knows
<1>3. /\ capture' \in [Caller -> CallOf] /\ lock' = lock
      /\ \A d \in Caller : d # c => capture'[d] = capture[d]
      /\ capture'[c].at = "residue" /\ capture'[c].got = capture[c].got /\ capture'[c].ext = capture[c].ext
  BY <1>1, <1>2, GotoIs DEF Locked
<1>4. Knows(c)' /\ capture'[c].at \in Locked
  BY <1>1, <1>3 DEF Knows, Locked, Matches
<1> QED BY <1>1, <1>3, <1>4, QuietStep

LEMMA LeaveKeeps == ASSUME CaptureInv, NEW c \in Caller, Leave(c) PROVE CaptureInv'
<1>1. /\ CaptureTypeOK /\ OneInside /\ capture[c].at = "ok" /\ capture[c].at \notin Locked
      /\ \A d \in Caller : Knows(d)
      /\ UNCHANGED <<row, container, file, lock>> /\ Unnoticed
  BY DEF Leave, CallAt, CaptureInv, Locked
<1>2. /\ capture' \in [Caller -> CallOf]
      /\ \A d \in Caller : d # c => capture'[d] = capture[d]
      /\ capture'[c].at = "idle" /\ capture'[c].at \notin Locked
  <2>1. NoCall \in CallOf /\ NoCall.at = "idle"
    BY DEF NoCall, CallOf, NoRow, RowOf, Status
  <2> QED BY <1>1, <2>1 DEF Leave, CaptureTypeOK, Locked
<1>3. OneInside'
  BY <1>1, <1>2 DEF OneInside
<1>4. ASSUME NEW d \in Caller PROVE Knows(d)'
  BY <1>1, <1>2 DEF Knows, Matches, Pathless, Unnoticed
<1>5. Stored'
  BY <1>1, <1>2, InvIsStored, StoredFrame DEF Unnoticed, Stored, CaptureTypeOK
<1> QED BY <1>3, <1>4, <1>5 DEF CaptureInv, Stored

-----------------------------------------------------------------------------
(* Steps that store. *)

\* A step of the caller inside: what it stores and what it then knows.
LEMMA StoringStep ==
  ASSUME CaptureInv, NEW c \in Caller, capture[c].at \in Locked,
         \A d \in Caller : d # c => capture'[d] = capture[d],
         (capture'[c].at \in Locked /\ lock' = lock) \/ (capture'[c].at \notin Locked /\ lock' = "free"),
         Knows(c)', Stored'
  PROVE  CaptureInv'
<1>1. OneInside' /\ \A d \in Caller : Knows(d)'
  BY InsideStep, InvIsStored
<1> QED BY <1>1 DEF CaptureInv, Stored

LEMMA ResetKeeps == ASSUME CaptureInv, NEW c \in Caller, Reset(c) PROVE CaptureInv'
<1>1. /\ CaptureTypeOK /\ capture[c].at \in Locked
      /\ row' = [row EXCEPT !.status = "pending", !.path = "none"]
      /\ UNCHANGED <<container, file>> /\ Unnoticed /\ Goto(c, "fetch")
  BY DEF Reset, CallAt, CaptureInv, Locked
<1>2. /\ capture' \in [Caller -> CallOf] /\ lock' = lock
      /\ \A d \in Caller : d # c => capture'[d] = capture[d]
      /\ capture'[c].at = "fetch" /\ capture'[c].at \in Locked
  BY <1>1, GotoIs DEF Locked
<1>3. row' \in RowOf /\ row'.status = "pending" /\ row'.path = "none" /\ row'.path \notin Ext
  BY <1>1, CaptureAssumption DEF CaptureTypeOK, RowOf, Status
<1>4. Knows(c)'
  BY <1>2, <1>3 DEF Knows, Matches
<1>5. Stored'
  BY <1>1, <1>2, <1>3 DEF Stored, CaptureTypeOK, RowShape, Pathless, RowIsTrue,
     ContainerFits, ContainerIsTrue, Unnoticed
<1> QED BY <1>1, <1>2, <1>4, <1>5, StoringStep

LEMMA HealKeeps == ASSUME CaptureInv, NEW c \in Caller, Heal(c) PROVE CaptureInv'
<1> DEFINE seen == capture[c].seen
<1>1. /\ CaptureTypeOK /\ RowShape /\ RowIsTrue /\ ContainerFits
      /\ Knows(c) /\ capture[c].at = "heal" /\ capture[c].at \in Locked
      /\ UNCHANGED <<container, file>> /\ Unnoticed
  BY DEF Heal, CallAt, CaptureInv, Locked
<1>2. /\ seen = row \/ (Pathless /\ capture[c].meddled)
      /\ seen.status = "failed" /\ seen.path \in Ext /\ seen.hash \in Bytes
      /\ Matches(seen) \/ touched[seen.path]
      /\ seen \in RowOf
  BY <1>1 DEF Knows, CaptureTypeOK, CallOf
<1>3. CASE row.status = "failed" /\ row.hash = seen.hash
  <2>1. row = seen
    BY <1>2, <1>3 DEF Pathless
  <2>2. row' = [seen EXCEPT !.status = "fetched"] /\ Answers(c, seen.path)
    BY <1>2, <1>3 DEF Heal, RowOf
  <2>3. /\ row' \in RowOf /\ row'.status = "fetched" /\ row'.path = seen.path /\ row'.hash = seen.hash
    BY <1>2, <2>2 DEF RowOf, Status
  <2>4. /\ capture' \in [Caller -> CallOf] /\ lock' = "free"
        /\ \A d \in Caller : d # c => capture'[d] = capture[d]
        /\ capture'[c].at = "ok" /\ capture'[c].at \notin Locked
    BY <1>1, <1>2, <2>2, AnswersIs DEF Locked
  <2>5. Knows(c)'
    BY <2>4 DEF Knows, Locked
  <2>6. CaptureTypeOK' /\ RowShape'
    BY <1>1, <1>2, <2>3, <2>4 DEF CaptureTypeOK, RowShape, Pathless, Unnoticed
  <2>7. RowIsTrue'
    BY <1>1, <1>2, <2>3 DEF RowIsTrue, Matches, Unnoticed
  <2>8. ContainerFits'
    BY <1>1, <1>2, <1>3, <2>1, <2>3 DEF ContainerFits, ContainerIsTrue, Unnoticed
  <2> QED BY <1>1, <2>4, <2>5, <2>6, <2>7, <2>8, StoringStep DEF Stored
<1>4. CASE ~(row.status = "failed" /\ row.hash = seen.hash)
  <2>1. Pathless /\ row.path = "none" /\ row.path \notin Ext
    BY <1>1, <1>2, <1>4, CaptureAssumption DEF RowShape
  <2>2. row' = row /\ Goto(c, "fetch")
    BY <1>4, <2>1 DEF Heal, Pathless
  <2>3. /\ capture' \in [Caller -> CallOf] /\ lock' = lock
        /\ \A d \in Caller : d # c => capture'[d] = capture[d]
        /\ capture'[c].at = "fetch" /\ capture'[c].at \in Locked
    BY <1>1, <2>2, GotoIs DEF Locked
  <2>4. Knows(c)'
    BY <2>1, <2>2, <2>3 DEF Knows, Matches, Pathless
  <2> QED BY <1>1, <2>2, <2>3, <2>4, QuietStep
<1> QED BY <1>3, <1>4

LEMMA MarkFailedKeeps == ASSUME CaptureInv, NEW c \in Caller, MarkRowFailed(c) PROVE CaptureInv'
<1>1. /\ CaptureTypeOK /\ RowShape /\ RowIsTrue /\ ContainerFits
      /\ Knows(c) /\ capture[c].at = "fail" /\ capture[c].at \in Locked
      /\ row.status # "absent" /\ UNCHANGED <<container, file>> /\ Unnoticed
  BY DEF MarkRowFailed, CallAt, CaptureInv, Locked
<1>2. row' = [row EXCEPT !.status = "failed"] /\ Ends(c) /\ row.status # "fetched"
  BY <1>1 DEF MarkRowFailed, Knows
<1>3. /\ capture' \in [Caller -> CallOf] /\ lock' = "free"
      /\ \A d \in Caller : d # c => capture'[d] = capture[d]
      /\ capture'[c].at = "idle" /\ capture'[c].at \notin Locked
  BY <1>1, <1>2, EndsIs DEF Locked
<1>4. Knows(c)'
  BY <1>3 DEF Knows, Locked
<1>5. /\ row' \in RowOf /\ row'.status = "failed" /\ row'.path = row.path /\ row'.hash = row.hash
      /\ row.status = "failed" \/ row.path \notin Ext
  BY <1>1, <1>2, CaptureAssumption DEF CaptureTypeOK, RowOf, Status, RowShape, Pathless
<1>6. Stored'
  BY <1>1, <1>3, <1>5 DEF Stored, CaptureTypeOK, RowShape, Pathless, RowIsTrue,
     ContainerFits, ContainerIsTrue, Unnoticed
<1> QED BY <1>1, <1>3, <1>4, <1>6, StoringStep

\* The bytes fetched are put in place: no row claims the file they replace.
LEMMA PutsKeeps ==
  ASSUME CaptureInv, NEW c \in Caller, capture[c].at \in {"publish", "again"},
         Goto(c, "record"), Puts(c)
  PROVE  CaptureInv'
<1>1. /\ CaptureTypeOK /\ RowShape /\ RowIsTrue /\ ContainerFits
      /\ Knows(c) /\ capture[c].at \in Locked
  BY DEF CaptureInv, Locked
<1>2. /\ capture' \in [Caller -> CallOf] /\ lock' = lock
      /\ \A d \in Caller : d # c => capture'[d] = capture[d]
      /\ capture'[c].at = "record" /\ capture'[c].got = capture[c].got /\ capture'[c].ext = capture[c].ext
      /\ capture'[c].at \in Locked
  BY <1>1, GotoIs DEF Locked
<1>3. capture[c].got \in Bytes /\ capture[c].ext \in Ext /\ row.status # "fetched"
  BY <1>1 DEF Knows
<1>4. /\ file' \in [Ext -> Bytes \cup Damaged] /\ file'[capture[c].ext] = capture[c].got
      /\ touched' \in [Ext -> BOOLEAN]
      /\ row' = row /\ container' = container /\ owed' = owed /\ started' = started
  BY <1>1, <1>3 DEF Puts, CaptureTypeOK
<1>5. Knows(c)'
  BY <1>2, <1>3, <1>4 DEF Knows
<1>6. Stored'
  BY <1>1, <1>2, <1>3, <1>4 DEF Stored, CaptureTypeOK, RowShape, Pathless, RowIsTrue,
     ContainerFits, ContainerIsTrue
<1> QED BY <1>1, <1>2, <1>5, <1>6, StoringStep

LEMMA ClearResidueKeeps == ASSUME CaptureInv, NEW c \in Caller, ClearResidue(c) PROVE CaptureInv'
<1>1. /\ CaptureTypeOK /\ RowShape /\ RowIsTrue /\ ContainerFits
      /\ Knows(c) /\ capture[c].at = "residue" /\ capture[c].at \in Locked
      /\ UNCHANGED <<row, container>> /\ Unnoticed /\ Goto(c, "again")
  BY DEF ClearResidue, CallAt, CaptureInv, Locked
<1>2. /\ capture' \in [Caller -> CallOf] /\ lock' = lock
      /\ \A d \in Caller : d # c => capture'[d] = capture[d]
      /\ capture'[c].at = "again" /\ capture'[c].got = capture[c].got /\ capture'[c].ext = capture[c].ext
      /\ capture'[c].at \in Locked
  BY <1>1, GotoIs DEF Locked
<1>3. /\ file' \in [Ext -> Bytes \cup Damaged]
      /\ \A e \in Ext : file'[e] = file[e] \/ file'[e] = "gone"
  BY <1>1 DEF ClearResidue, CaptureTypeOK, Damaged
<1>4. "gone" \notin Bytes /\ row.status # "fetched" /\ ~Matches(row)
      /\ capture[c].got \in Bytes /\ capture[c].ext \in Ext
  BY <1>1, CaptureAssumption DEF Knows, Damaged
<1>5. Knows(c)'
  BY <1>1, <1>2, <1>3, <1>4 DEF Knows, Matches
<1>6. Stored'
  BY <1>1, <1>2, <1>3, <1>4 DEF Stored, CaptureTypeOK, RowShape, Pathless, RowIsTrue,
     ContainerFits, ContainerIsTrue, Unnoticed
<1> QED BY <1>1, <1>2, <1>5, <1>6, StoringStep

LEMMA RecordKeeps == ASSUME CaptureInv, NEW c \in Caller, Record(c) PROVE CaptureInv'
<1>1. /\ CaptureTypeOK /\ Knows(c) /\ capture[c].at = "record" /\ capture[c].at \in Locked
      /\ row.status # "fetched" /\ capture[c].got \in Bytes /\ capture[c].ext \in Ext
      /\ file[capture[c].ext] = capture[c].got \/ (touched[capture[c].ext] /\ capture[c].meddled)
      /\ UNCHANGED <<container, file, touched, started>>
  BY DEF Record, CallAt, CaptureInv, Locked, Knows
<1>2. /\ row' = [status |-> "fetched", path |-> capture[c].ext, hash |-> capture[c].got]
      /\ owed' = TRUE /\ Goto(c, "stamp")
  BY <1>1 DEF Record
<1>3. /\ capture' \in [Caller -> CallOf] /\ lock' = lock
      /\ \A d \in Caller : d # c => capture'[d] = capture[d]
      /\ capture'[c].at = "stamp" /\ capture'[c].got = capture[c].got /\ capture'[c].ext = capture[c].ext
      /\ capture'[c].meddled = capture[c].meddled /\ capture'[c].at \in Locked
  BY <1>1, <1>2, GotoIs DEF Locked
<1>4. Knows(c)'
  BY <1>1, <1>2, <1>3 DEF Knows
<1>5. row' \in RowOf /\ row'.status = "fetched" /\ row'.path = capture[c].ext /\ row'.hash = capture[c].got
  BY <1>1, <1>2 DEF RowOf, Status
<1>6. Stored'
  BY <1>1, <1>2, <1>3, <1>5 DEF Stored, CaptureTypeOK, RowShape, Pathless, RowIsTrue,
     ContainerFits, ContainerIsTrue
<1> QED BY <1>1, <1>3, <1>4, <1>6, StoringStep

LEMMA StampKeeps == ASSUME CaptureInv, NEW c \in Caller, Stamp(c) PROVE CaptureInv'
<1>1. /\ CaptureTypeOK /\ RowShape /\ RowIsTrue /\ ContainerFits
      /\ Knows(c) /\ capture[c].at = "stamp" /\ capture[c].at \in Locked
      /\ capture[c].got \in Bytes /\ capture[c].ext \in Ext
      /\ row = [status |-> "fetched", path |-> capture[c].ext, hash |-> capture[c].got] \/ Pathless
      /\ UNCHANGED <<row, file, touched, started>> /\ Answers(c, capture[c].ext)
  BY DEF Stamp, CallAt, CaptureInv, Locked, Knows
<1>2. /\ capture' \in [Caller -> CallOf] /\ lock' = "free"
      /\ \A d \in Caller : d # c => capture'[d] = capture[d]
      /\ capture'[c].at = "ok" /\ capture'[c].at \notin Locked
  BY <1>1, AnswersIs DEF Locked
<1>3. Knows(c)'
  BY <1>2 DEF Knows, Locked
<1>4. \/ container' = container /\ owed' = owed
      \/ /\ owed' = FALSE
         /\ container' \in {container, capture[c].got}
         /\ row.status # "absent" => container' = capture[c].got
  BY DEF Stamp
<1>5. CaptureTypeOK' /\ RowShape' /\ RowIsTrue'
  BY <1>1, <1>2, <1>4 DEF CaptureTypeOK, Containers, RowShape, Pathless, RowIsTrue
<1>6. ContainerFits'
  BY <1>1, <1>4 DEF ContainerFits, ContainerIsTrue, Pathless
<1> QED BY <1>1, <1>2, <1>3, <1>5, <1>6, StoringStep DEF Stored

-----------------------------------------------------------------------------
(* Around the calls. *)

LEMMA RegisterKeeps == ASSUME CaptureInv, Register PROVE CaptureInv'
<1>1. /\ Stored /\ OneInside /\ row.status = "absent"
      /\ UNCHANGED <<container, file, lock, capture>> /\ Unnoticed
  BY DEF Register, CaptureInv, Stored
<1>2. PICK s \in {"pending", "metadata_only"} : row' = Registered(s)
  BY DEF Register
<1>3. /\ row' \in RowOf /\ row'.status \in {"pending", "metadata_only"}
      /\ row'.path = "none" /\ row'.path \notin Ext
  BY <1>2, CaptureAssumption DEF Registered, NoRow, RowOf, Status
<1>4. Stored'
  BY <1>1, <1>3 DEF Stored, CaptureTypeOK, RowShape, Pathless, RowIsTrue,
     ContainerFits, ContainerIsTrue, Unnoticed
<1>5. ASSUME NEW c \in Caller PROVE Knows(c)'
  <2>1. Knows(c) /\ capture'[c] = capture[c]
    BY <1>1 DEF CaptureInv
  <2> QED BY <1>1, <1>3, <2>1 DEF Knows, Pathless, Matches, Unnoticed
<1>6. OneInside'
  BY <1>1 DEF OneInside
<1> QED BY <1>4, <1>5, <1>6 DEF CaptureInv, Stored

\* What Meddled changes of a call.
OnlyMeddled(c) ==
  /\ capture'[c].at = capture[c].at /\ capture'[c].seen = capture[c].seen
  /\ capture'[c].got = capture[c].got /\ capture'[c].ext = capture[c].ext
  /\ capture[c].at \in Locked => capture'[c].meddled

LEMMA MeddledIs ==
  ASSUME CaptureTypeOK, capture' = Meddled
  PROVE  /\ capture' \in [Caller -> CallOf]
         /\ \A c \in Caller : OnlyMeddled(c)
BY DEF CaptureTypeOK, Meddled, CallOf, OnlyMeddled

LEMMA RemoveRowKeeps == ASSUME CaptureInv, RemoveRow PROVE CaptureInv'
<1>1. /\ CaptureTypeOK /\ OneInside /\ row' = NoRow /\ container' = "none" /\ owed' = FALSE
      /\ capture' = Meddled /\ UNCHANGED <<file, lock, started, touched>>
  BY DEF RemoveRow, CaptureInv
<1>2. /\ row' \in RowOf /\ row'.status = "absent" /\ row'.path = "none" /\ row'.path \notin Ext
  BY <1>1, CaptureAssumption DEF NoRow, RowOf, Status
<1>3. Stored'
  BY <1>1, <1>2, MeddledIs DEF Stored, CaptureTypeOK, Containers, RowShape, Pathless, RowIsTrue,
     ContainerFits, ContainerIsTrue
<1>4. ASSUME NEW c \in Caller PROVE Knows(c)'
  <2>1. Knows(c)
    BY DEF CaptureInv
  <2>2. OnlyMeddled(c)
    BY <1>1, MeddledIs
  <2> QED BY <1>1, <1>2, <2>1, <2>2 DEF OnlyMeddled, Knows, Pathless, Matches, Locked
<1>5. OneInside'
  BY <1>1, MeddledIs DEF OneInside, OnlyMeddled
<1> QED BY <1>3, <1>4, <1>5 DEF CaptureInv, Stored

LEMMA DamageFileKeeps == ASSUME CaptureInv, NEW e \in Ext, DamageFile(e) PROVE CaptureInv'
<1>1. /\ CaptureTypeOK /\ RowShape /\ RowIsTrue /\ ContainerFits /\ OneInside
      /\ touched' = [touched EXCEPT ![e] = TRUE] /\ capture' = Meddled
      /\ UNCHANGED <<row, container, lock, started, owed>>
  BY DEF DamageFile, CaptureInv
<1>2. PICK d \in Damaged : file' = [file EXCEPT ![e] = d]
  BY DEF DamageFile
<1>3. /\ file' \in [Ext -> Bytes \cup Damaged] /\ touched' \in [Ext -> BOOLEAN]
      /\ file'[e] \notin Bytes /\ touched'[e]
      /\ \A x \in Ext : x # e => file'[x] = file[x] /\ touched'[x] = touched[x]
  BY <1>1, <1>2, CaptureAssumption DEF CaptureTypeOK
<1>4. CaptureTypeOK'
  BY <1>1, <1>3, MeddledIs DEF CaptureTypeOK
<1>5. RowShape' /\ RowIsTrue' /\ ContainerFits'
  BY <1>1, <1>3 DEF RowShape, Pathless, RowIsTrue, ContainerFits, ContainerIsTrue
<1>6. ASSUME NEW c \in Caller PROVE Knows(c)'
  <2>1. Knows(c)
    BY DEF CaptureInv
  <2>2. OnlyMeddled(c)
    BY <1>1, MeddledIs
  <2> QED BY <1>1, <1>3, <2>1, <2>2 DEF OnlyMeddled, Knows, Pathless, Matches, Locked
<1>7. OneInside'
  BY <1>1, MeddledIs DEF OneInside, OnlyMeddled
<1> QED BY <1>4, <1>5, <1>6, <1>7 DEF CaptureInv, Stored

LEMMA ProcessDiesKeeps == ASSUME CaptureInv, ProcessDies PROVE CaptureInv'
<1>1. /\ Stored /\ lock' = "free" /\ started' = FALSE
      /\ capture' = [c \in Caller |-> NoCall]
      /\ UNCHANGED <<row, container, file, touched, owed>>
  BY DEF ProcessDies, CaptureInv, Stored
<1>2. NoCall \in CallOf /\ NoCall.at = "idle"
  BY DEF NoCall, CallOf, NoRow, RowOf, Status
<1>3. Stored'
  BY <1>1, <1>2, StoredFrame
<1>4. \A c \in Caller : capture'[c].at = "idle"
  BY <1>1, <1>2
<1>5. OneInside' /\ \A c \in Caller : Knows(c)'
  BY <1>1, <1>4, CaptureAssumption DEF OneInside, Knows, Locked
<1> QED BY <1>3, <1>5 DEF CaptureInv, Stored

LEMMA SniffKeeps == ASSUME CaptureInv, Sniff PROVE CaptureInv'
<1>1. /\ CaptureTypeOK /\ RowShape /\ RowIsTrue /\ ContainerFits /\ OneInside
      /\ started' = TRUE /\ UNCHANGED <<row, file, lock, capture, touched>>
  BY DEF Sniff, CaptureInv
<1>2. \/ UNCHANGED <<container, owed>>
      \/ /\ row.status = "fetched" /\ row.path \in Ext /\ file[row.path] \in Bytes \cup {"junk"}
         /\ container' = file[row.path] /\ owed' = FALSE
  BY DEF Sniff, Unsniffed, Readable
<1>3. CaptureTypeOK' /\ RowShape' /\ RowIsTrue'
  BY <1>1, <1>2 DEF CaptureTypeOK, Containers, RowShape, Pathless, RowIsTrue
<1>4. ContainerFits'
  BY <1>1, <1>2 DEF ContainerFits, ContainerIsTrue, RowIsTrue
<1>5. OneInside' /\ \A c \in Caller : Knows(c)'
  BY <1>1 DEF OneInside, Knows, Matches, Pathless, CaptureInv
<1> QED BY <1>3, <1>4, <1>5 DEF CaptureInv

LEMMA CaptureStep == CaptureInv /\ [CaptureNext]_capVars => CaptureInv'
<1> SUFFICES ASSUME CaptureInv, [CaptureNext]_capVars PROVE CaptureInv'
  OBVIOUS
<1>1. ASSUME NEW c \in Caller, CallStep(c) PROVE CaptureInv'
  <2>1. CASE Publish(c)
    BY <2>1, PutsKeeps DEF Publish, CallAt
  <2>2. CASE PublishAgain(c)
    BY <2>2, PutsKeeps DEF PublishAgain, CallAt
  <2> QED BY <1>1, <2>1, <2>2, BeginKeeps, TakeLockKeeps, FailsKeeps, ReadRowKeeps, InspectKeeps,
        ResetKeeps, ResetDeclinedKeeps, HealKeeps, FetchKeeps, MarkFailedKeeps,
        FindObstacleKeeps, ClearResidueKeeps, RecordKeeps, StampKeeps, LeaveKeeps DEF CallStep
<1>2. ASSUME UNCHANGED capVars PROVE CaptureInv'
  BY <1>2 DEF capVars, CaptureInv, CaptureTypeOK, OneInside, RowShape, Pathless, RowIsTrue,
     ContainerFits, ContainerIsTrue, Knows, Matches
<1> QED BY <1>1, <1>2, RegisterKeeps, RemoveRowKeeps, ProcessDiesKeeps, SniffKeeps,
      DamageFileKeeps DEF CaptureNext

LEMMA CaptureInvHolds == CaptureSpec => []CaptureInv
BY CaptureInitInv, CaptureStep, PTL DEF CaptureSpec

-----------------------------------------------------------------------------
(* The properties. *)

LEMMA ResidueFollows == CaptureInv => ObstacleIsResidue
BY DEF CaptureInv, Knows, ObstacleIsResidue

\* Whatever callers overlap, the row, the file, the lock and the calls keep
\* their types (report_documents_capture.rs, storage/report_documents).
THEOREM CaptureTypesHold == CaptureSpec => []CaptureTypeOK
<1>1. CaptureInv => CaptureTypeOK
  BY DEF CaptureInv
<1> QED BY <1>1, CaptureInvHolds, PTL

\* For any number of callers, extensions and contents: a fetched row whose file
\* nobody outside changed names what is in it (publish_no_clobber and
\* mark_fetched_if_unchanged under the document's lock).
THEOREM RowIsTrueHolds == CaptureSpec => []RowIsTrue
<1>1. CaptureInv => RowIsTrue
  BY DEF CaptureInv
<1> QED BY <1>1, CaptureInvHolds, PTL

\* A file in the way of a publication is residue: from the decision to fetch to
\* the write of the row the row is not fetched (publish_no_clobber).
THEOREM ObstacleIsResidueHolds == CaptureSpec => []ObstacleIsResidue
BY ResidueFollows, CaptureInvHolds, PTL

\* A stamp written for the stored bytes is theirs (set_detected_container,
\* sniff_missing_containers).
THEOREM ContainerIsTrueHolds == CaptureSpec => []ContainerIsTrue
<1>1. CaptureInv => ContainerIsTrue
  BY DEF CaptureInv, ContainerFits
<1> QED BY <1>1, CaptureInvHolds, PTL

\* Row, file and container of a captured document agree, whatever calls overlap
\* and wherever they end (capture_report_document).
THEOREM CaptureIsSoundHolds == CaptureSpec => []CaptureIsSound
BY RowIsTrueHolds, ObstacleIsResidueHolds, ContainerIsTrueHolds, PTL DEF CaptureIsSound

\* No step of a call touches a row that is verified, or its file.
LEMMA VerifiedCall ==
  ASSUME CaptureInv, Verified, NEW c \in Caller, CallStep(c)
  PROVE  row' = row /\ file' = file
<1>1. Knows(c) /\ row.status = "fetched" /\ Matches(row) /\ ~Pathless
  BY DEF CaptureInv, Verified, Pathless
<1>2. CASE Begin(c) \/ TakeLock(c) \/ Fails(c) \/ ReadRow(c) \/ Inspect(c) \/ ResetDeclined(c)
        \/ Fetch(c) \/ FindObstacle(c) \/ Stamp(c) \/ Leave(c)
  BY <1>1, <1>2 DEF Begin, TakeLock, Fails, ReadRow, Inspect, ResetDeclined, Fetch,
     FindObstacle, Stamp, Leave
<1>3. CASE Reset(c)
  BY <1>1, <1>3 DEF Reset, CallAt, Knows
<1>4. CASE Heal(c)
  BY <1>1, <1>4 DEF Heal, CallAt, Knows
<1>5. CASE MarkRowFailed(c) \/ Publish(c) \/ ClearResidue(c) \/ PublishAgain(c) \/ Record(c)
  BY <1>1, <1>5 DEF MarkRowFailed, Publish, ClearResidue, PublishAgain, Record, CallAt, Knows
<1> QED BY <1>2, <1>3, <1>4, <1>5 DEF CallStep

\* "Never downgrades a fetched document": while the file has the bytes the row
\* names, only the removal of the row and damage from outside change either
\* (resolve_before_fetch, mark_failed, heal_failed_if_unchanged).
THEOREM VerifiedIsKeptHolds == CaptureSpec => VerifiedIsKept
<1>1. ASSUME CaptureInv, [CaptureNext]_capVars, Verified, ~RemoveRow, ~(\E e \in Ext : DamageFile(e))
      PROVE  row' = row /\ file'[row.path] = file[row.path]
  <2>1. CASE \E c \in Caller : CallStep(c)
    BY <1>1, <2>1, VerifiedCall
  <2>2. CASE Register
    BY <1>1, <2>2 DEF Register, Verified
  <2>3. CASE ProcessDies \/ Sniff \/ UNCHANGED capVars
    BY <2>3 DEF ProcessDies, Sniff, capVars
  <2> QED BY <1>1, <2>1, <2>2, <2>3 DEF CaptureNext
<1>2. CaptureInv /\ [CaptureNext]_capVars =>
        [Verified /\ ~RemoveRow /\ ~(\E e \in Ext : DamageFile(e))
           => row' = row /\ file'[row.path] = file[row.path]]_capVars
  BY <1>1
<1> QED BY <1>2, CaptureInvHolds, PTL DEF CaptureSpec, VerifiedIsKept

\* What a call that answers leaves behind.
Answered(c) == Verified' /\ row'.path = capture'[c].ext

LEMMA AnswerOfCall ==
  ASSUME CaptureInv, NEW c \in Caller, CallStep(c), capture[c].at # "ok", capture'[c].at = "ok",
         ~capture'[c].meddled
  PROVE  Answered(c)
<1>1. /\ CaptureTypeOK /\ Knows(c) /\ capture \in [Caller -> CallOf]
  BY DEF CaptureInv, CaptureTypeOK
<1>2. CASE Inspect(c)
  <2>1. capture[c].at = "inspect" /\ (capture[c].seen.status = "fetched" => capture[c].seen.path \in Ext)
    BY <1>1, <1>2 DEF Inspect, CallAt, Knows
  <2>2. /\ capture[c].seen.status = "fetched" /\ Matches(capture[c].seen)
        /\ Answers(c, capture[c].seen.path) /\ UNCHANGED <<row, file>>
    BY <1>1, <1>2 DEF Inspect, Goto, CallOf
  <2>3. capture'[c].ext = capture[c].seen.path /\ capture'[c].meddled = capture[c].meddled
    BY <1>1, <2>1, <2>2, AnswersIs
  <2>4. capture[c].seen = row
    BY <1>1, <2>1, <2>3 DEF Knows
  <2> QED BY <2>2, <2>3, <2>4 DEF Answered, Verified, Matches
<1>3. CASE ResetDeclined(c)
  <2>1. capture[c].at = "reset" /\ Pathless
    BY <1>1, <1>3 DEF ResetDeclined, CallAt, Knows
  <2>2. capture'[c].at \in {"inspect", "fetch"}
    BY <1>1, <1>3, <2>1 DEF ResetDeclined, Goto, Pathless, CaptureTypeOK, CallOf
  <2> QED BY <2>2
<1>4. CASE Heal(c)
  <2>1. /\ capture[c].at = "heal" /\ capture[c].seen.path \in Ext /\ capture[c].seen.status = "failed"
        /\ capture[c].seen \in RowOf
    BY <1>1, <1>4 DEF Heal, CallAt, Knows, CallOf
  <2>2. CASE row.status = "failed" /\ row.hash = capture[c].seen.hash
    <3>1. /\ row' = [capture[c].seen EXCEPT !.status = "fetched"] /\ file' = file
          /\ Answers(c, capture[c].seen.path)
      BY <1>4, <2>1, <2>2 DEF Heal, RowOf
    <3>2. capture'[c].ext = capture[c].seen.path /\ capture'[c].meddled = capture[c].meddled
      BY <1>1, <2>1, <3>1, AnswersIs
    <3>3. Matches(capture[c].seen)
      BY <1>1, <2>1, <3>2 DEF Knows
    <3> QED BY <2>1, <3>1, <3>2, <3>3 DEF Answered, Verified, Matches, RowOf
  <2>3. CASE ~(row.status = "failed" /\ row.hash = capture[c].seen.hash)
    <3>1. row.status # "fetched"
      BY <1>1, <2>1, <2>3 DEF Knows, Pathless
    <3>2. Goto(c, "fetch")
      BY <1>4, <2>3, <3>1 DEF Heal
    <3> QED BY <1>1, <3>2 DEF Goto, CallOf
  <2> QED BY <2>2, <2>3
<1>5. CASE Stamp(c)
  <2>1. /\ capture[c].at = "stamp" /\ capture[c].ext \in Ext /\ capture[c].got \in Bytes
        /\ Answers(c, capture[c].ext) /\ UNCHANGED <<row, file>>
    BY <1>1, <1>5 DEF Stamp, CallAt, Knows
  <2>2. capture'[c].ext = capture[c].ext /\ capture'[c].meddled = capture[c].meddled
    BY <1>1, <2>1, AnswersIs
  <2>3. row = [status |-> "fetched", path |-> capture[c].ext, hash |-> capture[c].got]
          /\ file[capture[c].ext] = capture[c].got
    BY <1>1, <2>1, <2>2 DEF Knows
  <2> QED BY <2>1, <2>2, <2>3 DEF Answered, Verified, Matches
<1>6. CASE MarkRowFailed(c) \/ FindObstacle(c) \/ Record(c)
  <2>1. row.status # "fetched" /\ (CallAt(c, "publish") => ~Matches(row))
    BY <1>1, <1>6 DEF MarkRowFailed, FindObstacle, Record, CallAt, Knows
  <2>2. Ends(c) \/ Goto(c, "residue") \/ Goto(c, "stamp")
    BY <1>6, <2>1 DEF MarkRowFailed, FindObstacle, Record
  <2> QED BY <1>1, <2>2 DEF Ends, Goto, NoCall, CallOf
<1>7. CASE Begin(c) \/ Fails(c) \/ Reset(c) \/ Publish(c) \/ PublishAgain(c) \/ ClearResidue(c)
  BY <1>1, <1>7 DEF Begin, Fails, Reset, Publish, PublishAgain, ClearResidue, Goto, Ends, NoCall, CallOf
<1>8. CASE TakeLock(c) \/ Leave(c)
  BY <1>1, <1>8 DEF TakeLock, Leave, NoCall, CallOf
<1>9. CASE ReadRow(c)
  <2>1. capture'[c] = [capture[c] EXCEPT !.at = "inspect", !.seen = row]
    BY <1>1, <1>9 DEF ReadRow, CallOf
  <2> QED BY <1>1, <2>1 DEF CallOf
<1>10. CASE Fetch(c)
  <2>1. CASE Goto(c, "fail")
    BY <1>1, <2>1 DEF Goto, CallOf
  <2>2. ASSUME NEW b \in Bytes, NEW e \in Ext,
               capture' = [capture EXCEPT ![c].at = "publish", ![c].got = b, ![c].ext = e]
        PROVE  FALSE
    <3>1. capture'[c] = [capture[c] EXCEPT !.at = "publish", !.got = b, !.ext = e]
      BY <1>1, <2>2 DEF CallOf
    <3> QED BY <1>1, <3>1 DEF CallOf
  <2> QED BY <1>10, <2>1, <2>2 DEF Fetch
<1> QED BY <1>2, <1>3, <1>4, <1>5, <1>6, <1>7, <1>8, <1>9, <1>10 DEF CallStep

\* A step of one call is not the answer of another.
LEMMA OthersAreStill ==
  ASSUME CaptureTypeOK, NEW c \in Caller, NEW d \in Caller, c # d, CallStep(c)
  PROVE  capture'[d] = capture[d]
BY DEF CaptureTypeOK, CallStep, Begin, TakeLock, Fails, ReadRow, Inspect, Reset, ResetDeclined,
   Heal, Fetch, MarkRowFailed, Publish, FindObstacle, ClearResidue, PublishAgain, Record, Stamp,
   Leave, Goto, Ends, Answers

\* A call that reports success names a file with the bytes of its row, unless
\* row or file were changed from outside meanwhile (DocumentCaptureResult).
THEOREM AnswersAreTrueHolds == CaptureSpec => AnswersAreTrue
<1>1. ASSUME CaptureInv, [CaptureNext]_capVars, NEW c \in Caller,
             ~CallAt(c, "ok"), CallAt(c, "ok")', ~capture'[c].meddled
      PROVE  Answered(c)
  <2>1. CaptureTypeOK /\ capture[c].at # "ok" /\ capture'[c].at = "ok"
    BY <1>1 DEF CaptureInv, CallAt
  <2>2. ASSUME NEW d \in Caller, CallStep(d) PROVE Answered(c)
    BY <1>1, <2>1, <2>2, AnswerOfCall, OthersAreStill
  <2>3. CASE Register \/ Sniff \/ UNCHANGED capVars
    BY <2>1, <2>3 DEF Register, Sniff, capVars
  <2>4. CASE ProcessDies
    BY <2>1, <2>4 DEF ProcessDies, NoCall
  <2>5. CASE RemoveRow \/ \E e \in Ext : DamageFile(e)
    BY <2>1, <2>5, MeddledIs DEF RemoveRow, DamageFile, OnlyMeddled
  <2> QED BY <1>1, <2>2, <2>3, <2>4, <2>5 DEF CaptureNext
<1>2. CaptureInv /\ [CaptureNext]_capVars =>
        [\A c \in Caller : ~CallAt(c, "ok") /\ CallAt(c, "ok")' /\ ~capture'[c].meddled
           => Verified' /\ row'.path = capture'[c].ext]_capVars
  BY <1>1 DEF Answered
<1> QED BY <1>2, CaptureInvHolds, PTL DEF CaptureSpec, AnswersAreTrue

=============================================================================
