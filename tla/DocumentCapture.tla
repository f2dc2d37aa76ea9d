---------------------------- MODULE DocumentCapture ----------------------------
(***************************************************************************)
(* The capture of one report document (report_documents_capture.rs): a row *)
(* of report_documents and the file it names, kept in step by calls that   *)
(* fetch the document over the network under a lock of the document, while *)
(* companies are deleted and registered again, files are damaged from      *)
(* outside, any call of the storage fails and the process dies anywhere.   *)
(*                                                                         *)
(* capture_report_document, fetch_report_document and each document of     *)
(* fetch_pending_attachments are one call here: they differ in how they    *)
(* find the document and in the words of their errors.  A hash stands for  *)
(* the bytes it is of, a container for the bytes it was read from, so two  *)
(* bytes of the model never have one container.  Temporary files have      *)
(* names of their own and are left out.                                    *)
(*                                                                         *)
(* D_Bug is D with a plausible bug, as in JobQueue.                        *)
(***************************************************************************)

CONSTANTS
  Caller,   \* threads that capture: commands, the MCP server, queue workers
  Ext,      \* extensions determine_extension may choose
  Bytes     \* what the network may deliver

Damaged == {"gone", "junk", "blocked"}   \* "blocked": a directory is there

ASSUME CaptureAssumption ==
  /\ Bytes \cap (Damaged \cup {"none"}) = {}
  /\ "none" \notin Ext /\ "free" \notin Caller

VARIABLES
  row,        \* fetch_status, local_path and content_hash of the row
  container,  \* its detected_container
  file,       \* report_documents/<id>.<ext>
  lock,       \* who holds the document's capture lock
  capture,    \* where each caller stands
  started,    \* the start is over
  \* History variables, read by the properties only.
  touched,    \* the file was changed from outside since a call wrote it
  owed        \* the row was stored and its container not yet read from it

capVars == <<row, container, file, lock, capture, started, touched, owed>>

-----------------------------------------------------------------------------
(* Rows, files and calls. *)

Status == {"absent", "pending", "fetched", "failed", "metadata_only"}
RowOf == [status : Status, path : Ext \cup {"none"}, hash : Bytes \cup {"none"}]
NoRow == [status |-> "absent", path |-> "none", hash |-> "none"]
Containers == Bytes \cup {"none", "junk"}

\* local_file_matches_row
Matches(r) == r.path \in Ext /\ r.hash \in Bytes /\ file[r.path] = r.hash

\* "waiting" for the lock, then resolve_before_fetch, the fetch, the publish
\* with its second look at what is in the way, the row and the stamp.
Locked == {"locked", "inspect", "reset", "heal", "fetch", "fail",
           "publish", "residue", "again", "record", "stamp"}
CallOf == [at : Locked \cup {"idle", "waiting", "ok"}, seen : RowOf,
           retried : BOOLEAN, got : Bytes \cup {"none"}, ext : Ext \cup {"none"},
           meddled : BOOLEAN]
NoCall == [at |-> "idle", seen |-> NoRow, retried |-> FALSE,
           got |-> "none", ext |-> "none", meddled |-> FALSE]

CallAt(c, p) == capture[c].at = p
Goto(c, p) == capture' = [capture EXCEPT ![c].at = p] /\ UNCHANGED lock

\* A call ends and drops the lock: with an error, or with a path for an answer.
Ends(c) == capture' = [capture EXCEPT ![c] = NoCall] /\ lock' = "free"
Answers(c, path) ==
  /\ capture' = [capture EXCEPT ![c] = [NoCall EXCEPT !.at = "ok", !.ext = path,
                                                 !.meddled = capture[c].meddled]]
  /\ lock' = "free"

\* Calls under way see the row or the file change under them.
Meddled == [c \in Caller |->
              IF capture[c].at \in Locked THEN [capture[c] EXCEPT !.meddled = TRUE] ELSE capture[c]]

Unnoticed == UNCHANGED <<touched, owed, started>>

-----------------------------------------------------------------------------
(* The calls. *)

Registered(status) == [NoRow EXCEPT !.status = status]

\* create_or_find_pending_report_document, or a row that is already known; the
\* upsert needs no lock.
Begin(c) ==
  /\ started /\ CallAt(c, "idle")
  /\ row' = IF row.status = "absent" THEN Registered("pending") ELSE row
  /\ Goto(c, "waiting")
  /\ UNCHANGED <<container, file>> /\ Unnoticed

TakeLock_Shared(c) ==
  /\ CallAt(c, "waiting")
  /\ lock' = c
  /\ capture' = [capture EXCEPT ![c].at = "locked"]
  /\ UNCHANGED <<row, container, file>> /\ Unnoticed
TakeLock(c) ==
  /\ CallAt(c, "waiting") /\ lock = "free"
  /\ lock' = c
  /\ capture' = [capture EXCEPT ![c].at = "locked"]
  /\ UNCHANGED <<row, container, file>> /\ Unnoticed

\* Any call of the storage fails, or the code around it panics: the guard of
\* the lock is dropped and a later caller ignores the poison.
Fails(c) ==
  /\ capture[c].at \in Locked
  /\ Ends(c)
  /\ UNCHANGED <<row, container, file>> /\ Unnoticed

\* The row is read again under the lock.
ReadRow(c) ==
  /\ CallAt(c, "locked") /\ row.status # "absent"
  /\ capture' = [capture EXCEPT ![c].at = "inspect", ![c].seen = row]
  /\ UNCHANGED <<row, container, file, lock>> /\ Unnoticed

\* resolve_before_fetch
Inspect_TrustsStatus(c) ==
  LET seen == capture[c].seen IN
  /\ CallAt(c, "inspect")
  /\ \/ seen.status = "fetched" /\ Answers(c, seen.path)
     \/ seen.status = "failed" /\ Matches(seen) /\ Goto(c, "heal")
     \/ seen.status = "failed" /\ ~Matches(seen) /\ Goto(c, "fetch")
     \/ seen.status \notin {"fetched", "failed"} /\ Goto(c, "fetch")
  /\ UNCHANGED <<row, container, file>> /\ Unnoticed
Inspect(c) ==
  LET seen == capture[c].seen IN
  /\ CallAt(c, "inspect")
  /\ \/ seen.status = "fetched" /\ Matches(seen) /\ Answers(c, seen.path)
     \/ seen.status = "fetched" /\ ~Matches(seen) /\ Goto(c, "reset")
     \/ seen.status = "failed" /\ Matches(seen) /\ Goto(c, "heal")
     \/ seen.status = "failed" /\ ~Matches(seen) /\ Goto(c, "fetch")
     \/ seen.status \notin {"fetched", "failed"} /\ Goto(c, "fetch")
  /\ UNCHANGED <<row, container, file>> /\ Unnoticed

\* mark_pending_for_refetch: hash and container stay.
Reset(c) ==
  /\ CallAt(c, "reset") /\ row = capture[c].seen
  /\ row' = [row EXCEPT !.status = "pending", !.path = "none"]
  /\ Goto(c, "fetch")
  /\ UNCHANGED <<container, file>> /\ Unnoticed

\* The row moved: what it is now is inspected once more, or taken as it is.
ResetDeclined(c) ==
  /\ CallAt(c, "reset") /\ row # capture[c].seen /\ row.status # "absent"
  /\ IF ~capture[c].retried
     THEN /\ capture' = [capture EXCEPT ![c].at = "inspect", ![c].seen = row, ![c].retried = TRUE]
          /\ UNCHANGED lock
     ELSE IF row.status = "fetched" THEN Answers(c, row.path) ELSE Goto(c, "fetch")
  /\ UNCHANGED <<row, container, file>> /\ Unnoticed

\* heal_failed_if_unchanged, with the values inspected.
Heal(c) ==
  LET seen == capture[c].seen
      holds == row.status = "failed" /\ row.hash = seen.hash
      now == IF holds THEN [seen EXCEPT !.status = "fetched"] ELSE row
  IN  /\ CallAt(c, "heal") /\ row.status # "absent"
      /\ row' = now
      /\ IF now.status = "fetched" THEN Answers(c, now.path) ELSE Goto(c, "fetch")
      /\ UNCHANGED <<container, file>> /\ Unnoticed

Fetch_Unlocked(c) ==
  /\ CallAt(c, "fetch")
  /\ \E b \in Bytes, e \in Ext :
       capture' = [capture EXCEPT ![c].at = "publish", ![c].got = b, ![c].ext = e]
  /\ lock' = "free"
  /\ UNCHANGED <<row, container, file>> /\ Unnoticed
Fetch(c) ==
  /\ CallAt(c, "fetch")
  /\ \/ Goto(c, "fail")
     \/ \E b \in Bytes, e \in Ext :
          /\ capture' = [capture EXCEPT ![c].at = "publish", ![c].got = b, ![c].ext = e]
          /\ UNCHANGED lock
  /\ UNCHANGED <<row, container, file>> /\ Unnoticed

\* mark_failed: a fetched row with a file is left as it is, and reported.
MarkRowFailed(c) ==
  LET kept == row.status = "fetched" /\ row.path \in Ext IN
  /\ CallAt(c, "fail") /\ row.status # "absent"
  /\ row' = IF kept THEN row ELSE [row EXCEPT !.status = "failed"]
  /\ IF kept THEN Answers(c, row.path) ELSE Ends(c)
  /\ UNCHANGED <<container, file>> /\ Unnoticed

\* link_or_rename puts the bytes in place.
Puts(c) ==
  /\ file' = [file EXCEPT ![capture[c].ext] = capture[c].got]
  /\ touched' = [touched EXCEPT ![capture[c].ext] = FALSE]
  /\ UNCHANGED <<row, container, owed, started>>

\* publish_no_clobber, first try: nothing in the way; or, on a file system
\* without hard links, a rename that replaces what is.
Publish(c) ==
  /\ CallAt(c, "publish") /\ file[capture[c].ext] # "blocked"
  /\ Goto(c, "record")
  /\ Puts(c)

\* A regular file is in the way: the row is read once more, and a file that
\* matches it is left alone.
FindObstacle_KeepsFile(c) ==
  /\ CallAt(c, "publish") /\ file[capture[c].ext] \in Bytes \cup {"junk"}
  /\ Goto(c, "record")
  /\ UNCHANGED <<row, container, file>> /\ Unnoticed
FindObstacle(c) ==
  /\ CallAt(c, "publish") /\ file[capture[c].ext] \in Bytes \cup {"junk"}
  /\ row.status # "absent"
  /\ IF Matches(row) THEN Answers(c, row.path) ELSE Goto(c, "residue")
  /\ UNCHANGED <<row, container, file>> /\ Unnoticed

\* What is in the way is cleared; a removal that fails shows at the second try.
ClearResidue(c) ==
  /\ CallAt(c, "residue")
  /\ file' = IF file[capture[c].ext] = "blocked" THEN file
             ELSE [file EXCEPT ![capture[c].ext] = "gone"]
  /\ Goto(c, "again")
  /\ UNCHANGED <<row, container>> /\ Unnoticed

PublishAgain(c) ==
  /\ CallAt(c, "again") /\ file[capture[c].ext] # "blocked"
  /\ Goto(c, "record")
  /\ Puts(c)

\* mark_fetched_if_unchanged; a row that took other bytes meanwhile is reported
\* instead, and keeps its container.
Record(c) ==
  LET accepts == row.status # "fetched" \/ row.hash \in {"none", capture[c].got} IN
  /\ CallAt(c, "record") /\ row.status # "absent"
  /\ IF accepts
     THEN /\ row' = [status |-> "fetched", path |-> capture[c].ext, hash |-> capture[c].got]
          /\ owed' = TRUE
          /\ Goto(c, "stamp")
     ELSE Answers(c, row.path) /\ UNCHANGED <<row, owed>>
  /\ UNCHANGED <<container, file, touched, started>>

\* set_report_document_detected_container, best-effort.
Stamp_NullOnly(c) ==
  /\ CallAt(c, "stamp")
  /\ container' = IF container = "none" /\ row.status # "absent" THEN capture[c].got ELSE container
  /\ owed' = FALSE
  /\ Answers(c, capture[c].ext)
  /\ UNCHANGED <<row, file, touched, started>>
Stamp(c) ==
  /\ CallAt(c, "stamp")
  /\ \/ /\ container' = IF row.status = "absent" THEN container ELSE capture[c].got
        /\ owed' = FALSE
     \/ UNCHANGED <<container, owed>>
  /\ Answers(c, capture[c].ext)
  /\ UNCHANGED <<row, file, touched, started>>

Leave(c) ==
  /\ CallAt(c, "ok")
  /\ capture' = [capture EXCEPT ![c] = NoCall]
  /\ UNCHANGED <<row, container, file, lock>> /\ Unnoticed

-----------------------------------------------------------------------------
(* Around the calls. *)

\* An ingested filing registers its attachments.
Register ==
  /\ started /\ row.status = "absent"
  /\ \E s \in {"pending", "metadata_only"} : row' = Registered(s)
  /\ UNCHANGED <<container, file, lock, capture>> /\ Unnoticed

\* The company is deleted, its documents with it; files stay.
RemoveRow ==
  /\ row.status # "absent"
  /\ row' = NoRow /\ container' = "none" /\ owed' = FALSE
  /\ capture' = Meddled
  /\ UNCHANGED <<file, lock, started, touched>>

\* Somebody deletes or alters the file, or puts a directory in its place.
DamageFile(e) ==
  /\ \E d \in Damaged : file' = [file EXCEPT ![e] = d]
  /\ touched' = [touched EXCEPT ![e] = TRUE]
  /\ capture' = Meddled
  /\ UNCHANGED <<row, container, lock, started, owed>>

ProcessDies ==
  /\ started' = FALSE
  /\ capture' = [c \in Caller |-> NoCall] /\ lock' = "free"
  /\ UNCHANGED <<row, container, file, touched, owed>>

\* The start, best-effort: sniff_missing_containers reads the file of a fetched
\* row without a container, if it can.
Unsniffed == row.status = "fetched" /\ row.path \in Ext /\ container = "none"
Readable == row.path \in Ext /\ file[row.path] \in Bytes \cup {"junk"}
Sniff_Unread ==
  /\ ~started /\ started' = TRUE
  /\ \/ Unsniffed /\ container' = file[row.path] /\ owed' = FALSE
     \/ UNCHANGED <<container, owed>>
  /\ UNCHANGED <<row, file, lock, capture, touched>>
Sniff ==
  /\ ~started /\ started' = TRUE
  /\ \/ Unsniffed /\ Readable /\ container' = file[row.path] /\ owed' = FALSE
     \/ UNCHANGED <<container, owed>>
  /\ UNCHANGED <<row, file, lock, capture, touched>>

\* Rows as earlier versions and an earlier life of the file may have left them:
\* a failed row may name a file, a restored one has no hash.
CaptureInit ==
  /\ row \in RowOf
  /\ row.status = "absent" => row = NoRow
  /\ row.status \in {"pending", "metadata_only"} => row.path = "none"
  /\ row.status = "fetched" => row.path \in Ext
  /\ file \in [Ext -> Bytes \cup Damaged]
  /\ container \in Containers
  /\ row.status = "absent" => container = "none"
  /\ row.hash \in Bytes => container \in {"none", row.hash}
  /\ touched = [e \in Ext |-> row.path = e /\ ~Matches(row)]
  /\ owed = FALSE
  /\ started = FALSE /\ lock = "free" /\ capture = [c \in Caller |-> NoCall]

CallStep(c) ==
  \/ Begin(c) \/ TakeLock(c) \/ Fails(c) \/ ReadRow(c) \/ Inspect(c) \/ Reset(c)
  \/ ResetDeclined(c) \/ Heal(c) \/ Fetch(c) \/ MarkRowFailed(c) \/ Publish(c)
  \/ FindObstacle(c) \/ ClearResidue(c) \/ PublishAgain(c) \/ Record(c) \/ Stamp(c)
  \/ Leave(c)

CaptureNext ==
  \/ \E c \in Caller : CallStep(c)
  \/ Register \/ RemoveRow \/ ProcessDies \/ Sniff
  \/ \E e \in Ext : DamageFile(e)

CaptureSpec == CaptureInit /\ [][CaptureNext]_capVars

-----------------------------------------------------------------------------
(* Properties. *)

\* The row, the file, the lock and the calls keep their types.
CaptureTypeOK ==
  /\ row \in RowOf /\ container \in Containers
  /\ file \in [Ext -> Bytes \cup Damaged]
  /\ lock \in Caller \cup {"free"} /\ capture \in [Caller -> CallOf]
  /\ started \in BOOLEAN /\ touched \in [Ext -> BOOLEAN] /\ owed \in BOOLEAN

\* A fetched row names bytes that are in its file, unless somebody outside the
\* program changed that file since: no overlap of calls, failure of any of
\* their steps or crash leaves the row claiming what is not there.
RowIsTrue ==
  row.status = "fetched" /\ row.hash \in Bytes /\ ~touched[row.path]
    => file[row.path] = row.hash

\* What publish_no_clobber says of a file in its way: it can only be residue.
\* From the moment a call decides to fetch until it writes the row, nobody has
\* a fetched row that its publication could take the file from.
ObstacleIsResidue ==
  \A c \in Caller :
    capture[c].at \in {"fetch", "fail", "publish", "residue", "again", "record"}
      => row.status # "fetched"

\* A container is that of the stored bytes, once it was written for them.  (The
\* code says of a write that failed that "the row stays NULL" and the next start
\* repairs it.  That is so of a first fetch; after a refetch of other bytes the
\* row keeps the container of the old ones, which no start looks at.)
ContainerIsTrue ==
  row.status = "fetched" /\ row.hash \in Bytes /\ ~touched[row.path] /\ ~owed
    => container \in {"none", row.hash}

\* Row, file and container of a document agree, also in the middle of a call:
\* what a publication may remove belongs to nobody.
CaptureIsSound == RowIsTrue /\ ObstacleIsResidue /\ ContainerIsTrue

Verified == row.status = "fetched" /\ Matches(row)

\* "Never downgrades a fetched document": while its file has the bytes the row
\* names, no step of the program changes the row, and none touches the file.
VerifiedIsKept ==
  [][Verified /\ ~RemoveRow /\ ~(\E e \in Ext : DamageFile(e))
       => row' = row /\ file'[row.path] = file[row.path]]_capVars

\* A call that reports success names the file of a fetched row with the bytes
\* of its hash, unless row or file were changed from outside during the call.
AnswersAreTrue ==
  [][\A c \in Caller :
       ~CallAt(c, "ok") /\ CallAt(c, "ok")' /\ ~capture'[c].meddled
         => Verified' /\ row'.path = capture'[c].ext]_capVars

=============================================================================
