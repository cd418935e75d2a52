-------------------------- MODULE AttachmentFiles --------------------------
(***************************************************************************)
(* The attachments of one issue: rows, the files they name and what the    *)
(* history says about them (core/controllers/issue_attachment_controller,  *)
(* user_interface/controllers.py, instance_reset_controller).  Requests    *)
(* load a row, and later store files, save or delete the row, touch the    *)
(* issue and record the change one after the other, in transactions of     *)
(* their own; only the reset is a single one.                              *)
(*                                                                         *)
(* Files are numbered as they are stored; the storage never gives a name   *)
(* twice.                                                                  *)
(***************************************************************************)
EXTENDS Naturals, Sequences, FiniteSets

CONSTANTS
  Writers,       \* web server workers, each with one request at most
  Names,         \* names that uploaded files have
  Idle,
  MaxRows,       \* bound: attachments
  MaxStored,     \* bound: files
  MaxCrashes     \* bound: requests that end halfway

VARIABLES
  rows,       \* attachments ever inserted: [file, name, live]
  files,      \* the files that exist
  uploads,    \* files ever stored
  works,      \* the request of each worker, or Idle
  audit,      \* history events: pairs of kind and attachment
  issue,      \* whether the issue exists
  broken,     \* requests that ended halfway
  doomed,     \* history: attachments that somebody has started to delete
  replaced,   \* history: files that a save has put another one in place of
  crossed     \* history: two requests had loaded the same attachment

filesVars == <<rows, files, uploads, works, audit, issue, broken, doomed, replaced, crossed>>

Live == {a \in DOMAIN rows : rows[a].live}

\* original_filename: the name of an upload, or the path of a stored file.
RowNames == Names \cup (1..MaxStored)
Row == [file : 0..MaxStored, name : RowNames, live : BOOLEAN]
Work == [kind : {"add", "attach", "update", "delete", "reset"},
         step : {"store", "insert", "save", "unlink", "row", "touch", "audit",
                 "rows", "files", "commit"},
         id : 0..MaxRows,           \* the attachment, 0 before it is inserted
         copy : Row,                \* the row as it was loaded, and changed since
         was : RowNames,            \* its name in the snapshot
         listed : SUBSET (1..MaxStored)]

ASSUME FilesAssumption ==
  /\ {MaxRows, MaxCrashes} \subseteq Nat /\ MaxStored \in Nat \ {0}
  /\ Idle \notin Names \cup Work

At(w, step) == works[w] # Idle /\ works[w].step = step

\* The reset has deleted the rows, and holds their locks until it commits.
Locked == \E w \in Writers : At(w, "files") \/ At(w, "commit")

Goes(w, work) == works' = [works EXCEPT ![w] = work]
Finishes(w) == works' = [works EXCEPT ![w] = Idle]

\* History: nobody else has loaded the attachment.
Loads(w, a) ==
  crossed' = (crossed \/ \E v \in Writers \ {w} : works[v] # Idle /\ works[v].id = a)

StoresAs(f) == uploads < MaxStored /\ f = uploads + 1 /\ uploads' = f /\ files' = files \cup {f}
-----------------------------------------------------------------------------
FilesInit ==
  /\ rows = << >> /\ files = {} /\ uploads = 0
  /\ works = [w \in Writers |-> Idle]
  /\ audit = {} /\ issue = TRUE /\ broken = 0
  /\ doomed = {} /\ replaced = {} /\ crossed = FALSE

\* Mutant: the row is inserted before the file is written.
StartAddUnstored(w, kind, n) ==
  /\ works[w] = Idle /\ issue
  /\ Len(rows) < MaxRows
  /\ Goes(w, [kind |-> kind, step |-> "insert", id |-> 0, was |-> n, listed |-> {},
              copy |-> [file |-> 0, name |-> n, live |-> TRUE]])
  /\ UNCHANGED <<rows, files, uploads, audit, issue, broken, doomed, replaced, crossed>>

\* add_issue_attachment, and the files that come with a comment or an update
\* (_sync_attachments): the first touch the issue after the row is inserted,
\* the others have saved the issue before.
StartAdd(w, kind, n) ==
  /\ works[w] = Idle /\ issue
  /\ Len(rows) < MaxRows
  /\ Goes(w, [kind |-> kind, step |-> "store", id |-> 0, was |-> n, listed |-> {},
              copy |-> [file |-> 0, name |-> n, live |-> TRUE]])
  /\ UNCHANGED <<rows, files, uploads, audit, issue, broken, doomed, replaced, crossed>>

\* update_issue_attachment.  Without a new file the form cleans "file" to the
\* stored one, which the controller takes for an upload: its path becomes the
\* name.  The description is left out: the form has changed it before the
\* snapshot is taken, so that it never differs.
StartReplace(w, a, n) ==
  /\ works[w] = Idle /\ a \in Live
  /\ Goes(w, [kind |-> "update", step |-> "store", id |-> a, was |-> rows[a].name, listed |-> {},
              copy |-> [rows[a] EXCEPT !.name = n]])
  /\ Loads(w, a)
  /\ UNCHANGED <<rows, files, uploads, audit, issue, broken, doomed, replaced>>

StartDescribe(w, a) ==
  /\ works[w] = Idle /\ a \in Live
  /\ Goes(w, [kind |-> "update", step |-> "save", id |-> a, was |-> rows[a].name, listed |-> {},
              copy |-> [rows[a] EXCEPT !.name = rows[a].file]])
  /\ Loads(w, a)
  /\ UNCHANGED <<rows, files, uploads, audit, issue, broken, doomed, replaced>>

\* The file is written before the row is.
StoreUpload(w) ==
  /\ At(w, "store")
  /\ \E f \in 1..MaxStored :
       /\ StoresAs(f)
       /\ Goes(w, [works[w] EXCEPT !.copy.file = f,
                   !.step = IF works[w].kind = "update" THEN "save" ELSE "insert"])
  /\ UNCHANGED <<rows, audit, issue, broken, doomed, replaced, crossed>>

InsertRow(w) ==
  /\ At(w, "insert") /\ issue /\ ~Locked
  /\ Len(rows) < MaxRows
  /\ rows' = Append(rows, works[w].copy)
  /\ Goes(w, [works[w] EXCEPT !.id = Len(rows'),
              !.step = IF works[w].kind = "add" THEN "touch" ELSE "audit"])
  /\ UNCHANGED <<files, uploads, audit, issue, broken, doomed, replaced, crossed>>

\* Mutant: removes the file that has been replaced.
SaveRowUnlinking(w) ==
  LET a == works[w].id
  IN /\ At(w, "save") /\ issue /\ ~Locked
     /\ rows' = [rows EXCEPT ![a] = works[w].copy]
     /\ replaced' = replaced \cup ({rows[a].file} \ {works[w].copy.file})
     /\ files' = files \ ({rows[a].file} \ {works[w].copy.file})
     /\ Goes(w, [works[w] EXCEPT !.step = "touch"])
     /\ UNCHANGED <<uploads, audit, issue, broken, doomed, crossed>>

\* The whole row as it was loaded; a row that is gone is inserted again.  The
\* file that was replaced stays.
SaveRow(w) ==
  LET a == works[w].id
  IN /\ At(w, "save") /\ issue /\ ~Locked
     /\ rows' = [rows EXCEPT ![a] = works[w].copy]
     /\ replaced' = replaced \cup ({rows[a].file} \ {works[w].copy.file})
     /\ Goes(w, [works[w] EXCEPT !.step = "touch"])
     /\ UNCHANGED <<files, uploads, audit, issue, broken, doomed, crossed>>

\* delete_issue_attachment
StartDelete(w, a) ==
  /\ works[w] = Idle /\ a \in Live
  /\ Goes(w, [kind |-> "delete", step |-> "unlink", id |-> a, was |-> rows[a].name,
              listed |-> {}, copy |-> rows[a]])
  /\ doomed' = doomed \cup {a}
  /\ Loads(w, a)
  /\ UNCHANGED <<rows, files, uploads, audit, issue, broken, replaced>>

\* The file it has loaded, which need not be the one the row names by now.
UnlinkFile(w) ==
  /\ At(w, "unlink")
  /\ files' = files \ {works[w].copy.file}
  /\ Goes(w, [works[w] EXCEPT !.step = "row"])
  /\ UNCHANGED <<rows, uploads, audit, issue, broken, doomed, replaced, crossed>>

DeleteRow(w) ==
  /\ At(w, "row") /\ ~Locked
  /\ rows' = [rows EXCEPT ![works[w].id].live = FALSE]
  /\ Goes(w, [works[w] EXCEPT !.step = "touch"])
  /\ UNCHANGED <<files, uploads, audit, issue, broken, doomed, replaced, crossed>>

TouchIssue(w) ==
  /\ At(w, "touch") /\ issue /\ ~Locked
  /\ Goes(w, [works[w] EXCEPT !.step = "audit"])
  /\ UNCHANGED <<rows, files, uploads, audit, issue, broken, doomed, replaced, crossed>>

Event(work) ==
  CASE work.kind \in {"add", "attach"} -> {<<"added", work.id>>}
    [] work.kind = "update" ->
         IF work.was = work.copy.name THEN {} ELSE {<<"updated", work.id>>}
    [] OTHER -> {<<"removed", work.id>>}

RecordChange(w) ==
  /\ At(w, "audit") /\ issue /\ ~Locked
  /\ audit' = audit \cup Event(works[w])
  /\ Finishes(w)
  /\ UNCHANGED <<rows, files, uploads, issue, broken, doomed, replaced, crossed>>

\* A worker dies, touch refuses to save an issue whose assignment is not valid
\* any more, or the issue that a row is to refer to is gone.
Break(w) ==
  /\ works[w] # Idle
  /\ issue => broken < MaxCrashes
  /\ broken' = IF issue THEN broken + 1 ELSE broken
  /\ Finishes(w)
  /\ UNCHANGED <<rows, files, uploads, audit, issue, doomed, replaced, crossed>>

\* IssueAdmin deletes the issue, and the rows with it, but no file.
DeleteIssueRows ==
  /\ issue /\ ~Locked
  /\ issue' = FALSE
  /\ rows' = [a \in DOMAIN rows |-> [rows[a] EXCEPT !.live = FALSE]]
  /\ UNCHANGED <<files, uploads, works, audit, broken, doomed, replaced, crossed>>

\* InstanceResetController.reset lists the files,
ListFiles(w) ==
  /\ works[w] = Idle /\ issue
  /\ Goes(w, [kind |-> "reset", step |-> "rows", id |-> 0, was |-> 1,
              listed |-> {rows[a].file : a \in Live},
              copy |-> [file |-> 0, name |-> 1, live |-> FALSE]])
  /\ doomed' = doomed \cup Live
  /\ UNCHANGED <<rows, files, uploads, audit, issue, broken, replaced, crossed>>

\* then deletes the rows, with those inserted meanwhile,
DeleteAllRows(w) ==
  /\ At(w, "rows") /\ issue /\ ~Locked
  /\ Goes(w, [works[w] EXCEPT !.step = "files"])
  /\ UNCHANGED <<rows, files, uploads, audit, issue, broken, doomed, replaced, crossed>>

\* then the files, which no rollback brings back,
DeleteFiles(w) ==
  /\ At(w, "files")
  /\ files' = files \ works[w].listed
  /\ Goes(w, [works[w] EXCEPT !.step = "commit"])
  /\ UNCHANGED <<rows, uploads, audit, issue, broken, doomed, replaced, crossed>>

\* and then commits.
CommitReset(w) ==
  /\ At(w, "commit")
  /\ issue' = FALSE
  /\ rows' = [a \in DOMAIN rows |-> [rows[a] EXCEPT !.live = FALSE]]
  /\ audit' = {}
  /\ Finishes(w)
  /\ UNCHANGED <<files, uploads, broken, doomed, replaced, crossed>>

FilesNext ==
  \/ \E w \in Writers :
       \/ \E n \in Names, kind \in {"add", "attach"} : StartAdd(w, kind, n)
       \/ \E a \in DOMAIN rows, n \in Names : StartReplace(w, a, n)
       \/ \E a \in DOMAIN rows : StartDescribe(w, a) \/ StartDelete(w, a)
       \/ StoreUpload(w) \/ InsertRow(w) \/ SaveRow(w) \/ UnlinkFile(w) \/ DeleteRow(w)
       \/ TouchIssue(w) \/ RecordChange(w) \/ Break(w)
       \/ ListFiles(w) \/ DeleteAllRows(w) \/ DeleteFiles(w) \/ CommitReset(w)
  \/ DeleteIssueRows

FilesSpec == FilesInit /\ [][FilesNext]_filesVars
-----------------------------------------------------------------------------
(* Correctness.                                                            *)

FilesTypeOK ==
  /\ rows \in Seq([file : 1..MaxStored, name : RowNames, live : BOOLEAN])
  /\ files \subseteq 1..uploads /\ uploads \in 0..MaxStored
  /\ works \in [Writers -> Work \cup {Idle}]
  /\ audit \subseteq {"added", "updated", "removed"} \X (1..MaxRows)
  /\ issue \in BOOLEAN /\ broken \in 0..MaxCrashes
  /\ doomed \subseteq DOMAIN rows /\ replaced \subseteq 1..MaxStored /\ crossed \in BOOLEAN

\* An attachment that nobody has asked to delete has its file, although saves
\* write back rows that were loaded before other saves: no save removes a file
\* (IssueAttachmentController.update).
FilesOutliveSaves == \A a \in Live : rows[a].file \in files \/ a \in doomed

\* As long as every request comes to its end, and no two have loaded the same
\* attachment, only files that were replaced remain without a row.
OnlyReplacedFilesRemain ==
  broken = 0 /\ issue /\ ~crossed =>
    files \subseteq {rows[a].file : a \in Live} \cup replaced
                    \cup {works[w].copy.file : w \in {v \in Writers : works[v] # Idle}}

\* docs/development/issue-lifecycle-and-attachments.md:149: "Attachment uploads
\* should also be auditable." - unless a request ends halfway: its row is
\* committed before its history event.
UploadsAreAudited ==
  broken = 0 /\ issue =>
    \A a \in DOMAIN rows :
      <<"added", a>> \in audit \/ \E w \in Writers : works[w] # Idle /\ works[w].id = a

\* docs/user/n8n-node-reference.md:293: if a file is not replaced, "the node
\* only updates metadata such as the description": the original filename stays
\* that of an upload.
NamesAreOfUploads == \A a \in Live : rows[a].name \in Names

\* Rows have their files, files their rows, and both their history.
FilesFollowRows == FilesOutliveSaves /\ OnlyReplacedFilesRemain /\ UploadsAreAudited
=============================================================================
