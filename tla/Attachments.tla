---------------------------- MODULE Attachments ----------------------------
(***************************************************************************)
(* Files attached to issues: a tab presigns, uploads to the object store   *)
(* and confirms, in three requests; a removal deletes the row and then the *)
(* object.  Rows go with their issue, objects do not.  Nothing spans the   *)
(* database and the store, so every step may be the last one.              *)
(***************************************************************************)
EXTENDS FiniteSets

CONSTANTS Key,     \* object keys: randomUUID() makes each fresh
          File,    \* issues that files are attached to
          IssueOf, \* the issue whose namespace a key is in
          Remover, \* removals that run at the same time
          NoKey    \* no object

ASSUME AttachmentsAssumption == IssueOf \in [Key -> File] /\ NoKey \notin Key

VARIABLES issues,   \* issues that exist
          attached, \* keys with a row in attachments
          objects,  \* keys the store has an object under
          upload,   \* where the upload of a key stands
          removing, \* the attachment a removal has found, and whether its row is gone
          listed,   \* keys the dialog of an issue shows a download link for
          orphaned  \* history: keys whose object a named failure has left behind

attachmentVars == <<issues, attached, objects, upload, removing, listed, orphaned>>

Stages == {"none", "presigned", "put", "confirming", "over"}

\* The type invariant.
AttachmentsTypeOK ==
  /\ issues \subseteq File
  /\ attached \subseteq Key /\ objects \subseteq Key /\ orphaned \subseteq Key
  /\ \A k \in attached : IssueOf[k] \in issues
  /\ upload \in [Key -> Stages]
  /\ \A k \in attached : upload[k] = "over"
  /\ removing \in [Remover -> (Key \X {"found", "deleted"}) \cup {<<NoKey, "found">>}]
  /\ listed \subseteq Key

Unused == <<NoKey, "found">>

AttachmentsInit ==
  /\ issues = File
  /\ attached = {} /\ objects = {} /\ listed = {} /\ orphaned = {}
  /\ upload = [k \in Key |-> "none"]
  /\ removing = [r \in Remover |-> Unused]
----------------------------------------------------------------------------
(* uploadAttachment.                                                       *)

Advance(k, from, to) == upload[k] = from /\ upload' = [upload EXCEPT ![k] = to]

Presign(k) ==
  /\ IssueOf[k] \in issues
  /\ Advance(k, "none", "presigned")
  /\ UNCHANGED <<issues, attached, objects, removing, listed, orphaned>>

\* The answer says whether the object was stored; without one fetch rejects, as
\* after a failure, whatever the store did.
Put(k) ==
  /\ upload[k] = "presigned"
  /\ \/ /\ Advance(k, "presigned", "put")
        /\ objects' = objects \cup {k} /\ UNCHANGED orphaned
     \/ /\ Advance(k, "presigned", "over")
        /\ \/ UNCHANGED <<objects, orphaned>>
           \/ objects' = objects \cup {k} /\ orphaned' = orphaned \cup {k}
  /\ UNCHANGED <<issues, attached, removing, listed>>

\* confirm: the issue is looked up, and the key's prefix compared with it.
Confirm(k) ==
  /\ upload[k] = "put"
  /\ IF IssueOf[k] \in issues
       THEN Advance(k, "put", "confirming") /\ UNCHANGED orphaned
       ELSE Advance(k, "put", "over") /\ orphaned' = orphaned \cup {k}
  /\ UNCHANGED <<issues, attached, objects, removing, listed>>

\* The insert, whose foreign key holds an issue that still exists.  Onwards the
\* request may fail and the row stays.
ConfirmInsert(k) ==
  /\ Advance(k, "confirming", "over")
  /\ IF IssueOf[k] \in issues
       THEN attached' = attached \cup {k} /\ UNCHANGED orphaned
       ELSE orphaned' = orphaned \cup {k} /\ UNCHANGED attached
  /\ UNCHANGED <<issues, objects, removing, listed>>

\* The tab is closed, a request is lost or fails before it has an effect.
UploadAbandoned(k) ==
  /\ upload[k] \in {"presigned", "put", "confirming"}
  /\ upload' = [upload EXCEPT ![k] = "over"]
  /\ orphaned' = IF k \in objects THEN orphaned \cup {k} ELSE orphaned
  /\ UNCHANGED <<issues, attached, objects, removing, listed>>

\* useAttachments: the rows, each with a download link.
ListFiles(i) ==
  /\ listed' = {k \in listed : IssueOf[k] # i} \cup {k \in attached : IssueOf[k] = i}
  /\ UNCHANGED <<issues, attached, objects, upload, removing, orphaned>>
----------------------------------------------------------------------------
(* remove.                                                                 *)

\* A link that is shown is removed: its row is looked up.
RemoveFind(r, k) ==
  /\ removing[r] = Unused
  /\ k \in listed \cap attached
  /\ removing' = [removing EXCEPT ![r] = <<k, "found">>]
  /\ UNCHANGED <<issues, attached, objects, upload, listed, orphaned>>

\* Mutant: the object goes first, and the row with it in a later call.
RemoveObjectFirst(r) ==
  LET k == removing[r][1] IN
    /\ removing[r] # Unused /\ removing[r][2] = "found"
    /\ objects' = objects \ {k}
    /\ removing' = [removing EXCEPT ![r] = <<k, "deleted">>]
    /\ UNCHANGED <<issues, attached, upload, listed, orphaned>>
\* Mutant: the row is deleted, its object forgotten.
RemoveRowOnly(r) ==
  /\ removing[r] # Unused
  /\ attached' = attached \ {removing[r][1]}
  /\ removing' = [removing EXCEPT ![r] = Unused]
  /\ UNCHANGED <<issues, objects, upload, listed, orphaned>>


\* The row is deleted by its id; the request fails when it is gone already.
RemoveRow(r) ==
  LET k == removing[r][1] IN
    /\ removing[r] # Unused /\ removing[r][2] = "found"
    /\ attached' = attached \ {k}
    /\ removing' = [removing EXCEPT ![r] = IF k \in attached THEN <<k, "deleted">> ELSE Unused]
    /\ UNCHANGED <<issues, objects, upload, listed, orphaned>>

\* StorageService.delete logs a failure and goes on.
RemoveObject(r) ==
  LET k == removing[r][1] IN
    /\ removing[r][2] = "deleted"
    /\ \/ objects' = objects \ {k} /\ UNCHANGED orphaned
       \/ orphaned' = orphaned \cup {k} /\ UNCHANGED objects
    /\ removing' = [removing EXCEPT ![r] = Unused]
    /\ UNCHANGED <<issues, attached, upload, listed>>

\* A call throws or the process dies.
RemoveFails(r) ==
  /\ removing[r] # Unused
  /\ removing' = [removing EXCEPT ![r] = Unused]
  /\ orphaned' = IF removing[r][2] = "deleted" THEN orphaned \cup {removing[r][1]} ELSE orphaned
  /\ UNCHANGED <<issues, attached, objects, upload, listed>>

\* The issue is deleted: its rows cascade, its objects stay.
DeleteIssue(i) ==
  LET gone == {k \in attached : IssueOf[k] = i} IN
    /\ i \in issues
    /\ issues' = issues \ {i}
    /\ attached' = attached \ gone
    /\ orphaned' = orphaned \cup gone
    /\ UNCHANGED <<objects, upload, removing, listed>>

AttachmentsNext ==
  \/ \E k \in Key : Presign(k) \/ Put(k) \/ Confirm(k) \/ ConfirmInsert(k) \/ UploadAbandoned(k)
  \/ \E i \in File : ListFiles(i) \/ DeleteIssue(i)
  \/ \E r \in Remover : \/ RemoveRow(r) \/ RemoveObject(r) \/ RemoveFails(r)
                        \/ \E k \in Key : RemoveFind(r, k)

AttachmentsSpec == AttachmentsInit /\ [][AttachmentsNext]_attachmentVars
----------------------------------------------------------------------------
(* Properties.                                                             *)

\* "persist the row after the direct-to-S3 upload succeeds": an attachment that
\* is listed by the database can be downloaded, whatever removals race.
RowsHaveObjects == attached \subseteq objects

\* Every object belongs to a row, to an upload or to a removal under way, or was
\* left behind by a step that failed, a tab that was closed, or a deleted issue:
\* no order of successful requests leaks one.
OrphansAreExplained ==
  \A k \in objects :
    \/ k \in attached \cup orphaned
    \/ upload[k] \in {"put", "confirming"}
    \/ \E r \in Remover : removing[r] = <<k, "deleted">>

\* An object is deleted once at most: two removals of one attachment never both
\* get past the deletion of its row.
OneRemovalWins ==
  \A r, s \in Remover :
    removing[r] # Unused /\ removing[r][2] = "deleted" /\ removing[s] = removing[r] => r = s
=============================================================================
