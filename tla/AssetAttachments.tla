-------------------------- MODULE AssetAttachments --------------------------
(***************************************************************************)
(* Files and photos of an asset (inventory/attachments.py): a row in the   *)
(* database and a file in a storage volume.  The row belongs to the        *)
(* request's transaction; what the request does to the volume stays, even  *)
(* when the transaction is rolled back.                                    *)
(***************************************************************************)
CONSTANTS
    Workers,        \* request workers
    Attachments     \* attachment ids (UUIDs: never used twice)

VARIABLES
    row,            \* AssetAttachment: "none", "live" or "deleted", by id
    files,          \* the attachments whose file is in the volume
    flagged,        \* deletions audited with file_delete_failed
    begun,          \* ids that an upload has used
    request         \* where each worker's request is

attachmentVars == <<row, files, flagged, begun, request>>

NoRequest == [step |-> "idle"]
At(w, step) == request[w].step = step
Become(w, r) == request' = [request EXCEPT ![w] = r]

AttachmentsInit ==
    /\ row = [t \in Attachments |-> "none"]
    /\ files = {}
    /\ flagged = {}
    /\ begun = {}
    /\ request = [w \in Workers |-> NoRequest]

-----------------------------------------------------------------------------
(* create_attachment(): the file is stored, then the row and its audit     *)
(* event are inserted and the request commits.                             *)
StoreFile(w, t) ==
    /\ At(w, "idle")
    /\ t \notin begun
    /\ begun' = begun \cup {t}
    /\ files' = files \cup {t}
    /\ Become(w, [step |-> "stored", object |-> t])
    /\ UNCHANGED <<row, flagged>>

UploadCommit(w) ==
    /\ At(w, "stored")
    /\ row' = [row EXCEPT ![request[w].object] = "live"]
    /\ Become(w, NoRequest)
    /\ UNCHANGED <<files, flagged, begun>>

(* The insert or the audit event raises: the file is taken back, unless    *)
(* the volume refuses.                                                     *)
UploadFails(w) ==
    /\ At(w, "stored")
    /\ files' \in {files, files \ {request[w].object}}
    /\ Become(w, NoRequest)
    /\ UNCHANGED <<row, flagged, begun>>

-----------------------------------------------------------------------------
(* destroy(): get_object() finds a live row.                               *)
DeleteRead(w, t) ==
    /\ At(w, "idle")
    /\ row[t] = "live"
    /\ Become(w, [step |-> "delete", object |-> t])
    /\ UNCHANGED <<row, files, flagged, begun>>

(* delete_attachment(): the UPDATE locks the row until the request ends,   *)
(* then the file is removed; a refusal of the volume is noted.  Here and   *)
(* below, a definition that stands before another with the same parameters *)
(* and a longer name is that one with a slip: no specification uses it,    *)
(* and its substitution shows that a property notices.                     *)
RowHeld(t) == \E v \in Workers : At(v, "removed") /\ request[v].object = t

RemovedSilently(t) == {[files |-> files \ {t}, failed |-> FALSE],
                       [files |-> files, failed |-> FALSE]}
Removed(t) == {[files |-> files \ {t}, failed |-> FALSE],
               [files |-> files, failed |-> TRUE]}

RemoveFile(w) ==
    /\ At(w, "delete")
    /\ LET t == request[w].object
       IN  /\ ~ RowHeld(t)
           /\ \E outcome \in Removed(t) :
                  /\ files' = outcome.files
                  /\ Become(w, [step |-> "removed", object |-> t,
                                failed |-> outcome.failed])
    /\ UNCHANGED <<row, flagged, begun>>

SoftDeleted == "deleted"

DeleteCommit(w) ==
    /\ At(w, "removed")
    /\ row' = [row EXCEPT ![request[w].object] = SoftDeleted]
    /\ flagged' = IF request[w].failed THEN flagged \cup {request[w].object} ELSE flagged
    /\ Become(w, NoRequest)
    /\ UNCHANGED <<files, begun>>

(* A request ends without a commit: its audit event collides with another  *)
(* request's (see AuditChain), or the worker dies.                         *)
AttachmentAbort(w) ==
    /\ ~ At(w, "idle")
    /\ Become(w, NoRequest)
    /\ UNCHANGED <<row, files, flagged, begun>>

-----------------------------------------------------------------------------
(* docs/operations/asset-management.md: a deletion removes the stored      *)
(* file.  A file that outlives its deleted row was reported in the audit   *)
(* event of a deletion, however often and concurrently it was deleted.     *)
LeftoversReported == \A t \in files : row[t] = "deleted" => t \in flagged
=============================================================================
