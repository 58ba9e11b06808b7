----------------------------- MODULE Inventory -----------------------------
(***************************************************************************)
(* The inventory: the custody of assets, their bulk import, and the files  *)
(* that are attached to them.                                              *)
(***************************************************************************)
EXTENDS AssetImport, AssetAttachments

inventoryVars == <<allVars, attachmentVars>>

InventoryInit == ImportInit /\ AttachmentsInit

Custody == UNCHANGED <<importVars, attachmentVars>>
Import == UNCHANGED attachmentVars
Attaching == UNCHANGED allVars

InventoryNext ==
    \/ CheckoutAssets /\ Custody
    \/ \E c \in Checkouts : ReturnNormal(c) /\ Custody
    \/ \E c \in Checkouts, condition \in Conditions :
           ReturnOnHold(c, condition) /\ Custody
    \/ \E c \in Checkouts, status \in Statuses : ResolveHold(c, status) /\ Custody
    \/ \E a \in Assets, return_to_service \in BOOLEAN :
           RecordMaintenance(a, return_to_service) /\ Custody
    \/ \E a \in Assets : CreateAsset(a) /\ Custody
    \/ \E w \in Editors, a \in Assets : FormRead(w, a) /\ Custody
    \/ \E w \in Editors : FormWrite(w) /\ Custody
    \/ \E w \in Editors : FormAbort(w) /\ Custody
    \/ \E b \in Batches : PreviewImport(b) /\ Import
    \/ \E w \in Importers, b \in Batches : CommitCheck(w, b) /\ Import
    \/ \E w \in Importers, b \in Batches : CommitInsert(w, b) /\ Import
    \/ \E w \in Importers : CommitFails(w) /\ Import
    \/ \E w \in Workers, t \in Attachments : StoreFile(w, t) /\ Attaching
    \/ \E w \in Workers : UploadCommit(w) /\ Attaching
    \/ \E w \in Workers : UploadFails(w) /\ Attaching
    \/ \E w \in Workers, t \in Attachments : DeleteRead(w, t) /\ Attaching
    \/ \E w \in Workers : RemoveFile(w) /\ Attaching
    \/ \E w \in Workers : DeleteCommit(w) /\ Attaching
    \/ \E w \in Workers : AttachmentAbort(w) /\ Attaching

InventorySpec == InventoryInit /\ [][InventoryNext]_inventoryVars
=============================================================================
