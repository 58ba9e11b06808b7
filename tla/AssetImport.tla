----------------------------- MODULE AssetImport -----------------------------
(***************************************************************************)
(* Bulk import of assets (inventory/imports.py) beside the rest of the     *)
(* inventory.  A file is previewed, its rows are kept in a batch with the  *)
(* errors that were found, and the batch is committed by a later request.  *)
(* commit_asset_import() holds the batch FOR UPDATE; it looks for asset    *)
(* ids that exist by now and inserts its rows afterwards.                  *)
(*                                                                         *)
(* An asset id stands for its asset: forms that rename an asset are left   *)
(* out, and so are files that name an id twice.                            *)
(***************************************************************************)
EXTENDS AssetCustody

CONSTANTS
    Importers,      \* request workers that serve imports
    Batches,        \* ids of import batches
    Listable,       \* bound: assets that files name in their rows
    FilesTried      \* bound: the files that are previewed

VARIABLES
    batch,          \* AssetImportBatch rows, by id
    importing,      \* the batches that each importer's request has locked
    source          \* history: the batches that created an asset

importVars == <<batch, importing, source>>
allVars    == <<vars, importVars>>

NoBatch == [status |-> "none"]

ImportInit ==
    /\ Init
    /\ batch = [b \in Batches |-> NoBatch]
    /\ importing = [w \in Importers |-> {}]
    /\ source = [a \in Assets |-> {}]

-----------------------------------------------------------------------------
(* The rows of a file, and the errors that _normalize_rows() finds.        *)
Files ==
    UNION {[ids -> [status : FormStatuses, parent : {{}} \cup {{p} : p \in Assets}]] :
               ids \in (SUBSET Listable) \ {{}}}

ASSUME ImportAssumption == Listable \subseteq Assets /\ FilesTried \subseteq Files

LineOfFile(rows, a) ==
    LET up[n \in 0 .. Cardinality(Assets)] ==
            IF n = 0 THEN rows[a].parent
            ELSE UNION {rows[p].parent : p \in up[n - 1] \cap DOMAIN rows}
    IN  up

(* The walk from a row never meets an asset twice: it leaves the file.     *)
CyclicRow(rows, a) == LineOfFile(rows, a)[Cardinality(Assets)] \cap DOMAIN rows # {}

FileErrorsUnwalked(rows) ==
    {a \in DOMAIN rows :
        \/ Known(a)
        \/ rows[a].status = "checked_out"
        \/ ~ rows[a].parent \subseteq Stock \cup DOMAIN rows}

FileErrors(rows) ==
    {a \in DOMAIN rows :
        \/ Known(a)
        \/ rows[a].status = "checked_out"
        \/ ~ rows[a].parent \subseteq Stock \cup DOMAIN rows
        \/ CyclicRow(rows, a)}

(* Nothing reads the rows of a batch that was refused at its preview: only *)
(* that there were errors is kept of them.                                 *)
Refused == [status |-> "preview", faulty |-> TRUE, rows |-> << >>]

Previewed(rows) ==
    IF FileErrors(rows) = {}
    THEN [status |-> "preview", faulty |-> FALSE, rows |-> rows]
    ELSE Refused

PreviewImport(b) ==
    /\ batch[b] = NoBatch
    /\ \E rows \in FilesTried : batch' = [batch EXCEPT ![b] = Previewed(rows)]
    /\ UNCHANGED <<vars, importing, source>>

(* commit_asset_import(): the batch is locked, is still a preview and has  *)
(* no errors, and none of its assets was created since.                    *)
CommitCheck(w, b) ==
    /\ importing[w] = {}
    /\ \A v \in Importers : b \notin importing[v]
    /\ batch[b].status = "preview"
    /\ ~ batch[b].faulty
    /\ DOMAIN batch[b].rows \cap Stock = {}
    /\ importing' = [importing EXCEPT ![w] = {b}]
    /\ UNCHANGED <<vars, batch, source>>

(* asset_id is UNIQUE: an id that was inserted since fails the request.    *)
InsertableAlways(rows) == TRUE
Insertable(rows) == DOMAIN rows \cap Stock = {}

CommitInsert(w, b) ==
    /\ b \in importing[w]
    /\ LET rows == batch[b].rows
       IN  /\ Insertable(rows)
           /\ asset' = [a \in Assets |-> IF a \in DOMAIN rows
                                         THEN NewAsset(rows[a].status, rows[a].parent)
                                         ELSE asset[a]]
           /\ source' = [a \in Assets |-> IF a \in DOMAIN rows THEN source[a] \cup {b}
                                                               ELSE source[a]]
    /\ batch' = [batch EXCEPT ![b].status = "committed"]
    /\ importing' = [importing EXCEPT ![w] = {}]
    /\ UNCHANGED <<checkout, form, forced>>

(* The request fails, on the constraint or for another reason.             *)
CommitFails(w) ==
    /\ importing[w] # {}
    /\ importing' = [importing EXCEPT ![w] = {}]
    /\ UNCHANGED <<vars, batch, source>>

-----------------------------------------------------------------------------
(* A batch is imported whole and once: a committed one created every one   *)
(* of its assets and no other request did, and one that was refused or     *)
(* failed half-way created none.                                           *)
ImportedWhole ==
    \A b \in Batches :
        /\ batch[b].status = "committed"
               => \A a \in DOMAIN batch[b].rows : Known(a) /\ source[a] = {b}
        /\ batch[b].status # "committed" => \A a \in Assets : b \notin source[a]

(* "This parent would create a circular asset relationship."  Nothing but  *)
(* the write of a form can close a circle of parents: an import adds none, *)
(* whatever forms, creations and other batches did since its preview.      *)
CirclesOnlyFromForms ==
    [][(ParentsAcyclic /\ ~ ParentsAcyclic') =>
           \E w \in Editors : form[w] # Idle /\ form'[w] = Idle]_allVars
=============================================================================
