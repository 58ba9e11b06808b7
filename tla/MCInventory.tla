---------------------------- MODULE MCInventory ----------------------------
(***************************************************************************)
(* A small instance of Inventory.  Checkouts, editors, batches, importers  *)
(* and the assets that only files name are interchangeable.                *)
(***************************************************************************)
EXTENDS Inventory, TLC

Symmetry ==
    UNION {Permutations(s) :
              s \in {Checkouts, Editors, Batches, Importers, Listable}}

(* Files of one row or two: under the stocked asset, under each other, in  *)
(* a circle of one or two, or with a status that files may not ask for.    *)
FileRow(status, parent) == [status |-> status, parent |-> parent]
MCFiles ==
    UNION {{[x \in {a} |-> FileRow("in_service", Stocked)],
            [x \in {a} |-> FileRow("checked_out", {})],
            [x \in {a} |-> FileRow("in_service", {a})],
            [x \in Listable |-> FileRow("in_service", IF x = a THEN Stocked ELSE {a})],
            [x \in Listable |-> FileRow("in_service", Listable \ {x})]} :
               a \in Listable}

InventoryUntouched ==
    /\ Stock = Stocked
    /\ \A a \in Stock : asset[a] = NewAsset("in_service", {})
    /\ \A b \in Batches : batch[b] = NoBatch
    /\ \A c \in Checkouts : checkout[c] = NoCheckout
    /\ \A w \in Editors : form[w] = Idle

(* Custody of two loose assets beside two forms, or two batches that       *)
(* create two assets beside one form: checkouts and batches meet only in   *)
(* the asset rows, which the forms write too.  Or the files of an asset,   *)
(* which nothing else of the inventory reads.                              *)
OneStory ==
    \/ InventoryUntouched
    \/ /\ begun = {}
       /\ \A b \in Batches : batch[b] = NoBatch
       /\ Cardinality(Stock) <= 2
       /\ \A a \in Stock : asset[a].parent = {}
    \/ /\ begun = {}
       /\ \A c \in Checkouts : checkout[c] = NoCheckout
       /\ Cardinality({w \in Editors : form[w] # Idle}) <= 1
       /\ \A a \in Stock : asset[a].status = "in_service"
       /\ \A w \in Editors : form[w] = Idle \/ form[w].row.status = "in_service"
=============================================================================
