---------------------------- MODULE AssetCustody ----------------------------
(***************************************************************************)
(* Equipment custody of backend/apps/inventory: accountable checkout of    *)
(* assets, return, accountability holds, maintenance entries, and the      *)
(* asset forms (POST and PATCH of an asset).                               *)
(*                                                                         *)
(* The services of inventory/services.py read the rows they change FOR     *)
(* UPDATE and keep them locked until the request commits; a query that had *)
(* to wait returns the new version of a row, so each service is one step.  *)
(* The asset form takes no lock: it reads an asset, validates the request  *)
(* against what it read, and writes the whole row later.                   *)
(***************************************************************************)
EXTENDS Naturals, FiniteSets

CONSTANTS
    Editors,        \* request workers that serve the asset form
    Assets,         \* asset ids; assets are never deleted
    Stocked,        \* assets that are in the table at the start
    Checkouts,      \* checkout ids (UUIDs: never used twice)
    FormStatuses    \* bound: statuses that forms and import files ask for

Statuses   == {"in_service", "spare", "checked_out", "maintenance", "retired"}
Conditions == {"normal", "damaged", "lost", "disputed"}

ASSUME CustodyAssumption ==
    /\ IsFiniteSet(Assets)
    /\ Stocked \subseteq Assets
    /\ FormStatuses \subseteq Statuses

VARIABLES
    asset,          \* Asset rows: status and parent, by asset id
    checkout,       \* AssetCheckout rows, by id
    form,           \* what each editor's request is about to write
    forced          \* history: assets that a form moved into or out of the
                    \* status checked_out

vars == <<asset, checkout, form, forced>>

-----------------------------------------------------------------------------
(* A parent is a set of at most one asset.                                 *)
NoAsset    == [status |-> "none", parent |-> {}]
NoCheckout == [state |-> "none"]
Idle       == [step |-> "idle"]
NewAsset(status, parent) == [status |-> status, parent |-> parent]

Known(a)   == asset[a].status # "none"
Stock      == {a \in Assets : Known(a)}
Parents    == {{}} \cup {{p} : p \in Stock}

Open(c)    == checkout[c].state \in {"active", "hold"}
Active(c)  == checkout[c].state = "active"
Closed(c)  == checkout[c].state = "returned"

(* UNIQUE (asset) among the open checkouts: one_open_checkout_per_asset.   *)
(* Here and below, a definition that stands before another with the same   *)
(* parameters and a longer name is that one with a slip, and is used in no *)
(* specification: its substitution shows that a property notices.          *)
OutUnchecked(a) == FALSE
Out(a) == \E c \in Checkouts : Open(c) /\ checkout[c].asset = a

SetStatus(a, status) == asset' = [asset EXCEPT ![a].status = status]

-----------------------------------------------------------------------------
Init ==
    /\ \E status \in [Stocked -> FormStatuses \ {"checked_out"}] :
           asset = [a \in Assets |-> IF a \in Stocked THEN NewAsset(status[a], {})
                                                      ELSE NoAsset]
    /\ checkout = [c \in Checkouts |-> NoCheckout]
    /\ form = [w \in Editors |-> Idle]
    /\ forced = {}

-----------------------------------------------------------------------------
(* checkout_assets(): every asset of the request is available, or nothing  *)
(* is checked out.  A checkout keeps the driver's license, encrypted.      *)
Available(a) == asset[a].status \in {"in_service", "spare"}

NewCheckout(a) == [state |-> "active", asset |-> a, license |-> TRUE]

CheckoutAssets ==
    \E assets \in (SUBSET Stock) \ {{}} : \E id \in [assets -> Checkouts] :
        /\ \A a \in assets : Available(a) /\ ~ Out(a)
        /\ \A a \in assets : checkout[id[a]] = NoCheckout
        /\ \A a, b \in assets : id[a] = id[b] => a = b
        /\ checkout' = [c \in Checkouts |->
               IF \E a \in assets : id[a] = c
               THEN NewCheckout(CHOOSE a \in assets : id[a] = c)
               ELSE checkout[c]]
        /\ asset' = [a \in Assets |->
               IF a \in assets THEN [asset[a] EXCEPT !.status = "checked_out"]
                               ELSE asset[a]]
        /\ UNCHANGED <<form, forced>>

(* The license goes with the checkout's closing; a hold keeps it.          *)
ReturnedKeeping(row) == [row EXCEPT !.state = "returned"]
Returned(row) == [row EXCEPT !.state = "returned", !.license = FALSE]
OnHold(row) == [row EXCEPT !.state = "hold"]

(* return_asset(): a checkout on hold may be returned again.               *)
ReturnableAlways(c) == checkout[c] # NoCheckout
Returnable(c) == Open(c)

ReturnNormal(c) ==
    /\ Returnable(c)
    /\ checkout' = [checkout EXCEPT ![c] = Returned(@)]
    /\ SetStatus(checkout[c].asset, "in_service")
    /\ UNCHANGED <<form, forced>>

ReturnOnHold(c, condition) ==
    /\ Returnable(c)
    /\ condition # "normal"
    /\ checkout' = [checkout EXCEPT ![c] = OnHold(@)]
    /\ SetStatus(checkout[c].asset,
                 IF condition = "damaged" THEN "maintenance" ELSE "checked_out")
    /\ UNCHANGED <<form, forced>>

(* resolve_accountability_hold().                                          *)
ResolveHold(c, status) ==
    /\ checkout[c].state = "hold"
    /\ status \in {"in_service", "maintenance", "retired"}
    /\ checkout' = [checkout EXCEPT ![c] = Returned(@)]
    /\ SetStatus(checkout[c].asset, status)
    /\ UNCHANGED <<form, forced>>

(* record_maintenance(): a checked-out asset keeps its status.             *)
MaintainedAlways(a, return_to_service) ==
    IF return_to_service THEN "in_service" ELSE "maintenance"

Maintained(a, return_to_service) ==
    IF asset[a].status = "checked_out" THEN "checked_out"
    ELSE IF return_to_service THEN "in_service" ELSE "maintenance"

RecordMaintenance(a, return_to_service) ==
    /\ Known(a)
    /\ SetStatus(a, Maintained(a, return_to_service))
    /\ UNCHANGED <<checkout, form, forced>>

-----------------------------------------------------------------------------
(* POST of an asset.  asset_id is UNIQUE; a new asset is not checked out.  *)
CreateAsset(a) ==
    /\ ~ Known(a)
    /\ \E status \in FormStatuses \ {"checked_out"}, parent \in Parents :
           asset' = [asset EXCEPT ![a] = NewAsset(status, parent)]
    /\ UNCHANGED <<checkout, form, forced>>

(* validate_status(): a checked-out asset keeps its status.                *)
AllowedStatuses(a) ==
    IF asset[a].status = "checked_out" THEN {"checked_out"}
    ELSE FormStatuses \cup {asset[a].status}

(* Line[n] is the n-th ancestor of what parents starts from; no line of    *)
(* different assets is longer than the table.                              *)
Line(parents) ==
    LET up[n \in 0 .. Cardinality(Assets)] ==
            IF n = 0 THEN parents ELSE UNION {asset[p].parent : p \in up[n - 1]}
    IN  up

Ancestors(parents) == UNION {Line(parents)[n] : n \in 0 .. Cardinality(Assets)}

(* validate_parent() walks up from the new parent.                         *)
AllowedParents(a, parents) == {p \in parents : a \notin Ancestors(p)}

FormRead(w, a) ==
    /\ form[w] = Idle
    /\ Known(a)
    /\ \E status \in AllowedStatuses(a),
          parent \in AllowedParents(a, Parents) \cup {asset[a].parent} :
           form' = [form EXCEPT ![w] = [step |-> "write", object |-> a,
                                        row |-> NewAsset(status, parent)]]
    /\ UNCHANGED <<asset, checkout, forced>>

(* Model.save() writes every field of the row that was read.               *)
FormWrite(w) ==
    /\ form[w] # Idle
    /\ LET a == form[w].object
       IN  /\ asset' = [asset EXCEPT ![a] = form[w].row]
           /\ forced' = IF asset[a].status = "checked_out"
                              <=> form[w].row.status = "checked_out"
                        THEN forced ELSE forced \cup {a}
    /\ form' = [form EXCEPT ![w] = Idle]
    /\ UNCHANGED checkout

(* The request fails between its read and its commit.                      *)
FormAbort(w) ==
    /\ form[w] # Idle
    /\ form' = [form EXCEPT ![w] = Idle]
    /\ UNCHANGED <<asset, checkout, forced>>

-----------------------------------------------------------------------------
ServiceStep ==
    \/ CheckoutAssets
    \/ \E c \in Checkouts : ReturnNormal(c)
    \/ \E c \in Checkouts, condition \in Conditions : ReturnOnHold(c, condition)
    \/ \E c \in Checkouts, status \in Statuses : ResolveHold(c, status)
    \/ \E a \in Assets, return_to_service \in BOOLEAN :
           RecordMaintenance(a, return_to_service)
    \/ \E a \in Assets : CreateAsset(a)

FormStep ==
    \E w \in Editors : FormWrite(w) \/ FormAbort(w) \/ \E a \in Assets : FormRead(w, a)

Next == ServiceStep \/ FormStep

Spec == Init /\ [][Next]_vars

-----------------------------------------------------------------------------
AssetRows    == [status : Statuses, parent : SUBSET Assets]
CheckoutRows ==
    [state : {"active", "hold", "returned"}, asset : Assets, license : BOOLEAN]

(* The tables hold assets and checkouts, the forms what they will write.   *)
TypeOK ==
    /\ asset \in [Assets -> {NoAsset} \cup AssetRows]
    /\ checkout \in [Checkouts -> {NoCheckout} \cup CheckoutRows]
    /\ form \in [Editors -> {Idle} \cup
           [step : {"write"}, object : Assets, row : AssetRows]]
    /\ forced \subseteq Assets

(* Nobody is accountable for an asset that somebody else still answers     *)
(* for: an asset on hold, or shown as available by a stale form, is not    *)
(* issued again before its checkout is closed.                             *)
OneOpenCheckout ==
    \A c, d \in Checkouts :
        Open(c) /\ Open(d) /\ checkout[c].asset = checkout[d].asset => c = d

(* docs/operations/asset-management.md: the license is kept while the      *)
(* checkout is open, holds included, and is gone once it is closed.        *)
LicenseKeptWhileOpen ==
    \A c \in Checkouts : checkout[c] # NoCheckout => (checkout[c].license <=> Open(c))

(* A closed checkout is the record of what happened: no late return, hold  *)
(* or resolution touches it again, and no open one disappears.             *)
ClosedForGood ==
    [][\A c \in Checkouts :
           /\ Closed(c) => checkout'[c] = checkout[c]
           /\ Open(c) => checkout'[c] # NoCheckout
                         /\ checkout'[c].asset = checkout[c].asset]_vars

(* Inventory and accountability agree through every sequence of checkout,  *)
(* return, hold, resolution, maintenance and edit: an asset that somebody  *)
(* has is checked out, and an asset is checked out only while somebody     *)
(* answers for it.  The one exception is an asset that a form moved into   *)
(* or out of checked_out.                                                  *)
AgreesOn(a) ==
    /\ (\E c \in Checkouts : Active(c) /\ checkout[c].asset = a)
           => asset[a].status = "checked_out"
    /\ asset[a].status = "checked_out" => Out(a)

CustodyAgrees == \A a \in Assets \ forced : AgreesOn(a)

-----------------------------------------------------------------------------
(* No asset is its own ancestor.  validate_parent() sees to it as long as  *)
(* no two forms run at once; nothing stops two forms that were each        *)
(* validated before the other was written.                                 *)
ParentsAcyclic == \A a \in Assets : a \notin Ancestors(asset[a].parent)
=============================================================================
