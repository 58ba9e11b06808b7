-------------------------- MODULE InventoryProofs --------------------------
(***************************************************************************)
(* Custody, for every number of assets, checkouts and editors, and then    *)
(* the inventory as a whole, for every number of batches, files and        *)
(* workers: batches are imported whole and once, one person answers for an *)
(* asset, no file outlives its deleted row without a report, and no import *)
(* closes a circle of parents.                                             *)
(***************************************************************************)
EXTENDS Inventory, FiniteSetTheorems, WellFoundedInduction, TLAPS

USE CustodyAssumption

(* A step of the services or of the asset form, by what it does to the     *)
(* checkouts.                                                              *)
LEMMA CheckoutSteps ==
    ASSUME TypeOK, [Next]_vars
    PROVE  \/ checkout' = checkout
           \/ CheckoutAssets
           \/ \E c \in Checkouts :
                  /\ Open(c)
                  /\ \/ checkout' = [checkout EXCEPT ![c] = Returned(@)]
                     \/ checkout' = [checkout EXCEPT ![c] = OnHold(@)]
<1>1. CASE UNCHANGED vars
  BY <1>1 DEF vars
<1>2. CASE CheckoutAssets
  BY <1>2
<1>3. CASE \E c \in Checkouts : ReturnNormal(c)
  BY <1>3 DEF ReturnNormal, Returnable
<1>4. CASE \E c \in Checkouts, condition \in Conditions : ReturnOnHold(c, condition)
  BY <1>4 DEF ReturnOnHold, Returnable
<1>5. CASE \E c \in Checkouts, status \in Statuses : ResolveHold(c, status)
  BY <1>5 DEF ResolveHold, Open
<1>6. CASE \E a \in Assets, r \in BOOLEAN : RecordMaintenance(a, r)
  BY <1>6 DEF RecordMaintenance
<1>7. CASE \E a \in Assets : CreateAsset(a)
  BY <1>7 DEF CreateAsset
<1>8. CASE FormStep
  BY <1>8 DEF FormStep, FormRead, FormWrite, FormAbort
<1> QED
  BY <1>1, <1>2, <1>3, <1>4, <1>5, <1>6, <1>7, <1>8 DEF Next, ServiceStep

(* What checkout_assets() does, row by row: id names the checkout that each *)
(* asset of the request gets.                                              *)
Issues(assets, id) ==
    /\ \A a \in assets : /\ ~ Out(a)
                         /\ id[a] \in Checkouts
                         /\ checkout[id[a]] = NoCheckout
                         /\ checkout'[id[a]] = NewCheckout(a)
                         /\ asset'[a].status = "checked_out"
    /\ \A c \in Checkouts : (\A a \in assets : id[a] # c) => checkout'[c] = checkout[c]
    /\ \A a \in Assets \ assets : asset'[a] = asset[a]

LEMMA IssuedRows ==
    ASSUME TypeOK, CheckoutAssets
    PROVE  \E assets \in SUBSET Assets : \E id \in [assets -> Checkouts] : Issues(assets, id)
<1>1. PICK assets \in (SUBSET Stock) \ {{}} : \E id \in [assets -> Checkouts] :
        /\ \A a \in assets : Available(a) /\ ~ Out(a)
        /\ \A a \in assets : checkout[id[a]] = NoCheckout
        /\ \A a, b \in assets : id[a] = id[b] => a = b
        /\ checkout' = [d \in Checkouts |->
               IF \E a \in assets : id[a] = d
               THEN NewCheckout(CHOOSE a \in assets : id[a] = d)
               ELSE checkout[d]]
        /\ asset' = [a \in Assets |->
               IF a \in assets THEN [asset[a] EXCEPT !.status = "checked_out"]
                               ELSE asset[a]]
  BY DEF CheckoutAssets
<1>2. PICK id \in [assets -> Checkouts] :
        /\ \A a \in assets : Available(a) /\ ~ Out(a)
        /\ \A a \in assets : checkout[id[a]] = NoCheckout
        /\ \A a, b \in assets : id[a] = id[b] => a = b
        /\ checkout' = [d \in Checkouts |->
               IF \E a \in assets : id[a] = d
               THEN NewCheckout(CHOOSE a \in assets : id[a] = d)
               ELSE checkout[d]]
        /\ asset' = [a \in Assets |->
               IF a \in assets THEN [asset[a] EXCEPT !.status = "checked_out"]
                               ELSE asset[a]]
  BY <1>1
<1>3. assets \in SUBSET Assets
  BY DEF Stock
<1>4. ASSUME NEW a \in assets
      PROVE  id[a] \in Checkouts /\ checkout'[id[a]] = NewCheckout(a)
  <2>1. (CHOOSE b \in assets : id[b] = id[a]) = a
    BY <1>2
  <2>2. id[a] \in Checkouts
    OBVIOUS
  <2> QED
    BY <1>2, <2>1, <2>2
<1>5. ASSUME NEW a \in assets PROVE asset'[a].status = "checked_out"
  BY <1>2, <1>3 DEF TypeOK, AssetRows, NoAsset
<1>6. ASSUME NEW c \in Checkouts, \A a \in assets : id[a] # c
      PROVE  checkout'[c] = checkout[c]
  BY <1>2, <1>6
<1>7. ASSUME NEW a \in Assets \ assets PROVE asset'[a] = asset[a]
  BY <1>2
<1>8. Issues(assets, id)
  BY <1>2, <1>4, <1>5, <1>6, <1>7 DEF Issues
<1> QED
  BY <1>3, <1>8

-----------------------------------------------------------------------------
(* A checkout row after a step is what it was, a new one, or an open one   *)
(* that was returned or put on hold.                                       *)
LEMMA RowSteps ==
    ASSUME TypeOK, [Next]_vars, NEW c \in Checkouts
    PROVE  \/ checkout'[c] = checkout[c]
           \/ /\ checkout[c] = NoCheckout
              /\ \E a \in Assets : checkout'[c] = NewCheckout(a) /\ ~ Out(a)
           \/ /\ Open(c)
              /\ \/ checkout'[c] = Returned(checkout[c])
                 \/ checkout'[c] = OnHold(checkout[c])
<1>1. CASE CheckoutAssets
  <2>1. PICK assets \in SUBSET Assets : \E id \in [assets -> Checkouts] : Issues(assets, id)
    BY <1>1, IssuedRows
  <2>2. PICK id \in [assets -> Checkouts] : Issues(assets, id)
    BY <2>1
  <2> QED
    BY <2>2 DEF Issues
<1>2. CASE checkout' = checkout
  BY <1>2
<1>3. ASSUME NEW d \in Checkouts, Open(d),
             \/ checkout' = [checkout EXCEPT ![d] = Returned(@)]
             \/ checkout' = [checkout EXCEPT ![d] = OnHold(@)]
      PROVE  \/ checkout'[c] = checkout[c]
             \/ /\ Open(c)
                /\ \/ checkout'[c] = Returned(checkout[c])
                   \/ checkout'[c] = OnHold(checkout[c])
  BY <1>3 DEF TypeOK
<1> QED
  BY <1>1, <1>2, <1>3, CheckoutSteps

(* The rows that the services write.                                       *)
LEMMA WrittenRows ==
    /\ \A a \in Assets : NewCheckout(a) \in CheckoutRows
    /\ \A k \in CheckoutRows :
           /\ OnHold(k) \in CheckoutRows
           /\ OnHold(k).state = "hold"
           /\ OnHold(k).asset = k.asset
           /\ OnHold(k).license = k.license
           /\ Returned(k) \in CheckoutRows
           /\ Returned(k).state = "returned"
           /\ Returned(k).asset = k.asset
           /\ Returned(k).license = FALSE
<1>1. \A a \in Assets : NewCheckout(a) \in CheckoutRows
  BY DEF NewCheckout, CheckoutRows
<1>2. ASSUME NEW k \in CheckoutRows
      PROVE  /\ OnHold(k) \in CheckoutRows
             /\ OnHold(k).state = "hold"
             /\ OnHold(k).asset = k.asset
             /\ OnHold(k).license = k.license
  BY DEF OnHold, CheckoutRows
<1>3. ASSUME NEW k \in CheckoutRows
      PROVE  /\ Returned(k) \in CheckoutRows
             /\ Returned(k).state = "returned"
             /\ Returned(k).asset = k.asset
             /\ Returned(k).license = FALSE
  <2> DEFINE half == [k EXCEPT !.state = "returned"]
  <2>1. half \in CheckoutRows /\ half.state = "returned" /\ half.asset = k.asset
    BY DEF CheckoutRows
  <2>2. Returned(k) = [half EXCEPT !.license = FALSE]
    BY DEF Returned
  <2> HIDE DEF half
  <2> QED
    BY <2>1, <2>2 DEF CheckoutRows
<1> QED
  BY <1>1, <1>2, <1>3

(* A row that is not empty has the fields of a checkout.                   *)
LEMMA Rows ==
    ASSUME TypeOK, NEW c \in Checkouts
    PROVE  checkout[c] = NoCheckout \/ checkout[c] \in CheckoutRows
BY DEF TypeOK

LEMMA OpenRow ==
    ASSUME TypeOK, NEW c \in Checkouts, Open(c)
    PROVE  checkout[c] \in CheckoutRows
BY Rows DEF Open, NoCheckout

(* The checkouts keep their type.                                          *)
LEMMA RowTypes ==
    ASSUME TypeOK, [Next]_vars, NEW c \in Checkouts
    PROVE  checkout'[c] \in {NoCheckout} \cup CheckoutRows
BY RowSteps, WrittenRows, Rows, OpenRow

(* Every step leaves a function of checkouts.                              *)
LEMMA CheckoutFunction ==
    ASSUME TypeOK, [Next]_vars
    PROVE  checkout' = [c \in Checkouts |-> checkout'[c]]
BY CheckoutSteps DEF TypeOK, CheckoutAssets

(* The assets that a step writes.                                          *)
LEMMA AssetTypes ==
    ASSUME TypeOK, [Next]_vars
    PROVE  asset' \in [Assets -> {NoAsset} \cup AssetRows]
<1> USE DEF TypeOK
<1>0. ASSUME NEW a \in Assets, NEW s \in Statuses, SetStatus(a, s)
      PROVE  asset' \in [Assets -> {NoAsset} \cup AssetRows]
  <2>1. [asset[a] EXCEPT !.status = s] \in AssetRows
    BY DEF AssetRows, NoAsset
  <2> QED
    BY <1>0, <2>1 DEF SetStatus
<1>1. CASE UNCHANGED vars
  BY <1>1 DEF vars
<1>2. CASE CheckoutAssets
  <2>1. PICK assets \in SUBSET Assets :
            asset' = [a \in Assets |->
               IF a \in assets THEN [asset[a] EXCEPT !.status = "checked_out"]
                               ELSE asset[a]]
    BY <1>2 DEF CheckoutAssets, Stock
  <2>2. \A a \in Assets : [asset[a] EXCEPT !.status = "checked_out"] \in AssetRows
    BY DEF AssetRows, NoAsset, Statuses
  <2> QED
    BY <2>1, <2>2
<1>3. CASE \E c \in Checkouts : ReturnNormal(c)
  BY <1>0, <1>3, OpenRow DEF ReturnNormal, Returnable, Statuses, CheckoutRows
<1>4. CASE \E c \in Checkouts, condition \in Conditions : ReturnOnHold(c, condition)
  BY <1>0, <1>4, OpenRow DEF ReturnOnHold, Returnable, Statuses, CheckoutRows
<1>5. CASE \E c \in Checkouts, status \in Statuses : ResolveHold(c, status)
  BY <1>0, <1>5, OpenRow DEF ResolveHold, Open, CheckoutRows
<1>6. CASE \E a \in Assets, r \in BOOLEAN : RecordMaintenance(a, r)
  BY <1>0, <1>6 DEF RecordMaintenance, Maintained, Statuses
<1>7. CASE \E a \in Assets : CreateAsset(a)
  <2>1. \A s \in FormStatuses, p \in Parents : NewAsset(s, p) \in AssetRows
    BY DEF NewAsset, AssetRows, Parents, Stock
  <2> QED
    BY <1>7, <2>1 DEF CreateAsset
<1>8. CASE \E w \in Editors : FormWrite(w)
  BY <1>8 DEF FormWrite, Idle
<1>9. CASE \E w \in Editors : FormAbort(w) \/ \E a \in Assets : FormRead(w, a)
  BY <1>9 DEF FormAbort, FormRead
<1> QED
  BY <1>1, <1>2, <1>3, <1>4, <1>5, <1>6, <1>7, <1>8, <1>9
     DEF Next, ServiceStep, FormStep

(* What a form is about to write is a row.                                 *)
LEMMA FormTypes ==
    ASSUME TypeOK, [Next]_vars
    PROVE  form' \in [Editors -> {Idle} \cup
               [step : {"write"}, object : Assets, row : AssetRows]]
<1> USE DEF TypeOK
<1>1. CASE UNCHANGED vars
  BY <1>1 DEF vars
<1>2. CASE ServiceStep
  BY <1>2 DEF ServiceStep, CheckoutAssets, ReturnNormal, ReturnOnHold, ResolveHold,
              RecordMaintenance, CreateAsset
<1>3. CASE \E w \in Editors : FormWrite(w) \/ FormAbort(w)
  BY <1>3 DEF FormWrite, FormAbort
<1>4. ASSUME NEW w \in Editors, NEW a \in Assets, FormRead(w, a)
      PROVE  form' \in [Editors -> {Idle} \cup
                 [step : {"write"}, object : Assets, row : AssetRows]]
  <2>1. PICK s \in AllowedStatuses(a), p \in AllowedParents(a, Parents) \cup {asset[a].parent} :
            form' = [form EXCEPT ![w] = [step |-> "write", object |-> a,
                                         row |-> NewAsset(s, p)]]
    BY <1>4 DEF FormRead
  <2>2. asset[a] \in AssetRows
    BY <1>4 DEF FormRead, Known, NoAsset
  <2>3. s \in Statuses
    BY <2>2 DEF AllowedStatuses, AssetRows, Statuses
  <2>4. p \in SUBSET Assets
    BY <2>2 DEF AllowedParents, Parents, Stock, AssetRows
  <2> QED
    BY <2>1, <2>3, <2>4 DEF NewAsset, AssetRows
<1> QED
  BY <1>1, <1>2, <1>3, <1>4 DEF Next, FormStep

LEMMA ForcedType == ASSUME TypeOK, [Next]_vars PROVE forced' \subseteq Assets
<1>1. CASE UNCHANGED forced
  BY <1>1 DEF TypeOK
<1>2. CASE \E w \in Editors : FormWrite(w)
  BY <1>2 DEF FormWrite, TypeOK, Idle
<1> QED
  BY <1>1, <1>2 DEF Next, vars, ServiceStep, FormStep, CheckoutAssets, ReturnNormal,
     ReturnOnHold, ResolveHold, RecordMaintenance, CreateAsset, FormRead, FormAbort

LEMMA InitType == ASSUME Init PROVE TypeOK
<1>1. PICK status \in [Stocked -> FormStatuses \ {"checked_out"}] :
        asset = [a \in Assets |-> IF a \in Stocked THEN NewAsset(status[a], {}) ELSE NoAsset]
  BY DEF Init
<1>2. \A a \in Stocked : NewAsset(status[a], {}) \in AssetRows
  BY DEF NewAsset, AssetRows
<1>3. asset \in [Assets -> {NoAsset} \cup AssetRows]
  BY <1>1, <1>2
<1> QED
  BY <1>3 DEF Init, TypeOK

LEMMA TypeStep == ASSUME TypeOK, [Next]_vars PROVE TypeOK'
<1>1. checkout' \in [Checkouts -> {NoCheckout} \cup CheckoutRows]
  BY RowTypes, CheckoutFunction
<1> QED
  BY <1>1, AssetTypes, FormTypes, ForcedType DEF TypeOK

(* The inventory's tables keep their types whatever the services and the   *)
(* asset form do.                                                          *)
THEOREM CustodyTypeCorrect == Spec => []TypeOK
<1>1. Init => TypeOK
  BY InitType
<1>2. TypeOK /\ [Next]_vars => TypeOK'
  BY TypeStep
<1> QED
  BY <1>1, <1>2, PTL DEF Spec

-----------------------------------------------------------------------------
(* Only a checkout request opens a checkout.                               *)
LEMMA StaysOpen ==
    ASSUME TypeOK, [Next]_vars, ~ CheckoutAssets, NEW c \in Checkouts, Open(c)'
    PROVE  Open(c) /\ checkout'[c].asset = checkout[c].asset
<1>1. CASE checkout' = checkout
  BY <1>1 DEF Open
<1>2. ASSUME NEW d \in Checkouts, Open(d),
             \/ checkout' = [checkout EXCEPT ![d] = Returned(@)]
             \/ checkout' = [checkout EXCEPT ![d] = OnHold(@)]
      PROVE  Open(c) /\ checkout'[c].asset = checkout[c].asset
  <2>1. CASE c = d
    <3>1. checkout'[c] = Returned(checkout[c]) \/ checkout'[c] = OnHold(checkout[c])
      BY <1>2, <2>1 DEF TypeOK
    <3> QED
      BY <1>2, <2>1, <3>1, OpenRow, WrittenRows
  <2>2. CASE c # d
    <3>1. checkout'[c] = checkout[c]
      BY <1>2, <2>2 DEF TypeOK
    <3> QED
      BY <3>1 DEF Open
  <2> QED
    BY <2>1, <2>2
<1> QED
  BY <1>1, <1>2, CheckoutSteps

LEMMA OneOpenStep ==
    ASSUME TypeOK, OneOpenCheckout, [Next]_vars
    PROVE  OneOpenCheckout'
<1> SUFFICES ASSUME NEW c \in Checkouts, NEW d \in Checkouts, Open(c)', Open(d)',
                    checkout'[c].asset = checkout'[d].asset
             PROVE  c = d
  BY DEF OneOpenCheckout
<1>1. CASE ~ CheckoutAssets
  BY <1>1, StaysOpen DEF OneOpenCheckout
<1>2. CASE CheckoutAssets
  <2>1. PICK assets \in SUBSET Assets : \E id \in [assets -> Checkouts] : Issues(assets, id)
    BY <1>2, IssuedRows
  <2>2. PICK id \in [assets -> Checkouts] : Issues(assets, id)
    BY <2>1
  <2>3. ASSUME NEW e \in Checkouts, \A a \in assets : id[a] # e, Open(e)'
        PROVE  Open(e) /\ checkout'[e] = checkout[e]
    BY <2>2, <2>3 DEF Issues, Open
  <2>4. ASSUME NEW a \in assets
        PROVE  checkout'[id[a]].asset = a /\ ~ Out(a)
    <3>1. checkout'[id[a]] = NewCheckout(a) /\ ~ Out(a)
      BY <2>2 DEF Issues
    <3>2. NewCheckout(a).asset = a
      BY DEF NewCheckout
    <3> QED
      BY <3>1, <3>2
  <2>5. ASSUME NEW a \in assets, NEW e \in Checkouts, \A b \in assets : id[b] # e,
               Open(e)', checkout'[e].asset = a
        PROVE  FALSE
    BY <2>3, <2>4, <2>5 DEF Out
  <2>6. CASE (\A a \in assets : id[a] # c) /\ (\A a \in assets : id[a] # d)
    BY <2>3, <2>6 DEF OneOpenCheckout
  <2>7. CASE \E a \in assets : id[a] = c
    BY <2>4, <2>5, <2>7
  <2>8. CASE \E a \in assets : id[a] = d
    BY <2>4, <2>5, <2>8
  <2> QED
    BY <2>6, <2>7, <2>8
<1> QED
  BY <1>1, <1>2

(* An asset has one person to answer for it, although the asset form may   *)
(* show it as available and a maintenance entry return it to service.      *)
THEOREM OneAccountable == Spec => []OneOpenCheckout
<1>1. Init => TypeOK /\ OneOpenCheckout
  BY InitType DEF Init, OneOpenCheckout, Open, NoCheckout
<1>2. TypeOK /\ OneOpenCheckout /\ [Next]_vars => TypeOK' /\ OneOpenCheckout'
  BY TypeStep, OneOpenStep
<1> QED
  BY <1>1, <1>2, PTL DEF Spec

-----------------------------------------------------------------------------
LEMMA LicenseStep ==
    ASSUME TypeOK, LicenseKeptWhileOpen, [Next]_vars
    PROVE  LicenseKeptWhileOpen'
<1> SUFFICES ASSUME NEW c \in Checkouts, checkout'[c] # NoCheckout
             PROVE  checkout'[c].license <=> Open(c)'
  BY DEF LicenseKeptWhileOpen
<1>1. CASE checkout'[c] = checkout[c]
  BY <1>1 DEF LicenseKeptWhileOpen, Open
<1>2. CASE \E a \in Assets : checkout'[c] = NewCheckout(a)
  BY <1>2 DEF NewCheckout, Open
<1>3. CASE Open(c) /\ checkout'[c] = Returned(checkout[c])
  BY <1>3, OpenRow, WrittenRows DEF Open
<1>4. CASE Open(c) /\ checkout'[c] = OnHold(checkout[c])
  <2>1. checkout[c].license
    BY <1>4 DEF LicenseKeptWhileOpen, Open, NoCheckout
  <2>2. checkout[c] \in CheckoutRows
    BY <1>4, OpenRow
  <2> QED
    BY <1>4, <2>1, <2>2, WrittenRows DEF Open
<1> QED
  BY <1>1, <1>2, <1>3, <1>4, RowSteps

(* A driver's license is stored exactly as long as its checkout is open.   *)
THEOREM LicensesKeptWhileOpen == Spec => []LicenseKeptWhileOpen
<1>1. Init => TypeOK /\ LicenseKeptWhileOpen
  BY InitType DEF Init, LicenseKeptWhileOpen
<1>2. TypeOK /\ LicenseKeptWhileOpen /\ [Next]_vars => TypeOK' /\ LicenseKeptWhileOpen'
  BY TypeStep, LicenseStep
<1> QED
  BY <1>1, <1>2, PTL DEF Spec

(* No step touches a closed checkout, or loses an open one.                *)
THEOREM CheckoutsClosedForGood == Spec => ClosedForGood
<1> DEFINE Kept == \A c \in Checkouts :
                       /\ Closed(c) => checkout'[c] = checkout[c]
                       /\ Open(c) => checkout'[c] # NoCheckout
                                     /\ checkout'[c].asset = checkout[c].asset
<1>1. Init => TypeOK
  BY InitType
<1>2. TypeOK /\ [Next]_vars => TypeOK'
  BY TypeStep
<1>3. TypeOK /\ [Next]_vars => [Kept]_vars
  <2> SUFFICES ASSUME TypeOK, [Next]_vars, NEW c \in Checkouts
               PROVE  /\ Closed(c) => checkout'[c] = checkout[c]
                      /\ Open(c) => checkout'[c] # NoCheckout
                                    /\ checkout'[c].asset = checkout[c].asset
    OBVIOUS
  <2>1. ASSUME Closed(c) PROVE checkout'[c] = checkout[c]
    BY <2>1, RowSteps DEF Closed, Open, NoCheckout
  <2>2. ASSUME Open(c)
        PROVE  checkout'[c] # NoCheckout /\ checkout'[c].asset = checkout[c].asset
    <3>1. checkout[c] \in CheckoutRows /\ checkout[c] # NoCheckout
      BY <2>2, OpenRow DEF Open, NoCheckout
    <3>2. \A k \in CheckoutRows : k # NoCheckout
      BY DEF CheckoutRows, NoCheckout
    <3> QED
      BY <2>2, <3>1, <3>2, RowSteps, WrittenRows
  <2> QED
    BY <2>1, <2>2
<1> QED
  BY <1>1, <1>2, <1>3, PTL DEF Spec, ClosedForGood, Kept

-----------------------------------------------------------------------------
(* A step in which neither an asset's status nor its checkouts changed.    *)
LEMMA Untouched ==
    ASSUME NEW a \in Assets, AgreesOn(a), asset'[a].status = asset[a].status,
           \A c \in Checkouts :
               checkout'[c] = checkout[c] \/ (checkout'[c].asset # a /\ ~ Open(c))
               \/ (checkout'[c].asset # a /\ checkout[c].asset # a)
    PROVE  AgreesOn(a)'
<1>1. ASSUME NEW c \in Checkouts, Active(c)', checkout'[c].asset = a
      PROVE  asset'[a].status = "checked_out"
  BY <1>1 DEF AgreesOn, Active
<1>2. ASSUME asset'[a].status = "checked_out"
      PROVE  Out(a)'
  <2>1. PICK c \in Checkouts : Open(c) /\ checkout[c].asset = a
    BY <1>2 DEF AgreesOn, Out
  <2>2. checkout'[c] = checkout[c]
    BY <2>1
  <2> QED
    BY <2>1, <2>2 DEF Out, Open
<1> QED
  BY <1>1, <1>2 DEF AgreesOn

(* Closing the open checkout of an asset, or putting it on hold.           *)
LEMMA ClosingAgrees ==
    ASSUME TypeOK, OneOpenCheckout, CustodyAgrees,
           NEW c \in Checkouts, Open(c), NEW s \in Statuses,
           SetStatus(checkout[c].asset, s),
           \/ checkout' = [checkout EXCEPT ![c] = Returned(@)] /\ s # "checked_out"
           \/ checkout' = [checkout EXCEPT ![c] = OnHold(@)],
           UNCHANGED forced
    PROVE  CustodyAgrees'
<1>0. checkout[c] \in CheckoutRows
  BY OpenRow
<1>1. PICK b \in Assets : b = checkout[c].asset
  BY <1>0 DEF CheckoutRows
<1>2. checkout'[c] = Returned(checkout[c]) \/ checkout'[c] = OnHold(checkout[c])
  BY DEF TypeOK
<1>3. checkout'[c].asset = b /\ checkout'[c].state \in {"returned", "hold"}
  BY <1>0, <1>1, <1>2, WrittenRows
<1>4. \A d \in Checkouts \ {c} : checkout'[d] = checkout[d]
  BY DEF TypeOK
<1>5. asset'[b].status = s
  BY <1>1 DEF SetStatus, TypeOK, AssetRows, NoAsset
<1>6. \A a \in Assets \ {b} : asset'[a] = asset[a]
  BY <1>1 DEF SetStatus, TypeOK
<1>7. ASSUME NEW d \in Checkouts, Active(d)', checkout'[d].asset = b
      PROVE  FALSE
  <2>1. d # c
    BY <1>3, <1>7 DEF Active
  <2>2. Open(d) /\ checkout[d].asset = b
    BY <1>4, <1>7, <2>1 DEF Active, Open
  <2> QED
    BY <1>1, <2>1, <2>2 DEF OneOpenCheckout
<1>8. ASSUME s = "checked_out" PROVE Out(b)'
  <2>1. checkout'[c] = OnHold(checkout[c])
    BY <1>8 DEF TypeOK
  <2> QED
    BY <1>0, <1>3, <2>1, WrittenRows DEF Out, Open
<1>9. AgreesOn(b)'
  BY <1>5, <1>7, <1>8 DEF AgreesOn
<1>10. ASSUME NEW a \in Assets \ forced, a # b PROVE AgreesOn(a)'
  <2>1. AgreesOn(a)
    BY DEF CustodyAgrees
  <2>2. \A d \in Checkouts :
            checkout'[d] = checkout[d] \/ (checkout'[d].asset # a /\ checkout[d].asset # a)
    BY <1>1, <1>3, <1>4, <1>10
  <2> QED
    BY <1>6, <1>10, <2>1, <2>2, Untouched
<1> QED
  BY <1>9, <1>10 DEF CustodyAgrees

LEMMA IssuingAgrees ==
    ASSUME TypeOK, CustodyAgrees, CheckoutAssets
    PROVE  CustodyAgrees'
<1>1. PICK assets \in SUBSET Assets : \E id \in [assets -> Checkouts] : Issues(assets, id)
  BY IssuedRows
<1>2. PICK id \in [assets -> Checkouts] : Issues(assets, id)
  BY <1>1
<1>3. ASSUME NEW a \in assets PROVE AgreesOn(a)'
  <2>1. id[a] \in Checkouts /\ checkout'[id[a]] = NewCheckout(a)
    BY <1>2 DEF Issues
  <2>2. asset'[a].status = "checked_out"
    BY <1>2 DEF Issues
  <2>3. Out(a)'
    BY <2>1 DEF Out, Open, NewCheckout
  <2> QED
    BY <2>2, <2>3 DEF AgreesOn
<1>4. ASSUME NEW a \in Assets \ forced, a \notin assets PROVE AgreesOn(a)'
  <2>1. AgreesOn(a)
    BY DEF CustodyAgrees
  <2>2. ASSUME NEW c \in Checkouts
        PROVE  checkout'[c] = checkout[c] \/ (checkout'[c].asset # a /\ ~ Open(c))
    <3>1. CASE \A b \in assets : id[b] # c
      BY <1>2, <3>1 DEF Issues
    <3>2. ASSUME NEW b \in assets, id[b] = c
          PROVE  checkout'[c].asset # a /\ ~ Open(c)
      <4>1. checkout'[c] = NewCheckout(b) /\ checkout[c] = NoCheckout
        BY <1>2, <3>2 DEF Issues
      <4> QED
        BY <1>4, <4>1 DEF NewCheckout, NoCheckout, Open
    <3> QED
      BY <3>1, <3>2
  <2>3. asset'[a] = asset[a]
    BY <1>2, <1>4 DEF Issues
  <2> QED
    BY <2>1, <2>2, <2>3, Untouched
<1>5. UNCHANGED forced
  BY DEF CheckoutAssets
<1> QED
  BY <1>3, <1>4, <1>5 DEF CustodyAgrees

(* A step that leaves the checkouts alone and writes one asset, into or    *)
(* out of checked_out only if it is recorded as forced.                    *)
LEMMA StatusAgrees ==
    ASSUME TypeOK, CustodyAgrees, UNCHANGED checkout, NEW b \in Assets,
           \A a \in Assets \ {b} : asset'[a] = asset[a],
           forced \subseteq forced',
           b \notin forced' =>
               (asset'[b].status = "checked_out" <=> asset[b].status = "checked_out")
    PROVE  CustodyAgrees'
BY DEF CustodyAgrees, AgreesOn, Out, Open, Active

LEMMA AgreesStep ==
    ASSUME TypeOK, OneOpenCheckout, CustodyAgrees, [Next]_vars
    PROVE  CustodyAgrees'
<1>1. CASE UNCHANGED vars
  BY <1>1 DEF vars, CustodyAgrees, AgreesOn, Out, Open, Active
<1>2. CASE CheckoutAssets
  BY <1>2, IssuingAgrees
<1>3. ASSUME NEW c \in Checkouts, ReturnNormal(c) PROVE CustodyAgrees'
  BY <1>3, ClosingAgrees DEF ReturnNormal, Returnable, Statuses
<1>4. ASSUME NEW c \in Checkouts, NEW condition \in Conditions, ReturnOnHold(c, condition)
      PROVE  CustodyAgrees'
  <2>1. (IF condition = "damaged" THEN "maintenance" ELSE "checked_out") \in Statuses
    BY DEF Statuses
  <2> QED
    BY <1>4, <2>1, ClosingAgrees DEF ReturnOnHold, Returnable
<1>5. ASSUME NEW c \in Checkouts, NEW status \in Statuses, ResolveHold(c, status)
      PROVE  CustodyAgrees'
  <2>1. Open(c) /\ status # "checked_out"
    BY <1>5 DEF ResolveHold, Open
  <2> QED
    BY <1>5, <2>1, ClosingAgrees DEF ResolveHold
<1>6. ASSUME NEW a \in Assets, NEW r \in BOOLEAN, RecordMaintenance(a, r)
      PROVE  CustodyAgrees'
  <2>1. asset'[a].status = Maintained(a, r)
    BY <1>6 DEF RecordMaintenance, SetStatus, TypeOK, AssetRows, NoAsset
  <2>2. \A b \in Assets \ {a} : asset'[b] = asset[b]
    BY <1>6 DEF RecordMaintenance, SetStatus, TypeOK
  <2> QED
    BY <1>6, <2>1, <2>2, StatusAgrees DEF Maintained, RecordMaintenance
<1>7. ASSUME NEW a \in Assets, CreateAsset(a) PROVE CustodyAgrees'
  <2>1. asset'[a].status # "checked_out" /\ asset[a].status # "checked_out"
    BY <1>7 DEF CreateAsset, NewAsset, Known, TypeOK
  <2>2. \A b \in Assets \ {a} : asset'[b] = asset[b]
    BY <1>7 DEF CreateAsset, TypeOK
  <2> QED
    BY <1>7, <2>1, <2>2, StatusAgrees DEF CreateAsset
<1>8. ASSUME NEW w \in Editors, FormWrite(w) PROVE CustodyAgrees'
  <2>1. PICK a \in Assets : a = form[w].object
    BY <1>8 DEF FormWrite, TypeOK, Idle
  <2>2. /\ asset'[a] = form[w].row
        /\ \A b \in Assets \ {a} : asset'[b] = asset[b]
    BY <1>8, <2>1 DEF FormWrite, TypeOK
  <2>3. /\ forced \subseteq forced'
        /\ a \notin forced' =>
               (form[w].row.status = "checked_out" <=> asset[a].status = "checked_out")
    BY <1>8, <2>1 DEF FormWrite
  <2> QED
    BY <1>8, <2>2, <2>3, StatusAgrees DEF FormWrite
<1>9. ASSUME NEW w \in Editors, FormAbort(w) \/ \E a \in Assets : FormRead(w, a)
      PROVE  CustodyAgrees'
  BY <1>9 DEF FormAbort, FormRead, CustodyAgrees, AgreesOn, Out, Open, Active
<1> QED
  BY <1>1, <1>2, <1>3, <1>4, <1>5, <1>6, <1>7, <1>8, <1>9 DEF Next, ServiceStep, FormStep

(* The status of an asset tells whether somebody has it, through every     *)
(* order of services and edits: only a form that itself moves an asset     *)
(* into or out of checked_out breaks that.                                 *)
THEOREM CustodyKept == Spec => []CustodyAgrees
<1>1. Init => TypeOK /\ OneOpenCheckout /\ CustodyAgrees
  <2> SUFFICES ASSUME Init PROVE TypeOK /\ OneOpenCheckout /\ CustodyAgrees
    OBVIOUS
  <2>1. \A c \in Checkouts : checkout[c].state = "none"
    BY DEF Init, NoCheckout
  <2>2. \A a \in Assets : asset[a].status # "checked_out"
    BY DEF Init, NewAsset, NoAsset
  <2> QED
    BY <2>1, <2>2, InitType DEF OneOpenCheckout, CustodyAgrees, AgreesOn, Open, Active
<1>2. TypeOK /\ OneOpenCheckout /\ CustodyAgrees /\ [Next]_vars
          => TypeOK' /\ OneOpenCheckout' /\ CustodyAgrees'
  BY TypeStep, OneOpenStep, AgreesStep
<1> QED
  BY <1>1, <1>2, PTL DEF Spec

-----------------------------------------------------------------------------
(* A batch that may be committed has rows of assets that are not checked   *)
(* out; only its importer has it locked, as a preview.  What an import     *)
(* created is still there, so the id that a commit finds free came from    *)
(* no batch yet.                                                           *)
ValidFiles == {rows \in Files : \A a \in DOMAIN rows : rows[a].status # "checked_out"}

BatchRows == [status : {"preview", "committed"}, faulty : {FALSE}, rows : ValidFiles]

BatchTypes ==
    /\ batch = [b \in Batches |-> batch[b]]
    /\ importing = [w \in Importers |-> importing[w]]
    /\ source = [a \in Assets |-> source[a]]
    /\ \A b \in Batches : batch[b] \in {NoBatch, Refused} \cup BatchRows

LockedPreviews ==
    /\ \A w \in Importers : \A b \in importing[w] :
           b \in Batches /\ batch[b].status = "preview" /\ batch[b] \in BatchRows
    /\ \A v, w \in Importers : v # w => importing[v] \cap importing[w] = {}

SourcesKnown == \A a \in Assets : source[a] # {} => Known(a)

ImportInv ==
    TypeOK /\ BatchTypes /\ LockedPreviews /\ SourcesKnown /\ ImportedWhole

LEMMA FileTypes ==
    ASSUME NEW rows \in Files
    PROVE  /\ DOMAIN rows \subseteq Assets
           /\ \A a \in DOMAIN rows :
                  NewAsset(rows[a].status, rows[a].parent) \in AssetRows
<1>1. PICK ids \in (SUBSET Listable) \ {{}} :
        rows \in [ids -> [status : FormStatuses, parent : {{}} \cup {{p} : p \in Assets}]]
  BY DEF Files
<1>2. DOMAIN rows = ids /\ ids \subseteq Assets
  BY <1>1, ImportAssumption
<1>3. ASSUME NEW a \in ids
      PROVE  NewAsset(rows[a].status, rows[a].parent) \in AssetRows
  <2>1. rows[a] \in [status : FormStatuses, parent : {{}} \cup {{p} : p \in Assets}]
    BY <1>1
  <2>2. rows[a].status \in FormStatuses /\ rows[a].parent \in SUBSET Assets
    BY <2>1
  <2> QED
    BY <2>2, CustodyAssumption DEF NewAsset, AssetRows
<1> QED
  BY <1>2, <1>3

(* Assets are never deleted, and no service or form empties a status.      *)
LEMMA KnownStays ==
    ASSUME TypeOK, [Next]_vars, NEW a \in Assets, Known(a)
    PROVE  Known(a)'
<1>1. asset[a] \in AssetRows
  BY DEF TypeOK, Known, NoAsset
<1>2. ASSUME NEW b \in Assets, NEW s \in Statuses, SetStatus(b, s)
      PROVE  Known(a)'
  <2>1. asset'[a] = IF a = b THEN [asset[a] EXCEPT !.status = s] ELSE asset[a]
    BY <1>2 DEF SetStatus, TypeOK
  <2> QED
    BY <1>1, <2>1 DEF AssetRows, Known, Statuses
<1>3. CASE CheckoutAssets
  <2>1. PICK assets \in SUBSET Assets :
            asset' = [b \in Assets |->
               IF b \in assets THEN [asset[b] EXCEPT !.status = "checked_out"]
                               ELSE asset[b]]
    BY <1>3 DEF CheckoutAssets, Stock
  <2> QED
    BY <1>1, <2>1 DEF AssetRows, Known
<1>4. CASE \E c \in Checkouts :
              \/ ReturnNormal(c)
              \/ \E condition \in Conditions : ReturnOnHold(c, condition)
              \/ \E s \in Statuses : ResolveHold(c, s)
  <2>1. PICK c \in Checkouts : Open(c) /\ \E s \in Statuses : SetStatus(checkout[c].asset, s)
    BY <1>4 DEF ReturnNormal, ReturnOnHold, ResolveHold, Returnable, Open, Statuses
  <2>2. checkout[c].asset \in Assets
    BY <2>1, OpenRow DEF CheckoutRows
  <2> QED
    BY <1>2, <2>1, <2>2
<1>5. CASE \E b \in Assets, r \in BOOLEAN : RecordMaintenance(b, r)
  BY <1>2, <1>5 DEF RecordMaintenance, Maintained, Statuses
<1>6. CASE \E b \in Assets : CreateAsset(b)
  <2>1. PICK b \in Assets : ~ Known(b) /\ \E new : asset' = [asset EXCEPT ![b] = new]
    BY <1>6 DEF CreateAsset
  <2> QED
    BY <2>1 DEF Known, TypeOK
<1>7. CASE \E w \in Editors : FormWrite(w)
  <2>1. PICK b \in Assets, new \in AssetRows : asset' = [asset EXCEPT ![b] = new]
    BY <1>7 DEF FormWrite, TypeOK, Idle
  <2>2. asset'[a] \in AssetRows
    BY <1>1, <2>1 DEF TypeOK
  <2> QED
    BY <2>2 DEF AssetRows, Known, Statuses
<1>8. CASE UNCHANGED asset
  BY <1>8 DEF Known
<1> QED
  BY <1>3, <1>4, <1>5, <1>6, <1>7, <1>8
     DEF Next, ServiceStep, FormStep, FormAbort, FormRead, vars

-----------------------------------------------------------------------------
LEMMA ImportInvInit == InventoryInit => ImportInv
<1> SUFFICES ASSUME InventoryInit PROVE ImportInv
  OBVIOUS
<1>1. TypeOK
  BY InitType DEF InventoryInit, ImportInit
<1>2. BatchTypes /\ LockedPreviews /\ SourcesKnown
  BY DEF InventoryInit, ImportInit, BatchTypes, LockedPreviews, SourcesKnown
<1>3. ImportedWhole
  BY DEF InventoryInit, ImportInit, ImportedWhole, NoBatch
<1> QED
  BY <1>1, <1>2, <1>3 DEF ImportInv

(* A service or a form leaves batches alone, and what they created known.  *)
LEMMA CustodyStepInv ==
    ASSUME ImportInv, [Next]_vars, UNCHANGED importVars
    PROVE  ImportInv'
<1>1. TypeOK'
  BY TypeStep DEF ImportInv
<1>2. \A a \in Assets : Known(a) => Known(a)'
  BY KnownStays DEF ImportInv
<1>3. BatchTypes' /\ LockedPreviews'
  BY DEF ImportInv, BatchTypes, LockedPreviews, importVars
<1>4. SourcesKnown'
  BY <1>2 DEF ImportInv, SourcesKnown, importVars
<1>5. ASSUME NEW b \in Batches, batch[b].status = "committed", NEW a \in DOMAIN batch[b].rows
      PROVE  Known(a)'
  <2>1. batch[b] \in BatchRows /\ Known(a)
    BY <1>5 DEF ImportInv, BatchTypes, ImportedWhole, NoBatch, Refused
  <2>2. a \in Assets
    BY <1>5, <2>1, FileTypes DEF BatchRows, ValidFiles
  <2> QED
    BY <1>2, <2>1, <2>2
<1>6. ImportedWhole'
  BY <1>5 DEF ImportInv, ImportedWhole, importVars
<1> QED
  BY <1>1, <1>3, <1>4, <1>6 DEF ImportInv

LEMMA PreviewInv ==
    ASSUME ImportInv, NEW b \in Batches, PreviewImport(b)
    PROVE  ImportInv'
<1>1. PICK rows \in Files : batch' = [batch EXCEPT ![b] = Previewed(rows)]
  BY ImportAssumption DEF PreviewImport
<1>2. /\ batch[b] = NoBatch
      /\ UNCHANGED <<vars, importing, source>>
  BY DEF PreviewImport
<1>3. /\ batch'[b] \in {Refused} \cup BatchRows
      /\ batch'[b].status = "preview"
      /\ batch' = [c \in Batches |-> batch'[c]]
      /\ \A c \in Batches \ {b} : batch'[c] = batch[c]
  <2>1. FileErrors(rows) = {} => rows \in ValidFiles
    BY DEF FileErrors, ValidFiles
  <2> QED
    BY <1>1, <2>1 DEF ImportInv, BatchTypes, Previewed, Refused, BatchRows
<1>4. TypeOK'
  BY <1>2, TypeStep DEF ImportInv
<1>5. BatchTypes'
  BY <1>2, <1>3 DEF ImportInv, BatchTypes
<1>6. LockedPreviews'
  BY <1>2, <1>3 DEF ImportInv, LockedPreviews, NoBatch
<1>7. SourcesKnown'
  BY <1>2 DEF ImportInv, SourcesKnown, Known, vars
<1>8. ImportedWhole'
  BY <1>2, <1>3 DEF ImportInv, ImportedWhole, NoBatch, Known, vars
<1> QED
  BY <1>4, <1>5, <1>6, <1>7, <1>8 DEF ImportInv

LEMMA CommitCheckInv ==
    ASSUME ImportInv, NEW w \in Importers, NEW b \in Batches, CommitCheck(w, b)
    PROVE  ImportInv'
<1>1. /\ \A v \in Importers : b \notin importing[v]
      /\ batch[b].status = "preview" /\ ~ batch[b].faulty
      /\ importing' = [importing EXCEPT ![w] = {b}]
      /\ UNCHANGED <<vars, batch, source>>
  BY DEF CommitCheck
<1>2. batch[b] \in BatchRows
  BY <1>1 DEF ImportInv, BatchTypes, NoBatch, Refused
<1>3. importing'[w] = {b} /\ \A v \in Importers \ {w} : importing'[v] = importing[v]
  BY <1>1 DEF ImportInv, BatchTypes
<1>4. LockedPreviews'
  <2>1. \A v \in Importers : \A c \in importing'[v] :
            c \in Batches /\ batch'[c].status = "preview" /\ batch'[c] \in BatchRows
    BY <1>1, <1>2, <1>3 DEF ImportInv, LockedPreviews
  <2>2. \A u, v \in Importers : u # v => importing'[u] \cap importing'[v] = {}
    BY <1>1, <1>3 DEF ImportInv, LockedPreviews
  <2> QED
    BY <2>1, <2>2 DEF LockedPreviews
<1>5. TypeOK'
  BY <1>1, TypeStep DEF ImportInv
<1>6. BatchTypes'
  BY <1>1 DEF ImportInv, BatchTypes
<1>7. SourcesKnown' /\ ImportedWhole'
  BY <1>1 DEF ImportInv, SourcesKnown, ImportedWhole, Known, vars
<1> QED
  BY <1>4, <1>5, <1>6, <1>7 DEF ImportInv

LEMMA CommitFailsInv ==
    ASSUME ImportInv, NEW w \in Importers, CommitFails(w)
    PROVE  ImportInv'
<1>1. /\ importing' = [importing EXCEPT ![w] = {}]
      /\ UNCHANGED <<vars, batch, source>>
  BY DEF CommitFails
<1>2. \A v \in Importers : importing'[v] \subseteq importing[v]
  BY <1>1 DEF ImportInv, BatchTypes
<1>3. LockedPreviews'
  <2>1. \A v \in Importers : \A c \in importing'[v] :
            c \in Batches /\ batch'[c].status = "preview" /\ batch'[c] \in BatchRows
    BY <1>1, <1>2 DEF ImportInv, LockedPreviews
  <2>2. ASSUME NEW u \in Importers, NEW v \in Importers, u # v
        PROVE  importing'[u] \cap importing'[v] = {}
    <3>1. importing[u] \cap importing[v] = {}
      BY <2>2 DEF ImportInv, LockedPreviews
    <3> QED
      BY <1>2, <3>1
  <2> QED
    BY <2>1, <2>2 DEF LockedPreviews
<1>4. TypeOK'
  BY <1>1, TypeStep DEF ImportInv
<1>5. BatchTypes'
  BY <1>1 DEF ImportInv, BatchTypes
<1>6. SourcesKnown' /\ ImportedWhole'
  BY <1>1 DEF ImportInv, SourcesKnown, ImportedWhole, Known, vars
<1> QED
  BY <1>3, <1>4, <1>5, <1>6 DEF ImportInv

(* The ids that a commit inserts are free, so nobody created them before;  *)
(* other committed batches name none of them.                              *)
LEMMA CommitInsertInv ==
    ASSUME ImportInv, NEW w \in Importers, NEW b \in Batches, CommitInsert(w, b)
    PROVE  ImportInv'
<1> DEFINE rows == batch[b].rows
<1>1. /\ b \in importing[w]
      /\ DOMAIN rows \cap Stock = {}
      /\ asset' = [a \in Assets |-> IF a \in DOMAIN rows
                                    THEN NewAsset(rows[a].status, rows[a].parent)
                                    ELSE asset[a]]
      /\ source' = [a \in Assets |-> IF a \in DOMAIN rows THEN source[a] \cup {b}
                                                          ELSE source[a]]
      /\ batch' = [batch EXCEPT ![b].status = "committed"]
      /\ importing' = [importing EXCEPT ![w] = {}]
      /\ UNCHANGED <<checkout, form, forced>>
  BY DEF CommitInsert, Insertable
<1>2. batch[b].status = "preview" /\ batch[b] \in BatchRows
  BY <1>1 DEF ImportInv, LockedPreviews
<1>3. /\ rows \in Files
      /\ DOMAIN rows \subseteq Assets
      /\ \A a \in DOMAIN rows : NewAsset(rows[a].status, rows[a].parent) \in AssetRows
  BY <1>2, FileTypes DEF BatchRows, ValidFiles
<1>4. \A a \in DOMAIN rows : ~ Known(a) /\ source[a] = {}
  BY <1>1, <1>3 DEF ImportInv, SourcesKnown, Stock
<1>5. /\ batch'[b] \in BatchRows
      /\ batch'[b].status = "committed"
      /\ batch'[b].rows = rows
      /\ batch' = [c \in Batches |-> batch'[c]]
      /\ \A c \in Batches \ {b} : batch'[c] = batch[c]
  BY <1>1, <1>2 DEF ImportInv, BatchTypes, BatchRows
<1> HIDE DEF rows
<1>6. \A a \in DOMAIN rows : Known(a)' /\ source'[a] = {b}
  <2>1. ASSUME NEW a \in DOMAIN rows PROVE asset'[a] \in AssetRows
    BY <1>1, <1>3
  <2> QED
    BY <1>1, <1>3, <1>4, <2>1 DEF Known, AssetRows, Statuses
<1>7. \A a \in Assets \ DOMAIN rows : (Known(a)' <=> Known(a)) /\ source'[a] = source[a]
  BY <1>1 DEF Known
<1>8. TypeOK'
  BY <1>1, <1>3 DEF ImportInv, TypeOK
<1>9. BatchTypes'
  BY <1>1, <1>5 DEF ImportInv, BatchTypes
<1>10. LockedPreviews'
  <2>1. importing'[w] = {} /\ \A v \in Importers \ {w} : importing'[v] = importing[v]
    BY <1>1 DEF ImportInv, BatchTypes
  <2>2. \A v \in Importers : \A c \in importing'[v] :
            c \in Batches /\ batch'[c].status = "preview" /\ batch'[c] \in BatchRows
    BY <1>1, <1>5, <2>1 DEF ImportInv, LockedPreviews
  <2>3. \A u, v \in Importers : u # v => importing'[u] \cap importing'[v] = {}
    BY <2>1 DEF ImportInv, LockedPreviews
  <2> QED
    BY <2>2, <2>3 DEF LockedPreviews
<1>11. SourcesKnown'
  BY <1>6, <1>7 DEF ImportInv, SourcesKnown
<1>12. ImportedWhole'
  <2> SUFFICES ASSUME NEW c \in Batches
               PROVE  /\ batch'[c].status = "committed"
                             => \A a \in DOMAIN batch'[c].rows :
                                    Known(a)' /\ source'[a] = {c}
                      /\ batch'[c].status # "committed"
                             => \A a \in Assets : c \notin source'[a]
    BY DEF ImportedWhole
  <2>1. CASE c = b
    BY <1>5, <1>6, <2>1
  <2>2. CASE c # b
    <3>1. batch'[c] = batch[c]
      BY <1>5, <2>2
    <3>2. ASSUME batch[c].status = "committed", NEW a \in DOMAIN batch[c].rows
          PROVE  Known(a)' /\ source'[a] = {c}
      <4>1. Known(a) /\ source[a] = {c} /\ batch[c] \in BatchRows
        BY <3>2 DEF ImportInv, ImportedWhole, BatchTypes, NoBatch, Refused
      <4>2. a \in Assets \ DOMAIN rows
        BY <1>4, <3>2, <4>1, FileTypes DEF BatchRows, ValidFiles
      <4> QED
        BY <1>7, <4>1, <4>2
    <3>3. ASSUME batch[c].status # "committed", NEW a \in Assets
          PROVE  c \notin source'[a]
      BY <1>6, <1>7, <2>2, <3>3 DEF ImportInv, ImportedWhole
    <3> QED
      BY <3>1, <3>2, <3>3
  <2> QED
    BY <2>1, <2>2
<1> QED
  BY <1>8, <1>9, <1>10, <1>11, <1>12 DEF ImportInv

LEMMA ImportInvNext ==
    ASSUME ImportInv, [InventoryNext]_inventoryVars
    PROVE  ImportInv'
<1>1. CASE [Next]_vars /\ UNCHANGED importVars
  BY <1>1, CustodyStepInv
<1>2. CASE \E b \in Batches :
              \/ PreviewImport(b)
              \/ \E w \in Importers : CommitCheck(w, b) \/ CommitInsert(w, b)
  BY <1>2, PreviewInv, CommitCheckInv, CommitInsertInv
<1>3. CASE \E w \in Importers : CommitFails(w)
  BY <1>3, CommitFailsInv
<1>4. CASE UNCHANGED allVars
  BY <1>1, <1>4 DEF allVars
<1> QED
  BY <1>1, <1>2, <1>3, <1>4
     DEF InventoryNext, inventoryVars, Custody, Attaching, Next, ServiceStep, FormStep

(* A batch that was committed created every one of its assets, and nobody  *)
(* else did; one that was not created none, whatever forms, creations and  *)
(* other commits raced (the unique asset_id behind commit_asset_import()). *)
THEOREM BatchesImportedWhole == InventorySpec => []ImportedWhole
<1>1. ImportInv => ImportedWhole
  BY DEF ImportInv
<1> QED
  BY <1>1, ImportInvInit, ImportInvNext, PTL DEF InventorySpec

-----------------------------------------------------------------------------
(* An import leaves checkouts alone, and the assets it creates were free   *)
(* and are not checked out.                                                *)
LEMMA ImportedCustody ==
    ASSUME ImportInv, CustodyAgrees,
           NEW w \in Importers, NEW b \in Batches, CommitInsert(w, b)
    PROVE  CustodyAgrees'
<1> DEFINE rows == batch[b].rows
<1>1. /\ DOMAIN rows \cap Stock = {}
      /\ asset' = [a \in Assets |-> IF a \in DOMAIN rows
                                    THEN NewAsset(rows[a].status, rows[a].parent)
                                    ELSE asset[a]]
      /\ UNCHANGED <<checkout, forced>>
  BY DEF CommitInsert, Insertable
<1>2. \A a \in DOMAIN rows : rows[a].status # "checked_out"
  BY DEF CommitInsert, ImportInv, LockedPreviews, BatchRows, ValidFiles
<1> HIDE DEF rows
<1> SUFFICES ASSUME NEW a \in Assets \ forced PROVE AgreesOn(a)'
  BY <1>1 DEF CustodyAgrees
<1>3. AgreesOn(a)
  BY DEF CustodyAgrees
<1>4. CASE a \in DOMAIN rows
  <2>1. asset[a].status = "none" /\ asset'[a].status # "checked_out"
    BY <1>1, <1>2, <1>4 DEF Stock, Known, NewAsset
  <2> QED
    BY <1>1, <1>3, <2>1 DEF AgreesOn, Active
<1>5. CASE a \notin DOMAIN rows
  BY <1>1, <1>3, <1>5 DEF AgreesOn, Active, Out, Open
<1> QED
  BY <1>4, <1>5

LEMMA CustodyUnderImports ==
    ASSUME ImportInv, OneOpenCheckout, LicenseKeptWhileOpen, CustodyAgrees,
           [InventoryNext]_inventoryVars
    PROVE  OneOpenCheckout' /\ LicenseKeptWhileOpen' /\ CustodyAgrees'
<1>1. CASE [Next]_vars
  BY <1>1, OneOpenStep, LicenseStep, AgreesStep DEF ImportInv
<1>2. ASSUME NEW w \in Importers, NEW b \in Batches, CommitInsert(w, b)
      PROVE  OneOpenCheckout' /\ LicenseKeptWhileOpen' /\ CustodyAgrees'
  <2>1. CustodyAgrees'
    BY <1>2, ImportedCustody
  <2>2. checkout' = checkout
    BY <1>2 DEF CommitInsert
  <2> QED
    BY <2>1, <2>2 DEF OneOpenCheckout, LicenseKeptWhileOpen, Open
<1>3. CASE \/ \E b \in Batches :
                 PreviewImport(b) \/ \E w \in Importers : CommitCheck(w, b)
           \/ \E w \in Importers : CommitFails(w)
           \/ UNCHANGED allVars
  BY <1>1, <1>3 DEF PreviewImport, CommitCheck, CommitFails, allVars
<1> QED
  BY <1>1, <1>2, <1>3
     DEF InventoryNext, inventoryVars, Attaching, Next, ServiceStep, FormStep

(* Custody holds beside imports too: an asset has one person to answer for *)
(* it, a license is stored while its checkout is open, and the status of   *)
(* an asset agrees with its checkouts unless a form forced it              *)
(* (checkout_assets(), return_asset() and the writes of imports.py).       *)
THEOREM CustodyKeptBesideImports ==
    InventorySpec => [](OneOpenCheckout /\ LicenseKeptWhileOpen /\ CustodyAgrees)
<1>1. InventoryInit => OneOpenCheckout /\ LicenseKeptWhileOpen /\ CustodyAgrees
  <2> SUFFICES ASSUME Init
               PROVE  OneOpenCheckout /\ LicenseKeptWhileOpen /\ CustodyAgrees
    BY DEF InventoryInit, ImportInit
  <2>1. \A c \in Checkouts : checkout[c] = NoCheckout /\ checkout[c].state = "none"
    BY DEF Init, NoCheckout
  <2>2. \A a \in Assets : asset[a].status # "checked_out"
    BY DEF Init, NewAsset, NoAsset
  <2> QED
    BY <2>1, <2>2 DEF OneOpenCheckout, LicenseKeptWhileOpen, CustodyAgrees, AgreesOn,
                      Open, Active
<1> QED
  BY <1>1, ImportInvInit, ImportInvNext, CustodyUnderImports, PTL DEF InventorySpec

-----------------------------------------------------------------------------
(* The storage is outside the transactions, so what a deletion found there *)
(* must still hold when it commits: an id is used once, so the file it     *)
(* removed cannot come back.                                               *)
RequestInv(r) ==
    /\ r.step # "idle" => r.object \in begun \cap Attachments
    /\ r.step = "removed" => r.failed \/ r.object \notin files

AttachmentsInv ==
    /\ row = [t \in Attachments |-> row[t]]
    /\ request = [w \in Workers |-> request[w]]
    /\ \A t \in Attachments : row[t] # "none" => t \in begun
    /\ files \subseteq begun \cap Attachments
    /\ \A w \in Workers : RequestInv(request[w])
    /\ LeftoversReported

LEMMA IdleRequest == RequestInv(NoRequest)
  BY DEF RequestInv, NoRequest

(* A step that gives a request to one worker and brings no file back.      *)
LEMMA RequestSteps ==
    ASSUME AttachmentsInv, NEW w \in Workers, NEW r, Become(w, r),
           begun \subseteq begun', \A t \in begun : t \in files' => t \in files,
           r.step # "idle" => r.object \in begun' \cap Attachments,
           r.step = "removed" => r.failed \/ r.object \notin files'
    PROVE  /\ \A v \in Workers : RequestInv(request[v])'
           /\ request' = [v \in Workers |-> request'[v]]
<1>0. request' = [v \in Workers |-> request'[v]]
  BY DEF AttachmentsInv, Become
<1> SUFFICES ASSUME NEW v \in Workers PROVE RequestInv(request[v])'
  BY <1>0
<1>1. CASE v = w
  <2>1. request'[v] = r
    BY <1>1 DEF AttachmentsInv, Become
  <2> QED
    BY <2>1 DEF RequestInv
<1>2. CASE v # w
  <2>1. request'[v] = request[v] /\ RequestInv(request[v])
    BY <1>2 DEF AttachmentsInv, Become
  <2> QED
    BY <2>1 DEF RequestInv
<1> QED
  BY <1>1, <1>2

-----------------------------------------------------------------------------
LEMMA AttachmentsInvInit == InventoryInit => AttachmentsInv
  BY IdleRequest DEF InventoryInit, AttachmentsInit, AttachmentsInv, LeftoversReported

LEMMA StoreFileInv ==
    ASSUME AttachmentsInv, NEW w \in Workers, NEW t \in Attachments, StoreFile(w, t)
    PROVE  AttachmentsInv'
<1>1. /\ t \notin begun
      /\ begun' = begun \cup {t}
      /\ files' = files \cup {t}
      /\ Become(w, [step |-> "stored", object |-> t])
      /\ row' = row /\ flagged' = flagged
  BY DEF StoreFile
<1>2. /\ \A v \in Workers : RequestInv(request[v])'
      /\ request' = [v \in Workers |-> request'[v]]
  BY <1>1, RequestSteps
<1>3. LeftoversReported'
  BY <1>1 DEF AttachmentsInv, LeftoversReported
<1> QED
  BY <1>1, <1>2, <1>3 DEF AttachmentsInv

(* A request that ends, with what it does to its row and its file.         *)
LEMMA EndedRequest ==
    ASSUME AttachmentsInv, NEW w \in Workers, Become(w, NoRequest),
           begun' = begun, files' \subseteq files
    PROVE  /\ \A v \in Workers : RequestInv(request[v])'
           /\ request' = [v \in Workers |-> request'[v]]
  BY RequestSteps DEF NoRequest

LEMMA UploadCommitInv ==
    ASSUME AttachmentsInv, NEW w \in Workers, UploadCommit(w)
    PROVE  AttachmentsInv'
<1>1. /\ request[w].object \in begun \cap Attachments
      /\ row' = [row EXCEPT ![request[w].object] = "live"]
      /\ Become(w, NoRequest)
      /\ files' = files /\ flagged' = flagged /\ begun' = begun
  BY DEF UploadCommit, At, AttachmentsInv, RequestInv
<1>2. LeftoversReported'
  BY <1>1 DEF AttachmentsInv, LeftoversReported
<1> QED
  BY <1>1, <1>2, EndedRequest DEF AttachmentsInv

LEMMA UploadFailsInv ==
    ASSUME AttachmentsInv, NEW w \in Workers, UploadFails(w)
    PROVE  AttachmentsInv'
<1>1. /\ files' \subseteq files
      /\ Become(w, NoRequest)
      /\ row' = row /\ flagged' = flagged /\ begun' = begun
  BY DEF UploadFails
<1>2. LeftoversReported'
  BY <1>1 DEF AttachmentsInv, LeftoversReported
<1> QED
  BY <1>1, <1>2, EndedRequest DEF AttachmentsInv

LEMMA DeleteReadInv ==
    ASSUME AttachmentsInv, NEW w \in Workers, NEW t \in Attachments, DeleteRead(w, t)
    PROVE  AttachmentsInv'
<1>1. /\ t \in begun
      /\ Become(w, [step |-> "delete", object |-> t])
      /\ row' = row /\ files' = files /\ flagged' = flagged /\ begun' = begun
  BY DEF DeleteRead, AttachmentsInv
<1>2. /\ \A v \in Workers : RequestInv(request[v])'
      /\ request' = [v \in Workers |-> request'[v]]
  BY <1>1, RequestSteps
<1>3. LeftoversReported'
  BY <1>1 DEF AttachmentsInv, LeftoversReported
<1> QED
  BY <1>1, <1>2, <1>3 DEF AttachmentsInv

(* The file is gone, or its removal failed.                                *)
LEMMA RemoveFileInv ==
    ASSUME AttachmentsInv, NEW w \in Workers, RemoveFile(w)
    PROVE  AttachmentsInv'
<1> DEFINE t == request[w].object
<1>1. PICK outcome \in Removed(t) :
        /\ files' = outcome.files
        /\ Become(w, [step |-> "removed", object |-> t, failed |-> outcome.failed])
  BY DEF RemoveFile
<1>2. /\ t \in begun \cap Attachments
      /\ row' = row /\ flagged' = flagged /\ begun' = begun
  BY DEF RemoveFile, At, AttachmentsInv, RequestInv
<1>3. /\ files' \subseteq files
      /\ outcome.failed \/ t \notin files'
  BY <1>1 DEF Removed
<1>4. /\ \A v \in Workers : RequestInv(request[v])'
      /\ request' = [v \in Workers |-> request'[v]]
  BY <1>1, <1>2, <1>3, RequestSteps
<1>5. LeftoversReported'
  BY <1>2, <1>3 DEF AttachmentsInv, LeftoversReported
<1> QED
  BY <1>2, <1>3, <1>4, <1>5 DEF AttachmentsInv

LEMMA DeleteCommitInv ==
    ASSUME AttachmentsInv, NEW w \in Workers, DeleteCommit(w)
    PROVE  AttachmentsInv'
<1> DEFINE t == request[w].object
<1>1. /\ t \in begun \cap Attachments
      /\ request[w].failed \/ t \notin files
  BY DEF DeleteCommit, At, AttachmentsInv, RequestInv
<1>2. /\ row' = [row EXCEPT ![t] = SoftDeleted]
      /\ flagged' = IF request[w].failed THEN flagged \cup {t} ELSE flagged
      /\ Become(w, NoRequest)
      /\ files' = files /\ begun' = begun
  BY DEF DeleteCommit
<1>3. LeftoversReported'
  <2> SUFFICES ASSUME NEW u \in files', row'[u] = "deleted" PROVE u \in flagged'
    BY DEF LeftoversReported
  <2>1. CASE u = t
    BY <1>1, <1>2, <2>1
  <2>2. CASE u # t
    BY <1>2, <2>2 DEF AttachmentsInv, LeftoversReported
  <2> QED
    BY <2>1, <2>2
<1> QED
  BY <1>1, <1>2, <1>3, EndedRequest DEF AttachmentsInv

LEMMA AttachmentAbortInv ==
    ASSUME AttachmentsInv, NEW w \in Workers, AttachmentAbort(w)
    PROVE  AttachmentsInv'
<1>1. /\ Become(w, NoRequest)
      /\ row' = row /\ files' = files /\ flagged' = flagged /\ begun' = begun
  BY DEF AttachmentAbort
<1>2. LeftoversReported'
  BY <1>1 DEF AttachmentsInv, LeftoversReported
<1> QED
  BY <1>1, <1>2, EndedRequest DEF AttachmentsInv

LEMMA AttachmentsInvNext ==
    ASSUME AttachmentsInv, [InventoryNext]_inventoryVars
    PROVE  AttachmentsInv'
<1>1. CASE UNCHANGED attachmentVars
  BY <1>1 DEF attachmentVars, AttachmentsInv, RequestInv, LeftoversReported
<1>2. ASSUME NEW w \in Workers,
             \/ \E t \in Attachments : StoreFile(w, t) \/ DeleteRead(w, t)
             \/ UploadCommit(w) \/ UploadFails(w) \/ RemoveFile(w)
             \/ DeleteCommit(w) \/ AttachmentAbort(w)
      PROVE  AttachmentsInv'
  BY <1>2, StoreFileInv, UploadCommitInv, UploadFailsInv, DeleteReadInv,
     RemoveFileInv, DeleteCommitInv, AttachmentAbortInv
<1> QED
  BY <1>1, <1>2 DEF InventoryNext, inventoryVars, Custody, Import

-----------------------------------------------------------------------------
(* A file whose row is deleted was reported in the audit event of a        *)
(* deletion, whatever uploads and deletions raced or died                  *)
(* (delete_attachment() catches the OSError and notes it).                 *)
THEOREM FilesDoNotOutliveRows == InventorySpec => []LeftoversReported
<1>1. AttachmentsInv => LeftoversReported
  BY DEF AttachmentsInv
<1> QED
  BY <1>1, AttachmentsInvInit, AttachmentsInvNext, PTL DEF InventorySpec

-----------------------------------------------------------------------------
(* The lines of ancestors.  Line and LineOfFile are walks of as many steps *)
(* as there are assets; what they reach is compared step by step, by       *)
(* induction over the steps.                                               *)
(* Induction over the naturals, for a set of them.                         *)
LEMMA NaturalsReached ==
    ASSUME NEW Good, 0 \in Good, \A n \in Nat : n \in Good => n + 1 \in Good
    PROVE  Nat \subseteq Good
<1> DEFINE Rest == Nat \ Good
<1> SUFFICES ASSUME Rest # {} PROVE FALSE
  OBVIOUS
<1>1. PICK m \in Rest : \A k \in Rest : ~ (<<k, m>> \in OpToRel(<, Nat))
  BY NatLessThanWellFounded, WFMin, Zenon
<1>2. \A k \in Rest : ~ (k < m)
  BY <1>1 DEF OpToRel
<1>3. m - 1 \in Nat /\ m - 1 < m /\ m = (m - 1) + 1
  OBVIOUS
<1> QED
  BY <1>2, <1>3

Tall == Cardinality(Assets)

LEMMA TableFinite == Tall \in Nat
  BY CustodyAssumption, FS_CardinalityType DEF Tall

(* A walk: what is reached from a start by so many steps of g.             *)
WalkIn(S, start, g, m, f) ==
    /\ f \in [0..m -> S]
    /\ f[0] = start
    /\ \A n \in 1..m : f[n] = g[f[n - 1]]

LEMMA WalkExists ==
    ASSUME NEW N \in Nat, NEW S, NEW start \in S, NEW g \in [S -> S]
    PROVE  \E f : WalkIn(S, start, g, N, f)
<1> USE DEF WalkIn
<1> DEFINE Walks(m, f) == WalkIn(S, start, g, m, f)
           Good == {m \in Nat : \E f : Walks(m, f)}
<1>1. 0 \in Good
  <2>1. Walks(0, [k \in 0..0 |-> start])
    OBVIOUS
  <2> QED
    BY <2>1
<1>2. ASSUME NEW m \in Nat, m \in Good PROVE m + 1 \in Good
  <2>1. PICK f : Walks(m, f)
    BY <1>2
  <2> DEFINE h == [k \in 0..(m + 1) |-> IF k = m + 1 THEN g[f[m]] ELSE f[k]]
  <2>2. f[m] \in S /\ g[f[m]] \in S /\ \A k \in 0..m : f[k] \in S
    BY <2>1
  <2>3. h \in [0..(m + 1) -> S]
    BY <2>2
  <2>4. h[m + 1] = g[f[m]] /\ \A k \in 0..m : h[k] = f[k]
    OBVIOUS
  <2> HIDE DEF h
  <2>5. h[0] = start
    BY <2>1, <2>4
  <2>6. ASSUME NEW n \in 1..(m + 1) PROVE h[n] = g[h[n - 1]]
    <3>1. CASE n = m + 1
      <4>1. n - 1 = m /\ m \in 0..m
        BY <3>1
      <4> QED
        BY <2>4, <3>1, <4>1
    <3>2. CASE n \in 1..m
      <4>1. f[n] = g[f[n - 1]]
        BY <2>1, <3>2
      <4>2. n \in 0..m /\ n - 1 \in 0..m
        BY <3>2
      <4> QED
        BY <2>4, <4>1, <4>2
    <3> QED
      BY <3>1, <3>2
  <2>7. Walks(m + 1, h)
    BY <2>3, <2>5, <2>6
  <2> HIDE DEF Walks
  <2>8. m + 1 \in Nat /\ \E f_1 : Walks(m + 1, f_1)
    BY <2>7
  <2> QED
    BY Zenon, <2>8
<1>3. N \in Good
  <2> HIDE DEF Good
  <2> QED
    BY <1>1, <1>2, NaturalsReached
<1> QED
  BY <1>3

(* Line and LineOfFile, one step at a time.                                *)
WalkOf(table, start, up) ==
    /\ up[0] = start
    /\ \A n \in 1..Tall : up[n] = UNION {table[p].parent : p \in up[n - 1]}

LEMMA LineWalks ==
    ASSUME NEW table, \A p \in Assets : table[p].parent \in SUBSET Assets,
           NEW start \in SUBSET Assets,
           NEW up, up = (CHOOSE f : f = [n \in 0..Tall |->
               IF n = 0 THEN start ELSE UNION {table[p].parent : p \in f[n - 1]}])
    PROVE  WalkOf(table, start, up)
<1> DEFINE g == [s \in SUBSET Assets |-> UNION {table[p].parent : p \in s}]
           Body(f) == [n \in 0..Tall |->
               IF n = 0 THEN start ELSE UNION {table[p].parent : p \in f[n - 1]}]
<1>1. g \in [SUBSET Assets -> SUBSET Assets]
  OBVIOUS
<1>2. PICK f \in [0..Tall -> SUBSET Assets] :
         f[0] = start /\ \A n \in 1..Tall : f[n] = g[f[n - 1]]
  <2> DEFINE sets == SUBSET Assets
  <2>1. g \in [sets -> sets] /\ start \in sets
    BY <1>1
  <2> HIDE DEF g, sets
  <2>2. \E f : WalkIn(sets, start, g, Tall, f)
    BY <2>1, TableFinite, WalkExists
  <2> QED
    BY <2>2 DEF sets, WalkIn
<1>3. ASSUME NEW n \in 0..Tall, n # 0
      PROVE  f[n] = UNION {table[p].parent : p \in f[n - 1]}
  <2>1. n \in 1..Tall /\ n - 1 \in 0..Tall
    BY <1>3, TableFinite
  <2>2. f[n - 1] \in SUBSET Assets /\ f[n] = g[f[n - 1]]
    BY <1>2, <2>1
  <2> QED
    BY <2>2
<1>4. f = Body(f)
  <2>1. f = [n \in 0..Tall |-> f[n]]
    OBVIOUS
  <2> QED
    BY <1>2, <1>3, <2>1
<1>5. up = Body(up)
  <2>1. up = CHOOSE h : h = Body(h)
    OBVIOUS
  <2> HIDE DEF Body
  <2> QED
    BY <1>4, <2>1
<1>6. up[0] = start
  <2>1. 0 \in 0..Tall
    BY TableFinite
  <2> QED
    BY <1>5, <2>1
<1>7. ASSUME NEW n \in 1..Tall PROVE up[n] = UNION {table[p].parent : p \in up[n - 1]}
  <2>1. n \in 0..Tall /\ n # 0
    BY TableFinite
  <2> QED
    BY <1>5, <2>1
<1> QED
  BY Zenon, <1>6, <1>7 DEF WalkOf

FileWalk(rows, start, up) ==
    /\ up[0] = start
    /\ \A n \in 1..Tall :
          up[n] = UNION {rows[p].parent : p \in up[n - 1] \cap DOMAIN rows}

LEMMA FileWalks ==
    ASSUME NEW rows, \A p \in DOMAIN rows : rows[p].parent \in SUBSET Assets,
           NEW a \in DOMAIN rows
    PROVE  FileWalk(rows, rows[a].parent, LineOfFile(rows, a))
<1> DEFINE start == rows[a].parent
           g == [s \in SUBSET Assets |-> UNION {rows[p].parent : p \in s \cap DOMAIN rows}]
           Body(f) == [n \in 0..Tall |->
               IF n = 0 THEN start
               ELSE UNION {rows[p].parent : p \in f[n - 1] \cap DOMAIN rows}]
           up == LineOfFile(rows, a)
<1>1. g \in [SUBSET Assets -> SUBSET Assets] /\ start \in SUBSET Assets
  OBVIOUS
<1>2. PICK f \in [0..Tall -> SUBSET Assets] :
         f[0] = start /\ \A n \in 1..Tall : f[n] = g[f[n - 1]]
  <2> DEFINE sets == SUBSET Assets
  <2>1. g \in [sets -> sets] /\ start \in sets
    BY <1>1
  <2> HIDE DEF g, start, sets
  <2>2. \E f : WalkIn(sets, start, g, Tall, f)
    BY <2>1, TableFinite, WalkExists
  <2> QED
    BY <2>2 DEF sets, WalkIn
<1>3. ASSUME NEW n \in 0..Tall, n # 0
      PROVE  f[n] = UNION {rows[p].parent : p \in f[n - 1] \cap DOMAIN rows}
  <2>1. n \in 1..Tall /\ n - 1 \in 0..Tall
    BY <1>3, TableFinite
  <2>2. f[n - 1] \in SUBSET Assets /\ f[n] = g[f[n - 1]]
    BY <1>2, <2>1
  <2> QED
    BY <2>2
<1>4. f = Body(f)
  <2>1. f = [n \in 0..Tall |-> f[n]]
    OBVIOUS
  <2> QED
    BY <1>2, <1>3, <2>1
<1>5. up = Body(up)
  <2>1. up = CHOOSE h : h = Body(h)
    BY Zenon DEF LineOfFile, Tall
  <2> HIDE DEF Body
  <2> QED
    BY <1>4, <2>1
<1> QED
  BY <1>5, TableFinite DEF FileWalk

(* While the walk stays among assets whose parents are known and kept, two *)
(* tables give the same walk.                                              *)
LEMMA SameWalk ==
    ASSUME NEW old, NEW new, NEW St, NEW start \in SUBSET St,
           \A p \in St : old[p].parent \subseteq St /\ new[p].parent = old[p].parent,
           NEW up, WalkOf(old, start, up), NEW line, WalkOf(new, start, line)
    PROVE  \A n \in 0..Tall : line[n] = up[n] /\ line[n] \subseteq St
<1> DEFINE Good == {n \in Nat : n <= Tall => line[n] = up[n] /\ line[n] \subseteq St}
<1>1. 0 \in Good
  BY DEF WalkOf
<1>2. ASSUME NEW m \in Nat, m \in Good PROVE m + 1 \in Good
  <2> SUFFICES ASSUME m + 1 <= Tall
               PROVE  line[m + 1] = up[m + 1] /\ line[m + 1] \subseteq St
    OBVIOUS
  <2>1. m + 1 \in 1..Tall /\ (m + 1) - 1 = m /\ m <= Tall
    BY TableFinite
  <2>2. line[m] = up[m] /\ line[m] \subseteq St
    BY <1>2, <2>1
  <2>3. /\ line[m + 1] = UNION {new[p].parent : p \in line[m]}
        /\ up[m + 1] = UNION {old[p].parent : p \in up[m]}
    BY <2>1 DEF WalkOf
  <2>4. \A p \in line[m] : new[p].parent = old[p].parent /\ new[p].parent \subseteq St
    BY <2>2
  <2>5. line[m + 1] \subseteq St
    BY <2>3, <2>4
  <2>6. line[m + 1] = up[m + 1]
    <3>1. {new[p].parent : p \in line[m]} = {old[p].parent : p \in up[m]}
      BY Zenon, <2>2, <2>4
    <3> QED
      BY Zenon, <2>3, <3>1
  <2> QED
    BY <2>5, <2>6
<1>3. Nat \subseteq Good
  <2> HIDE DEF Good
  <2> QED
    BY <1>1, <1>2, NaturalsReached
<1> QED
  BY <1>3, TableFinite

(* Among the rows of a file, the walk over the table that has them is the  *)
(* walk over the file: from other assets no way leads back.                *)
Extends(rows, new, St, start) ==
    /\ St \cap DOMAIN rows = {}
    /\ start \subseteq St \cup DOMAIN rows
    /\ \A p \in St : new[p].parent \subseteq St
    /\ \A p \in DOMAIN rows : /\ rows[p].parent \subseteq St \cup DOMAIN rows
                              /\ new[p].parent = rows[p].parent

LEMMA RowsWalk ==
    ASSUME NEW rows, NEW new, NEW St, NEW start, Extends(rows, new, St, start),
           NEW up, FileWalk(rows, start, up), NEW line, WalkOf(new, start, line)
    PROVE  \A n \in 0..Tall : line[n] \cap DOMAIN rows = up[n] \cap DOMAIN rows
<1> DEFINE D == DOMAIN rows
           Good == {n \in Nat : n <= Tall => /\ line[n] \subseteq St \cup D
                                             /\ line[n] \cap D = up[n] \cap D}
<1> USE DEF Extends
<1>1. 0 \in Good
  BY DEF WalkOf, FileWalk
<1>2. ASSUME NEW m \in Nat, m \in Good PROVE m + 1 \in Good
  <2> SUFFICES ASSUME m + 1 <= Tall
               PROVE  /\ line[m + 1] \subseteq St \cup D
                      /\ line[m + 1] \cap D = up[m + 1] \cap D
    OBVIOUS
  <2>1. m + 1 \in 1..Tall /\ (m + 1) - 1 = m /\ m <= Tall
    BY TableFinite
  <2>2. line[m] \subseteq St \cup D /\ line[m] \cap D = up[m] \cap D
    BY <1>2, <2>1
  <2>3. /\ line[m + 1] = UNION {new[p].parent : p \in line[m]}
        /\ up[m + 1] = UNION {rows[p].parent : p \in up[m] \cap D}
    BY <2>1 DEF WalkOf, FileWalk
  <2> HIDE DEF D
  <2>4. \A x : x \in line[m + 1] => x \in St \cup D
    <3>1. \A p \in line[m] : new[p].parent \subseteq St \cup D
      BY <2>2 DEF D
    <3> QED
      BY <2>3, <3>1
  <2>5. ASSUME NEW x \in D, x \in line[m + 1] PROVE x \in up[m + 1]
    <3>1. PICK p \in line[m] : x \in new[p].parent
      BY <2>3, <2>5
    <3>2. p \notin St
      BY <2>5, <3>1 DEF D
    <3>3. p \in up[m] \cap D /\ x \in rows[p].parent
      BY <2>2, <3>1, <3>2 DEF D
    <3> QED
      BY <2>3, <3>3
  <2>6. ASSUME NEW x \in D, x \in up[m + 1] PROVE x \in line[m + 1]
    <3>1. PICK p \in up[m] \cap D : x \in rows[p].parent
      BY <2>3, <2>6
    <3>2. p \in line[m] /\ x \in new[p].parent
      BY <2>2, <3>1 DEF D
    <3> QED
      BY <2>3, <3>2
  <2> QED
    BY <2>4, <2>5, <2>6
<1>3. Nat \subseteq Good
  <2> HIDE DEF Good
  <2> QED
    BY <1>1, <1>2, NaturalsReached
<1> QED
  BY <1>3, TableFinite

(* A walk over a file that returns to the row it began with never leaves   *)
(* the file.                                                               *)
LEMMA CircleStays ==
    ASSUME NEW rows, NEW a \in DOMAIN rows, NEW up,
           FileWalk(rows, rows[a].parent, up),
           NEW n \in 0..Tall, a \in up[n]
    PROVE  up[Tall] \cap DOMAIN rows # {}
<1> DEFINE D == DOMAIN rows
           Inside(m) == up[m] \cap D # {}
<1>0. /\ Tall \in Nat /\ n \in Nat /\ n <= Tall
      /\ up[0] = rows[a].parent
      /\ \A m \in 1..Tall : up[m] = UNION {rows[p].parent : p \in up[m - 1] \cap D}
  BY TableFinite DEF FileWalk
<1>1. a \in D
  OBVIOUS
<1> HIDE DEF D
<1>2. ASSUME NEW d \in Nat, d <= n PROVE Inside(n - d)
  <2> DEFINE Good == {c \in Nat : c <= n => Inside(n - c)}
  <2>1. 0 \in Good
    BY <1>0, <1>1
  <2>2. ASSUME NEW c \in Nat, c \in Good PROVE c + 1 \in Good
    <3> SUFFICES ASSUME c + 1 <= n PROVE Inside(n - (c + 1))
      OBVIOUS
    <3>1. /\ n - c \in 1..Tall /\ (n - c) - 1 = n - (c + 1)
          /\ Inside(n - c)
      BY <1>0, <2>2
    <3>2. up[n - c] = UNION {rows[p].parent : p \in up[n - (c + 1)] \cap D}
      BY <1>0, <3>1
    <3> QED
      BY <3>1, <3>2
  <2>3. Nat \subseteq Good
    <3> HIDE DEF Good
    <3> QED
      BY <2>1, <2>2, NaturalsReached
  <2> QED
    BY <1>2, <2>3
<1>3. ASSUME NEW k \in Nat, n + 1 + k <= Tall PROVE up[k] \subseteq up[n + 1 + k]
  <2> DEFINE Good == {c \in Nat : n + 1 + c <= Tall => up[c] \subseteq up[n + 1 + c]}
  <2>1. 0 \in Good
    <3> SUFFICES ASSUME n + 1 <= Tall PROVE up[0] \subseteq up[n + 1]
      BY <1>0
    <3>1. n + 1 \in 1..Tall /\ (n + 1) - 1 = n
      BY <1>0
    <3>2. up[n + 1] = UNION {rows[p].parent : p \in up[n] \cap D}
      BY <1>0, <3>1
    <3> QED
      BY <1>0, <1>1, <3>2
  <2>2. ASSUME NEW c \in Nat, c \in Good PROVE c + 1 \in Good
    <3> SUFFICES ASSUME n + 1 + (c + 1) <= Tall
                 PROVE  up[c + 1] \subseteq up[n + 1 + (c + 1)]
      OBVIOUS
    <3>1. /\ c + 1 \in 1..Tall /\ (c + 1) - 1 = c
          /\ n + 1 + (c + 1) \in 1..Tall /\ (n + 1 + (c + 1)) - 1 = n + 1 + c
          /\ up[c] \subseteq up[n + 1 + c]
      BY <1>0, <2>2
    <3>2. /\ up[c + 1] = UNION {rows[p].parent : p \in up[c] \cap D}
          /\ up[n + 1 + (c + 1)] = UNION {rows[p].parent : p \in up[n + 1 + c] \cap D}
      BY <1>0, <3>1
    <3> QED
      BY <3>1, <3>2
  <2>3. Nat \subseteq Good
    <3> HIDE DEF Good
    <3> QED
      BY <2>1, <2>2, NaturalsReached
  <2> QED
    BY <1>3, <2>3
<1> DEFINE Good == {m \in Nat : \A i \in 0..m : i <= Tall => Inside(i)}
<1>4. 0 \in Good
  <2>1. n - n = 0 /\ n <= n
    BY <1>0
  <2>2. Inside(0)
    BY <1>0, <1>2, <2>1
  <2> QED
    BY <2>2
<1>5. ASSUME NEW m \in Nat, m \in Good PROVE m + 1 \in Good
  <2> SUFFICES ASSUME m + 1 <= Tall PROVE Inside(m + 1)
    BY <1>5
  <2>1. CASE m + 1 <= n
    <3>1. n - (m + 1) \in Nat /\ n - (m + 1) <= n /\ n - (n - (m + 1)) = m + 1
      BY <1>0, <2>1
    <3> QED
      BY <1>2, <3>1
  <2>2. CASE m + 1 > n
    <3>1. PICK k \in Nat : m + 1 = n + 1 + k
      <4>1. m - n \in Nat /\ m + 1 = n + 1 + (m - n)
        BY <1>0, <2>2
      <4> QED
        BY <4>1
    <3>2. k \in 0..m /\ k <= Tall
      BY <1>0, <3>1
    <3>3. up[k] \subseteq up[m + 1]
      BY <1>3, <3>1
    <3>4. Inside(k)
      BY <1>5, <3>2
    <3> QED
      BY <3>3, <3>4
  <2> QED
    BY <1>0, <2>1, <2>2
<1>6. Tall \in Good
  <2> HIDE DEF Good
  <2> QED
    BY <1>0, <1>4, <1>5, NaturalsReached
<1>7. Tall \in 0..Tall /\ Tall <= Tall
  BY <1>0
<1> QED
  BY <1>6, <1>7 DEF D

-----------------------------------------------------------------------------
(* Parents are in the table, and so are those that a form will write; the  *)
(* rows of a batch that may be committed have theirs in the table or in    *)
(* the file, without a circle.                                             *)
FileSound(rows) ==
    \A a \in DOMAIN rows :
        rows[a].parent \subseteq Stock \cup DOMAIN rows /\ ~ CyclicRow(rows, a)
LineageInv ==
    /\ \A a \in Assets : asset[a].parent \subseteq Stock
    /\ \A w \in Editors : form[w] # Idle => form[w].row.parent \subseteq Stock
    /\ \A b \in Batches :
           (batch[b].status = "preview" /\ ~ batch[b].faulty) => FileSound(batch[b].rows)

AncestryInv == ImportInv /\ LineageInv

LEMMA StockStays ==
    ASSUME ImportInv, [InventoryNext]_inventoryVars
    PROVE  Stock \subseteq Stock'
<1>1. CASE [Next]_vars
  <2>1. \A a \in Assets : Known(a) => Known(a)'
    BY <1>1, KnownStays DEF ImportInv
  <2> QED
    BY <2>1 DEF Stock
<1>2. CASE UNCHANGED vars
  BY <1>2 DEF vars, Stock, Known
<1>3. ASSUME NEW w \in Importers, NEW b \in Batches, CommitInsert(w, b)
      PROVE  Stock \subseteq Stock'
  <2>1. /\ DOMAIN batch[b].rows \cap Stock = {}
        /\ asset' = [a \in Assets |-> IF a \in DOMAIN batch[b].rows
                        THEN NewAsset(batch[b].rows[a].status, batch[b].rows[a].parent)
                        ELSE asset[a]]
    BY <1>3 DEF CommitInsert, Insertable
  <2> QED
    BY <2>1 DEF Stock, Known
<1> QED
  BY <1>1, <1>2, <1>3 DEF InventoryNext, inventoryVars, allVars, Attaching, Next,
     ServiceStep, FormStep, PreviewImport, CommitCheck, CommitFails

LEMMA FileStaysSound ==
    ASSUME NEW rows, FileSound(rows), Stock \subseteq Stock'
    PROVE  FileSound(rows)'
  BY DEF FileSound, CyclicRow, LineOfFile

(* What a step does to the parents: it keeps them, or adds assets under    *)
(* known ones, or inserts a sound file, or writes a form.                  *)
ParentsKept == \A a \in Stock : asset'[a].parent = asset[a].parent
Added == \A a \in Assets \ Stock : asset'[a].parent \subseteq Stock
Inserted(rows) ==
    /\ rows \in Files /\ FileSound(rows)
    /\ DOMAIN rows \cap Stock = {}
    /\ DOMAIN rows \subseteq Stock'
    /\ \A a \in DOMAIN rows : asset'[a].parent = rows[a].parent
    /\ \A a \in Assets \ DOMAIN rows : asset'[a] = asset[a]
Written(w) ==
    \E a \in Assets : /\ form[w] # Idle /\ form'[w] = Idle
                      /\ asset' = [asset EXCEPT ![a] = form[w].row]

LEMMA SetStatusKeeps ==
    ASSUME TypeOK, NEW a \in Assets, NEW s, SetStatus(a, s)
    PROVE  \A b \in Assets : asset'[b].parent = asset[b].parent
<1>1. \A b \in Assets : asset'[b] = IF a = b THEN [asset[a] EXCEPT !.status = s] ELSE asset[b]
  BY DEF SetStatus, TypeOK
<1>2. \A b \in Assets : asset[b] = [status |-> asset[b].status, parent |-> asset[b].parent]
  BY DEF TypeOK, AssetRows, NoAsset, Statuses
<1> QED
  BY <1>1, <1>2

LEMMA ParentSteps ==
    ASSUME AncestryInv, [InventoryNext]_inventoryVars
    PROVE  \/ ParentsKept /\ Added
           \/ \E rows : Inserted(rows)
           \/ \E w \in Editors : Written(w)
<1>0. TypeOK /\ \A a \in Assets \ Stock : asset[a].parent \subseteq Stock
  BY DEF AncestryInv, ImportInv, LineageInv
<1>1. ASSUME NEW a \in Assets, NEW s, SetStatus(a, s) PROVE ParentsKept /\ Added
  BY <1>0, <1>1, SetStatusKeeps DEF ParentsKept, Added, Stock
<1>2. CASE UNCHANGED asset
  BY <1>0, <1>2 DEF ParentsKept, Added
<1>3. CASE CheckoutAssets
  <2>1. PICK assets \in SUBSET Assets :
            asset' = [b \in Assets |->
               IF b \in assets THEN [asset[b] EXCEPT !.status = "checked_out"]
                               ELSE asset[b]]
    BY <1>3 DEF CheckoutAssets, Stock
  <2>2. \A b \in Assets : asset[b] = [status |-> asset[b].status, parent |-> asset[b].parent]
    BY <1>0 DEF TypeOK, AssetRows, NoAsset, Statuses
  <2>3. \A b \in Assets : asset'[b].parent = asset[b].parent
    BY <2>1, <2>2
  <2> QED
    BY <1>0, <2>3 DEF ParentsKept, Added, Stock
<1>4. CASE \E c \in Checkouts :
              \/ ReturnNormal(c)
              \/ \E condition \in Conditions : ReturnOnHold(c, condition)
              \/ \E s \in Statuses : ResolveHold(c, s)
  <2>1. PICK c \in Checkouts : Open(c) /\ \E s : SetStatus(checkout[c].asset, s)
    BY <1>4 DEF ReturnNormal, ReturnOnHold, ResolveHold, Returnable, Open
  <2>2. checkout[c].asset \in Assets
    BY <1>0, <2>1, OpenRow DEF CheckoutRows
  <2> QED
    BY <1>1, <2>1, <2>2
<1>5. CASE \E b \in Assets, r \in BOOLEAN : RecordMaintenance(b, r)
  BY <1>1, <1>5 DEF RecordMaintenance
<1>6. ASSUME NEW a \in Assets, CreateAsset(a) PROVE ParentsKept /\ Added
  <2>1. PICK status \in FormStatuses, parent \in Parents :
            asset' = [asset EXCEPT ![a] = NewAsset(status, parent)]
    BY <1>6 DEF CreateAsset
  <2>2. a \notin Stock /\ parent \subseteq Stock
    BY <1>6, <2>1 DEF CreateAsset, Stock, Parents
  <2>3. \A b \in Assets : asset'[b] = IF b = a THEN NewAsset(status, parent) ELSE asset[b]
    BY <1>0, <2>1 DEF TypeOK
  <2> QED
    BY <1>0, <2>2, <2>3 DEF ParentsKept, Added, NewAsset, Stock
<1>7. ASSUME NEW w \in Editors, FormWrite(w) PROVE Written(w)
  <2>1. form[w] # Idle /\ form'[w] = Idle
    BY <1>0, <1>7 DEF FormWrite, TypeOK
  <2>2. form[w].object \in Assets
    BY <1>0, <2>1 DEF TypeOK
  <2> QED
    BY <1>7, <2>1, <2>2 DEF FormWrite, Written
<1>8. ASSUME NEW w \in Importers, NEW b \in Batches, CommitInsert(w, b)
      PROVE  Inserted(batch[b].rows)
  <2> DEFINE rows == batch[b].rows
  <2>1. /\ DOMAIN rows \cap Stock = {}
        /\ asset' = [a \in Assets |-> IF a \in DOMAIN rows
                                      THEN NewAsset(rows[a].status, rows[a].parent)
                                      ELSE asset[a]]
        /\ b \in importing[w]
    BY <1>8 DEF CommitInsert, Insertable
  <2>2. batch[b].status = "preview" /\ batch[b] \in BatchRows
    BY <2>1 DEF AncestryInv, ImportInv, LockedPreviews
  <2>3. rows \in Files /\ FileSound(rows)
    BY <2>2 DEF BatchRows, ValidFiles, AncestryInv, LineageInv
  <2>4. /\ DOMAIN rows \subseteq Assets
        /\ \A a \in DOMAIN rows : NewAsset(rows[a].status, rows[a].parent) \in AssetRows
    BY <2>3, FileTypes
  <2> HIDE DEF rows
  <2>5. \A a \in DOMAIN rows : asset'[a] = NewAsset(rows[a].status, rows[a].parent)
    BY <2>1, <2>4
  <2>6. DOMAIN rows \subseteq Stock'
    BY <2>4, <2>5 DEF Stock, Known, AssetRows, Statuses
  <2>7. \A a \in Assets \ DOMAIN rows : asset'[a] = asset[a]
    BY <2>1
  <2>8. ASSUME NEW a \in DOMAIN rows PROVE asset'[a].parent = rows[a].parent
    <3>1. asset'[a] = NewAsset(rows[a].status, rows[a].parent)
      BY <2>5
    <3>2. NewAsset(rows[a].status, rows[a].parent).parent = rows[a].parent
      BY DEF NewAsset
    <3> QED
      BY Zenon, <3>1, <3>2
  <2>9. Inserted(rows)
    BY Zenon, <2>1, <2>3, <2>6, <2>7, <2>8 DEF Inserted
  <2> QED
    BY <2>9 DEF rows
<1> QED
  BY <1>2, <1>3, <1>4, <1>5, <1>6, <1>7, <1>8
     DEF InventoryNext, inventoryVars, allVars, vars, Attaching, Next,
     ServiceStep, FormStep, PreviewImport, CommitCheck, CommitFails, FormRead, FormAbort

LEMMA ParentsStay ==
    ASSUME AncestryInv, [InventoryNext]_inventoryVars
    PROVE  \A a \in Assets : asset'[a].parent \subseteq Stock'
<1>1. /\ \A a \in Assets : asset[a].parent \subseteq Stock
      /\ Stock \subseteq Stock'
      /\ TypeOK
  BY StockStays DEF AncestryInv, ImportInv, LineageInv
<1>2. CASE ParentsKept /\ Added
  BY <1>1, <1>2 DEF ParentsKept, Added
<1>3. ASSUME NEW rows, Inserted(rows)
      PROVE  \A a \in Assets : asset'[a].parent \subseteq Stock'
  BY <1>1, <1>3 DEF Inserted, FileSound
<1>4. ASSUME NEW w \in Editors, Written(w)
      PROVE  \A a \in Assets : asset'[a].parent \subseteq Stock'
  <2>1. PICK a \in Assets : form[w] # Idle /\ asset' = [asset EXCEPT ![a] = form[w].row]
    BY <1>4 DEF Written
  <2>2. form[w].row.parent \subseteq Stock
    BY <2>1 DEF AncestryInv, LineageInv
  <2>3. \A b \in Assets : asset'[b] = IF b = a THEN form[w].row ELSE asset[b]
    BY <1>1, <2>1 DEF TypeOK
  <2> QED
    BY <1>1, <2>2, <2>3
<1> QED
  BY <1>2, <1>3, <1>4, ParentSteps

LEMMA FormsStay ==
    ASSUME AncestryInv, [InventoryNext]_inventoryVars
    PROVE  \A w \in Editors : form'[w] # Idle => form'[w].row.parent \subseteq Stock'
<1>1. /\ \A a \in Assets : asset[a].parent \subseteq Stock
      /\ \A w \in Editors : form[w] # Idle => form[w].row.parent \subseteq Stock
      /\ Stock \subseteq Stock'
      /\ TypeOK
  BY StockStays DEF AncestryInv, ImportInv, LineageInv
<1>2. CASE UNCHANGED form
  BY <1>1, <1>2
<1>3. ASSUME NEW w \in Editors, form' = [form EXCEPT ![w] = Idle]
      PROVE  \A v \in Editors : form'[v] # Idle => form'[v].row.parent \subseteq Stock'
  <2>1. \A v \in Editors : form'[v] = IF v = w THEN Idle ELSE form[v]
    BY <1>1, <1>3 DEF TypeOK
  <2> QED
    BY <1>1, <2>1
<1>4. ASSUME NEW w \in Editors, NEW a \in Assets, FormRead(w, a)
      PROVE  \A v \in Editors : form'[v] # Idle => form'[v].row.parent \subseteq Stock'
  <2>1. PICK status \in AllowedStatuses(a),
             parent \in AllowedParents(a, Parents) \cup {asset[a].parent} :
            form' = [form EXCEPT ![w] = [step |-> "write", object |-> a,
                                         row |-> NewAsset(status, parent)]]
    BY <1>4 DEF FormRead
  <2>2. parent \subseteq Stock
    BY <1>1 DEF AllowedParents, Parents
  <2>3. form'[w].row.parent = parent /\ \A v \in Editors : v # w => form'[v] = form[v]
    BY <1>1, <2>1 DEF TypeOK, NewAsset
  <2> QED
    BY <1>1, <2>2, <2>3
<1> QED
  BY <1>2, <1>3, <1>4
     DEF InventoryNext, inventoryVars, allVars, vars, Attaching, Next, FormWrite, FormAbort,
     PreviewImport, CommitCheck, CommitInsert, CommitFails, CheckoutAssets, ReturnNormal,
     ReturnOnHold, ResolveHold, RecordMaintenance, CreateAsset

LEMMA BatchesStay ==
    ASSUME AncestryInv, [InventoryNext]_inventoryVars
    PROVE  \A b \in Batches :
               (batch'[b].status = "preview" /\ ~ batch'[b].faulty) => FileSound(batch[b].rows)'
<1>1. /\ \A b \in Batches :
             (batch[b].status = "preview" /\ ~ batch[b].faulty) => FileSound(batch[b].rows)
      /\ Stock \subseteq Stock'
      /\ BatchTypes
  BY StockStays DEF AncestryInv, ImportInv, LineageInv
<1>2. ASSUME NEW b \in Batches, batch'[b] = batch[b],
             batch'[b].status = "preview", ~ batch'[b].faulty
      PROVE  FileSound(batch[b].rows)'
  <2>1. \A a \in DOMAIN batch[b].rows :
            /\ batch[b].rows[a].parent \subseteq Stock \cup DOMAIN batch[b].rows
            /\ ~ CyclicRow(batch[b].rows, a)
    BY <1>1, <1>2 DEF FileSound
  <2> QED
    BY <1>1, <1>2, <2>1 DEF FileSound
<1>3. ASSUME NEW b \in Batches, PreviewImport(b),
             batch'[b].status = "preview", ~ batch'[b].faulty
      PROVE  FileSound(batch[b].rows)'
  <2>1. PICK rows \in FilesTried : batch' = [batch EXCEPT ![b] = Previewed(rows)]
    BY <1>3 DEF PreviewImport
  <2>2. batch'[b] = Previewed(rows)
    BY <1>1, <2>1 DEF BatchTypes
  <2>3. FileErrors(rows) = {} /\ batch'[b].rows = rows
    BY <1>3, <2>2 DEF Previewed, Refused
  <2>4. \A a \in DOMAIN rows : rows[a].parent \subseteq Stock \cup DOMAIN rows
                               /\ ~ CyclicRow(rows, a)
    BY <2>3 DEF FileErrors
  <2> QED
    BY <1>1, <2>3, <2>4 DEF FileSound
<1>4. CASE UNCHANGED batch
  BY <1>2, <1>4
<1>5. ASSUME NEW b \in Batches, PreviewImport(b)
      PROVE  \A c \in Batches : (batch'[c].status = "preview" /\ ~ batch'[c].faulty)
                                    => FileSound(batch[c].rows)'
  <2>1. \A c \in Batches : c # b => batch'[c] = batch[c]
    BY <1>1, <1>5 DEF PreviewImport, BatchTypes
  <2> QED
    BY <1>2, <1>3, <1>5, <2>1
<1>6. ASSUME NEW w \in Importers, NEW b \in Batches, CommitInsert(w, b)
      PROVE  \A c \in Batches : (batch'[c].status = "preview" /\ ~ batch'[c].faulty)
                                    => FileSound(batch[c].rows)'
  <2>1. \A c \in Batches : c # b => batch'[c] = batch[c]
    BY <1>1, <1>6 DEF CommitInsert, BatchTypes
  <2>2. batch[b] \in BatchRows /\ batch' = [batch EXCEPT ![b].status = "committed"]
    BY <1>6 DEF CommitInsert, AncestryInv, ImportInv, LockedPreviews
  <2>3. batch'[b] = [batch[b] EXCEPT !.status = "committed"]
    BY <1>1, <2>2 DEF BatchTypes
  <2>4. batch'[b].status # "preview"
    <3>1. \A r \in BatchRows : [r EXCEPT !.status = "committed"].status = "committed"
      BY DEF BatchRows
    <3> QED
      BY <2>2, <2>3, <3>1
  <2>5. ASSUME NEW c \in Batches, batch'[c].status = "preview", ~ batch'[c].faulty
        PROVE  FileSound(batch[c].rows)'
    <3>1. batch'[c] = batch[c]
      BY <2>1, <2>4, <2>5
    <3> QED
      BY <1>2, <2>5, <3>1
  <2> QED
    BY <2>5
<1> QED
  BY <1>4, <1>5, <1>6
     DEF InventoryNext, inventoryVars, allVars, importVars, Attaching, Custody,
     CommitCheck, CommitFails

LEMMA AncestryInvInit == InventoryInit => AncestryInv
<1> SUFFICES ASSUME InventoryInit PROVE AncestryInv
  OBVIOUS
<1>1. ImportInv
  BY ImportInvInit
<1>2. \A a \in Assets : asset[a].parent = {}
  BY DEF InventoryInit, ImportInit, Init, NoAsset, NewAsset
<1>3. /\ \A w \in Editors : form[w] = Idle
      /\ \A b \in Batches : batch[b].status = "none"
  BY DEF InventoryInit, ImportInit, Init, NoBatch
<1> QED
  BY <1>1, <1>2, <1>3 DEF AncestryInv, LineageInv

LEMMA AncestryInvNext ==
    ASSUME AncestryInv, [InventoryNext]_inventoryVars
    PROVE  AncestryInv'
<1>1. ImportInv'
  BY ImportInvNext DEF AncestryInv
<1>2. LineageInv'
  BY ParentsStay, FormsStay, BatchesStay DEF LineageInv
<1> QED
  BY <1>1, <1>2 DEF AncestryInv

LEMMA LineNow ==
    ASSUME \A p \in Assets : asset[p].parent \in SUBSET Assets,
           NEW start \in SUBSET Assets
    PROVE  WalkOf(asset, start, Line(start))
<1>1. Line(start) = CHOOSE f : f = [n \in 0..Tall |->
          IF n = 0 THEN start ELSE UNION {asset[p].parent : p \in f[n - 1]}]
  BY Zenon DEF Line, Tall
<1> QED
  BY <1>1, LineWalks

LEMMA LineNext ==
    ASSUME \A p \in Assets : asset'[p].parent \in SUBSET Assets,
           NEW start \in SUBSET Assets
    PROVE  WalkOf(asset', start, Line(start)')
<1>1. Line(start)' = CHOOSE f : f = [n \in 0..Tall |->
          IF n = 0 THEN start ELSE UNION {asset'[p].parent : p \in f[n - 1]}]
  BY Zenon DEF Line, Tall
<1> QED
  BY <1>1, LineWalks

(* Without the write of a form, an asset that is its own ancestor after    *)
(* the step was so before it.                                              *)
LEMMA NoNewCircle ==
    ASSUME AncestryInv, AncestryInv',
           \/ ParentsKept /\ Added
           \/ \E rows : Inserted(rows),
           NEW a \in Assets, NEW start, start = asset'[a].parent,
           NEW n \in 0..Tall, a \in Line(start)'[n]
    PROVE  a \in Ancestors(asset[a].parent)
<1>1. /\ \A p \in Assets : asset[p].parent \subseteq Stock
      /\ Stock \subseteq Assets
      /\ \A p \in Assets : asset'[p].parent \in SUBSET Assets
      /\ start \in SUBSET Assets
  BY DEF AncestryInv, LineageInv, Stock
<1>2. WalkOf(asset', start, Line(start)') /\ WalkOf(asset, start, Line(start))
  BY <1>1, LineNow, LineNext
<1> DEFINE line == Line(start)'
           before == Line(start)
<1>3. ASSUME start \subseteq Stock,
             \A p \in Stock : asset'[p].parent = asset[p].parent
      PROVE  a \in Ancestors(asset[a].parent)
  <2>1. \A p \in Stock : asset[p].parent \subseteq Stock
                         /\ asset'[p].parent = asset[p].parent
    BY <1>1, <1>3
  <2>2. WalkOf(asset', start, line) /\ WalkOf(asset, start, before) /\ a \in line[n]
    BY <1>2
  <2> HIDE DEF line, before
  <2>3. line[n] = before[n] /\ line[n] \subseteq Stock
    BY <1>3, <2>1, <2>2, SameWalk
  <2>4. a \in Stock /\ a \in before[n] /\ start = asset[a].parent
    BY <1>3, <2>2, <2>3
  <2> QED
    BY <2>4 DEF before, Ancestors, Tall
<1>4. CASE ParentsKept /\ Added
  BY <1>1, <1>3, <1>4 DEF ParentsKept, Added
<1>5. ASSUME NEW rows, Inserted(rows) PROVE a \in Ancestors(asset[a].parent)
  <2>1. /\ Stock \cap DOMAIN rows = {}
        /\ \A p \in Assets \ DOMAIN rows : asset'[p] = asset[p]
        /\ \A p \in DOMAIN rows : /\ rows[p].parent \subseteq Stock \cup DOMAIN rows
                                  /\ asset'[p].parent = rows[p].parent
                                  /\ ~ CyclicRow(rows, p)
    BY <1>5 DEF Inserted, FileSound
  <2>2. DOMAIN rows \subseteq Assets
    BY <1>5, FileTypes DEF Inserted
  <2>3. \A p \in Stock : asset'[p].parent = asset[p].parent
    BY <1>1, <2>1
  <2>4. CASE a \notin DOMAIN rows
    BY <1>1, <1>3, <2>1, <2>3, <2>4
  <2>5. CASE a \in DOMAIN rows
    <3> DEFINE up == LineOfFile(rows, a)
    <3>1. start = rows[a].parent /\ start \in SUBSET (Stock \cup DOMAIN rows)
      BY <2>1, <2>5
    <3>2. \A p \in DOMAIN rows : rows[p].parent \in SUBSET Assets
      BY <1>1, <2>1, <2>2
    <3>3. FileWalk(rows, start, up)
      BY <2>5, <3>1, <3>2, FileWalks
    <3>4. \A p \in Stock : asset'[p].parent \subseteq Stock
      BY <1>1, <2>3
    <3>5. WalkOf(asset', start, line) /\ a \in line[n]
      BY <1>2
    <3>6. up[Tall] \cap DOMAIN rows = {}
      BY <2>1, <2>5 DEF CyclicRow, Tall
    <3>10. Extends(rows, asset', Stock, start)
      BY <2>1, <3>1, <3>4 DEF Extends
    <3> HIDE DEF up, line
    <3>11. \A m \in 0..Tall : line[m] \cap DOMAIN rows = up[m] \cap DOMAIN rows
      BY <3>3, <3>5, <3>10, RowsWalk
    <3>7. line[n] \cap DOMAIN rows = up[n] \cap DOMAIN rows
      BY <3>11
    <3>8. a \in up[n]
      BY <2>5, <3>5, <3>7
    <3>9. up[Tall] \cap DOMAIN rows # {}
      BY <2>5, <3>1, <3>3, <3>8, CircleStays
    <3> QED
      BY <3>6, <3>9
  <2> QED
    BY <2>4, <2>5
<1> QED
  BY <1>4, <1>5

(* CirclesOnlyFromForms: an import closes no circle of parents, whatever   *)
(* else was written since its preview, and neither does any other request  *)
(* but the write of a form.                                                *)
THEOREM ImportsCloseNoCircle == InventorySpec => CirclesOnlyFromForms
<1>1. ASSUME AncestryInv, [InventoryNext]_inventoryVars
      PROVE  [(ParentsAcyclic /\ ~ ParentsAcyclic') =>
                  \E w \in Editors : form[w] # Idle /\ form'[w] = Idle]_allVars
  <2>1. AncestryInv'
    BY <1>1, AncestryInvNext
  <2>2. CASE \E w \in Editors : Written(w)
    BY <2>2 DEF Written
  <2>3. CASE (ParentsKept /\ Added) \/ \E rows : Inserted(rows)
    <3> SUFFICES ASSUME ParentsAcyclic PROVE ParentsAcyclic'
      OBVIOUS
    <3>1. ASSUME NEW a \in Assets, NEW start, start = asset'[a].parent,
                 NEW n \in 0..Tall, a \in Line(start)'[n]
          PROVE  FALSE
      <4>1. a \in Ancestors(asset[a].parent)
        BY <1>1, <2>1, <2>3, <3>1, NoNewCircle
      <4> QED
        BY <4>1 DEF ParentsAcyclic
    <3>2. ASSUME NEW a \in Assets PROVE (a \notin Ancestors(asset[a].parent))'
      <4>1. ASSUME NEW n \in 0..Tall PROVE a \notin Line(asset[a].parent)'[n]
        BY <3>1
      <4> QED
        BY <4>1 DEF Ancestors, Tall
    <3> QED
      BY <3>2 DEF ParentsAcyclic
  <2> QED
    BY <1>1, <2>2, <2>3, ParentSteps
<1> QED
  BY <1>1, AncestryInvInit, AncestryInvNext, PTL DEF InventorySpec, CirclesOnlyFromForms
=============================================================================
