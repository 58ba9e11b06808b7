----------------------- MODULE ProfileVersionsProofs -----------------------
(***************************************************************************)
(* What an approved version publishes is its row, for every number of      *)
(* workers and versions and every set of edits.  Approval writes the row   *)
(* it refreshed under the lock, so it matters what the requests in flight  *)
(* hold: a whole row, that of a draft where an edit or a copy will write   *)
(* it.  The rows have their types, whatever the edits send.                *)
(***************************************************************************)
EXTENDS ProfileVersions, FiniteSetTheorems, WellFoundedInduction, TLAPS

(* A row with the columns of the table, whatever they hold.                *)
Columns(row) ==
    row = [number |-> row.number, status |-> row.status, inputs |-> row.inputs,
           path |-> row.path, content |-> row.content]

Faithful(row) ==
    /\ row.content.number = row.number
    /\ row.content.inputs = row.inputs
    /\ row.content.path = row.path

(* A request that edits or approves has a row of the table and holds one.  *)
WritesRow(r) ==
    /\ r = [step |-> r.step, id |-> r.id, row |-> r.row]
    /\ r.id \in Versions
    /\ Columns(version[r.id])
    /\ Columns(r.row)

HoldsRow(r) ==
    /\ r = [step |-> r.step, row |-> r.row]
    /\ Columns(r.row)

RowInv(row) == row # None => Columns(row) /\ (row.status = "approved" => Faithful(row))

RequestInv(r) ==
    /\ r.step \in {"patch", "patching", "approve", "approving", "locked"} => WritesRow(r)
    /\ r.step \in {"copy", "number", "insert"} => HoldsRow(r)
    /\ r.step \in {"patch", "patching", "insert"} => r.row.status = "draft"

ProfileInv ==
    /\ version = [v \in Versions |-> version[v]]
    /\ request = [w \in Workers |-> request[w]]
    /\ \A v \in Versions : RowInv(version[v])
    /\ \A w \in Workers : RequestInv(request[w])

-----------------------------------------------------------------------------
(* What an edit, a copy, a refresh and an approval make of a row.          *)
LEMMA NormalizedColumns ==
    ASSUME NEW row, NEW attrs, Columns(row)
    PROVE  /\ Columns(Normalized(row, attrs))
           /\ Normalized(row, attrs).status = row.status
<1> SUFFICES ASSUME NEW n, n = Normalized(row, attrs)
             PROVE  Columns(n) /\ n.status = row.status
  OBVIOUS
<1>1. PICK inputs, path : n = [row EXCEPT !.inputs = inputs, !.path = path]
  BY DEF Normalized
<1> QED
  BY <1>1 DEF Columns

LEMMA FirstDraftColumns ==
    ASSUME NEW attrs
    PROVE  Columns(FirstDraft(attrs)) /\ FirstDraft(attrs).status = "draft"
<1> DEFINE row == [number |-> 1, status |-> "draft", inputs |-> Defaults,
                   path |-> <<"unknown">>, content |-> None]
<1>1. Columns(row) /\ row.status = "draft"
  BY DEF Columns
<1> QED
  BY <1>1, NormalizedColumns DEF FirstDraft

LEMMA RefreshedColumns ==
    ASSUME NEW row, NEW stale, Columns(row)
    PROVE  Columns(Refreshed(row, stale))
<1> SUFFICES ASSUME NEW n, n = Refreshed(row, stale) PROVE Columns(n)
  OBVIOUS
<1> QED
  BY DEF Refreshed, Columns

NextDraft(row, number) ==
    [row EXCEPT !.number = number, !.status = "draft", !.content = None]

LEMMA NextDraftColumns ==
    ASSUME NEW row, NEW number, Columns(row)
    PROVE  Columns(NextDraft(row, number)) /\ NextDraft(row, number).status = "draft"
<1> SUFFICES ASSUME NEW n, n = NextDraft(row, number)
             PROVE  Columns(n) /\ n.status = "draft"
  OBVIOUS
<1> QED
  BY DEF NextDraft, Columns

Published(row) == [row EXCEPT !.status = "approved", !.content = Canonical(row)]

LEMMA PublishedFaithful ==
    ASSUME NEW row, Columns(row)
    PROVE  Columns(Published(row)) /\ Faithful(Published(row))
<1> SUFFICES ASSUME NEW n, n = Published(row), NEW c, c = Canonical(row)
             PROVE  Columns(n) /\ Faithful(n)
  OBVIOUS
<1>1. Columns(n) /\ n.number = row.number /\ n.inputs = row.inputs
        /\ n.path = row.path /\ n.content = c
  BY DEF Published, Columns
<1>2. c.number = row.number /\ c.inputs = row.inputs /\ c.path = row.path
  BY DEF Canonical
<1> QED
  BY <1>1, <1>2 DEF Faithful

(* A step that leaves the versions alone and gives one worker a request    *)
(* that is in order.                                                       *)
LEMMA RequestSteps ==
    ASSUME ProfileInv, version' = version, NEW w \in Workers, NEW r,
           Become(w, r), RequestInv(r)
    PROVE  ProfileInv'
<1>1. \A u \in Workers : RequestInv(request'[u])
  BY DEF ProfileInv, Become
<1>2. \A u \in Workers : RequestInv(request[u])'
  BY <1>1 DEF RequestInv, WritesRow, HoldsRow, Columns
<1>3. \A v \in Versions : RowInv(version[v])'
  BY DEF ProfileInv, RowInv, Columns, Faithful
<1>4. request' = [u \in Workers |-> request'[u]]
  BY DEF ProfileInv, Become
<1> QED
  BY <1>2, <1>3, <1>4 DEF ProfileInv

(* A step that writes one row of the versions, a row in order, and leaves  *)
(* every request alone but those that end.                                 *)
LEMMA VersionSteps ==
    ASSUME ProfileInv, NEW v \in Versions, NEW row, Columns(row),
           row.status = "approved" => Faithful(row),
           version' = [version EXCEPT ![v] = row],
           request' = [w \in Workers |-> request'[w]],
           \A w \in Workers : request'[w] = request[w] \/ request'[w] = Idle
    PROVE  ProfileInv'
<1>1. version' = [u \in Versions |-> IF u = v THEN row ELSE version[u]]
  BY DEF ProfileInv
<1>2. \A u \in Versions : RowInv(version[u])'
  BY <1>1 DEF ProfileInv, RowInv, Columns, Faithful
<1>3. ASSUME NEW w \in Workers PROVE RequestInv(request[w])'
  <2>1. CASE request'[w] = Idle
    BY <2>1 DEF RequestInv, Idle
  <2>2. CASE request'[w] = request[w]
    <3>1. WritesRow(request[w]) => WritesRow(request[w])'
      BY <1>1, <2>2 DEF WritesRow, Columns
    <3> QED
      BY <2>2, <3>1 DEF ProfileInv, RequestInv, HoldsRow, Columns
  <2> QED
    BY <2>1, <2>2
<1> QED
  BY <1>1, <1>2, <1>3 DEF ProfileInv

LEMMA BecomeIdle ==
    ASSUME ProfileInv, NEW w \in Workers, Become(w, Idle)
    PROVE  /\ request' = [u \in Workers |-> request'[u]]
           /\ \A u \in Workers : request'[u] = request[u] \/ request'[u] = Idle
  BY DEF ProfileInv, Become

LEMMA IdleInv == RequestInv(Idle)
  BY DEF RequestInv, Idle

-----------------------------------------------------------------------------
LEMMA ProfileInvInit == Init => ProfileInv
  BY DEF Init, ProfileInv, RowInv, RequestInv, Idle

(* A save that looks the row up once more goes on with what it held.       *)
LEMMA CheckSaveInv ==
    ASSUME ProfileInv, NEW w \in Workers, NEW from, NEW to, CheckSave(w, from, to),
           \/ from = "patch" /\ to = "patching"
           \/ from = "approve" /\ to = "approving"
    PROVE  ProfileInv'
<1>1. CASE SaveAllowed(request[w].id)
  <2>1. /\ WritesRow(request[w])
        /\ from = "patch" => request[w].row.status = "draft"
    BY DEF ProfileInv, RequestInv, CheckSave, At
  <2> DEFINE r == [request[w] EXCEPT !.step = to]
  <2>2. r = [step |-> to, id |-> request[w].id, row |-> request[w].row]
    BY <2>1 DEF WritesRow
  <2>3. RequestInv(r)
    BY <2>1, <2>2 DEF RequestInv, WritesRow
  <2>4. Become(w, r) /\ version' = version
    BY <1>1 DEF CheckSave
  <2> QED
    BY <2>3, <2>4, RequestSteps
<1>2. CASE ~ SaveAllowed(request[w].id)
  BY <1>2, IdleInv, RequestSteps DEF CheckSave
<1> QED
  BY <1>1, <1>2

LEMMA ProfileInvNext == ProfileInv /\ [Next]_vars => ProfileInv'
<1> SUFFICES ASSUME ProfileInv, [Next]_vars PROVE ProfileInv'
  OBVIOUS
<1>1. CASE UNCHANGED vars
  BY <1>1 DEF vars, ProfileInv, RowInv, RequestInv, Columns, Faithful, WritesRow, HoldsRow
<1>2. ASSUME NEW w \in Workers, NEW v \in Versions, NEW name \in Names,
             NEW attrs \in Patches, CreateProfile(w, v, name, attrs)
      PROVE  ProfileInv'
  <2>1. version' = [version EXCEPT ![v] = FirstDraft(attrs)] /\ request' = request
    BY <1>2 DEF CreateProfile
  <2>2. request' = [u \in Workers |-> request'[u]]
    BY <2>1 DEF ProfileInv
  <2> QED
    BY <2>1, <2>2, FirstDraftColumns, VersionSteps
<1>3. ASSUME NEW w \in Workers, NEW name \in Names, ReadRename(w, name)
      PROVE  ProfileInv'
  <2> DEFINE r == [step |-> "rename", row |-> [profile EXCEPT !.name = name]]
  <2>1. RequestInv(r)
    BY DEF RequestInv
  <2> QED
    BY <1>3, <2>1, RequestSteps DEF ReadRename
<1>4. ASSUME NEW w \in Workers, WriteRename(w) PROVE ProfileInv'
  BY <1>4, IdleInv, RequestSteps DEF WriteRename
<1>5. ASSUME NEW w \in Workers, ArchiveProfile(w) PROVE ProfileInv'
  BY <1>5 DEF ArchiveProfile, ProfileInv, RowInv, RequestInv, Columns, Faithful,
              WritesRow, HoldsRow
<1>6. ASSUME NEW w \in Workers, NEW v \in Versions, NEW attrs \in Patches,
             ReadPatch(w, v, attrs)
      PROVE  ProfileInv'
  <2>1. Columns(version[v]) /\ version[v].status = "draft"
    BY <1>6 DEF ReadPatch, Drafts, Rows, ProfileInv, RowInv
  <2> DEFINE r == [step |-> "patch", id |-> v, row |-> Normalized(version[v], attrs)]
  <2>2. Columns(Normalized(version[v], attrs)) /\ Normalized(version[v], attrs).status = "draft"
    BY <2>1, NormalizedColumns
  <2>3. RequestInv(r)
    BY <2>1, <2>2 DEF RequestInv, WritesRow
  <2> QED
    BY <1>6, <2>3, RequestSteps DEF ReadPatch
<1>7. ASSUME NEW w \in Workers, CheckPatch(w) PROVE ProfileInv'
  BY <1>7, CheckSaveInv DEF CheckPatch
<1>8. ASSUME NEW w \in Workers, WritePatch(w) PROVE ProfileInv'
  <2>1. WritesRow(request[w]) /\ request[w].row.status = "draft"
    BY <1>8 DEF WritePatch, At, ProfileInv, RequestInv
  <2> QED
    BY <1>8, <2>1, BecomeIdle, VersionSteps DEF WritePatch, WritesRow
<1>9. ASSUME NEW w \in Workers, NEW v \in Versions, ReadApprove(w, v) PROVE ProfileInv'
  <2>1. Columns(version[v])
    BY <1>9 DEF ReadApprove, Drafts, Rows, ProfileInv, RowInv
  <2> DEFINE r == [step |-> "approve", id |-> v, row |-> Normalized(version[v], <<>>)]
  <2>2. Columns(Normalized(version[v], <<>>))
    BY <2>1, NormalizedColumns
  <2>3. RequestInv(r)
    BY <2>1, <2>2 DEF RequestInv, WritesRow
  <2> QED
    BY <1>9, <2>3, RequestSteps DEF ReadApprove
<1>10. ASSUME NEW w \in Workers, CheckApprove(w) PROVE ProfileInv'
  BY <1>10, CheckSaveInv DEF CheckApprove
<1>11. ASSUME NEW w \in Workers, LockApprove(w) PROVE ProfileInv'
  <2>1. WritesRow(request[w])
    BY <1>11 DEF LockApprove, At, ProfileInv, RequestInv
  <2> DEFINE row == Refreshed(version[request[w].id], request[w].row)
             r == [step |-> "locked", id |-> request[w].id, row |-> row]
  <2>2. Columns(row)
    BY <2>1, RefreshedColumns DEF WritesRow
  <2>3. RequestInv(r)
    BY <2>1, <2>2 DEF RequestInv, WritesRow
  <2>4. ASSUME NEW n, n = [request[w] EXCEPT !.step = "locked",
                     !.row = Refreshed(version[request[w].id], @)]
        PROVE  n = r
    BY <2>1, <2>4 DEF WritesRow
  <2>5. Become(w, r) /\ version' = version
    BY <1>11, <2>4 DEF LockApprove
  <2> QED
    BY <2>3, <2>5, RequestSteps
<1>12. ASSUME NEW w \in Workers, FinishApprove(w) PROVE ProfileInv'
  <2>1. WritesRow(request[w])
    BY <1>12 DEF FinishApprove, At, ProfileInv, RequestInv
  <2>2. CASE request[w].row.status = "approved"
    BY <1>12, <2>2, IdleInv, RequestSteps DEF FinishApprove
  <2>3. CASE request[w].row.status # "approved"
    <3>1. version' = [version EXCEPT ![request[w].id] = Published(request[w].row)]
      BY <1>12, <2>3 DEF FinishApprove, Published
    <3>2. /\ Columns(Published(request[w].row))
          /\ Faithful(Published(request[w].row))
      BY <2>1, PublishedFaithful DEF WritesRow
    <3> QED
      BY <1>12, <2>1, <3>1, <3>2, BecomeIdle, VersionSteps DEF FinishApprove, WritesRow
  <2> QED
    BY <2>2, <2>3
<1>13. ASSUME NEW w \in Workers, NEW v \in Versions, ReadCopy(w, v) PROVE ProfileInv'
  <2>1. Columns(version[v])
    BY <1>13 DEF ReadCopy, Approved, Rows, ProfileInv, RowInv
  <2> DEFINE r == [step |-> "copy", row |-> version[v]]
  <2>2. RequestInv(r)
    BY <2>1 DEF RequestInv, HoldsRow
  <2> QED
    BY <1>13, <2>2, RequestSteps DEF ReadCopy
<1>14. ASSUME NEW w \in Workers, DraftFree(w) PROVE ProfileInv'
  <2>1. HoldsRow(request[w])
    BY <1>14 DEF DraftFree, At, ProfileInv, RequestInv
  <2> DEFINE r == [request[w] EXCEPT !.step = "number"]
  <2>2. r = [step |-> "number", row |-> request[w].row]
    BY <2>1 DEF HoldsRow
  <2>3. RequestInv(r)
    BY <2>1, <2>2 DEF RequestInv, HoldsRow
  <2> QED
    BY <1>14, <2>3, IdleInv, RequestSteps DEF DraftFree
<1>15. ASSUME NEW w \in Workers, TakeNumber(w) PROVE ProfileInv'
  <2>1. HoldsRow(request[w])
    BY <1>15 DEF TakeNumber, At, ProfileInv, RequestInv
  <2> DEFINE row == NextDraft(request[w].row, NextNumber)
             r == [step |-> "insert", row |-> row]
  <2>2. Columns(row) /\ row.status = "draft"
    BY <2>1, NextDraftColumns DEF HoldsRow
  <2>3. RequestInv(r)
    BY <2>2 DEF RequestInv, HoldsRow
  <2> QED
    BY <1>15, <2>3, RequestSteps DEF TakeNumber, NextDraft
<1>16. ASSUME NEW w \in Workers, NEW v \in Versions, InsertCopy(w, v) PROVE ProfileInv'
  <2>1. HoldsRow(request[w]) /\ request[w].row.status = "draft"
    BY <1>16 DEF InsertCopy, At, ProfileInv, RequestInv
  <2>2. CASE version' = version
    BY <1>16, <2>2, IdleInv, RequestSteps DEF InsertCopy
  <2>3. CASE version' = [version EXCEPT ![v] = request[w].row]
    BY <1>16, <2>1, <2>3, BecomeIdle, VersionSteps DEF InsertCopy, HoldsRow
  <2> QED
    BY <1>16, <2>2, <2>3 DEF InsertCopy
<1>17. ASSUME NEW w \in Workers, NEW v \in Versions, NEW s \in Snapshots,
              CreateSnapshot(w, v, s)
       PROVE  ProfileInv'
  BY <1>17 DEF CreateSnapshot, ProfileInv, RowInv, RequestInv, Columns, Faithful,
               WritesRow, HoldsRow
<1>18. ASSUME NEW w \in Workers, NEW s \in Snapshots, ArchiveSnapshot(w, s)
       PROVE  ProfileInv'
  BY <1>18 DEF ArchiveSnapshot, ProfileInv, RowInv, RequestInv, Columns, Faithful,
               WritesRow, HoldsRow
<1> QED
  BY <1>1, <1>2, <1>3, <1>4, <1>5, <1>6, <1>7, <1>8, <1>9, <1>10, <1>11, <1>12,
     <1>13, <1>14, <1>15, <1>16, <1>17, <1>18 DEF Next

-----------------------------------------------------------------------------
SnapshotIsTheRow == \A v \in Approved : Faithful(version[v])

(* The content an approved version publishes has the number, the inputs    *)
(* and the calculation path of its row, whatever edits, approvals and      *)
(* copies raced (approve_version() snapshots the row that                  *)
(* refresh_from_db() returned).                                            *)
THEOREM PublishedContentIsTheRow == Spec => []SnapshotIsTheRow
<1>1. ProfileInv => SnapshotIsTheRow
  BY DEF ProfileInv, RowInv, Faithful, SnapshotIsTheRow, Approved, Rows
<1> QED
  BY <1>1, ProfileInvInit, ProfileInvNext, PTL DEF Spec

-----------------------------------------------------------------------------
(* A finite set of numbers has a greatest one.                             *)
LEMMA GreatestExists ==
    ASSUME NEW S, IsFiniteSet(S), S \subseteq Nat, S # {}
    PROVE  Max(S) \in S
<1> DEFINE Misses == {T \in SUBSET S : T # {} /\ \A x \in T : \E y \in T : ~ (x >= y)}
<1>1. Misses = {}
  <2> SUFFICES ASSUME Misses # {} PROVE FALSE
    OBVIOUS
  <2>1. Misses \subseteq FiniteSubsetsOf(S)
    BY FS_Subset DEF FiniteSubsetsOf
  <2>2. PICK T \in Misses : \A U \in Misses : <<U, T>> \notin StrictSubsetOrdering(S)
    <3> HIDE DEF Misses
    <3> QED
      BY <2>1, FS_StrictSubsetOrderingWellFounded, WFMin
  <2>3. PICK x : x \in T /\ x \in Nat /\ T \in SUBSET S
    BY <2>2
  <2>4. T \ {x} \notin Misses
    <3>1. T \ {x} \in SUBSET S /\ T \ {x} # T
      BY <2>3
    <3>2. <<T \ {x}, T>> \in StrictSubsetOrdering(S)
      BY <2>3, <3>1 DEF StrictSubsetOrdering
    <3> QED
      BY <2>2, <3>2
  <2>5. CASE T \ {x} = {}
    <3>1. \A y \in T : x >= y
      BY <2>3, <2>5
    <3> QED
      BY <2>2, <2>3, <3>1
  <2>6. CASE T \ {x} # {}
    <3>1. PICK m \in T \ {x} : \A y \in T \ {x} : m >= y
      BY <2>3, <2>4, <2>6
    <3>2. m \in Nat /\ m \in T
      BY <2>3
    <3>3. CASE m >= x
      <4>1. \A y \in T : m >= y
        BY <3>1, <3>3
      <4> QED
        BY <2>2, <3>2, <4>1
    <3>4. CASE ~ (m >= x)
      <4>1. \A y \in T : x >= y
        BY <2>3, <3>1, <3>2, <3>4
      <4> QED
        BY <2>2, <2>3, <4>1
    <3> QED
      BY <3>3, <3>4
  <2> QED
    BY <2>5, <2>6
<1>2. \E x \in S : \A y \in S : x >= y
  BY <1>1
<1> QED
  BY <1>2 DEF Max

-----------------------------------------------------------------------------
(* The columns of the tables have their types, and so have those that the  *)
(* requests hold; a row that says it is approved has its content.          *)
SoundRow(r) ==
    /\ r.status = "approved" => r.content \in Contents
    /\ ErpFromPath(r.inputs.erp, r.path)
SoundRows == {r \in VersionRow : SoundRow(r)}

TypedRequest(r) ==
    /\ r.step = "rename" => r.row \in ProfileRow
    /\ r.step \in {"patch", "patching", "approve", "approving", "locked"} =>
           WritesRow(r) /\ r.id \in Rows /\ r.row \in SoundRows
    /\ r.step \in {"copy", "number", "insert"} =>
           HoldsRow(r) /\ Rows # {} /\ r.row \in SoundRows

TypeInv ==
    /\ TypeOK
    /\ \A v \in Rows : version[v] \in SoundRows
    /\ Rows # {} => profile # None
    /\ request = [w \in Workers |-> request[w]]
    /\ \A w \in Workers : TypedRequest(request[w])

LEMMA MergedTyped ==
    ASSUME NEW i \in Inputs, NEW attrs \in Patches
    PROVE  Merged(i, attrs) \in Inputs
<1> DEFINE value(f) == IF f \in DOMAIN attrs THEN attrs[f] ELSE i[f]
           m == Merged(i, attrs)
<1>1. m = [f \in EditableFields |->
              IF f = "notes" /\ value(f) = "blank" THEN "none" ELSE value(f)]
  BY DEF Merged
<1>2. /\ value("source") \in {"unknown", "entered", "calculated"}
      /\ value("power") \in Nat \cup {None} /\ value("gain") \in Nat \cup {None}
      /\ value("erp") \in Nat \cup {None}
      /\ value("notes") \in {"none", "text", "blank"}
      /\ value("basis") \in {"plain", "mixed"}
  BY ProfileAssumption DEF EditableFields, Inputs
<1> HIDE DEF value
<1>3. m = [source |-> value("source"), power |-> value("power"), gain |-> value("gain"),
           erp |-> value("erp"),
           notes |-> IF value("notes") = "blank" THEN "none" ELSE value("notes"),
           basis |-> value("basis")]
  BY <1>1 DEF EditableFields
<1> QED
  BY <1>2, <1>3 DEF Inputs

LEMMA NormalTyped ==
    ASSUME NEW i \in Inputs, Acceptable(i)
    PROVE  /\ [i EXCEPT !.erp = NormalErp(i)] \in Inputs
           /\ NormalPath(i) \in Paths
           /\ ErpFromPath(NormalErp(i), NormalPath(i))
<1>1. CASE i.source = "calculated"
  <2>1. i.power \in Nat /\ i.gain \in Nat
    BY <1>1 DEF Acceptable, CanCalculate, Inputs
  <2>2. CalculatedErp(i) \in Nat /\ CalculatedErp(i) = i.power * i.gain
    BY <2>1 DEF CalculatedErp
  <2>3. /\ NormalErp(i) = CalculatedErp(i)
        /\ NormalPath(i) = <<"calculated", i.power, i.gain, CalculatedErp(i)>>
    BY <1>1 DEF NormalErp, NormalPath
  <2>4. ErpFromPath(NormalErp(i), NormalPath(i))
    <3>1. \A a, b, c, d : /\ <<a, b, c, d>>[1] = a
                          /\ <<a, b, c, d>>[2] = b
                          /\ <<a, b, c, d>>[3] = c
      OBVIOUS
    <3> QED
      BY <2>2, <2>3, <3>1 DEF ErpFromPath
  <2> HIDE DEF CalculatedErp
  <2>5. [i EXCEPT !.erp = NormalErp(i)] \in Inputs /\ NormalPath(i) \in Paths
    BY <2>1, <2>2, <2>3 DEF Paths, Inputs
  <2> QED
    BY <2>4, <2>5
<1>2. CASE i.source # "calculated"
  <2>1. [i EXCEPT !.erp = NormalErp(i)] \in Inputs /\ NormalPath(i) \in Paths
    BY <1>2 DEF NormalErp, NormalPath, Paths, Inputs
  <2>2. NormalErp(i) = i.erp /\ NormalPath(i) = <<i.source>>
    BY <1>2 DEF NormalErp, NormalPath
  <2>3. i.source = "unknown" \/ i.source = "entered"
    BY <1>2 DEF Inputs
  <2>4. CASE i.source = "unknown"
    <3>1. i.erp = None
      BY <2>4 DEF Acceptable
    <3> QED
      BY <2>1, <2>2, <2>4, <3>1 DEF ErpFromPath
  <2>5. CASE i.source = "entered"
    <3>1. i.erp # None
      BY <2>5 DEF Acceptable
    <3>2. <<"entered">> # <<"unknown">> /\ <<"entered">>[1] = "entered"
      OBVIOUS
    <3> QED
      BY <2>1, <2>2, <2>5, <3>1, <3>2 DEF ErpFromPath
  <2> QED
    BY <2>3, <2>4, <2>5
<1> QED
  BY <1>1, <1>2

LEMMA NormalizedTyped ==
    ASSUME NEW row \in VersionRow, row.status = "draft",
           NEW attrs, Merged(row.inputs, attrs) \in Inputs,
           Acceptable(Merged(row.inputs, attrs))
    PROVE  Normalized(row, attrs) \in SoundRows
<1>1. PICK i \in Inputs : i = Merged(row.inputs, attrs)
  OBVIOUS
<1>2. PICK inputs \in Inputs, path \in Paths :
         /\ inputs = [i EXCEPT !.erp = NormalErp(i)] /\ path = NormalPath(i)
         /\ ErpFromPath(NormalErp(i), path)
  BY <1>1, NormalTyped
<1>3. inputs.erp = NormalErp(i)
  BY <1>2 DEF Inputs
<1>4. Normalized(row, attrs) = [row EXCEPT !.inputs = inputs, !.path = path]
  BY <1>1, <1>2 DEF Normalized
<1>5. ASSUME NEW n, n = Normalized(row, attrs)
      PROVE  n \in VersionRow /\ n.inputs = inputs /\ n.path = path /\ n.status = "draft"
  BY <1>4, <1>5 DEF VersionRow
<1> QED
  BY <1>2, <1>3, <1>5 DEF SoundRows, SoundRow

LEMMA UnsentTyped ==
    ASSUME NEW i \in Inputs
    PROVE  Merged(i, <<>>) = i
<1>1. Merged(i, <<>>) = [f \in EditableFields |->
                             IF f = "notes" /\ i[f] = "blank" THEN "none" ELSE i[f]]
  BY DEF Merged
<1>2. i.notes # "blank" /\ i = [f \in EditableFields |-> i[f]]
  BY DEF Inputs, EditableFields
<1> QED
  BY <1>1, <1>2

LEMMA FirstDraftTyped ==
    ASSUME NEW attrs \in Patches, Acceptable(Merged(Defaults, attrs))
    PROVE  FirstDraft(attrs) \in SoundRows
<1> DEFINE row == [number |-> 1, status |-> "draft", inputs |-> Defaults,
                   path |-> <<"unknown">>, content |-> None]
<1>1. Defaults \in Inputs
  BY DEF Defaults, Inputs
<1>2. row \in VersionRow /\ row.status = "draft" /\ row.inputs = Defaults
  BY <1>1 DEF VersionRow, Paths
<1> HIDE DEF row
<1>3. Normalized(row, attrs) \in SoundRows
  BY <1>1, <1>2, MergedTyped, NormalizedTyped
<1> QED
  BY <1>3 DEF row, FirstDraft

LEMMA RefreshedTyped ==
    ASSUME NEW row \in SoundRows, NEW stale \in SoundRows
    PROVE  Refreshed(row, stale) \in SoundRows
<1> SUFFICES ASSUME NEW n, n = Refreshed(row, stale) PROVE n \in SoundRows
  OBVIOUS
<1>1. /\ row.inputs \in Inputs /\ stale.inputs \in Inputs /\ stale.path \in Paths
      /\ row \in VersionRow
  BY DEF SoundRows, SoundRow, VersionRow
<1> DEFINE inputs == [row.inputs EXCEPT !.erp = stale.inputs.erp, !.notes = stale.inputs.notes]
<1>2. inputs \in Inputs
  BY <1>1 DEF Inputs
<1>3. n = [row EXCEPT !.inputs = inputs, !.path = stale.path]
  BY <1>1 DEF Refreshed, VersionRow
<1>4. inputs.erp = stale.inputs.erp
  BY <1>1 DEF Inputs
<1> HIDE DEF inputs
<1>5. /\ n \in VersionRow /\ n.inputs = inputs /\ n.path = stale.path
      /\ n.status = row.status /\ n.content = row.content
  BY <1>1, <1>2, <1>3 DEF VersionRow
<1> QED
  BY <1>4, <1>5 DEF SoundRows, SoundRow

LEMMA PublishedTyped ==
    ASSUME NEW row \in SoundRows, profile \in ProfileRow
    PROVE  Published(row) \in SoundRows /\ Canonical(row) \in Contents
<1>1. Canonical(row) \in Contents
  BY DEF Canonical, Contents, SoundRows, SoundRow, VersionRow, ProfileRow
<1>2. ASSUME NEW c \in Contents, NEW n,
             n = [row EXCEPT !.status = "approved", !.content = c]
      PROVE  n \in SoundRows
  <2>1. /\ n \in VersionRow /\ n.inputs = row.inputs /\ n.path = row.path
        /\ n.content = c
    BY <1>2 DEF SoundRows, VersionRow
  <2> QED
    BY <2>1 DEF SoundRows, SoundRow
<1> QED
  BY <1>1, <1>2 DEF Published

LEMMA NextDraftTyped ==
    ASSUME NEW row \in SoundRows, NEW number \in Nat \ {0}
    PROVE  NextDraft(row, number) \in SoundRows
<1> SUFFICES ASSUME NEW n, n = NextDraft(row, number) PROVE n \in SoundRows
  OBVIOUS
<1>1. n \in VersionRow /\ n.inputs = row.inputs /\ n.path = row.path /\ n.status = "draft"
  BY DEF NextDraft, SoundRows, VersionRow
<1> QED
  BY <1>1 DEF SoundRows, SoundRow

LEMMA NextNumberTyped ==
    ASSUME TypeOK, Rows # {}
    PROVE  NextNumber \in Nat \ {0}
<1> DEFINE S == {version[v].number : v \in Rows}
<1>1. S \subseteq Nat /\ S # {}
  BY DEF TypeOK, Rows, VersionRow
<1>2. IsFiniteSet(S)
  <2>1. IsFiniteSet(Rows)
    BY ProfileAssumption, FS_Subset DEF Rows
  <2>2. [v \in Rows |-> version[v].number] \in Surjection(Rows, S)
    BY DEF Surjection
  <2> QED
    BY <2>1, <2>2, FS_Surjection
<1>3. Max(S) \in Nat
  <2> HIDE DEF S
  <2> QED
    BY <1>1, <1>2, GreatestExists
<1> QED
  BY <1>3 DEF NextNumber

LEMMA TypedRequestSteps ==
    ASSUME TypeInv, UNCHANGED <<version, snapshot>>,
           profile' \in ProfileRow \cup {None}, profile # None => profile' # None,
           NEW w \in Workers, NEW r, Become(w, r), TypedRequest(r)
    PROVE  TypeInv'
<1>1. /\ \A u \in Workers : TypedRequest(request'[u])
      /\ request' = [u \in Workers |-> request'[u]]
  BY DEF TypeInv, Become
<1>2. version' = version /\ Rows' = Rows
  BY DEF Rows
<1>3. \A u \in Workers : TypedRequest(request[u])'
  BY <1>1, <1>2 DEF TypedRequest, WritesRow, HoldsRow, Columns
<1>4. TypeOK'
  BY DEF TypeInv, TypeOK
<1>5. (\A v \in Rows : version[v] \in SoundRows)' /\ (Rows # {} => profile # None)'
  BY <1>2 DEF TypeInv
<1> QED
  BY <1>1, <1>3, <1>4, <1>5 DEF TypeInv

LEMMA TypedVersionSteps ==
    ASSUME TypeInv, UNCHANGED snapshot, profile' \in ProfileRow,
           NEW v \in Versions, NEW row \in SoundRows,
           version' = [version EXCEPT ![v] = row],
           request' = [w \in Workers |-> request'[w]],
           \A w \in Workers : request'[w] = request[w] \/ request'[w] = Idle
    PROVE  TypeInv'
<1>1. version' = [u \in Versions |-> IF u = v THEN row ELSE version[u]]
  BY DEF TypeInv, TypeOK
<1>2. row \in VersionRow /\ row # None /\ Columns(row) /\ profile' # None
  BY ProfileAssumption DEF SoundRows, SoundRow, VersionRow, Columns
<1>3. Rows' = Rows \cup {v}
  BY <1>1, <1>2 DEF Rows
<1>4. \A u \in Rows' : version'[u] \in SoundRows
  BY <1>1, <1>3 DEF TypeInv, Rows
<1>5. TypeOK'
  BY <1>1, <1>2 DEF TypeInv, TypeOK
<1>6. ASSUME NEW w \in Workers PROVE TypedRequest(request[w])'
  <2>1. CASE request'[w] = Idle
    BY <2>1 DEF TypedRequest, Idle
  <2>2. CASE request'[w] = request[w]
    <3>1. WritesRow(request[w]) => WritesRow(request[w])'
      BY <1>1, <1>2, <2>2 DEF WritesRow, Columns
    <3>2. HoldsRow(request[w]) => HoldsRow(request[w])'
      BY <2>2 DEF HoldsRow, Columns
    <3>3. TypedRequest(request[w])
      BY DEF TypeInv
    <3> QED
      BY <1>3, <2>2, <3>1, <3>2, <3>3 DEF TypedRequest
  <2> QED
    BY <2>1, <2>2
<1> QED
  BY <1>2, <1>4, <1>5, <1>6 DEF TypeInv

LEMMA TypeInvInit == Init => TypeInv
  BY DEF Init, TypeInv, TypeOK, TypedRequest, Rows, Idle

LEMMA CheckSaveTyped ==
    ASSUME TypeInv, NEW w \in Workers, NEW from, NEW to, CheckSave(w, from, to),
           \/ from = "patch" /\ to = "patching"
           \/ from = "approve" /\ to = "approving"
    PROVE  TypeInv'
<1>0. /\ profile' \in ProfileRow \cup {None} /\ (profile # None => profile' # None)
      /\ UNCHANGED <<version, snapshot>>
  BY DEF CheckSave, TypeInv, TypeOK
<1>1. CASE SaveAllowed(request[w].id)
  <2>1. WritesRow(request[w]) /\ request[w].id \in Rows /\ request[w].row \in SoundRows
    BY DEF TypeInv, TypedRequest, CheckSave, At
  <2> DEFINE r == [request[w] EXCEPT !.step = to]
  <2>2. r = [step |-> to, id |-> request[w].id, row |-> request[w].row]
    BY <2>1 DEF WritesRow
  <2>3. TypedRequest(r)
    BY <2>1, <2>2 DEF TypedRequest, WritesRow
  <2>4. Become(w, r)
    BY <1>1 DEF CheckSave
  <2> QED
    BY <1>0, <2>3, <2>4, TypedRequestSteps
<1>2. CASE ~ SaveAllowed(request[w].id)
  <2>1. TypedRequest(Idle)
    BY DEF TypedRequest, Idle
  <2> QED
    BY <1>0, <1>2, <2>1, TypedRequestSteps DEF CheckSave
<1> QED
  BY <1>1, <1>2

LEMMA TypeInvNext ==
    ASSUME TypeInv, [Next]_vars
    PROVE  TypeInv'
<1>0. /\ TypedRequest(Idle)
      /\ profile \in ProfileRow \cup {None}
      /\ Rows # {} => profile \in ProfileRow
      /\ \A v \in Rows : v \in Versions /\ version[v] \in SoundRows /\ version[v] \in VersionRow
                         /\ Columns(version[v])
      /\ \A w \in Workers : TypedRequest(request[w])
      /\ request = [w \in Workers |-> request[w]]
  BY DEF TypedRequest, Idle, TypeInv, TypeOK, Rows, SoundRows, SoundRow, VersionRow, Columns
<1>1. CASE UNCHANGED vars
  BY <1>1 DEF vars, TypeInv, TypeOK, TypedRequest, Rows, WritesRow, HoldsRow, Columns
<1>2. ASSUME NEW w \in Workers, NEW v \in Versions, NEW name \in Names,
             NEW attrs \in Patches, CreateProfile(w, v, name, attrs)
      PROVE  TypeInv'
  <2>1. /\ version' = [version EXCEPT ![v] = FirstDraft(attrs)] /\ request' = request
        /\ UNCHANGED snapshot /\ profile' \in ProfileRow
    BY <1>2 DEF CreateProfile, ProfileRow
  <2>2. FirstDraft(attrs) \in SoundRows
    BY <1>2, FirstDraftTyped DEF CreateProfile
  <2> QED
    BY <1>0, <2>1, <2>2, TypedVersionSteps
<1>3. ASSUME NEW w \in Workers, NEW name \in Names, ReadRename(w, name)
      PROVE  TypeInv'
  <2> DEFINE r == [step |-> "rename", row |-> [profile EXCEPT !.name = name]]
  <2>1. TypedRequest(r)
    BY <1>0, <1>3 DEF TypedRequest, ReadRename, ProfileRow
  <2> QED
    BY <1>0, <1>3, <2>1, TypedRequestSteps DEF ReadRename
<1>4. ASSUME NEW w \in Workers, WriteRename(w) PROVE TypeInv'
  <2>1. profile' \in ProfileRow /\ profile' # None
    BY <1>0, <1>4, ProfileAssumption DEF WriteRename, At, TypedRequest
  <2> QED
    BY <1>0, <1>4, <2>1, TypedRequestSteps DEF WriteRename
<1>5. ASSUME NEW w \in Workers, ArchiveProfile(w) PROVE TypeInv'
  <2>1. profile' \in ProfileRow /\ profile' # None /\ UNCHANGED <<version, snapshot, request>>
    BY <1>0, <1>5, ProfileAssumption DEF ArchiveProfile, ProfileRow
  <2> QED
    BY <2>1 DEF TypeInv, TypeOK, TypedRequest, Rows, WritesRow, HoldsRow, Columns
<1>6. ASSUME NEW w \in Workers, NEW v \in Versions, NEW attrs \in Patches,
             ReadPatch(w, v, attrs)
      PROVE  TypeInv'
  <2>1. v \in Rows /\ version[v].status = "draft" /\ version[v] \in VersionRow
    BY <1>0, <1>6 DEF ReadPatch, Drafts
  <2>2. Merged(version[v].inputs, attrs) \in Inputs
    BY <2>1, MergedTyped DEF VersionRow
  <2> DEFINE n == Normalized(version[v], attrs)
             r == [step |-> "patch", id |-> v, row |-> n]
  <2>3. n \in SoundRows
    BY <1>6, <2>1, <2>2, NormalizedTyped DEF ReadPatch
  <2>4. Columns(n)
    BY <2>3 DEF SoundRows, SoundRow, VersionRow, Columns
  <2>5. Become(w, r)
    BY <1>6 DEF ReadPatch
  <2> HIDE DEF n
  <2>6. TypedRequest(r)
    BY <1>0, <2>1, <2>3, <2>4 DEF TypedRequest, WritesRow
  <2> QED
    BY <1>0, <1>6, <2>5, <2>6, TypedRequestSteps DEF ReadPatch
<1>7. ASSUME NEW w \in Workers, CheckPatch(w) PROVE TypeInv'
  BY <1>7, CheckSaveTyped DEF CheckPatch
<1>8. ASSUME NEW w \in Workers, WritePatch(w) PROVE TypeInv'
  <2>1. request[w].id \in Rows /\ request[w].row \in SoundRows
    BY <1>0, <1>8 DEF WritePatch, At, TypedRequest
  <2>2. profile' \in ProfileRow /\ request[w].id \in Versions
    BY <1>0, <1>8, <2>1 DEF WritePatch
  <2>3. /\ request' = [u \in Workers |-> request'[u]]
        /\ \A u \in Workers : request'[u] = request[u] \/ request'[u] = Idle
    BY <1>0, <1>8 DEF WritePatch, Become
  <2> QED
    BY <1>8, <2>1, <2>2, <2>3, TypedVersionSteps DEF WritePatch
<1>9. ASSUME NEW w \in Workers, NEW v \in Versions, ReadApprove(w, v) PROVE TypeInv'
  <2>1. v \in Rows /\ version[v].status = "draft" /\ version[v] \in VersionRow
    BY <1>0, <1>9 DEF ReadApprove, Drafts
  <2>2. Merged(version[v].inputs, <<>>) = version[v].inputs /\ version[v].inputs \in Inputs
    BY <2>1, UnsentTyped DEF VersionRow
  <2> DEFINE n == Normalized(version[v], <<>>)
             r == [step |-> "approve", id |-> v, row |-> n]
  <2>3. n \in SoundRows
    BY <1>9, <2>1, <2>2, NormalizedTyped DEF ReadApprove
  <2>4. Columns(n)
    BY <2>3 DEF SoundRows, SoundRow, VersionRow, Columns
  <2>5. Become(w, r)
    BY <1>9 DEF ReadApprove
  <2> HIDE DEF n
  <2>6. TypedRequest(r)
    BY <1>0, <2>1, <2>3, <2>4 DEF TypedRequest, WritesRow
  <2> QED
    BY <1>0, <1>9, <2>5, <2>6, TypedRequestSteps DEF ReadApprove
<1>10. ASSUME NEW w \in Workers, CheckApprove(w) PROVE TypeInv'
  BY <1>10, CheckSaveTyped DEF CheckApprove
<1>11. ASSUME NEW w \in Workers, LockApprove(w) PROVE TypeInv'
  <2>1. WritesRow(request[w]) /\ request[w].id \in Rows /\ request[w].row \in SoundRows
    BY <1>0, <1>11 DEF LockApprove, At, TypedRequest
  <2> DEFINE row == Refreshed(version[request[w].id], request[w].row)
             r == [step |-> "locked", id |-> request[w].id, row |-> row]
  <2>2. row \in SoundRows
    BY <1>0, <2>1, RefreshedTyped
  <2>3. ASSUME NEW n, n = [request[w] EXCEPT !.step = "locked",
                     !.row = Refreshed(version[request[w].id], @)]
        PROVE  n = r
    BY <2>1, <2>3 DEF WritesRow
  <2>4. Become(w, r)
    BY <1>11, <2>3 DEF LockApprove
  <2>5. Columns(row)
    BY <2>2 DEF SoundRows, SoundRow, VersionRow, Columns
  <2> HIDE DEF row
  <2>6. TypedRequest(r)
    BY <2>1, <2>2, <2>5 DEF TypedRequest, WritesRow
  <2> QED
    BY <1>0, <1>11, <2>4, <2>6, TypedRequestSteps DEF LockApprove
<1>12. ASSUME NEW w \in Workers, FinishApprove(w) PROVE TypeInv'
  <2>1. request[w].id \in Rows /\ request[w].row \in SoundRows /\ profile \in ProfileRow
    BY <1>0, <1>12 DEF FinishApprove, At, TypedRequest
  <2>2. CASE request[w].row.status = "approved"
    BY <1>0, <1>12, <2>2, TypedRequestSteps DEF FinishApprove
  <2>3. CASE request[w].row.status # "approved"
    <3>1. version' = [version EXCEPT ![request[w].id] = Published(request[w].row)]
      BY <1>12, <2>3 DEF FinishApprove, Published
    <3>2. Published(request[w].row) \in SoundRows
      BY <2>1, PublishedTyped
    <3>3. /\ request' = [u \in Workers |-> request'[u]]
          /\ \A u \in Workers : request'[u] = request[u] \/ request'[u] = Idle
          /\ profile' \in ProfileRow /\ UNCHANGED snapshot
      BY <1>0, <1>12, <2>1 DEF FinishApprove, Become
    <3> QED
      BY <1>0, <2>1, <3>1, <3>2, <3>3, TypedVersionSteps
  <2> QED
    BY <2>2, <2>3
<1>13. ASSUME NEW w \in Workers, NEW v \in Versions, ReadCopy(w, v) PROVE TypeInv'
  <2>1. v \in Rows
    BY <1>13 DEF ReadCopy, Approved
  <2> DEFINE r == [step |-> "copy", row |-> version[v]]
  <2>2. TypedRequest(r)
    BY <1>0, <2>1 DEF TypedRequest, HoldsRow
  <2> QED
    BY <1>0, <1>13, <2>2, TypedRequestSteps DEF ReadCopy
<1>14. ASSUME NEW w \in Workers, DraftFree(w) PROVE TypeInv'
  <2>1. HoldsRow(request[w]) /\ Rows # {} /\ request[w].row \in SoundRows
    BY <1>0, <1>14 DEF DraftFree, At, TypedRequest
  <2> DEFINE r == [request[w] EXCEPT !.step = "number"]
  <2>2. r = [step |-> "number", row |-> request[w].row]
    BY <2>1 DEF HoldsRow
  <2>3. TypedRequest(r)
    BY <2>1, <2>2 DEF TypedRequest, HoldsRow
  <2> QED
    BY <1>0, <1>14, <2>3, TypedRequestSteps DEF DraftFree
<1>15. ASSUME NEW w \in Workers, TakeNumber(w) PROVE TypeInv'
  <2>1. Rows # {} /\ request[w].row \in SoundRows
    BY <1>0, <1>15 DEF TakeNumber, At, TypedRequest
  <2> DEFINE row == NextDraft(request[w].row, NextNumber)
             r == [step |-> "insert", row |-> row]
  <2>2. row \in SoundRows
    BY <2>1, NextNumberTyped, NextDraftTyped DEF TypeInv
  <2>3. Columns(row)
    BY <2>2 DEF SoundRows, SoundRow, VersionRow, Columns
  <2>4. Become(w, r)
    BY <1>15 DEF TakeNumber, NextDraft
  <2> HIDE DEF row
  <2>5. TypedRequest(r)
    BY <2>1, <2>2, <2>3 DEF TypedRequest, HoldsRow
  <2> QED
    BY <1>0, <1>15, <2>4, <2>5, TypedRequestSteps DEF TakeNumber
<1>16. ASSUME NEW w \in Workers, NEW v \in Versions, InsertCopy(w, v) PROVE TypeInv'
  <2>1. Rows # {} /\ request[w].row \in SoundRows
    BY <1>0, <1>16 DEF InsertCopy, At, TypedRequest
  <2>2. CASE version' = version
    BY <1>0, <1>16, <2>2, TypedRequestSteps DEF InsertCopy
  <2>3. CASE version' = [version EXCEPT ![v] = request[w].row]
    <3>1. /\ request' = [u \in Workers |-> request'[u]]
          /\ \A u \in Workers : request'[u] = request[u] \/ request'[u] = Idle
          /\ profile' \in ProfileRow /\ UNCHANGED snapshot
      BY <1>0, <1>16, <2>1 DEF InsertCopy, Become
    <3> QED
      BY <2>1, <2>3, <3>1, TypedVersionSteps
  <2> QED
    BY <1>16, <2>2, <2>3 DEF InsertCopy
<1>17. ASSUME NEW w \in Workers, NEW v \in Versions, NEW s \in Snapshots,
              CreateSnapshot(w, v, s)
       PROVE  TypeInv'
  <2>1. version[v].content \in Contents
    BY <1>0, <1>17 DEF CreateSnapshot, Approved, SoundRows, SoundRow
  <2>2. snapshot' \in [Snapshots -> SnapshotRow \cup {None}]
    BY <1>17, <2>1 DEF CreateSnapshot, TypeInv, TypeOK, SnapshotRow
  <2> QED
    BY <1>17, <2>2 DEF CreateSnapshot, TypeInv, TypeOK, TypedRequest, Rows, WritesRow,
                       HoldsRow, Columns
<1>18. ASSUME NEW w \in Workers, NEW s \in Snapshots, ArchiveSnapshot(w, s)
       PROVE  TypeInv'
  <2>1. snapshot' \in [Snapshots -> SnapshotRow \cup {None}]
    BY <1>18 DEF ArchiveSnapshot, TypeInv, TypeOK, SnapshotRow
  <2> QED
    BY <1>18, <2>1 DEF ArchiveSnapshot, TypeInv, TypeOK, TypedRequest, Rows, WritesRow,
                       HoldsRow, Columns
<1> QED
  BY <1>1, <1>2, <1>3, <1>4, <1>5, <1>6, <1>7, <1>8, <1>9, <1>10, <1>11, <1>12,
     <1>13, <1>14, <1>15, <1>16, <1>17, <1>18 DEF Next

(* TypeOK: profiles, versions and snapshots are rows of their tables, with *)
(* an ERP where one is published, a number that another version can follow *)
(* and the content of the version in each snapshot.                        *)
THEOREM ProfilesTypeCorrect == Spec => []TypeOK
<1>1. TypeInv => TypeOK
  BY DEF TypeInv
<1> QED
  BY <1>1, TypeInvInit, TypeInvNext, PTL DEF Spec
-----------------------------------------------------------------------------
(* What an approval holds under its lock is the row as it is, and nobody   *)
(* else holds that lock.                                                   *)
HeldInv ==
    /\ \A w \in Workers : At(w, "locked") =>
           request[w].row.status = version[request[w].id].status
    /\ \A u, w \in Workers :
           At(u, "locked") /\ At(w, "locked") /\ request[u].id = request[w].id => u = w

LateStep == \A v \in Approved : LatePatch(v)

LEMMA HeldInvInit == Init => HeldInv
  BY DEF Init, HeldInv, At, Idle

LEMMA ApprovedUnchanged == version' = version => Approved' = Approved
  BY DEF Approved, Rows

(* A request goes on without writing: it takes no lock, and it is past its *)
(* look-up only if it was or the version is a draft.                       *)
LEMMA QuietSteps ==
    ASSUME TypeInv, HeldInv, version' = version, NEW w \in Workers, NEW r,
           Become(w, r), r.step # "locked",
           r.step = "patching" => r.id \notin Approved
    PROVE  HeldInv' /\ LateStep
<1>1. \A u \in Workers : request'[u] = IF u = w THEN r ELSE request[u]
  BY DEF TypeInv, Become
<1>2. HeldInv'
  BY <1>1 DEF HeldInv, At
<1>3. ASSUME NEW v \in Approved PROVE LatePatch(v)
  <2>1. PastSave(v)' \subseteq PastSave(v)
    BY <1>1, <1>3 DEF PastSave, At
  <2> QED
    BY <2>1 DEF LatePatch
<1> QED
  BY <1>2, <1>3 DEF LateStep

(* A draft, or a version that was not there, is written by one request     *)
(* that ends, while nobody else holds its lock.                            *)
LEMMA DraftWrites ==
    ASSUME TypeInv, HeldInv, NEW id \in Versions, id \notin Approved, NEW row,
           version' = [version EXCEPT ![id] = row],
           \A w \in Workers : request'[w] = request[w] \/ request'[w] = Idle,
           \A w \in Workers : At(w, "locked")' => request[w].id # id
    PROVE  HeldInv' /\ LateStep
<1>1. \A v \in Versions : v # id => version'[v] = version[v]
  BY DEF TypeInv, TypeOK
<1>2. \A w \in Workers : At(w, "locked")' => At(w, "locked") /\ request'[w] = request[w]
  BY DEF At, Idle
<1>3. \A w \in Workers : At(w, "locked") => request[w].id \in Versions
  BY DEF TypeInv, TypedRequest, At, WritesRow
<1>4. HeldInv'
  BY <1>1, <1>2, <1>3 DEF HeldInv
<1>5. ASSUME NEW v \in Approved PROVE LatePatch(v)
  <2>1. v # id /\ v \in Versions
    BY <1>5 DEF Approved, Rows
  <2>2. PastSave(v)' \subseteq PastSave(v)
    BY DEF PastSave, At, Idle
  <2> QED
    BY <1>1, <2>1, <2>2 DEF LatePatch
<1> QED
  BY <1>4, <1>5 DEF LateStep

(* A PATCH past its look-up writes the row it holds and ends.              *)
LEMMA PatchWrites ==
    ASSUME TypeInv, HeldInv, NEW w \in Workers, WritePatch(w)
    PROVE  HeldInv' /\ LateStep
<1>1. request[w].id \in Versions /\ request[w].step = "patching"
  BY DEF TypeInv, TypedRequest, WritePatch, At, WritesRow
<1>2. \A v \in Versions : version'[v] = IF v = request[w].id THEN request[w].row ELSE version[v]
  BY <1>1 DEF WritePatch, TypeInv, TypeOK
<1>3. \A u \in Workers : request'[u] = IF u = w THEN Idle ELSE request[u]
  BY DEF WritePatch, TypeInv, Become
<1>4. \A u \in Workers : At(u, "locked")' =>
          /\ At(u, "locked") /\ request'[u] = request[u]
          /\ request[u].id # request[w].id /\ request[u].id \in Versions
  BY <1>3 DEF At, Idle, WritePatch, RowHeld, TypeInv, TypedRequest, WritesRow
<1>5. HeldInv'
  BY <1>2, <1>4 DEF HeldInv
<1>6. ASSUME NEW v \in Approved PROVE LatePatch(v)
  <2>1. v \in Versions
    BY <1>6 DEF Approved, Rows
  <2>2. PastSave(v)' \subseteq PastSave(v) /\ w \notin PastSave(v)'
    BY <1>3 DEF PastSave, At, Idle
  <2>3. CASE v = request[w].id
    <3>1. w \in PastSave(v) /\ version'[v] = request[w].row
      BY <1>1, <1>2, <2>1, <2>3 DEF PastSave, At
    <3> QED
      BY <2>2, <3>1 DEF LatePatch
  <2>4. CASE v # request[w].id
    BY <1>2, <2>1, <2>2, <2>4 DEF LatePatch
  <2> QED
    BY <2>3, <2>4
<1> QED
  BY <1>5, <1>6 DEF LateStep

LEMMA LockTaken ==
    ASSUME TypeInv, HeldInv, NEW w \in Workers, LockApprove(w)
    PROVE  HeldInv' /\ LateStep
<1>1. /\ WritesRow(request[w]) /\ request[w].row \in SoundRows
      /\ request[w].id \in Rows /\ version[request[w].id] \in SoundRows
  BY DEF TypeInv, TypedRequest, LockApprove, At
<1> DEFINE row == Refreshed(version[request[w].id], request[w].row)
<1>2. ASSUME NEW n, n = row PROVE n.status = version[request[w].id].status
  BY <1>1, <1>2 DEF Refreshed, SoundRows, VersionRow
<1>3. ASSUME NEW n, n = [request[w] EXCEPT !.step = "locked",
                     !.row = Refreshed(version[request[w].id], @)]
      PROVE  n = [step |-> "locked", id |-> request[w].id, row |-> row]
  BY <1>1, <1>3 DEF WritesRow
<1>4. /\ request'[w] = [step |-> "locked", id |-> request[w].id, row |-> row]
      /\ \A u \in Workers : u # w => request'[u] = request[u]
  BY <1>3 DEF LockApprove, TypeInv, Become
<1>5. row.status = version[request[w].id].status
  BY <1>2
<1> HIDE DEF row
<1>6. request'[w].step = "locked" /\ request'[w].id = request[w].id /\ request'[w].row = row
  BY <1>4
<1>7. \A u \in Workers : u # w /\ At(u, "locked") => request[u].id # request[w].id
  BY DEF LockApprove, RowHeld
<1>8. version' = version
  BY DEF LockApprove
<1>9. HeldInv'
  <2>1. ASSUME NEW u \in Workers, At(u, "locked")'
        PROVE  request'[u].row.status = version'[request'[u].id].status
    BY <1>4, <1>5, <1>6, <1>8, <2>1 DEF HeldInv, At
  <2>2. ASSUME NEW u \in Workers, NEW x \in Workers, At(u, "locked")', At(x, "locked")',
               request'[u].id = request'[x].id
        PROVE  u = x
    BY <1>4, <1>6, <1>7, <2>2 DEF HeldInv, At
  <2> QED
    BY <2>1, <2>2 DEF HeldInv
<1>10. ASSUME NEW v \in Approved PROVE LatePatch(v)
  BY <1>4, <1>6, <1>8 DEF LatePatch, PastSave, At
<1> QED
  BY <1>9, <1>10 DEF LateStep

LEMMA LateStepNext ==
    ASSUME TypeInv, HeldInv, [Next]_vars
    PROVE  HeldInv' /\ LateStep
<1>0. Idle.step # "locked" /\ Idle.step # "patching"
  BY DEF Idle
<1>1. CASE UNCHANGED <<version, request>>
  BY <1>1 DEF HeldInv, At, LateStep, LatePatch, PastSave
<1>2. ASSUME NEW w \in Workers, NEW v \in Versions, NEW name \in Names,
             NEW attrs \in Patches, CreateProfile(w, v, name, attrs)
      PROVE  HeldInv' /\ LateStep
  <2>1. Rows = {} /\ version' = [version EXCEPT ![v] = FirstDraft(attrs)] /\ request' = request
    BY <1>2 DEF CreateProfile, TypeInv
  <2>2. \A u \in Workers : ~ At(u, "locked")'
    BY <2>1 DEF TypeInv, TypedRequest, At
  <2> QED
    BY <2>1, <2>2, DraftWrites DEF Approved
<1>3. ASSUME NEW w \in Workers, NEW name \in Names, ReadRename(w, name)
      PROVE  HeldInv' /\ LateStep
  <2> DEFINE r == [step |-> "rename", row |-> [profile EXCEPT !.name = name]]
  <2>1. r.step = "rename"
    OBVIOUS
  <2>2. Become(w, r) /\ version' = version
    BY <1>3 DEF ReadRename
  <2> HIDE DEF r
  <2> QED
    BY <2>1, <2>2, QuietSteps
<1>4. ASSUME NEW w \in Workers, WriteRename(w) PROVE HeldInv' /\ LateStep
  <2>1. Become(w, Idle) /\ version' = version
    BY <1>4 DEF WriteRename
  <2> QED
    BY <1>0, <2>1, QuietSteps
<1>6. ASSUME NEW w \in Workers, NEW v \in Versions, NEW attrs \in Patches,
             ReadPatch(w, v, attrs)
      PROVE  HeldInv' /\ LateStep
  <2> DEFINE r == [step |-> "patch", id |-> v, row |-> Normalized(version[v], attrs)]
  <2>1. r.step = "patch"
    OBVIOUS
  <2>2. Become(w, r) /\ version' = version
    BY <1>6 DEF ReadPatch
  <2> HIDE DEF r
  <2> QED
    BY <2>1, <2>2, QuietSteps
<1>7. ASSUME NEW w \in Workers, NEW from, NEW to, CheckSave(w, from, to),
             \/ from = "patch" /\ to = "patching"
             \/ from = "approve" /\ to = "approving"
      PROVE  HeldInv' /\ LateStep
  <2>1. CASE SaveAllowed(request[w].id)
    <3>1. WritesRow(request[w])
      BY <1>7 DEF TypeInv, TypedRequest, CheckSave, At
    <3> DEFINE r == [request[w] EXCEPT !.step = to]
    <3>2. r = [step |-> to, id |-> request[w].id, row |-> request[w].row]
      BY <3>1 DEF WritesRow
    <3>3. r.step # "locked" /\ r.id \notin Approved
      BY <1>7, <2>1, <3>2 DEF SaveAllowed, Approved
    <3>4. Become(w, r) /\ version' = version
      BY <1>7, <2>1 DEF CheckSave
    <3> HIDE DEF r
    <3> QED
      BY <3>3, <3>4, QuietSteps
  <2>2. CASE ~ SaveAllowed(request[w].id)
    <3>1. Become(w, Idle) /\ version' = version
      BY <1>7, <2>2 DEF CheckSave
    <3> QED
      BY <1>0, <3>1, QuietSteps
  <2> QED
    BY <2>1, <2>2
<1>8. ASSUME NEW w \in Workers, WritePatch(w) PROVE HeldInv' /\ LateStep
  BY <1>8, PatchWrites
<1>9. ASSUME NEW w \in Workers, NEW v \in Versions, ReadApprove(w, v)
      PROVE  HeldInv' /\ LateStep
  <2> DEFINE r == [step |-> "approve", id |-> v, row |-> Normalized(version[v], <<>>)]
  <2>1. r.step = "approve"
    OBVIOUS
  <2>2. Become(w, r) /\ version' = version
    BY <1>9 DEF ReadApprove
  <2> HIDE DEF r
  <2> QED
    BY <2>1, <2>2, QuietSteps
<1>11. ASSUME NEW w \in Workers, LockApprove(w) PROVE HeldInv' /\ LateStep
  BY <1>11, LockTaken
<1>12. ASSUME NEW w \in Workers, FinishApprove(w) PROVE HeldInv' /\ LateStep
  <2>1. /\ request[w].id \in Rows /\ request[w].id \in Versions
        /\ request[w].row.status = version[request[w].id].status
    BY <1>12 DEF FinishApprove, At, TypeInv, TypedRequest, HeldInv, Rows
  <2>2. CASE request[w].row.status = "approved"
    <3>1. Become(w, Idle) /\ version' = version
      BY <1>12, <2>2 DEF FinishApprove
    <3> QED
      BY <1>0, <3>1, QuietSteps
  <2>3. CASE request[w].row.status # "approved"
    <3>1. version' = [version EXCEPT ![request[w].id] = Published(request[w].row)]
      BY <1>12, <2>3 DEF FinishApprove, Published
    <3>2. request[w].id \notin Approved
      BY <2>1, <2>3 DEF Approved
    <3>3. \A u \in Workers : request'[u] = IF u = w THEN Idle ELSE request[u]
      BY <1>12 DEF FinishApprove, TypeInv, Become
    <3>4. \A u \in Workers : At(u, "locked")' => request[u].id # request[w].id
      BY <1>12, <3>3 DEF FinishApprove, HeldInv, At, Idle
    <3> QED
      BY <2>1, <3>1, <3>2, <3>3, <3>4, DraftWrites
  <2> QED
    BY <2>2, <2>3
<1>13. ASSUME NEW w \in Workers, NEW v \in Versions, ReadCopy(w, v)
       PROVE  HeldInv' /\ LateStep
  <2> DEFINE r == [step |-> "copy", row |-> version[v]]
  <2>1. r.step = "copy"
    OBVIOUS
  <2>2. Become(w, r) /\ version' = version
    BY <1>13 DEF ReadCopy
  <2> HIDE DEF r
  <2> QED
    BY <2>1, <2>2, QuietSteps
<1>14. ASSUME NEW w \in Workers, DraftFree(w) PROVE HeldInv' /\ LateStep
  <2>1. HoldsRow(request[w])
    BY <1>14 DEF DraftFree, At, TypeInv, TypedRequest
  <2> DEFINE r == [request[w] EXCEPT !.step = "number"]
  <2>2. r.step = "number"
    BY <2>1 DEF HoldsRow
  <2>3. (Become(w, r) \/ Become(w, Idle)) /\ version' = version
    BY <1>14 DEF DraftFree
  <2> HIDE DEF r
  <2> QED
    BY <1>0, <2>2, <2>3, QuietSteps
<1>15. ASSUME NEW w \in Workers, TakeNumber(w) PROVE HeldInv' /\ LateStep
  <2> DEFINE r == [step |-> "insert", row |-> NextDraft(request[w].row, NextNumber)]
  <2>1. r.step = "insert"
    OBVIOUS
  <2>2. Become(w, r) /\ version' = version
    BY <1>15 DEF TakeNumber, NextDraft
  <2> HIDE DEF r
  <2> QED
    BY <2>1, <2>2, QuietSteps
<1>16. ASSUME NEW w \in Workers, NEW v \in Versions, InsertCopy(w, v)
       PROVE  HeldInv' /\ LateStep
  <2>1. CASE version' = version
    <3>1. Become(w, Idle)
      BY <1>16 DEF InsertCopy
    <3> QED
      BY <1>0, <2>1, <3>1, QuietSteps
  <2>2. CASE version' = [version EXCEPT ![v] = request[w].row]
    <3>1. v \notin Rows
      BY <1>16 DEF InsertCopy, Rows
    <3>2. \A u \in Workers : request'[u] = IF u = w THEN Idle ELSE request[u]
      BY <1>16 DEF InsertCopy, TypeInv, Become
    <3>3. \A u \in Workers : At(u, "locked")' => request[u].id # v
      BY <3>1, <3>2 DEF TypeInv, TypedRequest, At, Idle
    <3> QED
      BY <2>2, <3>1, <3>2, <3>3, DraftWrites DEF Approved
  <2> QED
    BY <1>16, <2>1, <2>2 DEF InsertCopy
<1> QED
  BY <1>1, <1>2, <1>3, <1>4, <1>6, <1>7, <1>8, <1>9, <1>11, <1>12, <1>13, <1>14,
     <1>15, <1>16
     DEF Next, vars, ArchiveProfile, CheckPatch, CheckApprove, CreateSnapshot, ArchiveSnapshot

(* ApprovedOnlyByLatePatches: for any number of requests and versions, an  *)
(* approved version publishes its row, with an ERP that the published path *)
(* gives, and only a PATCH that had passed its look-up before the approval *)
(* changes it (SubscriberProfileVersion.save(), approve_version()).        *)
THEOREM ApprovedVersionsStay == Spec => ApprovedOnlyByLatePatches
<1> DEFINE Inv == ProfileInv /\ TypeInv /\ HeldInv
<1>1. Init => Inv
  BY ProfileInvInit, TypeInvInit, HeldInvInit
<1>2. Inv /\ [Next]_vars => Inv'
  BY ProfileInvNext, TypeInvNext, LateStepNext
<1>3. ASSUME ProfileInv', TypeInv', NEW v \in Versions, v \in Approved'
      PROVE  PublishedAsIs(version'[v])
  <2>1. version'[v] \in SoundRows /\ Faithful(version'[v])
    BY <1>3 DEF TypeInv, ProfileInv, RowInv, Approved, Rows
  <2> QED
    BY <2>1 DEF SoundRows, SoundRow, Faithful, PublishedAsIs
<1>4. Inv /\ Inv' /\ [Next]_vars =>
          [\A v \in Versions :
              /\ v \in Approved' => PublishedAsIs(version'[v])
              /\ v \in Approved => LatePatch(v)]_vars
  BY <1>3, LateStepNext DEF LateStep
<1> HIDE DEF Inv
<1> QED
  BY <1>1, <1>2, <1>4, PTL DEF Spec, ApprovedOnlyByLatePatches
=============================================================================
