------------------------- MODULE CollaborationProofs -------------------------
(***************************************************************************)
(* The collaboration workflow for any number of workers, mutations,        *)
(* assignments and revisions.                                              *)
(***************************************************************************)
EXTENDS PlanRequests, TLAPS

(* Payloads and requests are about revisions that exist, and revisions do  *)
(* not go away.                                                            *)
Grounded(r) ==
    /\ r.step \in {"preview", "validated", "frozen"} => Exists(r.revision)
    /\ r.step = "frozen" => \A a \in r.links : assignment[a] # Unused
    /\ r.step \in {"copy", "numbered"} => \A n \in r.source : Exists(n)

GroundedInv ==
    /\ \A p \in outbox : Exists(p.revision)
    /\ \A p \in outbox : OnAssignment(p) => assignment[p.object] # Unused
    /\ \A w \in Workers : Grounded(request[w])

TypeInv == TypeOK /\ GroundedInv

RevisionRows ==
    [status : {"draft", "approved"}, version : Nat, prepared : Preparers]

AssignmentRows ==
    [state : {"live", "deleted"}, revision : Numbers, position : Nat \ {0},
     version : Nat, body : Bodies, link : {"none", "live", "frozen", "removed"}]

(* A row that is there is a row of its table.                              *)
LEMMA RowTypes ==
    ASSUME TypeOK
    PROVE  /\ \A n \in Numbers : Exists(n) => revision[n] \in RevisionRows
           /\ \A a \in Assignments : assignment[a] # Unused => assignment[a] \in AssignmentRows
           /\ \A a \in Assignments : Live(a) => assignment[a] # Unused
           /\ \A a \in Assignments : assignment[a].state # "unused" => assignment[a] # Unused
  BY DEF TypeOK, Exists, NoRevision, Live, Unused, RevisionRows, AssignmentRows

(* What the steps of a request rely on: the tables, the payloads in        *)
(* transit, and what the request itself holds.                             *)
StoreInv ==
    /\ revision \in [Numbers -> {NoRevision} \cup RevisionRows]
    /\ assignment \in [Assignments -> {Unused} \cup AssignmentRows]
    /\ outbox \subseteq Payloads
    /\ \A p \in outbox : Exists(p.revision)

Own(w) == request[w] \in Requests /\ Grounded(request[w])

LEMMA TypeStored == TypeInv => StoreInv /\ \A w \in Workers : Own(w)
  BY DEF TypeInv, TypeOK, GroundedInv, StoreInv, Own, RevisionRows, AssignmentRows

LEMMA StoredRows ==
    ASSUME StoreInv
    PROVE  /\ \A n \in Numbers : Exists(n) => revision[n] \in RevisionRows
           /\ \A a \in Assignments : assignment[a] # Unused => assignment[a] \in AssignmentRows
           /\ \A a \in Assignments : Live(a) => assignment[a] # Unused
           /\ \A a \in Assignments : assignment[a].state # "unused" => assignment[a] # Unused
  BY DEF StoreInv, Exists, NoRevision, Live, Unused, RevisionRows, AssignmentRows

LEMMA TypeInit == Init => TypeInv
<1> SUFFICES ASSUME Init PROVE TypeInv
  OBVIOUS
<1>1. revision \in [Numbers -> {NoRevision} \cup RevisionRows]
  BY DEF Init, NewRevision, RevisionRows
<1>2. assignment \in [Assignments -> {Unused} \cup AssignmentRows]
  <2>1. PICK position \in [Seeded -> Positions], body \in [Seeded -> Bodies] :
            assignment = [a \in Assignments |->
                              IF a \in Seeded
                              THEN NewAssignment(1, position[a], 1, body[a], "none")
                              ELSE Unused]
    BY DEF Init
  <2>2. 1 \in Numbers
    BY CollaborationAssumption DEF Numbers
  <2>3. \A a \in Seeded : NewAssignment(1, position[a], 1, body[a], "none") \in AssignmentRows
    BY <2>2 DEF NewAssignment, AssignmentRows, Positions
  <2> QED
    BY <2>1, <2>3
<1>3. change \in [Mutations -> {NoChange} \cup [disposition : Dispositions, payload : outbox]]
  BY DEF Init
<1>4. request \in [Workers -> Requests] /\ \A w \in Workers : Grounded(request[w])
  BY DEF Init, Requests, Idle, Grounded
<1>5. outbox = {} /\ answers = {} /\ applied \in [Mutations -> Nat]
  BY DEF Init
<1> QED
  BY <1>1, <1>2, <1>3, <1>4, <1>5
  DEF TypeInv, TypeOK, GroundedInv, RevisionRows, AssignmentRows

(* Most steps only move a request on.                                      *)
LEMMA RequestMoves ==
    ASSUME TypeInv, NEW w \in Workers,
           \E r \in Requests : Grounded(r) /\ Become(w, r),
           UNCHANGED <<store, change, outbox, answers, applied>>
    PROVE  TypeInv'
<1>0. PICK r \in Requests : Grounded(r) /\ Become(w, r)
  OBVIOUS
<1>1. /\ request' = [request EXCEPT ![w] = r]
      /\ revision' = revision /\ assignment' = assignment /\ change' = change
      /\ outbox' = outbox /\ answers' = answers /\ applied' = applied
  BY <1>0 DEF Become, store
<1>2. Requests' = Requests
  BY <1>1 DEF Requests, Idle, Numbers
<1>3. TypeOK'
  BY <1>1, <1>2 DEF TypeInv, TypeOK
<1>4. \A v \in Workers : Grounded(request[v])'
  <2> SUFFICES ASSUME NEW v \in Workers PROVE Grounded(request[v])'
    OBVIOUS
  <2>1. request'[v] = IF v = w THEN r ELSE request[v]
    BY <1>1 DEF TypeInv, TypeOK
  <2> QED
    BY <1>0, <1>1, <2>1 DEF TypeInv, GroundedInv, Grounded, Exists
<1>5. GroundedInv'
  BY <1>1, <1>4 DEF TypeInv, GroundedInv, Exists, OnAssignment
<1> QED
  BY <1>3, <1>5 DEF TypeInv

(* A step of the workflow that only reads keeps the types.                 *)
ReadStep(w) ==
    \/ MutateStart(w) \/ MutateCollides(w)
    \/ (\E n \in Numbers : Preview(w, n))
    \/ ApproveValidate(w) \/ ApproveRefused(w) \/ ApproveFreeze(w)
    \/ CopyCheck(w) \/ CopyNumber(w) \/ CopyCollides(w)
    \/ (\E a \in Linkable : LinkRead(w, a) \/ UnlinkRead(w, a))
    \/ Abort(w)

LEMMA ManifestType ==
    ASSUME StoreInv, NEW n \in Numbers
    PROVE  Manifest(n) \in SUBSET (Assignments \X Nat \X Publishing)
<1> SUFFICES ASSUME NEW a \in Rows(n), assignment[a].body \in Publishing
             PROVE  <<a, assignment[a].position, assignment[a].body>>
                        \in Assignments \X Nat \X Publishing
  BY DEF Manifest
<1>1. a \in Assignments /\ assignment[a].position \in Nat
  BY StoredRows DEF Rows, AssignmentRows
<1> QED
  BY <1>1

LEMMA ReadStepRequest ==
    ASSUME StoreInv, NEW w \in Workers, Own(w), ReadStep(w)
    PROVE  /\ UNCHANGED <<store, change, outbox, answers, applied, sealed>>
           /\ \E r \in Requests : Grounded(r) /\ Become(w, r)
<1>0. UNCHANGED <<store, change, outbox, answers, applied, sealed>>
  BY DEF ReadStep, MutateStart, MutateCollides, Preview, ApproveValidate, ApproveRefused,
         ApproveFreeze, CopyCheck, CopyNumber, CopyCollides, LinkRead, UnlinkRead, Abort, store
<1>2. request[w] \in Requests /\ Grounded(request[w])
  BY DEF Own
<1>3. Idle \in Requests /\ Grounded(Idle)
  BY DEF Requests, Idle, Grounded
<1>4. CASE Become(w, Idle)
  BY <1>0, <1>3, <1>4
<1>5. CASE MutateStart(w)
  <2>1. PICK p \in outbox : Become(w, [step |-> "mutate", payload |-> p])
    BY <1>5 DEF MutateStart
  <2>2. [step |-> "mutate", payload |-> p] \in Requests
    BY DEF Requests
  <2>3. Grounded([step |-> "mutate", payload |-> p])
    BY DEF Grounded
  <2> QED
    BY <1>0, <2>1, <2>2, <2>3
<1>6. CASE \E n \in Numbers : Preview(w, n)
  <2>1. PICK n \in Numbers : Preview(w, n)
    BY <1>6
  <2> DEFINE r == [step |-> "preview", revision |-> n, digest |-> Manifest(n)]
  <2>2. Become(w, r) /\ Exists(n)
    BY <2>1 DEF Preview, Draft, Exists
  <2>3. r \in Requests
    BY <1>2, ManifestType DEF Requests
  <2>4. Grounded(r)
    BY <2>2 DEF Grounded
  <2> QED
    BY <1>0, <2>2, <2>3, <2>4
<1>7. CASE ApproveValidate(w)
  <2> DEFINE n == request[w].revision
             r == [step |-> "validated", revision |-> n, digest |-> Manifest(n)]
  <2>1. Become(w, r) /\ request[w].step = "preview"
    BY <1>7 DEF ApproveValidate, At
  <2>2. n \in Numbers /\ Exists(n)
    BY <1>2, <2>1 DEF Requests, Idle, Grounded
  <2>3. r \in Requests
    BY <1>2, <2>2, ManifestType DEF Requests
  <2>4. Grounded(r)
    BY <2>2 DEF Grounded
  <2> QED
    BY <1>0, <2>1, <2>3, <2>4
<1>8. CASE ApproveFreeze(w)
  <2> DEFINE n == request[w].revision
             links == {a \in Rows(n) : Linked(a)}
             r == [step |-> "frozen", revision |-> n, digest |-> request[w].digest,
                   links |-> links]
  <2>1. (Become(w, r) \/ Become(w, Idle)) /\ request[w].step = "validated"
    BY <1>8 DEF ApproveFreeze, At
  <2>2. /\ n \in Numbers /\ Exists(n)
        /\ request[w].digest \in SUBSET (Assignments \X Nat \X Publishing)
    BY <1>2, <2>1 DEF Requests, Idle, Grounded
  <2>3. links \in SUBSET Assignments /\ \A a \in links : assignment[a] # Unused
    BY <1>2, StoredRows DEF Rows
  <2> HIDE DEF links
  <2>4. r \in Requests
    BY <2>2, <2>3 DEF Requests
  <2>5. Grounded(r)
    BY <2>2, <2>3 DEF Grounded
  <2> QED
    BY <1>0, <1>4, <2>1, <2>4, <2>5
<1>9. CASE CopyCheck(w)
  <2>1. PICK source \in {{}} \cup {{n} : n \in {k \in Numbers : Exists(k)}} :
            Become(w, [step |-> "copy", source |-> source])
    BY <1>9 DEF CopyCheck
  <2>2. source \in SUBSET Numbers /\ \A n \in source : Exists(n)
    OBVIOUS
  <2>3. [step |-> "copy", source |-> source] \in Requests
    BY <2>2 DEF Requests
  <2>4. Grounded([step |-> "copy", source |-> source])
    BY <2>2 DEF Grounded
  <2> QED
    BY <1>0, <2>1, <2>3, <2>4
<1>10. CASE CopyNumber(w)
  <2> DEFINE r == [step |-> "numbered", source |-> request[w].source, number |-> NextNumber]
  <2>1. Become(w, r) /\ request[w].step = "copy" /\ NextNumber \in Numbers
    BY <1>10 DEF CopyNumber, At
  <2>2. request[w].source \in SUBSET Numbers /\ \A n \in request[w].source : Exists(n)
    BY <1>2, <2>1 DEF Requests, Idle, Grounded
  <2>3. r \in Requests
    BY <2>1, <2>2 DEF Requests
  <2>4. Grounded(r)
    BY <2>2 DEF Grounded
  <2> QED
    BY <1>0, <2>1, <2>3, <2>4
<1>11. CASE \E a \in Linkable : LinkRead(w, a) \/ UnlinkRead(w, a)
  <2>1. PICK a \in Linkable : \/ Become(w, [step |-> "link", object |-> a])
                             \/ Become(w, [step |-> "unlink", object |-> a])
    BY <1>11 DEF LinkRead, UnlinkRead
  <2>2. a \in Assignments
    BY CollaborationAssumption
  <2>3. \A s \in {"link", "unlink"} : [step |-> s, object |-> a] \in Requests
                                     /\ Grounded([step |-> s, object |-> a])
    BY <2>2 DEF Requests, Grounded
  <2> QED
    BY <1>0, <2>1, <2>3
<1>12. CASE MutateCollides(w) \/ ApproveRefused(w) \/ CopyCollides(w) \/ Abort(w)
  BY <1>4, <1>12 DEF MutateCollides, ApproveRefused, CopyCollides, Abort
<1> QED
  BY <1>0, <1>5, <1>6, <1>7, <1>8, <1>9, <1>10, <1>11, <1>12 DEF ReadStep

LEMMA ReadStepType ==
    ASSUME TypeInv, NEW w \in Workers, ReadStep(w)
    PROVE  TypeInv' /\ UNCHANGED <<store, change, outbox, answers, applied, sealed>>
  BY TypeStored, ReadStepRequest, RequestMoves

-----------------------------------------------------------------------------
(* A step that writes ends its request, keeps rows in their tables, and    *)
(* takes no row away: a deleted assignment keeps its id.                   *)
RowsStay ==
    /\ revision' \in [Numbers -> {NoRevision} \cup RevisionRows]
    /\ assignment' \in [Assignments -> {Unused} \cup AssignmentRows]
    /\ \A n \in Numbers : Exists(n) => Exists(n)'
    /\ \A a \in Assignments : assignment[a] # Unused => assignment'[a] # Unused

LEMMA StoreMoves ==
    ASSUME TypeInv, NEW w \in Workers, RowsStay, Become(w, Idle), outbox' = outbox,
           change' \in [Mutations -> {NoChange} \cup
                            [disposition : Dispositions, payload : outbox]],
           answers' \subseteq [payload : outbox, outcome : Dispositions \cup {"refused"}],
           applied' \in [Mutations -> Nat]
    PROVE  TypeInv'
<1>1. Requests' = Requests
  BY DEF Requests, Idle, Numbers
<1>2. /\ request' \in [Workers -> Requests]
      /\ \A v \in Workers : request'[v] = IF v = w THEN Idle ELSE request[v]
  <2>1. Idle \in Requests
    BY DEF Requests
  <2> QED
    BY <2>1 DEF Become, TypeInv, TypeOK
<1>3. TypeOK'
  BY <1>1, <1>2 DEF TypeInv, TypeOK, RowsStay, RevisionRows, AssignmentRows
<1>4. \A v \in Workers : Grounded(request[v])'
  <2> SUFFICES ASSUME NEW v \in Workers PROVE Grounded(request[v])'
    OBVIOUS
  <2>1. CASE v = w
    BY <1>2, <2>1 DEF Idle, Grounded
  <2>2. CASE v # w
    <3>1. request'[v] = request[v] /\ request[v] \in Requests /\ Grounded(request[v])
      BY <1>2, <2>2 DEF TypeInv, TypeOK, GroundedInv
    <3>2. request[v].step \in {"preview", "validated", "frozen"} => request[v].revision \in Numbers
      BY <3>1 DEF Requests, Idle
    <3>3. request[v].step = "frozen" => request[v].links \subseteq Assignments
      BY <3>1 DEF Requests, Idle
    <3>4. request[v].step \in {"copy", "numbered"} => request[v].source \subseteq Numbers
      BY <3>1 DEF Requests, Idle
    <3> QED
      BY <3>1, <3>2, <3>3, <3>4 DEF Grounded, RowsStay
  <2> QED
    BY <2>1, <2>2
<1>5. \A p \in outbox : p.revision \in Numbers /\ (OnAssignment(p) => p.object \in Assignments)
  BY DEF TypeInv, TypeOK, Payloads, OnAssignment
<1>6. GroundedInv'
  BY <1>4, <1>5 DEF TypeInv, GroundedInv, RowsStay, OnAssignment
<1> QED
  BY <1>3, <1>6 DEF TypeInv

(* A version bump, and an edit on top of it, keep a row in its table.      *)
LEMMA BumpedRows ==
    /\ \A row \in RevisionRows :
           /\ Bumped(row) \in RevisionRows
           /\ Bumped(row).status = row.status /\ Bumped(row).prepared = row.prepared
           /\ Bumped(row).version = row.version + 1
    /\ \A row \in AssignmentRows :
           /\ Bumped(row) \in AssignmentRows
           /\ Bumped(row).version = row.version + 1 /\ Bumped(row).state = row.state
           /\ Bumped(row).revision = row.revision /\ Bumped(row).link = row.link
  BY DEF RevisionRows, AssignmentRows, Bumped

LEMMA EditedRows ==
    /\ \A row \in RevisionRows, prepared \in Preparers :
           /\ [row EXCEPT !.prepared = prepared] \in RevisionRows
           /\ [row EXCEPT !.prepared = prepared].status = row.status
           /\ [row EXCEPT !.prepared = prepared].version = row.version
           /\ [row EXCEPT !.prepared = prepared].prepared = prepared
    /\ \A row \in AssignmentRows, body \in Bodies, position \in Nat \ {0} :
           LET new == [row EXCEPT !.body = body, !.position = position]
           IN  /\ new \in AssignmentRows
               /\ new.state = row.state /\ new.revision = row.revision
               /\ new.link = row.link /\ new.version = row.version
               /\ new.body = body /\ new.position = position
  BY DEF RevisionRows, AssignmentRows

(* A version bump keeps a revision's row in its table.                     *)
LEMMA BumpType ==
    ASSUME StoreInv, NEW n \in Numbers, Exists(n), BumpRevision(n)
    PROVE  /\ revision' \in [Numbers -> {NoRevision} \cup RevisionRows]
           /\ \A k \in Numbers : /\ revision'[k].status = revision[k].status
                                 /\ revision'[k].prepared = revision[k].prepared
                                 /\ k # n => revision'[k] = revision[k]
           /\ revision'[n].version = revision[n].version + 1
<1>1. revision[n] \in RevisionRows /\ revision \in [Numbers -> {NoRevision} \cup RevisionRows]
  BY StoredRows DEF StoreInv, RevisionRows
<1>2. revision' = [revision EXCEPT ![n] = Bumped(revision[n])]
  BY DEF BumpRevision
<1>3. /\ Bumped(revision[n]) \in RevisionRows
      /\ Bumped(revision[n]).status = revision[n].status
      /\ Bumped(revision[n]).prepared = revision[n].prepared
      /\ Bumped(revision[n]).version = revision[n].version + 1
  BY <1>1, BumpedRows
<1> QED
  BY <1>1, <1>2, <1>3

(* What each kind of saved mutation does to the tables.                    *)
LEMMA SaveRows ==
    ASSUME StoreInv, NEW p \in outbox, "saved" \in Outcomes(p), Save(p)
    PROVE  RowsStay
<1>1. /\ p \in Payloads /\ p.revision \in Numbers /\ Exists(p.revision)
      /\ revision \in [Numbers -> {NoRevision} \cup RevisionRows]
      /\ assignment \in [Assignments -> {Unused} \cup AssignmentRows]
  BY DEF StoreInv, Payloads, RevisionRows, AssignmentRows
<1>2. ~ RejectedOutright(p) /\ ~ Stale(p) /\ ~ RejectedLate(p)
  BY DEF Outcomes
<1>3. CASE SaveRevisionUpdate(p)
  <2>1. p.prepared \in Preparers
    BY <1>1, <1>3 DEF SaveRevisionUpdate, Payloads
  <2>2. revision[p.revision] \in RevisionRows
    BY <1>1, StoredRows
  <2> DEFINE row == [Bumped(revision[p.revision]) EXCEPT !.prepared = p.prepared]
  <2>3. row \in RevisionRows /\ row.status # "none"
    BY <2>1, <2>2, BumpedRows, EditedRows DEF RevisionRows
  <2>4. revision' = [revision EXCEPT ![p.revision] = row] /\ assignment' = assignment
    BY <1>3 DEF SaveRevisionUpdate
  <2> HIDE DEF row
  <2> QED
    BY <1>1, <2>3, <2>4 DEF RowsStay, Exists
<1>4. CASE SaveCreate(p)
  <2>1. p.position \in Positions /\ p.body \in Bodies
    BY <1>1, <1>4 DEF SaveCreate, Payloads
  <2> DEFINE row == NewAssignment(p.revision, p.position, 1, p.body, "none")
  <2>2. row \in AssignmentRows /\ row # Unused
    BY <1>1, <2>1 DEF NewAssignment, AssignmentRows, Positions, Unused
  <2>3. PICK a \in Assignments : assignment' = [assignment EXCEPT ![a] = row]
    BY <1>4 DEF SaveCreate
  <2>4. BumpRevision(p.revision)
    BY <1>4 DEF SaveCreate
  <2> HIDE DEF row
  <2> QED
    BY <1>1, <2>2, <2>3, <2>4, BumpType DEF RowsStay, Exists
<1>5. CASE SaveUpdate(p)
  <2>1. /\ p.object \in Assignments /\ p.body \in Bodies
        /\ p.position \in {Keep} \cup Positions
    BY <1>1, <1>5 DEF SaveUpdate, Payloads
  <2>2. p.object \in Rows(p.revision)
    BY <1>2, <1>5 DEF SaveUpdate, RejectedOutright, OnAssignment
  <2>3. assignment[p.object] \in AssignmentRows
    BY <1>1, <2>1, <2>2, StoredRows DEF Rows
  <2> DEFINE row == Edited(assignment[p.object], p)
  <2>4. row \in AssignmentRows /\ row # Unused
    <3>1. row \in AssignmentRows
      <4> DEFINE position == IF p.position = Keep THEN assignment[p.object].position
                                                  ELSE p.position
      <4>1. position \in Nat \ {0}
        BY <2>1, <2>3 DEF AssignmentRows, Positions, Keep
      <4>2. row = [Bumped(assignment[p.object]) EXCEPT !.body = p.body, !.position = position]
        BY DEF Edited
      <4> HIDE DEF position, row
      <4> QED
        BY <2>1, <2>3, <4>1, <4>2, BumpedRows, EditedRows
    <3> QED
      BY <3>1 DEF AssignmentRows, Unused
  <2>5. assignment' = [assignment EXCEPT ![p.object] = row] /\ revision' = revision
    BY <1>5 DEF SaveUpdate
  <2> HIDE DEF row
  <2> QED
    BY <1>1, <2>1, <2>4, <2>5 DEF RowsStay, Exists
<1>6. CASE SaveDelete(p)
  <2>1. p.object \in Rows(p.revision)
    BY <1>2, <1>6 DEF SaveDelete, RejectedOutright, OnAssignment
  <2>2. p.object \in Assignments /\ assignment[p.object] \in AssignmentRows
    BY <1>1, <2>1, StoredRows DEF Rows
  <2> DEFINE row == [assignment[p.object] EXCEPT !.state = "deleted"]
  <2>3. row \in AssignmentRows /\ row # Unused
    BY <2>2 DEF AssignmentRows, Unused
  <2>4. assignment' = [assignment EXCEPT ![p.object] = row] /\ BumpRevision(p.revision)
    BY <1>6 DEF SaveDelete
  <2> HIDE DEF row
  <2> QED
    BY <1>1, <2>2, <2>3, <2>4, BumpType DEF RowsStay, Exists
<1>7. CASE SaveReorder(p)
  <2>1. p.order \in [Assignments -> Nat] /\ Rows(p.revision) = Listed(p.order)
    BY <1>1, <1>2, <1>7 DEF SaveReorder, Payloads, RejectedLate
  <2>2. \A a \in Rows(p.revision) :
            LET row == [assignment[a] EXCEPT !.position = p.order[a]]
            IN  row \in AssignmentRows /\ row # Unused
    <3> SUFFICES ASSUME NEW a \in Rows(p.revision)
                 PROVE  LET row == [assignment[a] EXCEPT !.position = p.order[a]]
                        IN  row \in AssignmentRows /\ row # Unused
      OBVIOUS
    <3>1. assignment[a] \in AssignmentRows /\ p.order[a] \in Nat \ {0}
      BY <1>1, <2>1, StoredRows DEF Rows, Listed
    <3> QED
      BY <3>1 DEF AssignmentRows, Unused
  <2>3. /\ assignment' = [a \in Assignments |->
                              IF a \in Rows(p.revision)
                              THEN [assignment[a] EXCEPT !.position = p.order[a]]
                              ELSE assignment[a]]
        /\ BumpRevision(p.revision)
    BY <1>7 DEF SaveReorder
  <2> QED
    BY <1>1, <2>2, <2>3, BumpType DEF RowsStay, Exists
<1> QED
  BY <1>3, <1>4, <1>5, <1>6, <1>7 DEF Save

(* The mutation that a request at "mutate" carries was sent by a client.   *)
LEMMA MutationSent ==
    ASSUME StoreInv, NEW w \in Workers, Own(w), At(w, "mutate")
    PROVE  request[w].payload \in outbox
  BY DEF StoreInv, Own, Requests, Idle, At

(* A committed mutation: a new ledger entry for a free id, and either the  *)
(* effect of a saved mutation or none.                                     *)
LEMMA CommitEffect ==
    ASSUME StoreInv, NEW w \in Workers, Own(w), MutateCommit(w)
    PROVE  \E p \in outbox, d \in Dispositions :
               /\ d \in Outcomes(p)
               /\ p.id \in Mutations /\ change[p.id] = NoChange
               /\ \/ d = "saved" /\ Save(p)
                  \/ d # "saved" /\ UNCHANGED store
               /\ change' = [change EXCEPT ![p.id] = [disposition |-> d, payload |-> p]]
               /\ applied' = [applied EXCEPT ![p.id] = IF d = "saved" THEN @ + 1 ELSE @]
               /\ answers' = answers \cup {[payload |-> p, outcome |-> d]}
               /\ Become(w, Idle) /\ UNCHANGED <<outbox, sealed>>
<1> DEFINE p == request[w].payload
<1>1. p \in outbox
  BY MutationSent DEF MutateCommit
<1>2. p.id \in Mutations
  BY <1>1 DEF StoreInv, Own, Payloads
<1>3. Outcomes(p) \subseteq Dispositions
  BY DEF Outcomes, Dispositions
<1>4. UNCHANGED <<outbox, sealed>> /\ Become(w, Idle)
  BY DEF MutateCommit
<1>5. PICK d \in Outcomes(p) :
          /\ ~ IdTaken(p.id)
          /\ \/ d = "saved" /\ Save(p)
             \/ d # "saved" /\ UNCHANGED store
          /\ change' = [change EXCEPT ![p.id] = [disposition |-> d, payload |-> p]]
          /\ applied' = [applied EXCEPT ![p.id] = IF d = "saved" THEN @ + 1 ELSE @]
          /\ Answer(p, d)
  BY DEF MutateCommit
<1>6. change[p.id] = NoChange /\ answers' = answers \cup {[payload |-> p, outcome |-> d]}
  BY <1>5 DEF IdTaken, Answer
<1> HIDE DEF p
<1> QED
  BY <1>1, <1>2, <1>3, <1>4, <1>5, <1>6

LEMMA CommitType ==
    ASSUME TypeInv, NEW w \in Workers, MutateCommit(w)
    PROVE  TypeInv'
<1>1. PICK p \in outbox, d \in Dispositions :
          /\ d \in Outcomes(p)
          /\ p.id \in Mutations
          /\ \/ d = "saved" /\ Save(p)
             \/ d # "saved" /\ UNCHANGED store
          /\ change' = [change EXCEPT ![p.id] = [disposition |-> d, payload |-> p]]
          /\ applied' = [applied EXCEPT ![p.id] = IF d = "saved" THEN @ + 1 ELSE @]
          /\ answers' = answers \cup {[payload |-> p, outcome |-> d]}
          /\ Become(w, Idle) /\ UNCHANGED <<outbox, sealed>>
  BY TypeStored, CommitEffect
<1>2. RowsStay
  <2>1. CASE d = "saved"
    BY <1>1, <2>1, TypeStored, SaveRows
  <2>2. CASE d # "saved"
    BY <1>1, <2>2 DEF TypeInv, TypeOK, RowsStay, store, RevisionRows, AssignmentRows, Exists
  <2> QED
    BY <2>1, <2>2
<1>3. change' \in [Mutations -> {NoChange} \cup [disposition : Dispositions, payload : outbox]]
  BY <1>1 DEF TypeInv, TypeOK
<1>4. answers' \subseteq [payload : outbox, outcome : Dispositions \cup {"refused"}]
  BY <1>1 DEF TypeInv, TypeOK
<1>5. applied' \in [Mutations -> Nat]
  BY <1>1 DEF TypeInv, TypeOK
<1> QED
  BY <1>1, <1>2, <1>3, <1>4, <1>5, StoreMoves

(* Sending a mutation adds one payload about a revision that exists.       *)
LEMMA SendEffect ==
    ASSUME StoreInv, NEW m \in Mutations, NEW n \in Numbers, ClientSend(m, n)
    PROVE  \E p \in Payloads :
               /\ outbox' = outbox \cup {p}
               /\ p.revision = n /\ Exists(n)
               /\ OnAssignment(p) =>
                      /\ p.object \in Rows(n)
                      /\ p.base = assignment[p.object].version
                      /\ p.seen = assignment[p.object].body
               /\ ~ OnAssignment(p) => p.base = revision[n].version
               /\ p.op = "revision.update" => p.seen = revision[n].prepared
               /\ p.op = "assignment.create" => p.seen = Rows(n)
               /\ p.op = "assignment.reorder" => Listed(p.seen) = Rows(n) /\ Injective(p.order)
               /\ UNCHANGED <<store, change, answers, applied, sealed, request>>
<1>1. /\ Exists(n) /\ revision[n] \in RevisionRows
      /\ \A a \in Rows(n) : a \in Assignments /\ assignment[a] \in AssignmentRows
  BY StoredRows DEF StoreInv, Rows, ClientSend
<1>2. CASE SendRevisionUpdate(m, n)
  <2>1. PICK prepared \in Preparers :
            Send([id |-> m, op |-> "revision.update", revision |-> n,
                  base |-> revision[n].version, prepared |-> prepared,
                  seen |-> revision[n].prepared])
    BY <1>2 DEF SendRevisionUpdate
  <2> DEFINE p == [id |-> m, op |-> "revision.update", revision |-> n,
                   base |-> revision[n].version, prepared |-> prepared,
                   seen |-> revision[n].prepared]
  <2>2. p \in Payloads
    BY <1>1 DEF Payloads, RevisionRows
  <2> QED
    BY <1>1, <2>1, <2>2 DEF Send, OnAssignment
<1>3. CASE SendCreate(m, n)
  <2>1. PICK position \in Positions, body \in Bodies :
            Send([id |-> m, op |-> "assignment.create", revision |-> n,
                  base |-> revision[n].version, position |-> position, body |-> body,
                  seen |-> Rows(n)])
    BY <1>3 DEF SendCreate
  <2> DEFINE p == [id |-> m, op |-> "assignment.create", revision |-> n,
                   base |-> revision[n].version, position |-> position, body |-> body,
                   seen |-> Rows(n)]
  <2>2. p \in Payloads
    BY <1>1 DEF Payloads, RevisionRows, Rows
  <2> QED
    BY <1>1, <2>1, <2>2 DEF Send, OnAssignment
<1>4. CASE SendUpdate(m, n)
  <2>1. PICK a \in Rows(n), position \in {Keep} \cup Positions, body \in Bodies :
            Send([id |-> m, op |-> "assignment.update", revision |-> n,
                  base |-> assignment[a].version, object |-> a,
                  position |-> position, body |-> body, seen |-> assignment[a].body])
    BY <1>4 DEF SendUpdate
  <2> DEFINE p == [id |-> m, op |-> "assignment.update", revision |-> n,
                   base |-> assignment[a].version, object |-> a,
                   position |-> position, body |-> body, seen |-> assignment[a].body]
  <2>2. /\ a \in Assignments
        /\ assignment[a].version \in Nat /\ assignment[a].body \in Bodies
    BY <1>1 DEF AssignmentRows
  <2>3. p \in Payloads
    BY <2>2 DEF Payloads
  <2> QED
    BY <1>1, <2>1, <2>3 DEF Send, OnAssignment
<1>5. CASE SendDelete(m, n)
  <2>1. PICK a \in Rows(n) :
            Send([id |-> m, op |-> "assignment.delete", revision |-> n,
                  base |-> assignment[a].version, object |-> a,
                  seen |-> assignment[a].body])
    BY <1>5 DEF SendDelete
  <2> DEFINE p == [id |-> m, op |-> "assignment.delete", revision |-> n,
                   base |-> assignment[a].version, object |-> a,
                   seen |-> assignment[a].body]
  <2>2. /\ a \in Assignments
        /\ assignment[a].version \in Nat /\ assignment[a].body \in Bodies
    BY <1>1 DEF AssignmentRows
  <2>3. p \in Payloads
    BY <2>2 DEF Payloads
  <2> QED
    BY <1>1, <2>1, <2>3 DEF Send, OnAssignment
<1>6. CASE SendReorder(m, n)
  <2>1. PICK order \in [Assignments -> 0 .. Cardinality(Rows(n))] :
            /\ Listed(order) = Rows(n)
            /\ \A a, b \in Rows(n) : order[a] = order[b] => a = b
            /\ Send([id |-> m, op |-> "assignment.reorder", revision |-> n,
                     base |-> revision[n].version, order |-> order, seen |-> Order(n)])
    BY <1>6 DEF SendReorder
  <2> DEFINE p == [id |-> m, op |-> "assignment.reorder", revision |-> n,
                   base |-> revision[n].version, order |-> order, seen |-> Order(n)]
  <2>2. order \in [Assignments -> Nat]
    OBVIOUS
  <2>3. Order(n) \in [Assignments -> Nat] /\ Listed(Order(n)) = Rows(n)
    BY <1>1 DEF Order, Listed, AssignmentRows, Rows
  <2>4. p \in Payloads
    BY <1>1, <2>2, <2>3 DEF Payloads, RevisionRows
  <2>5. Injective(order)
    BY <2>1 DEF Injective
  <2> QED
    BY <1>1, <2>1, <2>3, <2>4, <2>5 DEF Send, OnAssignment
<1> QED
  BY <1>2, <1>3, <1>4, <1>5, <1>6 DEF ClientSend

LEMMA SendType ==
    ASSUME TypeInv, NEW m \in Mutations, NEW n \in Numbers, ClientSend(m, n)
    PROVE  TypeInv'
<1>1. PICK p \in Payloads :
          /\ outbox' = outbox \cup {p}
          /\ p.revision = n /\ Exists(n)
          /\ OnAssignment(p) => p.object \in Rows(n)
          /\ UNCHANGED <<store, change, answers, applied, sealed, request>>
  BY TypeStored, SendEffect
<1>2. /\ revision' = revision /\ assignment' = assignment /\ change' = change
      /\ answers' = answers /\ applied' = applied /\ request' = request
  BY <1>1 DEF store
<1>3. Requests \subseteq Requests'
  BY <1>1, <1>2 DEF Requests, Idle, Numbers
<1>4. change' \in [Mutations -> {NoChange} \cup [disposition : Dispositions, payload : outbox']]
  BY <1>1, <1>2 DEF TypeInv, TypeOK
<1>5. answers' \subseteq [payload : outbox', outcome : Dispositions \cup {"refused"}]
  <2> SUFFICES ASSUME NEW x \in answers
               PROVE  x \in [payload : outbox', outcome : Dispositions \cup {"refused"}]
    BY <1>2
  <2>1. x \in [payload : outbox, outcome : Dispositions \cup {"refused"}]
    BY DEF TypeInv, TypeOK
  <2> QED
    BY <1>1, <2>1
<1>6. request' \in [Workers -> Requests']
  BY <1>2, <1>3 DEF TypeInv, TypeOK
<1>7. outbox' \subseteq Payloads'
  BY <1>1 DEF TypeInv, TypeOK, Payloads
<1>8. TypeOK'
  BY <1>2, <1>4, <1>5, <1>6, <1>7 DEF TypeInv, TypeOK
<1>9. OnAssignment(p) => assignment[p.object] # Unused
  BY <1>1, RowTypes DEF Rows, TypeInv
<1>10. GroundedInv'
  <2>1. \A q \in outbox' : Exists(q.revision)'
    BY <1>1, <1>2 DEF TypeInv, GroundedInv, Exists
  <2>2. \A q \in outbox' : OnAssignment(q) => assignment'[q.object] # Unused
    BY <1>1, <1>2, <1>9 DEF TypeInv, GroundedInv
  <2>3. \A w \in Workers : Grounded(request[w])'
    BY <1>2 DEF TypeInv, GroundedInv, Grounded, Exists
  <2> QED
    BY <2>1, <2>2, <2>3 DEF GroundedInv, OnAssignment
<1> QED
  BY <1>8, <1>10 DEF TypeInv

(* A retained outcome, or a refusal, is all that a known id is answered.   *)
LEMMA ReplayEffect ==
    ASSUME TypeInv, NEW w \in Workers, MutateReplay(w)
    PROVE  /\ \E p \in outbox :
                  /\ p.id \in Mutations /\ change[p.id] # NoChange
                  /\ answers' = answers \cup {[payload |-> p, outcome |-> KnownAnswer(p)]}
                  /\ KnownAnswer(p) \in Dispositions \cup {"refused"}
           /\ UNCHANGED <<store, change, outbox, applied, sealed, request>>
<1>1. PICK p \in outbox : change[p.id] # NoChange /\ Answer(p, KnownAnswer(p))
  BY DEF MutateReplay
<1>2. p.id \in Mutations
  BY DEF TypeInv, TypeOK, Payloads
<1>3. change[p.id].disposition \in Dispositions
  BY <1>1, <1>2 DEF TypeInv, TypeOK
<1> QED
  BY <1>1, <1>2, <1>3 DEF MutateReplay, Answer, KnownAnswer

LEMMA ReplayType ==
    ASSUME TypeInv, NEW w \in Workers, MutateReplay(w)
    PROVE  TypeInv'
<1>1. PICK p \in outbox :
          /\ answers' = answers \cup {[payload |-> p, outcome |-> KnownAnswer(p)]}
          /\ KnownAnswer(p) \in Dispositions \cup {"refused"}
  BY ReplayEffect
<1>2. /\ revision' = revision /\ assignment' = assignment /\ change' = change
      /\ outbox' = outbox /\ applied' = applied /\ request' = request
  BY ReplayEffect DEF store
<1>3. answers' \subseteq [payload : outbox, outcome : Dispositions \cup {"refused"}]
  BY <1>1 DEF TypeInv, TypeOK
<1>4. Requests' = Requests
  BY <1>2 DEF Requests, Idle, Numbers
<1>5. TypeOK'
  BY <1>2, <1>3, <1>4 DEF TypeInv, TypeOK
<1>6. GroundedInv'
  BY <1>2 DEF TypeInv, GroundedInv, Grounded, Exists, OnAssignment
<1> QED
  BY <1>5, <1>6 DEF TypeInv

-----------------------------------------------------------------------------
(* The requests that write without having held a lock.                     *)
LEMMA ApproveCommitRows ==
    ASSUME StoreInv, NEW w \in Workers, Own(w), ApproveCommit(w)
    PROVE  /\ RowsStay
           /\ request[w].revision \in Numbers
           /\ \A n \in Numbers : /\ revision'[n].version = revision[n].version
                                 /\ revision'[n].prepared = revision[n].prepared
           /\ \A n \in Numbers : revision'[n].status =
                  IF n = request[w].revision THEN "approved" ELSE revision[n].status
           /\ \A a \in Assignments : assignment'[a] = assignment[a]
                  \/ /\ assignment[a] # Unused
                     /\ assignment'[a] = [assignment[a] EXCEPT !.link = "frozen"]
<1> DEFINE n == request[w].revision
<1>1. /\ At(w, "frozen") /\ request[w] \in Requests /\ Grounded(request[w])
      /\ revision \in [Numbers -> {NoRevision} \cup RevisionRows]
      /\ assignment \in [Assignments -> {Unused} \cup AssignmentRows]
  BY DEF StoreInv, Own, ApproveCommit, RevisionRows, AssignmentRows
<1>2. n \in Numbers /\ Exists(n) /\ \A a \in request[w].links : assignment[a] # Unused
  BY <1>1 DEF Requests, Idle, At, Grounded
<1>3. revision[n] \in RevisionRows
  BY <1>1, <1>2, StoredRows
<1> DEFINE row == [revision[n] EXCEPT !.status = "approved"]
<1>4. /\ row \in RevisionRows /\ row.status = "approved" /\ row.version = revision[n].version
      /\ row.prepared = revision[n].prepared
  BY <1>3 DEF RevisionRows
<1>5. revision' = [revision EXCEPT ![n] = row]
  BY DEF ApproveCommit
<1>6. \A a \in Assignments : assignment[a] # Unused =>
          /\ [assignment[a] EXCEPT !.link = "frozen"] \in AssignmentRows
          /\ [assignment[a] EXCEPT !.link = "frozen"] # Unused
  <2> SUFFICES ASSUME NEW a \in Assignments, assignment[a] # Unused
               PROVE  /\ [assignment[a] EXCEPT !.link = "frozen"] \in AssignmentRows
                      /\ [assignment[a] EXCEPT !.link = "frozen"] # Unused
    OBVIOUS
  <2>1. assignment[a] \in AssignmentRows
    BY <1>1, StoredRows
  <2> QED
    BY <2>1 DEF AssignmentRows, Unused
<1>7. assignment' = [a \in Assignments |-> IF a \in request[w].links
                                           THEN [assignment[a] EXCEPT !.link = "frozen"]
                                           ELSE assignment[a]]
  BY DEF ApproveCommit
<1> HIDE DEF n, row
<1>8. RowsStay
  BY <1>1, <1>2, <1>4, <1>5, <1>6, <1>7 DEF RowsStay, Exists
<1>9. \A k \in Numbers : /\ revision'[k].version = revision[k].version
                         /\ revision'[k].prepared = revision[k].prepared
                         /\ revision'[k].status = IF k = n THEN "approved" ELSE revision[k].status
  BY <1>1, <1>2, <1>4, <1>5
<1>10. \A a \in Assignments : assignment'[a] = assignment[a]
           \/ /\ assignment[a] # Unused
              /\ assignment'[a] = [assignment[a] EXCEPT !.link = "frozen"]
  BY <1>2, <1>7
<1> QED
  BY <1>2, <1>8, <1>9, <1>10 DEF n

(* A site link is made or removed on a row that is live.                   *)
LEMMA LinkRows ==
    ASSUME StoreInv, NEW w \in Workers, Own(w), LinkCommit(w) \/ UnlinkCommit(w)
    PROVE  /\ RowsStay /\ revision' = revision
           /\ \A a \in Assignments : assignment'[a] = assignment[a]
                  \/ /\ Live(a)
                     /\ \E link \in {"live", "removed"} :
                            assignment'[a] = [assignment[a] EXCEPT !.link = link]
<1> DEFINE a == request[w].object
<1>1. /\ request[w] \in Requests /\ (At(w, "link") \/ At(w, "unlink"))
      /\ revision \in [Numbers -> {NoRevision} \cup RevisionRows]
      /\ assignment \in [Assignments -> {Unused} \cup AssignmentRows]
  BY DEF StoreInv, Own, LinkCommit, UnlinkCommit, RevisionRows, AssignmentRows
<1>2. a \in Assignments
  BY <1>1 DEF Requests, Idle, At
<1>3. revision' = revision
  BY DEF LinkCommit, UnlinkCommit
<1>4. \/ assignment' = assignment
      \/ Live(a) /\ \E link \in {"live", "removed"} :
             assignment' = [assignment EXCEPT ![a] = [assignment[a] EXCEPT !.link = link]]
  <2>1. CASE LinkCommit(w)
    BY <2>1 DEF LinkCommit, MayLink
  <2>2. CASE UnlinkCommit(w)
    BY <2>2 DEF UnlinkCommit
  <2> QED
    BY <2>1, <2>2
<1>5. Live(a) => \A link \in {"live", "removed"} :
          /\ [assignment[a] EXCEPT !.link = link] \in AssignmentRows
          /\ [assignment[a] EXCEPT !.link = link] # Unused
  <2> SUFFICES ASSUME Live(a), NEW link \in {"live", "removed"}
               PROVE  /\ [assignment[a] EXCEPT !.link = link] \in AssignmentRows
                      /\ [assignment[a] EXCEPT !.link = link] # Unused
    OBVIOUS
  <2>1. assignment[a] \in AssignmentRows
    BY <1>1, <1>2, StoredRows
  <2> QED
    BY <2>1 DEF AssignmentRows, Unused
<1> HIDE DEF a
<1>6. RowsStay
  BY <1>1, <1>2, <1>3, <1>4, <1>5 DEF RowsStay, Exists
<1> QED
  BY <1>1, <1>2, <1>3, <1>4, <1>6

(* A copy is a new revision, and its rows have ids that nothing had used.  *)
LEMMA CopyRows ==
    ASSUME StoreInv, NEW w \in Workers, Own(w), CopyInsert(w)
    PROVE  /\ RowsStay
           /\ request[w].number \in Numbers /\ ~ Exists(request[w].number)
           /\ \A n \in Numbers : n # request[w].number => revision'[n] = revision[n]
           /\ revision'[request[w].number].status = "draft"
           /\ \A a \in Assignments : assignment'[a] = assignment[a]
                  \/ /\ assignment[a] = Unused
                     /\ assignment'[a].revision = request[w].number
                     /\ assignment'[a].state = "live"
<1> DEFINE number == request[w].number
           source == request[w].source
<1>1. /\ At(w, "numbered") /\ request[w] \in Requests /\ Grounded(request[w])
      /\ revision \in [Numbers -> {NoRevision} \cup RevisionRows]
      /\ assignment \in [Assignments -> {Unused} \cup AssignmentRows]
  BY DEF StoreInv, Own, CopyInsert, RevisionRows, AssignmentRows
<1>2. number \in Numbers /\ source \in SUBSET Numbers /\ \A n \in source : Exists(n)
  BY <1>1 DEF Requests, Idle, At, Grounded
<1>3. ~ Exists(number)
  BY DEF CopyInsert, NumberTaken
<1>4. PICK prepared \in IF source = {} THEN Preparers ELSE {revision[n].prepared : n \in source} :
          revision' = [revision EXCEPT ![number] = NewRevision(prepared)]
  BY DEF CopyInsert
<1>5. prepared \in Preparers
  BY <1>1, <1>2, StoredRows DEF RevisionRows
<1>6. NewRevision(prepared) \in RevisionRows /\ NewRevision(prepared).status = "draft"
  BY <1>5 DEF NewRevision, RevisionRows
<1>7. PICK original \in [Assignments -> {{}} \cup {{a} : a \in SourceRows(source)}] :
          /\ \A a \in Assignments : original[a] # {} => assignment[a] = Unused
          /\ assignment' = [a \in Assignments |->
                 IF original[a] = {} THEN assignment[a]
                 ELSE CopiedRow(assignment[CHOOSE b \in original[a] : TRUE], number)]
  BY DEF CopyInsert
<1>8. \A a \in Assignments : original[a] # {} =>
          LET row == CopiedRow(assignment[CHOOSE b \in original[a] : TRUE], number)
          IN  row \in AssignmentRows /\ row.revision = number /\ row.state = "live"
  <2> SUFFICES ASSUME NEW a \in Assignments, original[a] # {}
               PROVE  LET row == CopiedRow(assignment[CHOOSE b \in original[a] : TRUE], number)
                      IN  row \in AssignmentRows /\ row.revision = number /\ row.state = "live"
    OBVIOUS
  <2> DEFINE b == CHOOSE b \in original[a] : TRUE
  <2>1. b \in SourceRows(source)
    OBVIOUS
  <2>2. b \in Assignments /\ assignment[b] \in AssignmentRows
    BY <1>1, <2>1, StoredRows DEF SourceRows, Rows
  <2> HIDE DEF b, number
  <2>3. LET row == CopiedRow(assignment[b], number)
        IN  row \in AssignmentRows /\ row.revision = number /\ row.state = "live"
    BY <1>2, <2>2 DEF CopiedRow, NewAssignment, AssignmentRows
  <2> QED
    BY <2>3 DEF b
<1> HIDE DEF number, source
<1>9. \A a \in Assignments : assignment'[a] = assignment[a]
          \/ /\ assignment[a] = Unused
             /\ assignment'[a] \in AssignmentRows
             /\ assignment'[a].revision = number
             /\ assignment'[a].state = "live"
  BY <1>7, <1>8
<1>10. RowsStay
  <2>1. assignment' \in [Assignments -> {Unused} \cup AssignmentRows]
    <3>1. assignment' = [a \in Assignments |-> assignment'[a]]
      BY <1>7
    <3> QED
      BY <1>1, <1>9, <3>1
  <2>2. \A a \in Assignments : assignment[a] # Unused => assignment'[a] # Unused
    BY <1>9
  <2>3. revision' \in [Numbers -> {NoRevision} \cup RevisionRows]
    BY <1>1, <1>4, <1>6
  <2>4. \A n \in Numbers : Exists(n) => Exists(n)'
    BY <1>1, <1>2, <1>3, <1>4 DEF Exists
  <2> QED
    BY <2>1, <2>2, <2>3, <2>4 DEF RowsStay
<1>11. /\ \A n \in Numbers : n # number => revision'[n] = revision[n]
       /\ revision'[number].status = "draft"
  BY <1>1, <1>2, <1>4, <1>6
<1> QED
  BY <1>2, <1>3, <1>9, <1>10, <1>11 DEF number

LEMMA WriteType ==
    ASSUME TypeInv, NEW w \in Workers,
           ApproveCommit(w) \/ CopyInsert(w) \/ LinkCommit(w) \/ UnlinkCommit(w)
    PROVE  TypeInv'
<1>1. Become(w, Idle) /\ UNCHANGED <<change, outbox, answers, applied>>
  BY DEF ApproveCommit, CopyInsert, LinkCommit, UnlinkCommit
<1>2. RowsStay
  BY TypeStored, ApproveCommitRows, CopyRows, LinkRows
<1>3. /\ change' \in [Mutations -> {NoChange} \cup [disposition : Dispositions, payload : outbox]]
      /\ answers' \subseteq [payload : outbox, outcome : Dispositions \cup {"refused"}]
      /\ applied' \in [Mutations -> Nat]
  BY <1>1 DEF TypeInv, TypeOK
<1> QED
  BY <1>1, <1>2, <1>3, StoreMoves

(* Next, by the kind of step.                                              *)
LEMMA StepKinds ==
    ASSUME Next
    PROVE  \/ \E m \in Mutations, n \in Numbers : ClientSend(m, n)
           \/ \E w \in Workers : ReadStep(w)
           \/ \E w \in Workers : MutateReplay(w)
           \/ \E w \in Workers : MutateCommit(w)
           \/ \E w \in Workers : ApproveCommit(w)
           \/ \E w \in Workers : CopyInsert(w)
           \/ \E w \in Workers : LinkCommit(w) \/ UnlinkCommit(w)
  BY DEF Next, Serve, Mutate, Approve, Copy, SiteLink, ReadStep

LEMMA TypeNext == TypeInv /\ [Next]_vars => TypeInv'
<1> SUFFICES ASSUME TypeInv, [Next]_vars PROVE TypeInv'
  OBVIOUS
<1>1. CASE Next
  BY <1>1, StepKinds, SendType, ReadStepType, ReplayType, CommitType, WriteType
<1>2. CASE UNCHANGED vars
  <2>1. UNCHANGED <<revision, assignment, change, outbox, answers, applied, request>>
    BY <1>2 DEF vars
  <2>2. Requests' = Requests
    BY <2>1 DEF Requests, Idle, Numbers
  <2>3. TypeOK'
    BY <2>1, <2>2 DEF TypeInv, TypeOK
  <2>4. GroundedInv'
    BY <2>1 DEF TypeInv, GroundedInv, Grounded, Exists, OnAssignment
  <2> QED
    BY <2>3, <2>4 DEF TypeInv
<1> QED
  BY <1>1, <1>2

LEMMA TypeInvariant == Spec => []TypeInv
  BY TypeInit, TypeNext, PTL DEF Spec

(* Rows, retained changes, payloads and requests always have the types     *)
(* that the tables and handlers give them.                                 *)
THEOREM CollaborationTypeCorrect == Spec => []TypeOK
<1>1. TypeInv => TypeOK
  BY DEF TypeInv
<1> QED
  BY <1>1, TypeInvariant, PTL

-----------------------------------------------------------------------------
(* The ledger: an id is applied once, and answered as it was applied.      *)
LEMMA LedgerInit == Init => AppliedOnce /\ ReplayIdempotent
  BY DEF Init, AppliedOnce, ReplayIdempotent, NoChange

LEMMA LedgerNext ==
    TypeInv /\ AppliedOnce /\ ReplayIdempotent /\ [Next]_vars
        => AppliedOnce' /\ ReplayIdempotent'
<1> SUFFICES ASSUME TypeInv, AppliedOnce, ReplayIdempotent, [Next]_vars
             PROVE  AppliedOnce' /\ ReplayIdempotent'
  OBVIOUS
<1>1. CASE UNCHANGED <<change, applied, answers>>
  BY <1>1 DEF AppliedOnce, ReplayIdempotent
<1>2. CASE \E w \in Workers : MutateReplay(w)
  <2>1. PICK p \in outbox : /\ change[p.id] # NoChange
                            /\ answers' = answers \cup {[payload |-> p, outcome |-> KnownAnswer(p)]}
                            /\ change' = change /\ applied' = applied
    BY <1>2, ReplayEffect
  <2>2. AppliedOnce'
    BY <2>1 DEF AppliedOnce
  <2>3. ReplayIdempotent'
    BY <2>1 DEF ReplayIdempotent, KnownAnswer
  <2> QED
    BY <2>2, <2>3
<1>3. CASE \E w \in Workers : MutateCommit(w)
  <2>1. PICK p \in outbox, d \in Dispositions :
            /\ p.id \in Mutations /\ change[p.id] = NoChange
            /\ change' = [change EXCEPT ![p.id] = [disposition |-> d, payload |-> p]]
            /\ applied' = [applied EXCEPT ![p.id] = IF d = "saved" THEN @ + 1 ELSE @]
            /\ answers' = answers \cup {[payload |-> p, outcome |-> d]}
    BY <1>3, TypeStored, CommitEffect
  <2>2. /\ DOMAIN change = Mutations /\ applied \in [Mutations -> Nat]
        /\ \A x \in answers : x.payload.id \in Mutations
    BY DEF TypeInv, TypeOK, Payloads
  <2>3. applied[p.id] = 0
    BY <2>1 DEF AppliedOnce, NoChange
  <2>4. AppliedOnce'
    BY <2>1, <2>2, <2>3 DEF AppliedOnce
  <2>5. ReplayIdempotent'
    <3> SUFFICES ASSUME NEW x \in answers'
                 PROVE  LET c == change'[x.payload.id]
                        IN  /\ c # NoChange
                            /\ IF c.payload = x.payload THEN x.outcome = c.disposition
                                                        ELSE x.outcome = "refused"
      BY DEF ReplayIdempotent
    <3>1. CASE x \in answers
      <4>1. x.payload.id # p.id /\ x.payload.id \in Mutations
        BY <2>1, <2>2, <3>1 DEF ReplayIdempotent
      <4> QED
        BY <2>1, <2>2, <3>1, <4>1 DEF ReplayIdempotent
    <3>2. CASE x = [payload |-> p, outcome |-> d]
      BY <2>1, <2>2, <3>2 DEF NoChange
    <3> QED
      BY <2>1, <3>1, <3>2
  <2> QED
    BY <2>4, <2>5
<1>4. CASE Next
  <2>1. CASE \E m \in Mutations, n \in Numbers : ClientSend(m, n)
    BY <2>1, <1>1, TypeStored, SendEffect
  <2>2. CASE \E w \in Workers : ReadStep(w)
    BY <2>2, <1>1, ReadStepType
  <2>3. CASE \E w \in Workers :
                 ApproveCommit(w) \/ CopyInsert(w) \/ LinkCommit(w) \/ UnlinkCommit(w)
    BY <2>3, <1>1 DEF ApproveCommit, CopyInsert, LinkCommit, UnlinkCommit
  <2> QED
    BY <1>2, <1>3, <1>4, <2>1, <2>2, <2>3, StepKinds
<1> QED
  BY <1>1, <1>4 DEF vars

LEMMA Ledger == Spec => [](AppliedOnce /\ ReplayIdempotent)
  BY LedgerInit, LedgerNext, TypeInvariant, PTL DEF Spec

(* However many copies of a mutation the server gets, and however they     *)
(* interleave, it takes effect at most once: exactly when its one retained *)
(* outcome is "saved".                                                     *)
THEOREM MutationsAppliedOnce == Spec => []AppliedOnce
  BY Ledger, PTL

(* Every answer to a payload is the retained outcome of that very payload, *)
(* or a refusal of an id that another payload has used.                    *)
THEOREM ReplaysIdempotent == Spec => []ReplayIdempotent
  BY Ledger, PTL

-----------------------------------------------------------------------------
(* What a saved mutation may do.  Every change of a body, of the set of    *)
(* rows or of the prepared-by fields comes with a new version.             *)
Touches(p, a) ==
    /\ assignment[a] = Unused \/ a \in Rows(p.revision)
    /\ assignment'[a] \in AssignmentRows
    /\ assignment'[a].revision = p.revision

SavedRevision(p) ==
    /\ \A n \in Numbers : revision'[n].status = revision[n].status
    /\ \A n \in Numbers : n # p.revision => revision'[n] = revision[n]
    /\ revision'[p.revision].version \in Nat
    /\ revision'[p.revision].version >= revision[p.revision].version
    /\ revision'[p.revision].prepared # revision[p.revision].prepared
           => p.op = "revision.update"
    /\ p.op # "assignment.update"
           => revision'[p.revision].version > revision[p.revision].version

SavedAssignment(p, a) ==
    \/ assignment'[a] = assignment[a]
    \/ /\ p.op = "assignment.create" /\ assignment[a] = Unused
       /\ Touches(p, a)
    \/ /\ p.op = "assignment.reorder" /\ a \in Rows(p.revision)
       /\ Touches(p, a)
       /\ assignment'[a].state = assignment[a].state
       /\ assignment'[a].body = assignment[a].body
       /\ assignment'[a].version = assignment[a].version
    \/ /\ p.op = "assignment.update" /\ a = p.object /\ a \in Rows(p.revision)
       /\ Touches(p, a)
       /\ assignment'[a].state = assignment[a].state
       /\ assignment'[a].version = assignment[a].version + 1
    \/ /\ p.op = "assignment.delete" /\ a = p.object /\ a \in Rows(p.revision)
       /\ Touches(p, a)
       /\ assignment'[a].state = "deleted"
       /\ assignment'[a].version = assignment[a].version

LEMMA SaveEffect ==
    ASSUME StoreInv, NEW p \in outbox, "saved" \in Outcomes(p), Save(p)
    PROVE  /\ ~ Locked(p.revision) /\ ~ Stale(p)
           /\ SavedRevision(p)
           /\ \A a \in Assignments : SavedAssignment(p, a)
<1>1. /\ p \in Payloads /\ p.revision \in Numbers /\ Exists(p.revision)
      /\ revision \in [Numbers -> {NoRevision} \cup RevisionRows]
      /\ assignment \in [Assignments -> {Unused} \cup AssignmentRows]
  BY DEF StoreInv, Payloads
<1>2. ~ RejectedOutright(p) /\ ~ Stale(p) /\ ~ RejectedLate(p)
  BY DEF Outcomes
<1>3. ~ Locked(p.revision) /\ revision[p.revision] \in RevisionRows
  BY <1>1, <1>2, StoredRows DEF RejectedOutright
<1>4. RowsStay
  BY SaveRows
<1>5. BumpRevision(p.revision) => SavedRevision(p)
  <2> SUFFICES ASSUME BumpRevision(p.revision) PROVE SavedRevision(p)
    OBVIOUS
  <2>1. /\ \A k \in Numbers : /\ revision'[k].status = revision[k].status
                              /\ revision'[k].prepared = revision[k].prepared
                              /\ k # p.revision => revision'[k] = revision[k]
        /\ revision'[p.revision].version = revision[p.revision].version + 1
    BY <1>1, BumpType
  <2>2. revision[p.revision].version \in Nat
    BY <1>3 DEF RevisionRows
  <2> QED
    BY <1>1, <2>1, <2>2 DEF SavedRevision
<1>6. \A a \in Assignments : a \in Rows(p.revision) =>
          /\ assignment[a] \in AssignmentRows /\ assignment[a] # Unused
          /\ assignment[a].revision = p.revision
  BY <1>1, StoredRows DEF Rows
<1>7. CASE SaveRevisionUpdate(p)
  <2> DEFINE row == [Bumped(revision[p.revision]) EXCEPT !.prepared = p.prepared]
  <2>1. p.prepared \in Preparers /\ p.op = "revision.update"
    BY <1>1, <1>7 DEF SaveRevisionUpdate, Payloads
  <2>2. row.status = revision[p.revision].status /\ row.version = revision[p.revision].version + 1
    <3> DEFINE bumped == Bumped(revision[p.revision])
    <3>1. /\ bumped \in RevisionRows /\ bumped.status = revision[p.revision].status
          /\ bumped.version = revision[p.revision].version + 1
      BY <1>3, BumpedRows
    <3> HIDE DEF bumped
    <3>2. /\ [bumped EXCEPT !.prepared = p.prepared].status = bumped.status
          /\ [bumped EXCEPT !.prepared = p.prepared].version = bumped.version
      BY <2>1, <3>1, EditedRows
    <3> QED
      BY <3>1, <3>2 DEF bumped
  <2>3. revision' = [revision EXCEPT ![p.revision] = row] /\ assignment' = assignment
    BY <1>7 DEF SaveRevisionUpdate
  <2>4. revision[p.revision].version \in Nat
    BY <1>3 DEF RevisionRows
  <2> HIDE DEF row
  <2> QED
    BY <1>1, <1>2, <1>3, <2>1, <2>2, <2>3, <2>4 DEF SavedRevision, SavedAssignment
<1>8. CASE SaveCreate(p)
  <2> DEFINE row == NewAssignment(p.revision, p.position, 1, p.body, "none")
  <2>1. PICK a \in Assignments : assignment[a] = Unused
                                 /\ assignment' = [assignment EXCEPT ![a] = row]
    BY <1>8 DEF SaveCreate
  <2>2. row.revision = p.revision
    BY DEF NewAssignment
  <2>3. p.op = "assignment.create" /\ BumpRevision(p.revision)
    BY <1>8 DEF SaveCreate
  <2>4. p.position \in Positions /\ p.body \in Bodies
    BY <1>1, <1>8 DEF SaveCreate, Payloads
  <2>5. row \in AssignmentRows
    BY <1>1, <2>4 DEF NewAssignment, AssignmentRows, Positions
  <2> HIDE DEF row
  <2>6. \A b \in Assignments : SavedAssignment(p, b)
    BY <1>1, <2>1, <2>2, <2>3, <2>5 DEF SavedAssignment, Touches
  <2> QED
    BY <1>2, <1>3, <1>5, <2>3, <2>6
<1>9. CASE SaveUpdate(p)
  <2> DEFINE position == IF p.position = Keep THEN assignment[p.object].position
                                              ELSE p.position
             row == Edited(assignment[p.object], p)
  <2>1. /\ p.op = "assignment.update" /\ p.object \in Rows(p.revision)
        /\ p.object \in Assignments /\ p.body \in Bodies
        /\ p.position \in {Keep} \cup Positions
    BY <1>1, <1>2, <1>9 DEF SaveUpdate, RejectedOutright, OnAssignment, Payloads
  <2>2. /\ assignment' = [assignment EXCEPT ![p.object] = row] /\ revision' = revision
    BY <1>9 DEF SaveUpdate
  <2>3. position \in Nat \ {0}
    BY <1>6, <2>1 DEF AssignmentRows, Positions, Keep
  <2>4. row = [Bumped(assignment[p.object]) EXCEPT !.body = p.body, !.position = position]
    BY DEF Edited
  <2> HIDE DEF position, row
  <2>5. /\ row \in AssignmentRows /\ row.revision = p.revision
        /\ row.state = assignment[p.object].state
        /\ row.version = assignment[p.object].version + 1
    <3> DEFINE bumped == Bumped(assignment[p.object])
    <3>1. /\ bumped \in AssignmentRows /\ bumped.state = assignment[p.object].state
          /\ bumped.revision = p.revision
          /\ bumped.version = assignment[p.object].version + 1
      BY <1>6, <2>1, BumpedRows
    <3> HIDE DEF bumped
    <3>2. LET new == [bumped EXCEPT !.body = p.body, !.position = position]
          IN  /\ new \in AssignmentRows /\ new.state = bumped.state
              /\ new.revision = bumped.revision /\ new.version = bumped.version
      BY <2>1, <2>3, <3>1 DEF AssignmentRows
    <3> QED
      BY <2>4, <3>1, <3>2 DEF bumped
  <2>6. \A b \in Assignments : SavedAssignment(p, b)
    BY <1>1, <2>1, <2>2, <2>5 DEF SavedAssignment, Touches
  <2>7. SavedRevision(p)
    BY <1>3, <2>1, <2>2 DEF SavedRevision, RevisionRows
  <2> QED
    BY <1>2, <1>3, <2>6, <2>7
<1>10. CASE SaveDelete(p)
  <2> DEFINE row == [assignment[p.object] EXCEPT !.state = "deleted"]
  <2>1. p.op = "assignment.delete" /\ p.object \in Rows(p.revision) /\ p.object \in Assignments
    BY <1>1, <1>2, <1>10 DEF SaveDelete, RejectedOutright, OnAssignment, Rows
  <2>2. assignment' = [assignment EXCEPT ![p.object] = row] /\ BumpRevision(p.revision)
    BY <1>10 DEF SaveDelete
  <2>3. /\ row \in AssignmentRows /\ row.revision = p.revision /\ row.state = "deleted"
        /\ row.version = assignment[p.object].version
    BY <1>6, <2>1 DEF AssignmentRows
  <2> HIDE DEF row
  <2>4. \A b \in Assignments : SavedAssignment(p, b)
    BY <1>1, <2>1, <2>2, <2>3 DEF SavedAssignment, Touches
  <2> QED
    BY <1>2, <1>3, <1>5, <2>2, <2>4
<1>11. CASE SaveReorder(p)
  <2>1. /\ p.op = "assignment.reorder" /\ BumpRevision(p.revision)
        /\ assignment' = [a \in Assignments |->
                              IF a \in Rows(p.revision)
                              THEN [assignment[a] EXCEPT !.position = p.order[a]]
                              ELSE assignment[a]]
    BY <1>11 DEF SaveReorder
  <2>2. \A b \in Assignments : SavedAssignment(p, b)
    <3> SUFFICES ASSUME NEW b \in Assignments PROVE SavedAssignment(p, b)
      OBVIOUS
    <3>1. CASE b \notin Rows(p.revision)
      BY <2>1, <3>1 DEF SavedAssignment
    <3>2. CASE b \in Rows(p.revision)
      <4>1. assignment'[b] = [assignment[b] EXCEPT !.position = p.order[b]]
        BY <2>1, <3>2
      <4>2. /\ assignment'[b].revision = p.revision
            /\ assignment'[b].state = assignment[b].state
            /\ assignment'[b].body = assignment[b].body
            /\ assignment'[b].version = assignment[b].version
        BY <1>6, <3>2, <4>1 DEF AssignmentRows
      <4>3. assignment'[b] \in AssignmentRows
        BY <1>4, <1>6, <3>2 DEF RowsStay
      <4> QED
        BY <2>1, <3>2, <4>2, <4>3 DEF SavedAssignment, Touches
    <3> QED
      BY <3>1, <3>2
  <2> QED
    BY <1>2, <1>3, <1>5, <2>1, <2>2
<1> QED
  BY <1>7, <1>8, <1>9, <1>10, <1>11 DEF Save

-----------------------------------------------------------------------------
(* Approved content.                                                       *)
LEMMA SameContent ==
    ASSUME NEW n \in Numbers,
           \A a \in Assignments :
               \/ assignment'[a] = assignment[a]
               \/ (a \notin Rows(n) /\ a \notin Rows(n)')
               \/ /\ assignment'[a].state = assignment[a].state
                  /\ assignment'[a].revision = assignment[a].revision
                  /\ assignment'[a].position = assignment[a].position
                  /\ assignment'[a].body = assignment[a].body
    PROVE  Rows(n)' = Rows(n) /\ Content(n)' = Content(n)
<1>1. Rows(n)' = Rows(n)
  BY DEF Rows, Live
<1>2. \A a \in Rows(n) : /\ assignment'[a].position = assignment[a].position
                         /\ assignment'[a].body = assignment[a].body
  BY DEF Rows
<1> QED
  BY <1>1, <1>2 DEF Content

(* The commits of a worker, and what they leave alone: the content of      *)
(* every revision but the draft that a mutation names and the revision     *)
(* that a copy creates.                                                    *)
LEMMA CommitContent ==
    ASSUME StoreInv, NEW p \in outbox, "saved" \in Outcomes(p), Save(p)
    PROVE  \A n \in Numbers \ {p.revision} : /\ revision'[n] = revision[n]
                                             /\ Content(n)' = Content(n)
<1> SUFFICES ASSUME NEW n \in Numbers, n # p.revision
             PROVE  revision'[n] = revision[n] /\ Content(n)' = Content(n)
  OBVIOUS
<1>1. \A a \in Assignments : assignment'[a] = assignment[a]
          \/ (a \notin Rows(n) /\ a \notin Rows(n)')
  BY SaveEffect, StoredRows DEF SavedAssignment, Touches, Rows, Live, Unused
<1>2. revision'[n] = revision[n]
  BY SaveEffect DEF SavedRevision
<1> QED
  BY <1>1, <1>2, SameContent

LEMMA ApproveContent ==
    ASSUME StoreInv, NEW w \in Workers, Own(w),
           ApproveCommit(w) \/ LinkCommit(w) \/ UnlinkCommit(w)
    PROVE  \A n \in Numbers : Content(n)' = Content(n)
<1> SUFFICES ASSUME NEW n \in Numbers PROVE Content(n)' = Content(n)
  OBVIOUS
<1>1. \A a \in Assignments : assignment'[a] = assignment[a]
          \/ /\ assignment[a] # Unused
             /\ \E link \in {"live", "frozen", "removed"} :
                    assignment'[a] = [assignment[a] EXCEPT !.link = link]
  <2>1. CASE ApproveCommit(w)
    BY <2>1, ApproveCommitRows
  <2>2. CASE LinkCommit(w) \/ UnlinkCommit(w)
    BY <2>2, LinkRows, StoredRows
  <2> QED
    BY <2>1, <2>2
<1>2. \A a \in Assignments : assignment'[a] = assignment[a]
          \/ /\ assignment'[a].state = assignment[a].state
             /\ assignment'[a].revision = assignment[a].revision
             /\ assignment'[a].position = assignment[a].position
             /\ assignment'[a].body = assignment[a].body
  <2> SUFFICES ASSUME NEW a \in Assignments, assignment[a] # Unused,
                      NEW link \in {"live", "frozen", "removed"},
                      assignment'[a] = [assignment[a] EXCEPT !.link = link]
               PROVE  /\ assignment'[a].state = assignment[a].state
                      /\ assignment'[a].revision = assignment[a].revision
                      /\ assignment'[a].position = assignment[a].position
                      /\ assignment'[a].body = assignment[a].body
    BY <1>1
  <2>1. assignment[a] \in AssignmentRows
    BY StoredRows
  <2> QED
    BY <2>1 DEF AssignmentRows
<1> QED
  BY <1>2, SameContent

LEMMA CopyContent ==
    ASSUME StoreInv, NEW w \in Workers, Own(w), CopyInsert(w)
    PROVE  \A n \in Numbers : Exists(n) => /\ revision'[n] = revision[n]
                                           /\ Content(n)' = Content(n)
<1> SUFFICES ASSUME NEW n \in Numbers, Exists(n)
             PROVE  revision'[n] = revision[n] /\ Content(n)' = Content(n)
  OBVIOUS
<1>1. n # request[w].number /\ revision'[n] = revision[n]
  BY CopyRows
<1>2. \A a \in Assignments : assignment'[a] = assignment[a]
          \/ (a \notin Rows(n) /\ a \notin Rows(n)')
  BY <1>1, CopyRows DEF Rows, Live, Unused
<1> QED
  BY <1>1, <1>2, SameContent

ContentInv == ApprovedContentImmutable /\ DOMAIN sealed = Numbers

LEMMA ContentInit == Init => ContentInv
  BY DEF Init, ApprovedContentImmutable, ContentInv

LEMMA ContentNext == TypeInv /\ ContentInv /\ [Next]_vars => ContentInv'
<1> SUFFICES ASSUME TypeInv, ContentInv, [Next]_vars PROVE ContentInv'
  OBVIOUS
<1> USE DEF ContentInv
<1>1. CASE UNCHANGED <<store, sealed>>
  BY <1>1 DEF ApprovedContentImmutable, Locked, Content, Rows, Live, store
<1>2. ASSUME NEW w \in Workers, MutateCommit(w)
      PROVE  ContentInv'
  <2>1. PICK p \in outbox, d \in Dispositions :
            /\ d \in Outcomes(p) /\ sealed' = sealed
            /\ (d = "saved" /\ Save(p)) \/ UNCHANGED store
    BY <1>2, TypeStored, CommitEffect
  <2>2. CASE UNCHANGED store
    BY <1>1, <2>1, <2>2
  <2>3. CASE d = "saved" /\ Save(p)
    <3>1. ~ Locked(p.revision)
      BY <2>1, <2>3, TypeStored, SaveEffect
    <3>2. \A n \in Numbers \ {p.revision} : revision'[n] = revision[n] /\ Content(n)' = Content(n)
      BY <2>1, <2>3, TypeStored, CommitContent
    <3> QED
      BY <2>1, <3>1, <3>2 DEF ApprovedContentImmutable, Locked
  <2> QED
    BY <2>1, <2>2, <2>3
<1>3. ASSUME NEW w \in Workers, ApproveCommit(w)
      PROVE  ContentInv'
  <2> DEFINE n == request[w].revision
             s == [by |-> w, content |-> Content(n), confirmed |-> request[w].digest]
  <2>1. sealed' = [sealed EXCEPT ![n] = sealed[n] \cup {s}] /\ n \in Numbers
    BY <1>3, TypeStored, ApproveCommitRows DEF ApproveCommit
  <2>2. \A k \in Numbers : Content(k)' = Content(k)
    BY <1>3, TypeStored, ApproveContent
  <2>3. \A k \in Numbers : revision'[k].status = IF k = n THEN "approved" ELSE revision[k].status
    BY <1>3, TypeStored, ApproveCommitRows
  <2>4. s.content = Content(n)
    OBVIOUS
  <2> HIDE DEF n, s
  <2> QED
    BY <2>1, <2>2, <2>3, <2>4 DEF ApprovedContentImmutable, Locked
<1>4. ASSUME NEW w \in Workers, CopyInsert(w)
      PROVE  ContentInv'
  <2>1. sealed' = sealed
    BY <1>4 DEF CopyInsert
  <2>2. \A n \in Numbers : Locked(n) => Exists(n)
    BY DEF Locked, Exists
  <2>3. \A n \in Numbers : Exists(n) => revision'[n] = revision[n] /\ Content(n)' = Content(n)
    BY <1>4, TypeStored, CopyContent
  <2> QED
    BY <2>1, <2>2, <2>3 DEF ApprovedContentImmutable, Locked
<1>5. ASSUME NEW w \in Workers, LinkCommit(w) \/ UnlinkCommit(w)
      PROVE  ContentInv'
  <2>1. sealed' = sealed /\ revision' = revision
    BY <1>5 DEF LinkCommit, UnlinkCommit
  <2>2. \A k \in Numbers : Content(k)' = Content(k)
    BY <1>5, TypeStored, ApproveContent
  <2> QED
    BY <2>1, <2>2 DEF ApprovedContentImmutable, Locked
<1>6. CASE Next
  <2>1. CASE \E m \in Mutations, n \in Numbers : ClientSend(m, n)
    BY <2>1, <1>1, TypeStored, SendEffect
  <2>2. CASE \E w \in Workers : ReadStep(w)
    BY <2>2, <1>1, ReadStepType
  <2>3. CASE \E w \in Workers : MutateReplay(w)
    BY <2>3, <1>1, ReplayEffect
  <2> QED
    BY <1>2, <1>3, <1>4, <1>5, <1>6, <2>1, <2>2, <2>3, StepKinds
<1> QED
  BY <1>1, <1>6 DEF vars, store

(* Whatever was under way when a revision was approved, what the approval  *)
(* sealed stays approved and keeps its rows, bodies and positions.         *)
THEOREM ApprovedContentStays == Spec => []ApprovedContentImmutable
<1>1. ContentInv => ApprovedContentImmutable
  BY DEF ContentInv
<1> QED
  BY <1>1, ContentInit, ContentNext, TypeInvariant, PTL DEF Spec

-----------------------------------------------------------------------------
(* Version tokens.  A token never runs ahead of the row it was read from:  *)
(* together with the version bump of every change that makes a token whose *)
(* value has changed a stale one for good.                                 *)
TokenBehind(p) ==
    IF OnAssignment(p) THEN p.base <= assignment[p.object].version
                       ELSE p.base <= revision[p.revision].version

TokenInv == \A p \in outbox : TokenSound(p) /\ TokenBehind(p)

(* TokenSound without its CASE.                                            *)
LEMMA TokenCases ==
    ASSUME NEW p \in Payloads
    PROVE  /\ OnAssignment(p) =>
                  (TokenSound(p) <=>
                      (Live(p.object) /\ assignment[p.object].version = p.base
                           => assignment[p.object].body = p.seen))
           /\ p.op = "revision.update" =>
                  (TokenSound(p) <=>
                      (revision[p.revision].version = p.base
                           => revision[p.revision].prepared = p.seen))
           /\ p.op = "assignment.create" =>
                  (TokenSound(p) <=>
                      (revision[p.revision].version = p.base => Rows(p.revision) = p.seen))
           /\ p.op = "assignment.reorder" =>
                  (TokenSound(p) <=>
                      (revision[p.revision].version = p.base
                           => Rows(p.revision) = Listed(p.seen)))
           /\ \/ OnAssignment(p)
              \/ p.op \in {"revision.update", "assignment.create", "assignment.reorder"}
  BY DEF TokenSound, OnAssignment, Payloads

LEMMA TokenCasesPrimed ==
    ASSUME NEW p \in Payloads
    PROVE  /\ OnAssignment(p) =>
                  (TokenSound(p)' <=>
                      (Live(p.object)' /\ assignment'[p.object].version = p.base
                           => assignment'[p.object].body = p.seen))
           /\ p.op = "revision.update" =>
                  (TokenSound(p)' <=>
                      (revision'[p.revision].version = p.base
                           => revision'[p.revision].prepared = p.seen))
           /\ p.op = "assignment.create" =>
                  (TokenSound(p)' <=>
                      (revision'[p.revision].version = p.base => Rows(p.revision)' = p.seen))
           /\ p.op = "assignment.reorder" =>
                  (TokenSound(p)' <=>
                      (revision'[p.revision].version = p.base
                           => Rows(p.revision)' = Listed(p.seen)))
  BY DEF TokenSound, OnAssignment, Payloads, Listed

(* A step keeps the tokens of its clients if it only ever raises versions, *)
(* and raises them with every change of a value that a token stands for.   *)
RevisionMoves(n) ==
    /\ revision'[n].version \in Nat
    /\ \/ revision'[n].version > revision[n].version
       \/ /\ revision'[n].version = revision[n].version
          /\ revision'[n].prepared = revision[n].prepared
          /\ Rows(n)' = Rows(n)

AssignmentMoves(a) ==
    /\ assignment'[a].version \in Nat
    /\ \/ assignment'[a].version > assignment[a].version
       \/ /\ assignment'[a].version = assignment[a].version
          /\ Live(a)' => Live(a) /\ assignment'[a].body = assignment[a].body

LEMMA TokensKept ==
    ASSUME TypeInv, TokenInv, NEW p \in outbox,
           RevisionMoves(p.revision), OnAssignment(p) => AssignmentMoves(p.object)
    PROVE  TokenSound(p)' /\ TokenBehind(p)'
<1>1. /\ TypeOK /\ p \in Payloads /\ p.revision \in Numbers /\ p.base \in Nat
      /\ Exists(p.revision)
      /\ OnAssignment(p) => p.object \in Assignments /\ assignment[p.object] # Unused
  BY DEF TypeInv, TypeOK, GroundedInv, Payloads, OnAssignment
<1>2. /\ revision[p.revision].version \in Nat
      /\ OnAssignment(p) => assignment[p.object].version \in Nat
  BY <1>1, RowTypes DEF RevisionRows, AssignmentRows
<1>3. TokenSound(p) /\ TokenBehind(p)
  BY DEF TokenInv
<1>4. TokenBehind(p)'
  <2>1. OnAssignment(p)' <=> OnAssignment(p)
    BY DEF OnAssignment
  <2>2. CASE OnAssignment(p)
    BY <1>1, <1>2, <1>3, <2>1, <2>2 DEF TokenBehind, AssignmentMoves
  <2>3. CASE ~ OnAssignment(p)
    BY <1>1, <1>2, <1>3, <2>1, <2>3 DEF TokenBehind, RevisionMoves
  <2> QED
    BY <2>2, <2>3
<1>5. CASE OnAssignment(p)
  <2>1. Live(p.object)' /\ assignment'[p.object].version = p.base
            => assignment'[p.object].body = p.seen
    BY <1>1, <1>2, <1>3, <1>5, TokenCases DEF TokenBehind, AssignmentMoves
  <2> QED
    BY <1>1, <1>4, <1>5, <2>1, TokenCasesPrimed
<1>6. CASE ~ OnAssignment(p)
  <2>1. revision'[p.revision].version = p.base =>
            /\ revision[p.revision].version = p.base
            /\ revision'[p.revision].prepared = revision[p.revision].prepared
            /\ Rows(p.revision)' = Rows(p.revision)
    BY <1>1, <1>2, <1>3, <1>6 DEF TokenBehind, RevisionMoves
  <2> QED
    BY <1>1, <1>3, <1>4, <1>6, <2>1, TokenCases, TokenCasesPrimed
<1> QED
  BY <1>5, <1>6

LEMMA SaveMoves ==
    ASSUME TypeInv, NEW q \in outbox, "saved" \in Outcomes(q), Save(q)
    PROVE  /\ \A n \in Numbers : Exists(n) => RevisionMoves(n)
           /\ \A a \in Assignments : assignment[a] # Unused => AssignmentMoves(a)
<1>1. /\ SavedRevision(q) /\ \A a \in Assignments : SavedAssignment(q, a)
      /\ TypeOK /\ q.revision \in Numbers /\ Exists(q.revision)
  BY TypeStored, SaveEffect DEF TypeInv, TypeOK, Payloads, GroundedInv
<1>2. ASSUME NEW n \in Numbers, Exists(n) PROVE RevisionMoves(n)
  <2>1. revision[n].version \in Nat
    BY <1>1, <1>2, RowTypes DEF RevisionRows
  <2>2. CASE n = q.revision /\ q.op # "assignment.update"
    BY <1>1, <2>2 DEF SavedRevision, RevisionMoves
  <2>3. CASE n # q.revision \/ q.op = "assignment.update"
    <3>1. \A a \in Assignments : a \in Rows(n)' <=> a \in Rows(n)
      BY <1>1, <2>3 DEF SavedAssignment, Touches, Rows, Live, Unused
    <3>2. Rows(n)' = Rows(n)
      BY <3>1 DEF Rows
    <3>3. /\ revision'[n].version \in Nat /\ revision'[n].version >= revision[n].version
          /\ revision'[n].prepared = revision[n].prepared
      BY <1>1, <2>1, <2>3 DEF SavedRevision
    <3> QED
      BY <2>1, <3>2, <3>3 DEF RevisionMoves
  <2> QED
    BY <2>2, <2>3
<1>3. ASSUME NEW a \in Assignments, assignment[a] # Unused PROVE AssignmentMoves(a)
  <2>1. assignment[a].version \in Nat
    BY <1>1, <1>3, RowTypes DEF AssignmentRows
  <2> QED
    BY <1>1, <1>3, <2>1 DEF SavedAssignment, AssignmentMoves, Live
<1> QED
  BY <1>2, <1>3

LEMMA WriteMoves ==
    ASSUME TypeInv, NEW w \in Workers,
           ApproveCommit(w) \/ CopyInsert(w) \/ LinkCommit(w) \/ UnlinkCommit(w)
    PROVE  /\ \A n \in Numbers : Exists(n) => RevisionMoves(n)
           /\ \A a \in Assignments : assignment[a] # Unused => AssignmentMoves(a)
<1>1. \A n \in Numbers : Exists(n) => /\ revision'[n].version = revision[n].version
                                      /\ revision'[n].prepared = revision[n].prepared
  BY TypeStored, ApproveCommitRows, LinkRows, CopyRows
<1>2. ASSUME NEW a \in Assignments, assignment[a] # Unused
      PROVE  /\ assignment'[a].state = assignment[a].state
             /\ assignment'[a].revision = assignment[a].revision
             /\ assignment'[a].body = assignment[a].body
             /\ assignment'[a].version = assignment[a].version
  <2>1. assignment[a] \in AssignmentRows
    BY <1>2, RowTypes DEF TypeInv
  <2>2. \/ assignment'[a] = assignment[a]
        \/ \E link \in {"live", "frozen", "removed"} :
               assignment'[a] = [assignment[a] EXCEPT !.link = link]
    BY <1>2, TypeStored, ApproveCommitRows, LinkRows, CopyRows
  <2> QED
    BY <2>1, <2>2 DEF AssignmentRows
<1>3. ASSUME NEW n \in Numbers, Exists(n) PROVE RevisionMoves(n)
  <2>1. revision[n].version \in Nat
    BY <1>3, RowTypes DEF RevisionRows, TypeInv
  <2>2. \A a \in Assignments : assignment[a] = Unused => a \notin Rows(n) /\ a \notin Rows(n)'
    BY <1>3, TypeStored, ApproveCommitRows, LinkRows, CopyRows DEF Rows, Live, Unused
  <2>3. Rows(n)' = Rows(n)
    BY <1>2, <2>2 DEF Rows, Live
  <2> QED
    BY <1>1, <1>3, <2>1, <2>3 DEF RevisionMoves
<1>4. ASSUME NEW a \in Assignments, assignment[a] # Unused PROVE AssignmentMoves(a)
  <2>1. assignment[a].version \in Nat
    BY <1>4, RowTypes DEF AssignmentRows, TypeInv
  <2> QED
    BY <1>2, <1>4, <2>1 DEF AssignmentMoves, Live
<1> QED
  BY <1>3, <1>4

LEMMA TokenNext == TypeInv /\ TokenInv /\ [Next]_vars => TokenInv'
<1> SUFFICES ASSUME TypeInv, TokenInv, [Next]_vars PROVE TokenInv'
  OBVIOUS
<1>1. \A p \in outbox : /\ p \in Payloads /\ p.revision \in Numbers /\ Exists(p.revision)
                        /\ OnAssignment(p) => /\ p.object \in Assignments
                                              /\ assignment[p.object] # Unused
  BY DEF TypeInv, TypeOK, GroundedInv, Payloads, OnAssignment
<1>2. ASSUME outbox' = outbox,
             \A n \in Numbers : Exists(n) => RevisionMoves(n),
             \A a \in Assignments : assignment[a] # Unused => AssignmentMoves(a)
      PROVE  TokenInv'
  BY <1>1, <1>2, TokensKept DEF TokenInv
<1>3. ASSUME UNCHANGED store
      PROVE  \A p \in outbox : TokenSound(p)' /\ TokenBehind(p)'
  <2>1. revision' = revision /\ assignment' = assignment
    BY <1>3 DEF store
  <2>2. \A n \in Numbers : Rows(n)' = Rows(n)
    BY <2>1 DEF Rows, Live
  <2>3. \A n \in Numbers : Exists(n) => RevisionMoves(n)
    BY <2>1, <2>2, RowTypes DEF TypeInv, RevisionRows, RevisionMoves
  <2>4. \A a \in Assignments : assignment[a] # Unused => AssignmentMoves(a)
    BY <2>1, RowTypes DEF TypeInv, AssignmentRows, AssignmentMoves, Live
  <2> QED
    BY <1>1, <2>3, <2>4, TokensKept
<1>4. CASE UNCHANGED <<store, outbox>>
  BY <1>3, <1>4 DEF TokenInv
<1>5. ASSUME NEW m \in Mutations, NEW n \in Numbers, ClientSend(m, n)
      PROVE  TokenInv'
  <2>1. PICK p \in Payloads :
            /\ outbox' = outbox \cup {p}
            /\ p.revision = n /\ Exists(n)
            /\ OnAssignment(p) =>
                   /\ p.object \in Rows(n)
                   /\ p.base = assignment[p.object].version
                   /\ p.seen = assignment[p.object].body
            /\ ~ OnAssignment(p) => p.base = revision[n].version
            /\ p.op = "revision.update" => p.seen = revision[n].prepared
            /\ p.op = "assignment.create" => p.seen = Rows(n)
            /\ p.op = "assignment.reorder" => Listed(p.seen) = Rows(n)
            /\ UNCHANGED <<store, change, answers, applied, sealed, request>>
    BY <1>5, TypeStored, SendEffect
  <2>2. revision' = revision /\ assignment' = assignment /\ Rows(n)' = Rows(n)
    BY <2>1 DEF store, Rows, Live
  <2>3. TokenSound(p)'
    BY <2>1, <2>2, TokenCases, TokenCasesPrimed
  <2>4. p.base \in Nat
    BY DEF Payloads
  <2>5. TokenBehind(p)'
    BY <2>1, <2>2, <2>4 DEF TokenBehind, OnAssignment
  <2> QED
    BY <1>3, <2>1, <2>3, <2>5 DEF TokenInv
<1>6. ASSUME NEW w \in Workers, MutateCommit(w)
      PROVE  TokenInv'
  <2>1. PICK p \in outbox, d \in Dispositions :
            /\ d \in Outcomes(p) /\ outbox' = outbox
            /\ (d = "saved" /\ Save(p)) \/ UNCHANGED store
    BY <1>6, TypeStored, CommitEffect
  <2>2. CASE UNCHANGED store
    BY <1>4, <2>1, <2>2
  <2>3. CASE d = "saved" /\ Save(p)
    BY <1>2, <2>1, <2>3, SaveMoves
  <2> QED
    BY <2>1, <2>2, <2>3
<1>7. ASSUME NEW w \in Workers,
             ApproveCommit(w) \/ CopyInsert(w) \/ LinkCommit(w) \/ UnlinkCommit(w)
      PROVE  TokenInv'
  <2>1. outbox' = outbox
    BY <1>7 DEF ApproveCommit, CopyInsert, LinkCommit, UnlinkCommit
  <2> QED
    BY <1>2, <1>7, <2>1, WriteMoves
<1>8. CASE Next
  <2>1. CASE \E w \in Workers : ReadStep(w)
    BY <2>1, <1>4, ReadStepType
  <2>2. CASE \E w \in Workers : MutateReplay(w)
    BY <2>2, <1>4, ReplayEffect
  <2> QED
    BY <1>5, <1>6, <1>7, <1>8, <2>1, <2>2, StepKinds
<1> QED
  BY <1>4, <1>8 DEF vars, store

LEMMA TokenInvariant == Spec => []TokenInv
<1>1. Init => TokenInv
  BY DEF Init, TokenInv
<1> QED
  BY <1>1, TokenNext, TypeInvariant, PTL DEF Spec

(* A collaboration version identifies a value: while the version that a    *)
(* client read is current, so is what the client read with it.             *)
THEOREM VersionsIdentifyValues == Spec => []VersionTokensSound
<1>1. TokenInv => VersionTokensSound
  BY DEF TokenInv, VersionTokensSound
<1> QED
  BY <1>1, TokenInvariant, PTL

-----------------------------------------------------------------------------
(* No step of the workflow replaces a value that its author did not see.   *)
Overwrites ==
    /\ \A a \in Assignments :
           Live(a) /\ (~ Live(a)' \/ assignment'[a].body # assignment[a].body)
           => \E p \in outbox : /\ JustSaved(p) /\ OnAssignment(p)
                                /\ p.object = a
                                /\ p.seen = assignment[a].body
    /\ \A n \in Numbers :
           Exists(n) /\ revision'[n].prepared # revision[n].prepared
           => \E p \in outbox : /\ JustSaved(p) /\ p.op = "revision.update"
                                /\ p.revision = n
                                /\ p.seen = revision[n].prepared

LEMMA OverwriteStep == TypeInv /\ TokenInv /\ [Next]_vars => [Overwrites]_vars
<1> SUFFICES ASSUME TypeInv, TokenInv, Next PROVE Overwrites
  OBVIOUS
<1>1. CASE UNCHANGED store
  BY <1>1 DEF Overwrites, store, Live
<1>2. ASSUME NEW w \in Workers, MutateCommit(w) PROVE Overwrites
  <2>1. PICK p \in outbox, d \in Dispositions :
            /\ d \in Outcomes(p)
            /\ p.id \in Mutations /\ change[p.id] = NoChange
            /\ (d = "saved" /\ Save(p)) \/ UNCHANGED store
            /\ change' = [change EXCEPT ![p.id] = [disposition |-> d, payload |-> p]]
    BY <1>2, TypeStored, CommitEffect
  <2>2. CASE d = "saved" /\ Save(p)
    <3>1. /\ ~ Stale(p) /\ SavedRevision(p) /\ \A a \in Assignments : SavedAssignment(p, a)
          /\ p \in Payloads /\ p.revision \in Numbers
      BY <2>1, <2>2, TypeStored, SaveEffect DEF TypeInv, TypeOK, Payloads
    <3>2. JustSaved(p)
      BY <2>1, <2>2 DEF JustSaved, TypeInv, TypeOK
    <3>3. TokenSound(p) /\ CurrentVersion(p) = p.base
      BY <3>1 DEF TokenInv, Stale
    <3>4. ASSUME NEW a \in Assignments, Live(a),
                 ~ Live(a)' \/ assignment'[a].body # assignment[a].body
          PROVE  OnAssignment(p) /\ p.object = a /\ p.seen = assignment[a].body
      <4>1. OnAssignment(p) /\ p.object = a
        BY <3>1, <3>4 DEF SavedAssignment, OnAssignment, Live, Unused
      <4>2. assignment[a].version = p.base
        BY <3>3, <4>1 DEF CurrentVersion
      <4> QED
        BY <3>1, <3>3, <3>4, <4>1, <4>2, TokenCases
    <3>5. ASSUME NEW n \in Numbers, Exists(n), revision'[n].prepared # revision[n].prepared
          PROVE  p.op = "revision.update" /\ p.revision = n /\ p.seen = revision[n].prepared
      <4>1. p.op = "revision.update" /\ p.revision = n
        BY <3>1, <3>5 DEF SavedRevision
      <4>2. revision[n].version = p.base
        BY <3>3, <4>1 DEF CurrentVersion, OnAssignment
      <4> QED
        BY <3>1, <3>3, <4>1, <4>2, TokenCases
    <3> QED
      BY <3>2, <3>4, <3>5 DEF Overwrites
  <2> QED
    BY <1>1, <2>1, <2>2
<1>3. ASSUME NEW w \in Workers,
             ApproveCommit(w) \/ CopyInsert(w) \/ LinkCommit(w) \/ UnlinkCommit(w)
      PROVE  Overwrites
  <2>1. \A n \in Numbers : Exists(n) => revision'[n].prepared = revision[n].prepared
    BY <1>3, TypeStored, ApproveCommitRows, LinkRows, CopyRows
  <2>2. ASSUME NEW a \in Assignments, Live(a)
        PROVE  Live(a)' /\ assignment'[a].body = assignment[a].body
    <3>1. assignment[a] \in AssignmentRows /\ assignment[a] # Unused
      BY <2>2, RowTypes DEF TypeInv
    <3>2. \/ assignment'[a] = assignment[a]
          \/ \E link \in {"live", "frozen", "removed"} :
                 assignment'[a] = [assignment[a] EXCEPT !.link = link]
      BY <1>3, <3>1, TypeStored, ApproveCommitRows, LinkRows, CopyRows
    <3> QED
      BY <2>2, <3>1, <3>2 DEF AssignmentRows, Live
  <2> QED
    BY <2>1, <2>2 DEF Overwrites
<1>4. CASE \E m \in Mutations, n \in Numbers : ClientSend(m, n)
  BY <1>1, <1>4, TypeStored, SendEffect
<1>5. CASE \E w \in Workers : ReadStep(w)
  BY <1>1, <1>5, ReadStepType
<1>6. CASE \E w \in Workers : MutateReplay(w)
  BY <1>1, <1>6, ReplayEffect
<1> QED
  BY <1>2, <1>3, <1>4, <1>5, <1>6, StepKinds

(* Nothing is silently overwritten: a body, a row or the prepared-by       *)
(* fields change only by a saved mutation whose author saw the value that  *)
(* it replaces.                                                            *)
THEOREM NothingSilentlyOverwritten == Spec => NoSilentOverwrite
<1>1. TypeInv /\ TokenInv /\ [Next]_vars => [Overwrites]_vars
  BY OverwriteStep
<1> QED
  BY <1>1, TypeInvariant, TokenInvariant, PTL DEF Spec, NoSilentOverwrite, Overwrites
-----------------------------------------------------------------------------
(* The workflow implements the life of a revision: every step edits one    *)
(* draft, opens or approves one revision, or shows nothing new.            *)
Shown(n) == [prepared |-> revision[n].prepared, rows |-> Content(n)]
SameLife(n) == revision'[n].status = revision[n].status /\ Shown(n)' = Shown(n)

LEMMA LifecycleInit == Init => Lifecycle!Init
<1> SUFFICES ASSUME Init PROVE Lifecycle!Init
  OBVIOUS
<1>1. \A n \in Numbers : revision[n].status \in {"none", "draft"}
  BY DEF Init, NewRevision, NoRevision
<1> QED
  BY <1>1 DEF Lifecycle!Init

LEMMA LifecycleStutters ==
    ASSUME \A n \in Numbers : SameLife(n)
    PROVE  UNCHANGED Lifecycle!vars
  BY DEF Lifecycle!vars, SameLife, Shown

LEMMA LifecycleEdits ==
    ASSUME NEW n \in Numbers, Draft(n),
           revision'[n].status = revision[n].status,
           \A k \in Numbers \ {n} : SameLife(k)
    PROVE  Lifecycle!Next
<1>1. Lifecycle!OnlyContentOf(n)
  BY DEF Lifecycle!OnlyContentOf, SameLife, Shown
<1>2. Lifecycle!Edit(n)
  BY <1>1 DEF Lifecycle!Edit, Draft, SameLife
<1> QED
  BY <1>2 DEF Lifecycle!Next

LEMMA LifecycleOpens ==
    ASSUME NEW n \in Numbers, revision[n].status = "none",
           revision'[n].status = "draft",
           \A k \in Numbers \ {n} : SameLife(k)
    PROVE  Lifecycle!Next
<1>1. Lifecycle!OnlyContentOf(n)
  BY DEF Lifecycle!OnlyContentOf, SameLife, Shown
<1>2. Lifecycle!Open(n)
  BY <1>1 DEF Lifecycle!Open, SameLife
<1> QED
  BY <1>2 DEF Lifecycle!Next

LEMMA LifecycleApproves ==
    ASSUME NEW n \in Numbers, Draft(n),
           revision'[n].status = "approved",
           \A k \in Numbers : Shown(k)' = Shown(k),
           \A k \in Numbers \ {n} : SameLife(k)
    PROVE  Lifecycle!Next
<1>1. Lifecycle!Approve(n)
  BY DEF Lifecycle!Approve, Draft, SameLife, Shown
<1> QED
  BY <1>1 DEF Lifecycle!Next

(* A copy changes neither the row nor the content of any other revision.   *)
LEMMA CopyElsewhere ==
    ASSUME TypeInv, NEW w \in Workers, CopyInsert(w),
           NEW n \in Numbers, n # request[w].number
    PROVE  SameLife(n)
<1>1. revision'[n] = revision[n]
  BY TypeStored, CopyRows
<1>2. \A a \in Assignments : assignment'[a] = assignment[a]
          \/ (a \notin Rows(n) /\ a \notin Rows(n)')
  BY TypeStored, CopyRows DEF Rows, Live, Unused
<1>3. Content(n)' = Content(n)
  BY <1>2, SameContent
<1> QED
  BY <1>1, <1>3 DEF SameLife, Shown

LEMMA LifecycleStep == TypeInv /\ [Next]_vars => [Lifecycle!Next]_(Lifecycle!vars)
<1> SUFFICES ASSUME TypeInv, [Next]_vars
             PROVE  Lifecycle!Next \/ UNCHANGED Lifecycle!vars
  OBVIOUS
<1>1. CASE UNCHANGED store
  <2>1. \A n \in Numbers : SameLife(n)
    BY <1>1 DEF SameLife, Shown, Content, Rows, Live, store
  <2> QED
    BY <2>1, LifecycleStutters
<1>2. ASSUME NEW w \in Workers, MutateCommit(w)
      PROVE  Lifecycle!Next \/ UNCHANGED Lifecycle!vars
  <2>1. PICK p \in outbox, d \in Dispositions :
            /\ d \in Outcomes(p)
            /\ (d = "saved" /\ Save(p)) \/ UNCHANGED store
    BY <1>2, TypeStored, CommitEffect
  <2>2. CASE d = "saved" /\ Save(p)
    <3>1. /\ p.revision \in Numbers /\ Draft(p.revision)
          /\ revision'[p.revision].status = revision[p.revision].status
      <4>1. p.revision \in Numbers /\ Exists(p.revision) /\ TypeOK
        BY DEF TypeInv, TypeOK, GroundedInv, Payloads
      <4>2. ~ Locked(p.revision) /\ SavedRevision(p)
        BY <2>1, <2>2, TypeStored, SaveEffect
      <4>3. revision[p.revision] \in RevisionRows
        BY <4>1, RowTypes
      <4> QED
        BY <4>1, <4>2, <4>3 DEF SavedRevision, Draft, Locked, RevisionRows
    <3>2. \A k \in Numbers \ {p.revision} : SameLife(k)
      BY <2>1, <2>2, TypeStored, CommitContent DEF SameLife, Shown
    <3> QED
      BY <3>1, <3>2, LifecycleEdits
  <2> QED
    BY <1>1, <2>1, <2>2
<1>3. ASSUME NEW w \in Workers, ApproveCommit(w)
      PROVE  Lifecycle!Next \/ UNCHANGED Lifecycle!vars
  <2> DEFINE n == request[w].revision
  <2>1. /\ n \in Numbers
        /\ \A k \in Numbers : revision'[k].prepared = revision[k].prepared
        /\ \A k \in Numbers : revision'[k].status =
               IF k = n THEN "approved" ELSE revision[k].status
    BY <1>3, TypeStored, ApproveCommitRows
  <2>2. \A k \in Numbers : Shown(k)' = Shown(k)
    BY <1>3, <2>1, TypeStored, ApproveContent DEF Shown
  <2>3. \A k \in Numbers \ {n} : SameLife(k)
    BY <2>1, <2>2 DEF SameLife
  <2>4. Draft(n) \/ Locked(n)
    <3>1. /\ TypeOK /\ request[w] \in Requests /\ Grounded(request[w])
          /\ request[w].step = "frozen"
      BY <1>3 DEF TypeInv, TypeOK, GroundedInv, ApproveCommit, At
    <3>2. Exists(n)
      BY <3>1 DEF Grounded, Requests, Idle
    <3> QED
      BY <2>1, <3>1, <3>2, RowTypes DEF Draft, Locked, RevisionRows
  <2> HIDE DEF n
  <2>5. CASE Draft(n)
    BY <2>1, <2>2, <2>3, <2>5, LifecycleApproves
  <2>6. CASE Locked(n)
    BY <2>1, <2>2, <2>3, <2>6, LifecycleStutters DEF Locked, SameLife
  <2> QED
    BY <2>4, <2>5, <2>6
<1>4. ASSUME NEW w \in Workers, CopyInsert(w)
      PROVE  Lifecycle!Next \/ UNCHANGED Lifecycle!vars
  <2>1. /\ request[w].number \in Numbers
        /\ revision[request[w].number].status = "none"
        /\ revision'[request[w].number].status = "draft"
    BY <1>4, TypeStored, CopyRows DEF Exists
  <2> QED
    BY <1>4, <2>1, CopyElsewhere, LifecycleOpens
<1>5. ASSUME NEW w \in Workers, LinkCommit(w) \/ UnlinkCommit(w)
      PROVE  Lifecycle!Next \/ UNCHANGED Lifecycle!vars
  <2>1. revision' = revision
    BY <1>5 DEF LinkCommit, UnlinkCommit
  <2>2. \A n \in Numbers : SameLife(n)
    BY <1>5, <2>1, TypeStored, ApproveContent DEF SameLife, Shown
  <2> QED
    BY <2>2, LifecycleStutters
<1>6. CASE Next
  <2>1. CASE \E m \in Mutations, n \in Numbers : ClientSend(m, n)
    BY <2>1, <1>1, TypeStored, SendEffect
  <2>2. CASE \E w \in Workers : ReadStep(w)
    BY <2>2, <1>1, ReadStepType
  <2>3. CASE \E w \in Workers : MutateReplay(w)
    BY <2>3, <1>1, ReplayEffect
  <2> QED
    BY <1>2, <1>3, <1>4, <1>5, <1>6, <2>1, <2>2, <2>3, StepKinds
<1> QED
  BY <1>1, <1>6 DEF vars, store

(* Whatever requests interleave, the revisions of a plan live the life     *)
(* that the plan component promises: opened as a draft, edited only as a   *)
(* draft, approved for good, and never two of them touched by one request. *)
THEOREM WorkflowImplementsLifecycle == Spec => ImplementsLifecycle
  BY LifecycleInit, LifecycleStep, TypeInvariant, PTL
     DEF Spec, ImplementsLifecycle, Lifecycle!Spec
-----------------------------------------------------------------------------
(* Copies.  A copy that has seen no draft reads an approved revision, and  *)
(* approval is final; so it still copies what some approval sealed.        *)
FromApproved(r) ==
    r.step \in {"copy", "numbered"} =>
        /\ \A n \in r.source : n \in Numbers /\ Locked(n)
        /\ r.source = {} \/ \E n \in Numbers : r.source = {n}

CopiesInv ==
    /\ \A n \in Numbers : Locked(n) => sealed[n] # {}
    /\ \A a \in Assignments :
           Live(a) => assignment[a].revision \in Numbers /\ Exists(assignment[a].revision)
    /\ \A w \in Workers : FromApproved(request[w])

LEMMA CopiesInit == Init => CopiesInv
<1> SUFFICES ASSUME Init PROVE CopiesInv
  OBVIOUS
<1>1. 1 \in Numbers
  BY CollaborationAssumption DEF Numbers
<1>2. Exists(1) /\ \A n \in Numbers : ~ Locked(n)
  BY <1>1 DEF Init, Exists, Locked, NewRevision, NoRevision
<1>3. \A a \in Assignments : Live(a) => assignment[a].revision = 1
  BY DEF Init, Live, NewAssignment, Unused
<1>4. \A w \in Workers : FromApproved(request[w])
  BY DEF Init, FromApproved, Idle
<1> QED
  BY <1>1, <1>2, <1>3, <1>4 DEF CopiesInv

LEMMA CopiesKept ==
    ASSUME CopiesInv,
           \A n \in Numbers : Exists(n) => Exists(n)',
           \A n \in Numbers : Locked(n) => Locked(n)',
           \A n \in Numbers : Locked(n)' => sealed'[n] # {},
           \A a \in Assignments :
               Live(a)' => \/ Live(a) /\ assignment'[a].revision = assignment[a].revision
                          \/ /\ assignment'[a].revision \in Numbers
                             /\ revision'[assignment'[a].revision].status # "none",
           \A w \in Workers : request'[w] = request[w] \/ FromApproved(request'[w])
    PROVE  CopiesInv'
<1>1. \A a \in Assignments :
          Live(a)' => /\ assignment'[a].revision \in Numbers
                      /\ revision'[assignment'[a].revision].status # "none"
  BY DEF CopiesInv, Exists
<1>2. \A w \in Workers : FromApproved(request'[w])
  BY DEF CopiesInv
<1>3. \A w \in Workers : FromApproved(request[w])'
  BY <1>2 DEF FromApproved
<1> QED
  BY <1>1, <1>3 DEF CopiesInv, Exists

LEMMA IdleFromApproved ==
    ASSUME TypeInv, CopiesInv, NEW w \in Workers, Become(w, Idle)
    PROVE  \A v \in Workers : request'[v] = request[v] \/ FromApproved(request'[v])
  BY DEF TypeInv, TypeOK, Become, FromApproved, Idle

LEMMA CopiesRead ==
    ASSUME TypeInv, CopiesInv, NEW w \in Workers, ReadStep(w)
    PROVE  CopiesInv'
<1>1. UNCHANGED <<store, sealed>> /\ TypeOK
  BY ReadStepType DEF TypeInv
<1>2. \E r : Become(w, r) /\ FromApproved(r)
  <2>1. CASE CopyCheck(w)
    <3>1. PICK source \in {{}} \cup {{n} : n \in {k \in Numbers : Exists(k)}} :
              Become(w, [step |-> "copy", source |-> source])
      BY <2>1 DEF CopyCheck
    <3>2. \A n \in source : n \in Numbers /\ Exists(n) /\ ~ Draft(n)
      BY <2>1, <3>1 DEF CopyCheck, DraftExists
    <3>3. \A n \in source : n \in Numbers /\ Locked(n)
      BY <1>1, <3>2, RowTypes DEF RevisionRows, Draft, Locked
    <3>4. source = {} \/ \E n \in Numbers : source = {n}
      BY <3>1
    <3>5. FromApproved([step |-> "copy", source |-> source])
      BY <3>3, <3>4 DEF FromApproved
    <3> QED
      BY <3>1, <3>5
  <2>2. CASE CopyNumber(w)
    BY <2>2 DEF CopyNumber, At, CopiesInv, FromApproved
  <2>3. CASE \E n \in Numbers : Preview(w, n)
    BY <2>3 DEF Preview, FromApproved
  <2>4. CASE MutateStart(w)
    BY <2>4 DEF MutateStart, FromApproved
  <2>5. CASE ApproveValidate(w) \/ ApproveFreeze(w)
    BY <2>5 DEF ApproveValidate, ApproveFreeze, FromApproved, Idle
  <2>6. CASE \E a \in Linkable : LinkRead(w, a) \/ UnlinkRead(w, a)
    BY <2>6 DEF LinkRead, UnlinkRead, FromApproved
  <2>7. CASE MutateCollides(w) \/ ApproveRefused(w) \/ CopyCollides(w) \/ Abort(w)
    BY <2>7 DEF MutateCollides, ApproveRefused, CopyCollides, Abort, FromApproved, Idle
  <2> QED
    BY <2>1, <2>2, <2>3, <2>4, <2>5, <2>6, <2>7 DEF ReadStep
<1>3. \A v \in Workers : request'[v] = request[v] \/ FromApproved(request'[v])
  BY <1>1, <1>2 DEF TypeOK, Become
<1>4. revision' = revision /\ assignment' = assignment /\ sealed' = sealed
  BY <1>1 DEF store
<1>5. /\ \A n \in Numbers : (Exists(n) <=> Exists(n)') /\ (Locked(n) <=> Locked(n)')
      /\ \A a \in Assignments : Live(a)' => Live(a)
  BY <1>4 DEF Exists, Locked, Live
<1> QED
  BY <1>3, <1>4, <1>5, CopiesKept DEF CopiesInv

LEMMA CopiesNext == TypeInv /\ CopiesInv /\ ContentInv /\ [Next]_vars => CopiesInv'
<1> SUFFICES ASSUME TypeInv, CopiesInv, ContentInv, [Next]_vars PROVE CopiesInv'
  OBVIOUS
<1>1. CASE UNCHANGED <<store, sealed, request>>
  BY <1>1 DEF CopiesInv, FromApproved, Locked, Exists, Live, store
<1>2. ASSUME NEW w \in Workers, MutateCommit(w)
      PROVE  CopiesInv'
  <2>1. PICK p \in outbox, d \in Dispositions :
            /\ d \in Outcomes(p) /\ sealed' = sealed
            /\ (d = "saved" /\ Save(p)) \/ UNCHANGED store
            /\ Become(w, Idle)
    BY <1>2, TypeStored, CommitEffect
  <2>2. p.revision \in Numbers /\ Exists(p.revision)
    BY DEF TypeInv, TypeOK, GroundedInv, Payloads
  <2>3. /\ \A n \in Numbers : revision'[n].status = revision[n].status
        /\ \A a \in Assignments :
               assignment'[a] = assignment[a] \/ assignment'[a].revision = p.revision
    <3>1. CASE UNCHANGED store
      BY <3>1 DEF store
    <3>2. CASE d = "saved" /\ Save(p)
      BY <2>1, <3>2, TypeStored, SaveEffect DEF SavedRevision, SavedAssignment, Touches
    <3> QED
      BY <2>1, <3>1, <3>2
  <2>4. /\ \A n \in Numbers : (Exists(n) <=> Exists(n)') /\ (Locked(n) <=> Locked(n)')
        /\ \A a \in Assignments : Live(a)' =>
               \/ Live(a) /\ assignment'[a].revision = assignment[a].revision
               \/ assignment'[a].revision \in Numbers /\ revision'[assignment'[a].revision].status # "none"
    BY <2>2, <2>3 DEF Exists, Locked, Live
  <2>5. \A n \in Numbers : Locked(n)' => sealed'[n] # {}
    BY <2>1, <2>4 DEF CopiesInv
  <2>6. \A v \in Workers : request'[v] = request[v] \/ FromApproved(request'[v])
    BY <2>1, IdleFromApproved
  <2> QED
    BY <2>4, <2>5, <2>6, CopiesKept
<1>3. ASSUME NEW w \in Workers, ApproveCommit(w)
      PROVE  CopiesInv'
  <2> DEFINE n == request[w].revision
             s == [by |-> w, content |-> Content(n), confirmed |-> request[w].digest]
  <2>1. sealed' = [sealed EXCEPT ![n] = sealed[n] \cup {s}] /\ n \in Numbers /\ Become(w, Idle)
    BY <1>3, TypeStored, ApproveCommitRows DEF ApproveCommit
  <2>2. /\ \A k \in Numbers : revision'[k].status =
               IF k = n THEN "approved" ELSE revision[k].status
        /\ \A a \in Assignments : assignment'[a] = assignment[a]
               \/ /\ assignment[a] # Unused
                  /\ assignment'[a] = [assignment[a] EXCEPT !.link = "frozen"]
    BY <1>3, TypeStored, ApproveCommitRows
  <2> HIDE DEF n, s
  <2>3. \A a \in Assignments : Live(a)' =>
            Live(a) /\ assignment'[a].revision = assignment[a].revision
    BY <2>2, RowTypes DEF TypeInv, AssignmentRows, Live
  <2>4. \A k \in Numbers :
            /\ Exists(k) => Exists(k)'
            /\ Locked(k) => Locked(k)'
            /\ Locked(k)' => k = n \/ Locked(k)
    BY <2>2 DEF Exists, Locked
  <2>5. \A k \in Numbers : Locked(k)' => sealed'[k] # {}
    BY <2>1, <2>4 DEF CopiesInv, ContentInv
  <2>6. \A v \in Workers : request'[v] = request[v] \/ FromApproved(request'[v])
    BY <2>1, IdleFromApproved
  <2> QED
    BY <2>3, <2>4, <2>5, <2>6, CopiesKept
<1>4. ASSUME NEW w \in Workers, CopyInsert(w)
      PROVE  CopiesInv'
  <2> DEFINE number == request[w].number
  <2>1. sealed' = sealed /\ Become(w, Idle)
    BY <1>4 DEF CopyInsert
  <2>2. /\ number \in Numbers /\ ~ Exists(number)
        /\ \A n \in Numbers : n # number => revision'[n] = revision[n]
        /\ revision'[number].status = "draft"
        /\ \A a \in Assignments :
               assignment'[a] = assignment[a] \/ assignment'[a].revision = number
    BY <1>4, TypeStored, CopyRows
  <2> HIDE DEF number
  <2>3. \A n \in Numbers :
            /\ Exists(n) => Exists(n)'
            /\ Locked(n) <=> Locked(n)'
    BY <2>2 DEF Exists, Locked
  <2>4. \A a \in Assignments : Live(a)' =>
               \/ Live(a) /\ assignment'[a].revision = assignment[a].revision
               \/ assignment'[a].revision \in Numbers /\ revision'[assignment'[a].revision].status # "none"
    BY <2>2 DEF Exists, Live
  <2>5. \A v \in Workers : request'[v] = request[v] \/ FromApproved(request'[v])
    BY <2>1, IdleFromApproved
  <2>6. \A n \in Numbers : Locked(n)' => sealed'[n] # {}
    BY <2>1, <2>3 DEF CopiesInv
  <2> QED
    BY <2>3, <2>4, <2>5, <2>6, CopiesKept
<1>5. ASSUME NEW w \in Workers, LinkCommit(w) \/ UnlinkCommit(w)
      PROVE  CopiesInv'
  <2>1. sealed' = sealed /\ revision' = revision /\ Become(w, Idle)
    BY <1>5 DEF LinkCommit, UnlinkCommit
  <2>2. \A a \in Assignments : Live(a)' =>
            Live(a) /\ assignment'[a].revision = assignment[a].revision
    <3>1. \A a \in Assignments : assignment'[a] = assignment[a]
              \/ /\ Live(a)
                 /\ \E link \in {"live", "removed"} :
                        assignment'[a] = [assignment[a] EXCEPT !.link = link]
      BY <1>5, TypeStored, LinkRows
    <3> QED
      BY <3>1, RowTypes DEF TypeInv, AssignmentRows, Live
  <2>3. \A n \in Numbers : (Exists(n) <=> Exists(n)') /\ (Locked(n) <=> Locked(n)')
    BY <2>1 DEF Exists, Locked
  <2>4. \A v \in Workers : request'[v] = request[v] \/ FromApproved(request'[v])
    BY <2>1, IdleFromApproved
  <2>5. \A n \in Numbers : Locked(n)' => sealed'[n] # {}
    BY <2>1, <2>3 DEF CopiesInv
  <2> QED
    BY <2>2, <2>3, <2>4, <2>5, CopiesKept
<1>6. CASE Next
  <2>1. CASE \E m \in Mutations, n \in Numbers : ClientSend(m, n)
    BY <2>1, <1>1, TypeStored, SendEffect
  <2>2. CASE \E w \in Workers : ReadStep(w)
    BY <2>2, CopiesRead
  <2>3. CASE \E w \in Workers : MutateReplay(w)
    BY <2>3, <1>1, ReplayEffect
  <2> QED
    BY <1>2, <1>3, <1>4, <1>5, <1>6, <2>1, <2>2, <2>3, StepKinds
<1> QED
  BY <1>1, <1>6 DEF vars, store

(* What a copy inserts prints as the approved revision that it reads.      *)
LEMMA CopyPrinted ==
    ASSUME TypeInv, CopiesInv, NEW w \in Workers, CopyInsert(w),
           NEW number \in Numbers, number = request[w].number, Rows(number)' # {}
    PROVE  \E k \in Numbers :
               /\ Locked(k)
               /\ Printed(Content(number)') = Printed(Content(k))
<1> DEFINE source == request[w].source
<1>1. ~ Exists(number)
  BY TypeStored, CopyRows
<1>2. /\ \A n \in source : n \in Numbers /\ Locked(n)
      /\ source = {} \/ \E n \in Numbers : source = {n}
  BY DEF CopiesInv, FromApproved, CopyInsert, At
<1>3. PICK original \in [Assignments -> {{}} \cup {{a} : a \in SourceRows(source)}] :
          /\ UNION {original[a] : a \in Assignments} = SourceRows(source)
          /\ assignment' = [a \in Assignments |->
                 IF original[a] = {} THEN assignment[a]
                 ELSE CopiedRow(assignment[CHOOSE b \in original[a] : TRUE],
                                request[w].number)]
  BY DEF CopyInsert
<1> HIDE DEF source
<1>4. Rows(number) = {}
  BY <1>1 DEF CopiesInv, Rows
<1>5. \A a \in Assignments : original[a] = {} => a \notin Rows(number)'
  BY <1>3, <1>4 DEF Rows, Live
<1>6. \A a \in Assignments, b \in SourceRows(source) : original[a] = {b} =>
          /\ a \in Rows(number)'
          /\ assignment'[a].position = assignment[b].position
          /\ assignment'[a].body = assignment[b].body
  <2> SUFFICES ASSUME NEW a \in Assignments, NEW b \in SourceRows(source), original[a] = {b}
               PROVE  /\ a \in Rows(number)'
                      /\ assignment'[a].position = assignment[b].position
                      /\ assignment'[a].body = assignment[b].body
    OBVIOUS
  <2>1. assignment'[a] = CopiedRow(assignment[b], number)
    BY <1>3
  <2> QED
    BY <2>1 DEF CopiedRow, NewAssignment, Rows, Live
<1>7. PICK k \in Numbers : source = {k}
  <2>1. source # {}
    <3>1. source = {} => SourceRows(source) = {}
      BY DEF SourceRows
    <3> QED
      BY <1>3, <1>5, <3>1 DEF Rows
  <2> QED
    BY <1>2, <2>1
<1>8. SourceRows(source) = Rows(k)
  BY <1>7 DEF SourceRows
<1>9. \A a \in Rows(number)' : \E b \in Rows(k) : original[a] = {b}
  BY <1>3, <1>5, <1>8 DEF Rows
<1>10. \A b \in Rows(k) : \E a \in Assignments : original[a] = {b}
  <2> SUFFICES ASSUME NEW b \in Rows(k)
               PROVE  \E a \in Assignments : original[a] = {b}
    OBVIOUS
  <2>1. PICK a \in Assignments : b \in original[a]
    BY <1>3, <1>8
  <2> QED
    BY <1>3, <2>1
<1>11. Printed(Content(number)') =
           {<<assignment'[a].position, assignment'[a].body>> : a \in Rows(number)'}
  BY DEF Printed, Content
<1>12. Printed(Content(k)) =
           {<<assignment[b].position, assignment[b].body>> : b \in Rows(k)}
  BY DEF Printed, Content
<1>13. Printed(Content(number)') = Printed(Content(k))
  <2>1. \A a \in Rows(number)' : \E b \in Rows(k) :
            /\ assignment'[a].position = assignment[b].position
            /\ assignment'[a].body = assignment[b].body
    BY <1>6, <1>8, <1>9 DEF Rows
  <2>2. \A b \in Rows(k) : \E a \in Rows(number)' :
            /\ assignment'[a].position = assignment[b].position
            /\ assignment'[a].body = assignment[b].body
    BY <1>6, <1>8, <1>10
  <2> QED
    BY <1>11, <1>12, <2>1, <2>2
<1> QED
  BY <1>2, <1>7, <1>13

StartsFromApproved ==
    \A n \in Numbers :
        ~ Exists(n) /\ Exists(n)' /\ Rows(n)' # {} =>
            \E k \in Numbers : \E s \in sealed[k] :
                Printed(Content(n)') = Printed(s.content)

LEMMA CopyStarts ==
    TypeInv /\ CopiesInv /\ ContentInv /\ [Next]_vars => [StartsFromApproved]_vars
<1> SUFFICES ASSUME TypeInv, CopiesInv, ContentInv, Next PROVE StartsFromApproved
  OBVIOUS
<1>1. CASE \A n \in Numbers : Exists(n)' => Exists(n)
  BY <1>1 DEF StartsFromApproved
<1>2. CASE UNCHANGED store
  BY <1>1, <1>2 DEF Exists, store
<1>3. ASSUME NEW w \in Workers, MutateCommit(w) PROVE StartsFromApproved
  <2>1. PICK p \in outbox, d \in Dispositions :
            /\ d \in Outcomes(p)
            /\ (d = "saved" /\ Save(p)) \/ UNCHANGED store
    BY <1>3, TypeStored, CommitEffect
  <2>2. CASE d = "saved" /\ Save(p)
    BY <1>1, <2>1, <2>2, TypeStored, SaveEffect DEF SavedRevision, Exists
  <2> QED
    BY <1>2, <2>1, <2>2
<1>4. ASSUME NEW w \in Workers, ApproveCommit(w) PROVE StartsFromApproved
  <2>1. request[w] \in Requests /\ Grounded(request[w]) /\ request[w].step = "frozen"
    BY <1>4 DEF TypeInv, TypeOK, GroundedInv, ApproveCommit, At
  <2>2. Exists(request[w].revision)
    BY <2>1 DEF Grounded
  <2>3. \A n \in Numbers : revision'[n].status =
            IF n = request[w].revision THEN "approved" ELSE revision[n].status
    BY <1>4, TypeStored, ApproveCommitRows
  <2> QED
    BY <1>1, <2>2, <2>3 DEF Exists
<1>5. ASSUME NEW w \in Workers, CopyInsert(w) PROVE StartsFromApproved
  <2> SUFFICES ASSUME NEW n \in Numbers, ~ Exists(n), Exists(n)', Rows(n)' # {}
               PROVE  \E k \in Numbers : \E s \in sealed[k] :
                          Printed(Content(n)') = Printed(s.content)
    BY DEF StartsFromApproved
  <2>1. n = request[w].number
    BY <1>5, TypeStored, CopyRows DEF Exists
  <2>2. PICK k \in Numbers : Locked(k) /\ Printed(Content(n)') = Printed(Content(k))
    BY <1>5, <2>1, CopyPrinted
  <2>3. PICK s \in sealed[k] : s.content = Content(k)
    BY <2>2 DEF CopiesInv, ContentInv, ApprovedContentImmutable
  <2> QED
    BY <2>2, <2>3
<1>6. ASSUME NEW w \in Workers, LinkCommit(w) \/ UnlinkCommit(w) PROVE StartsFromApproved
  BY <1>1, <1>6 DEF LinkCommit, UnlinkCommit, Exists
<1>7. CASE \E m \in Mutations, n \in Numbers : ClientSend(m, n)
  BY <1>7, <1>2, TypeStored, SendEffect
<1>8. CASE \E w \in Workers : ReadStep(w)
  BY <1>8, <1>2, ReadStepType
<1>9. CASE \E w \in Workers : MutateReplay(w)
  BY <1>9, <1>2, ReplayEffect
<1> QED
  BY <1>3, <1>4, <1>5, <1>6, <1>7, <1>8, <1>9, StepKinds

(* A new draft is empty or starts as the exact content of an approved      *)
(* revision, whatever was approved, edited or copied meanwhile.            *)
THEOREM CopiesStartFromApproved == Spec => DraftsStartFromApproved
<1>1. TypeInv /\ CopiesInv /\ ContentInv /\ [Next]_vars => [StartsFromApproved]_vars
  BY CopyStarts
<1> QED
  BY <1>1, TypeInvariant, ContentInit, ContentNext, CopiesInit, CopiesNext, PTL
     DEF Spec, DraftsStartFromApproved, StartsFromApproved

-----------------------------------------------------------------------------
(* The workflow beside the REST endpoints of plans/views.py, which keep    *)
(* neither versions nor locks.  Their requests are of another kind; what   *)
(* the steps of the workflow rely on holds beside them too.                *)
RestRequests ==
    [step : {"read", "ready"}, verb : {"post"}, revision : Numbers, version : Nat,
     position : Positions, body : Bodies]
  \cup
    [step : {"ready"}, verb : {"patch"}, object : Assignments, row : AssignmentRows]
  \cup
    [step : {"read", "ready"}, verb : {"delete"}, revision : Numbers, version : Nat,
     object : Assignments]
  \cup
    [step : {"read", "ready"}, verb : {"reorder"}, revision : Numbers, version : Nat,
     order : [Assignments -> Nat]]
  \cup
    [step : {"read", "ready"}, verb : {"revise"}, revision : Numbers, version : Nat,
     prepared : Preparers]

(* The row that a stale PATCH or DELETE writes is still one of the revision*)
(* it was read in: rows do not change revisions.                           *)
RowOf(a, n) == assignment[a] # Unused /\ assignment[a].revision = n

RestGrounded(r) ==
    /\ r.verb # "patch" => Exists(r.revision)
    /\ r.verb = "patch" => RowOf(r.object, r.row.revision)
    /\ r.verb = "delete" => RowOf(r.object, r.revision)

Sound(r) ==
    \/ r \in Requests /\ Grounded(r)
    \/ r \in RestRequests /\ RestGrounded(r)

SystemInv ==
    /\ StoreInv
    /\ request = [w \in Workers |-> request[w]]
    /\ \A w \in Workers : Sound(request[w])

RowsAbide ==
    \A a \in Assignments :
        assignment[a] # Unused => assignment'[a].revision = assignment[a].revision

LEMMA SystemInit == Init => SystemInv
<1> SUFFICES ASSUME Init PROVE SystemInv
  OBVIOUS
<1>1. StoreInv /\ \A w \in Workers : Sound(request[w])
  BY TypeInit, TypeStored DEF Own, Sound
<1>2. request = [w \in Workers |-> request[w]]
  BY DEF Init
<1> QED
  BY <1>1, <1>2 DEF SystemInv

(* A step that keeps the tables and moves requests to sound ones.          *)
LEMMA SystemKept ==
    ASSUME SystemInv, RowsStay, RowsAbide, outbox \subseteq outbox',
           \A p \in outbox' \ outbox : p \in Payloads /\ Exists(p.revision),
           request' = [w \in Workers |-> request'[w]],
           \A w \in Workers : request'[w] = request[w] \/ Sound(request'[w])
    PROVE  SystemInv'
<1>1. \A p \in outbox' : p \in Payloads /\ Exists(p.revision)
  BY DEF SystemInv, StoreInv
<1>2. StoreInv'
  <2>1. \A p \in outbox' : p.revision \in Numbers
    BY <1>1 DEF Payloads
  <2>2. \A p \in outbox' : Exists(p.revision)'
    BY <1>1, <2>1 DEF RowsStay
  <2> QED
    BY <1>1, <2>2 DEF StoreInv, RowsStay, RevisionRows, AssignmentRows, Payloads
<1>3. \A r : r \in Requests /\ Grounded(r) => r \in Requests' /\ Grounded(r)'
  <2> SUFFICES ASSUME NEW r \in Requests, Grounded(r) PROVE r \in Requests' /\ Grounded(r)'
    OBVIOUS
  <2>1. r \in Requests'
    BY DEF Requests, Idle, Numbers
  <2>2. /\ r.step \in {"preview", "validated", "frozen"} => r.revision \in Numbers
        /\ r.step = "frozen" => r.links \subseteq Assignments
        /\ r.step \in {"copy", "numbered"} => r.source \subseteq Numbers
    BY DEF Requests, Idle
  <2> QED
    BY <2>1, <2>2 DEF Grounded, RowsStay
<1>4. \A r : r \in RestRequests /\ RestGrounded(r) => r \in RestRequests' /\ RestGrounded(r)'
  <2> SUFFICES ASSUME NEW r \in RestRequests, RestGrounded(r)
               PROVE  r \in RestRequests' /\ RestGrounded(r)'
    OBVIOUS
  <2>1. /\ r.verb # "patch" => r.revision \in Numbers
        /\ r.verb \in {"patch", "delete"} => r.object \in Assignments
    BY DEF RestRequests
  <2>2. r \in RestRequests'
    BY DEF RestRequests, AssignmentRows, Numbers, Positions
  <2>3. \A a \in Assignments : \A n : RowOf(a, n) => RowOf(a, n)'
    BY DEF RowOf, RowsStay, RowsAbide
  <2> QED
    BY <2>1, <2>2, <2>3 DEF RestGrounded, RowsStay
<1>5. \A w \in Workers : Sound(request[w])'
  BY <1>3, <1>4 DEF SystemInv, Sound
<1> QED
  BY <1>2, <1>5 DEF SystemInv

LEMMA StoreRests ==
    ASSUME SystemInv, UNCHANGED store
    PROVE  RowsStay /\ RowsAbide
  BY DEF SystemInv, StoreInv, RowsStay, RowsAbide, Exists, store

LEMMA IdleSound == Sound(Idle)
  BY DEF Sound, Requests, Grounded, Idle

LEMMA SystemMoves ==
    ASSUME SystemInv, NEW w \in Workers, RowsStay, RowsAbide, outbox' = outbox,
           NEW r, Sound(r), Become(w, r)
    PROVE  SystemInv'
<1>1. request = [v \in Workers |-> request[v]]
  BY DEF SystemInv
<1>2. /\ request' = [v \in Workers |-> request'[v]]
      /\ \A v \in Workers : request'[v] = request[v] \/ Sound(request'[v])
  BY <1>1 DEF Become
<1> QED
  BY <1>2, SystemKept

(* What a step of the workflow does is done by a request of the workflow.  *)
LEMMA SystemOwn ==
    ASSUME SystemInv, NEW w \in Workers, \A step \in {"read", "ready"} : ~ At(w, step)
    PROVE  Own(w)
<1>1. Sound(request[w])
  BY DEF SystemInv
<1>2. request[w] \notin RestRequests
  BY DEF RestRequests, At
<1> QED
  BY <1>1, <1>2 DEF Sound, Own

LEMMA RestOwn ==
    ASSUME SystemInv, NEW w \in Workers, At(w, "read") \/ At(w, "ready")
    PROVE  request[w] \in RestRequests /\ RestGrounded(request[w])
<1>1. Sound(request[w])
  BY DEF SystemInv
<1>2. request[w] \notin Requests
  BY DEF Requests, Idle, At
<1> QED
  BY <1>1, <1>2 DEF Sound

-----------------------------------------------------------------------------
(* Who reaches an approved revision.  A step that leaves the tables alone  *)
(* must not bring a request past its check; one that writes must be the    *)
(* end of a request that was past it, or stay away from the revision.      *)
LEMMA NobodyJoins ==
    ASSUME SystemInv, NEW w \in Workers, NEW r, Become(w, r), r.step # "ready",
           NEW n \in Numbers
    PROVE  \A v \in Workers : n \in PastCheck(v)' => n \in PastCheck(v)
<1>1. request = [v \in Workers |-> request[v]]
  BY DEF SystemInv
<1>2. \A v \in Workers : request'[v] = IF v = w THEN r ELSE request[v]
  BY <1>1 DEF Become
<1> QED
  BY <1>2 DEF PastCheck, At

LEMMA QuietStep ==
    ASSUME NEW n \in Numbers, revision'[n] = revision[n], Content(n)' = Content(n),
           \A v \in Workers : n \in PastCheck(v)' => n \in PastCheck(v)
    PROVE  LateEdit(n)
  BY DEF LateEdit

LEMMA IdleStep ==
    ASSUME SystemInv, NEW w \in Workers, NEW n \in Numbers, Become(w, Idle),
           n \in PastCheck(w) \/ (revision'[n] = revision[n] /\ Content(n)' = Content(n))
    PROVE  LateEdit(n)
<1>1. Idle.step # "ready"
  BY DEF Idle
<1>2. \A v \in Workers : n \in PastCheck(v)' => n \in PastCheck(v)
  BY <1>1, NobodyJoins
<1>3. n \notin PastCheck(w)'
  BY <1>1 DEF PastCheck, At, Become, SystemInv
<1> QED
  BY <1>2, <1>3 DEF LateEdit

(* One step: the invariant, and who reaches approved revisions.            *)
LateEdits == \A n \in Numbers : Locked(n) => LateEdit(n)

LEMMA RestingContent ==
    ASSUME UNCHANGED store, NEW n \in Numbers
    PROVE  revision'[n] = revision[n] /\ Content(n)' = Content(n)
  BY DEF store, Content, Rows, Live

LEMMA SystemReads ==
    ASSUME SystemInv, NEW w \in Workers, UNCHANGED <<store, outbox>>,
           NEW r, Sound(r), Become(w, r), r.step # "ready"
    PROVE  SystemInv' /\ LateEdits
<1>1. SystemInv'
  BY StoreRests, SystemMoves
<1>2. LateEdits
  BY RestingContent, NobodyJoins, QuietStep DEF LateEdits
<1> QED
  BY <1>1, <1>2

LEMMA WorkflowReads ==
    ASSUME SystemInv, NEW w \in Workers, ReadStep(w)
    PROVE  SystemInv' /\ LateEdits
<1>1. UNCHANGED <<store, outbox>>
  BY DEF ReadStep, MutateStart, MutateCollides, Preview, ApproveValidate, ApproveRefused,
         ApproveFreeze, CopyCheck, CopyNumber, CopyCollides, LinkRead, UnlinkRead, Abort, store
<1>2. CASE Become(w, Idle)
  <2>1. Idle.step # "ready"
    BY DEF Idle
  <2> QED
    BY <1>1, <1>2, <2>1, IdleSound, SystemReads
<1>3. CASE ~ Become(w, Idle)
  <2>1. Own(w)
    BY <1>3, SystemOwn
       DEF ReadStep, MutateStart, MutateCollides, Preview, ApproveValidate, ApproveRefused,
           ApproveFreeze, CopyCheck, CopyNumber, CopyCollides, LinkRead, UnlinkRead, Abort, At
  <2>2. PICK r \in Requests : Grounded(r) /\ Become(w, r)
    BY <2>1, ReadStepRequest DEF SystemInv
  <2>3. r.step # "ready"
    BY DEF Requests, Idle
  <2> QED
    BY <1>1, <2>2, <2>3, SystemReads DEF Sound
<1> QED
  BY <1>2, <1>3

LEMMA WorkflowWrites ==
    ASSUME SystemInv, NEW w \in Workers,
           \/ MutateCommit(w) \/ ApproveCommit(w) \/ CopyInsert(w)
           \/ LinkCommit(w) \/ UnlinkCommit(w)
    PROVE  SystemInv' /\ LateEdits
<1>1. StoreInv /\ Own(w)
  BY SystemOwn DEF SystemInv, MutateCommit, ApproveCommit, CopyInsert, LinkCommit,
                   UnlinkCommit, At
<1>2. Become(w, Idle) /\ outbox' = outbox
  BY DEF MutateCommit, ApproveCommit, CopyInsert, LinkCommit, UnlinkCommit
<1>3. SUFFICES /\ RowsStay /\ RowsAbide
               /\ \A n \in Numbers : Locked(n) =>
                      revision'[n] = revision[n] /\ Content(n)' = Content(n)
  BY <1>2, <1>3, IdleSound, SystemMoves, IdleStep DEF LateEdits
<1>4. CASE MutateCommit(w)
  <2>1. PICK p \in outbox, d \in Dispositions :
            /\ d \in Outcomes(p)
            /\ \/ d = "saved" /\ Save(p)
               \/ d # "saved" /\ UNCHANGED store
    BY <1>1, <1>4, CommitEffect
  <2>2. CASE d = "saved" /\ Save(p)
    <3>1. "saved" \in Outcomes(p) /\ Save(p)
      BY <2>1, <2>2
    <3>2. RowsStay /\ ~ Locked(p.revision)
      BY <1>1, <3>1, SaveRows, SaveEffect
    <3>3. RowsAbide
      BY <1>1, <3>1, SaveEffect DEF SavedAssignment, Touches, RowsAbide, Rows
    <3> QED
      BY <1>1, <3>1, <3>2, <3>3, CommitContent
  <2>3. CASE UNCHANGED store
    BY <2>3, StoreRests, RestingContent
  <2> QED
    BY <2>1, <2>2, <2>3
<1>5. CASE ApproveCommit(w)
  <2>1. RowsStay /\ \A a \in Assignments : assignment'[a] = assignment[a]
            \/ /\ assignment[a] # Unused
               /\ assignment'[a] = [assignment[a] EXCEPT !.link = "frozen"]
    BY <1>1, <1>5, ApproveCommitRows
  <2>2. RowsAbide
    BY <1>1, <2>1, StoredRows DEF AssignmentRows, RowsAbide
  <2>3. \A n \in Numbers : Locked(n) => revision'[n] = revision[n]
    <3> SUFFICES ASSUME NEW n \in Numbers, Locked(n) PROVE revision'[n] = revision[n]
      OBVIOUS
    <3>1. revision[n] \in RevisionRows /\ revision[n].status = "approved"
      BY <1>1, StoredRows DEF Locked, Exists
    <3>2. [revision[n] EXCEPT !.status = "approved"] = revision[n]
      BY <3>1 DEF RevisionRows
    <3>3. revision' = [revision EXCEPT ![request[w].revision] =
                           [revision[request[w].revision] EXCEPT !.status = "approved"]]
      BY <1>5 DEF ApproveCommit
    <3> QED
      BY <1>1, <3>2, <3>3 DEF StoreInv
  <2> QED
    BY <1>1, <1>5, <2>1, <2>2, <2>3, ApproveContent
<1>6. CASE CopyInsert(w)
  <2>1. RowsStay /\ \A a \in Assignments : assignment'[a] = assignment[a]
                                           \/ assignment[a] = Unused
    BY <1>1, <1>6, CopyRows
  <2>2. \A n \in Numbers : Locked(n) => Exists(n)
    BY DEF Locked, Exists
  <2> QED
    BY <1>1, <1>6, <2>1, <2>2, CopyContent DEF RowsAbide
<1>7. CASE LinkCommit(w) \/ UnlinkCommit(w)
  <2>1. RowsStay /\ revision' = revision
        /\ \A a \in Assignments : assignment'[a] = assignment[a]
            \/ /\ Live(a)
               /\ \E link \in {"live", "removed"} :
                      assignment'[a] = [assignment[a] EXCEPT !.link = link]
    BY <1>1, <1>7, LinkRows
  <2>2. RowsAbide
    BY <1>1, <2>1, StoredRows DEF AssignmentRows, RowsAbide
  <2> QED
    BY <1>1, <1>7, <2>1, <2>2, ApproveContent
<1> QED
  BY <1>4, <1>5, <1>6, <1>7

(* The REST requests.                                                      *)
LEMMA RestReads ==
    ASSUME SystemInv, NEW w \in Workers, RestRead(w) \/ SaveGate(w)
    PROVE  SystemInv' /\ LateEdits
<1>1. StoreInv /\ UNCHANGED <<store, outbox>>
  BY DEF SystemInv, RestRead, SaveGate, PostRead, ReorderRead, ReviseRead, PatchRead,
         DeleteRead, Read, Unwritten
<1>2. \A n \in Numbers : Editable(n) => Exists(n) /\ revision[n].version \in Nat
  BY <1>1, StoredRows DEF Editable, Draft, Exists, RevisionRows
<1>3. CASE \E n \in Numbers : PostRead(w, n)
  <2>1. PICK n \in Numbers, position \in Positions, body \in Bodies :
            /\ Editable(n)
            /\ Become(w, [step |-> "read", verb |-> "post", revision |-> n,
                          version |-> revision[n].version,
                          position |-> position, body |-> body])
    BY <1>3 DEF PostRead, Read
  <2> DEFINE r == [step |-> "read", verb |-> "post", revision |-> n,
                   version |-> revision[n].version, position |-> position, body |-> body]
  <2>2. r \in RestRequests /\ RestGrounded(r) /\ r.step # "ready"
    BY <1>2, <2>1 DEF RestRequests, RestGrounded
  <2> QED
    BY <1>1, <2>1, <2>2, SystemReads DEF Sound
<1>4. CASE \E n \in Numbers : ReorderRead(w, n)
  <2>1. PICK n \in Numbers, order \in [Assignments -> 0 .. MaxPosition] :
            /\ Editable(n)
            /\ Become(w, [step |-> "read", verb |-> "reorder", revision |-> n,
                          version |-> revision[n].version, order |-> order])
    BY <1>4 DEF ReorderRead, Read
  <2> DEFINE r == [step |-> "read", verb |-> "reorder", revision |-> n,
                   version |-> revision[n].version, order |-> order]
  <2>2. order \in [Assignments -> Nat]
    OBVIOUS
  <2>3. r \in RestRequests /\ RestGrounded(r) /\ r.step # "ready"
    BY <1>2, <2>1, <2>2 DEF RestRequests, RestGrounded
  <2> QED
    BY <1>1, <2>1, <2>3, SystemReads DEF Sound
<1>5. CASE \E n \in Numbers : ReviseRead(w, n)
  <2>1. PICK n \in Numbers, prepared \in Preparers :
            /\ Editable(n)
            /\ Become(w, [step |-> "read", verb |-> "revise", revision |-> n,
                          version |-> revision[n].version, prepared |-> prepared])
    BY <1>5 DEF ReviseRead, Read
  <2> DEFINE r == [step |-> "read", verb |-> "revise", revision |-> n,
                   version |-> revision[n].version, prepared |-> prepared]
  <2>2. r \in RestRequests /\ RestGrounded(r) /\ r.step # "ready"
    BY <1>2, <2>1 DEF RestRequests, RestGrounded
  <2> QED
    BY <1>1, <2>1, <2>2, SystemReads DEF Sound
<1>6. CASE \E a \in Assignments : PatchRead(w, a)
  <2>1. PICK a \in Assignments, position \in Positions, body \in Bodies :
            /\ Live(a) /\ Draft(assignment[a].revision)
            /\ Become(w, [step |-> "ready", verb |-> "patch", object |-> a,
                          row |-> [assignment[a] EXCEPT !.body = body, !.version = @ + 1,
                                                        !.position = position]])
    BY <1>6 DEF PatchRead, Read
  <2>2. assignment[a] \in AssignmentRows /\ assignment[a] # Unused
    BY <1>1, <2>1, StoredRows
  <2> DEFINE new == [assignment[a] EXCEPT !.body = body, !.version = @ + 1,
                                          !.position = position]
             r == [step |-> "ready", verb |-> "patch", object |-> a, row |-> new]
  <2>3. new \in AssignmentRows /\ new.revision = assignment[a].revision
    <3> DEFINE half == [assignment[a] EXCEPT !.body = body, !.position = position]
    <3>1. position \in Nat \ {0}
      BY DEF Positions
    <3>2. half \in AssignmentRows /\ half.revision = assignment[a].revision
      BY <2>2, <3>1 DEF AssignmentRows
    <3>3. new = [half EXCEPT !.version = half.version + 1]
      BY <2>2 DEF AssignmentRows
    <3> HIDE DEF half, new
    <3> QED
      BY <3>2, <3>3 DEF AssignmentRows
  <2>4. Become(w, r)
    BY <2>1
  <2> HIDE DEF new
  <2>5. r \in RestRequests
    BY <2>3 DEF RestRequests
  <2>6. Sound(r)
    BY <2>2, <2>3, <2>5 DEF RestGrounded, RowOf, Sound
  <2>7. SystemInv'
    BY <1>1, <2>4, <2>6, StoreRests, SystemMoves
  <2>8. ASSUME NEW n \in Numbers, Locked(n) PROVE LateEdit(n)
    <3>1. n # new.revision
      BY <2>1, <2>3, <2>8 DEF Draft, Locked
    <3>2. \A v \in Workers : n \in PastCheck(v)' => n \in PastCheck(v)
      <4>1. \A v \in Workers : request'[v] = IF v = w THEN r ELSE request[v]
        BY <2>4 DEF Become, SystemInv
      <4> QED
        BY <3>1, <4>1 DEF PastCheck, At
    <3> QED
      BY <1>1, <3>2, RestingContent, QuietStep
  <2> QED
    BY <2>7, <2>8 DEF LateEdits
<1>7. CASE \E a \in Assignments : DeleteRead(w, a)
  <2>1. PICK a \in Assignments :
            /\ Live(a) /\ Editable(assignment[a].revision)
            /\ Become(w, [step |-> "read", verb |-> "delete",
                          revision |-> assignment[a].revision,
                          version |-> revision[assignment[a].revision].version,
                          object |-> a])
    BY <1>7 DEF DeleteRead, Read
  <2>2. assignment[a].revision \in Numbers /\ assignment[a] # Unused
    BY <1>1, <2>1, StoredRows DEF AssignmentRows
  <2> DEFINE r == [step |-> "read", verb |-> "delete", revision |-> assignment[a].revision,
                   version |-> revision[assignment[a].revision].version, object |-> a]
  <2>3. r \in RestRequests /\ RestGrounded(r) /\ r.step # "ready"
    BY <1>2, <2>1, <2>2 DEF RestRequests, RestGrounded, RowOf
  <2> QED
    BY <1>1, <2>1, <2>3, SystemReads DEF Sound
<1>8. CASE SaveGate(w)
  <2> DEFINE r == [request[w] EXCEPT !.step = "ready"]
             n == request[w].revision
  <2>1. request[w] \in RestRequests /\ RestGrounded(request[w]) /\ At(w, "read")
    BY <1>8, RestOwn DEF SaveGate
  <2>2. CASE Locked(n)
    <3>1. Become(w, Idle) /\ Idle.step # "ready"
      BY <1>8, <2>2 DEF SaveGate, Idle
    <3> QED
      BY <1>1, <3>1, IdleSound, SystemReads
  <2>3. CASE ~ Locked(n)
    <3>1. Become(w, r)
      BY <1>8, <2>3 DEF SaveGate
    <3>2. r \in RestRequests /\ RestGrounded(r)
      BY <2>1 DEF RestRequests, RestGrounded, At
    <3>3. r.verb # "patch" /\ r.revision = n
      BY <2>1 DEF RestRequests, At
    <3>4. SystemInv'
      BY <1>1, <3>1, <3>2, StoreRests, SystemMoves DEF Sound
    <3>5. ASSUME NEW k \in Numbers, Locked(k) PROVE LateEdit(k)
      <4> HIDE DEF r, n
      <4>1. \A v \in Workers : request'[v] = IF v = w THEN r ELSE request[v]
        BY <3>1 DEF Become, SystemInv
      <4>2. k # n
        BY <2>3, <3>5
      <4>3. \A v \in Workers : k \in PastCheck(v)' => k \in PastCheck(v)
        BY <3>3, <4>1, <4>2 DEF PastCheck, At
      <4> QED
        BY <1>1, <4>3, RestingContent, QuietStep
    <3> QED
      BY <3>4, <3>5 DEF LateEdits
  <2> QED
    BY <2>2, <2>3
<1> QED
  BY <1>3, <1>4, <1>5, <1>6, <1>7, <1>8 DEF RestRead

LEMMA VersionWritten ==
    ASSUME StoreInv, NEW n \in Numbers, Exists(n), NEW v \in Nat,
           revision' = [revision EXCEPT ![n].version = v]
    PROVE  /\ revision' \in [Numbers -> {NoRevision} \cup RevisionRows]
           /\ \A k \in Numbers : Exists(k) => Exists(k)'
           /\ \A k \in Numbers \ {n} : revision'[k] = revision[k]
<1>1. revision[n] \in RevisionRows
  BY StoredRows
<1> DEFINE row == [revision[n] EXCEPT !.version = v]
<1>2. row \in RevisionRows /\ row.status = revision[n].status
  BY <1>1 DEF RevisionRows
<1>3. revision' = [revision EXCEPT ![n] = row]
  OBVIOUS
<1> HIDE DEF row
<1> QED
  BY <1>2, <1>3 DEF StoreInv, Exists

(* A REST write touches the revision it named, and one that is there.      *)
Wrote(a, n) ==
    \/ assignment'[a] = assignment[a]
    \/ /\ assignment[a] = Unused \/ assignment[a].revision = n
       /\ assignment'[a].revision = n

OnlyWrote(n) ==
    /\ RowsStay
    /\ \A k \in Numbers \ {n} : revision'[k] = revision[k]
    /\ \A a \in Assignments : Wrote(a, n)

LEMMA RestEffect ==
    ASSUME SystemInv, NEW w \in Workers, RestWrite(w)
    PROVE  \E n \in Numbers : PastCheck(w) = {n} /\ OnlyWrote(n)
<1> DEFINE r == request[w]
<1>1. /\ StoreInv
      /\ assignment \in [Assignments -> {Unused} \cup AssignmentRows]
      /\ revision \in [Numbers -> {NoRevision} \cup RevisionRows]
  BY DEF SystemInv, StoreInv
<1>2. r \in RestRequests /\ RestGrounded(r) /\ At(w, "ready")
  BY RestOwn DEF RestWrite, PostWrite, PatchWrite, DeleteWrite, ReorderWrite, ReviseWrite,
                 Ready
<1>3. r.verb # "patch" => /\ r.revision \in Numbers /\ r.version \in Nat
                          /\ Exists(r.revision) /\ PastCheck(w) = {r.revision}
  BY <1>2 DEF RestRequests, RestGrounded, PastCheck
<1>4. WriteVersion(r) /\ r.verb # "patch" =>
          /\ revision' \in [Numbers -> {NoRevision} \cup RevisionRows]
          /\ \A k \in Numbers : Exists(k) => Exists(k)'
          /\ \A k \in Numbers \ {r.revision} : revision'[k] = revision[k]
  <2> SUFFICES ASSUME WriteVersion(r), r.verb # "patch"
               PROVE  /\ revision' \in [Numbers -> {NoRevision} \cup RevisionRows]
                      /\ \A k \in Numbers : Exists(k) => Exists(k)'
                      /\ \A k \in Numbers \ {r.revision} : revision'[k] = revision[k]
    OBVIOUS
  <2>1. revision' = [revision EXCEPT ![r.revision].version = r.version + 1]
    BY DEF WriteVersion
  <2> HIDE DEF r
  <2>2. r.version + 1 \in Nat
    BY <1>3
  <2> QED
    BY <1>1, <1>3, <2>1, <2>2, VersionWritten
<1> HIDE DEF r
<1>5. CASE PostWrite(w)
  <2>1. /\ r.verb = "post" /\ WriteVersion(r)
        /\ \E a \in Assignments :
               /\ assignment[a] = Unused
               /\ assignment' = [assignment EXCEPT ![a] =
                      NewAssignment(r.revision, r.position, 1, r.body, "none")]
    BY <1>5 DEF PostWrite, Ready, r
  <2> DEFINE new == NewAssignment(r.revision, r.position, 1, r.body, "none")
  <2>2. PICK a \in Assignments : /\ assignment[a] = Unused
                                 /\ assignment' = [assignment EXCEPT ![a] = new]
    BY <2>1
  <2>3. new \in AssignmentRows /\ new # Unused
    <3>1. r.position \in Positions /\ r.body \in Bodies
      BY <1>2, <2>1 DEF RestRequests
    <3> QED
      BY <1>3, <2>1, <3>1 DEF NewAssignment, AssignmentRows, Positions, Unused
  <2>4. new.revision = r.revision
    BY DEF NewAssignment
  <2> HIDE DEF new
  <2>5. RowsStay
    BY <1>1, <1>4, <2>1, <2>2, <2>3 DEF RowsStay
  <2>6. \A b \in Assignments : Wrote(b, r.revision)
    BY <1>1, <2>2, <2>4 DEF Wrote
  <2> QED
    BY <1>3, <1>4, <2>1, <2>5, <2>6 DEF OnlyWrote
<1>6. CASE PatchWrite(w)
  <2> DEFINE a == r.object
             n == r.row.revision
             new == [r.row EXCEPT !.link = assignment[r.object].link]
  <2>1. /\ r.verb = "patch" /\ revision' = revision
        /\ assignment' = [assignment EXCEPT ![a] = new]
    BY <1>6 DEF PatchWrite, Ready, r
  <2>2. a \in Assignments /\ r.row \in AssignmentRows
    BY <1>2, <2>1 DEF RestRequests
  <2>3. assignment[a] \in AssignmentRows /\ assignment[a].revision = n
    BY <1>1, <1>2, <2>1, <2>2, StoredRows DEF RestGrounded, RowOf
  <2>4. new \in AssignmentRows /\ new # Unused /\ new.revision = n
    BY <2>2, <2>3 DEF AssignmentRows, Unused
  <2>5. n \in Numbers
    BY <2>2 DEF AssignmentRows
  <2>6. PastCheck(w) = {n}
    BY <1>2, <2>1 DEF PastCheck, r
  <2> HIDE DEF a, n, new
  <2>7. RowsStay
    BY <1>1, <2>1, <2>4 DEF RowsStay, Exists
  <2>8. \A b \in Assignments : Wrote(b, n)
    BY <1>1, <2>1, <2>2, <2>3, <2>4 DEF Wrote
  <2> QED
    BY <2>1, <2>5, <2>6, <2>7, <2>8 DEF OnlyWrote
<1>7. CASE DeleteWrite(w)
  <2> DEFINE a == r.object
             new == [assignment[r.object] EXCEPT !.state = "deleted"]
  <2>1. /\ r.verb = "delete" /\ WriteVersion(r)
        /\ assignment' = [assignment EXCEPT ![a] = new]
    BY <1>7 DEF DeleteWrite, Ready, r
  <2>2. /\ a \in Assignments /\ assignment[a] \in AssignmentRows
        /\ assignment[a].revision = r.revision
    BY <1>1, <1>2, <2>1, StoredRows DEF RestRequests, RestGrounded, RowOf
  <2>3. new \in AssignmentRows /\ new # Unused /\ new.revision = r.revision
    BY <2>2 DEF AssignmentRows, Unused
  <2> HIDE DEF a, new
  <2>4. RowsStay
    BY <1>1, <1>4, <2>1, <2>3 DEF RowsStay
  <2>5. \A b \in Assignments : Wrote(b, r.revision)
    BY <1>1, <2>1, <2>2, <2>3 DEF Wrote
  <2> QED
    BY <1>3, <1>4, <2>1, <2>4, <2>5 DEF OnlyWrote
<1>8. CASE ReorderWrite(w)
  <2> DEFINE n == r.revision
             mine == Listed(r.order) \cap Rows(n)
  <2>1. /\ r.verb = "reorder" /\ WriteVersion(r)
        /\ assignment' = [a \in Assignments |->
                              IF a \in mine
                              THEN [assignment[a] EXCEPT !.position = r.order[a]]
                              ELSE assignment[a]]
    BY <1>8 DEF ReorderWrite, Ready, r
  <2>2. r.order \in [Assignments -> Nat]
    BY <1>2, <2>1 DEF RestRequests
  <2>3. \A a \in mine :
            LET new == [assignment[a] EXCEPT !.position = r.order[a]]
            IN  /\ new \in AssignmentRows /\ new # Unused
                /\ new.revision = n /\ assignment[a].revision = n
    <3> SUFFICES ASSUME NEW a \in mine
                 PROVE  LET new == [assignment[a] EXCEPT !.position = r.order[a]]
                        IN  /\ new \in AssignmentRows /\ new # Unused
                            /\ new.revision = n /\ assignment[a].revision = n
      OBVIOUS
    <3>1. /\ r.order[a] \in Nat \ {0} /\ assignment[a].revision = n
          /\ assignment[a] \in AssignmentRows
      BY <1>1, <2>2, StoredRows DEF Listed, Rows
    <3> QED
      BY <3>1 DEF AssignmentRows, Unused
  <2>4. mine \in SUBSET Assignments
    BY DEF Rows
  <2> HIDE DEF mine
  <2>5. RowsStay
    BY <1>1, <1>4, <2>1, <2>3 DEF RowsStay
  <2>6. \A a \in Assignments : Wrote(a, n)
    BY <2>1, <2>3, <2>4 DEF Wrote
  <2> QED
    BY <1>3, <1>4, <2>1, <2>5, <2>6 DEF OnlyWrote
<1>9. CASE ReviseWrite(w)
  <2> DEFINE new == [status |-> "draft", version |-> r.version + 1, prepared |-> r.prepared]
  <2>1. /\ r.verb = "revise" /\ assignment' = assignment
        /\ revision' = [revision EXCEPT ![r.revision] = new]
    BY <1>9 DEF ReviseWrite, Ready, r
  <2>2. r.prepared \in Preparers
    BY <1>2, <2>1 DEF RestRequests
  <2>3. new \in RevisionRows /\ new.status = "draft"
    BY <1>3, <2>1, <2>2 DEF RevisionRows
  <2> HIDE DEF new
  <2>4. RowsStay
    BY <1>1, <2>1, <2>3 DEF RowsStay, Exists
  <2> QED
    BY <1>1, <1>3, <2>1, <2>4 DEF OnlyWrote, Wrote
<1> QED
  BY <1>5, <1>6, <1>7, <1>8, <1>9 DEF RestWrite

LEMMA RestWrites ==
    ASSUME SystemInv, NEW w \in Workers, RestWrite(w)
    PROVE  SystemInv' /\ LateEdits
<1>1. Become(w, Idle) /\ outbox' = outbox
  BY DEF RestWrite, PostWrite, PatchWrite, DeleteWrite, ReorderWrite, ReviseWrite, Unwritten
<1>2. PICK n \in Numbers : PastCheck(w) = {n} /\ OnlyWrote(n)
  BY RestEffect
<1>3. SystemInv'
  <2>1. RowsAbide
    BY <1>2 DEF OnlyWrote, Wrote, RowsAbide
  <2> QED
    BY <1>1, <1>2, <2>1, IdleSound, SystemMoves DEF OnlyWrote
<1>4. ASSUME NEW k \in Numbers PROVE LateEdit(k)
  <2>1. CASE k = n
    BY <1>1, <1>2, <2>1, IdleStep
  <2>2. CASE k # n
    <3>1. \A a \in Assignments : assignment'[a] = assignment[a]
              \/ (a \notin Rows(k) /\ a \notin Rows(k)')
      BY <1>2, <2>2 DEF OnlyWrote, Wrote, Rows, Live, Unused
    <3>2. Content(k)' = Content(k)
      BY <3>1, SameContent
    <3> QED
      BY <1>1, <1>2, <2>2, <3>2, IdleStep DEF OnlyWrote
  <2> QED
    BY <2>1, <2>2
<1> QED
  BY <1>3, <1>4 DEF LateEdits

LEMMA SystemStep == SystemInv /\ [SystemNext]_vars => SystemInv' /\ [LateEdits]_vars
<1> SUFFICES ASSUME SystemInv, [SystemNext]_vars PROVE SystemInv' /\ LateEdits
  OBVIOUS
<1>1. CASE UNCHANGED <<store, request>> /\ outbox \subseteq outbox'
           /\ \A p \in outbox' \ outbox : p \in Payloads /\ Exists(p.revision)
  <2>1. request' = request /\ request' = [w \in Workers |-> request'[w]]
    BY <1>1 DEF SystemInv
  <2>2. SystemInv'
    BY <1>1, <2>1, StoreRests, SystemKept
  <2>3. \A n \in Numbers : \A v \in Workers : n \in PastCheck(v)' => n \in PastCheck(v)
    BY <2>1 DEF PastCheck, At
  <2>4. LateEdits
    BY <1>1, <2>3, RestingContent, QuietStep DEF LateEdits
  <2> QED
    BY <2>2, <2>4
<1>2. CASE Next
  <2>1. CASE \E w \in Workers : MutateReplay(w)
    BY <1>1, <2>1 DEF MutateReplay
  <2>2. CASE \E m \in Mutations, n \in Numbers : ClientSend(m, n)
    <3>1. PICK m \in Mutations, n \in Numbers : ClientSend(m, n)
      BY <2>2
    <3>2. PICK p \in Payloads :
              outbox' = outbox \cup {p} /\ Exists(p.revision) /\ UNCHANGED <<store, request>>
      BY <3>1, SendEffect DEF SystemInv
    <3> QED
      BY <1>1, <3>2
  <2> QED
    BY <1>2, <2>1, <2>2, StepKinds, WorkflowReads, WorkflowWrites
<1>3. CASE \E w \in Workers : RestRead(w) \/ SaveGate(w) \/ RestWrite(w)
  BY <1>3, RestReads, RestWrites
<1>4. CASE UNCHANGED vars
  BY <1>1, <1>4 DEF vars, store
<1> QED
  BY <1>2, <1>3, <1>4 DEF SystemNext

(* Beside mutations, approvals, copies and links, the unversioned REST     *)
(* writes reach an approved revision only from requests that had passed    *)
(* their last look at a draft before it was approved, once each.           *)
THEOREM ApprovedReachedByLateEdits == SystemSpec => ApprovedOnlyByLateEdits
  BY SystemInit, SystemStep, PTL DEF SystemSpec, ApprovedOnlyByLateEdits, LateEdits
=============================================================================
