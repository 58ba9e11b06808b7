---------------------------- MODULE Collaboration ----------------------------
(***************************************************************************)
(* Online editing of one ICS-205 plan, as the browser drives it: versioned *)
(* collaboration mutations (collaboration/services.py), approval and       *)
(* copying of revisions (plans/services.py), and radio-site links          *)
(* (sites/views.py, sites/services.py).                                    *)
(*                                                                         *)
(* A worker serves one HTTP request at a time, each a READ COMMITTED       *)
(* transaction.  A request is a few steps: every step reads the committed  *)
(* state of its moment, what a step read is kept in request[w], and the    *)
(* last step writes and commits.  apply_mutation holds the revision, plan  *)
(* and incident rows FOR UPDATE from before its first check to its commit, *)
(* and everything else here that writes those rows waits for it; its locked*)
(* part is therefore one step, and only the lookup of the mutation id,     *)
(* made before the lock, is a step of its own.  Approval, copying and site *)
(* links take no lock before they write: their checks and their writes are *)
(* separate steps.                                                         *)
(***************************************************************************)
EXTENDS Naturals, FiniteSets

CONSTANTS
    Workers,        \* the server's request workers
    Mutations,      \* client mutation ids
    Assignments,    \* assignment ids (UUIDs: never used twice)
    Seeded,         \* assignments that revision 1 starts with
    Linkable,       \* bound: assignments that users link to a radio site
    Bodies,         \* contents of an assignment, its position apart
    Publishing,     \* bodies that publish restricted contact fields
    Undetermined,   \* bodies without an operating classification
    Preparers,      \* values of the revision's prepared-by fields
    MaxPayloads,    \* bound: mutation payloads that clients send
    MaxRevision,    \* bound: revisions of the plan
    MaxPosition     \* bound: positions that clients ask for

ASSUME CollaborationAssumption ==
    /\ Seeded \subseteq Assignments
    /\ Linkable \subseteq Assignments
    /\ Publishing \subseteq Bodies
    /\ Undetermined \subseteq Bodies
    /\ MaxPayloads \in Nat
    /\ MaxRevision \in Nat \ {0}
    /\ MaxPosition \in Nat \ {0}

VARIABLES
    revision,       \* PlanRevision rows, by number
    assignment,     \* Assignment rows and their site link, by id
    change,         \* CollaborationChange rows, by client mutation id
    outbox,         \* payloads that clients have composed; one may reach the
                    \* server late, more than once, or never
    answers,        \* history: answers given to payloads
    applied,        \* history: how often a mutation took effect
    sealed,         \* history: what each approval of a revision approved
    request         \* what each worker's request has read so far

vars == <<revision, assignment, change, outbox, answers, applied, sealed, request>>
store == <<revision, assignment>>

-----------------------------------------------------------------------------
Numbers   == 1 .. MaxRevision
Positions == 1 .. MaxPosition
Keep      == 0          \* an update that does not mention the position

NoRevision == [status |-> "none", version |-> 0, prepared |-> "none"]
NoChange   == [disposition |-> "none"]
Idle       == [step |-> "idle"]

NewRevision(prepared) == [status |-> "draft", version |-> 1, prepared |-> prepared]

(* A row that was deleted keeps its id: a UUID is not issued again.        *)
Unused == [state |-> "unused"]
NewAssignment(n, position, version, body, link) ==
    [state |-> "live", revision |-> n, position |-> position,
     version |-> version, body |-> body, link |-> link]

Live(a)    == assignment[a].state = "live"
Rows(n)    == {a \in Assignments : Live(a) /\ assignment[a].revision = n}
Exists(n)  == revision[n].status # "none"
Draft(n)   == revision[n].status = "draft"
Locked(n)  == revision[n].status = "approved"
Linked(a)  == assignment[a].link \in {"live", "frozen"}

(* The order of the rows, 0 for an id that is not among them, and the plan *)
(* as it is printed.                                                       *)
Order(n)   == [a \in Assignments |-> IF a \in Rows(n) THEN assignment[a].position ELSE 0]
Listed(order) == {a \in Assignments : order[a] # 0}
Content(n) == [a \in Rows(n) |-> [position |-> assignment[a].position,
                                  body     |-> assignment[a].body]]

(* contact_publication_manifest(); its digest is taken to be injective.    *)
Manifest(n) == {<<a, assignment[a].position, assignment[a].body>> :
                    a \in {b \in Rows(n) : assignment[b].body \in Publishing}}

(* Here and below, a definition that stands before another with the same   *)
(* parameters and a longer name is that one with a slip, and is used in no *)
(* specification: its substitution shows that a property notices.          *)
Taken(rows, position) == \E a \in rows : assignment[a].position = position

DraftExistsIgnored == FALSE
DraftExists == \E n \in Numbers : Draft(n)

(* Max("number") + 1 over the plan's revisions.                            *)
NextNumber ==
    1 + (CHOOSE n \in Numbers : Exists(n) /\ \A k \in Numbers : Exists(k) => k <= n)

Become(w, r) == request' = [request EXCEPT ![w] = r]
At(w, step)  == request[w].step = step

-----------------------------------------------------------------------------
Init ==
    /\ \E v \in Preparers :
           revision = [n \in Numbers |-> IF n = 1 THEN NewRevision(v) ELSE NoRevision]
    /\ \E position \in [Seeded -> Positions], body \in [Seeded -> Bodies] :
           /\ \A a, b \in Seeded : position[a] = position[b] => a = b
           /\ assignment = [a \in Assignments |->
                                IF a \in Seeded
                                THEN NewAssignment(1, position[a], 1, body[a], "none")
                                ELSE Unused]
    /\ change = [m \in Mutations |-> NoChange]
    /\ outbox = {}
    /\ answers = {}
    /\ applied = [m \in Mutations |-> 0]
    /\ sealed = [n \in Numbers |-> {}]
    /\ request = [w \in Workers |-> Idle]

-----------------------------------------------------------------------------
(* A browser composes a mutation from the plan it shows.  "seen" is what   *)
(* the user saw of the value that the mutation replaces; the server never  *)
(* gets it.  The same client mutation id may be used for two payloads.     *)
Send(p) ==
    /\ Cardinality(outbox) < MaxPayloads
    /\ outbox' = outbox \cup {p}
    /\ UNCHANGED <<store, change, answers, applied, sealed, request>>

SendRevisionUpdate(m, n) ==
    \E prepared \in Preparers \ {revision[n].prepared} :
        Send([id |-> m, op |-> "revision.update", revision |-> n,
              base |-> revision[n].version,
              prepared |-> prepared, seen |-> revision[n].prepared])

SendCreate(m, n) ==
    \E position \in Positions, body \in Bodies :
        Send([id |-> m, op |-> "assignment.create", revision |-> n,
              base |-> revision[n].version,
              position |-> position, body |-> body, seen |-> Rows(n)])

SendUpdate(m, n) ==
    \E a \in Rows(n) :
        \E position \in {Keep} \cup Positions, body \in Bodies :
           Send([id |-> m, op |-> "assignment.update", revision |-> n,
                 base |-> assignment[a].version, object |-> a,
                 position |-> position, body |-> body,
                 seen |-> assignment[a].body])

SendDelete(m, n) ==
    \E a \in Rows(n) :
        Send([id |-> m, op |-> "assignment.delete", revision |-> n,
              base |-> assignment[a].version, object |-> a,
              seen |-> assignment[a].body])

(* The list of ids, as the position that each one gets.                    *)
SendReorder(m, n) ==
    LET size == Cardinality(Rows(n))
    IN  /\ size > 1
        /\ \E order \in [Assignments -> 0 .. size] :
               /\ Listed(order) = Rows(n)
               /\ \A a, b \in Rows(n) : order[a] = order[b] => a = b
               /\ Send([id |-> m, op |-> "assignment.reorder", revision |-> n,
                        base |-> revision[n].version,
                        order |-> order, seen |-> Order(n)])

ClientSend(m, n) ==
    /\ Exists(n)
    /\ \/ SendRevisionUpdate(m, n)
       \/ SendCreate(m, n)
       \/ SendUpdate(m, n)
       \/ SendDelete(m, n)
       \/ SendReorder(m, n)

-----------------------------------------------------------------------------
(* apply_mutation(), before the lock: look the mutation id up.  A known id *)
(* with the same actor, device and payload digest returns the retained     *)
(* outcome; with another payload it is refused.                            *)
Answer(p, outcome) == answers' = answers \cup {[payload |-> p, outcome |-> outcome]}

KnownAnswerAnyDigest(p) == change[p.id].disposition
KnownAnswer(p) ==
    IF change[p.id].payload = p THEN change[p.id].disposition ELSE "refused"

MutateReplay(w) ==
    /\ At(w, "idle")
    /\ \E p \in outbox :
           /\ change[p.id] # NoChange
           /\ Answer(p, KnownAnswer(p))
    /\ UNCHANGED <<store, change, outbox, applied, sealed, request>>

MutateStart(w) ==
    /\ At(w, "idle")
    /\ \E p \in outbox :
           /\ change[p.id] = NoChange
           /\ Become(w, [step |-> "mutate", payload |-> p])
    /\ UNCHANGED <<store, change, outbox, answers, applied, sealed>>

-----------------------------------------------------------------------------
(* apply_mutation(), under the lock.                                       *)
OnAssignment(p) == p.op \in {"assignment.update", "assignment.delete"}

RejectedWhenMissing(p) == OnAssignment(p) /\ p.object \notin Rows(p.revision)
RejectedOutright(p) ==
    \/ Locked(p.revision)
    \/ OnAssignment(p) /\ p.object \notin Rows(p.revision)

CurrentVersion(p) ==
    IF OnAssignment(p) THEN assignment[p.object].version
                       ELSE revision[p.revision].version

StaleIgnored(p) == FALSE
Stale(p) == CurrentVersion(p) # p.base

(* What the database decides of the checks after the version check: a      *)
(* unique position, no site link on a row to be deleted, a complete list.  *)
RejectedLate(p) ==
    \/ p.op = "assignment.create" /\ Taken(Rows(p.revision), p.position)
    \/ p.op = "assignment.update" /\ Taken(Rows(p.revision) \ {p.object}, p.position)
    \/ p.op = "assignment.delete" /\ Linked(p.object)
    \/ p.op = "assignment.reorder" /\ Listed(p.order) # Rows(p.revision)

(* The outcomes that are possible now.  Whether the fields are supported,  *)
(* pass the serializer and the sensitive-field rules, and whether retained *)
(* records protect a row from deletion is not modelled: each may reject a  *)
(* mutation, unsupported fields of a revision even before the version is   *)
(* compared.                                                               *)
Outcomes(p) ==
    IF RejectedOutright(p) THEN {"rejected"}
    ELSE IF Stale(p)
    THEN {"conflict"} \cup IF p.op = "revision.update" THEN {"rejected"} ELSE {}
    ELSE {"rejected"} \cup IF RejectedLate(p) THEN {} ELSE {"saved"}

(* An approver holds the rows of the links that it froze; a delete that    *)
(* got past the version check locks the row's links and waits for it.      *)
LinkHeld(a) == \E v \in Workers : At(v, "frozen") /\ a \in request[v].links

WaitsForLink(p) ==
    /\ p.op = "assignment.delete"
    /\ ~ RejectedOutright(p)
    /\ ~ Stale(p)
    /\ LinkHeld(p.object)

Bumped(row) == [row EXCEPT !.version = @ + 1]

BumpRevision(n) == revision' = [revision EXCEPT ![n] = Bumped(@)]

SaveRevisionUpdate(p) ==
    /\ p.op = "revision.update"
    /\ revision' = [revision EXCEPT ![p.revision] =
                        [Bumped(@) EXCEPT !.prepared = p.prepared]]
    /\ UNCHANGED assignment

SaveCreate(p) ==
    /\ p.op = "assignment.create"
    /\ \E a \in Assignments :
           /\ assignment[a] = Unused
           /\ assignment' = [assignment EXCEPT ![a] =
                  NewAssignment(p.revision, p.position, 1, p.body, "none")]
    /\ BumpRevision(p.revision)

(* A partial update: the fields of the payload, and a new version.         *)
EditedUnversioned(row, p) ==
    [row EXCEPT !.body = p.body,
                !.position = IF p.position = Keep THEN row.position ELSE p.position]

Edited(row, p) ==
    [Bumped(row) EXCEPT
         !.body = p.body,
         !.position = IF p.position = Keep THEN row.position ELSE p.position]

SaveUpdate(p) ==
    /\ p.op = "assignment.update"
    /\ assignment' = [assignment EXCEPT ![p.object] = Edited(@, p)]
    /\ UNCHANGED revision

SaveDelete(p) ==
    /\ p.op = "assignment.delete"
    /\ assignment' = [assignment EXCEPT ![p.object].state = "deleted"]
    /\ BumpRevision(p.revision)

SaveReorder(p) ==
    /\ p.op = "assignment.reorder"
    /\ assignment' = [a \in Assignments |->
                          IF a \in Rows(p.revision)
                          THEN [assignment[a] EXCEPT !.position = p.order[a]]
                          ELSE assignment[a]]
    /\ BumpRevision(p.revision)

Save(p) ==
    \/ SaveRevisionUpdate(p)
    \/ SaveCreate(p)
    \/ SaveUpdate(p)
    \/ SaveDelete(p)
    \/ SaveReorder(p)

(* client_mutation_id is UNIQUE in CollaborationChange.                    *)
IdTakenIgnored(m) == FALSE
IdTaken(m) == change[m] # NoChange

(* Every outcome is retained; only a saved one touches the plan.           *)
MutateCommit(w) ==
    /\ At(w, "mutate")
    /\ \E p \in {request[w].payload} : \E d \in Outcomes(p) :
           /\ ~ IdTaken(p.id)
           /\ ~ WaitsForLink(p)
           /\ \/ d = "saved" /\ Save(p)
              \/ d # "saved" /\ UNCHANGED store
           /\ change' = [change EXCEPT ![p.id] = [disposition |-> d, payload |-> p]]
           /\ applied' = [applied EXCEPT ![p.id] = IF d = "saved" THEN @ + 1 ELSE @]
           /\ Answer(p, d)
    /\ Become(w, Idle)
    /\ UNCHANGED <<outbox, sealed>>

(* A request with the same id committed since the lookup: the INSERT of    *)
(* the change fails and takes the whole request with it.                   *)
MutateCollides(w) ==
    /\ At(w, "mutate")
    /\ IdTaken(request[w].payload.id)
    /\ Become(w, Idle)
    /\ UNCHANGED <<store, change, outbox, answers, applied, sealed>>

-----------------------------------------------------------------------------
(* An approver reads the approval preview of a draft and its digest.       *)
Preview(w, n) ==
    /\ At(w, "idle")
    /\ Draft(n)
    /\ Become(w, [step |-> "preview", revision |-> n, digest |-> Manifest(n)])
    /\ UNCHANGED <<store, change, outbox, answers, applied, sealed>>

(* approve_revision(): the checks.                                         *)
Approvable(n, digest) ==
    /\ Draft(n)
    /\ Rows(n) # {}
    /\ \A a \in Rows(n) : assignment[a].body \notin Undetermined
    /\ Manifest(n) # {} => digest = Manifest(n)

ApproveValidate(w) ==
    /\ At(w, "preview")
    /\ LET n == request[w].revision
       IN  /\ Approvable(n, request[w].digest)
           /\ Become(w, [step |-> "validated", revision |-> n, digest |-> Manifest(n)])
    /\ UNCHANGED <<store, change, outbox, answers, applied, sealed>>

ApproveRefused(w) ==
    /\ At(w, "preview")
    /\ ~ Approvable(request[w].revision, request[w].digest)
    /\ Become(w, Idle)
    /\ UNCHANGED <<store, change, outbox, answers, applied, sealed>>

(* freeze_revision_sites() writes a snapshot into the links it finds; then *)
(* PlanRevision.save() asks once more whether the revision is approved.    *)
ApproveFreeze(w) ==
    /\ At(w, "validated")
    /\ LET n == request[w].revision
       IN  IF Locked(n)
           THEN Become(w, Idle)
           ELSE Become(w, [step |-> "frozen", revision |-> n,
                           digest |-> request[w].digest,
                           links |-> {a \in Rows(n) : Linked(a)}])
    /\ UNCHANGED <<store, change, outbox, answers, applied, sealed>>

ApproveCommit(w) ==
    /\ At(w, "frozen")
    /\ LET n == request[w].revision
       IN  /\ revision' = [revision EXCEPT ![n].status = "approved"]
           /\ assignment' = [a \in Assignments |->
                                 IF a \in request[w].links
                                 THEN [assignment[a] EXCEPT !.link = "frozen"]
                                 ELSE assignment[a]]
           /\ sealed' = [sealed EXCEPT ![n] = @ \cup
                  {[by |-> w, content |-> Content(n), confirmed |-> request[w].digest]}]
    /\ Become(w, Idle)
    /\ UNCHANGED <<change, outbox, answers, applied>>

-----------------------------------------------------------------------------
(* RevisionViewSet.copy and .create: refuse while there is a draft, then   *)
(* number the new revision, then insert it.  source is {} for an empty     *)
(* revision.                                                               *)
CopyCheck(w) ==
    /\ At(w, "idle")
    /\ ~ DraftExists
    /\ \E source \in {{}} \cup {{n} : n \in {k \in Numbers : Exists(k)}} :
           Become(w, [step |-> "copy", source |-> source])
    /\ UNCHANGED <<store, change, outbox, answers, applied, sealed>>

CopyNumber(w) ==
    /\ At(w, "copy")
    /\ NextNumber \in Numbers
    /\ Become(w, [step |-> "numbered", source |-> request[w].source,
                  number |-> NextNumber])
    /\ UNCHANGED <<store, change, outbox, answers, applied, sealed>>

(* UNIQUE (plan, number).                                                  *)
NumberTakenIgnored(number) == FALSE
NumberTaken(number) == Exists(number)

SourceRows(source) == UNION {Rows(n) : n \in source}

(* copy_revision() duplicates the rows, versions included, and gives the   *)
(* copies links without a snapshot.                                        *)
CopiedRow(row, number) ==
    NewAssignment(number, row.position, row.version, row.body,
                  IF row.link \in {"live", "frozen"} THEN "live" ELSE "none")

CopyInsert(w) ==
    /\ At(w, "numbered")
    /\ LET number == request[w].number
           source == request[w].source
       IN  /\ ~ NumberTaken(number)
           /\ \E prepared \in IF source = {} THEN Preparers
                              ELSE {revision[n].prepared : n \in source} :
                  revision' = [revision EXCEPT ![number] = NewRevision(prepared)]
           /\ \E original \in [Assignments -> {{}} \cup {{a} : a \in SourceRows(source)}] :
                  /\ \A a \in Assignments : original[a] # {} => assignment[a] = Unused
                  /\ \A a, b \in Assignments :
                         original[a] = original[b] /\ original[a] # {} => a = b
                  /\ UNION {original[a] : a \in Assignments} = SourceRows(source)
                  /\ assignment' = [a \in Assignments |->
                         IF original[a] = {} THEN assignment[a]
                         ELSE CopiedRow(assignment[CHOOSE b \in original[a] : TRUE], number)]
    /\ Become(w, Idle)
    /\ UNCHANGED <<change, outbox, answers, applied, sealed>>

CopyCollides(w) ==
    /\ At(w, "numbered")
    /\ NumberTaken(request[w].number)
    /\ Become(w, Idle)
    /\ UNCHANGED <<store, change, outbox, answers, applied, sealed>>

-----------------------------------------------------------------------------
(* Radio-site links, one site per assignment.  Both requests look at the   *)
(* revision's status when they read the row, and write later.              *)
LinkRead(w, a) ==
    /\ At(w, "idle")
    /\ Live(a) /\ Draft(assignment[a].revision)
    /\ assignment[a].link = "none"
    /\ Become(w, [step |-> "link", object |-> a])
    /\ UNCHANGED <<store, change, outbox, answers, applied, sealed>>

(* The foreign key fails when the assignment is gone, the UNIQUE           *)
(* constraint when the link is there.                                      *)
MayLink(a) == Live(a) /\ assignment[a].link = "none"

LinkCommit(w) ==
    /\ At(w, "link")
    /\ LET a == request[w].object
       IN  IF MayLink(a)
           THEN assignment' = [assignment EXCEPT ![a].link = "live"]
           ELSE UNCHANGED assignment
    /\ Become(w, Idle)
    /\ UNCHANGED <<revision, change, outbox, answers, applied, sealed>>

UnlinkRead(w, a) ==
    /\ At(w, "idle")
    /\ Live(a) /\ Draft(assignment[a].revision)
    /\ Linked(a)
    /\ Become(w, [step |-> "unlink", object |-> a])
    /\ UNCHANGED <<store, change, outbox, answers, applied, sealed>>

(* Bound: an assignment whose link was removed is not linked again.        *)
UnlinkCommit(w) ==
    /\ At(w, "unlink")
    /\ LET a == request[w].object
       IN  /\ ~ LinkHeld(a)
           /\ IF Live(a) THEN assignment' = [assignment EXCEPT ![a].link = "removed"]
                         ELSE UNCHANGED assignment
    /\ Become(w, Idle)
    /\ UNCHANGED <<revision, change, outbox, answers, applied, sealed>>

-----------------------------------------------------------------------------
(* Any request may end before it commits: the worker dies, the audit row   *)
(* collides, PostgreSQL makes it the victim of a deadlock.                 *)
Abort(w) ==
    /\ ~ At(w, "idle")
    /\ Become(w, Idle)
    /\ UNCHANGED <<store, change, outbox, answers, applied, sealed>>

Mutate(w) == MutateReplay(w) \/ MutateStart(w) \/ MutateCommit(w) \/ MutateCollides(w)

Approve(w) ==
    \/ \E n \in Numbers : Preview(w, n)
    \/ ApproveValidate(w) \/ ApproveRefused(w) \/ ApproveFreeze(w) \/ ApproveCommit(w)

Copy(w) == CopyCheck(w) \/ CopyNumber(w) \/ CopyInsert(w) \/ CopyCollides(w)

SiteLink(w) ==
    \/ \E a \in Linkable : LinkRead(w, a) \/ UnlinkRead(w, a)
    \/ LinkCommit(w) \/ UnlinkCommit(w)

Serve(w) == Mutate(w) \/ Approve(w) \/ Copy(w) \/ SiteLink(w) \/ Abort(w)

Next ==
    \/ \E m \in Mutations, n \in Numbers : ClientSend(m, n)
    \/ \E w \in Workers : Serve(w)

Spec == Init /\ [][Next]_vars

-----------------------------------------------------------------------------
Payloads ==
    [id : Mutations, op : {"revision.update"}, revision : Numbers, base : Nat,
     prepared : Preparers, seen : Preparers]
  \cup
    [id : Mutations, op : {"assignment.create"}, revision : Numbers, base : Nat,
     position : Positions, body : Bodies, seen : SUBSET Assignments]
  \cup
    [id : Mutations, op : {"assignment.update"}, revision : Numbers, base : Nat,
     object : Assignments, position : {Keep} \cup Positions,
     body : Bodies, seen : Bodies]
  \cup
    [id : Mutations, op : {"assignment.delete"}, revision : Numbers, base : Nat,
     object : Assignments, seen : Bodies]
  \cup
    [id : Mutations, op : {"assignment.reorder"}, revision : Numbers, base : Nat,
     order : [Assignments -> Nat], seen : [Assignments -> Nat]]

Dispositions == {"saved", "conflict", "rejected"}

Requests ==
    {Idle}
  \cup [step : {"mutate"}, payload : outbox]
  \cup [step : {"preview", "validated"}, revision : Numbers,
        digest : SUBSET (Assignments \X Nat \X Publishing)]
  \cup [step : {"frozen"}, revision : Numbers,
        digest : SUBSET (Assignments \X Nat \X Publishing),
        links : SUBSET Assignments]
  \cup [step : {"copy"}, source : SUBSET Numbers]
  \cup [step : {"numbered"}, source : SUBSET Numbers, number : Numbers]
  \cup [step : {"link", "unlink"}, object : Assignments]

(* Rows, retained changes, payloads and requests are what the tables and   *)
(* the handlers hold.                                                      *)
TypeOK ==
    /\ revision \in [Numbers -> {NoRevision} \cup
           [status : {"draft", "approved"}, version : Nat, prepared : Preparers]]
    /\ assignment \in [Assignments -> {Unused} \cup
           [state : {"live", "deleted"}, revision : Numbers, position : Nat \ {0},
            version : Nat, body : Bodies, link : {"none", "live", "frozen", "removed"}]]
    /\ outbox \subseteq Payloads
    /\ change \in [Mutations -> {NoChange} \cup
           [disposition : Dispositions, payload : outbox]]
    /\ answers \subseteq [payload : outbox, outcome : Dispositions \cup {"refused"}]
    /\ applied \in [Mutations -> Nat]
    /\ request \in [Workers -> Requests]

(* A client mutation id takes effect at most once, and exactly when a      *)
(* saved change is retained for it, however often the request is sent and  *)
(* however its copies interleave: two copies can both pass the lookup.     *)
AppliedOnce ==
    \A m \in Mutations :
        applied[m] = IF change[m].disposition = "saved" THEN 1 ELSE 0

(* ADR-0018: replayed ids are idempotent only for the same payload.  Every *)
(* answer ever given agrees with the one retained outcome of its id, and a *)
(* different payload under that id is never answered with it.              *)
ReplayIdempotent ==
    \A x \in answers :
        LET c == change[x.payload.id]
        IN  /\ c # NoChange
            /\ IF c.payload = x.payload THEN x.outcome = c.disposition
                                        ELSE x.outcome = "refused"

(* A version a client holds is a promise: while it is the current one, the *)
(* value the client saw is the value that is saved.                        *)
TokenSound(p) ==
    CASE p.op = "revision.update" ->
             revision[p.revision].version = p.base
                 => revision[p.revision].prepared = p.seen
      [] p.op = "assignment.create" ->
             revision[p.revision].version = p.base => Rows(p.revision) = p.seen
      [] p.op = "assignment.reorder" ->
             revision[p.revision].version = p.base => Rows(p.revision) = Listed(p.seen)
      [] OnAssignment(p) ->
             Live(p.object) /\ assignment[p.object].version = p.base
                 => assignment[p.object].body = p.seen

(* apply_mutation compares collaboration versions only.  That is enough:   *)
(* no two values of a row, of the prepared-by fields or of the set of      *)
(* assignments ever share a version.                                       *)
VersionTokensSound == \A p \in outbox : TokenSound(p)

(* ADR-0018: a stale write "never overwrites the current value".  A saved  *)
(* value changes or goes only by a mutation whose author saw that value.   *)
JustSaved(p) == /\ change[p.id] = NoChange
                /\ change'[p.id] = [disposition |-> "saved", payload |-> p]

NoSilentOverwrite ==
    [][/\ \A a \in Assignments :
              Live(a) /\ (~ Live(a)' \/ assignment'[a].body # assignment[a].body)
              => \E p \in outbox : /\ JustSaved(p) /\ OnAssignment(p)
                                   /\ p.object = a
                                   /\ p.seen = assignment[a].body
       /\ \A n \in Numbers :
              Exists(n) /\ revision'[n].prepared # revision[n].prepared
              => \E p \in outbox : /\ JustSaved(p) /\ p.op = "revision.update"
                                   /\ p.revision = n
                                   /\ p.seen = revision[n].prepared]_vars

(* ADR-0018: "Approved revisions remain immutable."  What an approval      *)
(* sealed stays approved, with the same rows at the same positions,        *)
(* whatever mutations were under way when it was approved.                 *)
ApprovedContentImmutable ==
    \A n \in Numbers : \A s \in sealed[n] : Locked(n) /\ Content(n) = s.content

(* A new draft is empty or starts as the exact content of an approved      *)
(* revision, never of one that somebody was still editing.                 *)
Printed(content) == {<<content[a].position, content[a].body>> : a \in DOMAIN content}

DraftsStartFromApproved ==
    [][\A n \in Numbers :
           ~ Exists(n) /\ Exists(n)' /\ Rows(n)' # {} =>
               \E k \in Numbers : \E s \in sealed[k] :
                   Printed(Content(n)') = Printed(s.content)]_vars

(* The revisions of the plan live the life that the plan component         *)
(* promises: only drafts change, approval is final, and no request ever    *)
(* touches two revisions.                                                  *)
Lifecycle == INSTANCE RevisionLifecycle WITH
    status  <- [n \in Numbers |-> revision[n].status],
    content <- [n \in Numbers |-> [prepared |-> revision[n].prepared,
                                   rows     |-> Content(n)]]

ImplementsLifecycle == Lifecycle!Spec

-----------------------------------------------------------------------------
(* What the repository says and the code does not keep.                    *)

(* ADR-0018 on the approval preview: restricted contacts are published     *)
(* only as "an approver confirms the matching approval-preview digest".    *)
PublishedContactsConfirmed ==
    \A n \in Numbers : \A s \in sealed[n] :
        {<<a, s.content[a].position, s.content[a].body>> :
             a \in {b \in DOMAIN s.content : s.content[b].body \in Publishing}}
        \subseteq s.confirmed
=============================================================================
