---------------------------- MODULE PlanRequests ----------------------------
(***************************************************************************)
(* The REST endpoints of plans/views.py, beside the collaboration          *)
(* workflow.  They edit the same rows without a base version and without a *)
(* lock: get_object() reads a row and its revision, the serializer checks  *)
(* that the revision it read is a draft, PlanRevision.save() asks the      *)
(* database once more, and the write follows.  Model.save() writes the     *)
(* whole row it read.                                                      *)
(***************************************************************************)
EXTENDS Collaboration

CONSTANT MaxVersion     \* bound: versions from which a REST edit starts

ASSUME PlanRequestsAssumption == MaxVersion \in Nat

Unwritten == <<change, outbox, answers, applied, sealed>>

Injective(order) ==
    \A a, b \in Listed(order) : order[a] = order[b] => a = b

Editable(n) == Draft(n) /\ revision[n].version <= MaxVersion

(* The first reads of a request, and what the client asks for.             *)
Read(w, r) ==
    /\ At(w, "idle")
    /\ Become(w, r)
    /\ UNCHANGED <<store, Unwritten>>

PostRead(w, n) ==
    /\ Editable(n)
    /\ \E position \in Positions, body \in Bodies :
           /\ ~ Taken(Rows(n), position)
           /\ Read(w, [step |-> "read", verb |-> "post", revision |-> n,
                       version |-> revision[n].version,
                       position |-> position, body |-> body])

PatchRead(w, a) ==
    /\ Live(a) /\ Draft(assignment[a].revision)
    /\ assignment[a].version <= MaxVersion
    /\ \E position \in Positions, body \in Bodies :
           /\ ~ Taken(Rows(assignment[a].revision) \ {a}, position)
           /\ Read(w, [step |-> "ready", verb |-> "patch", object |-> a,
                       row |-> [assignment[a] EXCEPT !.body = body, !.version = @ + 1,
                                                     !.position = position]])

DeleteRead(w, a) ==
    /\ Live(a) /\ Editable(assignment[a].revision)
    /\ LET n == assignment[a].revision
       IN  Read(w, [step |-> "read", verb |-> "delete", revision |-> n,
                    version |-> revision[n].version, object |-> a])

(* reorder() compares the ids as a set, so an id may be listed twice; its  *)
(* last place counts.                                                      *)
ReorderRead(w, n) ==
    /\ Editable(n)
    /\ \E order \in [Assignments -> 0 .. MaxPosition] :
           /\ Listed(order) = Rows(n) /\ Rows(n) # {} /\ Injective(order)
           /\ Read(w, [step |-> "read", verb |-> "reorder", revision |-> n,
                       version |-> revision[n].version, order |-> order])

ReviseRead(w, n) ==
    /\ Editable(n)
    /\ \E prepared \in Preparers :
           Read(w, [step |-> "read", verb |-> "revise", revision |-> n,
                    version |-> revision[n].version, prepared |-> prepared])

(* PlanRevision.save() looks the status up.                                *)
SaveGateIgnored(w) ==
    /\ At(w, "read")
    /\ Become(w, [request[w] EXCEPT !.step = "ready"])
    /\ UNCHANGED <<store, Unwritten>>

SaveGate(w) ==
    /\ At(w, "read")
    /\ IF Locked(request[w].revision)
       THEN Become(w, Idle)
       ELSE Become(w, [request[w] EXCEPT !.step = "ready"])
    /\ UNCHANGED <<store, Unwritten>>

(* save(update_fields=["collaboration_version", ...]) of the version read. *)
WriteVersion(r) == revision' = [revision EXCEPT ![r.revision].version = r.version + 1]

-----------------------------------------------------------------------------
(* The writes.  Each fails, and the request with it, when a constraint of  *)
(* the database does not hold any more.                                    *)
Ready(w, verb) == At(w, "ready") /\ request[w].verb = verb

PostWrite(w) ==
    /\ Ready(w, "post")
    /\ LET r == request[w]
       IN  /\ ~ Taken(Rows(r.revision), r.position)
           /\ \E a \in Assignments :
                  /\ assignment[a] = Unused
                  /\ assignment' = [assignment EXCEPT ![a] =
                         NewAssignment(r.revision, r.position, 1, r.body, "none")]
           /\ WriteVersion(r)
    /\ Become(w, Idle)
    /\ UNCHANGED Unwritten

(* An UPDATE that finds no row makes Django INSERT it: a row deleted since *)
(* the read comes back.                                                    *)
PatchWrite(w) ==
    /\ Ready(w, "patch")
    /\ LET r == request[w]
       IN  /\ ~ Taken(Rows(r.row.revision) \ {r.object}, r.row.position)
           /\ assignment' = [assignment EXCEPT ![r.object] =
                                 [r.row EXCEPT !.link = assignment[r.object].link]]
    /\ Become(w, Idle)
    /\ UNCHANGED <<revision, Unwritten>>

(* Site links protect the row.                                             *)
DeleteWrite(w) ==
    /\ Ready(w, "delete")
    /\ LET r == request[w]
       IN  /\ ~ Linked(r.object)
           /\ assignment' = [assignment EXCEPT ![r.object].state = "deleted"]
           /\ WriteVersion(r)
    /\ Become(w, Idle)
    /\ UNCHANGED Unwritten

ReorderWrite(w) ==
    /\ Ready(w, "reorder")
    /\ LET r == request[w]
           mine == Listed(r.order) \cap Rows(r.revision)
       IN  /\ \A a \in mine : ~ Taken(Rows(r.revision) \ mine, r.order[a])
           /\ assignment' = [a \in Assignments |->
                                 IF a \in mine
                                 THEN [assignment[a] EXCEPT !.position = r.order[a]]
                                 ELSE assignment[a]]
           /\ WriteVersion(r)
    /\ Become(w, Idle)
    /\ UNCHANGED Unwritten

(* The whole row, its status included.                                     *)
ReviseWrite(w) ==
    /\ Ready(w, "revise")
    /\ LET r == request[w]
       IN  revision' = [revision EXCEPT ![r.revision] =
               [status |-> "draft", version |-> r.version + 1, prepared |-> r.prepared]]
    /\ Become(w, Idle)
    /\ UNCHANGED <<assignment, Unwritten>>

-----------------------------------------------------------------------------
RestRead(w) ==
    \/ \E n \in Numbers : PostRead(w, n) \/ ReorderRead(w, n) \/ ReviseRead(w, n)
    \/ \E a \in Assignments : PatchRead(w, a) \/ DeleteRead(w, a)

RestWrite(w) ==
    PostWrite(w) \/ PatchWrite(w) \/ DeleteWrite(w) \/ ReorderWrite(w) \/ ReviseWrite(w)

SystemNext ==
    \/ Next
    \/ \E w \in Workers : RestRead(w) \/ SaveGate(w) \/ RestWrite(w)

SystemSpec == Init /\ [][SystemNext]_vars

-----------------------------------------------------------------------------
(* The revisions that the REST request of w writes without another look at *)
(* their status.                                                           *)
PastCheck(w) ==
    IF ~ At(w, "ready") THEN {}
    ELSE IF request[w].verb = "patch" THEN {request[w].row.revision}
    ELSE {request[w].revision}

(* An approved revision is not immutable beside these endpoints, but only  *)
(* requests that had passed their last look at a draft before the approval *)
(* still reach it (its fields, its rows, its status), each of them at most *)
(* once, and no request joins them while it is approved: neither a         *)
(* mutation, nor a copy, nor one of the REST requests between its reads.   *)
LateEdit(n) ==
    /\ \A w \in Workers : n \in PastCheck(w)' => n \in PastCheck(w)
    /\ <<revision[n], Content(n)>>' # <<revision[n], Content(n)>> =>
           \E w \in Workers : n \in PastCheck(w) /\ n \notin PastCheck(w)'

ApprovedOnlyByLateEdits == [][\A n \in Numbers : Locked(n) => LateEdit(n)]_vars
=============================================================================
