-------------------------- MODULE ProfileVersions --------------------------
(***************************************************************************)
(* Subscriber profiles of rf_analysis: one profile, its versions and the   *)
(* input snapshots taken from them.  A version is edited as a draft,       *)
(* approved once, and then copied into the next draft.  Every request is a *)
(* READ COMMITTED transaction: it reads what is committed, waits for a row *)
(* lock only when it writes, and writes what it computed from the rows it  *)
(* read.  A request that is refused changes nothing: it just ends.         *)
(* Requests are the ones the policy admits (see AccessControl).            *)
(***************************************************************************)
EXTENDS Integers, FiniteSets, FiniteSetsExt

CONSTANTS
    Workers,        \* request workers
    Versions,       \* ids of SubscriberProfileVersion rows
    Snapshots,      \* ids of RFAnalysisInputSnapshot rows
    Names,          \* names of the profile
    Patches,        \* the fields and values an edit may send
    None            \* SQL NULL

VARIABLES
    profile,        \* the SubscriberProfile row, or None
    version,        \* SubscriberProfileVersion rows by id, or None
    snapshot,       \* RFAnalysisInputSnapshot rows by id, or None
    request         \* where each worker's request is

vars == <<profile, version, snapshot, request>>

-----------------------------------------------------------------------------
(* The rows.  Of the editable fields, those that decide the ERP are kept:  *)
(* antenna gain, reference and losses are one net gain.                    *)
EditableFields == {"source", "power", "gain", "erp", "notes", "basis"}
Defaults == [source |-> "unknown", power |-> None, gain |-> None,
             erp |-> None, notes |-> "none", basis |-> "plain"]

Inputs == [source : {"unknown", "entered", "calculated"},
           power : Nat \cup {None}, gain : Nat \cup {None},
           erp : Nat \cup {None},
           notes : {"none", "text"}, basis : {"plain", "mixed"}]
Paths == {<<"unknown">>, <<"entered">>}
         \cup {"calculated"} \X Nat \X Nat \X Nat
Contents == [name : Names, number : Nat, inputs : Inputs, path : Paths]

ProfileRow == [name : Names, archived : BOOLEAN]
VersionRow == [number : Nat \ {0}, status : {"draft", "approved"},
               inputs : Inputs, path : Paths, content : Contents \cup {None}]
SnapshotRow == [version : Versions, content : Contents, archived : BOOLEAN]

Rows == {v \in Versions : version[v] # None}
Drafts == {v \in Rows : version[v].status = "draft"}
Approved == {v \in Rows : version[v].status = "approved"}

-----------------------------------------------------------------------------
(* merged_version_values(): what the request sends over what the row has;  *)
(* a blank note becomes NULL.  Here and below, a definition that stands    *)
(* right before another with the same parameters is that one with a slip:  *)
(* no specification uses it, and its substitution shows that a property    *)
(* notices.                                                                *)
AsSent(inputs, attrs) ==
    [f \in EditableFields |->
        IF f \in DOMAIN attrs THEN attrs[f] ELSE inputs[f]]
Merged(inputs, attrs) ==
    LET value(f) == IF f \in DOMAIN attrs THEN attrs[f] ELSE inputs[f]
    IN  [f \in EditableFields |->
            IF f = "notes" /\ value(f) = "blank" THEN "none" ELSE value(f)]

(* Versions of one profile are finitely many, and a patch sends values     *)
(* that the fields take: the serializer has refused the others.            *)
ASSUME ProfileAssumption ==
    /\ IsFiniteSet(Versions)
    /\ None \notin ProfileRow \cup VersionRow
    /\ LET taken == [source |-> {"unknown", "entered", "calculated"},
                     power |-> Nat \cup {None}, gain |-> Nat \cup {None},
                     erp |-> Nat \cup {None}, notes |-> {"none", "text", "blank"},
                     basis |-> {"plain", "mixed"}]
       IN  \A attrs \in Patches : \A f \in DOMAIN attrs \cap EditableFields :
               attrs[f] \in taken[f]

(* calculate_erp(): every component must be there.                         *)
CanCalculate(i) == i.power # None /\ i.gain # None
CalculatedErp(i) == i.power * i.gain

(* normalize_erp(): which inputs are accepted, and the ERP and calculation *)
(* path they get.                                                          *)
Acceptable(i) ==
    /\ i.source = "calculated" => CanCalculate(i)
    /\ i.source = "entered" => i.erp # None /\ i.notes = "text"
    /\ i.source = "unknown" => i.erp = None
    /\ i.basis = "mixed" => i.notes = "text"
NormalErp(i) == IF i.source = "calculated" THEN CalculatedErp(i) ELSE i.erp
NormalPath(i) ==
    IF i.source = "calculated"
    THEN <<"calculated", i.power, i.gain, CalculatedErp(i)>>
    ELSE <<i.source>>

(* normalize_version_attrs(): the row with the merged inputs and their ERP *)
Normalized(row, attrs) ==
    LET i == Merged(row.inputs, attrs)
    IN  [row EXCEPT !.inputs = [i EXCEPT !.erp = NormalErp(i)],
                    !.path = NormalPath(i)]

(* canonical_input_snapshot(): the name of the profile and the inputs.  A  *)
(* digest tells two contents apart, so it is the content here.             *)
Canonical(row) ==
    [name |-> profile.name, number |-> row.number,
     inputs |-> row.inputs, path |-> row.path]

-----------------------------------------------------------------------------
Idle == [step |-> "idle"]
At(w, step) == request[w].step = step
Become(w, r) == request' = [request EXCEPT ![w] = r]

(* The first UPDATE of an approval locks the row until the request ends.   *)
RowHeld(v) == \E w \in Workers : At(w, "locked") /\ request[w].id = v

(* get_queryset(): the versions of a profile that is not archived.         *)
Visible(v) == v \in Rows /\ ~ profile.archived

(* SubscriberProfileVersion.save() refuses a row that is already approved. *)
SaveAnyway(v) == v \in Rows
SaveAllowed(v) == version[v].status # "approved"

Init ==
    /\ profile = None
    /\ version = [v \in Versions |-> None]
    /\ snapshot = [s \in Snapshots |-> None]
    /\ request = [w \in Workers |-> Idle]

-----------------------------------------------------------------------------
(* SubscriberProfileSerializer.create(): the profile with its first draft. *)
FirstDraft(attrs) ==
    Normalized([number |-> 1, status |-> "draft", inputs |-> Defaults,
                path |-> <<"unknown">>, content |-> None], attrs)

CreateProfile(w, v, name, attrs) ==
    /\ At(w, "idle")
    /\ profile = None
    /\ Acceptable(Merged(Defaults, attrs))
    /\ profile' = [name |-> name, archived |-> FALSE]
    /\ version' = [version EXCEPT ![v] = FirstDraft(attrs)]
    /\ UNCHANGED <<snapshot, request>>

(* PATCH of the profile: a save of the whole row as it was read, with the  *)
(* new name.                                                               *)
ReadRename(w, name) ==
    /\ At(w, "idle")
    /\ profile # None
    /\ ~ profile.archived
    /\ Become(w, [step |-> "rename", row |-> [profile EXCEPT !.name = name]])
    /\ UNCHANGED <<profile, version, snapshot>>

WriteRename(w) ==
    /\ At(w, "rename")
    /\ profile' = request[w].row
    /\ Become(w, Idle)
    /\ UNCHANGED <<version, snapshot>>

(* archive(): only the archival columns are written.                       *)
ArchiveProfile(w) ==
    /\ At(w, "idle")
    /\ profile # None
    /\ ~ profile.archived
    /\ profile' = [profile EXCEPT !.archived = TRUE]
    /\ UNCHANGED <<version, snapshot, request>>

-----------------------------------------------------------------------------
(* PATCH of a version: read and validated, looked up once more by save(),  *)
(* written as a whole.                                                     *)
ReadPatch(w, v, attrs) ==
    /\ At(w, "idle")
    /\ Visible(v)
    /\ v \in Drafts
    /\ Acceptable(Merged(version[v].inputs, attrs))
    /\ Become(w, [step |-> "patch", id |-> v,
                  row |-> Normalized(version[v], attrs)])
    /\ UNCHANGED <<profile, version, snapshot>>

CheckSave(w, from, to) ==
    /\ At(w, from)
    /\ Become(w, IF SaveAllowed(request[w].id)
                 THEN [request[w] EXCEPT !.step = to] ELSE Idle)
    /\ UNCHANGED <<profile, version, snapshot>>

CheckPatch(w) == CheckSave(w, "patch", "patching")

WritePatch(w) ==
    /\ At(w, "patching")
    /\ ~ RowHeld(request[w].id)
    /\ version' = [version EXCEPT ![request[w].id] = request[w].row]
    /\ Become(w, Idle)
    /\ UNCHANGED <<profile, snapshot>>

-----------------------------------------------------------------------------
(* approve_version(): the ERP of the row as it was read is written first,  *)
(* then the row is read again, snapshotted and approved.                   *)
ReadApprove(w, v) ==
    /\ At(w, "idle")
    /\ Visible(v)
    /\ v \in Drafts
    /\ Acceptable(version[v].inputs)
    /\ Become(w, [step |-> "approve", id |-> v,
                  row |-> Normalized(version[v], <<>>)])
    /\ UNCHANGED <<profile, version, snapshot>>

CheckApprove(w) == CheckSave(w, "approve", "approving")

(* The UPDATE waits for the row and writes notes, ERP and path to what it  *)
(* then finds; refresh_from_db() returns the outcome.                      *)
Refreshed(row, stale) ==
    [row EXCEPT !.inputs.erp = stale.inputs.erp,
                !.inputs.notes = stale.inputs.notes, !.path = stale.path]

LockApprove(w) ==
    /\ At(w, "approving")
    /\ ~ RowHeld(request[w].id)
    /\ Become(w, [request[w] EXCEPT !.step = "locked",
                     !.row = Refreshed(version[request[w].id], @)])
    /\ UNCHANGED <<profile, version, snapshot>>

(* The second save() refuses a row approved meanwhile, and the request     *)
(* rolls back.                                                             *)
FinishApprove(w) ==
    /\ At(w, "locked")
    /\ version' = IF request[w].row.status = "approved" THEN version
                  ELSE [version EXCEPT ![request[w].id] =
                          [request[w].row EXCEPT !.status = "approved",
                             !.content = Canonical(request[w].row)]]
    /\ Become(w, Idle)
    /\ UNCHANGED <<profile, snapshot>>

-----------------------------------------------------------------------------
(* copy_version(): no draft may exist, then the next number is taken, then *)
(* the row is inserted; the number is unique within the profile.           *)
ReadCopy(w, v) ==
    /\ At(w, "idle")
    /\ Visible(v)
    /\ v \in Approved
    /\ Become(w, [step |-> "copy", row |-> version[v]])
    /\ UNCHANGED <<profile, version, snapshot>>

DraftFree(w) ==
    /\ At(w, "copy")
    /\ Become(w, IF Drafts = {} THEN [request[w] EXCEPT !.step = "number"]
                 ELSE Idle)
    /\ UNCHANGED <<profile, version, snapshot>>

NextNumber == Max({version[v].number : v \in Rows}) + 1

TakeNumber(w) ==
    /\ At(w, "number")
    /\ Become(w, [step |-> "insert",
                  row |-> [request[w].row EXCEPT !.number = NextNumber,
                             !.status = "draft", !.content = None]])
    /\ UNCHANGED <<profile, version, snapshot>>

InsertCopy(w, v) ==
    /\ At(w, "insert")
    /\ version[v] = None
    /\ version' = IF \E u \in Rows : version[u].number = request[w].row.number
                  THEN version
                  ELSE [version EXCEPT ![v] = request[w].row]
    /\ Become(w, Idle)
    /\ UNCHANGED <<profile, snapshot>>

-----------------------------------------------------------------------------
(* create_analysis_snapshot() copies the approved content as it reads it;  *)
(* archive_analysis_snapshot() hides the copy.                             *)
CreateSnapshot(w, v, s) ==
    /\ At(w, "idle")
    /\ Visible(v)
    /\ v \in Approved
    /\ snapshot[s] = None
    /\ snapshot' = [snapshot EXCEPT ![s] =
           [version |-> v, content |-> version[v].content, archived |-> FALSE]]
    /\ UNCHANGED <<profile, version, request>>

ArchiveSnapshot(w, s) ==
    /\ At(w, "idle")
    /\ snapshot[s] # None
    /\ ~ snapshot[s].archived
    /\ snapshot' = [snapshot EXCEPT ![s].archived = TRUE]
    /\ UNCHANGED <<profile, version, request>>

Next ==
    \E w \in Workers :
        \/ \E v \in Versions, name \in Names, attrs \in Patches :
               CreateProfile(w, v, name, attrs)
        \/ \E name \in Names : ReadRename(w, name)
        \/ WriteRename(w)
        \/ ArchiveProfile(w)
        \/ \E v \in Versions, attrs \in Patches : ReadPatch(w, v, attrs)
        \/ CheckPatch(w)
        \/ WritePatch(w)
        \/ \E v \in Versions : ReadApprove(w, v)
        \/ CheckApprove(w)
        \/ LockApprove(w)
        \/ FinishApprove(w)
        \/ \E v \in Versions : ReadCopy(w, v)
        \/ DraftFree(w)
        \/ TakeNumber(w)
        \/ \E v \in Versions : InsertCopy(w, v)
        \/ \E v \in Versions, s \in Snapshots : CreateSnapshot(w, v, s)
        \/ \E s \in Snapshots : ArchiveSnapshot(w, s)

Spec == Init /\ [][Next]_vars

-----------------------------------------------------------------------------
TypeOK ==
    /\ profile \in ProfileRow \cup {None}
    /\ version \in [Versions -> VersionRow \cup {None}]
    /\ snapshot \in [Snapshots -> SnapshotRow \cup {None}]

(* The row publishes itself, with an ERP that its calculation path gives:  *)
(* approve_version() writes both from one reading and snapshots the row as *)
(* it has become.  The inputs beside them may be those of a later PATCH.   *)
ErpFromPath(erp, path) ==
    IF path[1] = "calculated" THEN erp = path[2] * path[3]
    ELSE path = <<"unknown">> <=> erp = None

PublishedAsIs(row) ==
    /\ row.content.number = row.number
    /\ row.content.inputs = row.inputs
    /\ row.content.path = row.path
    /\ ErpFromPath(row.inputs.erp, row.path)

(* The PATCHes of a version whose save() has looked its status up.  Once   *)
(* it is approved nothing joins them; what still changes it is one of them *)
(* that writes the draft it holds.                                         *)
PastSave(v) == {w \in Workers : At(w, "patching") /\ request[w].id = v}

LatePatch(v) ==
    /\ PastSave(v)' \subseteq PastSave(v)
    /\ \/ version'[v] = version[v]
       \/ \E w \in PastSave(v) \ PastSave(v)' : version'[v] = request[w].row

(* A version is approved as it publishes itself, whatever was written      *)
(* since the approval read it, and it stays so unless a PATCH had passed   *)
(* the look-up of SubscriberProfileVersion.save() before the approval:     *)
(* that PATCH, which save() does not exclude, makes it a draft again.      *)
ApprovedOnlyByLatePatches ==
    [][\A v \in Versions :
          /\ v \in Approved' => PublishedAsIs(version'[v])
          /\ v \in Approved => LatePatch(v)]_vars
=============================================================================
