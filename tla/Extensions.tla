----------------------------- MODULE Extensions -----------------------------
(***************************************************************************)
(* The planning extension (apps/extensions: services, registry, views): an *)
(* administrator installs the manifest of the deployed code and enables    *)
(* it, and members run it on approved revisions of their incident.         *)
(***************************************************************************)
EXTENDS AccessControl, Sequences, SequencesExt

CONSTANTS
    Versions,       \* manifests that deployments have carried
    ContractOf,     \* the contract that each manifest declares
    Contracts,      \* contract versions that requests name
    Supported,      \* SUPPORTED_CONTRACT_VERSIONS
    Revisions,
    RevisionOf,     \* the incident of each revision's plan
    RowsOf,         \* classifications of each revision's assignments
    Minimums,       \* minimum_assignment_count
    Executions      \* execution ids

ASSUME ExtensionAssumption ==
    /\ ContractOf \in [Versions -> Contracts]
    /\ RevisionOf \in [Revisions -> Incidents]
    /\ Minimums \subseteq 1 .. 1000

VARIABLES
    registry,       \* the manifest of the running code
    installed,      \* ExtensionInstallation, or None
    reviewed,       \* manifests that an administrator has enabled
    approvedRevs,   \* approved revisions, which stay approved
    execution

extensionVars == <<registry, installed, reviewed, approvedRevs, execution>>

ExtensionInit ==
    /\ registry \in Versions
    /\ installed = None
    /\ reviewed = {}
    /\ approvedRevs = {}
    /\ execution = [x \in Executions |-> None]

(* get_manifest(), which validates what it returns.                        *)
ManifestValid == ContractOf[registry] \in Supported

(* Version, contract and digest of the installation are the registry's.    *)
Current == installed # None /\ installed.version = registry
Enabled == installed # None /\ installed.enabled

-----------------------------------------------------------------------------
(* install_extension()                                                     *)
ReplaceableAlways == TRUE
Replaceable == ~ Enabled

Install(a, contract) ==
    /\ UserHasPermission(a, <<"extension", "admin">>, None)
    /\ ManifestValid
    /\ contract \in Supported /\ contract = ContractOf[registry]
    /\ Replaceable
    /\ installed' = [version |-> registry,
                     enabled |-> Enabled]
    /\ UNCHANGED <<registry, reviewed, approvedRevs, execution, accessVars>>

(* set_extension_enabled(), which compares the manifest before it enables  *)
(* and before it disables.                                                 *)
SetEnabled(a, enabled) ==
    /\ UserHasPermission(a, <<"extension", "admin">>, None)
    /\ ManifestValid /\ Current
    /\ installed' = [installed EXCEPT !.enabled = enabled]
    /\ reviewed' = reviewed \cup {v \in {registry} : enabled}
    /\ UNCHANGED <<registry, approvedRevs, execution, accessVars>>

(* _summary_context(): what the readiness check reports.                   *)
Undetermined(rows) == Cardinality({k \in DOMAIN rows : rows[k] = "not_determined"})
Readiness(rows, minimum) ==
    [count |-> Len(rows), missing |-> Undetermined(rows),
     state |-> IF Len(rows) >= minimum /\ Undetermined(rows) = 0
               THEN "ready" ELSE "attention"]

(* ExtensionExecutionViewSet.create and execute_extension(), up to the     *)
(* handler's result: none of the rows is locked.                           *)
BeginExecution(w, a, i, r, minimum, contract) ==
    /\ Free(w)
    /\ HasPermission(a, "execution", "create")
    /\ Open(i)
    /\ UserHasPermission(a, <<"extension", "run">>, i)
    /\ Enabled
    /\ ManifestValid
    /\ contract \in Supported /\ contract = ContractOf[registry]
    /\ Current
    /\ RevisionOf[r] = i
    /\ r \in approvedRevs
    /\ Take(w, [kind |-> "execution", on |-> ReadOpen({i}),
                row |-> [version |-> registry, incident |-> i, revision |-> r,
                         status |-> "complete",
                         result |-> Readiness(RowsOf[r], minimum)]])
    /\ UNCHANGED <<accountVars, incidentVars, extensionVars>>

Record(w, x, row) ==
    /\ Doing(w, "execution")
    /\ execution[x] = None
    /\ Exists(row.incident)
    /\ execution' = [execution EXCEPT ![x] = row]
    /\ Done(w)
    /\ UNCHANGED <<registry, installed, reviewed, approvedRevs, accountVars, incidentVars>>

FinishExecution(w, x) == Doing(w, "execution") /\ Record(w, x, req[w].row)

(* The handler raises, or its result breaks the contract.                  *)
FailExecution(w, x) ==
    /\ Doing(w, "execution")
    /\ Record(w, x, [req[w].row EXCEPT !.status = "failed", !.result = None])

-----------------------------------------------------------------------------
(* A deployment replaces the code, and with it every worker.               *)
Deploy(v) ==
    /\ v # registry
    /\ registry' = v
    /\ req' = [w \in Workers |-> None]
    /\ UNCHANGED <<installed, reviewed, approvedRevs, execution, accountVars, incidentVars>>

(* See Collaboration for how a revision is approved.                       *)
ApproveRevision(r) ==
    /\ approvedRevs' = approvedRevs \cup {r}
    /\ UNCHANGED <<registry, installed, reviewed, execution, accessVars>>

-----------------------------------------------------------------------------

(* ADR 0019: a manifest runs only after an administrator has installed     *)
(* exactly it and enabled it.  However installs, switches, deployments and *)
(* runs interleave, every retained execution used a manifest that was      *)
(* enabled, and an approved revision of its own incident.                  *)
ExecutionsReviewed ==
    \A x \in Executions : execution[x] # None =>
        /\ execution[x].version \in reviewed
        /\ execution[x].revision \in approvedRevs
        /\ RevisionOf[execution[x].revision] = execution[x].incident

(* docs/operations/planning-extension-framework.md:71, and the error of    *)
(* _validated_installation: after the registry changed, "disable the       *)
(* extension" and "reinstall its registered manifest".                     *)
UpgradeRecoverable ==
    (installed # None /\ ~ Current /\ ManifestValid /\ Authenticated(Root)) =>
        \/ ENABLED SetEnabled(Root, FALSE)
        \/ \E c \in Contracts : ENABLED Install(Root, c)
=============================================================================
