-------------------------- MODULE IncidentServices --------------------------
(***************************************************************************)
(* Accounts and incidents with what members do in them: the planning       *)
(* extension, the information plan, and the purge that removes everything  *)
(* an incident owns.                                                       *)
(***************************************************************************)
EXTENDS Extensions, InformationPlan

vars == <<accessVars, extensionVars, informationVars>>

Init == AccessInit /\ ExtensionInit /\ InformationInit

-----------------------------------------------------------------------------
(* purge_incident_data.  The tables with a foreign key to Incident, and    *)
(* the rows of one that PROTECT keeps while the rows of another point to   *)
(* them.  Each pass deletes what nothing left protects and defers the      *)
(* rest; a pass without progress ends the command and rolls it back.       *)
Owned == {"period", "member", "form", "execution"}
HasRows(t) ==
    CASE t = "period" -> \E p \in Periods : period[p] # None
      [] t = "member" -> \E m \in Incidents \X Users : member[m] # None
      [] t = "form" -> \E f \in Forms : form[f] # None
      [] OTHER -> \E x \in Executions : execution[x] # None
Protects(s, t) == s = "form" /\ t = "period" /\ HasRows(s)

Deferred(pending) == {t \in pending : \E s \in pending : Protects(s, t)}
Left[n \in Nat] == IF n = 0 THEN Owned ELSE Deferred(Left[n - 1])
Remaining == Left[Cardinality(Owned)]
DeletedAtOnce == Owned \ Deferred(Owned)
Deleted == Owned \ Remaining

Purge ==
    /\ \E i \in Incidents : Exists(i)
    /\ Remaining = {}
    /\ incident' = [i \in Incidents |-> None]
    /\ period' = IF "period" \in Deleted THEN [p \in Periods |-> None] ELSE period
    /\ member' = IF "member" \in Deleted
                 THEN [m \in Incidents \X Users |-> None] ELSE member
    /\ form' = IF "form" \in Deleted THEN [f \in Forms |-> None] ELSE form
    /\ row' = IF "form" \in Deleted THEN [r \in Rows |-> None] ELSE row
    /\ execution' = IF "execution" \in Deleted
                    THEN [x \in Executions |-> None] ELSE execution
    /\ purged' = TRUE
    /\ UNCHANGED <<accountVars, req, registry, installed, reviewed, approvedRevs>>

-----------------------------------------------------------------------------
Access == UNCHANGED <<extensionVars, informationVars>>
Extension == UNCHANGED informationVars
Information == UNCHANGED extensionVars

(* A request starts at a free worker and, most of them, with a token.      *)
FreeWorkers == {w \in Workers : Free(w)}
SignedIn == {u \in Users : Authenticated(u)}

Next ==
    \/ \E w \in FreeWorkers, u \in Users : BeginLogin(w, u) /\ Access
    \/ \E w \in Workers : FinishLogin(w) /\ Access
    \/ \E u \in Users : Logout(u) /\ Access
    \/ \E u \in Users : ExpireToken(u) /\ Access
    \/ \E w \in FreeWorkers, a \in SignedIn, u \in Users, role \in RoleInputs,
          email \in Emails, is \in SUBSET Incidents :
          BeginAccount(w, a, u, role, email, is) /\ Access
    \/ \E w \in Workers : FinishAccount(w) /\ Access
    \/ \E w \in FreeWorkers, u \in Users : BeginActivation(w, u) /\ Access
    \/ \E w \in Workers : FinishActivation(w) /\ Access
    \/ \E u \in Users : RequestReset(u) /\ Access
    \/ \E a \in SignedIn, u \in Users : SendPasswordReset(a, u) /\ Access
    \/ \E l \in link : ExpireLink(l) /\ Access
    \/ \E w \in FreeWorkers : \E l \in link : BeginReset(w, l) /\ Access
    \/ \E w \in Workers : FinishReset(w) /\ Access
    \/ \E a \in SignedIn, u \in Users : Disable(a, u) /\ Access
    \/ \E a \in SignedIn, u \in Users : Enable(a, u) /\ Access
    \/ \E a \in SignedIn, u \in Users : SignOutAll(a, u) /\ Access
    \/ \E a \in SignedIn, u \in Users, email \in Emails : SetEmail(a, u, email) /\ Access
    \/ \E w \in Workers : Abandon(w) /\ Access
    \/ \E a \in SignedIn, i \in Incidents, l \in Labels : CreateIncident(a, i, l) /\ Access
    \/ \E w \in FreeWorkers, a \in SignedIn, i \in Incidents, l \in Labels :
          BeginIncidentUpdate(w, a, i, l) /\ Access
    \/ \E w \in Workers : FinishIncidentUpdate(w) /\ Access
    \/ \E w \in FreeWorkers, a \in SignedIn, i \in Incidents :
          BeginIncidentArchive(w, a, i) /\ Access
    \/ \E w \in Workers : FinishIncidentArchive(w) /\ Access
    \/ \E w \in FreeWorkers, a \in SignedIn, i \in Incidents, p \in Periods, l \in Labels :
          BeginPeriodCreate(w, a, i, p, l) /\ Access
    \/ \E w \in FreeWorkers, a \in SignedIn, p \in Periods, l \in Labels :
          BeginPeriodUpdate(w, a, p, l) /\ Access
    \/ \E w \in Workers : FinishPeriod(w) /\ Access
    \/ \E w \in FreeWorkers, a \in SignedIn, p \in Periods : BeginPeriodArchive(w, a, p) /\ Access
    \/ \E w \in Workers : FinishPeriodArchive(w) /\ Access
    \/ \E w \in FreeWorkers, a \in SignedIn, i \in Incidents, u \in Users, role \in RoleInputs :
          BeginMembershipCreate(w, a, i, u, role) /\ Access
    \/ \E w \in Workers : FinishMembershipCreate(w) /\ Access
    \/ \E w \in FreeWorkers, a \in SignedIn, i \in Incidents, u \in Users, role \in RoleInputs,
          active \in BOOLEAN : BeginMembershipUpdate(w, a, i, u, role, active) /\ Access
    \/ \E w \in Workers : FinishMembershipUpdate(w) /\ Access
    \/ \E a \in SignedIn, c \in Contracts : Install(a, c) /\ Extension
    \/ \E a \in SignedIn, enabled \in BOOLEAN : SetEnabled(a, enabled) /\ Extension
    \/ \E w \in FreeWorkers, a \in SignedIn, i \in Incidents, r \in Revisions, m \in Minimums,
          c \in Contracts : BeginExecution(w, a, i, r, m, c) /\ Extension
    \/ \E w \in Workers, x \in Executions : FinishExecution(w, x) /\ Extension
    \/ \E w \in Workers, x \in Executions : FailExecution(w, x) /\ Extension
    \/ \E v \in Versions : Deploy(v) /\ Extension
    \/ \E r \in Revisions : ApproveRevision(r) /\ Extension
    \/ \E w \in FreeWorkers, a \in SignedIn, f \in Forms, i \in Incidents, p \in Periods :
          BeginFormCreate(w, a, f, i, p) /\ Information
    \/ \E w \in FreeWorkers, a \in SignedIn, f \in {g \in Forms : form[g] # None} :
          \E i \in Incidents, p \in Periods, h \in Headers :
          /\ BeginFormUpdate(w, a, f, [incident |-> i, period |-> p, header |-> h])
          /\ Information
    \/ \E w \in Workers : FinishForm(w) /\ Information
    \/ \E w \in FreeWorkers, a \in SignedIn, r \in Rows, f \in Forms,
          k \in {None} \cup 1 .. MaxPosition : BeginRowCreate(w, a, r, f, k) /\ Information
    \/ \E w \in FreeWorkers, a \in SignedIn, r \in Rows, f \in Forms, k \in 1 .. MaxPosition :
          BeginRowUpdate(w, a, r, f, k) /\ Information
    \/ \E w \in Workers : FinishRow(w) /\ Information
    \/ \E w \in FreeWorkers, a \in SignedIn, r \in Rows : BeginRowDelete(w, a, r) /\ Information
    \/ \E w \in Workers : FinishRowDelete(w) /\ Information
    \/ \E w \in FreeWorkers, a \in SignedIn, f \in Forms :
          \E list \in UNION {[1 .. n -> RowsOfForm(f)] : n \in 1 .. MaxPosition} :
          BeginReorder(w, a, f, list) /\ Information
    \/ \E w \in Workers : FinishReorder(w) /\ Information
    \/ Purge

Spec == Init /\ [][Next]_vars

-----------------------------------------------------------------------------

(* purge_incident_data removes "all incident-owned data", and every other  *)
(* write names rows that exist: nothing is left that belongs to an         *)
(* incident, a period or a form that is gone, and no form has the period   *)
(* of another incident (ics205b_models.py:59), whatever was under way.     *)
NoOrphans ==
    /\ \A p \in Periods : period[p] # None => Exists(period[p].incident)
    /\ \A i \in Incidents, u \in Users : member[<<i, u>>] # None => Exists(i)
    /\ \A f \in Forms : form[f] # None =>
          /\ Exists(form[f].incident) /\ period[form[f].period] # None
          /\ period[form[f].period].incident = form[f].incident
    /\ \A r \in Rows : row[r] # None => form[row[r].form] # None
    /\ \A x \in Executions : execution[x] # None => Exists(execution[x].incident)
=============================================================================
