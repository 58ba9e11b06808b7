--------------------------- MODULE AccessControl ---------------------------
(***************************************************************************)
(* Accounts, incidents and who may do what (apps/accounts, apps/incidents) *)
(* A request is a transaction under READ COMMITTED: what it reads and      *)
(* checks, and what it writes, are steps between which others commit.      *)
(* Here and below, a definition that stands before another with the same   *)
(* parameters and a longer name is that one with a slip, for the mutants.  *)
(***************************************************************************)
EXTENDS Naturals, FiniteSets

CONSTANTS
    Users,          \* usernames
    Root,           \* the superuser that ensure_admin creates
    Incidents,
    Periods,        \* operational periods
    Labels,         \* what an update of an incident or period can write
    Workers,        \* server workers, one request each
    Emails,
    RoleInputs,     \* the roles that requests name
    Overrides,      \* ICT_ROLE_POLICY_OVERRIDES: permissions by role
    MaxPassword,    \* bound: passwords that a user goes through
    None

VARIABLES
    user,           \* auth user with its role and contingency account
    session,        \* the user's API token: None, "live" or "expired"
    link,           \* reset links that were mailed and have not expired
    incident, period, member,
    purged,         \* purge_incident_data has run
    req             \* what each worker's request has read, None when idle

accountVars == <<user, session, link>>
incidentVars == <<incident, period, member, purged>>
accessVars == <<accountVars, incidentVars, req>>

-----------------------------------------------------------------------------
(* The policy: permissions are an area and a verb.                         *)
ReadOnly == {"incident", "library", "plan", "site", "rf", "extension",
             "inventory"} \X {"view"}
Contributor ==
    ReadOnly \cup ({"plan", "site"} \X {"edit"})
        \cup {<<"incident", "change">>, <<"period", "create">>,
              <<"period", "change">>}
Technician ==
    Contributor \cup {<<"period", "archive">>, <<"rf", "edit">>,
                      <<"extension", "run">>, <<"inventory", "manage">>}
Leader ==
    Technician \cup ({"plan", "rf"} \X {"approve"})
        \cup ({"plan", "site"} \X {"export"})
        \cup ({"incident"} \X {"create", "archive", "membership"})
Administrator ==
    Leader \cup {<<"library", "import">>, <<"account", "manage">>,
                 <<"audit", "view">>, <<"extension", "admin">>}

DefaultPolicy ==
    [administrator |-> Administrator, coml |-> Leader, comc |-> Leader,
     comt |-> Technician, auxcomm |-> Contributor, incm |-> Contributor,
     contributor |-> Contributor, read_only |-> ReadOnly]
Roles == DOMAIN DefaultPolicy

(* _configured_policy(): an override replaces the set of a role.           *)
RolePolicy ==
    [role \in Roles |-> IF role \in DOMAIN Overrides THEN Overrides[role]
                        ELSE DefaultPolicy[role]]
PermissionsForRole(role) == RolePolicy[role]

RoleForUser(u) == IF u = Root THEN "administrator" ELSE user[u].role

ActiveMember(i, u) == member[<<i, u>>] # None /\ member[<<i, u>>].active

ScopedAreas == {"incident", "period", "plan", "site", "rf", "extension",
                "inventory"}

(* permissions_for_user(): an incident role adds to the installation role; *)
(* without one, nothing that belongs to incidents is left.                 *)
PermissionsForUserAnywhere(u, i) ==
    PermissionsForRole(RoleForUser(u)) \cup
        UNION {PermissionsForRole(member[<<j, u>>].role) :
                   j \in {k \in Incidents : i \in {k, None} /\ ActiveMember(k, u)}}
PermissionsForUser(u, i) ==
    LET own == PermissionsForRole(RoleForUser(u))
    IN  IF i = None \/ RoleForUser(u) = "administrator" THEN own
        ELSE IF ActiveMember(i, u)
             THEN own \cup PermissionsForRole(member[<<i, u>>].role)
             ELSE {p \in own : p[1] \notin ScopedAreas}

(* TokenAuthentication and its expiry: the token and an active user.       *)
Authenticated(u) == user[u] # None /\ user[u].active /\ session[u] = "live"

UserHasPermission(u, p, i) == Authenticated(u) /\ p \in PermissionsForUser(u, i)

(* policy_actions of the view sets, and PolicyPermission: actions on an    *)
(* object, and a few creates, are decided later, with their incident.      *)
PolicyAction(view, action) ==
    CASE view = "account" -> <<"account", "manage">>
      [] view = "membership" -> <<"incident", "membership">>
      [] view = "incident" /\ action = "update" -> <<"incident", "change">>
      [] view = "period" /\ action = "update" -> <<"period", "change">>
      [] view = "execution" -> <<"extension", "run">>
      [] view = "form" -> <<"plan", "edit">>
      [] OTHER -> <<view, action>>

LeftToObject(view, action) ==
    \/ action \in {"update", "archive", "destroy"}
    \/ action = "create" /\ view \in {"period", "membership"}

HasPermission(u, view, action) ==
    \/ Authenticated(u) /\ LeftToObject(view, action)
    \/ UserHasPermission(u, PolicyAction(view, action), None)

HasObjectPermission(u, view, action, i) ==
    HasPermission(u, view, action) /\ UserHasPermission(u, PolicyAction(view, action), i)

-----------------------------------------------------------------------------
(* The tables.                                                             *)
UserRows ==
    [role : Roles, email : Emails \cup {None}, active : BOOLEAN, change : BOOLEAN,
     password : Nat, by : Roles]
IncidentRows == [archived : BOOLEAN, label : Labels]
PeriodRows == [incident : Incidents, archived : BOOLEAN, label : Labels]
MemberRows == [role : Roles, active : BOOLEAN]

(* Role choices are validated, and None stands for a row that is not there *)
ASSUME AccessAssumption ==
    /\ Root \in Users
    /\ RoleInputs \subseteq Roles
    /\ None \notin UserRows \cup IncidentRows \cup PeriodRows \cup {"live", "expired"}

Exists(i) == incident[i] # None
OpenIfExists(i) == Exists(i)
Open(i) == Exists(i) /\ ~ incident[i].archived

(* get_queryset() of what belongs to an incident.                          *)
InScope(u, i) ==
    Authenticated(u) /\ (RoleForUser(u) = "administrator" \/ ActiveMember(i, u))

(* The incidents of a request that were open when it read them.            *)
ReadOpen(S) == {i \in S : Exists(i) /\ ~ incident[i].archived}

Doing(w, kind) == req[w] # None /\ req[w].kind = kind
Free(w) == req[w] = None
(* An id that no request is about to insert or save.                       *)
NotHeld(x) ==
    \A w \in Workers : req[w] # None /\ "object" \in DOMAIN req[w] => req[w].object # x
Take(w, r) == req' = [req EXCEPT ![w] = r]
Done(w) == req' = [req EXCEPT ![w] = None]

(* A request fails, its transaction is rolled back.                        *)
Abandon(w) == ~ Free(w) /\ Done(w) /\ UNCHANGED <<accountVars, incidentVars>>

NewUser(role, email, by) ==
    [role |-> role, email |-> email, active |-> TRUE, change |-> TRUE,
     password |-> 0, by |-> by]

(* The administrator of ensure_admin, signed in.                           *)
AccessInit ==
    /\ user = [u \in Users |->
                  IF u = Root
                  THEN [NewUser("administrator", None, "administrator")
                           EXCEPT !.change = FALSE]
                  ELSE None]
    /\ session = [u \in Users |-> IF u = Root THEN "live" ELSE None]
    /\ link = {}
    /\ incident = [i \in Incidents |-> None]
    /\ period = [p \in Periods |-> None]
    /\ member = [m \in Incidents \X Users |-> None]
    /\ purged = FALSE
    /\ req = [w \in Workers |-> None]

-----------------------------------------------------------------------------
(* Sessions.                                                               *)
MaySignInAnyway(u) == user[u] # None /\ user[u].active
MaySignIn(u) == user[u] # None /\ user[u].active /\ ~ user[u].change

BeginLogin(w, u) ==
    /\ Free(w)
    /\ MaySignIn(u)
    /\ Take(w, [kind |-> "login", user |-> u, on |-> {}])
    /\ UNCHANGED <<accountVars, incidentVars>>

FinishLogin(w) ==
    /\ Doing(w, "login")
    /\ session' = [session EXCEPT ![req[w].user] = "live"]
    /\ Done(w)
    /\ UNCHANGED <<user, link, incidentVars>>

Logout(u) ==
    /\ Authenticated(u)
    /\ session' = [session EXCEPT ![u] = None]
    /\ UNCHANGED <<user, link, incidentVars, req>>

ExpireToken(u) ==
    /\ session[u] = "live"
    /\ session' = [session EXCEPT ![u] = "expired"]
    /\ UNCHANGED <<user, link, incidentVars, req>>

-----------------------------------------------------------------------------
(* Local contingency accounts.  Root has none.                             *)
Contingency == {u \in Users \ {Root} : user[u] # None}

(* validate_username, validate_email, and the incidents that are open.     *)
BeginAccount(w, a, u, role, email, is) ==
    /\ Free(w)
    /\ HasPermission(a, "account", "create")
    /\ user[u] = None
    /\ \A v \in Contingency : user[v].email # email
    /\ \A i \in is : Open(i)
    /\ Take(w, [kind |-> "account", user |-> u, incidents |-> is, on |-> ReadOpen(is),
                row |-> NewUser(role, email, RoleForUser(a))])
    /\ UNCHANGED <<accountVars, incidentVars>>

(* create(): the username is unique, and the incidents are still there.    *)
FinishAccount(w) ==
    /\ Doing(w, "account")
    /\ LET r == req[w]
       IN  /\ user[r.user] = None
           /\ \A i \in r.incidents : Exists(i)
           /\ user' = [user EXCEPT ![r.user] = r.row]
           /\ member' = [m \in Incidents \X Users |->
                            IF m[1] \in r.incidents /\ m[2] = r.user
                            THEN [role |-> r.row.role, active |-> TRUE]
                            ELSE member[m]]
    /\ Done(w)
    /\ UNCHANGED <<session, link, incident, period, purged>>

BeginActivation(w, u) ==
    /\ Free(w)
    /\ u \in Contingency
    /\ user[u].active /\ user[u].change
    /\ user[u].password < MaxPassword
    /\ Take(w, [kind |-> "activation", user |-> u, on |-> {}])
    /\ UNCHANGED <<accountVars, incidentVars>>

ChoosePassword(u) ==
    user' = [user EXCEPT ![u].password = @ + 1, ![u].change = FALSE]

FinishActivation(w) ==
    /\ Doing(w, "activation")
    /\ user[req[w].user].password < MaxPassword
    /\ ChoosePassword(req[w].user)
    /\ Done(w)
    /\ UNCHANGED <<session, link, incidentVars>>

(* A link signs the password and the address that it was made with.        *)
LinkFor(u) == [user |-> u, password |-> user[u].password, email |-> user[u].email]

(* PasswordResetRequestView, for whoever knows the address.                *)
RequestReset(u) ==
    /\ u \in Contingency
    /\ user[u].active
    /\ link' = link \cup {LinkFor(u)}
    /\ UNCHANGED <<user, session, incidentVars, req>>

SendPasswordReset(a, u) ==
    /\ HasPermission(a, "account", "send_password_reset")
    /\ u \in Contingency
    /\ link' = link \cup {LinkFor(u)}
    /\ UNCHANGED <<user, session, incidentVars, req>>

ExpireLink(l) ==
    /\ link' = link \ {l}
    /\ UNCHANGED <<user, session, incidentVars, req>>

BeginReset(w, l) ==
    /\ Free(w)
    /\ user[l.user].active
    /\ l = LinkFor(l.user)
    /\ user[l.user].password < MaxPassword
    /\ Take(w, [kind |-> "reset", user |-> l.user, on |-> {}])
    /\ UNCHANGED <<accountVars, incidentVars>>

FinishReset(w) ==
    /\ Doing(w, "reset")
    /\ user[req[w].user].password < MaxPassword
    /\ ChoosePassword(req[w].user)
    /\ session' = [session EXCEPT ![req[w].user] = None]
    /\ Done(w)
    /\ UNCHANGED <<link, incidentVars>>

Disable(a, u) ==
    /\ HasPermission(a, "account", "disable")
    /\ u \in Contingency
    /\ user' = [user EXCEPT ![u].active = FALSE]
    /\ session' = [session EXCEPT ![u] = None]
    /\ UNCHANGED <<link, incidentVars, req>>

Enable(a, u) ==
    /\ HasPermission(a, "account", "enable")
    /\ u \in Contingency
    /\ user' = [user EXCEPT ![u].active = TRUE]
    /\ UNCHANGED <<session, link, incidentVars, req>>

SignOutAll(a, u) ==
    /\ HasPermission(a, "account", "sign_out_all")
    /\ u \in Contingency
    /\ session' = [session EXCEPT ![u] = None]
    /\ UNCHANGED <<user, link, incidentVars, req>>

SetEmail(a, u, email) ==
    /\ HasPermission(a, "account", "set_email")
    /\ u \in Contingency
    /\ \A v \in Contingency \ {u} : user[v].email # email
    /\ user' = [user EXCEPT ![u].email = email]
    /\ UNCHANGED <<session, link, incidentVars, req>>

-----------------------------------------------------------------------------
(* Incidents.  perform_create() makes the creator a member.  Ids are never *)
(* used twice: here and in the modules that extend this one, nothing new   *)
(* is created after a purge, so that a finite set of ids is enough.        *)
CreateIncident(a, i, label) ==
    /\ HasPermission(a, "incident", "create")
    /\ incident[i] = None /\ ~ purged
    /\ incident' = [incident EXCEPT ![i] = [archived |-> FALSE, label |-> label]]
    /\ member' = [member EXCEPT ![<<i, a>>] = [role |-> RoleForUser(a), active |-> TRUE]]
    /\ UNCHANGED <<period, purged, accountVars, req>>

(* Only the name can be changed, but save() writes the row as it was read, *)
(* archived_at with it, and inserts it if it has gone.                     *)
BeginIncidentUpdate(w, a, i, label) ==
    /\ Free(w)
    /\ Open(i) /\ InScope(a, i)
    /\ HasObjectPermission(a, "incident", "update", i)
    /\ Take(w, [kind |-> "incident", incident |-> i, on |-> ReadOpen({i}),
                row |-> [incident[i] EXCEPT !.label = label]])
    /\ UNCHANGED <<accountVars, incidentVars>>

FinishIncidentUpdate(w) ==
    /\ Doing(w, "incident")
    /\ incident' = [incident EXCEPT ![req[w].incident] = req[w].row]
    /\ Done(w)
    /\ UNCHANGED <<accountVars, period, member, purged>>

(* archive(): save(update_fields=...) writes archived_at alone.            *)
BeginIncidentArchive(w, a, i) ==
    /\ Free(w)
    /\ Open(i) /\ InScope(a, i)
    /\ HasObjectPermission(a, "incident", "archive", i)
    /\ Take(w, [kind |-> "archive", incident |-> i, on |-> ReadOpen({i})])
    /\ UNCHANGED <<accountVars, incidentVars>>

FinishIncidentArchive(w) ==
    /\ Doing(w, "archive")
    /\ Exists(req[w].incident)
    /\ incident' = [incident EXCEPT ![req[w].incident].archived = TRUE]
    /\ Done(w)
    /\ UNCHANGED <<accountVars, period, member, purged>>

-----------------------------------------------------------------------------
(* Operational periods.                                                    *)
BeginPeriodCreate(w, a, i, p, label) ==
    /\ Free(w)
    /\ period[p] = None /\ NotHeld(p) /\ ~ purged
    /\ HasPermission(a, "period", "create")
    /\ Open(i)
    /\ UserHasPermission(a, <<"period", "create">>, i)
    /\ Take(w, [kind |-> "period", object |-> p, on |-> ReadOpen({i}),
                row |-> [incident |-> i, archived |-> FALSE, label |-> label]])
    /\ UNCHANGED <<accountVars, incidentVars>>

BeginPeriodUpdate(w, a, p, label) ==
    /\ Free(w)
    /\ period[p] # None /\ ~ period[p].archived
    /\ LET i == period[p].incident
       IN  /\ Open(i) /\ InScope(a, i)
           /\ HasObjectPermission(a, "period", "update", i)
           /\ Take(w, [kind |-> "period", object |-> p, on |-> ReadOpen({i}),
                       row |-> [period[p] EXCEPT !.label = label]])
    /\ UNCHANGED <<accountVars, incidentVars>>

(* The insert, or save() of the whole row; the incident must be there.     *)
FinishPeriod(w) ==
    /\ Doing(w, "period")
    /\ Exists(req[w].row.incident)
    /\ period' = [period EXCEPT ![req[w].object] = req[w].row]
    /\ Done(w)
    /\ UNCHANGED <<accountVars, incident, member, purged>>

BeginPeriodArchive(w, a, p) ==
    /\ Free(w)
    /\ period[p] # None /\ ~ period[p].archived
    /\ LET i == period[p].incident
       IN  /\ Open(i) /\ InScope(a, i)
           /\ HasObjectPermission(a, "period", "archive", i)
           /\ Take(w, [kind |-> "period_archive", object |-> p, on |-> ReadOpen({i})])
    /\ UNCHANGED <<accountVars, incidentVars>>

FinishPeriodArchive(w) ==
    /\ Doing(w, "period_archive")
    /\ period[req[w].object] # None
    /\ period' = [period EXCEPT ![req[w].object].archived = TRUE]
    /\ Done(w)
    /\ UNCHANGED <<accountVars, incident, member, purged>>

-----------------------------------------------------------------------------
(* Memberships.                                                            *)
BeginMembershipCreate(w, a, i, u, role) ==
    /\ Free(w)
    /\ user[u] # None
    /\ member[<<i, u>>] = None
    /\ HasPermission(a, "membership", "create")
    /\ Open(i)
    /\ UserHasPermission(a, <<"incident", "membership">>, i)
    /\ Take(w, [kind |-> "join", of |-> <<i, u>>, on |-> ReadOpen({i}),
                row |-> [role |-> role, active |-> TRUE]])
    /\ UNCHANGED <<accountVars, incidentVars>>

FinishMembershipCreate(w) ==
    /\ Doing(w, "join")
    /\ Exists(req[w].of[1])
    /\ member[req[w].of] = None
    /\ member' = [member EXCEPT ![req[w].of] = req[w].row]
    /\ Done(w)
    /\ UNCHANGED <<accountVars, incident, period, purged>>

(* A PATCH of the role or of is_active; save() writes both.                *)
BeginMembershipUpdate(w, a, i, u, role, active) ==
    /\ Free(w)
    /\ member[<<i, u>>] # None
    /\ role # member[<<i, u>>].role => active = member[<<i, u>>].active
    /\ InScope(a, i)
    /\ HasObjectPermission(a, "membership", "update", i)
    /\ Open(i)
    /\ Take(w, [kind |-> "membership", of |-> <<i, u>>, on |-> ReadOpen({i}),
                row |-> [role |-> role, active |-> active]])
    /\ UNCHANGED <<accountVars, incidentVars>>

FinishMembershipUpdate(w) ==
    /\ Doing(w, "membership")
    /\ Exists(req[w].of[1])
    /\ member' = [member EXCEPT ![req[w].of] = req[w].row]
    /\ Done(w)
    /\ UNCHANGED <<accountVars, incident, period, purged>>

-----------------------------------------------------------------------------

Disabled(u) == user[u] # None /\ ~ user[u].active
SigningIn(u) == {w \in Workers : Doing(w, "login") /\ req[w].user = u}

(* ADR 0007 and docs/security/accounts-and-audit.md: the temporary         *)
(* credential "must be changed before sign-in".  Whatever overtakes a      *)
(* login, nobody holds a session of an account whose password is still the *)
(* one that an administrator was shown.  No login of a disabled account    *)
(* begins, and it gets a session only from one that had passed the check   *)
(* before (views.py:127) and ends after the tokens were deleted.           *)
SignInsChecked ==
    [][\A u \in Users :
          /\ session'[u] # None => user'[u] # None /\ ~ user'[u].change
          /\ Disabled(u)' =>
                /\ SigningIn(u)' \subseteq SigningIn(u)
                /\ session'[u] = "live" =>
                      \/ Disabled(u) /\ session[u] = "live"
                      \/ SigningIn(u)' # SigningIn(u)]_accessVars

(* The policy checks that are left to the object and the roles that users  *)
(* have in incidents, administrator among them, never add up to managing   *)
(* accounts: every contingency account was made by a user whose role in    *)
(* the installation has that permission, by default or by an override.     *)
Manages(role) == <<"account", "manage">> \in PermissionsForRole(role)
AccountsByManagers == \A u \in Contingency : Manages(user[u].by)

ContentOf(i) ==
    <<incident[i], {<<p, period[p]>> : p \in {q \in Periods :
                        period[q] # None /\ period[q].incident = i}},
      [u \in Users |-> member[<<i, u>>]]>>

(* "Archived incidents cannot be changed" (incidents/views.py:108), nor    *)
(* their periods and memberships: whatever still changes one, its archived *)
(* flag included, is a request that had read it open.  Only the purge is   *)
(* exempt.                                                                 *)
ArchiveCloses ==
    [][\A i \in Incidents :
          /\ Exists(i) /\ incident[i].archived
          /\ incident'[i] # None
          /\ ContentOf(i)' # ContentOf(i)
          => \E w \in Workers : req[w] # None /\ i \in req[w].on /\ req'[w] = None]_accessVars
=============================================================================
