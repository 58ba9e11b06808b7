----------------------- MODULE IncidentServicesProofs -----------------------
(***************************************************************************)
(* Accounts, incidents, the planning extension and the information plan,   *)
(* for every number of users, incidents, workers and rows: nobody holds a  *)
(* session before activation, every execution was reviewed, no row names   *)
(* one that is gone, and an archived incident changes only by a request    *)
(* that had read it open.                                                  *)
(***************************************************************************)
EXTENDS IncidentServices, TLAPS

-----------------------------------------------------------------------------
(* Types.  The requests about rows carry no facts that the proofs need     *)
(* beyond those that row updates check again when they write.              *)
Links == [user : Users, password : Nat, email : Emails \cup {None}]
Installations == [version : Versions, enabled : BOOLEAN]

UserRequests ==
    [kind : {"login", "activation", "reset"}, user : Users, on : SUBSET Incidents]
AccountRequests ==
    [kind : {"account"}, user : Users, incidents : SUBSET Incidents,
     on : SUBSET Incidents, row : UserRows]
IncidentRequests ==
    [kind : {"incident"}, incident : Incidents, on : SUBSET Incidents, row : IncidentRows]
ArchiveRequests == [kind : {"archive"}, incident : Incidents, on : SUBSET Incidents]
PeriodRequests ==
    [kind : {"period"}, object : Periods, on : SUBSET Incidents, row : PeriodRows]
PeriodArchiveRequests ==
    [kind : {"period_archive"}, object : Periods, on : SUBSET Incidents]
MemberRequests ==
    [kind : {"join", "membership"}, of : Incidents \X Users, on : SUBSET Incidents,
     row : MemberRows]
FormRequests ==
    [kind : {"form"}, object : Forms, on : SUBSET Incidents,
     sent : SUBSET {"incident", "period", "header"}, row : FormRows]
RowShape(x) == x = [form |-> x.form, position |-> x.position] /\ x.form \in Forms
ExecutionShape(x) ==
    /\ x = [version |-> x.version, incident |-> x.incident, revision |-> x.revision,
            status |-> x.status, result |-> x.result]
    /\ x.version \in Versions /\ x.incident \in Incidents /\ x.revision \in Revisions

Typed(r) ==
    \/ r \in UserRequests \cup AccountRequests \cup IncidentRequests \cup ArchiveRequests
    \/ r \in PeriodRequests \cup PeriodArchiveRequests \cup MemberRequests \cup FormRequests
    \/ r.kind = "execution" /\ ExecutionShape(r.row)
    \/ r.kind = "row" /\ RowShape(r.row)
    \/ r.kind \in {"row_delete", "reorder"}

(* A table: a row or None for each id.                                     *)
RequestTypes ==
    /\ req = [w \in Workers |-> req[w]]
    /\ \A w \in Workers : req[w] # None => Typed(req[w])
AccountTypes ==
    /\ user \in [Users -> UserRows \cup {None}]
    /\ session \in [Users -> {None, "live", "expired"}]
    /\ link \subseteq Links
IncidentTypes ==
    /\ incident \in [Incidents -> IncidentRows \cup {None}]
    /\ period \in [Periods -> PeriodRows \cup {None}]
    /\ member \in [Incidents \X Users -> MemberRows \cup {None}]
    /\ purged \in BOOLEAN
    /\ form \in [Forms -> FormRows \cup {None}]
    /\ row = [r \in Rows |-> row[r]]
    /\ \A r \in Rows : row[r] # None => RowShape(row[r])
ExtensionTypes ==
    /\ registry \in Versions
    /\ installed \in Installations \cup {None}
    /\ reviewed \subseteq Versions
    /\ approvedRevs \subseteq Revisions
    /\ execution = [x \in Executions |-> execution[x]]
    /\ \A x \in Executions : execution[x] # None => ExecutionShape(execution[x])

-----------------------------------------------------------------------------
(* What a request has read and relies on, for as long as it is held.  A    *)
(* request names the incidents that it is about among those it read open,  *)
(* and an account is made in a role that manages accounts.                 *)
About(r) ==
    /\ r.kind \in {"incident", "archive"} => r.incident \in r.on
    /\ r.kind = "account" => r.incidents \subseteq r.on /\ Manages(r.row.by)
    /\ r.kind = "period" => r.row.incident \in r.on
    /\ r.kind \in {"join", "membership"} => r.of[1] \in r.on

HoldsAccount(r) ==
    /\ r.kind = "login" => user[r.user] # None /\ ~ user[r.user].change
    /\ r.kind \in {"activation", "reset"} => user[r.user] # None

Reviewed(x) ==
    /\ x.version \in reviewed
    /\ x.revision \in approvedRevs
    /\ RevisionOf[x.revision] = x.incident

(* The incident of a period, as its row and the requests about it have it, *)
(* and as forms and the requests about them have it.                       *)
PeriodSays(p, i) ==
    \/ period[p] # None /\ period[p].incident = i
    \/ \E w \in Workers :
          Doing(w, "period") /\ req[w].object = p /\ req[w].row.incident = i
    \/ \E w \in Workers :
          Doing(w, "period_archive") /\ req[w].object = p /\ req[w].on = {i}
FormSays(p, i) ==
    \/ \E f \in Forms : form[f] # None /\ form[f].period = p /\ form[f].incident = i
    \/ \E w \in Workers :
          Doing(w, "form") /\ req[w].row.period = p /\ req[w].row.incident = i

SessionsActivated ==
    \A u \in Users : session[u] # None => user[u] # None /\ ~ user[u].change

AccountInv ==
    /\ AccountTypes
    /\ SessionsActivated
    /\ AccountsByManagers
    /\ \A l \in link : user[l.user] # None
    /\ \A w \in Workers : req[w] # None => HoldsAccount(req[w])

ReviewInv ==
    /\ ExtensionTypes
    /\ Enabled => installed.version \in reviewed
    /\ \A w \in Workers : Doing(w, "execution") => Reviewed(req[w].row)
    /\ ExecutionsReviewed

PeriodInv ==
    /\ \A p \in Periods, i \in Incidents, j \in Incidents :
          PeriodSays(p, i) /\ (PeriodSays(p, j) \/ FormSays(p, j)) => i = j
    /\ \A p \in Periods, i \in Incidents :
          FormSays(p, i) /\ ~ purged => period[p] # None
    /\ \A w \in Workers : Doing(w, "period_archive") => \E i \in Incidents : req[w].on = {i}

RequestInv ==
    RequestTypes /\ \A w \in Workers : req[w] # None => About(req[w])

IncidentInv == IncidentTypes /\ PeriodInv /\ NoOrphans

ServicesInv == RequestInv /\ AccountInv /\ ReviewInv /\ IncidentInv

-----------------------------------------------------------------------------
(* Steps that end requests, and what stays true when they do.              *)
RequestsShrink ==
    /\ req' = [w \in Workers |-> req'[w]]
    /\ \A w \in Workers : req'[w] = req[w] \/ req'[w] = None

LEMMA Shrinking ==
    ASSUME RequestTypes
    PROVE  /\ UNCHANGED req => RequestsShrink
           /\ \A w \in Workers : Done(w) => RequestsShrink
           /\ req' = [w \in Workers |-> None] => RequestsShrink
BY DEF RequestTypes, RequestsShrink, Done

LEMMA RequestFrame ==
    ASSUME RequestInv, RequestsShrink
    PROVE  RequestInv'
<1>1. RequestTypes'
  BY DEF RequestInv, RequestTypes, RequestsShrink
<1>2. ASSUME NEW w \in Workers, req'[w] # None
      PROVE  About(req'[w])
  BY <1>2 DEF RequestInv, RequestsShrink
<1> QED
  BY <1>1, <1>2 DEF RequestInv

(* Accounts are never removed, a password that was chosen stays so, and a  *)
(* new account was made by who manages accounts.                           *)
AccountsGrow ==
    \A u \in Users :
        /\ user[u] # None =>
              /\ user'[u] # None /\ user'[u].by = user[u].by
              /\ user'[u].change => user[u].change
        /\ user'[u] # None => user[u] # None \/ Manages(user'[u].by)
SessionsGranted ==
    \A u \in Users : session'[u] # None =>
        session[u] # None \/ (user'[u] # None /\ ~ user'[u].change)
LinksGranted == \A l \in link' : l \in link \/ user[l.user] # None

LEMMA HeldAccounts ==
    ASSUME RequestInv, AccountInv, RequestsShrink, AccountsGrow
    PROVE  \A w \in Workers : req'[w] # None => HoldsAccount(req[w])'
<1> SUFFICES ASSUME NEW w \in Workers, req'[w] # None
             PROVE  HoldsAccount(req[w])'
  OBVIOUS
<1>1. req'[w] = req[w] /\ HoldsAccount(req[w]) /\ Typed(req[w])
  BY DEF RequestsShrink, AccountInv, RequestInv, RequestTypes
<1>2. req[w].kind \in {"login", "activation", "reset"} => req[w].user \in Users
  BY <1>1 DEF Typed, UserRequests, AccountRequests, IncidentRequests, ArchiveRequests,
     PeriodRequests, PeriodArchiveRequests, MemberRequests, FormRequests
<1> QED
  BY <1>1, <1>2 DEF HoldsAccount, AccountsGrow

LEMMA AccountStep ==
    ASSUME RequestInv, AccountInv, RequestsShrink, AccountTypes',
           AccountsGrow, SessionsGranted, LinksGranted
    PROVE  AccountInv'
<1>1. SessionsActivated'
  BY DEF AccountInv, SessionsActivated, AccountsGrow, SessionsGranted
<1>2. \A l \in link' : user'[l.user] # None
  BY DEF AccountInv, AccountTypes, Links, AccountsGrow, LinksGranted
<1>3. \A u \in Contingency' : Manages(user'[u].by)
  BY DEF AccountInv, AccountsByManagers, AccountsGrow, Contingency
<1> QED
  BY <1>1, <1>2, <1>3, HeldAccounts DEF AccountInv, AccountsByManagers

LEMMA AccountFrame ==
    ASSUME RequestInv, AccountInv, RequestsShrink, UNCHANGED accountVars
    PROVE  AccountInv'
<1>1. AccountTypes' /\ AccountsGrow /\ SessionsGranted /\ LinksGranted
  BY DEF AccountInv, AccountTypes, accountVars, AccountsGrow, SessionsGranted, LinksGranted
<1> QED
  BY <1>1, AccountStep

LEMMA ReviewFrame ==
    ASSUME ReviewInv, RequestsShrink, registry' \in Versions,
           UNCHANGED <<installed, reviewed, approvedRevs, execution>>
    PROVE  ReviewInv'
BY DEF ReviewInv, ExtensionTypes, RequestsShrink, Enabled, Doing, Reviewed, ExecutionsReviewed

(* What is said of periods by a state is said by the state before it.      *)
SaysShrink ==
    \A p \in Periods, i \in Incidents :
        (PeriodSays(p, i)' => PeriodSays(p, i)) /\ (FormSays(p, i)' => FormSays(p, i))

LEMMA SaysFrame ==
    ASSUME RequestsShrink, UNCHANGED <<period, form>>
    PROVE  SaysShrink
<1> SUFFICES ASSUME NEW p \in Periods, NEW i \in Incidents
             PROVE  (PeriodSays(p, i)' => PeriodSays(p, i)) /\ (FormSays(p, i)' => FormSays(p, i))
  BY DEF SaysShrink
<1>1. PeriodSays(p, i)' => PeriodSays(p, i)
  BY DEF PeriodSays, RequestsShrink, Doing
<1>2. FormSays(p, i)' => FormSays(p, i)
  BY DEF FormSays, RequestsShrink, Doing
<1> QED
  BY <1>1, <1>2

LEMMA PeriodStep ==
    ASSUME PeriodInv, RequestsShrink, SaysShrink, purged' = purged,
           \A p \in Periods : period[p] # None => period'[p] # None
    PROVE  PeriodInv'
<1>1. ASSUME NEW w \in Workers, Doing(w, "period_archive")'
      PROVE  \E i \in Incidents : req'[w].on = {i}
  BY <1>1 DEF PeriodInv, RequestsShrink, Doing
<1> QED
  BY <1>1 DEF PeriodInv, SaysShrink

LEMMA IncidentFrame ==
    ASSUME IncidentInv, RequestsShrink, UNCHANGED <<incidentVars, informationVars, execution>>
    PROVE  IncidentInv'
<1>1. PeriodInv'
  BY SaysFrame, PeriodStep DEF IncidentInv, incidentVars, informationVars
<1>2. IncidentTypes'
  BY DEF IncidentInv, IncidentTypes, incidentVars, informationVars
<1>3. NoOrphans'
  BY DEF IncidentInv, NoOrphans, Exists, incidentVars, informationVars
<1> QED
  BY <1>1, <1>2, <1>3 DEF IncidentInv

-----------------------------------------------------------------------------
(* The beginning of a request writes nothing; the request is typed, and    *)
(* what it relies on was true when it was read.                            *)
Fresh(p) == period[p] = None /\ ~ purged /\ NotHeld(p)

Admitted(r) ==
    /\ Typed(r) /\ About(r) /\ HoldsAccount(r)
    /\ r.kind = "login" => ~ Disabled(r.user)
    /\ r.kind = "execution" => Reviewed(r.row)
    /\ r.kind = "period" => Fresh(r.object) \/ PeriodSays(r.object, r.row.incident)
    /\ r.kind = "period_archive" =>
          \E i \in Incidents : r.on = {i} /\ PeriodSays(r.object, i)
    /\ r.kind = "form" => Fits(r.row.incident, r.row.period)

Starts(w, r) ==
    Take(w, r) /\ UNCHANGED <<accountVars, incidentVars, extensionVars, informationVars>>

LEMMA Kinds ==
    ASSUME NEW r, Typed(r)
    PROVE  /\ r.kind \in {"login", "activation", "reset"} => r \in UserRequests
           /\ r.kind = "account" => r \in AccountRequests
           /\ r.kind = "incident" => r \in IncidentRequests
           /\ r.kind = "archive" => r \in ArchiveRequests
           /\ r.kind = "period" => r \in PeriodRequests
           /\ r.kind = "period_archive" => r \in PeriodArchiveRequests
           /\ r.kind \in {"join", "membership"} => r \in MemberRequests
           /\ r.kind = "form" => r \in FormRequests
           /\ r.kind = "execution" => ExecutionShape(r.row)
           /\ r.kind = "row" => RowShape(r.row)
BY DEF Typed, UserRequests, AccountRequests, IncidentRequests, ArchiveRequests,
   PeriodRequests, PeriodArchiveRequests, MemberRequests, FormRequests

(* Nothing is said yet of a period that is about to be created.            *)
LEMMA FreshUnsaid ==
    ASSUME RequestInv, PeriodInv, NEW p \in Periods, Fresh(p), NEW i \in Incidents
    PROVE  ~ PeriodSays(p, i) /\ ~ FormSays(p, i)
<1>1. ASSUME NEW w \in Workers, Doing(w, "period") \/ Doing(w, "period_archive")
      PROVE  req[w].object # p
  <2>1. req[w] # None /\ Typed(req[w])
    BY <1>1 DEF Doing, RequestInv, RequestTypes
  <2>2. req[w] \in PeriodRequests \cup PeriodArchiveRequests
    BY <1>1, <2>1, Kinds DEF Doing
  <2>3. "object" \in DOMAIN req[w]
    BY <2>2 DEF PeriodRequests, PeriodArchiveRequests
  <2> QED
    BY <2>1, <2>3 DEF Fresh, NotHeld
<1> QED
  BY <1>1 DEF PeriodSays, Fresh, PeriodInv

LEMMA StartSays ==
    ASSUME RequestInv, PeriodInv, NEW w \in Workers, NEW r, Admitted(r), Starts(w, r),
           NEW p \in Periods, NEW i \in Incidents
    PROVE  /\ PeriodSays(p, i)' => \/ PeriodSays(p, i)
                                   \/ Fresh(p) /\ r.row.incident = i
           /\ FormSays(p, i)' => \/ FormSays(p, i)
                                 \/ period[p] # None /\ PeriodSays(p, i)
<1>1. \A v \in Workers : req'[v] = IF v = w THEN r ELSE req[v]
  BY DEF Starts, Take, RequestInv, RequestTypes
<1>2. period' = period /\ form' = form
  BY DEF Starts, incidentVars, informationVars
<1>3. ASSUME PeriodSays(p, i)', ~ PeriodSays(p, i)
      PROVE  Fresh(p) /\ r.row.incident = i
  <2>1. \/ r.kind = "period" /\ r.object = p /\ r.row.incident = i
        \/ r.kind = "period_archive" /\ r.object = p /\ r.on = {i}
    BY <1>1, <1>2, <1>3 DEF PeriodSays, Doing
  <2> QED
    BY <2>1, <1>3 DEF Admitted
<1>4. ASSUME FormSays(p, i)', ~ FormSays(p, i)
      PROVE  period[p] # None /\ PeriodSays(p, i)
  <2>1. r.kind = "form" /\ r.row.period = p /\ r.row.incident = i
    BY <1>1, <1>2, <1>4 DEF FormSays, Doing
  <2> QED
    BY <2>1 DEF Admitted, Fits, PeriodSays
<1> QED
  BY <1>3, <1>4

LEMMA StartPeriods ==
    ASSUME RequestInv, PeriodInv, NEW w \in Workers, NEW r, Admitted(r), Starts(w, r)
    PROVE  PeriodInv'
<1>1. ASSUME NEW p \in Periods, NEW i \in Incidents, NEW j \in Incidents,
             PeriodSays(p, i)', (PeriodSays(p, j) \/ FormSays(p, j))'
      PROVE  i = j
  <2>1. CASE Fresh(p)
    <3>1. r.row.incident = i
      BY <1>1, <2>1, FreshUnsaid, StartSays
    <3>2. ~ FormSays(p, j)'
      BY <2>1, FreshUnsaid, StartSays
    <3> QED
      BY <1>1, <2>1, <3>1, <3>2, FreshUnsaid, StartSays
  <2>2. CASE ~ Fresh(p)
    BY <1>1, <2>2, StartSays DEF PeriodInv
  <2> QED
    BY <2>1, <2>2
<1>2. ASSUME NEW p \in Periods, NEW i \in Incidents, FormSays(p, i)', ~ purged'
      PROVE  period'[p] # None
  BY <1>2, StartSays DEF PeriodInv, Starts, incidentVars
<1>3. ASSUME NEW v \in Workers, Doing(v, "period_archive")'
      PROVE  \E i \in Incidents : req'[v].on = {i}
  BY <1>3 DEF PeriodInv, Starts, Take, RequestInv, RequestTypes, Doing, Admitted
<1> QED
  BY <1>1, <1>2, <1>3 DEF PeriodInv

LEMMA StartInv ==
    ASSUME ServicesInv, NEW w \in Workers, NEW r, Admitted(r), Starts(w, r)
    PROVE  ServicesInv'
<1>1. \A v \in Workers : req'[v] = IF v = w THEN r ELSE req[v]
  BY DEF Starts, Take, ServicesInv, RequestInv, RequestTypes
<1>2. RequestInv'
  <2>1. RequestTypes'
    BY <1>1 DEF Starts, Take, ServicesInv, RequestInv, RequestTypes, Admitted
  <2> QED
    BY <1>1, <2>1 DEF ServicesInv, RequestInv, Admitted
<1>3. AccountInv'
  <2>1. \A v \in Workers : req'[v] # None => HoldsAccount(req[v])'
    BY <1>1 DEF Starts, accountVars, ServicesInv, AccountInv, Admitted, HoldsAccount
  <2> QED
    BY <2>1 DEF Starts, accountVars, ServicesInv, AccountInv, AccountTypes, Contingency,
       AccountsByManagers, SessionsActivated
<1>4. ReviewInv'
  BY <1>1 DEF Starts, extensionVars, ServicesInv, ReviewInv, ExtensionTypes, Enabled,
     ExecutionsReviewed, Doing, Reviewed, Admitted
<1>5. IncidentInv'
  <2>1. PeriodInv'
    BY StartPeriods DEF ServicesInv, IncidentInv
  <2> QED
    BY <2>1 DEF Starts, incidentVars, informationVars, extensionVars, ServicesInv,
       IncidentInv, IncidentTypes, NoOrphans, Exists
<1> QED
  BY <1>2, <1>3, <1>4, <1>5 DEF ServicesInv

(* What the rows that a request reads are.                                 *)
LEMMA RowTypes ==
    ASSUME ServicesInv
    PROVE  /\ \A u \in Users : user[u] # None => user[u] \in UserRows
           /\ \A i \in Incidents : Exists(i) => incident[i] \in IncidentRows
           /\ \A p \in Periods : period[p] # None => period[p] \in PeriodRows
           /\ \A f \in Forms : form[f] # None => form[f] \in FormRows
BY DEF ServicesInv, AccountInv, AccountTypes, IncidentInv, IncidentTypes, Exists

LEMMA OpenOnes ==
    /\ \A i \in Incidents : ReadOpen({i}) \in SUBSET Incidents
    /\ \A i \in Incidents : Open(i) => ReadOpen({i}) = {i}
    /\ \A S \in SUBSET Incidents : ReadOpen(S) \in SUBSET Incidents
    /\ \A S \in SUBSET Incidents : (\A i \in S : Open(i)) => ReadOpen(S) = S
BY DEF ReadOpen, Open, Exists

Begins == \E w \in Workers : \E r : Admitted(r) /\ Starts(w, r)

LEMMA UserRequestsBegin ==
    ASSUME ServicesInv, NEW w \in Workers, NEW u \in Users, NEW kind, user[u] # None,
           (kind = "login" /\ MaySignIn(u)) \/ kind \in {"activation", "reset"},
           Take(w, [kind |-> kind, user |-> u, on |-> {}]),
           UNCHANGED <<accountVars, incidentVars, extensionVars, informationVars>>
    PROVE  Begins
<1> DEFINE r == [kind |-> kind, user |-> u, on |-> {}]
<1>1. r \in UserRequests
  BY DEF UserRequests
<1>2. Admitted(r)
  BY <1>1 DEF Admitted, Typed, About, HoldsAccount, MaySignIn, Disabled
<1> QED
  BY <1>2 DEF Begins, Starts

LEMMA LoginBegins ==
    ASSUME ServicesInv, NEW w \in Workers, NEW u \in Users, BeginLogin(w, u), Access
    PROVE  Begins
BY UserRequestsBegin DEF BeginLogin, MaySignIn, Access

LEMMA ActivationBegins ==
    ASSUME ServicesInv, NEW w \in Workers, NEW u \in Users, BeginActivation(w, u), Access
    PROVE  Begins
BY UserRequestsBegin DEF BeginActivation, Contingency, Access

LEMMA ResetBegins ==
    ASSUME ServicesInv, NEW w \in Workers, NEW l \in link, BeginReset(w, l), Access
    PROVE  Begins
<1>1. l.user \in Users /\ user[l.user] # None
  BY DEF ServicesInv, AccountInv, AccountTypes, Links
<1> QED
  BY <1>1, UserRequestsBegin DEF BeginReset, Access

(* The role under which a signed-in user acts is one of the roles.         *)
LEMMA ActingRole ==
    ASSUME ServicesInv, NEW a \in Users, Authenticated(a)
    PROVE  RoleForUser(a) \in Roles
<1>1. "administrator" \in Roles
  BY DEF Roles, DefaultPolicy
<1> QED
  BY <1>1, RowTypes DEF RoleForUser, Authenticated, UserRows

LEMMA AccountBegins ==
    ASSUME ServicesInv, NEW w \in Workers, NEW a \in SignedIn, NEW u \in Users,
           NEW role \in RoleInputs, NEW email \in Emails, NEW is \in SUBSET Incidents,
           BeginAccount(w, a, u, role, email, is), Access
    PROVE  Begins
<1> DEFINE new == NewUser(role, email, RoleForUser(a))
           r == [kind |-> "account", user |-> u, incidents |-> is, on |-> ReadOpen(is),
                 row |-> new]
<1>1. new \in UserRows
  BY ActingRole, AccessAssumption DEF NewUser, UserRows, SignedIn
<1>2. ReadOpen(is) = is
  BY OpenOnes DEF BeginAccount
<1>3. Manages(new.by)
  BY DEF BeginAccount, HasPermission, LeftToObject, UserHasPermission, PolicyAction,
     PermissionsForUser, Manages, NewUser
<1> HIDE DEF new
<1>4. r \in AccountRequests
  BY <1>1, <1>2 DEF AccountRequests
<1>5. Admitted(r)
  BY <1>2, <1>3, <1>4 DEF Admitted, Typed, About, HoldsAccount
<1> QED
  BY <1>5 DEF BeginAccount, Begins, Starts, Access, new

LEMMA IncidentUpdateBegins ==
    ASSUME ServicesInv, NEW w \in Workers, NEW a \in SignedIn, NEW i \in Incidents,
           NEW l \in Labels, BeginIncidentUpdate(w, a, i, l), Access
    PROVE  Begins
<1> DEFINE new == [incident[i] EXCEPT !.label = l]
           r == [kind |-> "incident", incident |-> i, on |-> ReadOpen({i}), row |-> new]
<1>1. Open(i) /\ ReadOpen({i}) = {i}
  BY OpenOnes DEF BeginIncidentUpdate
<1>2. new \in IncidentRows
  BY <1>1, RowTypes DEF Open, IncidentRows
<1> HIDE DEF new
<1>3. r \in IncidentRequests
  BY <1>1, <1>2 DEF IncidentRequests
<1>4. Admitted(r)
  BY <1>1, <1>3 DEF Admitted, Typed, About, HoldsAccount
<1> QED
  BY <1>4 DEF BeginIncidentUpdate, Begins, Starts, Access, new

LEMMA IncidentArchiveBegins ==
    ASSUME ServicesInv, NEW w \in Workers, NEW a \in SignedIn, NEW i \in Incidents,
           BeginIncidentArchive(w, a, i), Access
    PROVE  Begins
<1> DEFINE r == [kind |-> "archive", incident |-> i, on |-> ReadOpen({i})]
<1>1. ReadOpen({i}) = {i}
  BY OpenOnes DEF BeginIncidentArchive
<1>2. r \in ArchiveRequests
  BY <1>1 DEF ArchiveRequests
<1>3. Admitted(r)
  BY <1>1, <1>2 DEF Admitted, Typed, About, HoldsAccount
<1> QED
  BY <1>3 DEF BeginIncidentArchive, Begins, Starts, Access

(* A request about a period that is new, or that has this incident.        *)
LEMMA PeriodRequestsBegin ==
    ASSUME ServicesInv, NEW w \in Workers, NEW p \in Periods, NEW new \in PeriodRows,
           Open(new.incident), Fresh(p) \/ PeriodSays(p, new.incident),
           Take(w, [kind |-> "period", object |-> p, on |-> ReadOpen({new.incident}),
                    row |-> new]),
           UNCHANGED <<accountVars, incidentVars, extensionVars, informationVars>>
    PROVE  Begins
<1> DEFINE r == [kind |-> "period", object |-> p, on |-> ReadOpen({new.incident}),
                 row |-> new]
<1>1. new.incident \in Incidents /\ ReadOpen({new.incident}) = {new.incident}
  BY OpenOnes DEF PeriodRows
<1>2. r \in PeriodRequests
  BY <1>1 DEF PeriodRequests
<1>3. Admitted(r)
  BY <1>1, <1>2 DEF Admitted, Typed, About, HoldsAccount
<1> QED
  BY <1>3 DEF Begins, Starts

LEMMA PeriodCreateBegins ==
    ASSUME ServicesInv, NEW w \in Workers, NEW a \in SignedIn, NEW i \in Incidents,
           NEW p \in Periods, NEW l \in Labels, BeginPeriodCreate(w, a, i, p, l), Access
    PROVE  Begins
<1> DEFINE new == [incident |-> i, archived |-> FALSE, label |-> l]
<1>1. new \in PeriodRows /\ new.incident = i
  BY DEF PeriodRows
<1>2. Take(w, [kind |-> "period", object |-> p, on |-> ReadOpen({new.incident}), row |-> new])
  BY DEF BeginPeriodCreate
<1>3. /\ Open(new.incident) /\ Fresh(p)
      /\ UNCHANGED <<accountVars, incidentVars, extensionVars, informationVars>>
  BY <1>1 DEF BeginPeriodCreate, Fresh, Access
<1> HIDE DEF new
<1> QED
  BY <1>1, <1>2, <1>3, PeriodRequestsBegin

LEMMA PeriodUpdateBegins ==
    ASSUME ServicesInv, NEW w \in Workers, NEW a \in SignedIn, NEW p \in Periods,
           NEW l \in Labels, BeginPeriodUpdate(w, a, p, l), Access
    PROVE  Begins
<1> DEFINE new == [period[p] EXCEPT !.label = l]
<1>1. period[p] # None /\ period[p] \in PeriodRows
  BY RowTypes DEF BeginPeriodUpdate
<1>2. new \in PeriodRows /\ new.incident = period[p].incident
  BY <1>1 DEF PeriodRows
<1>3. Take(w, [kind |-> "period", object |-> p, on |-> ReadOpen({new.incident}), row |-> new])
  BY <1>2 DEF BeginPeriodUpdate
<1>4. /\ Open(new.incident) /\ PeriodSays(p, new.incident)
      /\ UNCHANGED <<accountVars, incidentVars, extensionVars, informationVars>>
  BY <1>1, <1>2 DEF BeginPeriodUpdate, PeriodSays, Access
<1> HIDE DEF new
<1> QED
  BY <1>2, <1>3, <1>4, PeriodRequestsBegin

LEMMA PeriodArchiveBegins ==
    ASSUME ServicesInv, NEW w \in Workers, NEW a \in SignedIn, NEW p \in Periods,
           BeginPeriodArchive(w, a, p), Access
    PROVE  Begins
<1>1. PICK i \in Incidents : i = period[p].incident
  BY RowTypes DEF BeginPeriodArchive, PeriodRows
<1> DEFINE r == [kind |-> "period_archive", object |-> p, on |-> ReadOpen({i})]
<1>2. ReadOpen({i}) = {i} /\ PeriodSays(p, i)
  BY <1>1, OpenOnes DEF BeginPeriodArchive, PeriodSays
<1>3. r \in PeriodArchiveRequests
  BY <1>2 DEF PeriodArchiveRequests
<1>4. Admitted(r)
  BY <1>2, <1>3 DEF Admitted, Typed, About, HoldsAccount
<1> QED
  BY <1>1, <1>4 DEF BeginPeriodArchive, Begins, Starts, Access

LEMMA MemberRequestsBegin ==
    ASSUME ServicesInv, NEW w \in Workers, NEW i \in Incidents, NEW u \in Users,
           NEW new \in MemberRows, NEW kind \in {"join", "membership"}, Open(i),
           Take(w, [kind |-> kind, of |-> <<i, u>>, on |-> ReadOpen({i}), row |-> new]),
           UNCHANGED <<accountVars, incidentVars, extensionVars, informationVars>>
    PROVE  Begins
<1> DEFINE r == [kind |-> kind, of |-> <<i, u>>, on |-> ReadOpen({i}), row |-> new]
<1>1. ReadOpen({i}) = {i}
  BY OpenOnes
<1>2. r \in MemberRequests
  BY <1>1 DEF MemberRequests
<1>3. Admitted(r)
  BY <1>1, <1>2 DEF Admitted, Typed, About, HoldsAccount
<1> QED
  BY <1>3 DEF Begins, Starts

LEMMA MembershipCreateBegins ==
    ASSUME ServicesInv, NEW w \in Workers, NEW a \in SignedIn, NEW i \in Incidents,
           NEW u \in Users, NEW role \in RoleInputs,
           BeginMembershipCreate(w, a, i, u, role), Access
    PROVE  Begins
<1>1. [role |-> role, active |-> TRUE] \in MemberRows
  BY AccessAssumption DEF MemberRows
<1> QED
  BY <1>1, MemberRequestsBegin DEF BeginMembershipCreate, Access

LEMMA MembershipUpdateBegins ==
    ASSUME ServicesInv, NEW w \in Workers, NEW a \in SignedIn, NEW i \in Incidents,
           NEW u \in Users, NEW role \in RoleInputs, NEW active \in BOOLEAN,
           BeginMembershipUpdate(w, a, i, u, role, active), Access
    PROVE  Begins
<1>1. [role |-> role, active |-> active] \in MemberRows
  BY AccessAssumption DEF MemberRows
<1> QED
  BY <1>1, MemberRequestsBegin DEF BeginMembershipUpdate, Access

(* An execution begins with the manifest that is installed and enabled.    *)
LEMMA ExecutionBegins ==
    ASSUME ServicesInv, NEW w \in Workers, NEW a \in SignedIn, NEW i \in Incidents,
           NEW v \in Revisions, NEW m \in Minimums, NEW c \in Contracts,
           BeginExecution(w, a, i, v, m, c), Extension
    PROVE  Begins
<1> DEFINE new == [version |-> registry, incident |-> i, revision |-> v,
                   status |-> "complete", result |-> Readiness(RowsOf[v], m)]
           r == [kind |-> "execution", on |-> ReadOpen({i}), row |-> new]
<1>1. ExecutionShape(new)
  BY DEF ExecutionShape, ServicesInv, ReviewInv, ExtensionTypes
<1>2. Reviewed(new)
  BY DEF Reviewed, ServicesInv, ReviewInv, BeginExecution, Current
<1> HIDE DEF new
<1>3. Admitted(r)
  BY <1>1, <1>2 DEF Admitted, Typed, About, HoldsAccount
<1> QED
  BY <1>3 DEF BeginExecution, Begins, Starts, Extension, new

LEMMA FormRequestsBegin ==
    ASSUME ServicesInv, NEW w \in Workers, NEW f \in Forms, NEW new \in FormRows,
           NEW i \in Incidents, NEW sent \in SUBSET {"incident", "period", "header"},
           Fits(new.incident, new.period),
           Take(w, [kind |-> "form", object |-> f, on |-> ReadOpen({i}), sent |-> sent,
                    row |-> new]),
           UNCHANGED <<accountVars, incidentVars, extensionVars, informationVars>>
    PROVE  Begins
<1> DEFINE r == [kind |-> "form", object |-> f, on |-> ReadOpen({i}), sent |-> sent,
                 row |-> new]
<1>1. r \in FormRequests
  BY OpenOnes DEF FormRequests
<1>2. Admitted(r)
  BY <1>1 DEF Admitted, Typed, About, HoldsAccount
<1> QED
  BY <1>2 DEF Begins, Starts

LEMMA FormCreateBegins ==
    ASSUME ServicesInv, NEW w \in Workers, NEW a \in SignedIn, NEW f \in Forms,
           NEW i \in Incidents, NEW p \in Periods, BeginFormCreate(w, a, f, i, p), Information
    PROVE  Begins
<1>1. PICK h \in Headers :
         Take(w, [kind |-> "form", object |-> f, on |-> ReadOpen({i}),
                  sent |-> {"incident", "period", "header"},
                  row |-> [incident |-> i, period |-> p, header |-> h]])
  BY DEF BeginFormCreate
<1>2. [incident |-> i, period |-> p, header |-> h] \in FormRows
  BY DEF FormRows
<1> QED
  BY <1>1, <1>2, FormRequestsBegin DEF BeginFormCreate, Information

LEMMA FormUpdateBegins ==
    ASSUME ServicesInv, NEW w \in Workers, NEW a \in SignedIn,
           NEW f \in {g \in Forms : form[g] # None}, NEW new \in FormRows,
           BeginFormUpdate(w, a, f, new), Information
    PROVE  Begins
<1> DEFINE sent == {x \in DOMAIN new : new[x] # form[f][x]}
           i == form[f].incident
<1>1. sent \in SUBSET {"incident", "period", "header"} /\ i \in Incidents
  BY RowTypes DEF FormRows
<1>2. Take(w, [kind |-> "form", object |-> f, on |-> ReadOpen({i}), sent |-> sent,
               row |-> new])
  BY DEF BeginFormUpdate
<1> HIDE DEF sent, i
<1> QED
  BY <1>1, <1>2, FormRequestsBegin DEF BeginFormUpdate, Information

LEMMA RowRequestsBegin ==
    ASSUME ServicesInv, NEW w \in Workers, NEW x, NEW S, NEW f \in Forms, NEW k,
           Take(w, [kind |-> "row", object |-> x, on |-> S,
                    row |-> [form |-> f, position |-> k]]),
           UNCHANGED <<accountVars, incidentVars, extensionVars, informationVars>>
    PROVE  Begins
<1> DEFINE new == [form |-> f, position |-> k]
           r == [kind |-> "row", object |-> x, on |-> S, row |-> new]
<1>1. RowShape(new)
  BY DEF RowShape
<1> HIDE DEF new
<1>2. Admitted(r)
  BY <1>1 DEF Admitted, Typed, About, HoldsAccount
<1> QED
  BY <1>2 DEF Begins, Starts, new

LEMMA RowCreateBegins ==
    ASSUME ServicesInv, NEW w \in Workers, NEW a \in SignedIn, NEW x \in Rows,
           NEW f \in Forms, NEW k, BeginRowCreate(w, a, x, f, k), Information
    PROVE  Begins
BY RowRequestsBegin DEF BeginRowCreate, Information

LEMMA RowUpdateBegins ==
    ASSUME ServicesInv, NEW w \in Workers, NEW a \in SignedIn, NEW x \in Rows,
           NEW f \in Forms, NEW k, BeginRowUpdate(w, a, x, f, k), Information
    PROVE  Begins
BY RowRequestsBegin DEF BeginRowUpdate, Information

LEMMA RowDeleteBegins ==
    ASSUME ServicesInv, NEW w \in Workers, NEW a \in SignedIn, NEW x \in Rows,
           BeginRowDelete(w, a, x), Information
    PROVE  Begins
<1>1. PICK on, rest : Take(w, [kind |-> "row_delete", object |-> x, on |-> on, rest |-> rest])
  BY DEF BeginRowDelete
<1>2. Admitted([kind |-> "row_delete", object |-> x, on |-> on, rest |-> rest])
  BY DEF Admitted, Typed, About, HoldsAccount
<1> QED
  BY <1>1, <1>2 DEF BeginRowDelete, Begins, Starts, Information

LEMMA ReorderBegins ==
    ASSUME ServicesInv, NEW w \in Workers, NEW a \in SignedIn, NEW f \in Forms, NEW list,
           BeginReorder(w, a, f, list), Information
    PROVE  Begins
<1>1. PICK on : Take(w, [kind |-> "reorder", list |-> list, on |-> on])
  BY DEF BeginReorder
<1>2. Admitted([kind |-> "reorder", list |-> list, on |-> on])
  BY DEF Admitted, Typed, About, HoldsAccount
<1> QED
  BY <1>1, <1>2 DEF BeginReorder, Begins, Starts, Information

-----------------------------------------------------------------------------
(* What a request that is about to write holds.                            *)
LEMMA Held ==
    ASSUME ServicesInv, NEW w \in Workers
    PROVE  /\ \A k \in {"login", "activation", "reset"} : Doing(w, k) =>
                 req[w].user \in Users /\ user[req[w].user] \in UserRows
           /\ Doing(w, "login") => user[req[w].user] # None /\ ~ user[req[w].user].change
           /\ Doing(w, "account") =>
                 /\ req[w] \in AccountRequests /\ req[w].incidents \subseteq req[w].on
                 /\ Manages(req[w].row.by)
           /\ Doing(w, "incident") =>
                 req[w] \in IncidentRequests /\ req[w].incident \in req[w].on
           /\ Doing(w, "archive") =>
                 req[w] \in ArchiveRequests /\ req[w].incident \in req[w].on
           /\ Doing(w, "period") =>
                 /\ req[w] \in PeriodRequests /\ req[w].row.incident \in req[w].on
                 /\ PeriodSays(req[w].object, req[w].row.incident)
           /\ Doing(w, "period_archive") =>
                 /\ req[w] \in PeriodArchiveRequests
                 /\ \E i \in Incidents : req[w].on = {i} /\ PeriodSays(req[w].object, i)
           /\ \A k \in {"join", "membership"} : Doing(w, k) =>
                 req[w] \in MemberRequests /\ req[w].of[1] \in req[w].on
           /\ Doing(w, "form") => req[w] \in FormRequests
           /\ Doing(w, "execution") => ExecutionShape(req[w].row) /\ Reviewed(req[w].row)
           /\ Doing(w, "row") => RowShape(req[w].row)
<1>1. req[w] # None => Typed(req[w]) /\ About(req[w]) /\ HoldsAccount(req[w])
  BY DEF ServicesInv, RequestInv, RequestTypes, AccountInv
<1>2. ASSUME NEW k \in {"login", "activation", "reset"}, Doing(w, k)
      PROVE  req[w].user \in Users /\ user[req[w].user] \in UserRows
  <2>1. req[w] \in UserRequests
    BY <1>1, <1>2, Kinds DEF Doing
  <2>2. req[w].user \in Users /\ user[req[w].user] # None
    BY <1>1, <1>2, <2>1 DEF Doing, UserRequests, HoldsAccount
  <2> QED
    BY <2>2, RowTypes
<1>3. Doing(w, "login") => user[req[w].user] # None /\ ~ user[req[w].user].change
  BY <1>1 DEF Doing, HoldsAccount
<1>4. /\ Doing(w, "account") =>
            /\ req[w] \in AccountRequests /\ req[w].incidents \subseteq req[w].on
            /\ Manages(req[w].row.by)
      /\ Doing(w, "incident") =>
            req[w] \in IncidentRequests /\ req[w].incident \in req[w].on
      /\ Doing(w, "archive") =>
            req[w] \in ArchiveRequests /\ req[w].incident \in req[w].on
  BY <1>1, Kinds DEF Doing, About
<1>5. Doing(w, "period") =>
         /\ req[w] \in PeriodRequests /\ req[w].row.incident \in req[w].on
         /\ PeriodSays(req[w].object, req[w].row.incident)
  BY <1>1, Kinds DEF Doing, About, PeriodSays
<1>6. Doing(w, "period_archive") =>
         /\ req[w] \in PeriodArchiveRequests
         /\ \E i \in Incidents : req[w].on = {i} /\ PeriodSays(req[w].object, i)
  <2>1. Doing(w, "period_archive") => \E i \in Incidents : req[w].on = {i}
    BY DEF ServicesInv, IncidentInv, PeriodInv
  <2> QED
    BY <1>1, <2>1, Kinds DEF Doing, PeriodSays
<1>7. \A k \in {"join", "membership"} : Doing(w, k) =>
         req[w] \in MemberRequests /\ req[w].of[1] \in req[w].on
  BY <1>1, Kinds DEF Doing, About
<1>8. /\ Doing(w, "form") => req[w] \in FormRequests
      /\ Doing(w, "row") => RowShape(req[w].row)
      /\ Doing(w, "execution") => ExecutionShape(req[w].row)
  BY <1>1, Kinds DEF Doing
<1>9. Doing(w, "execution") => Reviewed(req[w].row)
  BY DEF ServicesInv, ReviewInv
<1> QED
  BY <1>2, <1>3, <1>4, <1>5, <1>6, <1>7, <1>8, <1>9

(* A step that may end requests and writes accounts, or one of the parts.  *)
LEMMA Ends ==
    ASSUME ServicesInv
    PROVE  /\ UNCHANGED req => RequestsShrink
           /\ \A w \in Workers : Done(w) => RequestsShrink
           /\ req' = [w \in Workers |-> None] => RequestsShrink
BY Shrinking DEF ServicesInv, RequestInv

LEMMA AccountStepInv ==
    ASSUME ServicesInv, RequestsShrink,
           AccountTypes', AccountsGrow, SessionsGranted, LinksGranted,
           UNCHANGED <<incidentVars, extensionVars, informationVars>>
    PROVE  ServicesInv'
<1>1. RequestInv' /\ AccountInv'
  BY RequestFrame, AccountStep DEF ServicesInv
<1>2. ReviewInv'
  BY ReviewFrame DEF ServicesInv, ReviewInv, ExtensionTypes, extensionVars
<1>3. IncidentInv'
  BY IncidentFrame DEF ServicesInv, extensionVars
<1> QED
  BY <1>1, <1>2, <1>3 DEF ServicesInv

LEMMA IncidentStepInv ==
    ASSUME ServicesInv, RequestsShrink, SaysShrink, IncidentTypes', NoOrphans',
           \A p \in Periods : period[p] # None => period'[p] # None,
           UNCHANGED <<accountVars, extensionVars, purged>>
    PROVE  ServicesInv'
<1>1. RequestInv' /\ AccountInv'
  BY RequestFrame, AccountFrame DEF ServicesInv
<1>2. ReviewInv'
  BY ReviewFrame DEF ServicesInv, ReviewInv, ExtensionTypes, extensionVars
<1>3. IncidentInv'
  BY PeriodStep DEF ServicesInv, IncidentInv
<1> QED
  BY <1>1, <1>2, <1>3 DEF ServicesInv

LEMMA ReviewStepInv ==
    ASSUME ServicesInv, RequestsShrink, ReviewInv', NoOrphans',
           UNCHANGED <<accountVars, incidentVars, informationVars>>
    PROVE  ServicesInv'
<1>1. RequestInv' /\ AccountInv'
  BY RequestFrame, AccountFrame DEF ServicesInv
<1>2. PeriodInv'
  BY SaysFrame, PeriodStep DEF ServicesInv, IncidentInv, incidentVars, informationVars
<1>3. IncidentTypes'
  BY DEF ServicesInv, IncidentInv, IncidentTypes, incidentVars, informationVars
<1> QED
  BY <1>1, <1>2, <1>3 DEF ServicesInv, IncidentInv

-----------------------------------------------------------------------------
(* Accounts.                                                               *)
LEMMA UserRowChanges ==
    ASSUME NEW x \in UserRows
    PROVE  /\ [x EXCEPT !.password = x.password + 1, !.change = FALSE] \in UserRows
           /\ \A b \in BOOLEAN : [x EXCEPT !.active = b] \in UserRows
           /\ \A e \in Emails : [x EXCEPT !.email = e] \in UserRows
<1> DEFINE half == [x EXCEPT !.password = x.password + 1]
<1>1. half \in UserRows
  BY DEF UserRows
<1>2. [x EXCEPT !.password = x.password + 1, !.change = FALSE]
         = [half EXCEPT !.change = FALSE]
  OBVIOUS
<1>3. [half EXCEPT !.change = FALSE] \in UserRows
  <2> HIDE DEF half
  <2> QED
    BY <1>1 DEF UserRows
<1>4. \A b \in BOOLEAN : [x EXCEPT !.active = b] \in UserRows
  BY DEF UserRows
<1>5. \A e \in Emails : [x EXCEPT !.email = e] \in UserRows
  BY DEF UserRows
<1> HIDE DEF half
<1> QED
  BY <1>2, <1>3, <1>4, <1>5

LEMMA OneUserChanges ==
    ASSUME ServicesInv, NEW u \in Users, user[u] # None, NEW new \in UserRows,
           user' = [user EXCEPT ![u] = new], new.change => user[u].change,
           new.by = user[u].by
    PROVE  user' \in [Users -> UserRows \cup {None}] /\ AccountsGrow
BY AccessAssumption DEF ServicesInv, AccountInv, AccountTypes, AccountsGrow

LEMMA ChosenPassword ==
    ASSUME ServicesInv, NEW u \in Users, user[u] \in UserRows, ChoosePassword(u)
    PROVE  user' \in [Users -> UserRows \cup {None}] /\ AccountsGrow
<1> DEFINE new == [user[u] EXCEPT !.password = user[u].password + 1, !.change = FALSE]
<1>1. new \in UserRows /\ ~ new.change /\ new.by = user[u].by
  BY UserRowChanges DEF UserRows
<1>2. user' = [user EXCEPT ![u] = new]
  BY DEF ChoosePassword
<1>3. user[u] # None
  BY AccessAssumption
<1> HIDE DEF new
<1> QED
  BY <1>1, <1>2, <1>3, OneUserChanges

LEMMA LinkMade ==
    ASSUME ServicesInv, NEW u \in Contingency, link' = link \cup {LinkFor(u)}
    PROVE  link' \subseteq Links /\ LinksGranted
BY RowTypes DEF ServicesInv, AccountInv, AccountTypes, Links, LinkFor, UserRows, Contingency,
   LinksGranted

(* The steps that write accounts alone.                                    *)
AccountSteps ==
    \/ \E w \in Workers : FinishLogin(w)
    \/ \E u \in Users : Logout(u) \/ ExpireToken(u) \/ RequestReset(u)
    \/ \E w \in Workers : FinishActivation(w) \/ FinishReset(w) \/ Abandon(w)
    \/ \E l \in link : ExpireLink(l)
    \/ \E a \in SignedIn, u \in Users :
          SendPasswordReset(a, u) \/ Disable(a, u) \/ Enable(a, u) \/ SignOutAll(a, u)
    \/ \E a \in SignedIn, u \in Users, email \in Emails : SetEmail(a, u, email)

LEMMA AccountStepsInv ==
    ASSUME ServicesInv, AccountSteps, Access
    PROVE  ServicesInv'
<1> USE DEF Access
<1>0. AccountTypes
  BY DEF ServicesInv, AccountInv
<1>1. ASSUME NEW w \in Workers, FinishLogin(w)
      PROVE  ServicesInv'
  <2>1. AccountTypes' /\ AccountsGrow /\ SessionsGranted /\ LinksGranted
    BY <1>0, <1>1, Held
       DEF FinishLogin, AccountTypes, AccountsGrow, SessionsGranted, LinksGranted
  <2> QED
    BY <1>1, <2>1, AccountStepInv, Ends DEF FinishLogin
<1>2. ASSUME NEW u \in Users, Logout(u) \/ ExpireToken(u)
      PROVE  ServicesInv'
  <2>1. AccountTypes' /\ AccountsGrow /\ SessionsGranted /\ LinksGranted
    BY <1>0, <1>2, AccessAssumption
       DEF Logout, ExpireToken, Authenticated, AccountTypes, AccountsGrow, SessionsGranted,
           LinksGranted
  <2> QED
    BY <1>2, <2>1, AccountStepInv, Ends DEF Logout, ExpireToken
<1>3. ASSUME NEW u \in Users, NEW a \in SignedIn, SendPasswordReset(a, u)
      PROVE  ServicesInv'
  <2>1. AccountTypes' /\ AccountsGrow /\ SessionsGranted /\ LinksGranted
    BY <1>0, <1>3, LinkMade
       DEF SendPasswordReset, AccountTypes, AccountsGrow, SessionsGranted
  <2> QED
    BY <1>3, <2>1, AccountStepInv, Ends DEF SendPasswordReset
<1>4. ASSUME NEW w \in Workers, FinishActivation(w) \/ FinishReset(w)
      PROVE  ServicesInv'
  <2> DEFINE u == req[w].user
  <2>1. u \in Users /\ user[u] \in UserRows /\ ChoosePassword(u)
    BY <1>4, Held DEF FinishActivation, FinishReset
  <2>2. user' \in [Users -> UserRows \cup {None}] /\ AccountsGrow
    BY <2>1, ChosenPassword
  <2>3. AccountTypes' /\ SessionsGranted /\ LinksGranted
    BY <1>0, <1>4, <2>1, <2>2
       DEF FinishActivation, FinishReset, AccountTypes, SessionsGranted, LinksGranted
  <2> QED
    BY <1>4, <2>2, <2>3, AccountStepInv, Ends DEF FinishActivation, FinishReset
<1>5. ASSUME NEW w \in Workers, Abandon(w)
      PROVE  ServicesInv'
  <2>1. AccountTypes' /\ AccountsGrow /\ SessionsGranted /\ LinksGranted
    BY <1>0, <1>5
       DEF Abandon, accountVars, AccountTypes, AccountsGrow, SessionsGranted, LinksGranted
  <2> QED
    BY <1>5, <2>1, AccountStepInv, Ends DEF Abandon
<1>6. ASSUME NEW l \in link, ExpireLink(l)
      PROVE  ServicesInv'
  <2>1. AccountTypes' /\ AccountsGrow /\ SessionsGranted /\ LinksGranted
    BY <1>0, <1>6
       DEF ExpireLink, AccountTypes, AccountsGrow, SessionsGranted, LinksGranted
  <2> QED
    BY <1>6, <2>1, AccountStepInv, Ends DEF ExpireLink
<1>7. ASSUME NEW a \in SignedIn, NEW u \in Users, Disable(a, u) \/ Enable(a, u)
      PROVE  ServicesInv'
  <2>1. user[u] # None /\ user[u] \in UserRows
    BY <1>7, RowTypes DEF Disable, Enable, Contingency
  <2>2. PICK b \in BOOLEAN : user' = [user EXCEPT ![u].active = b]
    BY <1>7 DEF Disable, Enable
  <2> DEFINE new == [user[u] EXCEPT !.active = b]
  <2>3. /\ new \in UserRows /\ new.change = user[u].change /\ new.by = user[u].by
    BY <2>1, UserRowChanges DEF UserRows
  <2>4. user' = [user EXCEPT ![u] = new]
    BY <2>2
  <2> HIDE DEF new
  <2>5. user' \in [Users -> UserRows \cup {None}] /\ AccountsGrow
    BY <2>1, <2>3, <2>4, OneUserChanges
  <2>6. AccountTypes' /\ SessionsGranted /\ LinksGranted
    BY <1>0, <1>7, <2>5
       DEF Disable, Enable, AccountTypes, SessionsGranted, LinksGranted
  <2> QED
    BY <1>7, <2>5, <2>6, AccountStepInv, Ends DEF Disable, Enable
<1>8. ASSUME NEW a \in SignedIn, NEW u \in Users, SignOutAll(a, u)
      PROVE  ServicesInv'
  <2>1. AccountTypes' /\ AccountsGrow /\ SessionsGranted /\ LinksGranted
    BY <1>0, <1>8
       DEF SignOutAll, AccountTypes, AccountsGrow, SessionsGranted, LinksGranted
  <2> QED
    BY <1>8, <2>1, AccountStepInv, Ends DEF SignOutAll
<1>9. ASSUME NEW a \in SignedIn, NEW u \in Users, NEW email \in Emails,
             SetEmail(a, u, email)
      PROVE  ServicesInv'
  <2>1. user[u] # None /\ user[u] \in UserRows
    BY <1>9, RowTypes DEF SetEmail, Contingency
  <2> DEFINE new == [user[u] EXCEPT !.email = email]
  <2>3. /\ new \in UserRows /\ new.change = user[u].change /\ new.by = user[u].by
    BY <2>1, UserRowChanges DEF UserRows
  <2>4. user' = [user EXCEPT ![u] = new]
    BY <1>9 DEF SetEmail
  <2> HIDE DEF new
  <2>5. user' \in [Users -> UserRows \cup {None}] /\ AccountsGrow
    BY <2>1, <2>3, <2>4, OneUserChanges
  <2>6. AccountTypes' /\ SessionsGranted /\ LinksGranted
    BY <1>0, <1>9, <2>5 DEF SetEmail, AccountTypes, SessionsGranted, LinksGranted
  <2> QED
    BY <1>9, <2>5, <2>6, AccountStepInv, Ends DEF SetEmail
<1>10. ASSUME NEW u \in Users, RequestReset(u)
       PROVE  ServicesInv'
  <2>1. AccountTypes' /\ AccountsGrow /\ SessionsGranted /\ LinksGranted
    BY <1>0, <1>10, LinkMade DEF RequestReset, AccountTypes, AccountsGrow, SessionsGranted
  <2> QED
    BY <1>10, <2>1, AccountStepInv, Ends DEF RequestReset
<1> QED
  BY <1>1, <1>2, <1>3, <1>4, <1>5, <1>6, <1>7, <1>8, <1>9, <1>10 DEF AccountSteps

-----------------------------------------------------------------------------
(* Incidents, periods and memberships.                                     *)
LEMMA PeriodFrame ==
    ASSUME RequestsShrink, UNCHANGED <<period, form>>
    PROVE  SaysShrink /\ \A p \in Periods : period[p] # None => period'[p] # None
BY SaysFrame

(* New members of incidents that are there.                                *)
LEMMA MembersInv ==
    ASSUME ServicesInv, RequestsShrink,
           member' \in [Incidents \X Users -> MemberRows \cup {None}],
           incident' \in [Incidents -> IncidentRows \cup {None}],
           \A i \in Incidents : Exists(i) => incident'[i] # None,
           \A i \in Incidents, u \in Users :
              member'[<<i, u>>] # None => member[<<i, u>>] # None \/ incident'[i] # None,
           UNCHANGED <<extensionVars, accountVars, period, purged, informationVars>>
    PROVE  ServicesInv'
<1>1. IncidentTypes'
  BY DEF ServicesInv, IncidentInv, IncidentTypes, informationVars
<1>2. NoOrphans'
  <2>1. \A p \in Periods : period'[p] # None => incident'[period'[p].incident] # None
    BY RowTypes DEF ServicesInv, IncidentInv, NoOrphans, Exists, PeriodRows
  <2>2. \A i \in Incidents, u \in Users : member'[<<i, u>>] # None => incident'[i] # None
    BY DEF ServicesInv, IncidentInv, NoOrphans, Exists
  <2>3. \A f \in Forms : form'[f] # None =>
           /\ incident'[form'[f].incident] # None /\ period'[form'[f].period] # None
           /\ period'[form'[f].period].incident = form'[f].incident
    BY RowTypes DEF ServicesInv, IncidentInv, NoOrphans, Exists, FormRows, informationVars
  <2>4. \A x \in Executions : execution'[x] # None => incident'[execution'[x].incident] # None
    BY DEF ServicesInv, IncidentInv, NoOrphans, Exists, ReviewInv, ExtensionTypes,
       ExecutionShape, extensionVars
  <2>5. \A x \in Rows : row'[x] # None => form'[row'[x].form] # None
    BY DEF ServicesInv, IncidentInv, NoOrphans, informationVars
  <2> QED
    BY <2>1, <2>2, <2>3, <2>4, <2>5 DEF NoOrphans, Exists
<1> QED
  BY <1>1, <1>2, PeriodFrame, IncidentStepInv DEF informationVars

LEMMA CreateIncidentInv ==
    ASSUME ServicesInv, NEW a \in SignedIn, NEW i \in Incidents, NEW l \in Labels,
           CreateIncident(a, i, l), Access
    PROVE  ServicesInv'
<1> DEFINE new == [archived |-> FALSE, label |-> l]
           mine == [role |-> RoleForUser(a), active |-> TRUE]
<1>1. new \in IncidentRows /\ mine \in MemberRows /\ new # None
  <2>1. new \in IncidentRows
    BY DEF IncidentRows
  <2>2. RoleForUser(a) \in Roles
    BY ActingRole DEF SignedIn
  <2>3. mine \in MemberRows
    BY <2>2 DEF MemberRows
  <2> HIDE DEF new
  <2> QED
    BY <2>1, <2>3, AccessAssumption
<1>2. incident' = [incident EXCEPT ![i] = new] /\ member' = [member EXCEPT ![<<i, a>>] = mine]
  BY DEF CreateIncident
<1> HIDE DEF new, mine
<1>3. /\ incident' \in [Incidents -> IncidentRows \cup {None}]
      /\ \A j \in Incidents : Exists(j) => incident'[j] # None
      /\ incident'[i] # None
  BY <1>1, <1>2 DEF ServicesInv, IncidentInv, IncidentTypes, Exists
<1>4. /\ member' \in [Incidents \X Users -> MemberRows \cup {None}]
      /\ \A j \in Incidents, u \in Users :
            member'[<<j, u>>] # None => member[<<j, u>>] # None \/ j = i
  BY <1>1, <1>2 DEF ServicesInv, IncidentInv, IncidentTypes, SignedIn
<1> QED
  BY <1>3, <1>4, MembersInv, Ends DEF CreateIncident, Access

LEMMA IncidentWritesInv ==
    ASSUME ServicesInv, NEW w \in Workers,
           FinishIncidentUpdate(w) \/ FinishIncidentArchive(w), Access
    PROVE  ServicesInv'
<1>1. \E i \in Incidents : \E new \in IncidentRows : incident' = [incident EXCEPT ![i] = new]
  <2>1. CASE FinishIncidentUpdate(w)
    BY <2>1, Held DEF FinishIncidentUpdate, IncidentRequests
  <2>2. CASE FinishIncidentArchive(w)
    <3> DEFINE i == req[w].incident
               new == [incident[i] EXCEPT !.archived = TRUE]
    <3>1. i \in Incidents /\ Exists(i) /\ incident' = [incident EXCEPT ![i] = new]
      BY <2>2, Held DEF FinishIncidentArchive, ArchiveRequests
    <3>2. new \in IncidentRows
      BY <3>1, RowTypes DEF IncidentRows
    <3> HIDE DEF new
    <3> QED
      BY <3>1, <3>2
  <2> QED
    BY <2>1, <2>2
<1>2. /\ incident' \in [Incidents -> IncidentRows \cup {None}]
      /\ \A j \in Incidents : Exists(j) => incident'[j] # None
  BY <1>1, AccessAssumption DEF ServicesInv, IncidentInv, IncidentTypes, Exists
<1>3. /\ Done(w)
      /\ UNCHANGED <<extensionVars, accountVars, period, member, purged, informationVars>>
  BY DEF FinishIncidentUpdate, FinishIncidentArchive, Access
<1> QED
  BY <1>2, <1>3, MembersInv, Ends DEF ServicesInv, IncidentInv, IncidentTypes

LEMMA MembershipWritesInv ==
    ASSUME ServicesInv, NEW w \in Workers,
           FinishMembershipCreate(w) \/ FinishMembershipUpdate(w), Access
    PROVE  ServicesInv'
<1>1. req[w] \in MemberRequests
  BY Held DEF FinishMembershipCreate, FinishMembershipUpdate
<1>2. PICK i \in Incidents, u \in Users : req[w].of = <<i, u>>
  BY <1>1 DEF MemberRequests
<1>3. PICK new \in MemberRows : member' = [member EXCEPT ![<<i, u>>] = new]
  BY <1>1, <1>2 DEF FinishMembershipCreate, FinishMembershipUpdate, MemberRequests
<1>4. /\ Done(w) /\ Exists(i)
      /\ UNCHANGED <<extensionVars, accountVars, incident, period, purged, informationVars>>
  BY <1>2 DEF FinishMembershipCreate, FinishMembershipUpdate, Access
<1>5. /\ member' \in [Incidents \X Users -> MemberRows \cup {None}]
      /\ \A j \in Incidents, v \in Users :
            member'[<<j, v>>] # None => member[<<j, v>>] # None \/ j = i
  BY <1>3 DEF ServicesInv, IncidentInv, IncidentTypes
<1> QED
  BY <1>4, <1>5, MembersInv, Ends DEF ServicesInv, IncidentInv, IncidentTypes, Exists

(* A write of a period writes what the requests say of it.                 *)
LEMMA OnePeriodInv ==
    ASSUME ServicesInv, RequestsShrink, NEW p \in Periods, NEW new \in PeriodRows,
           PeriodSays(p, new.incident), Exists(new.incident),
           period' = [period EXCEPT ![p] = new],
           UNCHANGED <<extensionVars, accountVars, incident, member, purged, informationVars>>
    PROVE  ServicesInv'
<1>1. \A q \in Periods : period'[q] = IF q = p THEN new ELSE period[q]
  BY DEF ServicesInv, IncidentInv, IncidentTypes
<1>2. new # None /\ new.incident \in Incidents
  BY AccessAssumption DEF PeriodRows
<1>3. SaysShrink
  <2> SUFFICES ASSUME NEW q \in Periods, NEW i \in Incidents
               PROVE  /\ PeriodSays(q, i)' => PeriodSays(q, i)
                      /\ FormSays(q, i)' => FormSays(q, i)
    BY DEF SaysShrink
  <2>1. PeriodSays(q, i)' => PeriodSays(q, i)
    BY <1>1 DEF PeriodSays, RequestsShrink, Doing
  <2>2. FormSays(q, i)' => FormSays(q, i)
    BY DEF FormSays, RequestsShrink, Doing, informationVars
  <2> QED
    BY <2>1, <2>2
<1>4. IncidentTypes'
  BY <1>1 DEF ServicesInv, IncidentInv, IncidentTypes, informationVars
<1>5. NoOrphans'
  <2>1. ASSUME NEW f \in Forms, form[f] # None
        PROVE  period'[form[f].period].incident = form[f].incident
    <3>1. form[f] \in FormRows
      BY <2>1, RowTypes
    <3>2. form[f].period = p => FormSays(p, form[f].incident)
      BY <2>1 DEF FormSays
    <3>3. form[f].period = p => new.incident = form[f].incident
      BY <1>2, <3>1, <3>2 DEF FormRows, ServicesInv, IncidentInv, PeriodInv
    <3> QED
      BY <1>1, <2>1, <3>1, <3>3 DEF FormRows, ServicesInv, IncidentInv, NoOrphans
  <2>2. \A f \in Forms : form[f] # None =>
           Exists(form[f].incident) /\ period'[form[f].period] # None
    BY <1>1, <1>2, RowTypes DEF FormRows, ServicesInv, IncidentInv, NoOrphans
  <2> QED
    BY <1>1, <2>1, <2>2 DEF ServicesInv, IncidentInv, NoOrphans, Exists, informationVars,
       extensionVars
<1>6. \A q \in Periods : period[q] # None => period'[q] # None
  BY <1>1, <1>2
<1> QED
  BY <1>3, <1>4, <1>5, <1>6, IncidentStepInv

LEMMA PeriodWritesInv ==
    ASSUME ServicesInv, NEW w \in Workers, FinishPeriod(w) \/ FinishPeriodArchive(w), Access
    PROVE  ServicesInv'
<1>1. CASE FinishPeriod(w)
  <2>1. /\ req[w].object \in Periods /\ req[w].row \in PeriodRows
        /\ PeriodSays(req[w].object, req[w].row.incident)
    BY <1>1, Held DEF FinishPeriod, PeriodRequests
  <2>2. PICK p \in Periods, new \in PeriodRows : p = req[w].object /\ new = req[w].row
    BY <2>1
  <2> QED
    BY <1>1, <2>1, <2>2, OnePeriodInv, Ends DEF FinishPeriod, Access
<1>2. CASE FinishPeriodArchive(w)
  <2>1. PICK p \in Periods : p = req[w].object
    BY <1>2, Held DEF FinishPeriodArchive, PeriodArchiveRequests
  <2> DEFINE new == [period[p] EXCEPT !.archived = TRUE]
  <2>2. period[p] # None /\ period[p] \in PeriodRows
    BY <1>2, <2>1, RowTypes DEF FinishPeriodArchive
  <2>3. new \in PeriodRows /\ new.incident = period[p].incident
    BY <2>2 DEF PeriodRows
  <2>4. period' = [period EXCEPT ![p] = new]
    BY <1>2, <2>1 DEF FinishPeriodArchive
  <2> HIDE DEF new
  <2>5. PeriodSays(p, new.incident) /\ Exists(new.incident)
    BY <2>2, <2>3 DEF PeriodSays, ServicesInv, IncidentInv, NoOrphans
  <2> QED
    BY <1>2, <2>3, <2>4, <2>5, OnePeriodInv, Ends DEF FinishPeriodArchive, Access
<1> QED
  BY <1>1, <1>2

(* A contingency account comes with its memberships.                       *)
LEMMA FinishAccountInv ==
    ASSUME ServicesInv, NEW w \in Workers, FinishAccount(w), Access
    PROVE  ServicesInv'
<1>1. PICK u \in Users, new \in UserRows, is \in SUBSET Incidents :
         u = req[w].user /\ new = req[w].row /\ is = req[w].incidents
  BY Held DEF FinishAccount, AccountRequests
<1> DEFINE mine == [role |-> new.role, active |-> TRUE]
<1>2. mine \in MemberRows
  BY DEF UserRows, MemberRows
<1>3. /\ user[u] = None /\ user' = [user EXCEPT ![u] = new]
      /\ Manages(new.by)
      /\ \A i \in is : Exists(i)
      /\ member' = [m \in Incidents \X Users |->
                       IF m[1] \in is /\ m[2] = u THEN mine ELSE member[m]]
      /\ RequestsShrink
      /\ UNCHANGED <<session, link, incident, period, purged, extensionVars, informationVars>>
  BY <1>1, Ends, Held DEF FinishAccount, Access
<1> HIDE DEF mine
<1>4. AccountTypes' /\ AccountsGrow /\ LinksGranted
  BY <1>3, AccessAssumption DEF ServicesInv, AccountInv, AccountTypes, AccountsGrow, LinksGranted
<1>5. RequestInv' /\ AccountInv'
  BY <1>3, <1>4, RequestFrame, AccountStep DEF ServicesInv, SessionsGranted
<1>6. ReviewInv'
  BY <1>3, ReviewFrame DEF ServicesInv, ReviewInv, ExtensionTypes, extensionVars
<1>7. IncidentTypes'
  BY <1>2, <1>3 DEF ServicesInv, IncidentInv, IncidentTypes, informationVars
<1>8. NoOrphans'
  <2>1. \A i \in Incidents, v \in Users : member'[<<i, v>>] # None => Exists(i)
    BY <1>3 DEF ServicesInv, IncidentInv, NoOrphans
  <2> QED
    BY <1>3, <2>1 DEF ServicesInv, IncidentInv, NoOrphans, Exists, informationVars, extensionVars
<1>9. PeriodInv'
  BY <1>3, PeriodFrame, PeriodStep DEF ServicesInv, IncidentInv, informationVars
<1> QED
  BY <1>5, <1>6, <1>7, <1>8, <1>9 DEF ServicesInv, IncidentInv

-----------------------------------------------------------------------------
(* Forms and rows.                                                         *)
LEMMA FinishFormInv ==
    ASSUME ServicesInv, NEW w \in Workers, FinishForm(w), Information
    PROVE  ServicesInv'
<1>1. PICK f \in Forms, new \in FormRows : f = req[w].object /\ new = req[w].row
  BY Held DEF FinishForm, FormRequests
<1>2. /\ form' = [form EXCEPT ![f] = new]
      /\ Exists(new.incident) /\ period[new.period] # None
      /\ Doing(w, "form") /\ RequestsShrink
      /\ UNCHANGED <<accountVars, incidentVars, row, extensionVars>>
  BY <1>1, Ends DEF FinishForm, Saved, Information
<1>3. \A g \in Forms : form'[g] = IF g = f THEN new ELSE form[g]
  BY <1>2 DEF ServicesInv, IncidentInv, IncidentTypes
<1>4. new # None /\ new.incident \in Incidents /\ new.period \in Periods
  BY InformationAssumption DEF FormRows
<1>5. SaysShrink
  <2> SUFFICES ASSUME NEW q \in Periods, NEW i \in Incidents
               PROVE  /\ PeriodSays(q, i)' => PeriodSays(q, i)
                      /\ FormSays(q, i)' => FormSays(q, i)
    BY DEF SaysShrink
  <2>1. PeriodSays(q, i)' => PeriodSays(q, i)
    BY <1>2 DEF PeriodSays, RequestsShrink, Doing, incidentVars
  <2>2. FormSays(q, i)' => FormSays(q, i)
    BY <1>1, <1>2, <1>3 DEF FormSays, RequestsShrink, Doing
  <2> QED
    BY <2>1, <2>2
<1>6. period[new.period].incident = new.incident
  <2>1. FormSays(new.period, new.incident)
    BY <1>1, <1>2 DEF FormSays
  <2>2. /\ PeriodSays(new.period, period[new.period].incident)
        /\ period[new.period].incident \in Incidents
    BY <1>2, <1>4, RowTypes DEF PeriodSays, PeriodRows
  <2> QED
    BY <1>4, <2>1, <2>2 DEF ServicesInv, IncidentInv, PeriodInv
<1>7. IncidentTypes'
  BY <1>2, <1>3 DEF ServicesInv, IncidentInv, IncidentTypes, incidentVars
<1>8. NoOrphans'
  <2>1. \A g \in Forms : form'[g] # None =>
           /\ Exists(form'[g].incident) /\ period[form'[g].period] # None
           /\ period[form'[g].period].incident = form'[g].incident
    BY <1>2, <1>3, <1>6 DEF ServicesInv, IncidentInv, NoOrphans
  <2>2. \A x \in Rows : row[x] # None => form'[row[x].form] # None
    BY <1>3, <1>4 DEF ServicesInv, IncidentInv, NoOrphans, IncidentTypes, RowShape
  <2> QED
    BY <1>2, <2>1, <2>2
       DEF ServicesInv, IncidentInv, NoOrphans, Exists, incidentVars, extensionVars
<1> QED
  BY <1>2, <1>5, <1>7, <1>8, IncidentStepInv DEF incidentVars

(* Rows that keep or get a form that is there.                             *)
LEMMA RowsInv ==
    ASSUME ServicesInv, RequestsShrink, row' = [x \in Rows |-> row'[x]],
           \A x \in Rows : row'[x] # None => RowShape(row'[x]) /\ form[row'[x].form] # None,
           UNCHANGED <<accountVars, incidentVars, form, extensionVars>>
    PROVE  ServicesInv'
<1>1. IncidentTypes'
  BY DEF ServicesInv, IncidentInv, IncidentTypes, incidentVars
<1>2. NoOrphans'
  BY DEF ServicesInv, IncidentInv, NoOrphans, Exists, incidentVars, extensionVars
<1> QED
  BY <1>1, <1>2, PeriodFrame, IncidentStepInv DEF incidentVars

LEMMA RowFacts ==
    ASSUME ServicesInv
    PROVE  /\ row = [x \in Rows |-> row[x]]
           /\ \A x \in Rows : row[x] # None => RowShape(row[x]) /\ form[row[x].form] # None
BY DEF ServicesInv, IncidentInv, IncidentTypes, NoOrphans

(* Renumbering leaves every row in its form.                               *)
LEMMA RenumberedRows ==
    ASSUME ServicesInv, NEW list, NEW x \in Rows, Renumbered(list)[x] # None
    PROVE  RowShape(Renumbered(list)[x]) /\ form[Renumbered(list)[x].form] # None
<1> DEFINE k == LastIndex(list, x)
<1>1. CASE row[x] # None /\ Renumbered(list)[x] = [row[x] EXCEPT !.position = k]
  <2> HIDE DEF k
  <2>1. row[x] = [form |-> row[x].form, position |-> row[x].position]
    BY <1>1, RowFacts DEF RowShape
  <2>2. Renumbered(list)[x] = [form |-> row[x].form, position |-> k]
    BY <1>1, <2>1
  <2> QED
    BY <1>1, <2>2, RowFacts DEF RowShape
<1>2. CASE Renumbered(list)[x] = row[x]
  BY <1>2, RowFacts
<1> QED
  BY <1>1, <1>2 DEF Renumbered

LEMMA RowWritesInv ==
    ASSUME ServicesInv, NEW w \in Workers,
           FinishRow(w) \/ FinishRowDelete(w) \/ FinishReorder(w), Information
    PROVE  ServicesInv'
<1>1. CASE FinishRow(w)
  <2>1. RowShape(req[w].row) /\ form[req[w].row.form] # None
    BY <1>1, Held DEF FinishRow
  <2>2. row' = [row EXCEPT ![req[w].object] = req[w].row]
    BY <1>1 DEF FinishRow
  <2>3. \A x \in Rows : row'[x] = row[x] \/ row'[x] = req[w].row
    BY <2>2, RowFacts
  <2>4. row' = [x \in Rows |-> row'[x]]
    BY <2>2, RowFacts
  <2> QED
    BY <1>1, <2>1, <2>3, <2>4, RowFacts, RowsInv, Ends DEF FinishRow, Information
<1>2. CASE FinishRowDelete(w)
  <2>1. row' = [Renumbered(req[w].rest) EXCEPT ![req[w].object] = None]
    BY <1>2 DEF FinishRowDelete
  <2>2. DOMAIN Renumbered(req[w].rest) = Rows
    BY DEF Renumbered
  <2>3. /\ row' = [x \in Rows |-> row'[x]]
        /\ \A x \in Rows : row'[x] # None => row'[x] = Renumbered(req[w].rest)[x]
    BY <2>1, <2>2
  <2> QED
    BY <1>2, <2>3, RenumberedRows, RowsInv, Ends DEF FinishRowDelete, Information
<1>3. CASE FinishReorder(w)
  <2>1. row' = Renumbered(req[w].list)
    BY <1>3 DEF FinishReorder
  <2>2. row' = [x \in Rows |-> row'[x]]
    BY <2>1 DEF Renumbered
  <2> QED
    BY <1>3, <2>1, <2>2, RenumberedRows, RowsInv, Ends DEF FinishReorder, Information
<1> QED
  BY <1>1, <1>2, <1>3

-----------------------------------------------------------------------------
(* The extension.                                                          *)
LEMMA RegistryInv ==
    ASSUME ServicesInv, NEW a \in SignedIn, NEW c, NEW enabled \in BOOLEAN,
           Install(a, c) \/ SetEnabled(a, enabled), Extension
    PROVE  ServicesInv'
<1>1. /\ UNCHANGED <<accountVars, incidentVars, informationVars, req, registry, approvedRevs,
                     execution>>
      /\ reviewed \subseteq reviewed' /\ reviewed' \subseteq Versions
  BY DEF Install, SetEnabled, Extension, accessVars, ServicesInv, ReviewInv, ExtensionTypes
<1>2. /\ installed' \in Installations
      /\ installed'.enabled => installed'.version \in reviewed'
  <2>1. CASE Install(a, c)
    BY <2>1 DEF Install, Replaceable, Enabled, Installations, ServicesInv, ReviewInv,
       ExtensionTypes
  <2>2. CASE SetEnabled(a, enabled)
    <3>1. /\ installed \in Installations /\ installed.version = registry
          /\ installed' = [installed EXCEPT !.enabled = enabled]
          /\ enabled => registry \in reviewed'
      BY <2>2 DEF SetEnabled, Current, ServicesInv, ReviewInv, ExtensionTypes
    <3> QED
      BY <3>1 DEF Installations
  <2> QED
    BY <2>1, <2>2
<1>3. ReviewInv'
  <2>1. ExtensionTypes'
    BY <1>1, <1>2 DEF ServicesInv, ReviewInv, ExtensionTypes
  <2>2. \A w \in Workers : Doing(w, "execution")' => Reviewed(req[w].row)'
    BY <1>1 DEF ServicesInv, ReviewInv, Doing, Reviewed
  <2>3. ExecutionsReviewed'
    BY <1>1 DEF ServicesInv, ReviewInv, ExecutionsReviewed
  <2> QED
    BY <1>2, <2>1, <2>2, <2>3 DEF ReviewInv, Enabled
<1>4. NoOrphans'
  BY <1>1 DEF ServicesInv, IncidentInv, NoOrphans, Exists, incidentVars, informationVars
<1> QED
  BY <1>1, <1>3, <1>4, Ends, ReviewStepInv

LEMMA DeployInv ==
    ASSUME ServicesInv, NEW v \in Versions, Deploy(v), Extension
    PROVE  ServicesInv'
<1>1. NoOrphans'
  BY DEF Deploy, Extension, ServicesInv, IncidentInv, NoOrphans, Exists, incidentVars,
     informationVars
<1>2. RequestsShrink
  BY Ends DEF Deploy
<1>3. ReviewInv'
  BY <1>2, ReviewFrame DEF Deploy, ServicesInv
<1> QED
  BY <1>1, <1>2, <1>3, ReviewStepInv DEF Deploy, Extension

LEMMA ApproveRevisionInv ==
    ASSUME ServicesInv, NEW v \in Revisions, ApproveRevision(v), Extension
    PROVE  ServicesInv'
<1>1. NoOrphans'
  BY DEF ApproveRevision, Extension, accessVars, ServicesInv, IncidentInv, NoOrphans, Exists,
     incidentVars, informationVars
<1>2. ReviewInv'
  BY DEF ApproveRevision, accessVars, ServicesInv, ReviewInv, ExtensionTypes, Enabled, Doing,
     Reviewed, ExecutionsReviewed
<1> QED
  BY <1>1, <1>2, Ends, ReviewStepInv DEF ApproveRevision, Extension, accessVars

LEMMA ExecutionWritesInv ==
    ASSUME ServicesInv, NEW w \in Workers, NEW x \in Executions,
           FinishExecution(w, x) \/ FailExecution(w, x), Extension
    PROVE  ServicesInv'
<1>1. ExecutionShape(req[w].row) /\ Reviewed(req[w].row)
  BY Held DEF FinishExecution, FailExecution
<1>2. PICK new : /\ Record(w, x, new)
                 /\ \/ new = req[w].row
                    \/ new = [req[w].row EXCEPT !.status = "failed", !.result = None]
  BY DEF FinishExecution, FailExecution
<1>3. ExecutionShape(new) /\ Reviewed(new)
  <2>1. CASE new = req[w].row
    BY <1>1, <2>1
  <2>2. CASE new = [req[w].row EXCEPT !.status = "failed", !.result = None]
    <3>1. PICK old : old = req[w].row
      OBVIOUS
    <3>2. new = [version |-> old.version, incident |-> old.incident,
                 revision |-> old.revision, status |-> "failed", result |-> None]
      BY <1>1, <2>2, <3>1 DEF ExecutionShape
    <3> QED
      BY <1>1, <3>1, <3>2 DEF ExecutionShape, Reviewed
  <2> QED
    BY <1>2, <2>1, <2>2
<1>4. /\ execution' = [execution EXCEPT ![x] = new] /\ Exists(new.incident)
      /\ RequestsShrink
      /\ UNCHANGED <<registry, installed, reviewed, approvedRevs, accountVars, incidentVars,
                     informationVars>>
  BY <1>2, Ends DEF Record, Extension
<1>5. \A y \in Executions : execution'[y] = IF y = x THEN new ELSE execution[y]
  BY <1>4 DEF ServicesInv, ReviewInv, ExtensionTypes
<1>6. ReviewInv'
  <2>1. ExtensionTypes'
    BY <1>3, <1>4, <1>5 DEF ServicesInv, ReviewInv, ExtensionTypes
  <2>2. ExecutionsReviewed'
    BY <1>3, <1>4, <1>5 DEF ServicesInv, ReviewInv, ExecutionsReviewed, Reviewed
  <2>3. \A v \in Workers : Doing(v, "execution")' => Reviewed(req[v].row)'
    BY <1>4 DEF ServicesInv, ReviewInv, RequestsShrink, Doing, Reviewed
  <2> QED
    BY <1>4, <2>1, <2>2, <2>3 DEF ServicesInv, ReviewInv, Enabled
<1>7. NoOrphans'
  BY <1>4, <1>5 DEF ServicesInv, IncidentInv, NoOrphans, Exists, incidentVars, informationVars
<1> QED
  BY <1>4, <1>6, <1>7, ReviewStepInv

-----------------------------------------------------------------------------
(* A purge that leaves nothing behind.                                     *)
LEMMA PurgeInv ==
    ASSUME ServicesInv, Purge
    PROVE  ServicesInv'
<1>1. Deleted = Owned
  BY DEF Purge, Deleted
<1>2. /\ incident' = [i \in Incidents |-> None]
      /\ period' = [p \in Periods |-> None]
      /\ member' = [m \in Incidents \X Users |-> None]
      /\ form' = [f \in Forms |-> None]
      /\ row' = [x \in Rows |-> None]
      /\ execution' = [x \in Executions |-> None]
      /\ purged' = TRUE
      /\ UNCHANGED <<accountVars, req, registry, installed, reviewed, approvedRevs>>
  BY <1>1 DEF Purge, Owned
<1>3. RequestsShrink
  BY <1>2, Ends
<1>4. RequestInv' /\ AccountInv'
  BY <1>2, <1>3, RequestFrame, AccountFrame DEF ServicesInv
<1>5. ReviewInv'
  BY <1>2 DEF ServicesInv, ReviewInv, ExtensionTypes, Enabled, Doing, Reviewed,
     ExecutionsReviewed
<1>6. IncidentTypes' /\ NoOrphans'
  BY <1>2 DEF IncidentTypes, NoOrphans
<1>7. PeriodInv'
  <2>1. \A p \in Periods, i \in Incidents :
           (PeriodSays(p, i)' => PeriodSays(p, i)) /\ (FormSays(p, i)' => FormSays(p, i))
    BY <1>2 DEF PeriodSays, FormSays, Doing
  <2>2. \A v \in Workers : Doing(v, "period_archive")' => \E i \in Incidents : req'[v].on = {i}
    BY <1>2 DEF ServicesInv, IncidentInv, PeriodInv, Doing
  <2> QED
    BY <1>2, <2>1, <2>2 DEF ServicesInv, IncidentInv, PeriodInv
<1> QED
  BY <1>4, <1>5, <1>6, <1>7 DEF ServicesInv, IncidentInv

-----------------------------------------------------------------------------
(* The steps that write, by what they write.                               *)
IncidentSteps ==
    \/ \E a \in SignedIn, i \in Incidents, l \in Labels : CreateIncident(a, i, l)
    \/ \E w \in Workers :
          \/ FinishIncidentUpdate(w) \/ FinishIncidentArchive(w)
          \/ FinishPeriod(w) \/ FinishPeriodArchive(w)
          \/ FinishMembershipCreate(w) \/ FinishMembershipUpdate(w)
          \/ FinishAccount(w)
ExtensionSteps ==
    \/ \E a \in SignedIn, c \in Contracts : Install(a, c)
    \/ \E a \in SignedIn, enabled \in BOOLEAN : SetEnabled(a, enabled)
    \/ \E w \in Workers, x \in Executions : FinishExecution(w, x) \/ FailExecution(w, x)
    \/ \E v \in Versions : Deploy(v)
    \/ \E v \in Revisions : ApproveRevision(v)
InformationSteps ==
    \E w \in Workers : FinishForm(w) \/ FinishRow(w) \/ FinishRowDelete(w) \/ FinishReorder(w)

LEMMA StepKinds ==
    ASSUME ServicesInv, Next
    PROVE  \/ Begins
           \/ AccountSteps /\ Access
           \/ IncidentSteps /\ Access
           \/ ExtensionSteps /\ Extension
           \/ InformationSteps /\ Information
           \/ Purge
<1> USE DEF FreeWorkers
<1>1. CASE \E w \in FreeWorkers, u \in Users : BeginLogin(w, u) /\ Access
  BY <1>1, LoginBegins
<1>2. CASE \E w \in FreeWorkers, a \in SignedIn, u \in Users, role \in RoleInputs,
             email \in Emails, is \in SUBSET Incidents :
             BeginAccount(w, a, u, role, email, is) /\ Access
  BY <1>2, AccountBegins
<1>3. CASE \E w \in FreeWorkers, u \in Users : BeginActivation(w, u) /\ Access
  BY <1>3, ActivationBegins
<1>4. CASE \E w \in FreeWorkers : \E l \in link : BeginReset(w, l) /\ Access
  BY <1>4, ResetBegins
<1>5. CASE \E w \in FreeWorkers, a \in SignedIn, i \in Incidents, l \in Labels :
             BeginIncidentUpdate(w, a, i, l) /\ Access
  BY <1>5, IncidentUpdateBegins
<1>6. CASE \E w \in FreeWorkers, a \in SignedIn, i \in Incidents :
             BeginIncidentArchive(w, a, i) /\ Access
  BY <1>6, IncidentArchiveBegins
<1>7. CASE \E w \in FreeWorkers, a \in SignedIn, i \in Incidents, p \in Periods,
             l \in Labels : BeginPeriodCreate(w, a, i, p, l) /\ Access
  BY <1>7, PeriodCreateBegins
<1>8. CASE \E w \in FreeWorkers, a \in SignedIn, p \in Periods, l \in Labels :
             BeginPeriodUpdate(w, a, p, l) /\ Access
  BY <1>8, PeriodUpdateBegins
<1>9. CASE \E w \in FreeWorkers, a \in SignedIn, p \in Periods :
             BeginPeriodArchive(w, a, p) /\ Access
  BY <1>9, PeriodArchiveBegins
<1>10. CASE \E w \in FreeWorkers, a \in SignedIn, i \in Incidents, u \in Users,
             role \in RoleInputs : BeginMembershipCreate(w, a, i, u, role) /\ Access
  BY <1>10, MembershipCreateBegins
<1>11. CASE \E w \in FreeWorkers, a \in SignedIn, i \in Incidents, u \in Users,
             role \in RoleInputs, active \in BOOLEAN :
             BeginMembershipUpdate(w, a, i, u, role, active) /\ Access
  BY <1>11, MembershipUpdateBegins
<1>12. CASE \E w \in FreeWorkers, a \in SignedIn, i \in Incidents, v \in Revisions,
             m \in Minimums, c \in Contracts :
             BeginExecution(w, a, i, v, m, c) /\ Extension
  BY <1>12, ExecutionBegins
<1>13. CASE \E w \in FreeWorkers, a \in SignedIn, f \in Forms, i \in Incidents,
             p \in Periods : BeginFormCreate(w, a, f, i, p) /\ Information
  BY <1>13, FormCreateBegins
<1>14. CASE \E w \in FreeWorkers, a \in SignedIn, f \in {g \in Forms : form[g] # None} :
             \E i \in Incidents, p \in Periods, h \in Headers :
             /\ BeginFormUpdate(w, a, f, [incident |-> i, period |-> p, header |-> h])
             /\ Information
  BY <1>14, FormUpdateBegins DEF FormRows
<1>15. CASE \E w \in FreeWorkers, a \in SignedIn, x \in Rows, f \in Forms,
             k \in {None} \cup 1 .. MaxPosition :
             BeginRowCreate(w, a, x, f, k) /\ Information
  BY <1>15, RowCreateBegins
<1>16. CASE \E w \in FreeWorkers, a \in SignedIn, x \in Rows, f \in Forms,
             k \in 1 .. MaxPosition : BeginRowUpdate(w, a, x, f, k) /\ Information
  BY <1>16, RowUpdateBegins
<1>17. CASE \E w \in FreeWorkers, a \in SignedIn, x \in Rows :
             BeginRowDelete(w, a, x) /\ Information
  BY <1>17, RowDeleteBegins
<1>18. CASE \E w \in FreeWorkers, a \in SignedIn, f \in Forms :
             \E list \in UNION {[1 .. n -> RowsOfForm(f)] : n \in 1 .. MaxPosition} :
             BeginReorder(w, a, f, list) /\ Information
  BY <1>18, ReorderBegins
<1> QED
  BY <1>1, <1>2, <1>3, <1>4, <1>5, <1>6, <1>7, <1>8, <1>9, <1>10, <1>11, <1>12, <1>13, <1>14,
     <1>15, <1>16, <1>17, <1>18
  DEF Next, AccountSteps, IncidentSteps, ExtensionSteps, InformationSteps

LEMMA ServicesInit == Init => ServicesInv
<1> SUFFICES ASSUME Init
             PROVE  ServicesInv
  OBVIOUS
<1> USE DEF Init, AccessInit, ExtensionInit, InformationInit
<1>1. RequestInv
  BY DEF RequestInv, RequestTypes
<1>2. AccountInv
  <2> DEFINE first == [NewUser("administrator", None, "administrator") EXCEPT !.change = FALSE]
  <2>1. first \in UserRows /\ ~ first.change
    BY DEF NewUser, UserRows, Roles, DefaultPolicy
  <2>2. user = [u \in Users |-> IF u = Root THEN first ELSE None]
    OBVIOUS
  <2> HIDE DEF first
  <2>3. AccountTypes
    BY <2>1, <2>2 DEF AccountTypes
  <2>4. SessionsActivated
    BY <2>1, <2>2, AccessAssumption DEF SessionsActivated
  <2> QED
    BY <2>2, <2>3, <2>4 DEF AccountInv, AccountsByManagers, Contingency
<1>3. ReviewInv
  BY DEF ReviewInv, ExtensionTypes, Enabled, Doing, ExecutionsReviewed
<1>4. IncidentInv
  BY DEF IncidentInv, IncidentTypes, PeriodInv, PeriodSays, FormSays, Doing, NoOrphans
<1> QED
  BY <1>1, <1>2, <1>3, <1>4 DEF ServicesInv

LEMMA ServicesNext == ServicesInv /\ [Next]_vars => ServicesInv'
<1> SUFFICES ASSUME ServicesInv, [Next]_vars
             PROVE  ServicesInv'
  OBVIOUS
<1>1. CASE UNCHANGED vars
  <2>1. UNCHANGED <<accountVars, incidentVars, extensionVars, informationVars, req>>
    BY <1>1 DEF vars, accessVars
  <2>2. AccountTypes' /\ AccountsGrow /\ SessionsGranted /\ LinksGranted
    BY <2>1 DEF ServicesInv, AccountInv, AccountTypes, accountVars, AccountsGrow,
       SessionsGranted, LinksGranted
  <2> QED
    BY <2>1, <2>2, AccountStepInv, Ends
<1>2. CASE Begins
  BY <1>2, StartInv DEF Begins
<1>3. CASE AccountSteps /\ Access
  BY <1>3, AccountStepsInv
<1>4. CASE IncidentSteps /\ Access
  BY <1>4, CreateIncidentInv, IncidentWritesInv, PeriodWritesInv, MembershipWritesInv,
     FinishAccountInv DEF IncidentSteps
<1>5. CASE ExtensionSteps /\ Extension
  <2>1. ASSUME NEW a \in SignedIn, NEW c \in Contracts, Install(a, c)
        PROVE  ServicesInv'
    <3>1. TRUE \in BOOLEAN
      OBVIOUS
    <3> QED
      BY <1>5, <2>1, <3>1, RegistryInv
  <2>2. ASSUME NEW a \in SignedIn, NEW enabled \in BOOLEAN, SetEnabled(a, enabled)
        PROVE  ServicesInv'
    BY <1>5, <2>2, RegistryInv
  <2> QED
    BY <1>5, <2>1, <2>2, ExecutionWritesInv, DeployInv, ApproveRevisionInv DEF ExtensionSteps
<1>6. CASE InformationSteps /\ Information
  BY <1>6, FinishFormInv, RowWritesInv DEF InformationSteps
<1>7. CASE Purge
  BY <1>7, PurgeInv
<1> QED
  BY <1>1, <1>2, <1>3, <1>4, <1>5, <1>6, <1>7, StepKinds

LEMMA ServicesInvariant == Spec => []ServicesInv
BY ServicesInit, ServicesNext, PTL DEF Spec

(* Whatever overtakes a login, nobody holds a session of an account whose  *)
(* temporary password has not been replaced.                               *)
THEOREM NoSessionBeforeActivation == Spec => []SessionsActivated
<1>1. ServicesInv => SessionsActivated
  BY DEF ServicesInv, AccountInv
<1> QED
  BY <1>1, ServicesInvariant, PTL

(* However installs, switches, deployments and runs interleave, a retained *)
(* execution used a manifest that an administrator had enabled and an      *)
(* approved revision of its incident.                                      *)
THEOREM ExecutionsWereReviewed == Spec => []ExecutionsReviewed
<1>1. ServicesInv => ExecutionsReviewed
  BY DEF ServicesInv, ReviewInv
<1> QED
  BY <1>1, ServicesInvariant, PTL

(* Overlapping requests, and a purge between their reads and their writes, *)
(* leave no row that names one that is gone, and no form in another        *)
(* incident's period.                                                      *)
THEOREM ReferencesHold == Spec => []NoOrphans
<1>1. ServicesInv => NoOrphans
  BY DEF ServicesInv, IncidentInv
<1> QED
  BY <1>1, ServicesInvariant, PTL

(* Whatever roles its incidents give and whatever the overrides of the     *)
(* policy are, whoever made a contingency account had, when asking for it, *)
(* a role in the installation that manages accounts.                       *)
THEOREM AccountsMadeByManagers == Spec => []AccountsByManagers
<1>1. ServicesInv => AccountsByManagers
  BY DEF ServicesInv, AccountInv
<1> QED
  BY <1>1, ServicesInvariant, PTL

-----------------------------------------------------------------------------
(* What a step leaves of an incident.                                      *)
Untouched(i) ==
    /\ incident'[i] = incident[i]
    /\ \A p \in Periods :
          \/ period'[p] = period[p]
          \/ /\ period[p] # None => period[p].incident # i
             /\ period'[p] # None => period'[p].incident # i
    /\ \A u \in Users : member'[<<i, u>>] = member[<<i, u>>]

LEMMA ContentKept ==
    ASSUME NEW i \in Incidents, Untouched(i)
    PROVE  ContentOf(i)' = ContentOf(i)
<1> DEFINE mine == {q \in Periods : period[q] # None /\ period[q].incident = i}
<1>1. mine' = mine /\ \A p \in mine : period'[p] = period[p]
  BY DEF Untouched
<1>2. {<<p, period[p]>> : p \in mine}' = {<<p, period[p]>> : p \in mine}
  BY <1>1
<1>3. [u \in Users |-> member[<<i, u>>]]' = [u \in Users |-> member[<<i, u>>]]
  BY DEF Untouched
<1> QED
  BY <1>2, <1>3 DEF ContentOf, Untouched

(* Whoever still writes had read the incident open.                        *)
ReadItOpen(i) == \E w \in Workers : req[w] # None /\ i \in req[w].on /\ req'[w] = None

LEMMA IncidentStepsTouch ==
    ASSUME ServicesInv, IncidentSteps, NEW i \in Incidents, Exists(i)
    PROVE  Untouched(i) \/ ReadItOpen(i)
<1>0. /\ incident \in [Incidents -> IncidentRows \cup {None}]
      /\ period \in [Periods -> PeriodRows \cup {None}]
      /\ member \in [Incidents \X Users -> MemberRows \cup {None}]
      /\ req = [w \in Workers |-> req[w]]
  BY DEF ServicesInv, IncidentInv, IncidentTypes, RequestInv, RequestTypes
<1>1. ASSUME NEW a \in SignedIn, NEW j \in Incidents, NEW l \in Labels, CreateIncident(a, j, l)
      PROVE  Untouched(i)
  <2>1. i # j
    BY <1>1 DEF CreateIncident, Exists
  <2> QED
    BY <1>0, <1>1, <2>1 DEF CreateIncident, Untouched
<1>2. ASSUME NEW w \in Workers, FinishIncidentUpdate(w) \/ FinishIncidentArchive(w)
      PROVE  Untouched(i) \/ ReadItOpen(i)
  <2>1. req[w] # None /\ req'[w] = None /\ req[w].incident \in req[w].on
    BY <1>0, <1>2, Held DEF FinishIncidentUpdate, FinishIncidentArchive, Doing, Done
  <2>2. i # req[w].incident => Untouched(i)
    BY <1>0, <1>2 DEF FinishIncidentUpdate, FinishIncidentArchive, Untouched
  <2> QED
    BY <2>1, <2>2 DEF ReadItOpen
<1>3. ASSUME NEW w \in Workers, FinishPeriod(w) \/ FinishPeriodArchive(w)
      PROVE  Untouched(i) \/ ReadItOpen(i)
  <2>1. PICK p \in Periods, j \in Incidents :
           p = req[w].object /\ j \in req[w].on /\ PeriodSays(p, j)
                             /\ (Doing(w, "period") => j = req[w].row.incident)
    BY <1>3, Held DEF FinishPeriod, FinishPeriodArchive, PeriodRequests, PeriodRows,
       PeriodArchiveRequests, Doing
  <2>2. req[w] # None /\ req'[w] = None
    BY <1>0, <1>3 DEF FinishPeriod, FinishPeriodArchive, Doing, Done
  <2>3. period[p] # None => period[p].incident = j
    BY <2>1, RowTypes DEF PeriodSays, PeriodRows, ServicesInv, IncidentInv, PeriodInv
  <2>4. period'[p] # None => period'[p].incident = j
    BY <1>0, <1>3, <2>1, <2>3 DEF FinishPeriod, FinishPeriodArchive, PeriodRows
  <2>5. \A q \in Periods : q # p => period'[q] = period[q]
    BY <1>0, <1>3, <2>1 DEF FinishPeriod, FinishPeriodArchive
  <2>6. i # j => Untouched(i)
    BY <1>3, <2>3, <2>4, <2>5 DEF FinishPeriod, FinishPeriodArchive, Untouched
  <2> QED
    BY <2>1, <2>2, <2>6 DEF ReadItOpen
<1>4. ASSUME NEW w \in Workers, FinishMembershipCreate(w) \/ FinishMembershipUpdate(w)
      PROVE  Untouched(i) \/ ReadItOpen(i)
  <2>1. req[w] # None /\ req'[w] = None /\ req[w].of[1] \in req[w].on
    BY <1>0, <1>4, Held DEF FinishMembershipCreate, FinishMembershipUpdate, Doing, Done
  <2>2. i # req[w].of[1] => Untouched(i)
    BY <1>0, <1>4 DEF FinishMembershipCreate, FinishMembershipUpdate, Untouched
  <2> QED
    BY <2>1, <2>2 DEF ReadItOpen
<1>5. ASSUME NEW w \in Workers, FinishAccount(w)
      PROVE  Untouched(i) \/ ReadItOpen(i)
  <2>1. req[w] # None /\ req'[w] = None /\ req[w].incidents \subseteq req[w].on
    BY <1>0, <1>5, Held DEF FinishAccount, Doing, Done
  <2>2. i \notin req[w].incidents => Untouched(i)
    BY <1>0, <1>5 DEF FinishAccount, Untouched
  <2> QED
    BY <2>1, <2>2 DEF ReadItOpen
<1> QED
  BY <1>1, <1>2, <1>3, <1>4, <1>5 DEF IncidentSteps

LEMMA OtherStepsLeave ==
    ASSUME Begins \/ AccountSteps \/ ExtensionSteps \/ InformationSteps \/ UNCHANGED accessVars,
           NEW i \in Incidents
    PROVE  Untouched(i)
<1>1. UNCHANGED incidentVars
  <2>1. CASE Begins
    BY <2>1 DEF Begins, Starts
  <2>2. CASE AccountSteps
    BY <2>2 DEF AccountSteps, FinishLogin, Logout, ExpireToken, RequestReset, FinishActivation,
       FinishReset, Abandon, ExpireLink, SendPasswordReset, Disable, Enable, SignOutAll, SetEmail
  <2>3. CASE ExtensionSteps
    BY <2>3 DEF ExtensionSteps, Install, SetEnabled, FinishExecution, FailExecution, Record,
       Deploy, ApproveRevision, accessVars
  <2>4. CASE InformationSteps
    BY <2>4 DEF InformationSteps, FinishForm, FinishRow, FinishRowDelete, FinishReorder
  <2> QED
    BY <2>1, <2>2, <2>3, <2>4 DEF accessVars
<1> QED
  BY <1>1 DEF incidentVars, Untouched

(* An archived incident, its periods and its memberships change only by a  *)
(* request that had read the incident open, except in a purge.             *)
THEOREM ArchivedIncidentsClosed == Spec => ArchiveCloses
<1> DEFINE Closes ==
        \A i \in Incidents :
            /\ Exists(i) /\ incident[i].archived
            /\ incident'[i] # None
            /\ ContentOf(i)' # ContentOf(i)
            => \E w \in Workers : req[w] # None /\ i \in req[w].on /\ req'[w] = None
<1>1. ServicesInv /\ [Next]_vars => [Closes]_accessVars
  <2> SUFFICES ASSUME ServicesInv, [Next]_vars, NEW i \in Incidents,
                      Exists(i), incident'[i] # None
               PROVE  Untouched(i) \/ ReadItOpen(i)
    BY ContentKept DEF ReadItOpen
  <2>1. CASE UNCHANGED vars
    BY <2>1, OtherStepsLeave DEF vars
  <2>2. CASE Purge
    BY <2>2 DEF Purge
  <2> QED
    BY <2>1, <2>2, StepKinds, IncidentStepsTouch, OtherStepsLeave
<1> QED
  BY <1>1, ServicesInvariant, PTL DEF Spec, ArchiveCloses

-----------------------------------------------------------------------------
(* What a step does to the sessions of an account that is disabled.        *)
SignInStep(u) ==
    Disabled(u)' =>
        /\ SigningIn(u)' \subseteq SigningIn(u)
        /\ session'[u] = "live" =>
              \/ Disabled(u) /\ session[u] = "live"
              \/ SigningIn(u)' # SigningIn(u)
NoSessionGiven(u) ==
    Disabled(u)' /\ session'[u] = "live" => Disabled(u) /\ session[u] = "live"

LEMMA LoginsShrink ==
    ASSUME RequestsShrink, NEW u \in Users
    PROVE  /\ SigningIn(u)' \subseteq SigningIn(u)
           /\ NoSessionGiven(u) => SignInStep(u)
<1>1. SigningIn(u)' \subseteq SigningIn(u)
  BY DEF RequestsShrink, SigningIn, Doing
<1> QED
  BY <1>1 DEF NoSessionGiven, SignInStep

LEMMA BeginsSignIns ==
    ASSUME ServicesInv, Begins, NEW u \in Users
    PROVE  SignInStep(u)
<1> PICK w \in Workers : \E x : Admitted(x) /\ Starts(w, x)
  BY DEF Begins
<1> PICK r : Admitted(r) /\ Starts(w, r)
  OBVIOUS
<1>1. \A v \in Workers : req'[v] = IF v = w THEN r ELSE req[v]
  BY DEF Starts, Take, ServicesInv, RequestInv, RequestTypes
<1>2. session' = session /\ (Disabled(u)' <=> Disabled(u))
  BY DEF Starts, accountVars, Disabled
<1>3. Disabled(u) => ~ (r.kind = "login" /\ r.user = u)
  BY DEF Admitted
<1>4. Disabled(u) => SigningIn(u)' \subseteq SigningIn(u)
  BY <1>1, <1>3 DEF SigningIn, Doing
<1> QED
  BY <1>2, <1>4 DEF SignInStep

(* The steps that leave the accounts there are and their sessions alone.   *)
LEMMA OthersSignIns ==
    ASSUME ServicesInv, RequestsShrink, session' = session,
           \A v \in Users : user[v] # None => user'[v] = user[v], NEW u \in Users
    PROVE  SignInStep(u)
<1>1. NoSessionGiven(u)
  BY AccessAssumption DEF NoSessionGiven, Disabled, ServicesInv, AccountInv, SessionsActivated
<1> QED
  BY <1>1, LoginsShrink

LEMMA AccountSignIns ==
    ASSUME ServicesInv, AccountSteps, NEW u \in Users
    PROVE  SignInStep(u)
<1>0. /\ session \in [Users -> {None, "live", "expired"}]
      /\ user \in [Users -> UserRows \cup {None}]
      /\ req = [w \in Workers |-> req[w]]
  BY DEF ServicesInv, AccountInv, AccountTypes, RequestInv, RequestTypes
<1>1. ASSUME NEW w \in Workers, FinishLogin(w)
      PROVE  SignInStep(u)
  <2>1. RequestsShrink
    BY <1>1, Ends DEF FinishLogin
  <2>2. CASE req[w].user = u
    <3>1. w \in SigningIn(u) /\ w \notin SigningIn(u)'
      BY <1>0, <1>1, <2>2 DEF FinishLogin, SigningIn, Doing, Done
    <3> QED
      BY <2>1, <3>1, LoginsShrink DEF SignInStep
  <2>3. CASE req[w].user # u
    <3>1. NoSessionGiven(u)
      BY <1>0, <1>1, <2>3 DEF FinishLogin, NoSessionGiven, Disabled
    <3> QED
      BY <2>1, <3>1, LoginsShrink
  <2> QED
    BY <2>2, <2>3
<1>2. ASSUME NEW v \in Users, Logout(v) \/ ExpireToken(v) \/ RequestReset(v)
      PROVE  SignInStep(u)
  <2>1. RequestsShrink
    BY <1>2, Ends DEF Logout, ExpireToken, RequestReset
  <2>2. NoSessionGiven(u)
    BY <1>0, <1>2, AccessAssumption DEF Logout, ExpireToken, RequestReset, NoSessionGiven, Disabled
  <2> QED
    BY <2>1, <2>2, LoginsShrink
<1>3. ASSUME NEW w \in Workers, FinishActivation(w) \/ FinishReset(w)
      PROVE  SignInStep(u)
  <2>1. RequestsShrink
    BY <1>3, Ends DEF FinishActivation, FinishReset
  <2>2. req[w].user \in Users /\ user[req[w].user] \in UserRows
    BY <1>3, Held DEF FinishActivation, FinishReset
  <2>3. user'[u] = user[u] \/ (u = req[w].user /\ user'[u] = [user[u] EXCEPT
                                   !.password = user[u].password + 1, !.change = FALSE])
    BY <1>0, <1>3, <2>2 DEF FinishActivation, FinishReset, ChoosePassword
  <2>4. Disabled(u)' => Disabled(u)
    BY <2>2, <2>3, AccessAssumption DEF Disabled, UserRows
  <2>5. session'[u] = "live" => session[u] = "live"
    BY <1>0, <1>3, AccessAssumption DEF FinishActivation, FinishReset
  <2> QED
    BY <2>1, <2>4, <2>5, LoginsShrink DEF NoSessionGiven
<1>4. ASSUME NEW a \in SignedIn, NEW v \in Users,
             Disable(a, v) \/ Enable(a, v) \/ SignOutAll(a, v)
      PROVE  SignInStep(u)
  <2>1. RequestsShrink
    BY <1>4, Ends DEF Disable, Enable, SignOutAll
  <2>2. v \in Users /\ user[v] \in UserRows /\ user[v] # None
    BY <1>4, RowTypes DEF Disable, Enable, SignOutAll, Contingency
  <2>3. NoSessionGiven(u)
    BY <1>0, <1>4, <2>2, AccessAssumption
       DEF Disable, Enable, SignOutAll, NoSessionGiven, Disabled, UserRows
  <2> QED
    BY <2>1, <2>3, LoginsShrink
<1>5. ASSUME NEW a \in SignedIn, NEW v \in Users, NEW email \in Emails, SetEmail(a, v, email)
      PROVE  SignInStep(u)
  <2>1. RequestsShrink
    BY <1>5, Ends DEF SetEmail
  <2>2. user[v] \in UserRows /\ user[v] # None
    BY <1>5, RowTypes DEF SetEmail, Contingency
  <2>3. NoSessionGiven(u)
    BY <1>0, <1>5, <2>2, AccessAssumption DEF SetEmail, NoSessionGiven, Disabled, UserRows
  <2> QED
    BY <2>1, <2>3, LoginsShrink
<1>6. ASSUME UNCHANGED <<user, session>>, RequestsShrink
      PROVE  SignInStep(u)
  BY <1>6, OthersSignIns
<1>7. ASSUME NEW w \in Workers, Abandon(w)
      PROVE  SignInStep(u)
  BY <1>6, <1>7, Ends DEF Abandon, accountVars
<1>8. ASSUME NEW l \in link, ExpireLink(l)
      PROVE  SignInStep(u)
  BY <1>6, <1>8, Ends DEF ExpireLink
<1>9. ASSUME NEW a \in SignedIn, NEW v \in Users, SendPasswordReset(a, v)
      PROVE  SignInStep(u)
  BY <1>6, <1>9, Ends DEF SendPasswordReset
<1> QED
  BY <1>1, <1>2, <1>3, <1>4, <1>5, <1>7, <1>8, <1>9 DEF AccountSteps

(* Every other step ends at most a request, and writes no account but a    *)
(* new one.                                                                *)
LEMMA WritesElsewhere ==
    ASSUME ServicesInv, IncidentSteps \/ ExtensionSteps \/ InformationSteps \/ Purge
    PROVE  /\ RequestsShrink /\ session' = session
           /\ \A v \in Users : user[v] # None => user'[v] = user[v]
<1>1. CASE IncidentSteps
  <2>1. ASSUME NEW w \in Workers, FinishAccount(w)
        PROVE  \A v \in Users : user[v] # None => user'[v] = user[v]
    BY <2>1 DEF FinishAccount, ServicesInv, AccountInv, AccountTypes
  <2> QED
    BY <1>1, <2>1, Ends
       DEF IncidentSteps, CreateIncident, FinishIncidentUpdate, FinishIncidentArchive,
           FinishPeriod, FinishPeriodArchive, FinishMembershipCreate, FinishMembershipUpdate,
           FinishAccount, accountVars
<1>2. CASE ExtensionSteps
  BY <1>2, Ends DEF ExtensionSteps, Install, SetEnabled, FinishExecution, FailExecution, Record,
     Deploy, ApproveRevision, accessVars, accountVars
<1>3. CASE InformationSteps
  BY <1>3, Ends DEF InformationSteps, FinishForm, FinishRow, FinishRowDelete, FinishReorder,
     accountVars
<1>4. CASE Purge
  BY <1>4, Ends DEF Purge, accountVars
<1> QED
  BY <1>1, <1>2, <1>3, <1>4

(* An account is signed in to only with a password of its holder's own, by *)
(* a login that found it active, however logins, disablings, resets and    *)
(* activations overtake each other.                                        *)
THEOREM SignInsStayChecked == Spec => SignInsChecked
<1>1. ServicesInv /\ [Next]_vars => \A u \in Users : SignInStep(u)
  <2> SUFFICES ASSUME ServicesInv, [Next]_vars, NEW u \in Users
               PROVE  SignInStep(u)
    OBVIOUS
  <2>1. CASE UNCHANGED vars
    BY <2>1, Ends, OthersSignIns DEF vars, accessVars, accountVars
  <2>2. CASE Next
    BY <2>2, StepKinds, BeginsSignIns, AccountSignIns, WritesElsewhere, OthersSignIns
  <2> QED
    BY <2>1, <2>2
<1> DEFINE Checked ==
        \A u \in Users :
          /\ session'[u] # None => user'[u] # None /\ ~ user'[u].change
          /\ Disabled(u)' =>
                /\ SigningIn(u)' \subseteq SigningIn(u)
                /\ session'[u] = "live" =>
                      \/ Disabled(u) /\ session[u] = "live"
                      \/ SigningIn(u)' # SigningIn(u)
<1>2. ServicesInv /\ ServicesInv' /\ [Next]_vars => [Checked]_accessVars
  BY <1>1 DEF SignInStep, ServicesInv, AccountInv, SessionsActivated
<1> QED
  BY <1>2, ServicesInvariant, PTL DEF Spec, SignInsChecked
=============================================================================
