------------------------- MODULE MCIncidentServices -------------------------
(***************************************************************************)
(* IncidentServices for TLC: three users, two incidents, two requests at a *)
(* time.                                                                   *)
(***************************************************************************)
EXTENDS IncidentServices, TLC

MCOverrides ==
    [r \in {"comt"} |-> Technician \cup ({"incident"} \X {"create", "membership"})]
MCContractOf == [v \in Versions |-> IF v = 3 THEN "2.0" ELSE "1.0"]
MCRevisionOf == [r \in Revisions |-> IF r = "r1" THEN "i1" ELSE "i2"]
MCRowsOf == [r \in Revisions |-> IF r = "r1" THEN <<"fixed_pair", "not_determined">>
                                 ELSE <<"fixed_pair">>]
Others == Users \ {Root}
MCSymmetry == Permutations(Workers) \cup Permutations(Others) \cup Permutations(Rows)

Empty(f) == \A x \in DOMAIN f : f[x] = None
Kinds == {req[w].kind : w \in {v \in Workers : req[v] # None}}
ExtensionUnused == installed = None /\ approvedRevs = {} /\ registry = 1
SameLabels ==
    /\ \A i \in Incidents : Exists(i) => incident[i].label = "l1"
    /\ \A p \in Periods : period[p] # None => period[p].label = "l1"
    /\ \A w \in Workers :
          req[w] # None /\ req[w].kind \in {"incident", "period"} => req[w].row.label = "l1"
SettledUser(u) ==
    \/ user[u] = None
    \/ /\ user[u].active /\ user[u].email = "e1"
       /\ \/ user[u].change /\ session[u] = None
          \/ user[u].password = 1 /\ session[u] = "live"
NewlyMade(u) ==
    user[u] # None /\ user[u].email = "e2" /\ user[u].active /\ user[u].change
Settled ==
    /\ link = {} /\ session[Root] = "live"
    /\ Cardinality({u \in Others : user[u] # None}) <= 1
    /\ \A u \in Others : SettledUser(u)
    /\ Kinds \cap {"login", "activation", "reset"} = {}
Alone == Settled /\ Empty([u \in Others |-> user[u]]) /\ "account" \notin Kinds

(* One account with its links and sessions, or two in use.                 *)
AccountStory ==
    /\ Empty(incident) /\ ~ purged /\ ExtensionUnused /\ session[Root] = "live"
    /\ Cardinality(link) <= 1
    /\ \/ Cardinality({u \in Others : user[u] # None}) <= 1
       \/ link = {} /\ \A u \in Others : SettledUser(u)
MemberStory ==
    /\ Settled /\ ExtensionUnused /\ Empty(form)
    /\ SameLabels \/ (Alone /\ Empty(period))
    /\ "form" \notin Kinds
    /\ Empty(period) \/ Kinds \cap {"account", "join", "membership"} = {}
    /\ \A u \in Others : user[u] # None => user[u].role # "administrator"
    /\ \A w \in Workers : req[w] # None /\ req[w].kind = "account" =>
          /\ req[w].row.role = "comt" /\ req[w].row.email = "e1"
          /\ \A u \in Others : user[u] = None
    /\ Exists("i1") => member["i1", Root] \in
                         {None, [role |-> "administrator", active |-> TRUE]}
    /\ incident["i2"] = None
    /\ \A p \in Periods \ {"p1"} : period[p] = None /\ NotHeld(p)
(* Who has a role in an incident makes an account, or is not let.          *)
RoleStory ==
    /\ link = {} /\ session[Root] = "live" /\ ~ purged
    /\ \A u \in Others : SettledUser(u) \/ NewlyMade(u)
    /\ ExtensionUnused /\ Empty(form) /\ Empty(period) /\ SameLabels
    /\ Kinds \subseteq {"account", "join", "membership"} /\ Cardinality(Kinds) <= 1
    /\ Cardinality(FreeWorkers) > 0
    /\ incident["i2"] = None /\ Open("i1")
ExtensionStory ==
    /\ Alone /\ Empty(period) /\ incident["i2"] = None /\ SameLabels
    /\ Kinds \subseteq {"execution", "archive"}
RowKinds == {"row", "row_delete", "reorder"}
FormStory ==
    /\ Alone /\ ExtensionUnused /\ SameLabels
    /\ Kinds \subseteq {"form", "period"} \cup RowKinds
    /\ \A p \in Periods : period[p] # None =>
          /\ period[p].incident = IF p = "p3" THEN "i2" ELSE "i1"
          /\ ~ period[p].archived
    /\ \/ Empty(row) /\ Kinds \cap RowKinds = {}
       \/ /\ Kinds \subseteq RowKinds
          /\ incident["i2"] = None /\ period["p2"] = None /\ form["f2"] = None
       \/ /\ Kinds \subseteq RowKinds /\ incident["i2"] = None
          /\ Cardinality({r \in Rows : row[r] # None}) <= 1

(* A behaviour is about accounts, about an incident's members who make     *)
(* accounts, about the members and periods of one incident, about the      *)
(* extension, or about the forms of two incidents: what these share, the   *)
(* policy, is read by all of them.                                         *)
MCOneStory ==
    AccountStory \/ RoleStory \/ MemberStory \/ ExtensionStory \/ FormStory
=============================================================================
