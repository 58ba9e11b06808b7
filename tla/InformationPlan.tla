-------------------------- MODULE InformationPlan --------------------------
(***************************************************************************)
(* ICS 205B (extensions/ics205b_*.py): one form for each operational       *)
(* period, and its numbered rows.                                          *)
(***************************************************************************)
EXTENDS AccessControl, Sequences, SequencesExt

CONSTANTS
    Forms,
    Rows,           \* row ids
    Headers,        \* what the header fields of a form hold
    MaxPosition     \* bound: positions that requests name

FormRows == [incident : Incidents, period : Periods, header : Headers]

ASSUME InformationAssumption == MaxPosition \in Nat /\ None \notin FormRows

VARIABLES form, row

informationVars == <<form, row>>

InformationInit ==
    /\ form = [f \in Forms |-> None]
    /\ row = [r \in Rows |-> None]

PlanEdit == <<"plan", "edit">>

(* The unique constraints, and the references that must exist.             *)
PairFree(f, i, p) ==
    \A g \in Forms \ {f} :
        form[g] # None => <<form[g].incident, form[g].period>> # <<i, p>>
PositionFree(r, f, k) ==
    \A s \in Rows \ {r} : row[s] # None => <<row[s].form, row[s].position>> # <<f, k>>

-----------------------------------------------------------------------------
(* Forms.                                                                  *)
Fits(i, p) == Exists(i) /\ period[p] # None /\ period[p].incident = i

BeginFormCreate(w, a, f, i, p) ==
    /\ Free(w)
    /\ form[f] = None /\ NotHeld(f) /\ ~ purged
    /\ HasPermission(a, "form", "create")
    /\ Fits(i, p) /\ PairFree(f, i, p)
    /\ UserHasPermission(a, PlanEdit, i)
    /\ \E h \in Headers :
          Take(w, [kind |-> "form", object |-> f, on |-> ReadOpen({i}),
                   sent |-> {"incident", "period", "header"},
                   row |-> [incident |-> i, period |-> p, header |-> h]])
    /\ UNCHANGED <<accountVars, incidentVars, informationVars>>

(* A PATCH of some of the fields, validated together with the others.      *)
BeginFormUpdate(w, a, f, new) ==
    /\ Free(w)
    /\ form[f] # None
    /\ InScope(a, form[f].incident)
    /\ HasObjectPermission(a, "form", "update", form[f].incident)
    /\ Fits(new.incident, new.period)
    /\ PairFree(f, new.incident, new.period)
    /\ Take(w, [kind |-> "form", object |-> f,
                sent |-> {x \in DOMAIN new : new[x] # form[f][x]},
                on |-> ReadOpen({form[f].incident}), row |-> new])
    /\ UNCHANGED <<accountVars, incidentVars, informationVars>>

(* save() writes every field of the row, the ones that were only read too. *)
Saved(r) == r.row

FinishForm(w) ==
    /\ Doing(w, "form")
    /\ LET f == req[w].object
           new == Saved(req[w])
       IN  /\ Exists(new.incident) /\ period[new.period] # None
           /\ PairFree(f, new.incident, new.period)
           /\ form' = [form EXCEPT ![f] = new]
    /\ Done(w)
    /\ UNCHANGED <<accountVars, incidentVars, row>>

-----------------------------------------------------------------------------
(* Rows, in the order of their positions.                                  *)
RowsOfForm(f) == {r \in Rows : row[r] # None /\ row[r].form = f}
Ordered(f) ==
    SetToSortSeq(RowsOfForm(f), LAMBDA r, s : row[r].position < row[s].position)

NextPosition(f) == 1 + CHOOSE k \in 0 .. 2 * MaxPosition :
    /\ \A r \in RowsOfForm(f) : row[r].position <= k
    /\ k = 0 \/ \E r \in RowsOfForm(f) : row[r].position = k

(* PolicyPermission finds no incident on a row, so the installation role   *)
(* must allow it as well as the incident role.                             *)
MayEditRows(a, f) ==
    /\ form[f] # None
    /\ UserHasPermission(a, PlanEdit, None)
    /\ UserHasPermission(a, PlanEdit, form[f].incident)

BeginRowCreate(w, a, r, f, k) ==
    /\ Free(w)
    /\ row[r] = None /\ NotHeld(r) /\ ~ purged
    /\ MayEditRows(a, f)
    /\ k # None => PositionFree(r, f, k)
    /\ LET position == IF k = None THEN NextPosition(f) ELSE k
       IN  /\ position <= MaxPosition
           /\ Take(w, [kind |-> "row", object |-> r, on |-> ReadOpen({form[f].incident}),
                       row |-> [form |-> f, position |-> position]])
    /\ UNCHANGED <<accountVars, incidentVars, informationVars>>

(* The row may move to another form; the permission is that of the old one *)
BeginRowUpdate(w, a, r, f, k) ==
    /\ Free(w)
    /\ row[r] # None /\ form[f] # None
    /\ LET i == form[row[r].form].incident
       IN  /\ MayEditRows(a, row[r].form) /\ InScope(a, i)
           /\ PositionFree(r, f, k)
           /\ Take(w, [kind |-> "row", object |-> r, on |-> ReadOpen({i}),
                       row |-> [form |-> f, position |-> k]])
    /\ UNCHANGED <<accountVars, incidentVars, informationVars>>

FinishRow(w) ==
    /\ Doing(w, "row")
    /\ LET new == req[w].row
       IN  /\ form[new.form] # None
           /\ PositionFree(req[w].object, new.form, new.position)
           /\ row' = [row EXCEPT ![req[w].object] = new]
    /\ Done(w)
    /\ UNCHANGED <<accountVars, incidentVars, form>>

(* Positions 1, 2, ... for a list of rows, one UPDATE after the other: a   *)
(* row that has gone is passed over, and a position that another row holds *)
(* at that moment ends the request.                                        *)
LastIndex(list, r) == CHOOSE k \in DOMAIN list :
    list[k] = r /\ \A j \in DOMAIN list : list[j] = r => j <= k
Renumbered(list) ==
    [r \in Rows |->
        IF row[r] # None /\ (\E k \in DOMAIN list : list[k] = r)
        THEN [row[r] EXCEPT !.position = LastIndex(list, r)]
        ELSE row[r]]
Renumberable(list, gone) ==
    \A k \in DOMAIN list :
        list[k] # None /\ row[list[k]] # None =>
            \A s \in RowsOfForm(row[list[k]].form) \ (gone \cup {list[n] : n \in 1 .. k}) :
                row[s].position # k

(* perform_destroy(): the row goes, the others are read, and those with a  *)
(* gap before them are renumbered.                                         *)
BeginRowDelete(w, a, r) ==
    /\ Free(w)
    /\ row[r] # None
    /\ MayEditRows(a, row[r].form) /\ InScope(a, form[row[r].form].incident)
    /\ LET rest == SelectSeq(Ordered(row[r].form), LAMBDA s : s # r)
       IN  Take(w, [kind |-> "row_delete", object |-> r,
                    on |-> ReadOpen({form[row[r].form].incident}),
                    rest |-> [k \in DOMAIN rest |->
                                 IF row[rest[k]].position = k THEN None ELSE rest[k]]])
    /\ UNCHANGED <<accountVars, incidentVars, informationVars>>

FinishRowDelete(w) ==
    /\ Doing(w, "row_delete")
    /\ Renumberable(req[w].rest, {req[w].object})
    /\ row' = [Renumbered(req[w].rest) EXCEPT ![req[w].object] = None]
    /\ Done(w)
    /\ UNCHANGED <<accountVars, incidentVars, form>>

(* reorder(): the ids are compared as sets, and the rows leave for         *)
(* positions above 10000 before they are numbered.                         *)
BeginReorder(w, a, f, list) ==
    /\ Free(w)
    /\ RowsOfForm(f) # {}
    /\ MayEditRows(a, f) /\ InScope(a, form[f].incident)
    /\ {list[k] : k \in DOMAIN list} = RowsOfForm(f)
    /\ Take(w, [kind |-> "reorder", list |-> list,
                on |-> ReadOpen({form[f].incident})])
    /\ UNCHANGED <<accountVars, incidentVars, informationVars>>

FinishReorder(w) ==
    /\ Doing(w, "reorder")
    /\ Renumberable(req[w].list, Range(req[w].list))
    /\ row' = Renumbered(req[w].list)
    /\ Done(w)
    /\ UNCHANGED <<accountVars, incidentVars, form>>

-----------------------------------------------------------------------------
=============================================================================
