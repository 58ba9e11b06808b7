-------------------------- MODULE RevisionLifecycle --------------------------
(***************************************************************************)
(* What the plan component promises of its revisions (ADR-0003, ADR-0018): *)
(* a revision is opened as a draft, only a draft's content changes, and    *)
(* approval ends that for good.  Nothing ever touches two revisions.       *)
(***************************************************************************)
CONSTANT Numbers

VARIABLES
    status,     \* "none", "draft" or "approved", by revision number
    content     \* whatever the revision shows, by revision number

vars == <<status, content>>

Init == status \in [Numbers -> {"none", "draft"}]

OnlyContentOf(n) == \A k \in Numbers \ {n} : content'[k] = content[k]

Open(n) ==
    /\ status[n] = "none"
    /\ status' = [status EXCEPT ![n] = "draft"]
    /\ OnlyContentOf(n)

Edit(n) ==
    /\ status[n] = "draft"
    /\ UNCHANGED status
    /\ OnlyContentOf(n)

Approve(n) ==
    /\ status[n] = "draft"
    /\ status' = [status EXCEPT ![n] = "approved"]
    /\ UNCHANGED content

Next == \E n \in Numbers : Open(n) \/ Edit(n) \/ Approve(n)

Spec == Init /\ [][Next]_vars
=============================================================================
