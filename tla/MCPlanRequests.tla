--------------------------- MODULE MCPlanRequests ---------------------------
(* Small instances of PlanRequests.  Workers are interchangeable.          *)
EXTENDS PlanRequests, TLC

Symmetry == Permutations(Workers)
=============================================================================
