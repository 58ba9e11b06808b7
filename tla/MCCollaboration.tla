--------------------------- MODULE MCCollaboration ---------------------------
(* Small instances of Collaboration.  Workers and mutation ids are         *)
(* interchangeable.                                                        *)
EXTENDS Collaboration, TLC

Symmetry == Permutations(Workers) \cup Permutations(Mutations)
=============================================================================
