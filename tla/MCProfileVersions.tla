------------------------- MODULE MCProfileVersions -------------------------
(***************************************************************************)
(* ProfileVersions for TLC: one edit has the ERP calculated, the other     *)
(* changes the power it is calculated from.  Workers and ids are alike.    *)
(***************************************************************************)
EXTENDS ProfileVersions, TLC

MCPatches ==
    {[source |-> "calculated", power |-> 1, gain |-> 2, notes |-> "blank"],
     [power |-> 3]}

MCSymmetry == Permutations(Workers) \cup Permutations(Versions)

(* A snapshot is an inert copy: it need not be seen with later versions.   *)
MCSnapshotsEarly ==
    (\E s \in Snapshots : snapshot[s] # None) => Cardinality(Rows) = 1
=============================================================================
