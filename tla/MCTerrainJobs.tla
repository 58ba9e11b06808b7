--------------------------- MODULE MCTerrainJobs ---------------------------
(***************************************************************************)
(* TerrainJobs for TLC: an infrastructure and a subscriber input whose     *)
(* frequencies match, a fixture with a hole, a profile with a gap, and     *)
(* configurations that differ in what they approve.                        *)
(***************************************************************************)
EXTENDS TerrainJobs, TLC

CONSTANTS l1, l2, i1, i2, p1, p2

(* Rows of one kind differ in nothing but their ids.                       *)
MCSymmetry == Permutations(Elevations) \cup Permutations(Haats)
                  \cup Permutations(Terrains)

(* A terrain job, a directional analysis and a second HAAT calculation do  *)
(* not read one another: only one of the three appears in a behaviour.     *)
MCOneStory ==
    Cardinality({k \in 1..3 :
        \/ k = 1 /\ \E t \in Terrains : terrain[t] # None
        \/ k = 2 /\ \E d \in Directionals : directional[d] # None
        \/ k = 3 /\ \A h \in Haats : haat[h] # None}) <= 1

MCReliefOf == (l1 :> 3) @@ (l2 :> -9)
MCInputOf ==
    (i1 :> [tx |-> 1, rx |-> 2, erp |-> 9, sensitivity |-> -5, agl |-> 4])
    @@ (i2 :> [tx |-> 2, rx |-> 1, erp |-> 3, sensitivity |-> -4, agl |-> 2])
MCFixtures ==
    {[p \in Points |-> "complete"],
     [p \in Points |-> IF p = p1 THEN "out_of_coverage" ELSE "complete"]}
MCMarginOf == ("open" :> 1)
MCPresetOf ==
    ("balanced" :> [fade |-> 2, uncertainty |-> 2, receiver |-> 1,
                    maximum |-> 9, rounding |-> 2])
    @@ ("unknown" :> None)
MCProfiles ==
    {<<1, 2, 0>>, <<1, None, 3>>, <<1, 2>>, <<1, None, None>>}

Configuration(provider, presets, source, approved) ==
    [provider |-> provider, approved |-> approved, presets |-> presets,
     rule |-> approved, terrain |-> [source |-> source, approved |-> approved,
                                     resolution |-> 1, interval |-> 2]]
MCSettings ==
    {Configuration("synthetic", {"balanced"}, "a", TRUE),
     Configuration("usgs", {"balanced"}, "b", FALSE)}
=============================================================================
