------------------------ MODULE MCFieldCalibration ------------------------
(***************************************************************************)
(* FieldCalibration for TLC: a measured observation whose longitude is     *)
(* rounded by another step than its stored latitude has, and one of        *)
(* another RF pair without distances whose location is withheld.           *)
(* Observations, sets and bundles are alike but for their ids.             *)
(***************************************************************************)
EXTENDS FieldCalibration

Analysis(rf, sameHaat) ==
    [rf |-> rf, approved |-> TRUE, complete |-> TRUE, sameHaat |-> sameHaat]
MCAnalyses == {Analysis("p1", TRUE), Analysis("p1", FALSE)}

Form(rf, pair, precision, latitude, longitude) ==
    [rf |-> rf, evidence |-> "measured", recordId |-> FALSE, analysis |-> None,
     pair |-> pair, precision |-> precision, meters |-> 100,
     point |-> [latitude |-> latitude, longitude |-> longitude]]
MCForms == {Form("p1", <<3, 4>>, "generalized", 5, 7),
            Form("p2", None, "redacted", 5, 7)}

MCMeters == {100}
MCLatitudeStep == [m \in MCMeters |-> 4]
MCLongitudeStep == [m \in MCMeters |-> [x \in Latitudes |-> IF x \in -4..4 THEN 4 ELSE 6]]

MCBounds == [samples |-> 1, minimum |-> 1, maximum |-> 16]

MCSettings == {[method |-> TRUE, profile |-> TRUE, version |-> "1"],
               [method |-> FALSE, profile |-> FALSE, version |-> "2"]}
MCContents == {[traced |-> "a", contact |-> "x"],
               [traced |-> "a", contact |-> "y"],
               [traced |-> "b", contact |-> "x"]}

(* Versions of sets, retries of bundles, and stale plans or elevations:    *)
(* one of the three in a behaviour.                                        *)
MCPlan == [traced |-> "a", contact |-> "x"]
MCOneStory ==
    LET bundles == {b \in Bundles : bundle[b] # None}
    IN  /\ bundles = {} \/ Cardinality(SetRows) = 1
        /\ expired \/ plan # MCPlan => Cardinality(bundles) = 1

MCSymmetry == Permutations(Observations) \cup Permutations(Workers)
                  \cup Permutations(Sets) \cup Permutations(Bundles)
=============================================================================
