SPECIFICATION Spec
CONSTANTS
    Workers = {w1, w2}
    Versions = {v1, v2, v3}
    Snapshots = {s1}
    Names = {n1}
    Patches <- MCPatches
    None = None
SYMMETRY MCSymmetry
CONSTRAINT MCSnapshotsEarly
INVARIANTS
    TypeOK
PROPERTIES
    ApprovedOnlyByLatePatches
CHECK_DEADLOCK FALSE
