SPECIFICATION Spec
CONSTANTS
    Workers = {w1, w2}
    Mutations = {m1, m2}
    Assignments = {a1, a2}
    Seeded = {a1}
    Linkable = {}
    Bodies = {b1, b2}
    Publishing = {b2}
    Undetermined = {}
    Preparers = {v1, v2}
    MaxPayloads = 2
    MaxRevision = 1
    MaxPosition = 2
SYMMETRY Symmetry
INVARIANTS
    AppliedOnce
    ReplayIdempotent
    VersionTokensSound
    ApprovedContentImmutable
PROPERTIES
    NoSilentOverwrite
