SPECIFICATION SystemSpec
CONSTANTS
    Workers = {w1, w2}
    Mutations = {m1}
    Assignments = {a1, a2}
    Seeded = {a1}
    Linkable = {a1}
    Bodies = {b1}
    Publishing = {}
    Undetermined = {}
    Preparers = {v1}
    MaxPayloads = 1
    MaxRevision = 1
    MaxPosition = 2
    MaxVersion = 1
SYMMETRY Symmetry
PROPERTIES
    ApprovedOnlyByLateEdits
