SPECIFICATION Spec
CONSTANTS
    Workers = {w1, w2}
    Mutations = {m1}
    Assignments = {a1, a2, a3}
    Seeded = {a1}
    Linkable = {}
    Bodies = {b1, b2}
    Publishing = {b2}
    Undetermined = {}
    Preparers = {v1}
    MaxPayloads = 1
    MaxRevision = 1
    MaxPosition = 2
SYMMETRY Symmetry
INVARIANT
    PublishedContactsConfirmed
