SPECIFICATION Spec
CONSTANTS
    l1 = l1
    l2 = l2
    i1 = i1
    i2 = i2
    p1 = p1
    p2 = p2
    Locations = {l1, l2}
    ReliefOf <- MCReliefOf
    RfInputs = {i1, i2}
    InputOf <- MCInputOf
    Elevations = {e1, e2}
    Haats = {h1, h2}
    TerrainPoints = {p1, p2}
    Fixtures <- MCFixtures
    MaxTime = 1
    TTL = 1
    None = None
    Coverages = {c1}
    Directionals = {d1}
    Bands = {1, 2}
    MarginOf <- MCMarginOf
    PresetOf <- MCPresetOf
    Terrains = {t1, t2}
    Settings <- MCSettings
    PathLength = 3
    Profiles <- MCProfiles
INVARIANTS
    TypeOK
    EvidenceChain
    PathFromInput
    SampleCountsExact
    LineOfSightExact
PROPERTY
    OutcomesKept
SYMMETRY MCSymmetry
CONSTRAINT MCOneStory
CHECK_DEADLOCK FALSE
