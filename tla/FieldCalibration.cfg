SPECIFICATION Spec
CONSTANTS
    Observations = {o1, o2}
    Sets = {c1, c2}
    Bundles = {b1, b2}
    Workers = {w1}
    Names = {n1, n2}
    Forms <- MCForms
    Analyses <- MCAnalyses
    Contents <- MCContents
    Settings <- MCSettings
    Meters <- MCMeters
    LatitudeStep <- MCLatitudeStep
    LongitudeStep <- MCLongitudeStep
    Limit = 5
    Bounds <- MCBounds
    MaxReviews = 3
    None = None
SYMMETRY MCSymmetry
CONSTRAINT MCOneStory
INVARIANTS
    TypeOK
    BundlesSound
PROPERTY
    StaleForGood
CHECK_DEADLOCK FALSE
