SPECIFICATION Spec
CONSTANTS
    Payloads <- MCPayloads
    ApprovedReferences <- MCApproved
    LibraryWorkers = {w1, w2}
    None = None
    Assignments <- MCAssignments
    Plans <- MCPlans
    Analyses = {n1}
    Analysts = {v1}
    Threshold = 2
    MaxLate = 1
    MaxDispositions = 1
    Archives <- MCArchives
    Importers = {i1, i2}
    Readers = {r1}
    MaxMembers = 5
    MaxBytes = 5
    MaxRecords = 4
    MaxFrequency = 9
    PageSize = 1
    Blank = Blank
    Bad = Bad
INVARIANTS
    CurrentKept
    AvailableIsExact
    DetailsExplained
    CisaReleasesReviewed
    SilenceExplained
PROPERTY
    QuietImportLeavesOne
SYMMETRY MCSymmetry
CONSTRAINT MCOneStory
CHECK_DEADLOCK FALSE
