SPECIFICATION Spec
CONSTANTS
    Users = {root, a, b}
    Root = root
    Incidents = {"i1", "i2"}
    Periods = {"p1", "p2", "p3"}
    Labels = {"l1", "l2"}
    Workers = {w1, w2}
    Emails = {"e1", "e2"}
    RoleInputs = {"administrator", "comt"}
    Overrides <- MCOverrides
    MaxPassword = 2
    None = None
    Versions = {1, 2, 3}
    ContractOf <- MCContractOf
    Contracts = {"1.0", "2.0"}
    Supported = {"1.0"}
    Revisions = {"r1", "r2"}
    RevisionOf <- MCRevisionOf
    RowsOf <- MCRowsOf
    Minimums = {1, 2}
    Executions = {1, 2}
    Forms = {"f1", "f2"}
    Rows = {x, y, z}
    Headers = {"h1"}
    MaxPosition = 3
INVARIANTS
    AccountsByManagers
    ExecutionsReviewed
    NoOrphans
PROPERTIES
    SignInsChecked
    ArchiveCloses
SYMMETRY MCSymmetry
CONSTRAINT MCOneStory
CHECK_DEADLOCK FALSE
