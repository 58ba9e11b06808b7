SPECIFICATION FairSpec
CONSTANTS
    Requests = {r1, r2, r3}
    EventsPerRequest = 2
INVARIANTS
    ChainVerifies
    AuditMatchesOutcome
PROPERTY
    EveryRequestEnds
