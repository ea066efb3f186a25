\* Two replicas and two lookups in two projects. The clock runs long enough
\* for an entry filled at the last moment before a revocation to expire.
SPECIFICATION FairSpec
CONSTANTS
    Replicas = {ra, rb}
    Lookups = {l1, l2}
    Projects = {home, other}
    Home = home
    None = None
    TTL = 1
    ReadTime = 1
    MaxTime = 2
CONSTRAINT OneRevokes
INVARIANTS
    TypeOK
    AdmissionsJustified
PROPERTY EveryLookupAnswers
CHECK_DEADLOCK FALSE
