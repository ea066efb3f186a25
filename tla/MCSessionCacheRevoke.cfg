\* One process, two lookups around its own revocation.
SPECIFICATION FairSpec
CONSTANTS
    Replicas = {ra}
    Lookups = {l1, l2}
    Projects = {home}
    Home = home
    None = None
    TTL = 2
    ReadTime = 1
    MaxTime = 3
PROPERTY SameProcessRevokeIsVisible
CHECK_DEADLOCK FALSE
