SPECIFICATION Spec
CONSTANTS
    Users = {1, 2}
    Txns = {t1, t2}
    Nobody = Nobody
    Operator = Operator
SYMMETRY Symmetry
CONSTRAINT Small
INVARIANTS
    TypeOK
    RemovalStands
    DomainNeverGoverns
    CountedOwnerStays
    DeadlockOnlyWithDeletion
PROPERTIES
    SuspensionSticks
    RestoredOnDomain
CHECK_DEADLOCK FALSE
