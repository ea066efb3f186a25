SPECIFICATION Spec
CONSTANTS
    Users = {1, 2}
    Txns = {t1, t2}
    Nobody = Nobody
    Operator = Operator
SYMMETRY Symmetry
CONSTRAINT Small
INVARIANTS
    NoDeadlock
CHECK_DEADLOCK FALSE
