SPECIFICATION OwnersSpec
CONSTANTS
    Users = {1, 2, 3}
    Txns = {t1, t2, t3}
    Others = t3
    Nobody = Nobody
    Operator = Operator
SYMMETRY Symmetry
PROPERTY OwnerKept
CHECK_DEADLOCK FALSE
