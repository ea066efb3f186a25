\* Two accounts and three requests, two of them open at once: two approvals
\* overlap and a poll follows, or two polls race for one approval, or a poll
\* races a Get that expires the row. The clock passes the window (1), the
\* grace (2) and the sweep (3) of a row made at 0.
SPECIFICATION Spec
CONSTANTS
    Users = {u1, u2}
    Requests = {r1, r2, r3}
    MaxInFlight = 2
    NoUser = NoUser
    Window = 1
    Grace = 1
    Retention = 1
    MaxTime = 3
SYMMETRY Symmetry
VIEW View
CONSTRAINT InFlight
INVARIANTS
    TypeOK
    MintsMatchApprovals
    CollectionGated
CHECK_DEADLOCK FALSE
