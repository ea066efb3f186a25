\* One account, four requests, a clock that stands still: two approvals read
\* the pending row, and a poll mints between and after their writes.
SPECIFICATION Spec
CONSTANTS
    Users = {u1}
    Requests = {r1, r2, r3, r4}
    MaxInFlight = 2
    NoUser = NoUser
    Window = 1
    Grace = 1
    Retention = 1
    MaxTime = 0
SYMMETRY Symmetry
VIEW View
CONSTRAINT InFlight
INVARIANT OneMintPerHandoff
CHECK_DEADLOCK FALSE
