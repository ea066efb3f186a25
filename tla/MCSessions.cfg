\* Four requests, two of them in flight at once, and three mintable pairs: a
\* sign-in, its rotation and one more (a second sign-in or the successor's
\* successor), with room for a replay or a sweep to race the rotation.  Tokens
\* expire and sessions time out after one tick, on a clock of two.
SPECIFICATION Spec
CONSTANTS
    Tokens = {t1, t2, t3}
    Requests = {r1, r2, r3, r4}
    NoToken = NoToken
    RefreshExpiry = 1
    IdleTimeout = 0
    AbsoluteTimeout = 1
    FaultsHappen = TRUE
    MaxTime = 2
SYMMETRY Symmetry
VIEW View
CONSTRAINT InFlight
INVARIANTS
    TypeOK
    LineageKept
    MintNeedsGoodStanding
    RevokeAllIsComplete
