\* Two presentations of one code read the row, the first is accepted, a new
\* code replaces the row, and the second consumes that.
SPECIFICATION Spec
CONSTANTS
    Requests = {r1, r2}
    Mailbox = Mailbox
    Numbers = {n1}
    Links = {}
    Replicas = {p1, p2}
    None = None
    MaxAttempts = 2
    TTL = 2
    Cooldown = 1
    FaultsHappen = FALSE
    MaxCode = 2
    MaxTime = 1
SYMMETRY Symmetry
INVARIANT CodeAcceptedOnce
CHECK_DEADLOCK FALSE
