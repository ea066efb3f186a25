\* Three presentations of the codes of one row, which two replicas replace once:
\* two numbers, a budget of two guesses and two ticks of life, so that a code is
\* accepted, burnt, replaced, expired and mistaken for its successor. One magic
\* link beside it. Symmetric requests and replicas.
SPECIFICATION Spec
CONSTANTS
    Requests = {r1, r2, r3}
    Mailbox = Mailbox
    Numbers = {n1, n2}
    Links = {l1}
    Replicas = {p1, p2}
    None = None
    MaxAttempts = 2
    TTL = 2
    Cooldown = 1
    FaultsHappen = TRUE
    MaxCode = 2
    MaxTime = 2
SYMMETRY Symmetry
VIEW View
INVARIANTS
    TypeOK
    DeadCodeRefused
    VerifiedNumberProven
    GuessBudget
PROPERTIES
    ImplementsOneTimeGrant
CHECK_DEADLOCK FALSE
