\* One account and three requests, two at once: two sign-ins and a completion,
\* a sign-in and two second steps, or any of them racing enrolment and its undoing.
SPECIFICATION MCSpec
CONSTANTS
    Requests = {r1, r2, r3}
    Challenges = {h1}
    Codes = {c1}
    Creds = {1, 2}
    None = None
    MaxFailed = 2
    Lockout = 1
    ChallengeExpiry = 0
    FaultsHappen = TRUE
    MaxPassword = 2
    MaxTime = 1
    MaxInFlight = 2
SYMMETRY Symmetry
VIEW View
CONSTRAINT InFlight
INVARIANTS
    TypeOK
    ThresholdLocks
    IssuedPasswordOpensNothing
    SecondFactorAsked
    ProvenPasswordInForce
CHECK_DEADLOCK FALSE
