\* Expected to fail: a sign-in and its second step.
SPECIFICATION MCSpec
CONSTANTS
    Requests = {r1, r2}
    Challenges = {h1}
    Codes = {c1}
    Creds = {1}
    None = None
    MaxFailed = 2
    Lockout = 1
    ChallengeExpiry = 0
    FaultsHappen = FALSE
    MaxPassword = 2
    MaxTime = 1
    MaxInFlight = 2
SYMMETRY Symmetry
VIEW View
CONSTRAINT InFlight
INVARIANTS
    SecondStepInGoodStanding
CHECK_DEADLOCK FALSE
