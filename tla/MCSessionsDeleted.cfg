\* One sign-in and one more request, nothing fails: what a deleted refresh
\* token leaves behind.
SPECIFICATION Spec
CONSTANTS
    Tokens = {t1, t2}
    Requests = {r1, r2, r3}
    NoToken = NoToken
    RefreshExpiry = 1
    IdleTimeout = 0
    AbsoluteTimeout = 1
    FaultsHappen = FALSE
    MaxTime = 2
INVARIANT DeletedTokenEndsItsSession
