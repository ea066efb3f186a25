\* Two workers and the two deliveries of one event, in batches of up to two: a
\* worker takes both, or each takes one, and a row waits while a batch is worked
\* off. Four attempts make three backoffs, 1, 2 and 3 (the cap, not 4).
SPECIFICATION Spec
CONSTANTS
    e1 = e1
    s1 = s1
    s2 = s2
    Events = {e1}
    Subs = {s1, s2}
    Matches <- TwoWebhooks
    Workers = {w1, w2}
    None = None
    MaxAttempts = 4
    BaseDelay = 1
    MaxDelay = 3
    Batch = 2
    MaxLate = 1
    MaxRestarts = 1
INVARIANTS
    TypeOK
    OneSenderPerRow
    AttemptBudget
PROPERTIES
    BackoffRespected
    Settles
CHECK_DEADLOCK FALSE
