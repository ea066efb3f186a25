\* DefaultRetryPolicy, with a second to a tick.
SPECIFICATION Spec
CONSTANTS
    e1 = e1
    s1 = s1
    s2 = s2
    Events = {e1}
    Subs = {s1, s2}
    Matches <- OneWebhook
    Workers = {w1}
    None = None
    MaxAttempts = 6
    BaseDelay = 2
    MaxDelay = 300
    Batch = 50
    MaxLate = 0
    MaxRestarts = 0
INVARIANT RetriesForMinutes
CHECK_DEADLOCK FALSE
