\* Two requests at a time, one consent and two possible delegations of one agent,
\* two changes of anything a grant rests on, so that a change can be undone, and a
\* clock on which codes, consents and requests run out and are swept. The client is
\* registered for consents or for machines. Two caches of the project's configuration,
\* whose copies are served for one tick. Requests, delegations and caches are symmetric.
SPECIFICATION AgentSpec
CONSTANTS
    Requests = {r1, r2}
    Asked = {g1}
    Delegated = {d1, d2}
    Agents = {a1}
    Sids = {s1}
    None = None
    Regs <- MCRegs
    Slots = {k1, k2}
    Caps = {2}
    ScopeTTL = 1
    RequestLife = 1
    CodeLife = 1
    ConsentLife = 1
    RefreshIdle = 1
    MaxTokens = 3
    MaxChanges = 2
    MaxTime = 2
SYMMETRY Symmetry
VIEW View
INVARIANTS
    AgentTypeOK
    LiveGrantHasAuthority
    OneLineage
    WithdrawnStaysOut
PROPERTIES
    IssuedUnderPolicyInForce
CHECK_DEADLOCK FALSE
