\* An approval admitted under one policy commits after a change of tenant or
\* domain replaced it: the request had no owner yet, so the change missed it.
SPECIFICATION AgentSpec
CONSTANTS
    Requests = {r1}
    Asked = {g1}
    Delegated = {}
    Agents = {a1}
    Sids = {s1}
    None = None
    Regs <- MCRegs
    Slots = {k1}
    Caps = {2}
    ScopeTTL = 1
    RequestLife = 1
    CodeLife = 1
    ConsentLife = 1
    RefreshIdle = 1
    MaxTokens = 1
    MaxChanges = 1
    MaxTime = 1
PROPERTY ConsentUnderCurrentPolicy
CHECK_DEADLOCK FALSE
