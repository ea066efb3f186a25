\* One proof of an address, a passkey and two provider links: l1 asserts the
\* account's address, l2 a tagged spelling of it. Someone signs in with l1, the
\* address may change to a2 and back, and one store call fails or dies.
SPECIFICATION Spec
CONSTANTS
    a1 = a1
    a2 = a2
    l1 = l1
    l2 = l2
    Passkeys = {k1}
    Links = {l1, l2}
    Password = Password
    Addrs = {a1, a2}
    First = a1
    Asserts <- OneTagged
    Tagged = {l2}
    Proofs = {p1}
    None = None
    SignIns = {l1}
    MaxFaults = 1
INVARIANTS
    TypeOK
    PlantedCredentialVoided
    VoidedSessionEnded
CHECK_DEADLOCK FALSE
