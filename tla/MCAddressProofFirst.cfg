\* Two proofs of one address, one of them slow. The account moves to another
\* address, which is verified, and what its owner attaches then is voided.
SPECIFICATION Spec
CONSTANTS
    a1 = a1
    a2 = a2
    l1 = l1
    l2 = l2
    Passkeys = {k1}
    Links = {l1}
    Password = Password
    Addrs = {a1, a2}
    First = a1
    Asserts <- OneLink
    Tagged = {}
    Proofs = {p1, p2}
    None = None
    SignIns = {l1}
    MaxFaults = 0
INVARIANT
    VoidedWereUnproven
CHECK_DEADLOCK FALSE
SYMMETRY TwoProofs
