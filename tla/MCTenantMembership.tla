------------------------ MODULE MCTenantMembership ------------------------
(* TenantMembership for two accounts and two database sessions.            *)
EXTENDS TenantMembership, TLC

Symmetry == Permutations(Txns)

\* The first account keeps the private address it signed up with, and nothing
\* is explored past its removal: the second one moves on and off the domain,
\* joins by it, is removed, comes back and is deleted.  An operator suspends
\* the tenant only while its door is open.
Small ==
    /\ email[1] = "off"
    /\ 1 \notin removed
    /\ tenant = "suspended" => domain = "open"
=============================================================================
