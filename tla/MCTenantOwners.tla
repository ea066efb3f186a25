-------------------------- MODULE MCTenantOwners --------------------------
(***************************************************************************)
(* TenantMembership for three accounts with private addresses: two         *)
(* sessions remove members, the third one invites and transfers.  Every    *)
(* behaviour is one of TenantMembership's, in which nobody else acts.      *)
(***************************************************************************)
EXTENDS TenantMembership, TLC

CONSTANT Others \* the session that does everything but the racing removals

Symmetry == Permutations(Txns \ {Others})

OwnersInit == Init /\ Owners = {1} /\ email = [u \in Users |-> "off"]

OwnersNext ==
    \E t \in Txns :
        \/ RemoveTenantMember(t)
        \/ t = Others /\ (AcceptTenantInvitation(t) \/ TransferTenantOwnership(t))
        \/ Lock(t)
        \/ Store(t)

OwnersSpec == OwnersInit /\ [][OwnersNext]_vars

\* "Two removals of the last two owners, or a removal of the member a transfer
\* is making the owner, cannot together leave the tenant without one"
\* (RemoveMembership): a tenant with an active owner keeps one.
OwnerKept == [][Owners # {} => Owners' # {}]_vars
=============================================================================
