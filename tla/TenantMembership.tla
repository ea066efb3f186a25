-------------------------- MODULE TenantMembership --------------------------
(***************************************************************************)
(* The memberships of one self-service tenant on the postgres driver       *)
(* (internal/repo/postgres/membership_store.go and the services above it). *)
(*                                                                         *)
(* Every write is a READ COMMITTED transaction: a statement sees what had  *)
(* committed when it began, FOR UPDATE takes row locks one at a time in    *)
(* user_id order and reads each row as it then stands, and a lock lasts    *)
(* until the transaction ends.  A transaction's writes become visible at   *)
(* its last step, its commit.  What the service reads before it calls the  *)
(* store is the guard of the action that begins the transaction.           *)
(***************************************************************************)
EXTENDS Naturals, FiniteSets

CONSTANTS
    Users,    \* account ids; user_id order is the order of the numbers
    Txns,     \* database sessions
    Nobody,   \* no holder, no caller
    Operator  \* an operator, who holds no membership

ASSUME TenantMembershipAssumption ==
    /\ Users \subseteq Nat /\ IsFiniteSet(Users)
    /\ Nobody \notin Users \cup Txns
    /\ Operator \notin Users
    /\ Operator # Nobody

VARIABLES
    row,     \* tenant_memberships, by user
    removed, \* who has a tenant_member_removals record
    email,   \* users.email: on or off the tenant's domain
    domain,  \* the domain: pending, verified, or verified with allow_join
    tenant,  \* tenants.status
    adv,     \* who holds the membership's advisory lock
    lock,    \* who holds the membership's row lock
    acct,    \* who holds the account's row lock
    door,    \* the joins holding the domain and the tenant FOR SHARE
    pc, op, tgt, by, role, after, \* the transactions
    want,    \* the rows lockOwnersAnd has still to lock
    counted, \* the other active owners keepAnOwner counted among those locked
    seen     \* the email a restore read with the account's row

data == <<row, removed, email, domain, tenant>>
locks == <<adv, lock, acct, door>>
params == <<op, tgt, by, role, after>>
vars == <<data, locks, pc, params, want, counted, seen>>

Roles == {"member", "admin", "owner"}
Rank(r) == CASE r = "owner" -> 3 [] r = "admin" -> 2 [] r = "member" -> 1

\* created, invited and added memberships follow the same rules: "granted".
Rows == [role : Roles, source : {"domain", "granted"},
         status : {"none", "active", "suspended", "inactive"}]
NoRow == [role |-> "member", source |-> "domain", status |-> "none"]

Ops == {"grant", "upsert", "join", "remove", "suspend", "restore", "transfer", "email",
        "delete", "none"}
PCs == {"idle", "adv", "clear", "account", "door", "scan", "lock", "write"}

TypeOK ==
    /\ row \in [Users -> Rows]
    /\ removed \in SUBSET Users
    /\ email \in [Users -> {"new", "on", "off", "gone"}]
    /\ domain \in {"pending", "verified", "open"}
    /\ tenant \in {"claimed", "suspended"}
    /\ adv \in [Users -> Txns \cup {Nobody}]
    /\ lock \in [Users -> Txns \cup {Nobody}]
    /\ acct \in [Users -> Txns \cup {Nobody}]
    /\ door \in SUBSET Txns
    /\ pc \in [Txns -> PCs]
    /\ op \in [Txns -> Ops]
    /\ tgt \in [Txns -> Users \cup {Nobody}]
    /\ by \in [Txns -> Users \cup {Nobody, Operator}]
    /\ role \in [Txns -> Roles]
    /\ after \in [Txns -> {"grant", "upsert", "none"}]
    /\ want \in [Txns -> SUBSET Users]
    /\ counted \in [Txns -> SUBSET Users]
    /\ seen \in [Txns -> {"on", "off", "gone", "none"}]

-----------------------------------------------------------------------------
Held(u) == row[u].status # "none"
Active(u) == row[u].status = "active"
Owners == {u \in Users : Active(u) /\ row[u].role = "owner"}
Admins == {u \in Users : Active(u) /\ row[u].role \in {"owner", "admin"}}
Account(u) == email[u] \in {"on", "off"}

\* onVerifiedDomain: the email is on a domain the tenant has verified.
onVerifiedDomain(u) == email[u] = "on" /\ domain # "pending"

\* activeUserTenantsQuery: the user may act in the tenant.
ActsInTenant(u) ==
    Active(u) /\ tenant = "claimed" /\ (row[u].source # "domain" \/ onVerifiedDomain(u))

-----------------------------------------------------------------------------
(* Transactions.                                                           *)

Goto(t, label) == pc' = [pc EXCEPT ![t] = label]

Begin(t, o, u, who, r, next, label) ==
    /\ pc[t] = "idle"
    /\ Goto(t, label)
    /\ op' = [op EXCEPT ![t] = o]
    /\ tgt' = [tgt EXCEPT ![t] = u]
    /\ by' = [by EXCEPT ![t] = who]
    /\ role' = [role EXCEPT ![t] = r]
    /\ after' = [after EXCEPT ![t] = next]
    /\ UNCHANGED <<locks, want, counted, seen>>

Released(held, t) == [u \in Users |-> IF held[u] = t THEN Nobody ELSE held[u]]

\* Commit or rollback. An operator's restore is followed by the grant or the
\* upsert it makes room for.
End(t, next) ==
    /\ adv' = Released(adv, t)
    /\ lock' = Released(lock, t)
    /\ acct' = Released(acct, t)
    /\ door' = door \ {t}
    /\ want' = [want EXCEPT ![t] = {}]
    /\ counted' = [counted EXCEPT ![t] = {}]
    /\ seen' = [seen EXCEPT ![t] = "none"]
    /\ Goto(t, IF next = "none" THEN "idle" ELSE "adv")
    /\ op' = [op EXCEPT ![t] = next]
    /\ tgt' = [tgt EXCEPT ![t] = IF next = "none" THEN Nobody ELSE @]
    /\ by' = [by EXCEPT ![t] = Nobody]
    /\ role' = [role EXCEPT ![t] = IF next = "none" THEN "member" ELSE @]
    /\ after' = [after EXCEPT ![t] = "none"]

Rollback(t) == End(t, "none") /\ UNCHANGED data

\* A crash, a lost connection, a cancelled request or a database error.
Abort(t) == pc[t] # "idle" /\ Rollback(t)

-----------------------------------------------------------------------------
(* Requests: what the service checks before it calls the store.            *)

authorizeTenantAdmin(c) == c \in Admins /\ tenant = "claimed"

RemoveTenantMember(t) ==
    /\ \E c \in Users : authorizeTenantAdmin(c)
    /\ \E u \in Users : Begin(t, "remove", u, Nobody, "member", "none", "adv")
    /\ UNCHANGED data

SuspendTenantMember(t) ==
    /\ \E u \in Users :
         /\ \E c \in Users \ {u} : authorizeTenantAdmin(c)
         /\ Begin(t, "suspend", u, Nobody, "member", "none", "adv")
    /\ UNCHANGED data

RestoreTenantMember(t) ==
    /\ \E u \in Users : \E c \in Users \ {u} :
         /\ authorizeTenantAdmin(c)
         /\ Begin(t, "restore", u, c, "member", "none", "adv")
    /\ UNCHANGED data

TransferTenantOwnership(t) ==
    /\ \E from \in Owners : \E to \in Users \ {from} :
         /\ authorizeTenantAdmin(from)
         /\ Active(to)
         /\ Account(to)
         /\ row[to].source # "domain" \/ ActsInTenant(to)
         /\ Begin(t, "transfer", to, from, "member", "none", "scan")
    /\ UNCHANGED data

\* A pending invitation names the role; the tenant must not be suspended.
AcceptTenantInvitation(t) ==
    /\ tenant = "claimed"
    /\ \E u \in Users, r \in Roles :
         Account(u) /\ Begin(t, "grant", u, Nobody, r, "none", "adv")
    /\ UNCHANGED data

\* VerifyDomain: the DNS check passed; the caller is made an owner.
VerifyDomain(t) ==
    /\ \E c \in Users :
         /\ authorizeTenantAdmin(c)
         /\ Begin(t, "grant", c, Nobody, "owner", "none", "adv")
    /\ domain' = IF domain = "pending" THEN "verified" ELSE domain
    /\ UNCHANGED <<row, removed, email, tenant>>

JoinTenantByDomain(t) ==
    /\ \E u \in Users :
         /\ ~ActsInTenant(u)
         /\ email[u] = "on" /\ domain = "open" /\ tenant = "claimed"
         /\ Begin(t, "join", u, Nobody, "member", "none", "adv")
    /\ UNCHANGED data

\* Nobody who can sign in governs the tenant: an operator appoints an owner.
\* Whether an owner or admin can sign in is the accounts' business: any may.
AdminRecoverTenantOwnership(t) ==
    /\ \E u \in Users :
         Account(u) /\ Begin(t, "restore", u, Operator, "owner", "grant", "adv")
    /\ UNCHANGED data

AdminAddTenantAdmin(t) ==
    /\ \E u \in Users, r \in {"owner", "admin"} :
         Begin(t, "restore", u, Operator, r, "upsert", "adv")
    /\ UNCHANGED data

\* A confirmed email change, SCIM, the admin API or a merge moves the email.
ChangeEmail(t) ==
    /\ \E u \in Users : Account(u) /\ Begin(t, "email", u, Nobody, "member", "none", "account")
    /\ UNCHANGED data

DeleteAccount(t) ==
    /\ \E u \in Users : Account(u) /\ Begin(t, "delete", u, Nobody, "member", "none", "account")
    /\ UNCHANGED data

\* maybeAutoFormTenant: a new account on a verified domain joins, best effort.
\* The account has no token yet, so nothing else touches its membership.
upsertDerivedMembership(u) ==
    IF email'[u] = "on" /\ domain # "pending" /\ tenant = "claimed"
      THEN [row EXCEPT ![u] = [role |-> "member", source |-> "domain", status |-> "active"]]
      ELSE row

SignUp(u) ==
    /\ email[u] = "new"
    /\ ~Held(u)
    /\ \E e \in {"on", "off"} : email' = [email EXCEPT ![u] = e]
    /\ row' \in {row, upsertDerivedMembership(u)}
    /\ UNCHANGED <<removed, domain, tenant, locks, pc, params, want, counted, seen>>

\* SetDomainAllowJoin waits for the joins that hold the domain.
SetDomainJoin ==
    /\ \E c \in Users : authorizeTenantAdmin(c)
    /\ domain # "pending"
    /\ door = {}
    /\ domain' = IF domain = "open" THEN "verified" ELSE "open"
    /\ UNCHANGED <<row, removed, email, tenant, locks, pc, params, want, counted, seen>>

\* AdminSuspendTenant and AdminRestoreTenant: SetTenantStatus compares and sets.
moveTenant ==
    /\ door = {}
    /\ tenant' = IF tenant = "claimed" THEN "suspended" ELSE "claimed"
    /\ UNCHANGED <<row, removed, email, domain, locks, pc, params, want, counted, seen>>

-----------------------------------------------------------------------------
(* The store.                                                              *)

\* lockMembership: every write but a transfer and those of the account.
lockMembership(t) ==
    /\ pc[t] = "adv"
    /\ adv[tgt[t]] = Nobody
    /\ adv' = [adv EXCEPT ![tgt[t]] = t]
    /\ Goto(t, CASE op[t] \in {"grant", "upsert"} -> "clear"
                 [] op[t] = "join" -> "door"
                 [] op[t] = "restore" -> "account"
                 [] OTHER -> "scan")
    /\ UNCHANGED <<data, lock, acct, door, params, want, counted, seen>>

\* clearRemoval: a grant or an upsert deletes the removal record, which only a
\* deletion of the account can touch meanwhile, and holds it (Clears) until it
\* commits.
clearRemoval(t) ==
    /\ pc[t] = "clear"
    /\ Goto(t, "write")
    /\ UNCHANGED <<data, locks, params, want, counted, seen>>

Clears(t, u) ==
    pc[t] = "write" /\ op[t] \in {"grant", "upsert"} /\ tgt[t] = u /\ u \in removed

\* As lockAccount below, if a restore read the email without holding the row.
lockAccountUnheld(t) ==
    /\ pc[t] = "account"
    /\ acct[tgt[t]] = Nobody
    /\ IF op[t] = "restore"
         THEN /\ seen' = [seen EXCEPT ![t] =
                            IF row[tgt[t]].status = "suspended" THEN email[tgt[t]] ELSE @]
              /\ Goto(t, "scan")
              /\ UNCHANGED acct
         ELSE acct' = [acct EXCEPT ![tgt[t]] = t] /\ Goto(t, "write") /\ UNCHANGED seen
    /\ UNCHANGED <<data, adv, lock, door, params, want, counted>>

\* lockedEmailDomain, only for a membership that is suspended; the account's
\* own writes take the row for themselves.
lockAccount(t) ==
    /\ pc[t] = "account"
    /\ IF op[t] = "restore" /\ row[tgt[t]].status # "suspended"
         THEN UNCHANGED <<acct, seen>>
         ELSE /\ acct[tgt[t]] = Nobody
              /\ acct' = [acct EXCEPT ![tgt[t]] = t]
              /\ seen' = [seen EXCEPT ![t] = IF op[t] = "restore" THEN email[tgt[t]] ELSE @]
    /\ Goto(t, IF op[t] = "restore" THEN "scan" ELSE "write")
    /\ UNCHANGED <<data, adv, lock, door, params, want, counted>>

\* As lockDoor below, if the join did not look for the removal record.
lockDoorToAnyone(t) ==
    /\ pc[t] = "door"
    /\ IF domain = "open" /\ tenant = "claimed"
         THEN /\ door' = door \cup {t}
              /\ Goto(t, "write")
              /\ UNCHANGED <<data, adv, lock, acct, params, want, counted, seen>>
         ELSE Rollback(t)

\* JoinByDomain: the door, locked FOR SHARE, and the removal record.
lockDoor(t) ==
    /\ pc[t] = "door"
    /\ IF domain = "open" /\ tenant = "claimed" /\ tgt[t] \notin removed
         THEN /\ door' = door \cup {t}
              /\ Goto(t, "write")
              /\ UNCHANGED <<data, adv, lock, acct, params, want, counted, seen>>
         ELSE Rollback(t)

\* lockOwnersAnd: the statement's snapshot of the rows to lock.
lockOwnersAnd(t) ==
    /\ pc[t] = "scan"
    /\ want' = [want EXCEPT ![t] = {u \in Users : u \in Owners \/ (Held(u) /\ u \in {tgt[t], by[t]})}]
    /\ Goto(t, "lock")
    /\ UNCHANGED <<data, locks, params, counted, seen>>

\* As First below, without the ORDER BY.
AnyFirst(t) == want[t]

\* The next of them in user_id order; a row deleted meanwhile is skipped.
First(t) == {u \in want[t] : \A v \in want[t] : u <= v}

\* As lockRow below, if the rows were locked FOR SHARE.
lockRowShared(t) ==
    /\ pc[t] = "lock"
    /\ \E u \in First(t) :
         /\ lock' = IF Held(u) THEN [lock EXCEPT ![u] = t] ELSE lock
         /\ want' = [want EXCEPT ![t] = @ \ {u}]
    /\ UNCHANGED <<data, adv, acct, door, pc, params, counted, seen>>

lockRow(t) ==
    /\ pc[t] = "lock"
    /\ \E u \in First(t) :
         /\ lock[u] = Nobody
         /\ lock' = IF Held(u) THEN [lock EXCEPT ![u] = t] ELSE lock
         /\ want' = [want EXCEPT ![t] = @ \ {u}]
    /\ UNCHANGED <<data, adv, acct, door, pc, params, counted, seen>>

lockedAll(t) == pc[t] = "lock" /\ want[t] = {}

Locked(t, u) == u \in Users /\ lock[u] = t

\* keepAnOwner: some other active owner remains.
keepAnOwner(u) == u \in Owners => Owners \ {u} # {}

\* RemoveMembership and SuspendMembership before their write.
checkRemoval(t) ==
    /\ lockedAll(t)
    /\ op[t] \in {"remove", "suspend"}
    /\ IF /\ Locked(t, tgt[t])
          /\ op[t] = "suspend" => Active(tgt[t])
          /\ keepAnOwner(tgt[t])
         THEN /\ Goto(t, "write")
              /\ counted' = [counted EXCEPT ![t] = {o \in Owners \ {tgt[t]} : lock[o] = t}]
              /\ UNCHANGED <<data, locks, params, want, seen>>
         ELSE Rollback(t)

\* RestoreMembership: the restorer still governs, the member is suspended.
mayRestore(t) == by[t] = Operator \/ (Locked(t, by[t]) /\ by[t] \in Admins)

checkRestore(t) ==
    /\ lockedAll(t)
    /\ op[t] = "restore"
    /\ IF ~mayRestore(t) THEN Rollback(t)
       ELSE IF Locked(t, tgt[t]) /\ row[tgt[t]].status = "suspended"
         THEN Goto(t, "write") /\ UNCHANGED <<data, locks, params, want, counted, seen>>
         ELSE End(t, after[t]) /\ UNCHANGED data

checkTransfer(t) ==
    /\ lockedAll(t)
    /\ op[t] = "transfer"
    /\ IF Locked(t, by[t]) /\ by[t] \in Owners /\ Locked(t, tgt[t]) /\ Active(tgt[t])
         THEN Goto(t, "write") /\ UNCHANGED <<data, locks, params, want, counted, seen>>
         ELSE Rollback(t)

\* An INSERT that names an account waits for a deletion that holds it.
accountStays(u) == \A s \in Txns : acct[u] = s => op[s] # "delete"

\* The membership goes and a removal record, which names the account, is made.
RemoveMembership(t) ==
    /\ pc[t] = "write"
    /\ op[t] = "remove"
    /\ accountStays(tgt[t])
    /\ row' = [row EXCEPT ![tgt[t]] = NoRow]
    /\ removed' = removed \cup {tgt[t]}
    /\ End(t, "none")
    /\ UNCHANGED <<email, domain, tenant>>

\* As SuspendMembership below, with a status of its own.
SuspendMembershipParked(t) ==
    /\ pc[t] = "write"
    /\ op[t] = "suspend"
    /\ row' = [row EXCEPT ![tgt[t]].status = "parked"]
    /\ End(t, "none")
    /\ UNCHANGED <<removed, email, domain, tenant>>

SuspendMembership(t) ==
    /\ pc[t] = "write"
    /\ op[t] = "suspend"
    /\ row' = [row EXCEPT ![tgt[t]].status = "suspended"]
    /\ End(t, "none")
    /\ UNCHANGED <<removed, email, domain, tenant>>

\* A membership through the domain ends unless the email read is on it.
RestoreMembership(t) ==
    /\ pc[t] = "write"
    /\ op[t] = "restore"
    /\ row' = [row EXCEPT ![tgt[t]].status =
                 IF row[tgt[t]].source = "domain" /\ ~(seen[t] = "on" /\ domain # "pending")
                   THEN "inactive" ELSE "active"]
    /\ End(t, after[t])
    /\ UNCHANGED <<removed, email, domain, tenant>>

TransferOwnership(t) ==
    /\ pc[t] = "write"
    /\ op[t] = "transfer"
    /\ row' = [row EXCEPT ![tgt[t]].role = "owner", ![tgt[t]].source = "granted",
                          ![by[t]].role = "admin"]
    /\ End(t, "none")
    /\ UNCHANGED <<removed, email, domain, tenant>>

\* An INSERT needs the account, an UPDATE the row.
mayWriteRow(t) == IF Held(tgt[t]) THEN lock[tgt[t]] = Nobody ELSE accountStays(tgt[t])

\* grantMembershipQuery on a row that is not suspended.
grantHoldsRole(m, r) == m.status = "active" /\ Rank(m.role) >= Rank(r)

\* As granted below, if a domain membership kept its source when promoted.
grantedKeepingSource(m, source, r) ==
    IF grantHoldsRole(m, r) THEN m
    ELSE [role |-> r, source |-> IF m.status = "none" THEN source ELSE m.source,
          status |-> "active"]

granted(m, source, r) ==
    IF grantHoldsRole(m, r) /\ (m.source # "domain" \/ source = "domain") THEN m
    ELSE [role |-> IF grantHoldsRole(m, r) THEN m.role ELSE r,
          source |-> IF m.source = "domain" THEN source ELSE m.source,
          status |-> "active"]

\* As GrantMembership below, if a grant made a suspended membership active.
GrantMembershipLifting(t) ==
    /\ pc[t] = "write"
    /\ op[t] = "grant"
    /\ mayWriteRow(t)
    /\ IF ~Held(tgt[t]) /\ ~Account(tgt[t])
         THEN Rollback(t)
         ELSE /\ row' = [row EXCEPT ![tgt[t]] = granted(@, "granted", role[t])]
              /\ removed' = removed \ {tgt[t]}
              /\ End(t, "none")
              /\ UNCHANGED <<email, domain, tenant>>

GrantMembership(t) ==
    /\ pc[t] = "write"
    /\ op[t] = "grant"
    /\ mayWriteRow(t)
    /\ IF row[tgt[t]].status = "suspended" \/ (~Held(tgt[t]) /\ ~Account(tgt[t]))
         THEN Rollback(t)
         ELSE /\ row' = [row EXCEPT ![tgt[t]] = granted(@, "granted", role[t])]
              /\ removed' = removed \ {tgt[t]}
              /\ End(t, "none")
              /\ UNCHANGED <<email, domain, tenant>>

JoinByDomain(t) ==
    /\ pc[t] = "write"
    /\ op[t] = "join"
    /\ mayWriteRow(t)
    /\ IF row[tgt[t]].status = "suspended" \/ (~Held(tgt[t]) /\ ~Account(tgt[t]))
         THEN Rollback(t)
         ELSE /\ row' = [row EXCEPT ![tgt[t]] = granted(@, "domain", "member")]
              /\ End(t, "none")
              /\ UNCHANGED <<removed, email, domain, tenant>>

UpsertMembership(t) ==
    /\ pc[t] = "write"
    /\ op[t] = "upsert"
    /\ mayWriteRow(t)
    /\ IF ~Held(tgt[t]) /\ ~Account(tgt[t])
         THEN Rollback(t)
         ELSE /\ row' = [row EXCEPT ![tgt[t]] =
                           [role |-> role[t], source |-> "granted", status |-> "active"]]
              /\ removed' = removed \ {tgt[t]}
              /\ End(t, "none")
              /\ UNCHANGED <<email, domain, tenant>>

\* Migrations 0047 and 0053: the trigger ends the active domain membership of
\* an email that leaves the domain, and waits for a row it would write.
Ends(u, e) ==
    /\ Active(u)
    /\ row[u].source = "domain"
    /\ ~(e = "on" /\ domain # "pending")

UpdateEmail(t) ==
    /\ pc[t] = "write"
    /\ op[t] = "email"
    /\ IF ~Account(tgt[t]) THEN Rollback(t)
       ELSE \E e \in {"on", "off"} :
         /\ email' = [email EXCEPT ![tgt[t]] = e]
         /\ e # email[tgt[t]] /\ Ends(tgt[t], e) => lock[tgt[t]] = Nobody
         /\ row' = IF e # email[tgt[t]] /\ Ends(tgt[t], e)
                     THEN [row EXCEPT ![tgt[t]].status = "inactive"] ELSE row
         /\ End(t, "none")
         /\ UNCHANGED <<removed, domain, tenant>>

\* The account's row goes and its memberships and removal records with it, each
\* waited for.
DeleteUser(t) ==
    /\ pc[t] = "write"
    /\ op[t] = "delete"
    /\ IF ~Account(tgt[t]) THEN Rollback(t)
       ELSE /\ Held(tgt[t]) => lock[tgt[t]] = Nobody
            /\ \A s \in Txns : ~Clears(s, tgt[t])
            /\ row' = [row EXCEPT ![tgt[t]] = NoRow]
            /\ removed' = removed \ {tgt[t]}
            /\ email' = [email EXCEPT ![tgt[t]] = "gone"]
            /\ End(t, "none")
            /\ UNCHANGED <<domain, tenant>>

-----------------------------------------------------------------------------
\* CreateOwnedTenant has made one account the owner.
Init ==
    /\ \E c \in Users :
         /\ row = [u \in Users |-> IF u = c THEN [role |-> "owner", source |-> "granted",
                                                  status |-> "active"]
                                   ELSE NoRow]
         /\ email \in [Users -> {"new", "on", "off"}]
         /\ email[c] # "new"
    /\ removed = {}
    /\ domain = "pending"
    /\ tenant = "claimed"
    /\ adv = [u \in Users |-> Nobody]
    /\ lock = [u \in Users |-> Nobody]
    /\ acct = [u \in Users |-> Nobody]
    /\ door = {}
    /\ pc = [t \in Txns |-> "idle"]
    /\ op = [t \in Txns |-> "none"]
    /\ tgt = [t \in Txns |-> Nobody]
    /\ by = [t \in Txns |-> Nobody]
    /\ role = [t \in Txns |-> "member"]
    /\ after = [t \in Txns |-> "none"]
    /\ want = [t \in Txns |-> {}]
    /\ counted = [t \in Txns |-> {}]
    /\ seen = [t \in Txns |-> "none"]

Request(t) ==
    \/ RemoveTenantMember(t) \/ SuspendTenantMember(t) \/ RestoreTenantMember(t)
    \/ TransferTenantOwnership(t) \/ AcceptTenantInvitation(t) \/ VerifyDomain(t)
    \/ JoinTenantByDomain(t) \/ AdminRecoverTenantOwnership(t) \/ AdminAddTenantAdmin(t)
    \/ ChangeEmail(t) \/ DeleteAccount(t)

Lock(t) ==
    \/ lockMembership(t) \/ clearRemoval(t) \/ lockAccount(t) \/ lockDoor(t)
    \/ lockOwnersAnd(t) \/ lockRow(t)

Store(t) ==
    \/ checkRemoval(t) \/ checkRestore(t) \/ checkTransfer(t)
    \/ RemoveMembership(t) \/ SuspendMembership(t) \/ RestoreMembership(t)
    \/ TransferOwnership(t) \/ GrantMembership(t) \/ JoinByDomain(t)
    \/ UpsertMembership(t) \/ UpdateEmail(t) \/ DeleteUser(t)

Next ==
    \/ SetDomainJoin \/ moveTenant
    \/ \E u \in Users : SignUp(u)
    \/ \E t \in Txns : Request(t) \/ Lock(t) \/ Store(t) \/ Abort(t)

Spec == Init /\ [][Next]_vars

-----------------------------------------------------------------------------
(* Properties.                                                             *)

\* A person an owner or admin removed is out: no membership of theirs
\* exists while the removal record stands, whatever joins, grants, transfers
\* and restores were in flight when RemoveMembership committed.
RemovalStands == \A u \in removed : ~Held(u)

\* A suspension is lifted only by an operator or by another member who is an
\* active owner or admin at that moment: neither an invitation, a join by
\* domain nor an email change lifts it, and no restore authorized before its
\* caller was suspended, demoted or removed.
SuspensionLifted(t, u) ==
    /\ pc[t] = "write"
    /\ tgt[t] = u
    /\ \/ op[t] = "upsert"
       \/ op[t] = "restore" /\ by[t] = Operator
       \/ op[t] = "restore" /\ by[t] \in Admins \ {u}

SuspensionSticks ==
    [][\A u \in Users :
         row[u].status = "suspended" /\ row'[u].status = "active"
            => \E t \in Txns : SuspensionLifted(t, u)]_vars

\* The email's domain never makes anyone an admin or owner, so an email that
\* leaves the domain never takes a governor with it.
DomainNeverGoverns ==
    \A u \in Users : Held(u) /\ row[u].source = "domain" => row[u].role = "member"

\* The owner that lets RemoveMembership or SuspendMembership go ahead is
\* still an owner when it commits, if it held that owner's row when it counted.
CountedOwnerStays ==
    \A t \in Txns : pc[t] = "write" => counted[t] \subseteq Owners

\* A restored domain membership acts only if the email is on the domain when
\* the restore commits, not when it was asked for.
RestoredOnDomain ==
    [][\A u \in Users :
         row[u].status = "suspended" /\ row'[u].status = "active" /\ row'[u].source = "domain"
            => onVerifiedDomain(u)]_vars

\* Whom a transaction waits for.
Waits(t, s) ==
    \/ pc[t] = "adv" /\ adv[tgt[t]] = s
    \/ pc[t] = "account" /\ acct[tgt[t]] = s
       /\ (op[t] = "restore" => row[tgt[t]].status = "suspended")
    \/ pc[t] = "lock" /\ \E u \in First(t) : lock[u] = s
    \/ pc[t] = "write" /\ op[t] = "remove" /\ acct[tgt[t]] = s /\ op[s] = "delete"
    \/ pc[t] = "write" /\ op[t] \in {"grant", "join", "upsert"}
       /\ \/ Held(tgt[t]) /\ lock[tgt[t]] = s
          \/ ~Held(tgt[t]) /\ acct[tgt[t]] = s /\ op[s] = "delete"
    \/ pc[t] = "write" /\ op[t] \in {"email", "delete"} /\ Held(tgt[t]) /\ lock[tgt[t]] = s
    \/ pc[t] = "write" /\ op[t] = "delete" /\ Clears(s, tgt[t])

Stuck(S) == \A t \in S : \E s \in S \ {t} : Waits(t, s)

\* The deletion d of an account and the removal, grant or upsert t of the same
\* person's membership wait for each other: the insert for the account, the
\* cascade for what t holds.
DeletionMeets(d, t) ==
    /\ op[d] = "delete" /\ op[t] \in {"remove", "grant", "upsert"}
    /\ tgt[d] = tgt[t]
    /\ Waits(d, t) /\ Waits(t, d)

\* The order locks are taken in (advisory, account, rows by user_id) leaves one
\* way to deadlock: a removal, a grant or an upsert inserts a row naming an
\* account whose deletion waits for a row it holds.  Every set of transactions
\* in which each waits for another contains two that meet so; without account
\* deletions nobody waits in a circle.
DeadlockOnlyWithDeletion ==
    \A S \in (SUBSET Txns) \ {{}} :
        Stuck(S) => \E d \in S, t \in S : DeletionMeets(d, t)

\* "They queue behind one another and never deadlock [...] A write that also
\* locks an account row takes it before this pass, as an account's deletion does"
\* (lockOwnersAnd): no set of transactions is stuck.
NoDeadlock == \A S \in (SUBSET Txns) \ {{}} : ~Stuck(S)
=============================================================================
