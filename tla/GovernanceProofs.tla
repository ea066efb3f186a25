-------------------------- MODULE GovernanceProofs --------------------------
(***************************************************************************)
(* TenantMembership and AgentGrants for any number of accounts, sessions,  *)
(* agents, grants and requests: who is a member of a tenant, who governs   *)
(* it, and what the grants of agents that rest on such authority can do.   *)
(***************************************************************************)
EXTENDS TenantMembership, AgentGrants, FiniteSetTheorems, WellFoundedInduction, TLAPS

-----------------------------------------------------------------------------
(* TenantMembership: the inductive invariant.                              *)

\* The writes that take the membership's advisory lock, and those that lock rows.
Advised == {"grant", "upsert", "join", "remove", "suspend", "restore"}
Locking == {"remove", "suspend", "restore", "transfer"}

\* Where each kind of transaction can be.
TxnInv ==
    \A t \in Txns :
        /\ pc[t] = "idle" <=> op[t] = "none"
        /\ pc[t] # "idle" => tgt[t] \in Users
        /\ pc[t] = "adv" => op[t] \in Advised
        /\ pc[t] = "clear" => op[t] \in {"grant", "upsert"}
        /\ pc[t] = "account" => op[t] \in {"restore", "email", "delete"}
        /\ pc[t] = "door" => op[t] = "join"
        /\ pc[t] \in {"scan", "lock"} => op[t] \in Locking
        /\ op[t] = "restore" => by[t] # tgt[t]

\* Who holds the advisory lock of a membership has it as its target and is past
\* taking it, and every write of that kind past taking it holds it.
AdvInv ==
    /\ \A u \in Users, t \in Txns :
          adv[u] = t => tgt[t] = u /\ pc[t] # "adv" /\ op[t] \in Advised
    /\ \A t \in Txns : op[t] \in Advised /\ pc[t] # "adv" => adv[tgt[t]] = t

\* The same for the row of the account.
AcctInv ==
    /\ \A u \in Users, t \in Txns :
          acct[u] = t =>
              /\ tgt[t] = u
              /\ \/ op[t] = "restore" /\ pc[t] \in {"scan", "lock", "write"}
                 \/ op[t] \in {"email", "delete"} /\ pc[t] = "write"
    /\ \A t \in Txns : op[t] \in {"email", "delete"} /\ pc[t] = "write" => acct[tgt[t]] = t

\* The email a restore read is still the account's: it holds the account's row.
SeenInv ==
    \A t \in Txns :
        seen[t] # "none" => op[t] = "restore" /\ acct[tgt[t]] = t /\ seen[t] = email[tgt[t]]

\* A locked row exists, and its holder has still to lock only rows behind it.
LockInv ==
    \A u \in Users, t \in Txns :
        lock[u] = t =>
            /\ Held(u)
            /\ pc[t] \in {"lock", "write"}
            /\ op[t] \in Locking
            /\ pc[t] = "lock" => \A v \in want[t] : u < v

\* What the checks of t under its locks establish for its write.
Checked(t) ==
    /\ op[t] \in {"remove", "suspend"} => lock[tgt[t]] = t
    /\ op[t] = "restore" =>
          lock[tgt[t]] = t /\ row[tgt[t]].status = "suspended" /\ mayRestore(t)
    /\ op[t] = "transfer" => Locked(t, by[t]) /\ by[t] \in Owners /\ lock[tgt[t]] = t
    /\ op[t] = "join" => tgt[t] \notin removed

CheckedInv == \A t \in Txns : pc[t] = "write" => Checked(t)

\* The owners that were counted are locked, and owners still.
CountedInv ==
    \A t \in Txns : \A o \in counted[t] : lock[o] = t /\ o \in Owners /\ o # tgt[t]

\* What the rows, removal records and accounts say of each other.
DataInv ==
    /\ RemovalStands
    /\ DomainNeverGoverns
    /\ \A u \in Users : email[u] = "new" => ~Held(u) /\ u \notin removed

ControlInv == TxnInv /\ AdvInv /\ AcctInv

TenantInv ==
    TypeOK /\ ControlInv /\ SeenInv /\ LockInv /\ CheckedInv /\ CountedInv /\ DataInv

LEMMA InitTenantInv == Init => TenantInv
<1> SUFFICES ASSUME Init PROVE TenantInv
  OBVIOUS
<1> USE TenantMembershipAssumption
<1>1. PICK c \in Users :
        /\ row = [u \in Users |-> IF u = c THEN [role |-> "owner", source |-> "granted",
                                                 status |-> "active"]
                                  ELSE NoRow]
        /\ email \in [Users -> {"new", "on", "off"}]
        /\ email[c] # "new"
  BY DEF Init
<1>2. TypeOK
  <2>1. row \in [Users -> Rows]
    BY <1>1 DEF Rows, NoRow, Roles
  <2>2. email \in [Users -> {"new", "on", "off", "gone"}]
    BY <1>1
  <2> QED
    BY <2>1, <2>2 DEF Init, TypeOK, PCs, Ops, Roles
<1>3. ControlInv
  BY DEF Init, ControlInv, TxnInv, AdvInv, AcctInv, Advised
<1>4. SeenInv /\ CheckedInv /\ CountedInv
  BY DEF Init, SeenInv, CheckedInv, Checked, CountedInv
<1>5. LockInv
  BY DEF Init, LockInv
<1>6. DataInv
  BY <1>1 DEF Init, DataInv, RemovalStands, DomainNeverGoverns, Held, NoRow
<1> QED
  BY <1>2, <1>3, <1>4, <1>5, <1>6 DEF TenantInv

-----------------------------------------------------------------------------
(* A transaction begins.                                                   *)

\* The requests: which transaction begins where, and for whom.
Begun(t, o, u, who) ==
    \E r \in Roles, next \in {"grant", "upsert", "none"}, label \in {"adv", "account", "scan"} :
        /\ Begin(t, o, u, who, r, next, label)
        /\ \/ label = "adv" /\ o \in Advised
           \/ label = "account" /\ o \in {"email", "delete"}
           \/ label = "scan" /\ o = "transfer"
        /\ UNCHANGED <<row, removed, email, tenant>>
        /\ domain' \in {"pending", "verified", "open"}

LEMMA RequestBegins ==
  ASSUME TypeOK, NEW t \in Txns, Request(t)
  PROVE  \E o \in Ops, u \in Users, who \in Users \cup {Nobody, Operator} :
            Begun(t, o, u, who) /\ (o = "restore" => who # u)
<1> USE TenantMembershipAssumption
<1>0. domain \in {"pending", "verified", "open"}
  BY DEF TypeOK
<1>1. CASE RemoveTenantMember(t)
  <2>1. PICK u \in Users : Begin(t, "remove", u, Nobody, "member", "none", "adv")
    BY <1>1 DEF RemoveTenantMember
  <2>2. Begun(t, "remove", u, Nobody)
    BY <1>0, <1>1, <2>1 DEF RemoveTenantMember, Begun, data, Advised, Roles
  <2> QED
    BY <2>2 DEF Ops
<1>2. CASE SuspendTenantMember(t)
  <2>1. PICK u \in Users : Begin(t, "suspend", u, Nobody, "member", "none", "adv")
    BY <1>2 DEF SuspendTenantMember
  <2>2. Begun(t, "suspend", u, Nobody)
    BY <1>0, <1>2, <2>1 DEF SuspendTenantMember, Begun, data, Advised, Roles
  <2> QED
    BY <2>2 DEF Ops
<1>3. CASE RestoreTenantMember(t)
  <2>1. PICK u \in Users, c \in Users : c # u /\
          Begin(t, "restore", u, c, "member", "none", "adv")
    BY <1>3 DEF RestoreTenantMember
  <2>2. Begun(t, "restore", u, c)
    BY <1>0, <1>3, <2>1 DEF RestoreTenantMember, Begun, data, Advised, Roles
  <2> QED
    BY <2>1, <2>2 DEF Ops
<1>4. CASE TransferTenantOwnership(t)
  <2>1. PICK from \in Owners, to \in Users :
          Begin(t, "transfer", to, from, "member", "none", "scan")
    BY <1>4 DEF TransferTenantOwnership
  <2>2. Begun(t, "transfer", to, from)
    BY <1>0, <1>4, <2>1 DEF TransferTenantOwnership, Begun, data, Roles
  <2> QED
    BY <2>2 DEF Ops, Owners
<1>5. CASE AcceptTenantInvitation(t)
  <2>1. PICK u \in Users, r \in Roles : Begin(t, "grant", u, Nobody, r, "none", "adv")
    BY <1>5 DEF AcceptTenantInvitation
  <2>2. Begun(t, "grant", u, Nobody)
    BY <1>0, <1>5, <2>1 DEF AcceptTenantInvitation, Begun, data, Advised
  <2> QED
    BY <2>2 DEF Ops
<1>6. CASE VerifyDomain(t)
  <2>1. PICK u \in Users : Begin(t, "grant", u, Nobody, "owner", "none", "adv")
    BY <1>6 DEF VerifyDomain
  <2>2. domain' \in {"pending", "verified", "open"}
    BY <1>0, <1>6 DEF VerifyDomain
  <2>3. Begun(t, "grant", u, Nobody)
    BY <1>6, <2>1, <2>2 DEF VerifyDomain, Begun, Advised, Roles
  <2> QED
    BY <2>3 DEF Ops
<1>7. CASE JoinTenantByDomain(t)
  <2>1. PICK u \in Users : Begin(t, "join", u, Nobody, "member", "none", "adv")
    BY <1>7 DEF JoinTenantByDomain
  <2>2. Begun(t, "join", u, Nobody)
    BY <1>0, <1>7, <2>1 DEF JoinTenantByDomain, Begun, data, Advised, Roles
  <2> QED
    BY <2>2 DEF Ops
<1>8. CASE AdminRecoverTenantOwnership(t)
  <2>1. PICK u \in Users : Begin(t, "restore", u, Operator, "owner", "grant", "adv")
    BY <1>8 DEF AdminRecoverTenantOwnership
  <2>2. Begun(t, "restore", u, Operator)
    BY <1>0, <1>8, <2>1 DEF AdminRecoverTenantOwnership, Begun, data, Advised, Roles
  <2> QED
    BY <2>2 DEF Ops
<1>9. CASE AdminAddTenantAdmin(t)
  <2>1. PICK u \in Users, r \in {"owner", "admin"} :
          Begin(t, "restore", u, Operator, r, "upsert", "adv")
    BY <1>9 DEF AdminAddTenantAdmin
  <2>2. Begun(t, "restore", u, Operator)
    BY <1>0, <1>9, <2>1 DEF AdminAddTenantAdmin, Begun, data, Advised, Roles
  <2> QED
    BY <2>2 DEF Ops
<1>10. CASE ChangeEmail(t)
  <2>1. PICK u \in Users : Begin(t, "email", u, Nobody, "member", "none", "account")
    BY <1>10 DEF ChangeEmail
  <2>2. Begun(t, "email", u, Nobody)
    BY <1>0, <1>10, <2>1 DEF ChangeEmail, Begun, data, Roles
  <2> QED
    BY <2>2 DEF Ops
<1>11. CASE DeleteAccount(t)
  <2>1. PICK u \in Users : Begin(t, "delete", u, Nobody, "member", "none", "account")
    BY <1>11 DEF DeleteAccount
  <2>2. Begun(t, "delete", u, Nobody)
    BY <1>0, <1>11, <2>1 DEF DeleteAccount, Begun, data, Roles
  <2> QED
    BY <2>2 DEF Ops
<1> QED
  BY <1>1, <1>2, <1>3, <1>4, <1>5, <1>6, <1>7, <1>8, <1>9, <1>10, <1>11 DEF Request

LEMMA RequestTenantInv ==
  ASSUME TenantInv, NEW t \in Txns, Request(t)
  PROVE  TenantInv'
<1> USE TenantMembershipAssumption
<1>0. TypeOK
  BY DEF TenantInv
<1>1. PICK o \in Ops, u \in Users, who \in Users \cup {Nobody, Operator} :
        Begun(t, o, u, who) /\ (o = "restore" => who # u)
  BY <1>0, RequestBegins
<1>2. PICK r \in Roles, next \in {"grant", "upsert", "none"}, label \in {"adv", "account", "scan"} :
        /\ Begin(t, o, u, who, r, next, label)
        /\ \/ label = "adv" /\ o \in Advised
           \/ label = "account" /\ o \in {"email", "delete"}
           \/ label = "scan" /\ o = "transfer"
        /\ UNCHANGED <<row, removed, email, tenant>>
        /\ domain' \in {"pending", "verified", "open"}
  BY <1>1 DEF Begun
<1>3. /\ pc[t] = "idle" /\ op[t] = "none"
      /\ pc' = [pc EXCEPT ![t] = label]
      /\ op' = [op EXCEPT ![t] = o]
      /\ tgt' = [tgt EXCEPT ![t] = u]
      /\ by' = [by EXCEPT ![t] = who]
      /\ role' = [role EXCEPT ![t] = r]
      /\ after' = [after EXCEPT ![t] = next]
      /\ UNCHANGED <<adv, lock, acct, door, want, counted, seen>>
  BY <1>2 DEF Begin, Goto, locks, TenantInv, ControlInv, TxnInv
<1>4. TypeOK'
  BY <1>0, <1>2, <1>3 DEF TypeOK, PCs
<1>5. TxnInv' /\ AdvInv' /\ AcctInv'
  <2>1. TxnInv /\ AdvInv /\ AcctInv
    BY DEF TenantInv, ControlInv
  <2>2. \A s \in Txns : s # t => /\ pc'[s] = pc[s] /\ op'[s] = op[s] /\ tgt'[s] = tgt[s]
                                 /\ by'[s] = by[s]
    BY <1>0, <1>3 DEF TypeOK
  <2>3. pc'[t] = label /\ op'[t] = o /\ tgt'[t] = u /\ by'[t] = who
    BY <1>0, <1>3 DEF TypeOK
  <2>4. o # "none"
    BY <1>2 DEF Advised
  <2>5. TxnInv'
    BY <1>1, <1>2, <2>1, <2>2, <2>3, <2>4 DEF TxnInv, Advised, Locking
  <2>6. \A v \in Users : adv[v] # t /\ acct[v] # t
    BY <1>3, <2>1 DEF AdvInv, AcctInv, Advised
  <2>7. AdvInv'
    BY <1>2, <1>3, <2>1, <2>2, <2>3, <2>6 DEF AdvInv, Advised
  <2>8. AcctInv'
    BY <1>2, <1>3, <2>1, <2>2, <2>3, <2>6 DEF AcctInv, Advised
  <2> QED
    BY <2>5, <2>7, <2>8
<1>6. SeenInv'
  BY <1>0, <1>2, <1>3 DEF TenantInv, SeenInv, TypeOK
<1>7. LockInv'
  <2>1. LockInv
    BY DEF TenantInv
  <2> QED
    BY <1>0, <1>2, <1>3, <2>1 DEF LockInv, Held, TypeOK
<1>8. CheckedInv'
  BY <1>0, <1>2, <1>3 DEF TenantInv, CheckedInv, Checked, mayRestore, Locked, Admins, Owners, Active, TypeOK
<1>9. CountedInv'
  <2>1. counted[t] = {}
    <3> SUFFICES ASSUME NEW v \in counted[t] PROVE FALSE
      OBVIOUS
    <3>1. lock[v] = t /\ v \in Users
      BY DEF TenantInv, CountedInv, Owners
    <3> QED
      BY <1>3, <3>1 DEF TenantInv, LockInv
  <2>2. \A s \in Txns : s # t => tgt'[s] = tgt[s]
    BY <1>0, <1>3 DEF TypeOK
  <2>3. Owners' = Owners
    BY <1>2 DEF Owners, Active
  <2> QED
    BY <1>3, <2>1, <2>2, <2>3 DEF TenantInv, CountedInv
<1>10. DataInv'
  BY <1>2 DEF TenantInv, DataInv, RemovalStands, DomainNeverGoverns, Held
<1> QED
  BY <1>4, <1>5, <1>6, <1>7, <1>8, <1>9, <1>10 DEF TenantInv, ControlInv

-----------------------------------------------------------------------------
(* A transaction takes a lock.                                             *)

\* What of the other transactions no step of t changes.
OthersKept(t) ==
    \A s \in Txns : s # t =>
        /\ pc'[s] = pc[s] /\ op'[s] = op[s] /\ tgt'[s] = tgt[s] /\ by'[s] = by[s]
        /\ want'[s] = want[s] /\ counted'[s] = counted[s] /\ seen'[s] = seen[s]

\* The predicates on the tables, when the tables stay as they are.
LEMMA DataKept ==
  ASSUME UNCHANGED <<row, removed, email>>
  PROVE  /\ DataInv => DataInv'
         /\ Owners' = Owners /\ Admins' = Admins
         /\ \A u : Held(u)' <=> Held(u)
  BY DEF DataInv, RemovalStands, DomainNeverGoverns, Held, Owners, Admins, Active

LEMMA LockMembershipTenantInv ==
  ASSUME TenantInv, NEW t \in Txns, lockMembership(t)
  PROVE  TenantInv'
<1> USE TenantMembershipAssumption
<1> DEFINE next == CASE op[t] \in {"grant", "upsert"} -> "clear"
                     [] op[t] = "join" -> "door"
                     [] op[t] = "restore" -> "account"
                     [] OTHER -> "scan"
<1>0. TypeOK /\ TxnInv /\ AdvInv /\ AcctInv /\ SeenInv /\ LockInv /\ CheckedInv /\ CountedInv /\ DataInv
  BY DEF TenantInv, ControlInv
<1>1. /\ pc[t] = "adv" /\ adv[tgt[t]] = Nobody
      /\ adv' = [adv EXCEPT ![tgt[t]] = t]
      /\ pc' = [pc EXCEPT ![t] = next]
      /\ UNCHANGED <<row, removed, email, domain, tenant, lock, acct, door, op, tgt, by, role,
                     after, want, counted, seen>>
  BY DEF lockMembership, Goto, data, params
<1>2. op[t] \in Advised /\ tgt[t] \in Users
  BY <1>0, <1>1 DEF TxnInv
<1>3. next \in {"clear", "door", "account", "scan"}
  BY DEF Advised
<1>4. /\ next = "clear" => op[t] \in {"grant", "upsert"}
      /\ next = "door" => op[t] = "join"
      /\ next = "account" => op[t] = "restore"
      /\ next = "scan" => op[t] \in {"remove", "suspend"}
  BY <1>2 DEF Advised
<1> HIDE DEF next
<1>5. pc'[t] = next /\ \A s \in Txns : s # t => pc'[s] = pc[s]
  BY <1>0, <1>1 DEF TypeOK
<1>6. TypeOK'
  BY <1>0, <1>1, <1>2, <1>3 DEF TypeOK, PCs
<1>7. TxnInv'
  BY <1>0, <1>1, <1>2, <1>3, <1>4, <1>5 DEF TxnInv, Locking
<1>8. AdvInv'
  BY <1>0, <1>1, <1>2, <1>3, <1>5 DEF AdvInv, TxnInv, TypeOK, Advised
<1>9. AcctInv'
  BY <1>0, <1>1, <1>2, <1>3, <1>4, <1>5 DEF AcctInv, Advised
<1>10. SeenInv' /\ CountedInv' /\ DataInv'
  BY <1>0, <1>1, DataKept DEF SeenInv, CountedInv
<1>11. LockInv'
  BY <1>0, <1>1, <1>5, DataKept DEF LockInv
<1>12. CheckedInv'
  BY <1>0, <1>1, <1>3, <1>5 DEF CheckedInv, Checked, mayRestore, Locked, Admins, Owners, Active
<1> QED
  BY <1>6, <1>7, <1>8, <1>9, <1>10, <1>11, <1>12 DEF TenantInv, ControlInv

LEMMA ClearRemovalTenantInv ==
  ASSUME TenantInv, NEW t \in Txns, clearRemoval(t)
  PROVE  TenantInv'
<1>0. TypeOK /\ TxnInv /\ AdvInv /\ AcctInv /\ SeenInv /\ LockInv /\ CheckedInv /\ CountedInv /\ DataInv
  BY DEF TenantInv, ControlInv
<1>1. /\ pc[t] = "clear"
      /\ pc' = [pc EXCEPT ![t] = "write"]
      /\ UNCHANGED <<row, removed, email, domain, tenant, adv, lock, acct, door, op, tgt, by, role,
                     after, want, counted, seen>>
  BY DEF clearRemoval, Goto, data, locks, params
<1>2. op[t] \in {"grant", "upsert"} /\ tgt[t] \in Users
  BY <1>0, <1>1 DEF TxnInv
<1>3. pc'[t] = "write" /\ \A s \in Txns : s # t => pc'[s] = pc[s]
  BY <1>0, <1>1 DEF TypeOK
<1>4. TypeOK'
  BY <1>0, <1>1 DEF TypeOK, PCs
<1>5. TxnInv' /\ AdvInv'
  BY <1>0, <1>1, <1>2, <1>3 DEF TxnInv, AdvInv, Advised
<1>6. AcctInv'
  BY <1>0, <1>1, <1>2, <1>3 DEF AcctInv
<1>7. SeenInv' /\ CountedInv' /\ DataInv'
  BY <1>0, <1>1, DataKept DEF SeenInv, CountedInv
<1>8. LockInv'
  BY <1>0, <1>1, <1>3, DataKept DEF LockInv
<1>9. CheckedInv'
  BY <1>0, <1>1, <1>2, <1>3 DEF CheckedInv, Checked, mayRestore, Locked, Admins, Owners, Active
<1> QED
  BY <1>4, <1>5, <1>6, <1>7, <1>8, <1>9 DEF TenantInv, ControlInv

LEMMA LockAccountTenantInv ==
  ASSUME TenantInv, NEW t \in Txns, lockAccount(t)
  PROVE  TenantInv'
<1> USE TenantMembershipAssumption
<1> DEFINE next == IF op[t] = "restore" THEN "scan" ELSE "write"
<1>0. TypeOK /\ TxnInv /\ AdvInv /\ AcctInv /\ SeenInv /\ LockInv /\ CheckedInv /\ CountedInv /\ DataInv
  BY DEF TenantInv, ControlInv
<1>1. /\ pc[t] = "account"
      /\ pc' = [pc EXCEPT ![t] = next]
      /\ UNCHANGED <<row, removed, email, domain, tenant, adv, lock, door, op, tgt, by, role,
                     after, want, counted>>
  BY DEF lockAccount, Goto, data, params
<1>2. tgt[t] \in Users /\ op[t] \in {"restore", "email", "delete"}
  BY <1>0, <1>1 DEF TxnInv
<1>3. pc'[t] = next /\ \A s \in Txns : s # t => pc'[s] = pc[s]
  BY <1>0, <1>1 DEF TypeOK
<1>4. \/ op[t] = "restore" /\ acct' = acct /\ seen' = seen
      \/ /\ op[t] = "restore" => row[tgt[t]].status = "suspended"
         /\ acct[tgt[t]] = Nobody
         /\ acct' = [acct EXCEPT ![tgt[t]] = t]
         /\ seen' = [seen EXCEPT ![t] = IF op[t] = "restore" THEN email[tgt[t]] ELSE @]
  BY DEF lockAccount
<1>5. op[t] = "restore" /\ row[tgt[t]].status = "suspended" => email[tgt[t]] \in {"on", "off", "gone"}
  BY <1>0, <1>2 DEF DataInv, Held, TypeOK
<1>6. acct' \in [Users -> Txns \cup {Nobody}] /\ seen' \in [Txns -> {"on", "off", "gone", "none"}]
  BY <1>0, <1>2, <1>4, <1>5 DEF TypeOK
<1>7. TypeOK'
  BY <1>0, <1>1, <1>6 DEF TypeOK, PCs
<1>8. TxnInv'
  BY <1>0, <1>1, <1>2, <1>3 DEF TxnInv, Locking
<1>9. AdvInv'
  BY <1>0, <1>1, <1>2, <1>3 DEF AdvInv, Advised
<1>10. \/ op[t] = "restore" /\ acct' = acct /\ seen' = seen
       \/ /\ acct[tgt[t]] = Nobody
          /\ acct'[tgt[t]] = t
          /\ \A u \in Users : u # tgt[t] => acct'[u] = acct[u]
          /\ \A s \in Txns : s # t => seen'[s] = seen[s]
          /\ seen'[t] = IF op[t] = "restore" THEN email[tgt[t]] ELSE seen[t]
  BY <1>0, <1>2, <1>4 DEF TypeOK
<1>11. \A u \in Users, s \in Txns : acct[u] = s => acct'[u] = s
  BY <1>10
<1>16. AcctInv'
  <2>1. \A u \in Users, s \in Txns : acct'[u] = s => acct[u] = s \/ (u = tgt[t] /\ s = t)
    BY <1>10
  <2>2. op[t] \in {"email", "delete"} => acct'[tgt[t]] = t
    BY <1>10
  <2>3. ASSUME NEW u \in Users, NEW s \in Txns, acct'[u] = s
        PROVE  /\ tgt[s] = u
               /\ \/ op[s] = "restore" /\ pc'[s] \in {"scan", "lock", "write"}
                  \/ op[s] \in {"email", "delete"} /\ pc'[s] = "write"
    <3>1. CASE s = t
      BY <1>0, <1>1, <1>2, <1>3, <2>1, <2>3, <3>1 DEF AcctInv
    <3>2. CASE s # t
      BY <1>0, <1>3, <2>1, <2>3, <3>2 DEF AcctInv
    <3> QED
      BY <3>1, <3>2
  <2>4. ASSUME NEW s \in Txns, op[s] \in {"email", "delete"}, pc'[s] = "write"
        PROVE  acct'[tgt[s]] = s
    <3>1. CASE s = t
      BY <2>2, <2>4, <3>1
    <3>2. CASE s # t
      <4>1. pc[s] = "write"
        BY <1>3, <2>4, <3>2
      <4>2. tgt[s] \in Users
        BY <1>0, <4>1 DEF TxnInv
      <4>3. acct[tgt[s]] = s
        BY <1>0, <2>4, <4>1 DEF AcctInv
      <4> QED
        BY <1>11, <4>2, <4>3
    <3> QED
      BY <3>1, <3>2
  <2> QED
    BY <1>1, <2>3, <2>4 DEF AcctInv
<1>15. SeenInv'
  <2>1. seen[t] = "none"
    BY <1>0, <1>1, <1>2 DEF SeenInv, AcctInv
  <2>2. ASSUME NEW s \in Txns, seen[s] # "none" PROVE acct'[tgt[s]] = s
    <3>1. tgt[s] \in Users
      BY <1>0, <2>2 DEF SeenInv, TxnInv
    <3> QED
      BY <1>0, <1>11, <2>2, <3>1 DEF SeenInv
  <2> QED
    BY <1>0, <1>1, <1>10, <2>1, <2>2 DEF SeenInv
<1>12. CountedInv' /\ DataInv'
  BY <1>0, <1>1, DataKept DEF CountedInv
<1>13. LockInv'
  BY <1>0, <1>1, <1>3, DataKept DEF LockInv
<1>14. CheckedInv'
  BY <1>0, <1>1, <1>2, <1>3 DEF CheckedInv, Checked, mayRestore, Locked, Admins, Owners, Active
<1> QED
  BY <1>7, <1>8, <1>9, <1>16, <1>12, <1>13, <1>14, <1>15 DEF TenantInv, ControlInv

LEMMA LockOwnersAndTenantInv ==
  ASSUME TenantInv, NEW t \in Txns, lockOwnersAnd(t)
  PROVE  TenantInv'
<1> USE TenantMembershipAssumption
<1>0. TypeOK /\ TxnInv /\ AdvInv /\ AcctInv /\ SeenInv /\ LockInv /\ CheckedInv /\ CountedInv /\ DataInv
  BY DEF TenantInv, ControlInv
<1>1. /\ pc[t] = "scan"
      /\ pc' = [pc EXCEPT ![t] = "lock"]
      /\ UNCHANGED <<row, removed, email, domain, tenant, adv, lock, acct, door, op, tgt, by, role,
                     after, counted, seen>>
  BY DEF lockOwnersAnd, Goto, data, params, locks
<1>2. want' \in [Txns -> SUBSET Users] /\ \A s \in Txns : s # t => want'[s] = want[s]
  BY <1>0 DEF lockOwnersAnd, TypeOK
<1>3. pc'[t] = "lock" /\ \A s \in Txns : s # t => pc'[s] = pc[s]
  BY <1>0, <1>1 DEF TypeOK
<1>4. TypeOK'
  BY <1>0, <1>1, <1>2 DEF TypeOK, PCs
<1>5. TxnInv'
  BY <1>0, <1>1, <1>3 DEF TxnInv
<1>6. AdvInv' /\ AcctInv'
  BY <1>0, <1>1, <1>3 DEF AdvInv, AcctInv
<1>7. SeenInv' /\ CountedInv' /\ DataInv'
  BY <1>0, <1>1, DataKept DEF SeenInv, CountedInv
<1>8. LockInv'
  BY <1>0, <1>1, <1>2, <1>3, DataKept DEF LockInv
<1>9. CheckedInv'
  BY <1>0, <1>1, <1>3 DEF CheckedInv, Checked, mayRestore, Locked, Admins, Owners, Active
<1> QED
  BY <1>4, <1>5, <1>6, <1>7, <1>8, <1>9 DEF TenantInv, ControlInv

LEMMA LockRowTenantInv ==
  ASSUME TenantInv, NEW t \in Txns, lockRow(t)
  PROVE  TenantInv'
<1> USE TenantMembershipAssumption
<1>0. TypeOK /\ TxnInv /\ AdvInv /\ AcctInv /\ SeenInv /\ LockInv /\ CheckedInv /\ CountedInv /\ DataInv
  BY DEF TenantInv, ControlInv
<1>1. /\ pc[t] = "lock"
      /\ UNCHANGED <<row, removed, email, domain, tenant, adv, acct, door, pc, op, tgt, by, role,
                     after, counted, seen>>
  BY DEF lockRow, data, params
<1>2. PICK u \in First(t) :
        /\ lock[u] = Nobody
        /\ lock' = IF Held(u) THEN [lock EXCEPT ![u] = t] ELSE lock
        /\ want' = [want EXCEPT ![t] = @ \ {u}]
  BY DEF lockRow
<1>3. u \in Users /\ \A v \in want[t] : u <= v
  BY <1>0 DEF First, TypeOK
<1>4. /\ \A v \in Users : lock'[v] = lock[v] \/ (v = u /\ lock'[v] = t /\ Held(u))
      /\ \A s \in Txns : s # t => want'[s] = want[s]
      /\ want'[t] = want[t] \ {u}
      /\ lock' \in [Users -> Txns \cup {Nobody}]
      /\ want' \in [Txns -> SUBSET Users]
  BY <1>0, <1>2, <1>3 DEF TypeOK
<1>5. TypeOK'
  BY <1>0, <1>1, <1>4 DEF TypeOK
<1>6. TxnInv' /\ AdvInv' /\ AcctInv' /\ SeenInv' /\ DataInv'
  BY <1>0, <1>1, DataKept DEF TxnInv, AdvInv, AcctInv, SeenInv
<1>7. \A v \in Users, s \in Txns : lock[v] = s => lock'[v] = s
  BY <1>2, <1>4
<1>8. CountedInv'
  BY <1>0, <1>1, <1>7, DataKept DEF CountedInv, TypeOK
<1>9. LockInv'
  <2> SUFFICES ASSUME NEW v \in Users, NEW s \in Txns, lock'[v] = s
               PROVE  /\ Held(v)' /\ pc[s] \in {"lock", "write"} /\ op[s] \in Locking
                      /\ pc[s] = "lock" => \A x \in want'[s] : v < x
    BY <1>1 DEF LockInv
  <2>1. CASE lock[v] = s
    BY <1>0, <1>1, <1>4, <2>1, DataKept DEF LockInv
  <2>2. CASE v = u /\ s = t /\ Held(u)
    <3>1. \A x \in want'[t] : u < x
      BY <1>0, <1>3, <1>4 DEF TypeOK
    <3> QED
      BY <1>0, <1>1, <2>2, <3>1, DataKept DEF TxnInv
  <2> QED
    BY <1>4, <2>1, <2>2
<1>10. CheckedInv'
  <2> SUFFICES ASSUME NEW s \in Txns, pc[s] = "write"
               PROVE  /\ op[s] \in {"remove", "suspend"} => lock'[tgt[s]] = s
                      /\ op[s] = "restore" =>
                            lock'[tgt[s]] = s /\ row[tgt[s]].status = "suspended" /\ mayRestore(s)'
                      /\ op[s] = "transfer" =>
                            Locked(s, by[s])' /\ by[s] \in Owners /\ lock'[tgt[s]] = s
                      /\ op[s] = "join" => tgt[s] \notin removed
    BY <1>1, DataKept DEF CheckedInv, Checked
  <2>1. \A x : Locked(s, x) => Locked(s, x)'
    BY <1>7 DEF Locked
  <2>2. mayRestore(s) => mayRestore(s)'
    BY <1>1, <2>1, DataKept DEF mayRestore
  <2>3. tgt[s] \in Users
    BY <1>0 DEF TxnInv
  <2> QED
    BY <1>0, <1>1, <1>7, <2>1, <2>2, <2>3 DEF CheckedInv, Checked
<1> QED
  BY <1>5, <1>6, <1>8, <1>9, <1>10 DEF TenantInv, ControlInv

-----------------------------------------------------------------------------
(* A transaction ends.                                                     *)

\* What the last step of t may do to the tables: it leaves alone the rows and
\* accounts others have locked, and records a removal only under its own
\* advisory lock.
Written(t) ==
    /\ row' \in [Users -> Rows]
    /\ removed' \in SUBSET Users
    /\ email' \in [Users -> {"new", "on", "off", "gone"}]
    /\ UNCHANGED <<domain, tenant>>
    /\ \A u \in Users : lock[u] \in Txns \ {t} => row'[u] = row[u]
    /\ \A u \in Users : acct[u] \in Txns \ {t} => email'[u] = email[u]
    /\ \A u \in removed' : u \in removed \/ adv[u] = t
    /\ DataInv'

LEMMA EndTenantInv ==
  ASSUME TenantInv, NEW t \in Txns, NEW next \in {"grant", "upsert", "none"},
         pc[t] # "idle", End(t, next), Written(t)
  PROVE  TenantInv'
<1> USE TenantMembershipAssumption
<1>0. TypeOK /\ TxnInv /\ AdvInv /\ AcctInv /\ SeenInv /\ LockInv /\ CheckedInv /\ CountedInv /\ DataInv
  BY DEF TenantInv, ControlInv
<1>1. TypeOK'
  <2>1. /\ adv' \in [Users -> Txns \cup {Nobody}]
        /\ lock' \in [Users -> Txns \cup {Nobody}]
        /\ acct' \in [Users -> Txns \cup {Nobody}]
        /\ door' \in SUBSET Txns
    BY <1>0 DEF End, Released, TypeOK
  <2>2. /\ pc' \in [Txns -> PCs]
        /\ op' \in [Txns -> Ops]
        /\ tgt' \in [Txns -> Users \cup {Nobody}]
        /\ by' \in [Txns -> Users \cup {Nobody, Operator}]
    BY <1>0 DEF End, Goto, TypeOK, PCs, Ops
  <2>3. /\ role' \in [Txns -> Roles]
        /\ after' \in [Txns -> {"grant", "upsert", "none"}]
        /\ want' \in [Txns -> SUBSET Users]
        /\ counted' \in [Txns -> SUBSET Users]
        /\ seen' \in [Txns -> {"on", "off", "gone", "none"}]
    BY <1>0 DEF End, TypeOK, Roles
  <2> QED
    BY <1>0, <2>1, <2>2, <2>3 DEF Written, TypeOK
<1>2. \A u \in Users : /\ adv'[u] = IF adv[u] = t THEN Nobody ELSE adv[u]
                       /\ lock'[u] = IF lock[u] = t THEN Nobody ELSE lock[u]
                       /\ acct'[u] = IF acct[u] = t THEN Nobody ELSE acct[u]
  BY DEF End, Released
<1>3. /\ pc'[t] = IF next = "none" THEN "idle" ELSE "adv"
      /\ op'[t] = next
      /\ next # "none" => tgt'[t] = tgt[t]
      /\ counted'[t] = {}
      /\ seen'[t] = "none"
  BY <1>0 DEF End, Goto, TypeOK
<1>4. OthersKept(t)
  BY <1>0 DEF End, Goto, OthersKept, TypeOK
<1>5. TxnInv'
  BY <1>0, <1>3, <1>4 DEF TxnInv, OthersKept, Advised
<1>6. \A u \in Users, s \in Txns :
        /\ adv'[u] = s => adv[u] = s /\ s # t
        /\ lock'[u] = s => lock[u] = s /\ s # t
        /\ acct'[u] = s => acct[u] = s /\ s # t
        /\ adv[u] = s /\ s # t => adv'[u] = s
        /\ lock[u] = s /\ s # t => lock'[u] = s
        /\ acct[u] = s /\ s # t => acct'[u] = s
  BY <1>2
<1>7. \A s \in Txns : s # t /\ op[s] # "none" => tgt[s] \in Users
  BY <1>0 DEF TxnInv
<1>8. AdvInv'
  <2>1. ASSUME NEW u \in Users, NEW s \in Txns, adv'[u] = s
        PROVE  tgt'[s] = u /\ pc'[s] # "adv" /\ op'[s] \in Advised
    BY <1>0, <1>4, <1>6, <2>1 DEF AdvInv, OthersKept
  <2>2. ASSUME NEW s \in Txns, op'[s] \in Advised, pc'[s] # "adv"
        PROVE  adv'[tgt'[s]] = s
    <3>1. s # t
      BY <1>3, <2>2 DEF Advised
    <3>2. op[s] \in Advised /\ pc[s] # "adv" /\ tgt'[s] = tgt[s]
      BY <1>4, <2>2, <3>1 DEF OthersKept
    <3>3. tgt[s] \in Users
      BY <1>7, <3>1, <3>2 DEF Advised
    <3>4. adv[tgt[s]] = s
      BY <1>0, <3>2 DEF AdvInv
    <3> QED
      BY <1>6, <3>1, <3>2, <3>3, <3>4
  <2> QED
    BY <2>1, <2>2 DEF AdvInv
<1>9. AcctInv'
  <2>1. ASSUME NEW u \in Users, NEW s \in Txns, acct'[u] = s
        PROVE  /\ tgt'[s] = u
               /\ \/ op'[s] = "restore" /\ pc'[s] \in {"scan", "lock", "write"}
                  \/ op'[s] \in {"email", "delete"} /\ pc'[s] = "write"
    BY <1>0, <1>4, <1>6, <2>1 DEF AcctInv, OthersKept
  <2>2. ASSUME NEW s \in Txns, op'[s] \in {"email", "delete"}, pc'[s] = "write"
        PROVE  acct'[tgt'[s]] = s
    <3>1. s # t
      BY <1>3, <2>2
    <3>2. op[s] \in {"email", "delete"} /\ pc[s] = "write" /\ tgt'[s] = tgt[s]
      BY <1>4, <2>2, <3>1 DEF OthersKept
    <3>3. tgt[s] \in Users
      BY <1>7, <3>1, <3>2
    <3>4. acct[tgt[s]] = s
      BY <1>0, <3>2 DEF AcctInv
    <3>5. acct'[tgt[s]] = s
      BY <1>6, <3>1, <3>3, <3>4
    <3> QED
      BY <3>2, <3>5
  <2> QED
    BY <2>1, <2>2 DEF AcctInv
<1>10. SeenInv'
  <2> SUFFICES ASSUME NEW s \in Txns, seen'[s] # "none"
               PROVE  op'[s] = "restore" /\ acct'[tgt'[s]] = s /\ seen'[s] = email'[tgt'[s]]
    BY DEF SeenInv
  <2>1. s # t
    BY <1>3
  <2>2. op'[s] = op[s] /\ tgt'[s] = tgt[s] /\ seen'[s] = seen[s]
    BY <1>4, <2>1 DEF OthersKept
  <2>3. op[s] = "restore" /\ acct[tgt[s]] = s /\ seen[s] = email[tgt[s]]
    BY <1>0, <2>2 DEF SeenInv
  <2>4. tgt[s] \in Users
    BY <1>7, <2>1, <2>3
  <2> QED
    <3>1. acct'[tgt[s]] = s
      BY <1>6, <2>1, <2>3, <2>4
    <3>2. email'[tgt[s]] = email[tgt[s]]
      BY <2>1, <2>3, <2>4 DEF Written
    <3> QED
      BY <2>2, <2>3, <3>1, <3>2
<1>11. ASSUME NEW u \in Users, NEW s \in Txns, s # t, lock[u] = s
       PROVE  lock'[u] = s /\ row'[u] = row[u]
  BY <1>6, <1>11 DEF Written
<1>12. LockInv'
  <2> SUFFICES ASSUME NEW u \in Users, NEW s \in Txns, lock'[u] = s
               PROVE  /\ Held(u)'
                      /\ pc'[s] \in {"lock", "write"}
                      /\ op'[s] \in Locking
                      /\ pc'[s] = "lock" => \A v \in want'[s] : u < v
    BY DEF LockInv
  <2>1. lock[u] = s /\ s # t
    BY <1>6
  <2>2. pc'[s] = pc[s] /\ op'[s] = op[s] /\ want'[s] = want[s]
    BY <1>4, <2>1 DEF OthersKept
  <2>3. row'[u] = row[u]
    BY <1>11, <2>1
  <2> QED
    BY <1>0, <2>1, <2>2, <2>3 DEF LockInv, Held
<1>13. CountedInv'
  <2> SUFFICES ASSUME NEW s \in Txns, NEW o \in counted'[s]
               PROVE  lock'[o] = s /\ o \in Owners' /\ o # tgt'[s]
    BY DEF CountedInv
  <2>1. s # t /\ o \in counted[s] /\ tgt'[s] = tgt[s]
    BY <1>3, <1>4 DEF OthersKept
  <2>2. lock[o] = s /\ o \in Owners /\ o # tgt[s]
    BY <1>0, <2>1 DEF CountedInv
  <2> QED
    BY <1>11, <2>1, <2>2 DEF Owners, Active
<1>14. CheckedInv'
  <2> SUFFICES ASSUME NEW s \in Txns, pc'[s] = "write"
               PROVE  /\ op'[s] \in {"remove", "suspend"} => lock'[tgt'[s]] = s
                      /\ op'[s] = "restore" =>
                           lock'[tgt'[s]] = s /\ row'[tgt'[s]].status = "suspended" /\ mayRestore(s)'
                      /\ op'[s] = "transfer" =>
                           Locked(s, by[s])' /\ by'[s] \in Owners' /\ lock'[tgt'[s]] = s
                      /\ op'[s] = "join" => tgt'[s] \notin removed'
    BY DEF CheckedInv, Checked
  <2>1. s # t
    BY <1>3
  <2>2. pc[s] = "write" /\ op'[s] = op[s] /\ tgt'[s] = tgt[s] /\ by'[s] = by[s]
    BY <1>4, <2>1 DEF OthersKept
  <2>3. tgt[s] \in Users
    BY <1>0, <2>2 DEF TxnInv
  <2>4. op[s] \in {"remove", "suspend"} => lock'[tgt[s]] = s
    BY <1>0, <1>11, <2>1, <2>2, <2>3 DEF CheckedInv, Checked
  <2>5. ASSUME op[s] = "restore"
        PROVE  lock'[tgt[s]] = s /\ row'[tgt[s]].status = "suspended" /\ mayRestore(s)'
    <3>1. lock[tgt[s]] = s /\ row[tgt[s]].status = "suspended" /\ mayRestore(s)
      BY <1>0, <2>2, <2>5 DEF CheckedInv, Checked
    <3>2. mayRestore(s)'
      BY <1>11, <2>1, <2>2, <3>1 DEF mayRestore, Locked, Admins, Active
    <3> QED
      BY <1>11, <2>1, <2>3, <3>1, <3>2
  <2>6. ASSUME op[s] = "transfer"
        PROVE  Locked(s, by[s])' /\ by[s] \in Owners' /\ lock'[tgt[s]] = s
    <3>1. Locked(s, by[s]) /\ by[s] \in Owners /\ lock[tgt[s]] = s
      BY <1>0, <2>2, <2>6 DEF CheckedInv, Checked
    <3>2. lock'[by[s]] = s /\ row'[by[s]] = row[by[s]] /\ by[s] \in Users
      BY <1>11, <2>1, <3>1 DEF Locked
    <3>3. by[s] \in Owners'
      BY <3>1, <3>2 DEF Owners, Active
    <3>4. lock'[tgt[s]] = s
      BY <1>11, <2>1, <2>3, <3>1
    <3> QED
      BY <2>2, <3>2, <3>3, <3>4 DEF Locked
  <2>7. ASSUME op[s] = "join" PROVE tgt[s] \notin removed'
    <3>1. tgt[s] \notin removed
      BY <1>0, <2>2, <2>7 DEF CheckedInv, Checked
    <3>2. adv[tgt[s]] = s
      BY <1>0, <2>2, <2>7 DEF AdvInv, Advised
    <3> QED
      BY <2>1, <3>1, <3>2 DEF Written
  <2> QED
    BY <2>2, <2>4, <2>5, <2>6, <2>7
<1> QED
  BY <1>1, <1>5, <1>8, <1>9, <1>10, <1>12, <1>13, <1>14 DEF TenantInv, ControlInv, Written

LEMMA RollbackTenantInv ==
  ASSUME TenantInv, NEW t \in Txns, pc[t] # "idle",
         NEW next \in {"grant", "upsert", "none"}, End(t, next), UNCHANGED data
  PROVE  TenantInv'
<1>1. Written(t)
  BY DataKept DEF Written, TenantInv, TypeOK, data
<1> QED
  BY <1>1, EndTenantInv

-----------------------------------------------------------------------------
(* A transaction checks what it locked.                                    *)

LEMMA CheckTenantInv ==
  ASSUME TenantInv, NEW t \in Txns, pc[t] \in {"lock", "door"}, Checked(t), Goto(t, "write"),
         door' \in SUBSET Txns, counted' \in [Txns -> SUBSET Users], CountedInv',
         UNCHANGED <<data, adv, lock, acct, params, want, seen>>
  PROVE  TenantInv'
<1>0. TypeOK /\ TxnInv /\ AdvInv /\ AcctInv /\ SeenInv /\ LockInv /\ CheckedInv /\ CountedInv /\ DataInv
  BY DEF TenantInv, ControlInv
<1>1. /\ pc' = [pc EXCEPT ![t] = "write"]
      /\ UNCHANGED <<row, removed, email, domain, tenant, adv, lock, acct, op, tgt, by, role,
                     after, want, seen>>
  BY DEF Goto, data, params
<1>2. pc'[t] = "write" /\ \A s \in Txns : s # t => pc'[s] = pc[s]
  BY <1>0, <1>1 DEF TypeOK
<1>3. TypeOK'
  BY <1>0, <1>1 DEF TypeOK, PCs
<1>4. TxnInv'
  BY <1>0, <1>1, <1>2 DEF TxnInv
<1>5. op[t] \in {"remove", "suspend", "restore", "transfer", "join"}
  BY <1>0 DEF TxnInv, Locking
<1>6. AdvInv'
  BY <1>0, <1>1, <1>2 DEF AdvInv
<1>7. AcctInv'
  BY <1>0, <1>1, <1>2, <1>5 DEF AcctInv
<1>8. SeenInv' /\ DataInv'
  BY <1>0, <1>1, DataKept DEF SeenInv
<1>9. LockInv'
  BY <1>0, <1>1, <1>2, DataKept DEF LockInv
<1>10. ASSUME NEW s \in Txns, pc'[s] = "write" PROVE Checked(s)
  BY <1>0, <1>2, <1>10 DEF CheckedInv, Checked
<1>11. \A s \in Txns : Checked(s)' <=> Checked(s)
  BY <1>1 DEF Checked, mayRestore, Locked, Owners, Admins, Active
<1>12. CheckedInv'
  BY <1>10, <1>11 DEF CheckedInv, Checked
<1> QED
  BY <1>3, <1>4, <1>6, <1>7, <1>8, <1>9, <1>12 DEF TenantInv, ControlInv

LEMMA LockDoorTenantInv ==
  ASSUME TenantInv, NEW t \in Txns, lockDoor(t)
  PROVE  TenantInv'
<1>0. TypeOK /\ TxnInv /\ CountedInv
  BY DEF TenantInv, ControlInv
<1>1. CASE domain = "open" /\ tenant = "claimed" /\ tgt[t] \notin removed
  <2>1. /\ pc[t] = "door" /\ door' = door \cup {t} /\ Goto(t, "write")
        /\ UNCHANGED <<data, adv, lock, acct, params, want, counted, seen>>
    BY <1>1 DEF lockDoor
  <2>2. Checked(t)
    BY <1>0, <1>1, <2>1 DEF Checked, TxnInv
  <2>3. counted' \in [Txns -> SUBSET Users] /\ door' \in SUBSET Txns
    BY <1>0, <2>1 DEF TypeOK
  <2>4. CountedInv'
    BY <1>0, <2>1 DEF CountedInv, Owners, Active, data, params
  <2> QED
    BY <2>1, <2>2, <2>3, <2>4, CheckTenantInv
<1>2. CASE ~(domain = "open" /\ tenant = "claimed" /\ tgt[t] \notin removed)
  BY <1>2, RollbackTenantInv DEF lockDoor, Rollback
<1> QED
  BY <1>1, <1>2

LEMMA CheckRemovalTenantInv ==
  ASSUME TenantInv, NEW t \in Txns, checkRemoval(t)
  PROVE  TenantInv'
<1>0. TypeOK /\ TxnInv /\ CountedInv
  BY DEF TenantInv, ControlInv
<1>1. pc[t] = "lock" /\ op[t] \in {"remove", "suspend"}
  BY DEF checkRemoval, lockedAll
<1>2. CASE Locked(t, tgt[t]) /\ (op[t] = "suspend" => Active(tgt[t])) /\ keepAnOwner(tgt[t])
  <2>1. /\ Goto(t, "write")
        /\ counted' = [counted EXCEPT ![t] = {o \in Owners \ {tgt[t]} : lock[o] = t}]
        /\ UNCHANGED <<data, locks, params, want, seen>>
    BY <1>2 DEF checkRemoval
  <2>2. UNCHANGED <<adv, lock, acct, door>>
    BY <2>1 DEF locks
  <2>3. Checked(t)
    BY <1>1, <1>2 DEF Checked, Locked
  <2>4. counted' \in [Txns -> SUBSET Users] /\ door' \in SUBSET Txns
    BY <1>0, <2>1, <2>2 DEF TypeOK, Owners
  <2>5. CountedInv'
    <3>1. /\ counted'[t] = {o \in Owners \ {tgt[t]} : lock[o] = t}
          /\ \A s \in Txns : s # t => counted'[s] = counted[s]
      BY <1>0, <2>1 DEF TypeOK
    <3>2. Owners' = Owners /\ tgt' = tgt
      BY <2>1 DEF Owners, Active, data, params
    <3> QED
      BY <1>0, <2>2, <3>1, <3>2 DEF CountedInv
  <2> QED
    BY <1>1, <2>1, <2>2, <2>3, <2>4, <2>5, CheckTenantInv
<1>3. CASE ~(Locked(t, tgt[t]) /\ (op[t] = "suspend" => Active(tgt[t])) /\ keepAnOwner(tgt[t]))
  BY <1>1, <1>3, RollbackTenantInv DEF checkRemoval, Rollback
<1> QED
  BY <1>2, <1>3

LEMMA CheckRestoreTenantInv ==
  ASSUME TenantInv, NEW t \in Txns, checkRestore(t)
  PROVE  TenantInv'
<1>0. TypeOK /\ TxnInv /\ CountedInv
  BY DEF TenantInv, ControlInv
<1>1. pc[t] = "lock" /\ op[t] = "restore" /\ after[t] \in {"grant", "upsert", "none"}
  BY <1>0 DEF checkRestore, lockedAll, TypeOK
<1>2. CASE ~mayRestore(t)
  BY <1>1, <1>2, RollbackTenantInv DEF checkRestore, Rollback
<1>3. CASE mayRestore(t) /\ Locked(t, tgt[t]) /\ row[tgt[t]].status = "suspended"
  <2>1. Goto(t, "write") /\ UNCHANGED <<data, locks, params, want, counted, seen>>
    BY <1>3 DEF checkRestore
  <2>2. UNCHANGED <<adv, lock, acct, door>>
    BY <2>1 DEF locks
  <2>3. Checked(t)
    BY <1>1, <1>3 DEF Checked, Locked
  <2>4. counted' \in [Txns -> SUBSET Users] /\ door' \in SUBSET Txns
    BY <1>0, <2>1, <2>2 DEF TypeOK
  <2>5. CountedInv'
    BY <1>0, <2>1, <2>2 DEF CountedInv, Owners, Active, data, params
  <2> QED
    BY <1>1, <2>1, <2>2, <2>3, <2>4, <2>5, CheckTenantInv
<1>4. CASE mayRestore(t) /\ ~(Locked(t, tgt[t]) /\ row[tgt[t]].status = "suspended")
  BY <1>1, <1>4, RollbackTenantInv DEF checkRestore
<1> QED
  BY <1>2, <1>3, <1>4

LEMMA CheckTransferTenantInv ==
  ASSUME TenantInv, NEW t \in Txns, checkTransfer(t)
  PROVE  TenantInv'
<1>0. TypeOK /\ TxnInv /\ CountedInv
  BY DEF TenantInv, ControlInv
<1>1. pc[t] = "lock" /\ op[t] = "transfer"
  BY DEF checkTransfer, lockedAll
<1>2. CASE Locked(t, by[t]) /\ by[t] \in Owners /\ Locked(t, tgt[t]) /\ Active(tgt[t])
  <2>1. Goto(t, "write") /\ UNCHANGED <<data, locks, params, want, counted, seen>>
    BY <1>2 DEF checkTransfer
  <2>2. UNCHANGED <<adv, lock, acct, door>>
    BY <2>1 DEF locks
  <2>3. Checked(t)
    BY <1>1, <1>2 DEF Checked, Locked
  <2>4. counted' \in [Txns -> SUBSET Users] /\ door' \in SUBSET Txns
    BY <1>0, <2>1, <2>2 DEF TypeOK
  <2>5. CountedInv'
    BY <1>0, <2>1, <2>2 DEF CountedInv, Owners, Active, data, params
  <2> QED
    BY <1>1, <2>1, <2>2, <2>3, <2>4, <2>5, CheckTenantInv
<1>3. CASE ~(Locked(t, by[t]) /\ by[t] \in Owners /\ Locked(t, tgt[t]) /\ Active(tgt[t]))
  BY <1>1, <1>3, RollbackTenantInv DEF checkTransfer, Rollback
<1> QED
  BY <1>2, <1>3

-----------------------------------------------------------------------------
(* A transaction writes.                                                   *)

\* A write of one row that nobody else has locked.
LEMMA WriteRow ==
  ASSUME TenantInv, NEW t \in Txns, NEW u \in Users, NEW m \in Rows,
         row' = [row EXCEPT ![u] = m],
         lock[u] \notin Txns \ {t},
         UNCHANGED <<email, domain, tenant>>,
         removed' \in SUBSET Users,
         \A v \in Users : v # u => (v \in removed' <=> v \in removed),
         u \in removed' => m.status = "none" /\ (u \in removed \/ adv[u] = t),
         m.status # "none" /\ m.source = "domain" => m.role = "member",
         m.status # "none" \/ u \in removed' => email[u] # "new"
  PROVE  Written(t)
<1>0. TypeOK /\ DataInv
  BY DEF TenantInv
<1>1. row'[u] = m /\ \A v \in Users : v # u => row'[v] = row[v]
  BY <1>0 DEF TypeOK
<1>2. row' \in [Users -> Rows] /\ email' \in [Users -> {"new", "on", "off", "gone"}]
  BY <1>0 DEF TypeOK
<1>3. DataInv'
  <2>1. RemovalStands'
    BY <1>0, <1>1 DEF DataInv, RemovalStands, Held, TypeOK
  <2>2. DomainNeverGoverns'
    BY <1>0, <1>1 DEF DataInv, DomainNeverGoverns, Held
  <2>3. \A v \in Users : email'[v] = "new" => ~Held(v)' /\ v \notin removed'
    BY <1>0, <1>1 DEF DataInv, Held
  <2> QED
    BY <2>1, <2>2, <2>3 DEF DataInv
<1>4. \A v \in Users : lock[v] \in Txns \ {t} => row'[v] = row[v]
  BY <1>1
<1> QED
  BY <1>0, <1>2, <1>3, <1>4 DEF Written, TypeOK

\* The rows transactions may hold: locked rows exist, and so do their accounts.
LEMMA LockedRow ==
  ASSUME TenantInv, NEW t \in Txns, NEW u \in Users, lock[u] = t
  PROVE  Held(u) /\ row[u] \in Rows /\ email[u] # "new" /\ u \notin removed /\ lock[u] \notin Txns \ {t}
  BY DEF TenantInv, LockInv, DataInv, RemovalStands, TypeOK

LEMMA RemoveMembershipTenantInv ==
  ASSUME TenantInv, NEW t \in Txns, RemoveMembership(t)
  PROVE  TenantInv'
<1>1. pc[t] = "write" /\ op[t] = "remove" /\ tgt[t] \in Users /\ lock[tgt[t]] = t /\ adv[tgt[t]] = t
  BY DEF RemoveMembership, TenantInv, ControlInv, TxnInv, AdvInv, CheckedInv, Checked, Advised
<1>2. /\ row' = [row EXCEPT ![tgt[t]] = NoRow]
      /\ removed' = removed \cup {tgt[t]}
      /\ End(t, "none")
      /\ UNCHANGED <<email, domain, tenant>>
  BY DEF RemoveMembership
<1>3. NoRow \in Rows /\ NoRow.status = "none"
  BY DEF NoRow, Rows, Roles
<1>4. removed' \in SUBSET Users
  BY <1>1, <1>2 DEF TenantInv, TypeOK
<1>5. email[tgt[t]] # "new" /\ lock[tgt[t]] \notin Txns \ {t}
  BY <1>1, LockedRow
<1>6. Written(t)
  BY <1>1, <1>2, <1>3, <1>4, <1>5, WriteRow
<1> QED
  BY <1>1, <1>2, <1>6, EndTenantInv

LEMMA SuspendMembershipTenantInv ==
  ASSUME TenantInv, NEW t \in Txns, SuspendMembership(t)
  PROVE  TenantInv'
<1>1. pc[t] = "write" /\ op[t] = "suspend" /\ tgt[t] \in Users /\ lock[tgt[t]] = t
  BY DEF SuspendMembership, TenantInv, ControlInv, TxnInv, CheckedInv, Checked
<1> DEFINE m == [row[tgt[t]] EXCEPT !.status = "suspended"]
<1>2. /\ row' = [row EXCEPT ![tgt[t]] = m]
      /\ removed' = removed
      /\ End(t, "none")
      /\ UNCHANGED <<email, domain, tenant>>
  BY DEF SuspendMembership
<1>3. Held(tgt[t]) /\ row[tgt[t]] \in Rows /\ email[tgt[t]] # "new" /\ tgt[t] \notin removed
        /\ lock[tgt[t]] \notin Txns \ {t}
  BY <1>1, LockedRow
<1>4. m \in Rows /\ m.status = "suspended" /\ m.source = row[tgt[t]].source /\ m.role = row[tgt[t]].role
  BY <1>3 DEF Rows
<1>5. m.source = "domain" => m.role = "member"
  BY <1>1, <1>3, <1>4 DEF TenantInv, DataInv, DomainNeverGoverns
<1>6. removed' \in SUBSET Users
  BY <1>2 DEF TenantInv, TypeOK
<1> HIDE DEF m
<1>7. Written(t)
  BY <1>1, <1>2, <1>3, <1>4, <1>5, <1>6, WriteRow
<1> QED
  BY <1>1, <1>2, <1>7, EndTenantInv

LEMMA RestoreMembershipTenantInv ==
  ASSUME TenantInv, NEW t \in Txns, RestoreMembership(t)
  PROVE  TenantInv'
<1>1. pc[t] = "write" /\ op[t] = "restore" /\ tgt[t] \in Users /\ lock[tgt[t]] = t
        /\ after[t] \in {"grant", "upsert", "none"}
  BY DEF RestoreMembership, TenantInv, ControlInv, TxnInv, CheckedInv, Checked, TypeOK
<1> DEFINE status == IF row[tgt[t]].source = "domain" /\ ~(seen[t] = "on" /\ domain # "pending")
                       THEN "inactive" ELSE "active"
           m == [row[tgt[t]] EXCEPT !.status = status]
<1>2. /\ row' = [row EXCEPT ![tgt[t]] = m]
      /\ removed' = removed
      /\ End(t, after[t])
      /\ UNCHANGED <<email, domain, tenant>>
  BY DEF RestoreMembership
<1>3. Held(tgt[t]) /\ row[tgt[t]] \in Rows /\ email[tgt[t]] # "new" /\ tgt[t] \notin removed
        /\ lock[tgt[t]] \notin Txns \ {t}
  BY <1>1, LockedRow
<1>4. m \in Rows /\ m.source = row[tgt[t]].source /\ m.role = row[tgt[t]].role
  BY <1>3 DEF Rows
<1>5. m.source = "domain" => m.role = "member"
  BY <1>1, <1>3, <1>4 DEF TenantInv, DataInv, DomainNeverGoverns
<1>6. removed' \in SUBSET Users
  BY <1>2 DEF TenantInv, TypeOK
<1> HIDE DEF m
<1>7. Written(t)
  BY <1>1, <1>2, <1>3, <1>4, <1>5, <1>6, WriteRow
<1> QED
  BY <1>1, <1>2, <1>7, EndTenantInv

LEMMA TransferOwnershipTenantInv ==
  ASSUME TenantInv, NEW t \in Txns, TransferOwnership(t)
  PROVE  TenantInv'
<1>0. TypeOK /\ DataInv
  BY DEF TenantInv
<1>1. /\ pc[t] = "write" /\ op[t] = "transfer" /\ tgt[t] \in Users /\ lock[tgt[t]] = t
      /\ by[t] \in Users /\ lock[by[t]] = t /\ by[t] \in Owners
  BY DEF TransferOwnership, TenantInv, ControlInv, TxnInv, CheckedInv, Checked, Locked
<1>2. Held(tgt[t]) /\ email[tgt[t]] # "new" /\ tgt[t] \notin removed
  BY <1>1, LockedRow
<1>3. Held(by[t]) /\ email[by[t]] # "new" /\ by[t] \notin removed
  BY <1>1, LockedRow
<1>4. /\ row' = [row EXCEPT ![tgt[t]].role = "owner", ![tgt[t]].source = "granted",
                            ![by[t]].role = "admin"]
      /\ End(t, "none")
      /\ UNCHANGED <<removed, email, domain, tenant>>
  BY DEF TransferOwnership
<1> DEFINE r1 == [row EXCEPT ![tgt[t]].role = "owner"]
           r2 == [r1 EXCEPT ![tgt[t]].source = "granted"]
           r3 == [r2 EXCEPT ![by[t]].role = "admin"]
<1>16. row \in [Users -> Rows]
  BY <1>0 DEF TypeOK
<1>12. /\ r1 \in [Users -> Rows] /\ \A u \in Users : u # tgt[t] => r1[u] = row[u]
       /\ r1[tgt[t]].status = row[tgt[t]].status
  BY <1>1, <1>16 DEF Rows, Roles
<1> HIDE DEF r1
<1>13. /\ r2 \in [Users -> Rows] /\ \A u \in Users : u # tgt[t] => r2[u] = r1[u]
       /\ r2[tgt[t]].status = r1[tgt[t]].status /\ r2[tgt[t]].source = "granted"
  BY <1>1, <1>12 DEF Rows
<1> HIDE DEF r2
<1>14. /\ r3 \in [Users -> Rows] /\ \A u \in Users : u # by[t] => r3[u] = r2[u]
       /\ r3[by[t]].status = r2[by[t]].status /\ r3[by[t]].source = r2[by[t]].source
  BY <1>1, <1>13 DEF Rows, Roles
<1>15. row' = r3
  BY <1>4 DEF r1, r2
<1> HIDE DEF r3
<1>5. row' \in [Users -> Rows]
  BY <1>14, <1>15
<1>6. \A u \in Users : u # tgt[t] /\ u # by[t] => row'[u] = row[u]
  BY <1>12, <1>13, <1>14, <1>15
<1>7. row'[tgt[t]].source = "granted" /\ row'[tgt[t]].status = row[tgt[t]].status
  BY <1>1, <1>12, <1>13, <1>14, <1>15
<1>8. row'[by[t]].status = row[by[t]].status /\ row'[by[t]].source \in {"granted", row[by[t]].source}
  BY <1>1, <1>12, <1>13, <1>14, <1>15
<1>9. row[by[t]].source # "domain"
  BY <1>0, <1>1, <1>3 DEF DataInv, DomainNeverGoverns, Owners
<1>10. DataInv'
  <2>1. RemovalStands'
    BY <1>0, <1>2, <1>3, <1>4, <1>6 DEF DataInv, RemovalStands, Held, TypeOK
  <2>2. DomainNeverGoverns'
    BY <1>0, <1>6, <1>7, <1>8, <1>9 DEF DataInv, DomainNeverGoverns, Held
  <2>3. \A v \in Users : email'[v] = "new" => ~Held(v)' /\ v \notin removed'
    BY <1>0, <1>2, <1>3, <1>4, <1>6 DEF DataInv, Held
  <2> QED
    BY <2>1, <2>2, <2>3 DEF DataInv
<1>11. Written(t)
  BY <1>0, <1>1, <1>4, <1>5, <1>6, <1>10 DEF Written, TypeOK
<1> QED
  BY <1>1, <1>4, <1>11, EndTenantInv

\* Nobody else has locked a row that may be written.
LEMMA MayWriteRow ==
  ASSUME TenantInv, NEW t \in Txns, tgt[t] \in Users, mayWriteRow(t)
  PROVE  lock[tgt[t]] \notin Txns \ {t}
  BY TenantMembershipAssumption DEF TenantInv, mayWriteRow, LockInv

\* A grant gives the role it names to a row that it makes active, and never a
\* role through the domain.
LEMMA Granted ==
  ASSUME NEW m \in Rows, NEW source \in {"domain", "granted"}, NEW r \in Roles,
         source = "domain" => r = "member",
         m.status # "none" /\ m.source = "domain" => m.role = "member"
  PROVE  /\ granted(m, source, r) \in Rows
         /\ granted(m, source, r).status = "active"
         /\ granted(m, source, r).source = "domain" => granted(m, source, r).role = "member"
<1>1. grantHoldsRole(m, r) => m.status = "active"
  BY DEF grantHoldsRole
<1> QED
  BY <1>1 DEF granted, Rows, Roles

LEMMA GrantMembershipTenantInv ==
  ASSUME TenantInv, NEW t \in Txns, GrantMembership(t)
  PROVE  TenantInv'
<1>1. pc[t] = "write" /\ op[t] = "grant" /\ tgt[t] \in Users /\ mayWriteRow(t)
  BY DEF GrantMembership, TenantInv, ControlInv, TxnInv
<1>2. CASE row[tgt[t]].status = "suspended" \/ (~Held(tgt[t]) /\ ~Account(tgt[t]))
  BY <1>1, <1>2, RollbackTenantInv DEF GrantMembership, Rollback
<1>3. CASE ~(row[tgt[t]].status = "suspended" \/ (~Held(tgt[t]) /\ ~Account(tgt[t])))
  <2> DEFINE m == granted(row[tgt[t]], "granted", role[t])
  <2>1. /\ row' = [row EXCEPT ![tgt[t]] = m]
        /\ removed' = removed \ {tgt[t]}
        /\ End(t, "none")
        /\ UNCHANGED <<email, domain, tenant>>
    BY <1>3 DEF GrantMembership
  <2>2. row[tgt[t]] \in Rows /\ role[t] \in Roles /\ removed' \in SUBSET Users
    BY <1>1, <2>1 DEF TenantInv, TypeOK
  <2>3. row[tgt[t]].status # "none" /\ row[tgt[t]].source = "domain" => row[tgt[t]].role = "member"
    BY <1>1 DEF TenantInv, DataInv, DomainNeverGoverns, Held
  <2>4. m \in Rows /\ m.status = "active" /\ (m.source = "domain" => m.role = "member")
    BY <2>2, <2>3, Granted
  <2>5. email[tgt[t]] # "new"
    BY <1>1, <1>3 DEF TenantInv, DataInv, Account
  <2> HIDE DEF m
  <2>6. lock[tgt[t]] \notin Txns \ {t}
    BY <1>1, MayWriteRow
  <2>7. Written(t)
    BY <1>1, <2>1, <2>2, <2>4, <2>5, <2>6, WriteRow
  <2> QED
    BY <1>1, <2>1, <2>7, EndTenantInv
<1> QED
  BY <1>2, <1>3

LEMMA JoinByDomainTenantInv ==
  ASSUME TenantInv, NEW t \in Txns, JoinByDomain(t)
  PROVE  TenantInv'
<1>1. pc[t] = "write" /\ op[t] = "join" /\ tgt[t] \in Users /\ mayWriteRow(t) /\ tgt[t] \notin removed
  BY DEF JoinByDomain, TenantInv, ControlInv, TxnInv, CheckedInv, Checked
<1>2. CASE row[tgt[t]].status = "suspended" \/ (~Held(tgt[t]) /\ ~Account(tgt[t]))
  BY <1>1, <1>2, RollbackTenantInv DEF JoinByDomain, Rollback
<1>3. CASE ~(row[tgt[t]].status = "suspended" \/ (~Held(tgt[t]) /\ ~Account(tgt[t])))
  <2> DEFINE m == granted(row[tgt[t]], "domain", "member")
  <2>1. /\ row' = [row EXCEPT ![tgt[t]] = m]
        /\ removed' = removed
        /\ End(t, "none")
        /\ UNCHANGED <<email, domain, tenant>>
    BY <1>3 DEF JoinByDomain
  <2>2. row[tgt[t]] \in Rows /\ "member" \in Roles /\ removed' \in SUBSET Users
    BY <1>1, <2>1 DEF TenantInv, TypeOK, Roles
  <2>3. row[tgt[t]].status # "none" /\ row[tgt[t]].source = "domain" => row[tgt[t]].role = "member"
    BY <1>1 DEF TenantInv, DataInv, DomainNeverGoverns, Held
  <2>4. m \in Rows /\ m.status = "active" /\ (m.source = "domain" => m.role = "member")
    BY <2>2, <2>3, Granted
  <2>5. email[tgt[t]] # "new"
    BY <1>1, <1>3 DEF TenantInv, DataInv, Account
  <2> HIDE DEF m
  <2>6. lock[tgt[t]] \notin Txns \ {t}
    BY <1>1, MayWriteRow
  <2>7. Written(t)
    BY <1>1, <2>1, <2>2, <2>4, <2>5, <2>6, WriteRow
  <2> QED
    BY <1>1, <2>1, <2>7, EndTenantInv
<1> QED
  BY <1>2, <1>3

LEMMA UpsertMembershipTenantInv ==
  ASSUME TenantInv, NEW t \in Txns, UpsertMembership(t)
  PROVE  TenantInv'
<1>1. pc[t] = "write" /\ op[t] = "upsert" /\ tgt[t] \in Users /\ mayWriteRow(t)
  BY DEF UpsertMembership, TenantInv, ControlInv, TxnInv
<1>2. CASE ~Held(tgt[t]) /\ ~Account(tgt[t])
  BY <1>1, <1>2, RollbackTenantInv DEF UpsertMembership, Rollback
<1>3. CASE ~(~Held(tgt[t]) /\ ~Account(tgt[t]))
  <2> DEFINE m == [role |-> role[t], source |-> "granted", status |-> "active"]
  <2>1. /\ row' = [row EXCEPT ![tgt[t]] = m]
        /\ removed' = removed \ {tgt[t]}
        /\ End(t, "none")
        /\ UNCHANGED <<email, domain, tenant>>
    BY <1>3 DEF UpsertMembership
  <2>2. role[t] \in Roles /\ removed' \in SUBSET Users
    BY <1>1, <2>1 DEF TenantInv, TypeOK
  <2>3. m \in Rows /\ m.status = "active" /\ m.source = "granted"
    BY <2>2 DEF Rows
  <2>4. email[tgt[t]] # "new"
    BY <1>1, <1>3 DEF TenantInv, DataInv, Account
  <2> HIDE DEF m
  <2>5. lock[tgt[t]] \notin Txns \ {t}
    BY <1>1, MayWriteRow
  <2>6. Written(t)
    BY <1>1, <2>1, <2>2, <2>3, <2>4, <2>5, WriteRow
  <2> QED
    BY <1>1, <2>1, <2>6, EndTenantInv
<1> QED
  BY <1>2, <1>3

LEMMA UpdateEmailTenantInv ==
  ASSUME TenantInv, NEW t \in Txns, UpdateEmail(t)
  PROVE  TenantInv'
<1>0. TypeOK /\ DataInv
  BY DEF TenantInv
<1>1. pc[t] = "write" /\ op[t] = "email" /\ tgt[t] \in Users /\ acct[tgt[t]] = t
  BY DEF UpdateEmail, TenantInv, ControlInv, TxnInv, AcctInv
<1>2. CASE ~Account(tgt[t])
  BY <1>1, <1>2, RollbackTenantInv DEF UpdateEmail, Rollback
<1>3. CASE Account(tgt[t])
  <2>1. PICK e \in {"on", "off"} :
          /\ email' = [email EXCEPT ![tgt[t]] = e]
          /\ e # email[tgt[t]] /\ Ends(tgt[t], e) => lock[tgt[t]] = Nobody
          /\ row' = IF e # email[tgt[t]] /\ Ends(tgt[t], e)
                      THEN [row EXCEPT ![tgt[t]].status = "inactive"] ELSE row
          /\ End(t, "none")
          /\ UNCHANGED <<removed, domain, tenant>>
    BY <1>3 DEF UpdateEmail
  <2>2. /\ email' \in [Users -> {"new", "on", "off", "gone"}]
        /\ email'[tgt[t]] # "new"
        /\ \A u \in Users : u # tgt[t] => email'[u] = email[u]
    BY <1>0, <1>1, <2>1 DEF TypeOK
  <2>3. CASE row' = row
    <3>1. DataInv'
      BY <1>0, <2>1, <2>2, <2>3 DEF DataInv, RemovalStands, DomainNeverGoverns, Held
    <3>2. Written(t)
      BY <1>0, <1>1, <2>1, <2>2, <2>3, <3>1 DEF Written, TypeOK
    <3> QED
      BY <1>1, <2>1, <3>2, EndTenantInv
  <2>4. CASE lock[tgt[t]] = Nobody /\ Active(tgt[t]) /\ row' = [row EXCEPT ![tgt[t]].status = "inactive"]
    <3>1. row \in [Users -> Rows]
      BY <1>0 DEF TypeOK
    <3>2. /\ row' \in [Users -> Rows]
          /\ \A u \in Users : u # tgt[t] => row'[u] = row[u]
          /\ row'[tgt[t]].role = row[tgt[t]].role /\ row'[tgt[t]].source = row[tgt[t]].source
      BY <1>1, <2>4, <3>1 DEF Rows
    <3>3. Held(tgt[t]) /\ tgt[t] \notin removed
      BY <1>0, <1>1, <2>4 DEF DataInv, RemovalStands, Active, Held
    <3>4. RemovalStands'
      BY <1>0, <2>1, <3>2, <3>3 DEF DataInv, RemovalStands, Held, TypeOK
    <3>5. DomainNeverGoverns'
      BY <1>0, <1>1, <3>2, <3>3 DEF DataInv, DomainNeverGoverns, Held
    <3>6. DataInv'
      BY <1>0, <2>1, <2>2, <3>2, <3>4, <3>5 DEF DataInv, Held
    <3>7. \A u \in Users : lock[u] \in Txns \ {t} => row'[u] = row[u]
      BY <2>4, <3>2, TenantMembershipAssumption
    <3>8. Written(t)
      BY <1>0, <1>1, <2>1, <2>2, <3>2, <3>6, <3>7 DEF Written, TypeOK
    <3> QED
      BY <1>1, <2>1, <3>8, EndTenantInv
  <2> QED
    BY <2>1, <2>3, <2>4 DEF Ends
<1> QED
  BY <1>2, <1>3

LEMMA DeleteUserTenantInv ==
  ASSUME TenantInv, NEW t \in Txns, DeleteUser(t)
  PROVE  TenantInv'
<1>0. TypeOK /\ DataInv /\ LockInv
  BY DEF TenantInv
<1>1. pc[t] = "write" /\ op[t] = "delete" /\ tgt[t] \in Users /\ acct[tgt[t]] = t
  BY DEF DeleteUser, TenantInv, ControlInv, TxnInv, AcctInv
<1>2. CASE ~Account(tgt[t])
  BY <1>1, <1>2, RollbackTenantInv DEF DeleteUser, Rollback
<1>3. CASE Account(tgt[t])
  <2>1. /\ Held(tgt[t]) => lock[tgt[t]] = Nobody
        /\ row' = [row EXCEPT ![tgt[t]] = NoRow]
        /\ removed' = removed \ {tgt[t]}
        /\ email' = [email EXCEPT ![tgt[t]] = "gone"]
        /\ End(t, "none")
        /\ UNCHANGED <<domain, tenant>>
    BY <1>3 DEF DeleteUser
  <2>2. /\ email' \in [Users -> {"new", "on", "off", "gone"}]
        /\ email'[tgt[t]] = "gone"
        /\ \A u \in Users : u # tgt[t] => email'[u] = email[u]
    BY <1>0, <1>1, <2>1 DEF TypeOK
  <2>3. NoRow \in Rows /\ NoRow.status = "none"
    BY DEF NoRow, Rows, Roles
  <2>4. /\ row' \in [Users -> Rows]
        /\ row'[tgt[t]] = NoRow
        /\ \A u \in Users : u # tgt[t] => row'[u] = row[u]
    BY <1>0, <1>1, <2>1, <2>3 DEF TypeOK
  <2>5. lock[tgt[t]] \notin Txns
    BY <1>0, <1>1, <2>1, TenantMembershipAssumption DEF LockInv
  <2>6. RemovalStands'
    BY <1>0, <2>1, <2>4 DEF DataInv, RemovalStands, Held, TypeOK
  <2>7. DomainNeverGoverns'
    BY <1>0, <1>1, <2>3, <2>4 DEF DataInv, DomainNeverGoverns, Held
  <2>8. DataInv'
    BY <1>0, <2>1, <2>2, <2>4, <2>6, <2>7 DEF DataInv, Held
  <2>9. Written(t)
    BY <1>0, <1>1, <2>1, <2>2, <2>4, <2>5, <2>8 DEF Written, TypeOK
  <2> QED
    BY <1>1, <2>1, <2>9, EndTenantInv
<1> QED
  BY <1>2, <1>3

-----------------------------------------------------------------------------
(* What happens outside the transactions, and every step.                  *)

LEMMA SignUpTenantInv ==
  ASSUME TenantInv, NEW u \in Users, SignUp(u)
  PROVE  TenantInv'
<1> USE TenantMembershipAssumption
<1>0. TypeOK /\ TxnInv /\ AdvInv /\ AcctInv /\ SeenInv /\ LockInv /\ CheckedInv /\ CountedInv /\ DataInv
  BY DEF TenantInv, ControlInv
<1>1. /\ email[u] = "new" /\ ~Held(u)
      /\ UNCHANGED <<removed, domain, tenant, adv, lock, acct, door, pc, op, tgt, by, role, after,
                     want, counted, seen>>
  BY DEF SignUp, locks, params
<1>2. PICK e \in {"on", "off"} : email' = [email EXCEPT ![u] = e]
  BY DEF SignUp
<1>3. /\ email' \in [Users -> {"new", "on", "off", "gone"}]
      /\ email'[u] # "new"
      /\ \A v \in Users : v # u => email'[v] = email[v]
  BY <1>0, <1>2 DEF TypeOK
<1> DEFINE m == [role |-> "member", source |-> "domain", status |-> "active"]
<1>4. row' = row \/ row' = [row EXCEPT ![u] = m]
  BY DEF SignUp, upsertDerivedMembership
<1>5. m \in Rows
  BY DEF Rows, Roles
<1>6. /\ row' \in [Users -> Rows]
      /\ \A v \in Users : v # u => row'[v] = row[v]
      /\ row'[u] = row[u] \/ row'[u] = m
  BY <1>0, <1>4, <1>5 DEF TypeOK
<1>7. TypeOK'
  BY <1>0, <1>1, <1>3, <1>6 DEF TypeOK
<1>8. TxnInv' /\ AdvInv' /\ AcctInv'
  BY <1>0, <1>1 DEF TxnInv, AdvInv, AcctInv
<1>9. SeenInv'
  <2> SUFFICES ASSUME NEW t \in Txns, seen[t] # "none"
               PROVE  op[t] = "restore" /\ acct[tgt[t]] = t /\ seen[t] = email'[tgt[t]]
    BY <1>1 DEF SeenInv
  <2>1. op[t] = "restore" /\ acct[tgt[t]] = t /\ seen[t] = email[tgt[t]]
    BY <1>0 DEF SeenInv
  <2>2. tgt[t] \in Users
    BY <1>0, <2>1 DEF TxnInv
  <2>3. tgt[t] # u
    BY <1>0, <1>1, <2>1 DEF TypeOK
  <2> QED
    BY <1>3, <2>1, <2>2, <2>3
<1>10. \A v \in Users, t \in Txns : lock[v] = t => v # u /\ row'[v] = row[v]
  BY <1>0, <1>1, <1>6 DEF LockInv
<1>11. LockInv'
  BY <1>0, <1>1, <1>10 DEF LockInv, Held
<1>12. CountedInv'
  <2> SUFFICES ASSUME NEW t \in Txns, NEW o \in counted[t] PROVE lock[o] = t /\ o \in Owners' /\ o # tgt[t]
    BY <1>1 DEF CountedInv
  <2>1. lock[o] = t /\ o \in Owners /\ o # tgt[t]
    BY <1>0 DEF CountedInv
  <2> QED
    BY <1>10, <2>1 DEF Owners, Active
<1>13. CheckedInv'
  <2> SUFFICES ASSUME NEW t \in Txns, pc[t] = "write" PROVE Checked(t)'
    BY <1>1 DEF CheckedInv
  <2>1. Checked(t) /\ tgt[t] \in Users
    BY <1>0 DEF CheckedInv, TxnInv
  <2>2. mayRestore(t) => mayRestore(t)'
    BY <1>1, <1>10 DEF mayRestore, Locked, Admins, Active
  <2>3. Locked(t, by[t]) /\ by[t] \in Owners => Locked(t, by[t])' /\ by[t] \in Owners'
    BY <1>1, <1>10 DEF Locked, Owners, Active
  <2> QED
    BY <1>1, <1>10, <2>1, <2>2, <2>3 DEF Checked
<1>14. DataInv'
  <2>1. u \notin removed
    BY <1>0, <1>1 DEF DataInv
  <2>2. RemovalStands'
    BY <1>0, <1>1, <1>6, <2>1 DEF DataInv, RemovalStands, Held, TypeOK
  <2>3. DomainNeverGoverns'
    BY <1>0, <1>6 DEF DataInv, DomainNeverGoverns, Held
  <2> QED
    BY <1>0, <1>1, <1>3, <1>6, <2>2, <2>3 DEF DataInv, Held
<1> QED
  BY <1>7, <1>8, <1>9, <1>11, <1>12, <1>13, <1>14 DEF TenantInv, ControlInv

\* A step that changes at most the domain and the tenant's status.
LEMMA OutsideTenantInv ==
  ASSUME TenantInv, domain' \in {"pending", "verified", "open"}, tenant' \in {"claimed", "suspended"},
         UNCHANGED <<row, removed, email, locks, pc, params, want, counted, seen>>
  PROVE  TenantInv'
<1>0. TypeOK /\ TxnInv /\ AdvInv /\ AcctInv /\ SeenInv /\ LockInv /\ CheckedInv /\ CountedInv /\ DataInv
  BY DEF TenantInv, ControlInv
<1>1. UNCHANGED <<row, removed, email, adv, lock, acct, door, pc, op, tgt, by, role, after,
                  want, counted, seen>>
  BY DEF locks, params
<1>2. TypeOK'
  BY <1>0, <1>1 DEF TypeOK
<1>3. TxnInv' /\ AdvInv' /\ AcctInv' /\ SeenInv'
  BY <1>0, <1>1 DEF TxnInv, AdvInv, AcctInv, SeenInv
<1>4. LockInv' /\ CountedInv' /\ DataInv'
  BY <1>0, <1>1, DataKept DEF LockInv, CountedInv
<1>5. CheckedInv'
  BY <1>0, <1>1 DEF CheckedInv, Checked, mayRestore, Locked, Owners, Admins, Active
<1> QED
  BY <1>2, <1>3, <1>4, <1>5 DEF TenantInv, ControlInv

LEMMA NextTenantInv == TenantInv /\ [Next]_vars => TenantInv'
<1> SUFFICES ASSUME TenantInv, [Next]_vars PROVE TenantInv'
  OBVIOUS
<1>1. ASSUME NEW t \in Txns, Lock(t) PROVE TenantInv'
  BY <1>1, LockMembershipTenantInv, ClearRemovalTenantInv, LockAccountTenantInv, LockDoorTenantInv,
     LockOwnersAndTenantInv, LockRowTenantInv DEF Lock
<1>2. ASSUME NEW t \in Txns, Store(t) PROVE TenantInv'
  BY <1>2, CheckRemovalTenantInv, CheckRestoreTenantInv, CheckTransferTenantInv,
     RemoveMembershipTenantInv, SuspendMembershipTenantInv, RestoreMembershipTenantInv,
     TransferOwnershipTenantInv, GrantMembershipTenantInv, JoinByDomainTenantInv,
     UpsertMembershipTenantInv, UpdateEmailTenantInv, DeleteUserTenantInv DEF Store
<1>3. ASSUME NEW t \in Txns, Abort(t) PROVE TenantInv'
  BY <1>3, RollbackTenantInv DEF Abort, Rollback
<1>4. CASE SetDomainJoin
  <2>1. domain' \in {"pending", "verified", "open"} /\ tenant' \in {"claimed", "suspended"}
    BY <1>4 DEF SetDomainJoin, TenantInv, TypeOK
  <2> QED
    BY <1>4, <2>1, OutsideTenantInv DEF SetDomainJoin
<1>5. CASE moveTenant
  <2>1. domain' \in {"pending", "verified", "open"} /\ tenant' \in {"claimed", "suspended"}
    BY <1>5 DEF moveTenant, TenantInv, TypeOK
  <2> QED
    BY <1>5, <2>1, OutsideTenantInv DEF moveTenant
<1>6. CASE UNCHANGED vars
  <2>1. domain' \in {"pending", "verified", "open"} /\ tenant' \in {"claimed", "suspended"}
    BY <1>6 DEF vars, data, TenantInv, TypeOK
  <2> QED
    BY <1>6, <2>1, OutsideTenantInv DEF vars, data
<1> QED
  BY <1>1, <1>2, <1>3, <1>4, <1>5, <1>6, RequestTenantInv, SignUpTenantInv DEF Next

LEMMA TenantInvAlways == Spec => []TenantInv
  BY InitTenantInv, NextTenantInv, PTL DEF Spec

-----------------------------------------------------------------------------
(* What follows for the members of a tenant.                               *)

\* The tables, the locks and what each transaction remembers keep their types.
THEOREM TenantTypesHold == Spec => []TypeOK
<1>1. TenantInv => TypeOK
  BY DEF TenantInv
<1> QED
  BY <1>1, TenantInvAlways, PTL

\* No membership of a person exists while the record of their removal stands,
\* whatever joins, grants, transfers and restores overlap with it.
THEOREM RemovalsStand == Spec => []RemovalStands
<1>1. TenantInv => RemovalStands
  BY DEF TenantInv, DataInv
<1> QED
  BY <1>1, TenantInvAlways, PTL

\* Nobody is an owner or admin through the domain of their email.
THEOREM DomainsNeverGovern == Spec => []DomainNeverGoverns
<1>1. TenantInv => DomainNeverGoverns
  BY DEF TenantInv, DataInv
<1> QED
  BY <1>1, TenantInvAlways, PTL

\* The owners keepAnOwner counted under lock are owners when the removal or the
\* suspension that counted them commits.
THEOREM CountedOwnersStay == Spec => []CountedOwnerStays
<1>1. TenantInv => CountedOwnerStays
  BY DEF TenantInv, CountedInv, CountedOwnerStays
<1> QED
  BY <1>1, TenantInvAlways, PTL

\* A removal or a suspension that counted another owner under lock leaves the
\* tenant with an owner.  (It also goes ahead on an owner it saw and did not lock:
\* of that one nothing holds.)
THEOREM CountedOwnerRemains ==
  Spec => [][\A t \in Txns : (RemoveMembership(t) \/ SuspendMembership(t)) /\ counted[t] # {}
                => Owners' # {}]_vars
<1>1. ASSUME TenantInv, NEW t \in Txns, RemoveMembership(t) \/ SuspendMembership(t), counted[t] # {}
      PROVE  Owners' # {}
  <2>1. PICK o \in counted[t] : o \in Owners /\ o # tgt[t]
    BY <1>1 DEF TenantInv, CountedInv
  <2>2. row \in [Users -> Rows] /\ o \in Users
    BY <1>1, <2>1 DEF TenantInv, TypeOK, Owners
  <2>3. row'[o] = row[o]
    BY <1>1, <2>1, <2>2 DEF RemoveMembership, SuspendMembership
  <2>4. o \in Owners'
    BY <2>1, <2>2, <2>3 DEF Owners, Active
  <2> QED
    BY <2>4
<1>2. TenantInv => [\A t \in Txns : (RemoveMembership(t) \/ SuspendMembership(t)) /\ counted[t] # {}
                      => Owners' # {}]_vars
  BY <1>1
<1> QED
  BY <1>2, TenantInvAlways, PTL

\* The steps that make a suspended membership active.
LEMMA LiftingSteps ==
  ASSUME TenantInv, [Next]_vars, NEW u \in Users,
         row[u].status = "suspended", row'[u].status = "active"
  PROVE  \E t \in Txns : tgt[t] = u /\ (UpsertMembership(t) \/ RestoreMembership(t))
<1>0. row \in [Users -> Rows] /\ Held(u)
  BY DEF TenantInv, TypeOK, Held
<1>1. row' # row
  OBVIOUS
<1>2. PICK t \in Txns : Store(t)
  <2>1. ASSUME NEW v \in Users, SignUp(v) PROVE FALSE
    <3>1. ~Held(v)
      BY <2>1 DEF SignUp
    <3>2. row' = row \/ row' = [row EXCEPT ![v] =
                                  [role |-> "member", source |-> "domain", status |-> "active"]]
      BY <2>1 DEF SignUp, upsertDerivedMembership
    <3> QED
      BY <1>0, <1>1, <3>1, <3>2
  <2>2. ASSUME NEW t \in Txns, Request(t) PROVE FALSE
    BY <1>1, <2>2 DEF Request, data, RemoveTenantMember, SuspendTenantMember, RestoreTenantMember,
       TransferTenantOwnership, AcceptTenantInvitation, VerifyDomain, JoinTenantByDomain,
       AdminRecoverTenantOwnership, AdminAddTenantAdmin, ChangeEmail, DeleteAccount
  <2>3. ASSUME NEW t \in Txns, Lock(t) PROVE FALSE
    BY <1>1, <2>3 DEF Lock, data, lockMembership, clearRemoval, lockAccount, lockDoor, lockOwnersAnd, lockRow,
       Rollback
  <2>4. ~SetDomainJoin /\ ~moveTenant /\ ~UNCHANGED vars /\ \A t \in Txns : ~Abort(t)
    BY <1>1 DEF SetDomainJoin, moveTenant, vars, data, Abort, Rollback
  <2> QED
    BY <2>1, <2>2, <2>3, <2>4 DEF Next
<1>3. ~checkRemoval(t) /\ ~checkRestore(t) /\ ~checkTransfer(t)
  BY <1>1 DEF checkRemoval, checkRestore, checkTransfer, Rollback, data
<1>4. ASSUME NEW m, tgt[t] \in Users, row' = [row EXCEPT ![tgt[t]] = m], m.status # "active"
      PROVE  FALSE
  BY <1>0, <1>4
<1>5. pc[t] = "write" => tgt[t] \in Users
  BY DEF TenantInv, ControlInv, TxnInv
<1>6. CASE RemoveMembership(t)
  <2>1. NoRow.status # "active"
    BY DEF NoRow
  <2> QED
    BY <1>4, <1>5, <1>6, <2>1 DEF RemoveMembership
<1>7. CASE SuspendMembership(t)
  <2>1. [row[tgt[t]] EXCEPT !.status = "suspended"].status # "active"
    BY <1>0, <1>5, <1>7 DEF SuspendMembership, Rows
  <2> QED
    BY <1>4, <1>5, <1>7, <2>1 DEF SuspendMembership
<1>8. CASE TransferOwnership(t)
  <2>1. row'[u].status = row[u].status
    <3> DEFINE r1 == [row EXCEPT ![tgt[t]].role = "owner"]
               r2 == [r1 EXCEPT ![tgt[t]].source = "granted"]
               r3 == [r2 EXCEPT ![by[t]].role = "admin"]
    <3>1. r1 \in [Users -> Rows] /\ r1[u].status = row[u].status
      BY <1>0, <1>5, <1>8 DEF TransferOwnership, Rows, Roles
    <3> HIDE DEF r1
    <3>2. r2 \in [Users -> Rows] /\ r2[u].status = r1[u].status
      BY <1>5, <1>8, <3>1 DEF TransferOwnership, Rows
    <3> HIDE DEF r2
    <3>3. r3[u].status = r2[u].status
      BY <3>2 DEF Rows
    <3>4. row' = r3
      BY <1>8 DEF TransferOwnership, r1, r2
    <3> QED
      BY <3>1, <3>2, <3>3, <3>4
  <2> QED
    BY <2>1
<1>9. CASE GrantMembership(t)
  <2>1. tgt[t] \in Users /\ row[tgt[t]].status # "suspended"
    BY <1>1, <1>5, <1>9 DEF GrantMembership, Rollback, data
  <2> QED
    BY <1>0, <1>1, <1>9, <2>1 DEF GrantMembership, Rollback, data
<1>10. CASE JoinByDomain(t)
  <2>1. tgt[t] \in Users /\ row[tgt[t]].status # "suspended"
    BY <1>1, <1>5, <1>10 DEF JoinByDomain, Rollback, data
  <2> QED
    BY <1>0, <1>1, <1>10, <2>1 DEF JoinByDomain, Rollback, data
<1>11. CASE UpdateEmail(t)
  <2>1. tgt[t] \in Users /\ row' = [row EXCEPT ![tgt[t]].status = "inactive"]
    BY <1>1, <1>5, <1>11 DEF UpdateEmail, Rollback, data
  <2> QED
    BY <1>0, <2>1 DEF Rows
<1>12. CASE DeleteUser(t)
  <2>1. tgt[t] \in Users /\ row' = [row EXCEPT ![tgt[t]] = NoRow] /\ NoRow.status # "active"
    BY <1>1, <1>5, <1>12 DEF DeleteUser, Rollback, data, NoRow
  <2> QED
    BY <1>4, <2>1
<1>13. CASE UpsertMembership(t)
  <2>1. tgt[t] \in Users
    BY <1>5, <1>13 DEF UpsertMembership
  <2>2. tgt[t] = u
    BY <1>0, <1>1, <1>13, <2>1 DEF UpsertMembership, Rollback, data
  <2> QED
    BY <1>13, <2>2
<1>14. CASE RestoreMembership(t)
  <2>1. tgt[t] \in Users
    BY <1>5, <1>14 DEF RestoreMembership
  <2>2. tgt[t] = u
    BY <1>0, <1>14, <2>1 DEF RestoreMembership
  <2> QED
    BY <1>14, <2>2
<1> QED
  BY <1>2, <1>3, <1>6, <1>7, <1>8, <1>9, <1>10, <1>11, <1>12, <1>13, <1>14 DEF Store

\* A suspension is lifted by an operator, or by another member who is an active
\* owner or admin when the restore commits.
THEOREM SuspensionsStick == Spec => SuspensionSticks
<1> DEFINE A == \A u \in Users :
                  row[u].status = "suspended" /\ row'[u].status = "active"
                     => \E t \in Txns : SuspensionLifted(t, u)
<1>1. TenantInv /\ [Next]_vars => [A]_vars
  <2> SUFFICES ASSUME TenantInv, [Next]_vars, NEW u \in Users,
                      row[u].status = "suspended", row'[u].status = "active"
               PROVE  \E t \in Txns : SuspensionLifted(t, u)
    OBVIOUS
  <2>1. PICK t \in Txns : tgt[t] = u /\ (UpsertMembership(t) \/ RestoreMembership(t))
    BY LiftingSteps
  <2>2. CASE UpsertMembership(t)
    BY <2>1, <2>2 DEF UpsertMembership, SuspensionLifted
  <2>3. CASE RestoreMembership(t)
    <3>1. pc[t] = "write" /\ op[t] = "restore" /\ mayRestore(t) /\ by[t] # u
      BY <2>1, <2>3 DEF RestoreMembership, TenantInv, ControlInv, TxnInv, CheckedInv, Checked
    <3> QED
      BY <2>1, <3>1 DEF SuspensionLifted, mayRestore
  <2> QED
    BY <2>1, <2>2, <2>3
<1> QED
  BY <1>1, TenantInvAlways, PTL DEF Spec, SuspensionSticks

\* A membership through the domain that a restore makes active belongs to an
\* account whose email is on the tenant's verified domain at that moment.
THEOREM RestoredMembersAreOnDomain == Spec => RestoredOnDomain
<1> DEFINE A == \A u \in Users :
                  row[u].status = "suspended" /\ row'[u].status = "active" /\ row'[u].source = "domain"
                     => onVerifiedDomain(u)
<1>1. TenantInv /\ [Next]_vars => [A]_vars
  <2> SUFFICES ASSUME TenantInv, [Next]_vars, NEW u \in Users, row[u].status = "suspended",
                      row'[u].status = "active", row'[u].source = "domain"
               PROVE  onVerifiedDomain(u)
    OBVIOUS
  <2>0. row \in [Users -> Rows]
    BY DEF TenantInv, TypeOK
  <2>1. PICK t \in Txns : tgt[t] = u /\ (UpsertMembership(t) \/ RestoreMembership(t))
    BY LiftingSteps
  <2>2. CASE UpsertMembership(t)
    BY <2>0, <2>1, <2>2 DEF UpsertMembership, Rollback, data
  <2>3. CASE RestoreMembership(t)
    <3>1. row[u].source = "domain" /\ seen[t] = "on" /\ domain # "pending"
      BY <2>0, <2>1, <2>3 DEF RestoreMembership, Rows
    <3>2. seen[t] = email[tgt[t]]
      BY <3>1 DEF TenantInv, SeenInv
    <3> QED
      BY <2>1, <3>1, <3>2 DEF onVerifiedDomain
  <2> QED
    BY <2>1, <2>2, <2>3
<1> QED
  BY <1>1, TenantInvAlways, PTL DEF Spec, RestoredOnDomain

-----------------------------------------------------------------------------
(* The lock order.                                                         *)

Behind(u) == {v \in Users : u < v}

\* Some account of a set of them has the largest id.
LEMMA LastOf ==
  ASSUME NEW F \in SUBSET Users, F # {}
  PROVE  \E u \in F : \A v \in F : ~(u < v)
<1> USE TenantMembershipAssumption
<1> DEFINE C == {Cardinality(Behind(u)) : u \in F}
<1>1. \A u \in Users : IsFiniteSet(Behind(u)) /\ Cardinality(Behind(u)) \in Nat
  BY FS_Subset, FS_CardinalityType DEF Behind
<1>2. C \subseteq Nat /\ C # {}
  BY <1>1
<1>3. PICK n \in C : \A m \in C : ~(<<m, n>> \in OpToRel(<, Nat))
  BY <1>2, NatLessThanWellFounded, WFMin
<1>4. \A m \in C : ~(m < n)
  BY <1>2, <1>3 DEF OpToRel
<1>5. PICK u \in F : n = Cardinality(Behind(u))
  OBVIOUS
<1>6. ASSUME NEW v \in F, u < v PROVE FALSE
  <2>1. u \in Nat /\ v \in Nat /\ v \in Behind(u) /\ v \notin Behind(v)
    BY <1>6 DEF Behind
  <2>2. Behind(v) \subseteq Behind(u)
    <3> SUFFICES ASSUME NEW w \in Users, v < w PROVE u < w
      BY DEF Behind
    <3> QED
      BY <1>6, <2>1
  <2>3. Cardinality(Behind(v)) <= Cardinality(Behind(u)) /\ Cardinality(Behind(v)) # Cardinality(Behind(u))
    BY <1>1, <2>1, <2>2, FS_Subset
  <2>5. Cardinality(Behind(v)) \in Nat /\ Cardinality(Behind(u)) \in Nat
    BY <1>1
  <2>4. Cardinality(Behind(v)) < Cardinality(Behind(u))
    BY <2>3, <2>5
  <2> QED
    BY <1>4, <1>5, <2>4
<1> QED
  BY <1>6

\* A set of transactions of which each waits for another contains a deletion of an
\* account and a write of that person's membership that wait for each other.  One
\* that waits for a row waits for a holder of that row, which waits for a row with
\* a larger id, does not wait, or is a removal that waits for a deletion, which
\* then waits for the row the removal deletes.  A deletion at its cascade waits for
\* such a row or for the record a grant has cleared, and that grant, whose row does
\* not exist while there is a record, waits for the account.  With neither in the
\* set nobody is kept from writing, so an account is given back, and so is an
\* advisory lock.
LEMMA EveryCycle == TenantInv => DeadlockOnlyWithDeletion
<1> SUFFICES ASSUME TenantInv, NEW S \in SUBSET Txns, S # {}, Stuck(S),
                    \A d \in S, t \in S : ~DeletionMeets(d, t)
             PROVE  FALSE
  BY DEF DeadlockOnlyWithDeletion
<1> USE TenantMembershipAssumption
<1>0. TypeOK /\ TxnInv /\ AdvInv /\ AcctInv /\ LockInv /\ CheckedInv /\ RemovalStands
  BY DEF TenantInv, ControlInv, DataInv
<1>1. \A t \in S : \E s \in S \ {t} : Waits(t, s)
  BY DEF Stuck
<1>2. ASSUME NEW t \in S, NEW s \in Txns, Waits(t, s)
      PROVE  pc[t] \in {"adv", "account", "lock"}
               \/ (pc[t] = "write" /\ op[t] \in {"remove", "grant", "join", "upsert", "email", "delete"})
  BY <1>2 DEF Waits
<1>3. \A u \in Users, s \in Txns :
          acct[u] = s => /\ tgt[s] = u
                         /\ pc[s] \in {"scan", "lock", "write"}
                         /\ op[s] = "delete" => pc[s] = "write"
  <2> SUFFICES ASSUME NEW u \in Users, NEW s \in Txns, acct[u] = s
               PROVE  /\ tgt[s] = u
                      /\ pc[s] \in {"scan", "lock", "write"}
                      /\ op[s] = "delete" => pc[s] = "write"
    OBVIOUS
  <2>1. /\ tgt[s] = u
        /\ \/ op[s] = "restore" /\ pc[s] \in {"scan", "lock", "write"}
           \/ op[s] \in {"email", "delete"} /\ pc[s] = "write"
    BY <1>0 DEF AcctInv
  <2> QED
    BY <2>1
\* No removal waits for a deletion: the deletion would wait for the removal's row.
<1>4. ASSUME NEW t \in S, pc[t] = "write", op[t] = "remove" PROVE FALSE
  <2>1. PICK s \in S \ {t} : Waits(t, s)
    BY <1>1
  <2>2. acct[tgt[t]] = s /\ op[s] = "delete"
    BY <1>4, <2>1 DEF Waits
  <2>3. tgt[t] \in Users /\ lock[tgt[t]] = t
    BY <1>0, <1>4 DEF TxnInv, CheckedInv, Checked
  <2>4. tgt[s] = tgt[t] /\ pc[s] = "write" /\ Held(tgt[t])
    BY <1>0, <1>3, <2>2, <2>3 DEF LockInv
  <2>5. Waits(s, t)
    BY <2>2, <2>3, <2>4 DEF Waits
  <2> QED
    BY <1>4, <2>1, <2>2, <2>4, <2>5 DEF DeletionMeets
\* Nobody waits for a row.
<1>5. \A t \in S : pc[t] # "lock"
  <2> DEFINE F == {u \in Users : \E t \in S : pc[t] = "lock" /\ u \in First(t)
                                              /\ \E s \in S : lock[u] = s}
  <2>1. ASSUME NEW t \in S, pc[t] = "lock"
        PROVE  \E u \in First(t), s \in S : lock[u] = s /\ u \in Users
    <3>1. PICK s \in S \ {t} : Waits(t, s)
      BY <1>1
    <3>2. PICK u \in First(t) : lock[u] = s
      BY <2>1, <3>1 DEF Waits
    <3> QED
      BY <1>0, <3>2 DEF First, TypeOK
  <2>2. ASSUME NEW u \in F PROVE \E v \in F : u < v
    <3>1. PICK s \in S : lock[u] = s
      OBVIOUS
    <3>2. pc[s] \in {"lock", "write"} /\ op[s] \in Locking
      BY <1>0, <3>1 DEF LockInv
    <3>3. pc[s] = "lock"
      BY <1>1, <1>2, <1>4, <3>2 DEF Locking
    <3>4. PICK v \in First(s), x \in S : lock[v] = x /\ v \in Users
      BY <2>1, <3>3
    <3>5. u < v
      BY <1>0, <3>1, <3>3, <3>4 DEF LockInv, First
    <3>6. v \in F
      BY <3>3, <3>4
    <3> QED
      BY <3>5, <3>6
  <2>3. F = {}
    <3>1. F \in SUBSET Users
      OBVIOUS
    <3> HIDE DEF F
    <3> QED
      BY <2>2, <3>1, LastOf
  <2>4. ASSUME NEW t \in S, pc[t] = "lock" PROVE FALSE
    BY <2>1, <2>3, <2>4
  <2> QED
    BY <2>4
<1>6. ASSUME NEW u \in Users, NEW s \in S, lock[u] = s PROVE FALSE
  BY <1>0, <1>1, <1>2, <1>4, <1>5, <1>6 DEF LockInv, Locking
\* No deletion waits: the grant that holds the record would wait for the account.
<1>7. ASSUME NEW d \in S, pc[d] = "write", op[d] = "delete" PROVE FALSE
  <2>1. PICK t \in S \ {d} : Waits(d, t)
    BY <1>1
  <2>2. tgt[d] \in Users /\ acct[tgt[d]] = d
    BY <1>0, <1>7 DEF TxnInv, AcctInv
  <2>3. Clears(t, tgt[d])
    BY <1>6, <1>7, <2>1, <2>2 DEF Waits
  <2>4. /\ pc[t] = "write" /\ op[t] \in {"grant", "upsert"}
        /\ tgt[t] = tgt[d] /\ ~Held(tgt[t])
    BY <1>0, <2>3 DEF Clears, RemovalStands
  <2>5. Waits(t, d)
    BY <1>7, <2>2, <2>4 DEF Waits
  <2> QED
    BY <1>7, <2>1, <2>4, <2>5 DEF DeletionMeets
\* Nobody waits to write.
<1>8. \A t \in S : pc[t] # "write"
  <2> SUFFICES ASSUME NEW t \in S, pc[t] = "write" PROVE FALSE
    OBVIOUS
  <2>1. PICK s \in S \ {t} : Waits(t, s)
    BY <1>1
  <2>2. tgt[t] \in Users
    BY <1>0 DEF TxnInv
  <2>3. acct[tgt[t]] = s /\ op[s] = "delete"
    BY <1>4, <1>6, <1>7, <2>1, <2>2 DEF Waits
  <2> QED
    BY <1>3, <1>7, <2>2, <2>3
\* Nobody waits for an account, and so nobody for an advisory lock.
<1>9. \A t \in S : pc[t] # "account"
  <2> SUFFICES ASSUME NEW t \in S, pc[t] = "account" PROVE FALSE
    OBVIOUS
  <2>1. PICK s \in S \ {t} : Waits(t, s)
    BY <1>1
  <2>2. tgt[t] \in Users
    BY <1>0 DEF TxnInv
  <2>3. acct[tgt[t]] = s
    BY <2>1 DEF Waits
  <2>4. pc[s] \in {"scan", "lock", "write"}
    BY <1>3, <2>2, <2>3
  <2>5. PICK x \in S : Waits(s, x)
    BY <1>1
  <2> QED
    BY <1>2, <1>5, <1>8, <2>4, <2>5
<1>10. \A t \in S : pc[t] = "adv"
  BY <1>1, <1>2, <1>5, <1>8, <1>9
<1>11. PICK t \in S : TRUE
  OBVIOUS
<1>12. PICK s \in S \ {t} : Waits(t, s)
  BY <1>1
<1>13. tgt[t] \in Users /\ adv[tgt[t]] = s
  BY <1>0, <1>10, <1>12 DEF Waits, TxnInv
<1>14. pc[s] # "adv"
  BY <1>0, <1>13 DEF AdvInv
<1> QED
  BY <1>10, <1>14

\* However many sessions write memberships, emails and accounts at once, a circle of
\* waits contains the deletion of an account and a removal, grant or upsert of the
\* same person's membership that wait for each other (the FOREIGN KEYs of
\* tenant_memberships and tenant_member_removals): advisory lock, account and rows
\* by user_id are taken in one order by everything else.
THEOREM DeadlocksNeedADeletion == Spec => []DeadlockOnlyWithDeletion
  BY TenantInvAlways, EveryCycle, PTL

\* Without an account deletion under way nothing waits in a circle.
COROLLARY NoDeadlockWithoutDeletion ==
  Spec => []((\A t \in Txns : op[t] # "delete") => NoDeadlock)
<1>1. DeadlockOnlyWithDeletion /\ (\A t \in Txns : op[t] # "delete") => NoDeadlock
  BY DEF DeadlockOnlyWithDeletion, NoDeadlock, DeletionMeets
<1> QED
  BY <1>1, DeadlocksNeedADeletion, PTL

-----------------------------------------------------------------------------
(* AgentGrants: the inductive invariant.                                   *)

IssueOps == {"redeem", "rotate", "introspect", "exchange"}

Standing(x) == x.st = "approved" /\ ~x.revoked

\* Only a consent is decided; only an approved grant has a code, and only the one
\* that redeemed it refresh tokens, of which at most the last is unused.
GrantInv ==
    \A g \in Grants :
        /\ grant[g].st \notin {"none", "gone"} => grant[g].by \in {"consent", "machine"}
        /\ grant[g].st \in {"pending", "denied"} => grant[g].by = "consent"
        /\ grant[g].code # "none" => grant[g].st = "approved"
        /\ grant[g].code # "used" => grant[g].redeemed = 0 /\ tokens[g] = <<>>
        /\ grant[g].redeemed <= 1

TokenInv ==
    \A g \in Grants : \A i, j \in DOMAIN tokens[g] :
        ~tokens[g][i].used /\ ~tokens[g][j].used => i = j

\* A machine has one delegation for each agent.
DelegationInv == \A g, h \in Children : grant[g].agent = grant[h].agent => g = h

\* A grant that was not revoked is no older than the project's configuration.
EraInv == \A g \in Authorizations : ~grant[g].revoked => grant[g].era = project.ver

\* A copy in a cache was made less than its lifetime before it expires, and one of
\* a replaced configuration before that was replaced.
CacheInv ==
    \A k \in Slots :
        /\ cache[k].end <= now + ScopeTTL
        /\ cache[k].ver = project.ver \/ cache[k].end <= project.since + ScopeTTL

Served(q) ==
    /\ q.from <= now
    /\ q.scope.ver = project.ver \/ q.from < project.since + ScopeTTL

\* A request was served a copy that was not older than that.  One to issue is
\* about a grant that was approved, and once it is admitted either its login
\* policy is the current one or the grant was withdrawn.
Bound(q) ==
    q.ph \notin {"idle", "granted"} =>
        /\ Served(q)
        /\ q.op \in IssueOps \cup {"approve", "deny"} => q.g \in Grants
        /\ q.op \in IssueOps =>
              /\ grant[q.g].st \in {"approved", "gone"}
              /\ q.ph = "mutate" => q.ver = policy.ver \/ ~Standing(grant[q.g])

RequestInv == \A r \in Requests : Bound(req[r])

AgentInv ==
    /\ AgentTypeOK /\ GrantInv /\ TokenInv /\ DelegationInv /\ EraInv /\ CacheInv
    /\ RequestInv /\ LiveGrantHasAuthority

LEMMA AgentConstants ==
  /\ RequestLife \in Nat /\ CodeLife \in Nat /\ ConsentLife \in Nat /\ RefreshIdle \in Nat
  /\ ScopeTTL \in Nat \ {0}
  /\ MaxTokens \in Nat /\ MaxChanges \in Nat /\ MaxTime \in Nat
  /\ \A c \in Caps : c \in Nat
  BY AgentGrantsAssumption

LEMMA MinOfTwo == \A a, b \in Nat : Min({a, b}) \in Nat
<1> SUFFICES ASSUME NEW a \in Nat, NEW b \in Nat PROVE Min({a, b}) \in Nat
  OBVIOUS
<1>1. \E x \in {a, b} : \A y \in {a, b} : x <= y
  <2>1. CASE a <= b
    BY <2>1
  <2>2. CASE b <= a
    BY <2>2
  <2> QED
    BY <2>1, <2>2
<1> QED
  BY <1>1 DEF Min

LEMMA MinOfThree == \A a, b, c \in Nat : Min({a, b, c}) \in Nat
<1> SUFFICES ASSUME NEW a \in Nat, NEW b \in Nat, NEW c \in Nat PROVE Min({a, b, c}) \in Nat
  OBVIOUS
<1>1. \E x \in {a, b, c} : \A y \in {a, b, c} : x <= y
  <2>1. CASE a <= b /\ a <= c
    BY <2>1
  <2>2. CASE b <= a /\ b <= c
    BY <2>2
  <2>3. CASE c <= a /\ c <= b
    BY <2>3
  <2> QED
    BY <2>1, <2>2, <2>3
<1> QED
  BY <1>1 DEF Min

LEMMA FingerprintType ==
  ASSUME AgentTypeOK, NEW a, NEW s, NEW m
  PROVE  Fingerprint(a, s, m) \in {<<>>} \cup Fingerprints
<1>1. /\ owner \in {"good", "moved", "out"} /\ guardian \in BOOLEAN /\ client \in Clients
      /\ (IF a = None THEN None ELSE a \in active) \in BOOLEAN \cup {None}
      /\ (IF s = None THEN None ELSE s \in live) \in BOOLEAN \cup {None}
      /\ (IF m THEN machine ELSE None) \in Machine \cup {None}
  BY DEF AgentTypeOK
<1> QED
  BY <1>1 DEF Fingerprint, Fingerprints

LEMMA GrantExpiryType == AgentTypeOK => GrantExpiry \in Nat
<1> SUFFICES ASSUME AgentTypeOK PROVE GrantExpiry \in Nat
  OBVIOUS
<1>1. now \in Nat /\ policy.cap \in Nat
  BY AgentConstants DEF AgentTypeOK, Policies
<1>2. now + ConsentLife \in Nat
  BY <1>1, AgentConstants
<1> QED
  BY <1>1, <1>2, MinOfTwo DEF GrantExpiry

LEMMA NoGrantType == NoGrant \in Terms
  BY DEF NoGrant, Terms

LEMMA IdleType ==
  /\ Idle \in Memory
  /\ Idle.ph = "idle"
<1>1. NoScope \in Scopes
  BY DEF NoScope, Scopes
<1> QED
  BY <1>1, AgentGrantsAssumption DEF Idle, Memory

\* A request on its way remembers the scope it was served.
LEMMA OpenRequest ==
  ASSUME AgentInv, NEW r \in Requests, req[r].ph \notin {"idle", "granted"}
  PROVE  req[r] \in Memory /\ Served(req[r])
  BY DEF AgentInv, AgentTypeOK, RequestInv, Bound

LEMMA SameScope ==
  ASSUME NEW p, NEW q, q.from = p.from, q.scope = p.scope, Served(p)
  PROVE  Served(q)
  BY DEF Served

LEMMA InitAgentInv == AgentInit => AgentInv
<1> SUFFICES ASSUME AgentInit PROVE AgentInv
  OBVIOUS
<1> USE AgentGrantsAssumption
<1>1. AgentTypeOK
  <2>1. client \in Clients
    BY DEF AgentInit, Clients
  <2>2. policy \in Policies
    <3>1. PICK c \in Caps : policy = [ver |-> 0, cap |-> c]
      BY Zenon DEF AgentInit
    <3> QED
      BY <3>1 DEF Policies
  <2>8. project \in Projects /\ cache \in [Slots -> Copies]
    BY DEF AgentInit, Projects, Copies
  <2>3. machine \in Machine
    BY DEF AgentInit, Machine
  <2>4. grant \in [Grants -> Terms]
    BY NoGrantType DEF AgentInit
  <2>5. tokens \in [Grants -> Seq(Tokens)]
    BY DEF AgentInit
  <2>6. req \in [Requests -> Memory]
    BY IdleType DEF AgentInit
  <2>7. now \in 0..MaxTime /\ changes \in 0..MaxChanges
    BY AgentConstants DEF AgentInit
  <2> QED
    BY <2>1, <2>2, <2>3, <2>4, <2>5, <2>6, <2>7, <2>8 DEF AgentInit, AgentTypeOK
<1>2. GrantInv /\ TokenInv
  BY DEF AgentInit, GrantInv, TokenInv, NoGrant
<1>3. DelegationInv /\ LiveGrantHasAuthority
  BY DEF AgentInit, DelegationInv, LiveGrantHasAuthority, Live, Children, Authorizations, NoGrant
<1>4. RequestInv
  BY DEF AgentInit, RequestInv, Bound, Idle
<1>5. EraInv
  BY DEF AgentInit, EraInv, Authorizations, NoGrant
<1>6. CacheInv
  BY AgentConstants DEF AgentInit, CacheInv
<1> QED
  BY <1>1, <1>2, <1>3, <1>4, <1>5, <1>6 DEF AgentInv

-----------------------------------------------------------------------------
(* Steps of a request that change only what it remembers.                  *)

\* An answered request is free and remembers nothing.
LEMMA AnswerFrees ==
  ASSUME AgentTypeOK, NEW r \in Requests, NEW yes \in BOOLEAN, Answer(r, yes)
  PROVE  /\ req' \in [Requests -> Memory]
         /\ \A p \in Requests : req'[p] = req[p] \/ req'[p].ph \in {"idle", "granted"}
         /\ \A p \in Requests : p # r => req'[p] = req[p]
         /\ req'[r].ph = IF yes THEN "granted" ELSE "idle"
<1>1. req \in [Requests -> Memory] /\ req[r].op \in
        {None, "approve", "deny", "redeem", "rotate", "introspect", "exchange", "register", "enrol"}
  BY DEF AgentTypeOK, Memory
<1> DEFINE q == IF yes THEN [Idle EXCEPT !.ph = "granted", !.op = req[r].op] ELSE Idle
<1>2. q \in Memory /\ q.ph = IF yes THEN "granted" ELSE "idle"
  <2>1. CASE yes
    BY <1>1, <2>1, IdleType DEF Memory
  <2>2. CASE ~yes
    BY <2>2, IdleType
  <2> QED
    BY <2>1, <2>2
<1>3. req' = [req EXCEPT ![r] = q]
  BY DEF Answer
<1> HIDE DEF q
<1> QED
  BY <1>1, <1>2, <1>3

\* What the invariant says of tables that stay as they are.
LEMMA TablesKept ==
  ASSUME UNCHANGED <<world, machine, grant, tokens, now, changes>>
  PROVE  /\ GrantInv => GrantInv'
         /\ TokenInv => TokenInv'
         /\ DelegationInv => DelegationInv'
         /\ EraInv => EraInv'
         /\ CacheInv => CacheInv'
         /\ LiveGrantHasAuthority => LiveGrantHasAuthority'
         /\ \A q : Bound(q)' <=> Bound(q)
  BY DEF world, GrantInv, TokenInv, DelegationInv, LiveGrantHasAuthority, Live, Children,
       Authorizations, Valid, ValidMachine, Eligible, EraInv, CacheInv, Bound, Served, Standing

LEMMA MemoryStep ==
  ASSUME AgentInv, NEW r \in Requests, NEW q \in Memory, Bound(q),
         req' = [req EXCEPT ![r] = q],
         UNCHANGED <<world, machine, grant, tokens, now, changes>>
  PROVE  AgentInv'
<1>1. AgentTypeOK'
  BY DEF AgentInv, AgentTypeOK, world
<1>2. GrantInv' /\ TokenInv' /\ DelegationInv' /\ EraInv' /\ CacheInv' /\ LiveGrantHasAuthority'
  BY TablesKept DEF AgentInv
<1>3. RequestInv'
  <2>1. \A p \in Requests : Bound(req'[p])
    BY DEF AgentInv, RequestInv, AgentTypeOK
  <2> QED
    BY <2>1, TablesKept DEF RequestInv
<1> QED
  BY <1>1, <1>2, <1>3 DEF AgentInv

\* A request that is answered and changes nothing else.
LEMMA AnswerStep ==
  ASSUME AgentInv, NEW r \in Requests, NEW yes \in BOOLEAN, Answer(r, yes),
         UNCHANGED <<world, machine, grant, tokens, now, changes>>
  PROVE  AgentInv'
<1>1. AgentTypeOK'
  BY AnswerFrees DEF AgentInv, AgentTypeOK, world
<1>2. GrantInv' /\ TokenInv' /\ DelegationInv' /\ EraInv' /\ CacheInv' /\ LiveGrantHasAuthority'
  BY TablesKept DEF AgentInv
<1>3. RequestInv'
  <2>1. \A p \in Requests : Bound(req'[p])
    BY AnswerFrees DEF AgentInv, RequestInv, Bound
  <2> QED
    BY <2>1, TablesKept DEF RequestInv
<1> QED
  BY <1>1, <1>2, <1>3 DEF AgentInv

LEMMA DecideReadAgentInv ==
  ASSUME AgentInv, NEW r \in Requests, NEW g \in Asked, NEW a \in Agents \cup {None}, NEW s \in Sids,
         NEW o \in {"approve", "deny"}, DecideRead(r, g, a, s, o)
  PROVE  AgentInv'
<1> DEFINE q == [req[r] EXCEPT !.ph = IF o = "approve" THEN "admit" ELSE "mutate",
                    !.op = o, !.g = g, !.agent = a, !.sid = s, !.at = now,
                    !.fp = Fingerprint(a, s, FALSE)]
<1>1. /\ req' = [req EXCEPT ![r] = q] /\ req[r].ph = "arrived"
      /\ UNCHANGED <<world, machine, grant, tokens, now, changes>>
  BY DEF DecideRead
<1>5. req[r] \in Memory /\ Served(req[r])
  BY <1>1, OpenRequest
<1>2. Fingerprint(a, s, FALSE) \in {<<>>} \cup Fingerprints /\ now \in Nat /\ g \in Grants
  <2>1. Fingerprint(a, s, FALSE) \in {<<>>} \cup Fingerprints
    BY FingerprintType DEF AgentInv
  <2>2. now \in Nat
    BY AgentConstants DEF AgentInv, AgentTypeOK
  <2> QED
    BY <2>1, <2>2 DEF Grants
<1>3. /\ q \in Memory
      /\ q.ph \in {"admit", "mutate"} /\ q.op = o /\ q.g = g
      /\ q.from = req[r].from /\ q.scope = req[r].scope
  <2> DEFINE ph == IF o = "approve" THEN "admit" ELSE "mutate"
             fp == Fingerprint(a, s, FALSE)
  <2>1. ph \in {"admit", "mutate"}
    OBVIOUS
  <2>2. q = [req[r] EXCEPT !.ph = ph, !.op = o, !.g = g, !.agent = a, !.sid = s, !.at = now,
                         !.fp = fp]
    OBVIOUS
  <2>3. fp \in {<<>>} \cup Fingerprints
    BY <1>2
  <2> HIDE DEF ph, fp, q
  <2> QED
    BY <1>2, <1>5, <2>1, <2>2, <2>3 DEF Memory
<1> HIDE DEF q
<1>4. Bound(q)
  BY <1>2, <1>3, <1>5, SameScope DEF Bound, IssueOps
<1> QED
  BY <1>1, <1>3, <1>4, MemoryStep

LEMMA DecideAdmitAgentInv ==
  ASSUME AgentInv, NEW r \in Requests, DecideAdmit(r)
  PROVE  AgentInv'
<1>1. /\ req[r].ph = "admit" /\ req[r].op = "approve"
      /\ UNCHANGED <<world, machine, grant, tokens, now, changes>>
  BY DEF DecideAdmit
<1>2. CASE ~req[r].scope.admits
  BY <1>1, <1>2, AnswerStep DEF DecideAdmit
<1>3. CASE req[r].scope.admits
  <2> DEFINE q == [req[r] EXCEPT !.ph = "mutate", !.exp = GrantExpiry, !.ver = policy.ver]
  <2>1. req' = [req EXCEPT ![r] = q]
    BY <1>3 DEF DecideAdmit
  <2>2. req[r] \in Memory /\ policy.ver \in Nat /\ GrantExpiry \in Nat
    BY GrantExpiryType DEF AgentInv, AgentTypeOK, Policies
  <2>3. q \in Memory /\ q.ph = "mutate" /\ q.op = "approve" /\ q.g = req[r].g
       /\ q.from = req[r].from /\ q.scope = req[r].scope
    BY <1>1, <2>2 DEF Memory
  <2>4. req[r].g \in Grants /\ Served(req[r])
    BY <1>1 DEF AgentInv, RequestInv, Bound
  <2> HIDE DEF q
  <2>5. Bound(q)
    BY <2>3, <2>4, SameScope DEF Bound, IssueOps
  <2> QED
    BY <1>1, <2>1, <2>3, <2>5, MemoryStep
<1> QED
  BY <1>2, <1>3

\* Who asks to issue anything asks of a grant that was approved.
LEMMA AskedWasApproved ==
  ASSUME AgentInv, NEW g \in Authorizations, NEW o \in IssueOps, NEW i, MayAsk(g, o, i)
  PROVE  grant[g].st = "approved"
<1>1. g \in Grants /\ grant[g].st \notin {"none", "gone"}
  BY DEF Authorizations
<1>2. /\ grant[g].code # "none" => grant[g].st = "approved"
      /\ grant[g].code # "used" => grant[g].redeemed = 0 /\ tokens[g] = <<>>
      /\ grant[g].st \in {"pending", "denied"} => grant[g].by = "consent"
      /\ grant[g].st \in {"none", "pending", "approved", "denied", "gone"}
  BY <1>1 DEF AgentInv, GrantInv, AgentTypeOK, Terms
<1>3. CASE o = "redeem"
  BY <1>2, <1>3 DEF MayAsk
<1>4. CASE o = "rotate"
  <2>1. i \in DOMAIN tokens[g]
    BY <1>4 DEF MayAsk
  <2>2. tokens[g] # <<>>
    BY <2>1
  <2> QED
    BY <1>2, <2>2
<1>5. CASE o = "introspect"
  <2>1. grant[g].redeemed > 0 \/ grant[g].by = "machine"
    BY <1>5 DEF MayAsk
  <2> QED
    BY <1>1, <1>2, <2>1
<1>6. CASE o = "exchange"
  <2>1. grant[g].by = "machine"
    BY <1>6 DEF MayAsk
  <2> QED
    BY <1>1, <1>2, <2>1
<1> QED
  BY <1>3, <1>4, <1>5, <1>6 DEF IssueOps

LEMMA IssueReadAgentInv ==
  ASSUME AgentInv, NEW r \in Requests, NEW g \in Grants, NEW o \in IssueOps, NEW i \in 0..MaxTokens,
         IssueRead(r, g, o, i)
  PROVE  AgentInv'
<1> DEFINE x == grant[g]
           dead == ~Valid(x) \/ (x.by = "consent" /\ x.exp <= now)
           fp == Fingerprint(x.agent, x.sid, x.by = "machine")
           q == [req[r] EXCEPT !.ph = IF dead THEN "invalidate" ELSE "admit",
                        !.op = o, !.g = g, !.i = i, !.at = now, !.fp = fp]
<1>1. /\ g \in Authorizations /\ MayAsk(g, o, i)
      /\ req' = [req EXCEPT ![r] = q] /\ req[r].ph = "arrived"
      /\ UNCHANGED <<world, machine, grant, tokens, now, changes>>
  BY DEF IssueRead
<1>2. grant[g].st = "approved"
  BY <1>1, AskedWasApproved
<1>3. fp \in {<<>>} \cup Fingerprints /\ now \in Nat
  BY FingerprintType, AgentConstants DEF AgentInv, AgentTypeOK
<1> HIDE DEF fp, dead
<1>6. req[r] \in Memory /\ Served(req[r])
  BY <1>1, OpenRequest
<1>4. /\ q \in Memory /\ q.ph \in {"invalidate", "admit"} /\ q.op = o /\ q.g = g
      /\ q.from = req[r].from /\ q.scope = req[r].scope
  <2> DEFINE ph == IF dead THEN "invalidate" ELSE "admit"
  <2>1. ph \in {"invalidate", "admit"}
    OBVIOUS
  <2>2. o \in {None, "approve", "deny", "redeem", "rotate", "introspect", "exchange", "register",
               "enrol"}
    BY DEF IssueOps
  <2>3. q = [req[r] EXCEPT !.ph = ph, !.op = o, !.g = g, !.i = i, !.at = now, !.fp = fp]
    OBVIOUS
  <2> HIDE DEF ph, q
  <2> QED
    BY <1>3, <1>6, <2>1, <2>2, <2>3 DEF Memory
<1> HIDE DEF q
<1>5. Bound(q)
  BY <1>2, <1>4, <1>6, SameScope DEF Bound
<1> QED
  BY <1>1, <1>4, <1>5, MemoryStep

LEMMA IssueAdmitAgentInv ==
  ASSUME AgentInv, NEW r \in Requests, IssueAdmit(r)
  PROVE  AgentInv'
<1> DEFINE x == grant[req[r].g]
           refused == ~req[r].scope.admits \/ (x.by = "consent" /\ GrantExpiry <= now)
           ends == IF x.by = "machine" THEN "invalidate machine" ELSE "invalidate"
<1>1. /\ req[r].ph = "admit" /\ req[r].op \in IssueOps
      /\ UNCHANGED <<world, machine, grant, tokens, now, changes>>
  BY DEF IssueAdmit, IssueOps
<1>2. req[r] \in Memory /\ req[r].g \in Grants /\ x.st \in {"approved", "gone"} /\ Served(req[r])
  BY <1>1 DEF AgentInv, AgentTypeOK, RequestInv, Bound
<1>3. CASE refused
  <2> DEFINE q == [req[r] EXCEPT !.ph = ends]
  <2>1. req' = [req EXCEPT ![r] = q]
    BY <1>3 DEF IssueAdmit
  <2>2. ends \in {"invalidate", "invalidate machine"}
    OBVIOUS
  <2> HIDE DEF ends
  <2>3. /\ q \in Memory /\ q.ph = ends /\ q.op = req[r].op /\ q.g = req[r].g
        /\ q.from = req[r].from /\ q.scope = req[r].scope
    BY <1>2, <2>2 DEF Memory
  <2> HIDE DEF q
  <2>4. Bound(q)
    BY <1>2, <2>2, <2>3, SameScope DEF Bound
  <2> QED
    BY <1>1, <2>1, <2>3, <2>4, MemoryStep
<1>4. CASE ~refused /\ req[r].op \in {"redeem", "rotate"} /\ x.exp <= now
  BY <1>1, <1>4, AnswerStep DEF IssueAdmit
<1>5. CASE ~refused /\ ~(req[r].op \in {"redeem", "rotate"} /\ x.exp <= now)
  <2> DEFINE at == IF req[r].op = "exchange" THEN req[r].at ELSE now
             exp == Min({x.exp, GrantExpiry, now + RefreshIdle})
             q == [req[r] EXCEPT !.ph = "mutate", !.ver = policy.ver, !.at = at, !.exp = exp]
  <2>1. req' = [req EXCEPT ![r] = q]
    BY <1>5 DEF IssueAdmit
  <2>2. x.exp \in Nat /\ now \in Nat /\ policy.ver \in Nat
    BY <1>2, AgentConstants DEF AgentInv, AgentTypeOK, Policies, Terms
  <2>3. now + RefreshIdle \in Nat /\ GrantExpiry \in Nat
    BY <2>2, AgentConstants, GrantExpiryType DEF AgentInv
  <2>4. exp \in Nat
    BY <2>2, <2>3, MinOfThree
  <2>5. at \in Nat
    BY <1>2, <2>2 DEF Memory
  <2> HIDE DEF exp, at
  <2>6. /\ q \in Memory /\ q.ph = "mutate" /\ q.op = req[r].op /\ q.g = req[r].g
        /\ q.ver = policy.ver /\ q.from = req[r].from /\ q.scope = req[r].scope
    BY <1>2, <2>2, <2>4, <2>5 DEF Memory
  <2> HIDE DEF q
  <2>7. Bound(q)
    BY <1>2, <2>6, SameScope DEF Bound
  <2> QED
    BY <1>1, <2>1, <2>6, <2>7, MemoryStep
<1> QED
  BY <1>3, <1>4, <1>5

LEMMA ValidateAgentInv ==
  ASSUME AgentInv, NEW r \in Requests, Validate(r)
  PROVE  AgentInv'
  BY AnswerStep DEF Validate, Stands

LEMMA RegisterReadAgentInv ==
  ASSUME AgentInv, NEW r \in Requests, NEW s \in Sids, RegisterRead(r, s)
  PROVE  AgentInv'
<1> DEFINE fp == Fingerprint(None, s, FALSE)
           q == [req[r] EXCEPT !.ph = "mutate", !.op = "register", !.sid = s, !.fp = fp]
<1>1. /\ req' = [req EXCEPT ![r] = q] /\ req[r].ph = "arrived"
      /\ UNCHANGED <<world, machine, grant, tokens, now, changes>>
  BY DEF RegisterRead
<1>2. fp \in {<<>>} \cup Fingerprints
  BY FingerprintType DEF AgentInv
<1>3. req[r] \in Memory /\ Served(req[r])
  BY <1>1, OpenRequest
<1> HIDE DEF fp
<1>4. q \in Memory /\ q.op = "register" /\ q.from = req[r].from /\ q.scope = req[r].scope
  BY <1>2, <1>3 DEF Memory
<1> HIDE DEF q
<1>5. Bound(q)
  BY <1>3, <1>4, SameScope DEF Bound, IssueOps
<1> QED
  BY <1>1, <1>4, <1>5, MemoryStep

LEMMA EnrolReadAgentInv ==
  ASSUME AgentInv, NEW r \in Requests, NEW a \in Agents, EnrolRead(r, a)
  PROVE  AgentInv'
<1> DEFINE fp == Fingerprint(a, None, TRUE)
           ph == IF req[r].scope.admits THEN "mutate" ELSE "invalidate machine"
           q == [req[r] EXCEPT !.ph = ph, !.op = "enrol", !.agent = a, !.fp = fp]
<1>1. /\ req' = [req EXCEPT ![r] = q] /\ req[r].ph = "arrived"
      /\ UNCHANGED <<world, machine, grant, tokens, now, changes>>
  BY DEF EnrolRead
<1>2. fp \in {<<>>} \cup Fingerprints /\ ph \in {"mutate", "invalidate machine"}
  BY FingerprintType DEF AgentInv
<1>3. req[r] \in Memory /\ Served(req[r])
  BY <1>1, OpenRequest
<1> HIDE DEF fp, ph
<1>4. q \in Memory /\ q.op = "enrol" /\ q.from = req[r].from /\ q.scope = req[r].scope
  BY <1>2, <1>3 DEF Memory
<1> HIDE DEF q
<1>5. Bound(q)
  BY <1>3, <1>4, SameScope DEF Bound, IssueOps
<1> QED
  BY <1>1, <1>4, <1>5, MemoryStep

\* A request that arrives is served an entry that has not expired, or a new one.
LEMMA ArriveAgentInv ==
  ASSUME AgentInv, NEW r \in Requests, NEW k \in Slots, Arrive(r, k)
  PROVE  AgentInv'
<1> DEFINE e == IF Serves(cache[k]) THEN cache[k]
                ELSE [ver |-> project.ver, admits |-> project.admits, end |-> now + ScopeTTL]
           sc == [ver |-> e.ver, admits |-> e.admits]
           q == [Idle EXCEPT !.ph = "arrived", !.from = now, !.scope = sc]
<1>1. /\ cache' = [cache EXCEPT ![k] = e] /\ req' = [req EXCEPT ![r] = q]
      /\ UNCHANGED <<owner, guardian, active, live, client, policy, project, machine, grant,
                     tokens, now, changes>>
  BY DEF Arrive
<1>2. /\ cache \in [Slots -> Copies] /\ project \in Projects /\ now \in Nat
      /\ req \in [Requests -> Memory]
  BY AgentConstants DEF AgentInv, AgentTypeOK
<1>3. /\ e \in Copies /\ e.end > now /\ e.end <= now + ScopeTTL
      /\ e.ver = project.ver \/ e.end <= project.since + ScopeTTL
  <2>1. CASE Serves(cache[k])
    BY <1>2, <2>1 DEF Serves, AgentInv, CacheInv, Copies
  <2>2. CASE ~Serves(cache[k])
    <3>1. e = [ver |-> project.ver, admits |-> project.admits, end |-> now + ScopeTTL]
      BY <2>2
    <3>2. project.ver \in Nat /\ project.admits \in BOOLEAN /\ now + ScopeTTL \in Nat
          /\ now + ScopeTTL > now
      BY <1>2, AgentConstants DEF Projects
    <3> HIDE DEF e
    <3> QED
      BY <3>1, <3>2 DEF Copies
  <2> QED
    BY <2>1, <2>2
<1> HIDE DEF e
<1>4. sc \in Scopes /\ sc.ver = e.ver
  BY <1>3 DEF Scopes, Copies
<1> HIDE DEF sc
<1>5. q \in Memory /\ q.ph = "arrived" /\ q.op = None /\ q.from = now /\ q.scope = sc
  <2>1. Idle \in Memory /\ Idle.op = None
    BY IdleType DEF Idle
  <2> QED
    BY <1>2, <1>4, <2>1 DEF Memory
<1> HIDE DEF q
<1>6. Served(q)
  <2>1. e.end \in Nat /\ project.since \in Nat
    BY <1>2, <1>3 DEF Copies, Projects
  <2> QED
    BY <1>2, <1>3, <1>4, <1>5, <2>1, AgentConstants DEF Served
<1>7. Bound(q)
  BY <1>5, <1>6, AgentGrantsAssumption DEF Bound, IssueOps
<1>8. AgentTypeOK'
  <2>1. cache' \in [Slots -> Copies] /\ req' \in [Requests -> Memory]
    BY <1>1, <1>2, <1>3, <1>5
  <2> QED
    BY <1>1, <2>1 DEF AgentInv, AgentTypeOK
<1>9. GrantInv' /\ TokenInv' /\ DelegationInv' /\ EraInv' /\ LiveGrantHasAuthority'
  BY <1>1 DEF AgentInv, GrantInv, TokenInv, DelegationInv, EraInv, LiveGrantHasAuthority, Live,
       Children, Authorizations, Valid, ValidMachine, Eligible
<1>10. CacheInv'
  BY <1>1, <1>2, <1>3 DEF AgentInv, CacheInv
<1>11. RequestInv'
  <2>1. \A p \in Requests : Bound(req'[p])
    BY <1>1, <1>2, <1>7 DEF AgentInv, RequestInv
  <2> QED
    BY <1>1, <2>1 DEF RequestInv, Bound, Served, Standing
<1> QED
  BY <1>8, <1>9, <1>10, <1>11 DEF AgentInv

LEMMA LoseAgentInv ==
  ASSUME AgentInv, NEW r \in Requests, Lose(r)
  PROVE  AgentInv'
<1>1. Idle \in Memory /\ Bound(Idle)
  BY IdleType DEF Bound
<1> QED
  BY <1>1, MemoryStep DEF Lose

-----------------------------------------------------------------------------
(* Steps that withdraw grants.                                             *)

\* What was served is not too old because the project changes now.
LEMMA ServedKept ==
  ASSUME AgentInv, now' = now, project' = project \/ project'.since = now,
         NEW r \in Requests, Served(req[r])
  PROVE  req[r].from <= now' /\ (req[r].scope.ver = project'.ver
                                   \/ req[r].from < project'.since + ScopeTTL)
<1>1. req[r] \in Memory /\ now \in Nat
  BY AgentConstants DEF AgentInv, AgentTypeOK
<1>2. req[r].from \in Nat
  BY <1>1 DEF Memory
<1> QED
  BY <1>1, <1>2, AgentConstants DEF Served

\* A request stays bound when no grant comes back and a change of the policy
\* leaves no grant standing.
LEMMA RequestsKept ==
  ASSUME AgentInv, now' = now, project' = project \/ project'.since = now,
         \A p \in Requests : req'[p] = req[p] \/ req'[p].ph \in {"idle", "granted"},
         \A g \in Grants : grant[g].st \in {"approved", "gone"} =>
             /\ grant'[g].st \in {"approved", "gone"}
             /\ ~Standing(grant[g]) => ~Standing(grant'[g])
             /\ policy'.ver = policy.ver \/ ~Standing(grant'[g])
  PROVE  RequestInv'
<1> SUFFICES ASSUME NEW r \in Requests PROVE Bound(req[r])'
  BY DEF RequestInv
<1>1. CASE req'[r].ph \in {"idle", "granted"}
  BY <1>1 DEF Bound
<1>2. CASE req'[r] = req[r] /\ req[r].ph \notin {"idle", "granted"}
  <2>4. Served(req[r])
    BY <1>2 DEF AgentInv, RequestInv, Bound
  <2>5. Served(req[r])'
    BY <1>2, <2>4, ServedKept DEF Served
  <2>1. /\ req[r].op \in IssueOps \cup {"approve", "deny"} => req[r].g \in Grants
        /\ req[r].op \in IssueOps =>
              /\ grant[req[r].g].st \in {"approved", "gone"}
              /\ req[r].ph = "mutate" => req[r].ver = policy.ver \/ ~Standing(grant[req[r].g])
    BY <1>2 DEF AgentInv, RequestInv, Bound
  <2>2. CASE req[r].op \in IssueOps
    <3> DEFINE x == grant[req[r].g]
               y == grant'[req[r].g]
    <3>1. /\ req[r].g \in Grants
          /\ y.st \in {"approved", "gone"}
          /\ ~Standing(x) => ~Standing(y)
          /\ policy'.ver = policy.ver \/ ~Standing(y)
          /\ req[r].ph = "mutate" => req[r].ver = policy.ver \/ ~Standing(x)
      BY <2>1, <2>2
    <3>2. req[r].ph = "mutate" => req[r].ver = policy'.ver \/ ~Standing(y)
      BY <3>1
    <3>3. Standing(y) <=> Standing(grant[req[r].g])'
      BY <1>2 DEF Standing
    <3> QED
      BY <1>2, <2>2, <2>5, <3>1, <3>2, <3>3 DEF Bound
  <2>3. CASE req[r].op \notin IssueOps
    BY <1>2, <2>1, <2>3, <2>5 DEF Bound
  <2> QED
    BY <2>2, <2>3
<1> QED
  BY <1>1, <1>2

\* What a revocation does to the rows.
LEMMA RevokedRows ==
  ASSUME AgentTypeOK, NEW S, Revoke(S)
  PROVE  /\ grant' \in [Grants -> Terms]
         /\ \A g \in Grants : g \notin S => grant'[g] = grant[g]
         /\ \A g \in Grants : g \in S => grant'[g].revoked
         /\ \A g \in Grants : /\ grant'[g].st = grant[g].st
                              /\ grant'[g].by = grant[g].by
                              /\ grant'[g].agent = grant[g].agent
                              /\ grant'[g].code = grant[g].code
                              /\ grant'[g].redeemed = grant[g].redeemed
                              /\ grant[g].revoked => grant'[g].revoked
<1>1. grant \in [Grants -> Terms]
  BY DEF AgentTypeOK
<1>2. grant' = [g \in Grants |-> IF g \in S THEN [grant[g] EXCEPT !.revoked = TRUE] ELSE grant[g]]
  BY DEF Revoke
<1>3. ASSUME NEW g \in Grants
      PROVE  /\ grant'[g] \in Terms
             /\ g \notin S => grant'[g] = grant[g]
             /\ g \in S => grant'[g].revoked
             /\ grant'[g].st = grant[g].st
             /\ grant'[g].by = grant[g].by
             /\ grant'[g].agent = grant[g].agent
             /\ grant'[g].code = grant[g].code
             /\ grant'[g].redeemed = grant[g].redeemed
             /\ grant[g].revoked => grant'[g].revoked
  <2>1. grant[g] \in Terms
    BY <1>1
  <2>2. CASE g \in S
    <3>1. grant'[g] = [grant[g] EXCEPT !.revoked = TRUE]
      BY <1>2, <2>2
    <3> QED
      BY <2>1, <2>2, <3>1 DEF Terms
  <2>3. CASE g \notin S
    <3>1. grant'[g] = grant[g]
      BY <1>2, <2>3
    <3> QED
      BY <2>1, <2>3, <3>1
  <2> QED
    BY <2>2, <2>3
<1>4. grant' \in [Grants -> Terms]
  BY <1>2, <1>3
<1> QED
  BY <1>3, <1>4

\* A step that revokes grants and forgets requests keeps the invariant, when the
\* grants it spares keep their authority, a change of the login policy spares none
\* that has an owner and a change of the project none at all.
LEMMA RevokeStep ==
  ASSUME AgentInv, AgentTypeOK', NEW S, Revoke(S), tokens' = tokens,
         \A p \in Requests : req'[p] = req[p] \/ req'[p].ph \in {"idle", "granted"},
         policy'.ver = policy.ver \/ Owned \subseteq S, now' = now, cache' = cache,
         project' = project \/ (project'.since = now /\ Authorizations \subseteq S),
         \A g \in Live : g \notin S => Valid(grant[g])'
  PROVE  AgentInv'
<1>1. AgentTypeOK
  BY DEF AgentInv
<1>2. GrantInv'
  <2> SUFFICES ASSUME NEW g \in Grants
               PROVE  (/\ grant[g].st \notin {"none", "gone"} => grant[g].by \in {"consent", "machine"}
                       /\ grant[g].st \in {"pending", "denied"} => grant[g].by = "consent"
                       /\ grant[g].code # "none" => grant[g].st = "approved"
                       /\ grant[g].code # "used" => grant[g].redeemed = 0 /\ tokens[g] = <<>>
                       /\ grant[g].redeemed <= 1)'
    BY DEF GrantInv
  <2>1. /\ grant'[g].st = grant[g].st /\ grant'[g].by = grant[g].by
        /\ grant'[g].code = grant[g].code /\ grant'[g].redeemed = grant[g].redeemed
    BY <1>1, RevokedRows
  <2> QED
    BY <2>1 DEF AgentInv, GrantInv
<1>3. TokenInv'
  BY DEF AgentInv, TokenInv
<1>4. DelegationInv'
  <2>1. \A g \in Grants : g \in Children' <=> g \in Children
    BY <1>1, RevokedRows DEF Children, Authorizations
  <2>2. \A g \in Children' : g \in Grants
    BY DEF Children, Authorizations
  <2>3. \A g \in Grants : grant'[g].agent = grant[g].agent
    BY <1>1, RevokedRows
  <2> QED
    BY <2>1, <2>2, <2>3 DEF AgentInv, DelegationInv
<1>5. RequestInv'
  <2>1. ASSUME NEW g \in Grants, grant[g].st \in {"approved", "gone"}
        PROVE  /\ grant'[g].st \in {"approved", "gone"}
               /\ ~Standing(grant[g]) => ~Standing(grant'[g])
               /\ policy'.ver = policy.ver \/ ~Standing(grant'[g])
    <3>1. grant'[g].st = grant[g].st /\ (grant[g].revoked => grant'[g].revoked)
      BY <1>1, RevokedRows
    <3>2. CASE policy'.ver = policy.ver
      BY <2>1, <3>1, <3>2 DEF Standing
    <3>3. CASE Owned \subseteq S /\ grant[g].st = "approved"
      <4>1. g \in S
        BY <3>3 DEF Owned, Authorizations
      <4>2. grant'[g].revoked
        BY <1>1, <4>1, RevokedRows
      <4> QED
        BY <2>1, <3>1, <4>2 DEF Standing
    <3>4. CASE grant[g].st = "gone"
      BY <3>1, <3>4 DEF Standing
    <3> QED
      BY <2>1, <3>2, <3>3, <3>4
  <2> QED
    BY <2>1, RequestsKept
<1>6. LiveGrantHasAuthority'
  <2> SUFFICES ASSUME NEW g \in Live' PROVE Valid(grant[g])'
    BY DEF LiveGrantHasAuthority
  <2>1. g \in Grants /\ grant'[g].st = "approved" /\ ~grant'[g].revoked
    BY DEF Live, Authorizations
  <2>2. g \notin S /\ grant'[g] = grant[g]
    BY <1>1, <2>1, RevokedRows
  <2>3. g \in Live
    BY <2>1, <2>2 DEF Live, Authorizations
  <2> QED
    BY <2>2, <2>3
<1>7. EraInv'
  <2> SUFFICES ASSUME NEW g \in Authorizations', ~grant'[g].revoked
               PROVE  grant'[g].era = project'.ver
    BY DEF EraInv
  <2>1. g \in Grants /\ grant'[g].st \notin {"none", "gone"}
    BY DEF Authorizations
  <2>2. g \notin S /\ grant'[g] = grant[g]
    BY <1>1, <2>1, RevokedRows
  <2>3. g \in Authorizations
    BY <2>1, <2>2 DEF Authorizations
  <2> QED
    BY <2>2, <2>3 DEF AgentInv, EraInv
<1>8. CacheInv'
  BY AgentConstants DEF AgentInv, AgentTypeOK, CacheInv
<1> QED
  BY <1>2, <1>3, <1>4, <1>5, <1>6, <1>7, <1>8 DEF AgentInv

\* A grant that stands has its authority, and a row that is spared is the same.
LEMMA SparedGrant ==
  ASSUME AgentInv, NEW S, Revoke(S), NEW g \in Live, g \notin S
  PROVE  g \in Grants /\ grant'[g] = grant[g] /\ Valid(grant[g]) /\ g \in Authorizations /\ g \in Owned
         /\ grant[g].by \in {"consent", "machine"}
<1>1. g \in Grants /\ g \in Authorizations /\ grant[g].st = "approved"
  BY DEF Live, Authorizations
<1> QED
  BY <1>1, RevokedRows DEF AgentInv, LiveGrantHasAuthority, Owned, GrantInv

LEMMA MachineRevokedType ==
  AgentTypeOK => MachineRevoked \in Machine /\ MachineRevoked.st # "live"
<1> SUFFICES ASSUME AgentTypeOK PROVE MachineRevoked \in Machine /\ MachineRevoked.st # "live"
  OBVIOUS
<1>1. machine \in Machine
  BY DEF AgentTypeOK
<1>2. CASE machine.st = "live"
  <2>1. machine.rev + 1 \in Nat
    BY <1>1 DEF Machine
  <2>2. MachineRevoked = [machine EXCEPT !.st = "revoked", !.rev = machine.rev + 1]
    BY <1>2 DEF MachineRevoked
  <2> QED
    BY <1>1, <2>1, <2>2 DEF Machine
<1>3. CASE machine.st # "live"
  BY <1>1, <1>3 DEF MachineRevoked
<1> QED
  BY <1>2, <1>3

LEMMA InvalidateAgentInv ==
  ASSUME AgentInv, NEW r \in Requests, Invalidate(r)
  PROVE  AgentInv'
<1> DEFINE S == {req[r].g} \cap Authorizations
<1>1. /\ Answer(r, FALSE) /\ Revoke(S)
      /\ UNCHANGED <<world, machine, tokens, now, changes>>
  BY DEF Invalidate
<1> HIDE DEF S
<1>2. AgentTypeOK
  BY DEF AgentInv
<1>3. /\ req' \in [Requests -> Memory]
      /\ \A p \in Requests : req'[p] = req[p] \/ req'[p].ph \in {"idle", "granted"}
  BY <1>1, <1>2, AnswerFrees
<1>4. grant' \in [Grants -> Terms]
  BY <1>1, <1>2, RevokedRows
<1>5. AgentTypeOK'
  BY <1>1, <1>2, <1>3, <1>4 DEF AgentTypeOK, world
<1>6. ASSUME NEW g \in Live, g \notin S PROVE Valid(grant[g])'
  <2>1. grant'[g] = grant[g] /\ Valid(grant[g])
    BY <1>1, <1>6, SparedGrant
  <2> QED
    BY <1>1, <2>1 DEF Valid, ValidMachine, Eligible, world
<1>7. policy' = policy /\ project' = project /\ cache' = cache /\ now' = now /\ tokens' = tokens
  BY <1>1 DEF world
<1> QED
  BY <1>1, <1>3, <1>5, <1>6, <1>7, RevokeStep

LEMMA InvalidateMachineAgentInv ==
  ASSUME AgentInv, NEW r \in Requests, InvalidateMachine(r)
  PROVE  AgentInv'
<1>1. /\ Answer(r, FALSE) /\ Revoke(Children) /\ machine' = MachineRevoked
      /\ UNCHANGED <<world, tokens, now, changes>>
  BY DEF InvalidateMachine
<1>2. AgentTypeOK
  BY DEF AgentInv
<1>3. /\ req' \in [Requests -> Memory]
      /\ \A p \in Requests : req'[p] = req[p] \/ req'[p].ph \in {"idle", "granted"}
  BY <1>1, <1>2, AnswerFrees
<1>4. grant' \in [Grants -> Terms] /\ machine' \in Machine
  BY <1>1, <1>2, RevokedRows, MachineRevokedType
<1>5. AgentTypeOK'
  BY <1>1, <1>2, <1>3, <1>4 DEF AgentTypeOK, world
<1>6. ASSUME NEW g \in Live, g \notin Children PROVE Valid(grant[g])'
  <2>1. grant'[g] = grant[g] /\ Valid(grant[g]) /\ g \in Authorizations
    BY <1>1, <1>6, SparedGrant
  <2>2. grant[g].by # "machine"
    BY <1>6, <2>1 DEF Children
  <2> QED
    BY <1>1, <2>1, <2>2 DEF Valid, Eligible, world
<1>7. policy' = policy /\ project' = project /\ cache' = cache /\ now' = now /\ tokens' = tokens
  BY <1>1 DEF world
<1> QED
  BY <1>1, <1>3, <1>5, <1>6, <1>7, RevokeStep

LEMMA SelectMachineAgentsAgentInv ==
  ASSUME AgentInv, NEW s \in Sids, NEW sel \in SUBSET Agents, SelectMachineAgents(s, sel)
  PROVE  AgentInv'
<1> DEFINE S == {g \in Children : grant[g].agent \notin sel}
<1>1. /\ Revoke(S) /\ machine' = [machine EXCEPT !.sel = sel, !.rev = @ + 1]
      /\ changes < MaxChanges /\ changes' = changes + 1
      /\ UNCHANGED <<world, tokens, now, req>>
  BY DEF SelectMachineAgents
<1>2. AgentTypeOK
  BY DEF AgentInv
<1>3. \A g \in Children : grant[g].agent \notin sel => g \in S
  OBVIOUS
<1> HIDE DEF S
<1>4. machine \in Machine /\ machine' \in Machine
  <2>1. machine \in Machine
    BY <1>2 DEF AgentTypeOK
  <2>2. machine.rev + 1 \in Nat /\ sel \in SUBSET Agents
    BY <2>1 DEF Machine
  <2>3. machine' = [machine EXCEPT !.sel = sel, !.rev = machine.rev + 1]
    BY <1>1
  <2> QED
    BY <2>1, <2>2, <2>3 DEF Machine
<1>5. machine'.st = machine.st /\ machine'.crev = machine.crev /\ machine'.sel = sel
  BY <1>1, <1>4 DEF Machine
<1>6. grant' \in [Grants -> Terms]
  BY <1>1, <1>2, RevokedRows
<1>7. changes' \in 0..MaxChanges
  BY <1>1, <1>2, AgentConstants DEF AgentTypeOK
<1>8. AgentTypeOK'
  BY <1>1, <1>2, <1>4, <1>6, <1>7 DEF AgentTypeOK, world
<1>9. ASSUME NEW g \in Live, g \notin S PROVE Valid(grant[g])'
  <2>1. grant'[g] = grant[g] /\ Valid(grant[g]) /\ g \in Authorizations
    BY <1>1, <1>9, SparedGrant
  <2>2. grant[g].by = "machine" => grant[g].agent \in sel
    BY <1>3, <1>9, <2>1 DEF Children
  <2> QED
    BY <1>1, <1>5, <2>1, <2>2 DEF Valid, ValidMachine, Eligible, world
<1>10. /\ policy' = policy /\ project' = project /\ cache' = cache /\ now' = now
      /\ tokens' = tokens /\ req' = req
  BY <1>1 DEF world
<1> QED
  BY <1>1, <1>8, <1>9, <1>10, RevokeStep

LEMMA RevokeMachineAgentInv ==
  ASSUME AgentInv, NEW s \in Sids, RevokeMachine(s)
  PROVE  AgentInv'
<1>1. /\ Revoke(Children) /\ machine' = MachineRevoked
      /\ changes < MaxChanges /\ changes' = changes + 1
      /\ UNCHANGED <<world, tokens, now, req>>
  BY DEF RevokeMachine
<1>2. AgentTypeOK
  BY DEF AgentInv
<1>3. grant' \in [Grants -> Terms] /\ machine' \in Machine
  BY <1>1, <1>2, RevokedRows, MachineRevokedType
<1>4. changes' \in 0..MaxChanges
  BY <1>1, <1>2, AgentConstants DEF AgentTypeOK
<1>5. AgentTypeOK'
  BY <1>1, <1>2, <1>3, <1>4 DEF AgentTypeOK, world
<1>6. ASSUME NEW g \in Live, g \notin Children PROVE Valid(grant[g])'
  <2>1. grant'[g] = grant[g] /\ Valid(grant[g]) /\ g \in Authorizations
    BY <1>1, <1>6, SparedGrant
  <2>2. grant[g].by # "machine"
    BY <1>6, <2>1 DEF Children
  <2> QED
    BY <1>1, <2>1, <2>2 DEF Valid, Eligible, world
<1>7. /\ policy' = policy /\ project' = project /\ cache' = cache /\ now' = now
      /\ tokens' = tokens /\ req' = req
  BY <1>1 DEF world
<1> QED
  BY <1>1, <1>5, <1>6, <1>7, RevokeStep

LEMMA RevokeGrantAgentInv ==
  ASSUME AgentInv, NEW h \in Grants, RevokeGrant(h)
  PROVE  AgentInv'
<1>1. /\ Revoke({h}) /\ changes < MaxChanges /\ changes' = changes + 1
      /\ UNCHANGED <<world, machine, tokens, now, req>>
  BY DEF RevokeGrant
<1>2. AgentTypeOK
  BY DEF AgentInv
<1>3. grant' \in [Grants -> Terms]
  BY <1>1, <1>2, RevokedRows
<1>4. changes' \in 0..MaxChanges
  BY <1>1, <1>2, AgentConstants DEF AgentTypeOK
<1>5. AgentTypeOK'
  BY <1>1, <1>2, <1>3, <1>4 DEF AgentTypeOK, world
<1>6. ASSUME NEW g \in Live, g \notin {h} PROVE Valid(grant[g])'
  <2>1. grant'[g] = grant[g] /\ Valid(grant[g])
    BY <1>1, <1>6, SparedGrant
  <2> QED
    BY <1>1, <2>1 DEF Valid, ValidMachine, Eligible, world
<1>7. /\ policy' = policy /\ project' = project /\ cache' = cache /\ now' = now
      /\ tokens' = tokens /\ req' = req
  BY <1>1 DEF world
<1> QED
  BY <1>1, <1>5, <1>6, <1>7, RevokeStep

-----------------------------------------------------------------------------
(* Changes of the world, with the triggers they fire.                      *)

LEMMA WithdrawStep ==
  ASSUME AgentInv, NEW S, NEW M \in BOOLEAN, Withdraw(S, M),
         owner' \in {"good", "moved", "out"}, guardian' \in BOOLEAN, active' \in SUBSET Agents,
         live' \in SUBSET Sids, client' \in Clients,
         policy' \in Policies, project' \in Projects, cache' = cache,
         project' = project \/ (project'.since = now /\ Authorizations \subseteq S),
         policy'.ver = policy.ver \/ Owned \subseteq S,
         \A g \in Live : g \notin S => Valid(grant[g])'
  PROVE  AgentInv'
<1>1. /\ changes < MaxChanges /\ changes' = changes + 1
      /\ machine' = (IF M THEN MachineRevoked ELSE machine)
      /\ Revoke(S) /\ UNCHANGED <<tokens, now, req>>
  BY DEF Withdraw
<1>2. AgentTypeOK
  BY DEF AgentInv
<1>3. grant' \in [Grants -> Terms]
  BY <1>1, <1>2, RevokedRows
<1>4. machine' \in Machine
  BY <1>1, <1>2, MachineRevokedType DEF AgentTypeOK
<1>5. changes' \in 0..MaxChanges
  BY <1>1, <1>2, AgentConstants DEF AgentTypeOK
<1>6. AgentTypeOK'
  BY <1>1, <1>2, <1>3, <1>4, <1>5 DEF AgentTypeOK
<1> QED
  BY <1>1, <1>6, RevokeStep

\* A change that withdraws every grant that has an owner spares none.
LEMMA WithdrawAllStep ==
  ASSUME AgentInv, NEW S, NEW M \in BOOLEAN, Withdraw(S, M), Owned \subseteq S,
         owner' \in {"good", "moved", "out"}, guardian' \in BOOLEAN, active' \in SUBSET Agents,
         live' \in SUBSET Sids, client' \in Clients,
         policy' \in Policies, project' \in Projects, cache' = cache,
         project' = project \/ (project'.since = now /\ Authorizations \subseteq S)
  PROVE  AgentInv'
<1>1. Revoke(S)
  BY DEF Withdraw
<1>2. \A g \in Live : g \notin S => FALSE
  BY DEF Live, Owned
<1> QED
  BY <1>2, WithdrawStep

LEMMA ChangeOwnerAgentInv ==
  ASSUME AgentInv, NEW o \in {"good", "moved", "out"}, ChangeOwner(o)
  PROVE  AgentInv'
<1>1. Withdraw(Owned, TRUE)
  BY DEF ChangeOwner
<1>2. /\ owner' \in {"good", "moved", "out"} /\ guardian' \in BOOLEAN /\ active' \in SUBSET Agents
      /\ live' \in SUBSET Sids /\ client' \in Clients
      /\ policy' \in Policies /\ project' \in Projects /\ project' = project /\ cache' = cache
  BY DEF ChangeOwner, AgentInv, AgentTypeOK
<1> QED
  BY <1>1, <1>2, WithdrawAllStep

LEMMA ChangeAgentAgentInv ==
  ASSUME AgentInv, NEW a \in Agents, ChangeAgent(a)
  PROVE  AgentInv'
<1> DEFINE S == {g \in Authorizations : grant[g].agent = a}
<1>1. /\ Withdraw(S, FALSE)
      /\ active' = (IF a \in active THEN active \ {a} ELSE active \cup {a})
      /\ UNCHANGED <<owner, guardian, live, client, policy, project, cache>>
  BY DEF ChangeAgent
<1>2. \A g \in Authorizations : g \notin S => grant[g].agent # a
  OBVIOUS
<1> HIDE DEF S
<1>3. /\ owner' \in {"good", "moved", "out"} /\ guardian' \in BOOLEAN /\ active' \in SUBSET Agents
      /\ live' \in SUBSET Sids /\ client' \in Clients
      /\ policy' \in Policies /\ project' \in Projects /\ project' = project /\ cache' = cache
  BY <1>1 DEF AgentInv, AgentTypeOK
<1>4. Revoke(S) /\ machine' = machine
  BY <1>1 DEF Withdraw
<1>5. ASSUME NEW g \in Live, g \notin S PROVE Valid(grant[g])'
  <2>1. grant'[g] = grant[g] /\ Valid(grant[g]) /\ g \in Authorizations
    BY <1>4, <1>5, SparedGrant
  <2>2. grant[g].agent # a
    BY <1>2, <1>5, <2>1
  <2>3. grant[g].agent \in active => grant[g].agent \in active'
    BY <1>1, <2>2
  <2> QED
    BY <1>1, <1>4, <2>1, <2>3 DEF Valid, ValidMachine, Eligible
<1> QED
  BY <1>1, <1>3, <1>5, WithdrawStep

LEMMA EndSessionAgentInv ==
  ASSUME AgentInv, NEW s \in Sids, EndSession(s)
  PROVE  AgentInv'
<1>1. /\ Withdraw(OfSession(s), FALSE)
      /\ live' = live \ {s}
      /\ UNCHANGED <<owner, guardian, active, client, policy, project, cache>>
  BY DEF EndSession
<1>2. /\ owner' \in {"good", "moved", "out"} /\ guardian' \in BOOLEAN /\ active' \in SUBSET Agents
      /\ live' \in SUBSET Sids /\ client' \in Clients
      /\ policy' \in Policies /\ project' \in Projects /\ project' = project /\ cache' = cache
  BY <1>1 DEF AgentInv, AgentTypeOK
<1>3. Revoke(OfSession(s)) /\ machine' = machine
  BY <1>1 DEF Withdraw
<1>4. ASSUME NEW g \in Live, g \notin OfSession(s) PROVE Valid(grant[g])'
  <2>1. /\ grant'[g] = grant[g] /\ Valid(grant[g]) /\ g \in Authorizations
        /\ grant[g].by \in {"consent", "machine"}
    BY <1>3, <1>4, SparedGrant
  <2>2. grant[g].by # "machine" => grant[g].sid # s
    BY <1>4, <2>1 DEF OfSession
  <2> QED
    BY <1>1, <1>3, <2>1, <2>2 DEF Valid, ValidMachine, Eligible
<1> QED
  BY <1>1, <1>2, <1>4, WithdrawStep

LEMMA DropRefreshRowAgentInv ==
  ASSUME AgentInv, NEW s \in Sids, DropRefreshRow(s)
  PROVE  AgentInv'
<1>1. /\ Withdraw(OfSession(s), FALSE)
      /\ UNCHANGED <<owner, guardian, active, live, client, policy, project, cache>>
  BY DEF DropRefreshRow, world
<1>2. /\ owner' \in {"good", "moved", "out"} /\ guardian' \in BOOLEAN /\ active' \in SUBSET Agents
      /\ live' \in SUBSET Sids /\ client' \in Clients
      /\ policy' \in Policies /\ project' \in Projects /\ project' = project /\ cache' = cache
  BY <1>1 DEF AgentInv, AgentTypeOK
<1>3. Revoke(OfSession(s)) /\ machine' = machine
  BY <1>1 DEF Withdraw
<1>4. ASSUME NEW g \in Live, g \notin OfSession(s) PROVE Valid(grant[g])'
  <2>1. grant'[g] = grant[g] /\ Valid(grant[g])
    BY <1>3, <1>4, SparedGrant
  <2> QED
    BY <1>1, <1>3, <2>1 DEF Valid, ValidMachine, Eligible
<1> QED
  BY <1>1, <1>2, <1>4, WithdrawStep

LEMMA ChangeClientAgentInv ==
  ASSUME AgentInv, NEW reg \in Regs, ChangeClient(reg)
  PROVE  AgentInv'
<1>1. /\ Withdraw(Authorizations, TRUE)
      /\ client' = [rev |-> client.rev + 1, reg |-> reg]
      /\ UNCHANGED <<owner, guardian, active, live, policy, project, cache>>
  BY DEF ChangeClient
<1>2. client' \in Clients
  BY <1>1 DEF AgentInv, AgentTypeOK, Clients
<1>3. /\ owner' \in {"good", "moved", "out"} /\ guardian' \in BOOLEAN /\ active' \in SUBSET Agents
      /\ live' \in SUBSET Sids
      /\ policy' \in Policies /\ project' \in Projects /\ project' = project /\ cache' = cache
  BY <1>1 DEF AgentInv, AgentTypeOK
<1>4. Owned \subseteq Authorizations
  BY DEF Owned
<1> QED
  BY <1>1, <1>2, <1>3, <1>4, WithdrawAllStep

LEMMA ChangeGuardianAgentInv ==
  ASSUME AgentInv, ChangeGuardian
  PROVE  AgentInv'
<1> DEFINE S == IF guardian THEN Owned ELSE {}
<1>1. /\ Withdraw(S, guardian)
      /\ guardian' = ~guardian
      /\ UNCHANGED <<owner, active, live, client, policy, project, cache>>
  BY DEF ChangeGuardian
<1>2. /\ owner' \in {"good", "moved", "out"} /\ active' \in SUBSET Agents
      /\ live' \in SUBSET Sids /\ client' \in Clients
      /\ policy' \in Policies /\ project' \in Projects /\ project' = project /\ cache' = cache
  BY <1>1 DEF AgentInv, AgentTypeOK
<1>3. guardian \in BOOLEAN /\ guardian' \in BOOLEAN
  BY <1>1 DEF AgentInv, AgentTypeOK
<1>4. CASE guardian
  <2>1. Owned \subseteq S
    BY <1>4
  <2> HIDE DEF S
  <2> QED
    BY <1>1, <1>2, <1>3, <2>1, WithdrawAllStep
<1>5. CASE ~guardian
  <2>1. Revoke(S) /\ machine' = machine
    BY <1>1, <1>5 DEF Withdraw
  <2> HIDE DEF S
  <2>2. ASSUME NEW g \in Live, g \notin S PROVE Valid(grant[g])'
    <3>1. grant'[g] = grant[g] /\ Valid(grant[g])
      BY <2>1, <2>2, SparedGrant
    <3> QED
      BY <1>1, <2>1, <3>1 DEF Valid, ValidMachine, Eligible
  <2> QED
    BY <1>1, <1>2, <1>3, <2>2, WithdrawStep
<1> QED
  BY <1>4, <1>5

LEMMA ChangeProjectAgentInv ==
  ASSUME AgentInv, NEW admits \in BOOLEAN, ChangeProject(admits)
  PROVE  AgentInv'
<1>1. /\ Withdraw(Authorizations, TRUE)
      /\ project' = [ver |-> project.ver + 1, admits |-> admits, since |-> now]
  BY DEF ChangeProject
<1>2. /\ owner' \in {"good", "moved", "out"} /\ guardian' \in BOOLEAN /\ active' \in SUBSET Agents
      /\ live' \in SUBSET Sids /\ client' \in Clients /\ policy' \in Policies /\ cache' = cache
  BY DEF ChangeProject, AgentInv, AgentTypeOK
<1>3. project' \in Projects /\ project'.since = now
  <2>1. project.ver + 1 \in Nat /\ now \in Nat
    BY AgentConstants DEF AgentInv, AgentTypeOK, Projects
  <2> QED
    BY <1>1, <2>1 DEF Projects
<1>4. Owned \subseteq Authorizations
  BY DEF Owned
<1> QED
  BY <1>1, <1>2, <1>3, <1>4, WithdrawAllStep

LEMMA PolicyType ==
  ASSUME AgentInv, NEW cap \in Caps
  PROVE  Policy(cap) \in Policies
<1>1. policy.ver + 1 \in Nat
  BY DEF AgentInv, AgentTypeOK, Policies
<1> QED
  BY <1>1 DEF Policy, Policies

LEMMA ChangePolicyAgentInv ==
  ASSUME AgentInv, NEW cap \in Caps, ChangePolicy(cap)
  PROVE  AgentInv'
<1>1. Withdraw(Authorizations, TRUE) /\ policy' = Policy(cap)
  BY DEF ChangePolicy
<1>2. /\ owner' \in {"good", "moved", "out"} /\ guardian' \in BOOLEAN /\ active' \in SUBSET Agents
      /\ live' \in SUBSET Sids /\ client' \in Clients
      /\ project' \in Projects /\ project' = project /\ cache' = cache
  BY DEF ChangePolicy, AgentInv, AgentTypeOK
<1>3. Owned \subseteq Authorizations
  BY DEF Owned
<1> QED
  BY <1>1, <1>2, <1>3, PolicyType, WithdrawAllStep

LEMMA ChangeGovernanceAgentInv ==
  ASSUME AgentInv, NEW cap \in Caps, ChangeGovernance(cap)
  PROVE  AgentInv'
<1>1. Withdraw(Owned, TRUE) /\ policy' = Policy(cap)
  BY DEF ChangeGovernance
<1>2. /\ owner' \in {"good", "moved", "out"} /\ guardian' \in BOOLEAN /\ active' \in SUBSET Agents
      /\ live' \in SUBSET Sids /\ client' \in Clients
      /\ project' \in Projects /\ project' = project /\ cache' = cache
  BY DEF ChangeGovernance, AgentInv, AgentTypeOK
<1> QED
  BY <1>1, <1>2, PolicyType, WithdrawAllStep

-----------------------------------------------------------------------------
(* Steps that write one grant and its refresh tokens.                      *)

\* At most one of the tokens is unused.
OneUnused(tk) == \A i, j \in DOMAIN tk : ~tk[i].used /\ ~tk[j].used => i = j

LEMMA OneRowStep ==
  ASSUME AgentInv, NEW h \in Grants, NEW x \in Terms, NEW tk \in Seq(Tokens), OneUnused(tk),
         grant' = [grant EXCEPT ![h] = x], tokens' = [tokens EXCEPT ![h] = tk],
         UNCHANGED <<world, machine, now, changes>>, req' \in [Requests -> Memory],
         \A p \in Requests : req'[p] = req[p] \/ req'[p].ph \in {"idle", "granted"},
         x.st \notin {"none", "gone"} => x.by \in {"consent", "machine"},
         x.st \in {"pending", "denied"} => x.by = "consent",
         x.code # "none" => x.st = "approved",
         x.code # "used" => x.redeemed = 0 /\ tk = <<>>,
         x.redeemed <= 1,
         x.by = "machine" => \A g \in Children : g # h => grant[g].agent # x.agent,
         x.st = "approved" /\ ~x.revoked => Valid(x),
         x.st \notin {"none", "gone"} /\ ~x.revoked => x.era = project.ver,
         grant[h].st \in {"approved", "gone"} =>
             x.st \in {"approved", "gone"} /\ (~Standing(grant[h]) => ~Standing(x))
  PROVE  AgentInv'
<1>1. AgentTypeOK /\ grant \in [Grants -> Terms] /\ tokens \in [Grants -> Seq(Tokens)]
  BY DEF AgentInv, AgentTypeOK
<1>2. /\ grant' \in [Grants -> Terms] /\ tokens' \in [Grants -> Seq(Tokens)]
      /\ grant'[h] = x /\ tokens'[h] = tk
      /\ \A g \in Grants : g # h => grant'[g] = grant[g] /\ tokens'[g] = tokens[g]
  BY <1>1
<1>3. AgentTypeOK'
  BY <1>1, <1>2 DEF AgentTypeOK, world
<1>4. GrantInv'
  <2> SUFFICES ASSUME NEW g \in Grants
               PROVE  (/\ grant[g].st \notin {"none", "gone"} => grant[g].by \in {"consent", "machine"}
                       /\ grant[g].st \in {"pending", "denied"} => grant[g].by = "consent"
                       /\ grant[g].code # "none" => grant[g].st = "approved"
                       /\ grant[g].code # "used" => grant[g].redeemed = 0 /\ tokens[g] = <<>>
                       /\ grant[g].redeemed <= 1)'
    BY DEF GrantInv
  <2>1. CASE g = h
    BY <1>2, <2>1
  <2>2. CASE g # h
    BY <1>2, <2>2 DEF AgentInv, GrantInv
  <2> QED
    BY <2>1, <2>2
<1>5. TokenInv'
  <2> SUFFICES ASSUME NEW g \in Grants PROVE OneUnused(tokens[g])'
    BY DEF TokenInv, OneUnused
  <2>1. CASE g = h
    BY <1>2, <2>1 DEF OneUnused
  <2>2. CASE g # h
    BY <1>2, <2>2 DEF AgentInv, TokenInv, OneUnused
  <2> QED
    BY <2>1, <2>2
<1>6. DelegationInv'
  <2> SUFFICES ASSUME NEW g \in Children', NEW f \in Children', grant'[g].agent = grant'[f].agent
               PROVE  g = f
    BY DEF DelegationInv
  <2>1. /\ g \in Grants /\ grant'[g].by = "machine" /\ grant'[g].st \notin {"none", "gone"}
        /\ f \in Grants /\ grant'[f].by = "machine" /\ grant'[f].st \notin {"none", "gone"}
    BY DEF Children, Authorizations
  <2>2. g # h => g \in Children /\ grant'[g] = grant[g]
    BY <1>2, <2>1 DEF Children, Authorizations
  <2>3. f # h => f \in Children /\ grant'[f] = grant[f]
    BY <1>2, <2>1 DEF Children, Authorizations
  <2>4. CASE g # h /\ f # h
    BY <2>2, <2>3, <2>4 DEF AgentInv, DelegationInv
  <2>5. CASE g # h /\ f = h
    BY <1>2, <2>1, <2>2, <2>5
  <2>6. CASE g = h /\ f # h
    BY <1>2, <2>1, <2>3, <2>6
  <2> QED
    BY <2>4, <2>5, <2>6
<1>7. RequestInv'
  <2>1. ASSUME NEW g \in Grants, grant[g].st \in {"approved", "gone"}
        PROVE  /\ grant'[g].st \in {"approved", "gone"}
               /\ ~Standing(grant[g]) => ~Standing(grant'[g])
    <3>1. CASE g = h
      BY <1>2, <2>1, <3>1
    <3>2. CASE g # h
      BY <1>2, <2>1, <3>2
    <3> QED
      BY <3>1, <3>2
  <2>2. policy' = policy /\ project' = project /\ now' = now
    BY DEF world
  <2> QED
    BY <2>1, <2>2, RequestsKept
<1>8. LiveGrantHasAuthority'
  <2> SUFFICES ASSUME NEW g \in Live' PROVE Valid(grant[g])'
    BY DEF LiveGrantHasAuthority
  <2>1. g \in Grants /\ grant'[g].st = "approved" /\ ~grant'[g].revoked
    BY DEF Live, Authorizations
  <2>2. Valid(grant'[g])
    <3>1. CASE g = h
      BY <1>2, <2>1, <3>1
    <3>2. CASE g # h
      <4>1. g \in Live /\ grant'[g] = grant[g]
        BY <1>2, <2>1, <3>2 DEF Live, Authorizations
      <4> QED
        BY <4>1 DEF AgentInv, LiveGrantHasAuthority
    <3> QED
      BY <3>1, <3>2
  <2> QED
    BY <2>2 DEF Valid, ValidMachine, Eligible, world
<1>9. EraInv'
  <2> SUFFICES ASSUME NEW g \in Authorizations', ~grant'[g].revoked
               PROVE  grant'[g].era = project.ver
    BY DEF EraInv, world
  <2>1. g \in Grants /\ grant'[g].st \notin {"none", "gone"}
    BY DEF Authorizations
  <2>2. CASE g = h
    BY <1>2, <2>1, <2>2
  <2>3. CASE g # h
    <3>1. grant'[g] = grant[g] /\ g \in Authorizations
      BY <1>2, <2>1, <2>3 DEF Authorizations
    <3> QED
      BY <3>1 DEF AgentInv, EraInv
  <2> QED
    BY <2>2, <2>3
<1>10. CacheInv'
  BY DEF AgentInv, CacheInv, world
<1> QED
  BY <1>3, <1>4, <1>5, <1>6, <1>7, <1>8, <1>9, <1>10 DEF AgentInv

\* Writing back the tokens a grant has.
LEMMA SameTokens ==
  ASSUME AgentInv, NEW h \in Grants
  PROVE  /\ tokens = [tokens EXCEPT ![h] = tokens[h]]
         /\ tokens[h] \in Seq(Tokens) /\ OneUnused(tokens[h])
<1>1. tokens \in [Grants -> Seq(Tokens)]
  BY DEF AgentInv, AgentTypeOK
<1>2. OneUnused(tokens[h])
  BY DEF AgentInv, TokenInv, OneUnused
<1> QED
  BY <1>1, <1>2

LEMMA StartAgentInv ==
  ASSUME AgentInv, NEW h \in Asked, Start(h)
  PROVE  AgentInv'
<1> DEFINE x == [NoGrant EXCEPT !.st = "pending", !.by = "consent", !.crev = client.rev,
                                !.due = now + RequestLife, !.era = project.ver]
<1>1. /\ grant[h].st = "none" /\ grant' = [grant EXCEPT ![h] = x]
      /\ UNCHANGED <<world, machine, tokens, now, changes, req>>
  BY DEF Start
<1>2. h \in Grants
  BY DEF Grants
<1>3. client.rev \in Nat /\ project.ver \in Nat
  BY DEF AgentInv, AgentTypeOK, Clients, Projects
<1>4. now \in Nat
  BY AgentConstants DEF AgentInv, AgentTypeOK
<1>5. now + RequestLife \in Nat
  BY <1>4, AgentConstants
<1>6. /\ x \in Terms /\ x.st = "pending" /\ x.by = "consent" /\ x.code = "none" /\ x.redeemed = 0
      /\ x.era = project.ver
  BY <1>3, <1>5 DEF NoGrant, Terms
<1>7. tokens[h] = <<>>
  BY <1>1, <1>2 DEF AgentInv, GrantInv
<1>8. tokens' = [tokens EXCEPT ![h] = tokens[h]] /\ tokens[h] \in Seq(Tokens) /\ OneUnused(tokens[h])
  BY <1>1, <1>2, SameTokens
<1>9. req' = req /\ req' \in [Requests -> Memory]
  BY <1>1 DEF AgentInv, AgentTypeOK
<1> DEFINE tk == tokens[h]
<1> HIDE DEF x
<1>10. /\ tk \in Seq(Tokens) /\ OneUnused(tk) /\ tokens' = [tokens EXCEPT ![h] = tk]
       /\ x.redeemed <= 1 /\ tk = <<>>
  BY <1>6, <1>7, <1>8
<1>11. /\ UNCHANGED <<world, machine, now, changes>>
       /\ \A p \in Requests : req'[p] = req[p] \/ req'[p].ph \in {"idle", "granted"}
  BY <1>1
<1> HIDE DEF tk
<1> QED
  BY <1>1, <1>2, <1>6, <1>9, <1>10, <1>11, OneRowStep

LEMMA DecideMutateAgentInv ==
  ASSUME AgentInv, NEW r \in Requests, DecideMutate(r)
  PROVE  AgentInv'
<1> DEFINE q == req[r]
           h == req[r].g
<1>1. /\ q.ph = "mutate" /\ q.op \in {"approve", "deny"} /\ Answer(r, ConsentStands(q))
      /\ UNCHANGED <<world, machine, tokens, now, changes>>
  BY DEF DecideMutate
<1>2. h \in Grants /\ q \in Memory
  BY <1>1 DEF AgentInv, RequestInv, Bound, AgentTypeOK
<1>3. ConsentStands(q) \in BOOLEAN
  BY DEF ConsentStands
<1>4. CASE ~ConsentStands(q)
  <2>1. grant' = grant
    BY <1>4 DEF DecideMutate
  <2> HIDE DEF q
  <2> QED
    BY <1>1, <1>3, <2>1, AnswerStep
<1>5. CASE ConsentStands(q)
  <2> DEFINE d == Decided(q)
             x == IF q.op = "deny" THEN [d EXCEPT !.st = "denied"]
                  ELSE [d EXCEPT !.st = "approved", !.exp = q.exp, !.code = "out",
                                 !.codeExp = CodeExpiry(q)]
  <2>1. Answer(r, TRUE) /\ grant' = [grant EXCEPT ![h] = x]
    BY <1>1, <1>5 DEF DecideMutate
  <2>2. grant[h] \in Terms /\ grant[h].st = "pending" /\ ~grant[h].revoked
    BY <1>2, <1>5 DEF AgentInv, AgentTypeOK, ConsentStands
  <2>16. grant[h].era = project.ver
    BY <1>2, <2>2 DEF AgentInv, EraInv, Authorizations
  <2>3. /\ grant[h].by = "consent" /\ grant[h].code = "none"
        /\ grant[h].redeemed = 0 /\ tokens[h] = <<>>
    <3>1. /\ grant[h].st \in {"pending", "denied"} => grant[h].by = "consent"
          /\ grant[h].code # "none" => grant[h].st = "approved"
          /\ grant[h].code # "used" => grant[h].redeemed = 0 /\ tokens[h] = <<>>
      BY <1>2 DEF AgentInv, GrantInv
    <3> QED
      BY <2>2, <3>1
  <2>4. q.agent \in Agents \cup {None} /\ q.sid \in Sids \cup {None} /\ q.exp \in Nat /\ q.at \in Nat
    BY <1>2 DEF Memory
  <2>5. d = [grant[h] EXCEPT !.agent = q.agent, !.sid = q.sid]
    BY DEF Decided
  <2>6. /\ d \in Terms /\ d.st = "pending" /\ d.by = "consent" /\ d.code = "none" /\ d.redeemed = 0
        /\ d.crev = grant[h].crev /\ d.agent = q.agent /\ d.sid = q.sid
        /\ d.era = grant[h].era
    BY <2>2, <2>3, <2>4, <2>5 DEF Terms
  <2>7. CodeExpiry(q) \in Nat
    <3>1. grant[h].due \in Nat
      BY <2>2 DEF Terms
    <3>2. q.at + CodeLife \in Nat
      BY <2>4, AgentConstants
    <3> QED
      BY <3>1, <3>2, MinOfTwo DEF CodeExpiry
  <2>8. q.op = "approve" => Valid(d)
    BY <1>1, <1>5 DEF ConsentStands
  <2> HIDE DEF d
  <2>9. /\ x \in Terms /\ x.by = "consent" /\ x.redeemed = 0
        /\ x.agent = d.agent /\ x.sid = d.sid /\ x.crev = d.crev /\ x.era = d.era
        /\ x.code \in {"none", "out"} /\ x.st \in {"approved", "denied"}
        /\ x.code # "none" => x.st = "approved"
        /\ x.st = "approved" => q.op = "approve"
    <3>1. CASE q.op = "deny"
      <4>1. x = [d EXCEPT !.st = "denied"]
        BY <3>1
      <4> HIDE DEF x
      <4> QED
        BY <2>6, <3>1, <4>1 DEF Terms
    <3>2. CASE q.op = "approve"
      <4>1. x = [d EXCEPT !.st = "approved", !.exp = q.exp, !.code = "out",
                          !.codeExp = CodeExpiry(q)]
        BY <3>2
      <4> HIDE DEF x
      <4> QED
        BY <2>4, <2>6, <2>7, <3>2, <4>1 DEF Terms
    <3> QED
      BY <1>1, <3>1, <3>2
  <2> HIDE DEF x
  <2>10. x.st = "approved" => Valid(x)
    BY <2>6, <2>8, <2>9 DEF Valid
  <2>11. /\ req' \in [Requests -> Memory]
         /\ \A p \in Requests : req'[p] = req[p] \/ req'[p].ph \in {"idle", "granted"}
    BY <2>1, AnswerFrees DEF AgentInv
  <2>12. /\ tokens' = [tokens EXCEPT ![h] = tokens[h]] /\ tokens[h] \in Seq(Tokens)
         /\ OneUnused(tokens[h])
    BY <1>1, <1>2, SameTokens
  <2> DEFINE tk == tokens[h]
  <2>13. /\ tk \in Seq(Tokens) /\ OneUnused(tk) /\ tokens' = [tokens EXCEPT ![h] = tk]
         /\ x.redeemed <= 1 /\ tk = <<>>
    BY <2>3, <2>9, <2>12
  <2>14. UNCHANGED <<world, machine, now, changes>>
    BY <1>1
  <2>15. /\ x.st \notin {"none", "gone", "pending"} /\ (x.st = "denied" => x.by = "consent")
         /\ x.era = project.ver
    BY <2>6, <2>9, <2>16
  <2> HIDE DEF tk, h
  <2> QED
    BY <1>2, <2>1, <2>2, <2>9, <2>10, <2>11, <2>13, <2>14, <2>15, OneRowStep
<1> QED
  BY <1>4, <1>5

\* A machine's delegations are for different agents.
LEMMA OtherAgents ==
  ASSUME AgentInv, NEW h \in Grants, grant[h].st \notin {"none", "gone"}, grant[h].by = "machine"
  PROVE  \A g \in Children : g # h => grant[g].agent # grant[h].agent
<1>1. h \in Children
  BY DEF Children, Authorizations
<1> QED
  BY <1>1 DEF AgentInv, DelegationInv

LEMMA RedeemMutateAgentInv ==
  ASSUME AgentInv, NEW r \in Requests, RedeemMutate(r)
  PROVE  AgentInv'
<1> DEFINE q == req[r]
           h == req[r].g
           ok == /\ Stands(q) /\ grant[h].code = "out" /\ grant[h].codeExp > q.at
                 /\ "refresh" \in client.reg => q.exp > q.at
<1>1. /\ q.ph = "mutate" /\ q.op = "redeem" /\ Answer(r, ok)
      /\ UNCHANGED <<world, machine, now, changes>>
  BY DEF RedeemMutate
<1>2. h \in Grants /\ q \in Memory
  BY <1>1 DEF AgentInv, RequestInv, Bound, AgentTypeOK, IssueOps
<1>3. ok \in BOOLEAN
  OBVIOUS
<1>4. CASE ~ok
  <2>1. grant' = grant /\ tokens' = tokens
    BY <1>4 DEF RedeemMutate
  <2> HIDE DEF ok
  <2> QED
    BY <1>1, <1>3, <2>1, AnswerStep
<1>5. CASE ok
  <2> DEFINE x == [grant[h] EXCEPT !.code = "used", !.redeemed = grant[h].redeemed + 1]
             tk == NextTokens(q, tokens[h])
  <2>1. /\ grant \in [Grants -> Terms] /\ grant[h] \in Terms
        /\ tokens \in [Grants -> Seq(Tokens)]
    BY <1>2 DEF AgentInv, AgentTypeOK
  <2>2. grant' = [grant EXCEPT ![h] = x] /\ tokens' = [tokens EXCEPT ![h] = tk]
    BY <1>5, <2>1 DEF RedeemMutate
  <2>3. grant[h].st = "approved" /\ Valid(grant[h]) /\ grant[h].code = "out" /\ ~grant[h].revoked
    BY <1>5 DEF Stands
  <2>4. grant[h].redeemed = 0 /\ tokens[h] = <<>> /\ grant[h].by \in {"consent", "machine"}
    BY <1>2, <2>3 DEF AgentInv, GrantInv
  <2>5. /\ x \in Terms /\ x.st = "approved" /\ x.by = grant[h].by /\ x.code = "used"
        /\ x.redeemed = 1 /\ x.agent = grant[h].agent /\ x.sid = grant[h].sid
        /\ x.crev = grant[h].crev /\ x.era = grant[h].era
    <3>1. x = [grant[h] EXCEPT !.code = "used", !.redeemed = 1]
      BY <2>4
    <3> HIDE DEF x
    <3> QED
      BY <2>1, <2>3, <3>1 DEF Terms
  <2>6. tk \in Seq(Tokens) /\ OneUnused(tk)
    <3>1. q.exp \in Nat
      BY <1>2 DEF Memory
    <3>2. [exp |-> q.exp, used |-> FALSE] \in Tokens
      BY <3>1 DEF Tokens
    <3> DEFINE t == [exp |-> q.exp, used |-> FALSE]
    <3>3. CASE "refresh" \in client.reg
      <4>1. tk = Append(tokens[h], t)
        BY <3>3 DEF NextTokens
      <4>2. t \in Tokens /\ tokens[h] \in Seq(Tokens) /\ Len(tokens[h]) = 0
        BY <1>2, <2>1, <2>4, <3>2
      <4> HIDE DEF tk, t
      <4>3. tk \in Seq(Tokens) /\ Len(tk) = 1
        BY <4>1, <4>2
      <4>4. \A i \in DOMAIN tk : i = 1
        BY <4>3
      <4> QED
        BY <4>3, <4>4 DEF OneUnused
    <3>4. CASE "refresh" \notin client.reg
      <4>1. tk = tokens[h]
        BY <3>4 DEF NextTokens
      <4> HIDE DEF tk
      <4> QED
        BY <1>2, <4>1, SameTokens
    <3> QED
      BY <3>3, <3>4
  <2>11. grant[h].era = project.ver
    BY <1>2, <2>3 DEF AgentInv, EraInv, Authorizations
  <2> HIDE DEF x, tk
  <2>7. Valid(x)
    BY <2>3, <2>5 DEF Valid
  <2>8. x.by = "machine" => \A g \in Children : g # h => grant[g].agent # x.agent
    BY <1>2, <2>3, <2>5, OtherAgents
  <2>9. Standing(grant[h]) /\ x.redeemed <= 1
    BY <2>3, <2>5 DEF Standing
  <2>10. /\ req' \in [Requests -> Memory]
         /\ \A p \in Requests : req'[p] = req[p] \/ req'[p].ph \in {"idle", "granted"}
    BY <1>1, <1>3, AnswerFrees DEF AgentInv
  <2> HIDE DEF h, ok
  <2> QED
    BY <1>1, <1>2, <2>2, <2>4, <2>5, <2>6, <2>7, <2>8, <2>9, <2>10, <2>11, OneRowStep
<1> QED
  BY <1>4, <1>5

LEMMA RevokeNone ==
  AgentTypeOK => (Revoke({}) <=> grant' = grant)
<1> SUFFICES ASSUME AgentTypeOK PROVE Revoke({}) <=> grant' = grant
  OBVIOUS
<1>1. grant \in [Grants -> Terms]
  BY DEF AgentTypeOK
<1>2. grant = [g \in Grants |-> IF g \in {} THEN [grant[g] EXCEPT !.revoked = TRUE] ELSE grant[g]]
  BY <1>1
<1> QED
  BY <1>2 DEF Revoke

\* The token that is exchanged was the unused one, and the new one is.
LEMMA ExchangedToken ==
  ASSUME NEW tk \in Seq(Tokens), OneUnused(tk), NEW i \in DOMAIN tk, ~tk[i].used, NEW e \in Nat
  PROVE  LET new == Append([tk EXCEPT ![i].used = TRUE], [exp |-> e, used |-> FALSE])
         IN  new \in Seq(Tokens) /\ OneUnused(new)
<1> DEFINE u == [tk EXCEPT ![i].used = TRUE]
           t == [exp |-> e, used |-> FALSE]
           new == Append(u, t)
<1>1. tk[i] \in Tokens /\ Len(tk) \in Nat /\ DOMAIN tk = 1..Len(tk)
  OBVIOUS
<1>2. [tk[i] EXCEPT !.used = TRUE] \in Tokens /\ [tk[i] EXCEPT !.used = TRUE].used
  BY <1>1 DEF Tokens
<1>3. u = [tk EXCEPT ![i] = [tk[i] EXCEPT !.used = TRUE]]
  OBVIOUS
<1>4. u \in Seq(Tokens) /\ Len(u) = Len(tk)
  BY <1>2, <1>3
<1>5. \A j \in 1..Len(tk) : u[j].used
  <2> SUFFICES ASSUME NEW j \in 1..Len(tk) PROVE u[j].used
    OBVIOUS
  <2>1. CASE j = i
    <3>1. u[j] = [tk[i] EXCEPT !.used = TRUE]
      BY <1>1, <1>3, <2>1
    <3> QED
      BY <1>2, <3>1
  <2>2. CASE j # i
    <3>1. u[j] = tk[j]
      BY <1>1, <1>3, <2>2
    <3>2. tk[j] \in Tokens /\ tk[j].used
      BY <1>1, <2>2 DEF OneUnused
    <3> QED
      BY <3>1, <3>2
  <2> QED
    BY <2>1, <2>2
<1>6. t \in Tokens
  BY DEF Tokens
<1> HIDE DEF u, t
<1>7. /\ new \in Seq(Tokens) /\ Len(new) = Len(tk) + 1
      /\ \A j \in 1..Len(tk) : new[j] = u[j]
  BY <1>4, <1>6
<1>8. OneUnused(new)
  <2> SUFFICES ASSUME NEW a \in DOMAIN new, NEW b \in DOMAIN new, ~new[a].used, ~new[b].used
               PROVE  a = b
    BY DEF OneUnused
  <2>1. a \in 1..Len(tk) + 1 /\ b \in 1..Len(tk) + 1
    BY <1>7
  <2>2. a \notin 1..Len(tk) /\ b \notin 1..Len(tk)
    BY <1>5, <1>7
  <2> QED
    BY <1>1, <2>1, <2>2
<1> QED
  BY <1>7, <1>8 DEF u, t

LEMMA RotateMutateAgentInv ==
  ASSUME AgentInv, NEW r \in Requests, RotateMutate(r)
  PROVE  AgentInv'
<1> DEFINE q == req[r]
           h == req[r].g
           ok == Rotates(q)
           S == IF Stands(q) /\ Presented(q) /\ tokens[h][q.i].used THEN {h} ELSE {}
<1>1. /\ q.ph = "mutate" /\ q.op = "rotate" /\ Answer(r, ok) /\ Revoke(S)
      /\ UNCHANGED <<world, machine, now, changes>>
  BY DEF RotateMutate
<1>2. h \in Grants /\ q \in Memory /\ AgentTypeOK
  BY <1>1 DEF AgentInv, RequestInv, Bound, AgentTypeOK, IssueOps
<1>3. ok \in BOOLEAN
  BY DEF Rotates
<1>4. /\ req' \in [Requests -> Memory]
      /\ \A p \in Requests : req'[p] = req[p] \/ req'[p].ph \in {"idle", "granted"}
  BY <1>1, <1>2, <1>3, AnswerFrees
<1>5. CASE ~ok
  <2>1. tokens' = tokens
    BY <1>5 DEF RotateMutate
  <2> HIDE DEF S, ok
  <2>2. grant' \in [Grants -> Terms]
    BY <1>1, <1>2, RevokedRows
  <2>3. AgentTypeOK'
    BY <1>1, <1>2, <1>4, <2>1, <2>2 DEF AgentTypeOK, world
  <2>4. ASSUME NEW g \in Live, g \notin S PROVE Valid(grant[g])'
    <3>1. grant'[g] = grant[g] /\ Valid(grant[g])
      BY <1>1, <2>4, SparedGrant
    <3> QED
      BY <1>1, <3>1 DEF Valid, ValidMachine, Eligible, world
  <2>5. policy' = policy /\ project' = project /\ cache' = cache /\ now' = now
    BY <1>1 DEF world
  <2> QED
    BY <1>1, <1>4, <2>1, <2>3, <2>4, <2>5, RevokeStep
<1>6. CASE ok
  <2> DEFINE new == Append([tokens[h] EXCEPT ![q.i].used = TRUE], [exp |-> q.exp, used |-> FALSE])
  <2>1. /\ Stands(q) /\ q.i \in DOMAIN tokens[h] /\ ~tokens[h][q.i].used
        /\ "refresh" \in client.reg
    BY <1>6 DEF Rotates, Presented
  <2>2. tokens \in [Grants -> Seq(Tokens)] /\ grant \in [Grants -> Terms] /\ q.exp \in Nat
    BY <1>2 DEF AgentTypeOK, Memory
  <2>3. tokens' = [tokens EXCEPT ![h] = new]
    BY <1>6, <2>1, <2>2 DEF RotateMutate, NextTokens
  <2>4. new \in Seq(Tokens) /\ OneUnused(new)
    BY <1>2, <2>1, <2>2, SameTokens, ExchangedToken
  <2>5. grant' = grant
    <3>1. S = {}
      BY <2>1
    <3> HIDE DEF S
    <3> QED
      BY <1>1, <1>2, <3>1, RevokeNone
  <2>6. grant' = [grant EXCEPT ![h] = grant[h]] /\ grant[h] \in Terms
    BY <1>2, <2>2, <2>5
  <2>7. grant[h].st = "approved" /\ Valid(grant[h]) /\ ~grant[h].revoked /\ Standing(grant[h])
    BY <2>1 DEF Stands, Standing
  <2>8. tokens[h] # <<>>
    BY <2>1
  <2>9. /\ grant[h].by \in {"consent", "machine"} /\ grant[h].redeemed <= 1
        /\ grant[h].code = "used"
    BY <1>2, <2>7, <2>8 DEF AgentInv, GrantInv
  <2>10. grant[h].by = "machine" => \A g \in Children : g # h => grant[g].agent # grant[h].agent
    BY <1>2, <2>7, OtherAgents
  <2>11. UNCHANGED <<world, machine, now, changes>>
    BY <1>1
  <2>13. grant[h].era = project.ver
    BY <1>2, <2>7 DEF AgentInv, EraInv, Authorizations
  <2> DEFINE x == grant[h]
  <2>12. /\ x \in Terms /\ grant' = [grant EXCEPT ![h] = x]
         /\ x.st = "approved" /\ Valid(x) /\ x.by \in {"consent", "machine"}
         /\ x.redeemed <= 1 /\ x.code = "used" /\ x.era = project.ver
         /\ x.by = "machine" => \A g \in Children : g # h => grant[g].agent # x.agent
    BY <2>6, <2>7, <2>9, <2>10, <2>13
  <2> HIDE DEF x, new, h
  <2> QED
    BY <1>2, <1>4, <2>3, <2>4, <2>7, <2>11, <2>12, OneRowStep
<1> QED
  BY <1>5, <1>6

\* A machine is registered once: before that it has no delegation that stands.
LEMMA RegisterMutateAgentInv ==
  ASSUME AgentInv, NEW r \in Requests, NEW sel \in SUBSET Agents, RegisterMutate(r, sel)
  PROVE  AgentInv'
<1> DEFINE q == req[r]
           ok == Human(q.sid) /\ "machine" \in client.reg /\ q.fp = Fingerprint(None, q.sid, FALSE)
           new == [st |-> "live", sel |-> sel, crev |-> client.rev, rev |-> 1]
<1>1. /\ Answer(r, ok)
      /\ machine' = (IF ok /\ machine.st = "none" THEN new ELSE machine)
      /\ UNCHANGED <<world, grant, tokens, now, changes>>
  BY DEF RegisterMutate
<1>2. AgentTypeOK
  BY DEF AgentInv
<1>3. ok \in BOOLEAN
  OBVIOUS
<1>4. /\ req' \in [Requests -> Memory]
      /\ \A p \in Requests : req'[p] = req[p] \/ req'[p].ph \in {"idle", "granted"}
  BY <1>1, <1>2, <1>3, AnswerFrees
<1> HIDE DEF ok
<1>5. CASE ok /\ machine.st = "none"
  <2>1. machine' = new
    BY <1>1, <1>5
  <2>2. client.rev \in Nat
    BY <1>2 DEF AgentTypeOK, Clients
  <2>3. machine' \in Machine
    BY <2>1, <2>2 DEF Machine
  <2>4. AgentTypeOK'
    BY <1>1, <1>2, <1>4, <2>3 DEF AgentTypeOK, world
  <2>5. Revoke({})
    BY <1>1, <1>2, RevokeNone
  <2>6. ASSUME NEW g \in Live, g \notin {} PROVE Valid(grant[g])'
    <3>1. grant'[g] = grant[g] /\ Valid(grant[g])
      BY <2>5, <2>6, SparedGrant
    <3>2. grant[g].by # "machine"
      BY <1>5, <3>1 DEF Valid, ValidMachine
    <3> QED
      BY <1>1, <3>1, <3>2 DEF Valid, Eligible, world
  <2>7. policy' = policy /\ project' = project /\ cache' = cache /\ now' = now /\ tokens' = tokens
    BY <1>1 DEF world
  <2> QED
    BY <1>4, <2>4, <2>5, <2>6, <2>7, RevokeStep
<1>6. CASE ~(ok /\ machine.st = "none")
  <2>1. UNCHANGED <<world, machine, grant, tokens, now, changes>>
    BY <1>1, <1>6
  <2> QED
    BY <1>1, <1>3, <2>1, AnswerStep
<1> QED
  BY <1>5, <1>6

LEMMA EnrolMutateAgentInv ==
  ASSUME AgentInv, NEW r \in Requests, NEW h \in Delegated, EnrolMutate(r, h)
  PROVE  AgentInv'
<1> DEFINE q == req[r]
           x == [NoGrant EXCEPT !.st = "approved", !.by = "machine", !.agent = q.agent,
                                !.crev = machine.crev, !.era = project.ver]
           ok == Valid(x) /\ q.fp = Fingerprint(q.agent, None, TRUE)
           yes == ok /\ \A g \in Delegations(q.agent) : ~grant[g].revoked
<1>1. /\ grant[h].st = "none" /\ Answer(r, yes)
      /\ grant' = (IF ok /\ Delegations(q.agent) = {} THEN [grant EXCEPT ![h] = x] ELSE grant)
      /\ UNCHANGED <<world, machine, tokens, now, changes>>
  BY DEF EnrolMutate
<1>2. AgentTypeOK /\ h \in Grants /\ q \in Memory
  BY DEF AgentInv, AgentTypeOK, Grants
<1>3. yes \in BOOLEAN
  OBVIOUS
<1>4. /\ req' \in [Requests -> Memory]
      /\ \A p \in Requests : req'[p] = req[p] \/ req'[p].ph \in {"idle", "granted"}
  BY <1>1, <1>2, <1>3, AnswerFrees
<1> HIDE DEF yes
<1>5. CASE ok /\ Delegations(q.agent) = {}
  <2>1. Valid(x) /\ grant' = [grant EXCEPT ![h] = x]
    BY <1>1, <1>5
  <2>2. q.agent \in Agents \cup {None} /\ machine.crev \in Nat /\ project.ver \in Nat
    BY <1>2 DEF AgentTypeOK, Memory, Machine, Projects
  <2>3. /\ x \in Terms /\ x.st = "approved" /\ x.by = "machine" /\ x.agent = q.agent
        /\ x.code = "none" /\ x.redeemed = 0 /\ x.era = project.ver
    BY <2>2 DEF NoGrant, Terms
  <2> DEFINE tk == tokens[h]
  <2>4. tk \in Seq(Tokens) /\ OneUnused(tk) /\ tokens' = [tokens EXCEPT ![h] = tk]
    BY <1>1, <1>2, SameTokens
  <2>5. tk = <<>>
    BY <1>1, <1>2 DEF AgentInv, GrantInv
  <2>6. \A g \in Children : g # h => grant[g].agent # x.agent
    BY <1>5, <2>3 DEF Delegations
  <2>7. UNCHANGED <<world, machine, now, changes>> /\ x.redeemed <= 1
    BY <1>1, <2>3
  <2> HIDE DEF x, tk
  <2> QED
    BY <1>1, <1>2, <1>4, <2>1, <2>3, <2>4, <2>5, <2>6, <2>7, OneRowStep
<1>6. CASE ~(ok /\ Delegations(q.agent) = {})
  <2>1. UNCHANGED <<world, machine, grant, tokens, now, changes>>
    BY <1>1, <1>6
  <2> QED
    BY <1>1, <1>3, <2>1, AnswerStep
<1> QED
  BY <1>5, <1>6

LEMMA SweepAgentInv ==
  ASSUME AgentInv, NEW h \in Grants, Sweep(h)
  PROVE  AgentInv'
<1> DEFINE x == [NoGrant EXCEPT !.st = "gone", !.by = "consent", !.exp = grant[h].exp]
           tk == <<>>
<1>1. /\ grant' = [grant EXCEPT ![h] = x] /\ tokens' = [tokens EXCEPT ![h] = tk]
      /\ UNCHANGED <<world, machine, now, changes>> /\ req' = req
  BY DEF Sweep
<1>2. grant[h].exp \in Nat
  BY DEF AgentInv, AgentTypeOK, Terms
<1>3. x \in Terms /\ x.st = "gone" /\ x.by = "consent" /\ x.code = "none" /\ x.redeemed = 0
  BY <1>2 DEF NoGrant, Terms
<1>4. tk \in Seq(Tokens) /\ OneUnused(tk) /\ tk = <<>>
  BY DEF OneUnused
<1>5. ~Standing(x) /\ x.redeemed <= 1
  BY <1>3 DEF Standing
<1>6. /\ req' \in [Requests -> Memory]
      /\ \A p \in Requests : req'[p] = req[p] \/ req'[p].ph \in {"idle", "granted"}
  BY <1>1 DEF AgentInv, AgentTypeOK
<1> HIDE DEF x, tk
<1> QED
  BY <1>1, <1>3, <1>4, <1>5, <1>6, OneRowStep

\* The clock only goes forward, and what was served stays served.
LEMMA ClockStep ==
  ASSUME AgentInv, now' \in 0..MaxTime, now <= now',
         UNCHANGED <<world, machine, grant, tokens, changes, req>>
  PROVE  AgentInv'
<1>1. AgentTypeOK'
  BY DEF AgentInv, AgentTypeOK, world
<1>2. GrantInv' /\ TokenInv' /\ DelegationInv'
  BY DEF AgentInv, GrantInv, TokenInv, DelegationInv, Children, Authorizations
<1>5. now \in Nat /\ now' \in Nat
  BY AgentConstants DEF AgentInv, AgentTypeOK
<1>6. EraInv' /\ CacheInv'
  BY <1>5, AgentConstants DEF AgentInv, AgentTypeOK, Copies, EraInv, Authorizations, CacheInv, world
<1>3. RequestInv'
  <2> SUFFICES ASSUME NEW r \in Requests PROVE Bound(req[r])'
    BY DEF RequestInv
  <2>1. Bound(req[r]) /\ req[r].from \in Nat
    BY DEF AgentInv, AgentTypeOK, RequestInv, Memory
  <2>2. Served(req[r]) => Served(req[r])'
    BY <1>5, <2>1 DEF Served, world
  <2> QED
    BY <2>1, <2>2 DEF Bound, Standing, world
<1>4. LiveGrantHasAuthority'
  BY DEF AgentInv, LiveGrantHasAuthority, Live, Authorizations, Valid, ValidMachine, Eligible, world
<1> QED
  BY <1>1, <1>2, <1>3, <1>4, <1>6 DEF AgentInv

LEMMA TickAgentInv == AgentInv /\ Tick => AgentInv'
<1> SUFFICES ASSUME AgentInv, Tick PROVE AgentInv'
  OBVIOUS
<1>1. now' \in 0..MaxTime /\ now <= now'
  BY AgentConstants DEF AgentInv, AgentTypeOK, Tick
<1> QED
  BY <1>1, ClockStep DEF Tick

LEMMA NextAgentInv == AgentInv /\ [AgentNext]_agentVars => AgentInv'
<1> SUFFICES ASSUME AgentInv, [AgentNext]_agentVars PROVE AgentInv'
  OBVIOUS
<1>1. CASE Consent
  <2>1. ASSUME NEW g \in Asked, Start(g) PROVE AgentInv'
    BY <2>1, StartAgentInv
  <2>2. ASSUME NEW r \in Requests, NEW g \in Asked, NEW s \in Sids, NEW a \in Agents,
               DecideRead(r, g, a, s, "approve")
        PROVE  AgentInv'
    BY <2>2, DecideReadAgentInv
  <2>3. ASSUME NEW r \in Requests, NEW g \in Asked, NEW s \in Sids,
               DecideRead(r, g, None, s, "deny")
        PROVE  AgentInv'
    BY <2>3, DecideReadAgentInv
  <2>4. ASSUME NEW r \in Requests, DecideAdmit(r) \/ DecideMutate(r) PROVE AgentInv'
    BY <2>4, DecideAdmitAgentInv, DecideMutateAgentInv
  <2> QED
    BY <1>1, <2>1, <2>2, <2>3, <2>4 DEF Consent
<1>2. CASE Issue
  <2>1. ASSUME NEW r \in Requests, NEW g \in Grants, NEW o \in IssueOps, NEW i \in 0..MaxTokens,
               IssueRead(r, g, o, i)
        PROVE  AgentInv'
    BY <2>1, IssueReadAgentInv
  <2>2. ASSUME NEW r \in Requests,
               \/ IssueAdmit(r) \/ RedeemMutate(r) \/ RotateMutate(r)
               \/ Validate(r) \/ Invalidate(r) \/ InvalidateMachine(r)
        PROVE  AgentInv'
    BY <2>2, IssueAdmitAgentInv, RedeemMutateAgentInv, RotateMutateAgentInv, ValidateAgentInv,
       InvalidateAgentInv, InvalidateMachineAgentInv
  <2> QED
    BY <1>2, <2>1, <2>2 DEF Issue, IssueOps
<1>3. CASE Machines
  <2>1. ASSUME NEW r \in Requests, NEW s \in Sids, RegisterRead(r, s) PROVE AgentInv'
    BY <2>1, RegisterReadAgentInv
  <2>2. ASSUME NEW r \in Requests, NEW sel \in SUBSET Agents, RegisterMutate(r, sel) PROVE AgentInv'
    BY <2>2, RegisterMutateAgentInv
  <2>3. ASSUME NEW r \in Requests, NEW a \in Agents, EnrolRead(r, a) PROVE AgentInv'
    BY <2>3, EnrolReadAgentInv
  <2>4. ASSUME NEW r \in Requests, NEW g \in Delegated, EnrolMutate(r, g) PROVE AgentInv'
    BY <2>4, EnrolMutateAgentInv
  <2>5. ASSUME NEW s \in Sids, NEW sel \in SUBSET Agents, SelectMachineAgents(s, sel) PROVE AgentInv'
    BY <2>5, SelectMachineAgentsAgentInv
  <2>6. ASSUME NEW s \in Sids, RevokeMachine(s) PROVE AgentInv'
    BY <2>6, RevokeMachineAgentInv
  <2> QED
    BY <1>3, <2>1, <2>2, <2>3, <2>4, <2>5, <2>6 DEF Machines
<1>4. CASE World
  <2>1. ASSUME NEW o \in {"good", "moved", "out"}, ChangeOwner(o) PROVE AgentInv'
    BY <2>1, ChangeOwnerAgentInv
  <2>2. ASSUME NEW a \in Agents, ChangeAgent(a) PROVE AgentInv'
    BY <2>2, ChangeAgentAgentInv
  <2>3. ASSUME NEW s \in Sids, EndSession(s) \/ DropRefreshRow(s) PROVE AgentInv'
    BY <2>3, EndSessionAgentInv, DropRefreshRowAgentInv
  <2>4. ASSUME NEW reg \in Regs, ChangeClient(reg) PROVE AgentInv'
    BY <2>4, ChangeClientAgentInv
  <2>5. ASSUME ChangeGuardian PROVE AgentInv'
    BY <2>5, ChangeGuardianAgentInv
  <2>6. ASSUME NEW cap \in Caps, ChangePolicy(cap) \/ ChangeGovernance(cap) PROVE AgentInv'
    BY <2>6, ChangePolicyAgentInv, ChangeGovernanceAgentInv
  <2>7. ASSUME NEW admits \in BOOLEAN, ChangeProject(admits) PROVE AgentInv'
    BY <2>7, ChangeProjectAgentInv
  <2> QED
    BY <1>4, <2>1, <2>2, <2>3, <2>4, <2>5, <2>6, <2>7 DEF World
<1>5. ASSUME NEW g \in Grants, RevokeGrant(g) \/ Sweep(g) PROVE AgentInv'
  BY <1>5, RevokeGrantAgentInv, SweepAgentInv
<1>6. ASSUME NEW r \in Requests, Lose(r) PROVE AgentInv'
  BY <1>6, LoseAgentInv
<1>7. CASE Tick
  BY <1>7, TickAgentInv
<1>9. ASSUME NEW r \in Requests, NEW k \in Slots, Arrive(r, k) PROVE AgentInv'
  BY <1>9, ArriveAgentInv
<1>8. CASE UNCHANGED agentVars
  <2>1. UNCHANGED <<world, machine, grant, tokens, changes, req>> /\ now' = now
    BY <1>8 DEF agentVars
  <2>2. now' \in 0..MaxTime /\ now <= now'
    BY <2>1, AgentConstants DEF AgentInv, AgentTypeOK
  <2> QED
    BY <2>1, <2>2, ClockStep
<1> QED
  BY <1>1, <1>2, <1>3, <1>4, <1>5, <1>6, <1>7, <1>8, <1>9 DEF AgentNext

LEMMA AgentInvAlways == AgentSpec => []AgentInv
  BY InitAgentInv, NextAgentInv, PTL DEF AgentSpec

-----------------------------------------------------------------------------
(* AgentGrants: what it amounts to.                                        *)

\* The variables of the agent model keep their types, the rows a request
\* remembers between its reads and its transaction included.
THEOREM AgentTypesHold == AgentSpec => []AgentTypeOK
<1>1. AgentInv => AgentTypeOK
  BY DEF AgentInv
<1> QED
  BY <1>1, AgentInvAlways, PTL

\* For any number of requests, grants, agents and sessions, a grant that is
\* approved and not revoked has its owner, agent, client and its session or
\* machine: the second read under locks and the triggers leave no gap
\* (repo/postgres/agent_oauth.go:165-254, migrations 0041, 0042 and 0046).
THEOREM LiveGrantsHaveAuthority == AgentSpec => []LiveGrantHasAuthority
<1>1. AgentInv => LiveGrantHasAuthority
  BY DEF AgentInv
<1> QED
  BY <1>1, AgentInvAlways, PTL

\* However many requests present a code or a refresh token, a consent is redeemed
\* at most once and at most one of its refresh tokens is unused
\* (agent_oauth_state.go:216-238).
THEOREM ConsentsHaveOneLineage == AgentSpec => []OneLineage
<1>1. AgentInv => OneLineage
  <2> SUFFICES ASSUME AgentInv, NEW g \in Grants
               PROVE  /\ grant[g].redeemed <= 1
                      /\ Cardinality({i \in DOMAIN tokens[g] : ~tokens[g][i].used}) <= 1
    BY DEF OneLineage
  <2> DEFINE U == {i \in DOMAIN tokens[g] : ~tokens[g][i].used}
  <2>1. grant[g].redeemed <= 1
    BY DEF AgentInv, GrantInv
  <2>2. \A i, j \in U : i = j
    BY DEF AgentInv, TokenInv
  <2> HIDE DEF U
  <2>3. CASE U = {}
    <3>1. Cardinality(U) = 0
      BY <2>3, FS_EmptySet
    <3> QED
      BY <2>1, <3>1 DEF U
  <2>4. CASE U # {}
    <3>1. PICK i \in U : TRUE
      BY <2>4
    <3>2. U = {i}
      BY <2>2, <3>1
    <3>3. Cardinality(U) = 1
      BY <3>2, FS_Singleton
    <3> QED
      BY <2>1, <3>3 DEF U
  <2> QED
    BY <2>3, <2>4
<1> QED
  BY <1>1, AgentInvAlways, PTL

\* An agent whose delegation on a machine was withdrawn has no live delegation on
\* it again, because a machine never has two for an agent
\* (agent_machine_state.go:144-146).
THEOREM WithdrawnDelegationsStayOut == AgentSpec => []WithdrawnStaysOut
<1>1. AgentInv => WithdrawnStaysOut
  <2> SUFFICES ASSUME AgentInv, NEW g \in Children, NEW h \in Live \cap Children,
                      grant[g].revoked, grant[g].agent = grant[h].agent
               PROVE  FALSE
    BY DEF WithdrawnStaysOut
  <2>1. g = h
    BY DEF AgentInv, DelegationInv
  <2>2. ~grant[h].revoked
    BY DEF Live
  <2> QED
    BY <2>1, <2>2
<1> QED
  BY <1>1, AgentInvAlways, PTL

\* A request for tokens is granted only where its transaction found the grant
\* standing: every other step leaves it as it is or refuses it.
LEMMA GrantedWhileStanding ==
  ASSUME AgentInv, AgentNext, NEW r \in Requests, req[r].ph = "mutate", req[r].op \in IssueOps,
         req'[r].ph = "granted"
  PROVE  Stands(req[r])
<1>1. req \in [Requests -> Memory] /\ AgentTypeOK
  BY DEF AgentInv, AgentTypeOK
<1>2. req'[r] # req[r]
  OBVIOUS
<1>3. ASSUME NEW p \in Requests, NEW yes \in BOOLEAN, Answer(p, yes) PROVE p = r /\ yes
  BY <1>1, <1>2, <1>3, AnswerFrees
<1>4. ASSUME NEW p \in Requests, NEW x, req' = [req EXCEPT ![p] = x], x.ph # "granted" PROVE FALSE
  BY <1>1, <1>2, <1>4
<1>5. CASE Consent
  <2>1. ASSUME NEW g \in Asked, Start(g) PROVE FALSE
    BY <1>2, <2>1 DEF Start
  <2>2. ASSUME NEW p \in Requests, NEW g \in Asked, NEW s \in Sids, NEW a, NEW o, DecideRead(p, g, a, s, o)
        PROVE  FALSE
    <3> DEFINE ph == IF o = "approve" THEN "admit" ELSE "mutate"
               x == [req[p] EXCEPT !.ph = ph, !.op = o, !.g = g, !.agent = a, !.sid = s, !.at = now,
                                 !.fp = Fingerprint(a, s, FALSE)]
    <3>1. req' = [req EXCEPT ![p] = x]
      BY <2>2 DEF DecideRead
    <3>2. ph # "granted"
      OBVIOUS
    <3> HIDE DEF ph
    <3>3. x.ph # "granted"
      BY <1>1, <3>2 DEF Memory
    <3> HIDE DEF x
    <3> QED
      BY <1>4, <3>1, <3>3
  <2>3. ASSUME NEW p \in Requests, DecideAdmit(p) PROVE FALSE
    <3>1. req[p].ph = "admit"
      BY <2>3 DEF DecideAdmit
    <3>2. p # r
      BY <3>1
    <3> QED
      BY <1>1, <1>2, <1>3, <2>3, <3>2 DEF DecideAdmit
  <2>4. ASSUME NEW p \in Requests, DecideMutate(p) PROVE FALSE
    <3>1. Answer(p, ConsentStands(req[p])) /\ req[p].op \in {"approve", "deny"}
      BY <2>4 DEF DecideMutate
    <3>2. ConsentStands(req[p]) \in BOOLEAN
      BY DEF ConsentStands
    <3>3. p = r
      BY <1>3, <3>1, <3>2
    <3> QED
      BY <3>1, <3>3 DEF IssueOps
  <2> QED
    BY <1>5, <2>1, <2>2, <2>3, <2>4 DEF Consent
<1>6. CASE Issue
  <2>1. ASSUME NEW p \in Requests, NEW g \in Grants, NEW o, NEW i, IssueRead(p, g, o, i)
        PROVE  FALSE
    <3> DEFINE ph == IF ~Valid(grant[g]) \/ (grant[g].by = "consent" /\ grant[g].exp <= now)
                     THEN "invalidate" ELSE "admit"
               x == [req[p] EXCEPT !.ph = ph, !.op = o, !.g = g, !.i = i, !.at = now,
                        !.fp = Fingerprint(grant[g].agent, grant[g].sid, grant[g].by = "machine")]
    <3>1. req' = [req EXCEPT ![p] = x]
      BY <2>1 DEF IssueRead
    <3>2. ph # "granted"
      OBVIOUS
    <3> HIDE DEF ph
    <3>3. x.ph # "granted"
      BY <1>1, <3>2 DEF Memory
    <3> HIDE DEF x
    <3> QED
      BY <1>4, <3>1, <3>3
  <2>2. ASSUME NEW p \in Requests, IssueAdmit(p) PROVE FALSE
    <3>1. req[p].ph = "admit"
      BY <2>2 DEF IssueAdmit
    <3>2. p # r
      BY <3>1
    <3> QED
      BY <1>1, <1>2, <1>3, <2>2, <3>2 DEF IssueAdmit
  <2>3. ASSUME NEW p \in Requests, RedeemMutate(p) PROVE Stands(req[r])
    <3> DEFINE ok == /\ Stands(req[p]) /\ grant[req[p].g].code = "out"
                     /\ grant[req[p].g].codeExp > req[p].at
                     /\ "refresh" \in client.reg => req[p].exp > req[p].at
    <3>1. Answer(p, ok)
      BY <2>3 DEF RedeemMutate
    <3>2. ok \in BOOLEAN
      OBVIOUS
    <3>3. p = r /\ ok
      <4> HIDE DEF ok
      <4> QED
        BY <1>3, <3>1, <3>2
    <3> QED
      BY <3>3
  <2>4. ASSUME NEW p \in Requests, RotateMutate(p) PROVE Stands(req[r])
    <3>1. Answer(p, Rotates(req[p]))
      BY <2>4 DEF RotateMutate
    <3>2. Rotates(req[p]) \in BOOLEAN
      BY DEF Rotates
    <3>3. p = r /\ Rotates(req[p])
      BY <1>3, <3>1, <3>2
    <3> QED
      BY <3>3 DEF Rotates
  <2>5. ASSUME NEW p \in Requests, Validate(p) PROVE Stands(req[r])
    <3>1. Answer(p, Stands(req[p]))
      BY <2>5 DEF Validate
    <3>2. Stands(req[p]) \in BOOLEAN
      BY DEF Stands
    <3> QED
      BY <1>3, <3>1, <3>2
  <2>6. ASSUME NEW p \in Requests, Invalidate(p) \/ InvalidateMachine(p) PROVE FALSE
    <3>1. Answer(p, FALSE)
      BY <2>6 DEF Invalidate, InvalidateMachine
    <3> QED
      BY <1>3, <3>1
  <2> QED
    BY <1>6, <2>1, <2>2, <2>3, <2>4, <2>5, <2>6 DEF Issue
<1>7. CASE Machines
  <2>1. ASSUME NEW p \in Requests, NEW s \in Sids, RegisterRead(p, s) PROVE FALSE
    <3> DEFINE x == [req[p] EXCEPT !.ph = "mutate", !.op = "register", !.sid = s,
                                 !.fp = Fingerprint(None, s, FALSE)]
    <3>1. req' = [req EXCEPT ![p] = x]
      BY <2>1 DEF RegisterRead
    <3>2. x.ph # "granted"
      BY <1>1 DEF Memory
    <3> HIDE DEF x
    <3> QED
      BY <1>4, <3>1, <3>2
  <2>2. ASSUME NEW p \in Requests, NEW sel \in SUBSET Agents, RegisterMutate(p, sel) PROVE FALSE
    <3> DEFINE ok == /\ Human(req[p].sid) /\ "machine" \in client.reg
                     /\ req[p].fp = Fingerprint(None, req[p].sid, FALSE)
    <3>1. Answer(p, ok) /\ req[p].op = "register"
      BY <2>2 DEF RegisterMutate
    <3>2. ok \in BOOLEAN
      OBVIOUS
    <3> HIDE DEF ok
    <3>3. p = r
      BY <1>3, <3>1, <3>2
    <3> QED
      BY <3>1, <3>3 DEF IssueOps
  <2>3. ASSUME NEW p \in Requests, NEW a \in Agents, EnrolRead(p, a) PROVE FALSE
    <3> DEFINE ph == IF req[p].scope.admits THEN "mutate" ELSE "invalidate machine"
               x == [req[p] EXCEPT !.ph = ph, !.op = "enrol", !.agent = a,
                                 !.fp = Fingerprint(a, None, TRUE)]
    <3>1. req' = [req EXCEPT ![p] = x]
      BY <2>3 DEF EnrolRead
    <3>2. ph # "granted"
      OBVIOUS
    <3> HIDE DEF ph
    <3>3. x.ph # "granted"
      BY <1>1, <3>2 DEF Memory
    <3> HIDE DEF x
    <3> QED
      BY <1>4, <3>1, <3>3
  <2>4. ASSUME NEW p \in Requests, NEW g \in Delegated, EnrolMutate(p, g) PROVE FALSE
    <3> DEFINE new == [NoGrant EXCEPT !.st = "approved", !.by = "machine", !.agent = req[p].agent,
                                      !.crev = machine.crev, !.era = project.ver]
               ok == Valid(new) /\ req[p].fp = Fingerprint(req[p].agent, None, TRUE)
               yes == ok /\ \A h \in Delegations(req[p].agent) : ~grant[h].revoked
    <3>1. Answer(p, yes) /\ req[p].op = "enrol"
      BY <2>4 DEF EnrolMutate
    <3>2. yes \in BOOLEAN
      OBVIOUS
    <3> HIDE DEF yes
    <3>3. p = r
      BY <1>3, <3>1, <3>2
    <3> QED
      BY <3>1, <3>3 DEF IssueOps
  <2>5. ASSUME NEW s \in Sids, NEW sel \in SUBSET Agents, SelectMachineAgents(s, sel) PROVE FALSE
    BY <1>2, <2>5 DEF SelectMachineAgents
  <2>6. ASSUME NEW s \in Sids, RevokeMachine(s) PROVE FALSE
    BY <1>2, <2>6 DEF RevokeMachine
  <2> QED
    BY <1>7, <2>1, <2>2, <2>3, <2>4, <2>5, <2>6 DEF Machines
<1>8. CASE World
  BY <1>2, <1>8 DEF World, ChangeOwner, ChangeAgent, EndSession, DropRefreshRow, ChangeClient,
       ChangeGuardian, ChangeProject, ChangePolicy, ChangeGovernance, Withdraw
<1>9. ASSUME NEW g \in Grants, RevokeGrant(g) \/ Sweep(g) PROVE FALSE
  BY <1>2, <1>9 DEF RevokeGrant, Sweep
<1>10. ASSUME NEW p \in Requests, Lose(p) PROVE FALSE
  <2>1. req' = [req EXCEPT ![p] = Idle]
    BY <1>10 DEF Lose
  <2> QED
    BY <1>4, <2>1, IdleType
<1>11. CASE Tick
  BY <1>2, <1>11 DEF Tick
<1>12. ASSUME NEW p \in Requests, NEW k \in Slots, Arrive(p, k) PROVE FALSE
  <2>1. PICK sc : req' = [req EXCEPT ![p] = [Idle EXCEPT !.ph = "arrived", !.from = now, !.scope = sc]]
    BY <1>12, Zenon DEF Arrive
  <2> DEFINE x == [Idle EXCEPT !.ph = "arrived", !.from = now, !.scope = sc]
  <2>2. x.ph # "granted"
    BY DEF Idle
  <2>3. req' = [req EXCEPT ![p] = x]
    BY <2>1
  <2> HIDE DEF x
  <2> QED
    BY <1>4, <2>2, <2>3
<1> QED
  BY <1>5, <1>6, <1>7, <1>8, <1>9, <1>10, <1>11, <1>12 DEF AgentNext

\* For any number of requests and caches: a code, a refresh token, a machine
\* exchange or an introspection is answered under the login policy in force, and
\* under a replaced configuration of the project only for a grant that is younger
\* than the replacement and a request that came before the last copies of the old
\* one expired.  The transaction reads neither again: a change of the policy
\* withdraws every grant that has an owner, a change of the project every grant,
\* and a cache serves no copy beyond its lifetime
\* (service/agent_oauth.go:411-450, project_resolver_cache.go:103-140).
THEOREM IssuesAreUnderPolicyInForce == AgentSpec => IssuedUnderPolicyInForce
<1> DEFINE B(r) == /\ req[r].ver = policy.ver
                   /\ grant[req[r].g].era = project.ver
                   /\ \/ req[r].scope.ver = project.ver
                      \/ req[r].from < project.since + ScopeTTL
           A == \A r \in Requests :
                   /\ req[r].ph = "mutate"
                   /\ req[r].op \in {"redeem", "rotate", "introspect", "exchange"}
                   /\ req'[r].ph = "granted"
                   => B(r)
<1>1. AgentInv /\ [AgentNext]_agentVars => A \/ UNCHANGED agentVars
  <2> SUFFICES ASSUME AgentInv, AgentNext, NEW r \in Requests, req[r].ph = "mutate",
                      req[r].op \in IssueOps, req'[r].ph = "granted"
               PROVE  B(r)
    BY DEF IssueOps
  <2>1. Stands(req[r])
    BY GrantedWhileStanding
  <2>2. Standing(grant[req[r].g])
    BY <2>1 DEF Stands, Standing
  <2>3. req[r].g \in Grants /\ req[r].ver = policy.ver /\ Served(req[r])
    BY <2>2 DEF AgentInv, RequestInv, Bound
  <2>4. grant[req[r].g].era = project.ver
    BY <2>2, <2>3 DEF AgentInv, EraInv, Authorizations, Standing
  <2> QED
    BY <2>3, <2>4 DEF Served
<1>2. AgentSpec => [][A]_agentVars
  <2> HIDE DEF A
  <2> QED
    BY <1>1, AgentInvAlways, PTL DEF AgentSpec
<1> QED
  BY <1>2 DEF IssuedUnderPolicyInForce
=============================================================================
