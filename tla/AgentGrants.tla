----------------------------- MODULE AgentGrants -----------------------------
(***************************************************************************)
(* Delegated access for agents: the consent, code and refresh-token flow   *)
(* of internal/service/agent_oauth.go, the machine delegations of          *)
(* agent_machine.go and agent_machine_access.go, their transactions in     *)
(* internal/repo/postgres, and the triggers of migrations 0041, 0042 and   *)
(* 0046 that withdraw grants when what they rest on changes.               *)
(*                                                                         *)
(* A request is served a copy of its project's configuration, possibly one *)
(* of a cache, reads its rows, is admitted by that copy and the login      *)
(* policy of that moment, and then mutates the grant in one transaction    *)
(* that reads the authority rows again under locks.  The transaction       *)
(* compares those rows with the fingerprint of the first read; project and *)
(* policy it does not read again.                                          *)
(*                                                                         *)
(* There is one owner, one client and one machine.  An owner row is one of *)
(* three values: two that may own agents and differ in a column a trigger  *)
(* watches (the email, say), and one that may not.  Redirects, PKCE,       *)
(* resources, scopes, the age of the sign-in and the signed challenges of  *)
(* machines are inputs that fit.                                           *)
(***************************************************************************)
EXTENDS Naturals, Sequences, FiniteSets, FiniteSetsExt

CONSTANTS
    Requests,     \* requests in flight at once
    Asked,        \* ids of agent_authorizations that are asked for and decided
    Delegated,    \* ids of those that a machine's enrolments create
    Agents,
    Sids,         \* the owner's sessions
    None,
    Regs,         \* registrations of the client: sets of grant types, {} when disabled
    Slots,        \* entries of the caches of project resolutions
    Caps,         \* when a login policy's session timeouts end the owner's sessions
    ScopeTTL,     \* ProjectResolutionCacheTTL
    RequestLife,  \* AgentOAuthRequestLifetime
    CodeLife,     \* AgentOAuthCodeLifetime
    ConsentLife,  \* AgentOAuthConsentSeconds
    RefreshIdle,  \* AgentOAuthRefreshIdleSeconds
    MaxTokens,    \* bound on the refresh tokens of a grant
    MaxChanges,   \* bound on the changes of owner, agents, sessions, client, project and policy
    MaxTime       \* bound on the clock

ASSUME AgentGrantsAssumption ==
    /\ IsFiniteSet(Requests)
    /\ Asked \cap Delegated = {}
    /\ None \notin Agents \cup Sids \cup Asked \cup Delegated
    /\ None \notin {"approve", "deny", "redeem", "rotate", "introspect", "exchange"}
    /\ Regs \subseteq SUBSET {"code", "refresh", "machine"}
    /\ Caps \subseteq Nat
    /\ {ScopeTTL, RequestLife, CodeLife, ConsentLife, RefreshIdle} \subseteq Nat \ {0}
    /\ {MaxTokens, MaxChanges, MaxTime} \subseteq Nat

VARIABLES
    owner,    \* the owner's users row
    guardian, \* the owner has a guardian
    active,   \* which agents are active
    live,     \* which sessions of the owner are not revoked
    client,   \* oauth_clients: revision and registration
    policy,   \* login_policies, tenants and domains: the timeout and how often they changed
    project,  \* projects.config_json: whether it admits the owner, how often and when it changed
    cache,    \* CachingProjectResolver: copies of project and when they expire
    machine,  \* agent_machines
    grant,    \* agent_authorizations
    tokens,   \* agent_oauth_refresh_tokens of each grant, in order of issue
    now,      \* the clock
    changes,  \* how many changes there were
    req       \* the requests

Grants == Asked \cup Delegated

world == <<owner, guardian, active, live, client, policy, project, cache>>
agentVars == <<world, machine, grant, tokens, now, changes, req>>

------------------------------------------------------------------------------
\* AgentAuthorization.  "gone" is a row the sweep deleted; its expiry is kept
\* for the requests that hold a copy of it.  era is how often the project had
\* changed when the row was written; no code reads it.
NoGrant ==
    [st |-> "none", by |-> None, agent |-> None, sid |-> None, crev |-> 0, due |-> 0,
     exp |-> 0, code |-> "none", codeExp |-> 0, revoked |-> FALSE, redeemed |-> 0,
     era |-> 0]

Authorizations == {g \in Grants : grant[g].st \notin {"none", "gone"}}

\* owner_id is set by the decision and by an enrolment.
Owned == {g \in Authorizations : grant[g].st # "pending"}

Live == {g \in Authorizations : grant[g].st = "approved" /\ ~grant[g].revoked}

\* ProjectScope: the copy of the project's configuration a request works with.
NoScope == [ver |-> 0, admits |-> FALSE]

\* What a request remembers between its steps.
Idle ==
    [ph |-> "idle", op |-> None, g |-> None, agent |-> None, sid |-> None, i |-> 0,
     fp |-> <<>>, at |-> 0, exp |-> 0, ver |-> 0, from |-> 0, scope |-> NoScope]

Free(r) == req[r].ph \in {"idle", "granted"}

\* The answer to a request: granted, or refused and forgotten.
Answer(r, yes) == req' = [req EXCEPT ![r] = IF yes THEN [Idle EXCEPT !.ph = "granted", !.op = req[r].op]
                                                    ELSE Idle]

\* AgentOAuthAuthority.Fingerprint: every row the authority was read from.  The
\* machine's row is part of it only for machine access, the session's otherwise.
Fingerprint(a, s, m) ==
    <<owner, guardian, IF a = None THEN None ELSE a \in active,
      IF s = None THEN None ELSE s \in live, client, IF m THEN machine ELSE None>>

\* isEligibleAgentOwner
Eligible == owner # "out"

\* AgentOAuthAuthority.ValidMachine
ValidMachine ==
    machine.st = "live" /\ Eligible /\ client.rev = machine.crev /\ "machine" \in client.reg

\* AgentOAuthAuthority.Valid
Valid(x) ==
    IF x.by = "machine"
    THEN ValidMachine /\ x.agent \in machine.sel /\ x.agent \in active
                      /\ x.crev = machine.crev
    ELSE Eligible /\ x.agent \in active /\ x.sid \in live
                  /\ x.crev = client.rev /\ "code" \in client.reg

\* AgentOAuthService.grantExpiry
GrantExpiry == Min({now + ConsentLife, policy.cap})

\* AgentOAuthService.human: signed in with a session that stands.
Human(s) == Eligible /\ s \in live

\* UPDATE agent_authorizations SET revoked_at_ms
Revoke(S) ==
    grant' = [g \in Grants |-> IF g \in S THEN [grant[g] EXCEPT !.revoked = TRUE] ELSE grant[g]]

Children == {g \in Authorizations : grant[g].by = "machine"}

\* The machine of an owner, client or project whose authority changed.
MachineRevoked ==
    IF machine.st = "live" THEN [machine EXCEPT !.st = "revoked", !.rev = @ + 1] ELSE machine

------------------------------------------------------------------------------
\* Mutant: an entry is served for as long as it is there.
ServesStored(e) == e.end > 0

\* CachingProjectResolver.load: an entry is served until it expires.
Serves(e) == e.end > now

\* The middleware resolves the project of a request before its handler runs
\* (CachingProjectResolver.resolve): from the cache, or from the row, which is
\* then cached.  Nothing removes an entry when the row changes.  A slot is the
\* entry of one replica and one key; one that is used no more was evicted, and
\* one that is used late was stored late by a slow fetch.
Arrive(r, k) ==
    LET e == IF Serves(cache[k]) THEN cache[k]
             ELSE [ver |-> project.ver, admits |-> project.admits, end |-> now + ScopeTTL]
    IN  /\ Free(r)
        /\ cache' = [cache EXCEPT ![k] = e]
        /\ req' = [req EXCEPT ![r] = [Idle EXCEPT !.ph = "arrived", !.from = now,
                                        !.scope = [ver |-> e.ver, admits |-> e.admits]]]
        /\ UNCHANGED <<owner, guardian, active, live, client, policy, project, machine, grant,
                       tokens, now, changes>>

\* AgentOAuthService.Start and CreateAgentAuthorization
Start(g) ==
    /\ grant[g].st = "none"
    /\ "code" \in client.reg
    /\ grant' = [grant EXCEPT ![g] = [NoGrant EXCEPT !.st = "pending", !.by = "consent",
                                        !.crev = client.rev, !.due = now + RequestLife,
                                        !.era = project.ver]]
    /\ UNCHANGED <<world, machine, tokens, now, changes, req>>

\* AgentOAuthService.Decide up to its admission: the person, the request, the
\* authority and the time the decision is dated.
DecideRead(r, g, a, s, op) ==
    /\ req[r].ph = "arrived"
    /\ Human(s)
    /\ g \in Authorizations
    /\ op = "approve" => Valid([grant[g] EXCEPT !.agent = a, !.sid = s])
    /\ req' = [req EXCEPT ![r] =
                 [req[r] EXCEPT !.ph = IF op = "approve" THEN "admit" ELSE "mutate",
                    !.op = op, !.g = g, !.agent = a, !.sid = s, !.at = now,
                    !.fp = Fingerprint(a, s, FALSE)]]
    /\ UNCHANGED <<world, machine, grant, tokens, now, changes>>

\* admitOwner judges by the scope of the request, grantExpiry by the login policy
\* as it is now.  A refused decision changes nothing.
DecideAdmit(r) ==
    /\ req[r].ph = "admit"
    /\ req[r].op = "approve"
    /\ IF req[r].scope.admits
       THEN req' = [req EXCEPT ![r].ph = "mutate", ![r].exp = GrantExpiry, ![r].ver = policy.ver]
       ELSE Answer(r, FALSE)
    /\ UNCHANGED <<world, machine, grant, tokens, now, changes>>

CodeExpiry(q) == Min({grant[q.g].due, q.at + CodeLife})

Decided(q) == [grant[q.g] EXCEPT !.agent = q.agent, !.sid = q.sid]

\* Mutant: the transaction trusts what the request read.
ConsentStandsUnread(q) ==
    /\ grant[q.g].st = "pending" /\ ~grant[q.g].revoked /\ grant[q.g].due > q.at
    /\ q.op = "approve" => q.exp > q.at /\ CodeExpiry(q) > q.at

\* applyAgentOAuthConsent: what the transaction demands of a decision.  A row's
\* revision is still the one that was shown exactly while it is pending and
\* unrevoked.
ConsentStands(q) ==
    /\ grant[q.g].st = "pending" /\ ~grant[q.g].revoked /\ grant[q.g].due > q.at
    /\ q.fp = Fingerprint(q.agent, q.sid, FALSE)
    /\ IF q.op = "deny" THEN Human(q.sid)
       ELSE Valid(Decided(q)) /\ q.exp > q.at /\ CodeExpiry(q) > q.at

\* MutateAgentAuthorization, operations approve and deny
DecideMutate(r) ==
    LET q == req[r]
        ok == ConsentStands(q)
    IN  /\ q.ph = "mutate"
        /\ q.op \in {"approve", "deny"}
        /\ Answer(r, ok)
        /\ grant' = IF ~ok THEN grant
                    ELSE [grant EXCEPT ![q.g] =
                            IF q.op = "deny" THEN [Decided(q) EXCEPT !.st = "denied"]
                            ELSE [Decided(q) EXCEPT !.st = "approved", !.exp = q.exp,
                                                    !.code = "out", !.codeExp = CodeExpiry(q)]]
        /\ UNCHANGED <<world, machine, tokens, now, changes>>

------------------------------------------------------------------------------
\* Who may ask: the holder of an unused code that is in time, of any refresh
\* token ever issued, of an access token, or of an agent's machine key.
MayAsk(g, op, i) ==
    CASE op = "redeem"     -> grant[g].code = "out" /\ grant[g].codeExp > now /\ i = 0
      [] op = "rotate"     -> i \in DOMAIN tokens[g]
      [] op = "introspect" -> (grant[g].redeemed > 0 \/ grant[g].by = "machine") /\ i = 0
      [] op = "exchange"   -> grant[g].by = "machine" /\ ValidMachine /\ i = 0

\* Redeem, Refresh, Introspect and ExchangeMachine up to the authority their
\* copy of the grant rests on.  One that no longer carries the grant ends it.
IssueRead(r, g, op, i) ==
    LET x == grant[g]
        dead == ~Valid(x) \/ (x.by = "consent" /\ x.exp <= now)
    IN  /\ req[r].ph = "arrived"
        /\ g \in Authorizations
        /\ MayAsk(g, op, i)
        /\ ~x.revoked
        /\ req' = [req EXCEPT ![r] =
                     [req[r] EXCEPT !.ph = IF dead THEN "invalidate" ELSE "admit",
                        !.op = op, !.g = g, !.i = i, !.at = now,
                        !.fp = Fingerprint(x.agent, x.sid, x.by = "machine")]]
        /\ UNCHANGED <<world, machine, grant, tokens, now, changes>>

\* The rest of admittedAuthority, and the terms of what is issued.  The terms
\* are bounded by the copy of the grant, whose expiry never changes.
IssueAdmit(r) ==
    LET q == req[r]
        x == grant[q.g]
        refused == ~q.scope.admits \/ (x.by = "consent" /\ GrantExpiry <= now)
        ends == IF x.by = "machine" THEN "invalidate machine" ELSE "invalidate"
    IN  /\ q.ph = "admit"
        /\ q.op \in {"redeem", "rotate", "introspect", "exchange"}
        /\ IF refused THEN req' = [req EXCEPT ![r].ph = ends]
           ELSE IF q.op \in {"redeem", "rotate"} /\ x.exp <= now THEN Answer(r, FALSE)
           ELSE req' = [req EXCEPT ![r].ph = "mutate", ![r].ver = policy.ver,
                          ![r].at = IF q.op = "exchange" THEN @ ELSE now,
                          ![r].exp = Min({x.exp, GrantExpiry, now + RefreshIdle})]
        /\ UNCHANGED <<world, machine, grant, tokens, now, changes>>

\* What the transaction demands of the grant before any operation on it
\* (ApplyAgentOAuthMutation).
Stands(q) ==
    LET x == grant[q.g]
    IN  /\ x.st = "approved" /\ ~x.revoked
        /\ x.by = "machine" \/ x.exp > q.at
        /\ Valid(x)
        /\ q.fp = Fingerprint(x.agent, x.sid, x.by = "machine")

\* A refresh token goes with what is issued when the client may hold one.
NextTokens(q, old) ==
    IF "refresh" \in client.reg THEN Append(old, [exp |-> q.exp, used |-> FALSE]) ELSE old

\* MutateAgentAuthorization, operation redeem
RedeemMutate(r) ==
    LET q == req[r]
        x == grant[q.g]
        ok == /\ Stands(q) /\ x.code = "out" /\ x.codeExp > q.at
              /\ "refresh" \in client.reg => q.exp > q.at
    IN  /\ q.ph = "mutate"
        /\ q.op = "redeem"
        /\ ok => Len(tokens[q.g]) < MaxTokens
        /\ Answer(r, ok)
        /\ grant' = IF ok THEN [grant EXCEPT ![q.g].code = "used", ![q.g].redeemed = @ + 1] ELSE grant
        /\ tokens' = IF ok THEN [tokens EXCEPT ![q.g] = NextTokens(q, @)] ELSE tokens
        /\ UNCHANGED <<world, machine, now, changes>>

Presented(q) == q.i \in DOMAIN tokens[q.g]

\* Mutant: a consumed token is found out only afterwards.
RotatesUsed(q) ==
    /\ Stands(q) /\ Presented(q) /\ tokens[q.g][q.i].exp > q.at
    /\ "refresh" \in client.reg /\ q.exp > q.at

\* A refresh token is exchanged while it is unused and in time.
Rotates(q) ==
    /\ Stands(q) /\ Presented(q) /\ ~tokens[q.g][q.i].used /\ tokens[q.g][q.i].exp > q.at
    /\ "refresh" \in client.reg /\ q.exp > q.at

\* Operation rotate.  A token that was consumed before revokes the grant, and
\* that revocation commits although the request is refused.
RotateMutate(r) ==
    LET q == req[r]
        ok == Rotates(q)
    IN  /\ q.ph = "mutate"
        /\ q.op = "rotate"
        /\ ok => Len(tokens[q.g]) < MaxTokens
        /\ Answer(r, ok)
        /\ Revoke(IF Stands(q) /\ Presented(q) /\ tokens[q.g][q.i].used THEN {q.g} ELSE {})
        /\ tokens' = IF ok THEN [tokens EXCEPT ![q.g] = NextTokens(q, [@ EXCEPT ![q.i].used = TRUE])]
                           ELSE tokens
        /\ UNCHANGED <<world, machine, now, changes>>

\* Operation validate: an introspection answers active, an exchange returns the
\* token it signed.
Validate(r) ==
    /\ req[r].ph = "mutate"
    /\ req[r].op \in {"introspect", "exchange"}
    /\ Answer(r, Stands(req[r]))
    /\ UNCHANGED <<world, machine, grant, tokens, now, changes>>

\* AgentOAuthService.invalidate: the grant that lost its authority is revoked.
Invalidate(r) ==
    /\ req[r].ph = "invalidate"
    /\ Answer(r, FALSE)
    /\ Revoke({req[r].g} \cap Authorizations)
    /\ UNCHANGED <<world, machine, tokens, now, changes>>

\* AgentOAuthService.invalidateMachine: the owner is refused, the machine and
\* its delegations go.
InvalidateMachine(r) ==
    /\ req[r].ph = "invalidate machine"
    /\ Answer(r, FALSE)
    /\ machine' = MachineRevoked
    /\ Revoke(Children)
    /\ UNCHANGED <<world, tokens, now, changes>>

------------------------------------------------------------------------------
\* AgentOAuthService.RegisterMachine up to the transaction.  A refused owner
\* registers nothing.
RegisterRead(r, s) ==
    /\ req[r].ph = "arrived"
    /\ Human(s)
    /\ "machine" \in client.reg
    /\ req[r].scope.admits
    /\ req' = [req EXCEPT ![r] = [@ EXCEPT !.ph = "mutate", !.op = "register", !.sid = s,
                                    !.fp = Fingerprint(None, s, FALSE)]]
    /\ UNCHANGED <<world, machine, grant, tokens, now, changes>>

\* CreateAgentMachine.  A repeat of a registration finds the machine as it is
\* now, revoked or not, and creates nothing.
RegisterMutate(r, sel) ==
    LET q == req[r]
        ok == Human(q.sid) /\ "machine" \in client.reg /\ q.fp = Fingerprint(None, q.sid, FALSE)
    IN  /\ q.ph = "mutate"
        /\ q.op = "register"
        /\ Answer(r, ok)
        /\ machine' = IF ok /\ machine.st = "none"
                      THEN [st |-> "live", sel |-> sel, crev |-> client.rev, rev |-> 1]
                      ELSE machine
        /\ UNCHANGED <<world, grant, tokens, now, changes>>

\* RegisterMachineAgentKey up to the transaction: currentMachine admits the
\* owner, and the machine has to allow the agent.
EnrolRead(r, a) ==
    /\ req[r].ph = "arrived"
    /\ ValidMachine
    /\ req[r].scope.admits => a \in machine.sel /\ a \in active
    /\ req' = [req EXCEPT ![r] =
                 [@ EXCEPT !.ph = IF req[r].scope.admits THEN "mutate" ELSE "invalidate machine",
                    !.op = "enrol", !.agent = a, !.fp = Fingerprint(a, None, TRUE)]]
    /\ UNCHANGED <<world, machine, grant, tokens, now, changes>>

\* Mutant: only a delegation that stands is in the way of a new one.
StandingDelegations(a) == {g \in Children : grant[g].agent = a /\ ~grant[g].revoked}

Delegations(a) == {g \in Children : grant[g].agent = a}

\* EnsureAgentMachineDelegation: one delegation for each machine and agent, and
\* one that exists is returned as it is, never replaced.
EnrolMutate(r, g) ==
    LET q == req[r]
        new == [NoGrant EXCEPT !.st = "approved", !.by = "machine", !.agent = q.agent,
                               !.crev = machine.crev, !.era = project.ver]
        ok == Valid(new) /\ q.fp = Fingerprint(q.agent, None, TRUE)
    IN  /\ q.ph = "mutate"
        /\ q.op = "enrol"
        /\ grant[g].st = "none"
        /\ Answer(r, ok /\ \A h \in Delegations(q.agent) : ~grant[h].revoked)
        /\ grant' = IF ok /\ Delegations(q.agent) = {} THEN [grant EXCEPT ![g] = new] ELSE grant
        /\ UNCHANGED <<world, machine, tokens, now, changes>>

\* SelectMachineAgents and MutateAgentMachine: delegations of agents that are no
\* longer selected go.
SelectMachineAgents(s, sel) ==
    /\ Human(s)
    /\ ValidMachine
    /\ changes < MaxChanges
    /\ machine' = [machine EXCEPT !.sel = sel, !.rev = @ + 1]
    /\ Revoke({g \in Children : grant[g].agent \notin sel})
    /\ changes' = changes + 1
    /\ UNCHANGED <<world, tokens, now, req>>

\* RevokeMachine, and the trigger on its row
RevokeMachine(s) ==
    /\ Human(s)
    /\ machine.st = "live"
    /\ changes < MaxChanges
    /\ machine' = MachineRevoked
    /\ Revoke(Children)
    /\ changes' = changes + 1
    /\ UNCHANGED <<world, tokens, now, req>>

\* AgentOAuthService.Revoke by the owner, RevokeToken by who holds a refresh token
RevokeGrant(g) ==
    /\ g \in Owned
    /\ ~grant[g].revoked
    /\ tokens[g] # <<>> \/ \E s \in Sids : Human(s)
    /\ changes < MaxChanges
    /\ Revoke({g})
    /\ changes' = changes + 1
    /\ UNCHANGED <<world, machine, tokens, now, req>>

\* DeleteExpiredAgentAuthorizations; the refresh tokens go with the row.
Sweep(g) ==
    /\ g \in Authorizations
    /\ grant[g].by = "consent"
    /\ Max({grant[g].due, grant[g].exp}) < now
    /\ grant' = [grant EXCEPT ![g] = [NoGrant EXCEPT !.st = "gone", !.by = "consent", !.exp = grant[g].exp]]
    /\ tokens' = [tokens EXCEPT ![g] = <<>>]
    /\ UNCHANGED <<world, machine, now, changes, req>>

------------------------------------------------------------------------------
\* A change of the world and the triggers it fires: the grants S are revoked,
\* and the machine when M.
Withdraw(S, M) ==
    /\ changes < MaxChanges
    /\ changes' = changes + 1
    /\ machine' = IF M THEN MachineRevoked ELSE machine
    /\ Revoke(S)
    /\ UNCHANGED <<tokens, now, req>>

\* users: a watched column of the owner changes, or the row is deleted.
ChangeOwner(o) ==
    /\ o # owner
    /\ owner' = o
    /\ Withdraw(Owned, TRUE)
    /\ UNCHANGED <<guardian, active, live, client, policy, project, cache>>

\* users: the status of an agent changes.
ChangeAgent(a) ==
    /\ active' = IF a \in active THEN active \ {a} ELSE active \cup {a}
    /\ Withdraw({g \in Authorizations : grant[g].agent = a}, FALSE)
    /\ UNCHANGED <<owner, guardian, live, client, policy, project, cache>>

OfSession(s) == {g \in Authorizations : grant[g].by = "consent" /\ grant[g].sid = s}

\* sessions: one is revoked or deleted.
EndSession(s) ==
    /\ s \in live
    /\ live' = live \ {s}
    /\ Withdraw(OfSession(s), FALSE)
    /\ UNCHANGED <<owner, guardian, active, client, policy, project, cache>>

\* refresh_tokens: the row of a session is deleted, the session stays.
DropRefreshRow(s) ==
    /\ OfSession(s) # {}
    /\ Withdraw(OfSession(s), FALSE)
    /\ UNCHANGED world

\* oauth_clients: a new revision.
ChangeClient(reg) ==
    /\ client' = [rev |-> client.rev + 1, reg |-> reg]
    /\ Withdraw(Authorizations, TRUE)
    /\ UNCHANGED <<owner, guardian, active, live, policy, project, cache>>

\* guardian_edges: no trigger watches the first edge, one watches deletions.
ChangeGuardian ==
    /\ guardian' = ~guardian
    /\ Withdraw(IF guardian THEN Owned ELSE {}, guardian)
    /\ UNCHANGED <<owner, active, live, client, policy, project, cache>>

\* projects: the configuration changes, and everything of the project is
\* withdrawn, requests that wait for a decision included.
ChangeProject(admits) ==
    /\ project' = [ver |-> project.ver + 1, admits |-> admits, since |-> now]
    /\ Withdraw(Authorizations, TRUE)
    /\ UNCHANGED <<owner, guardian, active, live, client, policy, cache>>

\* Mutant: a policy without a timeout ends every session at time zero.
PolicyWithoutTimeout(cap) == [ver |-> policy.ver + 1, cap |-> 0]

Policy(cap) == [ver |-> policy.ver + 1, cap |-> cap]

\* login_policies: the same.
ChangePolicy(cap) ==
    /\ policy' = Policy(cap)
    /\ Withdraw(Authorizations, TRUE)
    /\ UNCHANGED <<owner, guardian, active, live, client, project, cache>>

\* Mutant: a change of tenant or domain withdraws machines and forgets consents.
ChangeGovernanceOfMachines(cap) ==
    /\ policy' = Policy(cap)
    /\ Withdraw(Children, TRUE)
    /\ UNCHANGED <<owner, guardian, active, live, client, project, cache>>

\* tenants and domains: what the change governs is found by its owner, and a
\* request that waits for a decision has none.
ChangeGovernance(cap) ==
    /\ policy' = Policy(cap)
    /\ Withdraw(Owned, TRUE)
    /\ UNCHANGED <<owner, guardian, active, live, client, project, cache>>

\* A request that is lost: its process stops or a call of it fails.
Lose(r) ==
    /\ ~Free(r)
    /\ req' = [req EXCEPT ![r] = Idle]
    /\ UNCHANGED <<world, machine, grant, tokens, now, changes>>

Tick ==
    /\ now < MaxTime
    /\ now' = now + 1
    /\ UNCHANGED <<world, machine, grant, tokens, changes, req>>

------------------------------------------------------------------------------
AgentInit ==
    /\ owner = "good"
    /\ guardian = FALSE
    /\ active = Agents
    /\ live = Sids
    /\ client \in [rev : {1}, reg : Regs \ {{}}]
    /\ policy \in [ver : {0}, cap : Caps]
    /\ project = [ver |-> 0, admits |-> TRUE, since |-> 0]
    /\ cache = [k \in Slots |-> [ver |-> 0, admits |-> FALSE, end |-> 0]]
    /\ machine = [st |-> "none", sel |-> {}, crev |-> 0, rev |-> 0]
    /\ grant = [g \in Grants |-> NoGrant]
    /\ tokens = [g \in Grants |-> <<>>]
    /\ now = 0
    /\ changes = 0
    /\ req = [r \in Requests |-> Idle]

Consent ==
    \/ \E g \in Asked : Start(g)
    \/ \E r \in Requests, g \in Asked, s \in Sids :
          \/ \E a \in Agents : DecideRead(r, g, a, s, "approve")
          \/ DecideRead(r, g, None, s, "deny")
    \/ \E r \in Requests : DecideAdmit(r) \/ DecideMutate(r)

Issue ==
    \/ \E r \in Requests, g \in Grants, op \in {"redeem", "rotate", "introspect", "exchange"},
          i \in 0..MaxTokens : IssueRead(r, g, op, i)
    \/ \E r \in Requests : \/ IssueAdmit(r) \/ RedeemMutate(r) \/ RotateMutate(r)
                           \/ Validate(r) \/ Invalidate(r) \/ InvalidateMachine(r)

Machines ==
    \/ \E r \in Requests : \/ \E s \in Sids : RegisterRead(r, s)
                           \/ \E sel \in SUBSET Agents : RegisterMutate(r, sel)
                           \/ \E a \in Agents : EnrolRead(r, a)
                           \/ \E g \in Delegated : EnrolMutate(r, g)
    \/ \E s \in Sids : \/ \E sel \in SUBSET Agents : SelectMachineAgents(s, sel)
                       \/ RevokeMachine(s)

World ==
    \/ \E o \in {"good", "moved", "out"} : ChangeOwner(o)
    \/ \E a \in Agents : ChangeAgent(a)
    \/ \E s \in Sids : EndSession(s) \/ DropRefreshRow(s)
    \/ \E reg \in Regs : ChangeClient(reg)
    \/ ChangeGuardian
    \/ \E admits \in BOOLEAN : ChangeProject(admits)
    \/ \E cap \in Caps : ChangePolicy(cap) \/ ChangeGovernance(cap)

AgentNext ==
    \/ \E r \in Requests, k \in Slots : Arrive(r, k)
    \/ Consent
    \/ Issue
    \/ Machines
    \/ World
    \/ \E g \in Grants : RevokeGrant(g) \/ Sweep(g)
    \/ \E r \in Requests : Lose(r)
    \/ Tick

AgentSpec == AgentInit /\ [][AgentNext]_agentVars

------------------------------------------------------------------------------
(* Properties *)

Clients == [rev : Nat, reg : Regs]
Policies == [ver : Nat, cap : Caps]
Projects == [ver : Nat, admits : BOOLEAN, since : Nat]
Copies == [ver : Nat, admits : BOOLEAN, end : Nat]
Scopes == [ver : Nat, admits : BOOLEAN]
Machine == [st : {"none", "live", "revoked"}, sel : SUBSET Agents, crev : Nat, rev : Nat]
Terms == [st : {"none", "pending", "approved", "denied", "gone"},
          by : {None, "consent", "machine"}, agent : Agents \cup {None},
          sid : Sids \cup {None}, crev : Nat, due : Nat, exp : Nat,
          code : {"none", "out", "used"}, codeExp : Nat, revoked : BOOLEAN, redeemed : Nat,
          era : Nat]
Tokens == [exp : Nat, used : BOOLEAN]
Fingerprints ==
    {"good", "moved", "out"} \X BOOLEAN \X (BOOLEAN \cup {None}) \X (BOOLEAN \cup {None})
        \X Clients \X (Machine \cup {None})
Memory ==
    [ph : {"idle", "arrived", "admit", "mutate", "invalidate", "invalidate machine", "granted"},
     op : {None, "approve", "deny", "redeem", "rotate", "introspect", "exchange", "register",
           "enrol"},
     g : Grants \cup {None}, agent : Agents \cup {None}, sid : Sids \cup {None},
     i : 0..MaxTokens, fp : {<<>>} \cup Fingerprints, at : Nat, exp : Nat, ver : Nat,
     from : Nat, scope : Scopes]

\* The variables keep their types: a grant's terms and tokens, the machine, and
\* what each request remembers of its reads.
AgentTypeOK ==
    /\ owner \in {"good", "moved", "out"}
    /\ guardian \in BOOLEAN
    /\ active \in SUBSET Agents
    /\ live \in SUBSET Sids
    /\ client \in Clients
    /\ policy \in Policies
    /\ project \in Projects
    /\ cache \in [Slots -> Copies]
    /\ machine \in Machine
    /\ grant \in [Grants -> Terms]
    /\ tokens \in [Grants -> Seq(Tokens)]
    /\ now \in 0..MaxTime
    /\ changes \in 0..MaxChanges
    /\ req \in [Requests -> Memory]

\* A grant that is approved and not revoked still has everything it rests on: an
\* owner who may own agents, an active agent, the client as it was consented to,
\* and the session it was consented in or, for a delegation, a live machine that
\* selects the agent.  Approvals and enrolments read these rows long before they
\* commit, and each of the rows is changed by code that knows nothing of grants;
\* the locked second read and the triggers together have to leave no gap
\* (repo/postgres/agent_oauth.go:165-254, migrations 0041, 0042 and 0046).
LiveGrantHasAuthority == \A g \in Live : Valid(grant[g])

\* What is issued, and what an introspection calls active, was admitted by the
\* login policy that is in force at the commit, and by the project's configuration
\* in force or by one that had been replaced for less than the lifetime of a cached
\* copy when the request came; and the grant is no older than the configuration in
\* force, so a replaced one serves at most consents asked for since.  Neither is
\* read again by the transaction: it is the withdrawal of grants by the change
\* that has to refuse a request caught between admission and commit, and the
\* expiry of the copies that has to end what a withdrawal cannot
\* (service/agent_oauth.go:411-450, project_resolver_cache.go:103-140).
IssuedUnderPolicyInForce ==
    [][\A r \in Requests :
          /\ req[r].ph = "mutate"
          /\ req[r].op \in {"redeem", "rotate", "introspect", "exchange"}
          /\ req'[r].ph = "granted"
          => /\ req[r].ver = policy.ver
             /\ grant[req[r].g].era = project.ver
             /\ \/ req[r].scope.ver = project.ver
                \/ req[r].from < project.since + ScopeTTL]_agentVars

\* A consent leads to one lineage of tokens: its code is redeemed at most once,
\* and at most one of its refresh tokens is unused, however many requests present
\* the code or the same token at a time (agent_oauth_state.go:216-238).
OneLineage ==
    \A g \in Grants :
        /\ grant[g].redeemed <= 1
        /\ Cardinality({i \in DOMAIN tokens[g] : ~tokens[g][i].used}) <= 1

\* An agent whose delegation on a machine was withdrawn has no live delegation
\* on that machine again: neither selecting it again, nor enrolling it with a
\* request that was under way, brings one back (agent_machine_state.go:144-146).
WithdrawnStaysOut ==
    \A g \in Children, h \in Live \cap Children :
        grant[g].revoked => grant[g].agent # grant[h].agent

\* What migration 0041 says of changes of tenant policy, "restoring a prior policy
\* cannot resurrect a grant admitted under old rules" (:93-94): no approval
\* commits under a policy that was replaced after its owner was admitted.
ConsentUnderCurrentPolicy ==
    [][\A r \in Requests :
          req[r].ph = "mutate" /\ req[r].op = "approve" /\ req'[r].ph = "granted"
          => req[r].ver = policy.ver]_agentVars
==============================================================================
