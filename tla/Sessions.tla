------------------------------ MODULE Sessions ------------------------------
(***************************************************************************)
(* Sign-in, refresh-token rotation, replay detection, logout and the bulk  *)
(* revocations of one account, under GATEWAY_REVOCATION_MODE=session       *)
(* (internal/service/auth.go and the operations that call it).             *)
(*                                                                         *)
(* Every request is a process that runs once.  A step is one repository   *)
(* call with the code that runs after it up to the next call, because that *)
(* is what other replicas can interleave with: no transaction spans two of *)
(* these calls.                                                            *)
(*                                                                         *)
(* The sid minted with a refresh token and the token itself are both       *)
(* random and used once, so one identifier in Tokens stands for the pair:  *)
(* row[t] is the refresh_tokens row, sess[t] the sessions row it links to. *)
(*                                                                         *)
(* One account is modelled: every statement is keyed by a token hash, a    *)
(* row id, a sid or that account's id.  Rows written before the sid link   *)
(* or the session anchor existed are left out.                             *)
(***************************************************************************)
EXTENDS Naturals, FiniteSets

CONSTANTS
    Tokens,          \* identifiers a sign-in or a rotation can mint
    Requests,        \* concurrent requests, over all replicas
    NoToken,         \* "no token", not a member of Tokens
    RefreshExpiry,   \* RefreshExpirySeconds, in clock ticks
    IdleTimeout,     \* the login policy's idle timeout, 0 when unset
    AbsoluteTimeout, \* the login policy's absolute timeout, 0 when unset
    FaultsHappen,    \* whether requests crash and best-effort writes fail
    MaxTime          \* bound on the clock

ASSUME SessionsAssumption ==
    /\ NoToken \notin Tokens
    /\ RefreshExpiry \in Nat
    /\ IdleTimeout \in Nat
    /\ AbsoluteTimeout \in Nat
    /\ FaultsHappen \in BOOLEAN
    /\ MaxTime \in Nat

VARIABLES
    row,      \* refresh_tokens: absent, live, consumed (rotated) or deleted
    sess,     \* sessions: absent, active or revoked
    created,  \* CreatedAt = LastUsedAt of the row; ExpiresAt follows from it
    started,  \* SessionStartedAt of the row
    root,     \* history: the sign-in's token this token descends from
    standing, \* which gate, if any, now refuses the account a session
    now,      \* the clock every replica reads
    pc,       \* where each request is
    arg,      \* the token the request presented, and its record once read
    new,      \* the identifier the request is minting
    at,       \* the time issueTokensWithSessionStart read when it began
    doomed,   \* the row ids ProfileService.revokeAllUserSessions has listed
    seen,     \* history: the rows that existed when the request began
    good,     \* history: the account has been in good standing since it began
    faulty    \* history: a best-effort write of the request failed

tables == <<row, sess, created, started, root>>
locals == <<arg, new, at, doomed>>
ghosts == <<seen, good, faulty>>
vars == <<tables, standing, now, pc, locals, ghosts>>

\* "gated" stands for every gate that refuses and leaves the token alone:
\* required DOB, project access, agent standing, product age, tenant choice.
\* A standing is what the gates answer: project access and product age are judged
\* by the configuration the request was served, which the project resolution
\* cache may hold for its TTL (30 seconds by default) after the row changed.
Standings == {"active", "unverified", "gated", "locked", "inactive"}

PCs == {"new", "done", "read", "user", "consume", "consumeRefused", "access", "gate",
        "session", "token", "find", "deleteOne", "revokeOne", "status",
        "password", "deleteAll", "revokeAll", "cutTokens", "cutSessions",
        "swept", "list", "each", "node"}

TypeOK ==
    /\ row \in [Tokens -> {"none", "live", "consumed", "deleted"}]
    /\ sess \in [Tokens -> {"none", "active", "revoked"}]
    /\ created \in [Tokens -> Nat]
    /\ started \in [Tokens -> Nat]
    /\ root \in [Tokens -> Tokens]
    /\ standing \in Standings
    /\ now \in Nat
    /\ pc \in [Requests -> PCs]
    /\ arg \in [Requests -> Tokens \cup {NoToken}]
    /\ new \in [Requests -> Tokens \cup {NoToken}]
    /\ at \in [Requests -> Nat]
    /\ doomed \in [Requests -> SUBSET Tokens]
    /\ seen \in [Requests -> SUBSET Tokens]
    /\ good \in [Requests -> BOOLEAN]
    /\ faulty \in [Requests -> BOOLEAN]

-----------------------------------------------------------------------------
(* The repository: one statement each.                                     *)

Stored(t) == row[t] \in {"live", "consumed"}

CreateSession(t) == sess' = [sess EXCEPT ![t] = "active"]

\* Mutant: every rotation re-anchors the session.
CreateRefreshTokenReanchored(t, when, start, from) ==
    /\ row' = [row EXCEPT ![t] = "live"]
    /\ created' = [created EXCEPT ![t] = when]
    /\ started' = [started EXCEPT ![t] = when]
    /\ root' = [root EXCEPT ![t] = IF from = NoToken THEN t ELSE root[from]]

CreateRefreshToken(t, when, start, from) ==
    /\ row' = [row EXCEPT ![t] = "live"]
    /\ created' = [created EXCEPT ![t] = when]
    /\ started' = [started EXCEPT ![t] = start]
    /\ root' = [root EXCEPT ![t] = IF from = NoToken THEN t ELSE root[from]]

DeleteRefreshToken(t) ==
    row' = [row EXCEPT ![t] = IF Stored(t) THEN "deleted" ELSE @]

\* Mutant: the bulk delete skips the rotated rows.
DeleteLiveTokensForUser ==
    row' = [t \in Tokens |-> IF row[t] = "live" THEN "deleted" ELSE row[t]]

DeleteRefreshTokensForUser ==
    row' = [t \in Tokens |-> IF Stored(t) THEN "deleted" ELSE row[t]]

\* Mutant: the update matches the row whatever its consumed_at_ms.
ConsumeMatchesAnyRow(t) == Stored(t)

\* UPDATE ... WHERE consumed_at_ms = 0; the caller looks at the row count.
ConsumeMatches(t) == row[t] = "live"

ConsumeRefreshTokenByHash(t) == row' = [row EXCEPT ![t] = "consumed"]

RevokeSession(t) ==
    sess' = [sess EXCEPT ![t] = IF @ = "active" THEN "revoked" ELSE @]

RevokeSessionsForUser ==
    sess' = [t \in Tokens |-> IF sess[t] = "active" THEN "revoked" ELSE sess[t]]

-----------------------------------------------------------------------------
(* Requests.                                                               *)

Goto(r, label) == pc' = [pc EXCEPT ![r] = label]

\* A request arrives: where it starts and what it carries.
Begin(r, label, t) ==
    /\ pc[r] = "new"
    /\ Goto(r, label)
    /\ arg' = [arg EXCEPT ![r] = t]
    /\ seen' = [seen EXCEPT ![r] = {u \in Tokens : row[u] # "none"}]
    /\ good' = [good EXCEPT ![r] = standing = "active"]
    /\ UNCHANGED <<tables, standing, now, new, at, doomed, faulty>>

\* A token can be presented once it was issued, whatever happened to it since.
Issued(t) == row[t] # "none"

RefreshToken(r) == \E t \in Tokens : Issued(t) /\ Begin(r, "read", t)
Logout(r) == \E t \in Tokens : Issued(t) /\ Begin(r, "find", t)
SignIn(r) == Begin(r, "gate", NoToken)
DeactivateUser(r) == Begin(r, "status", NoToken)
ConfirmPasswordReset(r) == Begin(r, "password", NoToken)
RevokeAllSessions(r) == Begin(r, "list", NoToken)
RevokeMySession(r) == \E t \in Tokens : Issued(t) /\ Begin(r, "node", t)

\* What a step of r leaves alone besides the tables.
Still == UNCHANGED <<standing, now, locals, ghosts>>

Expired(t) == created[t] + RefreshExpiry < now

TimedOut(t) ==
    \/ AbsoluteTimeout > 0 /\ now > started[t] + AbsoluteTimeout
    \/ IdleTimeout > 0 /\ now > created[t] + IdleTimeout

\* RefreshToken: FindRefreshTokenByHashIncludingConsumed and what follows it.
RefreshRead(r) ==
    /\ pc[r] = "read"
    /\ Goto(r, IF row[arg[r]] = "deleted" THEN "done"
               ELSE IF row[arg[r]] = "consumed" THEN "deleteAll"
               ELSE IF Expired(arg[r]) THEN "deleteOne"
               ELSE "user")
    /\ UNCHANGED tables
    /\ Still

\* Mutant: the account's own status is not looked at.
RefreshGatesNoStatus(r) ==
    /\ pc[r] = "user"
    /\ Goto(r, IF TimedOut(arg[r]) THEN "deleteOne"
               ELSE CASE standing \in {"active", "inactive"} -> "consume"
                      [] standing = "unverified" -> "revokeOne"
                      [] OTHER                   -> "done")
    /\ UNCHANGED tables
    /\ Still

\* RefreshToken: GetUser and every gate that runs before the token is spent.
RefreshGates(r) ==
    /\ pc[r] = "user"
    /\ Goto(r, IF TimedOut(arg[r]) THEN "deleteOne"
               ELSE CASE standing = "active"     -> "consume"
                      [] standing = "inactive"   -> "consumeRefused"
                      [] standing = "unverified" -> "revokeOne"
                      [] OTHER                   -> "done")
    /\ UNCHANGED tables
    /\ Still

\* RefreshToken: the rotation's compare-and-set. A loser is refused and
\* nothing else happens to the account.
RefreshConsume(r) ==
    /\ pc[r] \in {"consume", "consumeRefused"}
    /\ IF ConsumeMatches(arg[r])
         THEN /\ ConsumeRefreshTokenByHash(arg[r])
              /\ Goto(r, IF pc[r] = "consume" THEN "access" ELSE "revokeOne")
         ELSE /\ Goto(r, "done")
              /\ UNCHANGED row
    /\ UNCHANGED <<sess, created, started, root>>
    /\ Still

\* RefreshToken: project access, read again after the token is spent.
RefreshAccess(r) ==
    /\ pc[r] = "access"
    /\ Goto(r, IF standing = "gated" THEN "done" ELSE "session")
    /\ UNCHANGED tables
    /\ Still

\* The gates of a sign-in that is complete in one request, on its copy of the
\* account (the second request of a two-factor sign-in is in PasswordLogin).
SignInGates(r) ==
    /\ pc[r] = "gate"
    /\ Goto(r, IF standing = "active" THEN "session" ELSE "done")
    /\ UNCHANGED tables
    /\ Still

\* issueTokensWithSessionStart: the session row is written first.
IssueSession(r) ==
    /\ pc[r] = "session"
    /\ \E t \in Tokens :
         /\ sess[t] = "none"
         /\ CreateSession(t)
         /\ new' = [new EXCEPT ![r] = t]
    /\ at' = [at EXCEPT ![r] = now]
    /\ Goto(r, "token")
    /\ UNCHANGED <<row, created, started, root, standing, now, arg, doomed, ghosts>>

\* issueTokensWithSessionStart: then the refresh token. A rotation hands the
\* consumed row's anchor on, a sign-in anchors at the time it began.
IssueRefresh(r) ==
    /\ pc[r] = "token"
    /\ CreateRefreshToken(new[r], at[r],
                          IF arg[r] = NoToken THEN at[r] ELSE started[arg[r]], arg[r])
    /\ Goto(r, "done")
    /\ UNCHANGED sess
    /\ Still

\* Logout: FindRefreshTokenByHash sees unconsumed rows only.
LogoutFind(r) ==
    /\ pc[r] = "find"
    /\ Goto(r, IF row[arg[r]] = "live" THEN "deleteOne" ELSE "done")
    /\ UNCHANGED tables
    /\ Still

\* Logout, an expired token, a timed-out session: the row goes, by its id.
DropToken(r) ==
    /\ pc[r] = "deleteOne"
    /\ DeleteRefreshToken(arg[r])
    /\ Goto(r, "revokeOne")
    /\ UNCHANGED <<sess, created, started, root>>
    /\ Still

\* revokeSessionIfModeSession: the sid the record carries, and only it.
EndSession(r) ==
    /\ pc[r] = "revokeOne"
    /\ RevokeSession(arg[r])
    /\ Goto(r, "done")
    /\ UNCHANGED <<row, created, started, root>>
    /\ Still

\* Mutant: a status no gate knows.
WriteSuspended(r) ==
    /\ pc[r] = "status"
    /\ standing' = "suspended"
    /\ Goto(r, "cutTokens")
    /\ UNCHANGED <<tables, now, locals, ghosts>>

\* DeactivateUser: the status write, before anything is revoked.
WriteDeactivated(r) ==
    /\ pc[r] = "status"
    /\ standing' = "inactive"
    /\ Goto(r, "cutTokens")
    /\ UNCHANGED <<tables, now, locals, ghosts>>

\* ConfirmPasswordReset: the new password, which also clears a lockout.
WritePassword(r) ==
    /\ pc[r] = "password"
    /\ standing' = IF standing = "locked" THEN "active" ELSE standing
    /\ good' = [q \in Requests |-> good[q] \/ standing' = "active"]
    /\ Goto(r, "deleteAll")
    /\ UNCHANGED <<tables, now, locals, seen, faulty>>

\* Replay detection and ConfirmPasswordReset, best effort, and
\* revokeAllUserSessions, which stops at an error: first the rows...
DropAllTokens(r) ==
    /\ pc[r] \in {"deleteAll", "cutTokens"}
    /\ DeleteRefreshTokensForUser
    /\ Goto(r, IF pc[r] = "deleteAll" THEN "revokeAll" ELSE "cutSessions")
    /\ UNCHANGED <<sess, created, started, root>>
    /\ Still

\* ...and then the sessions.
EndAllSessions(r) ==
    /\ pc[r] \in {"revokeAll", "cutSessions"}
    /\ RevokeSessionsForUser
    /\ Goto(r, "swept")
    /\ UNCHANGED <<row, created, started, root>>
    /\ Still

\* The audit entry and the answer of a bulk revocation.
Answer(r) ==
    /\ pc[r] = "swept"
    /\ Goto(r, "done")
    /\ UNCHANGED tables
    /\ Still

\* ProfileService.revokeAllUserSessions (RevokeAllSessions, ChangePassword):
\* list the rows, then delete them one transaction at a time.
ListNodes(r) ==
    /\ pc[r] = "list"
    /\ doomed' = [doomed EXCEPT ![r] = {t \in Tokens : Stored(t)}]
    /\ Goto(r, "each")
    /\ UNCHANGED <<tables, standing, now, arg, new, at, ghosts>>

\* A delete that fails is logged and skipped.
DeleteNode(r) ==
    /\ pc[r] = "each"
    /\ \/ /\ doomed[r] = {}
          /\ Goto(r, "done")
          /\ UNCHANGED <<row, doomed>>
       \/ \E t \in doomed[r] :
            /\ DeleteRefreshToken(t) \/ (FaultsHappen /\ UNCHANGED row)
            /\ doomed' = [doomed EXCEPT ![r] = @ \ {t}]
            /\ UNCHANGED pc
    /\ UNCHANGED <<sess, created, started, root, standing, now, arg, new, at, ghosts>>

\* ProfileService.RevokeSession: the caller's own row, by id.
DeleteOwnNode(r) ==
    /\ pc[r] = "node"
    /\ DeleteRefreshToken(arg[r])
    /\ Goto(r, "done")
    /\ UNCHANGED <<sess, created, started, root>>
    /\ Still

-----------------------------------------------------------------------------
(* What goes wrong, and what happens around the requests.                  *)

\* A crash, a cancelled context or a repository error the handler returns.
Abort(r) ==
    /\ FaultsHappen
    /\ pc[r] \notin {"new", "done"}
    /\ Goto(r, "done")
    /\ UNCHANGED tables
    /\ Still

\* A write whose error is logged and ignored: the handler goes on.
NextAfterFault == [deleteOne |-> "revokeOne", revokeOne |-> "done",
                   deleteAll |-> "revokeAll", revokeAll |-> "swept"]

BestEffortFails(r) ==
    /\ FaultsHappen
    /\ pc[r] \in DOMAIN NextAfterFault
    /\ Goto(r, NextAfterFault[pc[r]])
    /\ faulty' = [faulty EXCEPT ![r] = TRUE]
    /\ UNCHANGED <<tables, standing, now, locals, seen, good>>

\* Other operations move the account between the gates: a SCIM email change,
\* a lockout and its end, a project's access or age settings, ReactivateUser.
ChangeStanding ==
    /\ standing' \in Standings \ {standing, "inactive"}
    /\ standing = "inactive" => standing' = "active"
    /\ good' = [r \in Requests |-> good[r] \/ standing' = "active"]
    /\ UNCHANGED <<tables, now, pc, locals, seen, faulty>>

Tick ==
    /\ now < MaxTime
    /\ now' = now + 1
    /\ UNCHANGED <<tables, standing, pc, locals, ghosts>>

-----------------------------------------------------------------------------
Init ==
    /\ row = [t \in Tokens |-> "none"]
    /\ sess = [t \in Tokens |-> "none"]
    /\ created = [t \in Tokens |-> 0]
    /\ started = [t \in Tokens |-> 0]
    /\ root = [t \in Tokens |-> t]
    /\ standing = "active"
    /\ now = 0
    /\ pc = [r \in Requests |-> "new"]
    /\ arg = [r \in Requests |-> NoToken]
    /\ new = [r \in Requests |-> NoToken]
    /\ at = [r \in Requests |-> 0]
    /\ doomed = [r \in Requests |-> {}]
    /\ seen = [r \in Requests |-> {}]
    /\ good = [r \in Requests |-> FALSE]
    /\ faulty = [r \in Requests |-> FALSE]

Arrive(r) ==
    \/ RefreshToken(r) \/ Logout(r) \/ SignIn(r) \/ DeactivateUser(r)
    \/ ConfirmPasswordReset(r) \/ RevokeAllSessions(r) \/ RevokeMySession(r)

Step(r) ==
    \/ RefreshRead(r) \/ RefreshGates(r) \/ RefreshConsume(r) \/ RefreshAccess(r)
    \/ SignInGates(r) \/ IssueSession(r) \/ IssueRefresh(r) \/ LogoutFind(r)
    \/ DropToken(r) \/ EndSession(r) \/ WriteDeactivated(r) \/ WritePassword(r)
    \/ DropAllTokens(r) \/ EndAllSessions(r) \/ Answer(r) \/ ListNodes(r)
    \/ DeleteNode(r) \/ DeleteOwnNode(r)

Next ==
    \/ \E r \in Requests : Arrive(r) \/ Step(r) \/ Abort(r) \/ BestEffortFails(r)
    \/ ChangeStanding
    \/ Tick

Spec == Init /\ [][Next]_vars

-----------------------------------------------------------------------------
(* Properties.                                                             *)

\* A request that has spent the token it presented and will mint its successor.
Rotating(r) == arg[r] # NoToken /\ pc[r] \in {"access", "session", "token"}

\* A sign-in has at most one usable refresh token at any time, however many
\* requests present it at once and whatever else runs: two rotations of one
\* token never both succeed, and a successor appears only after its
\* predecessor is spent (the compare-and-set in ConsumeRefreshTokenByHash).
OneLiveTip ==
    \A a, b \in Tokens :
        row[a] = "live" /\ row[b] = "live" /\ root[a] = root[b] => a = b

\* Rotation never moves the anchor of the absolute timeout: every row of a
\* lineage carries the SessionStartedAt of the sign-in that opened it.
AnchorUnchanged ==
    \A t \in Tokens : row[t] # "none" => started[t] = started[root[t]]

\* A sign-in stays one lineage: one usable token at a time, and every row of it
\* dated by the sign-in (RefreshToken and ConsumeRefreshTokenByHash).
LineageKept == OneLiveTip /\ AnchorUnchanged

\* No request mints unless the account was in good standing with the gates at
\* some moment after the request arrived: an account refused before a refresh
\* or a sign-in began, and ever since, gets nothing out of it.
MintNeedsGoodStanding ==
    \A r \in Requests : pc[r] \in {"consume", "access", "session", "token"} => good[r]

\* When replay detection, a password reset or a deactivation answers without
\* a write having failed, nothing that existed when it began is usable: each
\* such refresh row is gone and each such session is not active.
RevokeAllIsComplete ==
    \A r \in Requests : pc[r] = "swept" /\ ~faulty[r] =>
        \A t \in seen[r] : row[t] = "deleted" /\ sess[t] # "active"

\* A refresh token that was deleted, with nothing in flight, has left no
\* usable access token behind (docs/IDENTITY.md: "an invalidated refresh
\* token never leaves its access token usable"). ProfileService deletes rows
\* and never revokes the session they carry.
DeletedTokenEndsItsSession ==
    (\A r \in Requests : pc[r] \in {"new", "done"}) =>
        \A t \in Tokens : row[t] = "deleted" => sess[t] # "active"
=============================================================================
