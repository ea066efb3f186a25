# A TLA+ verification project for the identity service

The repository is an identity service written in Go: accounts, sign-in by
password, code, link, passkey, OAuth and QR, refresh tokens and sessions,
tenants with their members and domains, agents and machine keys, guardians and
consent, an event outbox, and the transports and three database drivers
(postgres, sqlite, memory) around them. Many replicas of the process run against
one database. Almost no operation is one transaction: a handler is a sequence of
repository calls, and what lies between two calls is where other requests, other
replicas, crashes and clocks come in. That is what this project models.

A step of a model is one repository call together with the code that runs after
it up to the next call. A handler whose calls share a transaction is modelled at
the grain of the locks the transaction takes, and its writes appear at its
commit.

## 1. Inventory

`PROJECT.json` lists every component with its sources. The ones with logic of
their own:

| component | state | operations | what is hard | what makes it correct |
|---|---|---|---|---|
| Refresh tokens and sessions (`service/auth.go`, `profile*.go`, `repo/postgres/refresh_token.go`, `session.go`) | `refresh_tokens`, `sessions`, the account's status | sign-in issue, `RefreshToken`, replay detection, `Logout`, `DeactivateUser`, `ConfirmPasswordReset`, profile revocations | rotation races, sweeps in two statements, crashes between consume and mint, stale account copy | one usable token per sign-in; the absolute timeout's anchor stays; no mint for a refused account; a sweep leaves nothing it saw |
| Session cache (`middleware/session.go`) | per-process map of entries with mutex and deadline; the `sessions` row | `Lookup`, refill, `Invalidate`, the revoking repository | invalidate-then-write, entries kept alive by lookups, several replicas | bounded staleness, no admission across projects, no lookup hangs |
| QR login (`service/auth_qr.go`) | one `qr_login_sessions` row | initiate, get, approve/reject, poll, sweep | approve reads and writes without comparing, many pollers, two deadlines | a mint per approval at most, only for approvers, in time, still gated |
| Tenant membership (`repo/postgres/membership_store.go`, `service/membership_service.go`, `tenant_ownership.go`, `tenant_domain_join.go`) | memberships, removal records, emails, the domain's door, the tenant's status | accept, join by domain, remove, suspend, restore, transfer, operator recovery, email change, deletion | four kinds of lock, READ COMMITTED snapshots, authorisation before the transaction, triggers | a removal stands, a suspension is lifted only by someone who may, the domain never governs, an owner remains, no deadlock but the one an account's deletion can cause |
| Password login and second factor (`auth_login.go`, `auth_totp.go`, `required_password_change.go`) | failure count, lock time, the password and whether it was issued, login challenges, recovery codes, TOTP credentials | login, second step, required change, resets, enrolment and its undoing | count and lock in two statements, challenges and codes read then written, a sign-in spread over two requests | the limit locks, an issued password opens nothing, the second factor is asked, a password that was replaced gets nothing |
| Email codes, magic links, phone codes (`auth_passwordless.go`, `auth_phone.go`, `key_cooldown.go`) | one code row per address or user with its attempt count, link rows, a send cooldown per replica | request, verify, count, burn, consume | replacement races consumption, which does not name the code it read; attempts at the limit; cooldowns that do not know each other | a dead code is refused, guesses stay in their budget, every acceptance uses up one issued row |
| Proof of an address (`auth_login.go`, `auth_passkey.go`, `auth_link_identity.go`, `auth_email_change.go`) | the account's address and whether it is verified, its passkeys, links and password, their sessions | first proof by code, link or provider; register a passkey, link a provider, sign in, change the address | a proof and an attach are several calls each, with no lock, on copies of the account | what was attached before the proof is gone after it, and so are its sessions |
| Account lifecycle (`account_deletion.go`, `account_merge.go`, `anonymous_*.go`) | deletion schedule, merge state, the account row | schedule, cancel, purge, merge, upgrade | multi-call purges, sweeper against sign-in | a cancelled deletion purges nothing, a merge loses no identity |
| Domain claims, auto-formation, invitations (`domain.go`, `tenant_autoform.go`, `membership_service.go`) | `tenant_domains`, latent tenants, invitations | claim, verify, form, invite, accept | two tenants racing for a domain | one verified tenant per domain |
| Event outbox (`pkg/events`, wired in `app/app.go`) | in-memory rows with status, attempts, next attempt and a claim flag; a restart empties them | emit, claim, deliver, mark delivered, mark failed, reschedule | several workers, answers lost or late, backoff and its cap, the attempt limit | one sender per row, bounded sends, true outcomes, every delivery settles |
| OAuth flows, email links, passkey challenges | one-time states, tokens and codes | start, callback, redeem, unlink | replayed callbacks, a token found and then marked by id | one use per state; an identity belongs to one account |
| Agents and machine keys (`agent_*.go`, `repo/postgres/agent_*.go`, migrations 0041, 0042, 0046) | consents with their codes and refresh tokens, machines and their delegations; agent accounts and keys | ask, decide, redeem, refresh, introspect, revoke; register, select, enrol, exchange; triggers on users, sessions, clients, guardians, policies, tenants and domains | admission before a transaction that re-reads rows and not the policy, by a project configuration that may come from a cache; withdrawal by triggers in other people's transactions | a live grant has the authority it rests on, one lineage of tokens, nothing under replaced rules for longer than the cache keeps them, nothing withdrawn returns |
| Guardians, consent, age; identity verification | links and consents, verification records | link, approve, withdraw; start, callback | external callbacks | a child signs in only under a standing consent |

How they interact: every sign-in method ends in `issueSignInTokens` (Sessions);
the gates it asks (status, verified email, access policy, age, agent standing,
tenant choice) belong to the other components and appear in Sessions and QrLogin
as one `standing` that other operations move. A standing is the gates' verdict: the
ones that depend on the project's configuration (access mode, product age) are asked
with the copy the request was served, which the project resolution cache may keep
for its TTL (30 s by default) after the row changed. AgentGrants models that cache,
because there the change also withdraws. SessionCache reads the rows
Sessions writes. Deleting an account and changing an email write memberships
through triggers and cascades (TenantMembership). An accepted email code or
provider assertion (OneTimeCodes) proves the address (AddressProof) before the
tokens are issued. Every service emits to the outbox.

`PROJECT.json` lists under `hazards` what of this is hard to test, line by line.

## 2. Modules

| module | models | run |
|---|---|---|
| `Sessions` | tokens and sessions of one account | `MCSessions` |
| `SessionsProofs` | proofs about it | |
| `SessionCache` | the caches of several replicas for one sid | `MCSessionCache` |
| `SessionCacheProofs` | proofs about it | |
| `QrLogin` | one hand-off | `MCQrLogin` |
| `QrLoginProofs` | proofs about it, its refinement of `OneTimeGrant` included | |
| `TenantMembership` | one tenant's memberships and their locks | `MCTenantMembership`, `MCTenantOwners` |
| `PasswordLogin` | password, lockout and second factor of one account | `MCPasswordLogin` |
| `PasswordLoginProofs` | proofs about it | |
| `OneTimeGrant` | what a single-use credential promises; abstract | (implemented by `OneTimeCodes` and `QrLogin`) |
| `OneTimeCodes` | the code row of one address or user, and magic links | `MCOneTimeCodes` |
| `OneTimeCodesProofs` | proofs about it, the refinement included | |
| `EventOutbox` | the deliveries of the outbox and its workers | `MCEventOutbox` |
| `EventOutboxProofs` | proofs about it | |
| `AddressProof` | one account before, during and after the first proof of its address | `MCAddressProof` |
| `AddressProofProofs` | proofs about it | |
| `AgentGrants` | one owner's consents, machine and delegations, and what withdraws them | `MCAgentGrants` |
| `GovernanceProofs` | proofs about `TenantMembership` and `AgentGrants` | |

The `map` of `PROJECT.json` gives, for each definition, the lines it stands for.
Definitions keep the code's names; an operator described as a mutant, or
introduced by "As ... below, if ...", is a deliberately wrong variant of the
definition that follows it and is used by no specification.

### Sessions

A request is a process that runs once: `Arrive` starts it, `pc` says which
repository call is next. `RefreshToken` is `RefreshRead` (the lookup that also
sees consumed rows, replay detection, expiry), `RefreshGates` (`GetUser` and the
gates), `RefreshConsume` (the conditional update), `RefreshAccess` (the access
gate asked again) and the two writes `IssueSession` and `IssueRefresh`. Replay
detection and `ConfirmPasswordReset` sweep on a best-effort basis (`deleteAll`,
`revokeAll`: an error is logged and the handler goes on, `BestEffortFails`),
while `revokeAllUserSessions` of a deactivation stops at an error (`cutTokens`,
`cutSessions`). `Abort` is a crash, a cancelled request or a returned error at
any point. The sid and the refresh token minted together share one identifier.
Variables marked history record what a property needs and guard nothing.

### SessionCache

`Load`, `CheckFresh`, `LoadOrStore`, `Lock`, `Read`, `Fill` are `Lookup` at the
grain of its synchronisation: the `sync.Map` operations, the entry's mutex and
the repository read made under it. The fast path judges freshness by the time
the lookup began, the slow path by the clock, as the code does. `Invalidate` and
`WriteRevoked` are the two halves of the revoking repository. An entry outlives
its place in the map while a lookup holds it. A read is bounded by `ReadTime`
(the request's deadline); nothing else about time is assumed.

### QrLogin

One row; `ApproveRead`/`checkQrApprover`/`ApproveWrite` are the three calls of
`ApproveQrLogin`, whose write compares nothing, and `PollRead`/`PollGates`/
`ConsumeQrLoginSession`/`PollMint` those of `PollQrLogin`, whose consume does
compare. The expiries that get, approve and poll write and the sweep are actions
too.

### TenantMembership

A transaction is a database session with a program counter: `adv` (the advisory
lock of the membership), `account` (the account row a restore, an email change or
a deletion locks), `door` (the domain and tenant rows a join holds `FOR SHARE`),
`scan` and `lock` (`lockOwnersAnd`: the snapshot, then the rows one by one in
`user_id` order, each re-read when its lock is granted), `clear` (a grant or an
upsert deletes the removal record and holds it until it commits), `write`. A row
that names an account is inserted only when no deletion holds the account: the
foreign keys of `tenant_memberships` and of `tenant_member_removals` make a grant, a
join and a removal wait, and the cascade of a deletion waits for the membership and
for a removal record somebody is deleting. What the
service checks before it opens the transaction is the guard of the request's
action, so authorisation can be stale by the time the store acts. Created,
invited and added memberships follow the same rules and are one source,
`granted`. The email trigger and the cascades of a deleted account are part of
the writes that fire them.

### PasswordLogin

One `users` row with its challenges, recovery codes and TOTP credentials.
`LoginRead` is the lookup of the account and everything `verifyPasswordCredential`
and `PasswordLogin` decide on that copy: `plan` remembers where it leads while the
resets are written. `IncrementFailedLoginCount` and `SetUserLockedUntil` are the
two statements of `recordFailedLogin`. `VerifyTotp` is `ChallengeRead`,
`DeleteLoginChallenge`, `OwnerRead`, then `verifySecondFactorCode` (`CredRead`,
`FindRecoveryCode`, `UpdateRecoveryCode`), which `CompleteRequiredPasswordChange`
shares after `TicketRead`. The login policy is whether it requires a second
factor. Passwords are numbered in the order they are set (each is salted afresh,
so the binding of a ticket is that number); a caller presents one that was right
at some time, or a wrong one. The calls whose errors the code swallows may fail
(`BestEffortFails`).

### OneTimeCodes and OneTimeGrant

`email_login_codes` and `phone_verification_codes` are used the same way, so the
module has one row, whose `kind` says which table it is in. Asking for a code
passes the cooldown of the replica that serves it and overwrites the row. A
presentation reads the row and judges its copy; then it counts a wrong guess,
burns the row on the last one, or consumes the row with an update that asks only
that it be unconsumed and unexpired, not which code it holds. For a phone code
the number is recorded on the account afterwards. Codes are numbered as they are
generated; 0 is a guess that fits none.

`OneTimeGrant` has a slot per row that is empty or live; issuing fills it, a grant
or a voiding empties it. `OneTimeCodes` implements it: the row's slot is live
while the row is unconsumed, a link's while it is live. Replacing an unconsumed
row is an `Issue` into a slot that is already live: the old code is gone with it.
`QrLogin` implements it too (in `QrLoginProofs`): the slot of a hand-off is live
while its row reads approved.

### EventOutbox

A delivery is an event bound to a subscription that matches it. `Emit` enqueues
the ones that are not there yet, `ClaimDue` takes up to `Batch` rows that are due
and unclaimed, `Deliver` sends the first of the batch and `Record` is one of
`MarkDelivered`, `MarkFailed` and `Reschedule`. The receiver is external: it
takes the webhook and says so, takes it and the answer is lost, or refuses it.
`wait[d]` is `NextAttemptAt` relative to the clock, so time needs no bound.
`Restart` empties the outbox, which is held in memory, and drops every claim.

### AddressProof

`markEmailVerifiedViaExternalProof` is `ListPasskeys` ... `RevokeAgain`: it lists
passkeys and links, ends the sessions, deletes what it listed, writes
`email_verified` for the address it proved, and then lists and deletes again.
Its callers are `Arrive`: a code or link, a verification link, a provider that is
linked already, and one found by address, which is linked at the end. An attach
(`CompletePasskeyRegistration`, `LinkIdentity`) reads the holder, inserts, and
reads the account again to withdraw what a proof should have voided. Each works
from the copy of the account it read. Sign-ins open a session from a credential
read earlier; `late` marks one whose credential was gone by then, which no
revocation can have known of. `ConfirmEmailChange` moves the account to another
address, verified with the change. Any store call may fail or the process die, up to
`MaxFaults` times.

### AgentGrants

Consents and machine delegations are rows of one table, and a request against
one is three steps. `DecideRead` and `IssueRead` read the rows it rests on and keep
their `Fingerprint`; `DecideAdmit` and `IssueAdmit` ask the policy (`admitOwner`,
`grantExpiry`); `DecideMutate`, `RedeemMutate`, `RotateMutate` and `Validate` are the
transaction, which locks the same rows, compares the fingerprint and judges the
grant as it now is. Project and policy are not read again. Before all of it a
request is served its project (`Arrive`, `CachingProjectResolver`): a slot of `cache` is the
entry of one replica and one key, served until it expires whatever happened to the row, and the request
carries the copy as its `scope`, by which `admitOwner` judges. `grantExpiry` reads the
login policy itself. A grant's `era`, how often the project had changed when it was
asked for, is history. A grant whose authority is found
gone is revoked in a transaction of its own (`Invalidate`, `InvalidateMachine`).
Machines follow the same pattern (`RegisterRead`/`RegisterMutate`,
`EnrolRead`/`EnrolMutate`); selecting agents and revoking are one transaction.
`ChangeOwner` to `ChangeGovernance` (`ChangeProject` and `ChangePolicy` among them)
are writes that other code makes to the rows
underneath, each with the trigger it fires: a trigger finds grants by owner, agent,
session or client (a change of project or policy finds them all), and a request nobody decided yet has none of the first three.
`Lose` is a crash or a failed call between any two steps.

## 3. Runs

| run | shows |
|---|---|
| `sessions` | `LineageKept`: however rotations, replays, sweeps and crashes interleave, a sign-in has one usable refresh token (`OneLiveTip`), and rotation never moves the absolute timeout (`AnchorUnchanged`). `MintNeedsGoodStanding`: no mint for an account refused since before the request arrived. `RevokeAllIsComplete`: a sweep that reports success leaves nothing usable of what it found. |
| `session_cache` | `AdmissionsJustified`: a revoked session is admitted for less than the TTL plus one read, on any replica (`StalenessBounded`), and never into another project (`AdmittedAtHomeOnly`). `EveryLookupAnswers`: no error path leaves an entry locked. |
| `qr_login` | `MintsMatchApprovals`: no more mints than approvals (`MintsBoundedByApprovals`), each for an account that approved (`MintedForApprovers`). `CollectionGated`: only within the window and its grace (`CollectedInTime`), only for an account still allowed (`CollectorStillAllowed`). |
| `tenant_membership` | `RemovalStands`, `SuspensionSticks`, `RestoredOnDomain`, `DomainNeverGoverns`, `CountedOwnerStays`. `DeadlockOnlyWithDeletion`: transactions that wait in a circle include the deletion of an account and a removal, grant or upsert of the same person that wait for each other. |
| `password_login` | `ThresholdLocks`: the count is never left at its limit without a lock, however resets race the two statements. `IssuedPasswordOpensNothing`: a password an administrator issued opens neither a session nor a challenge. `SecondFactorAsked`: from enrolment to its undoing, and always under a policy that forces it, no sign-in completes on the password alone. `ProvenPasswordInForce`: whoever gets a session, a challenge, a ticket or a new password from a password had one that was in force at some moment of the request; a ticket of a replaced password is worth nothing. |
| `one_time_codes` | `DeadCodeRefused`: a code accepted, burnt, replaced or expired before a presentation read the row is refused by it. `VerifiedNumberProven`: the number recorded is one a code was sent to and presented for. `GuessBudget`: the wrong guesses of one code exceed `MaxAttempts` only by those that were open at once. `ImplementsOneTimeGrant`: every row is a single-use credential. |
| `event_outbox` | `OneSenderPerRow`. `AttemptBudget`: at most `MaxAttempts` sends, however often the event is emitted (`SendsBounded`); given up only after every attempt, delivered only if taken (`OutcomeIsTrue`). `BackoffRespected`: no retry before its doubled, capped delay. `Settles`: every delivery is delivered or given up, unless the process stops. |
| `address_proof` | `PlantedCredentialVoided`: once a proof is through, what was attached to the unproven account is gone, or the call that attached it is about to withdraw it (or died). `VoidedSessionEnded`: no session opened with what a proof voided, while it was there, survives the proof. |
| `agent_grants` | `LiveGrantHasAuthority`: an approved, unrevoked grant has an eligible owner, an active agent, the client as consented to, and its session or its machine, whatever changed while it was being approved. `OneLineage`: one redemption of a code and one unused refresh token. `WithdrawnStaysOut`: a delegation withdrawn from a machine does not return. `IssuedUnderPolicyInForce`: what is issued or reported active is under the login policy in force, on a grant asked for since the project last changed, and under the project's present configuration or, for a request that arrived within the cache's TTL of the change, a copy of an earlier one. |
| `qr_login_once`, `tenant_owners`, `address_proof_stale` | violations: see the findings. |

### Findings

Each is a short behaviour TLC prints; `PROJECT.json` quotes the documentation it
contradicts.

* An approval written from a stale read re-opens a QR hand-off that was already
  collected, and it is collected again.
* Two removals whose lock snapshots predate a promotion hold disjoint rows; each
  counts the other's target as the remaining owner and the tenant loses its last
  one. `CountedOwnerStays` is the part of the promise the locks do keep: an owner
  that was counted *and locked* stays.
* A proof of an address works from a copy. When a change of address overtakes it,
  it still lists and deletes what the owner attached to the account *after* the
  change verified it, and only then finds that it lost.

### Further disagreements

Eight more statements of the repository fail in the models. Their configurations
are kept beside the runs; each ends in a short counterexample.

* `MCPasswordLoginStanding.cfg`, `SecondStepInGoodStanding` (`auth_login.go:1492-1494`,
  "Every login path ... calls this BEFORE issuing tokens"): `VerifyTotp` continues a
  password sign-in without asking the account's status again, so an account
  deactivated after the password was accepted still gets a session from the code.
* `MCAgentGrantsConsent.cfg`, `ConsentUnderCurrentPolicy` (migration 0041, lines 93-94,
  "restoring a prior policy cannot resurrect a grant admitted under old rules"): since
  0046 a change of tenant or domain withdraws the grants of the owners it governs; an
  approval admitted before the change and committed after it is on a row that had no
  owner yet, so it is not withdrawn. The first redemption asks the policy again, so
  what survives is the consent, not a token (`IssuedUnderPolicyInForce`).
* `MCTenantMembershipDeadlock.cfg`, `NoDeadlock` (`membership_store.go:717-728`, "so they
  queue behind one another and never deadlock ... A write that also locks an account
  row takes it before this pass"): a removal locks the membership and then inserts a
  removal record, whose foreign key waits for the account; a deletion holds the
  account while its cascade waits for the membership. A grant or an upsert that has
  cleared the removal record meets a deletion the same way. PostgreSQL ends one of the two
  with an error, so the request fails and nothing is lost.
* `MCPasswordLoginOnce.cfg`, `ChallengeAcceptedOnce` (`auth.go:2371`, "Single-use: delete
  before returning success"): the error of the delete is ignored, and two requests
  read the challenge before either deletes it, so one challenge is accepted twice. The
  recovery code of the same step is found and marked the same way.
* `MCSessionsDeleted.cfg`, `DeletedTokenEndsItsSession` (`docs/IDENTITY.md:971`):
  `ProfileService` deletes refresh rows and leaves their sessions active, so the
  access token of an invalidated refresh token stays usable until it expires.
* `MCSessionCacheRevoke.cfg`, `SameProcessRevokeIsVisible`
  (`middleware/session.go:293-294`): a revocation drops the cache entry and then
  writes the row; a lookup in between refills it, and the same process goes on
  admitting the session.
* `MCOneTimeCodesOnce.cfg`, `CodeAcceptedOnce` (`auth_passwordless.go:187`): two
  presentations of one code read the row, the first consumes it, a new code
  replaces the row, and the second consumes that. The old code was accepted twice
  and the new one is spent. What does hold is the count (`ImplementsOneTimeGrant`).
* `MCEventOutboxMinutes.cfg`, `RetriesForMinutes` (`publisher.go:104-105`, "six
  attempts over roughly ten minutes"): the five delays of the default policy are
  2, 4, 8, 16 and 32 seconds, 62 together.

### Bounds, and why they are enough

* `MCSessions`: four requests with two in flight, three mintable pairs, one tick
  per timeout on a clock of two. Every race the properties are about is between
  two requests; the others set up the state they race over (a sign-in, a
  rotation). Three pairs are a sign-in, its successor, and one more. Tokens and
  requests are symmetric. The state view drops request locals no later step reads.
  The proofs cover any number.
* `MCSessionCache`: two replicas, two lookups, a TTL of one tick, a read of one,
  a clock of two: an entry filled at the last instant before a revocation expires
  within the run. One replica revokes at a time, since revoking twice writes
  nothing new.
* `MCQrLogin`: two accounts, three requests with two open, a clock through
  window, grace and retention. `MCQrLoginOnce` stops the clock and gives one
  account four requests.
* `MCTenantMembership`: two accounts, two database sessions. `Small` keeps the
  first account's address off the domain and stops once it is removed: the second
  one has every behaviour, the first is there to govern and to be governed.
  `MCTenantOwners` takes three of each, which the finding needs, and leaves out
  the requests that play no part in it.

* `MCPasswordLogin`: three requests with two open, two failures to lock, two
  passwords, one challenge and one recovery code, two credentials, one tick to a
  lock's end and past a challenge's. The starts (one failure already counted, an
  issued password, an enrolled account, a policy that forces the second factor)
  save the requests that would lead there; `MCInit` leaves out combinations of
  starts that do not interact. `View` drops the request locals no later step
  reads.

* `MCOneTimeCodes`: three presentations, two codes, two numbers, one link, two
  replicas, a budget of two guesses, two ticks of life: a code is replaced once
  under a presentation that read it, two wrong guesses pass the same count, and a
  code expires. Requests and replicas are symmetric; `View` drops dead locals.
* `MCEventOutbox`: two workers, two deliveries in batches of up to two, four
  attempts with the delays 1, 2 and 3 (the cap, where doubling alone gives 4), one
  restart. `MaxLate` makes deliveries that are overdue by more than a tick equally late.
* `MCAddressProof`: one proof, a passkey and two links, one of them asserting a
  tagged spelling, one sign-in, two addresses, one fault. The properties speak of a
  proof and an attach; two proofs matter to the finding, whose configuration has
  them.

* `MCAgentGrants`: two requests in flight, two cache entries whose copies are served for
  one tick (of two requests one may hold the old configuration and one the new), one
  consent, one agent, one session, two
  delegation identifiers (the second is what a returning delegation would take), two
  changes, so that one is made and undone, and a clock of two on which codes,
  consents and pending requests run out. `View` forgets the answer of a finished
  request and the contents of one that can only be refused: a decision on a row no
  longer pending, or anything asked of a consent that is revoked or swept. Neither
  state is ever left again, and such a request writes nothing. It also keeps of
  versions only whether they are the present ones, of expired cache entries nothing,
  and of a revoked consent only when it is swept.

`CHECK_DEADLOCK FALSE` appears where a finite set of requests may all be done.

### Fairness

`EveryLookupAnswers` needs weak fairness of each lookup's `Step`. A goroutine that
can run is scheduled, a Go mutex wakes its waiters (and hands over to a starving
one), and a repository read ends in an answer or in an error at the request's
deadline. No fairness is assumed of arrivals, revocations or the clock.

`Settles` needs weak fairness of each `Worker` and of `Tick`: the worker's ticker
fires again and again, `Deliver` returns because its HTTP client has a timeout,
and time passes. Nothing makes anybody emit, and a process may stop at any point,
after which its rows are gone.

## 4. Proofs

TLAPS proves, for every value of the constants allowed by the modules' `ASSUME`s
(sets of any size; timeouts, TTL, windows any natural number, 0 included):

* `SessionsProofs`: `TypeCorrect`, `OneUsableToken`, `AnchorNeverMoves`,
  `LineageIsKept`, `RefusedAccountMintsNothing`, `SweepIsComplete`. `OneLiveTip` is not inductive:
  a request that has consumed its token and not minted yet owns the lineage too.
  The invariant says which identifiers are in use and by whom (a fresh one is
  linked to nothing), that each lineage has one holder (a live row or one
  rotating request), that a rotating request's token keeps its anchor, and what
  each phase of a sweep has already removed.
* `SessionCacheProofs`: `TypeCorrect`, `BoundedStaleness`,
  `NoCrossProjectAdmission`, `AdmissionsAreJustified`. The
  invariant dates every entry: an active one is filled at most `ReadTime` after a
  read that precedes the revocation, so its deadline is at most `TTL + ReadTime`
  after it, and every admission is dated by the entry or by the read it used.
* `QrLoginProofs`: `TypeCorrect`, `MintsNeedApprovals`, `MintsForApprovers`, `CollectionCloses`,
  `GatedAtCollection`, and the pairs `MintsAreApproved`, `CollectionIsGated`. The invariant counts: while the row reads approved one
  approval has not been used up; and it carries the approver from the row through
  each poll. `HandoffImplementsOneTimeGrant` is the refinement: an approval issues,
  the poll that wins is the grant, and a rejection, an expiry or the sweep written
  over an approval voids it. A late approval issues again, which is the finding.
* `PasswordLoginProofs`: `TypeCorrect`, `LimitLocks`, `IssuedOpensNothing`,
  `SecondFactorIsAsked`, `PasswordsAreInForce`. A request acts on a copy, so the invariant
  speaks of where the copy leads: a sign-in with an issued password is neither at
  nor planned for a step that opens anything, nor is one that owes a second factor
  at or planned for the mint. It needs that an issued password still in force is
  marked as one (`IssuedIsMarked`), that presented passwords are numbered no later
  than the one in force (`KnownPasswords`), that a copy in which the password was
  already replaced leads nowhere (`ReplacedGoesNowhere`), and that an account with a history of
  enrolment carries the flag with no disabling under way (`SecuredAsks`).
* `OneTimeCodesProofs`: `TypeCorrect`, `DeadCodesAreRefused`,
  `VerifiedNumbersAreProven`, `GuessesAreBounded`, `CodesImplementOneTimeGrant`,
  `AcceptancesWithinSends`. `RowInv` says which codes have ended and that the row's
  own has not while it is unconsumed; `RequestInv` carries what a presentation
  found in its copy to its last step. `GuessBudget` counts recorded guesses, so its
  invariant `BudgetInv` counts the ones already let through and not yet recorded
  with them. The refinement is `StepRefines`, one case per action, and
  `AcceptancesWithinSends` follows from it and the lemma `GrantsWithinIssues`, which is about
  `OneTimeGrant` alone and whose invariant takes a live slot as a grant to come.
* `EventOutboxProofs`: `TypeCorrect`, `OneSender`, `BudgetKept`,
  `OutcomesAreTrue`, `AttemptsAreBudgeted`, `RetriesWait`. `Counts` ties sends to attempts (one ahead
  while an answer is out), `AnswerInv` says an answer is about the first row of a
  batch, `WaitInv` that the time since an attempt and the time still to wait are
  together at least its backoff.
* `AddressProofProofs`: `TypeCorrect`, `PlantedCredentialsAreVoided`,
  `VoidedSessionsAreEnded`. `WroteInv` places the write, after which the address
  stays verified; `SweptInv` says what each later step has already removed, apart
  from what its own call will look at again; `GoneInv` and `CountedInv` that a
  proof which voided something revokes once more (a `late` session, issued after the
  deletion, is outside the theorem); `JoinInv` that only a provider is
  linked at the end.

* `GovernanceProofs`, TenantMembership: `TenantTypesHold`, `RemovalsStand`,
  `DomainsNeverGovern`, `CountedOwnersStay`, `CountedOwnerRemains`,
  `SuspensionsStick`, `RestoredMembersAreOnDomain`, `DeadlocksNeedADeletion`,
  `NoDeadlockWithoutDeletion`. The
  invariant `TenantInv` is about who holds what. `ControlInv` says at which steps each
  kind of transaction can be and that the advisory lock or the account it is past
  taking is its own (`TxnInv`, `AdvInv`, `AcctInv`), so two writes of one membership
  exclude each other and an address cannot move under a restore. `LockInv` says a
  transaction that takes rows in turn holds only rows with smaller ids than those it
  still wants; `SeenInv` and `CheckedInv` say what was read under a lock and is still
  so, `CountedInv` that a counted owner's row is held by who counted it and is not
  its target's; `DataInv` is what the writes keep. What waits in a
  circle follows from it (`EveryCycle`): suppose a set of transactions that wait for
  each other and no deletion in it that meets a removal, grant or upsert of its person.
  Then no removal in it is kept from writing, since the deletion it would wait for
  would wait for the row it holds. Of the rows waited for and held inside the set take
  the last by `user_id`: its holder waits for none and is not kept from writing. So
  nobody waits for a row, nor for a cleared record, and neither accounts nor advisory
  locks can close the circle. The
  argument needs a last one, hence `IsFiniteSet(Users)` among the assumptions.
  `CountedOwnerRemains` is how far the promise of `OwnerKept`, which fails, does go.
* `GovernanceProofs`, AgentGrants: `AgentTypesHold`, `LiveGrantsHaveAuthority`,
  `ConsentsHaveOneLineage`, `WithdrawnDelegationsStayOut`,
  `IssuesAreUnderPolicyInForce`. `LiveGrantHasAuthority` is inductive once each
  trigger is shown to find every grant whose authority its change takes away: the
  lemmas `RevokeStep`, `WithdrawStep` and `WithdrawAllStep` reduce a change to the
  grants it spares, `OneRowStep` a write of one grant to what that row says. The rest
  of `AgentInv` ties codes and tokens to the state of their grant (`GrantInv`,
  `TokenInv`), gives a machine one delegation for each agent (`DelegationInv`), says
  that an unrevoked grant was asked for since the project last changed (`EraInv`) and
  that a cached copy of a replaced configuration expires within the TTL of its
  replacement (`CacheInv`), and of a request that its scope was served in that time
  (`Served`) and, once admitted, that its login policy is the one in force or its
  grant no longer stands (`RequestInv`): a request keeps its grant and never its authority,
  and `GrantedWhileStanding` shows that only a transaction that found the grant
  standing answers it.

Model-checked only: `EveryLookupAnswers` and `Settles`, which are liveness
properties. Every invariant and every action property of a passing run is proved.
The prover does not handle liveness under fairness or `ENABLED`, nor induction over
data with the installed backends, and it loses its SMT backend in modules with
`RECURSIVE` operators; none is used here.

## 5. Not modelled

* `mode=stateless`, which keeps no session rows; rows from before the sid link or
  the session anchor existed.
* The sqlite and memory drivers: both serialise every operation, so their
  behaviours are among those of the postgres models with one transaction at a
  time.
* The life of verification, change and reset tokens, the hosted OAuth flow's code,
  passkey challenges and unlinking; account deletion, merge and upgrade; domain
  claims and invitations: see the plan. Of agents, the creation and transfer of
  accounts, and the challenges and signatures of machines.
* Guardians and consent, identity verification, directory, profile and project
  configuration: updates of single rows without a protocol between them. The
  policies are predicates over configuration; the models have their verdict.
* Cryptography, hashing, token formats, the WebAuthn, OAuth, SAML and SCIM
  protocols, transport decoding, configuration, metrics and logging.
* The project resolution cache outside AgentGrants, where the gates' verdict stands for
  it; its eviction and its entries for unknown keys; the tenant status cache and the
  probe budget.
* Everything marked planned below.

## 6. Plan

Ordered by what a failure would cost.

1. `AccountLifecycle`: schedule, cancel, purge, sweeper, merge, anonymous upgrade.
   Two races to state: the sweeper lists an expired account, its owner signs in
   and cancels, and the purge goes on; a cancel or a schedule written from a copy
   overwrites the status an administrator set.
2. Email-link tokens (found, then marked consumed by id), the hosted OAuth code and
   passkey challenges, each against `OneTimeGrant`, and unlinking the last
   credential in two requests.
3. `DomainClaims`: several tenants and one domain, auto-formation, invitations.
4. Agent accounts (creation, transfer, orphans), the guardians and the tenant
   status cache.
5. Compositions and refinements: Sessions with SessionCache (what a client of a
   revoked session sees end to end); OneTimeCodes with AddressProof; an atomic
   membership specification that TenantMembership implements.
6. Proofs: the safety half of the two liveness properties (a lookup that waits for an
   entry waits for a lookup that can move; a delivery's attempts and delays only
   decrease), and the refinements of item 5.
