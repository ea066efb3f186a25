------------------------------ MODULE QrLogin ------------------------------
(***************************************************************************)
(* The QR cross-device hand-off (internal/service/auth_qr.go): a device    *)
(* initiates a session and polls it, a signed-in user approves or rejects  *)
(* it from another device, and the poll that consumes an approved session  *)
(* mints tokens for the approver.                                          *)
(*                                                                         *)
(* One qr_login_sessions row is modelled: rows are independent.  Requests  *)
(* run once and interleave between repository calls, on any replica.       *)
(***************************************************************************)
EXTENDS Naturals, FiniteSets

CONSTANTS
    Users,     \* accounts that may scan the code
    Requests,  \* Approve, Poll and Get calls
    NoUser,    \* an empty user_id
    Window,    \* QRLoginExpirySeconds in ticks
    Grace,     \* qrApprovalCollectionGrace in ticks
    Retention, \* how long the sweeper leaves a row past its expiry
    MaxTime    \* bound on the clock

ASSUME QrLoginAssumption ==
    /\ NoUser \notin Users
    /\ Window \in Nat
    /\ Grace \in Nat
    /\ Retention \in Nat
    /\ MaxTime \in Nat

VARIABLES
    status,    \* the row's status; "none" before Initiate, "gone" once swept
    user,      \* the row's user_id
    expires,   \* the row's expires_at_ms
    standing,  \* what the gates say of each account now
    now,       \* the clock
    pc,        \* where each request is
    who,       \* the caller of Approve; the user_id a poll has read
    verdict,   \* Approve's argument, "approved" or "rejected"
    began,     \* history: when the request read the row
    vouched,   \* history: the accounts the gates admitted at some time since
    approvals, \* history: how often "approved" was written
    approvers, \* history: by whom
    consumed,  \* history: how often a poll won the compare-and-set
    minted     \* history: the accounts of the polls that won

rowvars == <<status, user, expires>>
locals == <<who, verdict>>
ghosts == <<began, vouched, approvals, approvers, consumed, minted>>
vars == <<rowvars, standing, now, pc, locals, ghosts>>

Statuses == {"none", "pending", "approved", "rejected", "consumed", "expired", "gone"}
\* checkAccountStatus refuses the account; it passes, but the access policy or
\* the verified-email gate refuses it; all admit it.
Standings == {"refused", "unverified", "admitted"}
Admitted == {u \in Users : standing[u] = "admitted"}
PCs == {"new", "get", "find", "approver", "write", "expire", "poll", "user", "consume",
        "mint", "done"}

TypeOK ==
    /\ status \in Statuses
    /\ user \in Users \cup {NoUser}
    /\ expires \in Nat
    /\ standing \in [Users -> Standings]
    /\ now \in Nat
    /\ pc \in [Requests -> PCs]
    /\ who \in [Requests -> Users \cup {NoUser}]
    /\ verdict \in [Requests -> {"approved", "rejected"}]
    /\ began \in [Requests -> Nat]
    /\ vouched \in [Requests -> SUBSET Users]
    /\ approvals \in Nat
    /\ approvers \in SUBSET Users
    /\ consumed \in Nat
    /\ minted \in SUBSET Users

-----------------------------------------------------------------------------
Goto(r, label) == pc' = [pc EXCEPT ![r] = label]

\* UpdateQrLoginSession matches the row by id, whatever its status.
UpdateStatus(s) == status' = IF status \in {"none", "gone"} THEN status ELSE s

\* Mutant: the row is created without its default status.
InitiateUnset ==
    /\ status = "none"
    /\ status' = ""
    /\ expires' = now + Window
    /\ UNCHANGED <<user, standing, now, pc, locals, ghosts>>

InitiateQrLogin ==
    /\ status = "none"
    /\ status' = "pending"
    /\ expires' = now + Window
    /\ UNCHANGED <<user, standing, now, pc, locals, ghosts>>

Begin(r, label) ==
    /\ pc[r] = "new"
    /\ status # "none"
    /\ Goto(r, label)
    /\ vouched' = [vouched EXCEPT ![r] = Admitted]
    /\ UNCHANGED <<rowvars, standing, now, began, approvals, approvers, consumed, minted>>

GetQrLoginSession(r) == Begin(r, "get") /\ UNCHANGED locals

ApproveQrLogin(r) ==
    /\ Begin(r, "find")
    /\ \E u \in Users : who' = [who EXCEPT ![r] = u]
    /\ \E v \in {"approved", "rejected"} : verdict' = [verdict EXCEPT ![r] = v]

PollQrLogin(r) == Begin(r, "poll") /\ UNCHANGED locals

\* GetQrLoginSession: a pending row past its window is written expired.
GetRead(r) ==
    /\ pc[r] = "get"
    /\ Goto(r, IF status = "pending" /\ expires < now THEN "expire" ELSE "done")
    /\ UNCHANGED <<rowvars, standing, now, locals, ghosts>>

\* ApproveQrLogin: the read, and every decision taken on it.
ApproveRead(r) ==
    /\ pc[r] = "find"
    /\ Goto(r, IF status = "gone" THEN "done"
               ELSE IF expires < now THEN IF status = "pending" THEN "expire" ELSE "done"
               ELSE IF status # "pending" THEN "done"
               ELSE IF verdict[r] = "approved" THEN "approver"
               ELSE "write")
    /\ began' = [began EXCEPT ![r] = now]
    /\ UNCHANGED <<rowvars, standing, now, locals, vouched, approvals, approvers, consumed, minted>>

checkQrApprover(r) ==
    /\ pc[r] = "approver"
    /\ Goto(r, IF standing[who[r]] # "refused" THEN "write" ELSE "done")
    /\ UNCHANGED <<rowvars, standing, now, locals, ghosts>>

\* Mutant: a rejection is written as an approval.
ApproveWriteAlways(r) ==
    /\ pc[r] = "write"
    /\ UpdateStatus("approved")
    /\ user' = IF status # "gone" THEN who[r] ELSE user
    /\ IF verdict[r] = "approved" /\ status # "gone"
         THEN /\ approvals' = approvals + 1
              /\ approvers' = approvers \cup {who[r]}
         ELSE UNCHANGED <<approvals, approvers>>
    /\ Goto(r, "done")
    /\ UNCHANGED <<expires, standing, now, locals, began, vouched, consumed, minted>>

\* ApproveQrLogin: the decision is written over whatever the row says by now.
ApproveWrite(r) ==
    /\ pc[r] = "write"
    /\ UpdateStatus(verdict[r])
    /\ user' = IF verdict[r] = "approved" /\ status # "gone" THEN who[r] ELSE user
    /\ IF verdict[r] = "approved" /\ status # "gone"
         THEN /\ approvals' = approvals + 1
              /\ approvers' = approvers \cup {who[r]}
         ELSE UNCHANGED <<approvals, approvers>>
    /\ Goto(r, "done")
    /\ UNCHANGED <<expires, standing, now, locals, began, vouched, consumed, minted>>

\* Get, Approve and Poll: the expiry they noticed, written the same way.
ExpireWrite(r) ==
    /\ pc[r] = "expire"
    /\ UpdateStatus("expired")
    /\ Goto(r, "done")
    /\ UNCHANGED <<user, expires, standing, now, locals, ghosts>>

\* Mutant: only a pending session closes.
PendingClosed == status = "pending" /\ expires < now

qrCollectionClosed ==
    \/ status = "pending" /\ expires < now
    \/ status = "approved" /\ expires + Grace < now

\* PollQrLogin: the read, and every answer given without another call.
PollRead(r) ==
    /\ pc[r] = "poll"
    /\ Goto(r, IF qrCollectionClosed THEN "expire"
               ELSE IF status = "approved" THEN "user" ELSE "done")
    /\ who' = [who EXCEPT ![r] = user]
    /\ began' = [began EXCEPT ![r] = now]
    /\ UNCHANGED <<rowvars, standing, now, verdict, vouched, approvals, approvers, consumed, minted>>

\* A wrong poll secret reads as expired and changes nothing.
PollWrongSecret(r) ==
    /\ pc[r] = "poll"
    /\ Goto(r, "done")
    /\ UNCHANGED <<rowvars, standing, now, locals, ghosts>>

\* Mutant: the approval is taken as proof enough.
PollGatesTrusting(r) ==
    /\ pc[r] = "user"
    /\ Goto(r, "consume")
    /\ UNCHANGED <<rowvars, standing, now, locals, ghosts>>

\* PollQrLogin: the approver's account, and the gates of a sign-in.
PollGates(r) ==
    /\ pc[r] = "user"
    /\ Goto(r, IF standing[who[r]] = "admitted" THEN "consume" ELSE "done")
    /\ UNCHANGED <<rowvars, standing, now, locals, ghosts>>

\* Mutant: the update does not ask for an approved row.
ConsumeMatchesOpenRow == status \in {"approved", "consumed"}

\* UPDATE ... WHERE status = 'approved'.
ConsumeMatches == status = "approved"

ConsumeQrLoginSession(r) ==
    /\ pc[r] = "consume"
    /\ IF ConsumeMatches
         THEN /\ status' = "consumed"
              /\ consumed' = consumed + 1
              /\ minted' = minted \cup {who[r]}
              /\ Goto(r, "mint")
         ELSE /\ Goto(r, "done")
              /\ UNCHANGED <<status, consumed, minted>>
    /\ UNCHANGED <<user, expires, standing, now, locals, began, vouched, approvals, approvers>>

\* issueSignInTokens (its writes are in Sessions).
PollMint(r) ==
    /\ pc[r] = "mint"
    /\ Goto(r, "done")
    /\ UNCHANGED <<rowvars, standing, now, locals, ghosts>>

\* A crash, a lost connection or a repository error ends the request.
Abort(r) ==
    /\ pc[r] \notin {"new", "done"}
    /\ Goto(r, "done")
    /\ UNCHANGED <<rowvars, standing, now, locals, ghosts>>

\* DeleteExpiredQrLoginSessions.
Sweep ==
    /\ status \notin {"none", "gone"}
    /\ expires + Retention < now
    /\ status' = "gone"
    /\ UNCHANGED <<user, expires, standing, now, pc, locals, ghosts>>

\* An account is deactivated, locked, unverified or denied, or comes back.
ChangeStanding ==
    /\ \E u \in Users, g \in Standings : standing' = [standing EXCEPT ![u] = g]
    /\ vouched' = [r \in Requests |-> vouched[r] \cup Admitted']
    /\ UNCHANGED <<rowvars, now, pc, locals, began, approvals, approvers, consumed, minted>>

Tick ==
    /\ now < MaxTime
    /\ now' = now + 1
    /\ UNCHANGED <<rowvars, standing, pc, locals, ghosts>>

-----------------------------------------------------------------------------
Init ==
    /\ status = "none"
    /\ user = NoUser
    /\ expires = 0
    /\ standing = [u \in Users |-> "admitted"]
    /\ now = 0
    /\ pc = [r \in Requests |-> "new"]
    /\ who = [r \in Requests |-> NoUser]
    /\ verdict = [r \in Requests |-> "rejected"]
    /\ began = [r \in Requests |-> 0]
    /\ vouched = [r \in Requests |-> {}]
    /\ approvals = 0
    /\ approvers = {}
    /\ consumed = 0
    /\ minted = {}

Step(r) ==
    \/ GetRead(r) \/ ApproveRead(r) \/ checkQrApprover(r) \/ ApproveWrite(r)
    \/ ExpireWrite(r) \/ PollRead(r) \/ PollWrongSecret(r) \/ PollGates(r)
    \/ ConsumeQrLoginSession(r) \/ PollMint(r)

Next ==
    \/ InitiateQrLogin \/ Sweep \/ ChangeStanding \/ Tick
    \/ \E r \in Requests :
         GetQrLoginSession(r) \/ ApproveQrLogin(r) \/ PollQrLogin(r) \/ Step(r) \/ Abort(r)

Spec == Init /\ [][Next]_vars

-----------------------------------------------------------------------------
(* Properties.                                                             *)

\* However many polls race, they mint at most as often as the hand-off was
\* approved: a win of ConsumeQrLoginSession uses an approval up.
MintsBoundedByApprovals == consumed <= approvals

\* Tokens are minted only for accounts that approved this hand-off.
MintedForApprovers == minted \subseteq approvers

\* No poll that reads the row after its window and the collection grace have
\* passed mints anything, whatever was written to the row meanwhile.
CollectedInTime ==
    \A r \in Requests : pc[r] \in {"user", "consume", "mint"} => began[r] <= expires + Grace

\* An account the gates refuse for a whole poll gets no session from it: the
\* approval does not stand in for the check at collection.  What the gates answer
\* of project access lags the project's row by its resolution cache.
CollectorStillAllowed ==
    \A r \in Requests : pc[r] \in {"consume", "mint"} => who[r] \in vouched[r]

\* Every mint is accounted for by an approval: no more mints than approvals, and
\* none for an account that did not approve (ApproveQrLogin, PollQrLogin).
MintsMatchApprovals == MintsBoundedByApprovals /\ MintedForApprovers

\* A hand-off is collected by a poll that began before its grace ended, for an
\* account the gates let through during that poll (PollQrLogin).
CollectionGated == CollectedInTime /\ CollectorStillAllowed

\* One hand-off mints once ("two replicas observing the same approved session
\* resolve to exactly one token-minting winner"). An approval that read the
\* row while it was pending and writes after the winner re-arms it.
OneMintPerHandoff == consumed <= 1
=============================================================================
