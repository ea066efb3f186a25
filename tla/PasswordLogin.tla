--------------------------- MODULE PasswordLogin ---------------------------
(***************************************************************************)
(* Password sign-in of one account: the failed-login count and its         *)
(* lockout, the second factor (internal/service/auth_totp.go) and the      *)
(* change of a password an administrator issued                            *)
(* (internal/service/required_password_change.go).                         *)
(*                                                                         *)
(* A request runs once and interleaves with others between repository      *)
(* calls.  It judges the users row as it read it: what the copy decides    *)
(* for later is its plan.  Every password set is salted afresh, so the     *)
(* passwords are numbered in the order they are set; 0 is a wrong guess.   *)
(* What a mint writes is in Sessions.  A ticket does not expire here: its    *)
(* ten minutes only take behaviours away.                                  *)
(***************************************************************************)
EXTENDS Naturals, FiniteSets

CONSTANTS
    Requests,
    Challenges,      \* login challenges
    Codes,           \* recovery codes
    Creds,           \* totp_secrets rows, numbered as they are created
    None,
    MaxFailed,       \* LoginMaxFailedAttempts
    Lockout,         \* LoginLockoutSeconds, in ticks
    ChallengeExpiry, \* LoginChallengeExpirySeconds, in ticks
    FaultsHappen,    \* whether requests crash and best-effort writes fail
    MaxPassword,     \* bound on the passwords set
    MaxTime          \* bound on the clock

ASSUME PasswordLoginAssumption ==
    /\ Creds \subseteq Nat
    /\ None \notin Challenges \cup Codes \cup Creds
    /\ {"totp", "wrong"} \cap Codes = {}
    /\ Challenges \cap Codes = {}
    /\ MaxFailed \in Nat \ {0}
    /\ Lockout \in Nat \ {0}
    /\ ChallengeExpiry \in Nat
    /\ FaultsHappen \in BOOLEAN
    /\ MaxPassword \in Nat
    /\ MaxTime \in Nat

VARIABLES
    status,  \* users.status, with the verified-email gate
    count,   \* users.failed_login_count
    until,   \* users.locked_until_ms
    pw,      \* users.password_hash
    temp,    \* users.password_change_required
    flag,    \* users.totp_required
    cred,    \* totp_secrets
    code,    \* recovery_codes
    chal,    \* login_challenges
    chalEnd, \* and their expires_at_ms
    forced,  \* the tenant's LoginPolicy requires a second factor
    tickets, \* the passwords a completion ticket has been signed for
    now,     \* the clock
    pc,      \* where each request is
    plan,    \* where its copy of the account sends it after a reset
    guess,   \* the password presented, or the one its ticket is bound to
    arg,     \* the challenge presented, or the credential row read
    proof,   \* the second factor presented
    at,      \* the lock it is about to write
    fit,     \* history: the account was active at some time since it began
    asked,   \* history: it began enrolled, and no DisableTotp has come since
    base,    \* history: the password in force when it began
    secured, \* history: enrolment has set flag, and no DisableTotp has come since
    issued,  \* history: the passwords an administrator issued
    lost     \* history: a lock was due and its writer stopped

account == <<status, count, until, pw, temp, flag>>
tables == <<cred, code, chal, chalEnd, tickets>>
locals == <<plan, guess, arg, proof, at>>
ghosts == <<fit, asked, base, secured, issued, lost>>
vars == <<account, tables, forced, now, pc, locals, ghosts>>

Statuses == {"active", "unverified", "inactive"}

PCs == {"new", "done", "user", "clear", "count", "lock", "reset", "ensureSign", "sign",
        "ensureChallenge", "challenge", "mint", "ensureCode",
        "chal", "expire", "spend", "owner", "cred", "find", "use", "mint2", "ticket", "setpw",
        "setup", "dropCred", "addCred", "dropCodes", "addCode", "verify", "markCred", "raise",
        "dropCreds", "dropOff", "lower", "regen", "current", "change"}

TypeOK ==
    /\ status \in Statuses
    /\ count \in Nat
    /\ until \in Nat
    /\ pw \in Nat
    /\ temp \in BOOLEAN
    /\ flag \in BOOLEAN
    /\ cred \in [Creds -> {"none", "pending", "verified", "gone"}]
    /\ code \in [Codes -> {"none", "unused", "used", "gone"}]
    /\ chal \in [Challenges -> {"none", "live", "gone"}]
    /\ chalEnd \in [Challenges -> Nat]
    /\ forced \in BOOLEAN
    /\ tickets \in SUBSET Nat
    /\ now \in Nat
    /\ pc \in [Requests -> PCs]
    /\ plan \in [Requests -> PCs]
    /\ guess \in [Requests -> Nat]
    /\ arg \in [Requests -> Challenges \cup Creds \cup {None}]
    /\ proof \in [Requests -> Codes \cup {"totp", "wrong"}]
    /\ at \in [Requests -> Nat]
    /\ fit \in [Requests -> BOOLEAN]
    /\ asked \in [Requests -> BOOLEAN]
    /\ base \in [Requests -> Nat]
    /\ secured \in BOOLEAN
    /\ issued \in SUBSET Nat
    /\ lost \in BOOLEAN

-----------------------------------------------------------------------------
(* Requests.                                                               *)

Goto(r, label) == pc' = [pc EXCEPT ![r] = label]

Begin(r, label, g, c, p) ==
    /\ pc[r] = "new"
    /\ Goto(r, label)
    /\ guess' = [guess EXCEPT ![r] = g]
    /\ arg' = [arg EXCEPT ![r] = c]
    /\ proof' = [proof EXCEPT ![r] = p]
    /\ fit' = [fit EXCEPT ![r] = status = "active"]
    /\ base' = [base EXCEPT ![r] = pw]
    /\ UNCHANGED <<account, tables, now, plan, at, issued, lost>>

Asked(r) == asked' = [asked EXCEPT ![r] = secured] /\ UNCHANGED secured

\* Somebody knows a password that was once right, or guesses.
PasswordLogin(r) == (\E g \in 0..pw : Begin(r, "user", g, None, "wrong")) /\ Asked(r)

\* A challenge that was issued is presented with a code of the app, a
\* recovery code that was handed out, or a wrong code.
Proofs == {"totp", "wrong"} \cup {c \in Codes : code[c] # "none"}

VerifyTotp(r) ==
    /\ \E c \in Challenges, p \in Proofs : chal[c] # "none" /\ Begin(r, "chal", 0, c, p)
    /\ Asked(r)

CompleteRequiredPasswordChange(r) ==
    /\ \E g \in tickets, p \in Proofs : Begin(r, "ticket", g, None, p)
    /\ Asked(r)

\* Signed-in callers; the last three know the password.
BeginTotpSetup(r) == Begin(r, "setup", 0, None, "wrong") /\ Asked(r)
VerifyTotpSetup(r) == Begin(r, "verify", 0, None, "totp") /\ Asked(r)
RegenerateRecoveryCodes(r) == Begin(r, "regen", pw, None, "wrong") /\ Asked(r)
ChangePassword(r) == Begin(r, "current", pw, None, "wrong") /\ Asked(r)
DisableTotp(r) ==
    /\ Begin(r, "dropCreds", pw, None, "wrong")
    /\ secured' = FALSE
    /\ asked' = [q \in Requests |-> FALSE]

\* What a step leaves alone besides pc.
StillAccount == UNCHANGED <<account, now, locals, ghosts>>
StillTables == UNCHANGED <<tables, now, ghosts>>

-----------------------------------------------------------------------------
(* PasswordLogin.                                                          *)

\* Mutant: the second factor is asked before the password change.
VerdictIssuedLast(g) ==
    IF g # pw THEN "count"
    ELSE IF status # "active" THEN "done"
    ELSE IF flag THEN "challenge"
    ELSE IF temp THEN "sign"
    ELSE IF forced THEN "ensureChallenge" ELSE "mint"

\* Where the copy of the account sends a sign-in once the count is settled:
\* verifyPasswordCredential's verdict, and what PasswordLogin makes of it.
Verdict(g) ==
    IF g # pw THEN "count"
    ELSE IF status # "active" THEN "done"
    ELSE IF temp THEN IF forced /\ ~flag THEN "ensureSign" ELSE "sign"
    ELSE IF flag THEN "challenge"
    ELSE IF forced THEN "ensureChallenge" ELSE "mint"

\* FindUserByEmail and every decision taken on the row.
LoginRead(r) ==
    /\ pc[r] = "user"
    /\ plan' = [plan EXCEPT ![r] = Verdict(guess[r])]
    /\ Goto(r, IF until > now THEN "done"
               ELSE IF until > 0 THEN "clear"
               ELSE IF count > 0 /\ Verdict(guess[r]) \notin {"count", "done"} THEN "reset"
               ELSE Verdict(guess[r]))
    /\ UNCHANGED <<account, guess, arg, proof, at>>
    /\ StillTables

\* ResetFailedLoginCount: an expired lock's, or a proven password's.
ResetFailedLoginCount(r) ==
    /\ pc[r] \in {"clear", "reset"}
    /\ count' = 0
    /\ until' = 0
    /\ lost' = FALSE
    /\ Goto(r, plan[r])
    /\ UNCHANGED <<status, pw, temp, flag, tables, now, locals, fit, asked, base, secured, issued>>

\* Mutant: the limit itself does not lock.
IncrementPastLimit(r) ==
    /\ pc[r] = "count"
    /\ count' = count + 1
    /\ at' = [at EXCEPT ![r] = now + Lockout]
    /\ Goto(r, IF count' > MaxFailed THEN "lock" ELSE "done")
    /\ UNCHANGED <<status, until, pw, temp, flag, plan, guess, arg, proof>>
    /\ StillTables

\* recordFailedLogin: the count, in one statement...
IncrementFailedLoginCount(r) ==
    /\ pc[r] = "count"
    /\ count' = count + 1
    /\ at' = [at EXCEPT ![r] = now + Lockout]
    /\ Goto(r, IF count' >= MaxFailed THEN "lock" ELSE "done")
    /\ UNCHANGED <<status, until, pw, temp, flag, plan, guess, arg, proof>>
    /\ StillTables

\* ...and the lock, in another.
SetUserLockedUntil(r) ==
    /\ pc[r] = "lock"
    /\ until' = at[r]
    /\ lost' = FALSE
    /\ Goto(r, "done")
    /\ UNCHANGED <<status, count, pw, temp, flag, tables, now, locals, fit, asked, base, secured, issued>>

\* requirePasswordChange: the ticket is signed, nothing is stored.
SignTicket(r) ==
    /\ pc[r] = "sign"
    /\ tickets' = tickets \cup {guess[r]}
    /\ Goto(r, "done")
    /\ UNCHANGED <<cred, code, chal, chalEnd>>
    /\ StillAccount

issueLoginChallenge(r) ==
    /\ pc[r] = "challenge"
    /\ \E c \in Challenges :
         /\ chal[c] = "none"
         /\ chal' = [chal EXCEPT ![c] = "live"]
         /\ chalEnd' = [chalEnd EXCEPT ![c] = now + ChallengeExpiry]
    /\ Goto(r, "done")
    /\ UNCHANGED <<cred, code, tickets>>
    /\ StillAccount

\* issueTokens, for a sign-in that needs nothing but the password.
Mint(r) ==
    /\ pc[r] = "mint"
    /\ Goto(r, "done")
    /\ UNCHANGED tables
    /\ StillAccount

-----------------------------------------------------------------------------
(* The second factor.                                                      *)

\* consumeLoginChallenge: the read...
ChallengeRead(r) ==
    /\ pc[r] = "chal"
    /\ Goto(r, IF chal[arg[r]] = "gone" THEN "done"
               ELSE IF chalEnd[arg[r]] < now THEN "expire" ELSE "spend")
    /\ UNCHANGED tables
    /\ StillAccount

\* ...and the delete by row id, of an expired challenge or of the one spent.
DeleteLoginChallenge(r) ==
    /\ pc[r] \in {"expire", "spend"}
    /\ chal' = [chal EXCEPT ![arg[r]] = "gone"]
    /\ Goto(r, IF pc[r] = "spend" THEN "owner" ELSE "done")
    /\ UNCHANGED <<cred, code, chalEnd, tickets>>
    /\ StillAccount

\* VerifyTotp: GetUser and the one gate asked again.
OwnerRead(r) ==
    /\ pc[r] = "owner"
    /\ Goto(r, IF status = "unverified" THEN "done" ELSE "cred")
    /\ UNCHANGED tables
    /\ StillAccount

Rows == {n \in Creds : cred[n] \in {"pending", "verified"}}

\* GetTotpCredential: the newest row.
Newest == {n \in Rows : \A m \in Rows : m <= n}
Enrolled == \E n \in Newest : cred[n] = "verified"

\* ensureSecondFactorEnrolled: the policy asks for a second factor the account
\* does not say it has.
ensureSecondFactorEnrolled(r) ==
    /\ pc[r] \in {"ensureSign", "ensureChallenge", "ensureCode"}
    /\ Goto(r, CASE ~Enrolled -> "done"
                 [] pc[r] = "ensureSign" -> "sign"
                 [] pc[r] = "ensureChallenge" -> "challenge"
                 [] OTHER -> "cred")
    /\ UNCHANGED tables
    /\ StillAccount

\* Where a refused and an accepted second factor leave VerifyTotp (which
\* presents a challenge) and CompleteRequiredPasswordChange (which does not).
Refused(r) == IF arg[r] = None THEN "count" ELSE "done"
Accepted(r) == IF arg[r] = None THEN "setpw" ELSE "mint2"

\* verifySecondFactorCode: the credential, and a code of the app.
CredRead(r) ==
    /\ pc[r] = "cred"
    /\ Goto(r, IF ~Enrolled \/ proof[r] = "wrong" THEN Refused(r)
               ELSE IF proof[r] = "totp" THEN Accepted(r) ELSE "find")
    /\ UNCHANGED tables
    /\ StillAccount

\* verifySecondFactorCode: FindRecoveryCodeByHash, and rc.Used...
FindRecoveryCode(r) ==
    /\ pc[r] = "find"
    /\ Goto(r, IF code[proof[r]] = "unused" THEN "use" ELSE Refused(r))
    /\ UNCHANGED tables
    /\ StillAccount

\* ...then UpdateRecoveryCode by row id.
UpdateRecoveryCode(r) ==
    /\ pc[r] = "use"
    /\ code' = [code EXCEPT ![proof[r]] = IF @ = "gone" THEN @ ELSE "used"]
    /\ Goto(r, Accepted(r))
    /\ UNCHANGED <<cred, chal, chalEnd, tickets>>
    /\ StillAccount

\* VerifyTotp: issueTokens.
Mint2(r) ==
    /\ pc[r] = "mint2"
    /\ Goto(r, "done")
    /\ UNCHANGED tables
    /\ StillAccount

-----------------------------------------------------------------------------
(* CompleteRequiredPasswordChange, and the other writes of a password.     *)

\* Mutant: the account's own second factor only.
TicketReadNoPolicy(r) ==
    /\ pc[r] = "ticket"
    /\ Goto(r, IF ~temp \/ guess[r] # pw \/ until > now \/ status # "active" THEN "done"
               ELSE IF flag THEN "cred" ELSE "setpw")
    /\ UNCHANGED tables
    /\ StillAccount

\* Mutant: a ticket does for whatever password is issued.
TicketReadUnbound(r) ==
    /\ pc[r] = "ticket"
    /\ Goto(r, IF ~temp \/ until > now \/ status # "active" THEN "done"
               ELSE IF flag THEN "cred"
               ELSE IF forced THEN "ensureCode" ELSE "setpw")
    /\ UNCHANGED tables
    /\ StillAccount

\* The ticket is for the password in force, the gates of a sign-in are asked
\* again, and the second factor if there is one.
TicketRead(r) ==
    /\ pc[r] = "ticket"
    /\ Goto(r, IF ~temp \/ guess[r] # pw \/ until > now \/ status # "active" THEN "done"
               ELSE IF flag THEN "cred"
               ELSE IF forced THEN "ensureCode" ELSE "setpw")
    /\ UNCHANGED tables
    /\ StillAccount

\* UpdateUser of CompleteRequiredPasswordChange.
WriteOwnPassword(r) ==
    /\ pc[r] = "setpw"
    /\ pw < MaxPassword
    /\ pw' = pw + 1
    /\ temp' = FALSE
    /\ count' = 0
    /\ until' = 0
    /\ lost' = FALSE
    /\ Goto(r, "done")
    /\ UNCHANGED <<status, flag, tables, now, locals, fit, asked, base, secured, issued>>

\* ProfileService.ChangePassword: the current password, then the new one.
CurrentRead(r) ==
    /\ pc[r] = "current"
    /\ Goto(r, IF guess[r] = pw THEN "change" ELSE "done")
    /\ UNCHANGED tables
    /\ StillAccount

WriteChangedPassword(r) ==
    /\ pc[r] = "change"
    /\ pw < MaxPassword
    /\ pw' = pw + 1
    /\ temp' = FALSE
    /\ Goto(r, "done")
    /\ UNCHANGED <<status, count, until, flag, locals>>
    /\ StillTables

\* AdminService.ResetPassword, with a temporary password.
AdminResetPassword ==
    /\ pw < MaxPassword
    /\ pw' = pw + 1
    /\ temp' = TRUE
    /\ issued' = issued \cup {pw'}
    /\ UNCHANGED <<status, count, until, flag, tables, now, pc, locals, fit, asked, base, secured, lost>>

\* ConfirmPasswordReset, with a reset token.
ConfirmPasswordReset ==
    /\ pw < MaxPassword
    /\ pw' = pw + 1
    /\ temp' = FALSE
    /\ count' = 0
    /\ until' = 0
    /\ lost' = FALSE
    /\ UNCHANGED <<status, flag, tables, now, pc, locals, fit, asked, base, secured,
                   issued>>

-----------------------------------------------------------------------------
(* Enrolment.                                                              *)

\* BeginTotpSetup: an enrolment begun and not verified is dropped...
SetupRead(r) ==
    /\ pc[r] = "setup"
    /\ arg' = [arg EXCEPT ![r] = IF Newest = {} THEN None ELSE CHOOSE n \in Newest : TRUE]
    /\ Goto(r, IF \E n \in Newest : cred[n] = "pending" THEN "dropCred" ELSE "addCred")
    /\ UNCHANGED <<account, plan, guess, proof, at>>
    /\ StillTables

DeleteTotpCredential(r) ==
    /\ pc[r] = "dropCred"
    /\ cred' = [cred EXCEPT ![arg[r]] = "gone"]
    /\ Goto(r, "addCred")
    /\ UNCHANGED <<code, chal, chalEnd, tickets>>
    /\ StillAccount

\* ...and a new one stored, beside a verified one if there is one.
CreateTotpCredential(r) ==
    /\ pc[r] = "addCred"
    /\ \E n \in Creds :
         /\ cred[n] = "none" /\ \A m \in Creds : cred[m] = "none" => n <= m
         /\ cred' = [cred EXCEPT ![n] = "pending"]
    /\ Goto(r, "dropCodes")
    /\ UNCHANGED <<code, chal, chalEnd, tickets>>
    /\ StillAccount

\* RegenerateRecoveryCodes: only with a second factor.
RegenerateRead(r) ==
    /\ pc[r] = "regen"
    /\ Goto(r, IF flag /\ guess[r] = pw THEN "dropCodes" ELSE "done")
    /\ UNCHANGED tables
    /\ StillAccount

\* storeRecoveryCodes, and DisableTotp: every code goes...
DeleteRecoveryCodesForUser(r) ==
    /\ pc[r] \in {"dropCodes", "dropOff"}
    /\ code' = [c \in Codes |-> IF code[c] = "none" THEN "none" ELSE "gone"]
    /\ Goto(r, IF pc[r] = "dropCodes" THEN "addCode" ELSE "lower")
    /\ UNCHANGED <<cred, chal, chalEnd, tickets>>
    /\ StillAccount

\* ...and fresh ones come, one statement each.
CreateRecoveryCode(r) ==
    /\ pc[r] = "addCode"
    /\ \/ \E c \in Codes :
            /\ code[c] = "none"
            /\ code' = [code EXCEPT ![c] = "unused"]
            /\ UNCHANGED pc
       \/ Goto(r, "done") /\ UNCHANGED code
    /\ UNCHANGED <<cred, chal, chalEnd, tickets>>
    /\ StillAccount

\* VerifyTotpSetup: the newest credential, verified or not, with its code...
SetupVerify(r) ==
    /\ pc[r] = "verify"
    /\ arg' = [arg EXCEPT ![r] = IF Newest = {} THEN None ELSE CHOOSE n \in Newest : TRUE]
    /\ Goto(r, IF Newest = {} THEN "done" ELSE "markCred")
    /\ UNCHANGED <<account, plan, guess, proof, at>>
    /\ StillTables

\* Mutant: the mark is a recovery code's.
MarkUsed(r) ==
    /\ pc[r] = "markCred"
    /\ cred' = [cred EXCEPT ![arg[r]] = IF @ = "gone" THEN @ ELSE "used"]
    /\ Goto(r, "raise")
    /\ UNCHANGED <<code, chal, chalEnd, tickets>>
    /\ StillAccount

\* ...then the credential's mark...
MarkVerified(r) ==
    /\ pc[r] = "markCred"
    /\ cred' = [cred EXCEPT ![arg[r]] = IF @ = "gone" THEN @ ELSE "verified"]
    /\ Goto(r, "raise")
    /\ UNCHANGED <<code, chal, chalEnd, tickets>>
    /\ StillAccount

Disabling == {r \in Requests : pc[r] \in {"dropCreds", "dropOff", "lower"}}

\* ...then the account's.
RequireTotp(r) ==
    /\ pc[r] = "raise"
    /\ flag' = TRUE
    /\ secured' = (secured \/ Disabling = {})
    /\ Goto(r, "done")
    /\ UNCHANGED <<status, count, until, pw, temp, tables, now, locals, fit, asked, base,
                   issued, lost>>

\* DisableTotp, the password proven: the credentials, the codes, the account.
DeleteTotpCredentialsForUser(r) ==
    /\ pc[r] = "dropCreds"
    /\ cred' = [n \in Creds |-> IF cred[n] = "none" THEN "none" ELSE "gone"]
    /\ Goto(r, "dropOff")
    /\ UNCHANGED <<code, chal, chalEnd, tickets>>
    /\ StillAccount

RequireTotpNoMore(r) ==
    /\ pc[r] = "lower"
    /\ flag' = FALSE
    /\ Goto(r, "done")
    /\ UNCHANGED <<status, count, until, pw, temp, locals>>
    /\ StillTables

-----------------------------------------------------------------------------
\* A crash, a cancelled request or an error the handler returns.
Abort(r) ==
    /\ FaultsHappen
    /\ pc[r] \notin {"new", "done"}
    /\ Goto(r, "done")
    /\ lost' = (lost \/ pc[r] = "lock")
    /\ UNCHANGED <<account, tables, now, locals, fit, asked, base, secured, issued>>

\* A call whose error is ignored, logged or counted as a wrong code: the
\* handler goes on.
AfterFault(r) ==
    CASE pc[r] \in {"clear", "reset"} -> plan[r]
      [] pc[r] = "expire"    -> "done"
      [] pc[r] = "spend"     -> "owner"
      [] pc[r] \in {"cred", "find"} -> Refused(r)
      [] pc[r] = "use"       -> Accepted(r)
      [] pc[r] = "dropCred"  -> "addCred"
      [] pc[r] = "markCred"  -> "raise"
      [] pc[r] = "raise"     -> "done"
      [] pc[r] = "dropCreds" -> "dropOff"
      [] pc[r] = "dropOff"   -> "lower"
      [] pc[r] = "lower"     -> "done"

BestEffort == {"clear", "reset", "expire", "spend", "cred", "find", "use", "dropCred", "markCred",
               "raise", "dropCreds", "dropOff", "lower"}

BestEffortFails(r) ==
    /\ FaultsHappen
    /\ pc[r] \in BestEffort
    /\ Goto(r, AfterFault(r))
    /\ UNCHANGED tables
    /\ StillAccount

\* DeactivateUser, ReactivateUser, a SCIM email change, a verification.
ChangeStatus ==
    /\ status' \in Statuses \ {status}
    /\ fit' = [r \in Requests |-> fit[r] \/ status' = "active"]
    /\ UNCHANGED <<count, until, pw, temp, flag, tables, now, pc, locals, asked, base,
                   secured, issued, lost>>

Tick ==
    /\ now < MaxTime
    /\ now' = now + 1
    /\ UNCHANGED <<account, tables, pc, locals, ghosts>>

-----------------------------------------------------------------------------
\* An account with its own or an issued password, enrolled (its oldest
\* credential verified, some recovery codes handed out) or not.
Init ==
    /\ status = "active"
    /\ count \in 0..(MaxFailed - 1)
    /\ until = 0
    /\ pw = 1
    /\ temp \in BOOLEAN
    /\ flag \in BOOLEAN
    /\ cred = [n \in Creds |-> IF flag /\ \A m \in Creds : n <= m THEN "verified" ELSE "none"]
    /\ code \in [Codes -> IF flag THEN {"none", "unused"} ELSE {"none"}]
    /\ chal = [c \in Challenges |-> "none"]
    /\ chalEnd = [c \in Challenges |-> 0]
    /\ forced \in BOOLEAN
    /\ tickets = {}
    /\ now = 0
    /\ pc = [r \in Requests |-> "new"]
    /\ plan = [r \in Requests |-> "done"]
    /\ guess = [r \in Requests |-> 0]
    /\ arg = [r \in Requests |-> None]
    /\ proof = [r \in Requests |-> "wrong"]
    /\ at = [r \in Requests |-> 0]
    /\ fit = [r \in Requests |-> FALSE]
    /\ asked = [r \in Requests |-> FALSE]
    /\ base = [r \in Requests |-> 0]
    /\ secured = flag
    /\ issued = IF temp THEN {1} ELSE {}
    /\ lost = FALSE

Arrive(r) ==
    \/ PasswordLogin(r) \/ VerifyTotp(r) \/ CompleteRequiredPasswordChange(r)
    \/ BeginTotpSetup(r) \/ VerifyTotpSetup(r) \/ DisableTotp(r)
    \/ RegenerateRecoveryCodes(r) \/ ChangePassword(r)

Step(r) ==
    \/ LoginRead(r) \/ ResetFailedLoginCount(r) \/ IncrementFailedLoginCount(r)
    \/ SetUserLockedUntil(r) \/ SignTicket(r) \/ issueLoginChallenge(r) \/ Mint(r)
    \/ ChallengeRead(r) \/ DeleteLoginChallenge(r) \/ OwnerRead(r) \/ CredRead(r)
    \/ ensureSecondFactorEnrolled(r)
    \/ FindRecoveryCode(r) \/ UpdateRecoveryCode(r) \/ Mint2(r)
    \/ TicketRead(r) \/ WriteOwnPassword(r) \/ CurrentRead(r) \/ WriteChangedPassword(r)

Enrol(r) ==
    \/ SetupRead(r) \/ DeleteTotpCredential(r) \/ CreateTotpCredential(r)
    \/ RegenerateRead(r) \/ DeleteRecoveryCodesForUser(r) \/ CreateRecoveryCode(r)
    \/ SetupVerify(r) \/ MarkVerified(r) \/ RequireTotp(r)
    \/ DeleteTotpCredentialsForUser(r) \/ RequireTotpNoMore(r)

Next ==
    /\ UNCHANGED forced
    /\ \/ AdminResetPassword \/ ConfirmPasswordReset \/ ChangeStatus \/ Tick
       \/ \E r \in Requests : Arrive(r) \/ Step(r) \/ Enrol(r) \/ Abort(r) \/ BestEffortFails(r)

Spec == Init /\ [][Next]_vars

-----------------------------------------------------------------------------
(* Properties.                                                             *)

\* The count never stands at its limit without the lock: of the failures
\* that reach it, one is still writing the lock or one has, unless the
\* request that was to write it died. Resets racing the two statements of
\* recordFailedLogin do not separate them.
ThresholdLocks ==
    count >= MaxFailed /\ ~lost => until # 0 \/ \E r \in Requests : pc[r] = "lock"

\* A password an administrator issued opens no session and no challenge,
\* however its change races a new one, a reset and the owner's own change.
IssuedPasswordOpensNothing ==
    \A r \in Requests : pc[r] \in {"challenge", "mint"} => guess[r] \notin issued

\* Once enrolment has set totp_required, no later sign-in opens a session on the
\* password alone until someone disables the second factor, and none ever does
\* where the policy requires one, whatever was enrolled and dropped meanwhile.
SecondFactorAsked ==
    \A r \in Requests : pc[r] = "mint" \/ (pc[r] = "setpw" /\ proof[r] = "wrong") =>
        ~asked[r] /\ ~forced

\* What a request opens, or the password it sets, rests on a password that was in
\* force at some time since it began. Tickets are signed and not stored, so nothing
\* recalls one: it is the binding that "spends every ticket minted for the old"
\* password (passwordBinding) when an administrator issues another, the owner
\* resets it by mail or changes it.
ProvenPasswordInForce ==
    \A r \in Requests :
        pc[r] \in {"sign", "challenge", "mint", "setpw", "change"} => guess[r] >= base[r]

\* An account refused by its status since before the second step of a sign-in
\* gets no session from it ("every login path calls this before issuing
\* tokens", checkAccountStatus). VerifyTotp does not ask.
SecondStepInGoodStanding == \A r \in Requests : pc[r] = "mint2" => fit[r]

\* "Single-use: delete before returning success" (consumeLoginChallenge): no two
\* requests go on with one challenge. Two that overlap both read it before either
\* deletes it, and a delete that fails is only logged.
ChallengeAcceptedOnce ==
    \A r, q \in Requests :
        /\ r # q
        /\ {pc[r], pc[q]} \subseteq {"owner", "cred", "find", "use", "mint2"}
        /\ arg[r] \in Challenges
        => arg[r] # arg[q]
=============================================================================
