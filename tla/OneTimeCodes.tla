---------------------------- MODULE OneTimeCodes ----------------------------
(***************************************************************************)
(* The short codes and links a person types back: the email login code     *)
(* and the magic link (internal/service/auth_passwordless.go) and the      *)
(* phone code (internal/service/auth_phone.go).                            *)
(*                                                                         *)
(* An address has one row of email_login_codes and a user one row of       *)
(* phone_verification_codes; asking again overwrites it in place.  Both    *)
(* tables are used the same way, so the module has one row, of one kind or *)
(* the other: an email code always goes to the row's own mailbox, a phone  *)
(* code to the number the user asks for.  Codes are numbered as they are   *)
(* generated, 0 is a guess that fits none.  A magic link has a row of its  *)
(* own.  What an accepted email code or link leads to (the proof of the    *)
(* address, the sign-in) is in AddressProof and Sessions; what a phone     *)
(* code leads to is here.                                                  *)
(***************************************************************************)
EXTENDS Naturals, FiniteSets

CONSTANTS
    Requests,
    Mailbox,      \* where an email code is sent
    Numbers,      \* where a phone code can be sent
    Links,        \* magic links
    Replicas,     \* processes, each with a cooldown of its own
    None,
    MaxAttempts,  \* PasswordlessCodeMaxAttempts
    TTL,          \* PasswordlessCodeTTLSeconds, PasswordlessMagicLinkTTLSeconds
    Cooldown,     \* EmailSendCooldownSeconds
    FaultsHappen, \* whether requests crash and best-effort writes fail
    MaxCode,      \* bound on the codes generated
    MaxTime       \* bound on the clock

ASSUME OneTimeCodesAssumption ==
    /\ IsFiniteSet(Requests)
    /\ None \notin Numbers \cup {Mailbox}
    /\ "row" \notin Links
    /\ MaxAttempts \in Nat \ {0}
    /\ TTL \in Nat
    /\ Cooldown \in Nat
    /\ FaultsHappen \in BOOLEAN
    /\ MaxCode \in Nat
    /\ MaxTime \in Nat

VARIABLES
    kind,     \* which table the row is in
    code,     \* the row's code_hash; 0 before there is a row
    number,   \* its phone_number
    codeEnd,  \* its expires_at_ms
    consumed, \* its consumed_at_ms is set
    tries,    \* its attempt_count
    link,     \* magic_link_tokens
    linkEnd,  \* and their expires_at_ms
    allowed,  \* keyCooldown: when each replica sends to this key again
    phone,    \* users.phone_number, once phone_verified
    now,      \* the clock
    pc,       \* where each request is
    guess,    \* the code it presented
    to,       \* the number it presented it for
    last,     \* its copy of the row says this wrong guess is the last one
    judged,   \* history: the code its guess was compared with
    dead,     \* history: the codes no longer good when it read the row
    ended,    \* history: the codes accepted, burnt or replaced so far
    wrong,    \* history: wrong guesses of each code that were recorded
    sentTo,   \* history: where each code was sent
    proven,   \* history: the numbers a code sent there was presented for
    times,    \* history: how often each code was accepted
    peak,     \* history: the most wrong guesses that were ever open at once
    issued,   \* history: credentials issued, per slot
    granted   \* history: and grants made

row == <<kind, code, number, codeEnd, consumed, tries>>
links == <<link, linkEnd>>
locals == <<guess, to, last>>
ghosts == <<judged, dead, ended, wrong, sentTo, proven, times, peak, issued, granted>>
vars == <<row, links, allowed, phone, now, pc, locals, ghosts>>

Codes == 1..MaxCode

Targets == IF kind = "email" THEN {Mailbox} ELSE Numbers

\* The slots of OneTimeGrant: the row, and every magic link.
Slots == Links \cup {"row"}

PCs == {"new", "count", "burn", "consume", "record", "done"}

TypeOK ==
    /\ kind \in {"email", "phone"}
    /\ code \in 0..MaxCode
    /\ number \in Targets \cup {None}
    /\ codeEnd \in Nat
    /\ consumed \in BOOLEAN
    /\ tries \in Nat
    /\ link \in [Links -> {"none", "live", "spent"}]
    /\ linkEnd \in [Links -> Nat]
    /\ allowed \in [Replicas -> Nat]
    /\ phone \in Numbers \cup {None}
    /\ now \in Nat
    /\ pc \in [Requests -> PCs]
    /\ guess \in [Requests -> 0..MaxCode]
    /\ to \in [Requests -> Targets \cup {None}]
    /\ last \in [Requests -> BOOLEAN]
    /\ judged \in [Requests -> 0..MaxCode]
    /\ dead \in [Requests -> SUBSET Codes]
    /\ ended \in SUBSET Codes
    /\ wrong \in [Codes -> Nat]
    /\ sentTo \in [Codes -> Targets \cup {None}]
    /\ proven \in SUBSET Targets
    /\ times \in [Codes -> Nat]
    /\ peak \in Nat
    /\ issued \in [Slots -> Nat]
    /\ granted \in [Slots -> Nat]

-----------------------------------------------------------------------------
(* Asking for a code or a link.                                            *)

\* The cooldown of one replica lets the key through, and starts again.
allow(p) ==
    /\ now >= allowed[p]
    /\ allowed' = [allowed EXCEPT ![p] = now + Cooldown]

\* UpsertEmailLoginCode and UpsertPhoneVerificationCode: a fresh code, a
\* fresh budget, in place of whatever the row held.
UpsertCode(n) ==
    /\ UNCHANGED kind
    /\ code' = code + 1
    /\ number' = n
    /\ codeEnd' = now + TTL
    /\ consumed' = FALSE
    /\ tries' = 0
    /\ sentTo' = [sentTo EXCEPT ![code + 1] = n]
    /\ ended' = ended \cup (Codes \cap {code})
    /\ issued' = [issued EXCEPT !["row"] = @ + 1]

\* A person asks for a code; RequestPhoneVerification refuses the number
\* that is verified already, and a throttled request does nothing.
RequestCode(p, n) ==
    /\ code < MaxCode
    /\ kind = "phone" => n # phone
    /\ allow(p)
    /\ UpsertCode(n)
    /\ UNCHANGED <<links, phone, now, pc, locals, judged, dead, wrong, proven, times, peak,
                   granted>>

\* The cooldown is taken, then the write of the code fails (logged, silent).
RequestCodeFails(p) ==
    /\ FaultsHappen
    /\ allow(p)
    /\ UNCHANGED <<row, links, phone, now, pc, locals, ghosts>>

RequestMagicLink(p, l) ==
    /\ kind = "email"
    /\ link[l] = "none"
    /\ allow(p)
    /\ link' = [link EXCEPT ![l] = "live"]
    /\ linkEnd' = [linkEnd EXCEPT ![l] = now + TTL]
    /\ issued' = [issued EXCEPT ![l] = @ + 1]
    /\ UNCHANGED <<row, phone, now, pc, locals, judged, dead, ended, wrong, sentTo, proven,
                   times, peak, granted>>

-----------------------------------------------------------------------------
(* Presenting a code.                                                      *)

Goto(r, label) == pc' = [pc EXCEPT ![r] = label]

\* The codes that are no longer good: accepted, burnt or replaced, out of
\* time, or guessed wrong as often as they may be.
Dead ==
    ended \cup (Codes \cap {c \in {code} : codeEnd <= now \/ wrong[c] >= MaxAttempts})

\* Mutant: any code of the user answers for any number.
AnswersForAnyNumber(n) == code # 0 /\ ~consumed /\ codeEnd > now /\ tries < MaxAttempts

\* Mutant: the time of the code is not looked at.
AnswersLate(n) == code # 0 /\ ~consumed /\ number = n /\ tries < MaxAttempts

\* Mutant: the attempt count is not looked at.
AnswersUncounted(n) == code # 0 /\ ~consumed /\ codeEnd > now /\ number = n

\* The row as it is read answers for this number: it is there, unconsumed, in
\* time, sent to the number, and has guesses left.
Answers(n) ==
    /\ code # 0
    /\ ~consumed
    /\ codeEnd > now
    /\ number = n
    /\ tries < MaxAttempts

\* A code is presented that was sent once, or a wrong one, for any number;
\* the row is read and judged.
Present(r, g, n) ==
    /\ pc[r] = "new"
    /\ IF Answers(n)
       THEN Goto(r, IF g = code THEN "consume" ELSE "count")
       ELSE Goto(r, "done")
    /\ guess' = [guess EXCEPT ![r] = g]
    /\ to' = [to EXCEPT ![r] = n]
    /\ last' = [last EXCEPT ![r] = tries + 1 >= MaxAttempts]
    /\ judged' = [judged EXCEPT ![r] = code]
    /\ dead' = [dead EXCEPT ![r] = Dead]
    /\ peak' = LET open == Cardinality({q \in Requests : pc'[q] = "count"})
               IN  IF open > peak THEN open ELSE peak
    /\ UNCHANGED <<row, links, allowed, phone, now, ended, wrong, sentTo, proven, times,
                   issued, granted>>

VerifyCode(r) == \E g \in 0..code, n \in Targets : Present(r, g, n)

\* The wrong guess is added to the row's count, whatever code the row holds
\* by now: the row keeps its id when it is overwritten.
IncrementAttempts(r) ==
    /\ pc[r] = "count"
    /\ tries' = tries + 1
    /\ wrong' = [wrong EXCEPT ![judged[r]] = @ + 1]
    /\ Goto(r, IF last[r] THEN "burn" ELSE "done")
    /\ UNCHANGED <<kind, code, number, codeEnd, consumed, links, allowed, phone, now, locals,
                   judged, dead, ended, sentTo, proven, times, peak, issued, granted>>

\* That write fails: it is logged, and the rest goes on.
IncrementFails(r) ==
    /\ FaultsHappen
    /\ pc[r] = "count"
    /\ Goto(r, IF last[r] THEN "burn" ELSE "done")
    /\ UNCHANGED <<row, links, allowed, phone, now, locals, ghosts>>

\* Mutant: the update does not ask for an unconsumed row.
ConsumeMatchesAnyRow == code # 0 /\ codeEnd > now

\* ConsumeEmailLoginCode and ConsumePhoneVerificationCode find the row by its
\* key alone, whatever code it holds by now.
ConsumeMatches == code # 0 /\ ~consumed /\ codeEnd > now

\* The last wrong guess burns the code.
Burn(r) ==
    /\ pc[r] = "burn"
    /\ consumed' = (consumed \/ ConsumeMatches)
    /\ ended' = ended \cup {c \in {code} : ConsumeMatches}
    /\ Goto(r, "done")
    /\ UNCHANGED <<kind, code, number, codeEnd, tries, links, allowed, phone, now, locals, judged,
                   dead, wrong, sentTo, proven, times, peak, issued, granted>>

\* The right code is consumed before anything comes of it.
ConsumeCode(r) ==
    /\ pc[r] = "consume"
    /\ ConsumeMatches
    /\ consumed' = TRUE
    /\ ended' = ended \cup {code, guess[r]}
    /\ proven' = proven \cup {sentTo[guess[r]]}
    /\ times' = [times EXCEPT ![guess[r]] = @ + 1]
    /\ granted' = [granted EXCEPT !["row"] = @ + 1]
    /\ Goto(r, IF kind = "phone" THEN "record" ELSE "done")
    /\ UNCHANGED <<kind, code, number, codeEnd, tries, links, allowed, phone, now, locals, judged,
                   dead, wrong, sentTo, peak, issued>>

\* Somebody else consumed it, or its time is over.
ConsumeLost(r) ==
    /\ pc[r] = "consume"
    /\ ~ConsumeMatches
    /\ Goto(r, "done")
    /\ UNCHANGED <<row, links, allowed, phone, now, locals, ghosts>>

\* Mutant: the arguments are swapped.
SetUserPhoneVerifiedSwapped(r) ==
    /\ pc[r] = "record"
    /\ phone' = guess[r]
    /\ Goto(r, "done")
    /\ UNCHANGED <<row, links, allowed, now, locals, ghosts>>

\* SetUserPhoneVerified writes the number the request was made for.
SetUserPhoneVerified(r) ==
    /\ pc[r] = "record"
    /\ phone' = to[r]
    /\ Goto(r, "done")
    /\ UNCHANGED <<row, links, allowed, now, locals, ghosts>>

\* A repository call fails, or the process stops.
Crash(r) ==
    /\ FaultsHappen
    /\ pc[r] \in {"count", "burn", "consume", "record"}
    /\ Goto(r, "done")
    /\ UNCHANGED <<row, links, allowed, phone, now, locals, ghosts>>

\* ConsumeMagicLinkToken: one conditional update decides.
RedeemMagicLink(l) ==
    /\ link[l] = "live"
    /\ linkEnd[l] > now
    /\ link' = [link EXCEPT ![l] = "spent"]
    /\ granted' = [granted EXCEPT ![l] = @ + 1]
    /\ UNCHANGED <<row, linkEnd, allowed, phone, now, pc, locals, judged, dead, ended, wrong,
                   sentTo, proven, times, peak, issued>>

Tick ==
    /\ now < MaxTime
    /\ now' = now + 1
    /\ UNCHANGED <<row, links, allowed, phone, pc, locals, ghosts>>

-----------------------------------------------------------------------------
Init ==
    /\ kind \in {"email", "phone"}
    /\ code = 0
    /\ number = None
    /\ codeEnd = 0
    /\ consumed = FALSE
    /\ tries = 0
    /\ link = [l \in Links |-> "none"]
    /\ linkEnd = [l \in Links |-> 0]
    /\ allowed = [p \in Replicas |-> 0]
    /\ phone = None
    /\ now = 0
    /\ pc = [r \in Requests |-> "new"]
    /\ guess = [r \in Requests |-> 0]
    /\ to = [r \in Requests |-> None]
    /\ last = [r \in Requests |-> FALSE]
    /\ judged = [r \in Requests |-> 0]
    /\ dead = [r \in Requests |-> {}]
    /\ ended = {}
    /\ wrong = [c \in Codes |-> 0]
    /\ sentTo = [c \in Codes |-> None]
    /\ proven = {}
    /\ times = [c \in Codes |-> 0]
    /\ peak = 0
    /\ issued = [s \in Slots |-> 0]
    /\ granted = [s \in Slots |-> 0]

Request(r) ==
    \/ VerifyCode(r)
    \/ IncrementAttempts(r)
    \/ IncrementFails(r)
    \/ Burn(r)
    \/ ConsumeCode(r)
    \/ ConsumeLost(r)
    \/ SetUserPhoneVerified(r)
    \/ Crash(r)

Next ==
    \/ \E p \in Replicas, n \in Targets : RequestCode(p, n)
    \/ \E p \in Replicas : RequestCodeFails(p)
    \/ \E p \in Replicas, l \in Links : RequestMagicLink(p, l)
    \/ \E r \in Requests : Request(r)
    \/ \E l \in Links : RedeemMagicLink(l)
    \/ Tick

Spec == Init /\ [][Next]_vars

-----------------------------------------------------------------------------
(* Properties.                                                             *)

\* The slots of the abstract specification are rows: a slot is live while its
\* row can still be consumed.  An expired row is live until it is replaced;
\* it just never grants.
Grants == INSTANCE OneTimeGrant WITH
    live <- [s \in Slots |-> IF s = "row" THEN code # 0 /\ ~consumed ELSE link[s] = "live"]

\* Every code and link row is a single-use credential: what is accepted uses
\* up one unconsumed row, so there are never more acceptances than codes and
\* links sent, however requests for new codes and presentations of old ones
\* overlap (auth_passwordless.go: "a replay racing this verify loses").
ImplementsOneTimeGrant == Grants!Spec

\* A code that was already accepted, burnt, replaced, expired or guessed wrong
\* MaxAttempts times when a request read the row is not accepted from it.
DeadCodeRefused ==
    \A r \in Requests : pc[r] \in {"consume", "record"} => guess[r] \notin dead[r]

\* The number recorded as verified is one a code sent to it was presented
\* for, although the row consumed may by then belong to another number.
VerifiedNumberProven == phone # None => phone \in proven

\* Recorded wrong guesses against one code exceed its budget by no more than
\* the guesses that were open at once: each later one sees the count.
GuessBudget == \A c \in Codes : wrong[c] < MaxAttempts + peak

\* "consumes it single-use" (auth_passwordless.go:187): no code is accepted
\* twice.
CodeAcceptedOnce == \A c \in Codes : times[c] <= 1

=============================================================================
