---------------------------- MODULE AddressProof ----------------------------
(***************************************************************************)
(* One account whose address is unproven, the credentials attached to it,  *)
(* and the first proof of its address, which voids what was attached       *)
(* before it (internal/service: markEmailVerifiedViaExternalProof and its  *)
(* callers, CompletePasskeyRegistration, LinkIdentity, VerifyEmail,        *)
(* ConfirmEmailChange).                                                    *)
(*                                                                         *)
(* A proof and an attach are requests of several store calls each, with no *)
(* lock between them.  Every call reads a copy of the account and works    *)
(* from it.  An address is a model value; a provider's assertion either    *)
(* proves it or is a tagged spelling of it that does not.                  *)
(***************************************************************************)
EXTENDS Naturals, FiniteSets

CONSTANTS
    Passkeys,
    Links,       \* provider identities that can be linked
    Password,
    Addrs,
    First,       \* the address the account was created with
    Asserts,     \* the address each provider asserts, in canonical form
    Tagged,      \* the links whose provider asserts a +tag spelling of it
    Proofs,      \* requests that may prove the address
    SignIns,     \* bound: the credentials someone signs in with
    None,
    MaxFaults    \* bound on store faults and crashes

Attachable == Passkeys \cup Links
Creds == Attachable \cup {Password}

ASSUME AddressProofAssumption ==
    /\ Passkeys \cap Links = {}
    /\ Password \notin Attachable
    /\ None \notin Creds \cup Addrs
    /\ First \in Addrs
    /\ Asserts \in [Links -> Addrs]
    /\ Tagged \subseteq Links
    /\ SignIns \subseteq Creds
    /\ MaxFaults \in Nat

VARIABLES
    email, verified, \* the account's row
    creds,           \* the credentials it holds
    attach,          \* where the call that attaches each credential is
    unproven,        \* whether it read the address unverified
    login,           \* where the sign-in with each credential is
    session,         \* the session it opened; "late" if the credential was gone
    pc, copy, link,  \* each proof: its step, its copy's address, who presents it
    joins,           \* whether it links its presenter when it is through
    keeps,           \* keepsAssertingLinks
    listed,          \* whether it listed passkeys
    todo,            \* the links it has yet to delete
    cleared,         \* whether it has something to end sessions for
    wrote,           \* whether it marked the address verified
    planted,         \* history: credentials attached on an unproven address
    voided,          \* history: what each proof deleted
    faults

account == <<email, verified, creds>>
attaching == <<attach, unproven>>
signing == <<login, session>>
locals == <<pc, copy, link, joins, keeps, listed, todo, cleared, wrote>>
ghosts == <<planted, voided>>
vars == <<account, attaching, signing, locals, ghosts, faults>>

PCs == {"idle", "claimed", "plain", "passkeys", "links", "revoke", "delete", "void", "write",
        "relist", "redelete", "relinks", "revoid", "rerevoke", "join", "done", "failed"}

TypeOK ==
    /\ email \in Addrs
    /\ verified \in BOOLEAN
    /\ creds \subseteq Creds
    /\ attach \in [Attachable -> {"idle", "read", "check", "withdraw", "done", "stuck"}]
    /\ unproven \in [Attachable -> BOOLEAN]
    /\ login \in [Creds -> {"idle", "holding", "done"}]
    /\ session \in [Creds -> {"none", "open", "late", "ended"}]
    /\ pc \in [Proofs -> PCs]
    /\ copy \in [Proofs -> Addrs]
    /\ link \in [Proofs -> Links \cup {None}]
    /\ joins \in [Proofs -> BOOLEAN]
    /\ keeps \in [Proofs -> BOOLEAN]
    /\ listed \in [Proofs -> BOOLEAN]
    /\ todo \in [Proofs -> SUBSET Links]
    /\ cleared \in [Proofs -> BOOLEAN]
    /\ wrote \in [Proofs -> BOOLEAN]
    /\ planted \subseteq Creds
    /\ voided \in [Proofs -> SUBSET Creds]
    /\ faults \in Nat

-----------------------------------------------------------------------------
(* Helpers.                                                                *)

ProofCarriesTo(l, a) == Asserts[l] = a /\ l \notin Tagged

\* A provider on the account asserted a spelling of a that does not prove it.
addressClaimedByProvider(a) == \E l \in creds \cap Links : Asserts[l] = a /\ l \in Tagged

\* The proof keeps its presenter and, by a verification link, what asserts
\* the account's own address.
voids(p, l) == l # link[p] /\ (keeps[p] => ~ProofCarriesTo(l, copy[p]))

voidedAmong(p) == {l \in creds \cap Links : voids(p, l)}

Goto(p, label) == pc' = [pc EXCEPT ![p] = label]

\* What is inserted now was not voided before.
Insert(c, isPlanted) ==
    /\ creds' = creds \cup {c}
    /\ planted' = IF isPlanted THEN planted \cup {c} ELSE planted \ {c}
    /\ voided' = [q \in Proofs |-> voided[q] \ {c}]

Void(p, C) ==
    /\ creds' = creds \ C
    /\ voided' = [voided EXCEPT ![p] = @ \cup (C \cap creds)]

\* Refresh tokens and session rows of the account are all ended.
Ended == [c \in Creds |-> IF session[c] \in {"open", "late"} THEN "ended" ELSE session[c]]

-----------------------------------------------------------------------------
(* Attaching a passkey or a provider link to the account one is signed in  *)
(* to: CompletePasskeyRegistration and LinkIdentity.                       *)

AttachTo(c, label) == attach' = [attach EXCEPT ![c] = label]

\* The holder is read before the insert.
ReadHolder(c) ==
    /\ attach[c] = "idle"
    /\ AttachTo(c, "read")
    /\ unproven' = [unproven EXCEPT ![c] = ~verified]
    /\ UNCHANGED <<account, signing, locals, ghosts, faults>>

\* A provider identity is linked once.
CreateCredential(c) ==
    /\ attach[c] = "read"
    /\ \/ /\ c \in creds
          /\ AttachTo(c, "done")
          /\ UNCHANGED <<creds, ghosts>>
       \/ /\ c \notin creds
          /\ AttachTo(c, IF unproven[c] THEN "check" ELSE "done")
          /\ Insert(c, unproven[c])
    /\ UNCHANGED <<email, verified, unproven, signing, locals, faults>>

\* withdrawIfAddressProven: the account is read again after the insert.
Recheck(c) ==
    /\ attach[c] = "check"
    /\ AttachTo(c, IF verified THEN "withdraw" ELSE "done")
    /\ UNCHANGED <<account, unproven, signing, locals, ghosts, faults>>

Withdraw(c) ==
    /\ attach[c] = "withdraw"
    /\ AttachTo(c, "done")
    /\ creds' = creds \ {c}
    /\ UNCHANGED <<email, verified, unproven, signing, locals, ghosts, faults>>

\* A second read that fails withdraws too.
RecheckFails(c) ==
    /\ attach[c] = "check"
    /\ AttachTo(c, "withdraw")
    /\ faults < MaxFaults
    /\ faults' = faults + 1
    /\ UNCHANGED <<account, unproven, signing, locals, ghosts>>

\* The insert or the withdrawal fails, or the process is gone.
AttachFails(c) ==
    /\ attach[c] \in {"read", "check", "withdraw"}
    /\ AttachTo(c, "stuck")
    /\ faults < MaxFaults
    /\ faults' = faults + 1
    /\ UNCHANGED <<account, unproven, signing, locals, ghosts>>

-----------------------------------------------------------------------------
(* Signing in with a credential: it is looked up, then tokens are issued.  *)

LoginRead(c) ==
    /\ login[c] = "idle"
    /\ c \in creds
    /\ login' = [login EXCEPT ![c] = "holding"]
    /\ UNCHANGED <<account, attaching, session, locals, ghosts, faults>>

issueTokens(c) ==
    /\ login[c] = "holding"
    /\ login' = [login EXCEPT ![c] = "done"]
    /\ session' = [session EXCEPT ![c] = IF c \in creds THEN "open" ELSE "late"]
    /\ UNCHANGED <<account, attaching, locals, ghosts, faults>>

-----------------------------------------------------------------------------
(* The first steps of the requests that prove an address.                  *)

Start(p, label, l, willJoin, keepsAsserting) ==
    /\ pc[p] = "idle"
    /\ Goto(p, label)
    /\ copy' = [copy EXCEPT ![p] = email]
    /\ link' = [link EXCEPT ![p] = l]
    /\ joins' = [joins EXCEPT ![p] = willJoin]
    /\ keeps' = [keeps EXCEPT ![p] = keepsAsserting]
    /\ cleared' = [cleared EXCEPT ![p] = Password \in creds]
    /\ UNCHANGED <<account, attaching, signing, listed, todo, wrote, ghosts, faults>>

\* A code or a magic link mailed to the account's address is redeemed: the
\* account is found by that address.
PasswordlessLogin(p) == Start(p, IF verified THEN "done" ELSE "passkeys", None, FALSE, FALSE)

\* upsertOAuthUser: the account is the one the provider identity is linked to;
\* its assertion may prove the account's address or not.
OAuthLinked(p, l) ==
    /\ l \in creds
    /\ Start(p, IF ~verified /\ ProofCarriesTo(l, email) THEN "passkeys" ELSE "done", l, FALSE, FALSE)

\* upsertOAuthUser: the identity is not linked, and the account is the one of
\* the address it proves; it is linked at the end.
OAuthByAddress(p, l) ==
    /\ l \notin creds
    /\ ProofCarriesTo(l, email)
    /\ Start(p, IF verified THEN "join" ELSE "passkeys", l, TRUE, FALSE)

\* VerifyEmail: the token was mailed to the address the account still has.
VerifyEmail(p) == Start(p, IF verified THEN "done" ELSE "claimed", None, FALSE, TRUE)

\* verifyAddressByLink: what the link voids depends on who claimed the address.
ClaimRead(p) ==
    /\ pc[p] = "claimed"
    /\ Goto(p, IF addressClaimedByProvider(copy[p]) THEN "passkeys" ELSE "plain")
    /\ UNCHANGED <<account, attaching, signing, copy, link, joins, keeps, listed, todo, cleared,
                   wrote, ghosts, faults>>

\* SetUserEmailVerified without clearing: a sign-up is completed.
CompleteSignUp(p) ==
    /\ pc[p] = "plain"
    /\ Goto(p, "done")
    /\ verified' = (verified \/ email = copy[p])
    /\ UNCHANGED <<email, creds, attaching, signing, copy, link, joins, keeps, listed, todo, cleared,
                   wrote, ghosts, faults>>

-----------------------------------------------------------------------------
(* markEmailVerifiedViaExternalProof.                                      *)

ListPasskeys(p) ==
    /\ pc[p] = "passkeys"
    /\ Goto(p, "links")
    /\ listed' = [listed EXCEPT ![p] = creds \cap Passkeys # {}]
    /\ UNCHANGED <<account, attaching, signing, copy, link, joins, keeps, todo, cleared, wrote, ghosts,
                   faults>>

\* hadPassword is the copy's; cleared[p] holds it since the start.
ListLinks(p) ==
    LET any == cleared[p] \/ listed[p] \/ voidedAmong(p) # {}
    IN  /\ pc[p] = "links"
        /\ todo' = [todo EXCEPT ![p] = voidedAmong(p)]
        /\ cleared' = [cleared EXCEPT ![p] = listed[p] \/ voidedAmong(p) # {}]
        /\ Goto(p, IF any THEN "revoke" ELSE "write")
        /\ UNCHANGED <<account, attaching, signing, copy, link, joins, keeps, listed, wrote, ghosts,
                       faults>>

RevokeSessions(p) ==
    /\ pc[p] = "revoke"
    /\ Goto(p, "delete")
    /\ session' = Ended
    /\ UNCHANGED <<account, attaching, login, copy, link, joins, keeps, listed, todo, cleared, wrote,
                   ghosts, faults>>

DeletePasskeys(p) ==
    /\ pc[p] = "delete"
    /\ Goto(p, "void")
    /\ Void(p, IF listed[p] THEN Passkeys ELSE {})
    /\ UNCHANGED <<email, verified, attaching, signing, copy, link, joins, keeps, listed, todo, cleared,
                   wrote, planted, faults>>

\* voidProviderLinks deletes one link after the other; one that is gone by
\* then is an error, which ends the proof.
VoidLinks(p, from, to) ==
    /\ pc[p] = from
    /\ \/ todo[p] = {} /\ Goto(p, to) /\ UNCHANGED <<creds, todo, voided>>
       \/ \E l \in todo[p] :
            \/ /\ l \in creds
               /\ Void(p, {l})
               /\ todo' = [todo EXCEPT ![p] = @ \ {l}]
               /\ UNCHANGED pc
            \/ /\ l \notin creds
               /\ Goto(p, "failed")
               /\ UNCHANGED <<creds, todo, voided>>
    /\ UNCHANGED <<email, verified, attaching, signing, copy, link, joins, keeps, listed, cleared, wrote,
                   planted, faults>>

VoidListed(p) == VoidLinks(p, "void", "write")

\* Mutant: the address is verified and what was attached since is not looked for.
SetUserEmailVerifiedLast(p) ==
    /\ pc[p] = "write"
    /\ email = copy[p]
    /\ Goto(p, IF joins[p] THEN "join" ELSE "done")
    /\ verified' = TRUE
    /\ wrote' = [wrote EXCEPT ![p] = TRUE]
    /\ Void(p, {Password})
    /\ UNCHANGED <<email, attaching, signing, copy, link, joins, keeps, listed, todo, cleared, planted, faults>>

\* SetUserEmailVerified with clearPassword, while the account still has the
\* address of the copy; if not, the proof ends.
SetUserEmailVerified(p) ==
    /\ pc[p] = "write"
    /\ \/ /\ email = copy[p]
          /\ Goto(p, "relist")
          /\ verified' = TRUE
          /\ wrote' = [wrote EXCEPT ![p] = TRUE]
          /\ cleared' = [cleared EXCEPT ![p] = @ \/ Password \in creds]
          /\ Void(p, {Password})
       \/ /\ email # copy[p]
          /\ Goto(p, IF joins[p] THEN "join" ELSE "done")
          /\ UNCHANGED <<verified, wrote, cleared, creds, voided>>
    /\ UNCHANGED <<email, attaching, signing, copy, link, joins, keeps, listed, todo, planted, faults>>

RelistPasskeys(p) ==
    /\ pc[p] = "relist"
    /\ Goto(p, IF creds \cap Passkeys # {} THEN "redelete" ELSE "relinks")
    /\ UNCHANGED <<account, attaching, signing, copy, link, joins, keeps, listed, todo, cleared, wrote,
                   ghosts, faults>>

DeleteLatePasskeys(p) ==
    /\ pc[p] = "redelete"
    /\ Goto(p, "relinks")
    /\ Void(p, Passkeys)
    /\ cleared' = [cleared EXCEPT ![p] = TRUE]
    /\ UNCHANGED <<email, verified, attaching, signing, copy, link, joins, keeps, listed, todo, wrote,
                   planted, faults>>

\* Mutant: the links found late do not count for the second revocation.
RelistLinksUncounted(p) ==
    /\ pc[p] = "relinks"
    /\ Goto(p, "revoid")
    /\ todo' = [todo EXCEPT ![p] = voidedAmong(p)]
    /\ UNCHANGED <<account, attaching, signing, copy, link, joins, keeps, listed, cleared, wrote, ghosts,
                   faults>>

RelistLinks(p) ==
    /\ pc[p] = "relinks"
    /\ Goto(p, "revoid")
    /\ todo' = [todo EXCEPT ![p] = voidedAmong(p)]
    /\ cleared' = [cleared EXCEPT ![p] = @ \/ voidedAmong(p) # {}]
    /\ UNCHANGED <<account, attaching, signing, copy, link, joins, keeps, listed, wrote, ghosts, faults>>

VoidLate(p) == VoidLinks(p, "revoid", "rerevoke")

RevokeAgain(p) ==
    /\ pc[p] = "rerevoke"
    /\ Goto(p, IF joins[p] THEN "join" ELSE "done")
    /\ session' = IF cleared[p] THEN Ended ELSE session
    /\ UNCHANGED <<account, attaching, login, copy, link, joins, keeps, listed, todo, cleared, wrote,
                   ghosts, faults>>

\* Mutant: an identity without a name is linked as well.
linkOAuthIdentityUnnamed(p) ==
    /\ pc[p] = "join"
    /\ Goto(p, "done")
    /\ Insert(None, FALSE)
    /\ UNCHANGED <<email, verified, attaching, signing, copy, link, joins, keeps, listed, todo, cleared,
                   wrote, faults>>

\* The sign-in's provider is linked; a failure, as when it is linked by now,
\* is only logged.
linkOAuthIdentity(p) ==
    /\ pc[p] = "join"
    /\ Goto(p, "done")
    /\ \/ link[p] \notin creds /\ Insert(link[p], FALSE)
       \/ UNCHANGED <<creds, ghosts>>
    /\ UNCHANGED <<email, verified, attaching, signing, copy, link, joins, keeps, listed, todo, cleared,
                   wrote, faults>>

\* A store call fails and the proof fails closed, or the process is gone.
ProofFails(p) ==
    /\ pc[p] \notin {"idle", "join", "done", "failed"}
    /\ Goto(p, "failed")
    /\ faults < MaxFaults
    /\ faults' = faults + 1
    /\ UNCHANGED <<account, attaching, signing, copy, link, joins, keeps, listed, todo, cleared, wrote,
                   ghosts>>

-----------------------------------------------------------------------------
(* ConfirmEmailChange: the mailed token of the new address is redeemed.    *)
(* Ending the sessions is attempted after the write.                       *)

ConfirmEmailChange(a) ==
    /\ a # email
    /\ email' = a
    /\ verified' = TRUE
    /\ session' \in {Ended, session}
    /\ UNCHANGED <<creds, attaching, login, locals, ghosts, faults>>

-----------------------------------------------------------------------------

\* An account is unverified when it is signed up with a password, created by
\* an administrator or by an import, or by a provider's tagged assertion.
Init ==
    /\ email = First
    /\ verified = FALSE
    /\ creds \in {{}, {Password}} \cup {{l} : l \in {k \in Tagged : Asserts[k] = email}}
    /\ attach = [c \in Attachable |-> "idle"]
    /\ unproven = [c \in Attachable |-> FALSE]
    /\ login = [c \in Creds |-> "idle"]
    /\ session = [c \in Creds |-> "none"]
    /\ pc = [p \in Proofs |-> "idle"]
    /\ copy = [p \in Proofs |-> email]
    /\ link = [p \in Proofs |-> None]
    /\ joins = [p \in Proofs |-> FALSE]
    /\ keeps = [p \in Proofs |-> FALSE]
    /\ listed = [p \in Proofs |-> FALSE]
    /\ todo = [p \in Proofs |-> {}]
    /\ cleared = [p \in Proofs |-> FALSE]
    /\ wrote = [p \in Proofs |-> FALSE]
    /\ planted = creds
    /\ voided = [p \in Proofs |-> {}]
    /\ faults = 0

Attach(c) ==
    \/ ReadHolder(c) \/ CreateCredential(c) \/ Recheck(c) \/ Withdraw(c)
    \/ RecheckFails(c) \/ AttachFails(c)

Arrive(p) ==
    \/ PasswordlessLogin(p) \/ VerifyEmail(p)
    \/ \E l \in Links : OAuthLinked(p, l) \/ OAuthByAddress(p, l)

Prove(p) ==
    \/ ClaimRead(p) \/ CompleteSignUp(p)
    \/ ListPasskeys(p) \/ ListLinks(p) \/ RevokeSessions(p) \/ DeletePasskeys(p) \/ VoidListed(p)
    \/ SetUserEmailVerified(p)
    \/ RelistPasskeys(p) \/ DeleteLatePasskeys(p) \/ RelistLinks(p) \/ VoidLate(p) \/ RevokeAgain(p)
    \/ linkOAuthIdentity(p) \/ ProofFails(p)

Next ==
    \/ \E c \in Attachable : Attach(c)
    \/ \E c \in SignIns : LoginRead(c) \/ issueTokens(c)
    \/ \E p \in Proofs : Arrive(p) \/ Prove(p)
    \/ \E a \in Addrs : ConfirmEmailChange(a)

Spec == Init /\ [][Next]_vars

-----------------------------------------------------------------------------
(* Properties.                                                             *)

\* Once a proof has verified the address and is through, a passkey or link
\* attached by a call that found the address unproven is gone, unless the
\* proof keeps it, or that call is yet to look again (or failed, or died,
\* before it could withdraw it).  This is what listing twice and reading the
\* account after the insert are for: one of the two sees the other.
PlantedCredentialVoided ==
    \A p \in Proofs, c \in creds \cap planted \cap Attachable :
        pc[p] = "done" /\ wrote[p] /\ (c \in Links => voids(p, c)) =>
            attach[c] \in {"check", "withdraw", "stuck"}

\* Once a proof has verified the address and is through, no session opened
\* with a credential it voided, while that credential existed, is alive: the
\* second revocation ends those the first one missed.
VoidedSessionEnded ==
    \A p \in Proofs : pc[p] \in {"join", "done"} /\ wrote[p] =>
        \A c \in voided[p] : session[c] # "open"

\* What the comment of markEmailVerifiedViaExternalProof says of a proof that
\* lost to a change of address, and of one that comes second: whatever a proof
\* voids was attached to an account whose address was unproven.
VoidedWereUnproven == \A p \in Proofs : voided[p] \subseteq planted
=============================================================================
