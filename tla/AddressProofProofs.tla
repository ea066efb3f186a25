------------------------- MODULE AddressProofProofs -------------------------
(***************************************************************************)
(* AddressProof for any number of passkeys, provider links, addresses and  *)
(* proofs under way at once: what was attached to the unproven address is  *)
(* voided, and the sessions opened with it are ended.                      *)
(***************************************************************************)
EXTENDS AddressProof, TLAPS

Early == {"idle", "claimed", "plain", "passkeys", "links", "revoke", "delete", "void", "write"}
Late == {"relist", "redelete", "relinks", "revoid", "rerevoke"}

\* An attach that has yet to look again, or could not.
Open == {"check", "withdraw", "stuck"}

\* A proof is past its write exactly when it has verified the address, which
\* then stays verified.
WroteInv ==
    \A p \in Proofs :
        /\ wrote[p] => verified /\ pc[p] \notin Early
        /\ pc[p] \in Late => wrote[p]

\* What is attached, planted and not to be looked at again by its own call, at
\* each step of a proof after its write: the proof has it still ahead.
SweptInv ==
    \A p \in Proofs, c \in creds \cap planted \cap Attachable :
        wrote[p] /\ attach[c] \notin Open =>
            /\ pc[p] \in {"relinks", "revoid", "rerevoke", "join", "done"} => c \notin Passkeys
            /\ pc[p] = "revoid" /\ c \in Links /\ voids(p, c) => c \in todo[p]
            /\ pc[p] \in {"rerevoke", "join", "done"} /\ c \in Links => ~voids(p, c)

\* What a proof voided is not on the account.
GoneInv == \A p \in Proofs : voided[p] \cap creds = {}

\* A proof that voided something, or is about to, will revoke again.
CountedInv ==
    \A p \in Proofs :
        /\ pc[p] \in {"idle", "claimed", "plain", "passkeys", "links"} => voided[p] = {}
        /\ pc[p] \in {"revoke", "delete", "void", "write"} \cup Late /\ voided[p] # {} => cleared[p]
        /\ pc[p] \in {"revoke", "delete"} /\ listed[p] => cleared[p]
        /\ pc[p] \in {"revoke", "delete", "void", "revoid"} /\ todo[p] # {} => cleared[p]

\* Only a sign-in through a provider links it at the end.
JoinInv == \A p \in Proofs : joins[p] \/ pc[p] = "join" => link[p] \in Links

IInv == TypeOK /\ JoinInv /\ WroteInv /\ SweptInv /\ GoneInv /\ CountedInv /\ VoidedSessionEnded

USE DEF Attachable, Creds, PCs, Early, Late, Open

-----------------------------------------------------------------------------
(* The invariant, action by action.                                        *)

LEMMA InitIInv == Init => IInv
<1> SUFFICES ASSUME Init PROVE IInv
  OBVIOUS
<1>1. TypeOK
  <2>1. creds \subseteq Creds
    BY AddressProofAssumption DEF Init
  <2> QED
    BY <2>1, AddressProofAssumption DEF Init, TypeOK
<1>2. JoinInv /\ WroteInv /\ GoneInv /\ CountedInv /\ VoidedSessionEnded
  BY DEF Init, JoinInv, WroteInv, GoneInv, CountedInv, VoidedSessionEnded
<1>3. SweptInv
  BY DEF Init, SweptInv
<1> QED
  BY <1>1, <1>2, <1>3 DEF IInv

LEMMA ReadHolderKeeps == ASSUME IInv, NEW c \in Attachable, ReadHolder(c) PROVE IInv'
<1> USE AddressProofAssumption DEF IInv, ReadHolder, AttachTo, account, signing, locals, ghosts
<1>1. TypeOK'
  BY DEF TypeOK
<1>2. WroteInv'
  BY DEF TypeOK, WroteInv
<1>3. SweptInv'
  BY DEF TypeOK, WroteInv, SweptInv, voids, voidedAmong, ProofCarriesTo
<1>4. GoneInv'
  BY DEF TypeOK, GoneInv
<1>5. CountedInv'
  BY DEF TypeOK, CountedInv, GoneInv
<1>6. VoidedSessionEnded'
  BY DEF TypeOK, VoidedSessionEnded, WroteInv, GoneInv, CountedInv
<1>7. JoinInv'
  BY DEF TypeOK, JoinInv
<1> QED
  BY <1>1, <1>2, <1>3, <1>4, <1>5, <1>6, <1>7

LEMMA CreateCredentialKeeps == ASSUME IInv, NEW c \in Attachable, CreateCredential(c) PROVE IInv'
<1> USE AddressProofAssumption DEF IInv, CreateCredential, AttachTo, signing, locals, ghosts, Insert
<1>1. TypeOK'
  BY DEF TypeOK
<1>2. WroteInv'
  BY DEF TypeOK, WroteInv
<1>3. SweptInv'
  BY DEF TypeOK, WroteInv, SweptInv, voids, voidedAmong, ProofCarriesTo
<1>4. GoneInv'
  BY DEF TypeOK, GoneInv
<1>5. CountedInv'
  BY DEF TypeOK, CountedInv, GoneInv
<1>6. VoidedSessionEnded'
  BY DEF TypeOK, VoidedSessionEnded, WroteInv, GoneInv, CountedInv
<1>7. JoinInv'
  BY DEF TypeOK, JoinInv
<1> QED
  BY <1>1, <1>2, <1>3, <1>4, <1>5, <1>6, <1>7

LEMMA RecheckKeeps == ASSUME IInv, NEW c \in Attachable, Recheck(c) PROVE IInv'
<1> USE AddressProofAssumption DEF IInv, Recheck, AttachTo, account, signing, locals, ghosts
<1>1. TypeOK'
  BY DEF TypeOK
<1>2. WroteInv'
  BY DEF TypeOK, WroteInv
<1>3. SweptInv'
  BY DEF TypeOK, WroteInv, SweptInv, voids, voidedAmong, ProofCarriesTo
<1>4. GoneInv'
  BY DEF TypeOK, GoneInv
<1>5. CountedInv'
  BY DEF TypeOK, CountedInv, GoneInv
<1>6. VoidedSessionEnded'
  BY DEF TypeOK, VoidedSessionEnded, WroteInv, GoneInv, CountedInv
<1>7. JoinInv'
  BY DEF TypeOK, JoinInv
<1> QED
  BY <1>1, <1>2, <1>3, <1>4, <1>5, <1>6, <1>7

LEMMA WithdrawKeeps == ASSUME IInv, NEW c \in Attachable, Withdraw(c) PROVE IInv'
<1> USE AddressProofAssumption DEF IInv, Withdraw, AttachTo, signing, locals, ghosts
<1>1. TypeOK'
  BY DEF TypeOK
<1>2. WroteInv'
  BY DEF TypeOK, WroteInv
<1>3. SweptInv'
  BY DEF TypeOK, WroteInv, SweptInv, voids, voidedAmong, ProofCarriesTo
<1>4. GoneInv'
  BY DEF TypeOK, GoneInv
<1>5. CountedInv'
  BY DEF TypeOK, CountedInv, GoneInv
<1>6. VoidedSessionEnded'
  BY DEF TypeOK, VoidedSessionEnded, WroteInv, GoneInv, CountedInv
<1>7. JoinInv'
  BY DEF TypeOK, JoinInv
<1> QED
  BY <1>1, <1>2, <1>3, <1>4, <1>5, <1>6, <1>7

LEMMA RecheckFailsKeeps == ASSUME IInv, NEW c \in Attachable, RecheckFails(c) PROVE IInv'
<1> USE AddressProofAssumption DEF IInv, RecheckFails, AttachTo, account, signing, locals, ghosts
<1>1. TypeOK'
  BY DEF TypeOK
<1>2. WroteInv'
  BY DEF TypeOK, WroteInv
<1>3. SweptInv'
  BY DEF TypeOK, WroteInv, SweptInv, voids, voidedAmong, ProofCarriesTo
<1>4. GoneInv'
  BY DEF TypeOK, GoneInv
<1>5. CountedInv'
  BY DEF TypeOK, CountedInv, GoneInv
<1>6. VoidedSessionEnded'
  BY DEF TypeOK, VoidedSessionEnded, WroteInv, GoneInv, CountedInv
<1>7. JoinInv'
  BY DEF TypeOK, JoinInv
<1> QED
  BY <1>1, <1>2, <1>3, <1>4, <1>5, <1>6, <1>7

LEMMA AttachFailsKeeps == ASSUME IInv, NEW c \in Attachable, AttachFails(c) PROVE IInv'
<1> USE AddressProofAssumption DEF IInv, AttachFails, AttachTo, account, signing, locals, ghosts
<1>1. TypeOK'
  BY DEF TypeOK
<1>2. WroteInv'
  BY DEF TypeOK, WroteInv
<1>3. SweptInv'
  BY DEF TypeOK, WroteInv, SweptInv, voids, voidedAmong, ProofCarriesTo
<1>4. GoneInv'
  BY DEF TypeOK, GoneInv
<1>5. CountedInv'
  BY DEF TypeOK, CountedInv, GoneInv
<1>6. VoidedSessionEnded'
  BY DEF TypeOK, VoidedSessionEnded, WroteInv, GoneInv, CountedInv
<1>7. JoinInv'
  BY DEF TypeOK, JoinInv
<1> QED
  BY <1>1, <1>2, <1>3, <1>4, <1>5, <1>6, <1>7

LEMMA LoginReadKeeps == ASSUME IInv, NEW c \in SignIns, LoginRead(c) PROVE IInv'
<1> USE AddressProofAssumption DEF IInv, LoginRead, account, attaching, locals, ghosts
<1>1. TypeOK'
  BY DEF TypeOK
<1>2. WroteInv'
  BY DEF TypeOK, WroteInv
<1>3. SweptInv'
  BY DEF TypeOK, WroteInv, SweptInv, voids, voidedAmong, ProofCarriesTo
<1>4. GoneInv'
  BY DEF TypeOK, GoneInv
<1>5. CountedInv'
  BY DEF TypeOK, CountedInv, GoneInv
<1>6. VoidedSessionEnded'
  BY DEF TypeOK, VoidedSessionEnded, WroteInv, GoneInv, CountedInv
<1>7. JoinInv'
  BY DEF TypeOK, JoinInv
<1> QED
  BY <1>1, <1>2, <1>3, <1>4, <1>5, <1>6, <1>7

LEMMA issueTokensKeeps == ASSUME IInv, NEW c \in SignIns, issueTokens(c) PROVE IInv'
<1> USE AddressProofAssumption DEF IInv, issueTokens, account, attaching, locals, ghosts
<1>1. TypeOK'
  BY DEF TypeOK
<1>2. WroteInv'
  BY DEF TypeOK, WroteInv
<1>3. SweptInv'
  BY DEF TypeOK, WroteInv, SweptInv, voids, voidedAmong, ProofCarriesTo
<1>4. GoneInv'
  BY DEF TypeOK, GoneInv
<1>5. CountedInv'
  BY DEF TypeOK, CountedInv, GoneInv
<1>6. VoidedSessionEnded'
  BY DEF TypeOK, VoidedSessionEnded, WroteInv, GoneInv, CountedInv
<1>7. JoinInv'
  BY DEF TypeOK, JoinInv
<1> QED
  BY <1>1, <1>2, <1>3, <1>4, <1>5, <1>6, <1>7

LEMMA StartKeeps ==
    ASSUME IInv, NEW p \in Proofs, NEW label \in {"claimed", "passkeys", "join", "done"},
           NEW l \in Links \cup {None}, NEW j \in BOOLEAN, NEW k \in BOOLEAN, j \/ label = "join" => l \in Links,
           Start(p, label, l, j, k)
    PROVE  IInv'
<1> USE AddressProofAssumption DEF IInv, Start, Goto, account, attaching, signing, ghosts
<1>1. TypeOK'
  BY DEF TypeOK
<1>2. WroteInv'
  BY DEF TypeOK, WroteInv
<1>3. SweptInv'
  BY DEF TypeOK, WroteInv, SweptInv, voids, voidedAmong, ProofCarriesTo
<1>4. GoneInv'
  BY DEF TypeOK, GoneInv
<1>5. CountedInv'
  BY DEF TypeOK, CountedInv, GoneInv
<1>6. VoidedSessionEnded'
  BY DEF TypeOK, VoidedSessionEnded, WroteInv, GoneInv, CountedInv
<1>7. JoinInv'
  BY DEF TypeOK, JoinInv
<1> QED
  BY <1>1, <1>2, <1>3, <1>4, <1>5, <1>6, <1>7

LEMMA ClaimReadKeeps == ASSUME IInv, NEW p \in Proofs, ClaimRead(p) PROVE IInv'
<1> USE AddressProofAssumption DEF IInv, ClaimRead, Goto, account, attaching, signing, ghosts
<1>1. TypeOK'
  BY DEF TypeOK
<1>2. WroteInv'
  BY DEF TypeOK, WroteInv
<1>3. SweptInv'
  BY DEF TypeOK, WroteInv, SweptInv, voids, voidedAmong, ProofCarriesTo
<1>4. GoneInv'
  BY DEF TypeOK, GoneInv
<1>5. CountedInv'
  BY DEF TypeOK, CountedInv, GoneInv
<1>6. VoidedSessionEnded'
  BY DEF TypeOK, VoidedSessionEnded, WroteInv, GoneInv, CountedInv
<1>7. JoinInv'
  BY DEF TypeOK, JoinInv
<1> QED
  BY <1>1, <1>2, <1>3, <1>4, <1>5, <1>6, <1>7

LEMMA CompleteSignUpKeeps == ASSUME IInv, NEW p \in Proofs, CompleteSignUp(p) PROVE IInv'
<1> USE AddressProofAssumption DEF IInv, CompleteSignUp, Goto, account, attaching, signing, ghosts
<1>1. TypeOK'
  BY DEF TypeOK
<1>2. WroteInv'
  BY DEF TypeOK, WroteInv
<1>3. SweptInv'
  BY DEF TypeOK, WroteInv, SweptInv, voids, voidedAmong, ProofCarriesTo
<1>4. GoneInv'
  BY DEF TypeOK, GoneInv
<1>5. CountedInv'
  BY DEF TypeOK, CountedInv, GoneInv
<1>6. VoidedSessionEnded'
  BY DEF TypeOK, VoidedSessionEnded, WroteInv, GoneInv, CountedInv
<1>7. JoinInv'
  BY DEF TypeOK, JoinInv
<1> QED
  BY <1>1, <1>2, <1>3, <1>4, <1>5, <1>6, <1>7

LEMMA ListPasskeysKeeps == ASSUME IInv, NEW p \in Proofs, ListPasskeys(p) PROVE IInv'
<1> USE AddressProofAssumption DEF IInv, ListPasskeys, Goto, account, attaching, signing, ghosts
<1>1. TypeOK'
  BY DEF TypeOK
<1>2. WroteInv'
  BY DEF TypeOK, WroteInv
<1>3. SweptInv'
  BY DEF TypeOK, WroteInv, SweptInv, voids, voidedAmong, ProofCarriesTo
<1>4. GoneInv'
  BY DEF TypeOK, GoneInv
<1>5. CountedInv'
  BY DEF TypeOK, CountedInv, GoneInv
<1>6. VoidedSessionEnded'
  BY DEF TypeOK, VoidedSessionEnded, WroteInv, GoneInv, CountedInv
<1>7. JoinInv'
  BY DEF TypeOK, JoinInv
<1> QED
  BY <1>1, <1>2, <1>3, <1>4, <1>5, <1>6, <1>7

LEMMA ListLinksKeeps == ASSUME IInv, NEW p \in Proofs, ListLinks(p) PROVE IInv'
<1> USE AddressProofAssumption DEF IInv, ListLinks, Goto, account, attaching, signing, ghosts
<1>1. TypeOK'
  <2>1. voidedAmong(p) \subseteq Links
    BY DEF voidedAmong
  <2> QED
    BY <2>1 DEF TypeOK
<1>2. WroteInv'
  BY DEF TypeOK, WroteInv
<1>3. SweptInv'
  BY DEF TypeOK, WroteInv, SweptInv, voids, voidedAmong, ProofCarriesTo
<1>4. GoneInv'
  BY DEF TypeOK, GoneInv
<1>5. CountedInv'
  <2> DEFINE some == listed[p] \/ voidedAmong(p) # {}
  <2>1. cleared' = [cleared EXCEPT ![p] = some] /\ (some => cleared'[p])
    BY Zenon DEF TypeOK
  <2>2. (todo'[p] # {} => some) /\ (listed'[p] => some)
    BY DEF TypeOK
  <2> HIDE DEF some
  <2>3. \A q \in Proofs \ {p} : /\ pc'[q] = pc[q] /\ voided'[q] = voided[q] /\ todo'[q] = todo[q]
                               /\ listed'[q] = listed[q] /\ cleared'[q] = cleared[q]
    BY <2>1 DEF TypeOK
  <2>4. voided'[p] = {} /\ pc'[p] \in {"revoke", "write"}
    BY DEF TypeOK, CountedInv
  <2> QED
    BY <2>1, <2>2, <2>3, <2>4 DEF CountedInv
<1>6. VoidedSessionEnded'
  BY DEF TypeOK, VoidedSessionEnded, WroteInv, GoneInv, CountedInv
<1>7. JoinInv'
  BY DEF TypeOK, JoinInv
<1> QED
  BY <1>1, <1>2, <1>3, <1>4, <1>5, <1>6, <1>7

LEMMA RevokeSessionsKeeps == ASSUME IInv, NEW p \in Proofs, RevokeSessions(p) PROVE IInv'
<1> USE AddressProofAssumption DEF IInv, RevokeSessions, Goto, account, attaching, signing, ghosts, Ended
<1>1. TypeOK'
  BY DEF TypeOK
<1>2. WroteInv'
  BY DEF TypeOK, WroteInv
<1>3. SweptInv'
  BY DEF TypeOK, WroteInv, SweptInv, voids, voidedAmong, ProofCarriesTo
<1>4. GoneInv'
  BY DEF TypeOK, GoneInv
<1>5. CountedInv'
  BY DEF TypeOK, CountedInv, GoneInv
<1>6. VoidedSessionEnded'
  BY DEF TypeOK, VoidedSessionEnded, WroteInv, GoneInv, CountedInv
<1>7. JoinInv'
  BY DEF TypeOK, JoinInv
<1> QED
  BY <1>1, <1>2, <1>3, <1>4, <1>5, <1>6, <1>7

LEMMA DeletePasskeysKeeps == ASSUME IInv, NEW p \in Proofs, DeletePasskeys(p) PROVE IInv'
<1> USE AddressProofAssumption DEF IInv, DeletePasskeys, Goto, account, attaching, signing, ghosts, Void
<1>1. TypeOK'
  BY DEF TypeOK
<1>2. WroteInv'
  BY DEF TypeOK, WroteInv
<1>3. SweptInv'
  BY DEF TypeOK, WroteInv, SweptInv, voids, voidedAmong, ProofCarriesTo
<1>4. GoneInv'
  BY DEF TypeOK, GoneInv
<1>5. CountedInv'
  BY DEF TypeOK, CountedInv, GoneInv
<1>6. VoidedSessionEnded'
  BY DEF TypeOK, VoidedSessionEnded, WroteInv, GoneInv, CountedInv
<1>7. JoinInv'
  BY DEF TypeOK, JoinInv
<1> QED
  BY <1>1, <1>2, <1>3, <1>4, <1>5, <1>6, <1>7

LEMMA VoidListedKeeps == ASSUME IInv, NEW p \in Proofs, VoidListed(p) PROVE IInv'
<1> USE AddressProofAssumption DEF IInv, VoidListed, Goto, account, attaching, signing, ghosts, Void, VoidLinks
<1>1. TypeOK'
  BY DEF TypeOK
<1>2. WroteInv'
  BY DEF TypeOK, WroteInv
<1>3. SweptInv'
  BY DEF TypeOK, WroteInv, SweptInv, voids, voidedAmong, ProofCarriesTo
<1>4. GoneInv'
  BY DEF TypeOK, GoneInv
<1>5. CountedInv'
  BY DEF TypeOK, CountedInv, GoneInv
<1>6. VoidedSessionEnded'
  BY DEF TypeOK, VoidedSessionEnded, WroteInv, GoneInv, CountedInv
<1>7. JoinInv'
  BY DEF TypeOK, JoinInv
<1> QED
  BY <1>1, <1>2, <1>3, <1>4, <1>5, <1>6, <1>7

LEMMA SetUserEmailVerifiedKeeps == ASSUME IInv, NEW p \in Proofs, SetUserEmailVerified(p) PROVE IInv'
<1> USE AddressProofAssumption DEF IInv, SetUserEmailVerified, Goto, account, attaching, signing, ghosts, Void
<1>1. TypeOK'
  <2>1. CASE email = copy[p]
    <3>1. cleared' = [cleared EXCEPT ![p] = @ \/ Password \in creds]
      BY <2>1
    <3>2. cleared' \in [Proofs -> BOOLEAN]
      BY <3>1 DEF TypeOK
    <3>3. pc' \in [Proofs -> PCs] /\ wrote' \in [Proofs -> BOOLEAN] /\ verified' \in BOOLEAN
      <4>1. /\ pc' = [pc EXCEPT ![p] = "relist"]
            /\ wrote' = [wrote EXCEPT ![p] = TRUE]
            /\ verified' = TRUE
        BY <2>1
      <4> HIDE DEF SetUserEmailVerified
      <4> QED
        BY <4>1 DEF TypeOK
    <3>4. voided' \in [Proofs -> SUBSET Creds] /\ creds' \subseteq Creds
      BY <2>1 DEF TypeOK
    <3>5. UNCHANGED <<email, attach, unproven, login, session, copy, link, joins, keeps, listed, todo,
                      planted, faults>>
      OBVIOUS
    <3> HIDE DEF SetUserEmailVerified
    <3> QED
      BY <3>2, <3>3, <3>4, <3>5 DEF TypeOK
  <2>2. CASE email # copy[p]
    BY <2>2 DEF TypeOK
  <2> QED
    BY <2>1, <2>2
<1>2. WroteInv'
  BY DEF TypeOK, WroteInv
<1>3. SweptInv'
  BY DEF TypeOK, WroteInv, SweptInv, voids, voidedAmong, ProofCarriesTo
<1>4. GoneInv'
  BY DEF TypeOK, GoneInv
<1>5. CountedInv'
  <2>1. CASE email = copy[p]
    <3>1. pc' = [pc EXCEPT ![p] = "relist"] /\ todo' = todo /\ listed' = listed
      BY <2>1
    <3>2. \A q \in Proofs \ {p} : pc'[q] = pc[q] /\ voided'[q] = voided[q] /\ cleared'[q] = cleared[q]
      BY <2>1 DEF TypeOK
    <3>3. voided'[p] = voided[p] \cup ({Password} \cap creds)
      BY <2>1 DEF TypeOK
    <3>4. cleared[p] \/ Password \in creds => cleared'[p]
      BY <2>1, Zenon DEF TypeOK
    <3>5. voided'[p] # {} => cleared'[p]
      BY <3>3, <3>4 DEF CountedInv
    <3> QED
      BY <3>1, <3>2, <3>5 DEF CountedInv, TypeOK
  <2>2. CASE email # copy[p]
    BY <2>2 DEF TypeOK, CountedInv
  <2> QED
    BY <2>1, <2>2
<1>6. VoidedSessionEnded'
  BY DEF TypeOK, VoidedSessionEnded, WroteInv, GoneInv, CountedInv
<1>7. JoinInv'
  BY DEF TypeOK, JoinInv
<1> QED
  BY <1>1, <1>2, <1>3, <1>4, <1>5, <1>6, <1>7

LEMMA RelistPasskeysKeeps == ASSUME IInv, NEW p \in Proofs, RelistPasskeys(p) PROVE IInv'
<1> USE AddressProofAssumption DEF IInv, RelistPasskeys, Goto, account, attaching, signing, ghosts
<1>1. TypeOK'
  BY DEF TypeOK
<1>2. WroteInv'
  BY DEF TypeOK, WroteInv
<1>3. SweptInv'
  BY DEF TypeOK, WroteInv, SweptInv, voids, voidedAmong, ProofCarriesTo
<1>4. GoneInv'
  BY DEF TypeOK, GoneInv
<1>5. CountedInv'
  BY DEF TypeOK, CountedInv, GoneInv
<1>6. VoidedSessionEnded'
  BY DEF TypeOK, VoidedSessionEnded, WroteInv, GoneInv, CountedInv
<1>7. JoinInv'
  BY DEF TypeOK, JoinInv
<1> QED
  BY <1>1, <1>2, <1>3, <1>4, <1>5, <1>6, <1>7

LEMMA DeleteLatePasskeysKeeps == ASSUME IInv, NEW p \in Proofs, DeleteLatePasskeys(p) PROVE IInv'
<1> USE AddressProofAssumption DEF IInv, DeleteLatePasskeys, Goto, account, attaching, signing, ghosts, Void
<1>1. TypeOK'
  BY DEF TypeOK
<1>2. WroteInv'
  BY DEF TypeOK, WroteInv
<1>3. SweptInv'
  BY DEF TypeOK, WroteInv, SweptInv, voids, voidedAmong, ProofCarriesTo
<1>4. GoneInv'
  BY DEF TypeOK, GoneInv
<1>5. CountedInv'
  BY DEF TypeOK, CountedInv, GoneInv
<1>6. VoidedSessionEnded'
  BY DEF TypeOK, VoidedSessionEnded, WroteInv, GoneInv, CountedInv
<1>7. JoinInv'
  BY DEF TypeOK, JoinInv
<1> QED
  BY <1>1, <1>2, <1>3, <1>4, <1>5, <1>6, <1>7

LEMMA RelistLinksKeeps == ASSUME IInv, NEW p \in Proofs, RelistLinks(p) PROVE IInv'
<1> USE AddressProofAssumption DEF IInv, RelistLinks, Goto, account, attaching, signing, ghosts
<1>1. TypeOK'
  <2>1. voidedAmong(p) \subseteq Links
    BY DEF voidedAmong
  <2> QED
    BY <2>1 DEF TypeOK
<1>2. WroteInv'
  BY DEF TypeOK, WroteInv
<1>3. SweptInv'
  BY DEF TypeOK, WroteInv, SweptInv, voids, voidedAmong, ProofCarriesTo
<1>4. GoneInv'
  BY DEF TypeOK, GoneInv
<1>5. CountedInv'
  <2> DEFINE some == cleared[p] \/ voidedAmong(p) # {}
  <2>1. cleared' = [cleared EXCEPT ![p] = some] /\ (some => cleared'[p])
    BY Zenon DEF TypeOK
  <2>2. todo'[p] # {} \/ voided'[p] # {} => some
    BY DEF TypeOK, CountedInv
  <2> HIDE DEF some
  <2>3. \A q \in Proofs \ {p} : /\ pc'[q] = pc[q] /\ voided'[q] = voided[q] /\ todo'[q] = todo[q]
                               /\ listed'[q] = listed[q] /\ cleared'[q] = cleared[q]
    BY <2>1 DEF TypeOK
  <2>4. pc'[p] = "revoid"
    BY DEF TypeOK
  <2> QED
    BY <2>1, <2>2, <2>3, <2>4 DEF CountedInv
<1>6. VoidedSessionEnded'
  BY DEF TypeOK, VoidedSessionEnded, WroteInv, GoneInv, CountedInv
<1>7. JoinInv'
  BY DEF TypeOK, JoinInv
<1> QED
  BY <1>1, <1>2, <1>3, <1>4, <1>5, <1>6, <1>7

LEMMA VoidLateKeeps == ASSUME IInv, NEW p \in Proofs, VoidLate(p) PROVE IInv'
<1> USE AddressProofAssumption DEF IInv, VoidLate, Goto, account, attaching, signing, ghosts, Void, VoidLinks
<1>1. TypeOK'
  BY DEF TypeOK
<1>2. WroteInv'
  BY DEF TypeOK, WroteInv
<1>3. SweptInv'
  BY DEF TypeOK, WroteInv, SweptInv, voids, voidedAmong, ProofCarriesTo
<1>4. GoneInv'
  BY DEF TypeOK, GoneInv
<1>5. CountedInv'
  BY DEF TypeOK, CountedInv, GoneInv
<1>6. VoidedSessionEnded'
  BY DEF TypeOK, VoidedSessionEnded, WroteInv, GoneInv, CountedInv
<1>7. JoinInv'
  BY DEF TypeOK, JoinInv
<1> QED
  BY <1>1, <1>2, <1>3, <1>4, <1>5, <1>6, <1>7

LEMMA RevokeAgainKeeps == ASSUME IInv, NEW p \in Proofs, RevokeAgain(p) PROVE IInv'
<1> USE AddressProofAssumption DEF IInv, RevokeAgain, Goto, account, attaching, signing, ghosts, Ended
<1>1. TypeOK'
  BY DEF TypeOK
<1>2. WroteInv'
  BY DEF TypeOK, WroteInv
<1>3. SweptInv'
  BY DEF TypeOK, WroteInv, SweptInv, voids, voidedAmong, ProofCarriesTo
<1>4. GoneInv'
  BY DEF TypeOK, GoneInv
<1>5. CountedInv'
  BY DEF TypeOK, CountedInv, GoneInv
<1>6. VoidedSessionEnded'
  BY DEF TypeOK, VoidedSessionEnded, WroteInv, GoneInv, CountedInv
<1>7. JoinInv'
  BY DEF TypeOK, JoinInv
<1> QED
  BY <1>1, <1>2, <1>3, <1>4, <1>5, <1>6, <1>7

LEMMA linkOAuthIdentityKeeps == ASSUME IInv, NEW p \in Proofs, linkOAuthIdentity(p) PROVE IInv'
<1> USE AddressProofAssumption DEF IInv, linkOAuthIdentity, Goto, account, attaching, signing, ghosts, Insert
<1>1. TypeOK'
  BY DEF TypeOK, JoinInv
<1>2. WroteInv'
  BY DEF TypeOK, WroteInv
<1>3. SweptInv'
  BY DEF TypeOK, WroteInv, SweptInv, voids, voidedAmong, ProofCarriesTo
<1>4. GoneInv'
  BY DEF TypeOK, GoneInv
<1>5. CountedInv'
  BY DEF TypeOK, CountedInv, GoneInv
<1>6. VoidedSessionEnded'
  BY DEF TypeOK, VoidedSessionEnded, WroteInv, GoneInv, CountedInv
<1>7. JoinInv'
  BY DEF TypeOK, JoinInv
<1> QED
  BY <1>1, <1>2, <1>3, <1>4, <1>5, <1>6, <1>7

LEMMA ProofFailsKeeps == ASSUME IInv, NEW p \in Proofs, ProofFails(p) PROVE IInv'
<1> USE AddressProofAssumption DEF IInv, ProofFails, Goto, account, attaching, signing, ghosts
<1>1. TypeOK'
  BY DEF TypeOK
<1>2. WroteInv'
  BY DEF TypeOK, WroteInv
<1>3. SweptInv'
  BY DEF TypeOK, WroteInv, SweptInv, voids, voidedAmong, ProofCarriesTo
<1>4. GoneInv'
  BY DEF TypeOK, GoneInv
<1>5. CountedInv'
  BY DEF TypeOK, CountedInv, GoneInv
<1>6. VoidedSessionEnded'
  BY DEF TypeOK, VoidedSessionEnded, WroteInv, GoneInv, CountedInv
<1>7. JoinInv'
  BY DEF TypeOK, JoinInv
<1> QED
  BY <1>1, <1>2, <1>3, <1>4, <1>5, <1>6, <1>7

LEMMA ConfirmEmailChangeKeeps == ASSUME IInv, NEW a \in Addrs, ConfirmEmailChange(a) PROVE IInv'
<1> USE AddressProofAssumption DEF IInv, ConfirmEmailChange, Ended, attaching, locals, ghosts
<1>1. TypeOK'
  BY DEF TypeOK
<1>2. WroteInv'
  BY DEF TypeOK, WroteInv
<1>3. SweptInv'
  BY DEF TypeOK, WroteInv, SweptInv, voids, voidedAmong, ProofCarriesTo
<1>4. GoneInv'
  BY DEF TypeOK, GoneInv
<1>5. CountedInv'
  BY DEF TypeOK, CountedInv, GoneInv
<1>6. VoidedSessionEnded'
  BY DEF TypeOK, VoidedSessionEnded, WroteInv, GoneInv, CountedInv
<1>7. JoinInv'
  BY DEF TypeOK, JoinInv
<1> QED
  BY <1>1, <1>2, <1>3, <1>4, <1>5, <1>6, <1>7

LEMMA ArriveKeeps == ASSUME IInv, NEW p \in Proofs, Arrive(p) PROVE IInv'
<1>1. CASE PasswordlessLogin(p) \/ VerifyEmail(p)
  BY <1>1, StartKeeps DEF PasswordlessLogin, VerifyEmail
<1>2. ASSUME NEW l \in Links, OAuthLinked(p, l) PROVE IInv'
  BY <1>2, StartKeeps DEF OAuthLinked
<1>3. ASSUME NEW l \in Links, OAuthByAddress(p, l) PROVE IInv'
  BY <1>3, StartKeeps DEF OAuthByAddress
<1> QED
  BY <1>1, <1>2, <1>3 DEF Arrive

LEMMA NextIInv == IInv /\ [Next]_vars => IInv'
<1> SUFFICES ASSUME IInv, [Next]_vars PROVE IInv'
  OBVIOUS
<1>1. ASSUME NEW c \in Attachable, Attach(c) PROVE IInv'
  BY <1>1, ReadHolderKeeps, CreateCredentialKeeps, RecheckKeeps, WithdrawKeeps, RecheckFailsKeeps,
     AttachFailsKeeps DEF Attach
<1>2. ASSUME NEW c \in SignIns, LoginRead(c) \/ issueTokens(c) PROVE IInv'
  BY <1>2, LoginReadKeeps, issueTokensKeeps
<1>3. ASSUME NEW p \in Proofs, Prove(p) PROVE IInv'
  BY <1>3, ClaimReadKeeps, CompleteSignUpKeeps, ListPasskeysKeeps, ListLinksKeeps, RevokeSessionsKeeps,
     DeletePasskeysKeeps, VoidListedKeeps, SetUserEmailVerifiedKeeps, RelistPasskeysKeeps,
     DeleteLatePasskeysKeeps, RelistLinksKeeps, VoidLateKeeps, RevokeAgainKeeps, linkOAuthIdentityKeeps,
     ProofFailsKeeps DEF Prove
<1>4. ASSUME NEW a \in Addrs, ConfirmEmailChange(a) PROVE IInv'
  BY <1>4, ConfirmEmailChangeKeeps
<1>5. CASE UNCHANGED vars
  BY <1>5 DEF IInv, TypeOK, JoinInv, WroteInv, SweptInv, GoneInv, CountedInv, VoidedSessionEnded, voids,
     ProofCarriesTo, vars, account, attaching, signing, locals, ghosts
<1> QED
  BY <1>1, <1>2, <1>3, <1>4, <1>5, ArriveKeeps DEF Next

LEMMA IInvHolds == Spec => []IInv
<1> QED
  BY InitIInv, NextIInv, PTL DEF Spec

-----------------------------------------------------------------------------
(* Theorems.                                                               *)

\* The account's row, its credentials and the requests keep their types.
THEOREM TypeCorrect == Spec => []TypeOK
<1>1. IInv => TypeOK
  BY DEF IInv
<1> QED
  BY <1>1, IInvHolds, PTL

\* A credential attached while the address was unproven does not outlive the
\* proof, however the attach and any number of proofs interleave: the second
\* listing of markEmailVerifiedViaExternalProof sees it, or
\* withdrawIfAddressProven sees the proof.
THEOREM PlantedCredentialsAreVoided == Spec => []PlantedCredentialVoided
<1>1. IInv => PlantedCredentialVoided
  <2> SUFFICES ASSUME IInv, NEW p \in Proofs, NEW c \in creds \cap planted \cap Attachable,
                      pc[p] = "done", wrote[p], c \in Links => voids(p, c)
               PROVE  attach[c] \in Open
    BY DEF PlantedCredentialVoided
  <2> QED
    BY DEF IInv, SweptInv
<1> QED
  BY <1>1, IInvHolds, PTL

\* No session opened with a credential while it existed survives the proof
\* that voided the credential: revokeSessionsForProof runs once more after
\* the last deletion.  A session issued after the deletion, from a lookup made
\* before it ("late"), is not covered.
THEOREM VoidedSessionsAreEnded == Spec => []VoidedSessionEnded
<1>1. IInv => VoidedSessionEnded
  BY DEF IInv
<1> QED
  BY <1>1, IInvHolds, PTL
=============================================================================
