---------------------------- MODULE OneTimeGrant ----------------------------
(***************************************************************************)
(* What a single-use credential promises, whatever stores it: a slot       *)
(* holds at most one live credential; issuing puts one there, a grant      *)
(* (a sign-in, a verified number) uses it up, and it can be voided (burnt   *)
(* by wrong guesses, expired) without a grant.  OneTimeCodes implements it  *)
(* with the rows of email_login_codes, phone_verification_codes and        *)
(* magic_link_tokens, QrLogin with the approvals of a hand-off.            *)
(***************************************************************************)
EXTENDS Naturals

CONSTANT Slots

VARIABLES
    live,   \* whether a slot holds a credential that can still be used
    issued, \* how many credentials were issued into it
    granted \* how many grants were made from it

vars == <<live, issued, granted>>

Init ==
    /\ live = [s \in Slots |-> FALSE]
    /\ issued = [s \in Slots |-> 0]
    /\ granted = [s \in Slots |-> 0]

Issue(s) ==
    /\ live' = [live EXCEPT ![s] = TRUE]
    /\ issued' = [issued EXCEPT ![s] = @ + 1]
    /\ UNCHANGED granted

Grant(s) ==
    /\ live[s]
    /\ live' = [live EXCEPT ![s] = FALSE]
    /\ granted' = [granted EXCEPT ![s] = @ + 1]
    /\ UNCHANGED issued

Void(s) ==
    /\ live[s]
    /\ live' = [live EXCEPT ![s] = FALSE]
    /\ UNCHANGED <<issued, granted>>

Next == \E s \in Slots : Issue(s) \/ Grant(s) \/ Void(s)

Spec == Init /\ [][Next]_vars

-----------------------------------------------------------------------------
\* A slot never grants more often than credentials were issued into it.
NoMoreGrantsThanIssues == \A s \in Slots : granted[s] <= issued[s]
=============================================================================
