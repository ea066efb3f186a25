----------------------------- MODULE MCQrLogin -----------------------------
(* QrLogin with two accounts and a few racing requests.                    *)
EXTENDS QrLogin, TLC

CONSTANT MaxInFlight \* bound: requests open at once

Symmetry == Permutations(Users) \cup Permutations(Requests)

Open == {r \in Requests : pc[r] \notin {"new", "done"}}
InFlight == Cardinality(Open) <= MaxInFlight

\* What a request that has not begun or has ended still remembers is dead.
View ==
    <<rowvars, standing, now, pc, approvals, approvers, consumed, minted,
      [r \in Requests |->
         IF r \in Open THEN <<who[r], verdict[r], began[r], vouched[r]>> ELSE <<>>]>>
=============================================================================
