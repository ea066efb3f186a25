-------------------------- MODULE MCPasswordLogin --------------------------
(* PasswordLogin with a handful of requests of one account.                *)
EXTENDS PasswordLogin, TLC

CONSTANT MaxInFlight \* bound: requests open at once

Symmetry == Permutations(Requests) \cup Permutations(Codes)

InFlight == Cardinality({r \in Requests : pc[r] \notin {"new", "done"}}) <= MaxInFlight

\* What a request remembers is seen only where a later step or a property
\* reads it.
SignIn == {"user", "clear", "reset", "ensureSign", "sign", "ensureChallenge", "challenge", "mint"}
SecondStep == {"chal", "spend", "owner", "cred", "find", "use", "mint2"}
Completion == {"ticket", "ensureCode", "cred", "find", "use", "setpw"}

Memory(r) ==
    <<IF pc[r] \in {"clear", "reset"} THEN plan[r] ELSE "done",
      IF pc[r] \in SignIn \cup {"ticket", "regen", "current"} THEN guess[r] ELSE 0,
      IF pc[r] \in SecondStep \cup {"expire", "dropCred", "markCred"} THEN arg[r] ELSE None,
      IF pc[r] \in SecondStep \cup Completion THEN proof[r] ELSE "wrong",
      IF pc[r] = "lock" THEN at[r] ELSE 0,
      pc[r] \in SecondStep /\ fit[r],
      pc[r] \in SignIn \cup Completion /\ asked[r],
      pc[r] \in SignIn \cup Completion \cup {"current", "change"} /\ guess[r] < base[r]>>

\* The starts keep apart what is orthogonal: a failure already counted, and
\* what the account, its administrator and its tenant ask of a sign-in.
MCInit ==
    /\ Init
    /\ count > 0 => ~forced /\ ~temp /\ ~flag
    /\ ~(forced /\ temp /\ flag)

MCSpec == MCInit /\ [][Next]_vars

View ==
    <<account, tables, forced, now, pc, secured, issued, lost,
      [r \in Requests |-> Memory(r)]>>
=============================================================================
