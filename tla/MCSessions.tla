----------------------------- MODULE MCSessions -----------------------------
(* Sessions on a small instance: a few requests of one account.            *)
EXTENDS Sessions, TLC

Symmetry == Permutations(Tokens) \cup Permutations(Requests)

\* A request's variables matter only while some later step, or a property,
\* still reads them.
Local(r) ==
    [arg |-> IF pc[r] \in {"new", "done", "gate", "swept"} THEN NoToken ELSE arg[r],
     minting |-> IF pc[r] = "token" THEN <<new[r], at[r]>> ELSE <<>>,
     doomed |-> IF pc[r] = "each" THEN doomed[r] ELSE {},
     seen |-> IF pc[r] \in {"read", "status", "password", "deleteAll", "revokeAll",
                            "cutTokens", "cutSessions", "swept"} /\ ~faulty[r]
                THEN seen[r] ELSE {},
     good |-> pc[r] \in {"read", "user", "gate", "consume", "access", "session", "token"}
                /\ good[r],
     faulty |-> pc[r] \in {"revokeAll", "swept"} /\ faulty[r]]

View == <<tables, standing, now, pc, [r \in Requests |-> Local(r)]>>

\* At most this many requests are in flight at once, and nothing but a
\* sign-in's request runs before there is a token.
MaxInFlight == 2
InFlight ==
    /\ Cardinality({r \in Requests : pc[r] \notin {"new", "done"}}) <= MaxInFlight
    /\ (\A t \in Tokens : row[t] = "none") => Cardinality({r \in Requests : pc[r] # "new"}) <= 1
=============================================================================
