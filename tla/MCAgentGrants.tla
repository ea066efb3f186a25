---------------------------- MODULE MCAgentGrants ----------------------------
(* AgentGrants with two requests at a time.                                *)
EXTENDS AgentGrants, TLC

Symmetry == Permutations(Requests) \cup Permutations(Delegated) \cup Permutations(Slots)

\* A decision on a request that was decided, swept or revoked, and anything asked
\* of a consent that was revoked or swept, can only be refused.
Doomed(q) ==
    \/ q.op \in {"approve", "deny"} /\ (grant[q.g].st # "pending" \/ grant[q.g].revoked)
    \/ /\ q.op \in {"redeem", "rotate", "introspect"}
       /\ grant[q.g].by = "consent"
       /\ grant[q.g].revoked \/ grant[q.g].st = "gone"

\* Versions are only ever compared with the present one, and the time of arrival,
\* of a request with a replaced scope, with the end of that scope's last copies.
Current(v, n) == IF v = n THEN 1 ELSE 0

Copy(e) == [ver |-> Current(e.ver, project.ver), admits |-> e.admits]

Due(q) == IF q.scope.ver # project.ver /\ q.from < project.since + ScopeTTL THEN 1 ELSE 0

\* A revocation only needs to know of what; a decision, a registration or an
\* enrolment no more of the scope than whether it admits, and nothing once it did.
Remembers(q) ==
    IF q.ph \in {"invalidate", "invalidate machine"} THEN <<q.ph, q.g>>
    ELSE IF q.op \in {"approve", "deny", "register", "enrol"}
    THEN [q EXCEPT !.ver = Current(@, policy.ver), !.from = 0,
                   !.scope = [ver |-> 0, admits |-> q.ph = "admit" /\ @.admits]]
    ELSE [q EXCEPT !.ver = Current(@, policy.ver), !.from = Due(q), !.scope = Copy(@)]

\* Of a consent that was revoked only its end matters, for the sweep.
Row(g) ==
    LET x == grant[g]
    IN  IF g \notin Authorizations THEN x.st
        ELSE IF x.revoked /\ x.by = "consent" THEN <<"revoked", Max({x.due, x.exp})>>
        ELSE <<[x EXCEPT !.era = IF x.revoked THEN 0 ELSE Current(@, project.ver)], tokens[g]>>

\* A request that was answered is a free slot whatever the answer was, of one that
\* can only be refused the rest is dead, and so is an entry that expired.
View ==
    <<owner, guardian, active, live, client, machine, now, changes,
      policy.cap, project.admits, Max({project.since + ScopeTTL, now}) - now,
      [k \in Slots |-> IF cache[k].end > now THEN <<Copy(cache[k]), cache[k].end>> ELSE <<>>],
      [g \in Grants |-> Row(g)],
      [r \in Requests |-> IF Free(r) THEN "free" ELSE IF Doomed(req[r]) THEN "doomed"
                          ELSE Remembers(req[r])]>>

MCRegs == {{"code", "refresh"}, {"machine"}, {}}
==============================================================================
