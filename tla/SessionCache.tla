---------------------------- MODULE SessionCache ----------------------------
(***************************************************************************)
(* The session check of mode=session (internal/middleware/session.go): the *)
(* TTL cache each replica keeps in front of the sessions table, and the    *)
(* repository wrapper that invalidates it when a session is revoked.       *)
(*                                                                         *)
(* One sid is modelled: entries of different sids share nothing.  An entry *)
(* is a heap object with its own mutex that stays alive in the hands of    *)
(* the lookups that loaded it after the map has dropped it; the object is  *)
(* named after the lookup whose LoadOrStore made it.                       *)
(***************************************************************************)
EXTENDS Naturals

CONSTANTS
    Replicas,   \* processes, each with its own cache
    Lookups,    \* SessionCache.Lookup calls, over all replicas
    Projects,   \* projects a request can resolve to
    Home,       \* the project the session row lives in
    None,       \* "no entry", "no holder", "no project"
    TTL,        \* SessionCacheTTLSeconds in ticks, 0 is strict mode
    ReadTime,   \* most ticks between the row being read and the entry filled
    MaxTime     \* bound on the clock

ASSUME SessionCacheAssumption ==
    /\ None \notin Lookups
    /\ None \notin Projects
    /\ Home \in Projects
    /\ Replicas # {}
    /\ TTL \in Nat
    /\ ReadTime \in Nat
    /\ MaxTime \in Nat

VARIABLES
    revoked,   \* the row's revoked_at_ms is set
    revokedAt, \* and when
    entries,   \* per replica, the map's entry for the sid
    project,   \* entry.project
    state,     \* entry.rec and entry.missing
    deadline,  \* entry.deadline
    holder,    \* entry.mu: which lookup holds it
    revoking,  \* per replica, how far its RevokeSession call is
    now,       \* the clock
    pc,        \* where each lookup is
    at,        \* the replica serving it
    for,       \* the project its request resolved to
    ref,       \* the entry it has loaded
    start,     \* c.now() on entry
    got,       \* what it read
    readAt     \* history: when it read it

row == <<revoked, revokedAt>>
heap == <<project, state, deadline, holder>>
request == <<at, for, start>>
vars == <<row, entries, heap, revoking, now, pc, request, ref, got, readAt>>

States == {"active", "revoked", "missing"}
Answers == {"active", "refused", "failed"}

TypeOK ==
    /\ revoked \in BOOLEAN
    /\ revokedAt \in Nat
    /\ entries \in [Replicas -> Lookups \cup {None}]
    /\ project \in [Lookups -> Projects \cup {None}]
    /\ state \in [Lookups -> States]
    /\ deadline \in [Lookups -> Nat]
    /\ holder \in [Lookups -> Lookups \cup {None}]
    /\ revoking \in [Replicas -> {"no", "invalidated", "done"}]
    /\ now \in Nat
    /\ pc \in [Lookups -> {"new", "load", "fast", "make", "lock", "read", "fill"} \cup Answers]
    /\ at \in [Lookups -> Replicas]
    /\ for \in [Lookups -> Projects]
    /\ ref \in [Lookups -> Lookups \cup {None}]
    /\ start \in [Lookups -> Nat]
    /\ got \in [Lookups -> States]
    /\ readAt \in [Lookups -> Nat]

-----------------------------------------------------------------------------
Goto(l, label) == pc' = [pc EXCEPT ![l] = label]

\* Mutant: the state is passed on as it is.
VerdictIsState(s) == s

\* The middleware admits an active session and nothing else.
Verdict(s) == IF s = "active" THEN "active" ELSE "refused"

\* Mutant: an entry answers for every project.
FreshInAnyProject(e, p, time) == project[e] # None /\ deadline[e] > time

fresh(e, p, time) == project[e] = p /\ deadline[e] > time

stateFromEntry(e) == state[e]

\* GetSessionBySid in the project the request resolved to.
RowState(p) == IF p # Home THEN "missing" ELSE IF revoked THEN "revoked" ELSE "active"

\* A request with a sid-bearing token reaches the session check.
Arrive(l) ==
    /\ pc[l] = "new"
    /\ \E r \in Replicas, p \in Projects :
         /\ at' = [at EXCEPT ![l] = r]
         /\ for' = [for EXCEPT ![l] = p]
    /\ start' = [start EXCEPT ![l] = now]
    /\ Goto(l, IF TTL = 0 THEN "read" ELSE "load")
    /\ UNCHANGED <<row, entries, heap, revoking, now, ref, got, readAt>>

\* Fast path: entries.Load.
Load(l) ==
    /\ pc[l] = "load"
    /\ ref' = [ref EXCEPT ![l] = entries[at[l]]]
    /\ Goto(l, IF entries[at[l]] = None THEN "make" ELSE "fast")
    /\ UNCHANGED <<row, entries, heap, revoking, now, request, got, readAt>>

\* Fast path: look at the entry under its mutex, against the time of entry.
CheckFresh(l) ==
    /\ pc[l] = "fast"
    /\ holder[ref[l]] = None
    /\ Goto(l, IF fresh(ref[l], for[l], start[l]) THEN Verdict(stateFromEntry(ref[l])) ELSE "make")
    /\ UNCHANGED <<row, entries, heap, revoking, now, request, ref, got, readAt>>

\* Slow path: entries.LoadOrStore, with a zero entry of the lookup's own.
LoadOrStore(l) ==
    /\ pc[l] = "make"
    /\ IF entries[at[l]] = None
         THEN entries' = [entries EXCEPT ![at[l]] = l]
         ELSE UNCHANGED entries
    /\ ref' = [ref EXCEPT ![l] = entries'[at[l]]]
    /\ Goto(l, "lock")
    /\ UNCHANGED <<row, heap, revoking, now, request, got, readAt>>

\* Slow path: take the mutex and look again, against the clock.
Lock(l) ==
    /\ pc[l] = "lock"
    /\ holder[ref[l]] = None
    /\ IF fresh(ref[l], for[l], now)
         THEN /\ Goto(l, Verdict(stateFromEntry(ref[l])))
              /\ UNCHANGED holder
         ELSE /\ Goto(l, "read")
              /\ holder' = [holder EXCEPT ![ref[l]] = l]
    /\ UNCHANGED <<row, entries, project, state, deadline, revoking, now, request, ref, got, readAt>>

\* The repository read; in strict mode it is the answer.
Read(l) ==
    /\ pc[l] = "read"
    /\ got' = [got EXCEPT ![l] = RowState(for[l])]
    /\ readAt' = [readAt EXCEPT ![l] = now]
    /\ Goto(l, IF TTL = 0 THEN Verdict(RowState(for[l])) ELSE "fill")
    /\ UNCHANGED <<row, entries, heap, revoking, now, request, ref>>

\* Mutant: the error path returns with the mutex held.
ReadFailsLocked(l) ==
    /\ pc[l] = "read"
    /\ Goto(l, "failed")
    /\ UNCHANGED <<row, entries, heap, revoking, now, request, ref, got, readAt>>

\* The read failed: nothing is cached and the request is answered unavailable.
ReadFails(l) ==
    /\ pc[l] = "read"
    /\ IF TTL = 0 THEN UNCHANGED holder
                  ELSE holder' = [holder EXCEPT ![ref[l]] = None]
    /\ Goto(l, "failed")
    /\ UNCHANGED <<row, entries, project, state, deadline, revoking, now, request, ref, got, readAt>>

\* Mutant: the entry's lifetime is added to what was left of the last one.
FillExtended(l) ==
    /\ pc[l] = "fill"
    /\ project' = [project EXCEPT ![ref[l]] = for[l]]
    /\ state' = [state EXCEPT ![ref[l]] = got[l]]
    /\ deadline' = [deadline EXCEPT ![ref[l]] = now + TTL + TTL]
    /\ holder' = [holder EXCEPT ![ref[l]] = None]
    /\ Goto(l, Verdict(got[l]))
    /\ UNCHANGED <<row, entries, revoking, now, request, ref, got, readAt>>

\* Fill the entry, from the clock as it is after the read, and unlock it.
Fill(l) ==
    /\ pc[l] = "fill"
    /\ project' = [project EXCEPT ![ref[l]] = for[l]]
    /\ state' = [state EXCEPT ![ref[l]] = got[l]]
    /\ deadline' = [deadline EXCEPT ![ref[l]] = now + TTL]
    /\ holder' = [holder EXCEPT ![ref[l]] = None]
    /\ Goto(l, Verdict(got[l]))
    /\ UNCHANGED <<row, entries, revoking, now, request, ref, got, readAt>>

\* RevokingSessionRepository.RevokeSession and RevokeSessionsForUser drop
\* the replica's entry first...
Invalidate(r) ==
    /\ revoking[r] = "no"
    /\ entries' = [entries EXCEPT ![r] = None]
    /\ revoking' = [revoking EXCEPT ![r] = "invalidated"]
    /\ UNCHANGED <<row, heap, now, pc, request, ref, got, readAt>>

\* ...and write the row second. An already revoked row keeps its time.
WriteRevoked(r) ==
    /\ revoking[r] = "invalidated"
    /\ revoked' = TRUE
    /\ revokedAt' = IF revoked THEN revokedAt ELSE now
    /\ revoking' = [revoking EXCEPT ![r] = "done"]
    /\ UNCHANGED <<entries, heap, now, pc, request, ref, got, readAt>>

\* Time passes, but not so that a read takes longer than ReadTime.
Tick ==
    /\ now < MaxTime
    /\ \A l \in Lookups : pc[l] = "fill" => now < readAt[l] + ReadTime
    /\ now' = now + 1
    /\ UNCHANGED <<row, entries, heap, revoking, pc, request, ref, got, readAt>>

-----------------------------------------------------------------------------
Init ==
    /\ revoked = FALSE
    /\ revokedAt = 0
    /\ entries = [r \in Replicas |-> None]
    /\ project = [l \in Lookups |-> None]
    /\ state = [l \in Lookups |-> "active"]
    /\ deadline = [l \in Lookups |-> 0]
    /\ holder = [l \in Lookups |-> None]
    /\ revoking = [r \in Replicas |-> "no"]
    /\ now = 0
    /\ pc = [l \in Lookups |-> "new"]
    /\ at = [l \in Lookups |-> CHOOSE r \in Replicas : TRUE]
    /\ for = [l \in Lookups |-> Home]
    /\ ref = [l \in Lookups |-> None]
    /\ start = [l \in Lookups |-> 0]
    /\ got = [l \in Lookups |-> "missing"]
    /\ readAt = [l \in Lookups |-> 0]

Step(l) ==
    Load(l) \/ CheckFresh(l) \/ LoadOrStore(l) \/ Lock(l) \/ Read(l) \/ ReadFails(l) \/ Fill(l)

Next ==
    \/ \E l \in Lookups : Arrive(l) \/ Step(l)
    \/ \E r \in Replicas : Invalidate(r) \/ WriteRevoked(r)
    \/ Tick

Spec == Init /\ [][Next]_vars

\* A handler that can run does: goroutines are scheduled and the mutex wakes
\* its waiters. Arrivals, revocations and the clock need no fairness.
Liveness == \A l \in Lookups : WF_vars(Step(l))
FairSpec == Spec /\ Liveness

-----------------------------------------------------------------------------
(* Properties.                                                             *)

\* A replica goes on admitting a revoked session for less than the TTL plus
\* the time one repository read may take, whatever refills race the
\* revocation: a lookup that starts later is refused. In strict mode every
\* lookup that starts after the revocation is.
StalenessBounded ==
    \A l \in Lookups : pc[l] = "active" /\ revoked =>
        \/ start[l] <= revokedAt
        \/ TTL > 0 /\ start[l] < revokedAt + TTL + ReadTime

\* A session is never admitted into a project its row does not live in, even
\* while the entry for its sid is cached by requests of the home project.
AdmittedAtHomeOnly == \A l \in Lookups : pc[l] = "active" => for[l] = Home

\* Whatever is admitted, cached or not, is a session of the request's own project
\* whose revocation, if any, is less than a TTL and a read ago (Lookup).
AdmissionsJustified == StalenessBounded /\ AdmittedAtHomeOnly

\* Every session check is answered: no path leaves an entry's mutex held.
EveryLookupAnswers ==
    \A l \in Lookups : pc[l] # "new" ~> pc[l] \in Answers

\* A session whose revocation has returned is refused by the next request to
\* the same process ("a same-process revoke is visible on the very next
\* request"). A refill between the invalidation and the write breaks it.
SameProcessRevokeIsVisible ==
    [][\A l \in Lookups :
         pc[l] \in {"fast", "lock"} /\ pc'[l] = "active" /\ revoking[at[l]] = "done"
             => start[l] <= revokedAt]_vars
=============================================================================
