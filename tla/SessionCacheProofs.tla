------------------------- MODULE SessionCacheProofs -------------------------
(***************************************************************************)
(* Proofs about SessionCache, for any number of replicas and lookups and   *)
(* every TTL, strict mode (0) included.                                    *)
(***************************************************************************)
EXTENDS SessionCache, TLAPS

\* A lookup that works on an entry has one, and strict mode uses none.
EntryLoaded ==
    \A l \in Lookups :
        /\ pc[l] \in {"fast", "lock", "fill"} \/ (pc[l] = "read" /\ TTL > 0) => ref[l] # None
        /\ pc[l] \in {"load", "fast", "make", "lock", "fill"} => TTL > 0

\* Every step keeps the state well typed.
LEMMA TypeStep ==
    ASSUME TypeOK, EntryLoaded, [Next]_vars
    PROVE  TypeOK'
<1> USE SessionCacheAssumption DEF TypeOK, States, Answers, EntryLoaded
<1>1. ASSUME NEW l \in Lookups, Arrive(l)
      PROVE  TypeOK'
  BY <1>1 DEF Arrive, Goto, heap, request, row
<1>2. ASSUME NEW l \in Lookups, Load(l)
      PROVE  TypeOK'
  BY <1>2 DEF Load, Goto, heap, request, row
<1>3. ASSUME NEW l \in Lookups, CheckFresh(l)
      PROVE  TypeOK'
  BY <1>3 DEF CheckFresh, Goto, heap, request, row, Verdict, fresh, stateFromEntry
<1>4. ASSUME NEW l \in Lookups, LoadOrStore(l)
      PROVE  TypeOK'
  BY <1>4 DEF LoadOrStore, Goto, heap, request, row
<1>5. ASSUME NEW l \in Lookups, Lock(l)
      PROVE  TypeOK'
  BY <1>5 DEF Lock, Goto, heap, request, row, Verdict, fresh, stateFromEntry
<1>6. ASSUME NEW l \in Lookups, Read(l)
      PROVE  TypeOK'
  BY <1>6 DEF Read, Goto, heap, request, row, Verdict, RowState
<1>7. ASSUME NEW l \in Lookups, ReadFails(l)
      PROVE  TypeOK'
  BY <1>7 DEF ReadFails, Goto, heap, request, row
<1>8. ASSUME NEW l \in Lookups, Fill(l)
      PROVE  TypeOK'
  BY <1>8 DEF Fill, Goto, heap, request, row, Verdict
<1>9. ASSUME NEW r \in Replicas, Invalidate(r)
      PROVE  TypeOK'
  BY <1>9 DEF Invalidate, heap, request, row
<1>10. ASSUME NEW r \in Replicas, WriteRevoked(r)
      PROVE  TypeOK'
  BY <1>10 DEF WriteRevoked, heap, request, row
<1>11. CASE Tick
  BY <1>11 DEF Tick, heap, request, row
<1>12. CASE UNCHANGED vars
  BY <1>12 DEF vars, heap, request, row
<1>13. QED
  BY <1>1, <1>2, <1>3, <1>4, <1>5, <1>6, <1>7, <1>8, <1>9, <1>10, <1>11, <1>12 DEF Next, Step

\* LoadOrStore always leaves an entry behind, and strict mode uses none.
LEMMA EntryStep ==
    ASSUME TypeOK, EntryLoaded, [Next]_vars
    PROVE  EntryLoaded'
<1> USE SessionCacheAssumption DEF TypeOK, States, Answers, EntryLoaded
<1>1. ASSUME NEW l \in Lookups, Arrive(l)
      PROVE  EntryLoaded'
  BY <1>1 DEF Arrive, Goto, heap, request, row
<1>2. ASSUME NEW l \in Lookups, Load(l)
      PROVE  EntryLoaded'
  BY <1>2 DEF Load, Goto, heap, request, row
<1>3. ASSUME NEW l \in Lookups, CheckFresh(l)
      PROVE  EntryLoaded'
  BY <1>3 DEF CheckFresh, Goto, heap, request, row, Verdict, fresh, stateFromEntry
<1>4. ASSUME NEW l \in Lookups, LoadOrStore(l)
      PROVE  EntryLoaded'
  BY <1>4 DEF LoadOrStore, Goto, heap, request, row
<1>5. ASSUME NEW l \in Lookups, Lock(l)
      PROVE  EntryLoaded'
  BY <1>5 DEF Lock, Goto, heap, request, row, Verdict, fresh, stateFromEntry
<1>6. ASSUME NEW l \in Lookups, Read(l)
      PROVE  EntryLoaded'
  BY <1>6 DEF Read, Goto, heap, request, row, Verdict, RowState
<1>7. ASSUME NEW l \in Lookups, ReadFails(l)
      PROVE  EntryLoaded'
  BY <1>7 DEF ReadFails, Goto, heap, request, row
<1>8. ASSUME NEW l \in Lookups, Fill(l)
      PROVE  EntryLoaded'
  BY <1>8 DEF Fill, Goto, heap, request, row, Verdict
<1>9. ASSUME NEW r \in Replicas, Invalidate(r)
      PROVE  EntryLoaded'
  BY <1>9 DEF Invalidate, heap, request, row
<1>10. ASSUME NEW r \in Replicas, WriteRevoked(r)
      PROVE  EntryLoaded'
  BY <1>10 DEF WriteRevoked, heap, request, row
<1>11. CASE Tick
  BY <1>11 DEF Tick, heap, request, row
<1>12. CASE UNCHANGED vars
  BY <1>12 DEF vars, heap, request, row
<1>13. QED
  BY <1>1, <1>2, <1>3, <1>4, <1>5, <1>6, <1>7, <1>8, <1>9, <1>10, <1>11, <1>12 DEF Next, Step

\* Where the time of a stale answer comes from: an entry was filled no later
\* than ReadTime after its row was read, and the row was read before it was
\* revoked.
Dated ==
    /\ revoked => revokedAt <= now
    /\ \A e \in Lookups : ~revoked => deadline[e] <= now + TTL
    /\ \A e \in Lookups : revoked /\ state[e] = "active" =>
          deadline[e] <= revokedAt + TTL + ReadTime
    /\ \A l \in Lookups : start[l] <= now
    /\ \A l \in Lookups : pc[l] = "fill" =>
          /\ start[l] <= readAt[l]
          /\ readAt[l] <= now
          /\ now <= readAt[l] + ReadTime
          /\ revoked /\ got[l] = "active" => readAt[l] <= revokedAt

\* Reads, fills, revocations and the clock keep the dates in order.
LEMMA DatedStep ==
    ASSUME TypeOK, EntryLoaded, Dated, [Next]_vars
    PROVE  Dated'
<1> USE SessionCacheAssumption DEF TypeOK, States, Answers, EntryLoaded, Dated
<1>1. ASSUME NEW l \in Lookups, Arrive(l)
      PROVE  Dated'
  BY <1>1 DEF Arrive, Goto, heap, request, row
<1>2. ASSUME NEW l \in Lookups, Load(l)
      PROVE  Dated'
  BY <1>2 DEF Load, Goto, heap, request, row
<1>3. ASSUME NEW l \in Lookups, CheckFresh(l)
      PROVE  Dated'
  BY <1>3 DEF CheckFresh, Goto, heap, request, row, Verdict, fresh, stateFromEntry
<1>4. ASSUME NEW l \in Lookups, LoadOrStore(l)
      PROVE  Dated'
  BY <1>4 DEF LoadOrStore, Goto, heap, request, row
<1>5. ASSUME NEW l \in Lookups, Lock(l)
      PROVE  Dated'
  BY <1>5 DEF Lock, Goto, heap, request, row, Verdict, fresh, stateFromEntry
<1>6. ASSUME NEW l \in Lookups, Read(l)
      PROVE  Dated'
  BY <1>6 DEF Read, Goto, heap, request, row, Verdict, RowState
<1>7. ASSUME NEW l \in Lookups, ReadFails(l)
      PROVE  Dated'
  BY <1>7 DEF ReadFails, Goto, heap, request, row
<1>8. ASSUME NEW l \in Lookups, Fill(l)
      PROVE  Dated'
  BY <1>8 DEF Fill, Goto, heap, request, row, Verdict
<1>9. ASSUME NEW r \in Replicas, Invalidate(r)
      PROVE  Dated'
  BY <1>9 DEF Invalidate, heap, request, row
<1>10. ASSUME NEW r \in Replicas, WriteRevoked(r)
      PROVE  Dated'
  BY <1>10 DEF WriteRevoked, heap, request, row
<1>11. CASE Tick
  BY <1>11 DEF Tick, heap, request, row
<1>12. CASE UNCHANGED vars
  BY <1>12 DEF vars, heap, request, row
<1>13. QED
  BY <1>1, <1>2, <1>3, <1>4, <1>5, <1>6, <1>7, <1>8, <1>9, <1>10, <1>11, <1>12 DEF Next, Step

\* An answer from an entry is as old as the entry, one from the row is not.
LEMMA StalenessStep ==
    ASSUME TypeOK, EntryLoaded, Dated, StalenessBounded, [Next]_vars
    PROVE  StalenessBounded'
<1> USE SessionCacheAssumption DEF TypeOK, States, Answers, EntryLoaded, Dated, StalenessBounded
<1>1. ASSUME NEW l \in Lookups, Arrive(l)
      PROVE  StalenessBounded'
  BY <1>1 DEF Arrive, Goto, heap, request, row
<1>2. ASSUME NEW l \in Lookups, Load(l)
      PROVE  StalenessBounded'
  BY <1>2 DEF Load, Goto, heap, request, row
<1>3. ASSUME NEW l \in Lookups, CheckFresh(l)
      PROVE  StalenessBounded'
  BY <1>3 DEF CheckFresh, Goto, heap, request, row, Verdict, fresh, stateFromEntry
<1>4. ASSUME NEW l \in Lookups, LoadOrStore(l)
      PROVE  StalenessBounded'
  BY <1>4 DEF LoadOrStore, Goto, heap, request, row
<1>5. ASSUME NEW l \in Lookups, Lock(l)
      PROVE  StalenessBounded'
  BY <1>5 DEF Lock, Goto, heap, request, row, Verdict, fresh, stateFromEntry
<1>6. ASSUME NEW l \in Lookups, Read(l)
      PROVE  StalenessBounded'
  BY <1>6 DEF Read, Goto, heap, request, row, Verdict, RowState
<1>7. ASSUME NEW l \in Lookups, ReadFails(l)
      PROVE  StalenessBounded'
  BY <1>7 DEF ReadFails, Goto, heap, request, row
<1>8. ASSUME NEW l \in Lookups, Fill(l)
      PROVE  StalenessBounded'
  BY <1>8 DEF Fill, Goto, heap, request, row, Verdict
<1>9. ASSUME NEW r \in Replicas, Invalidate(r)
      PROVE  StalenessBounded'
  BY <1>9 DEF Invalidate, heap, request, row
<1>10. ASSUME NEW r \in Replicas, WriteRevoked(r)
      PROVE  StalenessBounded'
  BY <1>10 DEF WriteRevoked, heap, request, row
<1>11. CASE Tick
  BY <1>11 DEF Tick, heap, request, row
<1>12. CASE UNCHANGED vars
  BY <1>12 DEF vars, heap, request, row
<1>13. QED
  BY <1>1, <1>2, <1>3, <1>4, <1>5, <1>6, <1>7, <1>8, <1>9, <1>10, <1>11, <1>12 DEF Next, Step

\* Only the home project's requests ever read, or cache, an active row.
HomeOnly ==
    /\ AdmittedAtHomeOnly
    /\ \A e \in Lookups : project[e] # None /\ state[e] = "active" => project[e] = Home
    /\ \A l \in Lookups : pc[l] = "fill" /\ got[l] = "active" => for[l] = Home

\* An entry answers the project it was read in and no other.
LEMMA HomeStep ==
    ASSUME TypeOK, EntryLoaded, HomeOnly, [Next]_vars
    PROVE  HomeOnly'
<1> USE SessionCacheAssumption DEF TypeOK, States, Answers, EntryLoaded, HomeOnly, AdmittedAtHomeOnly
<1>1. ASSUME NEW l \in Lookups, Arrive(l)
      PROVE  HomeOnly'
  BY <1>1 DEF Arrive, Goto, heap, request, row
<1>2. ASSUME NEW l \in Lookups, Load(l)
      PROVE  HomeOnly'
  BY <1>2 DEF Load, Goto, heap, request, row
<1>3. ASSUME NEW l \in Lookups, CheckFresh(l)
      PROVE  HomeOnly'
  BY <1>3 DEF CheckFresh, Goto, heap, request, row, Verdict, fresh, stateFromEntry
<1>4. ASSUME NEW l \in Lookups, LoadOrStore(l)
      PROVE  HomeOnly'
  BY <1>4 DEF LoadOrStore, Goto, heap, request, row
<1>5. ASSUME NEW l \in Lookups, Lock(l)
      PROVE  HomeOnly'
  BY <1>5 DEF Lock, Goto, heap, request, row, Verdict, fresh, stateFromEntry
<1>6. ASSUME NEW l \in Lookups, Read(l)
      PROVE  HomeOnly'
  BY <1>6 DEF Read, Goto, heap, request, row, Verdict, RowState
<1>7. ASSUME NEW l \in Lookups, ReadFails(l)
      PROVE  HomeOnly'
  BY <1>7 DEF ReadFails, Goto, heap, request, row
<1>8. ASSUME NEW l \in Lookups, Fill(l)
      PROVE  HomeOnly'
  BY <1>8 DEF Fill, Goto, heap, request, row, Verdict
<1>9. ASSUME NEW r \in Replicas, Invalidate(r)
      PROVE  HomeOnly'
  BY <1>9 DEF Invalidate, heap, request, row
<1>10. ASSUME NEW r \in Replicas, WriteRevoked(r)
      PROVE  HomeOnly'
  BY <1>10 DEF WriteRevoked, heap, request, row
<1>11. CASE Tick
  BY <1>11 DEF Tick, heap, request, row
<1>12. CASE UNCHANGED vars
  BY <1>12 DEF vars, heap, request, row
<1>13. QED
  BY <1>1, <1>2, <1>3, <1>4, <1>5, <1>6, <1>7, <1>8, <1>9, <1>10, <1>11, <1>12 DEF Next, Step

-----------------------------------------------------------------------------
\* The inductive invariant behind the theorems below.
CacheInv == TypeOK /\ EntryLoaded /\ Dated /\ StalenessBounded /\ HomeOnly

\* CacheInv holds in every reachable state.
THEOREM CacheInvariant == Spec => []CacheInv
<1>1. Init => CacheInv
  <2> SUFFICES ASSUME Init
               PROVE  CacheInv
    OBVIOUS
  <2>1. (CHOOSE r \in Replicas : TRUE) \in Replicas
    BY SessionCacheAssumption
  <2>2. at \in [Lookups -> Replicas]
    BY <2>1 DEF Init
  <2>3. TypeOK
    BY <2>2, SessionCacheAssumption DEF Init, TypeOK, States, Answers
  <2>4. QED
    BY <2>3, SessionCacheAssumption DEF Init, CacheInv, EntryLoaded, Dated, StalenessBounded,
       HomeOnly, AdmittedAtHomeOnly
<1>2. CacheInv /\ [Next]_vars => CacheInv'
  BY TypeStep, EntryStep, DatedStep, StalenessStep, HomeStep DEF CacheInv
<1>3. QED
  BY <1>1, <1>2, PTL DEF Spec

\* Lookup, its refills and the revocations keep the state well typed: an entry
\* and every request in flight name rows, replicas and deadlines that exist.
THEOREM TypeCorrect == Spec => []TypeOK
<1>1. CacheInv => TypeOK
  BY DEF CacheInv
<1>2. QED
  BY <1>1, CacheInvariant, PTL

\* A revoked session is admitted for less than TTL + ReadTime after its
\* revocation, on every replica and under every race of Lookup with
\* RevokeSession; with TTL = 0 by no lookup that starts after it.
THEOREM BoundedStaleness == Spec => []StalenessBounded
<1>1. CacheInv => StalenessBounded
  BY DEF CacheInv
<1>2. QED
  BY <1>1, CacheInvariant, PTL

\* Lookup never admits a session into another project than its own.
THEOREM NoCrossProjectAdmission == Spec => []AdmittedAtHomeOnly
<1>1. CacheInv => AdmittedAtHomeOnly
  BY DEF CacheInv, HomeOnly
<1>2. QED
  BY <1>1, CacheInvariant, PTL

\* Every admission is of a session of the request's project that was not revoked
\* longer ago than a TTL and a read (SessionCache.Lookup).
THEOREM AdmissionsAreJustified == Spec => []AdmissionsJustified
BY BoundedStaleness, NoCrossProjectAdmission, PTL DEF AdmissionsJustified
=============================================================================
