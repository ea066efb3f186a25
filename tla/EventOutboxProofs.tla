------------------------- MODULE EventOutboxProofs -------------------------
(***************************************************************************)
(* EventOutbox for any number of workers, events and webhooks and any      *)
(* retry policy: no row has two senders, none is sent more often than the  *)
(* budget, what is recorded of it is true, and retries keep their backoff. *)
(***************************************************************************)
EXTENDS EventOutbox, FiniteSetTheorems, SequenceTheorems, TLAPS

\* A row is sent once more than its attempts say while an answer is out.
Counts ==
    \A d \in Matches :
        /\ status[d] = "pending" =>
               /\ attempts[d] < MaxAttempts
               /\ sends[d] = attempts[d] \/ sends[d] = attempts[d] + 1
               /\ (\E w \in Workers : Sent(w, d)) <=> sends[d] = attempts[d] + 1
        /\ status[d] = "delivered" => sends[d] <= MaxAttempts /\ taken[d] > 0
        /\ status[d] = "failed" => sends[d] = MaxAttempts

\* An answer that is out is about the first row of the batch.
AnswerInv ==
    \A w \in Workers :
        /\ answer[w] # "none" => batch[w] # <<>>
        /\ answer[w] = "acked" => taken[Head(batch[w])] > 0

\* A row that waits for a retry is not due before its backoff is over.
WaitInv ==
    \A d \in Matches :
        status[d] = "pending" /\ attempts[d] > 0 =>
            since[d] >= MaxDelay \/ since[d] + wait[d] >= backoff(attempts[d])

IInv == TypeOK /\ OneSenderPerRow /\ Counts /\ AnswerInv /\ WaitInv

-----------------------------------------------------------------------------
(* Arithmetic and sequences.                                               *)

LEMMA PowerType == ASSUME NEW n \in Nat PROVE 2^n \in Nat
<1>1. IsFiniteSet(1..n) /\ Cardinality(1..n) = n
  BY FS_Interval
<1>2. Cardinality(SUBSET (1..n)) = 2^Cardinality(1..n) /\ IsFiniteSet(SUBSET (1..n))
  BY <1>1, FS_SUBSET
<1> QED
  BY <1>1, <1>2, FS_CardinalityType

LEMMA BackoffType ==
    ASSUME NEW n \in Nat \ {0}
    PROVE  /\ backoff(n) \in Nat
           /\ backoff(n) >= MaxDelay \/ backoff(n) >= BaseDelay * 2^(n - 1)
<1>1. 2^(n - 1) \in Nat
  BY PowerType
<1> DEFINE b == BaseDelay * 2^(n - 1)
<1>2. b \in Nat
  BY <1>1, EventOutboxAssumption
<1> HIDE DEF b
<1>3. backoff(n) = IF n > 31 \/ b > MaxDelay THEN MaxDelay ELSE b
  BY DEF backoff, b
<1> QED
  BY <1>2, <1>3, EventOutboxAssumption DEF b

\* The first row of a batch leaves it, and is not in the rest.
LEMMA HeadLeaves ==
    ASSUME NEW S, NEW s \in Seq(S), s # <<>>
    PROVE  /\ Head(s) \in S
           /\ Head(s) \in ToSet(s)
           /\ Tail(s) \in Seq(S)
           /\ ToSet(Tail(s)) \subseteq ToSet(s)
           /\ Distinct(s) => Distinct(Tail(s)) /\ Head(s) \notin ToSet(Tail(s))
<1>1. /\ Len(s) \in Nat \ {0}
      /\ DOMAIN s = 1..Len(s)
      /\ Head(s) = s[1]
      /\ Tail(s) \in Seq(S)
      /\ DOMAIN Tail(s) = 1..(Len(s) - 1)
      /\ \A i \in 1..(Len(s) - 1) : Tail(s)[i] = s[i + 1]
  OBVIOUS
<1> QED
  BY <1>1 DEF ToSet, Distinct

\* A batch holds rows that are due, each once.
LEMMA BatchOfDue ==
    ASSUME TypeOK, NEW s \in DueBatches,
           NEW b, b = SubSeq(s, 1, IF Len(s) < Batch THEN Len(s) ELSE Batch)
    PROVE  b \in Seq(Matches) /\ ToSet(b) \subseteq Due /\ Distinct(b)
<1> DEFINE n == Cardinality(Due)
<1>1. IsFiniteSet(Due)
  BY EventOutboxAssumption, FS_Subset DEF Due
<1>2. n \in Nat
  BY <1>1, FS_CardinalityType
<1>3. s \in [1..n -> Due] /\ \A i, j \in 1..n : i # j => s[i] # s[j]
  BY DEF DueBatches, SetToSeqs
<1> HIDE DEF n
<1>4. s \in Seq(Due) /\ Len(s) = n
  BY <1>2, <1>3
<1> DEFINE m == IF Len(s) < Batch THEN Len(s) ELSE Batch
<1>5. m \in Nat /\ m <= n
  BY <1>2, <1>4, EventOutboxAssumption
<1> HIDE DEF m
<1>6. b = SubSeq(s, 1, m)
  BY DEF m
<1>7. b \in Seq(Due) /\ Len(b) = m /\ \A i \in 1..m : b[i] = s[i]
  <2>1. \A i \in 1..m : s[i] \in Due
    BY <1>2, <1>3, <1>5
  <2>2. /\ SubSeq(s, 1, m) \in Seq(Due)
        /\ Len(SubSeq(s, 1, m)) = IF 1 <= m THEN m - 1 + 1 ELSE 0
        /\ \A i \in 1..(m - 1 + 1) : SubSeq(s, 1, m)[i] = s[1 + i - 1]
    BY <1>5, <2>1, SubSeqProperties
  <2>3. m - 1 + 1 = m /\ \A i \in 1..m : 1 + i - 1 = i
    BY <1>5
  <2>4. Len(SubSeq(s, 1, m)) = m
    BY <1>5, <2>2
  <2>5. \A i \in 1..m : SubSeq(s, 1, m)[i] = s[i]
    BY <2>2, <2>3
  <2> QED
    BY <1>6, <2>2, <2>4, <2>5
<1>8. DOMAIN b = 1..m
  BY <1>7
<1>9. Distinct(b)
  BY <1>2, <1>3, <1>5, <1>7, <1>8 DEF Distinct
<1>10. ToSet(b) \subseteq Due
  BY <1>7, <1>8 DEF ToSet
<1>11. b \in Seq(Matches)
  BY <1>7 DEF Due
<1> QED
  BY <1>9, <1>10, <1>11

-----------------------------------------------------------------------------
(* The invariant, action by action.                                        *)

LEMMA InitIInv == Init => IInv
<1> SUFFICES ASSUME Init PROVE IInv
  OBVIOUS
<1>1. TypeOK
  BY DEF Init, TypeOK, Answers
<1>2. OneSenderPerRow
  BY DEF Init, OneSenderPerRow, Holds, ToSet, Distinct
<1>3. Counts /\ AnswerInv /\ WaitInv
  BY DEF Init, Counts, AnswerInv, WaitInv
<1> QED
  BY <1>1, <1>2, <1>3 DEF IInv

LEMMA EmitKeeps == ASSUME IInv, NEW e \in Events, Emit(e) PROVE IInv'
<1> DEFINE new == {d \in Matches : d[1] = e /\ status[d] = "none"}
<1>1. /\ status' = [d \in Matches |-> IF d \in new THEN "pending" ELSE status[d]]
      /\ wait' = [d \in Matches |-> IF d \in new THEN 0 ELSE wait[d]]
      /\ attempts' = [d \in Matches |-> IF d \in new THEN 0 ELSE attempts[d]]
      /\ sends' = [d \in Matches |-> IF d \in new THEN 0 ELSE sends[d]]
      /\ taken' = [d \in Matches |-> IF d \in new THEN 0 ELSE taken[d]]
      /\ since' = [d \in Matches |-> IF d \in new THEN 0 ELSE since[d]]
      /\ waited' = [d \in Matches |-> IF d \in new THEN 0 ELSE waited[d]]
      /\ UNCHANGED <<claimed, batch, answer, restarts>>
  BY DEF Emit, workers
<1>2. \A d \in new : status[d] = "none"
  OBVIOUS
<1> HIDE DEF new
<1>3. \A w \in Workers, d \in new : d \notin Holds(w)
  BY <1>2 DEF IInv, OneSenderPerRow
<1>4. \A w \in Workers, d \in new : ~Sent(w, d)
  BY <1>3, HeadLeaves DEF IInv, TypeOK, Sent, Holds
<1>5. TypeOK'
  BY <1>1 DEF IInv, TypeOK
<1>6. OneSenderPerRow'
  <2>1. \A w \in Workers : Holds(w)' = Holds(w) /\ Holds(w) \subseteq Matches
    BY <1>1 DEF Holds, ToSet, IInv, TypeOK
  <2> QED
    BY <1>1, <1>3, <2>1 DEF IInv, OneSenderPerRow
<1>7. Counts'
  <2>1. \A w \in Workers, d \in Matches : Sent(w, d)' <=> Sent(w, d)
    BY <1>1 DEF Sent
  <2> QED
    BY <1>1, <1>4, <2>1, EventOutboxAssumption DEF IInv, TypeOK, Counts
<1>8. AnswerInv'
  <2>1. \A w \in Workers : answer[w] = "acked" => Head(batch[w]) \in Matches \ new
    BY <1>3, HeadLeaves DEF IInv, TypeOK, AnswerInv, Holds
  <2> QED
    BY <1>1, <2>1 DEF IInv, AnswerInv
<1>9. WaitInv'
  BY <1>1 DEF IInv, TypeOK, WaitInv
<1> QED
  BY <1>5, <1>6, <1>7, <1>8, <1>9 DEF IInv

LEMMA ClaimDueKeeps == ASSUME IInv, NEW w \in Workers, ClaimDue(w) PROVE IInv'
<1>1. PICK s \in DueBatches :
        LET b == SubSeq(s, 1, IF Len(s) < Batch THEN Len(s) ELSE Batch)
        IN  /\ batch' = [batch EXCEPT ![w] = b]
            /\ claimed' = [d \in Matches |-> IF d \in ToSet(b) THEN w ELSE claimed[d]]
  BY DEF ClaimDue
<1> DEFINE b == SubSeq(s, 1, IF Len(s) < Batch THEN Len(s) ELSE Batch)
<1>2. b \in Seq(Matches) /\ ToSet(b) \subseteq Due /\ Distinct(b)
  BY BatchOfDue DEF IInv
<1>3. /\ batch' = [batch EXCEPT ![w] = b]
      /\ claimed' = [d \in Matches |-> IF d \in ToSet(b) THEN w ELSE claimed[d]]
      /\ batch[w] = <<>>
      /\ UNCHANGED <<status, attempts, wait, answer, sends, taken, since, waited, restarts>>
  BY <1>1 DEF ClaimDue, ghosts
<1> HIDE DEF b
<1>4. answer[w] = "none"
  BY <1>3 DEF IInv, AnswerInv
<1>5. TypeOK'
  BY <1>2, <1>3 DEF IInv, TypeOK
<1>6. OneSenderPerRow'
  <2>1. ASSUME NEW v \in Workers, v # w
        PROVE  (\A d \in Holds(v)' : claimed'[d] = v /\ status'[d] = "pending") /\ Distinct(batch'[v])
    <3>1. batch'[v] = batch[v] /\ Holds(v)' = Holds(v) /\ Holds(v) \subseteq Matches
      BY <1>3, <2>1 DEF Holds, ToSet, IInv, TypeOK
    <3>2. \A d \in Holds(v) : d \notin Due
      BY EventOutboxAssumption DEF Due, IInv, OneSenderPerRow
    <3> QED
      BY <1>2, <1>3, <3>1, <3>2 DEF IInv, OneSenderPerRow
  <2>2. batch'[w] = b /\ Holds(w)' = ToSet(b)
    BY <1>3 DEF Holds, IInv, TypeOK
  <2>3. \A d \in ToSet(b) : d \in Matches /\ claimed'[d] = w /\ status'[d] = "pending"
    BY <1>2, <1>3 DEF Due
  <2> QED
    BY <1>2, <2>1, <2>2, <2>3 DEF OneSenderPerRow
<1>7. \A v \in Workers, d \in Matches : Sent(v, d)' <=> Sent(v, d)
  BY <1>3, <1>4 DEF Sent, IInv, TypeOK
<1>8. Counts'
  BY <1>3, <1>7 DEF IInv, Counts
<1>9. AnswerInv'
  BY <1>3, <1>4 DEF IInv, TypeOK, AnswerInv
<1>10. WaitInv'
  BY <1>3 DEF IInv, WaitInv
<1> QED
  BY <1>5, <1>6, <1>8, <1>9, <1>10 DEF IInv

\* Two workers never have the same row out.
LEMMA SentByOne ==
    ASSUME IInv, NEW v \in Workers, NEW w \in Workers, NEW d \in Matches, Sent(v, d), Sent(w, d)
    PROVE  v = w
<1>1. d \in Holds(v) /\ d \in Holds(w)
  BY HeadLeaves DEF Sent, Holds, IInv, TypeOK
<1> QED
  BY <1>1 DEF IInv, OneSenderPerRow

LEMMA DeliverKeeps == ASSUME IInv, NEW w \in Workers, Deliver(w) PROVE IInv'
<1>0. PICK d : d = Head(batch[w])
  OBVIOUS
<1>1. /\ batch[w] # <<>>
      /\ answer[w] = "none"
      /\ sends' = [sends EXCEPT ![d] = @ + 1]
      /\ UNCHANGED <<status, attempts, wait, claimed, batch, since, waited, restarts>>
  BY <1>0 DEF Deliver, rows
<1>2. PICK a \in {"acked", "lost", "refused"} :
        /\ answer' = [answer EXCEPT ![w] = a]
        /\ taken' = [taken EXCEPT ![d] = IF a = "refused" THEN @ ELSE @ + 1]
  BY <1>0 DEF Deliver
<1>3. d \in Matches /\ d \in Holds(w) /\ status[d] = "pending" /\ claimed[d] = w
  BY <1>0, <1>1, HeadLeaves DEF IInv, TypeOK, Holds, OneSenderPerRow
<1>4. \A v \in Workers : ~Sent(v, d)
  <2>1. ASSUME NEW v \in Workers, Sent(v, d) PROVE d \in Holds(v)
    BY <2>1, HeadLeaves DEF Sent, Holds, IInv, TypeOK
  <2> QED
    BY <1>0, <1>1, <1>3, <2>1 DEF Sent, IInv, OneSenderPerRow
<1>5. TypeOK'
  <2>1. answer' \in [Workers -> Answers]
    BY <1>2 DEF IInv, TypeOK, Answers
  <2>2. taken' \in [Matches -> Nat]
    BY <1>2, <1>3 DEF IInv, TypeOK
  <2>3. sends' \in [Matches -> Nat]
    <3>1. sends \in [Matches -> Nat] /\ sends' = [sends EXCEPT ![d] = sends[d] + 1]
      BY <1>1 DEF IInv, TypeOK
    <3> QED
      BY <1>3, <3>1
  <2> QED
    BY <1>1, <2>1, <2>2, <2>3 DEF IInv, TypeOK
<1>6. OneSenderPerRow'
  <2>1. \A v \in Workers : Holds(v)' = Holds(v)
    BY <1>1 DEF Holds
  <2> QED
    BY <1>1, <2>1 DEF IInv, OneSenderPerRow
<1>7. Counts'
  <2>1. Sent(w, d)'
    BY <1>0, <1>1, <1>2 DEF Sent, IInv, TypeOK
  <2>2. \A v \in Workers, c \in Matches : c # d => (Sent(v, c)' <=> Sent(v, c))
    BY <1>0, <1>1, <1>2 DEF Sent, IInv, TypeOK
  <2>3. sends'[d] = sends[d] + 1 /\ sends[d] = attempts[d] /\ attempts[d] < MaxAttempts
    BY <1>1, <1>3, <1>4 DEF IInv, TypeOK, Counts
  <2>4. \A c \in Matches : c # d => sends'[c] = sends[c] /\ taken'[c] = taken[c]
    BY <1>1, <1>2 DEF IInv, TypeOK
  <2> SUFFICES ASSUME NEW c \in Matches
               PROVE  /\ status'[c] = "pending" =>
                           /\ attempts'[c] < MaxAttempts
                           /\ sends'[c] = attempts'[c] \/ sends'[c] = attempts'[c] + 1
                           /\ (\E v \in Workers : Sent(v, c)') <=> sends'[c] = attempts'[c] + 1
                      /\ status'[c] = "delivered" => sends'[c] <= MaxAttempts /\ taken'[c] > 0
                      /\ status'[c] = "failed" => sends'[c] = MaxAttempts
    BY DEF Counts
  <2>5. CASE c = d
    <3>1. status'[d] = "pending" /\ attempts'[d] = attempts[d] /\ attempts[d] \in Nat
      BY <1>1, <1>3 DEF IInv, TypeOK
    <3>2. sends'[d] = attempts'[d] + 1 /\ attempts'[d] < MaxAttempts
      BY <2>3, <3>1
    <3>3. \E v \in Workers : Sent(v, d)'
      BY <2>1
    <3>4. /\ status'[c] = "pending"
          /\ attempts'[c] < MaxAttempts
          /\ sends'[c] = attempts'[c] + 1
          /\ \E v \in Workers : Sent(v, c)'
      BY <2>5, <3>1, <3>2, <3>3
    <3> QED
      BY <3>4
  <2>6. CASE c # d
    BY <1>1, <2>2, <2>4, <2>6 DEF IInv, Counts
  <2> QED
    BY <2>5, <2>6
<1>8. AnswerInv'
  <2>1. taken'[d] = (IF a = "refused" THEN taken[d] ELSE taken[d] + 1)
    BY <1>2, <1>3 DEF IInv, TypeOK
  <2>2. \A c \in Matches : taken[c] \in Nat /\ (taken[c] > 0 => taken'[c] > 0)
    BY <1>2, <1>3 DEF IInv, TypeOK
  <2>3. \A v \in Workers : answer[v] # "none" => Head(batch[v]) \in Matches
    BY HeadLeaves DEF IInv, TypeOK, AnswerInv
  <2>4. /\ answer'[w] = a
        /\ \A v \in Workers : v # w => answer'[v] = answer[v]
    BY <1>2 DEF IInv, TypeOK
  <2>5. answer'[w] = "acked" => taken'[Head(batch'[w])] > 0
    BY <1>0, <1>1, <1>3, <2>1, <2>2, <2>4
  <2>6. \A v \in Workers : v # w /\ answer[v] = "acked" => taken'[Head(batch'[v])] > 0
    BY <1>1, <2>2, <2>3 DEF IInv, AnswerInv
  <2> QED
    BY <1>1, <2>4, <2>5, <2>6 DEF IInv, AnswerInv
<1>9. WaitInv'
  BY <1>1 DEF IInv, WaitInv
<1> QED
  BY <1>5, <1>6, <1>7, <1>8, <1>9 DEF IInv

\* What recording an answer does to the batches, whatever is recorded.
LEMMA AnsweredKeeps ==
    ASSUME IInv, NEW w \in Workers, NEW d \in Matches, Answered(w, d), Release(d),
           \A c \in Matches : c # d => status'[c] = status[c]
    PROVE  /\ batch' \in [Workers -> Seq(Matches)]
           /\ answer' \in [Workers -> Answers]
           /\ claimed' \in [Matches -> Workers \cup {None}]
           /\ OneSenderPerRow'
           /\ \A v \in Workers : ~Sent(v, d)'
           /\ \A v \in Workers, c \in Matches : c # d => (Sent(v, c)' <=> Sent(v, c))
           /\ status[d] = "pending"
           /\ sends[d] = attempts[d] + 1
           /\ attempts[d] < MaxAttempts
           /\ \A v \in Workers : v # w => batch'[v] = batch[v] /\ answer'[v] = answer[v]
           /\ answer'[w] = "none"
<1>1. /\ batch[w] # <<>>
      /\ d = Head(batch[w])
      /\ answer[w] # "none"
      /\ batch' = [batch EXCEPT ![w] = Tail(@)]
      /\ answer' = [answer EXCEPT ![w] = "none"]
      /\ claimed' = [claimed EXCEPT ![d] = None]
  BY DEF Answered, Sent, Release
<1>2. /\ d \in Holds(w)
      /\ Tail(batch[w]) \in Seq(Matches)
      /\ ToSet(Tail(batch[w])) \subseteq Holds(w)
      /\ Distinct(Tail(batch[w]))
      /\ d \notin ToSet(Tail(batch[w]))
  BY <1>1, HeadLeaves DEF IInv, TypeOK, Holds, OneSenderPerRow
<1>3. status[d] = "pending" /\ claimed[d] = w
  BY <1>2 DEF IInv, OneSenderPerRow
<1>4. \A v \in Workers : v # w => d \notin Holds(v)
  BY <1>3 DEF IInv, OneSenderPerRow
<1>5. /\ \A v \in Workers : v # w => batch'[v] = batch[v] /\ answer'[v] = answer[v]
      /\ batch'[w] = Tail(batch[w])
      /\ answer'[w] = "none"
      /\ \A c \in Matches : c # d => claimed'[c] = claimed[c]
  BY <1>1 DEF IInv, TypeOK
<1>6. /\ batch' \in [Workers -> Seq(Matches)]
      /\ answer' \in [Workers -> Answers]
      /\ claimed' \in [Matches -> Workers \cup {None}]
  BY <1>1, <1>2 DEF IInv, TypeOK, Answers
<1>7. OneSenderPerRow'
  <2>1. ASSUME NEW v \in Workers, v # w
        PROVE  (\A c \in Holds(v)' : claimed'[c] = v /\ status'[c] = "pending") /\ Distinct(batch'[v])
    <3>1. batch'[v] = batch[v] /\ batch[v] \in Seq(Matches)
      BY <1>5, <2>1 DEF IInv, TypeOK
    <3>2. Holds(v)' = Holds(v) /\ Holds(v) \subseteq Matches
      BY <3>1 DEF Holds, ToSet
    <3> QED
      BY <1>4, <1>5, <2>1, <3>1, <3>2 DEF IInv, OneSenderPerRow
  <2>2. (\A c \in Holds(w)' : claimed'[c] = w /\ status'[c] = "pending") /\ Distinct(batch'[w])
    <3>1. Holds(w)' = ToSet(Tail(batch[w])) /\ Holds(w) \subseteq Matches
      BY <1>5 DEF Holds, ToSet, IInv, TypeOK
    <3> QED
      BY <1>2, <1>5, <3>1 DEF IInv, OneSenderPerRow
  <2> QED
    BY <2>1, <2>2 DEF OneSenderPerRow
<1>8. \A v \in Workers : ~Sent(v, d)'
  <2>1. \A v \in Workers : Sent(v, d) => v = w
    BY SentByOne, <1>1 DEF Sent
  <2> QED
    BY <1>5, <2>1 DEF Sent
<1>9. \A v \in Workers, c \in Matches : c # d => (Sent(v, c)' <=> Sent(v, c))
  BY <1>1, <1>5 DEF Sent
<1>10. Sent(w, d)
  BY DEF Answered
<1>11. sends[d] = attempts[d] + 1 /\ attempts[d] < MaxAttempts
  BY <1>3, <1>10 DEF IInv, Counts
<1> QED
  BY <1>3, <1>5, <1>6, <1>7, <1>8, <1>9, <1>11

LEMMA AnswerInvKept ==
    ASSUME IInv, NEW w \in Workers, NEW d \in Matches, Answered(w, d), UNCHANGED taken
    PROVE  AnswerInv'
<1>1. /\ \A v \in Workers : v # w => batch'[v] = batch[v] /\ answer'[v] = answer[v]
      /\ answer'[w] = "none"
  BY DEF Answered, IInv, TypeOK
<1> QED
  BY <1>1 DEF IInv, AnswerInv

LEMMA MarkDeliveredKeeps ==
    ASSUME IInv, NEW w \in Workers, NEW d \in Matches, MarkDelivered(w, d)
    PROVE  IInv'
<1>1. /\ Answered(w, d)
      /\ Release(d)
      /\ answer[w] = "acked"
      /\ status' = [status EXCEPT ![d] = "delivered"]
      /\ UNCHANGED <<attempts, wait, sends, taken, since, waited, restarts>>
  BY DEF MarkDelivered, ghosts
<1>2. status'[d] = "delivered" /\ \A c \in Matches : c # d => status'[c] = status[c]
  BY <1>1 DEF IInv, TypeOK
<1>3. taken[d] > 0
  BY <1>1 DEF Answered, Sent, IInv, AnswerInv
<1>4. TypeOK'
  BY <1>1, <1>2, AnsweredKeeps DEF IInv, TypeOK
<1>5. Counts'
  <2>1. \A v \in Workers, c \in Matches : c # d => (Sent(v, c)' <=> Sent(v, c))
    BY <1>1, <1>2, AnsweredKeeps
  <2>2. sends'[d] <= MaxAttempts /\ taken'[d] > 0
    <3>1. sends[d] = attempts[d] + 1 /\ attempts[d] < MaxAttempts
      BY <1>1, <1>2, AnsweredKeeps
    <3> QED
      BY <1>1, <1>3, <3>1, EventOutboxAssumption DEF IInv, TypeOK
  <2> QED
    BY <1>1, <1>2, <2>1, <2>2 DEF IInv, Counts
<1>6. OneSenderPerRow'
  BY <1>1, <1>2, AnsweredKeeps
<1>7. AnswerInv'
  BY <1>1, AnswerInvKept
<1>8. WaitInv'
  BY <1>1, <1>2 DEF IInv, WaitInv
<1> QED
  BY <1>4, <1>5, <1>6, <1>7, <1>8 DEF IInv

LEMMA MarkFailedKeeps ==
    ASSUME IInv, NEW w \in Workers, NEW d \in Matches, MarkFailed(w, d)
    PROVE  IInv'
<1>1. /\ Answered(w, d)
      /\ Release(d)
      /\ attempts[d] + 1 >= MaxAttempts
      /\ status' = [status EXCEPT ![d] = "failed"]
      /\ attempts' = [attempts EXCEPT ![d] = @ + 1]
      /\ UNCHANGED <<wait, sends, taken, since, waited, restarts>>
  BY DEF MarkFailed, OutOfAttempts, ghosts
<1>2. /\ status'[d] = "failed"
      /\ \A c \in Matches : c # d => status'[c] = status[c] /\ attempts'[c] = attempts[c]
  BY <1>1 DEF IInv, TypeOK
<1>3. TypeOK'
  BY <1>1, <1>2, AnsweredKeeps DEF IInv, TypeOK
<1>4. Counts'
  <2>1. sends'[d] = MaxAttempts
    BY <1>1, <1>2, AnsweredKeeps, EventOutboxAssumption DEF IInv, TypeOK
  <2>2. \A v \in Workers, c \in Matches : c # d => (Sent(v, c)' <=> Sent(v, c))
    BY <1>1, <1>2, AnsweredKeeps
  <2> QED
    BY <1>1, <1>2, <2>1, <2>2 DEF IInv, Counts
<1>5. OneSenderPerRow'
  BY <1>1, <1>2, AnsweredKeeps
<1>6. AnswerInv'
  BY <1>1, AnswerInvKept
<1>7. WaitInv'
  BY <1>1, <1>2 DEF IInv, WaitInv
<1> QED
  BY <1>3, <1>4, <1>5, <1>6, <1>7 DEF IInv

LEMMA RescheduleKeeps ==
    ASSUME IInv, NEW w \in Workers, NEW d \in Matches, Reschedule(w, d)
    PROVE  IInv'
<1> DEFINE b == backoff(attempts[d] + 1)
<1>1. /\ Answered(w, d)
      /\ Release(d)
      /\ ~(attempts[d] + 1 >= MaxAttempts)
      /\ attempts' = [attempts EXCEPT ![d] = @ + 1]
      /\ wait' = [wait EXCEPT ![d] = b]
      /\ since' = [since EXCEPT ![d] = 0]
      /\ waited' = [waited EXCEPT ![d] = @ + b]
      /\ UNCHANGED <<status, sends, taken, restarts>>
  BY DEF Reschedule, OutOfAttempts
<1>2. b \in Nat
  BY BackoffType DEF IInv, TypeOK
<1> HIDE DEF b
<1>3. /\ attempts'[d] = attempts[d] + 1
      /\ wait'[d] = b
      /\ since'[d] = 0
      /\ \A c \in Matches : c # d => /\ attempts'[c] = attempts[c]
                                     /\ wait'[c] = wait[c]
                                     /\ since'[c] = since[c]
  BY <1>1 DEF IInv, TypeOK
<1>4. TypeOK'
  <2>1. /\ attempts' \in [Matches -> Nat]
        /\ wait' \in [Matches -> Int]
        /\ since' \in [Matches -> Nat]
        /\ waited' \in [Matches -> Nat]
    BY <1>1, <1>2 DEF IInv, TypeOK
  <2> QED
    BY <1>1, <2>1, AnsweredKeeps DEF IInv, TypeOK
<1>5. Counts'
  <2>1. /\ \A v \in Workers : ~Sent(v, d)'
        /\ \A v \in Workers, c \in Matches : c # d => (Sent(v, c)' <=> Sent(v, c))
        /\ status[d] = "pending"
        /\ sends[d] = attempts[d] + 1
    BY <1>1, AnsweredKeeps
  <2>2. attempts'[d] < MaxAttempts /\ sends'[d] = attempts'[d] /\ attempts'[d] \in Nat
    BY <1>1, <1>3, <2>1, EventOutboxAssumption DEF IInv, TypeOK
  <2>3. sends'[d] # attempts'[d] + 1
    BY <2>2
  <2> QED
    BY <1>1, <1>3, <2>1, <2>2, <2>3 DEF IInv, Counts
<1>6. OneSenderPerRow'
  BY <1>1, AnsweredKeeps
<1>7. AnswerInv'
  BY <1>1, AnswerInvKept
<1>8. WaitInv'
  BY <1>1, <1>2, <1>3 DEF IInv, WaitInv, b
<1> QED
  BY <1>4, <1>5, <1>6, <1>7, <1>8 DEF IInv

LEMMA TickKeeps == ASSUME IInv, Tick PROVE IInv'
<1>1. /\ wait' = [d \in Matches |->
                    IF status[d] = "pending" /\ wait[d] > -MaxLate THEN wait[d] - 1 ELSE wait[d]]
      /\ since' = [d \in Matches |-> IF since[d] < MaxDelay THEN since[d] + 1 ELSE since[d]]
      /\ UNCHANGED <<status, attempts, claimed, batch, answer, sends, taken, waited, restarts>>
  BY DEF Tick, workers
<1>2. TypeOK'
  BY <1>1, EventOutboxAssumption DEF IInv, TypeOK
<1>3. OneSenderPerRow'
  BY <1>1 DEF IInv, OneSenderPerRow, Holds
<1>4. Counts' /\ AnswerInv'
  BY <1>1 DEF IInv, Counts, AnswerInv, Sent
<1>5. WaitInv'
  <2> SUFFICES ASSUME NEW d \in Matches, status[d] = "pending", attempts[d] > 0
               PROVE  since'[d] >= MaxDelay \/ since'[d] + wait'[d] >= backoff(attempts[d])
    BY <1>1 DEF WaitInv
  <2>1. backoff(attempts[d]) \in Nat
    BY BackoffType DEF IInv, TypeOK
  <2>2. since[d] >= MaxDelay \/ since[d] + wait[d] >= backoff(attempts[d])
    BY DEF IInv, WaitInv
  <2> QED
    BY <1>1, <2>1, <2>2, EventOutboxAssumption DEF IInv, TypeOK
<1> QED
  BY <1>2, <1>3, <1>4, <1>5 DEF IInv

LEMMA RestartKeeps == ASSUME IInv, Restart PROVE IInv'
<1>1. /\ restarts' = restarts + 1
      /\ status' = [d \in Matches |-> "none"]
      /\ claimed' = [d \in Matches |-> None]
      /\ batch' = [w \in Workers |-> <<>>]
      /\ answer' = [w \in Workers |-> "none"]
      /\ UNCHANGED <<attempts, wait, sends, taken, since, waited>>
  BY DEF Restart, ghosts
<1>2. TypeOK'
  BY <1>1 DEF IInv, TypeOK, Answers
<1>3. OneSenderPerRow'
  BY <1>1 DEF OneSenderPerRow, Holds, ToSet, Distinct
<1>4. Counts' /\ AnswerInv' /\ WaitInv'
  BY <1>1 DEF Counts, AnswerInv, WaitInv
<1> QED
  BY <1>2, <1>3, <1>4 DEF IInv

LEMMA NextIInv == IInv /\ [Next]_vars => IInv'
<1> SUFFICES ASSUME IInv, [Next]_vars PROVE IInv'
  OBVIOUS
<1>1. CASE UNCHANGED vars
  BY <1>1 DEF IInv, TypeOK, OneSenderPerRow, Counts, AnswerInv, WaitInv, Holds, Sent, vars, rows,
      workers, ghosts
<1>2. ASSUME NEW e \in Events, Emit(e) PROVE IInv'
  BY <1>2, EmitKeeps
<1>3. ASSUME NEW w \in Workers, Worker(w) PROVE IInv'
  BY <1>3, ClaimDueKeeps, DeliverKeeps, MarkDeliveredKeeps, MarkFailedKeeps, RescheduleKeeps
  DEF Worker, Record
<1>4. CASE Tick
  BY <1>4, TickKeeps
<1>5. CASE Restart
  BY <1>5, RestartKeeps
<1> QED
  BY <1>1, <1>2, <1>3, <1>4, <1>5 DEF Next

-----------------------------------------------------------------------------
(* The theorems.                                                           *)

\* Every variable keeps its type, whatever the policy.
THEOREM TypeCorrect == Spec => []TypeOK
<1>1. IInv => TypeOK
  BY DEF IInv
<1> QED
  BY InitIInv, NextIInv, <1>1, PTL DEF Spec

\* ClaimDue hands a row to one worker at a time.
THEOREM OneSender == Spec => []OneSenderPerRow
<1>1. IInv => OneSenderPerRow
  BY DEF IInv
<1> QED
  BY InitIInv, NextIInv, <1>1, PTL DEF Spec

\* No row is sent more often than MaxAttempts.
THEOREM BudgetKept == Spec => []SendsBounded
<1>1. IInv => SendsBounded
  <2> SUFFICES ASSUME IInv, NEW d \in Matches, status[d] # "none"
               PROVE  sends[d] <= MaxAttempts
    BY DEF SendsBounded
  <2>1. status[d] \in {"pending", "delivered", "failed"} /\ sends[d] \in Nat /\ attempts[d] \in Nat
    BY DEF IInv, TypeOK
  <2> QED
    BY <2>1, EventOutboxAssumption DEF IInv, Counts
<1> QED
  BY InitIInv, NextIInv, <1>1, PTL DEF Spec

\* A delivery marked failed used its whole budget, one marked delivered arrived.
THEOREM OutcomesAreTrue == Spec => []OutcomeIsTrue
<1>1. IInv => OutcomeIsTrue
  BY DEF IInv, Counts, OutcomeIsTrue
<1> QED
  BY InitIInv, NextIInv, <1>1, PTL DEF Spec

\* A retry is not claimed before its exponential backoff has passed.
THEOREM RetriesWait == Spec => BackoffRespected
<1> DEFINE A == \A d \in Matches :
         claimed[d] = None /\ claimed'[d] # None /\ sends[d] > 0
           => \/ since[d] >= MaxDelay
              \/ since[d] >= BaseDelay * 2^(sends[d] - 1)
<1>1. IInv /\ [Next]_vars => [A]_vars
  <2> SUFFICES ASSUME IInv, Next, NEW d \in Matches,
                      claimed[d] = None, claimed'[d] # None, sends[d] > 0
               PROVE  since[d] >= MaxDelay \/ since[d] >= BaseDelay * 2^(sends[d] - 1)
    BY DEF A
  <2>1. d \in Due
    <3>1. ASSUME NEW w \in Workers, ClaimDue(w) PROVE d \in Due
      <4>1. PICK s \in DueBatches :
              LET b == SubSeq(s, 1, IF Len(s) < Batch THEN Len(s) ELSE Batch)
              IN  /\ batch' = [batch EXCEPT ![w] = b]
                  /\ claimed' = [c \in Matches |-> IF c \in ToSet(b) THEN w ELSE claimed[c]]
        BY <3>1 DEF ClaimDue
      <4> DEFINE b == SubSeq(s, 1, IF Len(s) < Batch THEN Len(s) ELSE Batch)
      <4>2. ToSet(b) \subseteq Due
        BY BatchOfDue DEF IInv
      <4> QED
        BY <4>1, <4>2
    <3>2. ASSUME NEW w \in Workers, NEW c \in Matches, Release(c) PROVE FALSE
      BY <3>2 DEF Release, IInv, TypeOK
    <3>3. \E w \in Workers : ClaimDue(w)
      BY <3>2 DEF Next, Emit, Worker, Record, Deliver, MarkDelivered, MarkFailed, Reschedule,
          Tick, Restart, rows
    <3> QED
      BY <3>1, <3>3
  <2>2. \A w \in Workers : ~Sent(w, d)
    <3>1. ASSUME NEW w \in Workers, Sent(w, d) PROVE d \in Holds(w)
      BY <3>1, HeadLeaves DEF Sent, Holds, IInv, TypeOK
    <3> QED
      BY <3>1, EventOutboxAssumption DEF IInv, OneSenderPerRow
  <2>3. sends[d] = attempts[d] /\ attempts[d] \in Nat \ {0}
    BY <2>1, <2>2 DEF Due, IInv, TypeOK, Counts
  <2>4. since[d] >= MaxDelay \/ since[d] + wait[d] >= backoff(attempts[d])
    BY <2>1, <2>3 DEF Due, IInv, WaitInv
  <2> DEFINE p == BaseDelay * 2^(attempts[d] - 1)
  <2>5. p \in Nat
    BY <2>3, PowerType, EventOutboxAssumption
  <2>6. backoff(attempts[d]) \in Nat /\ (backoff(attempts[d]) >= MaxDelay \/ backoff(attempts[d]) >= p)
    BY <2>3, BackoffType
  <2> HIDE DEF p
  <2>7. since[d] >= MaxDelay \/ since[d] >= p
    BY <2>1, <2>4, <2>5, <2>6, EventOutboxAssumption DEF Due, IInv, TypeOK
  <2> QED
    BY <2>3, <2>7 DEF p
<1> QED
  BY InitIInv, NextIInv, <1>1, PTL DEF Spec, BackoffRespected

\* The attempts of a delivery are all made and no more (Worker.attempt).
THEOREM AttemptsAreBudgeted == Spec => []AttemptBudget
BY BudgetKept, OutcomesAreTrue, PTL DEF AttemptBudget
=============================================================================
