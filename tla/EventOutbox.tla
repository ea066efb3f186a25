---------------------------- MODULE EventOutbox ----------------------------
(***************************************************************************)
(* Lifecycle events on their way to webhooks: the publisher, the outbox    *)
(* (pkg/events/outbox.go), the worker that delivers it with retries        *)
(* (pkg/events/worker.go, publisher.go) and its wiring in internal/app.    *)
(*                                                                         *)
(* A delivery is one event bound to one subscription.  The outbox is held  *)
(* in memory, so a restart empties it.  Time is relative: wait[d] is how   *)
(* long until d is due, negative once it is overdue.  The receiver and the *)
(* network are outside: a webhook may be taken and acknowledged, taken     *)
(* and the answer lost or late, or not taken.                              *)
(***************************************************************************)
EXTENDS Integers, Sequences, SequencesExt

CONSTANTS
    Events,
    Subs,         \* the webhook subscriptions of the configuration
    Matches,      \* which subscription is for which event
    Workers,
    None,
    MaxAttempts,  \* WebhooksMaxAttempts
    BaseDelay,    \* WebhooksBackoffBaseSeconds, in ticks
    MaxDelay,     \* WebhooksBackoffMaxSeconds, in ticks
    Batch,        \* WebhooksBatchSize
    MaxLate,      \* bound: deliveries later than this are equally late
    MaxRestarts   \* bound on the restarts

ASSUME EventOutboxAssumption ==
    /\ Matches \subseteq Events \X Subs
    /\ IsFiniteSet(Matches)
    /\ None \notin Workers
    /\ MaxAttempts \in Nat \ {0}
    /\ BaseDelay \in Nat \ {0}
    /\ MaxDelay \in Nat
    /\ BaseDelay <= MaxDelay
    /\ Batch \in Nat \ {0}
    /\ MaxLate \in Nat
    /\ MaxRestarts \in Nat

VARIABLES
    status,   \* deliveries' Status; "none" when there is no row
    attempts, \* their Attempts
    wait,     \* their NextAttemptAt, relative to now
    claimed,  \* the worker that claimed each
    batch,    \* what each worker still has to attempt
    answer,   \* what the attempt under way came to
    sends,    \* history: how often each row was sent
    taken,    \* history: how often the receiver took it
    since,    \* history: time since its last attempt was recorded
    waited,   \* history: the delays it was rescheduled with, together
    restarts

rows == <<status, attempts, wait, claimed>>
workers == <<batch, answer>>
ghosts == <<sends, taken, since, waited>>
vars == <<rows, workers, ghosts, restarts>>

Answers == {"none", "acked", "lost", "refused"}

TypeOK ==
    /\ status \in [Matches -> {"none", "pending", "delivered", "failed"}]
    /\ attempts \in [Matches -> Nat]
    /\ wait \in [Matches -> Int]
    /\ claimed \in [Matches -> Workers \cup {None}]
    /\ batch \in [Workers -> Seq(Matches)]
    /\ answer \in [Workers -> Answers]
    /\ sends \in [Matches -> Nat]
    /\ taken \in [Matches -> Nat]
    /\ since \in [Matches -> Nat]
    /\ waited \in [Matches -> Nat]
    /\ restarts \in Nat

-----------------------------------------------------------------------------
(* Retry policy.                                                           *)

\* Mutant: the delay does not grow.
backoffConstant(n) == BaseDelay

\* The delay after attempt n failed; the guards against overflow end in
\* MaxDelay like the cap does.
backoff(n) ==
    IF n > 31 \/ BaseDelay * 2^(n - 1) > MaxDelay THEN MaxDelay ELSE BaseDelay * 2^(n - 1)

-----------------------------------------------------------------------------
(* The publisher.                                                          *)

\* Emit lists the subscriptions and enqueues a delivery for each that
\* matches; one that has a row for this event already is skipped.  The rows
\* are added one by one, but nothing tells in which order.
Emit(e) ==
    LET new == {d \in Matches : d[1] = e /\ status[d] = "none"}
    IN  /\ new # {}
        /\ status' = [d \in Matches |-> IF d \in new THEN "pending" ELSE status[d]]
        /\ wait' = [d \in Matches |-> IF d \in new THEN 0 ELSE wait[d]]
        /\ attempts' = [d \in Matches |-> IF d \in new THEN 0 ELSE attempts[d]]
        /\ sends' = [d \in Matches |-> IF d \in new THEN 0 ELSE sends[d]]
        /\ taken' = [d \in Matches |-> IF d \in new THEN 0 ELSE taken[d]]
        /\ since' = [d \in Matches |-> IF d \in new THEN 0 ELSE since[d]]
        /\ waited' = [d \in Matches |-> IF d \in new THEN 0 ELSE waited[d]]
        /\ UNCHANGED <<claimed, workers, restarts>>

-----------------------------------------------------------------------------
(* The worker.                                                             *)

\* Mutant: a row claimed by another worker is due as well.
DueThoughClaimed == {d \in Matches : status[d] = "pending" /\ wait[d] <= 0}

Due == {d \in Matches : status[d] = "pending" /\ claimed[d] = None /\ wait[d] <= 0}

\* The batches ClaimDue may return: the rows due longest, in that order, up
\* to the limit; rows due equally long are in the order of their random ids.
DueBatches ==
    {s \in SetToSeqs(Due) : \A i, j \in DOMAIN s : i < j => wait[s[i]] <= wait[s[j]]}

\* ProcessOnce begins: the worker is idle, its ticker fires and it claims.
ClaimDue(w) ==
    /\ batch[w] = <<>>
    /\ Due # {}
    /\ \E s \in DueBatches :
         LET b == SubSeq(s, 1, IF Len(s) < Batch THEN Len(s) ELSE Batch)
         IN  /\ batch' = [batch EXCEPT ![w] = b]
             /\ claimed' = [d \in Matches |-> IF d \in ToSet(b) THEN w ELSE claimed[d]]
    /\ UNCHANGED <<status, attempts, wait, answer, ghosts, restarts>>

\* The sender posts the first delivery of the batch.
Deliver(w) ==
    /\ batch[w] # <<>>
    /\ answer[w] = "none"
    /\ \E a \in {"acked", "lost", "refused"} :
         /\ answer' = [answer EXCEPT ![w] = a]
         /\ taken' = [taken EXCEPT ![Head(batch[w])] = IF a = "refused" THEN @ ELSE @ + 1]
    /\ sends' = [sends EXCEPT ![Head(batch[w])] = @ + 1]
    /\ UNCHANGED <<rows, batch, since, waited, restarts>>

\* The worker has sent this delivery and not recorded the answer.
Sent(w, d) == batch[w] # <<>> /\ d = Head(batch[w]) /\ answer[w] # "none"

\* What attempt does once Deliver has returned.
Answered(w, d) ==
    /\ Sent(w, d)
    /\ batch' = [batch EXCEPT ![w] = Tail(@)]
    /\ answer' = [answer EXCEPT ![w] = "none"]

Release(d) == claimed' = [claimed EXCEPT ![d] = None]

MarkDelivered(w, d) ==
    /\ Answered(w, d)
    /\ answer[w] = "acked"
    /\ status' = [status EXCEPT ![d] = "delivered"]
    /\ Release(d)
    /\ UNCHANGED <<attempts, wait, ghosts, restarts>>

\* Mutant: one attempt fewer than the budget.
OutOfAttemptsEarly(d) == attempts[d] + 2 >= MaxAttempts

OutOfAttempts(d) == attempts[d] + 1 >= MaxAttempts

\* Mutant: a status nobody reads.
MarkFailedAside(w, d) ==
    /\ Answered(w, d)
    /\ answer[w] # "acked"
    /\ OutOfAttempts(d)
    /\ status' = [status EXCEPT ![d] = "abandoned"]
    /\ attempts' = [attempts EXCEPT ![d] = @ + 1]
    /\ Release(d)
    /\ UNCHANGED <<wait, ghosts, restarts>>

MarkFailed(w, d) ==
    /\ Answered(w, d)
    /\ answer[w] # "acked"
    /\ OutOfAttempts(d)
    /\ status' = [status EXCEPT ![d] = "failed"]
    /\ attempts' = [attempts EXCEPT ![d] = @ + 1]
    /\ Release(d)
    /\ UNCHANGED <<wait, ghosts, restarts>>

\* Mutant: the claim is kept.
RescheduleClaimed(w, d) ==
    /\ Answered(w, d)
    /\ answer[w] # "acked"
    /\ ~OutOfAttempts(d)
    /\ attempts' = [attempts EXCEPT ![d] = @ + 1]
    /\ wait' = [wait EXCEPT ![d] = backoff(attempts[d] + 1)]
    /\ since' = [since EXCEPT ![d] = 0]
    /\ waited' = [waited EXCEPT ![d] = @ + backoff(attempts[d] + 1)]
    /\ UNCHANGED <<status, claimed, sends, taken, restarts>>

\* Mutant: the attempt is not counted.
RescheduleUncounted(w, d) ==
    /\ Answered(w, d)
    /\ answer[w] # "acked"
    /\ ~OutOfAttempts(d)
    /\ wait' = [wait EXCEPT ![d] = backoff(attempts[d] + 1)]
    /\ since' = [since EXCEPT ![d] = 0]
    /\ waited' = [waited EXCEPT ![d] = @ + backoff(attempts[d] + 1)]
    /\ Release(d)
    /\ UNCHANGED <<status, attempts, sends, taken, restarts>>

Reschedule(w, d) ==
    /\ Answered(w, d)
    /\ answer[w] # "acked"
    /\ ~OutOfAttempts(d)
    /\ attempts' = [attempts EXCEPT ![d] = @ + 1]
    /\ wait' = [wait EXCEPT ![d] = backoff(attempts[d] + 1)]
    /\ since' = [since EXCEPT ![d] = 0]
    /\ waited' = [waited EXCEPT ![d] = @ + backoff(attempts[d] + 1)]
    /\ Release(d)
    /\ UNCHANGED <<status, sends, taken, restarts>>

-----------------------------------------------------------------------------
\* Time passes for every row; since stops at MaxDelay, where no property tells
\* its values apart.
Tick ==
    /\ \E d \in Matches : status[d] = "pending" /\ wait[d] > -MaxLate
    /\ wait' = [d \in Matches |->
                  IF status[d] = "pending" /\ wait[d] > -MaxLate THEN wait[d] - 1 ELSE wait[d]]
    /\ since' = [d \in Matches |-> IF since[d] < MaxDelay THEN since[d] + 1 ELSE since[d]]
    /\ UNCHANGED <<status, attempts, claimed, workers, sends, taken, waited, restarts>>

\* The process stops: the outbox is memory, and a new process starts empty.
Restart ==
    /\ restarts < MaxRestarts
    /\ restarts' = restarts + 1
    /\ status' = [d \in Matches |-> "none"]
    /\ claimed' = [d \in Matches |-> None]
    /\ batch' = [w \in Workers |-> <<>>]
    /\ answer' = [w \in Workers |-> "none"]
    /\ UNCHANGED <<attempts, wait, ghosts>>

Init ==
    /\ status = [d \in Matches |-> "none"]
    /\ attempts = [d \in Matches |-> 0]
    /\ wait = [d \in Matches |-> 0]
    /\ claimed = [d \in Matches |-> None]
    /\ batch = [w \in Workers |-> <<>>]
    /\ answer = [w \in Workers |-> "none"]
    /\ sends = [d \in Matches |-> 0]
    /\ taken = [d \in Matches |-> 0]
    /\ since = [d \in Matches |-> 0]
    /\ waited = [d \in Matches |-> 0]
    /\ restarts = 0

Record(w) == \E d \in Matches : MarkDelivered(w, d) \/ MarkFailed(w, d) \/ Reschedule(w, d)

Worker(w) == ClaimDue(w) \/ Deliver(w) \/ Record(w)

Next ==
    \/ \E e \in Events : Emit(e)
    \/ \E w \in Workers : Worker(w)
    \/ Tick
    \/ Restart

\* The ticker fires again and again, Deliver returns (its client has a
\* timeout) and time passes; nothing makes anybody emit, or a process stop.
Fairness == WF_vars(Tick) /\ \A w \in Workers : WF_vars(Worker(w))

Spec == Init /\ [][Next]_vars /\ Fairness

-----------------------------------------------------------------------------
(* Properties.                                                             *)

Holds(w) == ToSet(batch[w])

Distinct(s) == \A i, j \in DOMAIN s : s[i] = s[j] => i = j

\* "ClaimDue prevents two workers from sending the same row" (worker.go):
\* what a worker still has to attempt is claimed by it, is pending, and is
\* in no other worker's batch or twice in its own.
OneSenderPerRow ==
    \A w \in Workers :
        /\ \A d \in Holds(w) : claimed[d] = w /\ status[d] = "pending"
        /\ Distinct(batch[w])

\* A row is sent at most MaxAttempts times, counted from its first enqueue,
\* whoever sends it and however often its event is emitted again.
SendsBounded == \A d \in Matches : status[d] # "none" => sends[d] <= MaxAttempts

\* A delivery is given up only after MaxAttempts sends, and one that is
\* marked delivered was taken by the receiver.
OutcomeIsTrue ==
    \A d \in Matches :
        /\ status[d] = "failed" => sends[d] = MaxAttempts
        /\ status[d] = "delivered" => taken[d] > 0

\* The attempts of a delivery are all made and no more: it is sent at most
\* MaxAttempts times, given up only after all of them, and called delivered only
\* when it was taken (Worker.attempt).
AttemptBudget == SendsBounded /\ OutcomeIsTrue

\* A row is claimed again only once its backoff has passed: BaseDelay,
\* doubled per failed attempt, never more than MaxDelay.
BackoffRespected ==
    [][\A d \in Matches :
         claimed[d] = None /\ claimed'[d] # None /\ sends[d] > 0
           => \/ since[d] >= MaxDelay
              \/ since[d] >= BaseDelay * 2^(sends[d] - 1)]_vars

\* Every enqueued delivery is delivered or given up, unless the process stops.
Settles ==
    \A d \in Matches : status[d] = "pending" ~> status[d] # "pending"

\* "six attempts over roughly ten minutes" (publisher.go:104): the delays before
\* a delivery is given up come to more than half of that.
RetriesForMinutes == \A d \in Matches : status[d] = "failed" => waited[d] > 300
=============================================================================
