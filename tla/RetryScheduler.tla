--------------------------- MODULE RetryScheduler ---------------------------
(***************************************************************************)
(* src/src/retry/RetryScheduler.cpp: the bounded queue of batches whose    *)
(* send failed, with exponential backoff.  Time is counted in abstract     *)
(* units: "wait" is what is left of next_attempt - now.                    *)
(*                                                                         *)
(* "held" is the batch in the caller's hands (the local "ready" or "b" of  *)
(* Agent::run_once): between popping or flushing it and the outcome of its *)
(* send it is in no queue.                                                 *)
(***************************************************************************)
EXTENDS LogData

CONSTANTS
  MaxAttempts,   \* RetryPolicy::max_attempts; 0 disables retry
  MaxQueue,      \* RetryPolicy::max_queue_batches
  BaseDelay,     \* RetryPolicy::base_delay_ms
  MaxDelay,      \* RetryPolicy::max_delay_ms
  Jitter         \* RetryPolicy::jitter_ms

\* With max_queue_batches = 0 enqueue() would call front() on an empty deque,
\* which C++ leaves undefined: the model covers the configurations without it.
ASSUME RetryAssumption ==
  /\ MaxAttempts \in Nat
  /\ MaxQueue \in Nat \ {0}
  /\ BaseDelay \in Nat
  /\ MaxDelay \in Nat
  /\ Jitter \in Nat

VARIABLES
  q,         \* q_: the deque of PendingBatch, front first
  held,      \* the PendingBatch being sent, or None
  givenUp    \* history: the batches the scheduler has dropped

retryVars == <<q, held, givenUp>>

PendingBatch == [batch : Batch, attempts : Nat, wait : Nat]

ASSUME NoneNotPending == None \notin PendingBatch

RetryTypeOK ==
  /\ q \in Seq(PendingBatch)
  /\ held \in PendingBatch \cup {None}
  /\ givenUp \in SUBSET Batch

RetryInit == q = <<>> /\ held = None /\ givenUp = {}
------------------------------------------------------------------------------
\* compute_delay: base * 2^(attempts - 1), the shift capped at 20, the delay
\* at max_delay_ms; jitter() adds 0..jitter_ms.
BackoffDelay(attempts) ==
  Smaller(BaseDelay * 2^Smaller(attempts - 1, 20), MaxDelay)

Backoff(attempts) == {BackoffDelay(attempts) + j : j \in 0..Jitter}

\* The caller takes a fresh batch in its hands, to be sent for the first time.
Hold(b) == held' = [batch |-> b, attempts |-> 0, wait |-> 0]

\* Mutants of Enqueue: the limit is off by one; the newest batch is popped and
\* the oldest reported; the newest is popped and reported.
EnqueueOneTooMany ==
  /\ held # None /\ held' = None
  /\ \E w \in Backoff(1) :
       LET full == Len(q) > MaxQueue
           kept == IF full THEN Tail(q) ELSE q
       IN  /\ q' = Append(kept, [held EXCEPT !.attempts = 1, !.wait = w])
           /\ givenUp' = IF full THEN givenUp \cup {Head(q).batch} ELSE givenUp

EnqueuePopsBack ==
  /\ held # None /\ held' = None
  /\ \E w \in Backoff(1) :
       LET full == Len(q) >= MaxQueue
           kept == IF full THEN SubSeq(q, 1, Len(q) - 1) ELSE q
       IN  /\ q' = Append(kept, [held EXCEPT !.attempts = 1, !.wait = w])
           /\ givenUp' = IF full THEN givenUp \cup {Head(q).batch} ELSE givenUp

EnqueueDropsNewest ==
  /\ held # None /\ held' = None
  /\ \E w \in Backoff(1) :
       LET full == Len(q) >= MaxQueue
           kept == IF full THEN SubSeq(q, 1, Len(q) - 1) ELSE q
       IN  /\ q' = Append(kept, [held EXCEPT !.attempts = 1, !.wait = w])
           /\ givenUp' = IF full THEN givenUp \cup {q[Len(q)].batch} ELSE givenUp

\* enqueue: the first send failed.  A full queue loses its oldest batch.
Enqueue ==
  /\ held # None
  /\ held' = None
  /\ IF MaxAttempts = 0
     THEN givenUp' = givenUp \cup {held.batch} /\ UNCHANGED q
     ELSE \E w \in Backoff(1) :
            LET full == Len(q) >= MaxQueue
                kept == IF full THEN Tail(q) ELSE q
            IN  /\ q' = Append(kept, [held EXCEPT !.attempts = 1, !.wait = w])
                /\ givenUp' = IF full THEN givenUp \cup {Head(q).batch}
                                      ELSE givenUp

FrontReady == q # <<>> /\ Head(q).wait = 0

\* Mutant of PopReady: pop_front() is forgotten.
PopReadyCopies == FrontReady /\ held' = Head(q) /\ UNCHANGED <<q, givenUp>>

\* pop_ready: only the front of the queue is looked at.
PopReady ==
  /\ FrontReady
  /\ held' = Head(q)
  /\ q' = Tail(q)
  /\ UNCHANGED givenUp

\* Mutants of Requeue: one attempt too many; the attempt is not counted.
RequeueOnceMore ==
  /\ held # None /\ held' = None
  /\ IF held.attempts > MaxAttempts
     THEN givenUp' = givenUp \cup {held.batch} /\ UNCHANGED q
     ELSE /\ \E w \in Backoff(held.attempts + 1) :
               q' = Append(q, [held EXCEPT !.attempts = @ + 1, !.wait = w])
          /\ UNCHANGED givenUp

RequeueUncounted ==
  /\ held # None /\ held' = None
  /\ IF held.attempts >= MaxAttempts
     THEN givenUp' = givenUp \cup {held.batch} /\ UNCHANGED q
     ELSE /\ \E w \in Backoff(held.attempts) :
               q' = Append(q, [held EXCEPT !.wait = w])
          /\ UNCHANGED givenUp

\* requeue: a retry failed.  Past max_attempts the batch is dropped silently.
Requeue ==
  /\ held # None
  /\ held' = None
  /\ IF held.attempts >= MaxAttempts
     THEN givenUp' = givenUp \cup {held.batch} /\ UNCHANGED q
     ELSE /\ \E w \in Backoff(held.attempts + 1) :
               q' = Append(q, [held EXCEPT !.attempts = @ + 1, !.wait = w])
          /\ UNCHANGED givenUp

\* on_success is a no-op: the batch that was sent is let go.
Release == held' = None /\ UNCHANGED <<q, givenUp>>

\* The batches in a queue.
BatchesIn(s) == {s[i].batch : i \in DOMAIN s}

\* Mutant of Waited: a difference of times that may go below zero.
WaitedBelowZero(s, d) == [i \in DOMAIN s |-> [s[i] EXCEPT !.wait = @ - d]]

\* d units of time pass on the clock that pop_ready reads.
Waited(s, d) == [i \in DOMAIN s |-> [s[i] EXCEPT !.wait = Monus(@, d)]]
==============================================================================
