------------------------------ MODULE RetryLoop ------------------------------
(***************************************************************************)
(* The retry scheduler closed with the way Agent::run_once calls it: a     *)
(* tick either retries the front of the queue, when that is ready, or      *)
(* sends a fresh batch; the outcome of the send decides what is done with  *)
(* the batch in hand; time passes between ticks.                           *)
(***************************************************************************)
EXTENDS RetryScheduler

CONSTANTS
  Inputs     \* the fresh batches the rest of the agent may flush

ASSUME InputsAssumption == Inputs \subseteq Batch

VARIABLES
  unsent,    \* the inputs not flushed yet
  delivered  \* history: the batches the sink acknowledged

vars == <<retryVars, unsent, delivered>>

TypeOK ==
  /\ RetryTypeOK
  /\ unsent \in SUBSET Inputs
  /\ delivered \in SUBSET Inputs

Init == RetryInit /\ unsent = Inputs /\ delivered = {}

\* run_once pops a ready batch first; only when there is none does the rest
\* of the tick run and a fresh batch get sent.
Retry == held = None /\ PopReady /\ UNCHANGED <<unsent, delivered>>

FirstSend == \E b \in unsent :
  /\ held = None
  /\ ~FrontReady
  /\ Hold(b)
  /\ unsent' = unsent \ {b}
  /\ UNCHANGED <<q, givenUp, delivered>>

SendSucceeds ==
  /\ held # None
  /\ Release
  /\ delivered' = delivered \cup {held.batch}
  /\ UNCHANGED unsent

\* attempts = 0 marks a first send: its failure enqueues, a retry's requeues.
SendFails ==
  /\ held # None
  /\ IF held.attempts = 0 THEN Enqueue ELSE Requeue
  /\ UNCHANGED <<unsent, delivered>>

\* The main loop sleeps between ticks.
Sleep ==
  /\ held = None
  /\ \E i \in DOMAIN q : q[i].wait > 0
  /\ q' = Waited(q, 1)
  /\ UNCHANGED <<held, givenUp, unsent, delivered>>

Done == unsent = {} /\ q = <<>> /\ held = None /\ UNCHANGED vars

Next == Retry \/ FirstSend \/ SendSucceeds \/ SendFails \/ Sleep \/ Done

\* Ticks and sleeps keep coming; nothing is assumed about the outcome of a
\* send but that there is one (the HTTP request has a timeout).
Fairness ==
  /\ WF_vars(Retry)
  /\ WF_vars(FirstSend)
  /\ WF_vars(SendSucceeds \/ SendFails)
  /\ WF_vars(Sleep)

Spec == Init /\ [][Next]_vars /\ Fairness
------------------------------------------------------------------------------
Queued == BatchesIn(q)
InHand == IF held = None THEN {} ELSE {held.batch}

\* No batch is retried more than max_attempts times, nor waits longer than the
\* backoff ceiling of its attempt.
AttemptsBounded ==
  /\ \A i \in DOMAIN q : /\ q[i].attempts \in 1..MaxAttempts
                         /\ q[i].wait <= MaxDelay + Jitter
  /\ held # None => held.attempts <= MaxAttempts

\* Every batch ever flushed is delivered, given up, queued or in hand: the
\* moves between run_once's locals and the deque lose none.
NoBatchLost ==
  Inputs = unsent \cup delivered \cup givenUp \cup Queued \cup InHand

\* A batch is in one place only: it is never sent again once acknowledged or
\* dropped.
NoBatchTwice ==
  /\ \A i, j \in DOMAIN q : q[i].batch = q[j].batch => i = j
  /\ Queued \cap (InHand \cup unsent \cup delivered \cup givenUp) = {}
  /\ InHand \cap (unsent \cup delivered \cup givenUp) = {}

\* RetryScheduler.cpp:41: "Drop oldest to keep bounded memory".  No batch is
\* dropped from the queue while one that went into it earlier stays; nor is the
\* batch whose first send has just failed dropped in place of one queued.
DropsOldest ==
  [][LET dropped == givenUp' \ givenUp
     IN  /\ \A i, j \in DOMAIN q :
              i < j /\ q[j].batch \in dropped => q[i].batch \notin Queued'
         /\ MaxAttempts > 0 /\ held # None /\ held.batch \in dropped
              => held.attempts > 0]_vars

\* With an unreachable sink the scheduler still settles: every batch is
\* delivered or given up, so retries cannot occupy the ticks for ever.
EventuallySettled ==
  \A b \in Inputs : <>(b \in delivered \cup givenUp)
==============================================================================
