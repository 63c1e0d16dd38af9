-------------------------- MODULE RetryLoopProofs --------------------------
(***************************************************************************)
(* Theorems about RetryLoop, for every policy and every set of batches.    *)
(*                                                                         *)
(* TypeOK alone is not inductive: that what is delivered was an input      *)
(* needs the batch in hand to be one, which NoBatchLost says.  The two,    *)
(* with the bounds of the attempts, are the inductive invariant.           *)
(***************************************************************************)
EXTENDS RetryLoop, SchedulerLemmas

IInv == TypeOK /\ NoBatchLost /\ AttemptsBounded

LEMMA InitEstablishes == Init => IInv
<1> SUFFICES ASSUME Init PROVE IInv
  OBVIOUS
<1>1. TypeOK
  BY InputsAssumption DEF Init, RetryInit, TypeOK, RetryTypeOK
<1>2. Queued = {} /\ InHand = {}
  BY DEF Init, RetryInit, Queued, BatchesIn, InHand
<1>3. NoBatchLost
  BY <1>2 DEF Init, RetryInit, NoBatchLost
<1>4. AttemptsBounded
  BY DEF Init, RetryInit, AttemptsBounded
<1> QED BY <1>1, <1>3, <1>4 DEF IInv

\* What the bound on the attempts says of the entries of a queue.
EntriesBounded(s) ==
  \A i \in DOMAIN s : s[i].attempts \in 1..MaxAttempts
                      /\ s[i].wait <= MaxDelay + Jitter

LEMMA EntriesAppend ==
  ASSUME NEW s \in Seq(PendingBatch), EntriesBounded(s),
         NEW x \in PendingBatch, x.attempts \in 1..MaxAttempts,
         x.wait <= MaxDelay + Jitter
  PROVE  EntriesBounded(Append(s, x))
<1>1. DOMAIN Append(s, x) = 1..Len(s) + 1 /\ DOMAIN s = 1..Len(s)
      /\ Len(s) \in Nat
  BY AppendProperties, LenProperties
<1>2. \A i \in 1..Len(s) + 1 : Append(s, x)[i] = IF i <= Len(s) THEN s[i] ELSE x
  BY <1>1, AppendProperties
<1> QED BY <1>1, <1>2 DEF EntriesBounded

LEMMA EntriesTail ==
  ASSUME NEW s \in Seq(PendingBatch), EntriesBounded(s), s # <<>>
  PROVE  EntriesBounded(Tail(s)) /\ Head(s).attempts \in 1..MaxAttempts
<1>1. Len(s) \in Nat \ {0} /\ DOMAIN s = 1..Len(s) /\ Head(s) = s[1]
  BY LenProperties, EmptySeq
<1>2. /\ DOMAIN Tail(s) = 1..Len(s) - 1
      /\ \A i \in 1..Len(s) - 1 : Tail(s)[i] = s[i + 1]
  BY HeadTailProperties, LenProperties
<1> QED BY <1>1, <1>2 DEF EntriesBounded

LEMMA EntriesWaited ==
  ASSUME NEW s \in Seq(PendingBatch), EntriesBounded(s), NEW d \in Nat
  PROVE  EntriesBounded(Waited(s, d))
<1> DEFINE w == Waited(s, d)
<1> HIDE DEF w
<1>1. w \in Seq(PendingBatch) /\ DOMAIN w = DOMAIN s
  BY WaitedType DEF w
<1>2. \A i \in DOMAIN s : s[i] \in PendingBatch /\ w[i] \in PendingBatch
  BY <1>1, ElementOfSeq, LenProperties
<1>3. \A i \in DOMAIN s : s[i].wait \in Nat /\ w[i].wait \in Nat
  BY <1>2 DEF PendingBatch
<1>4. \A i \in DOMAIN s : w[i].attempts = s[i].attempts /\ w[i].wait <= s[i].wait
  BY WaitedType DEF w
<1>5. EntriesBounded(w)
  BY <1>1, <1>3, <1>4, RetryAssumption DEF EntriesBounded
<1> QED BY <1>5 DEF w
------------------------------------------------------------------------------
LEMMA RetryPreserves == ASSUME IInv, Retry PROVE IInv'
<1>1. q \in Seq(PendingBatch) /\ q # <<>> /\ held = None
  BY DEF IInv, TypeOK, RetryTypeOK, Retry, PopReady, FrontReady
<1>2. RetryTypeOK' /\ held' = Head(q) /\ held' \in PendingBatch
  BY PopReadyType DEF IInv, TypeOK, Retry
<1>3. q' = Tail(q) /\ UNCHANGED <<givenUp, unsent, delivered>>
  BY DEF Retry, PopReady
<1>4. TypeOK'
  BY <1>2, <1>3 DEF IInv, TypeOK
<1>5. Queued \cup InHand = (Queued \cup InHand)'
  <2>1. InHand' = {Head(q).batch} /\ InHand = {}
    BY <1>1, <1>2, NoneNotPending DEF InHand
  <2> QED BY <1>1, <1>3, <2>1, BatchesInTail DEF Queued
<1>6. NoBatchLost'
  BY <1>3, <1>5 DEF IInv, NoBatchLost
<1>7. AttemptsBounded'
  BY <1>1, <1>2, <1>3, EntriesTail DEF IInv, AttemptsBounded, EntriesBounded
<1> QED BY <1>4, <1>6, <1>7 DEF IInv

LEMMA FirstSendPreserves == ASSUME IInv, FirstSend PROVE IInv'
<1>1. PICK b \in unsent : /\ held = None
                          /\ Hold(b)
                          /\ unsent' = unsent \ {b}
                          /\ UNCHANGED <<q, givenUp, delivered>>
  BY DEF FirstSend
<1>2. b \in Batch
  BY InputsAssumption DEF IInv, TypeOK
<1>3. held' \in PendingBatch /\ held'.batch = b /\ held'.attempts = 0
  BY <1>1, <1>2 DEF Hold, PendingBatch
<1>4. TypeOK'
  BY <1>1, <1>3 DEF IInv, TypeOK, RetryTypeOK
<1>5. NoBatchLost'
  BY <1>1, <1>3, NoneNotPending DEF IInv, NoBatchLost, InHand, Queued
<1>6. AttemptsBounded'
  BY <1>1, <1>3, RetryAssumption DEF IInv, AttemptsBounded
<1> QED BY <1>4, <1>5, <1>6 DEF IInv

LEMMA SendSucceedsPreserves == ASSUME IInv, SendSucceeds PROVE IInv'
<1>1. /\ held # None /\ held' = None
      /\ delivered' = delivered \cup {held.batch}
      /\ UNCHANGED <<q, givenUp, unsent>>
  BY DEF SendSucceeds, Release
<1>2. held.batch \in Inputs
  BY <1>1 DEF IInv, NoBatchLost, InHand
<1>3. TypeOK'
  BY <1>1, <1>2 DEF IInv, TypeOK, RetryTypeOK
<1>4. NoBatchLost'
  BY <1>1 DEF IInv, NoBatchLost, InHand, Queued
<1>5. AttemptsBounded'
  BY <1>1 DEF IInv, AttemptsBounded
<1> QED BY <1>3, <1>4, <1>5 DEF IInv

LEMMA SendFailsPreserves == ASSUME IInv, SendFails PROVE IInv'
<1>1. /\ held \in PendingBatch /\ held' = None
      /\ q \in Seq(PendingBatch)
      /\ UNCHANGED <<unsent, delivered>>
  BY DEF IInv, TypeOK, RetryTypeOK, SendFails, Enqueue, Requeue
<1>2. RetryTypeOK'
  BY EnqueueType, RequeueType DEF IInv, TypeOK, SendFails
<1>3. TypeOK'
  BY <1>1, <1>2 DEF IInv, TypeOK
<1>4. InHand = {held.batch} /\ InHand' = {}
  BY <1>1, NoneNotPending DEF InHand
<1>5. SUFFICES /\ (Queued \cup givenUp)' = Queued \cup givenUp \cup {held.batch}
               /\ EntriesBounded(q')
  BY <1>1, <1>3, <1>4 DEF IInv, NoBatchLost, AttemptsBounded, EntriesBounded
<1>6. EntriesBounded(q) /\ held.attempts <= MaxAttempts
  BY <1>1, NoneNotPending DEF IInv, AttemptsBounded, EntriesBounded
<1>7. CASE UNCHANGED q /\ givenUp' = givenUp \cup {held.batch}
  BY <1>6, <1>7 DEF Queued
<1>8. CASE held.attempts = 0 /\ MaxAttempts # 0
  <2> DEFINE full == Len(q) >= MaxQueue
             kept == IF full THEN Tail(q) ELSE q
  <2>1. PICK w \in Backoff(1) :
          /\ q' = Append(kept, [held EXCEPT !.attempts = 1, !.wait = w])
          /\ givenUp' = IF full THEN givenUp \cup {Head(q).batch} ELSE givenUp
    BY <1>8 DEF SendFails, Enqueue
  <2> DEFINE x == [held EXCEPT !.attempts = 1, !.wait = w]
  <2>2. w \in Nat /\ w <= MaxDelay + Jitter
    BY BackoffType
  <2>3. x \in PendingBatch /\ x.batch = held.batch /\ x.attempts = 1 /\ x.wait = w
    BY <1>1, <2>2 DEF PendingBatch
  <2>4. full => q # <<>>
    BY RetryAssumption, EmptySeq
  <2>5. kept \in Seq(PendingBatch) /\ EntriesBounded(kept)
    BY <1>1, <1>6, <2>4, HeadTailProperties, EntriesTail
  <2>6. BatchesIn(q) = BatchesIn(kept) \cup (IF full THEN {Head(q).batch} ELSE {})
    BY <1>1, <2>4, BatchesInTail
  <2> HIDE DEF full, kept, x
  <2>7. BatchesIn(q') = BatchesIn(kept) \cup {held.batch}
    BY <2>1, <2>3, <2>5, BatchesInAppend DEF x
  <2>8. 1 \in 1..MaxAttempts
    BY <1>8, RetryAssumption
  <2>9. EntriesBounded(q')
    BY <2>1, <2>2, <2>3, <2>5, <2>8, EntriesAppend DEF x
  <2> QED BY <2>1, <2>6, <2>7, <2>9 DEF Queued
<1>9. CASE held.attempts # 0 /\ ~(held.attempts >= MaxAttempts)
  <2>1. PICK w \in Backoff(held.attempts + 1) :
          /\ q' = Append(q, [held EXCEPT !.attempts = @ + 1, !.wait = w])
          /\ UNCHANGED givenUp
    BY <1>9 DEF SendFails, Requeue
  <2> DEFINE x == [held EXCEPT !.attempts = @ + 1, !.wait = w]
  <2>2. held.attempts \in Nat /\ held.attempts + 1 \in 1..MaxAttempts
    BY <1>1, <1>9, RetryAssumption DEF PendingBatch
  <2>3. w \in Nat /\ w <= MaxDelay + Jitter
    BY <2>2, BackoffType
  <2>4. /\ x \in PendingBatch /\ x.batch = held.batch
        /\ x.attempts = held.attempts + 1 /\ x.wait = w
    <3>1. held.attempts + 1 \in Nat /\ held.batch \in Batch
      BY <1>1, <2>2 DEF PendingBatch
    <3> QED BY <1>1, <2>3, <3>1 DEF PendingBatch
  <2> HIDE DEF x
  <2>5. BatchesIn(q') = BatchesIn(q) \cup {held.batch}
    BY <1>1, <2>1, <2>4, BatchesInAppend DEF x
  <2>6. EntriesBounded(q')
    BY <1>1, <1>6, <2>1, <2>2, <2>3, <2>4, EntriesAppend DEF x
  <2> QED BY <2>1, <2>5, <2>6 DEF Queued
<1> QED BY <1>7, <1>8, <1>9 DEF SendFails, Enqueue, Requeue

LEMMA SleepPreserves == ASSUME IInv, Sleep PROVE IInv'
<1>1. /\ q \in Seq(PendingBatch) /\ q' = Waited(q, 1) /\ held = None
      /\ UNCHANGED <<held, givenUp, unsent, delivered>>
  BY DEF IInv, TypeOK, RetryTypeOK, Sleep
<1>2. TypeOK'
  BY <1>1, WaitedType DEF IInv, TypeOK, RetryTypeOK
<1>3. NoBatchLost'
  BY <1>1, BatchesInWaited DEF IInv, NoBatchLost, Queued, InHand
<1>4. AttemptsBounded'
  BY <1>1, EntriesWaited DEF IInv, AttemptsBounded, EntriesBounded
<1> QED BY <1>2, <1>3, <1>4 DEF IInv

LEMMA NextPreserves == IInv /\ [Next]_vars => IInv'
<1> SUFFICES ASSUME IInv, [Next]_vars PROVE IInv'
  OBVIOUS
<1>1. CASE UNCHANGED vars
  BY <1>1 DEF IInv, TypeOK, RetryTypeOK, NoBatchLost, AttemptsBounded, Queued,
              InHand, vars, retryVars
<1>2. CASE Done
  BY <1>1, <1>2 DEF Done
<1> QED BY <1>1, <1>2, RetryPreserves, FirstSendPreserves,
           SendSucceedsPreserves, SendFailsPreserves, SleepPreserves DEF Next

THEOREM Invariance == Spec => []IInv
BY InitEstablishes, NextPreserves, PTL DEF Spec
------------------------------------------------------------------------------
\* The state of the scheduler and its caller is always of its type.
THEOREM TypeCorrect == Spec => []TypeOK
BY Invariance, PTL DEF IInv

\* RetryScheduler.cpp:36-86: whatever the policy and the outcomes of the sends,
\* every batch flushed is delivered, given up, queued or in hand.
THEOREM NothingLost == Spec => []NoBatchLost
BY Invariance, PTL DEF IInv

\* RetryScheduler.cpp:18-34, 77-80: no entry exceeds max_attempts, nor waits
\* longer than the ceiling of the backoff.
THEOREM RetriesBounded == Spec => []AttemptsBounded
BY Invariance, PTL DEF IInv
------------------------------------------------------------------------------
\* NoBatchTwice is not inductive either: a fresh batch comes from "unsent", so
\* nothing there may have been sent before; and one cannot be both acknowledged
\* and given up.
Apart ==
  /\ NoBatchTwice
  /\ unsent \cap (delivered \cup givenUp) = {}
  /\ delivered \cap givenUp = {}

LEMMA ApartFacts ==
  Apart <=> /\ Distinct(q)
            /\ Queued \cap (InHand \cup unsent \cup delivered \cup givenUp) = {}
            /\ InHand \cap (unsent \cup delivered \cup givenUp) = {}
            /\ unsent \cap (delivered \cup givenUp) = {}
            /\ delivered \cap givenUp = {}
BY DEF Apart, NoBatchTwice, Distinct

LEMMA ApartStep == ASSUME IInv, Apart, [Next]_vars PROVE Apart'
<1> SUFFICES /\ Distinct(q')
             /\ (Queued \cap (InHand \cup unsent \cup delivered \cup givenUp))' = {}
             /\ (InHand \cap (unsent \cup delivered \cup givenUp))' = {}
             /\ (unsent \cap (delivered \cup givenUp))' = {}
             /\ (delivered \cap givenUp)' = {}
  BY DEF Apart, NoBatchTwice, Distinct
<1> USE ApartFacts
<1>1. q \in Seq(PendingBatch) /\ RetryTypeOK /\ held \in PendingBatch \cup {None}
  BY DEF IInv, TypeOK, RetryTypeOK
<1>2. CASE UNCHANGED vars
  BY <1>2 DEF vars, retryVars, Queued, InHand
<1>3. CASE Retry
  <2>1. /\ q # <<>> /\ held = None /\ q' = Tail(q) /\ held' = Head(q)
        /\ UNCHANGED <<givenUp, unsent, delivered>>
    BY <1>3 DEF Retry, PopReady, FrontReady
  <2>2. held' \in PendingBatch
    BY <1>1, <1>3, PopReadyType DEF Retry
  <2>3. InHand' = {Head(q).batch}
    BY <2>1, <2>2, NoneNotPending DEF InHand
  <2>4. Queued = Queued' \cup InHand' /\ Head(q).batch \notin Queued'
        /\ Distinct(q')
    BY <1>1, <2>1, <2>3, BatchesInTail, DistinctTail DEF Queued
  <2> QED BY <2>1, <2>3, <2>4
<1>4. CASE FirstSend
  <2>1. PICK b \in unsent : /\ held = None /\ Hold(b) /\ unsent' = unsent \ {b}
                            /\ UNCHANGED <<q, givenUp, delivered>>
    BY <1>4 DEF FirstSend
  <2>2. b \in Batch
    BY InputsAssumption DEF IInv, TypeOK
  <2>3. held' \in PendingBatch /\ held'.batch = b
    BY <2>1, <2>2 DEF Hold, PendingBatch
  <2>4. InHand' = {b} /\ UNCHANGED Queued
    BY <2>1, <2>3, NoneNotPending DEF InHand, Queued
  <2> QED BY <2>1, <2>4
<1>5. CASE SendSucceeds
  <2>1. /\ held # None /\ held' = None
        /\ delivered' = delivered \cup {held.batch}
        /\ UNCHANGED <<q, givenUp, unsent>>
    BY <1>5 DEF SendSucceeds, Release
  <2>2. InHand = {held.batch} /\ InHand' = {} /\ UNCHANGED Queued
    BY <2>1 DEF InHand, Queued
  <2> QED BY <2>1, <2>2
<1>6. CASE SendFails
  <2>1. held # None /\ UNCHANGED <<unsent, delivered>> /\ held' = None
    BY <1>6 DEF SendFails, Enqueue, Requeue
  <2>2. InHand = {held.batch} /\ InHand' = {}
    BY <2>1 DEF InHand
  <2>3. held.batch \notin Queued \cup givenUp /\ Queued \cap givenUp = {}
    BY <2>2
  <2>4. Distinct(q') /\ Queued' \cap givenUp' = {}
        /\ Queued' \cup givenUp' = Queued \cup givenUp \cup {held.batch}
    BY <1>1, <1>6, <2>3, EnqueueApart, RequeueApart, EnqueueKeeps, RequeueKeeps
       DEF SendFails, Queued
  <2> QED BY <2>1, <2>2, <2>4
<1>7. CASE Sleep
  <2>1. q' = Waited(q, 1) /\ UNCHANGED <<held, givenUp, unsent, delivered>>
    BY <1>7 DEF Sleep
  <2>2. Distinct(q') /\ UNCHANGED <<Queued, InHand>>
    BY <1>1, <2>1, DistinctWaited, BatchesInWaited DEF Queued, InHand
  <2> QED BY <2>1, <2>2
<1> QED BY <1>2, <1>3, <1>4, <1>5, <1>6, <1>7 DEF Next, Done

\* RetryScheduler.cpp:36-86, Agent.cpp:142-160: no batch is in two places, none
\* is sent again once acknowledged or given up, and none is both.
THEOREM NothingTwice == Spec => [](NoBatchTwice /\ delivered \cap givenUp = {})
<1>1. Init => Apart
  BY DEF Init, RetryInit, Apart, NoBatchTwice, Queued, BatchesIn, InHand
<1>2. IInv /\ Apart /\ [Next]_vars => Apart'
  BY ApartStep
<1> QED BY <1>1, <1>2, Invariance, PTL DEF Spec, Apart

\* What a step drops is the front of the queue or the batch in hand, and the
\* latter not on its first failure if there are to be retries.
LEMMA DropStep ==
  ASSUME IInv, Apart, [Next]_vars, NEW b \in givenUp' \ givenUp
  PROVE  \/ q # <<>> /\ b = Head(q).batch /\ held # None /\ b # held.batch
         \/ /\ held # None /\ b = held.batch /\ b \notin Queued
            /\ MaxAttempts > 0 => held.attempts > 0
<1>1. q \in Seq(PendingBatch) /\ Len(q) \in Nat /\ held \in PendingBatch \cup {None}
      /\ MaxQueue \in Nat \ {0} /\ MaxAttempts \in Nat
  BY LenProperties, RetryAssumption DEF IInv, TypeOK, RetryTypeOK
<1>2. SendFails
  BY DEF Next, Retry, PopReady, FirstSend, SendSucceeds, Release, Sleep, Done,
         vars, retryVars
<1>3. held # None /\ held \in PendingBatch /\ held.attempts \in Nat
  BY <1>1, <1>2 DEF SendFails, PendingBatch
<1>4. held.batch \notin Queued
  BY <1>3, ApartFacts DEF InHand
<1>5. CASE held.attempts # 0
  <2>1. Requeue
    BY <1>2, <1>5 DEF SendFails
  <2>2. b = held.batch
    BY <2>1 DEF Requeue
  <2>. QED  BY <1>3, <1>4, <1>5, <2>2
<1>6. CASE held.attempts = 0
  <2>1. Enqueue
    BY <1>2, <1>6 DEF SendFails
  <2>2. CASE MaxAttempts = 0
    <3>1. b = held.batch
      BY <2>1, <2>2 DEF Enqueue
    <3>. QED  BY <1>3, <1>4, <2>2, <3>1
  <2>3. CASE MaxAttempts # 0
    <3>1. Len(q) >= MaxQueue /\ b = Head(q).batch
      BY <2>1, <2>3 DEF Enqueue
    <3>2. q # <<>>
      BY <1>1, <3>1, EmptySeq
    <3>3. Head(q).batch \in Queued
      BY <1>1, <3>2, BatchesInTail DEF Queued
    <3>. QED  BY <1>3, <1>4, <3>1, <3>2, <3>3
  <2>. QED  BY <2>2, <2>3
<1>. QED  BY <1>5, <1>6

\* RetryScheduler.cpp:41 "Drop oldest to keep bounded memory": for every policy
\* no batch is dropped from the queue while one put there earlier stays, nor the
\* batch that was refused for the first time in place of one that waits.
THEOREM OldestDropped == Spec => DropsOldest
<1>1. Init => Apart
  BY DEF Init, RetryInit, Apart, NoBatchTwice, Queued, BatchesIn, InHand
<1>2. IInv /\ Apart /\ [Next]_vars => Apart'
  BY ApartStep
<1>3. ASSUME IInv, Apart, [Next]_vars
      PROVE  LET dropped == givenUp' \ givenUp
             IN  /\ \A i, j \in DOMAIN q :
                      i < j /\ q[j].batch \in dropped => q[i].batch \notin Queued'
                 /\ MaxAttempts > 0 /\ held # None /\ held.batch \in dropped
                      => held.attempts > 0
  <2>1. q \in Seq(PendingBatch) /\ DOMAIN q = 1..Len(q) /\ Len(q) \in Nat
    BY <1>3, LenProperties DEF IInv, TypeOK, RetryTypeOK
  <2>2. ASSUME NEW i \in DOMAIN q, NEW j \in DOMAIN q, i < j,
               q[j].batch \in givenUp' \ givenUp
        PROVE  FALSE
    <3>1. q[j].batch \in Queued
      BY DEF Queued, BatchesIn
    <3>2. q # <<>> /\ q[j].batch = Head(q).batch
      BY <1>3, <2>2, <3>1, DropStep
    <3>3. Head(q) = q[1] /\ 1 \in DOMAIN q
      BY <2>1, <3>2, EmptySeq
    <3>4. j = 1
      BY <1>3, <3>2, <3>3 DEF Apart, NoBatchTwice
    <3>. QED  BY <2>1, <2>2, <3>4
  <2>3. ASSUME MaxAttempts > 0, held # None, held.batch \in givenUp' \ givenUp
        PROVE  held.attempts > 0
    BY <1>3, <2>3, DropStep
  <2>. QED  BY <2>2, <2>3
<1>. QED
  BY <1>1, <1>2, <1>3, Invariance, PTL DEF Spec, DropsOldest
==============================================================================
