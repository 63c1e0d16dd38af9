-------------------------- MODULE SchedulerLemmas --------------------------
(***************************************************************************)
(* Facts about the operators of RetryScheduler, for every policy: the      *)
(* backoff is a number within its ceiling, and each operation keeps the    *)
(* types and the bound of the queue.                                       *)
(***************************************************************************)
EXTENDS RetryScheduler, FiniteSetTheorems, SequenceTheorems, TLAPS

\* 2^k is a natural number: the number of subsets of 1..k.
LEMMA PowerType == ASSUME NEW k \in Nat PROVE 2^k \in Nat
<1>1. IsFiniteSet(1..k) /\ Cardinality(1..k) = k
  BY FS_Interval
<1>2. IsFiniteSet(SUBSET (1..k)) /\ Cardinality(SUBSET (1..k)) = 2^k
  BY <1>1, FS_SUBSET
<1> QED BY <1>2, FS_CardinalityType

\* compute_delay never exceeds max_delay_ms plus the jitter.
LEMMA BackoffType ==
  ASSUME NEW n \in Nat \ {0}, NEW w \in Backoff(n)
  PROVE  w \in Nat /\ w <= MaxDelay + Jitter
<1> DEFINE p == 2^Smaller(n - 1, 20)
<1>1. Smaller(n - 1, 20) \in Nat
  BY DEF Smaller
<1>2. p \in Nat
  BY <1>1, PowerType
<1> HIDE DEF p
<1>3. BaseDelay * p \in Nat
  BY <1>2, RetryAssumption
<1>4. Smaller(BaseDelay * p, MaxDelay) \in 0..MaxDelay
  BY <1>3, RetryAssumption DEF Smaller
<1>5. PICK j \in 0..Jitter : w = Smaller(BaseDelay * p, MaxDelay) + j
  BY DEF Backoff, BackoffDelay, p
<1> QED BY <1>4, <1>5, RetryAssumption

\* Time passing changes nothing of the queue but what is left of the waits.
LEMMA WaitedType ==
  ASSUME NEW s \in Seq(PendingBatch), NEW d \in Nat
  PROVE  /\ Waited(s, d) \in Seq(PendingBatch)
         /\ Len(Waited(s, d)) = Len(s)
         /\ DOMAIN Waited(s, d) = DOMAIN s
         /\ \A i \in DOMAIN s : /\ Waited(s, d)[i].batch = s[i].batch
                                /\ Waited(s, d)[i].attempts = s[i].attempts
                                /\ Waited(s, d)[i].wait <= s[i].wait
<1>1. DOMAIN s = 1..Len(s) /\ Len(s) \in Nat
  BY LenProperties
<1>2. \A i \in DOMAIN s : s[i] \in PendingBatch
  BY <1>1, ElementOfSeq
<1>3. ASSUME NEW p \in PendingBatch
      PROVE  LET r == [p EXCEPT !.wait = Monus(@, d)]
             IN  /\ r \in PendingBatch
                 /\ r.batch = p.batch /\ r.attempts = p.attempts
                 /\ r.wait <= p.wait
  <2>1. p.wait \in Nat
    BY DEF PendingBatch
  <2>2. Monus(p.wait, d) \in Nat /\ Monus(p.wait, d) <= p.wait
    BY <2>1 DEF Monus
  <2> QED BY <2>2 DEF PendingBatch
<1>4. \A i \in DOMAIN s : Waited(s, d)[i] = [s[i] EXCEPT !.wait = Monus(@, d)]
  BY DEF Waited
<1>5. DOMAIN Waited(s, d) = DOMAIN s
  BY DEF Waited
<1>6. Waited(s, d) \in Seq(PendingBatch) /\ Len(Waited(s, d)) = Len(s)
  <2>1. Waited(s, d) = [i \in 1..Len(s) |-> [s[i] EXCEPT !.wait = Monus(@, d)]]
    BY <1>1 DEF Waited
  <2>2. \A i \in 1..Len(s) : [s[i] EXCEPT !.wait = Monus(@, d)] \in PendingBatch
    BY <1>1, <1>2, <1>3
  <2> QED BY <1>1, <2>1, <2>2
<1> QED BY <1>2, <1>3, <1>4, <1>5, <1>6

LEMMA BatchesInAppend ==
  ASSUME NEW s \in Seq(PendingBatch), NEW x \in PendingBatch
  PROVE  BatchesIn(Append(s, x)) = BatchesIn(s) \cup {x.batch}
<1>1. Append(s, x) \in Seq(PendingBatch) /\ Len(Append(s, x)) = Len(s) + 1
  BY AppendProperties
<1>2. Len(s) \in Nat /\ DOMAIN s = 1..Len(s)
      /\ DOMAIN Append(s, x) = 1..Len(s) + 1
  BY <1>1, LenProperties
<1>3. /\ \A i \in 1..Len(s) : Append(s, x)[i] = s[i]
      /\ Append(s, x)[Len(s) + 1] = x
  BY AppendProperties
<1>4. \A i : i \in 1..Len(s) + 1 <=> i \in 1..Len(s) \/ i = Len(s) + 1
  BY <1>2
<1> QED BY <1>2, <1>3, <1>4 DEF BatchesIn

LEMMA BatchesInTail ==
  ASSUME NEW s \in Seq(PendingBatch), s # <<>>
  PROVE  BatchesIn(s) = BatchesIn(Tail(s)) \cup {Head(s).batch}
<1>1. Len(s) \in Nat \ {0} /\ DOMAIN s = 1..Len(s) /\ Head(s) = s[1]
  BY LenProperties, EmptySeq
<1>2. /\ DOMAIN Tail(s) = 1..Len(s) - 1
      /\ \A i \in 1..Len(s) - 1 : Tail(s)[i] = s[i + 1]
  BY HeadTailProperties, LenProperties
<1>3. \A i \in 1..Len(s) : i = 1 \/ i - 1 \in 1..Len(s) - 1
  BY <1>1
<1>4. BatchesIn(s) \subseteq BatchesIn(Tail(s)) \cup {Head(s).batch}
  <2> SUFFICES ASSUME NEW i \in 1..Len(s), i # 1
               PROVE  s[i].batch \in BatchesIn(Tail(s))
    BY <1>1 DEF BatchesIn
  <2>1. i - 1 \in DOMAIN Tail(s) /\ Tail(s)[i - 1] = s[i]
    BY <1>1, <1>2, <1>3
  <2> QED BY <2>1 DEF BatchesIn
<1>5. BatchesIn(Tail(s)) \subseteq BatchesIn(s)
  <2> SUFFICES ASSUME NEW i \in 1..Len(s) - 1
               PROVE  Tail(s)[i].batch \in BatchesIn(s)
    BY <1>2 DEF BatchesIn
  <2>1. i + 1 \in DOMAIN s /\ Tail(s)[i] = s[i + 1]
    BY <1>1, <1>2
  <2> QED BY <2>1 DEF BatchesIn
<1>6. Head(s).batch \in BatchesIn(s)
  BY <1>1 DEF BatchesIn
<1> QED BY <1>4, <1>5, <1>6

LEMMA BatchesInWaited ==
  ASSUME NEW s \in Seq(PendingBatch), NEW d \in Nat
  PROVE  BatchesIn(Waited(s, d)) = BatchesIn(s)
<1> DEFINE w == Waited(s, d)
<1>1. DOMAIN w = DOMAIN s /\ \A i \in DOMAIN s : w[i].batch = s[i].batch
  BY WaitedType
<1> HIDE DEF w
<1>2. {w[i].batch : i \in DOMAIN w} = {s[i].batch : i \in DOMAIN s}
  BY <1>1
<1> QED BY <1>2 DEF BatchesIn, w
------------------------------------------------------------------------------
\* The operations keep the types of the scheduler's state.
LEMMA EnqueueType ==
  ASSUME RetryTypeOK, Enqueue
  PROVE  RetryTypeOK' /\ held' = None
<1>1. held \in PendingBatch /\ held' = None
  BY DEF Enqueue, RetryTypeOK
<1>2. CASE MaxAttempts = 0
  BY <1>1, <1>2 DEF Enqueue, RetryTypeOK, PendingBatch
<1>3. CASE MaxAttempts # 0
  <2> DEFINE kept == IF Len(q) >= MaxQueue THEN Tail(q) ELSE q
  <2>1. PICK w \in Backoff(1) :
          /\ q' = Append(kept, [held EXCEPT !.attempts = 1, !.wait = w])
          /\ givenUp' = IF Len(q) >= MaxQueue THEN givenUp \cup {Head(q).batch}
                                              ELSE givenUp
    BY <1>3 DEF Enqueue
  <2>2. w \in Nat
    BY BackoffType
  <2>3. [held EXCEPT !.attempts = 1, !.wait = w] \in PendingBatch
    BY <1>1, <2>2 DEF PendingBatch
  <2>4. kept \in Seq(PendingBatch)
    BY RetryAssumption, HeadTailProperties, EmptySeq DEF RetryTypeOK
  <2>5. Len(q) >= MaxQueue => Head(q).batch \in Batch
    <3> SUFFICES ASSUME Len(q) >= MaxQueue PROVE Head(q) \in PendingBatch
      BY DEF PendingBatch
    <3> QED BY RetryAssumption, HeadTailProperties, EmptySeq DEF RetryTypeOK
  <2>6. q' \in Seq(PendingBatch)
    BY <2>1, <2>3, <2>4, AppendProperties
  <2>7. givenUp' \in SUBSET Batch
    BY <2>1, <2>5 DEF RetryTypeOK
  <2> QED BY <1>1, <2>6, <2>7 DEF RetryTypeOK
<1> QED BY <1>2, <1>3

LEMMA RequeueType ==
  ASSUME RetryTypeOK, Requeue
  PROVE  RetryTypeOK' /\ held' = None
<1>1. held \in PendingBatch /\ held' = None
  BY DEF Requeue, RetryTypeOK
<1>2. CASE held.attempts >= MaxAttempts
  BY <1>1, <1>2 DEF Requeue, RetryTypeOK, PendingBatch
<1>3. CASE ~(held.attempts >= MaxAttempts)
  <2>1. PICK w \in Backoff(held.attempts + 1) :
          /\ q' = Append(q, [held EXCEPT !.attempts = @ + 1, !.wait = w])
          /\ UNCHANGED givenUp
    BY <1>3 DEF Requeue
  <2>2. held.attempts + 1 \in Nat \ {0}
    BY <1>1 DEF PendingBatch
  <2>3. w \in Nat
    BY <2>2, BackoffType
  <2>4. [held EXCEPT !.attempts = @ + 1, !.wait = w] \in PendingBatch
    BY <1>1, <2>2, <2>3 DEF PendingBatch
  <2> QED BY <1>1, <2>1, <2>4, AppendProperties DEF RetryTypeOK
<1> QED BY <1>2, <1>3

LEMMA PopReadyType ==
  ASSUME RetryTypeOK, PopReady
  PROVE  RetryTypeOK' /\ held' = Head(q) /\ held' \in PendingBatch
BY HeadTailProperties DEF RetryTypeOK, PopReady, FrontReady
------------------------------------------------------------------------------
\* The batch in hand goes back to the queue or is given up, and so is the one
\* that a full queue loses: none vanishes.  The queue stays within its limit.
LEMMA EnqueueKeeps ==
  ASSUME RetryTypeOK, Enqueue
  PROVE  /\ BatchesIn(q') \cup givenUp' = BatchesIn(q) \cup givenUp \cup {held.batch}
         /\ BatchesIn(q') \subseteq BatchesIn(q) \cup {held.batch}
         /\ Len(q) <= MaxQueue => Len(q') <= MaxQueue
<1>1. held \in PendingBatch /\ q \in Seq(PendingBatch) /\ Len(q) \in Nat
  BY LenProperties DEF Enqueue, RetryTypeOK
<1>2. CASE MaxAttempts = 0
  BY <1>2 DEF Enqueue
<1>3. CASE MaxAttempts # 0
  <2> DEFINE full == Len(q) >= MaxQueue
             kept == IF full THEN Tail(q) ELSE q
  <2>1. PICK w \in Backoff(1) :
          /\ q' = Append(kept, [held EXCEPT !.attempts = 1, !.wait = w])
          /\ givenUp' = IF full THEN givenUp \cup {Head(q).batch} ELSE givenUp
    BY <1>3 DEF Enqueue
  <2> DEFINE x == [held EXCEPT !.attempts = 1, !.wait = w]
  <2>2. w \in Nat
    BY BackoffType
  <2>3. x \in PendingBatch /\ x.batch = held.batch
    BY <1>1, <2>2 DEF PendingBatch
  <2>4. full => q # <<>>
    BY RetryAssumption, EmptySeq
  <2>5. kept \in Seq(PendingBatch)
        /\ Len(kept) = IF full THEN Len(q) - 1 ELSE Len(q)
    BY <1>1, <2>4, HeadTailProperties
  <2>6. BatchesIn(q) = BatchesIn(kept) \cup (IF full THEN {Head(q).batch} ELSE {})
    BY <1>1, <2>4, BatchesInTail
  <2>7. Len(q) <= MaxQueue => Len(kept) + 1 <= MaxQueue
    BY <1>1, <2>5, RetryAssumption
  <2>8. q' = Append(kept, x)
    BY <2>1
  <2> HIDE DEF full, kept, x
  <2>9. BatchesIn(q') = BatchesIn(kept) \cup {held.batch}
        /\ Len(q') = Len(kept) + 1
    BY <2>3, <2>5, <2>8, BatchesInAppend, AppendProperties
  <2> QED BY <2>1, <2>6, <2>7, <2>9
<1> QED BY <1>2, <1>3

LEMMA RequeueKeeps ==
  ASSUME RetryTypeOK, Requeue
  PROVE  /\ BatchesIn(q') \cup givenUp' = BatchesIn(q) \cup givenUp \cup {held.batch}
         /\ BatchesIn(q') \subseteq BatchesIn(q) \cup {held.batch}
         /\ Len(q) < MaxQueue => Len(q') <= MaxQueue
<1>1. held \in PendingBatch /\ q \in Seq(PendingBatch) /\ Len(q) \in Nat
  BY LenProperties DEF Requeue, RetryTypeOK
<1>2. CASE held.attempts >= MaxAttempts
  <2>1. UNCHANGED q /\ givenUp' = givenUp \cup {held.batch}
    BY <1>2 DEF Requeue
  <2>2. Len(q) < MaxQueue => Len(q) <= MaxQueue
    BY <1>1, RetryAssumption
  <2> QED BY <2>1, <2>2
<1>3. CASE ~(held.attempts >= MaxAttempts)
  <2>1. PICK w \in Backoff(held.attempts + 1) :
          /\ q' = Append(q, [held EXCEPT !.attempts = @ + 1, !.wait = w])
          /\ UNCHANGED givenUp
    BY <1>3 DEF Requeue
  <2> DEFINE x == [held EXCEPT !.attempts = @ + 1, !.wait = w]
  <2>2. held.attempts + 1 \in Nat \ {0}
    BY <1>1 DEF PendingBatch
  <2>3. w \in Nat
    BY <2>2, BackoffType
  <2>4. x \in PendingBatch /\ x.batch = held.batch
    BY <1>1, <2>2, <2>3 DEF PendingBatch
  <2>5. q' = Append(q, x)
    BY <2>1
  <2> HIDE DEF x
  <2>6. BatchesIn(q') = BatchesIn(q) \cup {held.batch} /\ Len(q') = Len(q) + 1
    BY <1>1, <2>4, <2>5, BatchesInAppend, AppendProperties
  <2>7. Len(q) < MaxQueue => Len(q) + 1 <= MaxQueue
    BY <1>1, RetryAssumption
  <2> QED BY <2>1, <2>6, <2>7
<1> QED BY <1>2, <1>3
------------------------------------------------------------------------------
\* No two entries of a queue hold the same batch.
Distinct(s) == \A i, j \in DOMAIN s : s[i].batch = s[j].batch => i = j

LEMMA DistinctAppend ==
  ASSUME NEW s \in Seq(PendingBatch), Distinct(s),
         NEW x \in PendingBatch, x.batch \notin BatchesIn(s)
  PROVE  Distinct(Append(s, x))
<1>1. DOMAIN Append(s, x) = 1..Len(s) + 1 /\ DOMAIN s = 1..Len(s)
      /\ Len(s) \in Nat
  BY AppendProperties, LenProperties
<1>2. \A i \in 1..Len(s) + 1 : \/ i \in DOMAIN s /\ Append(s, x)[i] = s[i]
                               \/ i = Len(s) + 1 /\ Append(s, x)[i] = x
  BY <1>1, AppendProperties
<1>3. \A i \in DOMAIN s : s[i].batch # x.batch
  BY DEF BatchesIn
<1> QED BY <1>1, <1>2, <1>3 DEF Distinct

LEMMA DistinctTail ==
  ASSUME NEW s \in Seq(PendingBatch), Distinct(s), s # <<>>
  PROVE  Distinct(Tail(s)) /\ Head(s).batch \notin BatchesIn(Tail(s))
<1>1. Len(s) \in Nat \ {0} /\ DOMAIN s = 1..Len(s) /\ Head(s) = s[1]
  BY LenProperties, EmptySeq
<1>2. /\ DOMAIN Tail(s) = 1..Len(s) - 1
      /\ \A i \in 1..Len(s) - 1 : Tail(s)[i] = s[i + 1]
  BY HeadTailProperties, LenProperties
<1>3. \A i \in 1..Len(s) - 1 : i + 1 \in DOMAIN s /\ i + 1 # 1
  BY <1>1
<1>4. Distinct(Tail(s))
  BY <1>1, <1>2, <1>3 DEF Distinct
<1>5. \A i \in 1..Len(s) - 1 : Tail(s)[i].batch # Head(s).batch
  BY <1>1, <1>2, <1>3 DEF Distinct
<1> QED BY <1>2, <1>4, <1>5 DEF BatchesIn

LEMMA DistinctWaited ==
  ASSUME NEW s \in Seq(PendingBatch), NEW d \in Nat, Distinct(s)
  PROVE  Distinct(Waited(s, d))
<1> DEFINE w == Waited(s, d)
<1>1. DOMAIN w = DOMAIN s /\ \A i \in DOMAIN s : w[i].batch = s[i].batch
  BY WaitedType
<1> HIDE DEF w
<1>2. Distinct(w)
  BY <1>1 DEF Distinct
<1> QED BY <1>2 DEF w

\* A failed send never leaves a batch in two places: in the queue twice, or in
\* the queue and given up.
LEMMA EnqueueApart ==
  ASSUME RetryTypeOK, Enqueue, Distinct(q), BatchesIn(q) \cap givenUp = {},
         held.batch \notin BatchesIn(q) \cup givenUp
  PROVE  Distinct(q') /\ BatchesIn(q') \cap givenUp' = {}
<1>1. held \in PendingBatch /\ q \in Seq(PendingBatch) /\ Len(q) \in Nat
  BY LenProperties DEF Enqueue, RetryTypeOK
<1>2. CASE MaxAttempts = 0
  BY <1>2 DEF Enqueue
<1>3. CASE MaxAttempts # 0
  <2> DEFINE full == Len(q) >= MaxQueue
             kept == IF full THEN Tail(q) ELSE q
  <2>1. PICK w \in Backoff(1) :
          /\ q' = Append(kept, [held EXCEPT !.attempts = 1, !.wait = w])
          /\ givenUp' = IF full THEN givenUp \cup {Head(q).batch} ELSE givenUp
    BY <1>3 DEF Enqueue
  <2> DEFINE x == [held EXCEPT !.attempts = 1, !.wait = w]
  <2>2. w \in Nat
    BY BackoffType
  <2>3. x \in PendingBatch /\ x.batch = held.batch
    BY <1>1, <2>2 DEF PendingBatch
  <2>4. full => q # <<>>
    BY RetryAssumption, EmptySeq
  <2>5. kept \in Seq(PendingBatch) /\ Distinct(kept)
    BY <1>1, <2>4, HeadTailProperties, DistinctTail
  <2>6. BatchesIn(q) = BatchesIn(kept) \cup (IF full THEN {Head(q).batch} ELSE {})
    BY <1>1, <2>4, BatchesInTail
  <2>7. full => Head(q).batch \notin BatchesIn(kept)
    BY <1>1, <2>4, DistinctTail
  <2>8. q' = Append(kept, x)
    BY <2>1
  <2> HIDE DEF full, kept, x
  <2>9. Distinct(q') /\ BatchesIn(q') = BatchesIn(kept) \cup {held.batch}
    BY <2>3, <2>5, <2>6, <2>8, BatchesInAppend, DistinctAppend
  <2> QED BY <2>1, <2>6, <2>7, <2>9
<1> QED BY <1>2, <1>3

LEMMA RequeueApart ==
  ASSUME RetryTypeOK, Requeue, Distinct(q), BatchesIn(q) \cap givenUp = {},
         held.batch \notin BatchesIn(q) \cup givenUp
  PROVE  Distinct(q') /\ BatchesIn(q') \cap givenUp' = {}
<1>1. held \in PendingBatch /\ q \in Seq(PendingBatch)
  BY DEF Requeue, RetryTypeOK
<1>2. CASE held.attempts >= MaxAttempts
  BY <1>2 DEF Requeue
<1>3. CASE ~(held.attempts >= MaxAttempts)
  <2>1. PICK w \in Backoff(held.attempts + 1) :
          /\ q' = Append(q, [held EXCEPT !.attempts = @ + 1, !.wait = w])
          /\ UNCHANGED givenUp
    BY <1>3 DEF Requeue
  <2> DEFINE x == [held EXCEPT !.attempts = @ + 1, !.wait = w]
  <2>2. held.attempts + 1 \in Nat \ {0}
    BY <1>1 DEF PendingBatch
  <2>3. w \in Nat
    BY <2>2, BackoffType
  <2>4. x \in PendingBatch /\ x.batch = held.batch
    BY <1>1, <2>2, <2>3 DEF PendingBatch
  <2>5. q' = Append(q, x)
    BY <2>1
  <2> HIDE DEF x
  <2> QED BY <1>1, <2>1, <2>4, <2>5, BatchesInAppend, DistinctAppend
<1> QED BY <1>2, <1>3
==============================================================================
