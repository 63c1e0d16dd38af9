---------------------------- MODULE RouterProofs ----------------------------
(***************************************************************************)
(* What Router guarantees for every set of sinks and configurations: its   *)
(* types, and that it commits exactly when the acknowledgement policy says *)
(* so, at an offset a deciding sink stands for.  The inductive invariant   *)
(* says what the locals of the send have recorded of the answers so far.   *)
(***************************************************************************)
EXTENDS Router, FiniteSetTheorems, SequenceTheorems, TLAPS

PrimaryTurns == DOMAIN results \cap Answered(cfg.primary)

Tallied ==
  /\ Len(results) <= Len(decision)
  /\ anyOk <=> Acked # {}
  /\ allOk <=> Acked = DOMAIN results
  /\ primaryOk => \E k \in Acked \cap Answered(cfg.primary) :
                     results[k].commit = primaryCommit
  /\ cfg.policy = "Primary" /\ PrimaryTurns # {} /\ PrimaryTurns \subseteq Acked
       => primaryOk
  /\ anyCommit # None => \E k \in Acked : results[k].commit = anyCommit
  /\ anyCommit = None => \A k \in Acked : results[k].commit = None

Returned ==
  \/ decision = <<>> /\ Acked = {} /\ commit = None
  \/ /\ decision # <<>> /\ Tallied
     /\ Len(results) = Len(decision)
     /\ commit = Verdict

SendInv ==
  /\ pc = "sending" => decision # <<>> /\ Tallied
  /\ pc = "returned" => Returned

------------------------------------------------------------------------------
\* Each policy and rule comes from a configuration the router may have.
LEMMA ConfigTypes ==
  ASSUME RouterAssumption, TypeOK
  PROVE  /\ cfg.policy \in AckPolicy
         /\ cfg.defaults \in Seq(Names)
         /\ cfg.rules \in Seq(RouteRule)
BY DEF RouterAssumption, TypeOK, RouterConfig

\* A record is routed to a list of names.
LEMMA ChosenTypes ==
  ASSUME RouterAssumption, TypeOK, NEW r, NEW names \in Chosen(r)
  PROVE  names \in Seq(Names)
<1>1. CASE names = cfg.defaults
  BY <1>1, ConfigTypes
<1>2. ASSUME NEW j \in DOMAIN cfg.rules, names = cfg.rules[j].sinks
      PROVE  names \in Seq(Names)
  <2>1. cfg.rules[j] \in RouteRule
    BY ConfigTypes, LenProperties, ElementOfSeq
  <2>. QED  BY <1>2, <2>1 DEF RouteRule
<1>. QED  BY <1>1, <1>2 DEF Chosen

\* The sinks of a decision are sinks.
LEMMA DecisionTypes ==
  ASSUME RouterAssumption, TypeOK, NEW r \in SUBSET Labels,
         NEW names \in Chosen(r), NEW o \in Resolved(names)
  PROVE  [k \in DOMAIN o |-> registered[names[o[k]]]] \in Seq(Sinks)
<1> DEFINE kept == {k \in DOMAIN names : registered[names[k]] # None}
<1>1. names \in Seq(Names)
  BY ChosenTypes
<1>2. /\ IsFiniteSet(kept)
      /\ Cardinality(kept) \in Nat
  <2>1. DOMAIN names = 1..Len(names) /\ Len(names) \in Nat
    BY <1>1
  <2>2. IsFiniteSet(DOMAIN names)
    BY <2>1, FS_Interval
  <2>. QED  BY <2>2, FS_Subset, FS_CardinalityType
<1>3. o \in [1..Cardinality(kept) -> kept]
  BY DEF Resolved
<1>4. \A k \in DOMAIN o : registered[names[o[k]]] \in Sinks
  BY <1>1, <1>3 DEF TypeOK
<1>5. [k \in DOMAIN o |-> registered[names[o[k]]]]
        \in [1..Cardinality(kept) -> Sinks]
  BY <1>3, <1>4
<1>. HIDE DEF kept
<1>. QED  BY <1>2, <1>5, SeqDef

\* A verdict is an offset or none.
LEMMA VerdictType ==
  ASSUME RouterAssumption, TypeOK
  PROVE  Verdict \in Offset
<1>1. cfg.policy \in AckPolicy
  BY ConfigTypes
<1>. QED  BY <1>1 DEF TypeOK, Verdict, Explicit, AckPolicy, Offset

\* Every step keeps the types.
LEMMA TypeStep == RouterAssumption /\ TypeOK /\ [Next]_vars => TypeOK'
<1>. SUFFICES ASSUME RouterAssumption, TypeOK, [Next]_vars
             PROVE  TypeOK'
  OBVIOUS
<1>. USE DEF TypeOK
<1>1. ASSUME NEW s \in Sinks, AddSink(s) PROVE TypeOK'
  BY <1>1 DEF AddSink, RouterAssumption, routed, tally
<1>2. CASE Validate
  BY <1>2 DEF Validate, config, routed, tally
<1>3. CASE Decide
  <2>1. PICK r \in SUBSET Labels :
          /\ record' = r
          /\ \E names \in Chosen(r) : \E o \in Resolved(names) :
               /\ decision' = [k \in DOMAIN o |-> registered[names[o[k]]]]
               /\ usesPrimary' = \E k \in DOMAIN o : IsPrimary(names[o[k]])
    BY <1>3 DEF Decide
  <2>2. decision' \in Seq(Sinks)
    BY <2>1, DecisionTypes
  <2>3. usesPrimary' \in BOOLEAN
    BY <2>1
  <2>4. /\ record' \in SUBSET Labels /\ pc' = "decided"
        /\ UNCHANGED <<config, tally, end, results, commit>>
    BY <1>3, <2>1 DEF Decide
  <2>. QED  BY <2>2, <2>3, <2>4 DEF config, tally
<1>4. CASE StartSend
  <2>1. PICK e \in Ends :
          /\ end' = e /\ commit' = None
          /\ results' = IF decision = <<>> THEN <<Refusal>> ELSE <<>>
          /\ anyOk' = FALSE /\ allOk' = TRUE /\ primaryOk' = FALSE
          /\ primaryCommit' = None /\ anyCommit' = None
          /\ pc' = IF decision = <<>> THEN "returned" ELSE "sending"
          /\ UNCHANGED <<config, routed>>
    BY <1>4 DEF StartSend
  <2>2. Refusal \in SendResult
    BY DEF Refusal, SendResult, Offset
  <2>3. results' \in Seq(SendResult)
    BY <2>1, <2>2
  <2>. QED  BY <2>1, <2>3 DEF RouterAssumption, config, routed, Offset
<1>5. CASE SkipSink
  <2>1. Refusal \in SendResult
    BY DEF Refusal, SendResult, Offset
  <2>2. results' \in Seq(SendResult)
    BY <1>5, <2>1 DEF SkipSink
  <2>3. /\ allOk' = FALSE
        /\ UNCHANGED <<config, routed, pc, end, commit,
                       anyOk, primaryOk, primaryCommit, anyCommit>>
    BY <1>5 DEF SkipSink
  <2>. QED  BY <2>2, <2>3 DEF config, routed
<1>6. CASE SendNext
  <2>1. PICK res \in Answers(end) :
          /\ results' = Append(results, res)
          /\ anyOk' = (anyOk \/ res.ok)
          /\ allOk' = (allOk /\ res.ok)
          /\ anyCommit' = IF res.ok /\ res.commit # None THEN res.commit
                                                         ELSE anyCommit
          /\ primaryOk' = IF IsPrimary(NameOf[Turn]) THEN res.ok ELSE primaryOk
          /\ primaryCommit' = IF IsPrimary(NameOf[Turn]) THEN res.commit
                                                         ELSE primaryCommit
    BY <1>6 DEF SendNext
  <2>2. res \in SendResult
    BY DEF Answers, SendResult, Offset
  <2>3. res.ok \in BOOLEAN /\ res.commit \in Offset
    BY <2>2 DEF SendResult
  <2>4. /\ results' \in Seq(SendResult)
        /\ anyCommit' \in Offset /\ primaryCommit' \in Offset
    BY <2>1, <2>2, <2>3
  <2>5. anyOk' \in BOOLEAN /\ allOk' \in BOOLEAN /\ primaryOk' \in BOOLEAN
    BY <2>1, <2>3, Zenon
  <2>6. UNCHANGED <<config, routed, pc, end, commit>>
    BY <1>6 DEF SendNext
  <2>. QED  BY <2>4, <2>5, <2>6 DEF config, routed
<1>7. CASE DecideCommit
  BY <1>7, VerdictType DEF DecideCommit, config, routed, tally
<1>8. CASE NextBatch
  BY <1>8 DEF NextBatch, config, routed, tally
<1>9. CASE UNCHANGED vars
  BY <1>9 DEF vars, config, routed, tally
<1>. QED  BY <1>1, <1>2, <1>3, <1>4, <1>5, <1>6, <1>7, <1>8, <1>9 DEF Next

\* Router.hpp:45: the router keeps its types for every set of sinks, names and
\* labels and every set of configurations over them.
THEOREM TypeCorrect == Spec => []TypeOK
<1>1. ASSUME Init PROVE TypeOK
  <2>1. decision \in Seq(Sinks) /\ results \in Seq(SendResult)
    BY <1>1 DEF Init
  <2>2. /\ cfg \in Configs /\ registered \in [Names -> Sinks \cup {None}]
        /\ pc = "setup" /\ record \in SUBSET Labels /\ usesPrimary \in BOOLEAN
    BY <1>1 DEF Init
  <2>3. /\ end \in Nat /\ commit \in Offset
        /\ anyOk \in BOOLEAN /\ allOk \in BOOLEAN /\ primaryOk \in BOOLEAN
        /\ primaryCommit \in Offset /\ anyCommit \in Offset
    BY <1>1 DEF Init, Offset
  <2>. QED  BY <2>1, <2>2, <2>3 DEF TypeOK
<1>. QED  BY <1>1, TypeStep, RouterAssumption, PTL DEF Spec

------------------------------------------------------------------------------
\* What an answer adds to those there are.
LEMMA Answering ==
  ASSUME TypeOK, NEW res \in SendResult, results' = Append(results, res)
  PROVE  /\ Len(results) \in Nat /\ Len(results') = Len(results) + 1
         /\ DOMAIN results = 1..Len(results)
         /\ DOMAIN results' = 1..Len(results) + 1
         /\ \A k \in DOMAIN results : results'[k] = results[k]
         /\ results'[Len(results) + 1] = res
BY DEF TypeOK

\* The sinks that acknowledged, after one more answer.
LEMMA AckedGrows ==
  ASSUME TypeOK, NEW res \in SendResult, results' = Append(results, res)
  PROVE  Acked' = Acked \cup (IF res.ok THEN {Len(results) + 1} ELSE {})
BY Answering DEF Acked

\* The tally is right after a sink that was not ready,
LEMMA SkipKeepsTally ==
  ASSUME TypeOK, Tallied, SkipSink
  PROVE  Tallied'
<1>. DEFINE next == Len(results) + 1
<1>1. /\ results' = Append(results, Refusal) /\ allOk' = FALSE
      /\ Len(results) < Len(decision)
      /\ UNCHANGED <<config, routed, anyOk, primaryOk, primaryCommit, anyCommit>>
  BY DEF SkipSink
<1>2. Refusal \in SendResult /\ Refusal.ok = FALSE
  BY DEF Refusal, SendResult, Offset
<1>3. Acked' = Acked
  BY <1>1, <1>2, AckedGrows
<1>4. /\ DOMAIN results' = DOMAIN results \cup {next} /\ next \notin DOMAIN results
      /\ \A k \in DOMAIN results : results'[k] = results[k]
      /\ Len(results)' = next /\ next <= Len(decision)
  <2>1. Len(results) \in Nat /\ Len(decision) \in Nat
    BY DEF TypeOK
  <2>. QED  BY <1>1, <1>2, <2>1, Answering
<1>5. Acked \subseteq DOMAIN results
  BY DEF Acked
<1>6. decision' = decision /\ cfg' = cfg
  BY <1>1 DEF config, routed
<1>7. Answered(cfg.primary)' = Answered(cfg.primary)
  BY <1>6 DEF Answered
<1>. HIDE DEF next
<1>8. PrimaryTurns \subseteq PrimaryTurns'
  BY <1>4, <1>7 DEF PrimaryTurns
<1>9. PrimaryTurns' # {} /\ PrimaryTurns' \subseteq Acked'
        => PrimaryTurns # {} /\ PrimaryTurns \subseteq Acked
  BY <1>3, <1>4, <1>5, <1>7 DEF PrimaryTurns
<1>. QED  BY <1>1, <1>3, <1>4, <1>5, <1>6, <1>7, <1>9 DEF Tallied

\* and after a sink that answered.
LEMMA SendKeepsTally ==
  ASSUME TypeOK, Tallied, SendNext
  PROVE  Tallied'
<1>. DEFINE next == Len(results) + 1
<1>1. PICK res \in Answers(end) :
        /\ results' = Append(results, res)
        /\ anyOk' = (anyOk \/ res.ok)
        /\ allOk' = (allOk /\ res.ok)
        /\ anyCommit' = IF res.ok /\ res.commit # None THEN res.commit
                                                       ELSE anyCommit
        /\ primaryOk' = IF IsPrimary(NameOf[Turn]) THEN res.ok ELSE primaryOk
        /\ primaryCommit' = IF IsPrimary(NameOf[Turn]) THEN res.commit
                                                       ELSE primaryCommit
  BY DEF SendNext
<1>2. res \in SendResult /\ res.ok \in BOOLEAN
  BY DEF TypeOK, Answers, SendResult, Offset
<1>3. Len(results) < Len(decision) /\ decision' = decision /\ cfg' = cfg
  BY DEF SendNext, config, routed
<1>4. Acked' = Acked \cup (IF res.ok THEN {next} ELSE {})
  BY <1>1, <1>2, AckedGrows
<1>5. /\ DOMAIN results' = DOMAIN results \cup {next} /\ next \notin DOMAIN results
      /\ \A k \in DOMAIN results : results'[k] = results[k]
      /\ results'[next] = res
      /\ Len(results)' = next /\ next <= Len(decision)
      /\ next \in DOMAIN decision
  <2>1. /\ Len(results) \in Nat /\ Len(decision) \in Nat
        /\ DOMAIN decision = 1..Len(decision)
    BY DEF TypeOK
  <2>. QED  BY <1>1, <1>2, <1>3, <2>1, Answering
<1>6. Acked \subseteq DOMAIN results
  BY DEF Acked
<1>7. Answered(cfg.primary)' = Answered(cfg.primary)
  BY <1>3 DEF Answered
<1>8. IsPrimary(NameOf[Turn])
        <=> cfg.policy = "Primary" /\ next \in Answered(cfg.primary)
  BY <1>5 DEF IsPrimary, Turn, Answered
<1>. HIDE DEF next
<1>9. Len(results)' <= Len(decision)'
  BY <1>3, <1>5
<1>10. (anyOk <=> Acked # {})'
  BY <1>1, <1>2, <1>4 DEF Tallied
<1>11. (allOk <=> Acked = DOMAIN results)'
  BY <1>1, <1>2, <1>4, <1>5, <1>6 DEF Tallied
<1>12. (primaryOk => \E k \in Acked \cap Answered(cfg.primary) :
                       results[k].commit = primaryCommit)'
  <2>1. CASE IsPrimary(NameOf[Turn])
    BY <1>1, <1>4, <1>5, <1>7, <1>8, <2>1
  <2>2. CASE ~IsPrimary(NameOf[Turn])
    BY <1>1, <1>4, <1>5, <1>6, <1>7, <2>2 DEF Tallied
  <2>. QED  BY <2>1, <2>2
<1>13. (cfg.policy = "Primary" /\ PrimaryTurns # {} /\ PrimaryTurns \subseteq Acked
         => primaryOk)'
  <2>1. CASE IsPrimary(NameOf[Turn])
    BY <1>1, <1>2, <1>4, <1>5, <1>6, <1>7, <1>8, <2>1 DEF PrimaryTurns
  <2>2. CASE ~IsPrimary(NameOf[Turn])
    BY <1>1, <1>3, <1>4, <1>5, <1>6, <1>7, <1>8, <2>2 DEF PrimaryTurns, Tallied
  <2>. QED  BY <2>1, <2>2
<1>14. (anyCommit # None => \E k \in Acked : results[k].commit = anyCommit)'
  BY <1>1, <1>4, <1>5, <1>6 DEF Tallied
<1>15. (anyCommit = None => \A k \in Acked : results[k].commit = None)'
  BY <1>1, <1>4, <1>5, <1>6 DEF Tallied
<1>. QED
  BY <1>9, <1>10, <1>11, <1>12, <1>13, <1>14, <1>15 DEF Tallied

\* A send starts with an empty tally.
LEMMA StartTallies ==
  ASSUME TypeOK, TypeOK', StartSend
  PROVE  SendInv'
<1>1. /\ decision' = decision /\ cfg' = cfg
      /\ results' = IF decision = <<>> THEN <<Refusal>> ELSE <<>>
      /\ commit' = None
      /\ anyOk' = FALSE /\ allOk' = TRUE /\ primaryOk' = FALSE
      /\ primaryCommit' = None /\ anyCommit' = None
      /\ pc' = IF decision = <<>> THEN "returned" ELSE "sending"
  BY DEF StartSend, config, routed
<1>2. CASE decision = <<>>
  <2>1. Acked' = {}
    BY <1>1, <1>2 DEF Acked, Refusal
  <2>. QED  BY <1>1, <1>2, <2>1 DEF SendInv, Returned
<1>3. CASE decision # <<>>
  <2>1. DOMAIN results' = {} /\ Len(results') = 0
    BY <1>1, <1>3
  <2>2. Acked' = {}
    BY <2>1 DEF Acked
  <2>3. Len(decision) \in Nat
    BY DEF TypeOK
  <2>4. Tallied'
    BY <1>1, <2>1, <2>2, <2>3 DEF Tallied, PrimaryTurns
  <2>. QED  BY <1>1, <1>3, <2>4 DEF SendInv
<1>. QED  BY <1>2, <1>3

\* Every step keeps the send invariant.
LEMMA SendStep == TypeOK /\ TypeOK' /\ SendInv /\ [Next]_vars => SendInv'
<1>. SUFFICES ASSUME TypeOK, TypeOK', SendInv, [Next]_vars
             PROVE  SendInv'
  OBVIOUS
<1>1. ASSUME NEW s \in Sinks, AddSink(s) PROVE SendInv'
  BY <1>1 DEF AddSink, SendInv
<1>2. CASE Validate
  BY <1>2 DEF Validate, SendInv
<1>3. CASE Decide
  BY <1>3 DEF Decide, SendInv
<1>4. CASE StartSend
  BY <1>4, StartTallies
<1>5. CASE SkipSink
  BY <1>5, SkipKeepsTally DEF SkipSink, SendInv, routed
<1>6. CASE SendNext
  BY <1>6, SendKeepsTally DEF SendNext, SendInv, routed
<1>7. CASE DecideCommit
  <2>1. /\ pc = "sending" /\ pc' = "returned" /\ Len(results) = Len(decision)
        /\ commit' = Verdict
        /\ UNCHANGED <<config, routed, tally, end, results>>
    BY <1>7 DEF DecideCommit
  <2>2. Tallied' /\ Verdict' = Verdict
    BY <2>1 DEF SendInv, Tallied, PrimaryTurns, Answered, Acked, Verdict, Explicit,
                config, routed, tally
  <2>. QED  BY <2>1, <2>2 DEF SendInv, Returned, routed
<1>8. CASE NextBatch
  BY <1>8 DEF NextBatch, SendInv
<1>9. CASE UNCHANGED vars
  BY <1>9 DEF vars, config, routed, tally, SendInv, Returned, Tallied,
              PrimaryTurns, Answered, Acked, Verdict, Explicit
<1>. QED  BY <1>1, <1>2, <1>3, <1>4, <1>5, <1>6, <1>7, <1>8, <1>9 DEF Next

\* So it holds throughout.
LEMMA SendInvariance == Spec => [](TypeOK /\ SendInv)
<1>1. Init => SendInv
  BY DEF Init, SendInv
<1>. QED
  BY <1>1, TypeCorrect, SendStep, PTL DEF Spec

\* After a send that reached its end, under each policy: what the verdict is.
LEMMA VerdictCases ==
  ASSUME RouterAssumption, TypeOK, SendInv, pc = "returned", decision # <<>>
  PROVE  /\ Tallied /\ DOMAIN results = DOMAIN decision
         /\ cfg.policy \in {"Primary", "Any", "All"}
         /\ cfg.policy = "Primary"
              => commit = IF primaryOk THEN Explicit(primaryCommit) ELSE None
         /\ cfg.policy = "Any"
              => commit = IF anyOk THEN Explicit(anyCommit) ELSE None
         /\ cfg.policy = "All" => commit = IF allOk THEN end ELSE None
         /\ end # None
<1>1. /\ Tallied /\ Len(results) = Len(decision) /\ commit = Verdict
  BY DEF SendInv, Returned
<1>2. DOMAIN results = DOMAIN decision
  <2>1. /\ DOMAIN results = 1..Len(results)
        /\ DOMAIN decision = 1..Len(decision)
    BY DEF TypeOK
  <2>. QED  BY <1>1, <2>1
<1>3. cfg.policy \in {"Primary", "Any", "All"}
  BY ConfigTypes DEF AckPolicy
<1>4. end # None
  BY DEF TypeOK, RouterAssumption
<1>. QED  BY <1>1, <1>2, <1>3, <1>4 DEF Verdict

\* Router.hpp:15-23, the comments on AckPolicy: for all sinks and configurations
\* a commit is returned only if the sinks its policy asks for acknowledged.
THEOREM CommitsJustified == Spec => []CommitJustified
<1>1. ASSUME RouterAssumption, TypeOK, SendInv PROVE CommitJustified
  <2>. SUFFICES ASSUME pc = "returned", commit # None
                PROVE /\ cfg.policy = "Primary"
                           => Acked \cap Answered(cfg.primary) # {}
                      /\ cfg.policy = "Any" => Acked # {}
                      /\ cfg.policy = "All"
                           => decision # <<>> /\ Acked = DOMAIN decision
    BY DEF CommitJustified
  <2>1. decision # <<>>
    BY <1>1 DEF SendInv, Returned
  <2>2. CASE cfg.policy = "Primary"
    BY <1>1, <2>1, <2>2, VerdictCases DEF Tallied
  <2>3. CASE cfg.policy = "Any"
    BY <1>1, <2>1, <2>3, VerdictCases DEF Tallied
  <2>4. CASE cfg.policy = "All"
    BY <1>1, <2>1, <2>4, VerdictCases DEF Tallied
  <2>. QED  BY <1>1, <2>1, <2>2, <2>3, <2>4, VerdictCases
<1>. QED  BY <1>1, RouterAssumption, SendInvariance, PTL

\* Router.hpp:15-23 again: and when those sinks acknowledged, a commit is
\* returned, for all sinks and configurations.
THEOREM CommitsGranted == Spec => []CommitGranted
<1>1. ASSUME RouterAssumption, TypeOK, SendInv PROVE CommitGranted
  <2>. SUFFICES ASSUME pc = "returned", commit = None
                PROVE /\ cfg.policy = "Primary"
                           => ~(/\ Answered(cfg.primary) # {}
                                /\ Answered(cfg.primary) \subseteq Acked)
                      /\ cfg.policy = "Any" => Acked = {}
                      /\ cfg.policy = "All"
                           => decision = <<>> \/ Acked # DOMAIN decision
    BY DEF CommitGranted
  <2>1. CASE decision = <<>>
    <3>1. Acked = {} /\ \A n : Answered(n) = {}
      BY <1>1, <2>1 DEF SendInv, Returned, Answered, Tallied
    <3>2. cfg.policy \in {"Primary", "Any", "All"}
      BY <1>1, ConfigTypes DEF AckPolicy
    <3>. QED  BY <2>1, <3>1, <3>2
  <2>2. CASE decision # <<>>
    <3>1. Explicit(primaryCommit) # None /\ Explicit(anyCommit) # None
      BY <1>1, <2>2, VerdictCases DEF Explicit
    <3>3. CASE cfg.policy = "Primary"
      <4>1. ~primaryOk /\ PrimaryTurns = Answered(cfg.primary)
        BY <1>1, <2>2, <3>1, <3>3, VerdictCases DEF PrimaryTurns, Answered
      <4>. QED  BY <1>1, <2>2, <3>3, <4>1, VerdictCases DEF Tallied
    <3>4. CASE cfg.policy = "Any"
      BY <1>1, <2>2, <3>1, <3>4, VerdictCases DEF Tallied
    <3>5. CASE cfg.policy = "All"
      BY <1>1, <2>2, <3>5, VerdictCases DEF Tallied
    <3>. QED  BY <1>1, <2>2, <3>3, <3>4, <3>5, VerdictCases
  <2>. QED  BY <2>1, <2>2
<1>. QED  BY <1>1, RouterAssumption, SendInvariance, PTL

\* Router.cpp:153: the offset committed under Primary and Any is one that an
\* acknowledging sink stands for, for all sinks, configurations and answers.
THEOREM CommitsConfirmed == Spec => []CommitConfirmed
<1>1. ASSUME RouterAssumption, TypeOK, SendInv PROVE CommitConfirmed
  <2>. SUFFICES ASSUME pc = "returned", commit # None, cfg.policy # "All"
                PROVE \E k \in Acked :
                  /\ cfg.policy = "Primary" => k \in Answered(cfg.primary)
                  /\ \/ results[k].commit = commit
                     \/ /\ results[k].commit = None /\ commit = end
                        /\ cfg.policy = "Any"
                             => \A h \in Acked : results[h].commit = None
    BY DEF CommitConfirmed
  <2>1. decision # <<>>
    BY <1>1 DEF SendInv, Returned
  <2>2. CASE cfg.policy = "Primary"
    <3>1. primaryOk /\ commit = Explicit(primaryCommit)
      BY <1>1, <2>1, <2>2, VerdictCases
    <3>2. PICK k \in Acked \cap Answered(cfg.primary) :
            results[k].commit = primaryCommit
      BY <1>1, <2>1, <3>1, VerdictCases DEF Tallied
    <3>. QED  BY <2>2, <3>1, <3>2 DEF Explicit
  <2>3. CASE cfg.policy = "Any"
    <3>1. anyOk /\ commit = Explicit(anyCommit)
      BY <1>1, <2>1, <2>3, VerdictCases
    <3>2. Acked # {}
      BY <1>1, <2>1, <3>1, VerdictCases DEF Tallied
    <3>3. CASE anyCommit # None
      <4>1. PICK k \in Acked : results[k].commit = anyCommit
        BY <1>1, <2>1, <3>3, VerdictCases DEF Tallied
      <4>. QED  BY <2>3, <3>1, <3>3, <4>1 DEF Explicit
    <3>4. CASE anyCommit = None
      <4>1. \A h \in Acked : results[h].commit = None
        BY <1>1, <2>1, <3>4, VerdictCases DEF Tallied
      <4>. QED  BY <2>3, <3>1, <3>2, <3>4, <4>1 DEF Explicit
    <3>. QED  BY <3>3, <3>4
  <2>. QED  BY <1>1, <2>1, <2>2, <2>3, VerdictCases
<1>. QED  BY <1>1, RouterAssumption, SendInvariance, PTL
------------------------------------------------------------------------------
\* An increasing function of 1..n into itself is the identity: k values at most
\* o[k] there are up to k, and n - k + 1 at least o[k] from k on.
LEMMA IncreasingIsIdentity ==
  ASSUME NEW n \in Nat, NEW o \in [1..n -> 1..n],
         \A h, k \in 1..n : h < k => o[h] < o[k],
         NEW k \in 1..n
  PROVE  o[k] = k
<1>. DEFINE low == [h \in 1..k |-> o[h]]
            high == [h \in k..n |-> o[h]]
<1>1. o[k] \in 1..n
  OBVIOUS
<1>2. low \in Injection(1..k, 1..o[k])
  <2>1. ASSUME NEW h \in 1..k PROVE h \in 1..n /\ o[h] \in 1..o[k]
    <3>1. h \in 1..n /\ (h < k \/ h = k)
      OBVIOUS
    <3>2. o[h] \in 1..n /\ o[h] <= o[k]
      BY <1>1, <3>1
    <3>. QED  BY <1>1, <3>1, <3>2
  <2>2. \A g, h \in 1..k : o[g] = o[h] => g = h
    OBVIOUS
  <2>. QED  BY <2>1, <2>2 DEF Injection, IsInjective
<1>3. high \in Injection(k..n, o[k]..n)
  <2>1. ASSUME NEW h \in k..n PROVE h \in 1..n /\ o[h] \in o[k]..n
    <3>1. h \in 1..n /\ (k < h \/ h = k)
      OBVIOUS
    <3>2. o[h] \in 1..n /\ o[k] <= o[h]
      BY <1>1, <3>1
    <3>. QED  BY <1>1, <3>1, <3>2
  <2>2. \A g, h \in k..n : o[g] = o[h] => g = h
    OBVIOUS
  <2>. QED  BY <2>1, <2>2 DEF Injection, IsInjective
<1>. HIDE DEF low, high
<1>4. /\ IsFiniteSet(1..o[k]) /\ Cardinality(1..o[k]) = o[k]
      /\ Cardinality(1..k) = k
  BY <1>1, FS_Interval
<1>5. /\ IsFiniteSet(o[k]..n) /\ Cardinality(o[k]..n) = n - o[k] + 1
      /\ Cardinality(k..n) = n - k + 1
  BY <1>1, FS_Interval
<1>6. k <= o[k]
  BY <1>2, <1>4, FS_Injection
<1>7. n - k + 1 <= n - o[k] + 1
  BY <1>3, <1>5, FS_Injection
<1>8. \A m \in 1..n : k <= m /\ n - k + 1 <= n - m + 1 => m = k
  OBVIOUS
<1>. QED  BY <1>1, <1>6, <1>7, <1>8

\* When every name of a list is registered, resolving it leaves none out.
LEMMA ResolvedWhole ==
  ASSUME NEW names \in Seq(Names), AllKnown(names), NEW o \in Resolved(names)
  PROVE  DOMAIN o = DOMAIN names /\ \A k \in DOMAIN names : o[k] = k
<1>. DEFINE n == Len(names)
            kept == {k \in DOMAIN names : registered[names[k]] # None}
<1>1. n \in Nat /\ DOMAIN names = 1..n
  BY LenProperties
<1>2. kept = 1..n
  BY <1>1 DEF AllKnown, Known
<1>3. Cardinality(1..n) = n
  BY <1>1, FS_Interval
<1>4. /\ o \in [1..Cardinality(kept) -> kept]
      /\ \A h, k \in DOMAIN o : h < k => o[h] < o[k]
  BY DEF Resolved
<1>. HIDE DEF n, kept
<1>5. o \in [1..n -> 1..n] /\ \A h, k \in 1..n : h < k => o[h] < o[k]
  BY <1>2, <1>3, <1>4
<1>. QED  BY <1>1, <1>5, IncreasingIsIdentity

\* The record that is routed goes where the configuration says.
RoutedRight ==
  \E names \in Chosen(record) :
    /\ Len(decision) = Len(names)
    /\ \A k \in DOMAIN names : NameOf[decision[k]] = names[k]
    /\ usesPrimary <=> cfg.policy = "Primary" /\ Answered(cfg.primary) # {}

\* What was validated stays valid, for sinks are never removed; and a name
\* stands for a sink of that name.
RouteInv ==
  /\ \A n \in Names : registered[n] # None => NameOf[registered[n]] = n
  /\ pc \in {"ready", "decided", "sending", "returned"} => Valid
  /\ pc \in {"decided", "sending", "returned"} => RoutedRight

\* The list of names of any record consists of registered ones.
LEMMA ChosenKnown ==
  ASSUME TypeOK, Valid, NEW r, NEW names \in Chosen(r) PROVE AllKnown(names)
BY DEF Valid, Chosen

LEMMA DecideRoutes ==
  ASSUME TypeOK, RouteInv, Decide PROVE RoutedRight'
<1>. PICK r \in SUBSET Labels :
       /\ record' = r
       /\ \E names \in Chosen(r) : \E o \in Resolved(names) :
            /\ decision' = [k \in DOMAIN o |-> registered[names[o[k]]]]
            /\ usesPrimary' = \E k \in DOMAIN o : IsPrimary(names[o[k]])
       /\ cfg' = cfg
  BY DEF Decide, config
<1>. PICK names \in Chosen(r) : \E o \in Resolved(names) :
       /\ decision' = [k \in DOMAIN o |-> registered[names[o[k]]]]
       /\ usesPrimary' = \E k \in DOMAIN o : IsPrimary(names[o[k]])
  OBVIOUS
<1>1. PICK o \in Resolved(names) :
        /\ decision' = [k \in DOMAIN o |-> registered[names[o[k]]]]
        /\ usesPrimary' = \E k \in DOMAIN o : IsPrimary(names[o[k]])
  OBVIOUS
<1>2. names \in Seq(Names) /\ AllKnown(names)
  BY ChosenTypes, ChosenKnown, RouterAssumption DEF RouteInv, Decide
<1>3. DOMAIN o = DOMAIN names /\ \A k \in DOMAIN names : o[k] = k
  BY <1>2, ResolvedWhole
<1>4. /\ Len(names) \in Nat /\ DOMAIN names = 1..Len(names)
      /\ \A k \in DOMAIN names : names[k] \in Names
  BY <1>2, LenProperties, ElementOfSeq
<1>5. /\ decision' = [k \in DOMAIN names |-> registered[names[k]]]
      /\ usesPrimary' = \E k \in DOMAIN names : IsPrimary(names[k])
  BY <1>1, <1>3
<1>6. DOMAIN decision' = DOMAIN names /\ Len(decision') = Len(names)
  BY <1>4, <1>5
<1>7. \A k \in DOMAIN names : NameOf[decision'[k]] = names[k]
  BY <1>2, <1>4, <1>5 DEF RouteInv, AllKnown, Known
<1>8. usesPrimary' <=> cfg.policy = "Primary" /\ Answered(cfg.primary)' # {}
  <2>1. Answered(cfg.primary)' = {k \in DOMAIN names : names[k] = cfg.primary}
    BY <1>6, <1>7 DEF Answered
  <2>2. usesPrimary' = \E k \in DOMAIN names :
                          cfg.policy = "Primary" /\ names[k] = cfg.primary
    BY <1>5 DEF IsPrimary
  <2>. QED  BY <2>1, <2>2
<1>9. names \in Chosen(record)'
  BY <1>1 DEF Chosen, Matches
<1>. QED  BY <1>1, <1>6, <1>7, <1>8, <1>9 DEF RoutedRight

LEMMA RouteStep == ASSUME TypeOK, RouteInv, [Next]_vars PROVE RouteInv'
<1>. USE DEF RouteInv
<1>1. ASSUME NEW s \in Sinks, AddSink(s) PROVE RouteInv'
  <2>1. /\ registered' = [registered EXCEPT ![NameOf[s]] = s]
        /\ pc \in {"setup", "ready"} /\ cfg' = cfg /\ pc' = pc
    BY <1>1 DEF AddSink
  <2>2. /\ NameOf[s] \in Names /\ s # None
        /\ registered \in [Names -> Sinks \cup {None}]
    BY RouterAssumption DEF TypeOK
  <2>3. \A n \in Names : registered'[n] # None => NameOf[registered'[n]] = n
    BY <2>1, <2>2
  <2>4. \A n \in Names : registered[n] # None => registered'[n] # None
    BY <2>1, <2>2
  <2>5. ASSUME NEW names \in Seq(Names), AllKnown(names) PROVE AllKnown(names)'
    <3>1. \A k \in DOMAIN names : names[k] \in Names
      BY LenProperties, ElementOfSeq
    <3>. QED  BY <2>4, <2>5, <3>1 DEF AllKnown, Known
  <2>6. Valid => Valid'
    <3>. SUFFICES ASSUME Valid PROVE Valid'
      OBVIOUS
    <3>1. AllKnown(cfg.defaults)'
      BY <2>1, <2>5, ConfigTypes, RouterAssumption DEF Valid
    <3>2. ASSUME NEW j \in DOMAIN cfg.rules PROVE AllKnown(cfg.rules[j].sinks)'
      <4>1. cfg.rules[j] \in RouteRule
        BY ConfigTypes, LenProperties, ElementOfSeq, RouterAssumption
      <4>2. cfg.rules[j].sinks \in Seq(Names)
        BY <4>1 DEF RouteRule
      <4>. QED  BY <2>1, <2>5, <4>2 DEF Valid
    <3>3. cfg.policy = "Primary" => Known(cfg.primary)'
      <4>1. cfg.primary \in Names \cup {None}
        BY RouterAssumption DEF TypeOK, RouterConfig
      <4>. QED  BY <2>1, <2>4, <4>1 DEF Valid, Known
    <3>. QED  BY <2>1, <3>1, <3>2, <3>3 DEF Valid
  <2>. QED  BY <2>1, <2>3, <2>6
<1>2. CASE Validate
  BY <1>2 DEF Validate, config, Valid, AllKnown, Known
<1>3. CASE Decide
  <2>1. UNCHANGED <<cfg, registered>> /\ pc = "ready" /\ pc' = "decided"
    BY <1>3 DEF Decide, config
  <2>2. Valid'
    BY <2>1 DEF Valid, AllKnown, Known
  <2>. QED  BY <1>3, <2>1, <2>2, DecideRoutes
<1>4. CASE StartSend \/ SkipSink \/ SendNext \/ DecideCommit \/ NextBatch
           \/ UNCHANGED vars
  <2>1. UNCHANGED <<config, routed>>
    BY <1>4 DEF StartSend, SkipSink, SendNext, DecideCommit, NextBatch, vars
  <2>2. UNCHANGED <<Valid, RoutedRight>>
    BY <2>1 DEF config, routed, Valid, AllKnown, Known, RoutedRight, Chosen,
                Matches, Answered
  <2>3. pc' \in {"ready", "decided", "sending", "returned"}
          => pc \in {"ready", "decided", "sending", "returned"}
    BY <1>4 DEF StartSend, SkipSink, SendNext, DecideCommit, NextBatch, vars
  <2>4. pc' \in {"decided", "sending", "returned"}
          => pc \in {"decided", "sending", "returned"}
    BY <1>4 DEF StartSend, SkipSink, SendNext, DecideCommit, NextBatch, vars
  <2>. QED  BY <2>1, <2>2, <2>3, <2>4 DEF config
<1>. QED  BY <1>1, <1>2, <1>3, <1>4 DEF Next

\* Router.hpp:61, Router.cpp:22-88: for all sinks, names and configurations, a
\* record routed by a validated router goes to every sink the first matching
\* rule, or the defaults, names for it, and to no other.
THEOREM RoutedAsConfigured == Spec => []RoutesAsConfigured
<1>1. Init => RouteInv
  BY DEF Init, RouteInv
<1>2. TypeOK /\ RouteInv /\ [Next]_vars => RouteInv'
  BY RouteStep
<1>3. RouteInv => RoutesAsConfigured
  BY DEF RouteInv, RoutedRight, RoutesAsConfigured
<1>. QED  BY <1>1, <1>2, <1>3, TypeCorrect, PTL DEF Spec
==============================================================================
