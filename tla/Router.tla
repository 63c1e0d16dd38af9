------------------------------- MODULE Router -------------------------------
(***************************************************************************)
(* src/src/router/Router.cpp: chooses the sinks of a batch by the labels   *)
(* of a record, sends the batch to each of them in turn and decides from   *)
(* their answers whether, and how far, the caller may commit.  It is used  *)
(* as src/src/router/RouterExampleUsage.cpp does: sinks are added and the  *)
(* configuration is validated before anything is routed; sinks may still   *)
(* be added or replaced between two batches.                               *)
(*                                                                         *)
(* A label stands for a key with its value; a record is what labels it     *)
(* has.  A sink is any implementation of the Sink interface: whether it is *)
(* ready and what it answers are left open at each call.                   *)
(***************************************************************************)
EXTENDS Integers, Sequences, FiniteSets

CONSTANTS
  Sinks,     \* sink objects
  Names,     \* the names sinks may have
  NameOf,    \* NameOf[s]: what s.name() returns
  Labels,    \* labels of records
  Configs,   \* the configurations the router may be constructed with
  Ends,      \* commit_end_offset of the batches that are sent
  None       \* a null pointer, nullopt, or the empty name

AckPolicy == {"Primary", "Any", "All"}
RouteRule == [label : Labels, sinks : Seq(Names)]
RouterConfig == [policy : AckPolicy, primary : Names \cup {None},
                 defaults : Seq(Names), rules : Seq(RouteRule)]

ASSUME RouterAssumption ==
  /\ NameOf \in [Sinks -> Names]
  /\ Configs \subseteq RouterConfig
  /\ Ends \subseteq Nat
  /\ None \notin Names /\ None \notin Sinks /\ None \notin Nat

\* SendResult: ok, and the offset the sink confirms durable, if it does.
Offset == Nat \cup {None}
SendResult == [ok : BOOLEAN, commit : Offset]
Refusal == [ok |-> FALSE, commit |-> None]
Answers(last) == [ok : BOOLEAN, commit : 0..last \cup {None}]

VARIABLES
  cfg,            \* cfg_
  registered,     \* sinks_by_name_: a sink, or None, for each name
  pc,             \* where the caller is with the router
  record,         \* the labels of the record that is routed
  decision,       \* RouteDecision::sinks
  usesPrimary,    \* RouteDecision::uses_primary
  end,            \* batch.commit_end_offset
  results,        \* per_sink_results
  anyOk, allOk, primaryOk, primaryCommit, anyCommit,  \* the locals of the send
  commit          \* what send_and_decide_commit returned

config == <<cfg, registered>>
routed == <<record, decision, usesPrimary>>
tally  == <<anyOk, allOk, primaryOk, primaryCommit, anyCommit>>
vars   == <<config, routed, tally, pc, end, results, commit>>

TypeOK ==
  /\ cfg \in Configs
  /\ registered \in [Names -> Sinks \cup {None}]
  /\ pc \in {"setup", "rejected", "ready", "decided", "sending", "returned"}
  /\ record \in SUBSET Labels
  /\ decision \in Seq(Sinks)
  /\ usesPrimary \in BOOLEAN
  /\ end \in Nat
  /\ results \in Seq(SendResult)
  /\ anyOk \in BOOLEAN /\ allOk \in BOOLEAN /\ primaryOk \in BOOLEAN
  /\ primaryCommit \in Offset /\ anyCommit \in Offset
  /\ commit \in Offset

Init ==
  /\ cfg \in Configs
  /\ registered = [n \in Names |-> None]
  /\ pc = "setup"
  /\ record = {} /\ decision = <<>> /\ usesPrimary = FALSE
  /\ end = 0 /\ results = <<>> /\ commit = None
  /\ anyOk = FALSE /\ allOk = TRUE /\ primaryOk = FALSE
  /\ primaryCommit = None /\ anyCommit = None
------------------------------------------------------------------------------
\* add_sink: a sink of the same name is replaced.
AddSink(s) ==
  /\ pc \in {"setup", "ready"}
  /\ registered' = [registered EXCEPT ![NameOf[s]] = s]
  /\ UNCHANGED <<cfg, routed, tally, pc, end, results, commit>>

Known(n) == n # None /\ registered[n] # None
AllKnown(names) == \A k \in DOMAIN names : Known(names[k])

\* Mutant of Valid: the rules are not looked at.
ValidDefaultsOnly ==
  /\ cfg.defaults # <<>> \/ cfg.rules # <<>>
  /\ cfg.policy = "Primary" => Known(cfg.primary)
  /\ AllKnown(cfg.defaults)

\* validate
Valid ==
  /\ cfg.defaults # <<>> \/ cfg.rules # <<>>
  /\ cfg.policy = "Primary" => Known(cfg.primary)
  /\ AllKnown(cfg.defaults)
  /\ \A j \in DOMAIN cfg.rules : AllKnown(cfg.rules[j].sinks)

Validate ==
  /\ pc = "setup"
  /\ pc' = IF Valid THEN "ready" ELSE "rejected"
  /\ UNCHANGED <<config, routed, tally, end, results, commit>>

\* rule_matches, and the sinks of the first rule that does.
Matches(j, r) == cfg.rules[j].label \in r

Chosen(r) ==
  {cfg.rules[j].sinks : j \in {i \in DOMAIN cfg.rules :
      Matches(i, r) /\ \A h \in 1..i - 1 : ~Matches(h, r)}}
  \cup {d \in {cfg.defaults} : \A i \in DOMAIN cfg.rules : ~Matches(i, r)}

\* The places in names whose sink is registered, in order: the one member of
\* this set.
Resolved(names) ==
  LET kept == {k \in DOMAIN names : registered[names[k]] # None}
  IN  {o \in [1..Cardinality(kept) -> kept] :
         \A h, k \in DOMAIN o : h < k => o[h] < o[k]}

IsPrimary(n) == cfg.policy = "Primary" /\ n = cfg.primary

\* decide
Decide == \E r \in SUBSET Labels :
  /\ pc = "ready"
  /\ record' = r
  /\ \E names \in Chosen(r) : \E o \in Resolved(names) :
       /\ decision' = [k \in DOMAIN o |-> registered[names[o[k]]]]
       /\ usesPrimary' = \E k \in DOMAIN o : IsPrimary(names[o[k]])
  /\ pc' = "decided"
  /\ UNCHANGED <<config, tally, end, results, commit>>

\* send_and_decide_commit begins; without sinks it returns at once.
StartSend == \E e \in Ends :
  /\ pc = "decided"
  /\ end' = e
  /\ results' = IF decision = <<>> THEN <<Refusal>> ELSE <<>>
  /\ commit' = None
  /\ anyOk' = FALSE /\ allOk' = TRUE /\ primaryOk' = FALSE
  /\ primaryCommit' = None /\ anyCommit' = None
  /\ pc' = IF decision = <<>> THEN "returned" ELSE "sending"
  /\ UNCHANGED <<config, routed>>

\* The sink whose turn it is.
Turn == decision[Len(results) + 1]

\* Mutant of SkipSink: a sink that is not ready does not count.
SkipSinkUncounted ==
  /\ pc = "sending" /\ Len(results) < Len(decision)
  /\ results' = Append(results, Refusal)
  /\ UNCHANGED <<config, routed, tally, pc, end, commit>>

\* The sink is not ready.
SkipSink ==
  /\ pc = "sending" /\ Len(results) < Len(decision)
  /\ results' = Append(results, Refusal)
  /\ allOk' = FALSE
  /\ UNCHANGED <<config, routed, pc, end, commit,
                 anyOk, primaryOk, primaryCommit, anyCommit>>

\* The sink is sent the batch, and its answer is added to the tally.
SendNext == \E res \in Answers(end) :
  /\ pc = "sending" /\ Len(results) < Len(decision)
  /\ results' = Append(results, res)
  /\ anyOk' = (anyOk \/ res.ok)
  /\ allOk' = (allOk /\ res.ok)
  /\ anyCommit' = IF res.ok /\ res.commit # None THEN res.commit ELSE anyCommit
  /\ primaryOk' = IF IsPrimary(NameOf[Turn]) THEN res.ok ELSE primaryOk
  /\ primaryCommit' = IF IsPrimary(NameOf[Turn]) THEN res.commit
                                                  ELSE primaryCommit
  /\ UNCHANGED <<config, routed, pc, end, commit>>

Explicit(offset) == IF offset # None THEN offset ELSE end

\* Mutants of Verdict: a confirmed offset is not preferred to the batch's end; an
\* acknowledgement without one does not count; the offset is inclusive.
VerdictAtEnd ==
  CASE cfg.policy = "Primary" -> IF primaryOk THEN end ELSE None
    [] cfg.policy = "Any"     -> IF anyOk THEN end ELSE None
    [] cfg.policy = "All"     -> IF allOk THEN end ELSE None

VerdictExplicitOnly ==
  CASE cfg.policy = "Primary" -> IF primaryOk THEN primaryCommit ELSE None
    [] cfg.policy = "Any"     -> anyCommit
    [] cfg.policy = "All"     -> IF allOk THEN end ELSE None

VerdictInclusive ==
  CASE cfg.policy = "Primary" -> IF primaryOk THEN Explicit(primaryCommit) - 1
                                              ELSE None
    [] cfg.policy = "Any"     -> IF anyOk THEN Explicit(anyCommit) - 1 ELSE None
    [] cfg.policy = "All"     -> IF allOk THEN end - 1 ELSE None

\* The commit the policy allows, once every sink has had its turn.
Verdict ==
  CASE cfg.policy = "Primary" -> IF primaryOk THEN Explicit(primaryCommit)
                                              ELSE None
    [] cfg.policy = "Any"     -> IF anyOk THEN Explicit(anyCommit) ELSE None
    [] cfg.policy = "All"     -> IF allOk THEN end ELSE None

DecideCommit ==
  /\ pc = "sending" /\ Len(results) = Len(decision)
  /\ commit' = Verdict
  /\ pc' = "returned"
  /\ UNCHANGED <<config, routed, tally, end, results>>

\* The caller has its answer, and turns to another batch, or to this one again.
NextBatch ==
  /\ pc = "returned"
  /\ pc' = "ready"
  /\ UNCHANGED <<config, routed, tally, end, results, commit>>

Next == \/ \E s \in Sinks : AddSink(s)
        \/ Validate \/ Decide \/ StartSend \/ SkipSink \/ SendNext
        \/ DecideCommit \/ NextBatch

Spec == Init /\ [][Next]_vars
------------------------------------------------------------------------------
Acked == {k \in DOMAIN results : results[k].ok}
Answered(n) == {k \in DOMAIN decision : NameOf[decision[k]] = n}

\* Router.hpp:15-23, the comments on AckPolicy.  A commit is returned only if
\* the sinks its policy asks for acknowledged this very batch: answers of an
\* earlier batch, and sinks that were skipped, never count.
CommitJustified ==
  pc = "returned" /\ commit # None =>
    /\ cfg.policy = "Primary" => Acked \cap Answered(cfg.primary) # {}
    /\ cfg.policy = "Any" => Acked # {}
    /\ cfg.policy = "All" => decision # <<>> /\ Acked = DOMAIN decision

\* And none is withheld: when those sinks all acknowledged, there is a commit.
CommitGranted ==
  pc = "returned" /\ commit = None =>
    /\ cfg.policy = "Primary" => ~(/\ Answered(cfg.primary) # {}
                                    /\ Answered(cfg.primary) \subseteq Acked)
    /\ cfg.policy = "Any" => Acked = {}
    /\ cfg.policy = "All" => decision = <<>> \/ Acked # DOMAIN decision

\* Router.cpp:153 "Keep conservative by preferring explicit".  Where one sink's
\* acknowledgement decides, the commit is an offset that a deciding sink
\* confirmed; the batch's end stands in only for one that confirmed none.
CommitConfirmed ==
  pc = "returned" /\ commit # None /\ cfg.policy # "All" =>
    \E k \in Acked :
      /\ cfg.policy = "Primary" => k \in Answered(cfg.primary)
      /\ \/ results[k].commit = commit
         \/ /\ results[k].commit = None /\ commit = end
            /\ cfg.policy = "Any" => \A h \in Acked : results[h].commit = None

\* Router.hpp:61 "Validate configuration".  Once validated, no sink that the
\* configuration names for a record is left out, whatever is added later: the
\* record goes to exactly the sinks, in order, of the first rule it matches, or
\* else to the default sinks, and uses_primary tells whether the primary is one.
RoutesAsConfigured ==
  pc \in {"decided", "sending", "returned"} =>
    \E names \in Chosen(record) :
      /\ Len(decision) = Len(names)
      /\ \A k \in DOMAIN names : NameOf[decision[k]] = names[k]
      /\ usesPrimary <=> cfg.policy = "Primary" /\ Answered(cfg.primary) # {}

\* Router.hpp:61 again.  A validated configuration leaves no record without a
\* sink whose acknowledgement can commit it.
ValidatedCanCommit ==
  pc = "decided" => decision # <<>> /\ (cfg.policy = "Primary" => usesPrimary)
==============================================================================
