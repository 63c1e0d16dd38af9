------------------------------ MODULE MCRouter ------------------------------
EXTENDS Router

CONSTANTS p, s, t   \* sinks: the two latter have the same name

MCNameOf == [x \in Sinks |-> IF x = p THEN "p" ELSE "s"]

\* Up to two sinks in a list, one of them perhaps twice.  No rule, one, or two
\* that both match a record with both labels.
MCLists == {<<>>, <<"p">>, <<"s">>, <<"p", "s">>, <<"s", "p">>, <<"p", "p">>}
MCRules ==
  {<<>>} \cup {<<r>> : r \in [label : {"l"}, sinks : MCLists]}
         \cup {<<[label |-> "l", sinks |-> <<"p">>],
                [label |-> "m", sinks |-> <<"s", "p">>]>>}

MCConfigs ==
  [policy : AckPolicy, primary : {"p", None},
   defaults : {<<>>, <<"s">>, <<"p", "s">>}, rules : MCRules]
==============================================================================
