----------------------------- MODULE MCRetryLoop -----------------------------
EXTENDS RetryLoop

CONSTANTS file   \* the one file of this model

\* Batches that differ only in the offset they end at.
MCInputs ==
  {[records |-> <<>>, file |-> file, gen |-> 0, end |-> n] : n \in 1..4}
MCNewlines == {}
==============================================================================
