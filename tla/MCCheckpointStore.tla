-------------------------- MODULE MCCheckpointStore --------------------------
EXTENDS CheckpointStore

CONSTANT a   \* one file

\* Checkpoints of two generations, of one, two and three digits.
MCSaves ==
  { [file |-> a, gen |-> 0,  off |-> 7],
    [file |-> a, gen |-> 0,  off |-> 25],
    [file |-> a, gen |-> 12, off |-> 130] }
MCNewlines == {}
==============================================================================
