--------------------------- MODULE CheckpointCell ---------------------------
(***************************************************************************)
(* What CheckpointStore.hpp promises (lines 28-35): a cell that save()     *)
(* replaces at once or, when it throws or the process dies, not at all;    *)
(* that is never without a value once it has one; and that load() returns  *)
(* as it stands, or throws.                                                *)
(***************************************************************************)
EXTENDS LogData

CONSTANT Error   \* the outcome of a load() that throws

VARIABLES
  cell,      \* the checkpoint stored, or None
  pending,   \* the checkpoint that a save() under way is to store, or None
  loaded     \* what the last load() came to

Init == cell = None /\ pending = None /\ loaded = None

BeginSave == pending = None /\ pending' \in Label /\ UNCHANGED <<cell, loaded>>

Replace ==
  /\ pending # None
  /\ cell' = pending
  /\ pending' = None
  /\ UNCHANGED loaded

GiveUp == pending # None /\ pending' = None /\ UNCHANGED <<cell, loaded>>

Load == loaded' \in {cell, Error} /\ UNCHANGED <<cell, pending>>

Next == BeginSave \/ Replace \/ GiveUp \/ Load

Spec == Init /\ [][Next]_<<cell, pending, loaded>>
==============================================================================
