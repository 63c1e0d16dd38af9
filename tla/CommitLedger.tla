---------------------------- MODULE CommitLedger ----------------------------
(***************************************************************************)
(* What the agent promises of its checkpoint, without the agent: a cell    *)
(* that moves only to a position the backend has acknowledged, never       *)
(* backwards within one generation of one file, and that starts over at 0  *)
(* only for another file or generation.  (README, lines 39-52: "Checkpoints *)
(* advance only after backend ACK"; CheckpointStore.hpp:18.)               *)
(***************************************************************************)
EXTENDS LogData

VARIABLES
  cell,    \* the stored Label, or None
  acked    \* the labels of the batches acknowledged so far

Init == cell = None /\ acked = {}

SameLog(l, m) == l.file = m.file /\ l.gen = m.gen

\* The backend acknowledges a batch.
Ack == acked \subseteq acked' /\ UNCHANGED cell

Advance ==
  /\ cell' \in acked
  /\ cell # None /\ SameLog(cell, cell') => cell'.off >= cell.off
  /\ UNCHANGED acked

StartOver ==
  /\ cell' # None /\ cell'.off = 0
  /\ cell # None => ~SameLog(cell, cell')
  /\ UNCHANGED acked

Next == Ack \/ Advance \/ StartOver

Spec == Init /\ [][Next]_<<cell, acked>>
==============================================================================
