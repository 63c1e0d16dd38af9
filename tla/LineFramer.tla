----------------------------- MODULE LineFramer -----------------------------
(***************************************************************************)
(* src/src/framing/LineFramer.cpp: cuts the bytes it is fed into lines,    *)
(* keeping the incomplete last one for the next chunk.                     *)
(***************************************************************************)
EXTENDS LogData, FiniteSets

ASSUME NewlinesAssumption == Newlines \subseteq Byte

VARIABLES
  buffer,       \* buffer_: the bytes after the last newline
  bufferStart   \* buffer_start_offset_: the file offset of the first of them

framerVars == <<buffer, bufferStart>>

FramerTypeOK == buffer \in Seq(Byte) /\ bufferStart \in Nat

FramerInit == buffer = <<>> /\ bufferStart = 0
------------------------------------------------------------------------------
\* ingest(): the offset given with the data counts only for an empty buffer.
Buffered(data) == buffer \o data
BufferBase(base) == IF buffer = <<>> THEN base ELSE bufferStart

\* The places in buf that drain() finds a newline at, in increasing order: the
\* one member of this set.
Cuts(buf) ==
  LET found == {i \in DOMAIN buf : buf[i] \in Newlines}
  IN  {c \in [1..Cardinality(found) -> found] :
         \A j, k \in DOMAIN c : j < k => c[j] < c[k]}

\* The lines drain() returns for those cuts, each with the byte range it
\* claims; the newline is in the range and not in the payload.
Lines(buf, base, cuts) ==
  LET from(k) == IF k = 1 THEN 1 ELSE cuts[k - 1] + 1
  IN  [k \in DOMAIN cuts |->
        [payload |-> SubSeq(buf, from(k), cuts[k] - 1),
         start   |-> base + from(k) - 1,
         end     |-> base + cuts[k]]]

\* ingest() and drain() as run_once calls them, one after the other.
IngestAndDrain(data, base, cuts) ==
  LET buf == Buffered(data)
      pos == IF cuts = <<>> THEN 0 ELSE cuts[Len(cuts)]
  IN  /\ buffer' = SubSeq(buf, pos + 1, Len(buf))
      /\ bufferStart' = BufferBase(base) + pos

\* Mutant of FramerReset: the incomplete line survives the reset.
FramerResetKeepsLine == UNCHANGED buffer /\ bufferStart' = 0

FramerReset == buffer' = <<>> /\ bufferStart' = 0
==============================================================================
