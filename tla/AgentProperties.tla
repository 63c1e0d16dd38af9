--------------------------- MODULE AgentProperties ---------------------------
(***************************************************************************)
(* What the agent should do: the properties the runs check of Agent.       *)
(***************************************************************************)
EXTENDS Agent

RecordsOf(batches) == UNION {Range(b.records) : b \in batches}

InHand  == IF held = None THEN {} ELSE {held.batch}
Waiting == BatchesIn(q)

\* The bytes the backend has, inside a record.
Delivered == UNION {Range(r.payload) : r \in received}

ByteAt(i, o) == [ino |-> i, epoch |-> epoch[i], off |-> o]

\* README:51 "No lost logs".  Every record framed since the process started is
\* still to be pushed, in the batch, being sent, queued for retry, received by
\* the backend, or was given up by the retry policy; no rotation, truncation,
\* full batch or failed send drops one on the way.
AccountedFor ==
  taken \subseteq Range(framed) \cup received
                  \cup RecordsOf({batch} \cup InHand \cup Waiting \cup givenUp)

\* README:21 "Precise byte-range tracking per event".  A record is the bytes of
\* one incarnation of the file it names, at the range it states, with nothing
\* skipped, mixed in or doubled, across chunk and file boundaries.
RecordExact(r) ==
  \E e \in 0..MaxEpoch :
    r.payload = [k \in 1..(r.end - r.start - 1) |->
                   [ino |-> r.file, epoch |-> e, off |-> r.start + k - 1]]

RecordsExact == \A r \in taken : RecordExact(r)

\* Sink.hpp:40: commit_end_offset is the "highest end_offset in batch for that
\* file/generation".  A batch, wherever it is, holds only records of the file
\* and generation it is labelled with, none of them past the offset its
\* acknowledgement commits.
Homogeneous(b) ==
  \A r \in Range(b.records) : r.file = b.file /\ r.gen = b.gen /\ r.end <= b.end

BatchesHomogeneous == \A b \in {batch} \cup InHand \cup Waiting : Homogeneous(b)

\* The retry queue stays within max_queue_batches, with a batch in hand too.
RetryBounded ==
  /\ Len(q) <= MaxQueue
  /\ held # None /\ held.attempts > 0 => Len(q) < MaxQueue

\* README:46 "Checkpoints advance only after backend ACK".  A stored offset
\* other than 0 is the end of a batch of that file and generation that the
\* backend acknowledged.
NoBlindCommit == disk # None => disk.off = 0 \/ disk \in acked

\* CheckpointStore.hpp:18 "Safe restart position".  A restart from the stored
\* checkpoint loses nothing: every byte before it is in a record the backend
\* has, or ends a line.
SafeRestart ==
  disk # None => \A o \in 0..disk.off - 1 :
                   ByteAt(disk.file, o) \in Newlines \cup Delivered

\* README:52 "No duplication during restart".  The agent never frames a record
\* again that its stored checkpoint covers, across restarts, truncations and
\* acknowledgements that come late: only retries send what is behind it.
Covered(r) ==
  disk # None /\ r.file = disk.file /\ r.gen = disk.gen /\ r.end <= disk.off

NothingReread == \A r \in Range(framed) \cup Range(batch.records) : ~Covered(r)

\* The checkpoint file and the acknowledgements behave as the CommitLedger.
Ledger == INSTANCE CommitLedger WITH cell <- disk
CommitsAsPromised == Ledger!Spec

\* Agent.cpp:140 "One unit of work per tick keeps the loop stable (no
\* starvation)".  Retries and due flushes, which end a tick early, never keep
\* the agent from looking at its file for good.
NoStarvation == []<>(pc \in {"polled", "down"})

\* README:51 "No lost logs".  With a backend that takes what it is sent, each
\* complete line of the file that is open reaches the backend, unless the agent
\* is stopped first.
LineEnded(i, o) == \E n \in o..size[i] - 1 : ByteAt(i, n) \in Newlines

EventuallyDelivered ==
  \A i \in Inodes, o \in 0..MaxSize - 1 :
    fd = i /\ LineEnded(i, o)
      ~> pc = "down" \/ ByteAt(i, o) \in Newlines \cup Delivered
==============================================================================
