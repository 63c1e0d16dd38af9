----------------------------- MODULE AgentProofs -----------------------------
(***************************************************************************)
(* The agent keeps its types, drops no record and bounds its retry queue,  *)
(* for all values of the constants: whatever the file system does,         *)
(* whichever calls fail, however the sends end and wherever the process is *)
(* killed.  The lemmas go part by part: each operation of a part keeps the *)
(* types of that part.                                                     *)
(***************************************************************************)
EXTENDS AgentProperties, SchedulerLemmas

LEMMA FsKeepsType == ASSUME FsTypeOK, FsNext PROVE FsTypeOK'
<1>1. CASE Repoint
  <2>1. PICK m \in Moves : path' = m[2]
    BY <1>1 DEF Repoint
  <2>2. m[2] \in FileIds
    BY FileSystemAssumption
  <2> QED BY <1>1, <2>1, <2>2 DEF FsTypeOK, Repoint
<1>2. CASE \E i \in Inodes : AppendTo(i) \/ Truncate(i)
  <2>1. PICK i \in Inodes : AppendTo(i) \/ Truncate(i)
    BY <1>2
  <2>2. CASE AppendTo(i)
    <3>1. PICK n \in WriteSizes : /\ size[i] + n <= MaxSize
                                  /\ size' = [size EXCEPT ![i] = @ + n]
      BY <2>2 DEF AppendTo
    <3>2. n \in Nat /\ size[i] \in Nat
      BY FileSystemAssumption DEF FsTypeOK
    <3>3. size[i] + n \in 0..MaxSize
      BY <3>1, <3>2, FileSystemAssumption
    <3> QED BY <2>2, <3>1, <3>3 DEF FsTypeOK, AppendTo
  <2>3. CASE Truncate(i)
    <3>1. epoch[i] + 1 \in 0..MaxEpoch /\ 0 \in 0..MaxSize
      BY <2>3, FileSystemAssumption DEF FsTypeOK, Truncate
    <3> QED BY <2>3, <3>1 DEF FsTypeOK, Truncate
  <2> QED BY <2>1, <2>2, <2>3
<1> QED BY <1>1, <1>2 DEF FsNext
------------------------------------------------------------------------------
LEMMA OpenKeepsType ==
  ASSUME FsTypeOK, FollowerTypeOK, StatPath \/ OpenPath \/ OpenFails
  PROVE  FollowerTypeOK'
<1>1. CASE StatPath
  <2>1. PICK id \in {path} \cup (IF "stat" \in Faults THEN {None} ELSE {}) :
          /\ statId' = id
          /\ opening' = IF id = None THEN "no" ELSE opening
          /\ rotationPending' =
               (rotationPending /\ ~(id = None /\ opening = "switch"))
    BY <1>1 DEF StatPath
  <2>2. id \in FileIds
    BY DEF FsTypeOK, FileIds
  <2> QED BY <1>1, <2>1, <2>2 DEF FollowerTypeOK, StatPath
<1>2. CASE OpenPath
  <2>1. changed' \in BOOLEAN /\ 0 \in 0..SettleTime
    BY <1>2, FollowerAssumption DEF OpenPath, FollowerTypeOK
  <2>2. fd' \in FileIds /\ activeId' \in FileIds /\ statId' \in FileIds
    BY <1>2 DEF OpenPath, FsTypeOK, FollowerTypeOK, FileIds
  <2>3. /\ generation' = 0 /\ readOffset' = 0 /\ eofAge' = 0
        /\ rotationPending' = FALSE /\ wasEof' = FALSE /\ opening' = "no"
    BY <1>2 DEF OpenPath
  <2> QED BY <2>1, <2>2, <2>3 DEF FollowerTypeOK
<1>3. CASE OpenFails
  BY <1>3 DEF FollowerTypeOK, OpenFails, FileIds
<1> QED BY <1>1, <1>2, <1>3

LEMMA CheckSizeType ==
  ASSUME FollowerTypeOK, NEW c, CheckSize(c)
  PROVE  generation' \in Nat /\ readOffset' \in Nat /\ changed' \in BOOLEAN
<1>1. changed' \in BOOLEAN
  BY DEF CheckSize, Shrunk
<1>2. generation' \in Nat /\ readOffset' \in Nat
  BY DEF CheckSize, FollowerTypeOK
<1> QED BY <1>1, <1>2

LEMMA PollKeepsType ==
  ASSUME FsTypeOK, FollowerTypeOK, NEW c, Poll(c)
  PROVE  FollowerTypeOK'
<1>1. CASE StartReopen
  BY <1>1 DEF FollowerTypeOK, StartReopen
<1>2. CASE PollPathMissing(c)
  BY <1>2, CheckSizeType DEF FollowerTypeOK, PollPathMissing, FileIds
<1>3. CASE PollPath(c)
  <2>1. generation' \in Nat /\ readOffset' \in Nat /\ changed' \in BOOLEAN
    BY <1>3, CheckSizeType DEF PollPath
  <2>2. rotationPending' \in BOOLEAN /\ UNCHANGED <<activeId, statId>>
    BY <1>3 DEF FollowerTypeOK, PollPath
  <2>3. /\ fd' \in FileIds /\ opening' \in {"no", "reopen", "switch"}
        /\ wasEof' \in BOOLEAN /\ eofAge' \in 0..SettleTime
    BY <1>3, FollowerAssumption DEF FollowerTypeOK, PollPath, FileIds
  <2>4. opening' # "no" => fd' = None
    BY <1>3 DEF PollPath
  <2> QED BY <2>1, <2>2, <2>3, <2>4 DEF FollowerTypeOK
<1>4. CASE PollFstatFails
  BY <1>4 DEF FollowerTypeOK, PollFstatFails, FileIds
<1> QED BY <1>1, <1>2, <1>3, <1>4 DEF Poll

LEMMA ReadKeepsType ==
  ASSUME FollowerTypeOK, NEW n \in Nat, ReadData(n) \/ ReadNoData
  PROVE  FollowerTypeOK'
<1>1. CASE ReadData(n)
  <2>1. readOffset' \in Nat /\ 0 \in 0..SettleTime
    BY <1>1, FollowerAssumption DEF FollowerTypeOK, ReadData
  <2>2. /\ wasEof' = FALSE /\ eofAge' = 0
        /\ UNCHANGED <<fd, activeId, generation, rotationPending, opening,
                       statId, changed>>
    BY <1>1 DEF ReadData
  <2> QED BY <2>1, <2>2 DEF FollowerTypeOK
<1>2. CASE ReadEof
  BY <1>2, FollowerAssumption DEF FollowerTypeOK, ReadEof
<1>3. CASE ReadNothing
  BY <1>3 DEF FollowerTypeOK, ReadNothing, followerVars
<1>4. CASE ReadFails
  BY <1>4 DEF FollowerTypeOK, ReadFails, FileIds
<1> QED BY <1>1, <1>2, <1>3, <1>4 DEF ReadNoData

\* The clock of the end of file, and that of the batch, stay within their bound.
LEMMA EofAgedType ==
  ASSUME FollowerTypeOK, NEW d \in Nat PROVE EofAged(d) \in 0..SettleTime
BY FollowerAssumption DEF FollowerTypeOK, EofAged, Smaller

LEMMA AgedType ==
  ASSUME BatchTypeOK, NEW d \in Nat PROVE Aged(d) \in 0..FlushInterval
BY BatchAssumption DEF BatchTypeOK, Aged, Smaller
------------------------------------------------------------------------------
LEMMA ChunkType ==
  ASSUME FsTypeOK, FollowerTypeOK, fd # None, NEW n \in Nat
  PROVE  Chunk(n) \in Seq(Byte)
<1>1. fd \in Inodes /\ epoch[fd] \in Nat /\ readOffset \in Nat
  BY FileSystemAssumption DEF FsTypeOK, FollowerTypeOK, FileIds
<1>2. \A k \in 1..n : [ino |-> fd, epoch |-> epoch[fd], off |-> readOffset + k - 1]
                        \in Byte
  BY <1>1 DEF Byte
<1> QED BY <1>2 DEF Chunk, BytesOf

LEMMA CutsType ==
  ASSUME NEW buf \in Seq(Byte), NEW cuts \in Cuts(buf)
  PROVE  cuts \in Seq(1..Len(buf))
<1> DEFINE found == {i \in DOMAIN buf : buf[i] \in Newlines}
<1>1. DOMAIN buf = 1..Len(buf) /\ Len(buf) \in Nat
  BY LenProperties
<1>2. IsFiniteSet(1..Len(buf))
  BY <1>1, FS_Interval
<1>3. IsFiniteSet(found) /\ found \subseteq 1..Len(buf)
  BY <1>1, <1>2, FS_Subset
<1>4. Cardinality(found) \in Nat
  BY <1>3, FS_CardinalityType
<1>5. cuts \in [1..Cardinality(found) -> found]
  BY DEF Cuts
<1> HIDE DEF found
<1>6. cuts \in [1..Cardinality(found) -> 1..Len(buf)]
  BY <1>3, <1>5
<1> QED BY <1>4, <1>6

\* Every line drain() returns is one: no offset is negative.
LEMMA LinesType ==
  ASSUME NEW buf \in Seq(Byte), NEW base \in Nat, NEW cuts \in Cuts(buf)
  PROVE  Lines(buf, base, cuts) \in Seq(Line)
<1> DEFINE from(k) == IF k = 1 THEN 1 ELSE cuts[k - 1] + 1
           line(k) == [payload |-> SubSeq(buf, from(k), cuts[k] - 1),
                       start   |-> base + from(k) - 1,
                       end     |-> base + cuts[k]]
<1>1. cuts \in Seq(1..Len(buf)) /\ Len(buf) \in Nat
  BY CutsType, LenProperties
<1>2. DOMAIN cuts = 1..Len(cuts) /\ Len(cuts) \in Nat
  BY <1>1, LenProperties
<1>3. \A k \in 1..Len(cuts) : cuts[k] \in 1..Len(buf)
  BY <1>1, ElementOfSeq
<1>4. ASSUME NEW k \in 1..Len(cuts)
      PROVE  line(k) \in Line
  <2>1. from(k) \in 1..Len(buf) + 1
    BY <1>1, <1>2, <1>3
  <2>2. \A i \in from(k)..cuts[k] - 1 : i \in 1..Len(buf)
    BY <1>1, <1>3, <2>1
  <2>3. \A i \in from(k)..cuts[k] - 1 : buf[i] \in Byte
    BY <2>2, ElementOfSeq
  <2>4. SubSeq(buf, from(k), cuts[k] - 1) \in Seq(Byte)
    BY <1>3, <2>1, <2>3, SubSeqProperties
  <2>5. base + from(k) - 1 \in Nat /\ base + cuts[k] \in Nat
    BY <1>3, <2>1
  <2> QED BY <2>4, <2>5 DEF Line
<1>5. Lines(buf, base, cuts) = [k \in 1..Len(cuts) |-> line(k)]
  BY <1>2 DEF Lines
<1> HIDE DEF line
<1> QED BY <1>2, <1>4, <1>5

LEMMA IngestKeepsType ==
  ASSUME FramerTypeOK, NEW data \in Seq(Byte), NEW base \in Nat,
         NEW cuts \in Cuts(Buffered(data)), IngestAndDrain(data, base, cuts)
  PROVE  FramerTypeOK'
<1> DEFINE buf == Buffered(data)
           pos == IF cuts = <<>> THEN 0 ELSE cuts[Len(cuts)]
<1>1. buf \in Seq(Byte) /\ Len(buf) \in Nat /\ BufferBase(base) \in Nat
  BY ConcatProperties, LenProperties DEF Buffered, BufferBase, FramerTypeOK
<1>2. cuts \in Seq(1..Len(buf))
  BY <1>1, CutsType
<1>3. pos \in 0..Len(buf)
  <2>1. CASE cuts = <<>>
    BY <1>1, <2>1
  <2>2. CASE cuts # <<>>
    <3>1. Len(cuts) \in 1..Len(cuts)
      BY <1>2, <2>2, EmptySeq
    <3>2. cuts[Len(cuts)] \in 1..Len(buf)
      BY <1>2, <3>1, ElementOfSeq
    <3> QED BY <1>1, <2>2, <3>2
  <2> QED BY <2>1, <2>2
<1>4. buffer' = SubSeq(buf, pos + 1, Len(buf)) /\ bufferStart' = BufferBase(base) + pos
  BY DEF IngestAndDrain
<1> HIDE DEF buf, pos
<1>5. \A i \in pos + 1..Len(buf) : buf[i] \in Byte
  BY <1>1, <1>3, ElementOfSeq
<1>6. SubSeq(buf, pos + 1, Len(buf)) \in Seq(Byte)
  BY <1>1, <1>3, <1>5, SubSeqProperties
<1> QED BY <1>1, <1>3, <1>4, <1>6 DEF FramerTypeOK

LEMMA LabelledType ==
  ASSUME FollowerTypeOK, NEW lines \in Seq(Line)
  PROVE  Labelled(lines) \in Seq(Record)
<1> DEFINE rec(k) == [payload |-> lines[k].payload, start |-> lines[k].start,
                      end |-> lines[k].end, file |-> activeId, gen |-> generation]
<1>1. DOMAIN lines = 1..Len(lines) /\ Len(lines) \in Nat
  BY LenProperties
<1>2. \A k \in 1..Len(lines) : lines[k] \in Line
  BY ElementOfSeq
<1>3. \A k \in 1..Len(lines) : rec(k) \in Record
  BY <1>2 DEF Line, Record, FollowerTypeOK
<1>4. Labelled(lines) = [k \in 1..Len(lines) |-> rec(k)]
  BY <1>1 DEF Labelled
<1> HIDE DEF rec
<1> QED BY <1>1, <1>3, <1>4

\* The elements of a sequence over S are in S.
LEMMA RangeType ==
  ASSUME NEW S, NEW s \in Seq(S) PROVE Range(s) \in SUBSET S
<1>1. \A i \in DOMAIN s : s[i] \in S
  BY ElementOfSeq, LenProperties
<1> QED BY <1>1 DEF Range
------------------------------------------------------------------------------
LEMMA ResetBatchType ==
  ASSUME NEW file \in FileIds, NEW gen \in Nat, ResetBatch(file, gen)
  PROVE  BatchTypeOK'
BY BatchAssumption DEF BatchTypeOK, ResetBatch, EmptyBatch, Batch

LEMMA FlushType ==
  ASSUME BatchTypeOK, Flush PROVE BatchTypeOK'
<1>1. batch.file \in FileIds /\ batch.gen \in Nat
  BY DEF BatchTypeOK, Batch
<1> QED BY <1>1, ResetBatchType DEF Flush

LEMMA HoldType ==
  ASSUME NEW b \in Batch, Hold(b)
  PROVE  held' \in PendingBatch /\ held' # None /\ held'.batch = b
         /\ held'.attempts = 0
BY NoneNotPending DEF Hold, PendingBatch

LEMMA PushType ==
  ASSUME BatchTypeOK, NEW r \in Record, Push(r) PROVE BatchTypeOK'
<1>1. r.payload \in Seq(Byte) /\ r.end \in Nat
  BY DEF Record
<1>2. RecordBytes(r) \in Nat
  BY <1>1, LenProperties, BatchAssumption DEF RecordBytes
<1>3. batch.records \in Seq(Record) /\ batch.end \in Nat /\ batch \in Batch
  BY DEF BatchTypeOK, Batch
<1>4. Append(batch.records, r) \in Seq(Record)
  BY <1>3, AppendProperties
<1>5. Larger(batch.end, r.end) \in Nat
  BY <1>1, <1>3 DEF Larger
<1>6. batch' \in Batch
  BY <1>3, <1>4, <1>5 DEF Push, Batch
<1>7. approxBytes' \in Nat /\ age' \in 0..FlushInterval
  BY <1>2 DEF Push, BatchTypeOK
<1> QED BY <1>6, <1>7 DEF BatchTypeOK
------------------------------------------------------------------------------
(***************************************************************************)
(* The actions.  That a batch is in hand wherever one is sent, and dealt   *)
(* with, is what the types of these steps rest on.                         *)
(***************************************************************************)
Sending == {"send", "acked", "failed"}

HandFull == pc \in Sending => held # None

TInv == TypeOK /\ HandFull

\* The state of the parts that a step leaves alone keeps its type.
LEMMA FsUnchanged == FsTypeOK /\ UNCHANGED fsVars => FsTypeOK'
BY DEF FsTypeOK, fsVars
LEMMA FollowerUnchanged ==
  FollowerTypeOK /\ UNCHANGED followerVars => FollowerTypeOK'
BY DEF FollowerTypeOK, followerVars
LEMMA FramerUnchanged == FramerTypeOK /\ UNCHANGED framerVars => FramerTypeOK'
BY DEF FramerTypeOK, framerVars
LEMMA BatchUnchanged == BatchTypeOK /\ UNCHANGED batchVars => BatchTypeOK'
BY DEF BatchTypeOK, batchVars
LEMMA RetryUnchanged == RetryTypeOK /\ UNCHANGED retryVars => RetryTypeOK'
BY DEF RetryTypeOK, retryVars

LEMMA ResumeType == ASSUME NEW s, Resume(s) PROVE pc' \in {"sleep", "polled", "push", "exit"}
BY DEF Resume

LEMMA InitTInv == ASSUME Init PROVE TInv
<1>1. FsTypeOK
  <2>1. {m[1] : m \in Moves} \subseteq FileIds
    BY FileSystemAssumption
  <2>2. path \in FileIds
    BY <2>1 DEF Init, FsInit, FileIds
  <2> QED BY <2>2, FileSystemAssumption DEF Init, FsInit, FsTypeOK
<1>2. FollowerTypeOK
  <2>1. 0 \in 0..SettleTime
    BY FollowerAssumption
  <2> QED BY <2>1 DEF Init, FollowerInit, FollowerTypeOK, FileIds
<1>3. FramerTypeOK /\ RetryTypeOK
  BY DEF Init, FramerInit, FramerTypeOK, RetryInit, RetryTypeOK
<1>4. BatchTypeOK
  BY BatchAssumption DEF Init, BatchInit, BatchTypeOK, EmptyBatch, Batch, FileIds
<1>5. AgentTypeOK
  BY AgentAssumption DEF Init, AgentTypeOK
<1>6. HandFull
  BY DEF Init, HandFull, Sending
<1> QED BY <1>1, <1>2, <1>3, <1>4, <1>5, <1>6 DEF TInv, TypeOK

LEMMA BootTInv == ASSUME TInv, Boot PROVE TInv'
<1>1. FollowerTypeOK'
  BY DEF Boot, StartReopen, TInv, TypeOK, FollowerTypeOK
<1>2. AgentTypeOK' /\ HandFull'
  BY AgentAssumption DEF Boot, Goto, history, TInv, TypeOK, AgentTypeOK,
                         HandFull, Sending
<1> QED BY <1>1, <1>2, FsUnchanged, FramerUnchanged, BatchUnchanged,
           RetryUnchanged DEF Boot, TInv, TypeOK

LEMMA OpeningTInv == ASSUME TInv, Opening PROVE TInv'
<1>1. FollowerTypeOK'
  BY OpenKeepsType DEF Opening, TInv, TypeOK
<1>2. AgentTypeOK' /\ HandFull'
  BY DEF Opening, history, TInv, TypeOK, AgentTypeOK, HandFull, Sending
<1> QED BY <1>1, <1>2, FsUnchanged, FramerUnchanged, BatchUnchanged,
           RetryUnchanged DEF Opening, TInv, TypeOK

LEMMA LoadResumesTInv == ASSUME TInv, LoadResumes PROVE TInv'
<1>1. disk.gen \in Nat /\ disk.off \in Nat /\ activeId \in FileIds
  BY DEF LoadResumes, Resumable, TInv, TypeOK, AgentTypeOK, Label,
         FollowerTypeOK
<1>2. FollowerTypeOK'
  <2>1. 0 \in 0..SettleTime
    BY FollowerAssumption
  <2>2. /\ generation' = disk.gen /\ readOffset' = disk.off
        /\ wasEof' = FALSE /\ eofAge' = 0 /\ rotationPending' = FALSE
        /\ UNCHANGED <<fd, activeId, opening, statId, changed>>
    BY DEF LoadResumes, SetPosition
  <2> QED BY <1>1, <2>1, <2>2 DEF TInv, TypeOK, FollowerTypeOK
<1>3. BatchTypeOK'
  BY <1>1, ResetBatchType DEF LoadResumes
<1>4. AgentTypeOK' /\ HandFull'
  BY <1>1 DEF LoadResumes, Goto, history, TInv, TypeOK, AgentTypeOK, HandFull,
              Sending
<1> QED BY <1>2, <1>3, <1>4, FsUnchanged, FramerUnchanged, RetryUnchanged
        DEF LoadResumes, TInv, TypeOK

LEMMA LoadStartsOverTInv == ASSUME TInv, LoadStartsOver PROVE TInv'
<1>1. activeId \in FileIds /\ generation \in Nat
  BY DEF TInv, TypeOK, FollowerTypeOK
<1>2. BatchTypeOK'
  BY <1>1, ResetBatchType DEF LoadStartsOver
<1>3. AgentTypeOK' /\ HandFull'
  BY <1>1 DEF LoadStartsOver, Goto, history, TInv, TypeOK, AgentTypeOK,
              HandFull, Sending
<1> QED BY <1>2, <1>3, FsUnchanged, FollowerUnchanged, FramerUnchanged,
           RetryUnchanged DEF LoadStartsOver, TInv, TypeOK

LEMMA LoadWithoutFileTInv == ASSUME TInv, LoadWithoutFile PROVE TInv'
<1>1. AgentTypeOK' /\ HandFull'
  BY DEF LoadWithoutFile, Goto, history, TInv, TypeOK, AgentTypeOK, HandFull,
         Sending
<1> QED BY <1>1, FsUnchanged, FollowerUnchanged, FramerUnchanged,
           BatchUnchanged, RetryUnchanged DEF LoadWithoutFile, TInv, TypeOK

LEMMA TickRetryTInv == ASSUME TInv, TickRetry PROVE TInv'
<1>1. RetryTypeOK' /\ held' # None
  BY PopReadyType, NoneNotPending DEF TickRetry, TInv, TypeOK
<1>2. AgentTypeOK' /\ HandFull'
  BY <1>1 DEF TickRetry, Goto, history, TInv, TypeOK, AgentTypeOK, HandFull
<1> QED BY <1>1, <1>2, FsUnchanged, FollowerUnchanged, FramerUnchanged,
           BatchUnchanged DEF TickRetry, TInv, TypeOK

LEMMA HandOverTInv ==
  ASSUME TInv, NEW s \in {"due", "rotate", "full", "limit", "shutdown"},
         NEW force, HandOver(s, force)
  PROVE  TInv'
<1>1. batch \in Batch
  BY DEF TInv, TypeOK, BatchTypeOK
<1>2. held' \in PendingBatch /\ held' # None
  BY <1>1, HoldType DEF HandOver
<1>3. RetryTypeOK'
  BY <1>2 DEF HandOver, TInv, TypeOK, RetryTypeOK
<1>4. BatchTypeOK'
  BY FlushType DEF HandOver, TInv, TypeOK
<1>5. AgentTypeOK' /\ HandFull'
  BY <1>2 DEF HandOver, Goto, history, TInv, TypeOK, AgentTypeOK, HandFull
<1> QED BY <1>3, <1>4, <1>5, FsUnchanged, FollowerUnchanged, FramerUnchanged
        DEF HandOver, TInv, TypeOK

LEMMA TickPollTInv == ASSUME TInv, TickPoll PROVE TInv'
<1>1. FollowerTypeOK'
  BY PollKeepsType DEF TickPoll, TInv, TypeOK
<1>2. AgentTypeOK' /\ HandFull'
  BY DEF TickPoll, Goto, history, TInv, TypeOK, AgentTypeOK, HandFull, Sending
<1> QED BY <1>1, <1>2, FsUnchanged, FramerUnchanged, BatchUnchanged,
           RetryUnchanged DEF TickPoll, TInv, TypeOK

LEMMA ResetForNewFileTInv == ASSUME TInv, ResetForNewFile PROVE TInv'
<1>1. activeId \in FileIds /\ generation \in Nat
  BY DEF TInv, TypeOK, FollowerTypeOK
<1>2. FollowerTypeOK'
  BY DEF ResetForNewFile, TInv, TypeOK, FollowerTypeOK
<1>3. FramerTypeOK'
  BY DEF ResetForNewFile, FramerReset, FramerTypeOK
<1>4. BatchTypeOK'
  BY <1>1, ResetBatchType DEF ResetForNewFile
<1>5. AgentTypeOK' /\ HandFull'
  BY <1>1 DEF ResetForNewFile, Goto, history, TInv, TypeOK, AgentTypeOK,
              HandFull, Sending
<1> QED BY <1>2, <1>3, <1>4, <1>5, FsUnchanged, RetryUnchanged
        DEF ResetForNewFile, TInv, TypeOK

LEMMA ReadChunkTInv == ASSUME TInv, ReadChunk PROVE TInv'
<1>1. PICK n \in 1..MaxRead :
        /\ pc = "polled"
        /\ ReadData(n)
        /\ \E cuts \in Cuts(Buffered(Chunk(n))) :
             /\ framed' = Labelled(Lines(Buffered(Chunk(n)),
                                         BufferBase(readOffset), cuts))
             /\ IngestAndDrain(Chunk(n), readOffset, cuts)
        /\ taken' = taken \cup Range(framed')
        /\ Goto(IF framed' = <<>> THEN "sleep" ELSE "push", "limit")
        /\ UNCHANGED <<fsVars, batchVars, retryVars, committedOffset,
                       committedGen, disk, boots, received, acked>>
  BY DEF ReadChunk
<1>2. n \in Nat /\ fd # None /\ readOffset \in Nat
  BY <1>1, FollowerAssumption DEF ReadData, TInv, TypeOK, FollowerTypeOK
<1>3. Chunk(n) \in Seq(Byte)
  BY <1>2, ChunkType DEF TInv, TypeOK
<1>4. Buffered(Chunk(n)) \in Seq(Byte) /\ BufferBase(readOffset) \in Nat
  BY <1>2, <1>3, ConcatProperties
     DEF Buffered, BufferBase, TInv, TypeOK, FramerTypeOK
<1>5. PICK cuts \in Cuts(Buffered(Chunk(n))) :
        /\ framed' = Labelled(Lines(Buffered(Chunk(n)), BufferBase(readOffset),
                                    cuts))
        /\ IngestAndDrain(Chunk(n), readOffset, cuts)
  BY <1>1
<1>6. FramerTypeOK'
  BY <1>2, <1>3, <1>5, IngestKeepsType DEF TInv, TypeOK
<1>7. framed' \in Seq(Record)
  BY <1>4, <1>5, LinesType, LabelledType DEF TInv, TypeOK
<1>8. FollowerTypeOK'
  BY <1>1, <1>2, ReadKeepsType DEF TInv, TypeOK
<1>9. taken' \in SUBSET Record
  BY <1>1, <1>7, RangeType DEF TInv, TypeOK, AgentTypeOK
<1>10. AgentTypeOK' /\ HandFull'
  BY <1>1, <1>7, <1>9 DEF Goto, TInv, TypeOK, AgentTypeOK, HandFull, Sending
<1> QED BY <1>1, <1>6, <1>8, <1>10, FsUnchanged, BatchUnchanged,
           RetryUnchanged DEF TInv, TypeOK

LEMMA ReadNoChunkTInv == ASSUME TInv, ReadNoChunk PROVE TInv'
<1>1. FollowerTypeOK'
  <2>1. 0 \in Nat
    OBVIOUS
  <2> QED BY <2>1, ReadKeepsType DEF ReadNoChunk, TInv, TypeOK
<1>2. AgentTypeOK' /\ HandFull'
  BY DEF ReadNoChunk, Goto, history, TInv, TypeOK, AgentTypeOK, HandFull,
         Sending
<1> QED BY <1>1, <1>2, FsUnchanged, FramerUnchanged, BatchUnchanged,
           RetryUnchanged DEF ReadNoChunk, TInv, TypeOK

LEMMA PushRecordTInv == ASSUME TInv, PushRecord PROVE TInv'
<1>1. Head(framed) \in Record /\ Tail(framed) \in Seq(Record)
  BY HeadTailProperties DEF PushRecord, TInv, TypeOK, AgentTypeOK
<1>2. BatchTypeOK'
  BY <1>1, PushType DEF PushRecord, TInv, TypeOK
<1>3. AgentTypeOK' /\ HandFull'
  BY <1>1 DEF PushRecord, history, TInv, TypeOK, AgentTypeOK, HandFull, Sending
<1> QED BY <1>2, <1>3, FsUnchanged, FollowerUnchanged, FramerUnchanged,
           RetryUnchanged DEF PushRecord, TInv, TypeOK

LEMMA KeepBatchTInv == ASSUME TInv, KeepBatch PROVE TInv'
<1>1. AgentTypeOK' /\ HandFull'
  BY DEF KeepBatch, Goto, history, TInv, TypeOK, AgentTypeOK, HandFull, Sending
<1> QED BY <1>1, FsUnchanged, FollowerUnchanged, FramerUnchanged,
           BatchUnchanged, RetryUnchanged DEF KeepBatch, TInv, TypeOK

\* Time passing keeps the types of the three clocks.
LEMMA ElapseType ==
  ASSUME FollowerTypeOK, BatchTypeOK, RetryTypeOK, NEW d \in Nat, Elapse(d)
  PROVE  /\ q' \in Seq(PendingBatch)
         /\ age' \in 0..FlushInterval
         /\ eofAge' \in 0..SettleTime
BY WaitedType, AgedType, EofAgedType DEF Elapse, RetryTypeOK

LEMMA SendTInv == ASSUME TInv, Send PROVE TInv'
<1>1. PICK o \in SendOutcomes, d \in SendTimes :
        /\ pc = "send"
        /\ received' = received \cup (IF o = "refused" THEN {}
                                      ELSE Range(held.batch.records))
        /\ acked' = acked \cup (IF o = "acked" THEN {LabelOf(held.batch)} ELSE {})
        /\ pc' = IF o = "acked" THEN "acked" ELSE "failed"
        /\ Elapse(d)
        /\ UNCHANGED <<fsVars, fd, activeId, generation, readOffset,
                       rotationPending, wasEof, opening, statId, changed,
                       framerVars, batch, approxBytes, held, givenUp, site,
                       framed, committedOffset, committedGen, disk, boots, taken>>
  BY DEF Send
<1>2. d \in Nat
  BY AgentAssumption
<1>3. /\ q' \in Seq(PendingBatch)
      /\ age' \in 0..FlushInterval
      /\ eofAge' \in 0..SettleTime
  BY <1>1, <1>2, ElapseType DEF TInv, TypeOK
<1>4. held # None /\ held \in PendingBatch
  BY <1>1 DEF TInv, HandFull, Sending, TypeOK, RetryTypeOK
<1>5. held.batch \in Batch
  BY <1>4 DEF PendingBatch
<1>6. Range(held.batch.records) \in SUBSET Record
  <2>1. held.batch.records \in Seq(Record)
    BY <1>5 DEF Batch
  <2> QED BY <2>1, RangeType
<1>7. LabelOf(held.batch) \in Label
  BY <1>5 DEF LabelOf, Label, Batch
<1>8. AgentTypeOK' /\ HandFull'
  BY <1>1, <1>4, <1>6, <1>7 DEF TInv, TypeOK, AgentTypeOK, HandFull
<1>9. FollowerTypeOK'
  BY <1>1, <1>3 DEF TInv, TypeOK, FollowerTypeOK
<1>10. BatchTypeOK' /\ RetryTypeOK'
  BY <1>1, <1>3 DEF TInv, TypeOK, BatchTypeOK, RetryTypeOK
<1> QED BY <1>1, <1>8, <1>9, <1>10, FsUnchanged, FramerUnchanged
        DEF TInv, TypeOK

LEMMA CommitTInv == ASSUME TInv, Commit PROVE TInv'
<1>1. held # None /\ held \in PendingBatch
  BY DEF Commit, TInv, HandFull, Sending, TypeOK, RetryTypeOK
<1>2. held.batch \in Batch
  BY <1>1 DEF PendingBatch
<1>3. held.batch.end \in Nat
  BY <1>2 DEF Batch
<1>4. committedOffset' \in Nat /\ committedGen' \in Nat
  BY <1>3 DEF Commit, Larger, TInv, TypeOK, AgentTypeOK, FollowerTypeOK
<1>5. RetryTypeOK'
  BY DEF Commit, Release, TInv, TypeOK, RetryTypeOK
<1>6. AgentTypeOK' /\ HandFull'
  BY <1>4 DEF Commit, history, TInv, TypeOK, AgentTypeOK, HandFull, Sending
<1> QED BY <1>5, <1>6, FsUnchanged, FollowerUnchanged, FramerUnchanged,
           BatchUnchanged DEF Commit, TInv, TypeOK

LEMMA SkipCommitTInv == ASSUME TInv, SkipCommit PROVE TInv'
<1>1. RetryTypeOK'
  BY DEF SkipCommit, Release, TInv, TypeOK, RetryTypeOK
<1>2. AgentTypeOK' /\ HandFull'
  BY ResumeType DEF SkipCommit, history, TInv, TypeOK, AgentTypeOK, HandFull,
                    Sending
<1> QED BY <1>1, <1>2, FsUnchanged, FollowerUnchanged, FramerUnchanged,
           BatchUnchanged DEF SkipCommit, TInv, TypeOK

LEMMA SendFailedTInv == ASSUME TInv, SendFailed PROVE TInv'
<1>1. RetryTypeOK'
  BY EnqueueType, RequeueType DEF SendFailed, TInv, TypeOK
<1>2. AgentTypeOK' /\ HandFull'
  BY ResumeType DEF SendFailed, history, TInv, TypeOK, AgentTypeOK, HandFull,
                    Sending
<1> QED BY <1>1, <1>2, FsUnchanged, FollowerUnchanged, FramerUnchanged,
           BatchUnchanged DEF SendFailed, TInv, TypeOK

LEMMA SaveTInv == ASSUME TInv, Save PROVE TInv'
<1>1. disk' \in Label \cup {None}
  BY DEF Save, TInv, TypeOK, AgentTypeOK, FollowerTypeOK, Label
<1>2. AgentTypeOK' /\ HandFull'
  BY <1>1, ResumeType DEF Save, history, TInv, TypeOK, AgentTypeOK, HandFull,
                          Sending
<1> QED BY <1>2, FsUnchanged, FollowerUnchanged, FramerUnchanged,
           BatchUnchanged, RetryUnchanged DEF Save, TInv, TypeOK

LEMMA SleepTInv == ASSUME TInv, Sleep PROVE TInv'
<1>1. PICK d \in SleepTimes :
        /\ Elapse(d)
        /\ Goto("top", "due")
        /\ UNCHANGED <<fsVars, fd, activeId, generation, readOffset,
                       rotationPending, wasEof, opening, statId, changed,
                       framerVars, batch, approxBytes, held, givenUp, framed,
                       committedOffset, committedGen, disk, boots, history>>
  BY DEF Sleep
<1>2. d \in Nat
  BY AgentAssumption
<1>3. /\ q' \in Seq(PendingBatch)
      /\ age' \in 0..FlushInterval
      /\ eofAge' \in 0..SettleTime
  BY <1>1, <1>2, ElapseType DEF TInv, TypeOK
<1>4. FollowerTypeOK'
  BY <1>1, <1>3 DEF TInv, TypeOK, FollowerTypeOK
<1>5. BatchTypeOK' /\ RetryTypeOK'
  BY <1>1, <1>3 DEF TInv, TypeOK, BatchTypeOK, RetryTypeOK
<1>6. AgentTypeOK' /\ HandFull'
  BY <1>1 DEF Goto, history, TInv, TypeOK, AgentTypeOK, HandFull, Sending
<1> QED BY <1>1, <1>4, <1>5, <1>6, FsUnchanged, FramerUnchanged
        DEF TInv, TypeOK

LEMMA StopIdleTInv == ASSUME TInv, StopIdle PROVE TInv'
<1>1. AgentTypeOK' /\ HandFull'
  BY DEF StopIdle, Goto, history, TInv, TypeOK, AgentTypeOK, HandFull, Sending
<1> QED BY <1>1, FsUnchanged, FollowerUnchanged, FramerUnchanged,
           BatchUnchanged, RetryUnchanged DEF StopIdle, TInv, TypeOK

LEMMA GoneTInv == ASSUME TInv, Gone PROVE TInv'
<1>1. None \in FileIds /\ 0 \in 0..SettleTime
  BY FollowerAssumption DEF FileIds
<1>2. FollowerTypeOK'
  BY <1>1 DEF Gone, FollowerTypeOK
<1>3. BatchTypeOK'
  BY <1>1, ResetBatchType DEF Gone
<1>4. FramerTypeOK' /\ RetryTypeOK'
  BY DEF Gone, FramerReset, FramerTypeOK, RetryTypeOK
<1>5. AgentTypeOK' /\ HandFull'
  BY DEF Gone, Goto, TInv, TypeOK, AgentTypeOK, HandFull, Sending
<1> QED BY <1>2, <1>3, <1>4, <1>5, FsUnchanged DEF Gone, TInv, TypeOK

LEMMA EnvironmentTInv == ASSUME TInv, Environment PROVE TInv'
<1>1. FsTypeOK'
  BY FsKeepsType DEF Environment, TInv, TypeOK
<1>2. AgentTypeOK' /\ HandFull'
  BY DEF Environment, agentVars, history, TInv, TypeOK, AgentTypeOK, HandFull,
         Sending
<1> QED BY <1>1, <1>2, FollowerUnchanged, FramerUnchanged, BatchUnchanged,
           RetryUnchanged DEF Environment, TInv, TypeOK

LEMMA StutterTInv == ASSUME TInv, UNCHANGED vars PROVE TInv'
<1>1. AgentTypeOK' /\ HandFull'
  BY DEF vars, agentVars, retryVars, history, TInv, TypeOK, AgentTypeOK, HandFull
<1> QED BY <1>1, FsUnchanged, FollowerUnchanged, FramerUnchanged,
           BatchUnchanged, RetryUnchanged DEF vars, TInv, TypeOK

LEMMA NextTInv == TInv /\ [Next]_vars => TInv'
<1> SUFFICES ASSUME TInv, [Next]_vars PROVE TInv'
  OBVIOUS
<1>1. CASE RunOnce
  <2>1. CASE TickFlush \/ FlushOld \/ FlushFull \/ FlushLimits
    BY <2>1, HandOverTInv DEF TickFlush, FlushOld, FlushFull, FlushLimits
  <2>2. CASE TickRetry \/ TickPoll \/ Opening \/ ResetForNewFile
    BY <2>2, TickRetryTInv, TickPollTInv, OpeningTInv, ResetForNewFileTInv
  <2>3. CASE ReadChunk \/ ReadNoChunk \/ PushRecord \/ KeepBatch
    BY <2>3, ReadChunkTInv, ReadNoChunkTInv, PushRecordTInv, KeepBatchTInv
  <2>4. CASE Send \/ Commit \/ SkipCommit \/ SendFailed \/ Save \/ Sleep
    BY <2>4, SendTInv, CommitTInv, SkipCommitTInv, SendFailedTInv, SaveTInv,
       SleepTInv
  <2>5. CASE Exit
    BY <2>5, GoneTInv DEF Exit
  <2> QED BY <1>1, <2>1, <2>2, <2>3, <2>4, <2>5 DEF RunOnce
<1>2. CASE Loading
  BY <1>2, LoadResumesTInv, LoadStartsOverTInv, LoadWithoutFileTInv DEF Loading
<1>3. CASE Stop
  BY <1>3, HandOverTInv, StopIdleTInv DEF Stop, StopFlushes
<1>4. CASE Crash
  BY <1>4, GoneTInv DEF Crash
<1> QED BY <1>1, <1>2, <1>3, <1>4, BootTInv, EnvironmentTInv, StutterTInv
        DEF Next

LEMMA Typed == Spec => []TInv
BY InitTInv, NextTInv, PTL DEF Spec

\* Agent.cpp: every variable of the agent and of its parts keeps its type.
THEOREM TypeCorrect == Spec => []TypeOK
BY Typed, PTL DEF TInv
------------------------------------------------------------------------------
(***************************************************************************)
(* No record is dropped inside the agent, and its retry queue is bounded.  *)
(* AccountedFor is not inductive: it holds because nothing is framed while *)
(* records of the last chunk are still to be pushed, nothing taken in hand *)
(* while a batch is there, nothing let go that the backend does not have,  *)
(* and nothing loaded while a record is anywhere; the queue is bounded     *)
(* because a retry has a place in it to go back to.  AInv and QInv say so. *)
(***************************************************************************)
\* Records left to push: the loop over them is under way, or its full batch is
\* being sent.
Pushing ==
  \/ pc = "push"
  \/ site = "full" /\ pc \in {"send", "acked", "failed", "save"}

Starting == pc \in {"down", "load"} \/ (pc = "open" /\ site = "boot")

AInv ==
  /\ AccountedFor
  /\ framed # <<>> => Pushing
  /\ Starting => taken = {}
  /\ held # None => pc \in Sending
  /\ pc = "acked" => Range(held.batch.records) \subseteq received

QInv ==
  /\ Len(q) <= MaxQueue
  /\ held # None /\ held.attempts > 0 => site = "retry"
  /\ held # None /\ site = "retry" => Len(q) < MaxQueue

\* The batches the agent or the retry policy answers for, but for the one under
\* construction.
Owned == InHand \cup Waiting \cup givenUp

Somewhere(r) ==
  \/ r \in Range(framed) \cup received \cup Range(batch.records)
  \/ \E b \in Owned : r \in Range(b.records)

\* AccountedFor, record by record, before a step and after it.
LEMMA AccountedByRecord == AccountedFor <=> \A r \in taken : Somewhere(r)
BY DEF AccountedFor, RecordsOf, Owned, Somewhere

LEMMA AccountedByRecordNext ==
  AccountedFor' <=> \A r \in taken' : Somewhere(r)'
BY DEF AccountedFor, RecordsOf, Owned, Somewhere

LEMMA NoElements == Range(<<>>) = {}
BY DEF Range

\* What a step leaves the records where they are.
LEMMA RecordsStay ==
  ASSUME AccountedFor, taken' \subseteq taken, received \subseteq received',
         framed' = framed, batch' = batch, Owned \subseteq Owned'
  PROVE  AccountedFor'
BY AccountedByRecord, AccountedByRecordNext DEF Somewhere

LEMMA OwnedStays ==
  ASSUME UNCHANGED <<held, givenUp>>, Waiting' = Waiting PROVE Owned' = Owned
BY DEF Owned, InHand
------------------------------------------------------------------------------
IInv == AInv /\ QInv

LEMMA InitIInv == ASSUME Init PROVE IInv
<1>1. taken = {} /\ held = None /\ framed = <<>> /\ q = <<>>
  BY DEF Init, RetryInit
<1>2. pc = "down"
  BY DEF Init
<1>3. AInv
  BY <1>1, <1>2 DEF AInv, AccountedFor
<1>4. Len(q) = 0
  BY <1>1
<1> QED BY <1>1, <1>3, <1>4, RetryAssumption DEF IInv, QInv

\* A step that touches neither records nor batches has only to be at a place
\* where the rest of the invariant allows it.
LEMMA QuietIInv ==
  ASSUME IInv, UNCHANGED <<framed, batchVars, retryVars, history>>,
         held # None => pc' \in Sending /\ site' = site /\ pc' = pc,
         framed # <<>> => Pushing',
         Starting' => taken = {},
         pc' = "acked" => pc = "acked"
  PROVE  IInv'
<1>1. Owned' = Owned
  BY DEF retryVars, Owned, InHand, Waiting
<1>2. AccountedFor'
  BY <1>1, RecordsStay DEF IInv, AInv, batchVars, history
<1>3. AInv'
  BY <1>2 DEF IInv, AInv, retryVars, history
<1>4. QInv'
  BY DEF IInv, QInv, retryVars
<1> QED BY <1>3, <1>4 DEF IInv

LEMMA BootIInv == ASSUME IInv, Boot PROVE IInv'
BY QuietIInv DEF Boot, Goto, IInv, AInv, Starting, Pushing, Sending

LEMMA OpeningIInv == ASSUME IInv, Opening PROVE IInv'
BY QuietIInv DEF Opening, IInv, AInv, Starting, Pushing, Sending

LEMMA LoadWithoutFileIInv == ASSUME IInv, LoadWithoutFile PROVE IInv'
BY QuietIInv DEF LoadWithoutFile, Goto, IInv, AInv, Starting, Pushing, Sending

LEMMA TickPollIInv == ASSUME IInv, TickPoll PROVE IInv'
BY QuietIInv DEF TickPoll, Goto, IInv, AInv, Starting, Pushing, Sending

LEMMA ReadNoChunkIInv == ASSUME IInv, ReadNoChunk PROVE IInv'
BY QuietIInv DEF ReadNoChunk, Goto, IInv, AInv, Starting, Pushing, Sending

LEMMA KeepBatchIInv == ASSUME IInv, KeepBatch PROVE IInv'
BY QuietIInv DEF KeepBatch, Goto, IInv, AInv, Starting, Pushing, Sending

LEMMA StopIdleIInv == ASSUME IInv, StopIdle PROVE IInv'
BY QuietIInv DEF StopIdle, Goto, IInv, AInv, Starting, Pushing, Sending

LEMMA SaveIInv == ASSUME IInv, Save PROVE IInv'
<1>1. /\ pc = "save" /\ site' = site /\ Resume(site)
      /\ UNCHANGED <<framed, batchVars, retryVars, history>>
  BY DEF Save
<1>2. pc' \in {"sleep", "polled", "push", "exit"} /\ (site = "full" => pc' = "push")
  BY <1>1 DEF Resume
<1> QED BY <1>1, <1>2, QuietIInv DEF IInv, AInv, Starting, Pushing, Sending

LEMMA EnvironmentIInv == ASSUME IInv, Environment PROVE IInv'
BY QuietIInv DEF Environment, agentVars, IInv, AInv, Starting, Pushing, Sending

LEMMA StutterIInv == ASSUME IInv, UNCHANGED vars PROVE IInv'
BY QuietIInv DEF vars, agentVars, IInv, AInv, Starting, Pushing, Sending

\* The process dies and its history with it.
LEMMA GoneIInv == ASSUME IInv, Gone PROVE IInv'
<1>1. taken' = {} /\ held' = None /\ framed' = <<>> /\ q' = <<>> /\ pc' = "down"
  BY DEF Gone, Goto
<1>2. AInv'
  BY <1>1 DEF AInv, AccountedFor
<1>3. Len(q') = 0
  BY <1>1
<1> QED BY <1>1, <1>2, <1>3, RetryAssumption DEF IInv, QInv

\* Nothing is framed yet when the checkpoint is loaded.
LEMMA LoadIInv == ASSUME IInv, LoadResumes \/ LoadStartsOver PROVE IInv'
<1>1. /\ pc = "load" /\ pc' = "top"
      /\ UNCHANGED <<framed, retryVars, history>>
  BY DEF LoadResumes, LoadStartsOver, Goto
<1>2. taken = {} /\ held = None /\ framed = <<>>
  BY <1>1 DEF IInv, AInv, Starting, Pushing, Sending
<1>3. AInv'
  BY <1>1, <1>2 DEF AInv, AccountedFor, retryVars, history
<1>4. QInv'
  BY <1>1, <1>2 DEF IInv, QInv, retryVars
<1> QED BY <1>3, <1>4 DEF IInv
------------------------------------------------------------------------------
LEMMA TickRetryIInv == ASSUME TInv, IInv, TickRetry PROVE IInv'
<1>1. /\ pc = "top" /\ pc' = "send" /\ site' = "retry"
      /\ q # <<>> /\ held' = Head(q) /\ q' = Tail(q)
      /\ UNCHANGED <<framed, batch, givenUp, history>>
  BY DEF TickRetry, Goto, PopReady, FrontReady, batchVars
<1>2. held = None /\ framed = <<>>
  BY <1>1 DEF IInv, AInv, Pushing, Sending
<1>3. q \in Seq(PendingBatch) /\ held' # None
  BY <1>1, PopReadyType, NoneNotPending DEF TickRetry, TInv, TypeOK, RetryTypeOK
<1>4. Waiting = Waiting' \cup {held'.batch}
  BY <1>1, <1>3, BatchesInTail DEF Waiting
<1>5. Owned' = Owned
  BY <1>1, <1>2, <1>3, <1>4 DEF Owned, InHand
<1>6. AccountedFor'
  BY <1>1, <1>5, RecordsStay DEF IInv, AInv, history
<1>7. AInv'
  BY <1>1, <1>2, <1>6 DEF AInv, Starting, Sending
<1>8. Len(q') = Len(q) - 1 /\ Len(q) \in Nat
  BY <1>1, <1>3, HeadTailProperties, LenProperties
<1>9. QInv'
  BY <1>1, <1>8, RetryAssumption DEF IInv, QInv
<1> QED BY <1>7, <1>9 DEF IInv

\* The batch under construction passes whole into the agent's hands.
LEMMA HandOverIInv ==
  ASSUME TInv, IInv, NEW s \in {"due", "rotate", "full", "limit", "shutdown"},
         NEW force, HandOver(s, force), held = None,
         framed # <<>> => s = "full"
  PROVE  IInv'
<1>1. /\ pc' = "send" /\ site' = s
      /\ Hold(batch) /\ Flush
      /\ UNCHANGED <<framed, q, givenUp, history>>
  BY DEF HandOver, Goto
<1>2. held' # None /\ held'.batch = batch /\ held'.attempts = 0
  BY <1>1, HoldType DEF TInv, TypeOK, BatchTypeOK
<1>3. Owned' = Owned \cup {batch}
  BY <1>1, <1>2 DEF Owned, InHand, Waiting
<1>4. AccountedFor'
  <2>1. SUFFICES ASSUME NEW r \in taken' PROVE Somewhere(r)'
    BY AccountedByRecordNext
  <2>2. Somewhere(r)
    BY <1>1, AccountedByRecord DEF IInv, AInv, history
  <2> QED BY <1>1, <1>3, <2>2 DEF Somewhere, history
<1>5. AInv'
  BY <1>1, <1>4 DEF AInv, Starting, Pushing, Sending
<1>6. QInv'
  BY <1>1, <1>2 DEF IInv, QInv
<1> QED BY <1>5, <1>6 DEF IInv

LEMMA FlushIInv ==
  ASSUME TInv, IInv,
         TickFlush \/ FlushOld \/ FlushFull \/ FlushLimits \/ StopFlushes
  PROVE  IInv'
<1>1. pc \in {"top", "polled", "push"} => held = None
  BY DEF IInv, AInv, Sending
<1>2. pc \in {"top", "polled"} => framed = <<>>
  BY DEF IInv, AInv, Pushing
<1>3. CASE TickFlush
  BY <1>1, <1>2, <1>3, HandOverIInv DEF TickFlush
<1>4. CASE FlushOld
  BY <1>1, <1>2, <1>4, HandOverIInv DEF FlushOld
<1>5. CASE FlushFull
  BY <1>1, <1>5, HandOverIInv DEF FlushFull
<1>6. CASE FlushLimits
  BY <1>1, <1>6, HandOverIInv DEF FlushLimits
<1>7. CASE StopFlushes
  BY <1>1, <1>2, <1>7, HandOverIInv DEF StopFlushes
<1> QED BY <1>3, <1>4, <1>5, <1>6, <1>7

\* The reset finds the batch empty: what was in it has been flushed.
LEMMA ResetForNewFileIInv == ASSUME IInv, ResetForNewFile PROVE IInv'
<1>1. /\ pc = "polled" /\ pc' = "save" /\ site' = "reset"
      /\ batch.records = <<>> /\ batch'.records = <<>>
      /\ UNCHANGED <<framed, retryVars, history>>
  BY DEF ResetForNewFile, Goto, FlushReady, ResetBatch, EmptyBatch
<1>2. held = None /\ framed = <<>>
  BY <1>1 DEF IInv, AInv, Pushing, Sending
<1>3. Owned' = Owned
  BY <1>1 DEF retryVars, Owned, InHand, Waiting
<1>4. AccountedFor'
  <2>1. SUFFICES ASSUME NEW r \in taken' PROVE Somewhere(r)'
    BY AccountedByRecordNext
  <2>2. Somewhere(r)
    BY <1>1, AccountedByRecord DEF IInv, AInv, history
  <2> QED BY <1>1, <1>3, <2>2 DEF Somewhere, history
<1>5. AInv' /\ QInv'
  BY <1>1, <1>2, <1>4 DEF IInv, AInv, QInv, Starting, retryVars
<1> QED BY <1>5 DEF IInv

LEMMA ReadChunkIInv == ASSUME IInv, ReadChunk PROVE IInv'
<1>1. /\ pc = "polled" /\ pc' = (IF framed' = <<>> THEN "sleep" ELSE "push")
      /\ taken' = taken \cup Range(framed')
      /\ UNCHANGED <<batch, retryVars, received>>
  BY DEF ReadChunk, Goto, batchVars
<1>2. held = None /\ framed = <<>>
  BY <1>1 DEF IInv, AInv, Pushing, Sending
<1>3. Owned' = Owned
  BY <1>1 DEF retryVars, Owned, InHand, Waiting
<1>4. AccountedFor'
  <2>1. SUFFICES ASSUME NEW r \in taken' PROVE Somewhere(r)'
    BY AccountedByRecordNext
  <2>2. CASE r \in Range(framed')
    BY <2>2 DEF Somewhere
  <2>3. CASE r \in taken
    BY <1>1, <1>2, <1>3, <2>3, AccountedByRecord, NoElements
       DEF IInv, AInv, Somewhere
  <2> QED BY <1>1, <2>2, <2>3
<1>5. AInv' /\ QInv'
  BY <1>1, <1>2, <1>4 DEF IInv, AInv, QInv, Starting, Pushing, retryVars
<1> QED BY <1>5 DEF IInv
------------------------------------------------------------------------------
LEMMA RangeTail ==
  ASSUME NEW S, NEW s \in Seq(S), s # <<>>
  PROVE  Range(s) \subseteq {Head(s)} \cup Range(Tail(s))
<1>1. Len(s) \in Nat \ {0} /\ DOMAIN s = 1..Len(s) /\ Head(s) = s[1]
  BY LenProperties, EmptySeq
<1>2. /\ DOMAIN Tail(s) = 1..Len(s) - 1
      /\ \A i \in 1..Len(s) - 1 : Tail(s)[i] = s[i + 1]
  BY HeadTailProperties, LenProperties
<1>3. SUFFICES ASSUME NEW i \in 1..Len(s), i # 1
               PROVE  s[i] \in Range(Tail(s))
  BY <1>1 DEF Range
<1>4. i - 1 \in 1..Len(s) - 1 /\ (i - 1) + 1 = i
  BY <1>1, <1>3
<1>5. i - 1 \in DOMAIN Tail(s) /\ Tail(s)[i - 1] = s[i]
  BY <1>2, <1>4
<1> QED BY <1>5 DEF Range

LEMMA RangeAppend ==
  ASSUME NEW S, NEW s \in Seq(S), NEW x \in S
  PROVE  Range(s) \cup {x} \subseteq Range(Append(s, x))
<1>1. /\ Len(s) \in Nat /\ DOMAIN s = 1..Len(s)
      /\ DOMAIN Append(s, x) = 1..Len(s) + 1
  BY AppendProperties, LenProperties
<1>2. /\ \A i \in 1..Len(s) : Append(s, x)[i] = s[i]
      /\ Append(s, x)[Len(s) + 1] = x
  BY AppendProperties
<1>3. x \in Range(Append(s, x))
  BY <1>1, <1>2 DEF Range
<1>4. ASSUME NEW i \in 1..Len(s) PROVE s[i] \in Range(Append(s, x))
  <2>1. i \in DOMAIN Append(s, x) /\ Append(s, x)[i] = s[i]
    BY <1>1, <1>2
  <2> QED BY <2>1 DEF Range
<1> QED BY <1>1, <1>3, <1>4 DEF Range

LEMMA PushRecordIInv == ASSUME TInv, IInv, PushRecord PROVE IInv'
<1>1. /\ pc = "push" /\ framed # <<>> /\ framed' = Tail(framed)
      /\ batch'.records = Append(batch.records, Head(framed))
      /\ UNCHANGED <<retryVars, pc, site, history>>
  BY DEF PushRecord, Push, TInv, TypeOK, BatchTypeOK, Batch
<1>2. /\ framed \in Seq(Record) /\ Head(framed) \in Record
      /\ batch.records \in Seq(Record)
  BY <1>1, HeadTailProperties
     DEF TInv, TypeOK, AgentTypeOK, BatchTypeOK, Batch
<1>3. /\ Range(framed) \subseteq {Head(framed)} \cup Range(framed')
      /\ Range(batch.records) \cup {Head(framed)} \subseteq Range(batch'.records)
  BY <1>1, <1>2, RangeTail, RangeAppend
<1>4. Owned' = Owned
  BY <1>1 DEF retryVars, Owned, InHand, Waiting
<1>5. AccountedFor'
  <2>1. SUFFICES ASSUME NEW r \in taken' PROVE Somewhere(r)'
    BY AccountedByRecordNext
  <2>2. Somewhere(r)
    BY <1>1, AccountedByRecord DEF IInv, AInv, history
  <2> QED BY <1>1, <1>3, <1>4, <2>2 DEF Somewhere, history
<1>6. AInv' /\ QInv'
  BY <1>1, <1>5 DEF IInv, AInv, QInv, Starting, Pushing, retryVars, history
<1> QED BY <1>6 DEF IInv

\* Time and the backend move no batch.
LEMMA SendIInv == ASSUME TInv, IInv, Send PROVE IInv'
<1>1. PICK o \in SendOutcomes, d \in SendTimes :
        /\ pc = "send"
        /\ received' = received \cup (IF o = "refused" THEN {}
                                      ELSE Range(held.batch.records))
        /\ pc' = IF o = "acked" THEN "acked" ELSE "failed"
        /\ q' = Waited(q, d)
        /\ UNCHANGED <<batch, held, givenUp, site, framed, taken>>
  BY DEF Send, Elapse
<1>2. d \in Nat /\ q \in Seq(PendingBatch)
  BY AgentAssumption DEF TInv, TypeOK, RetryTypeOK
<1>3. Waiting' = Waiting /\ Len(q') = Len(q)
  BY <1>1, <1>2, BatchesInWaited, WaitedType DEF Waiting
<1>4. AccountedFor'
  <2>1. Owned' = Owned
    BY <1>1, <1>3, OwnedStays
  <2> QED BY <1>1, <2>1, RecordsStay DEF IInv, AInv
<1>5. pc' = "acked" => Range(held.batch.records) \subseteq received'
  BY <1>1
<1>6. AInv'
  BY <1>1, <1>4, <1>5 DEF IInv, AInv, Starting, Pushing, Sending
<1>7. QInv'
  BY <1>1, <1>3 DEF IInv, QInv
<1> QED BY <1>6, <1>7 DEF IInv

LEMMA SleepIInv == ASSUME TInv, IInv, Sleep PROVE IInv'
<1>1. PICK d \in SleepTimes :
        /\ pc = "sleep" /\ pc' = "top" /\ site' = "due"
        /\ q' = Waited(q, d)
        /\ UNCHANGED <<batch, held, givenUp, framed, history>>
  BY DEF Sleep, Elapse, Goto
<1>2. d \in Nat /\ q \in Seq(PendingBatch)
  BY AgentAssumption DEF TInv, TypeOK, RetryTypeOK
<1>3. Waiting' = Waiting /\ Len(q') = Len(q)
  BY <1>1, <1>2, BatchesInWaited, WaitedType DEF Waiting
<1>4. held = None /\ framed = <<>>
  BY <1>1 DEF IInv, AInv, Pushing, Sending
<1>5. AccountedFor'
  <2>1. Owned' = Owned
    BY <1>1, <1>3, OwnedStays
  <2> QED BY <1>1, <2>1, RecordsStay DEF IInv, AInv, history
<1>6. AInv'
  BY <1>1, <1>4, <1>5 DEF AInv, Starting
<1>7. QInv'
  BY <1>1, <1>3, <1>4 DEF IInv, QInv
<1> QED BY <1>6, <1>7 DEF IInv

\* A batch is let go only when the backend has its records.
LEMMA ReleaseIInv == ASSUME IInv, Commit \/ SkipCommit PROVE IInv'
<1>1. /\ pc = "acked" /\ site' = site /\ Release
      /\ UNCHANGED <<batch, framed, history>>
  BY DEF Commit, SkipCommit, batchVars
<1>2. pc' = "save" \/ Resume(site)
  BY DEF Commit, SkipCommit
<1>3. pc' \in {"save", "sleep", "polled", "push", "exit"}
      /\ (site = "full" => pc' \in {"save", "push"})
  BY <1>2 DEF Resume
<1>4. AccountedFor'
  <2>1. SUFFICES ASSUME NEW r \in taken' PROVE Somewhere(r)'
    BY AccountedByRecordNext
  <2>2. Somewhere(r)
    BY <1>1, AccountedByRecord DEF IInv, AInv, history
  <2>3. CASE held # None /\ r \in Range(held.batch.records)
    BY <1>1, <2>3 DEF IInv, AInv, Somewhere, history
  <2>4. CASE ~(held # None /\ r \in Range(held.batch.records))
    BY <1>1, <2>2, <2>4 DEF Somewhere, history, Owned, InHand, Waiting, Release
  <2> QED BY <2>3, <2>4
<1>5. AInv'
  BY <1>1, <1>3, <1>4 DEF IInv, AInv, Starting, Pushing, Release
<1>6. QInv'
  BY <1>1 DEF IInv, QInv, Release
<1> QED BY <1>5, <1>6 DEF IInv

\* A batch whose send failed goes to the queue or is given up.
LEMMA SendFailedIInv == ASSUME TInv, IInv, SendFailed PROVE IInv'
<1>1. /\ pc = "failed" /\ site' = site /\ Resume(site)
      /\ IF site = "retry" THEN Requeue ELSE Enqueue
      /\ UNCHANGED <<batch, framed, history>>
  BY DEF SendFailed, batchVars
<1>2. held # None /\ held' = None
  BY <1>1 DEF Requeue, Enqueue
<1>3. /\ BatchesIn(q') \cup givenUp' = BatchesIn(q) \cup givenUp \cup {held.batch}
      /\ Len(q') <= MaxQueue
  BY <1>1, <1>2, EnqueueKeeps, RequeueKeeps DEF TInv, TypeOK, IInv, QInv
<1>4. pc' \in {"sleep", "polled", "push", "exit"} /\ (site = "full" => pc' = "push")
  BY <1>1 DEF Resume
<1>5. Owned' = Owned
  BY <1>2, <1>3 DEF Owned, InHand, Waiting
<1>6. AccountedFor'
  BY <1>1, <1>5, RecordsStay DEF IInv, AInv, history
<1>7. AInv'
  BY <1>1, <1>2, <1>4, <1>6 DEF IInv, AInv, Starting, Pushing
<1>8. QInv'
  BY <1>2, <1>3 DEF QInv
<1> QED BY <1>7, <1>8 DEF IInv
------------------------------------------------------------------------------
LEMMA NextIInv == TInv /\ IInv /\ [Next]_vars => IInv'
<1> SUFFICES ASSUME TInv, IInv, [Next]_vars PROVE IInv'
  OBVIOUS
<1>1. CASE RunOnce
  <2>1. CASE TickFlush \/ FlushOld \/ FlushFull \/ FlushLimits
    BY <2>1, FlushIInv
  <2>2. CASE TickRetry \/ TickPoll \/ Opening \/ ResetForNewFile
    BY <2>2, TickRetryIInv, TickPollIInv, OpeningIInv, ResetForNewFileIInv
  <2>3. CASE ReadChunk \/ ReadNoChunk \/ PushRecord \/ KeepBatch
    BY <2>3, ReadChunkIInv, ReadNoChunkIInv, PushRecordIInv, KeepBatchIInv
  <2>4. CASE Send \/ Commit \/ SkipCommit \/ SendFailed \/ Save \/ Sleep
    BY <2>4, SendIInv, ReleaseIInv, SendFailedIInv, SaveIInv, SleepIInv
  <2>5. CASE Exit
    BY <2>5, GoneIInv DEF Exit
  <2> QED BY <1>1, <2>1, <2>2, <2>3, <2>4, <2>5 DEF RunOnce
<1>2. CASE Loading
  BY <1>2, LoadIInv, LoadWithoutFileIInv DEF Loading
<1>3. CASE Stop
  BY <1>3, FlushIInv, StopIdleIInv DEF Stop
<1>4. CASE Crash
  BY <1>4, GoneIInv DEF Crash
<1> QED BY <1>1, <1>2, <1>3, <1>4, BootIInv, EnvironmentIInv, StutterIInv
        DEF Next

LEMMA Invariance == Spec => [](TInv /\ IInv)
BY InitTInv, InitIInv, NextTInv, NextIInv, PTL DEF Spec

\* Agent.cpp:110-335.  No rotation, truncation, full batch, failed send, failed
\* call or shutdown drops a record that was framed, whatever the sizes, limits
\* and times: each is on its way, with the backend, or given up by the policy.
THEOREM NothingDropped == Spec => []AccountedFor
BY Invariance, PTL DEF IInv, AInv

\* RetryScheduler.cpp:36-86.  The queue never exceeds max_queue_batches, though
\* requeue() does not ask: the batch it puts back has left its place free.
THEOREM QueueBounded == Spec => []RetryBounded
<1>1. TInv /\ IInv => RetryBounded
  BY DEF IInv, QInv, RetryBounded
<1> QED BY <1>1, Invariance, PTL
==============================================================================
