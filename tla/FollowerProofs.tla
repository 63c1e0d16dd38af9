--------------------------- MODULE FollowerProofs ---------------------------
(***************************************************************************)
(* What FollowerLoop guarantees for every set of files, sizes, settle time *)
(* and read size, whatever system calls fail and whatever is renamed       *)
(* between them: its types; that the identity it gives out is that of the  *)
(* file it reads or of one the path has left; and, for logs that are not   *)
(* truncated in place, that it leaves no hole and no unread byte behind.   *)
(***************************************************************************)
EXTENDS FollowerLoop, TLAPS

FollowerConstants ==
  /\ NoneAssumption /\ FileSystemAssumption
  /\ FollowerAssumption /\ TickAssumption

LEMMA ConstantsHold == FollowerConstants
BY NoneAssumption, FileSystemAssumption, FollowerAssumption, TickAssumption
   DEF FollowerConstants

------------------------------------------------------------------------------
\* The types of what a poll changes.
LEMMA PollTypes ==
  ASSUME FollowerConstants, FollowerTypeOK, FsTypeOK, Poll(0)
  PROVE  FollowerTypeOK'
<1>. USE DEF FollowerTypeOK
<1>1. ASSUME CheckSize(0)
      PROVE  generation' \in Nat /\ readOffset' \in Nat /\ changed' \in BOOLEAN
  BY <1>1 DEF CheckSize, Shrunk
<1>2. CASE StartReopen
  BY <1>2 DEF StartReopen
<1>3. CASE PollPathMissing(0)
  BY <1>1, <1>3 DEF PollPathMissing, FileIds
<1>4. CASE PollPath(0)
  <2>1. CheckSize(0) /\ rotationPending' = (rotationPending \/ path # activeId)
        /\ UNCHANGED <<activeId, statId>>
    BY <1>4 DEF PollPath
  <2>2. PICK sized \in BOOLEAN :
          LET due  == rotationPending' /\ Settled /\ sized
              grew == Grown(readOffset')
          IN  /\ fd' = IF due /\ ~grew THEN None ELSE fd
              /\ opening' = IF due /\ ~grew THEN "switch" ELSE "no"
              /\ wasEof' = (wasEof /\ ~(due /\ grew))
              /\ eofAge' = IF due /\ grew THEN 0 ELSE eofAge
    BY <1>4 DEF PollPath
  <2>3. /\ fd' \in {None, fd} /\ opening' \in {"switch", "no"}
        /\ wasEof' \in BOOLEAN /\ eofAge' \in {0, eofAge}
        /\ opening' # "no" => fd' = None
    BY <2>2
  <2>4. 0 \in 0..SettleTime
    BY DEF FollowerConstants, FollowerAssumption
  <2>. QED  BY <1>1, <2>1, <2>3, <2>4 DEF FileIds
<1>5. CASE PollFstatFails
  BY <1>5 DEF PollFstatFails, FileIds
<1>. QED  BY <1>2, <1>3, <1>4, <1>5 DEF Poll

\* The types of what stat() and open() change.
LEMMA OpenTypes ==
  ASSUME FollowerConstants, FollowerTypeOK, FsTypeOK,
         StatPath \/ OpenPath \/ OpenFails
  PROVE  FollowerTypeOK'
<1>. USE DEF FollowerTypeOK, FsTypeOK
<1>1. CASE StatPath
  BY <1>1 DEF StatPath, FileIds
<1>2. CASE OpenPath
  <2>. 0 \in 0..SettleTime
    BY DEF FollowerConstants, FollowerAssumption
  <2>. QED  BY <1>2 DEF OpenPath, FileIds
<1>3. CASE OpenFails
  BY <1>3 DEF OpenFails, FileIds
<1>. QED  BY <1>1, <1>2, <1>3

\* What a read of n bytes returns: the bytes of the open file from readOffset
\* on, and they exist.
LEMMA ChunkBytes ==
  ASSUME FollowerConstants, FollowerTypeOK, FsTypeOK, NEW n \in Nat,
         ReadData(n)
  PROVE  /\ fd \in Inodes /\ readOffset' = readOffset + n
         /\ readOffset' <= size[fd]
         /\ Range(Chunk(n)) =
              {[ino |-> fd, epoch |-> epoch[fd], off |-> o] :
                 o \in readOffset..readOffset + n - 1}
<1>1. fd \in Inodes
  BY DEF ReadData, FollowerTypeOK, FileIds
<1>2. /\ n = Smaller(Monus(size[fd], readOffset), MaxRead) /\ n > 0
      /\ readOffset' = readOffset + n
  BY DEF ReadData
<1>3. size[fd] \in Nat /\ readOffset \in Nat /\ MaxRead \in Nat
  BY <1>1 DEF FsTypeOK, FollowerTypeOK, FollowerConstants, FollowerAssumption,
              FileSystemAssumption
<1>4. readOffset' <= size[fd]
  BY <1>2, <1>3 DEF Smaller, Monus
<1>5. Range(Chunk(n)) = {[ino |-> fd, epoch |-> epoch[fd],
                          off |-> readOffset + k - 1] : k \in 1..n}
  BY DEF Chunk, BytesOf, Range
<1>6. {[ino |-> fd, epoch |-> epoch[fd], off |-> readOffset + k - 1] :
         k \in 1..n}
      = {[ino |-> fd, epoch |-> epoch[fd], off |-> o] :
           o \in readOffset..readOffset + n - 1}
  <2>1. \A k \in 1..n : readOffset + k - 1 \in readOffset..readOffset + n - 1
    BY <1>3
  <2>2. \A o \in readOffset..readOffset + n - 1 :
           \E k \in 1..n : o = readOffset + k - 1
    <3>1. TAKE o \in readOffset..readOffset + n - 1
    <3>2. o - readOffset + 1 \in 1..n /\ o = readOffset + (o - readOffset + 1) - 1
      BY <1>3
    <3>. QED  BY <3>2
  <2>. QED  BY <2>1, <2>2
<1>. QED  BY <1>1, <1>2, <1>4, <1>5, <1>6

\* The types of what a read changes.
LEMMA ReadTypes ==
  ASSUME FollowerConstants, TypeOK, ReadStep
  PROVE  TypeOK'
<1>1. /\ FollowerTypeOK /\ FsTypeOK /\ pc' = "sleep"
      /\ UNCHANGED fsVars /\ left' \in SUBSET FileIds
  BY DEF TypeOK, ReadStep
<1>2. FsTypeOK'
  BY <1>1 DEF FsTypeOK, fsVars
<1>3. 0 \in 0..SettleTime /\ MaxRead \in Nat
  BY DEF FollowerConstants, FollowerAssumption
<1>4. ASSUME NEW n \in 1..MaxRead, ReadData(n), got' = got \cup Range(Chunk(n))
      PROVE  FollowerTypeOK' /\ got' \in SUBSET Byte
  <2>1. n \in Nat
    BY <1>3
  <2>2. FollowerTypeOK'
    <3>1. /\ readOffset' = readOffset + n /\ wasEof' = FALSE /\ eofAge' = 0
          /\ UNCHANGED <<fd, activeId, generation, rotationPending, opening,
                         statId, changed>>
      BY <1>4 DEF ReadData
    <3>2. readOffset' \in Nat
      BY <1>1, <2>1, <3>1 DEF FollowerTypeOK
    <3>. QED  BY <1>1, <1>3, <3>1, <3>2 DEF FollowerTypeOK
  <2>3. fd \in Inodes /\ epoch[fd] \in Nat /\ readOffset \in Nat
    BY <1>1, <1>4, <2>1, ChunkBytes DEF FsTypeOK, FollowerTypeOK,
       FollowerConstants, FileSystemAssumption
  <2>4. Range(Chunk(n)) \subseteq Byte
    BY <1>1, <1>4, <2>1, <2>3, ChunkBytes DEF Byte
  <2>. QED  BY <1>4, <2>2, <2>4 DEF TypeOK
<1>5. ASSUME ReadNoData, UNCHANGED got
      PROVE  FollowerTypeOK' /\ got' \in SUBSET Byte
  <2>1. FollowerTypeOK'
    BY <1>1, <1>3, <1>5 DEF ReadNoData, ReadEof, ReadNothing, ReadFails,
       followerVars, FollowerTypeOK, FileIds
  <2>. QED  BY <1>5, <2>1 DEF TypeOK
<1>6. FollowerTypeOK' /\ got' \in SUBSET Byte
  BY <1>4, <1>5 DEF ReadStep
<1>. QED  BY <1>1, <1>2, <1>6 DEF TypeOK

\* The types of what other programs change.
LEMMA FsTypes ==
  ASSUME FollowerConstants, FsTypeOK, FsNext
  PROVE  FsTypeOK'
<1>. USE DEF FsTypeOK, FollowerConstants, FileSystemAssumption
<1>1. CASE Repoint
  BY <1>1 DEF Repoint
<1>2. ASSUME NEW i \in Inodes, AppendTo(i) PROVE FsTypeOK'
  BY <1>2 DEF AppendTo
<1>3. ASSUME NEW i \in Inodes, Truncate(i) PROVE FsTypeOK'
  BY <1>3 DEF Truncate
<1>. QED  BY <1>1, <1>2, <1>3 DEF FsNext

\* Every step keeps the types.
LEMMA TypeStep == FollowerConstants /\ TypeOK /\ [Next]_vars => TypeOK'
<1>. SUFFICES ASSUME FollowerConstants, TypeOK, [Next]_vars
             PROVE  TypeOK'
  OBVIOUS
<1>1. CASE PollStep
  BY <1>1, PollTypes DEF PollStep, TypeOK, FsTypeOK, fsVars
<1>2. CASE OpenStep
  BY <1>2, OpenTypes DEF OpenStep, TypeOK, FsTypeOK, fsVars
<1>3. CASE ReadStep
  BY <1>3, ReadTypes
<1>4. CASE Sleep
  <2>1. \A d \in TickTimes : EofAged(d) \in 0..SettleTime
    BY DEF TypeOK, FollowerTypeOK, EofAged, Smaller, FollowerConstants,
           FollowerAssumption, TickAssumption
  <2>. QED  BY <1>4, <2>1 DEF Sleep, TypeOK, FsTypeOK, FollowerTypeOK, fsVars
<1>5. CASE Environment
  <2>1. left' \in SUBSET FileIds
    BY <1>5 DEF Environment, TypeOK, FsTypeOK
  <2>. QED  BY <1>5, <2>1, FsTypes DEF Environment, TypeOK, FollowerTypeOK,
            followerVars
<1>6. CASE UNCHANGED vars
  BY <1>6 DEF vars, fsVars, followerVars, TypeOK, FsTypeOK, FollowerTypeOK
<1>. QED  BY <1>1, <1>2, <1>3, <1>4, <1>5, <1>6 DEF Next, LoopStep

\* FileFollower.hpp:54: the follower keeps its types for all constants, whatever
\* system calls fail and whatever other programs do to the files.
THEOREM TypeCorrect == Spec => []TypeOK
<1>1. ASSUME FollowerConstants, Init PROVE TypeOK
  <2>1. path \in FileIds
    BY <1>1 DEF Init, FsInit, FollowerConstants, FileSystemAssumption, FileIds
  <2>2. MaxSize \in Nat /\ MaxEpoch \in Nat /\ SettleTime \in Nat
    BY <1>1 DEF FollowerConstants, FileSystemAssumption, FollowerAssumption
  <2>3. FsTypeOK
    BY <1>1, <2>1, <2>2 DEF Init, FsInit, FsTypeOK
  <2>4. FollowerTypeOK
    <3>1. FollowerInit /\ None \in FileIds /\ 0 \in 0..SettleTime
      BY <1>1, <2>2 DEF Init, FileIds
    <3>. QED  BY <3>1 DEF FollowerInit, FollowerTypeOK
  <2>. QED  BY <1>1, <2>3, <2>4 DEF Init, TypeOK
<1>. QED  BY <1>1, TypeStep, ConstantsHold, PTL DEF Spec

------------------------------------------------------------------------------
\* What stat() saw is what the path names or a file it has left since; and so
\* is, of the file that is open, the identity recorded.
IdentityInv ==
  /\ statId # None => statId = path \/ statId \in left
  /\ IdentityOpenOrLeft

\* The path leaves the file it is moved away from, and left forgets none.
LEMMA LeftGrows ==
  ASSUME Environment
  PROVE  /\ left \subseteq left'
         /\ path' = path \/ path \in left'
         /\ UNCHANGED <<fd, activeId, statId>>
BY DEF Environment, followerVars

\* Every step keeps it.
LEMMA IdentityStep == TypeOK /\ IdentityInv /\ [Next]_vars => IdentityInv'
<1>. SUFFICES ASSUME TypeOK, IdentityInv, [Next]_vars
             PROVE  IdentityInv'
  OBVIOUS
<1>. USE DEF IdentityInv, IdentityOpenOrLeft
<1>1. CASE PollStep
  <2>1. UNCHANGED <<path, left>>
    BY <1>1 DEF PollStep, fsVars
  <2>2. fd' \in {None, fd} /\ UNCHANGED <<activeId, statId>>
    BY <1>1 DEF PollStep, Poll, StartReopen, PollPathMissing, PollPath,
       PollFstatFails
  <2>. QED  BY <2>1, <2>2
<1>2. CASE OpenStep
  <2>1. path' = path /\ left' = IF statId = None /\ statId' # None THEN {} ELSE left
    BY <1>2 DEF OpenStep, fsVars
  <2>2. CASE StatPath
    <3>1. statId = None /\ statId' \in {path, None} /\ UNCHANGED <<fd, activeId>>
      BY <2>2 DEF StatPath
    <3>2. fd = None
      BY <2>2 DEF StatPath, TypeOK, FollowerTypeOK
    <3>. QED  BY <2>1, <3>1, <3>2
  <2>3. CASE OpenPath
    BY <2>1, <2>3 DEF OpenPath
  <2>4. CASE OpenFails
    BY <2>1, <2>4 DEF OpenFails
  <2>. QED  BY <1>2, <2>2, <2>3, <2>4 DEF OpenStep
<1>3. CASE ReadStep
  <2>1. UNCHANGED <<path, left>>
    BY <1>3 DEF ReadStep, fsVars
  <2>2. fd' \in {None, fd} /\ UNCHANGED <<activeId, statId>>
    BY <1>3 DEF ReadStep, ReadData, ReadNoData, ReadEof, ReadNothing, ReadFails,
                followerVars
  <2>. QED  BY <2>1, <2>2
<1>4. CASE Sleep
  BY <1>4 DEF Sleep, fsVars
<1>5. CASE Environment
  BY <1>5, LeftGrows
<1>6. CASE UNCHANGED vars
  BY <1>6 DEF vars, fsVars, followerVars
<1>. QED  BY <1>1, <1>2, <1>3, <1>4, <1>5, <1>6 DEF Next, LoopStep

\* FileFollower.hpp:19 "Identity of the file that produced this data",
\* FileFollower.cpp:56-72 and 236-254: wherever the renames come, those between
\* stat() and open() included, the identity recorded is that of the open file
\* or of one the path has left since stat() saw it, never of a newer one.
THEOREM IdentityNeverNewer == Spec => []IdentityOpenOrLeft
<1>1. Init => IdentityInv
  BY DEF Init, FsInit, FollowerInit, IdentityInv, IdentityOpenOrLeft
<1>2. IdentityInv => IdentityOpenOrLeft
  BY DEF IdentityInv
<1>3. Spec => []IdentityInv
  BY <1>1, IdentityStep, TypeCorrect, PTL DEF Spec
<1>. QED  BY <1>2, <1>3, PTL

------------------------------------------------------------------------------
\* The position is within the open file, and what lies before it has been read.
PositionInv ==
  /\ fd # None => readOffset <= size[fd]
  /\ ReadsContiguous

\* A file that is not truncated only grows.
LEMMA FilesGrow ==
  ASSUME FollowerConstants, TypeOK, MaxEpoch = 0, FsNext
  PROVE  epoch' = epoch /\ \A i \in Inodes : size[i] <= size'[i]
<1>. USE DEF TypeOK, FsTypeOK, FollowerConstants, FileSystemAssumption
<1>1. CASE Repoint
  BY <1>1 DEF Repoint
<1>2. ASSUME NEW i \in Inodes, AppendTo(i)
      PROVE  epoch' = epoch /\ \A j \in Inodes : size[j] <= size'[j]
  BY <1>2 DEF AppendTo
<1>3. ASSUME NEW i \in Inodes, Truncate(i) PROVE FALSE
  BY <1>3 DEF Truncate
<1>. QED  BY <1>1, <1>2, <1>3 DEF FsNext

\* So poll() never finds it shrunk.
LEMMA NotShrunk ==
  ASSUME TypeOK, PositionInv, CheckSize(0)
  PROVE  readOffset' = readOffset
<1>1. fd \in Inodes /\ size[fd] \in Int /\ readOffset \in Int
      /\ readOffset <= size[fd]
  BY DEF CheckSize, PositionInv, TypeOK, FsTypeOK, FollowerTypeOK, FileIds
<1>. QED  BY <1>1 DEF CheckSize, Shrunk

\* Every step keeps the position, if no file is truncated.
LEMMA PositionStep ==
  FollowerConstants /\ TypeOK /\ MaxEpoch = 0 /\ PositionInv /\ [Next]_vars
    => PositionInv'
<1>. SUFFICES ASSUME FollowerConstants, TypeOK, MaxEpoch = 0, PositionInv,
                    [Next]_vars
             PROVE  PositionInv'
  OBVIOUS
<1>. USE DEF PositionInv, ReadsContiguous
<1>1. CASE PollStep
  <2>1. UNCHANGED <<path, size, epoch, got>>
    BY <1>1 DEF PollStep, fsVars
  <2>2. fd' \in {None, fd} /\ (fd' # None => readOffset' = readOffset)
    <3>1. CASE StartReopen
      BY <3>1 DEF StartReopen
    <3>2. CASE PollPathMissing(0)
      BY <3>2, NotShrunk DEF PollPathMissing
    <3>3. CASE PollPath(0)
      BY <3>3, NotShrunk DEF PollPath
    <3>4. CASE PollFstatFails
      BY <3>4 DEF PollFstatFails
    <3>. QED  BY <1>1, <3>1, <3>2, <3>3, <3>4 DEF PollStep, Poll
  <2>. QED  BY <2>1, <2>2
<1>2. CASE OpenStep
  <2>1. UNCHANGED <<path, size, epoch, got>>
    BY <1>2 DEF OpenStep, fsVars
  <2>2. CASE StatPath
    BY <2>1, <2>2 DEF StatPath
  <2>3. CASE OpenPath
    <3>1. fd' \in Inodes /\ readOffset' = 0 /\ size[fd'] \in Nat
      BY <2>3 DEF OpenPath, TypeOK, FsTypeOK, FileIds, FollowerConstants,
                  FileSystemAssumption
    <3>. QED  BY <2>1, <3>1
  <2>4. CASE OpenFails
    BY <2>1, <2>4 DEF OpenFails
  <2>. QED  BY <1>2, <2>2, <2>3, <2>4 DEF OpenStep
<1>3. CASE ReadStep
  <2>1. UNCHANGED <<path, size, epoch>>
    BY <1>3 DEF ReadStep, fsVars
  <2>2. ASSUME NEW n \in 1..MaxRead, ReadData(n),
               got' = got \cup Range(Chunk(n))
        PROVE  PositionInv'
    <3>1. n \in Nat /\ FollowerTypeOK /\ FsTypeOK /\ readOffset \in Nat
      BY DEF TypeOK, FollowerTypeOK, FollowerConstants, FollowerAssumption
    <3>2. /\ fd \in Inodes /\ readOffset' = readOffset + n
          /\ readOffset' <= size[fd]
          /\ Range(Chunk(n)) =
               {[ino |-> fd, epoch |-> epoch[fd], off |-> o] :
                  o \in readOffset..readOffset + n - 1}
      BY <2>2, <3>1, ChunkBytes
    <3>3. fd' = fd
      BY <2>2 DEF ReadData
    <3>4. fd # None
      BY <2>2 DEF ReadData
    <3>5. ASSUME NEW o \in 0..readOffset' - 1
          PROVE  [ino |-> fd, epoch |-> epoch[fd], off |-> o] \in got'
      <4>1. o \in 0..readOffset - 1 \/ o \in readOffset..readOffset + n - 1
        BY <3>1, <3>2
      <4>. QED  BY <2>2, <3>2, <3>4, <4>1
    <3>. QED  BY <2>1, <3>2, <3>3, <3>5
  <2>3. ASSUME ReadNoData, UNCHANGED got PROVE PositionInv'
    BY <2>1, <2>3 DEF ReadNoData, ReadEof, ReadNothing, ReadFails, followerVars
  <2>. QED  BY <1>3, <2>2, <2>3 DEF ReadStep
<1>4. CASE Sleep
  BY <1>4 DEF Sleep, fsVars
<1>5. CASE Environment
  <2>1. epoch' = epoch /\ \A i \in Inodes : size[i] <= size'[i]
    BY <1>5, FilesGrow DEF Environment
  <2>2. UNCHANGED <<fd, readOffset, got>>
    BY <1>5 DEF Environment, followerVars
  <2>3. fd # None => fd \in Inodes
    BY DEF TypeOK, FollowerTypeOK, FileIds
  <2>4. TypeOK'
    BY TypeStep
  <2>5. fd # None => readOffset \in Int /\ size[fd] \in Int /\ size'[fd] \in Int
    BY <2>3, <2>4 DEF TypeOK, FsTypeOK, FollowerTypeOK
  <2>. QED  BY <2>1, <2>2, <2>3, <2>5
<1>6. CASE UNCHANGED vars
  BY <1>6 DEF vars, fsVars, followerVars
<1>. QED  BY <1>1, <1>2, <1>3, <1>4, <1>5, <1>6 DEF Next, LoopStep

\* So it holds throughout.
LEMMA PositionInvariance ==
  ASSUME MaxEpoch = 0 PROVE Spec => [](TypeOK /\ PositionInv)
<1>1. Init => PositionInv
  BY DEF Init, FollowerInit, PositionInv, ReadsContiguous
<1>. QED  BY <1>1, PositionStep, TypeCorrect, ConstantsHold, PTL DEF Spec

\* FileFollower.cpp:185, read_some(): of logs that are not truncated, no read,
\* open or switch leaves a hole before the position.
THEOREM NoHoles == ASSUME MaxEpoch = 0 PROVE Spec => []ReadsContiguous
<1>1. PositionInv => ReadsContiguous
  BY DEF PositionInv
<1>. QED  BY <1>1, PositionInvariance, PTL

\* FileFollower.cpp:219 "Ensure there is nothing left to read on the old fd": of
\* logs that are not truncated, every byte of the old file has been read when
\* the switch to the new one begins, for every settle time and read size.
THEOREM DrainedFirst == ASSUME MaxEpoch = 0 PROVE Spec => DrainedBeforeSwitch
<1>1. ASSUME TypeOK, PositionInv, [Next]_vars,
             opening = "no", opening' = "switch"
      PROVE  Drained
  <2>1. PollPath(0)
    BY <1>1 DEF Next, LoopStep, PollStep, Poll, StartReopen, PollPathMissing,
       PollFstatFails, OpenStep, StatPath, OpenPath, OpenFails, ReadStep,
       ReadData, ReadNoData, ReadEof, ReadNothing, ReadFails, Sleep,
       Environment, vars, followerVars
  <2>2. /\ fd \in Inodes /\ size[fd] \in Int /\ readOffset \in Nat
        /\ readOffset <= size[fd]
    BY <1>1, <2>1 DEF PollPath, CheckSize, PositionInv, TypeOK, FsTypeOK,
       FollowerTypeOK, FileIds
  <2>3. readOffset' = readOffset
    BY <1>1, <2>1, NotShrunk DEF PollPath
  <2>4. ~Grown(readOffset')
    BY <1>1, <2>1 DEF PollPath
  <2>5. size[fd] = readOffset
    BY <2>2, <2>3, <2>4 DEF Grown
  <2>. QED  BY <1>1, <2>1, <2>2, <2>5 DEF Drained, PositionInv, ReadsContiguous,
            PollPath, CheckSize
<1>. QED
  BY <1>1, PositionInvariance, PTL DEF Spec, DrainedBeforeSwitch
==============================================================================
