---------------------------- MODULE FileFollower ----------------------------
(***************************************************************************)
(* src/src/file/FileFollower.cpp: follows one path across rotations and    *)
(* truncations.  Its state, one action per outcome of each of its system   *)
(* calls, and the environment it observes (FileSystem).                    *)
(*                                                                         *)
(* The checks of poll() are one step; the stat() and the open() that       *)
(* follow a closed descriptor are a step each, since the path may be       *)
(* repointed between them.  The position of the descriptor in the kernel   *)
(* always equals read_offset_: lseek() of a regular file does not fail.    *)
(***************************************************************************)
EXTENDS FileSystem

CONSTANTS
  SettleTime,  \* Options::rotate_settle_time, in units of time
  MaxRead,     \* Options::max_read_bytes
  Faults       \* the system calls that may fail, or be interrupted

ASSUME FollowerAssumption ==
  /\ SettleTime \in Nat
  /\ MaxRead \in Nat \ {0}
  /\ Faults \subseteq {"fstat", "stat", "open", "read", "eintr"}

VARIABLES
  fd,               \* fd_: the file the descriptor reads, None when closed
  activeId,         \* active_id_: the identity recorded for it
  generation,       \* generation_
  readOffset,       \* read_offset_
  rotationPending,  \* rotation_pending_
  wasEof,           \* last_read_was_eof_
  eofAge,           \* now - last_eof_time_ up to SettleTime; 0 unless wasEof
  opening,          \* which open is under way: open_fd_at_path, or the switch
  statId,           \* what stat() returned before that open
  changed           \* poll.truncated || poll.switched of the last poll()

followerVars == <<fd, activeId, generation, readOffset, rotationPending,
                  wasEof, eofAge, opening, statId, changed>>

FollowerTypeOK ==
  /\ fd \in FileIds
  /\ activeId \in FileIds
  /\ generation \in Nat
  /\ readOffset \in Nat
  /\ rotationPending \in BOOLEAN
  /\ wasEof \in BOOLEAN
  /\ eofAge \in 0..SettleTime
  /\ opening \in {"no", "reopen", "switch"}
  /\ statId \in FileIds
  /\ changed \in BOOLEAN
  /\ opening # "no" => fd = None

FollowerInit ==
  /\ fd = None /\ activeId = None
  /\ generation = 0 /\ readOffset = 0
  /\ rotationPending = FALSE
  /\ wasEof = FALSE /\ eofAge = 0
  /\ opening = "no" /\ statId = None
  /\ changed = FALSE
------------------------------------------------------------------------------
\* Mutant of StartReopen: a descriptor that is still open is replaced.
StartReopenHeld ==
  /\ opening' = "reopen"
  /\ changed' = FALSE
  /\ UNCHANGED <<fd, activeId, generation, readOffset, rotationPending,
                 wasEof, eofAge, statId>>

\* open_if_exists(), and poll() without a descriptor.
StartReopen ==
  /\ fd = None
  /\ opening' = "reopen"
  /\ changed' = FALSE
  /\ UNCHANGED <<fd, activeId, generation, readOffset, rotationPending,
                 wasEof, eofAge, statId>>

\* stat_path_id in open_fd_at_path or maybe_switch_to_pending.  A missing path
\* ends the attempt; that of a switch also forgets the rotation.
StatPath == \E id \in {path} \cup (IF "stat" \in Faults THEN {None} ELSE {}) :
  /\ opening # "no" /\ statId = None
  /\ statId' = id
  /\ opening' = IF id = None THEN "no" ELSE opening
  /\ rotationPending' =
       (rotationPending /\ ~(id = None /\ opening = "switch"))
  /\ UNCHANGED <<fd, activeId, generation, readOffset, wasEof, eofAge, changed>>

\* Mutants of OpenPath: open() comes first and stat() after it, so that a file
\* moved over the path meanwhile lends its identity; a switch keeps the identity
\* it had; the offset is kept.
OpenPathBeforeStat ==
  /\ opening # "no" /\ statId # None /\ path # None
  /\ fd' = statId
  /\ activeId' = path
  /\ generation' = 0 /\ readOffset' = 0
  /\ rotationPending' = FALSE
  /\ wasEof' = FALSE /\ eofAge' = 0
  /\ changed' = (changed \/ opening = "switch")
  /\ opening' = "no" /\ statId' = None

OpenPathOldIdentity ==
  /\ opening # "no" /\ statId # None /\ path # None
  /\ fd' = path
  /\ activeId' = IF opening = "switch" THEN activeId ELSE statId
  /\ generation' = 0 /\ readOffset' = 0
  /\ rotationPending' = FALSE
  /\ wasEof' = FALSE /\ eofAge' = 0
  /\ changed' = (changed \/ opening = "switch")
  /\ opening' = "no" /\ statId' = None

OpenPathOldOffset ==
  /\ opening # "no" /\ statId # None /\ path # None
  /\ fd' = path
  /\ activeId' = statId
  /\ generation' = 0 /\ UNCHANGED readOffset
  /\ rotationPending' = FALSE
  /\ wasEof' = FALSE /\ eofAge' = 0
  /\ changed' = (changed \/ opening = "switch")
  /\ opening' = "no" /\ statId' = None

\* open() succeeds: the descriptor is on whatever the path names by now, the
\* identity recorded is the one stat() saw.  Only a switch is reported as one.
OpenPath ==
  /\ opening # "no" /\ statId # None /\ path # None
  /\ fd' = path
  /\ activeId' = statId
  /\ generation' = 0 /\ readOffset' = 0
  /\ rotationPending' = FALSE
  /\ wasEof' = FALSE /\ eofAge' = 0
  /\ changed' = (changed \/ opening = "switch")
  /\ opening' = "no" /\ statId' = None

OpenFails ==
  /\ opening # "no" /\ statId # None
  /\ path = None \/ "open" \in Faults
  /\ opening' = "no" /\ statId' = None
  /\ rotationPending' = (rotationPending /\ opening # "switch")
  /\ UNCHANGED <<fd, activeId, generation, readOffset, wasEof, eofAge, changed>>

\* The old file has more to read: it grew since its end was seen.  Its mutant
\* does without the second fstat().
GrownUnasked(offset) == FALSE

Grown(offset) == size[fd] > offset

Settled == wasEof /\ eofAge >= SettleTime

\* poll() with a descriptor: step 1, the size against the two offsets.
Shrunk(committed) ==
  \/ size[fd] < readOffset
  \/ committed > 0 /\ size[fd] < committed

CheckSize(committed) ==
  /\ fd # None
  /\ changed' = Shrunk(committed)
  /\ generation' = generation + (IF Shrunk(committed) THEN 1 ELSE 0)
  /\ readOffset' = IF Shrunk(committed) THEN 0 ELSE readOffset

\* Step 2 when nothing is at the path: a drained file is let go.
PollPathMissing(committed) ==
  /\ CheckSize(committed)
  /\ path = None \/ "stat" \in Faults
  /\ fd' = IF Settled THEN None ELSE fd
  /\ UNCHANGED <<activeId, rotationPending, wasEof, eofAge, opening, statId>>

\* Steps 2 and 3 when the path names a file: the rotation is noticed, and once
\* the old file is drained and quiet it is closed and the switch begins.  The
\* size is asked for again, and when that fails the switch waits.
PollPath(committed) ==
  /\ CheckSize(committed)
  /\ path # None
  /\ rotationPending' = (rotationPending \/ path # activeId)
  /\ \E sized \in {TRUE} \cup (IF "fstat" \in Faults THEN {FALSE} ELSE {}) :
       LET due  == rotationPending' /\ Settled /\ sized
           grew == Grown(readOffset')
       IN  /\ fd' = IF due /\ ~grew THEN None ELSE fd
           /\ opening' = IF due /\ ~grew THEN "switch" ELSE "no"
           /\ wasEof' = (wasEof /\ ~(due /\ grew))
           /\ eofAge' = IF due /\ grew THEN 0 ELSE eofAge
  /\ UNCHANGED <<activeId, statId>>

\* fstat() fails: the descriptor is closed, for poll() to open another.
PollFstatFails ==
  /\ fd # None /\ "fstat" \in Faults
  /\ fd' = None
  /\ changed' = FALSE
  /\ UNCHANGED <<activeId, generation, readOffset, rotationPending, wasEof,
                 eofAge, opening, statId>>

Poll(committed) ==
  \/ StartReopen
  \/ PollPathMissing(committed)
  \/ PollPath(committed)
  \/ PollFstatFails

\* read_some() returns n bytes: those of Chunk(n), from offset readOffset.
Chunk(n) == BytesOf(fd, readOffset, n)

ReadData(n) ==
  /\ fd # None
  /\ n = Smaller(Monus(size[fd], readOffset), MaxRead) /\ n > 0
  /\ readOffset' = readOffset + n
  /\ wasEof' = FALSE /\ eofAge' = 0
  /\ UNCHANGED <<fd, activeId, generation, rotationPending, opening, statId,
                 changed>>

\* Mutant of ReadEof: the end of the file is not recorded.
ReadEofUnrecorded ==
  /\ fd # None
  /\ size[fd] <= readOffset
  /\ UNCHANGED followerVars

\* At the end of the file, and every time it is read there, the clock restarts.
ReadEof ==
  /\ fd # None
  /\ size[fd] <= readOffset
  /\ wasEof' = TRUE /\ eofAge' = 0
  /\ UNCHANGED <<fd, activeId, generation, readOffset, rotationPending, opening,
                 statId, changed>>

\* No descriptor, or EINTR: nothing happens.  Any other error closes the file.
ReadNothing ==
  /\ fd = None \/ "eintr" \in Faults
  /\ UNCHANGED followerVars

ReadFails ==
  /\ fd # None /\ "read" \in Faults
  /\ fd' = None
  /\ UNCHANGED <<activeId, generation, readOffset, rotationPending, wasEof,
                 eofAge, opening, statId, changed>>

ReadNoData == ReadEof \/ ReadNothing \/ ReadFails

\* Mutant of SetPosition: lseek() and read_offset_ are forgotten.
SetPositionUnmoved(offset, gen) ==
  /\ fd # None
  /\ generation' = gen
  /\ wasEof' = FALSE /\ eofAge' = 0
  /\ rotationPending' = FALSE
  /\ UNCHANGED <<fd, activeId, readOffset, opening, statId, changed>>

SetPosition(offset, gen) ==
  /\ fd # None
  /\ generation' = gen /\ readOffset' = offset
  /\ wasEof' = FALSE /\ eofAge' = 0
  /\ rotationPending' = FALSE
  /\ UNCHANGED <<fd, activeId, opening, statId, changed>>

\* d units of time pass on the clock of last_eof_time_.
EofAged(d) == IF wasEof THEN Smaller(eofAge + d, SettleTime) ELSE 0
==============================================================================
