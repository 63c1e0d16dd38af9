---------------------------- MODULE FollowerLoop ----------------------------
(***************************************************************************)
(* The file follower closed with the loop of main.cpp and Agent::run_once  *)
(* as it runs when there is nothing to send: poll, read once, sleep.       *)
(* Between any two system calls other programs may write, truncate and     *)
(* rename.                                                                 *)
(***************************************************************************)
EXTENDS FileFollower

CONSTANTS
  TickTimes    \* how long a turn of the main loop may take, in units of time

ASSUME TickAssumption == TickTimes \subseteq Nat \ {0}

VARIABLES
  pc,    \* the next call of the loop: "poll", "open" (in poll), "read", "sleep"
  got,   \* history: the bytes read
  left   \* history: the files the path has left since stat() last found one

vars == <<fsVars, followerVars, pc, got, left>>

TypeOK ==
  /\ FsTypeOK
  /\ FollowerTypeOK
  /\ pc \in {"poll", "open", "read", "sleep"}
  /\ got \in SUBSET Byte
  /\ left \in SUBSET FileIds

Init == FsInit /\ FollowerInit /\ pc = "poll" /\ got = {} /\ left = {}

PollStep ==
  /\ pc = "poll"
  /\ Poll(0)
  /\ pc' = IF opening' # "no" THEN "open" ELSE "read"
  /\ UNCHANGED <<fsVars, got, left>>

OpenStep ==
  /\ pc = "open"
  /\ StatPath \/ OpenPath \/ OpenFails
  /\ pc' = IF opening' # "no" THEN "open" ELSE "read"
  /\ left' = IF statId = None /\ statId' # None THEN {} ELSE left
  /\ UNCHANGED <<fsVars, got>>

ReadStep ==
  /\ pc = "read"
  /\ \/ \E n \in 1..MaxRead : ReadData(n) /\ got' = got \cup Range(Chunk(n))
     \/ ReadNoData /\ UNCHANGED got
  /\ pc' = "sleep"
  /\ UNCHANGED <<fsVars, left>>

Sleep ==
  /\ pc = "sleep"
  /\ pc' = "poll"
  /\ \E d \in TickTimes : eofAge' = EofAged(d)
  /\ UNCHANGED <<fsVars, fd, activeId, generation, readOffset, rotationPending,
                 wasEof, opening, statId, changed, got, left>>

LoopStep == PollStep \/ OpenStep \/ ReadStep \/ Sleep

Environment ==
  /\ FsNext
  /\ left' = IF path' # path THEN left \cup {path} ELSE left
  /\ UNCHANGED <<followerVars, pc, got>>

Next == LoopStep \/ Environment

\* The process keeps running; nothing is assumed of the other programs.
Spec == Init /\ [][Next]_vars /\ WF_vars(LoopStep)
------------------------------------------------------------------------------
\* FileFollower.hpp:19: "Identity of the file that produced this data."  The
\* path may be renamed over between stat() and open(), and then it is not; but
\* the identity is only ever that of a file the path has left since, never of
\* one newer than the open file: so the next poll() that finds a file at the
\* path sees another identity there, unless the path has come back.
IdentityOpenOrLeft == fd # None => activeId = fd \/ activeId \in left

\* The path has come back, unseen, to the file whose identity another one got.
MistakenForReturned(i) == fd \notin {i, None} /\ activeId = i /\ i \in left

\* FileFollower.hpp:48: "Wait after EOF before switching".  README: "Detects
\* rename-based rotation".  When the path comes to name one file for good, the
\* agent comes to read that file for good, whatever was renamed between its
\* stat() and its open() before.  Only a path that comes back to the very file
\* that another was mistaken for, before a poll() sees it away, is missed.
RotationCompletes ==
  \A i \in Inodes :
    (<>[](path = i)) => <>[](fd = i) \/ <>[]MistakenForReturned(i)

\* FileFollower.cpp:135-142, 253-259: a mistaken identity does not last.  When
\* the path names one file for good, that file's identity is the one recorded,
\* though the file that is open may have had to be switched away from to get it.
IdentityRepaired ==
  \A i \in Inodes : (<>[](path = i)) => <>[](activeId = i)

\* Everything up to the position in the open file has been read: no seek, no
\* open and no switch leaves a hole behind it.
ReadsContiguous ==
  fd # None => \A o \in 0..readOffset - 1 :
                 [ino |-> fd, epoch |-> epoch[fd], off |-> o] \in got

\* Whatever the open file holds has been read.
Drained ==
  \A o \in 0..size[fd] - 1 : [ino |-> fd, epoch |-> epoch[fd], off |-> o] \in got

\* FileFollower.cpp:219: "Ensure there is nothing left to read on the old fd."
\* A rotated file is given up only once every byte it holds has been read, those
\* that late writers added after the rename included.
DrainedBeforeSwitch ==
  [][opening = "no" /\ opening' = "switch" => Drained]_vars

\* FileFollower.cpp:124: "we can close once drained+stable".  No file is given
\* up with bytes unread, whether the path was renamed over or removed.
DrainedBeforeClose == [][fd # None /\ fd' = None => Drained]_vars
==============================================================================
