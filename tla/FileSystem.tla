----------------------------- MODULE FileSystem -----------------------------
(***************************************************************************)
(* The part of the host the agent observes, seen through the system calls  *)
(* of src/src/file/FileFollower.cpp: files that other programs append to,  *)
(* truncate in place (copytruncate) and rename, and the one path the agent *)
(* is configured to follow.  Contents are not stored: the byte at offset o *)
(* of incarnation e of file i is the byte [i, e, o].                       *)
(***************************************************************************)
EXTENDS LogData

CONSTANTS
  Moves,       \* pairs <<from, to>>: how the path may be repointed; None is
               \* "no such file", so <<x, None>> removes and <<None, x>> creates
  MaxSize,     \* bound: bytes in a file
  MaxEpoch,    \* bound: truncations of a file
  WriteSizes,  \* how many bytes one append adds
  LateWrites   \* may a file be appended to while the path does not name it?

ASSUME FileSystemAssumption ==
  /\ Moves \subseteq FileIds \X FileIds
  /\ MaxSize \in Nat
  /\ MaxEpoch \in Nat
  /\ WriteSizes \subseteq Nat \ {0}
  /\ LateWrites \in BOOLEAN

VARIABLES
  path,     \* the file the followed path names, or None
  size,     \* size[i]: bytes in file i
  epoch     \* epoch[i]: how often file i has been truncated

fsVars == <<path, size, epoch>>

FsTypeOK ==
  /\ path \in FileIds
  /\ size \in [Inodes -> 0..MaxSize]
  /\ epoch \in [Inodes -> 0..MaxEpoch]

FsInit ==
  /\ path \in {m[1] : m \in Moves} \cup (IF Moves = {} THEN Inodes ELSE {})
  /\ size = [i \in Inodes |-> 0]
  /\ epoch = [i \in Inodes |-> 0]

\* A program writes to a log file.
AppendTo(i) == \E n \in WriteSizes :
  /\ i = path \/ LateWrites
  /\ size[i] + n <= MaxSize
  /\ size' = [size EXCEPT ![i] = @ + n]
  /\ UNCHANGED <<path, epoch>>

\* copytruncate, or truncation by hand: same inode, contents gone.  A new file
\* that is given the inode number of a removed one looks the same to an agent
\* that had it closed meanwhile.
Truncate(i) ==
  /\ size[i] > 0
  /\ epoch[i] < MaxEpoch
  /\ size' = [size EXCEPT ![i] = 0]
  /\ epoch' = [epoch EXCEPT ![i] = @ + 1]
  /\ UNCHANGED path

\* Rotation by renaming, removal, re-creation or restoration of the path.
Repoint ==
  /\ \E m \in Moves : path = m[1] /\ path' = m[2] /\ path' # path
  /\ UNCHANGED <<size, epoch>>

FsNext == Repoint \/ \E i \in Inodes : AppendTo(i) \/ Truncate(i)

\* The n bytes of file i from offset o on, as read() returns them.
BytesOf(i, o, n) ==
  [k \in 1..n |-> [ino |-> i, epoch |-> epoch[i], off |-> o + k - 1]]
==============================================================================
