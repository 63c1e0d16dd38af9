------------------------------- MODULE LogData -------------------------------
(***************************************************************************)
(* The values that travel through the agent (src/src/sinks/Sink.hpp,       *)
(* src/src/file/FileIdentity.hpp, src/src/framing/LineFramer.hpp): file    *)
(* identities, bytes, framed lines, records and batches.                   *)
(*                                                                         *)
(* A byte is named by where it was written: the file, the incarnation of   *)
(* the file's contents (truncating a file starts a new one) and the        *)
(* offset.  Its value is left out; all that the agent ever asks of it is   *)
(* whether it is a newline.                                                *)
(***************************************************************************)
EXTENDS Integers, Sequences, Functions

CONSTANTS
  Inodes,     \* identities (device, inode) that files of this host may have
  None,       \* "no value": the default FileIdentity{}, a closed fd, nullopt
  Newlines    \* the bytes that are newlines

ASSUME NoneAssumption == None \notin Inodes

FileIds == Inodes \cup {None}

Byte == [ino : Inodes, epoch : Nat, off : Nat]

\* FramedRecord; Record, which adds the file it came from; Batch.
Line   == [payload : Seq(Byte), start : Nat, end : Nat]
Record == [payload : Seq(Byte), start : Nat, end : Nat,
           file : FileIds, gen : Nat]
Batch  == [records : Seq(Record), file : FileIds, gen : Nat, end : Nat]

\* What a checkpoint stores, and what the acknowledgement of a batch covers.
Label == [file : FileIds, gen : Nat, off : Nat]
LabelOf(b) == [file |-> b.file, gen |-> b.gen, off |-> b.end]

Larger(a, b)  == IF a >= b THEN a ELSE b
Smaller(a, b) == IF a <= b THEN a ELSE b
Monus(a, b)   == IF a >= b THEN a - b ELSE 0
==============================================================================
