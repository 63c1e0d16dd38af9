--------------------------- MODULE CheckpointStore ---------------------------
(***************************************************************************)
(* src/src/checkpoint/CheckpointStore.cpp, one step per system call of     *)
(* save(), with the process killed and the machine losing power between    *)
(* any two of them; and load() when the process starts again.              *)
(*                                                                         *)
(* A file holds the JSON of one checkpoint, or what is left of it when its *)
(* last "cut" characters are missing.  The number to_json() writes last is *)
(* committed_offset, so a text cut short loses digits of that one first.   *)
(***************************************************************************)
EXTENDS LogData, FiniteSets

CONSTANTS
  Saves,       \* the checkpoints the agent saves
  Error,       \* the outcome of a load() that throws
  StoreFaults, \* the operations that may fail: "dirs", "open", "write",
               \* "rename", "remove", "read"
  MayLosePower \* may the machine lose power?

ASSUME StoreAssumption ==
  /\ Saves \subseteq Label
  /\ None \notin Label /\ Error \notin Label \cup {None}
  /\ StoreFaults \subseteq {"dirs", "open", "write", "rename", "remove", "read"}
  /\ MayLosePower \in BOOLEAN

VARIABLES
  pc,      \* the next system call of save(); "idle" between two calls of it
  saving,  \* save()'s argument
  file,    \* the contents of path_ in the page cache, or None
  temp,    \* the contents of path_ + ".tmp" likewise
  fates,   \* what a loss of power may leave of path_
  loaded,  \* the outcome of the last load()
  saved    \* history: the checkpoints save() was called with

vars == <<pc, saving, file, temp, fates, loaded, saved>>

\* 10^k, as the number of texts of k digits: the provers know nothing of ^.
Tens(k) == Cardinality([1..k -> 0..9])

\* The decimal digits of n, the characters that end a text after them ("}\n"),
\* and the shortest text that matters: it ends before the last number.
Digits(n) ==
  CHOOSE d \in 1..n + 1 : n < Tens(d) /\ (d = 1 \/ Tens(d - 1) <= n)
Closing   == 2
Text(cp)  == [cp : {cp}, cut : 0..Digits(cp.off) + Closing]
Whole(cp) == [cp |-> cp, cut |-> 0]
Bare(cp)  == [cp |-> cp, cut |-> Digits(cp.off) + Closing]

Texts    == [cp : Label, cut : Nat]
Contents == Texts \cup {None}

ASSUME NoneNotText == None \notin Texts

TypeOK ==
  /\ pc \in {"down", "idle", "open", "write", "rename", "remove", "again"}
  /\ saving \in Label \cup {None}
  /\ file \in Contents /\ temp \in Contents
  /\ fates \in SUBSET Contents
  /\ loaded \in Label \cup {None, Error}
  /\ saved \in SUBSET Label

Init ==
  /\ pc = "down" /\ saving = None
  /\ file = None /\ temp = None /\ fates = {None}
  /\ loaded = None /\ saved = {}
------------------------------------------------------------------------------
May(op) == op \in StoreFaults

\* The mutant's to_json() writes generation last.
FromJsonGenerationLast(t) ==
  IF t.cut <= Closing
  THEN t.cp
  ELSE IF t.cut < Digits(t.cp.gen) + Closing
  THEN [t.cp EXCEPT !.gen = @ \div Tens(t.cut - Closing)]
  ELSE Error

\* from_json(): extract_u64 takes the digits it finds, be there more or not.
FromJson(t) ==
  IF t.cut <= Closing
  THEN t.cp
  ELSE IF t.cut < Digits(t.cp.off) + Closing
  THEN [t.cp EXCEPT !.off = @ \div Tens(t.cut - Closing)]
  ELSE Error

\* load(), when the agent is initialized.
Load ==
  /\ pc = "down"
  /\ \/ loaded' = IF file = None THEN None ELSE FromJson(file)
     \/ May("read") /\ file # None /\ loaded' = Error
  /\ pc' = "idle"
  /\ UNCHANGED <<saving, file, temp, fates, saved>>

\* save(): create_directories, which may throw.
BeginSave == \E cp \in Saves :
  /\ pc = "idle"
  /\ saving' = cp
  /\ saved' = saved \cup {cp}
  /\ pc' \in {"open"} \cup (IF May("dirs") THEN {"idle"} ELSE {})
  /\ UNCHANGED <<file, temp, fates, loaded>>

OpenTemp ==
  /\ pc = "open"
  /\ \/ temp' = Bare(saving) /\ pc' = "write"
     \/ May("open") /\ pc' = "idle" /\ UNCHANGED temp
  /\ UNCHANGED <<saving, file, fates, loaded, saved>>

\* Mutant of WriteTemp: out.good() is not asked for.
WriteTempUnchecked ==
  /\ pc = "write"
  /\ \/ temp' = Whole(saving)
     \/ May("write") /\ temp' \in Text(saving)
  /\ pc' = "rename"
  /\ UNCHANGED <<saving, file, fates, loaded, saved>>

\* write() and flush(): on an error what was written stays, and save() throws.
WriteTemp ==
  /\ pc = "write"
  /\ \/ temp' = Whole(saving) /\ pc' = "rename"
     \/ May("write") /\ temp' \in Text(saving) /\ pc' = "idle"
  /\ UNCHANGED <<saving, file, fates, loaded, saved>>

\* The temporary file takes the place of the other.  Its data are not synced:
\* a loss of power may keep the name and lose a part of them.
MoveTemp ==
  /\ file' = temp
  /\ temp' = None
  /\ fates' = fates \cup Text(saving)

Rename ==
  /\ pc = "rename"
  /\ \/ MoveTemp /\ pc' = "idle"
     \/ May("rename") /\ pc' = "remove" /\ UNCHANGED <<file, temp, fates>>
  /\ UNCHANGED <<saving, loaded, saved>>

\* The rename failed: the destination is removed, whether that works or not.
RemoveOld ==
  /\ pc = "remove"
  /\ \/ file' = None /\ fates' = fates \cup {None}
     \/ May("remove") /\ UNCHANGED <<file, fates>>
  /\ pc' = "again"
  /\ UNCHANGED <<saving, temp, loaded, saved>>

RenameAgain ==
  /\ pc = "again"
  /\ MoveTemp \/ (May("rename") /\ UNCHANGED <<file, temp, fates>>)
  /\ pc' = "idle"
  /\ UNCHANGED <<saving, loaded, saved>>

\* The process is killed; what it wrote is in the page cache.
Kill ==
  /\ pc # "down"
  /\ pc' = "down"
  /\ UNCHANGED <<saving, file, temp, fates, loaded, saved>>

\* The kernel writes its cache back, in its own time.
WriteBack ==
  /\ fates' = {file}
  /\ UNCHANGED <<pc, saving, file, temp, loaded, saved>>

LosePower ==
  /\ MayLosePower
  /\ pc' = "down"
  /\ file' \in fates
  /\ fates' = {file'}
  /\ temp' = None
  /\ UNCHANGED <<saving, loaded, saved>>

Next == \/ Load \/ BeginSave \/ OpenTemp \/ WriteTemp \/ Rename \/ RemoveOld
        \/ RenameAgain \/ Kill \/ WriteBack \/ LosePower

Spec == Init /\ [][Next]_vars
------------------------------------------------------------------------------
Stored  == IF file = None THEN None ELSE FromJson(file)
Pending == IF pc \in {"open", "write", "rename", "remove", "again"}
           THEN saving ELSE None

Cell == INSTANCE CheckpointCell WITH cell <- Stored, pending <- Pending

\* CheckpointStore.hpp:33 "atomic write: temp file + rename".  The store
\* implements the CheckpointCell.  It does unless rename() fails or power is
\* lost (CheckpointProofs).
Atomic == Cell!Spec

\* CheckpointStore.hpp:33, without those conditions.  Killed at any point, or
\* refused by the file system, each step of save() replaces the checkpoint by
\* the new one or leaves the old, and load() returns what is stored: all but
\* the removal in the fallback for a failed rename, and a loss of power.
AtomicSteps ==
  [][RemoveOld \/ LosePower \/ [Cell!Next]_<<Stored, Pending, loaded>>]_vars

\* CheckpointStore.hpp:18 "Safe restart position".  Whatever became of the file,
\* torn by a loss of power included, load() throws, finds nothing, or returns a
\* position no further than one the agent saved for that file and generation.
NeverAhead ==
  loaded \in {None, Error} \/
  \E cp \in saved : /\ cp.file = loaded.file /\ cp.gen = loaded.gen
                    /\ loaded.off <= cp.off
==============================================================================
