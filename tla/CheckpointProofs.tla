-------------------------- MODULE CheckpointProofs --------------------------
(***************************************************************************)
(* save() is the atomic replacement of a cell, for every set of            *)
(* checkpoints, whatever fails, kills the process or cuts its power: every *)
(* step but the removal in the fallback and the loss of power itself is a  *)
(* step of the cell.  With neither, the store implements the cell.         *)
(***************************************************************************)
EXTENDS CheckpointStore, FunctionTheorems, FiniteSetTheorems,
        WellFoundedInduction, TLAPS

Saving == pc \in {"open", "write", "rename", "remove", "again"}

\* The temporary file is whole from its last write to its renaming.
IInv ==
  /\ Saving => saving \in Label
  /\ pc \in {"rename", "remove", "again"} => temp = Whole(saving)

LEMMA WholeText ==
  ASSUME NEW cp \in Label
  PROVE  Whole(cp) # None /\ FromJson(Whole(cp)) = cp
<1>1. Whole(cp) \in Texts
  BY DEF Whole, Texts
<1>2. Whole(cp).cut <= Closing /\ Whole(cp).cp = cp
  BY DEF Whole, Closing
<1> QED
  BY <1>1, <1>2, NoneNotText DEF FromJson

LEMMA Invariance == Spec => []IInv
<1>1. Init => IInv
  BY DEF Init, IInv, Saving
<1>2. IInv /\ [Next]_vars => IInv'
  <2> SUFFICES ASSUME IInv, [Next]_vars PROVE IInv'
    OBVIOUS
  <2> USE DEF IInv, Saving
  <2>1. CASE Load
    BY <2>1 DEF Load
  <2>2. CASE BeginSave
    BY <2>2, StoreAssumption DEF BeginSave
  <2>3. CASE OpenTemp
    BY <2>3 DEF OpenTemp
  <2>4. CASE WriteTemp
    BY <2>4 DEF WriteTemp
  <2>5. CASE Rename
    BY <2>5 DEF Rename, MoveTemp
  <2>6. CASE RemoveOld
    BY <2>6 DEF RemoveOld
  <2>7. CASE RenameAgain
    BY <2>7 DEF RenameAgain
  <2>8. CASE Kill
    BY <2>8 DEF Kill
  <2>9. CASE WriteBack
    BY <2>9 DEF WriteBack
  <2>10. CASE LosePower
    BY <2>10 DEF LosePower
  <2>11. CASE UNCHANGED vars
    BY <2>11 DEF vars
  <2> QED
    BY <2>1, <2>2, <2>3, <2>4, <2>5, <2>6, <2>7, <2>8, <2>9, <2>10, <2>11 DEF Next
<1> QED
  BY <1>1, <1>2, PTL DEF Spec

\* A file renamed into place is the checkpoint being saved.
LEMMA MovedIsStored ==
  ASSUME IInv, pc \in {"rename", "again"}, MoveTemp, pc' = "idle", UNCHANGED loaded
  PROVE  Cell!Next
<1>1. saving \in Label /\ file' = Whole(saving)
  BY DEF IInv, Saving, MoveTemp
<1>2. Stored' = saving
  BY <1>1, WholeText DEF Stored
<1>3. Pending = saving /\ Pending' = None /\ saving # None
  BY <1>1, StoreAssumption DEF Pending
<1> QED
  BY <1>2, <1>3 DEF Cell!Next, Cell!Replace

LEMMA StepOfCell ==
  ASSUME IInv, [Next]_vars
  PROVE  RemoveOld \/ LosePower \/ [Cell!Next]_<<Stored, Pending, loaded>>
<1> SUFFICES ASSUME ~RemoveOld, ~LosePower
             PROVE  Cell!Next \/ UNCHANGED <<Stored, Pending, loaded>>
  OBVIOUS
<1> USE DEF Pending
<1>1. CASE Load
  <2>1. loaded' \in {Stored, Error}
    BY <1>1 DEF Load, Stored
  <2>2. UNCHANGED <<Stored, Pending>>
    BY <1>1 DEF Load, Stored
  <2> QED
    BY <2>1, <2>2 DEF Cell!Next, Cell!Load
<1>2. CASE BeginSave
  <2>1. Pending = None /\ UNCHANGED <<Stored, loaded>>
    BY <1>2 DEF BeginSave, Stored
  <2>2. Pending' \in Label \/ Pending' = None
    BY <1>2, StoreAssumption DEF BeginSave
  <2> QED
    BY <2>1, <2>2 DEF Cell!Next, Cell!BeginSave, Cell!Label, Label,
                        Cell!FileIds, FileIds
<1>3. CASE OpenTemp
  <2>1. UNCHANGED <<Stored, loaded>>
    BY <1>3 DEF OpenTemp, Stored
  <2>2. Pending # None /\ Pending' \in {Pending, None}
    BY <1>3, StoreAssumption DEF OpenTemp, IInv, Saving
  <2> QED
    BY <2>1, <2>2 DEF Cell!Next, Cell!GiveUp
<1>4. CASE WriteTemp
  <2>1. UNCHANGED <<Stored, loaded>>
    BY <1>4 DEF WriteTemp, Stored
  <2>2. Pending # None /\ Pending' \in {Pending, None}
    BY <1>4, StoreAssumption DEF WriteTemp, IInv, Saving
  <2> QED
    BY <2>1, <2>2 DEF Cell!Next, Cell!GiveUp
<1>5. CASE Rename
  <2>1. CASE MoveTemp /\ pc' = "idle"
    BY <1>5, <2>1, MovedIsStored DEF Rename
  <2>2. CASE pc' = "remove" /\ UNCHANGED <<file, temp, fates>>
    BY <1>5, <2>2 DEF Rename, Stored
  <2> QED
    BY <1>5, <2>1, <2>2 DEF Rename
<1>6. CASE RenameAgain
  <2>1. CASE MoveTemp
    BY <1>6, <2>1, MovedIsStored DEF RenameAgain
  <2>2. CASE UNCHANGED <<file, temp, fates>>
    <3>1. UNCHANGED <<Stored, loaded>>
      BY <1>6, <2>2 DEF RenameAgain, Stored
    <3>2. Pending # None /\ Pending' = None
      BY <1>6, StoreAssumption DEF RenameAgain, IInv, Saving
    <3> QED
      BY <3>1, <3>2 DEF Cell!Next, Cell!GiveUp
  <2> QED
    BY <1>6, <2>1, <2>2 DEF RenameAgain
<1>7. CASE Kill
  <2>1. UNCHANGED <<Stored, loaded>> /\ Pending' = None
    BY <1>7 DEF Kill, Stored
  <2> QED
    BY <2>1 DEF Cell!Next, Cell!GiveUp
<1>8. CASE WriteBack
  BY <1>8 DEF WriteBack, Stored
<1>9. CASE UNCHANGED vars
  BY <1>9 DEF vars, Stored
<1> QED
  BY <1>1, <1>2, <1>3, <1>4, <1>5, <1>6, <1>7, <1>8, <1>9 DEF Next

\* CheckpointStore.cpp:37-79.  Every step of the store, but for the removal in
\* the fallback and a loss of power, is a step of the cell or leaves it as it is.
THEOREM SaveIsAtomic == Spec => AtomicSteps
<1>1. IInv /\ [Next]_vars
        => [RemoveOld \/ LosePower \/ [Cell!Next]_<<Stored, Pending, loaded>>]_vars
  BY StepOfCell
<1> QED
  BY <1>1, Invariance, PTL DEF Spec, AtomicSteps
------------------------------------------------------------------------------
\* When rename() does not fail, the fallback is not reached.
NoFallback == pc \notin {"remove", "again"}

LEMMA FallbackUnused ==
  ASSUME "rename" \notin StoreFaults PROVE Spec => []NoFallback
<1>1. Init => NoFallback
  BY DEF Init, NoFallback
<1>2. NoFallback /\ [Next]_vars => NoFallback'
  BY DEF NoFallback, Next, vars, Load, BeginSave, OpenTemp, WriteTemp, Rename,
         May, RemoveOld, RenameAgain, Kill, WriteBack, LosePower
<1> QED
  BY <1>1, <1>2, PTL DEF Spec

\* CheckpointStore.hpp:33.  Unless rename() fails or power is lost, the store
\* implements the cell.
THEOREM StoreImplementsCell ==
  ASSUME "rename" \notin StoreFaults, MayLosePower = FALSE
  PROVE  Spec => Atomic
<1>1. Init => Cell!Init
  BY DEF Init, Cell!Init, Stored, Pending
<1>2. IInv /\ NoFallback /\ [Next]_vars => [Cell!Next]_<<Stored, Pending, loaded>>
  BY StepOfCell DEF NoFallback, RemoveOld, LosePower
<1> QED
  BY <1>1, <1>2, Invariance, FallbackUnused, PTL DEF Spec, Atomic, Cell!Spec
------------------------------------------------------------------------------
\* A set of naturals has a least element: induction, without an operator for
\* the induction hypothesis.
LEMMA LeastElement ==
  ASSUME NEW T \in SUBSET Nat, T # {}
  PROVE  \E m \in T : \A n \in T : m <= n
<1> DEFINE F == {1..n : n \in T}
           R == StrictSubsetOrdering(Nat)
<1>1. F \subseteq FiniteSubsetsOf(Nat) /\ F # {}
  <2>1. \A n \in T : IsFiniteSet(1..n) /\ 1..n \subseteq Nat
    BY FS_Interval
  <2> QED BY <2>1 DEF FiniteSubsetsOf
<1>2. IsWellFoundedOn(R, FiniteSubsetsOf(Nat))
  BY FS_StrictSubsetOrderingWellFounded
<1> HIDE DEF R
<1>3. PICK S \in F : \A U \in F : <<U, S>> \notin R
  <2> HIDE DEF F
  <2> QED BY <1>1, <1>2, WFMin
<1>4. PICK m \in T : S = 1..m
  BY <1>3
<1>5. ASSUME NEW n \in T, n < m PROVE FALSE
  <2>1. 1..n \subseteq 1..m /\ m \in 1..m /\ m \notin 1..n
    BY <1>5
  <2>2. <<1..n, S>> \in R
    BY <1>4, <2>1 DEF R, StrictSubsetOrdering
  <2> QED BY <1>3, <2>2
<1> QED BY <1>5

\* There are finitely many texts of k digits, more than k of them.
LEMMA TensType ==
  ASSUME NEW k \in Nat
  PROVE  Tens(k) \in Nat \ {0} /\ k < Tens(k)
<1> DEFINE T == [1..k -> 0..9]
           graph == [f \in T |-> {<<i, f[i]>> : i \in 1..k}]
           steps == [n \in 0..k |-> [i \in 1..k |-> IF i <= n THEN 1 ELSE 0]]
<1>1. IsFiniteSet(SUBSET ((1..k) \X (0..9)))
  <2>1. /\ 1 \in Int /\ k \in Int /\ 0 \in Int /\ 9 \in Int
    OBVIOUS
  <2>2. IsFiniteSet(1..k) /\ IsFiniteSet(0..9)
    BY <2>1, FS_Interval
  <2>3. IsFiniteSet((1..k) \X (0..9))
    BY <2>2, FS_Product
  <2> QED BY <2>3, FS_SUBSET
<1>2. graph \in Injection(T, SUBSET ((1..k) \X (0..9)))
  <2>1. graph \in [T -> SUBSET ((1..k) \X (0..9))]
    OBVIOUS
  <2>2. ASSUME NEW f \in T, NEW g \in T, graph[f] = graph[g] PROVE f = g
    <3>1. ASSUME NEW i \in 1..k PROVE f[i] = g[i]
      <4>1. <<i, f[i]>> \in graph[g]
        BY <2>2
      <4> QED BY <4>1
    <3> QED BY <3>1
  <2> HIDE DEF graph, T
  <2> QED BY <2>1, <2>2 DEF Injection, IsInjective
<1>3. IsFiniteSet(T)
  BY <1>1, <1>2, FS_Injection
<1>4. steps \in Injection(0..k, T)
  <2>1. steps \in [0..k -> T]
    OBVIOUS
  <2>2. ASSUME NEW m \in 0..k, NEW n \in 0..k, m < n PROVE steps[m] # steps[n]
    <3>1. n \in 1..k
      BY <2>2
    <3>2. steps[m][n] = 0 /\ steps[n][n] = 1
      BY <2>2, <3>1
    <3> QED BY <3>2
  <2> HIDE DEF steps, T
  <2>3. \A m, n \in 0..k : m = n \/ m < n \/ n < m
    OBVIOUS
  <2> QED BY <2>1, <2>2, <2>3 DEF Injection, IsInjective
<1>5. Cardinality(0..k) = k + 1
  BY FS_Interval
<1> HIDE DEF T
<1>6. Cardinality(T) \in Nat /\ k + 1 <= Cardinality(T)
  BY <1>3, <1>4, <1>5, FS_Injection, FS_CardinalityType
<1> QED BY <1>6 DEF Tens, T

LEMMA DigitsType == ASSUME NEW n \in Nat PROVE Digits(n) \in Nat
<1> DEFINE Enough == {d \in 1..n + 1 : n < Tens(d)}
<1>1. n + 1 \in Enough
  BY TensType
<1>2. PICK d \in Enough : \A c \in Enough : d <= c
  <2>1. Enough \in SUBSET Nat /\ Enough # {}
    BY <1>1
  <2> HIDE DEF Enough
  <2> QED BY <2>1, LeastElement
<1>3. d = 1 \/ Tens(d - 1) <= n
  <2> SUFFICES ASSUME d # 1, n < Tens(d - 1) PROVE FALSE
    BY TensType
  <2>1. d - 1 \in Enough
    OBVIOUS
  <2> QED BY <1>2, <2>1
<1>4. \E c \in 1..n + 1 : n < Tens(c) /\ (c = 1 \/ Tens(c - 1) <= n)
  BY <1>2, <1>3
<1> QED BY <1>4 DEF Digits
------------------------------------------------------------------------------
\* What a file may hold: nothing, or some text of a checkpoint saved.
Known == [cp : saved, cut : Nat] \cup {None}

\* NeverAhead is about what was loaded; that it stays true is up to what may be
\* loaded next, from the page cache or from what a loss of power leaves.
SafeInv ==
  /\ saved \subseteq Label
  /\ Saving => saving \in saved
  /\ file \in Known /\ temp \in Known /\ fates \subseteq Known
  /\ loaded \in Label \cup {None, Error}
  /\ NeverAhead

\* The texts of a checkpoint, whole or torn, and none of its digits left.
LEMMA TextsKnown ==
  ASSUME NEW cp \in Label
  PROVE  Text(cp) \cup {Whole(cp), Bare(cp)} \subseteq [cp : {cp}, cut : Nat]
<1>1. Digits(cp.off) \in Nat
  BY DigitsType DEF Label
<1> QED BY <1>1 DEF Text, Whole, Bare, Closing

\* from_json() of a text cut short throws, or yields the same checkpoint with
\* an offset that is no larger.
LEMMA ReadBack ==
  ASSUME NEW t \in Texts
  PROVE  \/ FromJson(t) = Error
         \/ /\ FromJson(t) \in Label
            /\ FromJson(t).file = t.cp.file /\ FromJson(t).gen = t.cp.gen
            /\ FromJson(t).off <= t.cp.off
<1>1. t.cp \in Label /\ t.cut \in Nat /\ t.cp.off \in Nat
  BY DEF Texts, Label
<1>2. CASE t.cut <= Closing
  BY <1>1, <1>2 DEF FromJson
<1>3. CASE ~(t.cut <= Closing)
  <2>1. Tens(t.cut - Closing) \in Nat \ {0}
    BY <1>1, <1>3, TensType DEF Closing
  <2>2. ASSUME NEW n \in Nat, NEW d \in Nat \ {0}
        PROVE  n \div d \in Nat /\ n \div d <= n
    BY <2>2
  <2> DEFINE o == t.cp.off \div Tens(t.cut - Closing)
             r == [t.cp EXCEPT !.off = o]
  <2>3. o \in Nat /\ o <= t.cp.off
    BY <1>1, <2>1, <2>2
  <2>4. FromJson(t) \in {r, Error}
    BY <1>3 DEF FromJson
  <2> HIDE DEF o
  <2>5. r \in Label /\ r.file = t.cp.file /\ r.gen = t.cp.gen /\ r.off = o
    BY <1>1, <2>3 DEF Label
  <2> QED BY <2>3, <2>4, <2>5
<1> QED BY <1>2, <1>3

LEMMA KnownGrows ==
  ASSUME saved \subseteq saved', NEW t \in Known PROVE t \in Known'
BY DEF Known

LEMMA SafeStep == ASSUME SafeInv, [Next]_vars PROVE SafeInv'
<1> USE DEF SafeInv, Saving
<1>1. CASE Load
  <2>1. UNCHANGED <<saving, file, temp, fates, saved, Known>> /\ ~Saving'
    BY <1>1 DEF Load, Known
  <2>2. /\ loaded' \in Label \cup {None, Error}
        /\ loaded' \in {None, Error} \/
             \E cp \in saved : /\ cp.file = loaded'.file /\ cp.gen = loaded'.gen
                               /\ loaded'.off <= cp.off
    <3>1. loaded' \in {None, Error} \/ (file # None /\ loaded' = FromJson(file))
      BY <1>1 DEF Load
    <3>2. CASE file # None /\ loaded' = FromJson(file)
      <4>1. file \in [cp : saved, cut : Nat] /\ file \in Texts /\ file.cp \in saved
        BY <3>2 DEF Known, Texts
      <4> QED BY <3>2, <4>1, ReadBack
    <3> QED BY <3>1, <3>2
  <2> QED BY <2>1, <2>2 DEF NeverAhead
<1>2. CASE BeginSave
  <2>1. PICK cp \in Saves : /\ saving' = cp /\ saved' = saved \cup {cp}
                            /\ UNCHANGED <<file, temp, fates, loaded>>
    BY <1>2 DEF BeginSave
  <2>2. saved' \subseteq Label /\ saved \subseteq saved' /\ saving' \in saved'
    BY <2>1, StoreAssumption
  <2>3. file' \in Known' /\ temp' \in Known' /\ fates' \subseteq Known'
    BY <2>1, <2>2, KnownGrows
  <2>4. NeverAhead'
    BY <2>1, <2>2 DEF NeverAhead
  <2> QED BY <2>1, <2>2, <2>3, <2>4
<1>3. ASSUME NEW t, t \in Text(saving) \cup {Whole(saving), Bare(saving)}, Saving
      PROVE  t \in Known
  <2>1. saving \in saved /\ saving \in Label
    BY <1>3
  <2>2. t \in [cp : {saving}, cut : Nat]
    BY <1>3, <2>1, TextsKnown
  <2> QED BY <2>1, <2>2 DEF Known
<1>4. CASE OpenTemp
  <2>1. pc = "open" /\ temp' \in {temp, Bare(saving)}
        /\ UNCHANGED <<saving, file, fates, loaded, saved>>
    BY <1>4 DEF OpenTemp
  <2>2. temp' \in Known
    BY <1>3, <2>1
  <2> QED BY <2>1, <2>2 DEF Known, NeverAhead
<1>5. CASE WriteTemp
  <2>1. pc = "write" /\ temp' \in Text(saving) \cup {Whole(saving)}
        /\ UNCHANGED <<saving, file, fates, loaded, saved>>
    BY <1>5 DEF WriteTemp
  <2>2. temp' \in Known
    BY <1>3, <2>1
  <2> QED BY <2>1, <2>2 DEF Known, NeverAhead
<1>6. ASSUME Saving, MoveTemp \/ UNCHANGED <<file, temp, fates>>,
             UNCHANGED <<saving, loaded, saved>>
      PROVE  SafeInv'
  <2>1. MoveTemp => /\ file' = temp /\ temp' = None
                    /\ fates' = fates \cup Text(saving)
    BY DEF MoveTemp
  <2>2. Text(saving) \subseteq Known /\ None \in Known
    BY <1>3, <1>6 DEF Known
  <2>3. file' \in Known /\ temp' \in Known /\ fates' \subseteq Known
    BY <1>6, <2>1, <2>2
  <2> QED BY <1>6, <2>3 DEF Known, NeverAhead
<1>7. CASE Rename
  BY <1>6, <1>7 DEF Rename
<1>8. CASE RenameAgain
  BY <1>6, <1>8 DEF RenameAgain
<1>9. CASE RemoveOld
  <2>1. /\ pc = "remove" /\ file' \in {file, None} /\ fates' \subseteq fates \cup {None}
        /\ UNCHANGED <<saving, temp, loaded, saved>>
    BY <1>9 DEF RemoveOld
  <2> QED BY <2>1 DEF Known, NeverAhead
<1>10. CASE Kill \/ WriteBack \/ LosePower \/ UNCHANGED vars
  <2>1. /\ file' \in {file} \cup fates /\ temp' \in {temp, None}
        /\ fates' \subseteq fates \cup {file, file'}
        /\ UNCHANGED <<saving, loaded, saved>>
        /\ Saving' => Saving
    BY <1>10 DEF Kill, WriteBack, LosePower, vars
  <2> QED BY <2>1 DEF Known, NeverAhead
<1> QED
  BY <1>1, <1>2, <1>4, <1>5, <1>7, <1>8, <1>9, <1>10 DEF Next

\* CheckpointStore.hpp:18, CheckpointStore.cpp:19-35, 92-117.  Whatever fails,
\* kills the process or cuts its power, load() throws, finds nothing, or returns
\* a position no further than one that was saved for that file and generation.
THEOREM LoadedIsSafe == Spec => []NeverAhead
<1>1. Init => SafeInv
  BY DEF Init, SafeInv, Saving, Known, NeverAhead
<1>2. SafeInv /\ [Next]_vars => SafeInv'
  BY SafeStep
<1> QED BY <1>1, <1>2, PTL DEF Spec, SafeInv
==============================================================================
