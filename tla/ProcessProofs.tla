---------------------------- MODULE ProcessProofs ----------------------------
(***************************************************************************)
(* What AgentProcess guarantees for every file, every set of keys' values, *)
(* every width of the integers, every batch and every backend: the         *)
(* configuration the agent is started with says what the text of the file  *)
(* says; what the sink posts reads as the batch it was given; and a send   *)
(* that returns ok was of a batch the backend has.                         *)
(***************************************************************************)
EXTENDS AgentProcess, FiniteSetTheorems, SequenceTheorems,
        WellFoundedInduction, TLAPS

\* 2^k is a natural number: the number of subsets of 1..k.
LEMMA WordType == ASSUME NEW k \in Nat PROVE 2^k \in Nat
<1>1. IsFiniteSet(1..k) /\ Cardinality(1..k) = k
  BY FS_Interval
<1>2. IsFiniteSet(SUBSET (1..k)) /\ Cardinality(SUBSET (1..k)) = 2^k
  BY <1>1, FS_SUBSET
<1>. QED  BY <1>2, FS_CardinalityType

\* A number that fits the member is not changed by the cast.
LEMMA NarrowFits == ASSUME ConfigAssumption, NEW n \in UInt32 PROVE Narrow(n) = n
<1>. DEFINE word == 2^WordBits
<1>1. word \in Nat
  BY WordType DEF ConfigAssumption
<1>. HIDE DEF word
<1>2. n \in 0..word - 1
  BY DEF UInt32, word
<1>3. n % word = n
  BY <1>1, <1>2
<1>. QED  BY <1>3 DEF Narrow, word

LoaderInv == text \in Seq(Lines) /\ LastSettingWins

\* A line that is read has the last word on what it sets.
LEMMA ReadLineKeeps ==
  ASSUME ConfigAssumption, LoaderInv, NEW l \in Lines, ReadLine(l)
  PROVE  LoaderInv'
<1>. DEFINE n == Len(text)
<1>1. /\ text' = Append(text, l) /\ loading' = "reading" /\ loading = "reading"
      /\ \A s \in Settings : cfg'[s] = IF Sets(l, s) THEN Meaning(s, Value(l))
                                                    ELSE cfg[s]
  BY DEF ReadLine
<1>2. /\ text' \in Seq(Lines) /\ n \in Nat
      /\ DOMAIN text = 1..n /\ DOMAIN text' = 1..n + 1 /\ Len(text') = n + 1
      /\ text'[n + 1] = l /\ \A k \in 1..n : text'[k] = text[k]
  BY <1>1 DEF LoaderInv
<1>. HIDE DEF n
<1>3. ASSUME NEW s \in Settings
      PROVE  /\ (\A k \in DOMAIN text' : ~Sets(text'[k], s))
                  => cfg'[s] = Defaults[s]
             /\ \A k \in DOMAIN text' : Governs(k, s)' =>
                  IF s \in TextSettings THEN cfg'[s] = Value(text'[k])
                  ELSE LET m == NumberOf[Digits(Value(text'[k]))]
                       IN  m \in UInt32 => cfg'[s] = m
  <2>1. /\ (\A k \in DOMAIN text : ~Sets(text[k], s)) => cfg[s] = Defaults[s]
        /\ \A k \in DOMAIN text : Governs(k, s) =>
             IF s \in TextSettings THEN cfg[s] = Value(text[k])
             ELSE LET m == NumberOf[Digits(Value(text[k]))]
                  IN  m \in UInt32 => cfg[s] = m
    BY <1>1 DEF LoaderInv, LastSettingWins
  <2>2. CASE Sets(l, s)
    <3>1. cfg'[s] = Meaning(s, Value(l))
      BY <1>1, <2>2
    <3>2. ASSUME NEW k \in DOMAIN text', Governs(k, s)' PROVE text'[k] = l
      <4>1. k = n + 1 \/ n + 1 \in k + 1..n + 1
        BY <1>2
      <4>2. n + 1 \notin k + 1..Len(text')
        BY <1>2, <2>2, <3>2 DEF Governs
      <4>. QED  BY <1>2, <4>1, <4>2
    <3>3. CASE s \in TextSettings
      BY <1>2, <2>2, <3>1, <3>2, <3>3 DEF Meaning
    <3>4. CASE s \notin TextSettings
      <4>1. NumberOf[Digits(Value(l))] \in UInt32
              => cfg'[s] = NumberOf[Digits(Value(l))]
        BY <3>1, <3>4, NarrowFits DEF Meaning
      <4>2. ~ \A k \in DOMAIN text' : ~Sets(text'[k], s)
        BY <1>2, <2>2
      <4>3. ASSUME NEW k \in DOMAIN text', Governs(k, s)'
            PROVE  LET m == NumberOf[Digits(Value(text'[k]))]
                   IN  m \in UInt32 => cfg'[s] = m
        BY <3>2, <4>1, <4>3
      <4>. QED  BY <3>4, <4>2, <4>3
    <3>. QED  BY <3>3, <3>4
  <2>3. CASE ~Sets(l, s)
    <3>1. cfg'[s] = cfg[s]
      BY <1>1, <2>3
    <3>2. ASSUME NEW k \in DOMAIN text', Governs(k, s)'
          PROVE  k \in DOMAIN text /\ text'[k] = text[k] /\ Governs(k, s)
      <4>1. k \in 1..n
        BY <1>2, <2>3, <3>2 DEF Governs
      <4>2. \A h \in k + 1..Len(text) : h \in k + 1..Len(text') /\ h \in 1..n
        BY <1>2, <4>1 DEF n
      <4>. QED  BY <1>2, <3>2, <4>1, <4>2 DEF Governs
    <3>3. (\A k \in DOMAIN text' : ~Sets(text'[k], s))
            => \A k \in DOMAIN text : ~Sets(text[k], s)
      BY <1>2
    <3>. QED  BY <2>1, <3>1, <3>2, <3>3
  <2>. QED  BY <2>2, <2>3
<1>. QED  BY <1>1, <1>2, <1>3 DEF LoaderInv, LastSettingWins

\* Every step of the process keeps the configuration true to the text.
LEMMA LoaderStep ==
  ConfigAssumption /\ LoaderInv /\ [Next]_vars => LoaderInv'
<1>. SUFFICES ASSUME ConfigAssumption, LoaderInv, [Next]_vars
             PROVE  LoaderInv'
  OBVIOUS
<1>1. ASSUME NEW l \in Lines, RefuseLine(l) PROVE LoaderInv'
  BY <1>1 DEF RefuseLine, LoaderInv, LastSettingWins
<1>2. CASE OpenFails
  BY <1>2 DEF OpenFails, LoaderInv, LastSettingWins
<1>3. CASE EndOfFile
  BY <1>3 DEF EndOfFile, LoaderInv, LastSettingWins, Governs
<1>4. CASE Configure
  BY <1>1, <1>2, <1>3, <1>4, ReadLineKeeps DEF Configure, Load
<1>5. CASE UNCHANGED loaderVars
  BY <1>5 DEF loaderVars, LoaderInv, LastSettingWins, Governs
<1>6. UNCHANGED vars => UNCHANGED loaderVars
  BY DEF vars
<1>7. Next => Configure \/ UNCHANGED loaderVars
  BY DEF Next, Thread, ConstructAgent, TestConnection, CheckRunning, EndTick,
         Sleep, EndShutdown, SendBatch, Transfer, GiveUp, Signal
<1>. QED  BY <1>4, <1>5, <1>6, <1>7

\* ConfigLoader.hpp:9 "key: value" pairs: whatever the file holds, and whatever
\* the widths of the integers, each member has the value of the last line that
\* sets it, or its default, for as long as the process runs.
THEOREM ConfigurationAsWritten == Spec => []LastSettingWins
<1>1. Init => LoaderInv
  <2>. SUFFICES ASSUME Init PROVE LoaderInv
    OBVIOUS
  <2>1. text = <<>> /\ cfg = Defaults
    BY DEF Init, LoaderInit
  <2>2. DOMAIN text = {} /\ text \in Seq(Lines)
    BY <2>1
  <2>. QED  BY <2>1, <2>2 DEF LoaderInv, LastSettingWins
<1>2. LoaderInv => LastSettingWins
  BY DEF LoaderInv
<1>. QED  BY <1>1, <1>2, LoaderStep, ConfigAssumption, PTL DEF Spec------------------------------------------------------------------------------
\* A set of naturals has a least element: induction, without an operator for
\* the induction hypothesis.
LEMMA LeastElement ==
  ASSUME NEW T \in SUBSET Nat, T # {}
  PROVE  \E m \in T : \A n \in T : m <= n
<1>. DEFINE F == {1..n : n \in T}
           R == StrictSubsetOrdering(Nat)
<1>1. F \subseteq FiniteSubsetsOf(Nat) /\ F # {}
  <2>1. \A n \in T : IsFiniteSet(1..n) /\ 1..n \subseteq Nat
    BY FS_Interval
  <2>. QED BY <2>1 DEF FiniteSubsetsOf
<1>2. IsWellFoundedOn(R, FiniteSubsetsOf(Nat))
  BY FS_StrictSubsetOrderingWellFounded
<1>. HIDE DEF R
<1>3. PICK S \in F : \A U \in F : <<U, S>> \notin R
  <2>. HIDE DEF F
  <2>. QED BY <1>1, <1>2, WFMin
<1>4. PICK m \in T : S = 1..m
  BY <1>3
<1>5. ASSUME NEW n \in T, n < m PROVE FALSE
  <2>1. 1..n \subseteq 1..m /\ m \in 1..m /\ m \notin 1..n
    BY <1>5
  <2>2. <<1..n, S>> \in R
    BY <1>4, <2>1 DEF R, StrictSubsetOrdering
  <2>. QED BY <1>3, <2>2
<1>. QED BY <1>5

\* FlattenSeq is defined by a recursion on the prefixes; there is a function that
\* meets its equation.
Flattening(seqs) ==
  CHOOSE f : f = [i \in 1..Len(seqs) |->
                    IF i = 1 THEN seqs[i] ELSE f[i - 1] \o seqs[i]]

LEMMA FlatteningDef ==
  ASSUME NEW seqs, Len(seqs) \in Nat
  PROVE  Flattening(seqs) = [i \in 1..Len(seqs) |->
           IF i = 1 THEN seqs[i] ELSE Flattening(seqs)[i - 1] \o seqs[i]]
<1>. DEFINE n == Len(seqs)
            Partial(m) == \E f : f = [i \in 1..m |->
                            IF i = 1 THEN seqs[i] ELSE f[i - 1] \o seqs[i]]
            T == {m \in 0..n : ~Partial(m)}
<1>1. Partial(0)
  <2>. DEFINE e == [i \in 1..0 |-> seqs[i]]
  <2>1. e = [i \in 1..0 |-> IF i = 1 THEN seqs[i] ELSE e[i - 1] \o seqs[i]]
    OBVIOUS
  <2>. QED  BY <2>1
<1>2. ASSUME NEW m \in 1..n, Partial(m - 1) PROVE Partial(m)
  <2>1. PICK g : g = [i \in 1..m - 1 |->
                        IF i = 1 THEN seqs[i] ELSE g[i - 1] \o seqs[i]]
    BY <1>2
  <2>. DEFINE f == [i \in 1..m |->
                      IF i = 1 THEN seqs[i] ELSE g[i - 1] \o seqs[i]]
  <2>2. \A i \in 1..m - 1 : g[i] = IF i = 1 THEN seqs[i] ELSE g[i - 1] \o seqs[i]
    BY <2>1, Zenon
  <2>3. \A i \in 1..m : i # 1 => f[i - 1] = g[i - 1]
    <3>1. \A i \in 1..m : f[i] = IF i = 1 THEN seqs[i] ELSE g[i - 1] \o seqs[i]
      OBVIOUS
    <3>2. \A i \in 1..m : i # 1 => i - 1 \in 1..m /\ i - 1 \in 1..m - 1
      OBVIOUS
    <3>. HIDE DEF f
    <3>3. ASSUME NEW i \in 1..m, i # 1 PROVE f[i - 1] = g[i - 1]
      <4>. DEFINE h == i - 1
      <4>1. h \in 1..m /\ h \in 1..m - 1
        BY <3>2, <3>3
      <4>. HIDE DEF h
      <4>2. f[h] = g[h]
        BY <2>2, <3>1, <4>1
      <4>. QED  BY <4>2 DEF h
    <3>. QED  BY <3>3
  <2>4. f = [i \in 1..m |-> IF i = 1 THEN seqs[i] ELSE f[i - 1] \o seqs[i]]
    BY <2>3
  <2>. QED  BY <2>4
<1>3. Partial(n)
  <2>. SUFFICES ASSUME ~Partial(n) PROVE FALSE
    OBVIOUS
  <2>. HIDE DEF Partial
  <2>1. T \in SUBSET Nat /\ T # {}
    OBVIOUS
  <2>2. PICK m \in T : \A k \in T : m <= k
    BY <2>1, LeastElement
  <2>3. m # 0 /\ m \in 1..n
    BY <1>1, <2>2
  <2>4. m - 1 \notin T /\ m - 1 \in 0..n
    BY <2>2, <2>3
  <2>. QED  BY <1>2, <2>2, <2>3, <2>4
<1>. QED  BY <1>3, Zenon DEF Flattening

\* at[i] is where the pieces after the i-th begin in s, which is made of them.
JoinedAt(seqs, m, s, at) ==
  /\ at \in [0..m -> Nat] /\ at[0] = 0 /\ Len(s) = at[m]
  /\ \A i \in 1..m : at[i] = at[i - 1] + Len(seqs[i]) /\ at[i] <= at[m]
  /\ \A i \in 1..m : \A x \in 1..Len(seqs[i]) : s[at[i - 1] + x] = seqs[i][x]

LEMMA Joins ==
  ASSUME NEW C, NEW seqs, NEW m \in Nat, NEW s \in Seq(C), NEW at,
         JoinedAt(seqs, m, s, at), seqs[m + 1] \in Seq(C)
  PROVE  \E new : JoinedAt(seqs, m + 1, s \o seqs[m + 1], new)
<1>. DEFINE t == s \o seqs[m + 1]
            new == [i \in 0..m + 1 |-> IF i = m + 1 THEN Len(t) ELSE at[i]]
<1>1. /\ t \in Seq(C) /\ Len(t) = Len(s) + Len(seqs[m + 1]) /\ Len(t) \in Nat
      /\ Len(s) \in Nat /\ Len(seqs[m + 1]) \in Nat
      /\ \A x \in 1..Len(s) : t[x] = s[x]
      /\ \A x \in 1..Len(seqs[m + 1]) : t[Len(s) + x] = seqs[m + 1][x]
  BY ConcatProperties, LenProperties
<1>2. /\ at \in [0..m -> Nat] /\ at[0] = 0 /\ Len(s) = at[m]
      /\ \A i \in 1..m : at[i] = at[i - 1] + Len(seqs[i]) /\ at[i] <= at[m]
      /\ \A i \in 1..m : \A x \in 1..Len(seqs[i]) : s[at[i - 1] + x] = seqs[i][x]
  BY DEF JoinedAt
<1>. HIDE DEF t
<1>3. /\ new \in [0..m + 1 -> Nat] /\ new[0] = 0 /\ new[m + 1] = Len(t)
      /\ \A i \in 0..m : new[i] = at[i]
  BY <1>1, <1>2
<1>. HIDE DEF new
<1>4. ASSUME NEW i \in 1..m + 1
      PROVE  new[i] = new[i - 1] + Len(seqs[i]) /\ new[i] <= new[m + 1]
  <2>1. CASE i \in 1..m
    <3>1. i - 1 \in 0..m /\ i \in 0..m /\ at[m] \in Nat
      BY <1>2, <2>1
    <3>. QED  BY <1>1, <1>2, <1>3, <2>1, <3>1
  <2>2. CASE i = m + 1
    <3>1. i - 1 = m /\ m \in 0..m
      BY <2>2
    <3>. QED  BY <1>1, <1>2, <1>3, <2>2, <3>1
  <2>. QED  BY <2>1, <2>2
<1>5. ASSUME NEW i \in 1..m + 1, NEW x \in 1..Len(seqs[i])
      PROVE  t[new[i - 1] + x] = seqs[i][x]
  <2>1. CASE i \in 1..m
    <3>0. i - 1 \in 0..m /\ i \in 0..m
      BY <2>1
    <3>1. i - 1 \in 0..m /\ i \in 0..m /\ at[i - 1] \in Nat /\ at[i] \in Nat
      BY <1>2, <3>0
    <3>2. at[i] = at[i - 1] + Len(seqs[i]) /\ at[i] <= Len(s)
      BY <1>2, <2>1
    <3>3. at[i - 1] + x \in 1..Len(s)
      BY <1>1, <3>1, <3>2
    <3>. QED  BY <1>1, <1>2, <1>3, <2>1, <3>1, <3>3
  <2>2. CASE i = m + 1
    <3>1. i - 1 = m /\ m \in 0..m
      BY <2>2
    <3>. QED  BY <1>1, <1>2, <1>3, <2>2, <3>1
  <2>. QED  BY <2>1, <2>2
<1>6. JoinedAt(seqs, m + 1, t, new)
  BY <1>3, <1>4, <1>5 DEF JoinedAt
<1>. QED  BY <1>6 DEF t

LEMMA FlattenShape ==
  ASSUME NEW C, NEW seqs \in Seq(Seq(C))
  PROVE  /\ FlattenSeq(seqs) \in Seq(C)
         /\ \E at : JoinedAt(seqs, Len(seqs), FlattenSeq(seqs), at)
<1>. DEFINE n == Len(seqs)
            f == Flattening(seqs)
            Prefix(m) == IF m = 0 THEN <<>> ELSE f[m]
            Good(m) == /\ Prefix(m) \in Seq(C)
                       /\ \E at : JoinedAt(seqs, m, Prefix(m), at)
            T == {m \in 0..n : ~Good(m)}
<1>1. n \in Nat /\ \A i \in 1..n : seqs[i] \in Seq(C)
  BY LenProperties, ElementOfSeq
<1>2. \A m \in 1..n : Prefix(m) = Prefix(m - 1) \o seqs[m]
  <2>1. f = [i \in 1..n |-> IF i = 1 THEN seqs[i] ELSE f[i - 1] \o seqs[i]]
    BY <1>1, FlatteningDef
  <2>. HIDE DEF f, n
  <2>2. ASSUME NEW m \in 1..n PROVE Prefix(m) = Prefix(m - 1) \o seqs[m]
    <3>1. f[m] = IF m = 1 THEN seqs[m] ELSE f[m - 1] \o seqs[m]
      BY <2>1
    <3>2. <<>> \o seqs[m] = seqs[m]
      BY <1>1, ConcatEmptySeq
    <3>3. CASE m = 1
      <4>1. Prefix(m) = f[m] /\ Prefix(m - 1) = <<>>
        BY <3>3
      <4>. QED  BY <3>1, <3>2, <3>3, <4>1
    <3>4. CASE m # 1
      <4>1. Prefix(m) = f[m] /\ Prefix(m - 1) = f[m - 1]
        BY <1>1, <3>4
      <4>. QED  BY <3>1, <3>4, <4>1
    <3>. QED  BY <3>3, <3>4
  <2>. QED  BY <2>2
<1>3. Good(0)
  <2>. DEFINE at == [i \in 0..0 |-> 0]
  <2>1. JoinedAt(seqs, 0, <<>>, at)
    BY DEF JoinedAt
  <2>. QED  BY <2>1
<1>. HIDE DEF Prefix, n
<1>4. ASSUME NEW m \in 1..n, Good(m - 1) PROVE Good(m)
  <2>1. PICK at : JoinedAt(seqs, m - 1, Prefix(m - 1), at)
    BY <1>4
  <2>2. m - 1 \in Nat /\ (m - 1) + 1 = m /\ seqs[m] \in Seq(C)
    BY <1>1
  <2>3. \E new : JoinedAt(seqs, m, Prefix(m - 1) \o seqs[m], new)
    <3>1. \E new : JoinedAt(seqs, (m - 1) + 1,
                            Prefix(m - 1) \o seqs[(m - 1) + 1], new)
      <4>1. seqs[(m - 1) + 1] \in Seq(C)
        BY <2>2
      <4>. QED  BY <1>4, <2>1, <2>2, <4>1, Joins
    <3>. QED  BY <2>2, <3>1
  <2>4. Prefix(m) \in Seq(C)
    BY <1>2, <1>4, <2>2, ConcatProperties
  <2>. QED  BY <1>2, <2>3, <2>4
<1>5. Good(n)
  <2>. SUFFICES ASSUME ~Good(n) PROVE FALSE
    OBVIOUS
  <2>. HIDE DEF Good
  <2>1. T \in SUBSET Nat /\ T # {}
    BY <1>1
  <2>2. PICK m \in T : \A k \in T : m <= k
    BY <2>1, LeastElement
  <2>3. m # 0 /\ m \in 1..n
    BY <1>1, <1>3, <2>2
  <2>4. m - 1 \notin T /\ m - 1 \in 0..n
    BY <1>1, <2>2, <2>3
  <2>. QED  BY <1>4, <2>2, <2>3, <2>4
<1>6. FlattenSeq(seqs) = Prefix(n)
  <2>1. CASE n = 0
    <3>1. seqs = <<>>
      BY <2>1, EmptySeq DEF n
    <3>. QED  BY <2>1, <3>1 DEF FlattenSeq, Prefix, n
  <2>2. CASE n # 0
    BY <2>2 DEF FlattenSeq, Prefix, n, Flattening
  <2>. QED  BY <2>1, <2>2
<1>. QED  BY <1>5, <1>6 DEF n
\* The characters of a body.
Symbols == Chars \cup {"\\", "\"", "n", "r", "{", "}", "\n"}

LEMMA EscapeType ==
  ASSUME NEW c \in Chars
  PROVE  Escape(c) \in Seq(Symbols) /\ Len(Escape(c)) \in {1, 2}
<1>1. CASE c \in {"\\", "\""}
  <2>1. Escape(c) = <<"\\", c>>
    BY <1>1 DEF Escape
  <2>2. "\\" \in Symbols /\ c \in Symbols
    BY DEF Symbols
  <2>. QED  BY <2>1, <2>2
<1>2. CASE c = "\n"
  BY <1>2 DEF Escape, Symbols
<1>3. CASE c = "\r"
  BY <1>3 DEF Escape, Symbols
<1>4. CASE c \notin {"\\", "\"", "\n", "\r"}
  <2>1. Escape(c) = <<c>>
    BY <1>4 DEF Escape
  <2>2. c \in Symbols
    BY DEF Symbols
  <2>. QED  BY <2>1, <2>2
<1>. QED  BY <1>1, <1>2, <1>3, <1>4

\* In the line of a payload at[j] characters stand for its first j.
LineAt(payload, l, at) ==
  LET J == Len(payload) IN
  /\ at \in [0..J -> Nat] /\ at[0] = 0 /\ Len(l) = at[J] + 4
  /\ \A j \in 1..J : /\ at[j] = at[j - 1] + Len(Escape(payload[j]))
                     /\ at[j] <= at[J]
  /\ l[1] = "{"
  /\ \A j \in 1..J : \A x \in 1..Len(Escape(payload[j])) :
       l[1 + at[j - 1] + x] = Escape(payload[j])[x]
  /\ l[at[J] + 2] = "\"" /\ l[at[J] + 3] = "}" /\ l[at[J] + 4] = "\n"

LEMMA LineShape ==
  ASSUME NEW payload \in Seq(Chars)
  PROVE  /\ JsonLine(payload) \in Seq(Symbols)
         /\ \E at : LineAt(payload, JsonLine(payload), at)
<1>. DEFINE J == Len(payload)
            escapes == [k \in DOMAIN payload |-> Escape(payload[k])]
            s == FlattenSeq(escapes)
            open == <<"{">>
            end == <<"\"", "}", "\n">>
            l == JsonLine(payload)
<1>1. J \in Nat /\ DOMAIN payload = 1..J /\ \A k \in 1..J : payload[k] \in Chars
  BY LenProperties, ElementOfSeq
<1>2. escapes \in Seq(Seq(Symbols)) /\ Len(escapes) = J
  <2>1. escapes = [k \in 1..J |-> Escape(payload[k])]
    BY <1>1
  <2>2. \A k \in 1..J : Escape(payload[k]) \in Seq(Symbols)
    BY <1>1, EscapeType
  <2>3. escapes \in [1..J -> Seq(Symbols)]
    BY <2>1, <2>2
  <2>. HIDE DEF escapes
  <2>. QED  BY <1>1, <2>3
<1>3. \A k \in 1..J : escapes[k] = Escape(payload[k])
  BY <1>1
<1>. HIDE DEF escapes, J
<1>4. s \in Seq(Symbols) /\ \E at : JoinedAt(escapes, J, s, at)
  BY <1>2, FlattenShape
<1>5. PICK at : JoinedAt(escapes, J, s, at)
  BY <1>4
<1>6. l = (open \o s) \o end
  BY DEF JsonLine, escapes
<1>. HIDE DEF s, l
<1>7. /\ open \in Seq(Symbols) /\ Len(open) = 1 /\ open[1] = "{"
      /\ end \in Seq(Symbols) /\ Len(end) = 3
      /\ end[1] = "\"" /\ end[2] = "}" /\ end[3] = "\n"
  BY DEF Symbols
<1>. HIDE DEF open, end
<1>8. /\ open \o s \in Seq(Symbols) /\ Len(open \o s) = 1 + Len(s)
      /\ \A i \in 1..1 + Len(s) : (open \o s)[i] = IF i <= 1 THEN open[i]
                                                  ELSE s[i - 1]
  <2>1. /\ open \o s \in Seq(Symbols) /\ Len(open \o s) = Len(open) + Len(s)
        /\ \A i \in 1..Len(open) + Len(s) :
             (open \o s)[i] = IF i <= Len(open) THEN open[i] ELSE s[i - Len(open)]
    BY <1>4, <1>7, ConcatProperties
  <2>. QED  BY <1>7, <2>1
<1>9. /\ l \in Seq(Symbols) /\ Len(l) = Len(s) + 4 /\ Len(s) \in Nat
      /\ \A i \in 1..1 + Len(s) : l[i] = (open \o s)[i]
      /\ \A i \in 1..3 : l[1 + Len(s) + i] = end[i]
  <2>. DEFINE front == open \o s
  <2>1. Len(s) \in Nat
    BY <1>4, LenProperties
  <2>2. front \in Seq(Symbols) /\ Len(front) = 1 + Len(s) /\ l = front \o end
    BY <1>6, <1>8
  <2>. HIDE DEF front
  <2>3. /\ l \in Seq(Symbols) /\ Len(l) = Len(front) + Len(end)
        /\ \A i \in 1..Len(front) + Len(end) :
             l[i] = IF i <= Len(front) THEN front[i] ELSE end[i - Len(front)]
    BY <1>7, <2>2, ConcatProperties
  <2>. DEFINE f == Len(front)
              e == Len(end)
  <2>a. e = 3 /\ f = 1 + Len(s) /\ f \in Nat
    <3>1. Len(end) = 3
      BY <1>7
    <3>2. Len(front) = 1 + Len(s)
      BY <2>2
    <3>. QED  BY <2>1, <3>1, <3>2
  <2>b. \A i \in 1..f + e : l[i] = IF i <= f THEN front[i] ELSE end[i - f]
    BY <2>3
  <2>. HIDE DEF f, e
  <2>4. \A i \in 1..1 + Len(s) : l[i] = front[i]
    BY <2>1, <2>a, <2>b
  <2>5. \A i \in 1..3 : l[1 + Len(s) + i] = end[i]
    <3>. TAKE i \in 1..3
    <3>. DEFINE h == 1 + Len(s) + i
    <3>1. h \in 1..f + e /\ ~(h <= f) /\ h - f = i
      BY <2>1, <2>a
    <3>. HIDE DEF h
    <3>2. l[h] = end[i]
      BY <2>b, <3>1
    <3>. QED  BY <3>2 DEF h
  <2>6. Len(l) = Len(s) + 4 /\ l \in Seq(Symbols)
    BY <2>1, <2>3, <2>a DEF f, e
  <2>. QED  BY <2>1, <2>4, <2>5, <2>6 DEF front
<1>10. /\ at \in [0..J -> Nat] /\ at[0] = 0 /\ Len(s) = at[J]
       /\ \A j \in 1..J : at[j] = at[j - 1] + Len(escapes[j]) /\ at[j] <= at[J]
       /\ \A j \in 1..J : \A x \in 1..Len(escapes[j]) : s[at[j - 1] + x] = escapes[j][x]
  BY <1>5 DEF JoinedAt
<1>11. l[1] = "{" /\ l[at[J] + 2] = "\"" /\ l[at[J] + 3] = "}" /\ l[at[J] + 4] = "\n"
  <2>1. l[1] = "{"
    <3>1. 1 \in 1..1 + Len(s) /\ 1 <= 1
      BY <1>9
    <3>. QED  BY <1>7, <1>8, <1>9, <3>1
  <2>2. /\ 1 + Len(s) + 1 = at[J] + 2 /\ 1 + Len(s) + 2 = at[J] + 3
        /\ 1 + Len(s) + 3 = at[J] + 4
    BY <1>9, <1>10
  <2>3. /\ l[1 + Len(s) + 1] = "\"" /\ l[1 + Len(s) + 2] = "}"
        /\ l[1 + Len(s) + 3] = "\n"
    <3>1. 1 \in 1..3 /\ 2 \in 1..3 /\ 3 \in 1..3
      OBVIOUS
    <3>. QED  BY <1>7, <1>9, <3>1
  <2>. QED  BY <2>1, <2>2, <2>3
<1>12. ASSUME NEW j \in 1..J, NEW x \in 1..Len(Escape(payload[j]))
       PROVE  l[1 + at[j - 1] + x] = Escape(payload[j])[x]
  <2>1. /\ Len(Escape(payload[j])) \in Nat /\ at[j - 1] \in Nat
        /\ at[j] = at[j - 1] + Len(Escape(payload[j])) /\ at[j] <= Len(s)
    <3>1. j - 1 \in 0..J /\ j \in 0..J
      BY <1>1
    <3>2. Len(Escape(payload[j])) \in {1, 2}
      BY <1>1, EscapeType
    <3>3. at[j - 1] \in Nat
      BY <1>10, <3>1
    <3>4. at[j] = at[j - 1] + Len(escapes[j]) /\ at[j] <= Len(s)
      BY <1>10
    <3>. QED  BY <1>3, <3>2, <3>3, <3>4
  <2>. DEFINE i == at[j - 1] + x
              e == Len(Escape(payload[j]))
              a == at[j - 1]
  <2>a. e \in Nat /\ a \in Nat /\ a + e <= Len(s) /\ x \in 1..e /\ i = a + x
    BY <2>1
  <2>. HIDE DEF e, a
  <2>2. /\ 1 + i \in 1..1 + Len(s) /\ ~(1 + i <= 1) /\ (1 + i) - 1 = i
        /\ 1 + at[j - 1] + x = 1 + i
    <3>1. Len(s) \in Nat
      BY <1>9
    <3>2. 1 + a + x = 1 + i /\ i \in Nat /\ 1 <= i /\ i <= Len(s)
      BY <2>a, <3>1
    <3>. QED  BY <3>1, <3>2 DEF a
  <2>3. s[i] = Escape(payload[j])[x]
    BY <1>3, <1>10
  <2>. HIDE DEF i
  <2>4. l[1 + i] = s[i]
    BY <1>8, <1>9, <2>2
  <2>. QED  BY <2>2, <2>3, <2>4
<1>13. LineAt(payload, l, at)
  <2>1. \A j \in 1..J : at[j] = at[j - 1] + Len(Escape(payload[j])) /\ at[j] <= at[J]
    BY <1>3, <1>10
  <2>. QED  BY <1>9, <1>10, <1>11, <1>12, <2>1 DEF LineAt, J
<1>. QED  BY <1>9, <1>13 DEF l
\* What Decoded() calls d: there is a function that meets its equation, since a
\* text is read from its end.
Readings(s) ==
  CHOOSE d : d = [k \in 1..Len(s) + 4 |->
                    Reading(s, k, d[k + 1], d[k + 2], d[k + 4])]

LEMMA ReadingsDef ==
  ASSUME NEW s, Len(s) \in Nat
  PROVE  Readings(s) = [k \in 1..Len(s) + 4 |->
           Reading(s, k, Readings(s)[k + 1], Readings(s)[k + 2], Readings(s)[k + 4])]
<1>. DEFINE n == Len(s) + 4
            Partial(m) == \E d : d = [k \in n - m + 1..n |->
                            Reading(s, k, d[k + 1], d[k + 2], d[k + 4])]
            T == {m \in 0..n : ~Partial(m)}
<1>1. Partial(0)
  <2>. DEFINE e == [k \in n - 0 + 1..n |-> {}]
  <2>1. n - 0 + 1..n = {}
    OBVIOUS
  <2>2. e = [k \in n - 0 + 1..n |-> Reading(s, k, e[k + 1], e[k + 2], e[k + 4])]
    BY <2>1
  <2>. QED  BY <2>2
<1>2. ASSUME NEW m \in 1..n, Partial(m - 1) PROVE Partial(m)
  <2>. DEFINE a == n - m + 1
  <2>1. a \in 1..n /\ n - (m - 1) + 1 = a + 1 /\ n \in Nat
    OBVIOUS
  <2>2. PICK g : g = [k \in a + 1..n |->
                        Reading(s, k, g[k + 1], g[k + 2], g[k + 4])]
    BY <1>2, <2>1
  <2>. HIDE DEF a
  <2>. DEFINE d == [k \in a..n |-> Reading(s, k, g[k + 1], g[k + 2], g[k + 4])]
  <2>3. \A k \in a + 1..n : g[k] = Reading(s, k, g[k + 1], g[k + 2], g[k + 4])
    BY <2>2, Zenon
  <2>4. \A k \in a..n : d[k] = Reading(s, k, g[k + 1], g[k + 2], g[k + 4])
    OBVIOUS
  <2>5. DOMAIN d = a..n /\ d = [k \in a..n |-> d[k]]
    OBVIOUS
  <2>. HIDE DEF d
  <2>6. \A h \in a + 1..n : d[h] = g[h]
    <3>1. \A h \in a + 1..n : h \in a..n
      BY <2>1
    <3>. QED  BY <2>3, <2>4, <3>1
  <2>7. ASSUME NEW k \in a..n
        PROVE  d[k] = Reading(s, k, d[k + 1], d[k + 2], d[k + 4])
    <3>1. CASE k > Len(s)
      <4>1. \A x, y, z : Reading(s, k, x, y, z) = {}
        BY <3>1 DEF Reading
      <4>. QED  BY <2>4, <4>1
    <3>2. CASE ~(k > Len(s))
      <4>1. k + 1 \in a + 1..n /\ k + 2 \in a + 1..n /\ k + 4 \in a + 1..n
        BY <2>1, <3>2
      <4>2. d[k + 1] = g[k + 1] /\ d[k + 2] = g[k + 2] /\ d[k + 4] = g[k + 4]
        BY <2>6, <4>1
      <4>. QED  BY <2>4, <4>2
    <3>. QED  BY <3>1, <3>2
  <2>8. d = [k \in a..n |-> Reading(s, k, d[k + 1], d[k + 2], d[k + 4])]
    BY <2>5, <2>7
  <2>. QED  BY <2>8 DEF a
<1>3. Partial(n)
  <2>. SUFFICES ASSUME ~Partial(n) PROVE FALSE
    OBVIOUS
  <2>. HIDE DEF Partial
  <2>1. T \in SUBSET Nat /\ T # {}
    OBVIOUS
  <2>2. PICK m \in T : \A k \in T : m <= k
    BY <2>1, LeastElement
  <2>3. m # 0 /\ m \in 1..n
    BY <1>1, <2>2
  <2>4. m - 1 \notin T /\ m - 1 \in 0..n
    BY <2>2, <2>3
  <2>. QED  BY <1>2, <2>2, <2>3, <2>4
<1>4. \E d : d = [k \in 1..n |-> Reading(s, k, d[k + 1], d[k + 2], d[k + 4])]
  <2>1. n - n + 1 = 1
    OBVIOUS
  <2>. QED  BY <1>3, <2>1
<1>. QED  BY <1>4, Zenon DEF Readings

LEMMA ReadingAt ==
  ASSUME NEW s, Len(s) \in Nat, NEW k \in 1..Len(s)
  PROVE  Readings(s)[k] = Reading(s, k, Readings(s)[k + 1], Readings(s)[k + 2],
                                  Readings(s)[k + 4])
<1>1. k \in 1..Len(s) + 4
  OBVIOUS
<1>. DEFINE d == Readings(s)
<1>2. d = [h \in 1..Len(s) + 4 |-> Reading(s, h, d[h + 1], d[h + 2], d[h + 4])]
  BY ReadingsDef
<1>. HIDE DEF d
<1>3. d[k] = Reading(s, k, d[k + 1], d[k + 2], d[k + 4])
  BY <1>1, <1>2, Zenon
<1>. QED  BY <1>3 DEF d

\* The reader refuses raw control characters, none of which JSON is made of.
LEMMA RefusedCharacters ==
  ASSUME NEW c
  PROVE  /\ c \in {"\\", "\"", "n", "r", "{", "}"} => c \notin Controls /\ c \notin Raw
         /\ c \in {"\n", "\r"} => c \notin Raw
         /\ c \in Raw => c \in Controls
         /\ c \notin {"\n", "\r"} /\ c \notin Raw => c \notin Controls
BY SinkAssumption DEF SinkAssumption, Raw

\* Escape() and the reader agree on every character but raw control characters.
LEMMA ReadsCharacter ==
  ASSUME NEW s, Len(s) \in Nat, NEW c, NEW k \in 1..Len(s),
         k + Len(Escape(c)) - 1 <= Len(s), Len(Escape(c)) \in {1, 2},
         \A x \in 1..Len(Escape(c)) : s[k + x - 1] = Escape(c)[x]
  PROVE  Readings(s)[k] = IF c \in Raw THEN {}
                          ELSE Prefixed(c, Readings(s)[k + Len(Escape(c))])
<1>. DEFINE one == Readings(s)[k + 1]
            two == Readings(s)[k + 2]
            four == Readings(s)[k + 4]
<1>1. Readings(s)[k] = Reading(s, k, one, two, four)
  BY ReadingAt
<1>. HIDE DEF one, two, four
<1>2. ASSUME NEW e, Escape(c) = <<"\\", e>>, e \in {"\\", "\"", "n", "r"},
             Unescaped[e] = c, c \notin Raw
      PROVE  Readings(s)[k] = IF c \in Raw THEN {}
                              ELSE Prefixed(c, Readings(s)[k + Len(Escape(c))])
  <2>1. Len(Escape(c)) = 2 /\ Escape(c)[1] = "\\" /\ Escape(c)[2] = e
    <3>. DEFINE p == <<"\\", e>>
    <3>1. Len(p) = 2 /\ p[1] = "\\" /\ p[2] = e
      OBVIOUS
    <3>. HIDE DEF p
    <3>2. Escape(c) = p
      BY <1>2 DEF p
    <3>. QED  BY <3>1, <3>2
  <2>2. s[k] = "\\" /\ s[k + 1] = e /\ k < Len(s)
    <3>1. 1 \in 1..2 /\ 2 \in 1..2 /\ k + 1 - 1 = k /\ k + 2 - 1 = k + 1
      OBVIOUS
    <3>. QED  BY <2>1, <3>1
  <2>3. e \in DOMAIN Unescaped
    BY <1>2 DEF Unescaped
  <2>4. Reading(s, k, one, two, four) = Prefixed(c, two)
    <3>0. "\\" \notin Controls
      BY RefusedCharacters
    <3>1. /\ ~(k > Len(s) \/ s[k] \in Controls) /\ s[k] = "\\"
          /\ k < Len(s) /\ s[k + 1] \in DOMAIN Unescaped
      BY <2>2, <2>3, <3>0
    <3>2. Reading(s, k, one, two, four) = Prefixed(Unescaped[s[k + 1]], two)
      BY <3>1 DEF Reading
    <3>. QED  BY <1>2, <2>2, <3>2
  <2>. QED  BY <1>1, <1>2, <2>1, <2>4 DEF two
<1>3. CASE c \in {"\\", "\""}
  <2>1. Escape(c) = <<"\\", c>>
    BY <1>3 DEF Escape
  <2>2. Unescaped[c] = c
    BY <1>3 DEF Unescaped
  <2>3. c \notin Raw
    BY <1>3, RefusedCharacters
  <2>. QED  BY <1>2, <1>3, <2>1, <2>2, <2>3
<1>4. CASE c = "\n"
  <2>1. Escape(c) = <<"\\", "n">>
    BY <1>4 DEF Escape
  <2>2. Unescaped["n"] = c
    BY <1>4 DEF Unescaped
  <2>3. c \notin Raw
    BY <1>4, RefusedCharacters
  <2>. QED  BY <1>2, <1>4, <2>1, <2>2, <2>3
<1>5. CASE c = "\r"
  <2>1. Escape(c) = <<"\\", "r">>
    BY <1>5 DEF Escape
  <2>2. Unescaped["r"] = c
    BY <1>5 DEF Unescaped
  <2>3. c \notin Raw
    BY <1>5, RefusedCharacters
  <2>. QED  BY <1>2, <1>5, <2>1, <2>2, <2>3
<1>6. CASE c \notin {"\\", "\"", "\n", "\r"}
  <2>1. Escape(c) = <<c>>
    BY <1>6 DEF Escape
  <2>2. Len(Escape(c)) = 1 /\ Escape(c)[1] = c
    BY <2>1
  <2>3. s[k] = c
    <3>1. 1 \in 1..1 /\ k + 1 - 1 = k
      OBVIOUS
    <3>. QED  BY <2>2, <3>1
  <2>4. CASE c \in Raw
    BY <1>1, <2>3, <2>4, RefusedCharacters DEF Reading
  <2>5. CASE c \notin Raw
    <3>1. Reading(s, k, one, two, four) = Prefixed(c, one)
      <4>1. s[k] \notin Controls /\ s[k] # "\\" /\ s[k] # "\""
        BY <1>6, <2>3, <2>5, RefusedCharacters
      <4>2. ~(k > Len(s))
        OBVIOUS
      <4>. QED  BY <2>3, <4>1, <4>2 DEF Reading
    <3>. QED  BY <1>1, <2>2, <2>5, <3>1 DEF one
  <2>. QED  BY <2>4, <2>5
<1>. QED  BY <1>3, <1>4, <1>5, <1>6

\* The end of a line: another one may follow.
EndsAt(s, k) ==
  /\ s[k] = "\"" /\ s[k + 1] = "}" /\ s[k + 2] = "\n"
  /\ k + 2 = Len(s) \/ s[k + 3] = "{"

Onward(s, k) == IF k + 2 = Len(s) THEN {<<>>} ELSE Readings(s)[k + 4]

LEMMA ReadsEnd ==
  ASSUME NEW s, Len(s) \in Nat, NEW k \in 1..Len(s), k + 2 <= Len(s),
         EndsAt(s, k)
  PROVE  Readings(s)[k] = {<<<<>>>> \o b : b \in Onward(s, k)}
<1>. DEFINE one == Readings(s)[k + 1]
            two == Readings(s)[k + 2]
            four == Readings(s)[k + 4]
<1>1. Readings(s)[k] = Reading(s, k, one, two, four)
  BY ReadingAt
<1>. HIDE DEF one, two, four
<1>2. /\ ~(k > Len(s) \/ s[k] \in Controls) /\ s[k] # "\\"
      /\ s[k] = "\"" /\ ~(k + 2 > Len(s) \/ s[k + 1] # "}" \/ s[k + 2] # "\n")
  <2>1. s[k] \notin Controls /\ s[k] # "\\" /\ s[k] = "\""
    BY RefusedCharacters DEF EndsAt
  <2>2. ~(k > Len(s)) /\ ~(k + 2 > Len(s))
    OBVIOUS
  <2>3. s[k + 1] = "}" /\ s[k + 2] = "\n"
    BY DEF EndsAt
  <2>. QED  BY <2>1, <2>2, <2>3
<1>3. Reading(s, k, one, two, four)
        = {<<<<>>>> \o b : b \in IF k + 2 = Len(s) THEN {<<>>}
                                 ELSE IF s[k + 3] = "{" THEN four ELSE {}}
  BY <1>2 DEF Reading
<1>4. CASE k + 2 = Len(s)
  BY <1>1, <1>3, <1>4 DEF Onward
<1>5. CASE k + 2 # Len(s)
  BY <1>1, <1>3, <1>5 DEF Onward, four, EndsAt
<1>. QED  BY <1>4, <1>5
\* The batches whose first payload is u and whose others are of R.
Opened(u, R) == {<<u>> \o r : r \in R}

LEMMA PrefixedLine ==
  ASSUME NEW C, NEW c \in C, NEW u \in Seq(C), NEW R \in SUBSET Seq(Seq(C))
  PROVE  Prefixed(c, Opened(u, R)) = Opened(<<c>> \o u, R)
<1>1. ASSUME NEW r \in R
      PROVE  [(<<u>> \o r) EXCEPT ![1] = <<c>> \o @] = <<<<c>> \o u>> \o r
  <2>. DEFINE one == <<u>>
              new == <<<<c>> \o u>>
              v == <<c>> \o u
  <2>1. v \in Seq(C)
    BY ConcatProperties
  <2>. HIDE DEF v
  <2>2. /\ one \in Seq(Seq(C)) /\ Len(one) = 1 /\ one[1] = u
        /\ <<v>> \in Seq(Seq(C)) /\ Len(<<v>>) = 1 /\ <<v>>[1] = v
    BY <2>1
  <2>. DEFINE w == <<v>>
              old == one \o r
              nw == w \o r
              ex == [old EXCEPT ![1] = v]
  <2>3. w \in Seq(Seq(C)) /\ Len(w) = 1 /\ w[1] = v
    BY <2>2
  <2>. HIDE DEF one, w
  <2>4. r \in Seq(Seq(C)) /\ Len(r) \in Nat
    BY LenProperties
  <2>5. /\ old \in Seq(Seq(C)) /\ Len(old) = Len(one) + Len(r)
        /\ \A i \in 1..Len(one) + Len(r) :
             old[i] = IF i <= Len(one) THEN one[i] ELSE r[i - Len(one)]
    BY <2>2, <2>4, ConcatProperties
  <2>6. /\ nw \in Seq(Seq(C)) /\ Len(nw) = Len(w) + Len(r)
        /\ \A i \in 1..Len(w) + Len(r) :
             nw[i] = IF i <= Len(w) THEN w[i] ELSE r[i - Len(w)]
    BY <2>3, <2>4, ConcatProperties
  <2>7. old[1] = u
    <3>1. 1 \in 1..Len(one) + Len(r) /\ 1 <= Len(one)
      BY <2>2, <2>4
    <3>. QED  BY <2>2, <2>5, <3>1
  <2>. HIDE DEF old, nw
  <2>8. /\ ex \in Seq(Seq(C)) /\ Len(ex) = Len(old)
        /\ \A i \in 1..Len(old) : ex[i] = IF i = 1 THEN v ELSE old[i]
    <3>1. 1 \in 1..Len(old)
      BY <2>2, <2>4, <2>5
    <3>. QED  BY <2>1, <2>5, <3>1, ExceptSeq
  <2>9. ex = nw
    <3>1. Len(ex) = 1 + Len(r) /\ Len(nw) = 1 + Len(r)
      BY <2>2, <2>3, <2>5, <2>6, <2>8
    <3>2. ASSUME NEW i \in 1..1 + Len(r) PROVE ex[i] = nw[i]
      <4>1. ex[i] = IF i = 1 THEN v ELSE old[i]
        BY <2>2, <2>5, <2>8
      <4>2. nw[i] = IF i <= 1 THEN w[i] ELSE r[i - 1]
        BY <2>3, <2>6
      <4>3. old[i] = IF i <= 1 THEN one[i] ELSE r[i - 1]
        BY <2>2, <2>5
      <4>. QED  BY <2>3, <2>4, <4>1, <4>2, <4>3
    <3>3. \A i \in 1..Len(ex) : ex[i] = nw[i]
      BY <3>1, <3>2
    <3>4. ex \in Seq(Seq(C)) /\ nw \in Seq(Seq(C)) /\ Len(ex) = Len(nw)
      BY <2>6, <2>8, <3>1
    <3>. HIDE DEF ex
    <3>. QED  BY <3>3, <3>4, SeqEqual
  <2>10. <<c>> \o old[1] = v
    BY <2>7 DEF v
  <2>11. [old EXCEPT ![1] = <<c>> \o @] = ex
    BY <2>10
  <2>. QED  BY <2>9, <2>11 DEF one, w, v, old, nw
<1>2. Prefixed(c, Opened(u, R))
        = {[(<<u>> \o r) EXCEPT ![1] = <<c>> \o @] : r \in R}
  BY DEF Prefixed, Opened
<1>3. Opened(<<c>> \o u, R) = {<<<<c>> \o u>> \o r : r \in R}
  BY DEF Opened
<1>. DEFINE F(r) == [(<<u>> \o r) EXCEPT ![1] = <<c>> \o @]
            G(r) == <<<<c>> \o u>> \o r
<1>4. \A r \in R : F(r) = G(r)
  BY <1>1
<1>. HIDE DEF F, G
<1>5. {F(r) : r \in R} = {G(r) : r \in R}
  BY <1>4
<1>. QED  BY <1>2, <1>3, <1>5, Zenon DEF F, G

\* s holds the line l from position p + 1 on, and goes on with another or ends.
HasLine(s, p, l) ==
  /\ p \in Nat /\ p + Len(l) <= Len(s)
  /\ \A x \in 1..Len(l) : s[p + x] = l[x]
  /\ p + Len(l) = Len(s) \/ s[p + Len(l) + 1] = "{"

\* What follows the line is read after the payload, if that has no tab.
Following(s, p, l) ==
  IF p + Len(l) = Len(s) THEN {<<>>} ELSE Readings(s)[p + Len(l) + 2]

LEMMA ReadsPayload ==
  ASSUME NEW payload \in Seq(Chars), NEW s \in Seq(Symbols), NEW p,
         NEW at, LineAt(payload, JsonLine(payload), at),
         HasLine(s, p, JsonLine(payload)),
         Following(s, p, JsonLine(payload)) \in SUBSET Seq(Seq(Chars))
  PROVE  Readings(s)[p + 2] =
           IF \A x \in 1..Len(payload) : payload[x] \notin Raw
           THEN Opened(payload, Following(s, p, JsonLine(payload))) ELSE {}
<1>. DEFINE J == Len(payload)
            l == JsonLine(payload)
            R == Following(s, p, l)
            d == Readings(s)
            left(j) == SubSeq(payload, j + 1, J)
            Plain(j) == \A x \in j + 1..J : payload[x] \notin Raw
            Good(j) == d[p + 2 + at[j]] = IF Plain(j)
                         THEN Opened(left(j), R) ELSE {}
            T == {m \in 0..J : ~Good(J - m)}
<1>1. /\ J \in Nat /\ Len(s) \in Nat /\ p \in Nat
      /\ \A j \in 1..J : payload[j] \in Chars
  BY LenProperties, ElementOfSeq DEF HasLine
<1>2. /\ at \in [0..J -> Nat] /\ at[0] = 0 /\ Len(l) = at[J] + 4
      /\ \A j \in 1..J : at[j] = at[j - 1] + Len(Escape(payload[j])) /\ at[j] <= at[J]
      /\ \A j \in 1..J : \A x \in 1..Len(Escape(payload[j])) :
           l[1 + at[j - 1] + x] = Escape(payload[j])[x]
      /\ l[at[J] + 2] = "\"" /\ l[at[J] + 3] = "}" /\ l[at[J] + 4] = "\n"
  BY DEF LineAt
<1>3. /\ p + Len(l) <= Len(s) /\ \A x \in 1..Len(l) : s[p + x] = l[x]
      /\ p + Len(l) = Len(s) \/ s[p + Len(l) + 1] = "{"
  BY DEF HasLine
<1>. DEFINE n == Len(s)
            w == Len(l)
<1>a. /\ n \in Nat /\ p \in Nat /\ J \in Nat /\ at[J] \in Nat
      /\ w = at[J] + 4 /\ p + w <= n
  <2>1. J \in 0..J
    BY <1>1
  <2>2. at[J] \in Nat /\ w = at[J] + 4
    BY <1>2, <2>1
  <2>. QED  BY <1>1, <1>3, <2>2
<1>. HIDE DEF J, l, d, n, w
<1>4. Good(J)
  <2>. DEFINE A == at[J]
  <2>a. /\ n \in Nat /\ p \in Nat /\ A \in Nat /\ w = A + 4 /\ p + w <= n
    BY <1>a
  <2>b. l[A + 2] = "\"" /\ l[A + 3] = "}" /\ l[A + 4] = "\n"
    BY <1>2
  <2>. HIDE DEF A
  <2>. DEFINE k == p + 2 + A
  <2>1. /\ A \in Nat /\ k \in 1..Len(s) /\ k + 2 <= Len(s)
        /\ k + 2 = p + Len(l) /\ k + 3 = p + Len(l) + 1 /\ k + 4 = p + Len(l) + 2
    <3>1. /\ k \in 1..n /\ k + 2 <= n
          /\ k + 2 = p + w /\ k + 3 = p + w + 1 /\ k + 4 = p + w + 2
      BY <2>a
    <3>. QED  BY <2>a, <3>1 DEF n, w
  <2>2. s[k] = "\"" /\ s[k + 1] = "}" /\ s[k + 2] = "\n"
    <3>1. /\ A + 2 \in 1..Len(l) /\ A + 3 \in 1..Len(l)
          /\ A + 4 \in 1..Len(l)
          /\ p + (A + 2) = k /\ p + (A + 3) = k + 1
          /\ p + (A + 4) = k + 2
      <4>1. A + 2 \in 1..w /\ A + 3 \in 1..w /\ A + 4 \in 1..w
        BY <2>a
      <4>2. /\ p + (A + 2) = k /\ p + (A + 3) = k + 1
            /\ p + (A + 4) = k + 2
        BY <2>a
      <4>. QED  BY <4>1, <4>2 DEF w
    <3>. HIDE DEF k
    <3>2. /\ s[p + (A + 2)] = l[A + 2] /\ s[p + (A + 3)] = l[A + 3]
          /\ s[p + (A + 4)] = l[A + 4]
      BY <1>3, <3>1
    <3>. QED  BY <2>b, <3>1, <3>2
  <2>. HIDE DEF k
  <2>3. EndsAt(s, k)
    BY <1>3, <2>1, <2>2 DEF EndsAt
  <2>4. d[k] = {<<<<>>>> \o b : b \in Onward(s, k)}
    BY <1>1, <2>1, <2>3, ReadsEnd DEF d
  <2>5. Onward(s, k) = R
    BY <2>1 DEF Onward, Following
  <2>6. Plain(J) /\ left(J) = <<>>
    <3>1. J + 1 \in Int /\ J \in Int /\ J < J + 1 /\ J + 1..J = {}
      BY <1>1
    <3>. QED  BY <3>1, SubSeqEmpty
  <2>. HIDE DEF Plain, left, R
  <2>7. d[k] = Opened(left(J), R)
    BY <2>4, <2>5, <2>6 DEF Opened
  <2>. QED  BY <2>6, <2>7 DEF k, A
<1>5. ASSUME NEW j \in 1..J, Good(j) PROVE Good(j - 1)
  <2>. DEFINE c == payload[j]
              e == Len(Escape(c))
              a == at[j - 1]
              k == p + 2 + a
  <2>1. c \in Chars /\ e \in {1, 2} /\ a \in Nat /\ at[j] = a + e /\ at[j] <= at[J]
        /\ at[J] \in Nat
    <3>1. j - 1 \in 0..J /\ j \in 0..J /\ J \in 0..J
      BY <1>1
    <3>2. c \in Chars
      BY <1>1
    <3>. QED  BY <1>2, <3>1, <3>2, EscapeType
  <2>2. \A x \in 1..e : l[1 + a + x] = Escape(c)[x]
    BY <1>2
  <2>. HIDE DEF c, e, a
  <2>3. k \in 1..Len(s) /\ k + e - 1 <= Len(s) /\ k + e = p + 2 + at[j]
    <3>1. k \in 1..n /\ k + e - 1 <= n /\ k + e = p + 2 + at[j]
      BY <1>a, <2>1
    <3>. QED  BY <3>1 DEF n
  <2>4. ASSUME NEW x \in 1..e PROVE s[k + x - 1] = Escape(c)[x]
    <3>1. 1 + a + x \in 1..Len(l) /\ p + (1 + a + x) = k + x - 1
      <4>1. 1 + a + x \in 1..w /\ p + (1 + a + x) = k + x - 1
        BY <1>a, <2>1
      <4>. QED  BY <4>1 DEF w
    <3>. HIDE DEF k
    <3>2. s[p + (1 + a + x)] = l[1 + a + x]
      BY <1>3, <3>1
    <3>. QED  BY <2>2, <3>1, <3>2
  <2>. HIDE DEF k
  <2>5. d[k] = IF c \in Raw THEN {} ELSE Prefixed(c, d[k + e])
    BY <1>1, <2>1, <2>3, <2>4, ReadsCharacter DEF d, e
  <2>6. Plain(j - 1) <=> c \notin Raw /\ Plain(j)
    <3>1. (j - 1) + 1..J = {j} \cup (j + 1..J)
      BY <1>1
    <3>. QED  BY <3>1 DEF c
  <2>7. left(j) \in Seq(Chars) /\ left(j - 1) = <<c>> \o left(j)
    <3>1. j \in 1..Len(payload) /\ Len(payload) \in j..Len(payload) /\ (j - 1) + 1 = j
      BY <1>1 DEF J
    <3>2. SubSeq(payload, j, J) = <<payload[j]>> \o SubSeq(payload, j + 1, J)
      BY <3>1, SubSeqRecursiveFirst DEF J
    <3>3. \A i \in j + 1..J : payload[i] \in Chars
      BY <1>1
    <3>4. SubSeq(payload, j + 1, J) \in Seq(Chars)
      BY <1>1, <3>3, SubSeqProperties
    <3>. QED  BY <3>1, <3>2, <3>4 DEF c
  <2>. HIDE DEF Plain, left, R
  <2>8. d[k + e] = IF Plain(j) THEN Opened(left(j), R) ELSE {}
    BY <1>5, <2>3
  <2>9. d[k] = IF Plain(j - 1) THEN Opened(left(j - 1), R) ELSE {}
    <3>1. R \in SUBSET Seq(Seq(Chars))
      BY DEF R, l
    <3>2. CASE c \in Raw
      BY <2>5, <2>6, <3>2
    <3>3. CASE c \notin Raw /\ ~Plain(j)
      <4>1. Prefixed(c, {}) = {}
        BY DEF Prefixed
      <4>. QED  BY <2>5, <2>6, <2>8, <3>3, <4>1
    <3>4. CASE c \notin Raw /\ Plain(j)
      <4>. DEFINE u == left(j)
      <4>0. u \in Seq(Chars)
        BY <2>7
      <4>. HIDE DEF u
      <4>1. Prefixed(c, Opened(u, R)) = Opened(<<c>> \o u, R)
        BY <2>1, <3>1, <4>0, PrefixedLine
      <4>2. d[k] = Prefixed(c, Opened(u, R))
        BY <2>5, <2>8, <3>4 DEF u
      <4>3. <<c>> \o u = left(j - 1)
        BY <2>7 DEF u
      <4>. QED  BY <2>6, <3>4, <4>1, <4>2, <4>3
    <3>. QED  BY <3>2, <3>3, <3>4
  <2>. QED  BY <2>9 DEF k, a
<1>6. Good(0)
  <2>. SUFFICES ASSUME ~Good(0) PROVE FALSE
    OBVIOUS
  <2>. HIDE DEF Good
  <2>1. T \in SUBSET Nat /\ T # {}
    <3>1. J \in T
      <4>1. J \in 0..J /\ J - J = 0
        BY <1>1
      <4>. QED  BY <4>1
    <3>2. T \subseteq Nat
      BY <1>1
    <3>. QED  BY <3>1, <3>2
  <2>2. PICK m \in T : \A k \in T : m <= k
    BY <2>1, LeastElement
  <2>3. m # 0
    <3>1. J - 0 = J
      BY <1>1
    <3>. QED  BY <1>4, <2>2, <3>1
  <2>4. m - 1 \in 0..J /\ m - 1 \notin T /\ J - (m - 1) \in 1..J
        /\ (J - (m - 1)) - 1 = J - m
    <3>1. m \in Nat /\ m <= J
      BY <1>1, <2>2
    <3>2. m - 1 \notin T
      BY <2>2, <3>1
    <3>. QED  BY <1>1, <2>3, <3>1, <3>2
  <2>5. Good(J - (m - 1))
    BY <2>4
  <2>6. Good((J - (m - 1)) - 1)
    BY <1>5, <2>4, <2>5
  <2>. QED  BY <2>2, <2>4, <2>6
<1>7. left(0) = payload /\ p + 2 + at[0] = p + 2 /\ 0 + 1..J = 1..J
  <2>1. p + 2 + at[0] = p + 2 /\ 0 + 1 = 1
    <3>1. p + 2 + 0 = p + 2 /\ 0 + 1 = 1
      BY <1>1
    <3>2. at[0] = 0
      BY <1>2
    <3>. QED  BY <3>1, <3>2
  <2>. QED  BY <2>1, SubSeqFull DEF J
<1>. QED  BY <1>6, <1>7 DEF J, l, d
\* What is posted reads as the batch, or not at all if a payload has a tab.
LEMMA BodyReads ==
  ASSUME NEW b \in Seq(Seq(Chars)), b # <<>>
  PROVE  Decoded(Ndjson(b)) = IF Escapable(b) THEN {b} ELSE {}
<1>. DEFINE n == Len(b)
            lines == [k \in DOMAIN b |-> JsonLine(b[k])]
            s == Ndjson(b)
            d == Readings(s)
            rest(i) == SubSeq(b, i, n)
            Plain(i) == \A x \in i..n : \A y \in 1..Len(b[x]) : b[x][y] \notin Raw
            Read(i) == IF Plain(i) THEN {rest(i)} ELSE {}
<1>1. /\ n \in Nat /\ n >= 1 /\ DOMAIN b = 1..n
      /\ \A i \in 1..n : b[i] \in Seq(Chars)
  BY LenProperties, ElementOfSeq, EmptySeq
<1>2. /\ lines \in Seq(Seq(Symbols)) /\ Len(lines) = n
      /\ \A i \in 1..n : lines[i] = JsonLine(b[i])
  <2>1. lines = [k \in 1..n |-> JsonLine(b[k])]
    BY <1>1
  <2>2. \A k \in 1..n : JsonLine(b[k]) \in Seq(Symbols)
    BY <1>1, LineShape
  <2>3. lines \in [1..n -> Seq(Symbols)]
    BY <2>1, <2>2
  <2>4. \A k \in 1..n : lines[k] = JsonLine(b[k])
    BY <2>1
  <2>. HIDE DEF lines, n
  <2>. QED  BY <1>1, <2>3, <2>4
<1>3. s = FlattenSeq(lines)
  BY DEF Ndjson
<1>. HIDE DEF lines, n, s
<1>4. s \in Seq(Symbols) /\ \E at : JoinedAt(lines, n, s, at)
  BY <1>2, <1>3, FlattenShape
<1>5. PICK at : JoinedAt(lines, n, s, at)
  BY <1>4
<1>6. /\ at \in [0..n -> Nat] /\ at[0] = 0 /\ Len(s) = at[n] /\ Len(s) \in Nat
      /\ \A i \in 1..n : at[i] = at[i - 1] + Len(lines[i]) /\ at[i] <= at[n]
      /\ \A i \in 1..n : \A x \in 1..Len(lines[i]) : s[at[i - 1] + x] = lines[i][x]
  BY <1>4, <1>5, LenProperties DEF JoinedAt
<1>7. ASSUME NEW i \in 1..n
      PROVE  Len(lines[i]) \in Nat /\ Len(lines[i]) >= 4 /\ lines[i][1] = "{"
  <2>1. \E c : LineAt(b[i], JsonLine(b[i]), c)
    BY <1>1, LineShape
  <2>2. PICK c : LineAt(b[i], lines[i], c)
    BY <1>2, <2>1
  <2>3. Len(b[i]) \in 0..Len(b[i])
    BY <1>1, LenProperties
  <2>4. /\ c \in [0..Len(b[i]) -> Nat] /\ Len(lines[i]) = c[Len(b[i])] + 4
        /\ lines[i][1] = "{"
    BY <2>2 DEF LineAt
  <2>5. c[Len(b[i])] \in Nat
    BY <2>3, <2>4
  <2>6. Len(lines[i]) = c[Len(b[i])] + 4
    BY <2>4
  <2>7. Len(lines[i]) \in Nat /\ Len(lines[i]) >= 4
    BY <2>5, <2>6
  <2>. QED  BY <2>4, <2>7
<1>8. ASSUME NEW i \in 1..n
      PROVE  /\ at[i - 1] \in Nat /\ at[i] \in Nat
             /\ at[i] = at[i - 1] + Len(lines[i]) /\ at[i] <= Len(s)
             /\ i # n => at[i] # Len(s) /\ s[at[i] + 1] = "{"
             /\ i = n => at[i] = Len(s)
  <2>1. i - 1 \in 0..n /\ i \in 0..n
    BY <1>1
  <2>2. ASSUME i # n PROVE at[i] # Len(s) /\ s[at[i] + 1] = "{"
    <3>. DEFINE h == i + 1
    <3>1. h \in 1..n /\ h - 1 = i
      BY <1>1, <2>2
    <3>. HIDE DEF h
    <3>2. at[h] = at[i] + Len(lines[h]) /\ at[h] <= Len(s)
      BY <1>6, <3>1
    <3>3. Len(lines[h]) \in Nat /\ Len(lines[h]) >= 4 /\ lines[h][1] = "{"
      BY <1>7, <3>1
    <3>4. 1 \in 1..Len(lines[h])
      <4>1. Len(lines[h]) \in Nat /\ Len(lines[h]) >= 4
        BY <3>3
      <4>. QED  BY <4>1
    <3>5. s[at[i] + 1] = "{"
      BY <1>6, <3>1, <3>3, <3>4
    <3>6. at[i] \in Nat
      BY <1>6, <2>1
    <3>7. at[i] # Len(s)
      <4>1. Len(lines[h]) \in Nat /\ Len(lines[h]) >= 4
        BY <3>3
      <4>. QED  BY <1>6, <3>2, <3>6, <4>1
    <3>. QED  BY <3>5, <3>7
  <2>3. at[i] = at[i - 1] + Len(lines[i]) /\ at[i] <= Len(s)
    BY <1>6
  <2>4. at[i - 1] \in Nat /\ at[i] \in Nat
    BY <1>6, <2>1
  <2>5. i = n => at[i] = Len(s)
    BY <1>6
  <2>. QED  BY <2>2, <2>3, <2>4, <2>5
<1>9. ASSUME NEW i \in 1..n, Following(s, at[i - 1], lines[i]) = Read(i + 1)
      PROVE  d[at[i - 1] + 2] = Read(i)
  <2>. DEFINE p == at[i - 1]
              l == lines[i]
              payload == b[i]
  <2>1. p \in Nat /\ p + Len(l) = at[i] /\ at[i] <= Len(s)
    BY <1>8
  <2>2. p + Len(l) = Len(s) \/ s[p + Len(l) + 1] = "{"
    BY <1>8, <2>1
  <2>3. \A x \in 1..Len(l) : s[p + x] = l[x]
    BY <1>6
  <2>. HIDE DEF p, l
  <2>4. HasLine(s, p, l)
    BY <2>1, <2>2, <2>3 DEF HasLine
  <2>5. l = JsonLine(payload) /\ payload \in Seq(Chars)
    BY <1>1, <1>2 DEF l
  <2>6. rest(i + 1) \in Seq(Seq(Chars)) /\ rest(i) = <<payload>> \o rest(i + 1)
    <3>1. \A x \in i + 1..n : b[x] \in Seq(Chars)
      BY <1>1
    <3>2. rest(i + 1) \in Seq(Seq(Chars))
      BY <1>1, <3>1, SubSeqProperties
    <3>3. i \in 1..Len(b) /\ n \in i..Len(b)
      BY <1>1 DEF n
    <3>4. rest(i) = <<payload>> \o rest(i + 1)
      BY <3>3, SubSeqRecursiveFirst
    <3>. QED  BY <3>2, <3>4
  <2>7. Plain(i) <=> (\A y \in 1..Len(payload) : payload[y] \notin Raw) /\ Plain(i + 1)
    <3>1. i..n = {i} \cup (i + 1..n)
      BY <1>1
    <3>. QED  BY <3>1
  <2>. HIDE DEF payload, Plain, rest
  <2>8. Following(s, p, l) \in SUBSET Seq(Seq(Chars))
    BY <1>9, <2>6 DEF p, l
  <2>9. PICK c : LineAt(payload, JsonLine(payload), c)
    BY <2>5, LineShape
  <2>10. d[p + 2] = IF \A y \in 1..Len(payload) : payload[y] \notin Raw
                    THEN Opened(payload, Following(s, p, l)) ELSE {}
    BY <1>4, <2>4, <2>5, <2>8, <2>9, ReadsPayload
  <2>11. Following(s, p, l) = IF Plain(i + 1) THEN {rest(i + 1)} ELSE {}
    BY <1>9 DEF p, l
  <2>12. /\ Opened(payload, {rest(i + 1)}) = {<<payload>> \o rest(i + 1)}
         /\ Opened(payload, {}) = {}
    BY DEF Opened
  <2>13. d[p + 2] = IF Plain(i) THEN {rest(i)} ELSE {}
    <3>. DEFINE Clean == \A y \in 1..Len(payload) : payload[y] \notin Raw
    <3>. HIDE DEF Clean
    <3>1. d[p + 2] = IF Clean THEN Opened(payload, Following(s, p, l)) ELSE {}
      BY <2>10 DEF Clean
    <3>2. Plain(i) <=> Clean /\ Plain(i + 1)
      BY <2>7 DEF Clean
    <3>3. CASE Plain(i)
      BY <2>6, <2>11, <2>12, <3>1, <3>2, <3>3
    <3>4. CASE ~Clean
      BY <3>1, <3>2, <3>4
    <3>5. CASE Clean /\ ~Plain(i + 1)
      BY <2>11, <2>12, <3>1, <3>2, <3>5
    <3>. QED  BY <3>2, <3>3, <3>4, <3>5
  <2>. QED  BY <2>13 DEF p
<1>10. Following(s, at[n - 1], lines[n]) = Read(n + 1)
  <2>1. n \in 1..n /\ n + 1..n = {}
    BY <1>1
  <2>2. at[n - 1] + Len(lines[n]) = Len(s)
    BY <1>8, <2>1
  <2>3. rest(n + 1) = <<>>
    <3>1. n + 1 \in Int /\ n \in Int /\ n < n + 1
      BY <1>1
    <3>. QED  BY <3>1, SubSeqEmpty
  <2>4. Plain(n + 1)
    BY <2>1
  <2>. HIDE DEF Plain, rest
  <2>. QED  BY <2>2, <2>3, <2>4 DEF Following
<1>. DEFINE Good(i) == d[at[i - 1] + 2] = Read(i)
            T == {m \in 0..n - 1 : ~Good(n - m)}
<1>11. ASSUME NEW i \in 1..n - 1, Good(i + 1) PROVE Good(i)
  <2>1. i \in 1..n /\ i # n /\ (i + 1) - 1 = i
    BY <1>1
  <2>2. at[i - 1] + Len(lines[i]) = at[i] /\ at[i] # Len(s)
    BY <1>8, <2>1
  <2>. HIDE DEF Read
  <2>3. Following(s, at[i - 1], lines[i]) = Read(i + 1)
    BY <1>11, <2>1, <2>2 DEF Following
  <2>. QED  BY <1>9, <2>1, <2>3
<1>12. Good(n)
  <2>1. n \in 1..n
    BY <1>1
  <2>. HIDE DEF Read
  <2>. QED  BY <1>9, <1>10, <2>1
<1>13. Good(1)
  <2>. SUFFICES ASSUME ~Good(1) PROVE FALSE
    OBVIOUS
  <2>. HIDE DEF Good
  <2>1. T \in SUBSET Nat /\ T # {}
    <3>1. n - 1 \in T
      <4>1. n - 1 \in 0..n - 1 /\ n - (n - 1) = 1
        BY <1>1
      <4>. QED  BY <4>1
    <3>2. T \subseteq Nat
      BY <1>1
    <3>. QED  BY <3>1, <3>2
  <2>2. PICK m \in T : \A k \in T : m <= k
    BY <2>1, LeastElement
  <2>3. m # 0
    <3>1. n - 0 = n
      BY <1>1
    <3>. QED  BY <1>12, <2>2, <3>1
  <2>4. m - 1 \in 0..n - 1 /\ m - 1 \notin T /\ n - m \in 1..n - 1
        /\ (n - m) + 1 = n - (m - 1)
    <3>1. m \in Nat /\ m <= n - 1
      BY <1>1, <2>2
    <3>2. m - 1 \notin T
      BY <2>2, <3>1
    <3>. QED  BY <1>1, <2>3, <3>1, <3>2
  <2>5. Good((n - m) + 1)
    BY <2>4
  <2>6. Good(n - m)
    BY <1>11, <2>4, <2>5
  <2>. QED  BY <2>2, <2>6
<1>14. s # <<>> /\ s[1] = "{"
  <2>1. 1 \in 1..n /\ 1 - 1 = 0
    BY <1>1
  <2>2. Len(lines[1]) \in Nat /\ Len(lines[1]) >= 4
    BY <1>7, <2>1
  <2>3. at[1] = Len(lines[1]) /\ at[1] <= Len(s)
    <3>1. at[1] = at[1 - 1] + Len(lines[1]) /\ at[1] <= Len(s)
      BY <1>8, <2>1
    <3>2. at[1 - 1] = 0
      BY <1>6, <2>1
    <3>. QED  BY <2>2, <3>1, <3>2
  <2>4. 1 \in 1..Len(lines[1]) /\ Len(s) # 0
    <3>1. Len(s) \in Nat
      BY <1>6
    <3>. QED  BY <2>2, <2>3, <3>1
  <2>5. s[at[1 - 1] + 1] = lines[1][1]
    BY <1>6, <2>1, <2>4
  <2>6. at[1 - 1] + 1 = 1
    <3>1. at[1 - 1] = 0
      BY <1>6, <2>1
    <3>. QED  BY <3>1
  <2>7. lines[1][1] = "{"
    BY <1>7, <2>1
  <2>8. s # <<>>
    <3>1. Len(<<>>) = 0
      BY EmptySeq
    <3>. QED  BY <2>4, <3>1
  <2>. QED  BY <2>5, <2>6, <2>7, <2>8
<1>15. d[2] = IF Escapable(b) THEN {b} ELSE {}
  <2>1. d[2] = Read(1)
    <3>1. 1 - 1 = 0 /\ 0 + 2 = 2
      OBVIOUS
    <3>. QED  BY <1>6, <1>13, <3>1
  <2>2. rest(1) = b
    BY SubSeqFull DEF n
  <2>3. Plain(1) <=> Escapable(b)
    <3>1. \A x \in 1..n : DOMAIN b[x] = 1..Len(b[x])
      BY <1>1, LenProperties
    <3>. QED  BY <1>1, <3>1 DEF Escapable
  <2>. HIDE DEF Plain, rest
  <2>. QED  BY <2>1, <2>2, <2>3
<1>16. Decoded(s) = d[2]
  BY <1>14, Zenon DEF Decoded, Readings
<1>. QED  BY <1>15, <1>16 DEF s
------------------------------------------------------------------------------
\* What a request under way posts, and what the backend has read, is the batch.
SinkInv ==
  /\ result \in Results /\ batch \in Batches \cup {None}
  /\ body # None => batch \in Batches /\ body = Ndjson(batch)
  /\ took # None => took = batch
  /\ OkMeansTaken

LEMMA StartSendKeeps ==
  ASSUME SinkInv, NEW b \in Batches, StartSend(b), NoneNotSent PROVE SinkInv'
<1>1. batch' = b /\ took' = None /\ body = None
  BY DEF StartSend
<1>2. CASE urlGiven /\ handle
  <2>1. body' = Ndjson(b) /\ result' = result /\ body' # None
    BY <1>2 DEF StartSend, NoneNotSent
  <2>. QED  BY <1>1, <2>1 DEF SinkInv, OkMeansTaken
<1>3. CASE ~(urlGiven /\ handle)
  <2>1. result' = Failure /\ body' = body
    BY <1>3 DEF StartSend
  <2>2. result' \in Results /\ ~(result'.ok \/ result'.commits)
    BY <2>1 DEF Failure, Results
  <2>. QED  BY <1>1, <2>1, <2>2 DEF SinkInv, OkMeansTaken
<1>. QED  BY <1>2, <1>3

LEMMA TransferKeeps ==
  ASSUME SinkInv, Take \/ Answer \/ TransferFails, SinkAssumption
  PROVE  SinkInv'
<1>1. CASE Take
  <2>1. PICK b \in Decoded(body) : took' = b
    BY <1>1 DEF Take
  <2>2. /\ body # None /\ batch \in Batches /\ body = Ndjson(batch)
        /\ UNCHANGED <<batch, body, result>>
    BY <1>1 DEF Take, SinkInv
  <2>3. batch \in Seq(Seq(Chars)) /\ batch # <<>>
    BY <2>2 DEF SinkAssumption
  <2>4. Decoded(body) = IF Escapable(batch) THEN {batch} ELSE {}
    BY <2>2, <2>3, BodyReads
  <2>5. took' = batch
    BY <2>1, <2>4
  <2>. QED  BY <2>2, <2>5 DEF SinkInv, OkMeansTaken
<1>2. CASE Answer
  <2>1. PICK status \in {"2xx", "other"} :
          /\ body # None
          /\ status = "2xx" => took # None
          /\ Return(Answered(status))
    BY <1>2 DEF Answer
  <2>2. /\ result' = Answered(status) /\ body' = None
        /\ UNCHANGED <<batch, took>>
    BY <2>1 DEF Return
  <2>3. result' \in Results /\ (result'.ok \/ result'.commits => status = "2xx")
    BY <2>2, SinkAssumption DEF Answered, Results, SinkAssumption
  <2>4. took # None => took = batch
    BY DEF SinkInv
  <2>5. result'.ok \/ result'.commits => took' = batch'
    BY <2>1, <2>2, <2>3, <2>4
  <2>6. batch \in Batches \cup {None}
    BY DEF SinkInv
  <2>. QED  BY <2>2, <2>3, <2>4, <2>5, <2>6 DEF SinkInv, OkMeansTaken
<1>3. CASE TransferFails
  <2>1. result' = Failure /\ body' = None /\ UNCHANGED <<batch, took>>
    BY <1>3 DEF TransferFails, Return
  <2>2. result' \in Results /\ ~(result'.ok \/ result'.commits)
    BY <2>1 DEF Failure, Results
  <2>. QED  BY <2>1, <2>2 DEF SinkInv, OkMeansTaken
<1>. QED  BY <1>1, <1>2, <1>3

LEMMA SinkStep ==
  ASSUME SinkInv, [Next]_vars, SinkAssumption, NoneNotSent PROVE SinkInv'
<1>1. CASE UNCHANGED <<batch, body, took, result>>
  BY <1>1 DEF SinkInv, OkMeansTaken
<1>2. ASSUME NEW b \in Batches, SendBatch(b) PROVE SinkInv'
  BY <1>2, StartSendKeeps DEF SendBatch
<1>3. CASE Transfer
  BY <1>3, TransferKeeps DEF Transfer
<1>4. CASE GiveUp
  BY <1>4, TransferKeeps DEF GiveUp, TimesOut
<1>5. CASE \/ Configure \/ ConstructAgent \/ TestConnection \/ CheckRunning
           \/ EndTick \/ Sleep \/ EndShutdown \/ Signal \/ UNCHANGED vars
  BY <1>1, <1>5 DEF Configure, ConstructAgent, Construct, TestConnection,
     CheckRunning, EndTick, Sleep, EndShutdown, Signal, vars, sinkVars
<1>. QED  BY <1>2, <1>3, <1>4, <1>5 DEF Next, Thread

LEMMA SinkHolds == Spec => []SinkInv
<1>1. Init => SinkInv
  BY DEF Init, SinkInit, SinkInv, OkMeansTaken, Failure, Results
<1>. QED  BY <1>1, SinkStep, SinkAssumption, NoneNotSent, PTL DEF Spec

\* HttpNdjsonSink.hpp:38 "Each record becomes one JSON line": for all characters
\* and batches, what is posted reads as exactly the batch, if its payloads have no
\* other control characters than line ends, and otherwise as no batch at all.
THEOREM PostedAsJsonLines == Spec => []JsonLines
<1>1. SinkInv => JsonLines
  <2>. SUFFICES ASSUME SinkInv, body # None
               PROVE  Decoded(body) = IF Escapable(batch) THEN {batch} ELSE {}
    BY DEF JsonLines
  <2>1. batch \in Batches /\ body = Ndjson(batch)
    BY DEF SinkInv
  <2>2. batch \in Seq(Seq(Chars)) /\ batch # <<>>
    BY <2>1, SinkAssumption DEF SinkAssumption
  <2>. QED  BY <2>1, <2>2, BodyReads
<1>. QED  BY <1>1, SinkHolds, PTL

\* README:46 "only after backend ACK": whatever the backend answers, and whenever,
\* a send that returns ok, or confirms an offset, was of a batch that the backend
\* read, whole and from this very request.
THEOREM AcknowledgedIsTaken == Spec => []OkMeansTaken
<1>1. SinkInv => OkMeansTaken
  BY DEF SinkInv
<1>. QED  BY <1>1, SinkHolds, PTL
------------------------------------------------------------------------------
\* The types.  A set of positions in a line has no more elements than the line.
LEMMA CountWithin ==
  ASSUME NEW C, NEW l \in Seq(C), NEW X \in SUBSET DOMAIN l
  PROVE  Cardinality(X) \in 0..Len(l)
<1>1. DOMAIN l = 1..Len(l) /\ Len(l) \in Nat
  BY LenProperties
<1>2. IsFiniteSet(1..Len(l)) /\ Cardinality(1..Len(l)) = Len(l)
  <2>. DEFINE n == Len(l)
  <2>1. n \in Nat
    BY <1>1
  <2>. HIDE DEF n
  <2>2. IsFiniteSet(1..n) /\ Cardinality(1..n) = n
    BY <2>1, FS_Interval
  <2>. QED  BY <2>2 DEF n
<1>3. Cardinality(X) <= Len(l) /\ IsFiniteSet(X)
  BY <1>1, <1>2, FS_Subset
<1>4. Cardinality(X) \in Nat
  BY <1>3, FS_CardinalityType
<1>. QED  BY <1>1, <1>3, <1>4

\* A part of a line is a sequence of tokens.
LEMMA PartType ==
  ASSUME NEW C, NEW l \in Seq(C), NEW m \in Nat, m >= 1, NEW n \in Int, n <= Len(l)
  PROVE  SubSeq(l, m, n) \in Seq(C)
<1>1. \A i \in m..n : i \in 1..Len(l)
  BY LenProperties
<1>2. \A i \in m..n : l[i] \in C
  BY <1>1, ElementOfSeq
<1>. QED  BY <1>2, SubSeqProperties

LEMMA ScanTypes ==
  ASSUME NEW l \in Seq(Tokens), NEW t
  PROVE  /\ Before(l, t) \in Seq(Tokens) /\ After(l, t) \in Seq(Tokens)
         /\ Trim(l) \in Seq(Tokens) /\ StripQuotes(l) \in Seq(Tokens)
<1>1. Len(l) \in Nat
  BY LenProperties
<1>2. Before(l, t) \in Seq(Tokens)
  <2>. DEFINE X == {k \in DOMAIN l : \A j \in 1..k : l[j] # t}
  <2>1. Cardinality(X) \in 0..Len(l)
    BY CountWithin
  <2>. HIDE DEF X
  <2>2. SubSeq(l, 1, Cardinality(X)) \in Seq(Tokens)
    <3>1. Cardinality(X) \in Int /\ Cardinality(X) <= Len(l)
      BY <1>1, <2>1
    <3>. QED  BY <3>1, PartType
  <2>. QED  BY <2>2 DEF Before, X
<1>3. After(l, t) \in Seq(Tokens)
  <2>1. Len(Before(l, t)) + 2 \in Nat /\ Len(Before(l, t)) + 2 >= 1
    BY <1>2, LenProperties
  <2>2. Len(l) \in Int /\ Len(l) <= Len(l)
    BY <1>1
  <2>. QED  BY <2>1, <2>2, PartType DEF After
<1>4. Trim(l) \in Seq(Tokens)
  <2>. DEFINE lead  == {k \in DOMAIN l : \A j \in 1..k : l[j] = " "}
              trail == {k \in DOMAIN l : \A j \in k..Len(l) : l[j] = " "}
              m == Cardinality(lead) + 1
              n == Len(l) - Cardinality(trail)
  <2>1. Cardinality(lead) \in 0..Len(l) /\ Cardinality(trail) \in 0..Len(l)
    BY CountWithin
  <2>2. Trim(l) = SubSeq(l, m, n)
    BY DEF Trim
  <2>. HIDE DEF lead, trail
  <2>3. m \in Nat /\ m >= 1 /\ n \in Int /\ n <= Len(l)
    BY <1>1, <2>1
  <2>. HIDE DEF m, n
  <2>. QED  BY <2>2, <2>3, PartType
<1>5. StripQuotes(l) \in Seq(Tokens)
  <2>1. SubSeq(l, 2, Len(l) - 1) \in Seq(Tokens)
    <3>1. Len(l) - 1 \in Int /\ Len(l) - 1 <= Len(l) /\ 2 \in Nat /\ 2 >= 1
      BY <1>1
    <3>. QED  BY <3>1, PartType
  <2>. QED  BY <2>1 DEF StripQuotes
<1>. QED  BY <1>2, <1>3, <1>4, <1>5

LEMMA ValueType == ASSUME NEW l \in Seq(Tokens) PROVE Value(l) \in Seq(Tokens)
<1>1. Content(l) \in Seq(Tokens)
  BY ScanTypes DEF Content
<1>2. Trim(After(Content(l), ":")) \in Seq(Tokens)
  BY <1>1, ScanTypes
<1>. QED  BY <1>2, ScanTypes DEF Value

\* What a cast leaves fits the member.
LEMMA NarrowType == ASSUME ConfigAssumption, NEW n \in Int PROVE Narrow(n) \in UInt32
<1>. DEFINE word == 2^WordBits
<1>1. WordBits \in Nat
  BY DEF ConfigAssumption
<1>2. word \in Nat /\ word # 0
  <2>1. IsFiniteSet(1..WordBits) /\ Cardinality(1..WordBits) = WordBits
    BY <1>1, FS_Interval
  <2>2. /\ IsFiniteSet(SUBSET (1..WordBits))
        /\ Cardinality(SUBSET (1..WordBits)) = word
    BY <2>1, FS_SUBSET
  <2>3. {} \in SUBSET (1..WordBits)
    OBVIOUS
  <2>. HIDE DEF word
  <2>. QED  BY <2>2, <2>3, FS_CardinalityType, FS_EmptySet
<1>. HIDE DEF word
<1>3. n % word \in 0..word - 1
  BY <1>2
<1>. QED  BY <1>3 DEF Narrow, UInt32, word

LEMMA SettingsApart ==
  /\ TextSettings \subseteq Settings /\ "timeout_ms" \in NumericSettings
  /\ NumericSettings \subseteq Settings /\ TextSettings \cap NumericSettings = {}
BY DEF TextSettings, NumericSettings, Settings, KeysOf

LEMMA LoaderTypes ==
  ASSUME ConfigAssumption, LoaderTypeOK, Load PROVE LoaderTypeOK'
<1>1. ASSUME NEW l \in Lines, ReadLine(l) PROVE LoaderTypeOK'
  <2>1. /\ text' = Append(text, l) /\ loading' = loading /\ ~Refused(l)
        /\ cfg' = [s \in Settings |-> IF Sets(l, s) THEN Meaning(s, Value(l))
                                                   ELSE cfg[s]]
    BY <1>1 DEF ReadLine
  <2>2. Value(l) \in Seq(Tokens)
    BY ValueType DEF ConfigAssumption
  <2>3. ASSUME NEW s \in TextSettings PROVE cfg'[s] \in Seq(Tokens)
    <3>1. cfg'[s] = IF Sets(l, s) THEN Meaning(s, Value(l)) ELSE cfg[s]
      BY <2>1, SettingsApart
    <3>2. Meaning(s, Value(l)) = Value(l) /\ cfg[s] \in Seq(Tokens)
      BY DEF Meaning, LoaderTypeOK, ConfigType
    <3>. QED  BY <2>2, <3>1, <3>2
  <2>4. ASSUME NEW s \in NumericSettings PROVE cfg'[s] \in UInt32
    <3>1. cfg'[s] = IF Sets(l, s) THEN Meaning(s, Value(l)) ELSE cfg[s]
      BY <2>1, SettingsApart
    <3>2. cfg[s] \in UInt32
      BY DEF LoaderTypeOK, ConfigType
    <3>3. CASE Sets(l, s)
      <4>1. Readable(Value(l))
        BY <2>1, <3>3 DEF Refused
      <4>2. NumberOf[Digits(Value(l))] \in Int
        BY <4>1 DEF Readable, ConfigAssumption
      <4>3. Meaning(s, Value(l)) = Narrow(NumberOf[Digits(Value(l))])
        BY SettingsApart DEF Meaning
      <4>. QED  BY <3>1, <3>3, <4>2, <4>3, NarrowType
    <3>. QED  BY <3>1, <3>2, <3>3
  <2>5. DOMAIN cfg' = Settings
    BY <2>1
  <2>6. text' \in Seq(Lines)
    BY <2>1 DEF LoaderTypeOK
  <2>. QED  BY <2>1, <2>3, <2>4, <2>5, <2>6 DEF LoaderTypeOK, ConfigType
<1>2. ASSUME NEW l \in Lines, RefuseLine(l) PROVE LoaderTypeOK'
  BY <1>2 DEF RefuseLine, LoaderTypeOK, ConfigType
<1>3. CASE OpenFails
  BY <1>3 DEF OpenFails, LoaderTypeOK, ConfigType
<1>4. CASE EndOfFile
  BY <1>4 DEF EndOfFile, LoaderTypeOK, ConfigType
<1>. QED  BY <1>1, <1>2, <1>3, <1>4 DEF Load
LEMMA ProcessTypes ==
  ASSUME ConfigAssumption, ProcessAssumption, NoneNotSent, TypeOK, SinkInv',
         [Next]_vars
  PROVE  TypeOK'
<1>. DEFINE Place == pc \in {"config", "agent", "connect", "loop", "tick", "sleep",
                            "shutdown", "exited", "failed"}
<1>1. \A n \in Int : Signed(n) \in Int
  <2>1. 2^WordBits \in Nat
    BY WordType DEF ConfigAssumption
  <2>. DEFINE word == 2^WordBits
  <2>. HIDE DEF word
  <2>2. \A n \in Int : n - word \in Int
    BY <2>1 DEF word
  <2>. QED  BY <2>2 DEF Signed, word
<1>2. cfg.timeout_ms \in Int
  <2>1. cfg["timeout_ms"] \in UInt32
    BY SettingsApart DEF TypeOK, LoaderTypeOK, ConfigType
  <2>2. UInt32 \subseteq Int
    <3>. DEFINE word == 2^WordBits
    <3>1. word \in Nat
      BY WordType DEF ConfigAssumption
    <3>. HIDE DEF word
    <3>2. 0..word - 1 \subseteq Int
      BY <3>1
    <3>. QED  BY <3>2 DEF UInt32, word
  <2>. QED  BY <2>1, <2>2
<1>3. batch' \in Batches \cup {None} /\ (body' = None \/ batch' # None)
      /\ result' \in Results
  BY DEF SinkInv, NoneNotSent
<1>4. LoaderTypeOK'
  <2>1. CASE Configure
    BY <2>1, LoaderTypes DEF Configure, TypeOK
  <2>2. CASE UNCHANGED loaderVars
    BY <2>2 DEF loaderVars, TypeOK, LoaderTypeOK, ConfigType
  <2>3. UNCHANGED vars => UNCHANGED loaderVars
    BY DEF vars
  <2>4. Next => Configure \/ UNCHANGED loaderVars
    BY DEF Next, Thread, ConstructAgent, TestConnection, CheckRunning, EndTick,
           Sleep, EndShutdown, SendBatch, Transfer, GiveUp, Signal
  <2>. QED  BY <2>1, <2>2, <2>3, <2>4
<1>5. urlGiven' \in BOOLEAN /\ timeoutMs' \in Int /\ handle' \in BOOLEAN
      /\ limited' \in BOOLEAN
  <2>. DEFINE Q == /\ urlGiven' \in BOOLEAN /\ timeoutMs' \in Int
                  /\ handle' \in BOOLEAN /\ limited' \in BOOLEAN
  <2>1. /\ urlGiven \in BOOLEAN /\ timeoutMs \in Int /\ handle \in BOOLEAN
        /\ limited \in BOOLEAN
    BY DEF TypeOK, SinkTypeOK
  <2>2. CASE ConstructAgent
    BY <1>1, <1>2, <2>1, <2>2 DEF ConstructAgent, Construct
  <2>3. ASSUME NEW b \in Batches, SendBatch(b) PROVE Q
    <3>1. Limits \subseteq BOOLEAN
      BY <2>1 DEF Limits
    <3>. QED  BY <2>1, <2>3, <3>1 DEF SendBatch, StartSend
  <2>4. CASE Transfer
    BY <2>1, <2>4 DEF Transfer, Take, Answer, TransferFails, Return
  <2>5. CASE GiveUp
    BY <2>1, <2>5 DEF GiveUp, TimesOut, TransferFails, Return
  <2>6. CASE UNCHANGED sinkVars
    BY <2>1, <2>6 DEF sinkVars
  <2>7. UNCHANGED vars => UNCHANGED sinkVars
    BY DEF vars
  <2>8. Configure \/ TestConnection \/ CheckRunning \/ EndTick \/ Sleep
          \/ EndShutdown \/ Signal => UNCHANGED sinkVars
    BY DEF Configure, TestConnection, CheckRunning, EndTick, Sleep, EndShutdown,
           Signal
  <2>. HIDE DEF Q
  <2>9. Q
    BY <2>2, <2>3, <2>4, <2>5, <2>6, <2>7, <2>8 DEF Q, Next, Thread
  <2>. QED  BY <2>9 DEF Q
<1>6. Place'
  BY DEF TypeOK, Next, Thread, Configure, ConstructAgent, TestConnection,
     CheckRunning, EndTick, Sleep, EndShutdown, SendBatch, Transfer, GiveUp,
     Signal, vars
<1>7. running' \in BOOLEAN
  BY DEF TypeOK, Next, Thread, Configure, ConstructAgent, TestConnection,
     CheckRunning, EndTick, Sleep, EndShutdown, SendBatch, Transfer, GiveUp,
     Signal, vars
<1>8. sends' \in 0..MaxSends
  <2>1. sends \in 0..MaxSends /\ MaxSends \in Nat \ {0}
    BY DEF TypeOK, ProcessAssumption
  <2>2. ASSUME NEW b \in Batches, SendBatch(b) PROVE sends' \in 0..MaxSends
    <3>1. sends' = sends + 1 /\ (sends < MaxSends \/ sends < 1)
      BY <2>2 DEF SendBatch
    <3>. QED  BY <2>1, <3>1
  <2>3. CASE CheckRunning
    BY <2>1, <2>3 DEF CheckRunning
  <2>4. CASE UNCHANGED sends
    BY <2>1, <2>4
  <2>5. UNCHANGED vars => UNCHANGED sends
    BY DEF vars
  <2>6. Configure \/ ConstructAgent \/ TestConnection \/ EndTick \/ Sleep
          \/ EndShutdown \/ Transfer \/ GiveUp \/ Signal => UNCHANGED sends
    BY DEF Configure, ConstructAgent, TestConnection, EndTick, Sleep, EndShutdown,
           Transfer, GiveUp, Signal
  <2>. QED  BY <2>2, <2>3, <2>4, <2>5, <2>6 DEF Next, Thread
<1>. QED  BY <1>3, <1>4, <1>5, <1>6, <1>7, <1>8 DEF TypeOK, SinkTypeOK

\* The process keeps its types, whatever its configuration says and whatever the
\* widths of the integers.
THEOREM TypeCorrect == Spec => []TypeOK
<1>1. Init => TypeOK
  <2>. SUFFICES ASSUME Init PROVE TypeOK
    OBVIOUS
  <2>1. LoaderTypeOK
    <3>1. text \in Seq(Lines)
      BY DEF Init, LoaderInit
    <3>. QED  BY <3>1, ConfigAssumption
              DEF Init, LoaderInit, LoaderTypeOK, ConfigType, ConfigAssumption
  <2>2. SinkTypeOK
    <3>1. result \in Results
      BY DEF Init, SinkInit, Failure, Results
    <3>2. timeoutMs \in Int
      BY DEF Init, SinkInit
    <3>. QED  BY <3>1, <3>2, Zenon DEF Init, SinkInit, SinkTypeOK
  <2>3. 0 \in 0..MaxSends
    BY ProcessAssumption DEF ProcessAssumption
  <2>. QED  BY <2>1, <2>2, <2>3 DEF Init, TypeOK
<1>2. TypeOK /\ SinkInv' /\ [Next]_vars => TypeOK'
  BY ProcessTypes, ConfigAssumption, ProcessAssumption, NoneNotSent
<1>. QED  BY <1>1, <1>2, SinkHolds, PTL DEF Spec
==============================================================================
