---------------------------- MODULE ConfigLoader ----------------------------
(***************************************************************************)
(* src/src/config/ConfigLoader.cpp: reads "key: value" lines into a Config *)
(* (src/src/config/Config.hpp).  A line is a sequence of tokens: words,    *)
(* and the characters the loader looks for.  The widths of the integers    *)
(* are constants; the machine's are 32 and 64.                             *)
(***************************************************************************)
EXTENDS Integers, Sequences, FiniteSets

CONSTANTS
  Words,     \* what stands between blanks, colons, quotes and comment signs
  NumberOf,  \* the integer std::stoul sees at the start of a word that has one
  Lines,     \* the lines a file may have
  MaxLines,  \* bound: lines of a file
  Defaults,  \* the member initializers of Config
  WordBits,  \* width of std::uint32_t
  LongBits   \* width of unsigned long

Tokens == Words \cup {" ", ":", "#", "'", "\""}

\* The keys of apply_kv() that set each member.
KeysOf ==
  [level              |-> {"logging.level", "logging.levels", "log.level"},
   input_path         |-> {"input.path", "input.file", "input"},
   checkpoint_path    |-> {"checkpoint.path", "state.checkpoint", "checkpoint"},
   url                |-> {"http.url"},
   max_attempts       |-> {"retry.max_attempts"},
   base_delay_ms      |-> {"retry.base_delay_ms"},
   max_delay_ms       |-> {"retry.max_delay_ms"},
   jitter_ms          |-> {"retry.jitter_ms"},
   max_queue_batches  |-> {"retry.max_queue_batches"},
   timeout_ms         |-> {"http.timeout_ms"},
   connect_timeout_ms |-> {"http.connect_timeout_ms"},
   max_records        |-> {"batching.max_records"},
   max_bytes          |-> {"batching.max_bytes"},
   flush_interval_ms  |-> {"batching.flush_interval_ms"}]

Settings == DOMAIN KeysOf
TextSettings == {"level", "input_path", "checkpoint_path", "url"}
NumericSettings == Settings \ TextSettings
UInt32 == 0..2^WordBits - 1

ConfigType(c) ==
  /\ \A s \in TextSettings : c[s] \in Seq(Tokens)
  /\ \A s \in NumericSettings : c[s] \in UInt32

ASSUME ConfigAssumption ==
  /\ WordBits \in Nat /\ LongBits \in Nat /\ WordBits <= LongBits
  /\ MaxLines \in Nat
  /\ DOMAIN NumberOf \subseteq Words
  /\ \A w \in DOMAIN NumberOf : NumberOf[w] \in Int
  /\ Lines \subseteq Seq(Tokens)
  /\ DOMAIN Defaults = Settings /\ ConfigType(Defaults)

VARIABLES
  text,     \* the lines read so far
  cfg,      \* cfg of load()
  loading   \* "reading", "loaded", or "refused" when load() throws

loaderVars == <<text, cfg, loading>>

LoaderTypeOK ==
  /\ text \in Seq(Lines)
  /\ DOMAIN cfg = Settings /\ ConfigType(cfg)
  /\ loading \in {"reading", "loaded", "refused"}

LoaderInit == text = <<>> /\ cfg = Defaults /\ loading = "reading"
------------------------------------------------------------------------------
\* What stands before, and after, the first t of a line.
Before(l, t) == SubSeq(l, 1, Cardinality({k \in DOMAIN l :
                                            \A j \in 1..k : l[j] # t}))
After(l, t)  == SubSeq(l, Len(Before(l, t)) + 2, Len(l))

Trim(l) ==
  LET lead  == {k \in DOMAIN l : \A j \in 1..k : l[j] = " "}
      trail == {k \in DOMAIN l : \A j \in k..Len(l) : l[j] = " "}
  IN  SubSeq(l, Cardinality(lead) + 1, Len(l) - Cardinality(trail))

StripQuotes(v) ==
  IF Len(v) >= 2 /\ v[1] \in {"'", "\""} /\ v[Len(v)] = v[1]
  THEN SubSeq(v, 2, Len(v) - 1) ELSE v

\* A comment begins at the first #, inside quotes too.
Content(l) == Trim(Before(l, "#"))
HasColon(l) == Before(Content(l), ":") # Content(l)
Key(l)   == Trim(Before(Content(l), ":"))
Value(l) == StripQuotes(Trim(After(Content(l), ":")))

\* The line sets s; unknown keys set nothing.
Sets(l, s) == Key(l) \in {<<key>> : key \in KeysOf[s]} /\ HasColon(l)

\* std::stoul: skips blanks, takes a sign and digits and leaves the rest.  It
\* throws without digits, and past unsigned long; a negative number wraps.
Digits(v) == Trim(v)[1]
Readable(v) ==
  /\ Trim(v) # <<>> /\ Digits(v) \in DOMAIN NumberOf
  /\ NumberOf[Digits(v)] \in 1 - 2^LongBits .. 2^LongBits - 1

\* Mutants of Narrow: into a signed integer; not at all.
NarrowSigned(n) == n % 2^(WordBits - 1)
NarrowNot(n)    == n

\* static_cast<std::uint32_t>
Narrow(n) == n % 2^WordBits

Meaning(s, v) == IF s \in TextSettings THEN v ELSE Narrow(NumberOf[Digits(v)])

\* The lines load() throws for.
Refused(l) ==
  \/ Content(l) # <<>> /\ (~HasColon(l) \/ Key(l) = <<>>)
  \/ \E s \in NumericSettings : Sets(l, s) /\ ~Readable(Value(l))

ReadLine(l) ==
  /\ loading = "reading" /\ Len(text) < MaxLines
  /\ ~Refused(l)
  /\ text' = Append(text, l)
  /\ cfg' = [s \in Settings |-> IF Sets(l, s) THEN Meaning(s, Value(l))
                                              ELSE cfg[s]]
  /\ UNCHANGED loading

RefuseLine(l) ==
  /\ loading = "reading" /\ Len(text) < MaxLines
  /\ Refused(l)
  /\ text' = Append(text, l)
  /\ loading' = "refused"
  /\ UNCHANGED cfg

\* The file cannot be opened.
OpenFails ==
  /\ loading = "reading" /\ text = <<>>
  /\ loading' = "refused"
  /\ UNCHANGED <<text, cfg>>

EndOfFile ==
  /\ loading = "reading"
  /\ loading' = "loaded"
  /\ UNCHANGED <<text, cfg>>

Load == (\E l \in Lines : ReadLine(l) \/ RefuseLine(l)) \/ OpenFails \/ EndOfFile
------------------------------------------------------------------------------
\* ConfigLoader.hpp:9 ("key: value" pairs).  The configuration is what the
\* text says: each member has the value of the last line that sets it, whichever
\* of its keys that line uses, or its default when none does.  Of a number this
\* is asked only if it fits the member; others are taken modulo its width.
Governs(k, s) ==
  Sets(text[k], s) /\ \A h \in k + 1..Len(text) : ~Sets(text[h], s)

LastSettingWins ==
  loading # "refused" =>
    \A s \in Settings :
      /\ (\A k \in DOMAIN text : ~Sets(text[k], s)) => cfg[s] = Defaults[s]
      /\ \A k \in DOMAIN text : Governs(k, s) =>
           IF s \in TextSettings THEN cfg[s] = Value(text[k])
           ELSE LET n == NumberOf[Digits(Value(text[k]))]
                IN  n \in UInt32 => cfg[s] = n
==============================================================================
