--------------------------- MODULE HttpNdjsonSink ---------------------------
(***************************************************************************)
(* src/src/sinks/HttpNdjsonSink.cpp: a batch is sent as one JSON object    *)
(* per line by a POST of libcurl.  A record is its payload, a sequence of  *)
(* characters; the labels, which the agent never sets, and the time stamp  *)
(* are left out.                                                           *)
(*                                                                         *)
(* The backend is any HTTP server that answers 2xx only for a body it can  *)
(* read as JSON lines, at any time or never.                               *)
(***************************************************************************)
EXTENDS Integers, Sequences, SequencesExt

CONSTANTS
  Chars,         \* the characters of payloads
  Controls,      \* the control characters, which JSON wants escaped in a string
  Batches,       \* the batches that may be sent
  AssumeDurable, \* Config::assume_durable_on_200
  None

\* A batch is flushed only if it has records (BatchBuilder.cpp:84).
ASSUME SinkAssumption ==
  /\ {"\n", "\r"} \subseteq Controls
  /\ Controls \cap {"\\", "\"", "n", "r", "{", "}"} = {}
  /\ Batches \subseteq Seq(Seq(Chars)) \ {<<>>}
  /\ AssumeDurable \in BOOLEAN

VARIABLES
  urlGiven,   \* !cfg_.url.empty()
  timeoutMs,  \* cfg_.timeout_ms, an int
  handle,     \* is there a curl_?
  batch,      \* the batch that is sent, or was sent last
  body,       \* the body of the request under way, None when there is none
  limited,    \* will libcurl give it up after some time?
  took,       \* what the backend has read from this request, None if nothing
  result      \* what send() returned last: ok, commit_end_offset has a value

sinkVars == <<urlGiven, timeoutMs, handle, batch, body, limited, took, result>>

Results == [ok : BOOLEAN, commits : BOOLEAN]
Failure == [ok |-> FALSE, commits |-> FALSE]

SinkTypeOK ==
  /\ urlGiven \in BOOLEAN /\ timeoutMs \in Int /\ handle \in BOOLEAN
  /\ batch \in Batches \cup {None}
  /\ body = None \/ batch # None
  /\ limited \in BOOLEAN
  /\ result \in Results

SinkInit ==
  /\ urlGiven = FALSE /\ timeoutMs = 0 /\ handle = FALSE
  /\ batch = None /\ body = None /\ limited = FALSE /\ took = None
  /\ result = Failure
------------------------------------------------------------------------------
\* Mutant of Escape: a backslash is not escaped.
EscapeQuotes(c) ==
  CASE c = "\"" -> <<"\\", c>>
    [] c = "\n" -> <<"\\", "n">>
    [] c = "\r" -> <<"\\", "r">>
    [] OTHER    -> <<c>>

Escape(c) ==
  CASE c \in {"\\", "\""} -> <<"\\", c>>
    [] c = "\n"           -> <<"\\", "n">>
    [] c = "\r"           -> <<"\\", "r">>
    [] OTHER              -> <<c>>

\* to_ndjson: "{" is all that comes before the payload's characters.
JsonLine(payload) ==
  <<"{">> \o FlattenSeq([k \in DOMAIN payload |-> Escape(payload[k])])
          \o <<"\"", "}", "\n">>
Ndjson(b) == FlattenSeq([k \in DOMAIN b |-> JsonLine(b[k])])

\* The characters that JSON's escapes stand for.
Unescaped == [c \in {"\\", "\"", "n", "r"} |->
                CASE c = "n" -> "\n" [] c = "r" -> "\r" [] OTHER -> c]

\* The batches read, their first payload beginning with c.
Prefixed(c, read) == {[b EXCEPT ![1] = <<c>> \o @] : b \in read}

\* What a JSON reader inside a payload makes of the text from s[k] on, where
\* one, two and four are what it makes of it as many characters further on: the
\* one batch in this set, or none when the text is not JSON.
Reading(s, k, one, two, four) ==
  IF k > Len(s) \/ s[k] \in Controls THEN {}
  ELSE IF s[k] = "\\"
       THEN IF k < Len(s) /\ s[k + 1] \in DOMAIN Unescaped
            THEN Prefixed(Unescaped[s[k + 1]], two) ELSE {}
  ELSE IF s[k] # "\"" THEN Prefixed(s[k], one)
  ELSE IF k + 2 > Len(s) \/ s[k + 1] # "}" \/ s[k + 2] # "\n" THEN {}
  ELSE {<<<<>>>> \o b : b \in IF k + 2 = Len(s) THEN {<<>>}
                              ELSE IF s[k + 3] = "{" THEN four ELSE {}}

Decoded(s) ==
  LET d[k \in 1..Len(s) + 4] == Reading(s, k, d[k + 1], d[k + 2], d[k + 4])
  IN  IF s # <<>> /\ s[1] = "{" THEN d[2] ELSE {}

ASSUME NoneNotSent == None \notin Batches \cup {Ndjson(b) : b \in Batches}

\* The constructor.
Construct(given, ms) ==
  /\ urlGiven' = given
  /\ timeoutMs' = ms
  /\ handle' \in BOOLEAN
  /\ UNCHANGED <<batch, body, limited, took, result>>

\* Mutant of Limits: the options are reset after they were set.
LimitsReset == {FALSE}

\* CURLOPT_TIMEOUT_MS: 0 is no limit.  A negative int read as a long is refused,
\* which leaves none, or is a large number.
Limits == CASE timeoutMs > 0 -> {TRUE}
            [] timeoutMs = 0 -> {FALSE}
            [] OTHER         -> BOOLEAN

\* send() up to curl_easy_perform(), which it may not reach.
StartSend(b) ==
  /\ body = None
  /\ IF urlGiven /\ handle
     THEN body' = Ndjson(b) /\ limited' \in Limits /\ UNCHANGED result
     ELSE result' = Failure /\ UNCHANGED <<body, limited>>
  /\ batch' = b /\ took' = None
  /\ UNCHANGED <<urlGiven, timeoutMs, handle>>

\* The backend reads the body.
Take ==
  /\ body # None /\ took = None
  /\ \E b \in Decoded(body) : took' = b
  /\ UNCHANGED <<urlGiven, timeoutMs, handle, batch, body, limited, result>>

Return(res) ==
  /\ result' = res
  /\ body' = None
  /\ UNCHANGED <<urlGiven, timeoutMs, handle, batch, limited, took>>

\* Mutant of Answered: any answer is taken for success.
AnsweredAnyhow(status) == [ok |-> TRUE, commits |-> AssumeDurable]

Answered(status) ==
  [ok |-> status = "2xx", commits |-> status = "2xx" /\ AssumeDurable]

\* An answer arrives; 2xx only once the backend has the batch.
Answer == \E status \in {"2xx", "other"} :
  /\ body # None
  /\ status = "2xx" => took # None
  /\ Return(Answered(status))

\* curl_easy_perform() fails before or after the backend has the batch; with a
\* limit it does so by itself.
TransferFails == body # None /\ Return(Failure)
TimesOut      == limited /\ TransferFails
------------------------------------------------------------------------------
\* The control characters that Escape leaves as they are.
Raw == Controls \ {"\n", "\r"}

Escapable(b) == \A k \in DOMAIN b : \A j \in DOMAIN b[k] : b[k][j] \notin Raw

\* HttpNdjsonSink.hpp:38 "Each record becomes one JSON line".  What is posted
\* reads as exactly the payloads of the batch, as many and in their order,
\* whatever quotes, backslashes and line ends they hold; with another control
\* character in it, a tab say, none of it reads.  No batch is read as another.
JsonLines ==
  body # None => Decoded(body) = IF Escapable(batch) THEN {batch} ELSE {}

\* Sink.hpp:45 "if sink confirms durability", README:46 "only after backend
\* ACK".  A send returns ok, or confirms an offset, only if the backend read, from
\* this very request, the whole batch; a late answer, a lost one and an answer
\* other than 2xx never do.
OkMeansTaken ==
  body = None /\ (result.ok \/ result.commits) => took = batch
==============================================================================
