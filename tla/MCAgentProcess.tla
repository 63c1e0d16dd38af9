--------------------------- MODULE MCAgentProcess ---------------------------
EXTENDS AgentProcess

MCNumberOf == ("0" :> 0) @@ ("2" :> 2) @@ ("5s" :> 5) @@ ("9" :> 9)
              @@ ("-1" :> -1) @@ ("16" :> 16)

MCWords == DOMAIN MCNumberOf \cup UNION {KeysOf[s] : s \in Settings}
           \cup {"a", "input_path"}

MCDefaults ==
  [s \in Settings |-> IF s = "url" THEN <<"a">>
                      ELSE IF s \in TextSettings THEN <<>> ELSE 3]

\* A blank line with a comment, lines load() throws for, aliases, quotes, an
\* unknown key, and numbers that fit, that do not, and that are none.
MCLines ==
  {<<" ", "#", "a">>, <<"a">>, <<":", "a">>,
   <<"input", ":", " ", "a">>, <<"input.path", ":", "'", "'">>,
   <<"input.file", ":", "\"", "a", "#", "a", "\"">>,
   <<"input_path", ":", "a">>,
   <<"http.url", ":", "a", ":", "a">>, <<"http.url", " ", ":">>,
   <<"retry.max_attempts", ":", "9">>, <<"retry.max_attempts", ":", "-1">>,
   <<"http.timeout_ms", ":", "a">>}
  \cup {<<"http.timeout_ms", ":", " ", n>> : n \in DOMAIN MCNumberOf \ {"-1"}}

MCChars == {"n", "{", "}", "\\", "\"", "\n", "\r", "\t", "\f"}
MCControls == {"\n", "\r", "\t", "\f"}
MCPayloads ==
  {<<>>, <<"n">>, <<"\\">>, <<"\"">>, <<"\r">>, <<"\t">>,
   <<"\\", "n">>, <<"\\", "\"">>, <<"\"", "}", "\n">>}
MCBatches == {<<p>> : p \in MCPayloads}
             \cup {<<<<"\\">>, <<"{", "\"">>>>, <<<<"n">>, <<"\t">>>>,
                   <<<<"\f">>, <<"n">>>>}
==============================================================================
