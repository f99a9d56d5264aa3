---------------------------- MODULE MCStructured ----------------------------
\* Scenes of three kinds: one caller whose options and format exercise every
\* codec's request; one caller that reads an object, whole or as it arrives;
\* two callers that share a Bedrock model instance.
EXTENDS ObjectCall

c1 == "c1"
c2 == "c2"
MCCallers == {c1, c2}

Model == [variant |-> "", reasons |-> FALSE, thinks |-> FALSE, always |-> FALSE, native |-> FALSE,
          claude |-> FALSE, auto |-> TRUE, reasoning |-> "", budget |-> 0]
Idle == [api |-> "", codec |-> "compat", model |-> Model, ask |-> NoAsk, steps |-> 1, hook |-> FALSE,
         streams |-> FALSE, partials |-> FALSE, executes |-> FALSE, canceled |-> FALSE, answers |-> {}]

\* A document with every kind of value, escapes, an empty and a nested one.
Doc ==
    LET q == Quote b == Backslash IN
    <<"{", q, "a", q, ":", q, "x", b, q, b, "u", "0", "0", "e", "9", q, ",",
      q, "b", q, ":", "[", "t", "r", "u", "e", ",", "-", "1", ".", "0", ",", "{", "}", "]", ",",
      q, "c", q, ":", "{", q, "d", q, ":", "n", "u", "l", "l", "}", "}">>
Deep == LET q == Quote IN <<"{", q, "a", q, ":", "{", q, "b", q, ":", "[", "[", "1", "]", "]", "}", "}">>
Said(say, doc, calls, end) == [say |-> say, doc |-> doc, calls |-> calls, end |-> end]
Plain == {Said(<<>>, Doc, {}, "stop")}
Awkward ==
    {Said(<<"s">>, Deep, {}, "stop"), Said(<<>>, Deep, {}, "stop"), Said(<<>>, Deep, {}, "fails"),
     Said(<<>>, Deep, {}, "cut"), Said(<<>>, <<>>, {}, "stop"), Said(<<>>, <<>>, {"t1"}, "stop"),
     Said(<<>>, Deep, {"t1"}, "stop")}

\* Requests.
Everything == {"temperature", "topP", "topK", "seed", "stop", "frequencyPenalty", "presencePenalty"}
Hostile == "model" :> "x" @@ "stream" :> "x" @@ "messages" :> "x" @@ "input" :> "x" @@ "contents" :> "x"
           @@ "tool_choice" :> "x" @@ "tools" :> "x" @@ "system" :> "x" @@ "max_tokens" :> "x"
           @@ "response_format" :> "x" @@ "custom" :> "x" @@ "seed" :> "x" @@ "temperature" :> "x"
           @@ "top_k" :> "x" @@ "top_p" :> "x" @@ "frequency_penalty" :> "x" @@ "stop_sequences" :> "x"
           @@ "max_output_tokens" :> "x" @@ "stream_options" :> "x" @@ "instructions" :> "x"
Options ==
    {Nothing, Hostile, "thinking" :> "enabled", "thinking" :> "enabled" @@ "streamingTransport" :> "false",
     "effort" :> "high" @@ "disableParallelToolUse" :> "true", "structuredOutputMode" :> "outputFormat",
     "structuredOutputMode" :> "auto" @@ "output_config" :> "x", "structuredOutputs" :> "false" @@ "text" :> "x",
     "reasoningConfig" :> "enabled" @@ "topK" :> "x", "thinkingConfig" :> "false" @@ "think" :> "high",
     "store" :> "false" @@ "reasoning_effort" :> "x" @@ "logprobs" :> "true" @@ "reasoning" :> "x",
     "goaiAutoPreviousResponseID" :> "x" @@ "instructions" :> "x" @@ "google_search" :> "x" @@ "metadata" :> "x"}
Asks ==
    {[NoAsk EXCEPT !.tools = tc[1], !.choice = tc[2], !.format = f, !.limit = l, !.budget = 7,
                   !.sampling = Everything, !.system = l > 0, !.caching = l > 0, !.opts = o, !.called = IF l > 0 THEN {"t1"} ELSE {}] :
        tc \in {<<<<>>, "">>, <<<<"t1", "web", "computer">>, "t1">>, <<<<"t1">>, "required">>, <<<<"t1">>, "none">>},
        f \in {"", "schema"}, l \in {0, 5}, o \in Options}
    \cup {[NoAsk EXCEPT !.format = "json", !.tools = <<"t1">>]}
Models(codec) ==
    CASE codec = "compat" -> {[Model EXCEPT !.variant = v, !.reasons = v = ""] : v \in {"", "schema as object", "object as schema"}}
      [] codec = "anthropic" -> {[Model EXCEPT !.thinks = t, !.always = t, !.native = n] : t \in BOOLEAN, n \in BOOLEAN}
      [] codec = "converse" -> {Model, [Model EXCEPT !.claude = TRUE],
                                [Model EXCEPT !.claude = TRUE, !.reasoning = "adaptive", !.budget = 3]}
      [] codec = "google" -> {[Model EXCEPT !.thinks = t] : t \in BOOLEAN}
      [] OTHER -> {Model}
Everywhere == {<<Bare, Home>>, <<Profile, US>>, <<Bare, US>>}
Kind == [serves |-> Everywhere, provisioned |-> {}, refuses |-> {}]
Alone(plan) == [plan |-> [c \in MCCallers |-> IF c = c1 THEN plan ELSE Idle], service |-> Kind]
RequestScenes ==
    UNION {{Alone([Idle EXCEPT
                !.api = CASE a.format = "" -> "text" [] a.format # "" /\ s -> "stream" [] OTHER -> "object",
                !.codec = codec, !.model = m, !.ask = a, !.streams = s,
                !.answers = {Said(<<>>, <<>>, {}, "stop")}]) :
            a \in Asks, s \in BOOLEAN, m \in Models(codec)} :
        codec \in {"compat", "responses", "google", "cohere", "ollama", "anthropic", "converse"}}

\* Objects: from text, from the made-up tool a bit at a time, and at once.
Object == [NoAsk EXCEPT !.format = "schema", !.tools = <<"t1">>]
ObjectScenes ==
    {Alone([Idle EXCEPT !.api = IF s THEN "stream" ELSE "object", !.codec = codec, !.ask = Object, !.steps = 2,
                        !.hook = h, !.streams = s, !.partials = s /\ h, !.executes = TRUE, !.canceled = TRUE,
                        !.answers = Awkward]) :
        codec \in {"compat", "anthropic", "converse"}, s \in BOOLEAN, h \in BOOLEAN}
    \cup {Alone([Idle EXCEPT !.api = "stream", !.codec = "compat", !.ask = Object, !.streams = TRUE,
                             !.partials = TRUE, !.answers = Plain])}

\* Bedrock shared: what the service knows, and what else it refuses.
Sharer(s) ==
    [Idle EXCEPT !.api = "text", !.codec = "converse", !.streams = s,
                 !.ask = [NoAsk EXCEPT !.tools = <<"t1">>, !.choice = "t1", !.limit = 5, !.caching = TRUE],
                 !.answers = Plain]
Knows ==
    {[serves |-> Everywhere \ {<<Bare, Home>>}, provisioned |-> {}],
     [serves |-> {<<Profile, US>>}, provisioned |-> {}],
     [serves |-> {<<Bare, US>>}, provisioned |-> {<<Bare, Home>>}],
     [serves |-> {}, provisioned |-> {<<Bare, Home>>}],
     [serves |-> {}, provisioned |-> {}]}
Shared(first, second, knows, refuses) ==
    [plan |-> (c1 :> first @@ c2 :> second),
     service |-> [serves |-> knows.serves, provisioned |-> knows.provisioned, refuses |-> refuses]]
SharedScenes ==
    {Shared(Sharer(FALSE), Sharer(FALSE), k, {}) : k \in Knows}
    \cup {Shared(Sharer(TRUE), Sharer(FALSE), k, r) :
              k \in {l \in Knows : <<Profile, US>> \in l.serves}, r \in {{"limit", "tools", "cache"}, {"frame"}}}
    \cup {Shared([Sharer(FALSE) EXCEPT !.canceled = TRUE], Idle, k, {"limit"}) : k \in Knows}

MCScenes == RequestScenes \cup ObjectScenes \cup SharedScenes
=============================================================================
