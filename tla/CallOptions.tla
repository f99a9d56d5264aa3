---------------------------- MODULE CallOptions ----------------------------
(***************************************************************************)
(* From GenerateParams to the body of a request: what the codecs that      *)
(* speak OpenAI's two protocols, Gemini's, Cohere's and Ollama's put into  *)
(* it, and what provider options may add.  Anthropic's and Bedrock's are   *)
(* in ClaudeRequest.                                                       *)
(*                                                                         *)
(* The parameters of a call are a record: the names of the tools, the tool *)
(* choice, the response format ("", "json", "schema"), the limit on the    *)
(* output and the thinking budget (0 is unset), the set of sampling        *)
(* parameters given, whether there is a system prompt and whether it is to *)
(* be cached, the provider options (a function on their keys) and the      *)
(* tools the conversation has already called.  A body is a function from   *)
(* the wire keys, nested ones dotted, to sequences of strings that tell    *)
(* where the value came from or, for tools and formats, what it is.        *)
(***************************************************************************)
EXTENDS Naturals, Sequences, SequencesExt, FiniteSets, TLC

Nothing == <<>>
Given(cond, key, value) == IF cond THEN key :> value ELSE Nothing
Opt(p, k) == IF k \in DOMAIN p.opts THEN p.opts[k] ELSE ""
Has(p, k) == k \in DOMAIN p.opts

\* The sampling parameters given, under a codec's names for them; the options
\* given, under the wire key a codec maps each to; the options it passes on.
Sampled(p, name) == [k \in {name[s] : s \in p.sampling \cap DOMAIN name} |-> <<"param">>]
Mapped(p, name) ==
    [k \in {name[o] : o \in DOMAIN p.opts \cap DOMAIN name} |-> <<"option">>]
Passed(p, kept) == [k \in DOMAIN p.opts \ kept |-> <<"option">>]

\* WithToolChoice: three words and the name of a tool.
Words == {"", "auto", "none", "required"}
Named(p) == p.choice \notin Words

\* structuredOutputs, on unless it is switched off.
Structured(p) == Opt(p, "structuredOutputs") # "false"

-----------------------------------------------------------------------------
\* OpenAI chat completions, and the providers that speak it.
CompatSampling ==
    "temperature" :> "temperature" @@ "topP" :> "top_p" @@ "topK" :> "top_k" @@ "seed" :> "seed"
        @@ "frequencyPenalty" :> "frequency_penalty" @@ "presencePenalty" :> "presence_penalty" @@ "stop" :> "stop"
CompatMapped ==
    "parallelToolCalls" :> "parallel_tool_calls" @@ "user" :> "user" @@ "metadata" :> "metadata"
        @@ "safetyIdentifier" :> "safety_identifier" @@ "store" :> "store" @@ "serviceTier" :> "service_tier"
openAIKnownKeys ==
    DOMAIN CompatMapped \cup {"structuredOutputs", "strictJsonSchema", "useResponsesAPI", "logprobs"}
openAIProtectedKeys ==
    {"model", "stream", "messages", "max_tokens", "max_completion_tokens", "temperature", "top_p", "stop",
     "seed", "frequency_penalty", "presence_penalty", "tools", "tool_choice", "response_format"}

applyProviderOptions(p) ==
    Passed(p, openAIKnownKeys \cup openAIProtectedKeys) @@ Mapped(p, CompatMapped)
        @@ IF Opt(p, "logprobs") \in {"", "false"} THEN Nothing
           ELSE "logprobs" :> <<"option">> @@ "top_logprobs" :> <<"option">>

\* Fireworks takes a schema as a JSON object, Perplexity a JSON object as a
\* schema.
CompatFormat(p, variant) ==
    CASE p.format = "" -> Nothing
      [] p.format = "schema" /\ Structured(p) ->
            "response_format" :> IF variant = "schema as object" THEN <<"json_object", "schema">>
                                 ELSE <<"json_schema", "schema">>
      [] OTHER -> "response_format" :> IF variant = "object as schema" THEN <<"json_schema", "any object">>
                                       ELSE <<"json_object">>

CompatChoice(p) ==
    CASE p.choice = "" -> Nothing
      [] Named(p) -> "tool_choice" :> <<"named", p.choice>>
      [] OTHER -> "tool_choice" :> <<p.choice>>

\* BuildRequest: the format over the options over the parameters; a reasoning
\* model's limit has another name.
CompatLimit(p, reasons) ==
    Given(p.limit > 0, IF reasons THEN "max_completion_tokens" ELSE "max_tokens", <<"param">>)
BuildRequest(p, streaming, variant, reasons) ==
    CompatFormat(p, variant) @@ applyProviderOptions(p) @@ Sampled(p, CompatSampling) @@ CompatChoice(p)
        @@ Given(p.tools # <<>>, "tools", p.tools)
        @@ CompatLimit(p, reasons)
        @@ Given(streaming, "stream_options", <<"usage">>)
        @@ "messages" :> <<"converted">> @@ "model" :> <<"id">> @@ "stream" :> <<ToString(streaming)>>

-----------------------------------------------------------------------------
\* OpenAI Responses.
ResponsesMapped ==
    "store" :> "store" @@ "serviceTier" :> "service_tier" @@ "parallelToolCalls" :> "parallel_tool_calls"
        @@ "truncation" :> "truncation" @@ "include" :> "include" @@ "prompt_cache_key" :> "prompt_cache_key"
        @@ "metadata" :> "metadata" @@ "user" :> "user" @@ "safetyIdentifier" :> "safety_identifier"
        @@ "maxToolCalls" :> "max_tool_calls" @@ "conversation" :> "conversation"
        @@ "instructions" :> "instructions" @@ "previousResponseId" :> "previous_response_id"
        @@ "reasoning_effort" :> "reasoning.effort" @@ "reasoning_summary" :> "reasoning.summary"
        @@ "text_verbosity" :> "text.verbosity"
ResponsesConsumed ==
    DOMAIN ResponsesMapped
        \cup {"structuredOutputs", "strictJsonSchema", "useResponsesAPI", "goaiAutoPreviousResponseID", "logprobs"}
ResponsesProtected ==
    {"model", "stream", "input", "instructions", "max_output_tokens", "temperature", "top_p", "stop",
     "tools", "tool_choice"}

\* An option named "text" or "reasoning" replaces the whole of what is nested
\* there.
applyResponsesProviderOptions(p) ==
    LET includes == (IF Opt(p, "logprobs") \in {"", "false"} THEN <<>> ELSE <<"logprobs">>)
                    \o (IF Opt(p, "store") = "false" /\ (Has(p, "reasoning_effort") \/ Has(p, "reasoning_summary"))
                        THEN <<"encrypted reasoning">> ELSE <<>>)
        given == IF Has(p, "include") THEN <<"option">> ELSE <<>>
        all == Passed(p, ResponsesConsumed \cup ResponsesProtected)
                   @@ Given(given \o includes # <<>>, "include", given \o includes) @@ Mapped(p, ResponsesMapped)
        lost == (IF Has(p, "text") THEN {"text.verbosity"} ELSE {})
                \cup (IF Has(p, "reasoning") THEN {"reasoning.effort", "reasoning.summary"} ELSE {})
    IN [k \in DOMAIN all \ lost |-> all[k]]

ResponsesFormat(p) ==
    CASE p.format = "" \/ Has(p, "text") -> Nothing
      [] p.format = "schema" /\ Structured(p) -> "text.format" :> <<"json_schema", "schema">>
      [] OTHER -> "text.format" :> <<"json_object">>

buildResponsesRequest(p, streaming) ==
    applyResponsesProviderOptions(p) @@ ResponsesFormat(p)
        @@ Sampled(p, "temperature" :> "temperature" @@ "topP" :> "top_p" @@ "stop" :> "stop")
        @@ CompatChoice(p)
        @@ Given(p.tools # <<>>, "tools", p.tools) @@ Given(p.limit > 0, "max_output_tokens", <<"param">>)
        @@ "input" :> (IF Has(p, "goaiAutoPreviousResponseID") THEN <<"continuation">> ELSE <<"converted">>)
        @@ Given(p.system, "instructions", <<"param">>)
        @@ "model" :> <<"id">> @@ "stream" :> <<ToString(streaming)>>

-----------------------------------------------------------------------------
\* Gemini.  Its options are a map of their own, under the key "google".
GoogleSampling ==
    "temperature" :> "generationConfig.temperature" @@ "topP" :> "generationConfig.topP"
        @@ "topK" :> "generationConfig.topK" @@ "stop" :> "generationConfig.stopSequences"

buildToolsAndConfig(p) ==
    LET functions == SelectSeq(p.tools, LAMBDA t : t # "web")
        tools == p.tools \o (IF Has(p, "google_search") THEN <<"googleSearch">> ELSE <<>>)
        mode == CASE p.choice = "auto" -> <<"auto">> [] p.choice = "none" -> <<"none">>
                  [] p.choice = "required" -> <<"required">> [] OTHER -> <<"named", p.choice>>
    IN Given(tools # <<>>, "tools", tools)
       @@ Given(functions # <<>>, "functionDeclarations", functions)
       @@ Given(p.choice # "", "toolConfig.functionCallingConfig", mode)
       @@ Mapped(p, "retrievalConfig" :> "toolConfig.retrievalConfig" @@ "toolConfig" :> "toolConfig.serverSide")

\* buildRequest: a model that thinks does so unless told otherwise.
GoogleRequest(p, thinks) ==
    Given(p.format # "", "generationConfig.responseMimeType", <<"json">>)
        @@ Given(p.format = "schema", "generationConfig.responseSchema", <<"schema">>)
        @@ Mapped(p, "safetySettings" :> "safetySettings" @@ "cachedContent" :> "cachedContent"
                     @@ "imageConfig" :> "generationConfig.imageConfig"
                     @@ "audioTimestamp" :> "generationConfig.audioTimestamp"
                     @@ "mediaResolution" :> "generationConfig.mediaResolution"
                     @@ "responseModalities" :> "generationConfig.responseModalities")
        @@ Given(Has(p, "thinkingConfig") /\ Opt(p, "thinkingConfig") # "false",
                 "generationConfig.thinkingConfig", <<"option">>)
        @@ Given(thinks /\ ~Has(p, "thinkingConfig"), "generationConfig.thinkingConfig", <<"default">>)
        @@ Sampled(p, GoogleSampling) @@ Given(p.limit > 0, "generationConfig.maxOutputTokens", <<"param">>)
        @@ buildToolsAndConfig(p)
        @@ Given(p.system, "systemInstruction", <<"param">>) @@ "contents" :> <<"converted">>

-----------------------------------------------------------------------------
\* Cohere: no tool by name, and "auto" goes without saying.
CohereSampling ==
    "temperature" :> "temperature" @@ "topP" :> "p" @@ "topK" :> "k" @@ "seed" :> "seed" @@ "stop" :> "stop_sequences"
        @@ "frequencyPenalty" :> "frequency_penalty" @@ "presencePenalty" :> "presence_penalty"
CohereRequest(p, streaming) ==
    Given(p.format # "", "response_format",
          IF p.format = "schema" THEN <<"json_object", "schema">> ELSE <<"json_object">>)
        @@ Given(Has(p, "thinking"), "thinking", <<"option">>) @@ Sampled(p, CohereSampling)
        @@ Given(p.limit > 0, "max_tokens", <<"param">>)
        @@ Given(p.choice \in {"none", "required"}, "tool_choice", <<p.choice>>)
        @@ Given(p.tools # <<>>, "tools", p.tools)
        @@ "messages" :> <<"converted">> @@ "model" :> <<"id">> @@ "stream" :> <<ToString(streaming)>>

\* Ollama: no tool choice at all; thinking is off unless a level is given.
OllamaSampling ==
    "temperature" :> "options.temperature" @@ "topP" :> "options.top_p" @@ "topK" :> "options.top_k"
        @@ "seed" :> "options.seed" @@ "stop" :> "options.stop"
OllamaRequest(p, streaming) ==
    Given(p.format # "", "format", IF p.format = "schema" THEN <<"schema">> ELSE <<"json">>)
        @@ "think" :> (IF Opt(p, "think") \in {"true", "high", "medium", "low", "max"} THEN <<"option">> ELSE <<"off">>)
        @@ Sampled(p, OllamaSampling) @@ Given(p.limit > 0, "options.num_predict", <<"param">>)
        @@ Given(p.tools # <<>>, "tools", p.tools)
        @@ "messages" :> <<"converted">> @@ "model" :> <<"id">> @@ "stream" :> <<ToString(streaming)>>
=============================================================================
