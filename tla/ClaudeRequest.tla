--------------------------- MODULE ClaudeRequest ---------------------------
(***************************************************************************)
(* The requests of Anthropic's Messages API and of Bedrock's Converse, and *)
(* the two ways they ask for an object: a tool made up for the purpose and *)
(* forced on the model, or Anthropic's native output format.               *)
(*                                                                         *)
(* A model is a record: it supports thinking, thinks unasked, supports the *)
(* native format, is one of Anthropic's (on Bedrock), streams long calls   *)
(* by itself, and was made with a reasoning configuration and a budget.    *)
(***************************************************************************)
EXTENDS CallOptions

ResponseFormatTool == "json_response"

\* The object's schema as a tool, forced.
injectResponseFormatTool(p) ==
    [p EXCEPT !.tools = <<ResponseFormatTool>> \o @, !.choice = ResponseFormatTool, !.format = ""]

-----------------------------------------------------------------------------
\* Anthropic.
anthropicHandledKeys ==
    {"thinking", "_headers", "output_format", "disableParallelToolUse", "effort", "speed", "container",
     "contextManagement"}
anthropicProtectedKeys ==
    {"model", "stream", "messages", "max_tokens", "system", "temperature", "top_p", "top_k", "stop_sequences",
     "tools", "tool_choice", "structuredOutputMode", "sendReasoning", "cacheControl", "streamingTransport"}

useNativeOutputFormat(model, p) ==
    \/ Opt(p, "structuredOutputMode") = "outputFormat"
    \/ Opt(p, "structuredOutputMode") = "auto" /\ model.native

\* The schema goes in as an option, and the format is dropped.
injectNativeOutputFormat(p) ==
    IF p.format = "" THEN p
    ELSE [p EXCEPT !.opts = ("output_format" :> "schema") @@ @, !.format = ""]

\* DoGenerate and DoStream: the tool if there is a format and the native one
\* was not chosen.
ForObject(model, p) == p.format # "" /\ ~useNativeOutputFormat(model, p)
AnthropicAsk(model, p) ==
    CASE ForObject(model, p) -> injectResponseFormatTool(p)
      [] useNativeOutputFormat(model, p) -> injectNativeOutputFormat(p)
      [] OTHER -> p

\* A call without streaming may be streamed underneath: when the caller says
\* so, or when the model is expected to think.
willThink(model, p) == model.thinks /\ (Has(p, "thinking") \/ Has(p, "effort") \/ model.always)
useStreamingTransport(model, p) ==
    IF Has(p, "streamingTransport") THEN Opt(p, "streamingTransport") = "true"
    ELSE model.auto /\ willThink(model, p)

\* Thinking that was enabled is incompatible with a forced tool.
\* MUTANT: only "required" is downgraded, not a tool's name.
ChoiceStillNamed(p) ==
    CASE p.choice = "required" /\ Opt(p, "thinking") = "enabled" -> <<"auto">>
      [] Named(p) -> <<"named", p.choice>>
      [] OTHER -> <<p.choice>>
AnthropicChoice(p) ==
    CASE p.choice \notin {"", "auto", "none"} /\ Opt(p, "thinking") = "enabled" -> <<"auto">>
      [] Named(p) -> <<"named", p.choice>>
      [] OTHER -> <<p.choice>>

\* One call at a time: with a tool choice, or tools and none chosen.
AnthropicAlone(p) ==
    IF Opt(p, "disableParallelToolUse") # "true" \/ (p.choice = "" /\ p.tools = <<>>) THEN Nothing
    ELSE "tool_choice.disable_parallel_tool_use" :> <<"true">> @@ Given(p.choice = "", "tool_choice", <<"auto">>)

\* An option named "output_config" replaces effort and format with it.
AnthropicOutput(p) ==
    IF Has(p, "output_config") THEN Nothing
    ELSE Given(Has(p, "effort"), "output_config.effort", <<"option">>)
             @@ Given(Has(p, "output_format"), "output_config.format", <<"schema">>)

AnthropicSampling ==
    "temperature" :> "temperature" @@ "topP" :> "top_p" @@ "topK" :> "top_k" @@ "stop" :> "stop_sequences"
AnthropicMapped ==
    "thinking" :> "thinking" @@ "speed" :> "speed" @@ "container" :> "container"
        @@ "contextManagement" :> "context_management"

\* buildRequest.
AnthropicRequest(p, streaming) ==
    Passed(p, anthropicHandledKeys \cup anthropicProtectedKeys)
        @@ AnthropicOutput(p) @@ Mapped(p, AnthropicMapped)
        @@ AnthropicAlone(p) @@ Given(p.choice # "", "tool_choice", AnthropicChoice(p))
        @@ Given(p.tools # <<>>, "tools", p.tools)
        @@ Sampled(p, AnthropicSampling)
        @@ "max_tokens" :> (IF p.limit > 0 THEN <<"param">> ELSE <<"default">>)
        @@ Given(p.system, "system", IF p.caching THEN <<"param", "cached">> ELSE <<"param">>)
        @@ "messages" :> <<"converted">> @@ "model" :> <<"id">> @@ "stream" :> <<ToString(streaming)>>

-----------------------------------------------------------------------------
\* Bedrock.  The reasoning configuration the model was made with comes before
\* the call's.
Reasoning(model, p) ==
    IF model.reasoning # "" THEN [type |-> model.reasoning, budget |-> model.budget]
    ELSE [type |-> Opt(p, "reasoningConfig"), budget |-> IF Has(p, "reasoningConfig") THEN p.budget ELSE 0]
ThinkingOn(model, p) == model.claude /\ Reasoning(model, p).type \in {"enabled", "adaptive"}

\* applyBedrockOptions: the limit makes room for the thinking.
ConverseLimit(model, p) ==
    IF ThinkingOn(model, p) /\ Reasoning(model, p).budget > 0
    THEN Reasoning(model, p).budget + (IF p.limit > 0 THEN p.limit ELSE 4096) ELSE p.limit

\* With thinking on, temperature and topP are taken out.
ConverseInference(model, p) ==
    Sampled(p, "stop" :> "inferenceConfig.stopSequences")
        @@ IF ThinkingOn(model, p) THEN Nothing
           ELSE Sampled(p, "temperature" :> "inferenceConfig.temperature" @@ "topP" :> "inferenceConfig.topP")

ComputerTools == {"computer"}
ConverseAdditional(model, p) ==
    Mapped(p, "topK" :> "additional.topK")
        @@ Given(ThinkingOn(model, p), "additional.thinking", <<Reasoning(model, p).type>>)
        @@ Given(Has(p, "maxReasoningEffort"),
                 IF model.claude THEN "additional.output_config.effort" ELSE "additional.reasoningConfig", <<"option">>)
        @@ Given(\E i \in DOMAIN p.tools : p.tools[i] \in ComputerTools, "additional.anthropic_beta", <<"tools">>)

\* toolConfig: none for the choice "none"; without tools, placeholders for
\* those the conversation has called.
ToolConfig(p) ==
    CASE p.tools = <<>> -> Given(p.called # {}, "toolConfig.tools", SetToSeq(p.called))
      [] p.choice = "none" -> Nothing
      [] OTHER -> "toolConfig.tools" :> p.tools
                  @@ Given(p.choice # "", "toolConfig.toolChoice",
                           IF Named(p) THEN <<"named", p.choice>> ELSE <<p.choice>>)

\* buildConverseRequest and what buildAndSend does to it.
ConverseRequest(model, p) ==
    ToolConfig(p) @@ ConverseAdditional(model, p) @@ ConverseInference(model, p)
        @@ Given(ConverseLimit(model, p) > 0, "inferenceConfig.maxTokens", <<ToString(ConverseLimit(model, p))>>)
        @@ Mapped(p, "guardrailConfig" :> "guardrailConfig" @@ "promptVariables" :> "promptVariables")
        @@ Given(model.claude, "additionalModelResponseFieldPaths", <<"stop sequence">>)
        @@ Given(p.system, "system", IF p.caching THEN <<"param", "cached">> ELSE <<"param">>)
        @@ "messages" :> <<"converted">>
=============================================================================
