----------------------------- MODULE ObjectCall -----------------------------
(***************************************************************************)
(* GenerateObject and StreamObject over a provider: the request a codec    *)
(* builds, Bedrock's fallbacks, the answer taken out of text or of the     *)
(* made-up tool, the tool steps before it, the partial objects of a stream *)
(* and its end.  Calls for plain text are there for their requests.  The   *)
(* callers of a scene share one Bedrock model instance; other codecs keep  *)
(* nothing between calls.                                                  *)
(***************************************************************************)
EXTENDS ConverseFallback, PartialJson

CONSTANT Scenes   \* what the callers ask for, and of what service

\* A model's answer: what it says first is prose, which begins as no JSON value
\* does, and its document is an object.
ValueStarts == {Quote, "{", "[", "t", "f", "n", ".", "-", "+", "e", "E"} \cup Digits
OpensObject(doc) == doc # <<>> /\ doc[1] = "{"
ASSUME DocumentsAssumption ==
    \A s \in Scenes, c \in Callers : \A a \in s.plan[c].answers :
        /\ a.say \in Seq(STRING) /\ a.doc \in Seq(STRING)
        /\ a.say # <<>> => a.say[1] \notin ValueStarts
        /\ a.doc # <<>> => OpensObject(a.doc) /\ Unmarshal(a.doc) # Unparsed

VARIABLES
    scene,
    step,      \* per caller: GenerateObject's step
    asked,     \* per caller: the loop's parameters
    wrote,     \* per caller: the document in the model's last answer
    left,      \* per caller: the chunks of text still to come
    ending,    \* per caller: what comes after them
    text,      \* per caller: the text collected
    partial,   \* per caller: how many partial objects were emitted, and the last one's fields
    over,      \* per caller: its context is done
    failed,    \* per caller: os.streamErr is set
    result,    \* per caller: how the call came out
    object     \* per caller: the fields of the object returned

vars == <<chainVars, scene, step, asked, wrote, left, ending, text, partial, over, failed, result, object>>
streamVars == <<wrote, left, ending, text, partial, failed>>

Plan(c) == scene.plan[c]

\* The texts a reader may come to hold, and what each parses to: tables, as
\* they are looked up at every step.
Texts ==
    LET answers == UNION {s.plan[c].answers : s \in Scenes, c \in Callers}
        whole == {a.doc : a \in answers} \cup {a.say \o a.doc : a \in answers}
    IN UNION {{SubSeq(w, 1, n) : n \in 0..Len(w)} : w \in whole}
PartialOf == [t \in Texts |-> parsePartialJSON(t)]
ObjectOf == [t \in Texts |-> Unmarshal(t)]

\* What a codec makes of the parameters before it builds the request.
Built(c) ==
    LET plan == Plan(c) p == asked[c]
    IN CASE plan.codec = "anthropic" -> AnthropicAsk(plan.model, p)
         [] plan.codec = "converse" /\ p.format # "" -> injectResponseFormatTool(p)
         [] OTHER -> p

\* The answer is read as a stream of events.
Reads(c) ==
    \/ Plan(c).streams
    \/ Plan(c).codec = "anthropic" /\ useStreamingTransport(Plan(c).model, Built(c))

\* The body its codec builds of parameters p, and of those of the request.
BodyOf(c, p) ==
    LET model == Plan(c).model codec == Plan(c).codec
    IN CASE codec = "compat" -> BuildRequest(p, streaming[c], model.variant, model.reasons)
         [] codec = "responses" -> buildResponsesRequest(p, streaming[c])
         [] codec = "anthropic" -> AnthropicRequest(p, streaming[c])
         [] codec = "google" -> GoogleRequest(p, model.thinks)
         [] codec = "converse" -> ConverseRequest(model, p)
         [] codec = "cohere" -> CohereRequest(p, streaming[c])
         [] codec = "ollama" -> OllamaRequest(p, streaming[c])
Body(c) == BodyOf(c, want[c])

Init ==
    /\ scene \in Scenes
    /\ ChainInit
    /\ step = [c \in Callers |-> 1] /\ asked = [c \in Callers |-> scene.plan[c].ask]
    /\ wrote = [c \in Callers |-> <<>>] /\ left = [c \in Callers |-> <<>>]
    /\ ending = [c \in Callers |-> ""] /\ text = [c \in Callers |-> <<>>]
    /\ partial = [c \in Callers |-> [count |-> 0, fields |-> {}]]
    /\ over = [c \in Callers |-> FALSE] /\ failed = [c \in Callers |-> FALSE]
    /\ result = [c \in Callers |-> ""] /\ object = [c \in Callers |-> {}]

\* A step of GenerateObject, or the one call of the others.
Call(c) ==
    /\ result[c] = "" /\ Plan(c).api # "" /\ step[c] <= Plan(c).steps
    /\ doRequest(c, Built(c), Reads(c))
    /\ UNCHANGED <<scene, step, asked, streamVars, over, result, object>>

\* The other codecs' request, which nothing follows up.
DoHTTP(c) ==
    /\ Plan(c).codec # "converse" /\ stage[c] = "send"
    /\ stage' = [stage EXCEPT ![c] = "back"]
    /\ UNCHANGED <<instance, then, want, streaming, err, at, tried, met>>
    /\ UNCHANGED <<scene, step, asked, streamVars, over, result, object>>

Converses(c) ==
    /\ Plan(c).codec = "converse" /\ ChainStep(c, scene.service)
    /\ UNCHANGED <<scene, step, asked, streamVars, over, result, object>>

\* A request in flight ends with its context.
GivesUp(c) ==
    /\ over[c]
    /\ \/ stage[c] = "sent" /\ stage' = [stage EXCEPT ![c] = then[c]]
       \/ Plan(c).codec # "converse" /\ stage[c] = "send" /\ stage' = [stage EXCEPT ![c] = "back"]
    /\ err' = [err EXCEPT ![c] = "canceled"]
    /\ UNCHANGED <<instance, then, want, streaming, at, tried, met>>
    /\ UNCHANGED <<scene, step, asked, streamVars, over, result, object>>

Cancel(c) ==
    /\ ~over[c] /\ result[c] = "" /\ Plan(c).canceled /\ over' = [over EXCEPT ![c] = TRUE]
    /\ UNCHANGED <<chainVars, scene, step, asked, streamVars, result, object>>

-----------------------------------------------------------------------------
\* An answer of the model: what it says first, the document (through the
\* made-up tool when that was offered), the tools it calls, and its end.
Offered(c) == \E i \in DOMAIN want[c].tools : want[c].tools[i] = ResponseFormatTool

Returns(c, how, fields) ==
    /\ result' = [result EXCEPT ![c] = how] /\ object' = [object EXCEPT ![c] = fields]
    /\ stage' = [stage EXCEPT ![c] = "idle"]

\* extractResponseFormatResult: the tool's arguments take the text's place.
WholeText(c, a) == IF Offered(c) /\ a.doc # <<>> THEN a.doc ELSE a.say \o a.doc

\* MUTANT: the object is read the way the partial ones are.
RepairsTheLast(c, said) ==
    CASE said = <<>> -> Returns(c, "empty", {})
      [] said # <<>> /\ PartialOf[said] = Unparsed -> Returns(c, "unparsed", {})
      [] OTHER -> Returns(c, "object", PartialOf[said])
Parses(c, said) ==
    CASE said = <<>> -> Returns(c, "empty", {})
      [] said # <<>> /\ ObjectOf[said] = Unparsed -> Returns(c, "unparsed", {})
      [] OTHER -> Returns(c, "object", ObjectOf[said])

\* GenerateObject, after DoGenerate.
Refusal(c) ==
    /\ stage[c] = "back" /\ err[c] # ""
    /\ Returns(c, "refused", {})
    /\ UNCHANGED <<instance, then, want, streaming, err, at, tried, met>>
    /\ UNCHANGED <<scene, step, asked, streamVars, over>>

Answered(c) ==
    /\ stage[c] = "back" /\ err[c] = "" /\ ~Plan(c).streams
    /\ \E a \in Plan(c).answers :
          /\ wrote' = [wrote EXCEPT ![c] = a.doc]
          /\ \/ a.end # "stop" /\ Returns(c, "failed", {}) /\ UNCHANGED <<step, asked, text>>
             \/ /\ a.end = "stop" /\ Plan(c).api = "text"
                /\ Returns(c, "text", {}) /\ UNCHANGED <<step, asked, text>>
             \/ /\ a.end = "stop" /\ Plan(c).api = "object" /\ ~(a.calls # {} /\ Plan(c).executes)
                /\ text' = [text EXCEPT ![c] = WholeText(c, a)]
                /\ Parses(c, WholeText(c, a)) /\ UNCHANGED <<step, asked>>
             \/ /\ a.end = "stop" /\ Plan(c).api = "object" /\ a.calls # {} /\ Plan(c).executes
                /\ step' = [step EXCEPT ![c] = @ + 1] /\ stage' = [stage EXCEPT ![c] = "idle"]
                /\ asked' = [asked EXCEPT ![c].choice = "", ![c].called = @ \cup a.calls]
                /\ UNCHANGED <<text, result, object>>
    /\ UNCHANGED <<instance, then, want, streaming, err, at, tried, met>>
    /\ UNCHANGED <<scene, left, ending, partial, over, failed>>

\* The steps are used up, or OnBeforeStep stops the loop.
Exhausted(c) ==
    /\ stage[c] = "idle" /\ result[c] = "" /\ Plan(c).api = "object"
    /\ step[c] > 1 /\ (step[c] > Plan(c).steps \/ Plan(c).hook)
    /\ Returns(c, "exhausted", {})
    /\ UNCHANGED <<instance, then, want, streaming, err, at, tried, met>>
    /\ UNCHANGED <<scene, step, asked, streamVars, over>>

-----------------------------------------------------------------------------
\* DoStream: Bedrock looks at the first frame, and asks again without tools
\* when it complains of them; the other changes doRequest made are forgotten.
AsksAgain(c) ==
    /\ stage[c] = "back" /\ err[c] = "" /\ Plan(c).streams
    /\ "frame" \in Refuses(scene.service, c)
    /\ stage' = [stage EXCEPT ![c] = "send"] /\ then' = [then EXCEPT ![c] = "cross"]
    /\ want' = [want EXCEPT ![c] = [Built(c) EXCEPT !.tools = <<>>, !.choice = ""]]
    /\ tried' = [tried EXCEPT ![c] = {}] /\ met' = [met EXCEPT ![c] = FALSE]
    /\ UNCHANGED <<instance, streaming, err, at, scene, step, asked, streamVars, over, result, object>>

\* Bedrock's made-up tool comes as one chunk, Anthropic's a bit at a time.
Chunks(c, a) ==
    LET bits(s) == [i \in 1..Len(s) |-> <<s[i]>>]
    IN bits(a.say) \o IF Plan(c).codec = "converse" /\ Offered(c) /\ a.doc # <<>> THEN <<a.doc>> ELSE bits(a.doc)

\* The stream is open; it may be cut short, with an error chunk or without.
Opens(c) ==
    /\ stage[c] = "back" /\ err[c] = "" /\ Plan(c).streams
    /\ "frame" \notin Refuses(scene.service, c)
    /\ IF Plan(c).api = "text" THEN Returns(c, "text", {}) /\ UNCHANGED <<wrote, left, ending>>
       ELSE \E a \in Plan(c).answers : \E n \in {Len(Chunks(c, a))} \cup {k \in 0..Len(Chunks(c, a)) : a.end # "stop"} :
               /\ stage' = [stage EXCEPT ![c] = "read"] /\ wrote' = [wrote EXCEPT ![c] = a.doc]
               /\ left' = [left EXCEPT ![c] = SubSeq(Chunks(c, a), 1, n)]
               /\ ending' = [ending EXCEPT ![c] = a.end]
               /\ UNCHANGED <<result, object>>
    /\ UNCHANGED <<instance, then, want, streaming, err, at, tried, met>>
    /\ UNCHANGED <<scene, step, asked, text, partial, over, failed>>

\* consume, a text chunk: with partial objects the attempt to send one stops
\* at the end of the context, without them every chunk looks for it.
ChunkText(c) ==
    /\ stage[c] = "read" /\ left[c] # <<>>
    /\ left' = [left EXCEPT ![c] = Tail(@)] /\ text' = [text EXCEPT ![c] = @ \o Head(left[c])]
    /\ LET fields == PartialOf[text'[c]]
           emits == Plan(c).partials /\ fields # Unparsed
       IN \/ /\ emits /\ partial' = [partial EXCEPT ![c] = [count |-> @.count + 1, fields |-> fields]]
             /\ UNCHANGED <<failed, result, object, stage>>
          \/ /\ over[c] /\ (emits \/ ~Plan(c).partials)
             /\ failed' = [failed EXCEPT ![c] = TRUE] /\ Returns(c, "canceled", {}) /\ UNCHANGED partial
          \/ ~emits /\ (Plan(c).partials \/ ~over[c]) /\ UNCHANGED <<partial, failed, result, object, stage>>
    /\ UNCHANGED <<instance, then, want, streaming, err, at, tried, met>>
    /\ UNCHANGED <<scene, step, asked, wrote, ending, over>>

\* The provider's goroutine: what it sends after the end of the context may
\* be dropped, the error chunk that tells of it among it.
StreamCut(c) ==
    /\ stage[c] = "read" /\ over[c] /\ ending[c] # "cut"
    /\ left' = [left EXCEPT ![c] = <<>>]
    /\ \E e \in {"cut", "fails"} : ending' = [ending EXCEPT ![c] = e]
    /\ UNCHANGED <<chainVars, scene, step, asked, wrote, text, partial, over, failed, result, object>>

\* The stream is over: an error chunk, the parse, Result.
Consumed(c) ==
    /\ stage[c] = "read" /\ left[c] = <<>>
    /\ LET lost == ending[c] = "fails" \/ (~Plan(c).partials /\ over[c] /\ ending[c] = "stop")
       IN IF lost THEN failed' = [failed EXCEPT ![c] = TRUE] /\ Returns(c, "failed", {})
          ELSE Parses(c, text[c]) /\ UNCHANGED failed
    /\ UNCHANGED <<instance, then, want, streaming, err, at, tried, met>>
    /\ UNCHANGED <<scene, step, asked, wrote, left, ending, text, partial, over>>

Step(c) ==
    \/ Call(c) \/ DoHTTP(c) \/ Converses(c) \/ GivesUp(c)
    \/ Refusal(c) \/ Answered(c) \/ Exhausted(c)
    \/ AsksAgain(c) \/ Opens(c) \/ ChunkText(c) \/ StreamCut(c) \/ Consumed(c)

Next == \E c \in Callers : Step(c) \/ Cancel(c)

Spec == Init /\ [][Next]_vars /\ \A c \in Callers : WF_vars(Step(c))

-----------------------------------------------------------------------------
\* The caller has a request under way.
Requests(c) == stage[c] \in {"send", "sent", "back"}

\* What a body says of the tool choice and of the format.
ChoiceIn(body) ==
    CASE "tool_choice" \in DOMAIN body -> body["tool_choice"]
      [] "toolConfig.toolChoice" \in DOMAIN body -> body["toolConfig.toolChoice"]
      [] "toolConfig.functionCallingConfig" \in DOMAIN body -> body["toolConfig.functionCallingConfig"]
      [] OTHER -> <<>>
FormatIn(body) ==
    {k \in DOMAIN body : k \in {"response_format", "text.format", "output_config.format", "format",
                                "generationConfig.responseMimeType"}}

\* An option does not pass for what the call itself says: a field that is there
\* without the options is never an option's, but for the fields a codec leaves
\* to them.  Two of these are for an option to set (a default of thinking); the
\* compatible codec's and Responses' are not among its protected keys, or are
\* mapped over them (openaicompat.go:41, responses.go:227; README, 7).
Yields(codec) ==
    CASE codec = "compat" -> {"top_k", "stream_options"}
      [] codec = "responses" -> {"instructions"}
      [] codec = "google" -> {"generationConfig.thinkingConfig"}
      [] codec = "ollama" -> {"think"}
      [] OTHER -> {}
Unspoiled(c, body) ==
    LET spoken == DOMAIN BodyOf(c, [want[c] EXCEPT !.opts = Nothing]) \ Yields(Plan(c).codec)
    IN \A k \in DOMAIN body \cap spoken : body[k] # <<"option">>

\* The object is asked for, with its format or its tool, unless an option
\* takes the place of the field or the service would have no tools.
FormatAsked(c, body) ==
    \/ asked[c].format = "" \/ FormatIn(body) # {} \/ Offered(c)
    \/ Has(asked[c], "text") \/ Has(asked[c], "output_config")
    \/ Plan(c).codec = "converse" /\ want[c].tools = <<>>

\* A tool that is forced is one of those offered, and Anthropic's API, told to
\* think, is not forced to one (Bedrock's codec does not see to that).
ForcedIsOffered(c, body) ==
    Head(ChoiceIn(body) \o <<"">>) = "named" => \E i \in DOMAIN want[c].tools : want[c].tools[i] = ChoiceIn(body)[2]
ThinkingUnforced(c, body) ==
    Plan(c).codec = "anthropic" /\ Opt(want[c], "thinking") = "enabled" =>
        Head(ChoiceIn(body) \o <<"">>) \notin {"named", "required"}

\* Bedrock: the limit leaves room beside the thinking, and a conversation that
\* called tools comes with tools, unless the call offers some and chooses none.
RoomToThink(c) ==
    LET model == Plan(c).model IN
    Plan(c).codec = "converse" /\ ThinkingOn(model, want[c]) =>
        ConverseLimit(model, want[c]) > Reasoning(model, want[c]).budget \/ Reasoning(model, want[c]).budget = 0
HistoryDeclared(c, body) ==
    Plan(c).codec = "converse" /\ want[c].called # {} =>
        "toolConfig.tools" \in DOMAIN body \/ (want[c].choice = "none" /\ want[c].tools # <<>>)

\* Whatever options come along and whatever fallback rewrote the parameters,
\* a request says what the call asked for: the stream flag is the one the
\* answer is read by, no field of the call's own is an option's but those named
\* in Yields, the object's format is there unless an option names another, a
\* forced tool is offered and on Anthropic's API never forced on thinking, the
\* limit has room for the thinking (bedrock.go:742), and called tools are
\* declared where the call has no tools of its own (bedrock.go:484).
AsAsked ==
    \A c \in Callers : Requests(c) =>
        LET body == Body(c) IN
        /\ "stream" \in DOMAIN body => body["stream"] = <<ToString(streaming[c])>>
        /\ Unspoiled(c, body) /\ FormatAsked(c, body)
        /\ ForcedIsOffered(c, body) /\ ThinkingUnforced(c, body)
        /\ RoomToThink(c) /\ HistoryDeclared(c, body)

\* An object that is returned is the document the model wrote, all of it:
\* not a prefix a cut stream left behind, not what was said before it
\* (object.go:352, object.go:537).
ObjectIsWhole ==
    \A c \in Callers : result[c] = "object" => wrote[c] # <<>> /\ object[c] = ObjectOf[wrote[c]]

\* PartialObjectStream: each object has the fields of the one before, the
\* last one's are in the final object, and as long as the text is the
\* document every chunk of it gives an object (object.go:149, partial_json.go).
PartialsGrow ==
    [][\A c \in Callers : Plan(c).partials =>
          /\ partial[c].fields \subseteq partial'[c].fields
          /\ result'[c] = "object" => partial'[c].fields \subseteq object'[c]
          /\ text'[c] # text[c] /\ IsPrefix(text'[c], wrote[c]) /\ ~over[c] => partial'[c].count = partial[c].count + 1]_vars

\* The shared id has the prefix once at most; and a call that no other moved
\* it under comes back "invalid identifier" only after the bare id was tried
\* in us-east-1 too (bedrock.go:564, bedrock.go:607).
RefusedEverywhere ==
    /\ mid \in {Bare, Profile}
    /\ \A c \in Callers :
          stage[c] = "back" /\ err[c] = "unknown" /\ ~met[c] => <<Bare, US>> \in tried[c]

\* A call refused its bare id where the model was made, whose fallbacks came
\* to nothing, has tried the us. profile (bedrock.go:610,
\* docs/providers/bedrock.md:240).
ProfileTried ==
    \A c \in Callers :
        stage[c] = "back" /\ err[c] \in Misplaced /\ <<Bare, Home>> \in tried[c] => <<Profile, US>> \in tried[c]

\* Every call comes back: the fallbacks, their repetition by DoStream, the
\* steps of the loop and the consumption of a stream all end, cancelled or
\* not (bedrock.go:447, object.go:219, object.go:424).
CallEnds == \A c \in Callers : (Plan(c).api # "") ~> (result[c] # "")
=============================================================================
