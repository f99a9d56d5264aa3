---------------------------- MODULE ProviderCall ----------------------------
(***************************************************************************)
(* One call of a language model through a provider: the conversation       *)
(* becomes a request, the server's events become chunks on the way to the  *)
(* caller (provider.RunStream and the parsers it runs), while the call may *)
(* be cancelled and the connection may break.  The server answers the same *)
(* whether it streams or not, so the two results can be compared.          *)
(***************************************************************************)
EXTENDS CompatCodec, ResponsesCodec, AnthropicCodec, GoogleCodec, ConverseCodec,
        CohereCodec, OllamaCodec

CONSTANTS
    Codecs,         \* the codecs taken
    Answers,        \* what the model may say
    RawUsages,      \* the counts a server may report
    Turns,          \* the parts an assistant's message may have
    MaxMessages,    \* bound: messages of a conversation
    OutCap          \* capacity of the chunk channel (64 in the code)

ASSUME CallAssumption == MaxMessages \in Nat /\ OutCap \in Nat \ {0}

VARIABLES
    phase,      \* building, built, streaming, generated
    conv,       \* the conversation, GenerateParams.Messages
    codec,      \* the provider's codec
    request,    \* the messages of the request
    reply,      \* the answer: its events, what it is as a whole
    events,     \* the events the parser has not read
    fault,      \* what went wrong on the connection
    cancelled,  \* the context is done
    body,       \* the response body is open
    parser,     \* reading, sending, leaving, deferred, returning, closed
    ps,         \* the parser's variables
    todo,       \* the chunks it is about to send
    last,       \* it returns after them
    chan,       \* the chunk channel
    got,        \* the chunks the caller took
    result      \* what a call without streaming returned

convVars == <<conv, request>>
callVars == <<codec, reply>>
streamVars == <<events, fault, cancelled, body, parser, ps, todo, last, chan, got>>
vars == <<phase, conv, codec, request, reply, events, fault, cancelled, body, parser, ps, todo, last, chan, got, result>>

-----------------------------------------------------------------------------
\* The codec's own operators.
Convert(c, msgs) ==
    CASE c = "compat" -> CompatConvert(msgs, TRUE) [] c = "responses" -> ResponsesInput(msgs)
      [] c = "anthropic" -> AnthropicConvert(msgs) [] c = "google" -> GoogleConvert(msgs)
      [] c = "converse" -> ConverseConvert(msgs) [] c = "cohere" -> CohereConvert(msgs)
      [] c = "ollama" -> OllamaConvert(msgs)

Start(c, rf) ==
    CASE c = "compat" -> CompatStart [] c = "responses" -> ResponsesStart [] c = "anthropic" -> AnthropicStart(rf)
      [] c = "google" -> GoogleStart [] c = "converse" -> ConverseStart(rf) [] c = "cohere" -> CohereStart
      [] c = "ollama" -> OllamaStart

On(c, ev, raw) ==
    CASE c = "compat" -> {CompatOn(ps, ev, raw)} [] c = "responses" -> {ResponsesOn(ps, ev, raw)}
      [] c = "anthropic" -> AnthropicOn(ps, ev, raw) [] c = "google" -> {GoogleOn(ps, ev, raw)}
      [] c = "converse" -> {ConverseOn(ps, ev, raw)} [] c = "cohere" -> {CohereOn(ps, ev, raw)}
      [] c = "ollama" -> {OllamaOn(ps, ev)}

End(c, failed, raw) ==
    CASE c = "compat" -> {CompatEnd(ps, failed)} [] c = "responses" -> {ResponsesEnd}
      [] c = "anthropic" -> AnthropicEnd(ps, failed, raw) [] c = "google" -> {GoogleEnd(ps, failed, raw)}
      [] c = "converse" -> {ConverseEnd(failed)} [] c = "cohere" -> {CohereEnd(failed)}
      [] c = "ollama" -> {OllamaEnd(ps, failed, raw)}

\* The parsers of two codecs have a finish deferred: it goes out last however
\* they return.
Deferred(c) == CASE c = "converse" -> ConverseDeferred(ps) [] c = "cohere" -> CohereDeferred(ps) [] OTHER -> <<>>

\* An error the server reports inside the stream, and an event that cannot be
\* read; some codecs have neither.
Faulty(c) ==
    CASE c = "compat" -> {CompatError, CompatJunk}
      [] c = "responses" -> {RespEv(t, 0) : t \in {"failed", "error", "junk", "[DONE]"}}
      [] c = "anthropic" -> {AnthEv("error", 0)} [] c = "google" -> {GoogleError, GoogleJunk}
      [] c = "converse" -> {Frame("exception", 0)} [] c = "cohere" -> {CohereEvent}
      [] c = "ollama" -> {OllamaJunk}

\* What the server makes of an answer: events, and the same as a whole.
Reply(events_, whole, raw, rf) == [events |-> events_, whole |-> whole, raw |-> raw, rf |-> rf, blocks |-> <<>>]
ReasonOf(script) == LET ended == SelectSeq(script, LAMBDA e : e.reason # "") IN ended[1].reason
Replies(c, a, raw) ==
    CASE c = "compat" -> {Reply(s, CompatParse(a, ReasonOf(s), raw), raw, FALSE) : s \in CompatScripts(a)}
      [] c = "responses" -> {Reply(s, ResponsesParse(a, raw), raw, FALSE) : s \in ResponsesScripts(a)}
      [] c = "anthropic" ->
            {[Reply(AnthropicScript(bs, a.cause), AnthropicParse(AnthropicDocument(bs, a.cause), a.rf, raw), raw, a.rf)
                EXCEPT !.blocks = bs] :
                bs \in {AnthropicBlocks(a, between, parallel) : between \in BOOLEAN, parallel \in BOOLEAN}}
      [] c = "google" -> {Reply(s, GoogleParse(a, raw), raw, FALSE) : s \in GoogleScripts(a)}
      [] c = "converse" -> {Reply(s, ConverseParse(a, a.rf, raw), raw, a.rf) : s \in ConverseScripts(a)}
      [] c = "cohere" -> {Reply(s, CohereParse(a, raw), raw, FALSE) : s \in CohereScripts(a)}
      [] c = "ollama" -> {Reply(s, OllamaParse(s, raw), raw, FALSE) : s \in OllamaScripts(a)}

\* Only Anthropic runs tools itself or pauses; the response-format tool and
\* redacted reasoning are Anthropic's and Bedrock's; a call may lack its id
\* on servers that speak OpenAI's protocol, on Gemini and on Ollama.
Says(c, a) ==
    /\ c = "anthropic" \/ (a.served = 0 /\ a.cause # "paused")
    /\ c \in {"anthropic", "converse"} \/ (~a.rf /\ \A k \in DOMAIN a.reasoning : a.reasoning[k] # <<>>)
    /\ c \in {"compat", "google", "ollama"} \/ \A i \in DOMAIN a.calls : a.calls[i].id # 0

-----------------------------------------------------------------------------
NoReply == Reply(<<>>, EmptyResult, [prompt |-> 0], FALSE)

Init ==
    /\ phase = "building" /\ conv = <<>> /\ codec = "" /\ request = <<>> /\ reply = NoReply
    /\ events = <<>> /\ fault = "" /\ cancelled = FALSE /\ body = FALSE
    /\ parser = "closed" /\ ps = "" /\ todo = <<>> /\ last = FALSE /\ chan = <<>> /\ got = <<>>
    /\ result = EmptyResult

\* The conversation grows.  The caller may speak before the calls of the
\* last turn are answered: a call was aborted, or the history was cut.
Unanswered ==
    LET asked == {i \in DOMAIN conv : conv[i].role = "assistant"}
        i == Max(asked)
        results == UNION {Ids(conv[j].parts, {"result"}) : j \in i + 1..Len(conv)}
    IN IF asked = {} THEN {} ELSE Ids(conv[i].parts, {"call"}) \ results

Extend(m) ==
    /\ phase = "building" /\ Len(conv) < MaxMessages
    /\ conv' = Append(conv, m)
    /\ UNCHANGED <<phase, request, callVars, streamVars, result>>

UserSays == /\ conv # <<>> => Last(conv).role # "user"
            /\ Extend(Msg("user", <<Part("text", 1)>>))

AssistantSays(turn) ==
    /\ conv # <<>> /\ Last(conv).role # "assistant"
    /\ Last(conv).role = "user" \/ Unanswered = {}
    /\ Extend(Msg("assistant", [j \in DOMAIN turn |->
            IF turn[j].t \in {"call", "server"} THEN Part(turn[j].t, 10 * Len(conv) + turn[j].id) ELSE turn[j]]))

ToolsAnswer(ids) ==
    /\ conv # <<>> /\ Last(conv).role \in {"assistant", "tool"}
    /\ Extend(Msg("tool", [j \in DOMAIN ids |-> Part("result", ids[j])]))

\* buildRequest's messages.
Build(c) ==
    /\ phase = "building" /\ conv # <<>> /\ Last(conv).role # "assistant"
    /\ phase' = "built" /\ codec' = c /\ request' = Convert(c, conv)
    /\ UNCHANGED <<conv, reply, streamVars, result>>

\* The request is sent and answered; the conversation is not kept.
Answered(a, raw) ==
    /\ phase = "built" /\ Says(codec, a)
    /\ reply' \in Replies(codec, a, raw)
    /\ conv' = <<>> /\ request' = <<>>
    /\ UNCHANGED codec

DoStream(a, raw) ==
    /\ Answered(a, raw)
    /\ phase' = "streaming" /\ events' = reply'.events
    /\ body' = TRUE /\ parser' = "reading" /\ ps' = Start(codec, reply'.rf)
    /\ UNCHANGED <<fault, cancelled, todo, last, chan, got, result>>

\* DoGenerate over Anthropic's streaming transport: some events arrive, then
\* the stream ends or an event breaks it; an error returns no result.
DoGenerate(a, raw, bad) ==
    /\ codec = "anthropic" /\ Answered(a, raw)
    /\ phase' = "generated"
    /\ \E n \in 0..Len(reply'.events) :
          LET doc == accumulateStreamedMessage(SubSeq(reply'.events, 1, n) \o bad)
          IN /\ result' = IF doc.failed THEN EmptyResult ELSE AnthropicParse(doc, reply'.rf, raw)
             /\ fault' = IF n < Len(reply'.events) \/ bad # <<>> THEN "cut" ELSE ""
    /\ UNCHANGED <<events, cancelled, body, parser, ps, todo, last, chan, got>>

-----------------------------------------------------------------------------
Streaming == phase = "streaming"

\* What the parser does next, given what it is about to send.
Resume(out, over) ==
    /\ todo' = out /\ last' = over
    /\ parser' = IF out # <<>> THEN "sending" ELSE IF over THEN "leaving" ELSE "reading"

\* The Responses parser looks at the context before it uses what it read.
Reading == Streaming /\ parser = "reading"
Uses == codec # "responses" \/ ~cancelled

Read ==
    /\ Reading /\ body /\ Uses /\ events # <<>>
    /\ \E r \in On(codec, Head(events), reply.raw) : ps' = r.st /\ Resume(r.out, r.over)
    /\ events' = Tail(events)
    /\ UNCHANGED <<phase, convVars, callVars, fault, cancelled, body, chan, got, result>>

\* One fault of the connection in a call: an error event or an unreadable
\* one, a reset, an end that comes early.
ReadFaulty(ev) ==
    /\ Reading /\ body /\ Uses /\ fault = "" /\ events # <<>>
    /\ \E r \in On(codec, ev, reply.raw) : ps' = r.st /\ Resume(r.out, r.over)
    /\ fault' = "event"
    /\ UNCHANGED <<phase, convVars, callVars, events, cancelled, body, chan, got, result>>

ReadEnds(failed) ==
    /\ \E out \in End(codec, failed, reply.raw) : Resume(out, TRUE)
    /\ UNCHANGED <<phase, convVars, callVars, events, cancelled, body, ps, chan, got, result>>

Cut == Reading /\ body /\ Uses /\ fault = "" /\ fault' = "cut" /\ ReadEnds(TRUE)
Eof == Reading /\ body /\ Uses /\ events = <<>> /\ ReadEnds(FALSE) /\ UNCHANGED fault
EarlyEof == Reading /\ body /\ Uses /\ fault = "" /\ events # <<>> /\ fault' = "eof" /\ ReadEnds(FALSE)

\* The body was closed under the parser.
ReadClosed == Reading /\ ~body /\ Uses /\ ReadEnds(TRUE) /\ UNCHANGED fault

\* The Responses parser's other two cases: it tells the cancellation if there
\* is room, and gives up on a server that sends nothing.
TellCancelled ==
    /\ Reading /\ codec = "responses" /\ cancelled
    /\ chan' = IF Len(chan) < OutCap THEN Append(chan, ErrorChunk) ELSE chan
    /\ Resume(<<>>, TRUE)
    /\ UNCHANGED <<phase, convVars, callVars, events, fault, cancelled, body, ps, got, result>>

IdleTimeout ==
    /\ Reading /\ codec = "responses" /\ ~cancelled /\ fault = ""
    /\ fault' = "idle" /\ Resume(<<ErrorChunk>>, TRUE)
    /\ UNCHANGED <<phase, convVars, callVars, events, cancelled, body, ps, chan, got, result>>

\* TrySend: the chunk goes out if there is room, and if the context is done
\* it may be dropped, which ends the parser.
Sent ==
    /\ Len(chan) < OutCap
    /\ chan' = Append(chan, Head(todo)) /\ todo' = Tail(todo)
    /\ parser' = CASE Tail(todo) # <<>> -> parser
                   [] Tail(todo) = <<>> /\ parser = "deferred" -> "returning"
                   [] OTHER -> IF last THEN "leaving" ELSE "reading"

Dropped ==
    /\ cancelled
    /\ todo' = <<>> /\ parser' = IF parser = "deferred" THEN "returning" ELSE "leaving"
    /\ UNCHANGED chan

TrySend ==
    /\ Streaming /\ parser \in {"sending", "deferred"}
    /\ Sent \/ Dropped
    /\ UNCHANGED <<phase, convVars, callVars, events, fault, cancelled, body, ps, last, got, result>>

\* The deferred calls of the parser: a finish it has not sent, then the
\* channel is closed.
Leave ==
    /\ Streaming /\ parser = "leaving"
    /\ todo' = Deferred(codec)
    /\ parser' = IF Deferred(codec) # <<>> THEN "deferred" ELSE "returning"
    /\ UNCHANGED <<phase, convVars, callVars, events, fault, cancelled, body, ps, last, chan, got, result>>

CloseOut ==
    /\ Streaming /\ parser = "returning"
    /\ parser' = "closed"
    /\ UNCHANGED <<phase, convVars, callVars, events, fault, cancelled, body, ps, todo, last, chan, got, result>>

\* RunStream's closeBody: when the parser has returned, or by the watchdog as
\* soon as the context is done.
\* MUTANT: there is no watchdog.
CloseBodyAfter ==
    /\ Streaming /\ body /\ parser = "closed"
    /\ body' = FALSE
    /\ UNCHANGED <<phase, convVars, callVars, events, fault, cancelled, parser, ps, todo, last, chan, got, result>>
CloseBody ==
    /\ Streaming /\ body
    /\ parser = "closed" \/ cancelled
    /\ body' = FALSE
    /\ UNCHANGED <<phase, convVars, callVars, events, fault, cancelled, parser, ps, todo, last, chan, got, result>>

\* The caller.
Take ==
    /\ Streaming /\ chan # <<>>
    /\ got' = Append(got, Head(chan)) /\ chan' = Tail(chan)
    /\ UNCHANGED <<phase, convVars, callVars, events, fault, cancelled, body, parser, ps, todo, last, result>>

Cancel ==
    /\ Streaming /\ ~cancelled /\ parser # "closed"
    /\ cancelled' = TRUE
    /\ UNCHANGED <<phase, convVars, callVars, events, fault, body, parser, ps, todo, last, chan, got, result>>

Talk ==
    \/ UserSays
    \/ \E turn \in Turns : AssistantSays(turn)
    \/ \E ids \in UNION {SetToSeqs(S) : S \in SUBSET Unanswered \ {{}}} : ToolsAnswer(ids)
    \/ \E c \in Codecs : Build(c)
    \/ \E a \in Answers, raw \in RawUsages : DoStream(a, raw)
    \/ \E a \in Answers, raw \in RawUsages, bad \in {<<>>, <<AnthEv("error", 0)>>, <<AnthEv("junk", 0)>>} :
          DoGenerate(a, raw, bad)

Parse ==
    \/ Read \/ Cut \/ Eof \/ EarlyEof \/ ReadClosed
    \/ (Reading /\ \E ev \in Faulty(codec) : ReadFaulty(ev))
    \/ TellCancelled \/ IdleTimeout
    \/ TrySend \/ Leave \/ CloseOut \/ CloseBody

Next == Talk \/ Parse \/ Take \/ Cancel

\* The goroutines run; the server need not answer, the caller need not take.
Fairness == /\ WF_vars(ReadClosed) /\ WF_vars(TellCancelled) /\ WF_vars(TrySend)
            /\ WF_vars(Leave) /\ WF_vars(CloseOut) /\ WF_vars(CloseBody)
Spec == Init /\ [][Next]_vars /\ Fairness

-----------------------------------------------------------------------------
\* Properties.

Has(type) == \E i \in DOMAIN got : got[i].type = type
Complete == Streaming /\ parser = "closed" /\ chan = <<>> /\ fault = "" /\ ~cancelled

\* What the codec tells of a result: Responses and Anthropic have citations
\* only in a whole one.
Told(r) == [r EXCEPT !.sources = IF codec \in {"responses", "anthropic"} THEN <<>> ELSE @,
                     !.content = AnthropicWire(@)]
\* The reason as the chunks tell it, and the codecs whose finish repeats it.
Reasons == SelectSeq(got, LAMBDA c : c.type \in {"step_finish", "finish"} /\ c.fin # "")
Repeats == {"anthropic", "cohere", "ollama"}

\* A stream that nothing disturbs adds up, in drainStep, to what the same answer
\* is without streaming - calls, reasoning, usage, sources and parts - unless a
\* call is longer than the codec takes.  Its chunks tell the reason, but only the
\* codecs whose finish repeats it keep it: the other four end on a finish without
\* one, which replaces the step's (generate.go:2321).  A message put together from
\* events is the whole one.
StreamFaithful ==
    /\ Complete /\ ~Has("error") =>
          LET streamed == drainStep(got)
          IN /\ Told([streamed EXCEPT !.fin = Last(Reasons).fin]) = Told(reply.whole)
             /\ streamed.fin = IF codec \in Repeats THEN reply.whole.fin ELSE ""
    /\ Complete /\ Has("error") =>
          codec = "compat" /\ \E i \in DOMAIN reply.whole.calls : Len(reply.whole.calls[i].args) > CompatMaxArgs
    /\ phase = "generated" /\ fault = "" => result = reply.whole

\* What Anthropic must see again comes back as it was, on the way from the events
\* of one step into the request of the next: a turn with thinking, which is bound
\* to what precedes it, with its blocks in their order, any other with its calls -
\* the server's too - behind the rest and nothing lost (anthropic.go:749).  A call
\* whose result came is the server's, with its result behind it.  A response-format
\* turn and a paused one are not replayed this way.
Replayable == Ids(reply.blocks, {"served"}) = Ids(reply.blocks, {"server"})
Verbatim(blocks) == SelectSeq(blocks, LAMBDA b : b.t # "served")
AsSaid == LET blocks == Verbatim(reply.blocks)
              thinking == \E j \in DOMAIN blocks : blocks[j].t \in {"reasoning", "redacted"}
          IN IF thinking THEN blocks ELSE SelectSeq(blocks, LAMBDA b : b.t \notin Calls) \o Kind(blocks, Calls)
ReplayVerbatim ==
    Complete /\ codec = "anthropic" /\ ~reply.rf /\ Replayable =>
        Verbatim(AnthropicWire(AnthropicOrder(Msg("assistant", drainStep(got).content)).parts)) = AsSaid

\* A broken stream is told: an error chunk when the read fails, at most one
\* finish, nothing of the answer after it, and never a result made of a part
\* of the message.
FailureTold ==
    /\ Streaming /\ parser = "closed" /\ chan = <<>> /\ ~cancelled /\ fault \in {"cut", "idle"} => Has("error")
    /\ \A i, j \in DOMAIN got : i < j /\ got[i].type = "finish" => got[j].type = "error"
    /\ phase = "generated" /\ fault # "" => result \in {EmptyResult, reply.whole}

\* A request has every call and result of the conversation, in order.  To
\* Anthropic and Bedrock it alternates between the two roles, and the message
\* after a turn answers each of its calls once and nothing else.
Asked(msgs) == FlattenSeq([i \in DOMAIN msgs |-> Kind(msgs[i].parts, {"call"})])
Results(msgs) == FlattenSeq([i \in DOMAIN msgs |-> Kind(msgs[i].parts, {"result"})])
RequestPaired ==
    phase = "built" =>
        /\ Asked(request) = Asked(conv)
        /\ codec \notin {"anthropic", "converse"} => Results(request) = Results(conv)
        /\ codec \in {"anthropic", "converse"} =>
              \A i \in DOMAIN request :
                LET calls == Kind(request[i].parts, {"call"})
                    results == IF i = Len(request) THEN <<>> ELSE Kind(request[i + 1].parts, {"result"})
                IN /\ request[i].role = (IF i % 2 = 1 THEN "user" ELSE "assistant")
                   /\ request[i].role = "assistant" =>
                        Len(calls) = Len(results) /\ Ids(request[i].parts, {"call"}) = {results[j].id : j \in DOMAIN results}

\* However the call stands when its context ends, the channel is closed and
\* the connection given back, also when the caller has stopped taking chunks
\* and the server sends nothing more.
StreamEnds == (Streaming /\ cancelled) ~> (parser = "closed" /\ ~body)
=============================================================================
