---------------------------- MODULE CohereCodec ----------------------------
(***************************************************************************)
(* provider/cohere: the codec of the v2 chat API.  Calls come one after    *)
(* the other; a stream that ends without message-end is given a finish on  *)
(* the way out.                                                            *)
(***************************************************************************)
EXTENDS ProviderWire, Messages

-----------------------------------------------------------------------------
\* The server's side.
CohereEvent == [type |-> "other", id |-> 0, v |-> <<>>, source |-> 0, reason |-> ""]
CohereEv(type, v) == [CohereEvent EXCEPT !.type = type, !.v = v]

CohereReason(cause) ==
    CASE cause = "end" -> "COMPLETE" [] cause = "calls" -> "TOOL_CALL" [] cause = "limit" -> "MAX_TOKENS"
      [] cause = "filter" -> "ERROR" [] OTHER -> "novel"
CohereArgs(c) == IF c.args = <<>> THEN <<0>> ELSE c.args

\* A call's first fragment comes with its start or after it.
CohereScripts(a) ==
    LET said(type, v) == [j \in DOMAIN v |-> CohereEv(type, <<v[j]>>)]
        call(i, early) ==
            LET args == CohereArgs(a.calls[i])
                start(v) == [CohereEv("tool-call-start", v) EXCEPT !.id = a.calls[i].id]
            IN (IF early THEN <<start(<<Head(args)>>)>> \o said("tool-call-delta", Tail(args))
                ELSE <<start(<<>>)>> \o said("tool-call-delta", args))
               \o <<CohereEv("tool-call-end", <<>>)>>
    IN {<<CohereEvent>> \o said("thinking", FlattenSeq(a.reasoning)) \o said("text", a.text)
        \o FlattenSeq([i \in DOMAIN a.calls |-> call(i, early)])
        \o [j \in DOMAIN a.sources |-> [CohereEv("citation-start", <<>>) EXCEPT !.source = a.sources[j]]]
        \o <<[CohereEv("message-end", <<>>) EXCEPT !.reason = CohereReason(a.cause)]>> : early \in BOOLEAN}

-----------------------------------------------------------------------------
\* mapFinishReason, other when there is none.
CohereFinish(r) ==
    CASE r = "COMPLETE" -> "stop" [] r = "TOOL_CALL" -> "tool-calls" [] r = "MAX_TOKENS" -> "length"
      [] r = "ERROR" -> "error" [] OTHER -> "other"
CohereUsage(u) == [ZeroUsage EXCEPT !.input = u.prompt, !.output = u.completion, !.total = u.prompt + u.completion]

NoPending == [on |-> FALSE, id |-> 0, args |-> <<>>]
CohereStart == [pending |-> NoPending, sources |-> <<>>, finished |-> FALSE]

\* parseChatStream, one event.  The arguments of a call go out with its end,
\* an empty object when there were none; message-end tells the reason twice.
CohereOn(st, ev, raw) ==
    LET call == st.pending
        delta(v) == DeltaChunk(call.id, v)
        fin == CohereFinish(ev.reason)
    IN CASE ev.type = "thinking" -> Goes(st, NonEmpty(ReasoningChunk, ev.v))
         [] ev.type \in {"text", "tool-plan-delta"} -> Goes(st, NonEmpty(TextChunk, ev.v))
         [] ev.type = "tool-call-start" ->
                Goes([st EXCEPT !.pending = [on |-> TRUE, id |-> ev.id, args |-> ev.v]], <<StartChunk(ev.id)>>)
         [] ev.type = "tool-call-delta" /\ call.on ->
                Goes([st EXCEPT !.pending.args = @ \o ev.v], NonEmpty(delta, ev.v))
         [] ev.type = "tool-call-end" /\ call.on ->
                Goes([st EXCEPT !.pending = NoPending], <<CallChunk(call.id, CohereArgs(call))>>)
         [] ev.type = "citation-start" -> Goes([st EXCEPT !.sources = Append(@, ev.source)], <<>>)
         [] ev.type = "message-end" ->
                Goes([st EXCEPT !.finished = TRUE],
                     <<StepFinishChunk(fin, ZeroUsage),
                       [FinishChunk(fin, CohereUsage(raw)) EXCEPT !.sources = st.sources]>>)
         [] OTHER -> Goes(st, <<>>)

\* The end of the stream, and what every way out tries to send last.
CohereEnd(failed) == IF failed THEN <<ErrorChunk>> ELSE <<>>
CohereDeferred(st) == IF st.finished THEN <<>> ELSE <<FinishChunk("other", ZeroUsage)>>

\* parseChatResponse.
CohereParse(a, raw) ==
    [EmptyResult EXCEPT
        !.text = a.text, !.reasoning = FlattenSeq(a.reasoning), !.sources = a.sources,
        !.calls = [i \in DOMAIN a.calls |-> [id |-> a.calls[i].id, args |-> CohereArgs(a.calls[i])]],
        !.fin = CohereFinish(CohereReason(a.cause)), !.usage = CohereUsage(raw)]

\* buildChatRequest's messages: a result is a message of its own, of any
\* other message the texts and the calls remain.
CohereConvert(msgs) ==
    FlattenSeq([i \in DOMAIN msgs |->
        LET parts == msgs[i].parts IN
        IF msgs[i].role = "tool"
        THEN [j \in DOMAIN Kind(parts, {"result"}) |-> Msg("tool", <<Kind(parts, {"result"})[j]>>)]
        ELSE <<Msg(msgs[i].role, Kind(parts, {"text"}) \o Kind(parts, {"call", "server"}))>>])
=============================================================================
