---------------------------- MODULE OllamaCodec ----------------------------
(***************************************************************************)
(* provider/ollama: the codec of the native chat API, one JSON object per  *)
(* line, also in a response that is not streamed.  Its calls have no ids.  *)
(***************************************************************************)
EXTENDS ProviderWire, Messages

-----------------------------------------------------------------------------
\* The server's side: a line's content, thinking and calls; the last one has
\* the reason and the counts.
OllamaLine == [thinking |-> <<>>, text |-> <<>>, calls |-> <<>>, reason |-> "", last |-> FALSE, line |-> "json"]
OllamaJunk == [OllamaLine EXCEPT !.line = "junk"]
OllamaReason(cause) == IF cause \in {"end", "calls"} THEN "stop" ELSE "novel"

OllamaScripts(a) ==
    LET each(k, v) == [j \in DOMAIN v |-> [OllamaLine EXCEPT ![k] = <<v[j]>>]]
        last == [OllamaLine EXCEPT !.reason = OllamaReason(a.cause), !.last = TRUE]
        thinking == FlattenSeq(a.reasoning)
    IN {each("thinking", thinking) \o each("text", a.text) \o each("calls", a.calls) \o <<last>>,
        <<[last EXCEPT !.thinking = thinking, !.text = a.text, !.calls = a.calls]>>}

-----------------------------------------------------------------------------
OllamaFinish(r) == CASE r = "stop" -> "stop" [] r = "tool_calls" -> "tool-calls" [] OTHER -> "other"
OllamaUsage(u) == [ZeroUsage EXCEPT !.input = u.prompt, !.output = u.completion]
OllamaArgs(c) == IF c.args = <<>> THEN <<0>> ELSE c.args

\* The last line read gives the reason and the counts.
OllamaStart == OllamaLine

\* DoStream's loop, one line.
OllamaOn(st, ev) ==
    IF ev.line = "junk" THEN Stops(st, <<ErrorChunk>>)
    ELSE Goes(ev, NonEmpty(TextChunk, ev.text) \o NonEmpty(ReasoningChunk, ev.thinking)
                  \o FlattenSeq([i \in DOMAIN ev.calls |-> <<StartChunk(0), CallChunk(0, OllamaArgs(ev.calls[i]))>>]))

OllamaCounted(st, raw) == IF st.last THEN OllamaUsage(raw) ELSE ZeroUsage
OllamaEnd(st, failed, raw) ==
    IF failed THEN <<ErrorChunk>> ELSE <<FinishChunk(OllamaFinish(st.reason), OllamaCounted(st, raw))>>

\* DoGenerate reads the same lines.
OllamaRead(acc, ev) ==
    [acc EXCEPT !.text = @ \o ev.text, !.reasoning = @ \o ev.thinking,
                !.calls = @ \o [i \in DOMAIN ev.calls |-> [id |-> 0, args |-> OllamaArgs(ev.calls[i])]],
                !.fin = OllamaFinish(ev.reason)]
OllamaParse(lines, raw) ==
    [FoldLeft(OllamaRead, [EmptyResult EXCEPT !.fin = "other"], lines) EXCEPT
        !.usage = IF lines = <<>> THEN ZeroUsage ELSE OllamaCounted(Last(lines), raw)]

\* convertMessage: a result is a message of its own; of an assistant's turn
\* the text, the thinking and the calls remain, of the user's the text.
OllamaConvert(msgs) ==
    FlattenSeq([i \in DOMAIN msgs |->
        LET parts == msgs[i].parts IN
        CASE msgs[i].role = "tool" ->
                [j \in DOMAIN Kind(parts, {"result"}) |-> Msg("tool", <<Kind(parts, {"result"})[j]>>)]
          [] msgs[i].role \in {"system", "user"} -> <<Msg(msgs[i].role, Kind(parts, {"text"}))>>
          [] msgs[i].role = "assistant" ->
                <<Msg("assistant", Kind(parts, {"text"}) \o Kind(parts, {"reasoning"})
                                   \o Kind(parts, {"call", "server"}))>>])
=============================================================================
