--------------------------- MODULE ConverseCodec ---------------------------
(***************************************************************************)
(* provider/bedrock: the codec of the Converse API and its binary event    *)
(* stream.  The finish comes with the metadata frame, after the reason; a  *)
(* stream that ends without one is given a finish on the way out.          *)
(***************************************************************************)
EXTENDS ProviderWire, Messages

-----------------------------------------------------------------------------
\* The server's side: frames.
ConverseFrame == [type |-> "other", index |-> 0, kind |-> "", id |-> 0, v |-> <<>>, reason |-> ""]
Frame(type, index) == [ConverseFrame EXCEPT !.type = type, !.index = index]
ConverseArgs(c) == IF c.args = <<>> THEN <<0>> ELSE c.args

ConverseReason(cause) ==
    CASE cause = "end" -> "end_turn" [] cause = "calls" -> "tool_use" [] cause = "limit" -> "max_tokens"
      [] cause = "filter" -> "guardrail_intervened" [] OTHER -> "novel"

\* A paragraph of reasoning ends with its signature; an empty one is redacted.
ConverseScripts(a) ==
    LET n == Len(a.reasoning)
        delta(kind, i, v) == [Frame("delta", i) EXCEPT !.kind = kind, !.v = v]
        said(kind, i, v) == [j \in DOMAIN v |-> delta(kind, i, <<v[j]>>)]
        thinking(k) == (IF a.reasoning[k] = <<>> THEN <<delta("redacted", k, <<>>)>>
                        ELSE Append(said("reasoning", k, a.reasoning[k]), delta("signature", k, <<>>)))
                       \o <<Frame("block_stop", k)>>
        call(i) == <<[Frame("block_start", n + 1 + i) EXCEPT !.kind = "tool", !.id = a.calls[i].id]>>
                   \o said("args", n + 1 + i, ConverseArgs(a.calls[i])) \o <<Frame("block_stop", n + 1 + i)>>
    IN {<<Frame("other", 0)>>
        \o FlattenSeq([k \in 1..n |-> thinking(k)])
        \o (IF a.text = <<>> THEN <<>> ELSE Append(said("text", n + 1, a.text), Frame("block_stop", n + 1)))
        \o FlattenSeq([i \in DOMAIN a.calls |-> call(i)])
        \o <<[Frame("message_stop", 0) EXCEPT !.reason = ConverseReason(a.cause)], Frame("metadata", 0)>>}

-----------------------------------------------------------------------------
\* mapStopReason; the response-format tool is no call of the model's.
ConverseFinish(r, rf) ==
    CASE r \in {"", "end_turn", "stop_sequence"} -> "stop"
      [] r = "tool_use" -> IF rf THEN "stop" ELSE "tool-calls"
      [] r = "max_tokens" -> "length" [] r = "guardrail_intervened" -> "content-filter" [] OTHER -> "other"

\* The input without the tokens read from the cache, never negative; the
\* total is the server's.
ConverseUsage(u) ==
    [input |-> IF u.prompt > u.cached THEN u.prompt - u.cached ELSE 0, output |-> u.completion,
     total |-> u.total, read |-> u.cached, write |-> u.written, thought |-> 0]

ConverseStart(rf) == [tools |-> << >>, finished |-> FALSE, rf |-> rf]

\* A delta: the fragments of a call are gathered by their block's index; the
\* response-format tool's are kept from the caller.
ConverseDelta(st, ev) ==
    LET known == ev.index \in DOMAIN st.tools
        gathered == IF known THEN [st EXCEPT !.tools[ev.index].args = @ \o ev.v] ELSE st
    IN CASE ev.kind = "text" -> Goes(st, <<TextChunk(ev.v)>>)
         [] ev.kind = "reasoning" -> Goes(st, <<ReasoningChunk(ev.v)>>)
         [] ev.kind \in {"signature", "redacted"} -> Goes(st, <<ReasoningChunk(<<>>)>>)
         [] ev.kind = "args" /\ known /\ st.rf -> Goes(gathered, <<>>)
         [] OTHER -> Goes(gathered, <<DeltaChunk(IF known THEN st.tools[ev.index].id ELSE 0, ev.v)>>)

\* A tool's block ends: the call with all its input, or the answer's text.
ConverseBlockStop(st, ev) ==
    IF ev.index \notin DOMAIN st.tools THEN Goes(st, <<>>)
    ELSE LET tool == st.tools[ev.index]
         IN Goes(st, IF st.rf THEN <<TextChunk(tool.args)>> ELSE <<CallChunk(tool.id, tool.args)>>)

\* parseEventStream, one frame.
ConverseOn(st, ev, raw) ==
    CASE ev.type = "exception" -> Stops(st, <<ErrorChunk>>)
      [] ev.type = "block_start" ->
            Goes([st EXCEPT !.tools = ev.index :> [id |-> ev.id, args |-> <<>>] @@ @],
                 IF st.rf THEN <<>> ELSE <<StartChunk(ev.id)>>)
      [] ev.type = "delta" -> ConverseDelta(st, ev)
      [] ev.type = "block_stop" -> ConverseBlockStop(st, ev)
      [] ev.type = "message_stop" -> Goes(st, <<StepFinishChunk(ConverseFinish(ev.reason, st.rf), ZeroUsage)>>)
      [] ev.type = "metadata" -> Goes([st EXCEPT !.finished = TRUE], <<FinishChunk("", ConverseUsage(raw))>>)
      [] OTHER -> Goes(st, <<>>)

\* The end of the stream, and what every way out tries to send last.
ConverseEnd(failed) == IF failed THEN <<ErrorChunk>> ELSE <<>>
ConverseDeferred(st) == IF st.finished THEN <<>> ELSE <<FinishChunk("", ZeroUsage)>>

\* parseConverseResponse, and the response-format turn's extraction.
ConverseParse(a, rf, raw) ==
    LET calls == [i \in DOMAIN a.calls |-> [id |-> a.calls[i].id, args |-> ConverseArgs(a.calls[i])]]
    IN [EmptyResult EXCEPT
        !.text = IF rf THEN calls[1].args ELSE a.text, !.reasoning = FlattenSeq(a.reasoning),
        !.calls = IF rf THEN Tail(calls) ELSE calls,
        !.fin = ConverseFinish(ConverseReason(a.cause), rf), !.usage = ConverseUsage(raw)]

-----------------------------------------------------------------------------
\* convertMessages: reasoning needs a signature, redacted reasoning its data;
\* empty messages are left out and neighbours of one role merged again.
ConverseConvert(msgs) ==
    LET given == ReorderAssistantParts(NormalizeToolMessages(msgs))
        kept(p) == ~(p.t = "text" /\ p.v = <<>>) /\ ~(p.t = "reasoning" /\ p.id = 0)
        wire == [i \in DOMAIN given |-> Msg(Effective(given[i].role), SelectSeq(given[i].parts, kept))]
        join(result, m) == IF result # <<>> /\ Last(result).role = m.role
                           THEN Append(Front(result), [Last(result) EXCEPT !.parts = @ \o m.parts])
                           ELSE Append(result, m)
    IN FoldLeft(join, <<>>, SelectSeq(wire, LAMBDA m : m.parts # <<>>))
=============================================================================
