---------------------------- MODULE GoogleCodec ----------------------------
(***************************************************************************)
(* provider/google: the codec of Gemini.  A function call comes whole; the *)
(* reason says STOP also when there are calls.                             *)
(***************************************************************************)
EXTENDS ProviderWire, Messages

-----------------------------------------------------------------------------
\* The server's side: parts, grounding sources, reason and usage of a
\* candidate; all parts in one event or each in its own.
GoogleEvent == [parts |-> <<>>, sources |-> <<>>, reason |-> "", usage |-> FALSE, line |-> "data"]
GoogleError == [GoogleEvent EXCEPT !.line = "error"]
GoogleJunk == [GoogleEvent EXCEPT !.line = "junk"]

GoogleReason(cause) ==
    CASE cause \in {"end", "calls"} -> "STOP" [] cause = "limit" -> "MAX_TOKENS"
      [] cause = "filter" -> "SAFETY" [] OTHER -> "novel"

GoogleParts(a) ==
    LET said(t, v) == [j \in DOMAIN v |-> [t |-> t, id |-> 0, v |-> <<v[j]>>]]
    IN said("thought", FlattenSeq(a.reasoning)) \o said("text", a.text)
       \o [i \in DOMAIN a.calls |-> [t |-> "call", id |-> a.calls[i].id, v |-> a.calls[i].args]]

GoogleScripts(a) ==
    LET each == [j \in DOMAIN GoogleParts(a) |-> [GoogleEvent EXCEPT !.parts = <<GoogleParts(a)[j]>>, !.usage = TRUE]]
        last == [GoogleEvent EXCEPT !.reason = GoogleReason(a.cause), !.usage = TRUE, !.sources = a.sources]
    IN {Append(each, last), <<[last EXCEPT !.parts = GoogleParts(a)]>>}

-----------------------------------------------------------------------------
\* mapFinishReason.
GoogleFinish(r) ==
    CASE r = "STOP" -> "stop" [] r = "MAX_TOKENS" -> "length" [] r = "SAFETY" -> "content-filter"
      [] r = "MALFORMED_FUNCTION_CALL" -> "error" [] OTHER -> "other"

\* The input without the cached tokens, never negative.
GoogleUsage(u) ==
    LET input == IF u.prompt > u.cached THEN u.prompt - u.cached ELSE 0
    IN [input |-> input, output |-> u.completion, total |-> input + u.completion + u.thought,
        read |-> u.cached, write |-> 0, thought |-> u.thought]

\* The id of the nth call: the server's, or one made of the tool's name and
\* the place of the call in its response.
GoogleCallID(p, n) == IF p.id = 0 THEN Generated(n) ELSE p.id

GoogleStart == [calls |-> 0, told |-> FALSE]

\* parseSSE, one part.
GooglePart(acc, p) ==
    CASE p.t = "call" ->
            [calls |-> acc.calls + 1,
             out |-> acc.out \o <<StartChunk(GoogleCallID(p, acc.calls)), CallChunk(GoogleCallID(p, acc.calls), p.v)>>]
      [] p.t = "thought" -> [acc EXCEPT !.out = Append(@, ReasoningChunk(p.v))]
      [] p.t = "text" -> [acc EXCEPT !.out = @ \o NonEmpty(TextChunk, p.v)]
      [] p.t = "extra" -> [acc EXCEPT !.out = Append(@, TextChunk(<<>>))]

\* parseSSE, one event.  A finish reason tells the usage so far, its total
\* comes with the finish.
GoogleOn(st, ev, raw) ==
    LET parts == FoldLeft(GooglePart, [calls |-> st.calls, out |-> <<>>], ev.parts)
        told == st.told \/ ev.usage
        usage == IF told THEN [GoogleUsage(raw) EXCEPT !.total = 0] ELSE ZeroUsage
        fin == IF GoogleFinish(ev.reason) = "stop" /\ parts.calls > 0 THEN "tool-calls" ELSE GoogleFinish(ev.reason)
    IN CASE ev.line = "error" -> Stops(st, <<ErrorChunk>>)
         [] ev.line = "junk" -> Goes(st, <<>>)
         [] OTHER -> Goes([calls |-> parts.calls, told |-> told],
                          parts.out \o [j \in DOMAIN ev.sources |-> SourceChunk(ev.sources[j])]
                          \o (IF ev.reason = "" THEN <<>> ELSE <<StepFinishChunk(fin, usage)>>))

\* The end of the stream: a failed read is an error, else the finish comes
\* with the usage and without a reason.
\* MUTANT: the scanner's error is not looked at.
GoogleEndUnchecked(st, failed, raw) == <<FinishChunk("", IF st.told THEN GoogleUsage(raw) ELSE ZeroUsage)>>
GoogleEnd(st, failed, raw) ==
    IF failed THEN <<ErrorChunk>> ELSE <<FinishChunk("", IF st.told THEN GoogleUsage(raw) ELSE ZeroUsage)>>

\* parseResponse: any call makes the reason tool-calls.
GoogleParse(a, raw) ==
    [EmptyResult EXCEPT
        !.text = a.text, !.reasoning = FlattenSeq(a.reasoning), !.sources = a.sources,
        !.calls = [i \in DOMAIN a.calls |-> [id |-> GoogleCallID(a.calls[i], i - 1), args |-> a.calls[i].args]],
        !.fin = IF a.calls # <<>> THEN "tool-calls" ELSE GoogleFinish(GoogleReason(a.cause)),
        !.usage = GoogleUsage(raw)]

\* convertMessages: tool messages in a row become one message of the user's;
\* a message without parts ends the row.
GoogleConvert(msgs) ==
    LET wire(m) == Msg(CASE m.role = "assistant" -> "model" [] m.role = "tool" -> "user" [] OTHER -> m.role, m.parts)
        add(acc, m) ==
            CASE m.role = "system" -> acc
              [] m.role # "system" /\ m.parts = <<>> -> [acc EXCEPT !.tool = FALSE]
              [] OTHER ->
                    [tool |-> m.role = "tool",
                     out |-> IF m.role = "tool" /\ acc.tool /\ acc.out # <<>>
                             THEN Append(Front(acc.out), [Last(acc.out) EXCEPT !.parts = @ \o m.parts])
                             ELSE Append(acc.out, wire(m))]
    IN FoldLeft(add, [tool |-> FALSE, out |-> <<>>], msgs).out
=============================================================================
