---------------------------- MODULE CompatCodec ----------------------------
(***************************************************************************)
(* internal/openaicompat: the chat completions codec most providers use.   *)
(* Its stream parser gathers the fragments of each tool call by index and  *)
(* emits the call whole when a finish reason says so, or at the end.       *)
(***************************************************************************)
EXTENDS ProviderWire, Messages

CONSTANT CompatMaxArgs      \* maxToolCallArgsBytes, in fragments

-----------------------------------------------------------------------------
\* The server's side: a delta's reasoning, text, url citation and tool call
\* fragments, its finish reason, top-level citations, whether it carries the
\* usage; or an error event, or a line that is no JSON.
CompatEvent == [reasoning |-> <<>>, text |-> <<>>, sources |-> <<>>, cites |-> <<>>, tools |-> <<>>,
                reason |-> "", usage |-> FALSE, line |-> "delta"]
CompatError == [CompatEvent EXCEPT !.line = "error"]
CompatJunk == [CompatEvent EXCEPT !.line = "junk"]

CompatReason(cause) ==
    CASE cause = "end" -> "stop" [] cause = "calls" -> "tool_calls"
      [] cause = "limit" -> "length" [] cause = "filter" -> "content_filter"
      [] OTHER -> "novel"

\* The fragments of one call: the id and the name come first, or only after
\* the arguments have begun.
CompatPieces(a, i, late) ==
    LET c == a.calls[i]
        piece(named, args) == [index |-> i, id |-> IF named THEN c.id ELSE 0, named |-> named, args |-> args]
        rest == [j \in DOMAIN c.args |-> piece(FALSE, <<c.args[j]>>)]
    IN IF late /\ rest # <<>>
       THEN <<Head(rest)>> \o <<piece(TRUE, <<>>)>> \o Tail(rest)
       ELSE <<piece(TRUE, <<>>)>> \o rest

\* Parallel calls come one after the other, or their fragments in turn; the
\* finish reason says "stop" on servers that ignore the calls for it; the
\* sources are citations of a delta or of the last event; the usage has an
\* event of its own or comes with the reason.
CompatScripts(a) ==
    LET each(k, v) == [j \in DOMAIN v |-> [CompatEvent EXCEPT ![k] = <<v[j]>>]]
        both == [CompatEvent EXCEPT !.reasoning = FlattenSeq(a.reasoning), !.text = a.text]
        said == {each("reasoning", FlattenSeq(a.reasoning)) \o each("text", a.text), <<both>>}
        pieces(late) == [i \in DOMAIN a.calls |-> CompatPieces(a, i, late)]
        longest(ps) == Max({Len(ps[i]) : i \in DOMAIN ps} \cup {0})
        inTurn(ps) == FlattenSeq([j \in 1..longest(ps) |->
                          FlattenSeq([i \in DOMAIN ps |-> IF j <= Len(ps[i]) THEN <<ps[i][j]>> ELSE <<>>])])
        calls == UNION {{FlattenSeq(pieces(l)), inTurn(pieces(l))} : l \in BOOLEAN}
        reasons == {CompatReason(a.cause)} \cup IF a.cause = "calls" THEN {"stop"} ELSE {}
        ends(r) == {<<[CompatEvent EXCEPT !.reason = r, !.usage = TRUE]>>,
                    <<[CompatEvent EXCEPT !.reason = r], [CompatEvent EXCEPT !.usage = TRUE]>>}
        cited == {each("sources", a.sources), <<[CompatEvent EXCEPT !.cites = a.sources]>>}
    IN {s \o x \o [j \in DOMAIN c |-> [CompatEvent EXCEPT !.tools = <<c[j]>>]] \o e :
            s \in said, x \in cited, c \in calls, e \in UNION {ends(r) : r \in reasons}}

-----------------------------------------------------------------------------
\* The usage, of a stream and of a response: input without the cached
\* tokens, never negative, and a total that is added up when it is missing.
CompatUsage(u) ==
    LET total == IF u.total > 0 THEN u.total ELSE u.prompt + u.completion
        cache == u.cached + u.written
    IN [input |-> IF u.prompt > cache THEN u.prompt - cache ELSE 0,
        output |-> u.completion, total |-> total,
        read |-> u.cached, write |-> u.written, thought |-> u.thought]

\* mapFinishReason.
CompatFinish(r) ==
    CASE r = "stop" -> "stop" [] r = "tool_calls" -> "tool-calls" [] r = "length" -> "length"
      [] r = "content_filter" -> "content-filter" [] OTHER -> "other"

CompatStart == [tools |-> << >>, usage |-> ZeroUsage, cites |-> <<>>]

NoCall == [id |-> 0, named |-> FALSE, args |-> <<>>, started |-> FALSE]

\* One fragment of a tool call.  The first one with a name gives a call
\* without id a generated one; once id and name are known the start is sent,
\* with the arguments that came before it as one delta.
CompatTool(acc, tc) ==
    LET old == IF tc.index \in DOMAIN acc.tools THEN acc.tools[tc.index] ELSE NoCall
        id == CASE tc.id # 0 /\ ~old.started -> tc.id
                [] old.id = 0 /\ tc.named     -> Generated(tc.index)
                [] OTHER                      -> old.id
        named == old.named \/ tc.named
        starts == id # 0 /\ named /\ ~old.started
        active == [id |-> id, named |-> named, args |-> old.args \o tc.args,
                   started |-> old.started \/ starts]
        Delta(v) == DeltaChunk(id, v)
        tooLong == tc.args # <<>> /\ Len(active.args) > CompatMaxArgs
    IN IF acc.over THEN acc
       ELSE [tools |-> tc.index :> active @@ acc.tools,
             out |-> acc.out
                     \o (IF starts THEN <<StartChunk(id)>> \o NonEmpty(Delta, old.args) ELSE <<>>)
                     \o (CASE tooLong -> <<ErrorChunk>>
                           [] active.started /\ ~tooLong -> NonEmpty(Delta, tc.args)
                           [] OTHER -> <<>>),
             over |-> tooLong]

\* The calls whose id and name are known, in the order of their indices.
Started(tools) == {i \in DOMAIN tools : tools[i].started}
CompatCalls(tools) ==
    LET order == SetToSortSeq(Started(tools), <)
    IN [j \in DOMAIN order |-> CallChunk(tools[order[j]].id, tools[order[j]].args)]

\* A finish reason: "tool_calls" completes the started calls, any other
\* leaves them to the end of the stream.
CompatReasoned(tools, reason) ==
    IF reason = "" THEN [tools |-> tools, out |-> <<>>]
    ELSE IF reason = "tool_calls"
    THEN [tools |-> [i \in DOMAIN tools \ Started(tools) |-> tools[i]],
          out |-> CompatCalls(tools) \o <<StepFinishChunk(CompatFinish(reason), ZeroUsage)>>]
    ELSE [tools |-> tools, out |-> <<StepFinishChunk(CompatFinish(reason), ZeroUsage)>>]

\* ParseStream, one line: reasoning before text, then the citations, the
\* tool call fragments and the finish reason.
CompatOn(st, ev, raw) ==
    CASE ev.line = "error" -> Stops(st, <<ErrorChunk>>)
      [] ev.line = "junk"  -> Goes(st, <<>>)
      [] OTHER ->
            LET said == NonEmpty(ReasoningChunk, ev.reasoning) \o NonEmpty(TextChunk, ev.text)
                        \o [j \in DOMAIN ev.sources |-> SourceChunk(ev.sources[j])]
                called == FoldLeft(CompatTool, [tools |-> st.tools, out |-> <<>>, over |-> FALSE], ev.tools)
                done == CompatReasoned(called.tools, ev.reason)
                seen == [st EXCEPT !.usage = IF ev.usage THEN CompatUsage(raw) ELSE @, !.cites = @ \o ev.cites]
            IN IF called.over THEN Stops([seen EXCEPT !.tools = called.tools], said \o called.out)
               ELSE Goes([seen EXCEPT !.tools = done.tools], said \o called.out \o done.out)

\* The end of the stream: a failed read is an error; else the calls no finish
\* reason has completed, then an error if a call was never named, or the
\* finish, which has the top-level citations and no reason.
CompatEnd(st, failed) ==
    IF failed THEN <<ErrorChunk>>
    ELSE CompatCalls(st.tools)
         \o (IF Started(st.tools) # DOMAIN st.tools THEN <<ErrorChunk>> ELSE <<[FinishChunk("", st.usage) EXCEPT !.sources = st.cites]>>)

\* ConvertMessages: every result is a message of its own; a user's message
\* keeps text, images and files; an assistant's text, the reasoning where the
\* provider takes it, and the calls.
CompatConvert(msgs, withReasoning) ==
    LET wire(m) ==
            CASE m.role = "system" -> <<Msg("system", Kind(m.parts, {"text"}))>>
              [] m.role = "tool" -> [j \in DOMAIN Kind(m.parts, {"result"}) |->
                                        Msg("tool", <<Kind(m.parts, {"result"})[j]>>)]
              [] m.role = "user" -> <<Msg("user", Kind(m.parts, {"text", "file"}))>>
              [] m.role = "assistant" ->
                    <<Msg("assistant", Kind(m.parts, {"text"})
                                       \o (IF withReasoning THEN Kind(m.parts, {"reasoning"}) ELSE <<>>)
                                       \o Kind(m.parts, {"call"}))>>
    IN FlattenSeq([i \in DOMAIN msgs |-> wire(msgs[i])])

\* ParseResponse.
CompatParse(a, reason, raw) ==
    [text |-> a.text, reasoning |-> FlattenSeq(a.reasoning),
     calls |-> [i \in DOMAIN a.calls |->
                   [id |-> IF a.calls[i].id = 0 THEN Generated(i) ELSE a.calls[i].id, args |-> a.calls[i].args]],
     fin |-> CompatFinish(reason), usage |-> CompatUsage(raw), sources |-> a.sources, content |-> <<>>]
=============================================================================
