--------------------------- MODULE ResponsesCodec ---------------------------
(***************************************************************************)
(* provider/openai/responses.go: the codec of the Responses API.  Its      *)
(* events name their output item by index; a stream is complete only with  *)
(* a terminal event, everything else that ends it is an error.             *)
(***************************************************************************)
EXTENDS ProviderWire, Messages

-----------------------------------------------------------------------------
\* The server's side.  An item is named by its output index; "sub" is the
\* index of a summary or of a content part, "item" the id it gives itself.
ResponsesEvent == [type |-> "other", index |-> 0, kind |-> "", item |-> 0, sub |-> 0, v |-> <<>>, id |-> 0]
RespEv(type, index) == [ResponsesEvent EXCEPT !.type = type, !.index = index]

\* A call without arguments has an empty JSON object for them.
ResponsesArgs(c) == IF c.args = <<>> THEN <<0>> ELSE c.args

\* One reasoning item, its paragraphs being summaries or content parts; the
\* deltas may bear an id that differs from the item's.
ReasoningScript(a, kind, rotated) ==
    LET delta(k) == [j \in DOMAIN a.reasoning[k] |->
                        [RespEv(kind, 1) EXCEPT !.sub = k, !.v = <<a.reasoning[k][j]>>,
                                                !.item = IF rotated THEN 8 ELSE 9]]
    IN IF a.reasoning = <<>> THEN <<>>
       ELSE <<[RespEv("item_added", 1) EXCEPT !.kind = "reasoning", !.item = 9], RespEv("part_added", 1)>>
            \o FlattenSeq([k \in DOMAIN a.reasoning |-> delta(k)])
            \o <<[RespEv("item_done", 1) EXCEPT !.kind = "reasoning"]>>

CallScript(a, i, closed) ==
    LET args == ResponsesArgs(a.calls[i]) IN
    <<[RespEv("item_added", 2 + i) EXCEPT !.kind = "function_call", !.id = a.calls[i].id]>>
    \o [j \in DOMAIN args |-> [RespEv("args", 2 + i) EXCEPT !.v = <<args[j]>>]]
    \o (IF closed THEN <<RespEv("args_done", 2 + i), [RespEv("item_done", 2 + i) EXCEPT !.kind = "function_call"]>>
        ELSE <<>>)

ResponsesStatus(a) ==
    [RespEv(IF a.cause \in {"limit", "filter", "novel"} THEN "incomplete" ELSE "completed", 0)
        EXCEPT !.kind = CASE a.cause = "limit" -> "max_output_tokens" [] a.cause = "filter" -> "content_filter" [] OTHER -> ""]

ResponsesScripts(a) ==
    {ReasoningScript(a, kind, rotated)
     \o <<[RespEv("item_added", 2) EXCEPT !.kind = "message"]>>
     \o [j \in DOMAIN a.text |-> [RespEv("text", 2) EXCEPT !.v = <<a.text[j]>>]]
     \o FlattenSeq([i \in DOMAIN a.calls |-> CallScript(a, i, closed)])
     \o <<ResponsesStatus(a)>> :
        kind \in {"summary", "content"}, rotated \in BOOLEAN, closed \in BOOLEAN}

-----------------------------------------------------------------------------
ResponsesStart == [tools |-> << >>, reasoning |-> << >>, current |-> 0, called |-> FALSE]

\* The reasoning item of a delta: the one with its id, else the current one.
activeReasoningForEvent(st, item) ==
    LET named == {i \in DOMAIN st.reasoning : st.reasoning[i].id = item}
    IN IF named # {} THEN named ELSE {st.current} \cap DOMAIN st.reasoning

\* A reasoning delta.  A change of the summary (or content) index opens a
\* paragraph of its own: the boundary is nowhere in the text.
Separator == <<0>>
ResponsesReasoning(st, ev) ==
    LET found == activeReasoningForEvent(st, ev.item) IN
    IF ev.v = <<>> THEN Goes(st, <<>>)
    ELSE IF found = {} THEN Goes(st, <<ReasoningChunk(ev.v)>>)
    ELSE LET i == CHOOSE i \in found : TRUE
             last == st.reasoning[i][ev.type]
             text == IF last # 0 /\ last # ev.sub THEN Separator \o ev.v ELSE ev.v
         IN Goes([st EXCEPT !.reasoning[i][ev.type] = ev.sub], <<ReasoningChunk(text)>>)

ResponsesItemAdded(st, ev) ==
    CASE ev.kind = "function_call" ->
            Goes([st EXCEPT !.called = TRUE, !.tools = ev.index :> [id |-> ev.id, args |-> <<>>] @@ @],
                 <<StartChunk(ev.id)>>)
      [] ev.kind = "reasoning" ->
            Goes([st EXCEPT !.current = ev.index,
                            !.reasoning = ev.index :> [id |-> ev.item, summary |-> 0, content |-> 0] @@ @], <<>>)
      [] OTHER -> Goes(st, <<>>)

\* A fragment of arguments, also for an item that was never added.
ResponsesArguments(st, ev) ==
    LET old == IF ev.index \in DOMAIN st.tools THEN st.tools[ev.index] ELSE [id |-> 0, args |-> <<>>]
    IN IF ev.v = <<>> THEN Goes(st, <<>>)
       ELSE Goes([st EXCEPT !.tools = ev.index :> [old EXCEPT !.args = @ \o ev.v] @@ @],
                 <<DeltaChunk(old.id, ev.v)>>)

\* A call is complete with its arguments' done event and emitted once: the
\* buffer is emptied with it.
Pending(st, i) == i \in DOMAIN st.tools /\ st.tools[i].args # <<>>
\* MUTANT: the buffer is kept.
ResponsesArgumentsKept(st, ev) ==
    Goes(st, IF Pending(st, ev.index) THEN <<CallChunk(st.tools[ev.index].id, st.tools[ev.index].args)>> ELSE <<>>)
ResponsesArgumentsDone(st, ev) ==
    IF Pending(st, ev.index)
    THEN Goes([st EXCEPT !.tools[ev.index].args = <<>>],
              <<CallChunk(st.tools[ev.index].id, st.tools[ev.index].args)>>)
    ELSE Goes(st, <<>>)

\* An item is done: a reasoning item is forgotten, a tool the server ran is a
\* call of its own, a function call whose arguments were never closed is
\* emitted here.
ResponsesItemDone(st, ev) ==
    CASE ev.kind = "reasoning" ->
            Goes([st EXCEPT !.reasoning = [i \in DOMAIN @ \ {ev.index} |-> @[i]],
                            !.current = IF @ = ev.index THEN 0 ELSE @], <<>>)
      [] ev.kind = "server_call" -> Goes(st, <<CallChunk(ev.id, <<>>)>>)
      [] OTHER ->
            Goes([st EXCEPT !.tools = [i \in DOMAIN @ \ {ev.index} |-> @[i]]],
                 IF Pending(st, ev.index) THEN <<CallChunk(st.tools[ev.index].id, st.tools[ev.index].args)>> ELSE <<>>)

\* mapResponsesFinishReason.
ResponsesFinish(type, why, called) ==
    CASE called -> "tool-calls"
      [] ~called /\ type = "completed" -> "stop"
      [] ~called /\ type = "incomplete" /\ why = "max_output_tokens" -> "length"
      [] ~called /\ type = "incomplete" /\ why = "content_filter" -> "content-filter"
      [] OTHER -> "other"

\* The usage counts the input without the cached tokens and adds up a total.
ResponsesUsage(u) ==
    [input |-> u.prompt - (u.cached + u.written), output |-> u.completion, total |-> u.prompt + u.completion,
     read |-> u.cached, write |-> u.written, thought |-> u.thought]

\* The terminal event: what is left of the calls, the step's reason, and a
\* finish that carries the usage and no reason.
ResponsesCompleted(st, ev, raw) ==
    LET left == SetToSortSeq({i \in DOMAIN st.tools : Pending(st, i)}, <)
    IN Stops(st, [j \in DOMAIN left |-> CallChunk(st.tools[left[j]].id, st.tools[left[j]].args)]
                 \o <<StepFinishChunk(ResponsesFinish(ev.type, ev.kind, st.called), ZeroUsage),
                      FinishChunk("", ResponsesUsage(raw))>>)

\* Text and refusals are text; failures, events that cannot be read and a
\* [DONE] before the terminal event are errors; other events are ignored.
ResponsesOn(st, ev, raw) ==
    CASE ev.type \in {"text", "refusal"} -> Goes(st, NonEmpty(TextChunk, ev.v))
      [] ev.type \in {"summary", "content"} -> ResponsesReasoning(st, ev)
      [] ev.type = "item_added" -> ResponsesItemAdded(st, ev)
      [] ev.type = "args" -> ResponsesArguments(st, ev)
      [] ev.type = "args_done" -> ResponsesArgumentsDone(st, ev)
      [] ev.type = "item_done" -> ResponsesItemDone(st, ev)
      [] ev.type \in {"completed", "incomplete"} -> ResponsesCompleted(st, ev, raw)
      [] ev.type \in {"failed", "error", "junk", "[DONE]"} -> Stops(st, <<ErrorChunk>>)
      [] OTHER -> Goes(st, <<>>)

\* "stream ended before a terminal event", or a read that failed.
ResponsesEnd == <<ErrorChunk>>

\* parseResponsesResult: the paragraphs joined by the separator.
ResponsesParse(a, raw) ==
    [text |-> a.text,
     reasoning |-> FlattenSeq([k \in DOMAIN a.reasoning |->
                                  IF k = 1 THEN a.reasoning[k] ELSE Separator \o a.reasoning[k]]),
     calls |-> [i \in DOMAIN a.calls |-> [id |-> a.calls[i].id, args |-> ResponsesArgs(a.calls[i])]],
     fin |-> ResponsesFinish(ResponsesStatus(a).type, ResponsesStatus(a).kind, a.calls # <<>>),
     usage |-> ResponsesUsage(raw), sources |-> a.sources, content |-> <<>>]

-----------------------------------------------------------------------------
\* convertToResponsesInput: results and calls are items of their own, text
\* between them is a message.
ResponsesInput(msgs) ==
    LET wire(m) ==
            CASE m.role = "system" -> <<Msg("system", Kind(m.parts, {"text"}))>>
              [] m.role = "tool" -> [j \in DOMAIN Kind(m.parts, {"result"}) |->
                                        Msg("tool", <<Kind(m.parts, {"result"})[j]>>)]
              [] m.role = "user" -> <<Msg("user", Kind(m.parts, {"text", "file"}))>>
              [] m.role = "assistant" -> [j \in DOMAIN m.parts |-> Msg("assistant", <<m.parts[j]>>)]
    IN FlattenSeq([i \in DOMAIN msgs |-> wire(msgs[i])])
=============================================================================
