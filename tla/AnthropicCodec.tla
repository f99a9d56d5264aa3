--------------------------- MODULE AnthropicCodec ---------------------------
(***************************************************************************)
(* provider/anthropic: a message is a sequence of content blocks.  A       *)
(* thinking block is bound to everything before it and must come back      *)
(* verbatim, so beside its chunks the stream parser keeps an ordered       *)
(* snapshot of the blocks; DoGenerate may use the streaming transport and  *)
(* put the message together again from its events.                         *)
(***************************************************************************)
EXTENDS ProviderWire, Messages

-----------------------------------------------------------------------------
\* The server's side: the blocks of a message.  Thinking comes first or
\* between the calls; the first a.served calls are run by the server, their
\* results come with the message, one by one or after all of them, unless the
\* turn is paused before the last.  An empty paragraph is a redacted one.
Block(t, id, v) == [t |-> t, id |-> id, v |-> v]
AnthropicArgs(c) == IF c.args = <<>> THEN <<0>> ELSE c.args

AnthropicBlocks(a, between, parallel) ==
    LET thinking(k) == Block(IF a.reasoning[k] = <<>> THEN "redacted" ELSE "reasoning", k, a.reasoning[k])
        answered(i) == i < a.served \/ a.cause # "paused"
        served(i) == IF answered(i) THEN <<Block("served", a.calls[i].id, <<>>)>> ELSE <<>>
        call(i) == IF i > a.served THEN <<Block("call", a.calls[i].id, AnthropicArgs(a.calls[i]))>>
                   ELSE <<Block("server", a.calls[i].id, AnthropicArgs(a.calls[i]))>>
                        \o IF parallel THEN <<>> ELSE served(i)
        results == IF parallel THEN FlattenSeq([i \in 1..a.served |-> served(i)]) ELSE <<>>
        text == IF a.text = <<>> THEN <<>> ELSE <<Block("text", 0, a.text)>>
        turn(k) == (IF k <= Len(a.reasoning) THEN <<thinking(k)>> ELSE <<>>)
                   \o (IF k <= Len(a.calls) THEN call(k) ELSE <<>>)
    IN IF between /\ a.served = 0
       THEN FlattenSeq([k \in 1..Max({Len(a.reasoning), Len(a.calls)}) |-> turn(k)]) \o text
       ELSE [k \in DOMAIN a.reasoning |-> thinking(k)]
            \o FlattenSeq([i \in 1..a.served |-> call(i)]) \o results \o text
            \o FlattenSeq([i \in 1..Len(a.calls) - a.served |-> call(a.served + i)])

AnthropicStop(cause) ==
    CASE cause = "end" -> "end_turn" [] cause = "paused" -> "pause_turn" [] cause = "calls" -> "tool_use"
      [] cause = "limit" -> "max_tokens" [] cause = "filter" -> "refusal" [] OTHER -> "novel"

\* Its events: a thinking block's text comes as deltas and its signature last,
\* a result comes whole with the block's start.
AnthropicEvent == [type |-> "ping", index |-> 0, kind |-> "", id |-> 0, v |-> <<>>, reason |-> ""]
AnthEv(type, index) == [AnthropicEvent EXCEPT !.type = type, !.index = index]

AnthropicBlockScript(b, i) ==
    LET delta(kind, v) == [AnthEv("block_delta", i) EXCEPT !.kind = kind, !.v = v]
        deltas(kind) == [j \in DOMAIN b.v |-> delta(kind, <<b.v[j]>>)]
        start == [AnthEv("block_start", i) EXCEPT !.kind = b.t, !.id = IF b.t = "reasoning" THEN 0 ELSE b.id]
    IN <<start>>
       \o (CASE b.t = "reasoning" -> deltas("thinking") \o <<[delta("signature", <<>>) EXCEPT !.id = b.id]>>
             [] b.t = "text" -> deltas("text")
             [] b.t \in {"call", "server"} -> IF b.v = <<0>> THEN <<>> ELSE deltas("args")
             [] OTHER -> <<>>)
       \o <<AnthEv("block_stop", i)>>

AnthropicScript(bs, cause) ==
    <<AnthEv("message_start", 0)>>
    \o FlattenSeq([i \in DOMAIN bs |-> AnthropicBlockScript(bs[i], i)])
    \o <<[AnthEv("message_delta", 0) EXCEPT !.reason = AnthropicStop(cause)], AnthEv("message_stop", 0)>>

-----------------------------------------------------------------------------
\* mapFinishReason; the response-format tool is no call of the model's.
AnthropicFinish(r, rf) ==
    CASE r \in {"end_turn", "stop_sequence", "pause_turn"} -> "stop"
      [] r = "tool_use" -> IF rf THEN "stop" ELSE "tool-calls"
      [] r = "max_tokens" -> "length" [] r = "refusal" -> "content-filter" [] OTHER -> "other"

AnthropicUsage(u) ==
    [input |-> u.prompt, output |-> u.completion, total |-> u.prompt + u.completion,
     read |-> u.cached, write |-> u.written, thought |-> u.thought]

\* parseSSE's state: the ordered snapshot and the position of each block in
\* it, the open tool call, the server calls whose result has not come, the
\* open result block, the counts and the reason so far.
NoTool == [id |-> 0, server |-> FALSE, args |-> <<>>]
AnthropicStart(rf) ==
    [content |-> <<>>, at |-> << >>, tool |-> NoTool, waiting |-> << >>, result |-> 0,
     told |-> FALSE, counted |-> FALSE, fin |-> "", rf |-> rf]

\* orderedContent: a new block, a block's text or signature, a call's input
\* or its result, which makes it a call of the server's.
Track(st, ev, t) == [st EXCEPT !.content = Append(@, Block(t, ev.id, ev.v)),
                               !.at = ev.index :> Len(st.content) + 1 @@ @]
AppendText(st, ev) == IF ev.index \in DOMAIN st.at
                      THEN [st EXCEPT !.content[st.at[ev.index]].v = @ \o ev.v] ELSE st
SetSignature(st, ev) ==
    IF ev.index \in DOMAIN st.at /\ st.content[st.at[ev.index]].t = "reasoning"
    THEN [st EXCEPT !.content[st.at[ev.index]].id = ev.id] ELSE st
OfCall(st, id, set(_)) ==
    [st EXCEPT !.content = [j \in DOMAIN @ |->
        IF @[j].t \in {"call", "server"} /\ @[j].id = id THEN set(@[j]) ELSE @[j]]]
SetToolInput(st, id, args) == OfCall(st, id, LAMBDA p : [p EXCEPT !.v = args])
SetResultBlock(st, id) == OfCall(st, id, LAMBDA p : [p EXCEPT !.t = "server"])

\* flushAllPending ranges over a map: the calls of the server whose results
\* did not come are emitted in any order.
FlushAll(st) ==
    {[st |-> [st EXCEPT !.waiting = << >>], out |-> [j \in DOMAIN ids |-> CallChunk(ids[j], st.waiting[ids[j]])]] :
        ids \in SetToSeqs(DOMAIN st.waiting)}
Settled(st) == {[st |-> st, out |-> <<>>]}

\* A block starts.  One that is neither a result nor a call of the server's
\* says that the results still awaited are not coming in this step.
AnthropicBlockStart(st0, ev) ==
    {LET st == [f.st EXCEPT !.result = 0] IN
     CASE ev.kind = "call" /\ st.rf ->
            Goes([st EXCEPT !.tool.id = ev.id, !.tool.server = FALSE], f.out)
       [] ev.kind \in {"call", "server"} /\ ~st.rf ->
            Goes([Track(st, ev, "call") EXCEPT !.tool.id = ev.id, !.tool.server = ev.kind = "server"],
                 f.out \o <<StartChunk(ev.id)>>)
       [] ev.kind \in {"reasoning", "text"} -> Goes(Track(st, ev, ev.kind), f.out)
       [] ev.kind = "redacted" -> Goes(Track(st, ev, ev.kind), Append(f.out, ReasoningChunk(<<>>)))
       [] ev.kind = "served" ->
            Goes(IF ev.id \in DOMAIN st.waiting THEN [SetResultBlock(st, ev.id) EXCEPT !.result = ev.id]
                 ELSE [st EXCEPT !.result = ev.id], f.out)
       [] OTHER -> Goes(st, f.out) :
     f \in IF ev.kind \in {"served", "server"} THEN Settled(st0) ELSE FlushAll(st0)}

AnthropicDelta(st, ev) ==
    CASE ev.kind = "text" -> Goes(AppendText(st, ev), NonEmpty(TextChunk, ev.v))
      [] ev.kind = "thinking" -> Goes(AppendText(st, ev), NonEmpty(ReasoningChunk, ev.v))
      [] ev.kind = "signature" -> Goes(SetSignature(st, ev), <<ReasoningChunk(<<>>)>>)
      [] ev.kind = "citation" -> Goes(st, <<TextChunk(<<>>)>>)
      [] ev.kind = "args" /\ st.rf -> Goes(st, NonEmpty(TextChunk, ev.v))
      [] ev.kind = "args" /\ ~st.rf ->
            LET chunk(v) == DeltaChunk(st.tool.id, v)
            IN Goes([st EXCEPT !.tool.args = @ \o ev.v], NonEmpty(chunk, ev.v))
      [] OTHER -> Goes(st, <<>>)

\* A block ends: a result lets its call go, a call of the server's waits for
\* its result, any other call is emitted with its whole input.
AnthropicBlockStop(st, ev) ==
    LET args == AnthropicArgs(st.tool)
        call == SetToolInput(st, st.tool.id, args)
        left == [NoTool EXCEPT !.args = st.tool.args]
    IN CASE st.result # 0 ->
                Goes([st EXCEPT !.result = 0, !.tool = left,
                                !.waiting = [i \in DOMAIN @ \ {st.result} |-> @[i]]],
                     IF st.result \in DOMAIN st.waiting THEN <<CallChunk(st.result, st.waiting[st.result])>> ELSE <<>>)
         [] st.result = 0 /\ st.tool.server ->
                Goes([call EXCEPT !.tool = NoTool, !.waiting = st.tool.id :> args @@ @], <<>>)
         [] st.result = 0 /\ ~st.tool.server /\ st.tool.id # 0 /\ ~st.rf ->
                Goes([call EXCEPT !.tool = NoTool], <<CallChunk(st.tool.id, args)>>)
         [] OTHER -> Goes([st EXCEPT !.tool = left], <<>>)

\* finish: the usage counts what message_start and message_delta have told;
\* the parts of a response-format turn are not replayed.
AnthropicFinishChunk(st, fin, raw) ==
    LET usage == AnthropicUsage([raw EXCEPT
            !.prompt = IF st.told THEN @ ELSE 0, !.cached = IF st.told THEN @ ELSE 0,
            !.written = IF st.told THEN @ ELSE 0, !.completion = IF st.counted THEN @ ELSE 0,
            !.thought = IF st.counted THEN @ ELSE 0])
    IN [FinishChunk(fin, usage) EXCEPT !.content = IF st.rf THEN <<>> ELSE st.content]

AnthropicMessageDelta(st, ev) ==
    LET fin == AnthropicFinish(ev.reason, st.rf)
    IN {Goes([f.st EXCEPT !.fin = fin, !.counted = TRUE], f.out \o <<StepFinishChunk(fin, ZeroUsage)>>) :
            f \in FlushAll(st)}

\* parseSSE, one event: the outcomes it may have.
AnthropicOn(st, ev, raw) ==
    CASE ev.type = "message_start" -> {Goes([st EXCEPT !.told = TRUE], <<>>)}
      [] ev.type = "block_start" -> AnthropicBlockStart(st, ev)
      [] ev.type = "block_delta" -> {AnthropicDelta(st, ev)}
      [] ev.type = "block_stop" -> {AnthropicBlockStop(st, ev)}
      [] ev.type = "message_delta" -> AnthropicMessageDelta(st, ev)
      [] ev.type = "message_stop" ->
            {Stops(f.st, Append(f.out, AnthropicFinishChunk(st, st.fin, raw))) : f \in FlushAll(st)}
      [] ev.type = "error" -> {Stops(st, <<ErrorChunk>>)}
      [] OTHER -> {Goes(st, <<>>)}

\* The stream ended without message_stop.
AnthropicEnd(st, failed, raw) ==
    IF failed THEN {<<ErrorChunk, AnthropicFinishChunk(st, "error", raw)>>}
    ELSE {Append(f.out, AnthropicFinishChunk(st, st.fin, raw)) : f \in FlushAll(st)}

-----------------------------------------------------------------------------
\* accumulateStreamedMessage: the document the events describe.  What breaks
\* the order start, blocks, stop is a protocol error, never a partial message.
NoDocument == [started |-> FALSE, stopped |-> FALSE, blocks |-> << >>, open |-> {}, args |-> << >>,
               reason |-> "", failed |-> FALSE]

AccumulateDelta(doc, ev) ==
    CASE ev.kind \in {"text", "thinking"} -> [doc EXCEPT !.blocks[ev.index].v = @ \o ev.v]
      [] ev.kind = "signature" -> [doc EXCEPT !.blocks[ev.index].id = ev.id]
      [] ev.kind = "args" ->
            [doc EXCEPT !.args = ev.index :> (IF ev.index \in DOMAIN @ THEN @[ev.index] ELSE <<>>) \o ev.v @@ @]
      [] OTHER -> doc

AccumulateStop(doc, ev) ==
    [doc EXCEPT !.open = @ \ {ev.index}, !.args = [i \in DOMAIN @ \ {ev.index} |-> @[i]],
                !.blocks[ev.index].v = IF ev.index \in DOMAIN doc.args THEN doc.args[ev.index] ELSE @]

Accumulate(doc, ev) ==
    LET error == [doc EXCEPT !.failed = TRUE] IN
    CASE doc.failed \/ ev.type = "ping" -> doc
      [] ev.type \in {"error", "junk"} -> error
      [] ev.type = "message_start" -> IF doc.started THEN error ELSE [doc EXCEPT !.started = TRUE]
      [] OTHER ->
            IF ~doc.started \/ (ev.type = "block_start" /\ ev.index \in doc.open)
                            \/ (ev.type \in {"block_delta", "block_stop"} /\ ev.index \notin doc.open)
            THEN error
            ELSE CASE ev.type = "block_start" ->
                        [doc EXCEPT !.open = @ \cup {ev.index},
                                    !.blocks = ev.index :> Block(ev.kind, ev.id, ev.v) @@ @]
                   [] ev.type = "block_delta" -> AccumulateDelta(doc, ev)
                   [] ev.type = "block_stop" -> AccumulateStop(doc, ev)
                   [] ev.type = "message_delta" -> [doc EXCEPT !.reason = ev.reason]
                   [] ev.type = "message_stop" -> [doc EXCEPT !.stopped = TRUE]

accumulateStreamedMessage(events) ==
    LET doc == FoldLeft(Accumulate, NoDocument, events)
    IN IF doc.failed \/ ~doc.stopped \/ doc.open # {} THEN [doc EXCEPT !.failed = TRUE] ELSE doc

\* The document of a whole answer.
AnthropicDocument(bs, cause) ==
    [NoDocument EXCEPT !.started = TRUE, !.stopped = TRUE, !.blocks = bs, !.reason = AnthropicStop(cause)]

\* parseResponse, and what DoGenerate makes of a response-format turn: the
\* call's input is the text, the call is gone and nothing is replayed.
AnthropicParse(doc, rf, raw) ==
    LET given(K) == Kind(doc.blocks, K)
        joined(bs) == FlattenSeq([j \in DOMAIN bs |-> bs[j].v])
        input(b) == IF b.v = <<>> THEN <<0>> ELSE b.v
        call(b) == [id |-> b.id, args |-> input(b)]
        calls == [j \in DOMAIN given({"call", "server"}) |-> call(given({"call", "server"})[j])]
        has(id) == \E j \in DOMAIN doc.blocks : doc.blocks[j].t = "served" /\ doc.blocks[j].id = id
        part(b) == CASE b.t = "server" -> Block(IF has(b.id) THEN "server" ELSE "call", b.id, input(b))
                     [] b.t = "call" -> Block("call", b.id, input(b)) [] OTHER -> b
        kept == SelectSeq(given({"reasoning", "redacted", "text", "call", "server"}),
                          LAMBDA b : b.t # "text" \/ b.v # <<>>)
    IN [EmptyResult EXCEPT !.text = IF rf THEN calls[1].args ELSE joined(given({"text"})),
                           !.reasoning = joined(given({"reasoning"})),
                           !.calls = IF rf THEN Tail(calls) ELSE calls,
                           !.fin = AnthropicFinish(doc.reason, rf), !.usage = AnthropicUsage(raw),
                           !.content = IF rf THEN <<>> ELSE [j \in DOMAIN kept |-> part(kept[j])]]

-----------------------------------------------------------------------------
\* convertMessages.  A turn with replayable thinking keeps its order, in any
\* other the calls go to the end; reasoning without signature and empty texts
\* are left out, and messages that have nothing left.
hasThinkingBlocks(m) == \E j \in DOMAIN m.parts :
    m.parts[j].t = "redacted" \/ (m.parts[j].t = "reasoning" /\ m.parts[j].id # 0)

\* MUTANT: every turn's calls go to the end.
AnthropicOrderAll(m) == ReorderAssistantParts(<<m>>)[1]
AnthropicOrder(m) == IF hasThinkingBlocks(m) THEN m ELSE ReorderAssistantParts(<<m>>)[1]

AnthropicWire(parts) ==
    FlattenSeq([j \in DOMAIN parts |->
        LET p == parts[j] IN
        CASE (p.t = "text" /\ p.v = <<>>) \/ (p.t = "reasoning" /\ p.id = 0) -> <<>>
          [] p.t = "server" -> <<Block("server", p.id, p.v), Block("served", p.id, <<>>)>>
          [] OTHER -> <<p>>])

AnthropicConvert(msgs) ==
    LET given == NormalizeToolMessages(msgs)
        ordered == [i \in DOMAIN given |-> AnthropicOrder(given[i])]
        wire == [i \in DOMAIN ordered |-> Msg(Effective(ordered[i].role), AnthropicWire(ordered[i].parts))]
        join(result, m) == IF result # <<>> /\ Last(result).role = m.role
                           THEN Append(Front(result), [Last(result) EXCEPT !.parts = @ \o m.parts])
                           ELSE Append(result, m)
    IN FoldLeft(join, <<>>, SelectSeq(wire, LAMBDA m : m.role # "system" /\ m.parts # <<>>))
=============================================================================
