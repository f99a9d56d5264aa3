---------------------------- MODULE ProviderWire ----------------------------
(***************************************************************************)
(* What the provider codecs share: the chunks they emit (provider/types.go *)
(* StreamChunk), the result a call without streaming returns, and how      *)
(* StreamText's drainStep folds the chunks of a step back into a result.   *)
(* A text, a reasoning and a tool call's arguments are the sequence of the *)
(* fragments the server cut them into; a tool call's id is a number, 0 is  *)
(* an id the server left out.                                              *)
(***************************************************************************)
EXTENDS Naturals, Sequences, SequencesExt, FiniteSets, FiniteSetsExt

ZeroUsage == [input |-> 0, output |-> 0, total |-> 0, read |-> 0, write |-> 0, thought |-> 0]

\* A StreamChunk: its type, the tool call's id, the text or arguments, the
\* finish reason, the usage, the sources and the ordered parts it carries.
Blank == [type |-> "", id |-> 0, v |-> <<>>, fin |-> "", usage |-> ZeroUsage, sources |-> <<>>, content |-> <<>>]
TextChunk(v) == [Blank EXCEPT !.type = "text", !.v = v]
ReasoningChunk(v) == [Blank EXCEPT !.type = "reasoning", !.v = v]
SourceChunk(s) == [Blank EXCEPT !.type = "text", !.sources = <<s>>]
StartChunk(id) == [Blank EXCEPT !.type = "tool_call_start", !.id = id]
DeltaChunk(id, v) == [Blank EXCEPT !.type = "tool_call_delta", !.id = id, !.v = v]
CallChunk(id, v) == [Blank EXCEPT !.type = "tool_call", !.id = id, !.v = v]
StepFinishChunk(fin, usage) == [Blank EXCEPT !.type = "step_finish", !.fin = fin, !.usage = usage]
FinishChunk(fin, usage) == [Blank EXCEPT !.type = "finish", !.fin = fin, !.usage = usage]
ErrorChunk == [Blank EXCEPT !.type = "error"]

NonEmpty(mk(_), v) == IF v = <<>> THEN <<>> ELSE <<mk(v)>>

\* An id the codec makes up when the server sent none; they are random, so
\* they differ from each other and from the server's.
Generated(i) == 100 + i

\* What a stream parser does with one event: its next state, the chunks it
\* sends, and whether it returns after them.
Goes(st, out) == [st |-> st, out |-> out, over |-> FALSE]
Stops(st, out) == [st |-> st, out |-> out, over |-> TRUE]

-----------------------------------------------------------------------------
\* provider.GenerateResult.
EmptyResult == [text |-> <<>>, reasoning |-> <<>>, calls |-> <<>>,
                fin |-> "", usage |-> ZeroUsage, sources |-> <<>>, content |-> <<>>]

\* drainStep, one chunk: text, reasoning and sources are appended, calls are
\* taken whole, and a step finish or a finish replaces reason and usage, a
\* finish the ordered parts as well.
drainChunk(dr, c) ==
    CASE c.type = "text" ->
            [dr EXCEPT !.text = @ \o c.v, !.sources = @ \o c.sources]
      [] c.type = "reasoning" ->
            [dr EXCEPT !.reasoning = @ \o c.v, !.sources = @ \o c.sources]
      [] c.type = "tool_call" ->
            [dr EXCEPT !.calls = Append(@, [id |-> c.id, args |-> c.v])]
      [] c.type \in {"step_finish", "finish"} ->
            [dr EXCEPT !.fin = c.fin, !.usage = c.usage, !.sources = @ \o c.sources,
                       !.content = IF c.type = "finish" THEN c.content ELSE @]
      [] OTHER -> dr

drainStep(chunks) == FoldLeft(drainChunk, EmptyResult, chunks)
=============================================================================
