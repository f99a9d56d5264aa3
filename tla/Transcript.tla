----------------------------- MODULE Transcript -----------------------------
(***************************************************************************)
(* The message bookkeeping that GenerateText and StreamText share: the     *)
(* test that ends the loop, the classification of its end, and the replay  *)
(* transcript (TextResult.ResponseMessages) built from the round trips.    *)
(*                                                                         *)
(* A model response is [text, calls, finish]: whether it carries text or   *)
(* reasoning, the sequence of its tool calls, its finish reason.  A        *)
(* message is [role, step, calls]: who speaks, the step it belongs to (0   *)
(* for a message a hook injected), and the calls it makes or answers.      *)
(***************************************************************************)
EXTENDS Naturals, SequencesExt

CONSTANTS
    Calls,          \* the tool calls a model may make
    ServerCalls     \* those the provider ran itself (isProviderExecuted)

ASSUME ServerCallsAssumption == ServerCalls \subseteq Calls

isProviderExecuted(c) == c \in ServerCalls

clientCalls(calls) ==
    LET mine[i \in 0..Len(calls)] ==
          IF i = 0 THEN <<>>
          ELSE IF isProviderExecuted(calls[i]) THEN mine[i - 1]
          ELSE Append(mine[i - 1], calls[i])
    IN  mine[Len(calls)]

-----------------------------------------------------------------------------
\* Tool calls are authoritative: a finish reason that contradicts them is replaced.
Normalize(r) == IF r.calls # <<>> THEN [r EXCEPT !.finish = "tool_calls"] ELSE r

\* The exit condition after a completed step; opts.toolMap says that some tool
\* is executable, opts.providerDefined that some tool is run by the provider.
EndsLoop(r, opts) ==
    \/ r.finish # "tool_calls"
    \/ r.calls = <<>> /\ ~opts.providerDefined
    \/ r.calls # <<>> /\ ~opts.toolMap

\* MUTANT: the boundary alone decides, whatever ended the loop there.
finalizeByCount(hookStopped, current, steps, maxSteps) ==
    LET exhausted == Len(steps) >= maxSteps /\ steps # <<>> /\ Last(steps).calls # <<>>
    IN  [ exhausted |-> exhausted,
          cause     |-> IF current # "none" THEN current
                        ELSE IF exhausted THEN "max-steps" ELSE "natural" ]

\* The cause reported for a loop that was left, and whether MaxSteps cut it short.
finalizeStopCause(hookStopped, current, steps, maxSteps) ==
    LET exhausted == /\ ~hookStopped
                     /\ current = "none"
                     /\ Len(steps) >= maxSteps
                     /\ steps # <<>>
                     /\ Last(steps).calls # <<>>
    IN  [ exhausted |-> exhausted,
          cause     |-> IF exhausted THEN "max-steps"
                        ELSE IF current = "none" THEN "natural" ELSE current ]

-----------------------------------------------------------------------------
AssistantMsg(n, calls) == [role |-> "assistant", step |-> n, calls |-> calls]

\* MUTANT: the calls the provider ran are answered by a tool message as well.
toolMessageForEveryCall(n, calls) ==
    [i \in 1..Len(calls) |-> [role |-> "tool", step |-> n, calls |-> <<calls[i]>>]]

\* One tool message per call the client ran, in call order.
buildToolMessages(n, calls) ==
    LET mine == clientCalls(calls)
    IN  [i \in 1..Len(mine) |-> [role |-> "tool", step |-> n, calls |-> <<mine[i]>>]]

\* The assistant turn and the answers to its calls, as the next request sees them.
appendToolRoundTrip(msgs, n, r) ==
    Append(msgs, AssistantMsg(n, r.calls)) \o buildToolMessages(n, r.calls)

\* A tool message joins the one before it, if that is one too.
appendMerged(out, m) ==
    IF m.role = "tool" /\ out # <<>> /\ Last(out).role = "tool"
    THEN [out EXCEPT ![Len(out)].calls = @ \o m.calls]
    ELSE Append(out, m)

\* Adjacent tool messages become one.
mergeToolMessages(msgs) ==
    LET merged[i \in 0..Len(msgs)] ==
          IF i = 0 THEN <<>> ELSE appendMerged(merged[i - 1], msgs[i])
    IN  merged[Len(msgs)]

\* The assistant message of a step, absent when the step said nothing.
buildFinalAssistantMessages(s) ==
    IF s.text \/ s.calls # <<>> THEN <<AssistantMsg(s.number, s.calls)>> ELSE <<>>

\* MUTANT: the last step is always added, even when the round trips hold it.
responseMessagesWithLast(delta, steps) ==
    IF steps = <<>> THEN <<>>
    ELSE mergeToolMessages(delta) \o buildFinalAssistantMessages(Last(steps))

\* The replay transcript: the merged round trips, then the last step's message
\* unless that step made calls (the round trip is then taken to hold it).
buildResponseMessages(delta, steps) ==
    IF steps = <<>> THEN <<>>
    ELSE IF delta = <<>> THEN buildFinalAssistantMessages(Last(steps))
    ELSE IF Last(steps).calls # <<>> THEN mergeToolMessages(delta)
    ELSE mergeToolMessages(delta) \o buildFinalAssistantMessages(Last(steps))

-----------------------------------------------------------------------------
(* What a strict provider asks of a transcript that is sent back to it.    *)

\* Every assistant turn with client calls is answered by the very next message,
\* call for call, and no tool message stands anywhere else.
Paired(msgs) ==
    /\ \A i \in 1..Len(msgs) :
          (msgs[i].role = "assistant" /\ clientCalls(msgs[i].calls) # <<>>) =>
             /\ i < Len(msgs)
             /\ msgs[i+1].role = "tool"
             /\ msgs[i+1].calls = clientCalls(msgs[i].calls)
    /\ \A i \in 1..Len(msgs) :
          msgs[i].role = "tool" =>
             /\ i > 1
             /\ msgs[i-1].role = "assistant"
             /\ msgs[i-1].step = msgs[i].step

\* Every step that said something is told exactly once, in step order.
ToldOnce(msgs, steps) ==
    LET Said == {s \in 1..Len(steps) : steps[s].text \/ steps[s].calls # <<>>}
        Told == {i \in 1..Len(msgs) : msgs[i].role = "assistant" /\ msgs[i].step \in Said}
    IN  /\ \A i, j \in Told : i < j => msgs[i].step < msgs[j].step
        /\ {msgs[i].step : i \in Told} = Said
=============================================================================
