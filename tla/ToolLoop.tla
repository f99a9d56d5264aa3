------------------------------ MODULE ToolLoop ------------------------------
(***************************************************************************)
(* GenerateText (generate.go): the synchronous tool loop.  One behaviour   *)
(* is one call: it asks the model, runs the tools the model asks for,      *)
(* folds the answers into the conversation and asks again, until the model *)
(* is done, a hook stops it, MaxSteps is reached, an error comes back or a *)
(* user callback panics.  Two observers see it from outside: a poller of   *)
(* the AgentState (stateRef) and the OnFinish hooks (finishes).            *)
(*                                                                         *)
(* The user's callbacks are nondeterministic: each may return or panic.    *)
(* An action ends where the next callback or model call begins.            *)
(***************************************************************************)
EXTENDS Transcript

CONSTANTS
    MaxSteps,       \* options.MaxSteps
    Responses       \* what DoGenerate may answer: [text, calls, finish]

ASSUME MaxStepsAssumption == MaxSteps \in Nat \ {0}
ASSUME ResponsesAssumption ==
    Responses \subseteq [text : BOOLEAN, calls : Seq(Calls), finish : STRING]

VARIABLES
    pc,             \* where the calling goroutine is
    opts,           \* [toolMap, providerDefined]: which kinds of tool are configured
    step,           \* the loop variable
    steps,          \* the completed steps, []StepResult
    msgs,           \* params.Messages[originalLen:]
    resp,           \* the answer being handled
    highest,        \* highestInflightStep
    stateRef,       \* AgentState: [kind, step]
    hookStopped,    \* a hook, not the model, ended the loop
    stopCause,      \* the cause so far; "none" is the empty string
    finishes,       \* the FinishInfo of every OnFinish call
    ret             \* what the call returns

vars == <<pc, opts, step, steps, msgs, resp, highest, stateRef, hookStopped,
          stopCause, finishes, ret>>

NoResponse == [text |-> FALSE, calls |-> <<>>, finish |-> "none"]
Failed     == [text |-> FALSE, calls |-> <<>>, finish |-> "error"]

Returns(k, ms, info) == [kind |-> k, msgs |-> ms, info |-> info]
FinishInfo(cause, exhausted) ==
    [cause |-> cause, exhausted |-> exhausted, total |-> Len(steps)]
Quits(k) == Returns(k, <<>>, [cause |-> "none", exhausted |-> FALSE, total |-> 0])

Publish(k, n) == stateRef' = [kind |-> k, step |-> n]

Init ==
    /\ pc = "enter"
    /\ opts \in [toolMap : BOOLEAN, providerDefined : BOOLEAN]
    /\ step = 1 /\ steps = <<>> /\ msgs = <<>> /\ resp = NoResponse
    /\ highest = 0
    /\ stateRef = [kind |-> "starting", step |-> 0]
    /\ hookStopped = FALSE /\ stopCause = "none"
    /\ finishes = <<>>
    /\ ret = Quits("pending")

-----------------------------------------------------------------------------
\* A callback panics: callHook re-panics, the deferred functions run, and
\* recoverToError turns the panic into the returned error.
Panics ==
    /\ pc' = "unwind"
    /\ ret' = Quits("panic")

\* The checks that precede the loop: nil model, no prompt, duplicate tool names.
Enter ==
    /\ pc = "enter"
    /\ \/ pc' = "loop" /\ UNCHANGED ret
       \/ pc' = "unwind" /\ ret' = Quits("invalid")
    /\ Publish("starting", 0)
    /\ UNCHANGED <<opts, step, steps, msgs, resp, highest, hookStopped, stopCause, finishes>>

\* The head of the loop; from the second step on OnBeforeStep may stop the loop
\* or inject a message.
BeforeStep ==
    /\ pc = "loop"
    /\ step <= MaxSteps
    /\ \/ pc' = "request" /\ UNCHANGED <<msgs, hookStopped, stopCause, ret>>
       \/ /\ step > 1
          /\ \/ /\ hookStopped' = TRUE /\ stopCause' = "before-step" /\ pc' = "finalize"
                /\ UNCHANGED <<msgs, ret>>
             \/ /\ msgs' = Append(msgs, [role |-> "user", step |-> 0, calls |-> <<>>])
                /\ pc' = "request"
                /\ UNCHANGED <<hookStopped, stopCause, ret>>
             \/ Panics /\ UNCHANGED <<msgs, hookStopped, stopCause>>
    /\ UNCHANGED <<opts, step, steps, resp, highest, stateRef, finishes>>

\* OnRequest, then the model call is announced.
Request ==
    /\ pc = "request"
    /\ \/ /\ pc' = "call"
          /\ Publish("llm-in-flight", step)
          /\ highest' = step
          /\ UNCHANGED ret
       \/ Panics /\ UNCHANGED <<stateRef, highest>>
    /\ UNCHANGED <<opts, step, steps, msgs, resp, hookStopped, stopCause, finishes>>

\* withRetry(DoGenerate) answers, fails or panics.
Call ==
    /\ pc = "call"
    /\ \/ /\ \E r \in Responses \cup {Failed} : resp' = r
          /\ pc' = "respond"
          /\ UNCHANGED ret
       \/ Panics /\ UNCHANGED resp
    /\ UNCHANGED <<opts, step, steps, msgs, highest, stateRef, hookStopped, stopCause, finishes>>

\* MUTANT: a failed call returns without telling OnFinish.
RespondErrorUnannounced ==
    /\ pc = "respond"
    /\ resp = Failed
    /\ pc' = "unwind"
    /\ ret' = Returns("error", <<>>, FinishInfo("abort", FALSE))
    /\ UNCHANGED <<opts, step, steps, msgs, resp, highest, stateRef, hookStopped, stopCause, finishes>>

\* MUTANT: a completed step is recorded and not published.
RespondUnpublished ==
    /\ pc = "respond"
    /\ resp # Failed
    /\ steps' = Append(steps, [number |-> step, text |-> resp.text,
                               calls |-> resp.calls, finish |-> resp.finish])
    /\ pc' = "stepFinish"
    /\ UNCHANGED <<opts, step, msgs, resp, highest, stateRef, hookStopped, stopCause, finishes, ret>>

\* OnResponse, on an answer and on an error alike; an answer completes the step.
Respond ==
    /\ pc = "respond"
    /\ \/ Panics /\ UNCHANGED <<steps, stateRef>>
       \/ /\ resp = Failed
          /\ pc' = "finish"
          /\ ret' = Returns("error", <<>>, FinishInfo("abort", FALSE))
          /\ UNCHANGED <<steps, stateRef>>
       \/ /\ resp # Failed
          /\ steps' = Append(steps, [number |-> step, text |-> resp.text,
                                     calls |-> resp.calls, finish |-> resp.finish])
          /\ Publish("step-finished", step)
          /\ pc' = "stepFinish"
          /\ UNCHANGED ret
    /\ UNCHANGED <<opts, step, msgs, resp, highest, hookStopped, stopCause, finishes>>

\* OnStepFinish, then the exit conditions.
StepFinish ==
    /\ pc = "stepFinish"
    /\ \/ Panics /\ UNCHANGED <<resp, stateRef>>
       \/ /\ EndsLoop(Normalize(resp), opts)
          /\ resp' = Normalize(resp)
          /\ pc' = "finish"
          /\ ret' = Returns("result", buildResponseMessages(msgs, steps),
                            FinishInfo(IF resp.calls # <<>> /\ ~opts.toolMap
                                       THEN "no-executable-tools" ELSE "natural", FALSE))
          /\ UNCHANGED stateRef
       \/ /\ ~EndsLoop(Normalize(resp), opts)
          /\ resp' = Normalize(resp)
          /\ pc' = "tools"
          /\ IF resp.calls # <<>> THEN Publish("tool-executing", step) ELSE UNCHANGED stateRef
          /\ UNCHANGED ret
    /\ UNCHANGED <<opts, step, steps, msgs, highest, hookStopped, stopCause, finishes>>

\* executeToolsParallel has returned: the round trip joins the conversation.
Tools ==
    /\ pc = "tools"
    /\ msgs' = appendToolRoundTrip(msgs, step, resp)
    /\ pc' = "stopWhen"
    /\ UNCHANGED <<opts, step, steps, resp, highest, stateRef, hookStopped, stopCause,
                   finishes, ret>>

\* stopSafe: the StopWhen predicate sees the completed steps.
StopWhen ==
    /\ pc = "stopWhen"
    /\ \/ Panics /\ UNCHANGED <<step, hookStopped, stopCause>>
       \/ /\ hookStopped' = TRUE /\ stopCause' = "predicate" /\ pc' = "finalize"
          /\ UNCHANGED <<step, ret>>
       \/ /\ step' = step + 1
          /\ pc' = IF step < MaxSteps THEN "loop" ELSE "finalize"
          /\ UNCHANGED <<hookStopped, stopCause, ret>>
    /\ UNCHANGED <<opts, steps, msgs, resp, highest, stateRef, finishes>>

\* After the loop: the result of a run that a hook or MaxSteps ended.
Finalize ==
    /\ pc = "finalize"
    /\ LET f == finalizeStopCause(hookStopped, stopCause, steps, MaxSteps)
       IN  ret' = Returns("result", buildResponseMessages(msgs, steps),
                          FinishInfo(f.cause, f.exhausted))
    /\ pc' = "finish"
    /\ UNCHANGED <<opts, step, steps, msgs, resp, highest, stateRef, hookStopped,
                   stopCause, finishes>>

\* fireOnFinish: a hook that panics has fired all the same.
Finish ==
    /\ pc = "finish"
    /\ finishes' = Append(finishes, ret.info)
    /\ pc' = "unwind"
    /\ ret' \in {ret, Quits("panic")}
    /\ UNCHANGED <<opts, step, steps, msgs, resp, highest, stateRef, hookStopped, stopCause>>

\* MUTANT: rest at the number of completed steps (the bug FIX 47 removed).
UnwindAtCompleted ==
    /\ pc = "unwind"
    /\ Publish("idle", Len(steps))
    /\ pc' = "returned"
    /\ UNCHANGED <<opts, step, steps, msgs, resp, highest, hookStopped, stopCause, finishes, ret>>

\* The deferred functions, on every way out: rest at the highest step announced.
Unwind ==
    /\ pc = "unwind"
    /\ Publish("idle", IF highest > Len(steps) THEN highest ELSE Len(steps))
    /\ pc' = "returned"
    /\ UNCHANGED <<opts, step, steps, msgs, resp, highest, hookStopped, stopCause, finishes, ret>>

Next == \/ Enter \/ BeforeStep \/ Request \/ Call \/ Respond \/ StepFinish
        \/ Tools \/ StopWhen \/ Finalize \/ Finish \/ Unwind

\* Go's scheduler runs the goroutine; DoGenerate and the callbacks return.
Spec == Init /\ [][Next]_vars /\ WF_vars(Next)

-----------------------------------------------------------------------------
TypeOK ==
    /\ pc \in {"enter", "loop", "request", "call", "respond", "stepFinish", "tools",
              "stopWhen", "finalize", "finish", "unwind", "returned"}
    /\ opts \in [toolMap : BOOLEAN, providerDefined : BOOLEAN]
    /\ step \in 1..(MaxSteps + 1)
    /\ Len(steps) <= MaxSteps
    /\ highest \in 0..MaxSteps
    /\ stateRef \in [kind : {"starting", "llm-in-flight", "step-finished",
                            "tool-executing", "idle"}, step : 0..MaxSteps]
    /\ hookStopped \in BOOLEAN
    /\ stopCause \in {"none", "before-step", "predicate"}
    /\ Len(finishes) <= 1
    /\ ret.kind \in {"pending", "invalid", "panic", "error", "result"}

returned == pc = "returned"

\* FIX 47 of generate.go: a poller never sees the step counter move back, not
\* even when the step that was announced last fails before it is recorded.
StepNeverRegresses == [][stateRef'.step >= stateRef.step]_vars

\* The AgentState left behind by every way out (error, panic, hook, rejected
\* arguments) is idle, at the number of the last model call announced.
RestsAtHighest == returned => stateRef = [kind |-> "idle", step |-> highest]

\* OnFinish fires once when the call returns a result and once when the model
\* failed, with the totals of the completed steps; never for rejected arguments.
FinishMatchesReturn ==
    returned =>
       /\ ret.kind \in {"result", "error"} => finishes = <<ret.info>>
       /\ ret.kind \in {"result", "error"} => ret.info.total = Len(steps)
       /\ ret.kind = "error" <=> ret.info.cause = "abort"
       /\ ret.kind = "invalid" => finishes = <<>>

\* With executable tools configured, ResponseMessages can be replayed to a
\* provider that rejects dangling calls, wherever the loop stopped (the placement
\* of WithStopWhen, after tool execution, is meant to guarantee it).
ReplaySafe == (returned /\ ret.kind = "result" /\ opts.toolMap) => Paired(ret.msgs)

\* Without provider-run tools, ResponseMessages tells every completed step exactly
\* once and in order: nothing is lost and nothing doubled at the loop's end.
ToldOnceClientTools ==
    (returned /\ ret.kind = "result" /\ ~opts.providerDefined) => ToldOnce(ret.msgs, steps)

\* The transcript ends with answers to step n that the model was never shown.
Unseen(ms, n) == ms # <<>> /\ Last(ms).role = "tool" /\ Last(ms).step = n

\* A caller can tell from the report whether the conversation it gets back is
\* finished: tool results that no model call has seen are left behind only by a run
\* reported as exhausted or as stopped by a hook, and StepsExhausted is said only of
\* a loop that ran out of steps (a hook that stops it on the last one is no
\* exhaustion), with such results left behind.  A last answer whose calls the
\* provider ran itself is reported as exhausted too, though nothing is pending.
CutShortIsTold ==
    (returned /\ ret.kind = "result") =>
       LET unseen  == Unseen(ret.msgs, Len(steps))
           stopped == ret.info.cause \in {"before-step", "predicate"}
       IN  /\ unseen => (ret.info.exhausted \/ stopped)
           /\ ret.info.exhausted =>
                 /\ step > MaxSteps
                 /\ ~stopped
                 /\ unseen \/ clientCalls(Last(steps).calls) = <<>>

\* What a poller sees is a behaviour of AgentLifecycle, its liveness included: the
\* call comes to rest on every way out, also for a model that never stops asking.
Lifecycle == INSTANCE AgentLifecycle WITH kind <- stateRef.kind, step <- stateRef.step
LifecycleSpec == Lifecycle!Spec

=============================================================================
