----------------------------- MODULE StreamLoop -----------------------------
(***************************************************************************)
(* StreamText with a tool loop (generate.go: streamWithToolLoop, drainStep *)
(* and TextStream.consume).  Two goroutines and the caller share a bounded *)
(* channel, a context and an AgentState:                                   *)
(*                                                                         *)
(*    provider --source--> loop goroutine --out--> consume --raw--> caller *)
(*                                                                         *)
(* The loop goroutine forwards the chunks of each provider stream, runs    *)
(* the tools, marks the step boundaries with chunks of its own and ends    *)
(* with ChunkFinish.  consume starts when the caller first asks for the    *)
(* stream or its result; it rebuilds the steps from the chunks and closes  *)
(* doneCh, for which Result() and Err() wait.                              *)
(*                                                                         *)
(* Every send of the loop is TrySend: a select between the channel and     *)
(* ctx.Done(), decided by chance when both are ready, its outcome mostly   *)
(* ignored.  An action ends at the next channel operation, callback, model *)
(* call or store to the AgentState.                                        *)
(***************************************************************************)
EXTENDS Transcript

CONSTANTS
    MaxSteps,       \* options.MaxSteps
    MaxChunks,      \* bound: chunks of one provider stream
    OutCap, RawCap, \* capacities of the two channels (64 in the code)
    Modes,          \* how the caller may read: Stream, TextStream, Result
    ContextEnds,    \* the caller cancels, or the deadline passes
    HooksPanic      \* a callback may panic

ASSUME BoundsAssumption ==
    /\ MaxSteps \in Nat \ {0} /\ MaxChunks \in Nat
    /\ OutCap \in Nat \ {0} /\ RawCap \in Nat \ {0}
ASSUME ModesAssumption == Modes \subseteq {"raw", "text", "none"}
ASSUME SwitchesAssumption ==
    ContextEnds \in BOOLEAN /\ HooksPanic \in BOOLEAN

VARIABLES
    gpc,            \* the loop: first in StreamText, then in its goroutine
    opts,           \* [toolMap, providerDefined, timeout]: what StreamText was given
    step,           \* the loop variable
    left,           \* chunks the current provider stream may still send
    chunk,          \* the chunk being forwarded
    ds,             \* drainResult: [text, calls, finish, err, fwd]
    steps,          \* the loop's own record of completed steps
    highest,        \* highestInflightStep
    hookStopped, stopCause,
    panicking,      \* the deferred functions run because of a panic
    failures,       \* what went wrong in the loop, in order (history)
    finishes,       \* the causes OnFinish was told
    published,      \* ts.responseMessages and ts.stepsExhausted are written
    stateRef,       \* AgentState
    ctx,            \* "live", "ended" from outside, or cancelled by the "loop" itself
    out, outClosed, \* the channel from the loop to consume
    cpc, mode, cur, \* consume: where it is, how it delivers, the chunk at hand
    tsSteps,        \* ts.steps: the step a record was built from, and its results
    tsUsage,        \* ts.usage, counted in steps
    streamErr,      \* ts.streamErr
    raw             \* how many chunks wait in the caller's channel

drainVars == <<left, chunk, ds>>
doneVars == <<steps, highest>>
exitVars == <<hookStopped, stopCause, finishes, published>>
consumeVars == <<cpc, mode, cur, tsSteps, tsUsage, streamErr, raw>>
fixed == <<opts, outClosed, consumeVars>>   \* what no step of the running loop touches
vars == <<gpc, panicking, failures, step, drainVars, doneVars, exitVars, stateRef, ctx, out, fixed>>

Live == ctx = "live"
NoDrain == [text |-> FALSE, calls |-> <<>>, finish |-> "none", err |-> "none", fwd |-> FALSE]
Chunk(t) == [t |-> t, n |-> step, id |-> "none", fin |-> "none", total |-> 0, err |-> "none"]

NoChunk == [Chunk("none") EXCEPT !.n = 0]   \* a local variable that holds no chunk

\* What a provider puts on its stream.
ProviderChunks ==
    {Chunk("text"), [Chunk("boundary") EXCEPT !.fin = "stop"],
     [Chunk("error") EXCEPT !.err = "provider"]}
    \cup {[Chunk("call") EXCEPT !.id = c] : c \in Calls}
    \cup {[Chunk("finish") EXCEPT !.fin = f] : f \in {"stop", "tool_calls"}}

Publish(k, n) == stateRef' = [kind |-> k, step |-> n]

Init ==
    /\ gpc = "enter"
    /\ opts \in {o \in [toolMap : BOOLEAN, providerDefined : BOOLEAN, timeout : BOOLEAN] :
                   o.toolMap \/ o.providerDefined}
    /\ step = 1 /\ left = 0 /\ chunk = NoChunk /\ ds = NoDrain
    /\ steps = <<>> /\ highest = 0
    /\ hookStopped = FALSE /\ stopCause = "none" /\ panicking = FALSE /\ failures = <<>>
    /\ finishes = <<>> /\ published = FALSE
    /\ stateRef = [kind |-> "starting", step |-> 0]
    /\ ctx = "live" /\ out = <<>> /\ outClosed = FALSE
    /\ cpc = "off" /\ mode \in Modes /\ cur = NoChunk
    /\ tsSteps = <<>> /\ tsUsage = 0 /\ streamErr = "none"
    /\ raw = 0

-----------------------------------------------------------------------------
(* The pieces the loop's actions are made of.                              *)

\* MUTANT: a send that does not watch the context.
SendBlocking(c) == Len(out) < OutCap /\ out' = Append(out, c)

\* TrySend, its outcome ignored.
TrySend(c) ==
    \/ Len(out) < OutCap /\ out' = Append(out, c)
    \/ ~Live /\ UNCHANGED out

\* A callback panics in the goroutine: the deferred functions take over.
Panics ==
    /\ HooksPanic
    /\ panicking' = TRUE
    /\ failures' = Append(failures, "panic")
    /\ gpc' = "idle"

Goto(l) == gpc' = l /\ UNCHANGED <<panicking, failures>>

\* The provider has failed, in its answer to the call or on its stream.
Fails(l) ==
    /\ gpc' = l
    /\ failures' = Append(failures, "provider")
    /\ UNCHANGED panicking

OpenStream == left' = MaxChunks /\ ds' = NoDrain

-----------------------------------------------------------------------------
(* StreamText and the synchronous first step.                              *)

\* Argument checks; a rejected call publishes (starting, 0) and (idle, 0).
Enter ==
    /\ gpc = "enter"
    /\ \/ Publish("starting", 0) /\ Goto("announce")
       \/ Publish("idle", 0) /\ Goto("rejected")
    /\ UNCHANGED <<step, drainVars, doneVars, exitVars, ctx, out, fixed>>

\* The first model call is announced before the goroutine exists.
Announce ==
    /\ gpc = "announce"
    /\ Publish("llm-in-flight", 1)
    /\ highest' = 1
    /\ Goto("dial")
    /\ UNCHANGED <<step, drainVars, steps, exitVars, ctx, out, fixed>>

\* OnRequest and the first DoStream, in the caller's goroutine: an error comes to
\* rest at step 1 and is returned; a panic is returned through recoverToError.
Dial ==
    /\ gpc = "dial"
    /\ \/ OpenStream /\ Goto("drain") /\ UNCHANGED <<stateRef, ctx>>
       \/ /\ Publish("idle", 1)
          /\ ctx' = IF opts.timeout /\ Live THEN "loop" ELSE ctx
          /\ Goto("rejected")
          /\ UNCHANGED <<left, ds>>
       \/ /\ HooksPanic /\ panicking' = TRUE /\ gpc' = "rejected"
          /\ UNCHANGED <<failures, left, ds, stateRef, ctx>>
    /\ UNCHANGED <<step, chunk, doneVars, exitVars, out, fixed>>

-----------------------------------------------------------------------------
(* drainStep: one provider stream.                                         *)

\* A chunk is received; ChunkFinish is kept back, the others are forwarded first.
Receive ==
    /\ gpc = "drain" /\ left > 0
    /\ \E c \in ProviderChunks :
          /\ chunk' = c
          /\ left' = IF c.t \in {"finish", "error"} THEN 0 ELSE left - 1
          /\ \/ c.t = "finish" /\ Goto("drain") /\ ds' = [ds EXCEPT !.finish = c.fin]
             \/ c.t = "error" /\ Fails("forward") /\ UNCHANGED ds
             \/ c.t \notin {"finish", "error"} /\ Goto("forward") /\ UNCHANGED ds
    /\ UNCHANGED <<step, doneVars, exitVars, stateRef, ctx, out, fixed>>

\* The chunk goes to consume and into the step; when TrySend gives up, the rest of
\* the provider stream is discarded and the step fails with the context's error.
Forward ==
    /\ gpc = "forward"
    /\ \/ /\ Len(out) < OutCap
          /\ out' = Append(out, chunk)
          /\ Goto("drain")
          /\ ds' = CASE chunk.t = "text"     -> [ds EXCEPT !.text = TRUE]
                     [] chunk.t = "call"     -> [ds EXCEPT !.calls = Append(@, chunk.id)]
                     [] chunk.t = "boundary" -> [ds EXCEPT !.finish = chunk.fin]
                     [] chunk.t = "error"    -> [ds EXCEPT !.err = "provider", !.fwd = TRUE]
          /\ UNCHANGED left
       \/ /\ ~Live
          /\ ds' = [ds EXCEPT !.err = "ctx"]
          /\ left' = 0
          /\ Goto("drain")
          /\ UNCHANGED out
    /\ chunk' = NoChunk
    /\ UNCHANGED <<step, doneVars, exitVars, stateRef, ctx, fixed>>

\* The provider closes its stream, at its end or before it.
Drained ==
    /\ gpc = "drain"
    /\ left' = 0
    /\ \/ ds.err # "none" /\ Goto(IF ds.fwd THEN "abortFinish" ELSE "abortError")
          /\ UNCHANGED stopCause
       \/ /\ ds.err = "none"
          /\ IF ~ds.text /\ ds.calls = <<>> /\ ds.finish = "none"
             THEN Goto("finalize") /\ stopCause' = "empty"
             ELSE Goto("respond") /\ UNCHANGED stopCause
    /\ UNCHANGED <<step, chunk, ds, doneVars, hookStopped, finishes, published, stateRef, ctx, out, fixed>>

-----------------------------------------------------------------------------
(* The error path: ChunkError, ChunkFinish, OnFinish, return.              *)

AbortError ==
    /\ gpc = "abortError"
    /\ TrySend([Chunk("error") EXCEPT !.err = ds.err])
    /\ Goto("abortFinish")
    /\ UNCHANGED <<step, drainVars, doneVars, exitVars, stateRef, ctx, fixed>>

AbortFinish ==
    /\ gpc = "abortFinish"
    /\ TrySend([Chunk("finish") EXCEPT !.total = Len(steps)])
    /\ Goto("abortHook")
    /\ UNCHANGED <<step, drainVars, doneVars, exitVars, stateRef, ctx, fixed>>

AbortHook ==
    /\ gpc = "abortHook"
    /\ finishes' = Append(finishes, "abort")
    /\ Goto("idle") \/ Panics
    /\ UNCHANGED <<step, drainVars, doneVars, hookStopped, stopCause, published, stateRef, ctx, out, fixed>>

-----------------------------------------------------------------------------
(* A step that was drained without error.                                  *)

\* MUTANT: the step is recorded and the AgentState still says "in flight".
RespondUnpublished ==
    /\ gpc = "respond"
    /\ steps' = Append(steps, [number |-> step, text |-> ds.text,
                               calls |-> ds.calls, finish |-> ds.finish])
    /\ Goto("stepSend")
    /\ UNCHANGED <<step, drainVars, highest, exitVars, stateRef, ctx, out, fixed>>

\* OnResponse, then the step is recorded and published.
Respond ==
    /\ gpc = "respond"
    /\ \/ /\ steps' = Append(steps, [number |-> step, text |-> ds.text,
                                     calls |-> ds.calls, finish |-> ds.finish])
          /\ Publish("step-finished", step)
          /\ Goto("stepSend")
       \/ Panics /\ UNCHANGED <<steps, stateRef>>
    /\ UNCHANGED <<step, drainVars, highest, exitVars, ctx, out, fixed>>

\* OnStepFinish, the normalisation, goai's ChunkStepFinish, the exit conditions.
StepSend ==
    /\ gpc = "stepSend"
    /\ \/ /\ ds' = NoDrain
          /\ TrySend([Chunk("stepFinish") EXCEPT !.total = 1])
          /\ IF EndsLoop(Normalize(ds), opts)
             THEN Goto("finalize") /\ stopCause' = "natural"
             ELSE /\ Goto(IF ds.calls # <<>> THEN "tools" ELSE "stopWhen")
                  /\ UNCHANGED stopCause
       \/ Panics /\ UNCHANGED <<ds, out, stopCause>>
    /\ UNCHANGED <<step, left, chunk, doneVars, hookStopped, finishes, published,
                   stateRef, ctx, fixed>>

\* executeToolsParallel begins.
RunTools ==
    /\ gpc = "tools"
    /\ Publish("tool-executing", step)
    /\ Goto("resultsSend")
    /\ UNCHANGED <<step, drainVars, doneVars, exitVars, ctx, out, fixed>>

\* The tools have returned; their results follow the step to consume.
ResultsSend ==
    /\ gpc = "resultsSend"
    /\ TrySend(Chunk("toolResults"))
    /\ Goto("stopWhen")
    /\ UNCHANGED <<step, drainVars, doneVars, exitVars, stateRef, ctx, fixed>>

\* The round trip is appended and the StopWhen predicate asked.
StopWhen ==
    /\ gpc = "stopWhen"
    /\ \/ /\ hookStopped' = TRUE /\ stopCause' = "predicate" /\ Goto("finalize")
          /\ UNCHANGED step
       \/ /\ step' = step + 1
          /\ Goto(IF step < MaxSteps THEN "beforeStep" ELSE "finalize")
          /\ UNCHANGED <<hookStopped, stopCause>>
       \/ Panics /\ UNCHANGED <<step, hookStopped, stopCause>>
    /\ UNCHANGED <<drainVars, doneVars, finishes, published, stateRef, ctx, out, fixed>>

\* From the second step on: OnBeforeStep may stop the loop; then OnRequest, and
\* the next model call is announced.
BeforeStep ==
    /\ gpc = "beforeStep"
    /\ \/ /\ hookStopped' = TRUE /\ stopCause' = "before-step" /\ Goto("finalize")
          /\ UNCHANGED <<stateRef, highest>>
       \/ /\ Publish("llm-in-flight", step)
          /\ highest' = step
          /\ Goto("call")
          /\ UNCHANGED <<hookStopped, stopCause>>
       \/ Panics /\ UNCHANGED <<stateRef, highest, hookStopped, stopCause>>
    /\ UNCHANGED <<step, drainVars, steps, finishes, published, ctx, out, fixed>>

\* withRetry(DoStream); OnResponse is told of an error before consume is.
Call ==
    /\ gpc = "call"
    /\ \/ OpenStream /\ Goto("drain")
       \/ /\ ds' = [NoDrain EXCEPT !.err = "provider"]
          /\ Fails("abortError")
          /\ UNCHANGED left
       \/ Panics /\ UNCHANGED <<left, ds>>
    /\ UNCHANGED <<step, chunk, doneVars, exitVars, stateRef, ctx, out, fixed>>

-----------------------------------------------------------------------------
(* After the loop, and the deferred functions of the goroutine.            *)

\* The cause is settled and the result fields of the TextStream are written.
Finalize ==
    /\ gpc = "finalize"
    /\ stopCause' = finalizeStopCause(hookStopped, stopCause, steps, MaxSteps).cause
    /\ published' = TRUE
    /\ Goto("finishHook")
    /\ UNCHANGED <<step, drainVars, doneVars, hookStopped, finishes, stateRef, ctx, out, fixed>>

FinishHook ==
    /\ gpc = "finishHook"
    /\ finishes' = Append(finishes, stopCause)
    /\ Goto("finishSend") \/ Panics
    /\ UNCHANGED <<step, drainVars, doneVars, hookStopped, stopCause, published,
                   stateRef, ctx, out, fixed>>

FinishSend ==
    /\ gpc = "finishSend"
    /\ TrySend([Chunk("finish") EXCEPT !.total = Len(steps)])
    /\ Goto("idle")
    /\ UNCHANGED <<step, drainVars, doneVars, exitVars, stateRef, ctx, fixed>>

\* Deferred last, run first: rest at the highest step announced.
Rest ==
    /\ gpc = "idle"
    /\ Publish("idle", IF highest > Len(steps) THEN highest ELSE Len(steps))
    /\ Goto("release")
    /\ UNCHANGED <<step, drainVars, doneVars, exitVars, ctx, out, fixed>>

\* timeoutCancel: the context that consume watches is cancelled.
Release ==
    /\ gpc = "release"
    /\ ctx' = IF opts.timeout /\ Live THEN "loop" ELSE ctx
    /\ Goto(IF panicking THEN "recoverError" ELSE "close")
    /\ UNCHANGED <<step, drainVars, doneVars, exitVars, stateRef, out, fixed>>

\* recover: the panic is sent as ChunkError and a ChunkFinish without usage.
RecoverError ==
    /\ gpc = "recoverError"
    /\ TrySend([Chunk("error") EXCEPT !.err = "panic"])
    /\ Goto("recoverFinish")
    /\ UNCHANGED <<step, drainVars, doneVars, exitVars, stateRef, ctx, fixed>>

RecoverFinish ==
    /\ gpc = "recoverFinish"
    /\ TrySend(Chunk("finish"))
    /\ Goto("close")
    /\ UNCHANGED <<step, drainVars, doneVars, exitVars, stateRef, ctx, fixed>>

Close ==
    /\ gpc = "close"
    /\ outClosed' = TRUE
    /\ Goto("gone")
    /\ UNCHANGED <<opts, step, drainVars, doneVars, exitVars, stateRef, ctx, out, consumeVars>>

-----------------------------------------------------------------------------
(* TextStream.consume.                                                     *)

loopState == <<gpc, panicking, failures, step, drainVars, doneVars, exitVars, stateRef, opts, outClosed>>

\* The caller asks for the stream or the result: consumeOnce starts consume.  There
\* is a TextStream to ask only once the first DoStream has succeeded.
Consume ==
    /\ cpc = "off"
    /\ gpc \notin {"enter", "announce", "dial", "rejected"}
    /\ cpc' = "recv"
    /\ UNCHANGED <<loopState, ctx, out, mode, cur, tsSteps, tsUsage, streamErr, raw>>

\* Results go to the record made last.
Results(c) == [tsSteps EXCEPT ![Len(tsSteps)].results = c.n]

\* MUTANT: the final total is added to the usage of the steps.
UsageAdded(c) == IF c.t \in {"stepFinish", "finish"} THEN tsUsage + c.total ELSE tsUsage

\* The steps add up; the total on ChunkFinish is authoritative.
Usage(c) == CASE c.t = "stepFinish" -> tsUsage + c.total
              [] c.t = "finish"     -> c.total
              [] OTHER              -> tsUsage

\* MUTANT: the last error is kept.
ErrorLast(c) == IF c.t = "error" THEN c.err ELSE streamErr

\* The first error is kept.
ErrorOf(c) == IF c.t = "error" /\ streamErr = "none" THEN c.err ELSE streamErr

\* Where consume goes with a chunk.
AfterTake(c) == IF c.t = "toolResults" THEN "recv" ELSE "pass"

\* A chunk is taken from out and accounted for.  Results go to the last step on
\* record and are not passed on; a step boundary of goai's makes a record.
Take ==
    /\ cpc = "recv" /\ out # <<>>
    /\ LET c == Head(out)
       IN  /\ cur' = c
           /\ cpc' = AfterTake(c)
           /\ tsSteps' =
                 CASE c.t = "stepFinish" -> Append(tsSteps, [from |-> c.n, results |-> 0])
                   [] c.t = "toolResults" /\ tsSteps # <<>> -> Results(c)
                   [] OTHER -> tsSteps
           /\ tsUsage' = Usage(c)
           /\ streamErr' = ErrorOf(c)
    /\ out' = Tail(out)
    /\ UNCHANGED <<loopState, ctx, mode, raw>>

Forwarded == mode = "raw" \/ (mode = "text" /\ cur.t = "text")

\* The context's error replaces whatever error there was, and consume leaves.
GiveUp ==
    /\ ~Live
    /\ streamErr' = "ctx"
    /\ cpc' = "leave"
    /\ UNCHANGED raw

\* The chunk is handed on: a select between the caller's channel and ctx.Done(), or,
\* with no channel to serve, a look at the context.
Pass ==
    /\ cpc = "pass"
    /\ \/ /\ Forwarded
          /\ \/ /\ raw < RawCap
                /\ raw' = raw + 1
                /\ cpc' = "recv"
                /\ UNCHANGED streamErr
             \/ GiveUp
       \/ /\ mode = "none" /\ GiveUp
       \/ /\ \/ mode = "none" /\ Live
             \/ mode = "text" /\ ~Forwarded
          /\ cpc' = "recv"
          /\ UNCHANGED <<streamErr, raw>>
    /\ cur' = NoChunk
    /\ UNCHANGED <<loopState, ctx, out, mode, tsSteps, tsUsage>>

\* out is closed and empty: the range loop is over.
Exhausted ==
    /\ cpc = "recv" /\ out = <<>> /\ outClosed
    /\ cpc' = "leave"
    /\ UNCHANGED <<loopState, ctx, out, mode, cur, tsSteps, tsUsage, streamErr, raw>>

\* The deferred functions: the caller's channel and doneCh are closed.
Leave ==
    /\ cpc = "leave"
    /\ cpc' = "done"
    /\ UNCHANGED <<loopState, ctx, out, mode, cur, tsSteps, tsUsage, streamErr, raw>>

-----------------------------------------------------------------------------
(* The caller and the clock.                                               *)

\* The caller reads its channel; it may stop reading at any time.
Read ==
    /\ raw > 0
    /\ raw' = raw - 1
    /\ UNCHANGED <<loopState, ctx, out, cpc, mode, cur, tsSteps, tsUsage, streamErr>>

Cancel ==
    /\ Live /\ ContextEnds
    /\ ctx' = "ended"
    /\ UNCHANGED <<loopState, out, consumeVars>>

-----------------------------------------------------------------------------
Loop == \/ Enter \/ Announce \/ Dial \/ Receive \/ Forward \/ Drained
        \/ AbortError \/ AbortFinish \/ AbortHook
        \/ Respond \/ StepSend \/ RunTools \/ ResultsSend \/ StopWhen
        \/ BeforeStep \/ Call \/ Finalize \/ FinishHook \/ FinishSend
        \/ Rest \/ Release \/ RecoverError \/ RecoverFinish \/ Close

consume == Take \/ Pass \/ Exhausted \/ Leave

Next == Loop \/ Consume \/ consume \/ Read \/ Cancel

\* The scheduler runs both goroutines; a provider sends or closes its stream, and
\* closes it once the context is done (its goroutine defers close).  The caller
\* need not ask, read or cancel.
Spec == Init /\ [][Next]_vars /\ WF_vars(Loop) /\ WF_vars(consume)

-----------------------------------------------------------------------------
Loops == {"enter", "announce", "dial", "rejected", "drain", "forward", "abortError",
          "abortFinish", "abortHook", "respond", "stepSend", "tools", "resultsSend",
          "stopWhen", "beforeStep", "call", "finalize", "finishHook", "finishSend",
          "idle", "release", "recoverError", "recoverFinish", "close", "gone"}

done == cpc = "done"       \* Err() and Result() return
LoopGone == gpc = "gone"   \* the loop cannot write again

\* Err() = nil on a context that is still live means a complete result: no panic and
\* no abort, every step of the loop on record, each with the results of its calls,
\* the transcript written, the total usage the steps'.
NilErrMeansComplete ==
    (done /\ Live /\ streamErr = "none") =>
       /\ published /\ ~panicking
       /\ [i \in 1..Len(tsSteps) |-> tsSteps[i].from] = [i \in 1..Len(steps) |-> steps[i].number]
       /\ \A i \in 1..Len(steps) :
             (steps[i].calls # <<>> /\ opts.toolMap) => tsSteps[i].results = i
       /\ tsUsage = Len(steps)
       /\ finishes # <<>> /\ Last(finishes) # "abort"

\* What Err() returns is what went wrong first in the loop's goroutine, nil if nothing
\* did: no error is lost on its way through the channel, and a later one (a hook that
\* panics after the abort) does not take its place.  Once the context has ended the
\* context's error may stand for it, or none at all; but even then Err() is never an
\* error that nobody met.
FirstErrorTold ==
    done =>
       IF Live
       THEN streamErr = IF failures = <<>> THEN "none" ELSE Head(failures)
       ELSE streamErr \in {"none", "ctx"} \cup ToSet(failures)

\* The AgentState a poller observes is that of AgentLifecycle, the abstract loop.
Lifecycle == INSTANCE AgentLifecycle WITH kind <- stateRef.kind, step <- stateRef.step
FollowsLifecycle == Lifecycle!Init /\ [][Lifecycle!Next]_<<stateRef.kind, stateRef.step>>

\* No goroutine outlives a cancelled context, even if the caller has stopped reading.
NoLeak == ~Live ~> (gpc \in {"gone", "rejected"} /\ cpc \in {"off", "done"})

=============================================================================
