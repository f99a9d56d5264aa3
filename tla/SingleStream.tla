---------------------------- MODULE SingleStream ----------------------------
(***************************************************************************)
(* StreamText without a tool loop (generate.go): one model call, whose     *)
(* stream the consume goroutine copies to the caller.  When the stream     *)
(* ends, consume's deferred functions run in reverse order of their        *)
(* registration: OnResponse, OnStepFinish, OnFinish, the close of the      *)
(* caller's channel, the cancellation of the timeout context, StepIdle,    *)
(* the recovery of a panic and the close of doneCh.  A callback that       *)
(* panics does not stop the ones registered in other deferred functions.   *)
(***************************************************************************)
EXTENDS Naturals, Sequences

CONSTANTS
    MaxChunks,      \* bound: text chunks the provider sends
    OutCap,         \* capacity of the caller's channel (64 in the code)
    Modes,          \* Stream or TextStream ("channel"), Result ("none")
    HooksPanic      \* a callback may panic

ASSUME BoundsAssumption == MaxChunks \in Nat /\ OutCap \in Nat \ {0}
ASSUME SwitchesAssumption == Modes \subseteq {"channel", "none"} /\ HooksPanic \in BOOLEAN

VARIABLES
    pc,             \* StreamText: "enter", "request", "call", "respond", "returned"
    ret,            \* what it returned: "stream" or an error
    timeout,        \* the timeout context: "none", "armed", "cancelled"
    ctx,            \* "live", "caller" or "deadline"
    stateRef,       \* AgentState
    left,           \* text chunks the provider may still send
    sent,           \* what the provider put on the stream (a closing chunk ends it)
    cpc,            \* consume: "off", "range", "deliver", then the deferred functions
    mode,           \* how the caller reads
    got,            \* chunks consume took
    out, outClosed, \* the caller's channel, counted
    streamErr,      \* ts.streamErr
    panicking,      \* the panic that unwinds consume: the callback it came from
    fired           \* the callbacks that ran, with the error or cause they were told

vars == <<pc, ret, timeout, ctx, stateRef, left, sent, cpc, mode, got, out, outClosed,
          streamErr, panicking, fired>>
entry == <<pc, ret>>
source == <<left, sent>>
reader == <<cpc, mode, got, out, outClosed, streamErr, panicking>>

Publish(k, n) == stateRef' = [kind |-> k, step |-> n]
Fire(h, told) == fired' = Append(fired, [hook |-> h, told |-> told])

Init ==
    /\ pc = "enter" /\ ret = "pending"
    /\ timeout = "none" /\ ctx = "live"
    /\ stateRef = [kind |-> "starting", step |-> 0]
    /\ left = MaxChunks /\ sent = <<>>
    /\ cpc = "off" /\ mode \in Modes /\ got = 0
    /\ out = 0 /\ outClosed = FALSE
    /\ streamErr = "none" /\ panicking = "none" /\ fired = <<>>

-----------------------------------------------------------------------------
(* StreamText.                                                             *)

\* The argument checks; past them the timeout is armed and the call announced.
Enter ==
    /\ pc = "enter"
    /\ \/ pc' = "returned" /\ ret' = "invalid" /\ Publish("idle", 0) /\ UNCHANGED timeout
       \/ /\ pc' = "request" /\ Publish("llm-in-flight", 1) /\ UNCHANGED ret
          /\ timeout' \in {"none", "armed"}
    /\ UNCHANGED <<ctx, source, reader, fired>>

\* OnRequest; its panic leaves through recoverToError, and nothing else runs.
Request ==
    /\ pc = "request"
    /\ Fire("OnRequest", "none")
    /\ \/ pc' = "call" /\ UNCHANGED ret
       \/ HooksPanic /\ pc' = "returned" /\ ret' = "panic"
    /\ UNCHANGED <<timeout, ctx, stateRef, source, reader>>

\* withRetry(DoStream) opens a stream or fails; a failure rests the AgentState first.
Call ==
    /\ pc = "call"
    /\ \/ pc' = "returned" /\ ret' = "stream" /\ UNCHANGED <<stateRef, timeout>>
       \/ /\ pc' = "respond" /\ UNCHANGED ret
          /\ timeout' = IF timeout = "armed" THEN "cancelled" ELSE timeout
          /\ Publish("idle", 1)
    /\ UNCHANGED <<ctx, source, reader, fired>>

\* OnResponse of the failed call, then the error (or its panic) is returned.
Respond ==
    /\ pc = "respond"
    /\ Fire("OnResponse", "provider")
    /\ pc' = "returned"
    /\ ret' \in {"error"} \cup (IF HooksPanic THEN {"panic"} ELSE {})
    /\ UNCHANGED <<timeout, ctx, stateRef, source, reader>>

-----------------------------------------------------------------------------
(* The provider, the caller and the clock.                                 *)

Closed == sent # <<>> /\ sent[Len(sent)] = "close"

\* The provider sends text, then ends the stream with a finish or an error chunk; once
\* the context is done it may stop where it is.
Provide ==
    /\ ret = "stream" /\ ~Closed
    /\ \/ left > 0 /\ left' = left - 1 /\ sent' = Append(sent, "text")
       \/ \E last \in {"finish", "error"} : sent' = sent \o <<last, "close">> /\ left' = 0
       \/ ctx # "live" /\ sent' = Append(sent, "close") /\ left' = 0
    /\ UNCHANGED <<entry, timeout, ctx, stateRef, reader, fired>>

\* Stream, TextStream or Result: the first of them starts consume.
Start ==
    /\ ret = "stream" /\ cpc = "off"
    /\ cpc' = "range"
    /\ UNCHANGED <<entry, timeout, ctx, stateRef, source, mode, got, out, outClosed,
                   streamErr, panicking, fired>>

\* The caller takes a chunk from its channel.
Read ==
    /\ out > 0 /\ out' = out - 1
    /\ UNCHANGED <<entry, timeout, ctx, stateRef, source, cpc, mode, got, outClosed,
                   streamErr, panicking, fired>>

\* The caller cancels, or the timeout passes.
ContextEnds ==
    /\ ctx = "live" /\ pc # "enter"
    /\ \/ ctx' = "caller"
       \/ timeout = "armed" /\ ctx' = "deadline"
    /\ UNCHANGED <<entry, timeout, stateRef, source, reader, fired>>

-----------------------------------------------------------------------------
(* consume.                                                                *)

\* range ts.source: the next chunk, or the end of the stream.
Receive ==
    /\ cpc = "range" /\ got < Len(sent)
    /\ got' = got + 1
    /\ LET chunk == sent[got + 1]
       IN  /\ cpc' = IF chunk = "close" THEN "OnResponse" ELSE "deliver"
           /\ streamErr' = IF chunk = "error" /\ streamErr = "none" THEN "provider" ELSE streamErr
    /\ UNCHANGED <<entry, timeout, ctx, stateRef, source, mode, out, outClosed, panicking, fired>>

\* MUTANT: delivery waits for room, whatever the context does.
DeliverBlind ==
    /\ cpc = "deliver"
    /\ \/ mode = "channel" /\ out < OutCap /\ out' = out + 1
       \/ mode = "none" /\ ctx = "live" /\ UNCHANGED out
    /\ cpc' = "range"
    /\ UNCHANGED <<entry, timeout, ctx, stateRef, source, mode, got, outClosed, streamErr,
                   panicking, fired>>

\* The chunk goes to the caller's channel unless the context is done; without a channel
\* the context is looked at all the same.
Deliver ==
    /\ cpc = "deliver"
    /\ \/ mode = "channel" /\ out < OutCap /\ out' = out + 1
          /\ cpc' = "range" /\ UNCHANGED streamErr
       \/ mode = "none" /\ ctx = "live" /\ cpc' = "range" /\ UNCHANGED <<out, streamErr>>
       \/ ctx # "live" /\ streamErr' = ctx /\ cpc' = "OnResponse" /\ UNCHANGED out
    /\ UNCHANGED <<entry, timeout, ctx, stateRef, source, mode, got, outClosed, panicking, fired>>

After(h) == CASE h = "OnResponse" -> "OnStepFinish"
              [] h = "OnStepFinish" -> "OnFinish"
              [] h = "OnFinish" -> "close"

\* What each callback is told: OnResponse the error, OnFinish always that the stream
\* ended naturally.
Told(h) == IF h = "OnResponse" THEN streamErr ELSE IF h = "OnFinish" THEN "natural" ELSE "none"

\* MUTANT: the deferred functions run in the order they were written.
HookAfterClose ==
    /\ cpc \in {"OnResponse", "OnStepFinish", "OnFinish"}
    /\ fired' = IF cpc = "OnFinish" THEN fired
                ELSE Append(fired, [hook |-> cpc, told |-> Told(cpc)])
    /\ cpc' = After(cpc)
    /\ UNCHANGED <<entry, timeout, ctx, stateRef, source, mode, got, out, outClosed,
                   streamErr, panicking>>

\* One deferred callback; a panic unwinds through the remaining deferred functions.
Hook ==
    /\ cpc \in {"OnResponse", "OnStepFinish", "OnFinish"}
    /\ Fire(cpc, Told(cpc))
    /\ panicking' \in {panicking} \cup (IF HooksPanic THEN {cpc} ELSE {})
    /\ cpc' = After(cpc)
    /\ UNCHANGED <<entry, timeout, ctx, stateRef, source, mode, got, out, outClosed, streamErr>>

\* The caller's channel is closed and the timeout context released.
Close ==
    /\ cpc = "close"
    /\ outClosed' = TRUE
    /\ timeout' = IF timeout = "armed" THEN "cancelled" ELSE timeout
    /\ cpc' = "idle"
    /\ UNCHANGED <<entry, ctx, stateRef, source, mode, got, out, streamErr, panicking, fired>>

\* FIX 34: the AgentState rests after the callbacks, just before doneCh closes.
Idle ==
    /\ cpc = "idle"
    /\ Publish("idle", 1)
    /\ cpc' = "recover"
    /\ UNCHANGED <<entry, timeout, ctx, source, mode, got, out, outClosed, streamErr,
                   panicking, fired>>

\* MUTANT: the panic replaces whatever error the stream had.
RecoverReplaces ==
    /\ cpc = "recover"
    /\ streamErr' = IF panicking # "none" THEN "panic" ELSE streamErr
    /\ cpc' = "done"
    /\ UNCHANGED <<entry, timeout, ctx, stateRef, source, mode, got, out, outClosed,
                   panicking, fired>>

\* recoverToStreamErr: the panic becomes the stream's error unless it has one; then
\* doneCh is closed.
Recover ==
    /\ cpc = "recover"
    /\ streamErr' = IF panicking # "none" /\ streamErr = "none" THEN "panic" ELSE streamErr
    /\ cpc' = "done"
    /\ UNCHANGED <<entry, timeout, ctx, stateRef, source, mode, got, out, outClosed,
                   panicking, fired>>

StreamText == Enter \/ Request \/ Call \/ Respond
consume == Receive \/ Deliver \/ Hook \/ Close \/ Idle \/ Recover
Next == StreamText \/ consume \/ Provide \/ Start \/ Read \/ ContextEnds

\* Go schedules the goroutines and the provider ends its stream; the caller asks for the
\* stream but may stop reading it.
Spec == /\ Init /\ [][Next]_vars
        /\ WF_vars(StreamText) /\ WF_vars(consume) /\ WF_vars(Provide) /\ WF_vars(Start)

-----------------------------------------------------------------------------
doneCh == cpc = "done"
Hooks == [i \in 1..Len(fired) |-> fired[i].hook]

\* FIX 34: a poller that sees StepIdle on a stream knows that every callback has
\* returned and that the caller's channel is closed.
IdleAfterHooks ==
    (ret = "stream" /\ stateRef.kind = "idle") =>
       /\ Hooks = <<"OnRequest", "OnResponse", "OnStepFinish", "OnFinish">>
       /\ outClosed /\ timeout # "armed"

\* A panic of a callback is never silent, and never hides the error that came first.
PanicSurfaces ==
    doneCh => /\ panicking # "none" => streamErr # "none"
              /\ fired[2].told # "none" => streamErr = fired[2].told

\* A caller that stops reading frees the goroutine by cancelling its context.
CancelFrees == (ret = "stream" /\ ctx = "caller") ~> doneCh

=============================================================================
