-------------------------- MODULE StreamLoopProofs --------------------------
(***************************************************************************)
(* Proofs about StreamText with a tool loop, for every MaxSteps, length of *)
(* a stream and size of the channels: what the goroutine publishes is what *)
(* AgentLifecycle allows; Err() is what went wrong first in that goroutine *)
(* while the context lives, and never an error that nobody met; and a nil  *)
(* Err() on a live context means a complete result.                        *)
(***************************************************************************)
EXTENDS StreamLoop, TLAPS

Finishes == {"none", "stop", "tool_calls"}
StepRecords == [number : Nat, text : BOOLEAN, calls : Seq(Calls), finish : Finishes]
Drains == [text : BOOLEAN, calls : Seq(Calls), finish : Finishes,
           err : {"none", "provider", "ctx"}, fwd : BOOLEAN]

\* A chunk that is forwarded.
Forwardable(c) ==
    /\ c.t \in {"text", "call", "boundary", "error"}
    /\ c.t = "call" => c.id \in Calls
    /\ c.t = "boundary" => c.fin \in Finishes

Types ==
    /\ step \in Nat \ {0} /\ highest \in Nat
    /\ steps \in Seq(StepRecords)
    /\ ds \in Drains
    /\ gpc = "forward" => Forwardable(chunk)

Asking == {"drain", "forward", "call", "respond", "abortError", "abortFinish", "abortHook"}
Over == {"rejected", "release", "recoverError", "recoverFinish", "close", "gone"}

\* Where the loop is decides what it has published ...
At(k, n) == stateRef.kind = k /\ stateRef.step = n /\ highest = n
Shown ==
    /\ gpc \in {"enter", "announce"} => At("starting", 0) /\ step = 1
    /\ gpc = "dial" => At("llm-in-flight", 1) /\ step = 1
    /\ gpc \in Asking => At("llm-in-flight", step)
    /\ gpc \in {"stepSend", "tools"} => At("step-finished", step)
    /\ gpc = "resultsSend" => At("tool-executing", step)
    /\ gpc = "stopWhen" => At("step-finished", step) \/ At("tool-executing", step)
    /\ gpc = "beforeStep" => At("step-finished", step - 1) \/ At("tool-executing", step - 1)
    /\ gpc \notin Over => stateRef.kind # "idle" /\ stateRef.step = highest

\* ... and how many steps are on record.
Recorded ==
    /\ Len(steps) <= highest
    /\ gpc \in {"enter", "announce", "dial"} \cup Asking => Len(steps) < step
    /\ gpc = "beforeStep" => step <= MaxSteps

Inv == Types /\ Shown /\ Recorded

-----------------------------------------------------------------------------
LEMMA ChunkTypes ==
    ASSUME NEW c \in ProviderChunks
    PROVE  (c.t = "finish" /\ c.fin \in Finishes) \/ Forwardable(c)
BY DEF ProviderChunks, Chunk, Forwardable, Finishes

LEMMA NoDrainType == NoDrain \in Drains
BY DEF NoDrain, Drains, Finishes

LEMMA InvInit == Init => Inv
BY NoDrainType DEF Init, Inv, Types, Shown, Recorded, At, Asking, Over

\* A step keeps the invariant and is the abstract loop's, or none of its.
Moves == Inv' /\ (Lifecycle!Next \/ UNCHANGED <<stateRef.kind, stateRef.step>>)

\* Steps of the goroutine that leave the loop's own variables alone.
LEMMA Sends ==
    ASSUME Inv, UNCHANGED <<step, ds, steps, highest, stateRef>>,
           \/ gpc = "abortError" /\ gpc' = "abortFinish"
           \/ gpc = "abortFinish" /\ gpc' = "abortHook"
           \/ gpc = "abortHook" /\ gpc' = "idle"
           \/ gpc \in {"respond", "stepSend", "stopWhen", "beforeStep", "call"} /\ gpc' = "idle"
           \/ gpc \in {"drain"} /\ gpc' \in {"abortFinish", "abortError", "finalize", "respond"}
           \/ gpc \in {"stepSend", "stopWhen", "beforeStep"} /\ gpc' = "finalize"
           \/ gpc = "stepSend" /\ gpc' \in {"tools", "stopWhen"}
           \/ gpc = "resultsSend" /\ gpc' = "stopWhen"
           \/ gpc = "finalize" /\ gpc' = "finishHook"
           \/ gpc = "finishHook" /\ gpc' \in {"finishSend", "idle"}
           \/ gpc = "finishSend" /\ gpc' = "idle"
           \/ gpc \in Over /\ gpc' \in Over
    PROVE  Moves
BY DEF Inv, Types, Shown, Recorded, At, Asking, Over, Moves

LEMMA Entering == ASSUME Inv, Enter \/ Announce \/ Dial PROVE Moves
<1> USE DEF Inv, Types, Shown, Recorded, At, Asking, Over, Publish, Moves
<1>1. CASE Enter
  <2>1. UNCHANGED <<step, ds, steps, highest, chunk>> /\ At("starting", 0) /\ step = 1
    BY <1>1 DEF Enter, drainVars, doneVars
  <2>2. \/ Publish("starting", 0) /\ gpc' = "announce"
        \/ Publish("idle", 0) /\ gpc' = "rejected"
    BY <1>1 DEF Enter, Goto
  <2> QED
    BY <1>1, <2>1, <2>2 DEF Enter, Lifecycle!Next, Lifecycle!Rest
<1>2. CASE Announce
  <2>1. UNCHANGED <<step, ds, steps, chunk>> /\ At("starting", 0) /\ step = 1 /\ highest' = 1
        /\ stateRef' = [kind |-> "llm-in-flight", step |-> 1] /\ gpc' = "dial"
    BY <1>2 DEF Announce, drainVars, Goto
  <2> QED
    BY <1>2, <2>1, BoundsAssumption DEF Announce, Lifecycle!Next, Lifecycle!Announce
<1>3. CASE Dial
  <2>1. UNCHANGED <<step, steps, highest, chunk>>
    BY <1>3 DEF Dial, doneVars
  <2>2. CASE gpc' = "drain" /\ ds' = NoDrain /\ UNCHANGED stateRef
    BY <1>3, <2>1, <2>2, NoDrainType DEF Dial
  <2>3. CASE gpc' = "rejected" /\ UNCHANGED ds
             /\ (UNCHANGED stateRef \/ stateRef' = [kind |-> "idle", step |-> 1])
    <3>1. stateRef.step = 1 /\ stateRef.kind # "idle"
      BY <1>3 DEF Dial
    <3> QED
      BY <1>3, <2>1, <2>3, <3>1 DEF Dial, Lifecycle!Next, Lifecycle!Rest
  <2> QED
    BY <1>3, <2>2, <2>3 DEF Dial, OpenStream, Goto
<1> QED
  BY <1>1, <1>2, <1>3

\* What a chunk does to the step under way keeps its type.
LEMMA DrainUpdates ==
    ASSUME NEW d \in Drains
    PROVE  /\ [d EXCEPT !.err = "ctx"] \in Drains
           /\ [d EXCEPT !.text = TRUE] \in Drains
           /\ \A c \in Calls : [d EXCEPT !.calls = Append(d.calls, c)] \in Drains
           /\ \A f \in Finishes : [d EXCEPT !.finish = f] \in Drains
           /\ [d EXCEPT !.err = "provider", !.fwd = TRUE] \in Drains
<1>1. \A c \in Calls : Append(d.calls, c) \in Seq(Calls)
  BY DEF Drains
<1> QED
  BY <1>1 DEF Drains

\* The step under way, as the chunks forwarded so far make it.
LEMMA Gathered ==
    ASSUME Inv, Forward
    PROVE  ds' \in Drains
<1>1. ds \in Drains /\ Forwardable(chunk)
  BY DEF Inv, Types, Forward
<1>2. CASE ds' = [ds EXCEPT !.err = "ctx"]
  BY <1>1, <1>2, DrainUpdates
<1> DEFINE grown == CASE chunk.t = "text"     -> [ds EXCEPT !.text = TRUE]
                      [] chunk.t = "call"     -> [ds EXCEPT !.calls = Append(@, chunk.id)]
                      [] chunk.t = "boundary" -> [ds EXCEPT !.finish = chunk.fin]
                      [] chunk.t = "error"    -> [ds EXCEPT !.err = "provider", !.fwd = TRUE]
<1>3. CASE ds' = grown
  <2>1. CASE chunk.t = "text"
    <3>1. grown = [ds EXCEPT !.text = TRUE]
      BY <2>1, Zenon
    <3> QED
      BY <1>1, <1>3, <3>1, DrainUpdates, Zenon
  <2>2. CASE chunk.t = "call"
    <3>1. grown = [ds EXCEPT !.calls = Append(ds.calls, chunk.id)]
      BY <2>2, Zenon
    <3>2. chunk.id \in Calls
      BY <1>1, <2>2 DEF Forwardable
    <3> QED
      BY <1>1, <1>3, <3>1, <3>2, DrainUpdates, Zenon
  <2>3. CASE chunk.t = "boundary"
    <3>1. grown = [ds EXCEPT !.finish = chunk.fin]
      BY <2>3, Zenon
    <3>2. chunk.fin \in Finishes
      BY <1>1, <2>3 DEF Forwardable
    <3> QED
      BY <1>1, <1>3, <3>1, <3>2, DrainUpdates, Zenon
  <2>4. CASE chunk.t = "error"
    <3>1. grown = [ds EXCEPT !.err = "provider", !.fwd = TRUE]
      BY <2>4, Zenon
    <3> QED
      BY <1>1, <1>3, <3>1, DrainUpdates, Zenon
  <2> QED
    BY <1>1, <2>1, <2>2, <2>3, <2>4 DEF Forwardable
<1> QED
  BY <1>2, <1>3 DEF Forward

LEMMA Draining == ASSUME Inv, Receive \/ Forward \/ Drained PROVE Moves
<1>1. CASE Receive
  <2>1. PICK c \in ProviderChunks :
          /\ chunk' = c
          /\ IF c.t = "finish" THEN gpc' = "drain" /\ ds' = [ds EXCEPT !.finish = c.fin]
             ELSE gpc' = "forward" /\ UNCHANGED ds
    BY <1>1 DEF Receive, Goto, Fails
  <2>2. gpc = "drain" /\ UNCHANGED <<step, steps, highest, stateRef>>
    BY <1>1 DEF Receive, doneVars
  <2>3. CASE c.t = "finish"
    <3>1. c.fin \in Finishes
      BY <2>3, ChunkTypes DEF Forwardable
    <3>2. gpc' = "drain" /\ ds' \in Drains
      BY <2>1, <2>3, <3>1 DEF Inv, Types, Goto, Drains
    <3> QED
      BY <2>2, <3>2 DEF Inv, Types, Shown, Recorded, At, Asking, Over, Moves
  <2>4. CASE c.t # "finish"
    <3>1. gpc' = "forward" /\ UNCHANGED ds /\ Forwardable(chunk')
      BY <2>1, <2>4, ChunkTypes DEF Goto
    <3>2. Types'
      BY <2>2, <3>1 DEF Inv, Types, Forwardable
    <3> QED
      BY <2>2, <3>1, <3>2 DEF Inv, Shown, Recorded, At, Asking, Over, Moves
  <2> QED
    BY <2>3, <2>4
<1>2. CASE Forward
  <2>1. gpc = "forward" /\ gpc' = "drain" /\ UNCHANGED <<step, steps, highest, stateRef>>
    BY <1>2 DEF Forward, Goto, doneVars
  <2> QED
    BY <1>2, <2>1, Gathered DEF Inv, Types, Shown, Recorded, At, Asking, Over, Moves
<1>3. CASE Drained
  <2>1. gpc = "drain" /\ gpc' \in {"abortFinish", "abortError", "finalize", "respond"}
    BY <1>3 DEF Drained, Goto
  <2> QED
    BY <1>3, <2>1, Sends DEF Drained, doneVars
<1> QED
  BY <1>1, <1>2, <1>3

\* The completed step is recorded and published in one go.
LEMMA Responding == ASSUME Inv, Respond PROVE Moves
<1>1. gpc = "respond" /\ UNCHANGED <<step, ds, highest, chunk>>
  BY DEF Respond, drainVars
<1>2. CASE Panics /\ UNCHANGED <<steps, stateRef>>
  BY <1>1, <1>2, Sends DEF Panics
<1>3. ASSUME steps' = Append(steps, [number |-> step, text |-> ds.text, calls |-> ds.calls, finish |-> ds.finish]),
             Publish("step-finished", step), Goto("stepSend")
      PROVE  Moves
  <2> DEFINE r == [number |-> step, text |-> ds.text, calls |-> ds.calls, finish |-> ds.finish]
  <2>1. r \in StepRecords
    BY DEF Inv, Types, Drains, StepRecords
  <2> HIDE DEF r
  <2>2. steps' \in Seq(StepRecords) /\ Len(steps') = Len(steps) + 1
    BY <1>3, <2>1 DEF Inv, Types, r
  <2>3. stateRef' = [kind |-> "step-finished", step |-> step] /\ gpc' = "stepSend"
    BY <1>3 DEF Publish, Goto
  <2>4. At("llm-in-flight", step) /\ Len(steps) < step
    BY <1>1 DEF Inv, Shown, Recorded, Asking
  <2>5. Len(steps) \in Nat
    BY DEF Inv, Types
  <2>6. Inv'
    BY <1>1, <2>2, <2>3, <2>4, <2>5 DEF Inv, Types, Shown, Recorded, At, Asking, Over
  <2> QED
    BY <2>3, <2>4, <2>6 DEF Moves, At, Lifecycle!Next, Lifecycle!FinishStep
<1> QED
  BY <1>2, <1>3 DEF Respond

LEMMA Stepping ==
    ASSUME Inv, StepSend \/ RunTools \/ ResultsSend \/ StopWhen \/ BeforeStep \/ Call
    PROVE  Moves
<1>1. CASE StepSend
  <2>1. gpc = "stepSend" /\ UNCHANGED <<step, steps, highest, stateRef, chunk>>
    BY <1>1 DEF StepSend, doneVars
  <2>2. CASE Panics /\ UNCHANGED ds
    BY <2>1, <2>2, Sends DEF Panics
  <2>3. CASE ds' = NoDrain /\ gpc' \in {"finalize", "tools", "stopWhen"}
    BY <2>1, <2>3, NoDrainType DEF Inv, Types, Shown, Recorded, At, Asking, Over, Moves
  <2> QED
    BY <1>1, <2>2, <2>3 DEF StepSend, Goto
<1>2. CASE RunTools
  <2>1. gpc = "tools" /\ gpc' = "resultsSend" /\ UNCHANGED <<step, steps, highest, ds, chunk>>
        /\ stateRef' = [kind |-> "tool-executing", step |-> step]
    BY <1>2 DEF RunTools, doneVars, drainVars, Goto, Publish
  <2> QED
    BY <2>1 DEF Inv, Types, Shown, Recorded, At, Asking, Over, Moves, Lifecycle!Next, Lifecycle!RunTools
<1>3. CASE ResultsSend
  BY <1>3, Sends DEF ResultsSend, Goto, doneVars, drainVars
<1>4. CASE StopWhen
  <2>1. gpc = "stopWhen" /\ UNCHANGED <<ds, steps, highest, stateRef, chunk>>
    BY <1>4 DEF StopWhen, doneVars, drainVars
  <2>2. CASE step' = step + 1 /\ gpc' = IF step < MaxSteps THEN "beforeStep" ELSE "finalize"
    BY <2>1, <2>2, BoundsAssumption DEF Inv, Types, Shown, Recorded, At, Asking, Over, Moves
  <2>3. CASE gpc' \in {"finalize", "idle"} /\ UNCHANGED step
    BY <2>1, <2>3, Sends
  <2> QED
    BY <1>4, <2>2, <2>3 DEF StopWhen, Goto, Panics
<1>5. CASE BeforeStep
  <2>1. gpc = "beforeStep" /\ UNCHANGED <<ds, steps, step, chunk>>
    BY <1>5 DEF BeforeStep, drainVars
  <2>2. CASE gpc' \in {"finalize", "idle"} /\ UNCHANGED <<stateRef, highest>>
    BY <2>1, <2>2, Sends
  <2>3. CASE gpc' = "call" /\ stateRef' = [kind |-> "llm-in-flight", step |-> step] /\ highest' = step
    <3>1. Len(steps) \in Nat /\ Len(steps) < step
      BY <2>1 DEF Inv, Types, Shown, Recorded, At
    <3>2. Inv'
      BY <2>1, <2>3, <3>1 DEF Inv, Types, Shown, Recorded, At, Asking, Over
    <3>3. Lifecycle!Announce
      BY <2>1, <2>3, BoundsAssumption DEF Inv, Types, Shown, Recorded, At, Lifecycle!Announce
    <3> QED
      BY <3>2, <3>3 DEF Moves, Lifecycle!Next
  <2> QED
    BY <1>5, <2>2, <2>3 DEF BeforeStep, Goto, Panics, Publish
<1>6. CASE Call
  <2>1. gpc = "call" /\ UNCHANGED <<step, steps, highest, stateRef, chunk>>
    BY <1>6 DEF Call, doneVars
  <2>2. CASE gpc' = "idle" /\ UNCHANGED ds
    BY <2>1, <2>2, Sends
  <2>3. CASE gpc' \in {"drain", "abortError"} /\ ds' \in {NoDrain, [NoDrain EXCEPT !.err = "provider"]}
    <3>1. ds' \in Drains
      BY <2>3, NoDrainType DEF Drains
    <3> QED
      BY <2>1, <2>3, <3>1 DEF Inv, Types, Shown, Recorded, At, Asking, Over, Moves
  <2> QED
    BY <1>6, <2>2, <2>3 DEF Call, OpenStream, Goto, Fails, Panics
<1> QED
  BY <1>1, <1>2, <1>3, <1>4, <1>5, <1>6

LEMMA Finishing ==
    ASSUME Inv, \/ AbortError \/ AbortFinish \/ AbortHook
                \/ Finalize \/ FinishHook \/ FinishSend
                \/ Release \/ RecoverError \/ RecoverFinish \/ Close
    PROVE  Moves
<1> USE Sends DEF doneVars, drainVars, Goto, Panics, Over
<1>1. CASE AbortError
  BY <1>1 DEF AbortError
<1>2. CASE AbortFinish
  BY <1>2 DEF AbortFinish
<1>3. CASE AbortHook
  BY <1>3 DEF AbortHook
<1>4. CASE Finalize
  BY <1>4 DEF Finalize
<1>5. CASE FinishHook
  BY <1>5 DEF FinishHook
<1>6. CASE FinishSend
  BY <1>6 DEF FinishSend
<1>7. CASE Release
  BY <1>7 DEF Release
<1>8. CASE RecoverError
  BY <1>8 DEF RecoverError
<1>9. CASE RecoverFinish
  BY <1>9 DEF RecoverFinish
<1>10. CASE Close
  BY <1>10 DEF Close
<1> QED
  BY <1>1, <1>2, <1>3, <1>4, <1>5, <1>6, <1>7, <1>8, <1>9, <1>10

\* The end is published once, at the highest step announced.
LEMMA Resting == ASSUME Inv, Rest PROVE Moves
<1>1. gpc = "idle" /\ gpc' = "release" /\ UNCHANGED <<step, steps, highest, ds, chunk>>
      /\ stateRef' = [kind |-> "idle", step |-> IF highest > Len(steps) THEN highest ELSE Len(steps)]
  BY DEF Rest, doneVars, drainVars, Goto, Publish
<1>2. /\ highest \in Nat /\ Len(steps) \in Nat /\ Len(steps) <= highest
      /\ stateRef.kind # "idle" /\ stateRef.step = highest
  BY <1>1 DEF Inv, Types, Shown, Recorded, Over
<1>3. stateRef' = [kind |-> "idle", step |-> stateRef.step]
  BY <1>1, <1>2
<1> QED
  BY <1>1, <1>2, <1>3 DEF Inv, Types, Shown, Recorded, At, Asking, Over, Moves, Lifecycle!Next, Lifecycle!Rest

\* consume and the caller never touch the loop.
LEMMA Reading ==
    ASSUME Inv, Consume \/ consume \/ Read \/ Cancel \/ UNCHANGED vars
    PROVE  Moves
<1>1. UNCHANGED <<gpc, step, steps, highest, ds, chunk, stateRef>>
  BY DEF Consume, consume, Take, Pass, Exhausted, Leave, Read, Cancel, loopState, doneVars, drainVars, vars
<1> QED
  BY <1>1 DEF Inv, Types, Forwardable, Shown, Recorded, At, Asking, Over, Moves

LEMMA Steps == Inv /\ [Next]_vars => Moves
<1> SUFFICES ASSUME Inv, [Next]_vars PROVE Moves
  OBVIOUS
<1>1. CASE Loop
  BY <1>1, Entering, Draining, Responding, Stepping, Finishing, Resting DEF Loop
<1> QED
  BY <1>1, Reading DEF Next

-----------------------------------------------------------------------------
\* WithStateRef: whatever the provider, the hooks, the reader and the context
\* do, a poller of a StreamText sees a behaviour of AgentLifecycle: the step
\* advances by one with each model call, a completed step and its tools follow
\* in order, and rest comes once, at the highest step announced.
THEOREM StreamFollowsLifecycle == Spec => FollowsLifecycle
<1>1. Init => Lifecycle!Init
  BY DEF Init, Lifecycle!Init
<1>2. Inv /\ [Next]_vars => Inv'
  BY Steps DEF Moves
<1>3. Inv /\ [Next]_vars => [Lifecycle!Next]_<<stateRef.kind, stateRef.step>>
  BY Steps DEF Moves
<1> QED
  BY InvInit, <1>1, <1>2, <1>3, PTL DEF Spec, FollowsLifecycle

-----------------------------------------------------------------------------
(* The channel from the loop to consume, as a sequence of chunks.          *)

ChunkType == [t : {"text", "call", "boundary", "error", "finish", "stepFinish", "toolResults"},
              n : Nat, id : Calls \cup {"none"}, fin : Finishes, total : Nat,
              err : {"none", "provider", "ctx", "panic"}]

\* consume has n of the s steps sent to it on record: the boundaries of the others
\* wait in the channel in order, and results wait behind the boundary of their step
\* and before that of the next.
InTransit(q, n, s) ==
    /\ n <= s
    /\ \A i \in 1..Len(q) : q[i].t = "stepFinish" => q[i].n \in (n + 1)..s
    /\ \A k \in (n + 1)..s : \E i \in 1..Len(q) : q[i].t = "stepFinish" /\ q[i].n = k
    /\ \A i, j \in 1..Len(q) :
          (q[i].t = "stepFinish" /\ q[j].t = "stepFinish" /\ i < j) => q[i].n < q[j].n
    /\ \A i \in 1..Len(q) : q[i].t = "toolResults" =>
          /\ q[i].n \in 1..s /\ n <= q[i].n
          /\ \A j \in 1..Len(q) : q[j].t = "stepFinish" =>
                (j < i => q[j].n <= q[i].n) /\ (i < j => q[i].n < q[j].n)

\* The results of the steps in due are on record, or wait in the channel.
Delivered(q, ts, due) ==
    \A k \in due : \/ k \in 1..Len(ts) /\ ts[k].results = k
                   \/ \E i \in 1..Len(q) : q[i].t = "toolResults" /\ q[i].n = k

Records == [from : Nat, results : Nat]

LEMMA Queued ==
    ASSUME NEW X, NEW q \in Seq(X), NEW c \in X
    PROVE  /\ Append(q, c) \in Seq(X) /\ Len(Append(q, c)) = Len(q) + 1 /\ Len(q) \in Nat
           /\ \A i \in 1..Len(q) : Append(q, c)[i] = q[i]
           /\ Append(q, c)[Len(q) + 1] = c
OBVIOUS

LEMMA Dequeued ==
    ASSUME NEW X, NEW q \in Seq(X), q # <<>>
    PROVE  /\ Tail(q) \in Seq(X) /\ Len(q) = Len(Tail(q)) + 1 /\ Len(Tail(q)) \in Nat
           /\ \A i \in 1..Len(Tail(q)) : Tail(q)[i] = q[i + 1]
           /\ Head(q) = q[1] /\ Head(q) \in X
OBVIOUS

LEMMA SendOther ==
    ASSUME NEW q \in Seq(ChunkType), NEW c \in ChunkType, NEW n \in Nat, NEW s \in Nat,
           InTransit(q, n, s), c.t \notin {"stepFinish", "toolResults"}
    PROVE  InTransit(Append(q, c), n, s)
<1>1. PICK r : r = Append(q, c)
  OBVIOUS
<1>2. /\ Len(r) = Len(q) + 1 /\ Len(q) \in Nat /\ \A i \in 1..Len(q) : r[i] = q[i]
      /\ r[Len(q) + 1] = c
  BY <1>1, Queued
<1>3. \A i \in 1..Len(r) : r[i].t \in {"stepFinish", "toolResults"} => i \in 1..Len(q) /\ r[i] = q[i]
  BY <1>2
<1>4. \A i \in 1..Len(q) : i \in 1..Len(r) /\ r[i] = q[i]
  BY <1>2
<1>5. InTransit(r, n, s)
  BY <1>3, <1>4 DEF InTransit
<1> QED
  BY <1>1, <1>5

LEMMA SendStep ==
    ASSUME NEW q \in Seq(ChunkType), NEW c \in ChunkType, NEW n \in Nat, NEW s \in Nat,
           InTransit(q, n, s), c.t = "stepFinish", c.n = s + 1
    PROVE  InTransit(Append(q, c), n, s + 1)
<1>1. PICK r : r = Append(q, c)
  OBVIOUS
<1>2. /\ Len(r) = Len(q) + 1 /\ Len(q) \in Nat /\ \A i \in 1..Len(q) : r[i] = q[i]
      /\ r[Len(q) + 1] = c
  BY <1>1, Queued
<1>3. ASSUME NEW i \in 1..Len(r), r[i].t = "stepFinish" PROVE r[i].n \in (n + 1)..(s + 1)
  <2>1. CASE i \in 1..Len(q)
    BY <1>2, <1>3, <2>1 DEF InTransit
  <2>2. CASE i = Len(q) + 1
    BY <1>2, <2>2 DEF InTransit
  <2> QED
    BY <1>2, <2>1, <2>2
<1>4. ASSUME NEW k \in (n + 1)..(s + 1)
      PROVE  \E i \in 1..Len(r) : r[i].t = "stepFinish" /\ r[i].n = k
  <2>1. CASE k \in (n + 1)..s
    <3>1. PICK i \in 1..Len(q) : q[i].t = "stepFinish" /\ q[i].n = k
      BY <2>1 DEF InTransit
    <3> QED
      BY <1>2, <3>1
  <2>2. CASE k = s + 1
    BY <1>2, <2>2
  <2> QED
    BY <2>1, <2>2
<1>5. ASSUME NEW i \in 1..Len(r), NEW j \in 1..Len(r), r[i].t = "stepFinish",
             r[j].t = "stepFinish", i < j
      PROVE  r[i].n < r[j].n
  <2>1. i \in 1..Len(q) /\ r[i] = q[i] /\ q[i].n \in (n + 1)..s
    BY <1>2, <1>5 DEF InTransit
  <2>2. CASE j \in 1..Len(q)
    BY <1>2, <1>5, <2>1, <2>2 DEF InTransit
  <2>3. CASE j = Len(q) + 1
    BY <1>2, <2>1, <2>3
  <2> QED
    BY <1>2, <2>2, <2>3
<1>6. ASSUME NEW i \in 1..Len(r), r[i].t = "toolResults"
      PROVE  /\ r[i].n \in 1..(s + 1) /\ n <= r[i].n
             /\ \A j \in 1..Len(r) : r[j].t = "stepFinish" =>
                   (j < i => r[j].n <= r[i].n) /\ (i < j => r[i].n < r[j].n)
  <2>1. i \in 1..Len(q) /\ r[i] = q[i]
    BY <1>2, <1>6
  <2>2. r[i].n \in 1..s /\ n <= r[i].n
    BY <1>6, <2>1 DEF InTransit
  <2>3. ASSUME NEW j \in 1..Len(r), r[j].t = "stepFinish"
        PROVE  (j < i => r[j].n <= r[i].n) /\ (i < j => r[i].n < r[j].n)
    <3>1. CASE j \in 1..Len(q)
      BY <1>2, <1>6, <2>1, <2>3, <3>1 DEF InTransit
    <3>2. CASE j = Len(q) + 1
      BY <1>2, <2>1, <2>2, <3>2
    <3> QED
      BY <1>2, <3>1, <3>2
  <2> QED
    BY <2>2, <2>3
<1>7. n <= s + 1
  BY DEF InTransit
<1>8. InTransit(r, n, s + 1)
  BY <1>3, <1>4, <1>5, <1>6, <1>7 DEF InTransit
<1> QED
  BY <1>1, <1>8

LEMMA SendResults ==
    ASSUME NEW q \in Seq(ChunkType), NEW c \in ChunkType, NEW n \in Nat, NEW s \in Nat \ {0},
           InTransit(q, n, s), c.t = "toolResults", c.n = s
    PROVE  InTransit(Append(q, c), n, s)
<1>1. PICK r : r = Append(q, c)
  OBVIOUS
<1>2. /\ Len(r) = Len(q) + 1 /\ Len(q) \in Nat /\ \A i \in 1..Len(q) : r[i] = q[i]
      /\ r[Len(q) + 1] = c
  BY <1>1, Queued
<1>3. ASSUME NEW i \in 1..Len(r), r[i].t = "stepFinish"
      PROVE  i \in 1..Len(q) /\ r[i] = q[i] /\ r[i].n \in (n + 1)..s
  <2>1. i \in 1..Len(q) /\ r[i] = q[i]
    BY <1>2, <1>3
  <2> QED
    BY <1>3, <2>1 DEF InTransit
<1>4. ASSUME NEW k \in (n + 1)..s
      PROVE  \E i \in 1..Len(r) : r[i].t = "stepFinish" /\ r[i].n = k
  <2>1. PICK i \in 1..Len(q) : q[i].t = "stepFinish" /\ q[i].n = k
    BY DEF InTransit
  <2> QED
    BY <1>2, <2>1
<1>5. \A i, j \in 1..Len(r) :
         (r[i].t = "stepFinish" /\ r[j].t = "stepFinish" /\ i < j) => r[i].n < r[j].n
  BY <1>3 DEF InTransit
<1>6. ASSUME NEW i \in 1..Len(r), r[i].t = "toolResults"
      PROVE  /\ r[i].n \in 1..s /\ n <= r[i].n
             /\ \A j \in 1..Len(r) : r[j].t = "stepFinish" =>
                   (j < i => r[j].n <= r[i].n) /\ (i < j => r[i].n < r[j].n)
  <2>1. CASE i \in 1..Len(q)
    BY <1>2, <1>3, <1>6, <2>1 DEF InTransit
  <2>2. CASE i = Len(q) + 1
    <3>1. \A j \in 1..Len(r) : r[j].t = "stepFinish" => j < i /\ r[j].n <= s
      BY <1>2, <1>3, <2>2
    <3>2. r[i].n = s /\ n <= s
      BY <1>2, <2>2 DEF InTransit
    <3> QED
      BY <1>2, <2>2, <3>1, <3>2
  <2> QED
    BY <1>2, <2>1, <2>2
<1>7. n <= s
  BY DEF InTransit
<1>8. InTransit(r, n, s)
  BY <1>3, <1>4, <1>5, <1>6, <1>7 DEF InTransit
<1> QED
  BY <1>1, <1>8

\* A boundary that consume takes is that of the next step.
LEMMA TakeStep ==
    ASSUME NEW q \in Seq(ChunkType), q # <<>>, NEW n \in Nat, NEW s \in Nat,
           InTransit(q, n, s), Head(q).t = "stepFinish"
    PROVE  Head(q).n = n + 1 /\ InTransit(Tail(q), n + 1, s)
<1>1. PICK r : r = Tail(q)
  OBVIOUS
<1>2. /\ Len(q) = Len(r) + 1 /\ Len(r) \in Nat /\ \A i \in 1..Len(r) : r[i] = q[i + 1]
      /\ Head(q) = q[1]
  BY <1>1, Dequeued
<1>3. q[1].n \in (n + 1)..s /\ 1 \in 1..Len(q)
  BY <1>2 DEF InTransit
<1>4. q[1].n = n + 1
  <2>1. PICK i \in 1..Len(q) : q[i].t = "stepFinish" /\ q[i].n = n + 1
    BY <1>3 DEF InTransit
  <2>2. CASE i = 1
    BY <2>1, <2>2
  <2>3. CASE i > 1
    BY <1>2, <1>3, <2>1, <2>3 DEF InTransit
  <2> QED
    BY <2>2, <2>3
<1>5. \A i \in 1..Len(r) : i + 1 \in 1..Len(q) /\ 1 < i + 1 /\ r[i] = q[i + 1]
  BY <1>2
<1>6. ASSUME NEW i \in 1..Len(r), r[i].t = "stepFinish" PROVE r[i].n \in (n + 2)..s
  <2>1. q[i + 1].n \in (n + 1)..s /\ q[1].n < q[i + 1].n
    BY <1>2, <1>3, <1>5, <1>6 DEF InTransit
  <2> QED
    BY <1>4, <1>5, <2>1
<1>7. ASSUME NEW k \in (n + 2)..s
      PROVE  \E i \in 1..Len(r) : r[i].t = "stepFinish" /\ r[i].n = k
  <2>1. PICK i \in 1..Len(q) : q[i].t = "stepFinish" /\ q[i].n = k
    BY DEF InTransit
  <2>2. i # 1
    BY <1>4, <2>1
  <2>3. i - 1 \in 1..Len(r) /\ r[i - 1] = q[i]
    BY <1>2, <2>2
  <2> QED
    BY <2>1, <2>3
<1>8. ASSUME NEW i \in 1..Len(r), NEW j \in 1..Len(r), r[i].t = "stepFinish",
             r[j].t = "stepFinish", i < j
      PROVE  r[i].n < r[j].n
  <2>1. /\ i + 1 \in 1..Len(q) /\ q[i + 1].t = "stepFinish" /\ r[i] = q[i + 1]
        /\ j + 1 \in 1..Len(q) /\ q[j + 1].t = "stepFinish" /\ r[j] = q[j + 1]
        /\ i + 1 < j + 1
    BY <1>2, <1>5, <1>8
  <2> QED
    BY <2>1 DEF InTransit
<1>9. ASSUME NEW i \in 1..Len(r), r[i].t = "toolResults"
      PROVE  /\ r[i].n \in 1..s /\ n + 1 <= r[i].n
             /\ \A j \in 1..Len(r) : r[j].t = "stepFinish" =>
                   (j < i => r[j].n <= r[i].n) /\ (i < j => r[i].n < r[j].n)
  <2>1. /\ q[i + 1].n \in 1..s /\ q[1].n <= q[i + 1].n
        /\ \A j \in 1..Len(q) : q[j].t = "stepFinish" =>
              (j < i + 1 => q[j].n <= q[i + 1].n) /\ (i + 1 < j => q[i + 1].n < q[j].n)
    BY <1>2, <1>3, <1>5, <1>9 DEF InTransit
  <2>2. ASSUME NEW j \in 1..Len(r), r[j].t = "stepFinish"
        PROVE  (j < i => r[j].n <= r[i].n) /\ (i < j => r[i].n < r[j].n)
    <3>1. j + 1 \in 1..Len(q) /\ q[j + 1].t = "stepFinish" /\ r[j] = q[j + 1] /\ r[i] = q[i + 1]
      BY <1>5, <2>2
    <3>2. (j + 1 < i + 1 => q[j + 1].n <= q[i + 1].n) /\ (i + 1 < j + 1 => q[i + 1].n < q[j + 1].n)
      BY <2>1, <3>1
    <3>3. (j < i => j + 1 < i + 1) /\ (i < j => i + 1 < j + 1)
      BY <1>2
    <3> QED
      BY <3>1, <3>2, <3>3
  <2> QED
    BY <1>4, <1>5, <2>1, <2>2
<1>10. n + 1 <= s
  BY <1>3
<1>11. InTransit(r, n + 1, s)
  <2>1. (n + 1) + 1 = n + 2
    OBVIOUS
  <2> QED
    BY <1>6, <1>7, <1>8, <1>9, <1>10, <2>1 DEF InTransit
<1> QED
  BY <1>1, <1>2, <1>4, <1>11

\* Any other chunk leaves the boundaries where they are.
LEMMA TakeOther ==
    ASSUME NEW q \in Seq(ChunkType), q # <<>>, NEW n \in Nat, NEW s \in Nat,
           InTransit(q, n, s), Head(q).t # "stepFinish"
    PROVE  InTransit(Tail(q), n, s)
<1>1. PICK r : r = Tail(q)
  OBVIOUS
<1>2. /\ Len(q) = Len(r) + 1 /\ Len(r) \in Nat /\ \A i \in 1..Len(r) : r[i] = q[i + 1]
      /\ Head(q) = q[1]
  BY <1>1, Dequeued
<1>5. \A i \in 1..Len(r) : i + 1 \in 1..Len(q) /\ r[i] = q[i + 1]
  BY <1>2
<1>6. ASSUME NEW i \in 1..Len(r), r[i].t = "stepFinish" PROVE r[i].n \in (n + 1)..s
  <2>1. i + 1 \in 1..Len(q) /\ q[i + 1].t = "stepFinish" /\ r[i] = q[i + 1]
    BY <1>5, <1>6
  <2> QED
    BY <2>1 DEF InTransit
<1>7. ASSUME NEW k \in (n + 1)..s
      PROVE  \E i \in 1..Len(r) : r[i].t = "stepFinish" /\ r[i].n = k
  <2>1. PICK i \in 1..Len(q) : q[i].t = "stepFinish" /\ q[i].n = k
    BY DEF InTransit
  <2>2. i # 1
    BY <1>2, <2>1
  <2>3. i - 1 \in 1..Len(r) /\ r[i - 1] = q[i]
    BY <1>2, <2>2
  <2> QED
    BY <2>1, <2>3
<1>8. ASSUME NEW i \in 1..Len(r), NEW j \in 1..Len(r), r[i].t = "stepFinish",
             r[j].t = "stepFinish", i < j
      PROVE  r[i].n < r[j].n
  <2>1. /\ i + 1 \in 1..Len(q) /\ q[i + 1].t = "stepFinish" /\ r[i] = q[i + 1]
        /\ j + 1 \in 1..Len(q) /\ q[j + 1].t = "stepFinish" /\ r[j] = q[j + 1]
        /\ i + 1 < j + 1
    BY <1>2, <1>5, <1>8
  <2> QED
    BY <2>1 DEF InTransit
<1>9. ASSUME NEW i \in 1..Len(r), r[i].t = "toolResults"
      PROVE  /\ r[i].n \in 1..s /\ n <= r[i].n
             /\ \A j \in 1..Len(r) : r[j].t = "stepFinish" =>
                   (j < i => r[j].n <= r[i].n) /\ (i < j => r[i].n < r[j].n)
  <2>1. /\ q[i + 1].n \in 1..s /\ n <= q[i + 1].n
        /\ \A j \in 1..Len(q) : q[j].t = "stepFinish" =>
              (j < i + 1 => q[j].n <= q[i + 1].n) /\ (i + 1 < j => q[i + 1].n < q[j].n)
    BY <1>5, <1>9 DEF InTransit
  <2>2. ASSUME NEW j \in 1..Len(r), r[j].t = "stepFinish"
        PROVE  (j < i => r[j].n <= r[i].n) /\ (i < j => r[i].n < r[j].n)
    <3>1. j + 1 \in 1..Len(q) /\ q[j + 1].t = "stepFinish" /\ r[j] = q[j + 1] /\ r[i] = q[i + 1]
      BY <1>5, <2>2
    <3>2. (j + 1 < i + 1 => q[j + 1].n <= q[i + 1].n) /\ (i + 1 < j + 1 => q[i + 1].n < q[j + 1].n)
      BY <2>1, <3>1
    <3>3. (j < i => j + 1 < i + 1) /\ (i < j => i + 1 < j + 1)
      BY <1>2
    <3> QED
      BY <3>1, <3>2, <3>3
  <2> QED
    BY <1>5, <2>1, <2>2
<1>10. n <= s
  BY DEF InTransit
<1>11. InTransit(r, n, s)
  BY <1>6, <1>7, <1>8, <1>9, <1>10 DEF InTransit
<1> QED
  BY <1>1, <1>11

\* Results that consume takes are those of the step it recorded last.
LEMMA TakeResults ==
    ASSUME NEW q \in Seq(ChunkType), q # <<>>, NEW n \in Nat, NEW s \in Nat,
           InTransit(q, n, s), Head(q).t = "toolResults"
    PROVE  Head(q).n = n /\ n # 0
<1>1. Head(q) = q[1] /\ 1 \in 1..Len(q)
  BY Dequeued
<1>2. q[1].n \in 1..s /\ n <= q[1].n
  BY <1>1 DEF InTransit
<1>3. ~(n < q[1].n)
  <2>1. SUFFICES ASSUME n < q[1].n PROVE FALSE
    OBVIOUS
  <2>2. q[1].n \in (n + 1)..s
    BY <1>2, <2>1
  <2>3. PICK j \in 1..Len(q) : q[j].t = "stepFinish" /\ q[j].n = q[1].n
    BY <2>2 DEF InTransit
  <2>4. 1 < j
    BY <1>1, <2>3
  <2>5. q[1].n < q[j].n
    BY <1>1, <2>3, <2>4 DEF InTransit
  <2> QED
    BY <1>2, <2>3, <2>5
<1> QED
  BY <1>1, <1>2, <1>3
-----------------------------------------------------------------------------
(* What the goroutine sends, and what it knows when it sends it.            *)

Causes == {"none", "empty", "natural", "predicate", "before-step", "max-steps", "abort"}

Ok(c) == (c.t = "error" => c.err # "none") /\ (c.t = "stepFinish" => c.total = 1)

Carries == out \in Seq(ChunkType) /\ \A i \in 1..Len(out) : Ok(out[i])

Flow ==
    /\ Carries
    /\ gpc = "forward" => chunk \in ChunkType /\ Ok(chunk)
    /\ stopCause \in Causes \ {"abort"} /\ finishes \in Seq(Causes)
    /\ gpc = "abortError" => ds.err # "none"
    /\ gpc = "finishHook" => published
    /\ ~panicking => gpc \notin {"recoverError", "recoverFinish"}
    /\ outClosed => gpc = "gone"

Sending(c) == c \in ChunkType /\ Ok(c) /\ out' = Append(out, c)

\* An error is on record, or on its way to consume.
Told == streamErr # "none" \/ \E i \in 1..Len(out) : out[i].t = "error"

\* What every step of the goroutine leaves alone, and what it may do to the rest.
Forth ==
    /\ gpc # "gone" /\ UNCHANGED <<opts, consumeVars>>
    /\ Live' => Live
    /\ ~panicking' => ~panicking
    /\ UNCHANGED out \/ \E c \in ChunkType : Sending(c)

LEMMA Dequeues ==
    ASSUME Carries, out # <<>>, out' = Tail(out)
    PROVE  Carries' /\ Head(out) \in ChunkType /\ Ok(Head(out))
<1>1. /\ out' \in Seq(ChunkType) /\ Len(out) = Len(out') + 1 /\ Len(out') \in Nat
      /\ \A i \in 1..Len(out') : out'[i] = out[i + 1]
      /\ Head(out) = out[1] /\ Head(out) \in ChunkType
  BY Dequeued DEF Carries
<1>2. \A i \in 1..Len(out') : i + 1 \in 1..Len(out)
  BY <1>1
<1>3. \A i \in 1..Len(out') : Ok(out'[i])
  BY <1>1, <1>2 DEF Carries
<1>4. 1 \in 1..Len(out)
  BY <1>1
<1> QED
  BY <1>1, <1>3, <1>4 DEF Carries

LEMMA Enqueues ==
    ASSUME Carries, NEW c \in ChunkType, Sending(c), UNCHANGED streamErr
    PROVE  /\ Carries'
           /\ Told => Told'
           /\ c.t = "error" => Told'
<1>1. /\ out' \in Seq(ChunkType) /\ Len(out') = Len(out) + 1 /\ Len(out) \in Nat
      /\ \A i \in 1..Len(out) : out'[i] = out[i]
      /\ out'[Len(out) + 1] = c
  BY Queued DEF Carries, Sending
<1>2. \A i \in 1..Len(out') : i \in 1..Len(out) \/ i = Len(out) + 1
  BY <1>1
<1>3. \A i \in 1..Len(out) : i \in 1..Len(out')
  BY <1>1
<1>4. Len(out) + 1 \in 1..Len(out')
  BY <1>1
<1>5. Carries'
  BY <1>1, <1>2 DEF Carries, Sending
<1>6. c.t = "error" => Told'
  BY <1>1, <1>4 DEF Told
<1> QED
  BY <1>1, <1>2, <1>3, <1>5, <1>6 DEF Told

\* The chunks the goroutine makes itself.
LEMMA Marks ==
    ASSUME Inv
    PROVE  /\ Chunk("finish") \in ChunkType /\ Ok(Chunk("finish"))
           /\ Chunk("finish").t = "finish"
           /\ \A k \in Nat : LET c == [Chunk("finish") EXCEPT !.total = k]
                            IN  c \in ChunkType /\ Ok(c) /\ c.t = "finish" /\ c.total = k
           /\ \A e \in {"provider", "ctx", "panic"} :
                 LET c == [Chunk("error") EXCEPT !.err = e]
                 IN  c \in ChunkType /\ Ok(c) /\ c.t = "error"
           /\ LET c == [Chunk("stepFinish") EXCEPT !.total = 1]
              IN  c \in ChunkType /\ Ok(c) /\ c.t = "stepFinish" /\ c.n = step
           /\ LET c == Chunk("toolResults")
              IN  c \in ChunkType /\ Ok(c) /\ c.t = "toolResults" /\ c.n = step
BY DEF Inv, Types, Chunk, ChunkType, Finishes, Ok

LEMMA Provided ==
    ASSUME Inv, NEW c \in ProviderChunks
    PROVE  c \in ChunkType /\ Ok(c) /\ c.t \notin {"stepFinish", "toolResults"}
BY DEF Inv, Types, ProviderChunks, Chunk, ChunkType, Finishes, Ok

LEMMA Tries ==
    ASSUME NEW c \in ChunkType, Ok(c), TrySend(c)
    PROVE  Sending(c) \/ (~Live /\ UNCHANGED out)
BY DEF TrySend, Sending

\* The steps that send nothing.
Silent == \/ Enter \/ Announce \/ Dial \/ Receive \/ Drained \/ AbortHook \/ Respond
          \/ RunTools \/ StopWhen \/ BeforeStep \/ Call \/ Finalize \/ FinishHook
          \/ Rest \/ Release \/ Close

LEMMA SilentForth == ASSUME Silent PROVE Forth /\ UNCHANGED out
<1> USE DEF Forth, fixed, Live, Goto, Fails, Panics, OpenStream
<1>1. CASE Enter \/ Announce \/ Receive \/ Drained \/ AbortHook \/ Respond
  BY <1>1 DEF Enter, Announce, Receive, Drained, AbortHook, Respond
<1>2. CASE Dial \/ RunTools \/ StopWhen \/ BeforeStep \/ Call
  BY <1>2 DEF Dial, RunTools, StopWhen, BeforeStep, Call
<1>3. CASE Finalize \/ FinishHook \/ Rest \/ Release \/ Close
  BY <1>3 DEF Finalize, FinishHook, Rest, Release, Close
<1> QED
  BY <1>1, <1>2, <1>3 DEF Silent

Loud == \/ Forward \/ AbortError \/ AbortFinish \/ StepSend \/ ResultsSend
        \/ FinishSend \/ RecoverError \/ RecoverFinish

LEMMA LoudForth == ASSUME Inv, Flow, Loud PROVE Forth
<1> USE Tries, Marks DEF Forth, fixed, Live, Goto, Panics
<1>1. CASE Forward
  BY <1>1 DEF Forward, Flow, Sending
<1>2. CASE AbortError
  <2>1. ds.err \in {"provider", "ctx"}
    BY <1>2 DEF AbortError, Flow, Inv, Types, Drains
  <2> QED
    BY <1>2, <2>1 DEF AbortError
<1>3. CASE AbortFinish \/ FinishSend
  <2>1. PICK c : c = [Chunk("finish") EXCEPT !.total = Len(steps)]
    OBVIOUS
  <2>2. Len(steps) \in Nat
    BY DEF Inv, Types
  <2>3. c \in ChunkType /\ Ok(c)
    BY <2>1, <2>2
  <2>4. CASE AbortFinish
    BY <2>1, <2>3, <2>4 DEF AbortFinish
  <2>5. CASE FinishSend
    BY <2>1, <2>3, <2>5 DEF FinishSend
  <2> QED
    BY <1>3, <2>4, <2>5
<1>4. CASE StepSend
  BY <1>4 DEF StepSend
<1>5. CASE ResultsSend
  BY <1>5 DEF ResultsSend
<1>6. CASE RecoverError \/ RecoverFinish
  BY <1>6 DEF RecoverError, RecoverFinish
<1> QED
  BY <1>1, <1>2, <1>3, <1>4, <1>5, <1>6 DEF Loud

LEMMA LoopForth == ASSUME Inv, Flow, Loop PROVE Forth
BY SilentForth, LoudForth DEF Loop, Silent, Loud

\* The steps of consume and of the caller leave the loop alone.
Aside == Consume \/ consume \/ Read \/ Cancel \/ UNCHANGED vars

LEMMA AsideLoop ==
    ASSUME Aside
    PROVE  /\ UNCHANGED loopState /\ (Live' => Live)
           /\ UNCHANGED out \/ Take
BY DEF Aside, Consume, consume, Take, Pass, Exhausted, Leave, Read, Cancel, vars, fixed, loopState,
       drainVars, doneVars, exitVars, Live

LEMMA FlowInit == Init => Flow
BY DEF Init, Flow, Carries, Causes, ChunkType

LEMMA CarriesNext == ASSUME Inv, Flow, [Next]_vars PROVE Carries'
<1>1. CASE Loop
  <2>1. UNCHANGED out \/ \E c \in ChunkType : Sending(c)
    BY <1>1, LoopForth DEF Forth
  <2>2. UNCHANGED streamErr
    BY <1>1, LoopForth DEF Forth, consumeVars
  <2> QED
    BY <2>1, <2>2, Enqueues DEF Flow, Carries
<1>2. CASE Aside
  <2>1. CASE UNCHANGED out
    BY <2>1 DEF Flow, Carries
  <2>2. CASE Take
    BY <2>2, Dequeues DEF Flow, Take
  <2> QED
    BY <1>2, <2>1, <2>2, AsideLoop
<1> QED
  BY <1>1, <1>2 DEF Next, Aside

LEMMA FinalCause ==
    ASSUME NEW c \in Causes \ {"abort"}, NEW h, NEW ss, NEW m
    PROVE  finalizeStopCause(h, c, ss, m).cause \in Causes \ {"abort"}
BY DEF finalizeStopCause, Causes

LEMMA CauseAppended ==
    ASSUME NEW f \in Seq(Causes), NEW c \in Causes
    PROVE  Append(f, c) \in Seq(Causes)
OBVIOUS

LEMMA FlowNext == ASSUME Inv, Flow, [Next]_vars PROVE Flow'
<1>1. Carries'
  BY CarriesNext
<1>2. CASE Aside
  <2>1. UNCHANGED loopState
    BY <1>2, AsideLoop
  <2> QED
    BY <1>1, <2>1 DEF Flow, loopState, drainVars, exitVars, Ok
<1>3. CASE Enter \/ Announce \/ Dial \/ RunTools
  BY <1>1, <1>3 DEF Flow, Enter, Announce, Dial, RunTools, Goto, fixed, exitVars, OpenStream
<1>4. CASE Receive
  <2>1. PICK c \in ProviderChunks : chunk' = c
    BY <1>4 DEF Receive
  <2> QED
    BY <1>1, <1>4, <2>1, Provided DEF Flow, Receive, Goto, Fails, fixed, exitVars
<1>5. CASE Forward \/ Drained
  BY <1>1, <1>5 DEF Flow, Forward, Drained, Goto, fixed, exitVars, Causes
<1>6. CASE AbortError \/ AbortFinish \/ ResultsSend \/ FinishSend
  BY <1>1, <1>6 DEF Flow, AbortError, AbortFinish, ResultsSend, FinishSend, Goto, fixed, exitVars
<1>7. CASE AbortHook
  <2>1. finishes' \in Seq(Causes)
    BY <1>7, CauseAppended DEF AbortHook, Flow, Causes
  <2> QED
    BY <1>1, <1>7, <2>1 DEF Flow, AbortHook, Goto, Panics, fixed
<1>8. CASE Respond \/ StepSend
  BY <1>1, <1>8 DEF Flow, Respond, StepSend, Goto, Panics, fixed, exitVars, Causes
<1>9. CASE StopWhen \/ BeforeStep
  BY <1>1, <1>9 DEF Flow, StopWhen, BeforeStep, Goto, Panics, fixed, exitVars, Causes
<1>10. CASE Call
  BY <1>1, <1>10 DEF Flow, Call, OpenStream, NoDrain, Goto, Fails, Panics, fixed, exitVars
<1>11. CASE Finalize
  BY <1>1, <1>11, FinalCause DEF Flow, Finalize, Goto, fixed
<1>12. CASE FinishHook
  <2>1. finishes' \in Seq(Causes)
    BY <1>12, CauseAppended DEF FinishHook, Flow
  <2> QED
    BY <1>1, <1>12, <2>1 DEF Flow, FinishHook, Goto, Panics, fixed
<1>13. CASE Rest \/ Release \/ RecoverError \/ RecoverFinish
  BY <1>1, <1>13 DEF Flow, Rest, Release, RecoverError, RecoverFinish, Goto, fixed, exitVars
<1>14. CASE Close
  BY <1>1, <1>14 DEF Flow, Close, Goto, exitVars
<1> QED
  BY <1>2, <1>3, <1>4, <1>5, <1>6, <1>7, <1>8, <1>9, <1>10, <1>11, <1>12, <1>13, <1>14 DEF Next, Loop, Aside
-----------------------------------------------------------------------------
(* An error reaches consume before the loop goes on, as long as the context *)
(* lives; and the steps are numbered as they are recorded.                  *)

Telling ==
    /\ Live =>
         /\ (gpc \in {"drain", "forward"} /\ ds.err # "none") => ds.fwd /\ Told
         /\ gpc \in {"abortFinish", "abortHook"} => Told
         /\ (panicking /\ gpc \in {"recoverFinish", "close", "gone"}) => Told
         /\ cpc \in {"leave", "done"} => out = <<>> /\ gpc = "gone"
    /\ gpc \in {"enter", "announce", "dial", "rejected"} => cpc = "off"

Numbered ==
    /\ \A k \in 1..Len(steps) : steps[k].number = k
    /\ gpc \in {"enter", "announce", "dial", "drain", "forward", "call", "respond", "beforeStep"}
          => Len(steps) = step - 1
    /\ gpc \in {"stepSend", "tools", "resultsSend", "stopWhen"} => Len(steps) = step
    /\ gpc = "stepSend" => steps[Len(steps)].calls = ds.calls

LEMMA TellingInit == Init => Telling /\ Numbered
BY DEF Init, Telling, Numbered

\* An error stays told.
LEMMA ToldStays == ASSUME Inv, Flow, Told, [Next]_vars PROVE Told'
<1>1. CASE Loop
  <2>1. UNCHANGED out \/ \E c \in ChunkType : Sending(c)
    BY <1>1, LoopForth DEF Forth
  <2>2. UNCHANGED streamErr
    BY <1>1, LoopForth DEF Forth, consumeVars
  <2> QED
    BY <2>1, <2>2, Enqueues DEF Flow, Told
<1>2. CASE Take
  <2>1. /\ out # <<>> /\ out' = Tail(out)
        /\ streamErr' = IF Head(out).t = "error"
                        THEN IF streamErr = "none" THEN Head(out).err ELSE streamErr
                        ELSE streamErr
    BY <1>2 DEF Take, ErrorOf
  <2>2. CASE streamErr # "none"
    BY <2>1, <2>2 DEF Told
  <2>3. CASE Head(out).t = "error"
    <3>1. Head(out).err # "none"
      BY <2>1, <2>3, Dequeues DEF Flow, Ok
    <3> QED
      BY <2>1, <2>3, <3>1 DEF Told
  <2>4. CASE streamErr = "none" /\ Head(out).t # "error"
    <3>1. PICK i \in 1..Len(out) : out[i].t = "error"
      BY <2>4 DEF Told
    <3>2. /\ Len(out) = Len(out') + 1 /\ Len(out') \in Nat
          /\ \A k \in 1..Len(out') : out'[k] = out[k + 1]
          /\ Head(out) = out[1]
      BY <2>1, Dequeued DEF Flow, Carries
    <3>3. i - 1 \in 1..Len(out') /\ out'[i - 1] = out[i]
      BY <2>4, <3>1, <3>2
    <3> QED
      BY <3>1, <3>3 DEF Told
  <2> QED
    BY <2>2, <2>3, <2>4
<1>3. CASE Pass
  BY <1>3 DEF Pass, GiveUp, Told
<1>4. CASE Consume \/ Exhausted \/ Leave \/ Read \/ Cancel \/ UNCHANGED vars
  BY <1>4 DEF Consume, Exhausted, Leave, Read, Cancel, vars, fixed, consumeVars, Told
<1> QED
  BY <1>1, <1>2, <1>3, <1>4 DEF Next, consume

\* The error a step of the goroutine sends is told.
LEMMA Tells ==
    ASSUME Inv, Flow, Live, UNCHANGED streamErr,
           \/ AbortError \/ RecoverError
           \/ Forward /\ chunk.t = "error"
    PROVE  Told'
<1>1. CASE Forward /\ chunk.t = "error"
  <2>1. Sending(chunk) /\ chunk \in ChunkType
    BY <1>1 DEF Forward, Flow, Sending
  <2> QED
    BY <1>1, <2>1, Enqueues DEF Flow
<1>2. CASE AbortError
  <2>1. ds.err \in {"provider", "ctx"}
    BY <1>2 DEF AbortError, Flow, Inv, Types, Drains
  <2>2. PICK c \in ChunkType : Sending(c) /\ c.t = "error"
    BY <1>2, <2>1, Marks, Tries DEF AbortError
  <2> QED
    BY <2>2, Enqueues DEF Flow
<1>3. CASE RecoverError
  <2>2. PICK c \in ChunkType : Sending(c) /\ c.t = "error"
    BY <1>3, Marks, Tries DEF RecoverError
  <2> QED
    BY <2>2, Enqueues DEF Flow
<1> QED
  BY <1>1, <1>2, <1>3

LEMMA TellingNext == ASSUME Inv, Flow, Telling, [Next]_vars PROVE Telling'
<1>1. CASE Aside
  <2>1. UNCHANGED loopState /\ (Live' => Live) /\ (Told => Told') /\ (UNCHANGED out \/ Take)
    BY <1>1, AsideLoop, ToldStays
  <2>2. UNCHANGED <<gpc, ds, panicking>>
    BY <2>1 DEF loopState, drainVars
  <2>3. (Live' /\ cpc' \in {"leave", "done"}) => out' = <<>> /\ gpc' = "gone"
    BY <1>1, <2>1, <2>2 DEF Telling, Aside, Consume, consume, Take, AfterTake, Pass, GiveUp,
       Exhausted, Leave, Read, Cancel, vars, fixed, consumeVars, Flow, Live
  <2>4. gpc \in {"enter", "announce", "dial", "rejected"} => cpc' = "off"
    BY <1>1 DEF Telling, Aside, Consume, consume, Take, Pass, Exhausted, Leave, Read, Cancel,
       vars, fixed, consumeVars
  <2> QED
    BY <2>1, <2>2, <2>3, <2>4 DEF Telling
<1>2. CASE Loop
  <2>1. /\ gpc # "gone" /\ (Live' => Live) /\ (Told => Told') /\ (~panicking' => ~panicking)
        /\ UNCHANGED <<cpc, streamErr>>
    BY <1>2, LoopForth, ToldStays DEF Forth, consumeVars
  <2>2. (Live' /\ cpc' \in {"leave", "done"}) => out' = <<>> /\ gpc' = "gone"
    BY <2>1 DEF Telling
  <2> USE DEF Goto, Panics
  <2>3. CASE Enter \/ Announce \/ Dial
    BY <2>1, <2>2, <2>3 DEF Telling, Enter, Announce, Dial, OpenStream, NoDrain, drainVars
  <2>12. CASE Receive
    <3>1. ds'.err = ds.err /\ ds'.fwd = ds.fwd
      BY <2>12 DEF Receive, Inv, Types, Drains
    <3>2. gpc = "drain" /\ gpc' \in {"drain", "forward"}
      BY <2>12 DEF Receive, Goto, Fails
    <3> QED
      BY <2>1, <2>2, <3>1, <3>2 DEF Telling
  <2>4. CASE Forward
    <3>1. CASE ~Live
      BY <2>1, <2>2, <2>4, <3>1 DEF Telling, Forward
    <3>2. CASE Live /\ chunk.t = "error"
      <4>1. Told'
        BY <2>1, <2>4, <3>2, Tells
      <4>2. ds' = [ds EXCEPT !.err = "provider", !.fwd = TRUE]
        BY <2>4, <3>2 DEF Forward
      <4>3. ds'.fwd
        BY <4>2 DEF Inv, Types, Drains
      <4> QED
        BY <2>1, <2>2, <2>4, <4>1, <4>3 DEF Telling, Forward
    <3>3. CASE Live /\ chunk.t # "error"
      <4>1. ds'.err = ds.err /\ ds'.fwd = ds.fwd
        BY <2>4, <3>3 DEF Forward, Inv, Types, Forwardable, Drains
      <4> QED
        BY <2>1, <2>2, <2>4, <3>3, <4>1 DEF Telling, Forward
    <3> QED
      BY <3>1, <3>2, <3>3
  <2>5. CASE Drained
    BY <2>1, <2>2, <2>5 DEF Telling, Drained
  <2>6. CASE AbortError
    <3>1. Live => Told'
      BY <2>1, <2>6, Tells
    <3> QED
      BY <2>1, <2>2, <2>6, <3>1 DEF Telling, AbortError
  <2>7. CASE AbortFinish \/ AbortHook \/ Respond \/ StepSend \/ RunTools \/ ResultsSend
    BY <2>1, <2>2, <2>7 DEF Telling, AbortFinish, AbortHook, Respond, StepSend, RunTools, ResultsSend
  <2>8. CASE StopWhen \/ BeforeStep \/ Call \/ Finalize \/ FinishHook \/ FinishSend \/ Rest
    BY <2>1, <2>2, <2>8 DEF Telling, StopWhen, BeforeStep, Call, Fails, OpenStream, NoDrain, Finalize,
       FinishHook, FinishSend, Rest
  <2>9. CASE Release
    BY <2>1, <2>2, <2>9 DEF Telling, Release
  <2>10. CASE RecoverError
    <3>1. Live => Told'
      BY <2>1, <2>10, Tells
    <3> QED
      BY <2>1, <2>2, <2>10, <3>1 DEF Telling, RecoverError
  <2>11. CASE RecoverFinish \/ Close
    BY <2>1, <2>2, <2>11 DEF Telling, RecoverFinish, Close
  <2> QED
    BY <1>2, <2>3, <2>4, <2>5, <2>6, <2>7, <2>8, <2>9, <2>10, <2>11, <2>12 DEF Loop
<1> QED
  BY <1>1, <1>2 DEF Next, Aside

LEMMA NumberedNext == ASSUME Inv, Numbered, [Next]_vars PROVE Numbered'
<1> USE DEF Goto, Panics
<1>1. CASE Aside
  <2>1. UNCHANGED loopState
    BY <1>1, AsideLoop
  <2> QED
    BY <2>1 DEF Numbered, loopState, drainVars, doneVars
<1>2. CASE Enter \/ Announce \/ Dial \/ Receive \/ Forward \/ Drained
  BY <1>2 DEF Numbered, Enter, Announce, Dial, Receive, Forward, Drained, Goto, Fails, doneVars
<1>3. CASE AbortError \/ AbortFinish \/ AbortHook
  BY <1>3 DEF Numbered, AbortError, AbortFinish, AbortHook, doneVars
<1>4. CASE Respond
  <2>1. CASE UNCHANGED steps /\ gpc' = "idle"
    BY <2>1 DEF Numbered
  <2>2. CASE gpc' = "stepSend"
    <3>1. PICK r : /\ r = [number |-> step, text |-> ds.text, calls |-> ds.calls, finish |-> ds.finish]
                   /\ steps' = Append(steps, r)
      BY <1>4, <2>2 DEF Respond
    <3>2. gpc = "respond" /\ UNCHANGED <<step, ds>>
      BY <1>4 DEF Respond, drainVars
    <3>3. r.number = step /\ r.calls = ds.calls
      BY <3>1
    <3>4. /\ Len(steps') = Len(steps) + 1 /\ Len(steps) \in Nat
          /\ \A k \in 1..Len(steps) : steps'[k] = steps[k]
          /\ steps'[Len(steps) + 1] = r
      BY <3>1 DEF Inv, Types
    <3>5. Len(steps) = step - 1 /\ step \in Nat
      BY <3>2 DEF Numbered, Inv, Types
    <3>6. \A k \in 1..Len(steps') : steps'[k].number = k
      BY <3>3, <3>4, <3>5 DEF Numbered
    <3> QED
      BY <2>2, <3>2, <3>3, <3>4, <3>5, <3>6 DEF Numbered
  <2> QED
    BY <1>4, <2>1, <2>2 DEF Respond
<1>5. CASE StepSend \/ RunTools \/ ResultsSend
  BY <1>5 DEF Numbered, StepSend, RunTools, ResultsSend, doneVars
<1>6. CASE StopWhen
  BY <1>6 DEF Numbered, StopWhen, doneVars, Inv, Types
<1>7. CASE BeforeStep \/ Call \/ Finalize \/ FinishHook \/ FinishSend
  BY <1>7 DEF Numbered, BeforeStep, Call, Finalize, FinishHook, FinishSend, Goto, Fails, doneVars
<1>8. CASE Rest \/ Release \/ RecoverError \/ RecoverFinish \/ Close
  BY <1>8 DEF Numbered, Rest, Release, RecoverError, RecoverFinish, Close, doneVars
<1> QED
  BY <1>1, <1>2, <1>3, <1>4, <1>5, <1>6, <1>7, <1>8 DEF Next, Loop, Aside
-----------------------------------------------------------------------------
(* A nil error on a live context means a complete result.                   *)

LEMMA DeliveredSent ==
    ASSUME NEW q \in Seq(ChunkType), NEW c \in ChunkType, NEW ts, NEW D, Delivered(q, ts, D),
           NEW E, \A k \in E : k \in D \/ (c.t = "toolResults" /\ c.n = k)
    PROVE  Delivered(Append(q, c), ts, E)
<1>1. PICK r : r = Append(q, c)
  OBVIOUS
<1>2. /\ Len(r) = Len(q) + 1 /\ Len(q) \in Nat /\ \A i \in 1..Len(q) : r[i] = q[i]
      /\ r[Len(q) + 1] = c
  BY <1>1, Queued
<1>3. \A i \in 1..Len(q) : i \in 1..Len(r) /\ r[i] = q[i]
  BY <1>2
<1>4. Len(q) + 1 \in 1..Len(r)
  BY <1>2
<1>5. Delivered(r, ts, E)
  BY <1>2, <1>3, <1>4 DEF Delivered
<1> QED
  BY <1>1, <1>5

\* What consume takes from the channel it has on record.
LEMMA DeliveredTaken ==
    ASSUME NEW q \in Seq(ChunkType), q # <<>>, NEW ts, NEW us, NEW D, Delivered(q, ts, D),
           \A k \in 1..Len(ts) : ts[k].results = k => k \in 1..Len(us) /\ us[k].results = k,
           Head(q).t = "toolResults" => LET k == Head(q).n IN k \in 1..Len(us) /\ us[k].results = k
    PROVE  Delivered(Tail(q), us, D)
<1>1. PICK r : r = Tail(q)
  OBVIOUS
<1>2. /\ Len(q) = Len(r) + 1 /\ Len(r) \in Nat /\ \A i \in 1..Len(r) : r[i] = q[i + 1]
      /\ Head(q) = q[1]
  BY <1>1, Dequeued
<1>3. ASSUME NEW k \in D
      PROVE  \/ k \in 1..Len(us) /\ us[k].results = k
             \/ \E i \in 1..Len(r) : r[i].t = "toolResults" /\ r[i].n = k
  <2>1. CASE k \in 1..Len(ts) /\ ts[k].results = k
    BY <2>1
  <2>2. CASE \E i \in 1..Len(q) : q[i].t = "toolResults" /\ q[i].n = k
    <3>1. PICK i \in 1..Len(q) : q[i].t = "toolResults" /\ q[i].n = k
      BY <2>2
    <3>2. CASE i = 1
      BY <1>2, <3>1, <3>2
    <3>3. CASE i # 1
      <4>1. i - 1 \in 1..Len(r) /\ r[i - 1] = q[i]
        BY <1>2, <3>3
      <4> QED
        BY <3>1, <4>1
    <3> QED
      BY <3>2, <3>3
  <2> QED
    BY <2>1, <2>2 DEF Delivered
<1>4. Delivered(r, us, D)
  BY <1>3 DEF Delivered
<1> QED
  BY <1>1, <1>4

\* The step boundaries sent so far, and the steps whose results have been sent.
Sent == IF gpc = "stepSend" THEN Len(steps) - 1 ELSE Len(steps)
Owing == {"stepSend", "tools", "resultsSend"}
Due == {k \in 1..Len(steps) : /\ steps[k].calls # <<>> /\ opts.toolMap
                              /\ k < Len(steps) \/ gpc \notin Owing}

Closing == {"idle", "release", "close", "gone"}
Unfinished(q) == \A i \in 1..Len(q) : q[i].t # "finish"
EndsWith(q, total) == \A i \in 1..Len(q) : q[i].t = "finish" => i = Len(q) /\ q[i].total = total

OnRecord ==
    /\ tsSteps \in Seq(Records) /\ \A k \in 1..Len(tsSteps) : tsSteps[k].from = k
    /\ InTransit(out, Len(tsSteps), Sent)
    /\ Delivered(out, tsSteps, Due)
    /\ tsUsage = Len(tsSteps)
Ended ==
    /\ gpc \in Closing => EndsWith(out, Len(steps))
    /\ gpc \notin Closing => Unfinished(out)
    /\ gpc \in Closing \cup {"finishSend"} =>
          published /\ finishes # <<>> /\ Last(finishes) # "abort"

\* Nothing has gone wrong that consume could be told of.
Good == Live /\ ~panicking /\ ~Told
Complete == Good => OnRecord /\ Ended

Facts == Inv /\ Flow /\ Telling /\ Numbered

LEMMA CompleteInit == Init => Complete
<1> SUFFICES ASSUME Init PROVE OnRecord /\ Ended
  BY DEF Complete
<1>1. out = <<>> /\ tsSteps = <<>> /\ steps = <<>> /\ gpc = "enter" /\ tsUsage = 0
  BY DEF Init
<1>2. Len(out) = 0 /\ Len(steps) = 0 /\ Len(tsSteps) = 0 /\ Sent = 0 /\ Due = {}
  BY <1>1 DEF Sent, Due
<1>3. InTransit(out, 0, 0)
  BY <1>2 DEF InTransit
<1> QED
  BY <1>1, <1>2, <1>3 DEF OnRecord, Ended, Delivered, Closing, Unfinished, Records

\* What has gone wrong stays so.
LEMMA GoodBack ==
    ASSUME Facts, [Next]_vars, Good'
    PROVE  Good /\ gpc \notin {"abortFinish", "abortHook", "recoverError", "recoverFinish"}
<1>1. ~Told
  BY ToldStays DEF Facts, Good
<1>2. CASE Loop
  BY <1>1, <1>2, LoopForth DEF Facts, Good, Forth, Flow, Telling
<1>3. CASE Aside
  BY <1>1, <1>3, AsideLoop DEF Facts, Good, loopState, Flow, Telling
<1> QED
  BY <1>2, <1>3 DEF Next, Aside

\* A step that neither sends nor records.
LEMMA Quiet ==
    ASSUME OnRecord, Ended, UNCHANGED <<out, steps, opts, tsSteps, tsUsage>>,
           gpc # "stepSend", gpc' # "stepSend",
           gpc \in Owing => gpc' \in Owing,
           (gpc \in Closing) = (gpc' \in Closing),
           gpc' \in Closing \cup {"finishSend"} =>
              published' /\ finishes' # <<>> /\ Last(finishes') # "abort"
    PROVE  OnRecord' /\ Ended'
<1>1. Sent' = Sent /\ Due' \subseteq Due
  BY DEF Sent, Due
<1>2. Delivered(out, tsSteps, Due)'
  BY <1>1 DEF OnRecord, Delivered
<1> QED
  BY <1>1, <1>2 DEF OnRecord, Ended

LEMMA Silently ==
    ASSUME Facts, Facts', OnRecord, Ended, Good', Silent, ~Respond, ~AbortHook
    PROVE  OnRecord' /\ Ended'
<1> USE DEF Goto, Panics, Owing, Closing, Good
<1>1. UNCHANGED <<out, opts, tsSteps, tsUsage>>
  BY SilentForth DEF Forth, consumeVars
<1>2. CASE Enter \/ Announce \/ Dial \/ Receive \/ Drained \/ RunTools
  BY <1>1, <1>2, Quiet DEF Enter, Announce, Dial, Receive, Drained, RunTools, Goto, Fails, doneVars
<1>3. CASE StopWhen \/ BeforeStep \/ Call \/ Finalize
  BY <1>1, <1>3, Quiet DEF StopWhen, BeforeStep, Call, Finalize, Goto, Fails, doneVars
<1>4. CASE FinishHook
  <2>1. gpc = "finishHook" /\ gpc' = "finishSend" /\ UNCHANGED <<steps, published>>
    BY <1>4 DEF FinishHook, doneVars
  <2>2. finishes' = Append(finishes, stopCause) /\ stopCause # "abort" /\ published
        /\ finishes \in Seq(Causes) /\ stopCause \in Causes
    BY <1>4, <2>1 DEF FinishHook, Facts, Flow
  <2>3. finishes' # <<>> /\ Last(finishes') = stopCause
    BY <2>2 DEF Last
  <2> QED
    BY <1>1, <2>1, <2>2, <2>3, Quiet
<1>5. CASE Rest \/ Release \/ Close
  <2>1. gpc \in Closing /\ gpc' \in Closing /\ UNCHANGED <<steps, published, finishes>>
    BY <1>5 DEF Rest, Release, Close, doneVars, exitVars
  <2> QED
    BY <1>1, <2>1, Quiet DEF Ended
<1> QED
  BY <1>2, <1>3, <1>4, <1>5 DEF Silent

\* A chunk that is neither a boundary nor results.
LEMMA Loudly ==
    ASSUME Facts, OnRecord, NEW c \in ChunkType, Sending(c), c.t \notin {"stepFinish", "toolResults"},
           UNCHANGED <<steps, opts, tsSteps, tsUsage>>,
           gpc # "stepSend", gpc' # "stepSend", gpc \notin Owing
    PROVE  OnRecord'
<1>1. Sent' = Sent /\ Sent \in Nat /\ Due' \subseteq Due /\ Len(tsSteps) \in Nat
  BY DEF Sent, Due, OnRecord, Facts, Inv, Types
<1>2. out \in Seq(ChunkType) /\ out' = Append(out, c)
  BY DEF Facts, Flow, Carries, Sending
<1>3. InTransit(out', Len(tsSteps), Sent)
  BY <1>1, <1>2, SendOther DEF OnRecord
<1>4. Delivered(out', tsSteps, Due')
  BY <1>1, <1>2, DeliveredSent DEF OnRecord
<1> QED
  BY <1>1, <1>3, <1>4 DEF OnRecord

LEMMA FinishAfter ==
    ASSUME NEW q \in Seq(ChunkType), NEW c \in ChunkType, Unfinished(q)
    PROVE  /\ c.t # "finish" => Unfinished(Append(q, c))
           /\ c.t = "finish" => EndsWith(Append(q, c), c.total)
<1>1. PICK r : r = Append(q, c)
  OBVIOUS
<1>2. /\ Len(r) = Len(q) + 1 /\ Len(q) \in Nat /\ \A i \in 1..Len(q) : r[i] = q[i]
      /\ r[Len(q) + 1] = c
  BY <1>1, Queued
<1>3. \A i \in 1..Len(r) : i \in 1..Len(q) \/ i = Len(q) + 1
  BY <1>2
<1>4. /\ c.t # "finish" => Unfinished(r)
      /\ c.t = "finish" => EndsWith(r, c.total)
  BY <1>2, <1>3 DEF Unfinished, EndsWith
<1> QED
  BY <1>1, <1>4

LEMMA FinishTaken ==
    ASSUME NEW q \in Seq(ChunkType), q # <<>>
    PROVE  /\ Unfinished(q) => Unfinished(Tail(q)) /\ Head(q).t # "finish"
           /\ \A total \in Nat : EndsWith(q, total) =>
                 /\ EndsWith(Tail(q), total)
                 /\ Head(q).t = "finish" => Len(q) = 1 /\ Head(q).total = total
<1>1. PICK r : r = Tail(q)
  OBVIOUS
<1>2. /\ Len(q) = Len(r) + 1 /\ Len(r) \in Nat /\ \A i \in 1..Len(r) : r[i] = q[i + 1]
      /\ Head(q) = q[1]
  BY <1>1, Dequeued
<1>3. \A i \in 1..Len(r) : i + 1 \in 1..Len(q)
  BY <1>2
<1>4. 1 \in 1..Len(q)
  BY <1>2
<1>5. Unfinished(q) => Unfinished(r) /\ Head(q).t # "finish"
  BY <1>2, <1>3, <1>4 DEF Unfinished
<1>6. ASSUME NEW total \in Nat, EndsWith(q, total)
      PROVE  EndsWith(r, total) /\ (Head(q).t = "finish" => Len(q) = 1 /\ Head(q).total = total)
  <2>1. ASSUME NEW i \in 1..Len(r), r[i].t = "finish" PROVE i = Len(r) /\ r[i].total = total
    <3>1. i + 1 \in 1..Len(q) /\ q[i + 1].t = "finish" /\ r[i] = q[i + 1]
      BY <1>2, <1>3, <2>1
    <3>2. i + 1 = Len(q) /\ q[i + 1].total = total
      BY <1>6, <3>1 DEF EndsWith
    <3> QED
      BY <1>2, <3>1, <3>2
  <2>2. Head(q).t = "finish" => 1 = Len(q) /\ q[1].total = total
    BY <1>2, <1>4, <1>6 DEF EndsWith
  <2> QED
    BY <1>2, <2>1, <2>2 DEF EndsWith
<1> QED
  BY <1>1, <1>5, <1>6

LEMMA Forwarding ==
    ASSUME Facts, OnRecord, Ended, Live, Forward
    PROVE  OnRecord' /\ Ended'
<1>1. /\ chunk \in ChunkType /\ Sending(chunk)
      /\ gpc = "forward" /\ gpc' = "drain" /\ UNCHANGED <<steps, opts, tsSteps, tsUsage>>
  BY DEF Forward, Facts, Flow, Sending, Goto, doneVars, fixed, consumeVars
<1>2. chunk.t \in {"text", "call", "boundary", "error"}
  BY <1>1 DEF Facts, Inv, Types, Forwardable
<1>3. OnRecord'
  BY <1>1, <1>2, Loudly DEF Owing
<1>4. Unfinished(out')
  BY <1>1, <1>2, FinishAfter DEF Ended, Closing, Sending, Facts, Flow, Carries
<1> QED
  BY <1>1, <1>3, <1>4 DEF Ended, Closing

\* The loop ends with the usage of all its steps.
LEMMA Totalling ==
    ASSUME Facts, OnRecord, Ended, Live, FinishSend
    PROVE  OnRecord' /\ Ended'
<1>1. PICK c : c = [Chunk("finish") EXCEPT !.total = Len(steps)]
  OBVIOUS
<1>2. c \in ChunkType /\ Ok(c) /\ c.t = "finish" /\ c.total = Len(steps)
  BY <1>1, Marks DEF Facts, Inv, Types
<1>3. /\ Sending(c) /\ gpc = "finishSend" /\ gpc' = "idle"
      /\ UNCHANGED <<steps, opts, tsSteps, tsUsage, published, finishes>>
  BY <1>1, <1>2, Tries DEF FinishSend, Goto, doneVars, exitVars, fixed, consumeVars
<1>4. OnRecord'
  BY <1>2, <1>3, Loudly DEF Owing
<1>5. EndsWith(out', Len(steps'))
  BY <1>2, <1>3, FinishAfter DEF Ended, Closing, Sending, Facts, Flow, Carries
<1> QED
  BY <1>3, <1>4, <1>5 DEF Ended, Closing

\* The step is recorded before its boundary is sent.
LEMMA Recording ==
    ASSUME Facts, OnRecord, Ended, ~panicking', Respond
    PROVE  OnRecord' /\ Ended'
<1>1. PICK r : steps' = Append(steps, r) /\ gpc' = "stepSend"
  BY DEF Respond, Panics, Goto
<1>2. gpc = "respond" /\ UNCHANGED <<out, opts, tsSteps, tsUsage>>
  BY DEF Respond, fixed, consumeVars
<1>3. /\ Len(steps') = Len(steps) + 1 /\ Len(steps) \in Nat
      /\ \A k \in 1..Len(steps) : steps'[k] = steps[k]
  BY <1>1 DEF Facts, Inv, Types
<1>4. Sent' = Sent
  BY <1>1, <1>2, <1>3 DEF Sent
<1>5. ASSUME NEW k \in Due' PROVE k \in Due
  <2>1. k \in 1..Len(steps') /\ k < Len(steps') /\ steps'[k].calls # <<>> /\ opts.toolMap
    BY <1>1, <1>2, <1>3 DEF Due, Owing
  <2>2. k \in 1..Len(steps) /\ steps'[k] = steps[k]
    BY <1>3, <2>1
  <2> QED
    BY <1>2, <2>1, <2>2 DEF Due, Owing
<1>6. Delivered(out, tsSteps, Due)'
  BY <1>2, <1>5 DEF OnRecord, Delivered
<1>7. OnRecord'
  BY <1>2, <1>4, <1>6 DEF OnRecord
<1> QED
  BY <1>1, <1>2, <1>7 DEF Ended, Closing

\* The boundary follows what was sent before; the calls of the step are now owed,
\* or there are none, or no tool could answer them.
LEMMA Bounding ==
    ASSUME Facts, OnRecord, Ended, Live, ~panicking', StepSend
    PROVE  OnRecord' /\ Ended'
<1>1. PICK c : c = [Chunk("stepFinish") EXCEPT !.total = 1]
  OBVIOUS
<1>2. c \in ChunkType /\ Ok(c) /\ c.t = "stepFinish" /\ c.n = step
  BY <1>1, Marks DEF Facts
<1>3. /\ Sending(c) /\ gpc = "stepSend"
      /\ UNCHANGED <<steps, opts, tsSteps, tsUsage, published, finishes>>
  BY <1>1, <1>2, Tries DEF StepSend, Panics, doneVars, fixed, consumeVars
<1>4. \/ gpc' = "finalize" /\ EndsLoop(Normalize(ds), opts)
      \/ gpc' = "tools"
      \/ gpc' = "stopWhen" /\ ds.calls = <<>>
  BY DEF StepSend, Panics, Goto
<1>5. Len(steps) = step /\ step \in Nat \ {0} /\ steps[Len(steps)].calls = ds.calls
  BY <1>3 DEF Facts, Numbered, Inv, Types
<1>6. Sent = Len(steps) - 1 /\ Sent \in Nat /\ Sent' = Sent + 1 /\ c.n = Sent + 1 /\ Len(tsSteps) \in Nat
  BY <1>2, <1>3, <1>4, <1>5 DEF Sent, OnRecord
<1>7. out \in Seq(ChunkType) /\ out' = Append(out, c)
  BY <1>3 DEF Facts, Flow, Carries, Sending
<1>8. InTransit(out', Len(tsSteps), Sent')
  BY <1>2, <1>6, <1>7, SendStep DEF OnRecord
<1>9. ASSUME EndsLoop(Normalize(ds), opts), opts.toolMap PROVE ds.calls = <<>>
  <2>1. SUFFICES ASSUME ds.calls # <<>> PROVE FALSE
    OBVIOUS
  <2>2. Normalize(ds).finish = "tool_calls" /\ Normalize(ds).calls = ds.calls
    BY <2>1 DEF Normalize, Facts, Inv, Types, Drains
  <2> QED
    BY <1>9, <2>1, <2>2 DEF EndsLoop
<1>10. ASSUME NEW k \in Due' PROVE k \in Due
  <2>1. k \in 1..Len(steps) /\ steps[k].calls # <<>> /\ opts.toolMap
        /\ (k < Len(steps) \/ gpc' \notin Owing)
    BY <1>3 DEF Due
  <2>2. k < Len(steps)
    BY <1>4, <1>5, <1>9, <2>1 DEF Owing
  <2> QED
    BY <2>1, <2>2 DEF Due
<1>11. Delivered(out', tsSteps, Due')
  BY <1>2, <1>7, <1>10, DeliveredSent DEF OnRecord
<1>12. OnRecord'
  BY <1>3, <1>8, <1>11 DEF OnRecord
<1>13. Unfinished(out')
  BY <1>2, <1>3, <1>7, FinishAfter DEF Ended, Closing
<1> QED
  BY <1>3, <1>4, <1>12, <1>13 DEF Ended, Closing

\* The results follow the boundary of their step.
LEMMA Answering ==
    ASSUME Facts, OnRecord, Ended, Live, ResultsSend
    PROVE  OnRecord' /\ Ended'
<1>1. PICK c : c = Chunk("toolResults")
  OBVIOUS
<1>2. c \in ChunkType /\ Ok(c) /\ c.t = "toolResults" /\ c.n = step
  BY <1>1, Marks DEF Facts
<1>3. /\ Sending(c) /\ gpc = "resultsSend" /\ gpc' = "stopWhen"
      /\ UNCHANGED <<steps, opts, tsSteps, tsUsage, published, finishes>>
  BY <1>1, <1>2, Tries DEF ResultsSend, Goto, doneVars, exitVars, fixed, consumeVars
<1>4. Len(steps) = step /\ step \in Nat \ {0}
  BY <1>3 DEF Facts, Numbered, Inv, Types
<1>5. Sent = Len(steps) /\ Sent' = Sent /\ Len(tsSteps) \in Nat
  BY <1>3 DEF Sent, OnRecord
<1>6. out \in Seq(ChunkType) /\ out' = Append(out, c)
  BY <1>3 DEF Facts, Flow, Carries, Sending
<1>7. InTransit(out', Len(tsSteps), Sent')
  BY <1>2, <1>4, <1>5, <1>6, SendResults DEF OnRecord
<1>8. ASSUME NEW k \in Due' PROVE k \in Due \/ (c.t = "toolResults" /\ c.n = k)
  <2>1. k \in 1..Len(steps) /\ steps[k].calls # <<>> /\ opts.toolMap
    BY <1>3, <1>8 DEF Due
  <2>2. CASE k = Len(steps)
    BY <1>2, <1>4, <2>2
  <2>3. CASE k < Len(steps)
    BY <2>1, <2>3 DEF Due
  <2> QED
    BY <1>4, <2>1, <2>2, <2>3
<1>9. Delivered(out', tsSteps, Due')
  BY <1>2, <1>6, <1>8, DeliveredSent DEF OnRecord
<1>10. OnRecord'
  BY <1>3, <1>7, <1>9 DEF OnRecord
<1>11. Unfinished(out')
  BY <1>2, <1>3, <1>6, FinishAfter DEF Ended, Closing
<1> QED
  BY <1>3, <1>10, <1>11 DEF Ended, Closing

\* A channel without boundaries: consume has every step.
LEMMA Caught ==
    ASSUME NEW q \in Seq(ChunkType), NEW n \in Nat, NEW s \in Nat, InTransit(q, n, s),
           \A i \in 1..Len(q) : q[i].t # "stepFinish"
    PROVE  n = s
<1>1. CASE n < s
  <2>1. n + 1 \in (n + 1)..s
    BY <1>1
  <2> QED
    BY <2>1 DEF InTransit
<1> QED
  BY <1>1 DEF InTransit

LEMMA TakingStep ==
    ASSUME Facts, OnRecord, Take, Head(out).t = "stepFinish"
    PROVE  OnRecord'
<1>1. PICK c : c = Head(out)
  OBVIOUS
<1>2. PICK n : n = Len(tsSteps)
  OBVIOUS
<1>3. out \in Seq(ChunkType) /\ out # <<>> /\ out' = Tail(out) /\ c \in ChunkType /\ Ok(c)
  BY <1>1, Dequeues DEF Facts, Flow, Carries, Take
<1>4. n \in Nat /\ Sent \in Nat
  BY <1>2 DEF OnRecord, Sent, Facts, Inv, Types, Numbered
<1>5. c.n = n + 1 /\ InTransit(out', n + 1, Sent)
  BY <1>1, <1>2, <1>3, <1>4, TakeStep DEF OnRecord
<1>6. PICK r : r = [from |-> n + 1, results |-> 0]
  OBVIOUS
<1>7. r \in Records /\ r.from = n + 1
  BY <1>4, <1>6 DEF Records
<1>8. /\ tsSteps' = Append(tsSteps, r) /\ tsUsage' = tsUsage + 1
      /\ UNCHANGED <<gpc, steps, opts>>
  BY <1>1, <1>3, <1>5, <1>6 DEF Take, Usage, Ok, loopState, doneVars
<1>9. /\ tsSteps' \in Seq(Records) /\ Len(tsSteps') = n + 1
      /\ \A k \in 1..n : tsSteps'[k] = tsSteps[k]
      /\ tsSteps'[n + 1] = r
  BY <1>2, <1>7, <1>8 DEF OnRecord
<1>10. \A k \in 1..Len(tsSteps') : tsSteps'[k].from = k
  BY <1>2, <1>4, <1>7, <1>9 DEF OnRecord
<1>11. \A k \in 1..Len(tsSteps) : tsSteps[k].results = k =>
          k \in 1..Len(tsSteps') /\ tsSteps'[k].results = k
  BY <1>2, <1>4, <1>9
<1>12. Delivered(out', tsSteps', Due)
  BY <1>1, <1>3, <1>11, DeliveredTaken DEF OnRecord
<1>13. Sent' = Sent /\ Due' = Due
  BY <1>8 DEF Sent, Due
<1> QED
  BY <1>2, <1>4, <1>5, <1>8, <1>9, <1>10, <1>12, <1>13 DEF OnRecord

LEMMA TakingResults ==
    ASSUME Facts, OnRecord, Take, Head(out).t = "toolResults"
    PROVE  OnRecord'
<1>1. PICK c : c = Head(out)
  OBVIOUS
<1>2. PICK n : n = Len(tsSteps)
  OBVIOUS
<1>3. out \in Seq(ChunkType) /\ out # <<>> /\ out' = Tail(out) /\ c \in ChunkType
  BY <1>1, Dequeues DEF Facts, Flow, Carries, Take
<1>4. n \in Nat /\ Sent \in Nat
  BY <1>2 DEF OnRecord, Sent, Facts, Inv, Types, Numbered
<1>5. c.n = n /\ n # 0 /\ InTransit(out', n, Sent)
  BY <1>1, <1>2, <1>3, <1>4, TakeResults, TakeOther DEF OnRecord
<1>6. tsSteps' = [tsSteps EXCEPT ![n].results = n]
  <2>1. tsSteps # <<>>
    BY <1>2, <1>5
  <2> QED
    BY <1>1, <1>2, <1>5, <2>1 DEF Take, Results
<1>7. tsUsage' = tsUsage /\ UNCHANGED <<gpc, steps, opts>>
  BY <1>1 DEF Take, Usage, loopState, doneVars
<1>8. tsSteps \in Seq(Records) /\ n \in 1..Len(tsSteps)
  BY <1>2, <1>4, <1>5 DEF OnRecord
<1>9. /\ Len(tsSteps') = n
      /\ \A k \in 1..n : k # n => tsSteps'[k] = tsSteps[k]
      /\ tsSteps'[n].from = tsSteps[n].from /\ tsSteps'[n].results = n
      /\ tsSteps' \in Seq(Records)
  <2>1. tsSteps[n] \in Records
    BY <1>8
  <2>2. PICK r : r = [tsSteps[n] EXCEPT !.results = n]
    OBVIOUS
  <2>3. r \in Records /\ r.from = tsSteps[n].from /\ r.results = n
    BY <1>4, <2>1, <2>2 DEF Records
  <2>4. tsSteps' = [tsSteps EXCEPT ![n] = r]
    BY <1>6, <2>2
  <2> QED
    BY <1>2, <1>8, <2>3, <2>4
<1>10. \A k \in 1..Len(tsSteps') : tsSteps'[k].from = k
  BY <1>2, <1>4, <1>9 DEF OnRecord
<1>11. \A k \in 1..Len(tsSteps) : tsSteps[k].results = k =>
          k \in 1..Len(tsSteps') /\ tsSteps'[k].results = k
  BY <1>2, <1>4, <1>9
<1>12. c.n \in 1..Len(tsSteps') /\ tsSteps'[c.n].results = c.n
  BY <1>4, <1>5, <1>9
<1>13. Delivered(out', tsSteps', Due)
  BY <1>1, <1>3, <1>11, <1>12, DeliveredTaken DEF OnRecord
<1>14. Sent' = Sent /\ Due' = Due
  BY <1>7 DEF Sent, Due
<1> QED
  BY <1>2, <1>4, <1>5, <1>7, <1>9, <1>10, <1>13, <1>14 DEF OnRecord

\* Any other chunk; the total on ChunkFinish is that of the steps on record.
LEMMA TakingOther ==
    ASSUME Facts, OnRecord, Ended, Take, Head(out).t \notin {"stepFinish", "toolResults"}
    PROVE  OnRecord'
<1>1. PICK c : c = Head(out)
  OBVIOUS
<1>2. PICK n : n = Len(tsSteps)
  OBVIOUS
<1>3. out \in Seq(ChunkType) /\ out # <<>> /\ out' = Tail(out) /\ c \in ChunkType
  BY <1>1, Dequeues DEF Facts, Flow, Carries, Take
<1>4. n \in Nat /\ Sent \in Nat /\ Len(steps) \in Nat
  BY <1>2 DEF OnRecord, Sent, Facts, Inv, Types, Numbered
<1>5. InTransit(out', n, Sent)
  BY <1>1, <1>2, <1>3, <1>4, TakeOther DEF OnRecord
<1>6. tsSteps' = tsSteps /\ UNCHANGED <<gpc, steps, opts>>
  BY <1>1 DEF Take, loopState, doneVars
<1>7. tsUsage' = n
  <2>1. CASE c.t # "finish"
    BY <1>1, <1>2, <2>1 DEF Take, Usage, OnRecord
  <2>2. CASE c.t = "finish"
    <3>1. gpc \in Closing
      BY <1>1, <1>3, <2>2, FinishTaken DEF Ended
    <3>2. Len(out) = 1 /\ c.total = Len(steps)
      BY <1>1, <1>3, <1>4, <2>2, <3>1, FinishTaken DEF Ended
    <3>3. \A i \in 1..Len(out) : out[i].t # "stepFinish"
      BY <1>1, <1>3, <2>2, <3>2
    <3>4. n = Sent
      BY <1>2, <1>3, <1>4, <3>3, Caught DEF OnRecord
    <3>5. Sent = Len(steps)
      BY <3>1 DEF Sent, Closing
    <3> QED
      BY <1>1, <2>2, <3>2, <3>4, <3>5 DEF Take, Usage
  <2> QED
    BY <2>1, <2>2
<1>8. Delivered(out', tsSteps', Due)
  BY <1>1, <1>3, <1>6, DeliveredTaken DEF OnRecord
<1>9. Sent' = Sent /\ Due' = Due
  BY <1>6 DEF Sent, Due
<1> QED
  BY <1>2, <1>5, <1>6, <1>7, <1>8, <1>9 DEF OnRecord

LEMMA Taking ==
    ASSUME Facts, OnRecord, Ended, Take
    PROVE  OnRecord' /\ Ended'
<1>1. OnRecord'
  BY TakingStep, TakingResults, TakingOther
<1>2. out \in Seq(ChunkType) /\ out # <<>> /\ out' = Tail(out)
  BY DEF Facts, Flow, Carries, Take
<1>3. UNCHANGED <<gpc, steps, published, finishes>>
  BY DEF Take, loopState, doneVars, exitVars
<1>4. Len(steps) \in Nat
  BY DEF Facts, Inv, Types
<1> QED
  BY <1>1, <1>2, <1>3, <1>4, FinishTaken DEF Ended

LEMMA CompleteNext == ASSUME Facts, Facts', Complete, [Next]_vars PROVE Complete'
<1> SUFFICES ASSUME Good' PROVE OnRecord' /\ Ended'
  BY DEF Complete
<1>1. Good /\ gpc \notin {"abortFinish", "abortHook", "recoverError", "recoverFinish"}
  BY GoodBack
<1>2. OnRecord /\ Ended /\ Live /\ ~panicking'
  BY <1>1 DEF Complete, Good
<1>3. CASE Take
  BY <1>2, <1>3, Taking
<1>4. CASE Aside /\ ~Take
  <2>1. UNCHANGED <<loopState, out>>
    BY <1>4, AsideLoop
  <2>2. UNCHANGED <<tsSteps, tsUsage>>
    BY <1>4 DEF Aside, Consume, consume, Pass, Exhausted, Leave, Read, Cancel, vars, fixed, consumeVars
  <2> QED
    BY <1>2, <2>1, <2>2 DEF OnRecord, Ended, Sent, Due, Delivered, loopState, doneVars, exitVars
<1>5. CASE Respond
  BY <1>2, <1>5, Recording
<1>6. CASE Silent /\ ~Respond
  <2>1. ~AbortHook
    BY <1>1 DEF AbortHook
  <2> QED
    BY <1>2, <1>6, <2>1, Silently
<1>7. CASE AbortError
  <2>1. gpc' = "abortFinish"
    BY <1>7 DEF AbortError, Goto
  <2> QED
    BY <2>1 DEF Facts, Telling, Good
<1>8. CASE AbortFinish \/ RecoverError \/ RecoverFinish
  BY <1>1, <1>8 DEF AbortFinish, RecoverError, RecoverFinish
<1>9. CASE Forward
  BY <1>2, <1>9, Forwarding
<1>10. CASE StepSend
  BY <1>2, <1>10, Bounding
<1>11. CASE ResultsSend
  BY <1>2, <1>11, Answering
<1>12. CASE FinishSend
  BY <1>2, <1>12, Totalling
<1> QED
  BY <1>3, <1>4, <1>5, <1>6, <1>7, <1>8, <1>9, <1>10, <1>11, <1>12
     DEF Next, Loop, Aside, Silent

LEMMA FactsNext == Facts /\ [Next]_vars => Facts'
BY Steps, FlowNext, TellingNext, NumberedNext DEF Facts, Moves

\* Once consume is done on a live context with no error, nothing is on the way.
LEMMA NothingMissing == ASSUME Facts, Complete PROVE NilErrMeansComplete
<1> SUFFICES ASSUME done, Live, streamErr = "none"
    PROVE  /\ published /\ ~panicking
           /\ [i \in 1..Len(tsSteps) |-> tsSteps[i].from] = [i \in 1..Len(steps) |-> steps[i].number]
           /\ \A i \in 1..Len(steps) :
                 (steps[i].calls # <<>> /\ opts.toolMap) => tsSteps[i].results = i
           /\ tsUsage = Len(steps)
           /\ finishes # <<>> /\ Last(finishes) # "abort"
  BY DEF NilErrMeansComplete
<1>1. out = <<>> /\ gpc = "gone"
  BY DEF done, Facts, Telling
<1>2. Len(out) = 0 /\ ~Told
  BY <1>1 DEF Told
<1>3. ~panicking
  BY <1>1, <1>2 DEF Facts, Telling
<1>4. OnRecord /\ Ended
  BY <1>2, <1>3 DEF Complete, Good
<1>5. Len(steps) \in Nat /\ Len(tsSteps) \in Nat
  BY <1>4 DEF OnRecord, Facts, Inv, Types
<1>6. Sent = Len(steps)
  BY <1>1 DEF Sent
<1>7. Len(tsSteps) = Len(steps)
  <2>1. out \in Seq(ChunkType) /\ InTransit(out, Len(tsSteps), Len(steps))
    BY <1>4, <1>6 DEF OnRecord, Facts, Flow, Carries
  <2>2. \A i \in 1..Len(out) : out[i].t # "stepFinish"
    BY <1>2
  <2> QED
    BY <1>5, <2>1, <2>2, Caught
<1>8. \A i \in 1..Len(steps) : tsSteps[i].from = steps[i].number
  BY <1>4, <1>7 DEF OnRecord, Facts, Numbered
<1>9. \A i \in 1..Len(steps) : (steps[i].calls # <<>> /\ opts.toolMap) => tsSteps[i].results = i
  <2> SUFFICES ASSUME NEW i \in 1..Len(steps), steps[i].calls # <<>>, opts.toolMap
      PROVE  tsSteps[i].results = i
    OBVIOUS
  <2>1. i \in Due
    BY <1>1 DEF Due, Owing
  <2> QED
    BY <1>2, <1>4, <2>1 DEF OnRecord, Delivered
<1>10. tsUsage = Len(steps)
  BY <1>4, <1>7 DEF OnRecord
<1>11. published /\ finishes # <<>> /\ Last(finishes) # "abort"
  BY <1>1, <1>4 DEF Ended, Closing
<1>12. [i \in 1..Len(tsSteps) |-> tsSteps[i].from] = [i \in 1..Len(steps) |-> steps[i].number]
  BY <1>7, <1>8
<1> QED
  BY <1>3, <1>9, <1>10, <1>11, <1>12

\* TextStream.Result and Err (generate.go:352, 364): whatever the provider, the hooks,
\* the reader and the sizes of the channels, a nil Err() on a context that is still
\* live comes with the whole run: each step of the loop on record, in order, with the
\* results of its calls, the usage of all of them, and an end that was no abort.
THEOREM NilErrIsComplete == Spec => []NilErrMeansComplete
<1>1. Init => Facts /\ Complete
  BY InvInit, FlowInit, TellingInit, CompleteInit DEF Facts
<1>2. Facts /\ Complete /\ [Next]_vars => Facts' /\ Complete'
  BY FactsNext, CompleteNext
<1>3. Facts /\ Complete => NilErrMeansComplete
  BY NothingMissing
<1> QED
  BY <1>1, <1>2, <1>3, PTL DEF Spec

-----------------------------------------------------------------------------
(* What the reader is told, against what went wrong in the loop.           *)

Failures == Seq({"provider", "panic"})
Met(e, fs) == e \in ToSet(fs)

\* The first error on record, or else the first on its way, is e.
First(e) ==
    /\ streamErr # "none" => streamErr = e
    /\ streamErr = "none" =>
          \A i \in 1..Len(out) :
             (out[i].t = "error" /\ \A j \in 1..Len(out) : j < i => out[j].t # "error") => out[i].err = e

\* A panic that has yet to be sent.
Unwinding == panicking /\ gpc \in {"idle", "release", "recoverError"}

\* What went wrong first is told first; untold, it is in the loop's hands.
Pending ==
    IF gpc = "forward" /\ chunk.t = "error" THEN failures = <<chunk.err>>
    ELSE IF gpc = "abortError" THEN failures = <<ds.err>>
    ELSE IF Unwinding THEN failures = <<"panic">>
    ELSE failures = <<>>

Rooted == IF Told THEN failures # <<>> /\ First(Head(failures)) ELSE Pending

\* No error is made up.
Honest ==
    /\ failures \in Failures
    /\ \A i \in 1..Len(out) : out[i].t = "error" => out[i].err = "ctx" \/ Met(out[i].err, failures)
    /\ streamErr \in {"none", "ctx"} \/ Met(streamErr, failures)
    /\ (gpc = "forward" /\ chunk.t = "error") => chunk.err = "provider" /\ Met("provider", failures)
    /\ ds.err \in {"none", "ctx"} \/ Met(ds.err, failures)
    /\ (panicking /\ gpc # "rejected") => Met("panic", failures)

\* Nothing but the deferred functions runs after a panic.
Unwinds == panicking => gpc \in {"idle", "release", "recoverError", "recoverFinish", "close", "gone", "rejected"}

Causal == (Live => Rooted) /\ Honest /\ Unwinds

\* Every step of the loop adds at most one thing to what went wrong.
LEMMA Blames ==
    ASSUME failures \in Failures,
           UNCHANGED failures \/ \E e \in {"provider", "panic"} : failures' = Append(failures, e)
    PROVE  /\ failures' \in Failures
           /\ \A e : Met(e, failures) => Met(e, failures')
           /\ \A e : failures' = Append(failures, e) => Met(e, failures')
           /\ failures # <<>> => failures' # <<>> /\ Head(failures') = Head(failures)
           /\ \A e : failures = <<>> /\ failures' = Append(failures, e) => failures' = <<e>>
<1>1. CASE UNCHANGED failures
  <2>1. \A e : failures # Append(failures, e)
    BY DEF Failures
  <2> QED
    BY <1>1, <2>1 DEF Met
<1>2. CASE \E e \in {"provider", "panic"} : failures' = Append(failures, e)
  <2>1. PICK e \in {"provider", "panic"} : failures' = Append(failures, e)
    BY <1>2
  <2>2. /\ failures' \in Failures /\ Len(failures') = Len(failures) + 1 /\ Len(failures) \in Nat
        /\ \A i \in 1..Len(failures) : failures'[i] = failures[i]
        /\ failures'[Len(failures) + 1] = e
    BY <2>1, Queued DEF Failures
  <2>3. \A i \in DOMAIN failures : i \in DOMAIN failures' /\ failures'[i] = failures[i]
    BY <2>2 DEF Failures
  <2>4. Len(failures) + 1 \in DOMAIN failures'
    BY <2>2 DEF Failures
  <2>5. \A d : Met(d, failures) => Met(d, failures')
    BY <2>3 DEF Met, ToSet
  <2>6. \A d : failures' = Append(failures, d) => failures'[Len(failures) + 1] = d
    BY DEF Failures
  <2>7. \A d : failures' = Append(failures, d) => Met(d, failures')
    BY <2>4, <2>6 DEF Met, ToSet
  <2>8. failures # <<>> => failures' # <<>> /\ Head(failures') = Head(failures)
    BY <2>2 DEF Failures
  <2> QED
    BY <2>2, <2>5, <2>7, <2>8
<1> QED
  BY <1>1, <1>2

\* A chunk that is no error, or comes when an error has been told, changes nothing.
LEMMA StaysFirst ==
    ASSUME Carries, NEW c \in ChunkType, Sending(c), UNCHANGED streamErr, NEW e
    PROVE  /\ (First(e) /\ (Told \/ c.t # "error" \/ c.err = e)) => First(e)'
           /\ (~Told /\ c.t = "error" /\ c.err = e) => First(e)'
           /\ (Told' <=> Told \/ c.t = "error")
<1>1. /\ out' \in Seq(ChunkType) /\ Len(out') = Len(out) + 1 /\ Len(out) \in Nat
      /\ \A i \in 1..Len(out) : out'[i] = out[i]
      /\ out'[Len(out) + 1] = c
  BY Queued DEF Carries, Sending
<1>2. \A i \in 1..Len(out') : i \in 1..Len(out) \/ i = Len(out) + 1
  BY <1>1
<1>3. \A i \in 1..Len(out) : i \in 1..Len(out') /\ i < Len(out) + 1
  BY <1>1
<1>4. Told' <=> Told \/ c.t = "error"
  <2>1. Len(out) + 1 \in 1..Len(out')
    BY <1>1
  <2> QED
    BY <1>1, <1>2, <1>3, <2>1 DEF Told
<1>5. ASSUME First(e), Told \/ c.t # "error" \/ c.err = e PROVE First(e)'
  <2>1. CASE streamErr # "none"
    BY <1>5, <2>1 DEF First
  <2>2. CASE streamErr = "none"
    <3>1. SUFFICES ASSUME NEW i \in 1..Len(out'), out'[i].t = "error",
                          \A j \in 1..Len(out') : j < i => out'[j].t # "error"
                   PROVE  out'[i].err = e
      BY <2>2 DEF First
    <3>2. CASE i \in 1..Len(out)
      <4>1. out[i] = out'[i] /\ \A j \in 1..Len(out) : j < i => out[j].t # "error"
        BY <1>1, <1>3, <3>1, <3>2
      <4> QED
        BY <1>5, <2>2, <3>1, <3>2, <4>1 DEF First
    <3>3. CASE i = Len(out) + 1
      <4>1. \A j \in 1..Len(out) : out[j].t # "error"
        BY <1>1, <1>3, <3>1, <3>3
      <4>2. ~Told
        BY <2>2, <4>1 DEF Told
      <4> QED
        BY <1>1, <1>5, <3>1, <3>3, <4>2
    <3> QED
      BY <1>2, <3>2, <3>3
  <2> QED
    BY <2>1, <2>2
<1>6. ASSUME ~Told, c.t = "error", c.err = e PROVE First(e)'
  <2>1. streamErr = "none" /\ \A i \in 1..Len(out) : out[i].t # "error"
    BY <1>6 DEF Told
  <2>2. \A i \in 1..Len(out') : out'[i].t = "error" => out'[i] = c
    BY <1>1, <1>2, <2>1
  <2> QED
    BY <1>6, <2>1, <2>2 DEF First
<1> QED
  BY <1>4, <1>5, <1>6

\* Taking the first chunk leaves the first error the first.
LEMMA TakesFirst ==
    ASSUME Carries, Take, NEW e
    PROVE  (First(e) => First(e)') /\ (Told' => Told)
<1>1. /\ out # <<>> /\ out' = Tail(out)
      /\ streamErr' = IF Head(out).t = "error" /\ streamErr = "none" THEN Head(out).err ELSE streamErr
  BY DEF Take, ErrorOf
<1>2. /\ Len(out) = Len(out') + 1 /\ Len(out') \in Nat /\ Head(out) = out[1]
      /\ \A i \in 1..Len(out') : out'[i] = out[i + 1]
  BY <1>1, Dequeued DEF Carries
<1>3. 1 \in 1..Len(out) /\ \A i \in 1..Len(out') : i + 1 \in 1..Len(out)
  BY <1>2
<1>4. Told' => Told
  BY <1>1, <1>2, <1>3 DEF Told
<1>5. ASSUME First(e) PROVE First(e)'
  <2>1. CASE streamErr # "none"
    BY <1>1, <1>5, <2>1 DEF First
  <2>2. CASE streamErr = "none" /\ Head(out).t = "error"
    <3>1. \A j \in 1..Len(out) : ~(j < 1)
      BY <1>2
    <3>2. Head(out).err = e
      BY <1>2, <1>3, <1>5, <2>2, <3>1 DEF First
    <3>3. Head(out).err # "none"
      BY <1>1, <2>2, Dequeues DEF Ok
    <3> QED
      BY <1>1, <2>2, <3>2, <3>3 DEF First
  <2>3. CASE streamErr = "none" /\ Head(out).t # "error"
    <3>1. SUFFICES ASSUME NEW i \in 1..Len(out'), out'[i].t = "error",
                          \A j \in 1..Len(out') : j < i => out'[j].t # "error"
                   PROVE  out'[i].err = e
      BY <1>1, <2>3 DEF First
    <3>2. ASSUME NEW j \in 1..Len(out), j < i + 1 PROVE out[j].t # "error"
      <4>1. CASE j = 1
        BY <1>2, <2>3, <4>1
      <4>2. CASE j # 1
        <5>1. j - 1 \in 1..Len(out') /\ j - 1 < i /\ out'[j - 1] = out[j]
          BY <1>2, <3>2, <4>2
        <5> QED
          BY <3>1, <5>1
      <4> QED
        BY <4>1, <4>2
    <3>3. i + 1 \in 1..Len(out) /\ out[i + 1] = out'[i]
      BY <1>2, <1>3
    <3> QED
      BY <1>5, <2>3, <3>1, <3>2, <3>3 DEF First
  <2> QED
    BY <2>1, <2>2, <2>3
<1> QED
  BY <1>4, <1>5

\* What went wrong grows only in the loop, and only at these steps.
Blaming == Receive \/ Call \/ AbortHook \/ Respond \/ StepSend \/ StopWhen \/ BeforeStep \/ FinishHook

LEMMA LoopBlames ==
    ASSUME Loop
    PROVE  \/ UNCHANGED failures
           \/ Receive /\ chunk'.t = "error" /\ gpc' = "forward" /\ failures' = Append(failures, "provider")
              /\ chunk'.err = "provider" /\ UNCHANGED panicking
           \/ Call /\ gpc' = "abortError" /\ failures' = Append(failures, "provider")
              /\ ds'.err = "provider" /\ UNCHANGED panicking
           \/ Blaming /\ gpc' = "idle" /\ panicking' = TRUE /\ failures' = Append(failures, "panic")
<1> USE DEF Goto, Fails, Panics, Blaming
<1>1. CASE Receive
  <2>1. \A c \in ProviderChunks : c.t = "error" => c.err = "provider"
    BY DEF ProviderChunks, Chunk
  <2> QED
    BY <1>1, <2>1 DEF Receive
<1>2. CASE Call
  <2>1. [NoDrain EXCEPT !.err = "provider"].err = "provider"
    BY DEF NoDrain
  <2> QED
    BY <1>2, <2>1 DEF Call
<1>3. CASE AbortHook \/ Respond \/ StepSend \/ StopWhen \/ BeforeStep \/ FinishHook
  BY <1>3 DEF AbortHook, Respond, StepSend, StopWhen, BeforeStep, FinishHook
<1>4. CASE Enter \/ Announce \/ Dial \/ Forward \/ Drained \/ AbortError \/ AbortFinish
  BY <1>4 DEF Enter, Announce, Dial, Forward, Drained, AbortError, AbortFinish
<1>5. CASE RunTools \/ ResultsSend \/ Finalize \/ FinishSend
  BY <1>5 DEF RunTools, ResultsSend, Finalize, FinishSend
<1>6. CASE Rest \/ Release \/ RecoverError \/ RecoverFinish \/ Close
  BY <1>6 DEF Rest, Release, RecoverError, RecoverFinish, Close
<1> QED
  BY <1>1, <1>2, <1>3, <1>4, <1>5, <1>6 DEF Loop

LEMMA LoopGrows ==
    ASSUME Loop, failures \in Failures
    PROVE  /\ failures' \in Failures
           /\ \A e : Met(e, failures) => Met(e, failures')
           /\ failures # <<>> => failures' # <<>> /\ Head(failures') = Head(failures)
<1>1. UNCHANGED failures \/ \E e \in {"provider", "panic"} : failures' = Append(failures, e)
  BY LoopBlames
<1> QED
  BY <1>1, Blames

\* What an error sent carries.
LEMMA LoopSends ==
    ASSUME Inv, Flow, Loop
    PROVE  \/ UNCHANGED out
           \/ \E c \in ChunkType : Sending(c) /\ c.t # "error"
           \/ Forward /\ Sending(chunk) /\ chunk \in ChunkType /\ chunk.t = "error"
           \/ AbortError /\ \E c \in ChunkType : Sending(c) /\ c.t = "error" /\ c.err = ds.err
           \/ RecoverError /\ \E c \in ChunkType : Sending(c) /\ c.t = "error" /\ c.err = "panic"
<1> USE Tries, Marks
<1>1. CASE Silent
  BY <1>1, SilentForth
<1>2. CASE Forward
  BY <1>2 DEF Forward, Flow, Sending
<1>3. CASE AbortError
  <2>1. PICK c : c = [Chunk("error") EXCEPT !.err = ds.err]
    OBVIOUS
  <2>2. ds.err \in {"provider", "ctx"}
    BY <1>3 DEF AbortError, Flow, Inv, Types, Drains
  <2>3. c \in ChunkType /\ Ok(c) /\ c.t = "error" /\ c.err = ds.err
    BY <2>1, <2>2 DEF Chunk
  <2> QED
    BY <1>3, <2>1, <2>3 DEF AbortError
<1>4. CASE AbortFinish \/ FinishSend
  <2>1. PICK c : c = [Chunk("finish") EXCEPT !.total = Len(steps)]
    OBVIOUS
  <2>2. c \in ChunkType /\ Ok(c) /\ c.t = "finish"
    BY <2>1 DEF Inv, Types
  <2>3. TrySend(c)
    BY <1>4, <2>1 DEF AbortFinish, FinishSend
  <2> QED
    BY <2>2, <2>3
<1>5. CASE StepSend
  BY <1>5 DEF StepSend, Panics
<1>6. CASE ResultsSend
  BY <1>6 DEF ResultsSend
<1>7. CASE RecoverError
  <2>1. PICK c : c = [Chunk("error") EXCEPT !.err = "panic"]
    OBVIOUS
  <2>2. c \in ChunkType /\ Ok(c) /\ c.t = "error" /\ c.err = "panic"
    BY <2>1 DEF Chunk
  <2> QED
    BY <1>7, <2>1, <2>2 DEF RecoverError
<1>8. CASE RecoverFinish
  BY <1>8 DEF RecoverFinish
<1> QED
  BY <1>1, <1>2, <1>3, <1>4, <1>5, <1>6, <1>7, <1>8 DEF Loop, Silent

LEMMA HonestLoop == ASSUME Inv, Flow, Honest, Loop PROVE Honest'
<1>1. failures' \in Failures /\ \A e : Met(e, failures) => Met(e, failures')
  BY LoopGrows DEF Honest
<1>2. UNCHANGED streamErr /\ (Live' => Live)
  BY LoopForth DEF Forth, consumeVars
<1>3. panicking => Met("panic", failures) \/ gpc = "rejected"
  BY DEF Honest
<1>4. \A i \in 1..Len(out') : out'[i].t = "error" => out'[i].err = "ctx" \/ Met(out'[i].err, failures')
  <2>1. ASSUME NEW c \in ChunkType, Sending(c), c.t = "error" => c.err = "ctx" \/ Met(c.err, failures)
        PROVE  \A i \in 1..Len(out') : out'[i].t = "error" => out'[i].err = "ctx" \/ Met(out'[i].err, failures')
    <3>1. /\ Len(out') = Len(out) + 1 /\ Len(out) \in Nat
          /\ \A i \in 1..Len(out) : out'[i] = out[i]
          /\ out'[Len(out) + 1] = c
      BY <2>1, Queued DEF Flow, Carries, Sending
    <3>2. \A i \in 1..Len(out') : i \in 1..Len(out) \/ i = Len(out) + 1
      BY <3>1
    <3> QED
      BY <1>1, <2>1, <3>1, <3>2 DEF Honest
  <2>2. CASE UNCHANGED out
    BY <1>1, <2>2 DEF Honest
  <2>3. CASE \E c \in ChunkType : Sending(c) /\ c.t # "error"
    BY <2>1, <2>3
  <2>4. CASE Forward /\ Sending(chunk) /\ chunk \in ChunkType /\ chunk.t = "error"
    BY <2>1, <2>4 DEF Forward, Honest
  <2>5. CASE AbortError /\ \E c \in ChunkType : Sending(c) /\ c.t = "error" /\ c.err = ds.err
    <3>1. ds.err # "none"
      BY <2>5 DEF AbortError, Flow
    <3> QED
      BY <2>1, <2>5, <3>1 DEF Honest
  <2>6. CASE RecoverError /\ \E c \in ChunkType : Sending(c) /\ c.t = "error" /\ c.err = "panic"
    <3>1. panicking /\ gpc # "rejected"
      BY <2>6 DEF RecoverError, Flow
    <3> QED
      BY <1>3, <2>1, <2>6, <3>1
  <2> QED
    BY <2>2, <2>3, <2>4, <2>5, <2>6, LoopSends
<1>5. (gpc' = "forward" /\ chunk'.t = "error") => chunk'.err = "provider" /\ Met("provider", failures')
  <2>1. CASE Receive
    <3>1. ASSUME chunk'.t = "error" PROVE failures' = Append(failures, "provider") /\ chunk'.err = "provider"
      <4>1. \A c \in ProviderChunks : c.t = "error" => c.err = "provider"
        BY DEF ProviderChunks, Chunk
      <4> QED
        BY <2>1, <3>1, <4>1 DEF Receive, Goto, Fails
    <3> QED
      BY <3>1, Blames DEF Honest
  <2>2. CASE ~Receive
    <3>1. gpc' # "forward"
      BY <2>2 DEF Loop, Enter, Announce, Dial, Forward, Drained, AbortError, AbortFinish, AbortHook,
         Respond, StepSend, RunTools, ResultsSend, StopWhen, BeforeStep, Call, Finalize, FinishHook,
         FinishSend, Rest, Release, RecoverError, RecoverFinish, Close, Goto, Fails, Panics
    <3> QED
      BY <3>1
  <2> QED
    BY <2>1, <2>2
<1>6. ds'.err \in {"none", "ctx"} \/ Met(ds'.err, failures')
  <2>1. CASE Receive \/ StepSend \/ Dial
    <3>1. ds' = ds \/ ds'.err \in {"none", ds.err}
      BY <2>1 DEF Receive, StepSend, Dial, OpenStream, NoDrain, Inv, Types, Drains
    <3> QED
      BY <1>1, <3>1 DEF Honest
  <2>2. CASE Call
    <3>1. \/ ds' = ds \/ ds'.err = "none"
          \/ ds'.err = "provider" /\ failures' = Append(failures, "provider")
      BY <2>2 DEF Call, OpenStream, NoDrain, Fails, Panics
    <3> QED
      BY <1>1, <3>1, Blames DEF Honest
  <2>3. CASE Forward
    <3>1. ds'.err \in {ds.err, "ctx"} \/ (chunk.t = "error" /\ ds'.err = "provider")
      BY <2>3 DEF Forward, Inv, Types, Drains, Forwardable
    <3>2. chunk.t = "error" => chunk.err = "provider"
      BY <2>3 DEF Forward, Honest
    <3> QED
      BY <1>1, <2>3, <3>1, <3>2 DEF Honest, Forward
  <2>4. CASE UNCHANGED ds
    BY <1>1, <2>4 DEF Honest
  <2> QED
    BY <2>1, <2>2, <2>3, <2>4 DEF Loop, Enter, Announce, Drained, AbortError, AbortFinish, AbortHook,
         Respond, RunTools, ResultsSend, StopWhen, BeforeStep, Finalize, FinishHook,
         FinishSend, Rest, Release, RecoverError, RecoverFinish, Close, drainVars
<1>7. (panicking' /\ gpc' # "rejected") => Met("panic", failures')
  <2>1. CASE panicking /\ gpc # "rejected"
    BY <1>1, <1>3, <2>1
  <2>2. CASE failures' = Append(failures, "panic")
    BY <2>2, Blames DEF Honest
  <2>3. CASE gpc = "rejected"
    BY <2>3 DEF Loop, Enter, Announce, Dial, Receive, Forward, Drained, AbortError, AbortFinish, AbortHook,
         Respond, StepSend, RunTools, ResultsSend, StopWhen, BeforeStep, Call, Finalize, FinishHook,
         FinishSend, Rest, Release, RecoverError, RecoverFinish, Close
  <2>4. CASE ~panicking' \/ gpc' = "rejected"
    BY <2>4
  <2>5. UNCHANGED panicking \/ failures' = Append(failures, "panic") \/ gpc' = "rejected"
    BY DEF Loop, Enter, Announce, Dial, Receive, Forward, Drained, AbortError, AbortFinish, AbortHook,
         Respond, StepSend, RunTools, ResultsSend, StopWhen, BeforeStep, Call, Finalize, FinishHook,
         FinishSend, Rest, Release, RecoverError, RecoverFinish, Close, Goto, Fails, Panics
  <2> QED
    BY <2>1, <2>2, <2>3, <2>4, <2>5
<1>8. streamErr' \in {"none", "ctx"} \/ Met(streamErr', failures')
  BY <1>1, <1>2 DEF Honest
<1> QED
  BY <1>1, <1>4, <1>5, <1>6, <1>7, <1>8 DEF Honest

LEMMA HonestAside == ASSUME Inv, Flow, Honest, Aside PROVE Honest'
<1>1. UNCHANGED loopState /\ (UNCHANGED out \/ Take)
  BY AsideLoop
<1>2. UNCHANGED <<failures, gpc, chunk, ds, panicking>> /\ \A e : Met(e, failures') <=> Met(e, failures)
  BY <1>1 DEF loopState, drainVars, Met
<1>3. CASE Take
  <2>1. /\ out # <<>> /\ out' = Tail(out)
        /\ streamErr' = IF Head(out).t = "error" /\ streamErr = "none" THEN Head(out).err ELSE streamErr
    BY <1>3 DEF Take, ErrorOf
  <2>2. /\ Len(out) = Len(out') + 1 /\ Len(out') \in Nat /\ Head(out) = out[1]
        /\ \A i \in 1..Len(out') : out'[i] = out[i + 1]
    BY <2>1, Dequeued DEF Flow, Carries
  <2>3. 1 \in 1..Len(out) /\ \A i \in 1..Len(out') : i + 1 \in 1..Len(out)
    BY <2>2
  <2> QED
    BY <1>2, <2>1, <2>2, <2>3 DEF Honest
<1>4. CASE UNCHANGED out /\ (UNCHANGED streamErr \/ streamErr' = "ctx")
  BY <1>2, <1>4 DEF Honest
<1>5. UNCHANGED streamErr \/ streamErr' = "ctx" \/ Take
  BY DEF Aside, Consume, consume, Pass, GiveUp, Exhausted, Leave, Read, Cancel, vars, fixed, consumeVars
<1> QED
  BY <1>1, <1>3, <1>4, <1>5

LEMMA UnwindsNext == ASSUME Unwinds, [Next]_vars PROVE Unwinds'
<1> USE DEF Unwinds, Goto, Fails, Panics
<1>1. CASE Aside
  BY <1>1, AsideLoop DEF loopState
<1>2. CASE Enter \/ Announce \/ Dial \/ Receive \/ Forward \/ Drained
  BY <1>2 DEF Enter, Announce, Dial, Receive, Forward, Drained
<1>3. CASE AbortError \/ AbortFinish \/ AbortHook \/ Respond \/ StepSend \/ RunTools \/ ResultsSend
  BY <1>3 DEF AbortError, AbortFinish, AbortHook, Respond, StepSend, RunTools, ResultsSend
<1>4. CASE StopWhen \/ BeforeStep \/ Call \/ Finalize \/ FinishHook \/ FinishSend
  BY <1>4 DEF StopWhen, BeforeStep, Call, Finalize, FinishHook, FinishSend
<1>5. CASE Rest \/ Release \/ RecoverError \/ RecoverFinish \/ Close
  BY <1>5 DEF Rest, Release, RecoverError, RecoverFinish, Close
<1> QED
  BY <1>1, <1>2, <1>3, <1>4, <1>5 DEF Next, Loop, Aside

\* What an untold failure becomes at a step that sends no error.
LEMMA PendingNext ==
    ASSUME Inv, Flow, Telling, Unwinds, Honest, Live, ~Told, Pending, Loop,
           ~(Forward /\ chunk.t = "error"), ~AbortError, ~RecoverError
    PROVE  Pending'
<1> USE DEF Pending, Unwinding, Goto, Fails
<1>0. \A e : failures = <<>> /\ failures' = Append(failures, e) => failures' = <<e>>
  <2>1. \A e : failures' = Append(failures, e) /\ failures = <<>> => failures' = Append(<<>>, e)
    OBVIOUS
  <2>2. \A e : Append(<<>>, e) = <<e>>
    OBVIOUS
  <2> QED
    BY <2>1, <2>2
<1>1. CASE Enter \/ Announce \/ Dial
  BY <1>1 DEF Enter, Announce, Dial, Unwinds
<1>2. CASE Receive
  <2>1. gpc = "drain" /\ failures = <<>>
    BY <1>2 DEF Receive
  <2>2. \A c \in ProviderChunks : c.t = "error" => c.err = "provider"
    BY DEF ProviderChunks, Chunk
  <2>3. \/ gpc' = "drain" /\ UNCHANGED failures
        \/ gpc' = "forward" /\ chunk'.t # "error" /\ UNCHANGED failures
        \/ gpc' = "forward" /\ chunk'.t = "error" /\ chunk'.err = "provider" /\ failures' = Append(failures, "provider")
    BY <1>2, <2>2 DEF Receive
  <2> QED
    BY <1>0, <2>1, <2>3
<1>3. CASE Forward
  <2>1. gpc = "forward" /\ gpc' = "drain" /\ UNCHANGED failures /\ chunk.t # "error"
    BY <1>3 DEF Forward
  <2> QED
    BY <2>1
<1>4. CASE Drained
  <2>1. gpc = "drain" /\ ds.err = "none"
    BY <1>4 DEF Drained, Telling
  <2> QED
    BY <1>4, <2>1 DEF Drained
<1>5. CASE AbortFinish \/ AbortHook
  BY <1>5 DEF AbortFinish, AbortHook, Telling
<1>6. CASE Call
  <2>1. gpc = "call" /\ failures = <<>>
    BY <1>6 DEF Call
  <2>2. \/ gpc' = "drain" /\ UNCHANGED failures
        \/ gpc' = "abortError" /\ ds'.err = "provider" /\ failures' = Append(failures, "provider")
        \/ gpc' = "idle" /\ panicking' = TRUE /\ failures' = Append(failures, "panic")
    <3>1. [NoDrain EXCEPT !.err = "provider"].err = "provider"
      BY DEF NoDrain
    <3> QED
      BY <1>6, <3>1 DEF Call, Panics
  <2> QED
    BY <1>0, <2>1, <2>2
<1>7. CASE Respond \/ StepSend \/ StopWhen \/ BeforeStep \/ FinishHook
  <2>1. /\ gpc \in {"respond", "stepSend", "stopWhen", "beforeStep", "finishHook"} /\ failures = <<>>
    BY <1>7 DEF Respond, StepSend, StopWhen, BeforeStep, FinishHook
  <2>2. \/ /\ gpc' \in {"stepSend", "finalize", "tools", "stopWhen", "beforeStep", "call", "finishSend"}
           /\ UNCHANGED failures
        \/ gpc' = "idle" /\ panicking' = TRUE /\ failures' = Append(failures, "panic")
    BY <1>7 DEF Respond, StepSend, StopWhen, BeforeStep, FinishHook, Panics
  <2> QED
    BY <1>0, <2>1, <2>2
<1>8. CASE RunTools \/ ResultsSend \/ Finalize
  BY <1>8 DEF RunTools, ResultsSend, Finalize
<1>9. CASE FinishSend
  BY <1>9 DEF FinishSend, Unwinds
<1>10. CASE Rest \/ Release
  BY <1>10 DEF Rest, Release
<1>11. CASE RecoverFinish
  BY <1>11 DEF RecoverFinish, Telling, Flow
<1>12. CASE Close
  BY <1>12 DEF Close, Telling
<1> QED
  BY <1>1, <1>2, <1>3, <1>4, <1>5, <1>6, <1>7, <1>8, <1>9, <1>10, <1>11, <1>12 DEF Loop

LEMMA RootedLoop ==
    ASSUME Inv, Flow, Telling, Unwinds, Honest, Live, Rooted, Loop
    PROVE  Rooted'
<1>1. UNCHANGED streamErr
  BY LoopForth DEF Forth, consumeVars
<1>2. UNCHANGED out => (Told' <=> Told) /\ \A e : First(e) => First(e)'
  BY <1>1 DEF Told, First
<1>3. CASE Told
  <2>1. failures # <<>> /\ First(Head(failures))
    BY <1>3 DEF Rooted
  <2>2. failures' # <<>> /\ Head(failures') = Head(failures)
    BY <2>1, LoopGrows DEF Honest
  <2>3. PICK e : e = Head(failures)
    OBVIOUS
  <2>4. Told' /\ First(e)'
    <3>1. CASE UNCHANGED out
      BY <1>2, <1>3, <2>1, <2>3, <3>1
    <3>2. CASE \E c \in ChunkType : Sending(c)
      BY <1>1, <1>3, <2>1, <2>3, <3>2, StaysFirst DEF Flow
    <3> QED
      BY <3>1, <3>2, LoopForth DEF Forth
  <2>5. First(Head(failures))'
    BY <2>2, <2>3, <2>4 DEF First
  <2> QED
    BY <2>2, <2>4, <2>5 DEF Rooted
<1>4. ASSUME ~Told, NEW c \in ChunkType, Sending(c), c.t = "error", UNCHANGED failures, failures = <<c.err>>
      PROVE  Rooted'
  <2>1. Told' /\ First(c.err)'
    BY <1>1, <1>4, StaysFirst DEF Flow
  <2>2. failures' # <<>> /\ Head(failures') = c.err
    BY <1>4
  <2>3. First(Head(failures))'
    BY <2>1, <2>2 DEF First
  <2> QED
    BY <2>1, <2>2, <2>3 DEF Rooted
<1>5. CASE ~Told /\ Forward /\ chunk.t = "error"
  <2>1. Sending(chunk) /\ chunk \in ChunkType
    BY <1>5 DEF Forward, Flow, Sending
  <2>2. UNCHANGED failures /\ failures = <<chunk.err>>
    BY <1>5 DEF Forward, Goto, Rooted, Pending
  <2> QED
    BY <1>4, <1>5, <2>1, <2>2
<1>6. CASE ~Told /\ AbortError
  <2>1. PICK c : c = [Chunk("error") EXCEPT !.err = ds.err]
    OBVIOUS
  <2>2. ds.err \in {"provider", "ctx"}
    BY <1>6 DEF AbortError, Flow, Inv, Types, Drains
  <2>3. c \in ChunkType /\ Ok(c) /\ c.t = "error" /\ c.err = ds.err
    BY <2>1, <2>2, Marks DEF Chunk
  <2>4. Sending(c)
    BY <1>6, <2>1, <2>3, Tries DEF AbortError
  <2>5. UNCHANGED failures /\ failures = <<ds.err>>
    BY <1>6 DEF AbortError, Goto, Rooted, Pending
  <2> QED
    BY <1>4, <1>6, <2>3, <2>4, <2>5
<1>7. CASE ~Told /\ RecoverError
  <2>1. PICK c : c = [Chunk("error") EXCEPT !.err = "panic"]
    OBVIOUS
  <2>2. c \in ChunkType /\ Ok(c) /\ c.t = "error" /\ c.err = "panic"
    BY <2>1, Marks DEF Chunk
  <2>3. Sending(c)
    BY <1>7, <2>1, <2>2, Tries DEF RecoverError
  <2>4. UNCHANGED failures /\ failures = <<"panic">>
    BY <1>7 DEF RecoverError, Goto, Rooted, Pending, Unwinding, Flow
  <2> QED
    BY <1>4, <1>7, <2>2, <2>3, <2>4
<1>8. CASE ~Told /\ ~(Forward /\ chunk.t = "error") /\ ~AbortError /\ ~RecoverError
  <2>1. UNCHANGED out \/ \E c \in ChunkType : Sending(c) /\ c.t # "error"
    BY <1>8, LoopSends
  <2>2. ~Told'
    BY <1>1, <1>2, <1>8, <2>1, StaysFirst DEF Flow
  <2>3. Pending'
    BY <1>8, PendingNext DEF Rooted
  <2> QED
    BY <2>2, <2>3 DEF Rooted
<1> QED
  BY <1>3, <1>5, <1>6, <1>7, <1>8

LEMMA RootedAside ==
    ASSUME Inv, Flow, Live, Live', Rooted, Aside
    PROVE  Rooted'
<1>1. UNCHANGED loopState /\ (UNCHANGED out \/ Take)
  BY AsideLoop
<1>2. UNCHANGED <<failures, gpc, chunk, ds, panicking>>
  BY <1>1 DEF loopState, drainVars
<1>3. Pending' <=> Pending
  BY <1>2 DEF Pending, Unwinding
<1>4. (Told' <=> Told) /\ \A e : First(e) => First(e)'
  <2>1. CASE Take
    <3>1. Told => Told'
      BY <2>1, ToldStays DEF Next, consume
    <3> QED
      BY <2>1, <3>1, TakesFirst DEF Flow
  <2>2. CASE ~Take
    <3>1. UNCHANGED streamErr
      BY <2>2 DEF Aside, Consume, consume, Pass, GiveUp, Exhausted, Leave, Read, Cancel, vars, fixed, consumeVars
    <3> QED
      BY <1>1, <2>2, <3>1 DEF Told, First
  <2> QED
    BY <2>1, <2>2
<1>5. First(Head(failures)) => First(Head(failures))'
  <2>1. PICK e : e = Head(failures) /\ e = Head(failures')
    BY <1>2
  <2>2. First(e) => First(e)'
    BY <1>4
  <2> QED
    BY <1>2, <2>1, <2>2 DEF First
<1> QED
  BY <1>2, <1>3, <1>4, <1>5 DEF Rooted

LEMMA CausalNext == ASSUME Facts, Causal, [Next]_vars PROVE Causal'
<1>1. Live' => Live
  BY LoopForth, AsideLoop DEF Facts, Forth, Next, Aside
<1>2. CASE Loop
  BY <1>1, <1>2, RootedLoop, HonestLoop, UnwindsNext DEF Facts, Causal
<1>3. CASE Aside
  BY <1>1, <1>3, RootedAside, HonestAside, UnwindsNext DEF Facts, Causal
<1> QED
  BY <1>2, <1>3 DEF Next, Aside

\* TextStream.Err (generate.go:360): on a live context it is what went wrong first in
\* the loop's goroutine, on its way through both goroutines and the channel, or nil if
\* nothing did; on a context that has ended it is still no error that nobody met.
THEOREM ErrIsTheFirst == Spec => []FirstErrorTold
<1>1. Init => Facts /\ Causal
  <2>1. Init => Causal
    BY DEF Init, Causal, Rooted, Told, Pending, Unwinding, Honest, Unwinds, Failures, NoDrain
  <2> QED
    BY <2>1, InvInit, FlowInit, TellingInit DEF Facts
<1>2. Facts /\ Causal /\ [Next]_vars => Facts' /\ Causal'
  BY FactsNext, CausalNext
<1>3. Facts /\ Causal => FirstErrorTold
  <2> SUFFICES ASSUME Facts, Causal, done PROVE FirstErrorTold
    BY DEF FirstErrorTold
  <2>1. CASE ~Live
    BY <2>1 DEF Causal, Honest, Met, FirstErrorTold
  <2>2. CASE Live
    <3>1. out = <<>> /\ gpc = "gone"
      BY <2>2 DEF Facts, Telling, done
    <3>2. Told <=> streamErr # "none"
      BY <3>1 DEF Told
    <3>3. CASE Told
      <4>1. failures # <<>> /\ streamErr = Head(failures)
        BY <2>2, <3>2, <3>3 DEF Causal, Rooted, First
      <4> QED
        BY <2>2, <4>1 DEF FirstErrorTold
    <3>4. CASE ~Told
      <4>1. failures = <<>>
        BY <2>2, <3>1, <3>4 DEF Causal, Rooted, Pending, Unwinding
      <4> QED
        BY <2>2, <3>2, <3>4, <4>1 DEF FirstErrorTold
    <3> QED
      BY <3>3, <3>4
  <2> QED
    BY <2>1, <2>2
<1> QED
  BY <1>1, <1>2, <1>3, PTL DEF Spec
=============================================================================
