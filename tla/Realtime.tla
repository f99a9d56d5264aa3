------------------------------ MODULE Realtime ------------------------------
(***************************************************************************)
(* RealtimeSession (realtime.go) on top of a liveConn.  consume takes the  *)
(* connection's events in turn: it starts or cancels tools, runs the event *)
(* hooks and publishes to a bounded queue, giving up after the             *)
(* backpressure timeout.  Every tool call has a goroutine that waits for   *)
(* a slot, registers its cancel function, runs the tool and sends the      *)
(* result.  Close may be called at any time.                               *)
(***************************************************************************)
EXTENDS LiveConn, FiniteSets

CONSTANTS
    Slots,          \* maxParallelTools
    EventCap        \* eventBuffer

ASSUME SessionAssumption == Slots \in Nat \ {0} /\ EventCap \in Nat \ {0}

VARIABLES
    cancelled,      \* s.cancel was called
    consume,        \* where the consume goroutine is
    event,          \* the event it is publishing (Ready when there is none)
    published,      \* history: Sequence numbers sent on s.events
    taken,          \* how many of them the application received
    err,            \* s.err
    wg,             \* s.wg
    over,           \* s.events and s.done are closed
    tool,           \* where the goroutine of each call is
    toolCtx,        \* its context: "live", "canceled" or "deadline"
    toolCancels,    \* calls with an entry in s.toolCancels
    toolSlots,      \* Len(s.toolSlots)
    told,           \* history: calls whose cancellation consume handled
    closer          \* where Close is

events == <<published, taken>>
toolVars == <<tool, toolCtx, toolCancels, toolSlots>>
session == <<cancelled, consume, event, events, err, wg, over, toolVars, told, closer>>
vars == <<ctxDone, conn, session>>

Init ==
    /\ ConnInit
    /\ cancelled = FALSE
    /\ consume = "select" /\ event = Ready
    /\ published = <<>> /\ taken = 0
    /\ err = "nil"
    /\ wg = 1 /\ over = FALSE
    /\ tool = [c \in Calls |-> "none"]
    /\ toolCtx = [c \in Calls |-> "live"]
    /\ toolCancels = {} /\ toolSlots = 0 /\ told = {}
    /\ closer = "idle"

Done == ctxDone \/ cancelled                       \* s.ctx.Done()
Room == Len(published) - taken < EventCap
setErr(e) == err' = (IF err = "nil" THEN e ELSE err)
Goto(c, l) == tool' = [tool EXCEPT ![c] = l]
CtxCanceled(c) == toolCtx[c] = "canceled" \/ (toolCtx[c] = "live" /\ Done)

\* Cancelling a context that has ended changes nothing.
Cancel(cs) ==
    toolCtx' = [c \in Calls |-> IF c \in cs /\ toolCtx[c] = "live" /\ ~Done THEN "canceled" ELSE toolCtx[c]]
cancelAllTools == Cancel(toolCancels)

-----------------------------------------------------------------------------
\* consume, between two events.
Stop ==
    /\ consume = "select" /\ Done
    /\ consume' = "leave"
    /\ UNCHANGED <<ctxDone, conn, cancelled, event, events, err, wg, over, toolVars, told, closer>>

\* MUTANT: the connection's error is not looked at.
ConnectionEndedQuietly ==
    /\ consume = "select" /\ queue = <<>> /\ reader = "gone"
    /\ consume' = "leave"
    /\ UNCHANGED <<ctxDone, conn, cancelled, event, events, err, wg, over, toolVars, told, closer>>

ConnectionEnded ==
    /\ consume = "select" /\ queue = <<>> /\ reader = "gone"
    /\ setErr(connErr)
    /\ consume' = "leave"
    /\ UNCHANGED <<ctxDone, conn, cancelled, event, events, wg, over, toolVars, told, closer>>

\* MUTANT: the goroutine is not counted in the WaitGroup.
startToolUncounted(c) == Goto(c, "slot") /\ UNCHANGED <<wg, toolCtx, toolCancels, toolSlots, told>>

startTool(c) ==
    /\ Goto(c, "slot")
    /\ wg' = wg + 1
    /\ UNCHANGED <<toolCtx, toolCancels, toolSlots, told>>

\* Only a call that has registered its cancel function is cancelled.
cancelTool(c) ==
    /\ IF c \in toolCancels THEN Cancel({c}) ELSE UNCHANGED toolCtx
    /\ told' = told \cup {c}
    /\ UNCHANGED <<tool, toolCancels, toolSlots, wg>>

\* An event is taken and handled: handleInternalEvent, then the event hooks, whose
\* panics are recovered.
Take ==
    /\ consume = "select" /\ queue # <<>>
    /\ queue' = Tail(queue)
    /\ event' = Head(queue)
    /\ consume' = "publish"
    /\ \/ event'.kind = "data" /\ UNCHANGED <<toolVars, wg, told>>
       \/ event'.kind = "call" /\ startTool(event'.call)
       \/ event'.kind = "cancel" /\ cancelTool(event'.call)
    /\ UNCHANGED <<ctxDone, ws, server, reading, calls, closing, connErr>>
    /\ UNCHANGED <<cancelled, events, err, over, closer>>

Publish ==
    /\ consume \in {"publish", "wait"} /\ Room
    /\ published' = Append(published, event.seq)
    /\ event' = Ready
    /\ consume' = "select"
    /\ UNCHANGED <<ctxDone, conn, cancelled, taken, err, wg, over, toolVars, told, closer>>

GiveUp ==
    /\ consume \in {"publish", "wait"} /\ Done
    /\ event' = Ready
    /\ consume' = "leave"
    /\ UNCHANGED <<ctxDone, conn, cancelled, events, err, wg, over, toolVars, told, closer>>

QueueFull ==
    /\ consume = "publish" /\ ~Room /\ ~Done
    /\ consume' = "wait"
    /\ UNCHANGED <<ctxDone, conn, cancelled, event, events, err, wg, over, toolVars, told, closer>>

\* The backpressure timer: record the error, cancel, close the connection.
TimerFires ==
    /\ consume = "wait"
    /\ setErr("backpressure")
    /\ cancelled' = TRUE
    /\ StartClose
    /\ event' = Ready
    /\ consume' = "close"
    /\ UNCHANGED <<ctxDone, ws, server, reading, queue, calls, connErr>>
    /\ UNCHANGED <<events, wg, over, toolVars, told, closer>>

\* The deferred cancelAllTools and wg.Done.
Leave ==
    /\ consume = "leave" \/ (consume = "close" /\ CloseReturned)
    /\ cancelAllTools
    /\ wg' = wg - 1
    /\ consume' = "done"
    /\ UNCHANGED <<ctxDone, conn, cancelled, event, events, err, over, told, closer>>
    /\ UNCHANGED <<tool, toolCancels, toolSlots>>

\* The goroutine that waits for all the others.
AllLeft ==
    /\ wg = 0 /\ ~over
    /\ over' = TRUE
    /\ UNCHANGED <<ctxDone, conn, cancelled, consume, event, events, err, wg, toolVars, told, closer>>

\* The application takes an event, or never does.
Receive ==
    /\ taken < Len(published)
    /\ taken' = taken + 1
    /\ UNCHANGED <<ctxDone, conn, cancelled, consume, event, published, err, wg, over, toolVars, told, closer>>

-----------------------------------------------------------------------------
\* The goroutine of a call.
Acquire(c) ==
    /\ tool[c] = "slot" /\ toolSlots < Slots
    /\ toolSlots' = toolSlots + 1
    /\ Goto(c, "register")
    /\ UNCHANGED <<ctxDone, conn, cancelled, consume, event, events, err, wg, over>>
    /\ UNCHANGED <<toolCtx, toolCancels, told, closer>>

\* MUTANT: the early return comes before the deferred wg.Done.
NoSlotForgotten(c) ==
    /\ tool[c] = "slot" /\ Done
    /\ Goto(c, "done")
    /\ UNCHANGED <<ctxDone, conn, cancelled, consume, event, events, err, wg, over>>
    /\ UNCHANGED <<toolCtx, toolCancels, toolSlots, told, closer>>

NoSlot(c) ==
    /\ tool[c] = "slot" /\ Done
    /\ wg' = wg - 1
    /\ Goto(c, "done")
    /\ UNCHANGED <<ctxDone, conn, cancelled, consume, event, events, err, over>>
    /\ UNCHANGED <<toolCtx, toolCancels, toolSlots, told, closer>>

Register(c) ==
    /\ tool[c] = "register"
    /\ toolCancels' = toolCancels \cup {c}
    /\ Goto(c, "run")
    /\ UNCHANGED <<ctxDone, conn, cancelled, consume, event, events, err, wg, over>>
    /\ UNCHANGED <<toolCtx, toolSlots, told, closer>>

\* The tool's timeout, from the creation of its context on.
ToolTimesOut(c) ==
    /\ tool[c] \in {"register", "run"} /\ toolCtx[c] = "live" /\ ~Done
    /\ toolCtx' = [toolCtx EXCEPT ![c] = "deadline"]
    /\ UNCHANGED <<ctxDone, conn, cancelled, consume, event, events, err, wg, over>>
    /\ UNCHANGED <<tool, toolCancels, toolSlots, told, closer>>

\* executeToolsParallel returns; the result of a cancelled tool is dropped.
Run(c) ==
    /\ tool[c] = "run"
    /\ Goto(c, IF CtxCanceled(c) THEN "leave" ELSE "send")
    /\ UNCHANGED <<ctxDone, conn, cancelled, consume, event, events, err, wg, over>>
    /\ UNCHANGED <<toolCtx, toolCancels, toolSlots, told, closer>>

\* conn.Send: a connection that is done refuses, and so does the encoder when the call is
\* not, or no longer, in the connection's table.  The write may fail on an open
\* connection, and fails on a closed one or with an ended context, which is ignored.
Send(c) ==
    /\ tool[c] = "send"
    /\ calls' = IF ConnDone THEN calls ELSE calls \ {c}
    /\ \/ ConnDone /\ Goto(c, "leave")
       \/ ~ConnDone /\ c \notin calls /\ Goto(c, "refused")
       \/ ~ConnDone /\ c \in calls /\ ws = "open" /\ Goto(c, "leave")
       \/ ~ConnDone /\ c \in calls /\ (ws = "closed" \/ ~Done) /\ Goto(c, "broken")
    /\ UNCHANGED <<ctxDone, ws, server, reading, queue, closing, connErr>>
    /\ UNCHANGED <<cancelled, consume, event, events, err, wg, over, toolCtx, toolCancels, toolSlots, told, closer>>

\* Any other failure of Send ends the session.
SendFailed(c) ==
    /\ tool[c] \in {"refused", "broken"}
    /\ setErr(tool[c])
    /\ cancelled' = TRUE
    /\ StartClose
    /\ Goto(c, "close")
    /\ UNCHANGED <<ctxDone, ws, server, reading, queue, calls, connErr>>
    /\ UNCHANGED <<consume, event, events, wg, over, toolCtx, toolCancels, toolSlots, told, closer>>

\* The deferred calls: cancel and forget the cancel function, free the slot, wg.Done.
\* Nobody looks at the context any more.
ToolLeaves(c) ==
    /\ tool[c] = "leave" \/ (tool[c] = "close" /\ CloseReturned)
    /\ toolCtx' = [toolCtx EXCEPT ![c] = "live"]
    /\ toolCancels' = toolCancels \ {c}
    /\ toolSlots' = toolSlots - 1
    /\ wg' = wg - 1
    /\ Goto(c, "done")
    /\ UNCHANGED <<ctxDone, conn, cancelled, consume, event, events, err, over, told, closer>>

ToolStep(c) ==
    \/ Acquire(c) \/ NoSlot(c) \/ Register(c) \/ Run(c) \/ Send(c)
    \/ SendFailed(c) \/ ToolLeaves(c)

-----------------------------------------------------------------------------
\* Close: the first caller cancels and closes the connection.  The others wait for it
\* (closeOnce) and then, like it, for s.done; one caller stands for them all.
Close ==
    /\ closer = "idle"
    /\ closer' = "close"
    /\ cancelled' = TRUE
    /\ StartClose
    /\ UNCHANGED <<ctxDone, ws, server, reading, queue, calls, connErr>>
    /\ UNCHANGED <<consume, event, events, err, wg, over, toolVars, told>>

\* conn.Close returned: record its error, cancel the tools.
CloseTools ==
    /\ closer = "close" /\ CloseReturned
    /\ closer' = "wait"
    /\ \E e \in CloseErrors : setErr(e)
    /\ cancelAllTools
    /\ UNCHANGED <<ctxDone, conn, cancelled, consume, event, events, wg, over, tool, toolCancels, toolSlots, told>>

CloseReturn ==
    /\ closer = "wait" /\ over
    /\ closer' = "returned"
    /\ UNCHANGED <<ctxDone, conn, cancelled, consume, event, events, err, wg, over, toolVars, told>>

ConsumeStep ==
    \/ Stop \/ Take \/ ConnectionEnded \/ Publish \/ GiveUp \/ QueueFull
    \/ TimerFires \/ Leave \/ AllLeft

SessionStep ==
    \/ ConsumeStep \/ Receive
    \/ \E c \in Calls : ToolStep(c) \/ ToolTimesOut(c)
    \/ Close \/ CloseTools \/ CloseReturn

Next ==
    \/ SessionStep
    \/ ConnStep /\ UNCHANGED session
    \/ ContextEnds /\ UNCHANGED <<conn, session>>

\* Go schedules its goroutines, the timer fires, tools return, the close handshake
\* ends (the library bounds it).  The server, the application and the caller's context
\* promise nothing.
Spec ==
    /\ Init /\ [][Next]_vars
    /\ WF_vars(ConnProgress /\ UNCHANGED session)
    /\ WF_vars(ConsumeStep)
    /\ \A c \in Calls : WF_vars(ToolStep(c))
    /\ WF_vars(CloseTools \/ CloseReturn)

-----------------------------------------------------------------------------
Working(c) == tool[c] \notin {"none", "slot", "done"}

\* A session that ends by itself, neither closed nor with its context ended, says why,
\* unless the server closed the connection normally.
FailureSurfaces ==
    over /\ ~ctxDone /\ closer = "idle" /\ err = "nil"
       => connErr = "nil" /\ ~cancelled

\* Nothing of the session runs once Events() is closed: nobody publishes, runs a
\* tool, or holds a slot or a cancel function.
ClosedMeansOver ==
    over => /\ consume = "done"
            /\ \A c \in Calls : tool[c] \in {"none", "done"}
            /\ toolSlots = 0 /\ toolCancels = {}

\* WithRealtimeMaxParallelTools bounds the tools that really run.
SlotsBounded == Cardinality({c \in Calls : Working(c)}) <= Slots

\* Close returns, whether or not anybody reads Events().
CloseReturns == closer # "idle" ~> closer = "returned"

=============================================================================
