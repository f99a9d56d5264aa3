---------------------------- MODULE McpTransport ----------------------------
(***************************************************************************)
(* The client on top of one of its transports (mcp/transport.go): "stdio"  *)
(* writes to a child process and reads its output, "http" posts requests   *)
(* and reads answers from the POST's JSON body, from an SSE body it reads  *)
(* on a goroutine per request, or from the optional GET stream, "sse"      *)
(* posts to an endpoint its GET stream announces.  The server answers a    *)
(* request once, on any stream it may use, at any time.                    *)
(***************************************************************************)
EXTENDS McpClient

CONSTANTS
    Kinds,              \* the transports tried
    Streamed,           \* bound: requests the server may answer on an SSE body
    MaxNotifications    \* bound: notifications the server sends

VARIABLES
    kind,           \* the transport in use
    open,           \* stdio: the child's input is open
    writer,         \* stdio: whose Write holds writeMu
    stalled,        \* stdio: the child has stopped reading its input for good
    endpoint,       \* sse: the endpoint is known
    postCancels,    \* http: POST readers Close will cancel
    taken,          \* what Close took from postCancels
    closer,         \* where Close is
    received,       \* the server: requests it got
    answered,       \* the server: requests it answered
    wire,           \* answers on their way, per dispatcher
    notices         \* notifications sent so far

server == <<received, answered, wire, notices>>
transport == <<open, writer, stalled, endpoint, postCancels, taken, closer>>
vars == <<clientVars, kind, transport, server>>

Init ==
    /\ ClientInit
    /\ kind \in Kinds
    /\ open = FALSE /\ writer = None /\ stalled = FALSE /\ endpoint = FALSE
    /\ postCancels = {} /\ taken = {}
    /\ closer = "none"
    /\ received = {} /\ answered = {}
    /\ wire = [d \in Dispatchers |-> {}]
    /\ notices = 0

\* The dispatchers whose body Close has closed or whose context it cancelled.
cancelled ==
    (IF closer \in {"waiting", "done"} THEN {Main} ELSE {}) \cup (IF closer = "done" THEN taken ELSE {})

-----------------------------------------------------------------------------
\* Start: the child process runs, or the GET is answered.  An http server may
\* have no stream (405, 404).  Start may fail, and Connect with it.
Started(stream) ==
    /\ connect = "new" /\ connect' = "started"
    /\ disp' = [disp EXCEPT ![Main] = IF stream THEN "reading" ELSE "off"]
    /\ UNCHANGED <<capable, pc, greeted, pending, chans, hold, swept, crashed, kind,
                   writer, stalled, endpoint, postCancels, taken, closer, server>>

StdioStart == kind = "stdio" /\ Started(TRUE) /\ open' = TRUE
HTTPStart == kind = "http" /\ (\E stream \in BOOLEAN : Started(stream)) /\ UNCHANGED open
SSEStart == kind = "sse" /\ Started(TRUE) /\ UNCHANGED open

StartFails ==
    /\ connect = "new" /\ connect' = "failed"
    /\ UNCHANGED <<capable, pc, greeted, pending, chans, disp, hold, swept, crashed, kind, transport, server>>

Connecting ==
    /\ initialize
    /\ UNCHANGED <<kind, transport, server>>

Handshake ==
    /\ \E ok \in BOOLEAN : Initialized(ok)
    /\ UNCHANGED <<kind, transport, server>>

\* The initialized notification goes out; Connect fails when it cannot.  Over
\* stdio it is written as a request is, below, by initialize's goroutine.
Notified ==
    /\ kind # "stdio"
    /\ connect = "notify"
    /\ \E sent \in BOOLEAN : connect' = IF sent THEN "ready" ELSE "failed"
    /\ UNCHANGED <<capable, pc, greeted, pending, chans, disp, hold, swept, crashed, kind, transport, server>>

-----------------------------------------------------------------------------
Caller(r) ==
    /\ Operation(r) \/ TimesOut(r) \/ Receive(r) \/ Cleanup(r)
    /\ UNCHANGED <<kind, transport, server>>

\* MUTANT: a POST that failed is sent again, and a server that got it twice
\* answers twice.
SendFailsAndRetries(r) ==
    /\ kind # "stdio" /\ pc[r] \in {"sending", "posted"}
    /\ Goto(r, IF pc[r] = "posted" THEN "sending" ELSE "cleanup")
    /\ answered' = answered \ {r}
    /\ UNCHANGED <<connect, capable, greeted, pending, chans, disp, hold, swept, crashed, kind, transport,
                   received, wire, notices>>

\* A POST fails: the connection broke, the server said no, or the context
\* ended - for sse also before the endpoint was known.
SendFails(r) ==
    /\ kind # "stdio" /\ pc[r] \in {"sending", "posted"}
    /\ Goto(r, "cleanup")
    /\ UNCHANGED <<connect, capable, greeted, pending, chans, disp, hold, swept, crashed, kind, transport, server>>

\* The request is posted, and the response is still to come.
Posts(r) ==
    /\ pc[r] = "sending"
    /\ Goto(r, "posted")
    /\ received' = received \cup {r}
    /\ UNCHANGED <<connect, capable, greeted, pending, chans, disp, hold, swept, crashed,
                   kind, transport, answered, wire, notices>>

HTTPSend(r) == kind = "http" /\ Posts(r)
SSESend(r) == kind = "sse" /\ endpoint /\ Posts(r)

-----------------------------------------------------------------------------
\* stdio's Send knows no context: a message m - a request, or None for the
\* initialized notification - takes writeMu and keeps it until the child has
\* taken the bytes or its end of the pipe is gone.
Moves(m, from, to) ==
    IF m = None
    THEN /\ connect = (IF from = "sending" THEN "notify" ELSE from)
         /\ connect' = [writing |-> "writing", waiting |-> "ready", cleanup |-> "failed"][to]
         /\ UNCHANGED pc
    ELSE pc[m] = from /\ Goto(m, to) /\ UNCHANGED connect

SendRest == <<capable, greeted, pending, chans, disp, hold, swept, crashed, kind, open, stalled,
              endpoint, postCancels, taken, closer, answered, wire, notices>>

\* Close took the input away: Send fails, with the lock for an instant.
SendRefused(m) ==
    /\ kind = "stdio" /\ writer = None /\ ~open
    /\ Moves(m, "sending", "cleanup")
    /\ UNCHANGED <<SendRest, writer, received>>

StdioSend(m) ==
    /\ kind = "stdio" /\ writer = None /\ open
    /\ Moves(m, "sending", "writing")
    /\ writer' = IF m = None THEN InitReq ELSE m
    /\ UNCHANGED <<SendRest, received>>

\* A child that has stopped reading may still have room in its pipe.
Written(m) ==
    /\ Moves(m, "writing", "waiting")
    /\ writer' = None
    /\ received' = IF stalled \/ m = None THEN received ELSE received \cup {m}
    /\ UNCHANGED SendRest

PipeBreaks(m) ==
    /\ Moves(m, "writing", "cleanup")
    /\ writer' = None
    /\ UNCHANGED <<SendRest, received>>

\* The child reads no more: it hangs, or it waits for its own output to be read.
Stalls ==
    /\ kind = "stdio" /\ connect # "new" /\ ~stalled
    /\ stalled' = TRUE
    /\ UNCHANGED <<clientVars, kind, open, writer, endpoint, postCancels, taken, closer, server>>

Stdio(m) == SendRefused(m) \/ StdioSend(m) \/ Written(m) \/ PipeBreaks(m)

-----------------------------------------------------------------------------
\* The POST's response has no message in it.
Accepted(r) ==
    /\ pc[r] = "posted"
    /\ Goto(r, "waiting")
    /\ UNCHANGED <<connect, capable, greeted, pending, chans, disp, hold, swept, crashed,
                   kind, transport, server>>

\* Its JSON body is the answer: Send dispatches it before it returns.
AnsweredInline(r) ==
    /\ pc[r] = "posted" /\ r \notin answered
    /\ Goto(r, "inline")
    /\ disp' = [disp EXCEPT ![r] = "reading"]
    /\ answered' = answered \cup {r}
    /\ wire' = [wire EXCEPT ![r] = @ \cup {r}]
    /\ UNCHANGED <<connect, capable, greeted, pending, chans, hold, swept, crashed,
                   kind, transport, received, notices>>

\* Its body is an SSE stream: a goroutine reads it, Close can cancel it.
StreamsBody(r) ==
    /\ pc[r] = "posted" /\ kind = "http" /\ r \in Streamed
    /\ Goto(r, "waiting")
    /\ disp' = [disp EXCEPT ![r] = "reading"]
    /\ postCancels' = postCancels \cup {r}
    /\ UNCHANGED <<connect, capable, greeted, pending, chans, hold, swept, crashed,
                   kind, open, writer, stalled, endpoint, taken, closer, server>>

-----------------------------------------------------------------------------
\* The server puts an answer on a stream that is open, its own or the POST's,
\* sends a notification, announces its endpoint or ends the stream.
Readable(d) == disp[d] # "off" /\ d \notin cancelled /\ ~Inline(d)

ServerAnswers(d, r) ==
    /\ r \in received \ answered
    /\ d \in {Main, r} /\ Readable(d)
    /\ answered' = answered \cup {r}
    /\ wire' = [wire EXCEPT ![d] = @ \cup {r}]
    /\ UNCHANGED <<clientVars, kind, transport, received, notices>>

readSSE ==
    /\ kind = "sse" /\ disp[Main] = "reading"
    /\ endpoint' = TRUE
    /\ UNCHANGED <<clientVars, kind, open, writer, stalled, postCancels, taken, closer, server>>

Read(d, r) ==
    /\ disp[d] = "reading" /\ r \in wire[d]
    /\ wire' = [wire EXCEPT ![d] = @ \ {r}]
    /\ Lookup(d, r)
    /\ UNCHANGED <<kind, transport, received, answered, notices>>

Notice ==
    /\ notices < MaxNotifications
    /\ notices' = notices + 1
    /\ handleNotification
    /\ UNCHANGED <<kind, transport, received, answered, wire>>

Dispatch(d) ==
    /\ Deliver(d)
    /\ UNCHANGED <<kind, transport, server>>

Handler ==
    /\ HandlerReturns \/ \E r \in Refetches : HandlerCalls(r)
    /\ UNCHANGED <<kind, transport, server>>

\* The reader meets the end of its stream, or the error of a closed body, and
\* its goroutine ends; what was on its way is lost.
StreamEnds(d) ==
    /\ disp[d] = "reading" /\ ~Inline(d)
    /\ disp' = [disp EXCEPT ![d] = "off"]
    /\ wire' = [wire EXCEPT ![d] = {}]
    /\ UNCHANGED <<connect, capable, pc, greeted, pending, chans, hold, swept, crashed, kind, transport,
                   received, answered, notices>>

-----------------------------------------------------------------------------
\* Close: the requests are rejected, then the transport closes.  A handler may
\* be what calls it, and waits for it on its dispatcher.
Rejects ==
    /\ closer = "none" /\ connect # "new"
    /\ Sweep
    /\ closer' = "swept"
    /\ UNCHANGED <<kind, open, writer, stalled, endpoint, postCancels, taken, server>>

Close == Rejects /\ UNCHANGED disp
HandlerCloses ==
    /\ disp[Main] = "handler" /\ disp' = [disp EXCEPT ![Main] = "closing"]
    /\ Rejects
HandlerClosed ==
    /\ disp[Main] = "closing" /\ closer = "done"
    /\ disp' = [disp EXCEPT ![Main] = "reading"]
    /\ UNCHANGED <<connect, capable, pc, greeted, pending, chans, hold, swept, crashed, kind, transport, server>>

\* stdio closes the input and kills the child, sse closes the body, and both are
\* done; http cancels the GET and takes the POST readers' cancel functions.
Closing(l) ==
    /\ closer = "swept" /\ closer' = l
    /\ open' = FALSE
    /\ taken' = postCancels /\ postCancels' = {}
    /\ UNCHANGED <<clientVars, kind, writer, stalled, endpoint, server>>

\* stdio needs the lock for that, which a write may hold.
StdioClose == kind = "stdio" /\ writer = None /\ Closing("done")
SSEClose == kind = "sse" /\ Closing("done")
HTTPClose == kind = "http" /\ Closing("waiting")
CloseTransport == StdioClose \/ SSEClose \/ HTTPClose

\* MUTANT: http waits for the POST readers before it cancels them.
CloseWaitsForAll ==
    /\ closer = "waiting" /\ disp[Main] = "off" /\ \A r \in taken : disp[r] = "off"
    /\ closer' = "done"
    /\ UNCHANGED <<clientVars, kind, open, writer, stalled, endpoint, postCancels, taken, server>>

\* http waits for the GET reader before it cancels the others.
CloseWaits ==
    /\ closer = "waiting" /\ disp[Main] = "off"
    /\ closer' = "done"
    /\ UNCHANGED <<clientVars, kind, open, writer, stalled, endpoint, postCancels, taken, server>>

-----------------------------------------------------------------------------
CallerStep(r) ==
    \/ Caller(r) \/ SendFails(r) \/ HTTPSend(r) \/ SSESend(r)
    \/ Accepted(r) \/ AnsweredInline(r) \/ StreamsBody(r)
DispatcherStep(d) ==
    Dispatch(d) \/ StreamEnds(d) \/ \E r \in Reqs : Read(d, r) \/ ServerAnswers(d, r)
CloserStep == Close \/ HandlerCloses \/ HandlerClosed \/ CloseTransport \/ CloseWaits

Next ==
    /\ ~crashed
    /\ \/ StdioStart \/ HTTPStart \/ SSEStart \/ StartFails
       \/ Connecting \/ Handshake \/ Notified
       \/ \E r \in Reqs : CallerStep(r)
       \/ Stalls \/ \E m \in Reqs \cup {None} : Stdio(m)
       \/ \E d \in Dispatchers : DispatcherStep(d)
       \/ readSSE \/ Notice \/ Handler
       \/ CloserStep

\* Every context ends, a handler returns, a closed body is noticed, a mutex is
\* handed on, and Close goes on; the server owes nothing, and a child reads its
\* input until it stalls.
Returns(r) == TimesOut(r) \/ Receive(r) \/ Cleanup(r)
Fairness ==
    /\ \A r \in Reqs : /\ WF_vars(~crashed /\ Returns(r) /\ UNCHANGED <<kind, transport, server>>)
                       /\ WF_vars(~crashed /\ (SendFails(r) \/ HTTPSend(r) \/ SSESend(r) \/ Accepted(r)))
    /\ \A m \in Reqs \cup {None} : /\ WF_vars(~crashed /\ (SendRefused(m) \/ StdioSend(m)))
                                   /\ WF_vars(~crashed /\ ~stalled /\ Written(m))
    /\ \A d \in Dispatchers :
          /\ WF_vars(~crashed /\ Dispatch(d))
          /\ WF_vars(~crashed /\ \E r \in Reqs : Read(d, r))
          /\ WF_vars(~crashed /\ d \in cancelled /\ StreamEnds(d))
    /\ WF_vars(~crashed /\ (HandlerClosed \/ (HandlerReturns /\ UNCHANGED <<kind, transport, server>>)))
    /\ WF_vars(~crashed /\ (CloseTransport \/ CloseWaits))

Spec == Init /\ [][Next]_vars /\ Fairness

-----------------------------------------------------------------------------
\* A write that no child takes keeps writeMu (mcp/transport.go:182-187).
Blocked == stalled /\ writer # None
\* A handler waits in HTTPTransport.Close for the reader it runs on (:538).
ClosesItself == kind = "http" /\ disp[Main] = "closing"

\* Every request returns, whatever the server, the transport and Close do: Close
\* rejects it or its own context ends it.  Over stdio, whose Send has no context
\* (mcp/transport.go:177), that takes a child that reads: a write it never takes
\* keeps its own request and those that wait to be written behind it, no others.
Unsent(r) == Blocked /\ pc[r] \in {"sending", "writing"}
EveryRequestEnds == \A r \in Reqs : pc[r] # "idle" ~> (pc[r] = "done" \/ crashed \/ []Unsent(r))

\* Close returns although readers, requests and a handler are busy on the streams
\* it waits for: only a write that is never taken, or a handler that calls Close on
\* the very stream Close waits for, keeps it (mcp/transport.go:193, :538).
CloseReturns == closer # "none" ~> (closer = "done" \/ crashed \/ []Blocked \/ []ClosesItself)

=============================================================================
