------------------------------ MODULE LiveConn ------------------------------
(***************************************************************************)
(* liveConn (provider/google/live.go): one Gemini Live WebSocket session   *)
(* as a provider.RealtimeConnection.  A reader goroutine turns server      *)
(* messages into events and puts them in a bounded channel; Close runs the *)
(* WebSocket close handshake while that reader keeps reading; Send needs   *)
(* the name of a call in the table the reader keeps.                       *)
(*                                                                         *)
(* A server message carries one event here.  What the messages say is      *)
(* reduced to: a function call, the cancellation of one, anything else.    *)
(***************************************************************************)
EXTENDS Naturals, Sequences

CONSTANTS
    MaxCalls,       \* bound: function calls the server makes, each with a fresh id
    MaxEvents,      \* bound: events the server sends after the setup
    ConnCap         \* liveEventBuffer

ASSUME ConnAssumption == MaxCalls \in Nat /\ MaxEvents \in Nat /\ ConnCap \in Nat \ {0}

Calls == 1..MaxCalls

VARIABLES
    ctxDone,        \* the context given to OpenRealtime ended
    ws,             \* the WebSocket: "open" or "closed"
    asked,          \* the last call the server made
    withdrawn,      \* calls the server cancelled
    seq,            \* c.seq
    pending,        \* the event the reader is delivering, or <<>>
    queue,          \* c.events
    reader,         \* readLoop: "running", or "gone" with c.events and c.done closed
    calls,          \* c.calls: pending function calls
    closing,        \* Close: "no", "handshake", "cancel" (handshake over), "done"
    connErr         \* c.err

server == <<asked, withdrawn>>
reading == <<seq, pending, reader>>
conn == <<ws, server, reading, queue, calls, closing, connErr>>

None == 0            \* the call of an event that is about no call
Event(n, k, c) == [seq |-> n, kind |-> k, call |-> c]
Ready == Event(0, "data", None)

\* OpenRealtime: the setup is confirmed, RealtimeSessionReady is queued, readLoop runs.
ConnInit ==
    /\ ctxDone = FALSE /\ ws = "open"
    /\ asked = 0 /\ withdrawn = {}
    /\ seq = 0 /\ pending = <<>> /\ queue = <<Ready>> /\ reader = "running"
    /\ calls = {}
    /\ closing = "no" /\ connErr = "nil"

ConnDone == ctxDone \/ closing = "done"

-----------------------------------------------------------------------------
\* One message arrives and is translated: the reader adds a call to the table, and
\* takes it out when the server cancels it, before the event is delivered.
Read(k, c) ==
    /\ reader = "running" /\ pending = <<>> /\ ws = "open"
    /\ seq < MaxEvents
    /\ seq' = seq + 1
    /\ pending' = <<Event(seq + 1, k, c)>>
    /\ UNCHANGED <<ctxDone, ws, queue, reader, closing, connErr>>

ReadData == Read("data", None) /\ UNCHANGED <<server, calls>>

ReadCall ==
    /\ asked < MaxCalls
    /\ Read("call", asked + 1)
    /\ asked' = asked + 1
    /\ calls' = calls \cup {asked + 1}
    /\ UNCHANGED withdrawn

ReadCancellation(c) ==
    /\ c \in (1..asked) \ withdrawn
    /\ Read("cancel", c)
    /\ withdrawn' = withdrawn \cup {c}
    /\ calls' = calls \ {c}
    /\ UNCHANGED asked

\* The reader's select, with an event at hand.
Deliver ==
    /\ pending # <<>>
    /\ Len(queue) < ConnCap
    /\ queue' = queue \o pending
    /\ pending' = <<>>
    /\ UNCHANGED <<ctxDone, ws, server, seq, reader, calls, closing, connErr>>

Discard ==
    /\ pending # <<>>
    /\ closing # "no"
    /\ pending' = <<>>
    /\ UNCHANGED <<ctxDone, ws, server, seq, queue, reader, calls, closing, connErr>>

Abandon ==
    /\ pending # <<>>
    /\ ConnDone
    /\ pending' = <<>>
    /\ reader' = "gone"
    /\ UNCHANGED <<ctxDone, ws, server, seq, queue, calls, closing, connErr>>

\* Read fails: the peer closed, normally or not, the connection was lost, a message
\* could not be decoded, or our side ended it.  A failed read is an error only while the
\* context is live, a message that cannot be decoded always.
ReadFails ==
    /\ reader = "running" /\ pending = <<>>
    /\ reader' = "gone"
    /\ ws' = "closed"
    /\ connErr' \in IF ConnDone /\ ws = "closed" THEN {connErr} ELSE {"nil", "lost"}
    /\ UNCHANGED <<ctxDone, server, seq, pending, queue, calls, closing>>

\* The context the session was opened with ends.
ContextEnds ==
    /\ ~ctxDone /\ ctxDone' = TRUE

-----------------------------------------------------------------------------
\* Close: the first caller closes the channel, does the handshake and cancels; every
\* caller then waits for the reader.
StartClose == closing' = (IF closing = "no" THEN "handshake" ELSE closing)
CloseReturned == closing = "done" /\ reader = "gone"
CloseErrors == {"nil", "close"}     \* c.closeErr, read once, by RealtimeSession.Close

\* The peer answers the close frame, or the library gives up on it.
HandshakeEnds ==
    /\ closing = "handshake"
    /\ closing' = "cancel"
    /\ ws' = "closed"
    /\ UNCHANGED <<ctxDone, server, reading, queue, calls, connErr>>

CancelConn ==
    /\ closing = "cancel"
    /\ closing' = "done"
    /\ UNCHANGED <<ctxDone, ws, server, reading, queue, calls, connErr>>

ConnStep ==
    \/ Deliver \/ Discard \/ Abandon \/ ReadFails \/ HandshakeEnds \/ CancelConn
    \/ ReadData \/ ReadCall \/ \E c \in Calls : ReadCancellation(c)

\* What the reader and the closing do without the peer's help.
ConnProgress ==
    \/ Deliver \/ Discard \/ Abandon \/ HandshakeEnds \/ CancelConn
    \/ ReadFails /\ (ws = "closed" \/ ConnDone)

=============================================================================
