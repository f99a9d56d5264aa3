----------------------------- MODULE McpClient -----------------------------
(***************************************************************************)
(* mcp.Client (mcp/client.go): callers register a request under its id,    *)
(* hand it to the transport and wait for the answer, the end of their      *)
(* context or Close.  Dispatchers - the goroutines a transport reads its   *)
(* messages on - look a response's id up under pendingMu and send on the   *)
(* one-slot channel they found after they released it, or run the          *)
(* application's handler of a notification.  What the transport does with  *)
(* a request is in McpTransport.                                           *)
(***************************************************************************)
EXTENDS Naturals, FiniteSets

CONSTANTS
    InitReq,        \* the initialize request
    Calls,          \* the application's ListTools, CallTool, ...
    Refetches,      \* the same made inside a notification's handler
    Main,           \* the dispatcher of the transport's own stream
    None            \* no dispatcher, no request

Ops == Calls \cup Refetches
Reqs == Ops \cup {InitReq}
Dispatchers == Reqs \cup {Main}

ASSUME ClientAssumption ==
    /\ InitReq \notin Ops /\ Calls \cap Refetches = {}
    /\ Main \notin Reqs /\ None \notin Dispatchers

VARIABLES
    connect,        \* where Connect is
    capable,        \* c.capabilities are set
    pc,             \* where each sendRequest is
    greeted,        \* initialize's request returned an answer, not an error
    pending,        \* the ids in c.pending
    full, closed,   \* the state of each request's channel
    disp,           \* where each dispatcher is
    hold,           \* the request whose channel it looked up
    swept,          \* Close has emptied c.pending
    crashed         \* a goroutine sent on a closed channel

chans == <<full, closed>>
clientVars == <<connect, capable, pc, greeted, pending, chans, disp, hold, swept, crashed>>

ClientInit ==
    /\ connect = "new" /\ capable = FALSE
    /\ pc = [r \in Reqs |-> "idle"]
    /\ greeted = FALSE
    /\ pending = {}
    /\ full = [r \in Reqs |-> FALSE]
    /\ closed = [r \in Reqs |-> FALSE]
    /\ disp = [d \in Dispatchers |-> "off"]
    /\ hold = [d \in Dispatchers |-> None]
    /\ swept = FALSE /\ crashed = FALSE

Goto(r, l) == pc' = [pc EXCEPT ![r] = l]

-----------------------------------------------------------------------------
\* The operations ask for the capability first, initialize does not.
assertCapability(r) == r \in Ops => capable

\* sendRequest up to the registration; the transport takes it from there.
Register(r) ==
    /\ pc[r] = "idle"
    /\ Goto(r, "sending")
    /\ pending' = pending \cup {r}
    /\ UNCHANGED <<capable, greeted, chans, hold, swept, crashed>>

initialize ==
    /\ connect = "started"
    /\ connect' = "asked"
    /\ Register(InitReq)
    /\ UNCHANGED disp

Operation(r) ==
    /\ r \in Calls /\ assertCapability(r)
    /\ Register(r)
    /\ UNCHANGED <<connect, disp>>

\* MUTANT: the request has no timeout of its own.
TimesOutNever(r) ==
    /\ pc[r] = "waiting" /\ swept
    /\ Goto(r, "cleanup")
    /\ UNCHANGED <<connect, capable, greeted, pending, chans, disp, hold, swept, crashed>>

\* The select: the context ended, a value is in the channel, or it is closed.
TimesOut(r) ==
    /\ pc[r] = "waiting"
    /\ Goto(r, "cleanup")
    /\ UNCHANGED <<connect, capable, greeted, pending, chans, disp, hold, swept, crashed>>

Receive(r) ==
    /\ pc[r] = "waiting" /\ (full[r] \/ closed[r])
    /\ Goto(r, "cleanup")
    /\ greeted' = (greeted \/ (r = InitReq /\ full[r]))
    /\ full' = [full EXCEPT ![r] = FALSE]
    /\ UNCHANGED <<connect, capable, pending, closed, disp, hold, swept, crashed>>

Cleanup(r) ==
    /\ pc[r] = "cleanup"
    /\ pending' = pending \ {r}
    /\ Goto(r, "done")
    /\ UNCHANGED <<connect, capable, greeted, chans, disp, hold, swept, crashed>>

\* The rest of initialize: the result is parsed, its version checked, the
\* capabilities stored; then the initialized notification is sent.
Initialized(ok) ==
    /\ connect = "asked" /\ pc[InitReq] = "done"
    /\ LET good == ok /\ greeted
       IN capable' = good /\ connect' = (IF good THEN "notify" ELSE "failed")
    /\ UNCHANGED <<pc, greeted, pending, chans, disp, hold, swept, crashed>>

-----------------------------------------------------------------------------
\* A dispatcher that has handled its message reads on; one that handles the
\* body of a POST inside Send goes back to its caller.
Inline(d) == d \in Reqs /\ pc[d] = "inline"
Resume(d) ==
    /\ disp' = [disp EXCEPT ![d] = IF Inline(d) THEN "off" ELSE "reading"]
    /\ pc' = [r \in Reqs |-> IF r = d /\ Inline(d) THEN "waiting" ELSE pc[r]]

\* handleMessage for a response to r: the look-up, under pendingMu ...
Lookup(d, r) ==
    /\ IF r \in pending
       THEN /\ disp' = [disp EXCEPT ![d] = "delivering"]
            /\ hold' = [hold EXCEPT ![d] = r]
            /\ UNCHANGED pc
       ELSE Resume(d) /\ UNCHANGED hold
    /\ UNCHANGED <<connect, capable, greeted, pending, chans, swept, crashed>>

\* ... and the send, after it: it waits while the slot is taken, and panics
\* when the channel was closed in between.
Deliver(d) ==
    /\ disp[d] = "delivering"
    /\ IF closed[hold[d]]
       THEN crashed' = TRUE /\ UNCHANGED <<full, disp, hold, pc>>
       ELSE /\ ~full[hold[d]]
            /\ full' = [full EXCEPT ![hold[d]] = TRUE]
            /\ hold' = [hold EXCEPT ![d] = None]
            /\ Resume(d)
            /\ UNCHANGED crashed
    /\ UNCHANGED <<connect, capable, greeted, pending, closed, swept>>

\* handleNotification runs the handler on the dispatcher; the handler may make
\* a request of its own and wait for it there.
handleNotification ==
    /\ disp[Main] = "reading"
    /\ disp' = [disp EXCEPT ![Main] = "handler"]
    /\ UNCHANGED <<connect, capable, pc, greeted, pending, chans, hold, swept, crashed>>

HandlerCalls(r) ==
    /\ disp[Main] = "handler"
    /\ r \in Refetches /\ assertCapability(r)
    /\ Register(r)
    /\ disp' = [disp EXCEPT ![Main] = "calling"]
    /\ UNCHANGED connect

HandlerReturns ==
    /\ disp[Main] \in {"handler", "calling"}
    /\ \A r \in Refetches : pc[r] \in {"idle", "done"}
    /\ disp' = [disp EXCEPT ![Main] = "reading"]
    /\ UNCHANGED <<connect, capable, pc, greeted, pending, chans, hold, swept, crashed>>

-----------------------------------------------------------------------------
\* Close rejects every pending request under pendingMu.
Sweep ==
    /\ closed' = [r \in Reqs |-> closed[r] \/ r \in pending]
    /\ pending' = {}
    /\ swept' = TRUE
    /\ UNCHANGED <<connect, capable, pc, greeted, full, hold, crashed>>

-----------------------------------------------------------------------------
\* handleMessage sends without a select (mcp/client.go:414).  With one response
\* per id a dispatcher never waits for a request's slot, so a slow or vanished
\* caller cannot stop the stream for the others.
ReaderNeverBlocks == \A d \in Dispatchers : disp[d] = "delivering" => ~full[hold[d]]
=============================================================================
