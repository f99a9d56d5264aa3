----------------------------- MODULE McpProofs -----------------------------
(***************************************************************************)
(* Proofs about the MCP client and its transports for every number of      *)
(* requests, of notifications and every transport: an answer is in one     *)
(* place at a time, and a dispatcher never waits for a slot.               *)
(***************************************************************************)
EXTENDS McpTransport, TLAPS

DispLabels == {"off", "reading", "delivering", "handler", "calling", "closing"}

Types ==
    /\ disp \in [Dispatchers -> DispLabels]
    /\ hold \in [Dispatchers -> Reqs \cup {None}]
    /\ full \in [Reqs -> BOOLEAN] /\ closed \in [Reqs -> BOOLEAN]
    /\ wire \in [Dispatchers -> SUBSET Reqs]

Holds(d, r) == disp[d] = "delivering" /\ hold[d] = r
HoldsOne == \A d \in Dispatchers : disp[d] = "delivering" => hold[d] \in Reqs

\* An answer is in one place at a time: on its way to one dispatcher, in the
\* hands of one, in its channel, or gone.
Known == \A r \in Reqs :
    full[r] \/ (\E d \in Dispatchers : Holds(d, r) \/ r \in wire[d]) => r \in answered
OneWay == \A r \in Reqs, d, e \in Dispatchers :
    /\ r \in wire[d] /\ r \in wire[e] => d = e
    /\ Holds(d, r) /\ Holds(e, r) => d = e
    /\ ~(r \in wire[d] /\ Holds(e, r))
NotYet == \A r \in Reqs, d \in Dispatchers : r \in wire[d] \/ Holds(d, r) => ~full[r]

Arrivals == Known /\ OneWay /\ NotYet
Inv == Types /\ HoldsOne /\ Arrivals

-----------------------------------------------------------------------------
LEMMA InvInit == Init => Inv
BY ClientAssumption DEF Init, ClientInit, Inv, Types, DispLabels, HoldsOne, Arrivals, Known,
   OneWay, NotYet, Holds

\* Most steps take no dispatcher into a delivery and leave the answers alone.
LEMMA QuietStep ==
    ASSUME Inv, disp' \in [Dispatchers -> DispLabels],
           \A d \in Dispatchers : disp'[d] = "delivering" => disp[d] = "delivering",
           UNCHANGED <<hold, full, closed, wire, answered>>
    PROVE  Inv'
BY DEF Inv, Types, HoldsOne, Arrivals, Known, OneWay, NotYet, Holds

LEMMA MainIsOne == Main \in Dispatchers /\ Reqs \subseteq Dispatchers
BY DEF Dispatchers

LEMMA Starting ==
    ASSUME Inv, StdioStart \/ HTTPStart \/ SSEStart \/ StartFails \/ Connecting \/ Handshake \/ Notified
    PROVE  Inv'
<1> USE MainIsOne DEF Inv, Types, DispLabels
<1>1. CASE StdioStart \/ HTTPStart \/ SSEStart
  <2>1. PICK b \in BOOLEAN : Started(b)
    BY <1>1 DEF StdioStart, HTTPStart, SSEStart
  <2> QED
    BY <2>1, QuietStep DEF Started, server, chans
<1>2. CASE StartFails
  BY <1>2, QuietStep DEF StartFails, server, chans
<1>3. CASE Connecting
  BY <1>3, QuietStep DEF Connecting, initialize, Register, server, chans
<1>4. CASE Handshake
  BY <1>4, QuietStep DEF Handshake, Initialized, server, chans
<1>5. CASE Notified
  BY <1>5, QuietStep DEF Notified, server, chans
<1> QED
  BY <1>1, <1>2, <1>3, <1>4, <1>5

LEMMA Calling ==
    ASSUME Inv, NEW r \in Reqs, CallerStep(r)
    PROVE  Inv'
<1> USE MainIsOne DEF Inv, Types, DispLabels
<1>1. CASE Operation(r) /\ UNCHANGED <<kind, transport, server>>
  BY <1>1, QuietStep DEF Operation, Register, server, chans
<1>2. CASE TimesOut(r) /\ UNCHANGED <<kind, transport, server>>
  BY <1>2, QuietStep DEF TimesOut, server, chans
<1>3. CASE Receive(r) /\ UNCHANGED <<kind, transport, server>>
  BY <1>3 DEF Receive, server, HoldsOne, Arrivals, Known, OneWay, NotYet, Holds
<1>4. CASE Cleanup(r) /\ UNCHANGED <<kind, transport, server>>
  BY <1>4, QuietStep DEF Cleanup, server, chans
<1>5. CASE SendFails(r)
  BY <1>5, QuietStep DEF SendFails, server, chans
<1>6. CASE HTTPSend(r) \/ SSESend(r)
  BY <1>6, QuietStep DEF HTTPSend, SSESend, Posts, chans
<1>7. CASE Accepted(r)
  BY <1>7, QuietStep DEF Accepted, server, chans
<1>8. CASE AnsweredInline(r)
  BY <1>8 DEF AnsweredInline, chans, HoldsOne, Arrivals, Known, OneWay, NotYet, Holds
<1>9. CASE StreamsBody(r)
  BY <1>9, QuietStep DEF StreamsBody, server, chans
<1> QED
  BY <1>1, <1>2, <1>3, <1>4, <1>5, <1>6, <1>7, <1>8, <1>9 DEF CallerStep, Caller

LEMMA Writing == ASSUME Inv, Stalls \/ \E m \in Reqs \cup {None} : Stdio(m) PROVE Inv'
BY QuietStep DEF Inv, Types, Stalls, Stdio, SendRefused, StdioSend, Written, PipeBreaks, SendRest, clientVars,
   server, chans

\* A dispatcher that is done with its message is not delivering.
LEMMA Resumed ==
    ASSUME Types, NEW d \in Dispatchers, Resume(d)
    PROVE  /\ disp' \in [Dispatchers -> DispLabels] /\ disp'[d] # "delivering"
           /\ \A e \in Dispatchers : e # d => disp'[e] = disp[e]
BY DEF Types, DispLabels, Resume

LEMMA Dispatching ==
    ASSUME Inv, NEW d \in Dispatchers, DispatcherStep(d)
    PROVE  Inv'
<1> USE MainIsOne DEF Inv, Types, DispLabels
<1>1. CASE Dispatch(d)
  <2>1. disp[d] = "delivering" /\ hold[d] \in Reqs /\ UNCHANGED <<closed, wire, answered>>
    BY <1>1 DEF Dispatch, Deliver, HoldsOne, server
  <2>2. CASE closed[hold[d]]
    <3>1. UNCHANGED <<full, disp, hold>>
      BY <1>1, <2>1, <2>2 DEF Dispatch, Deliver
    <3> QED
      BY <2>1, <3>1 DEF HoldsOne, Arrivals, Known, OneWay, NotYet, Holds
  <2>3. CASE ~closed[hold[d]]
    <3>1. /\ full' = [full EXCEPT ![hold[d]] = TRUE] /\ hold' = [hold EXCEPT ![d] = None]
          /\ Resume(d)
      BY <1>1, <2>3 DEF Dispatch, Deliver
    <3>2. /\ disp' \in [Dispatchers -> DispLabels] /\ disp'[d] # "delivering"
          /\ \A e \in Dispatchers : e # d => disp'[e] = disp[e]
      BY <3>1, Resumed
    <3>3. /\ \A r \in Reqs : ~Holds(d, r)'
          /\ \A e \in Dispatchers, r \in Reqs : Holds(e, r)' => e # d /\ Holds(e, r)
          /\ Holds(d, hold[d])
      BY <2>1, <3>1, <3>2 DEF Holds
    <3>4. Types' /\ HoldsOne'
      BY <2>1, <3>1, <3>2 DEF HoldsOne
    <3>5. Known'
      BY <2>1, <3>1, <3>3 DEF Arrivals, Known
    <3>6. OneWay'
      BY <2>1, <3>3 DEF Arrivals, OneWay
    <3>7. NotYet'
      BY <2>1, <3>1, <3>3 DEF Arrivals, NotYet, OneWay
    <3> QED
      BY <3>4, <3>5, <3>6, <3>7 DEF Arrivals
  <2> QED
    BY <2>2, <2>3
<1>2. CASE StreamEnds(d)
  BY <1>2 DEF StreamEnds, chans, HoldsOne, Arrivals, Known, OneWay, NotYet, Holds
<1>3. ASSUME NEW r \in Reqs, Read(d, r)
      PROVE  Inv'
  <2>1. /\ r \in wire[d] /\ wire' = [wire EXCEPT ![d] = @ \ {r}]
        /\ UNCHANGED <<answered, full, closed>>
    BY <1>3 DEF Read, Lookup, chans
  <2>2. CASE r \in pending
    <3>1. disp' = [disp EXCEPT ![d] = "delivering"] /\ hold' = [hold EXCEPT ![d] = r]
      BY <1>3, <2>2 DEF Read, Lookup
    <3>2. Types' /\ HoldsOne'
      BY <2>1, <3>1 DEF HoldsOne
    <3>3. Known'
      BY <2>1, <3>1 DEF Arrivals, Known, Holds
    <3>4. OneWay'
      BY <2>1, <3>1 DEF Arrivals, OneWay, Holds
    <3>5. NotYet'
      BY <2>1, <3>1 DEF Arrivals, NotYet, Holds
    <3> QED
      BY <3>2, <3>3, <3>4, <3>5 DEF Arrivals
  <2>3. CASE r \notin pending
    <3>1. Resume(d) /\ UNCHANGED hold
      BY <1>3, <2>3 DEF Read, Lookup
    <3>2. /\ disp' \in [Dispatchers -> DispLabels]
          /\ \A e \in Dispatchers : disp'[e] = "delivering" => disp[e] = "delivering"
      BY <3>1, Resumed
    <3>3. /\ \A e \in Dispatchers, q \in Reqs : Holds(e, q)' => Holds(e, q)
          /\ \A e \in Dispatchers : wire'[e] \subseteq wire[e]
      BY <2>1, <3>1, <3>2 DEF Holds
    <3>4. Types' /\ HoldsOne'
      BY <2>1, <3>1, <3>2 DEF HoldsOne
    <3> QED
      BY <2>1, <3>3, <3>4 DEF Arrivals, Known, OneWay, NotYet
  <2> QED
    BY <2>2, <2>3
<1>4. ASSUME NEW r \in Reqs, ServerAnswers(d, r)
      PROVE  Inv'
  <2>1. /\ r \notin answered /\ answered' = answered \cup {r}
        /\ wire' = [wire EXCEPT ![d] = @ \cup {r}]
        /\ UNCHANGED <<disp, hold, full, closed>>
    BY <1>4 DEF ServerAnswers, clientVars, chans
  <2> QED
    BY <2>1 DEF HoldsOne, Arrivals, Known, OneWay, NotYet, Holds
<1> QED
  BY <1>1, <1>2, <1>3, <1>4 DEF DispatcherStep

LEMMA Closings == ASSUME Inv, CloserStep PROVE Inv'
<1> USE MainIsOne DEF Inv, Types, DispLabels
<1>1. CASE Close \/ HandlerCloses
  <2>1. /\ closed' = [r \in Reqs |-> closed[r] \/ r \in pending]
        /\ UNCHANGED <<hold, full, wire, answered>>
        /\ disp' \in [Dispatchers -> DispLabels]
        /\ \A d \in Dispatchers : disp'[d] = "delivering" => disp[d] = "delivering"
    BY <1>1 DEF Close, HandlerCloses, Rejects, Sweep, server
  <2> QED
    BY <2>1 DEF HoldsOne, Arrivals, Known, OneWay, NotYet, Holds
<1>4. CASE HandlerClosed
  BY <1>4, QuietStep DEF HandlerClosed, server, chans
<1>2. CASE CloseTransport
  BY <1>2, QuietStep DEF CloseTransport, StdioClose, SSEClose, HTTPClose, Closing, clientVars, server, chans
<1>3. CASE CloseWaits
  BY <1>3, QuietStep DEF CloseWaits, clientVars, server, chans
<1> QED
  BY <1>1, <1>2, <1>3, <1>4 DEF CloserStep

LEMMA Noticing ==
    ASSUME Inv, readSSE \/ Notice \/ Handler
    PROVE  Inv'
<1> USE MainIsOne DEF Inv, Types, DispLabels
<1>1. CASE readSSE
  BY <1>1, QuietStep DEF readSSE, clientVars, server, chans
<1>2. CASE Notice
  BY <1>2, QuietStep DEF Notice, handleNotification, chans
<1>3. CASE Handler
  BY <1>3, QuietStep DEF Handler, HandlerReturns, HandlerCalls, Register, server, chans
<1> QED
  BY <1>1, <1>2, <1>3

LEMMA InvStep == Inv /\ [Next]_vars => Inv'
<1> SUFFICES ASSUME Inv, [Next]_vars PROVE Inv'
  OBVIOUS
<1>1. CASE UNCHANGED vars
  BY <1>1, QuietStep DEF vars, clientVars, chans, server, Inv, Types
<1>2. CASE Next
  BY <1>2, Starting, Calling, Writing, Dispatching, Closings, Noticing DEF Next
<1> QED
  BY <1>1, <1>2

LEMMA AlwaysInv == Spec => []Inv
<1> QED
  BY InvInit, InvStep, PTL DEF Spec

-----------------------------------------------------------------------------
\* mcp/client.go handleMessage sends without a select, after it released the lock.
\* For any number of requests and any order of answers, time-outs and clean-ups, the
\* one slot of a request's channel is free whenever a dispatcher gets there, also when
\* the caller gave up long ago, as long as the server answers a request once.
THEOREM DispatcherNeverWaits == Spec => []ReaderNeverBlocks
<1>1. Inv => ReaderNeverBlocks
  BY DEF Inv, HoldsOne, Arrivals, NotYet, Holds, ReaderNeverBlocks
<1> QED
  BY <1>1, AlwaysInv, PTL

\* A request's answer reaches its channel once: whatever is on its way to one
\* dispatcher is on its way to no other, nor in the hands of one, and is gone from the
\* way when it is in the channel.  A time-out, a clean-up or a Close in between
\* (mcp/client.go, request and its deferred clean-up) brings no second copy.
THEOREM AnswerIsCarriedOnce == Spec => []Arrivals
<1>1. Inv => Arrivals
  BY DEF Inv
<1> QED
  BY <1>1, AlwaysInv, PTL
=============================================================================
