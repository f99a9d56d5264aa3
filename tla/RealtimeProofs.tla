--------------------------- MODULE RealtimeProofs ---------------------------
(***************************************************************************)
(* Proofs about RealtimeSession for every number of calls, of slots and of *)
(* events, and every size of the channels: Events() is closed only when    *)
(* nothing runs any more, no more tools run than there are slots, and a    *)
(* session that ends by itself says why.                                   *)
(***************************************************************************)
EXTENDS Realtime, FiniteSetTheorems, TLAPS

EventType == [seq : Nat, kind : {"data", "call", "cancel"}, call : 0..MaxCalls]
ConsumeLabels == {"select", "publish", "wait", "close", "leave", "done"}
Labels == {"none", "slot", "register", "run", "send", "refused", "broken", "close", "leave", "done"}

Types ==
    /\ asked \in 0..MaxCalls
    /\ seq \in Nat
    /\ queue \in Seq(EventType)
    /\ pending = <<>> \/ \E e \in EventType : pending = <<e>>
    /\ consume \in ConsumeLabels
    /\ tool \in [Calls -> Labels]
    /\ toolCancels \subseteq Calls

\* A call that is announced by an event on its way has no goroutine yet, and no other
\* event announces it: startTool is called once for a call.
Announces(e) == e.kind = "call"
Coming(q, p) == {q[i] : i \in 1..Len(q)} \cup {p[i] : i \in 1..Len(p)}
FreshIn(q, p) ==
    /\ \A e \in Coming(q, p) : Announces(e) => e.call \in 1..asked /\ tool[e.call] = "none"
    /\ \A i, j \in 1..Len(q) : i # j /\ Announces(q[i]) /\ Announces(q[j]) => q[i].call # q[j].call
    /\ \A i \in 1..Len(q), j \in 1..Len(p) :
          Announces(q[i]) /\ Announces(p[j]) => q[i].call # p[j].call
Fresh ==
    /\ \A c \in Calls : c > asked => tool[c] = "none"
    /\ FreshIn(queue, pending)

\* The WaitGroup counts consume and the goroutines of the calls.
Alive == {c \in Calls : tool[c] \notin {"none", "done"}}
Counted == wg = Cardinality(Alive) + (IF consume = "done" THEN 0 ELSE 1)

\* The slots are held by the calls that work, and only they are registered.
Holding == {c \in Calls : Working(c)}
Slotted == toolSlots = Cardinality(Holding) /\ toolSlots <= Slots
Registered == toolCancels \subseteq Holding

\* The session is over once, and then for good.
Final == over => wg = 0

Inv == Types /\ Fresh /\ Counted /\ Slotted /\ Registered /\ Final

-----------------------------------------------------------------------------
LEMMA GroupsFinite ==
    /\ IsFiniteSet(Alive) /\ Cardinality(Alive) \in Nat
    /\ IsFiniteSet(Holding) /\ Cardinality(Holding) \in Nat
<1>1. IsFiniteSet(Calls)
  BY ConnAssumption, FS_Interval DEF Calls
<1>2. Alive \in SUBSET Calls /\ Holding \in SUBSET Calls
  BY DEF Alive, Holding
<1>3. IsFiniteSet(Alive) /\ IsFiniteSet(Holding)
  BY <1>1, <1>2, FS_Subset
<1> QED
  BY <1>3, FS_CardinalityType

LEMMA Counts == ASSUME NEW c \in Alive PROVE Cardinality(Alive) \in Nat \ {0}
<1>1. Alive # {}
  OBVIOUS
<1>2. Cardinality(Alive) # 0
  BY <1>1, GroupsFinite, FS_EmptySet
<1> QED
  BY <1>2, GroupsFinite

LEMMA InvInit == Init => Inv
<1> SUFFICES ASSUME Init PROVE Inv
  OBVIOUS
<1>1. Types
  BY ConnAssumption DEF Init, ConnInit, Types, EventType, ConsumeLabels, Labels, Ready, Event, None
<1>2. Fresh
  BY DEF Init, ConnInit, Fresh, FreshIn, Coming, Announces, Ready, Event
<1>3. Alive = {} /\ Holding = {} /\ toolCancels = {} /\ consume # "done" /\ wg = 1 /\ toolSlots = 0 /\ ~over
  BY DEF Init, Alive, Holding, Working
<1> QED
  BY <1>1, <1>2, <1>3, FS_EmptySet, SessionAssumption DEF Inv, Counted, Slotted, Registered, Final

\* A step that touches no tool, no counter and no channel of the connection.
LEMMA Elsewhere ==
    ASSUME Inv, UNCHANGED <<tool, toolCancels, toolSlots, wg, over, asked, seq, queue, pending>>,
           consume' \in ConsumeLabels, consume' = "done" <=> consume = "done"
    PROVE  Inv'
<1>1. Alive' = Alive /\ Holding' = Holding
  BY DEF Alive, Holding, Working
<1>2. Types' /\ Fresh'
  BY DEF Inv, Types, Fresh, FreshIn, Coming
<1> QED
  BY <1>1, <1>2 DEF Inv, Counted, Slotted, Registered, Final

\* What the reader does with an event and the queue.
LEMMA ReaderKeeps ==
    ASSUME Inv, UNCHANGED <<tool, toolCancels, toolSlots, wg, over, consume>>,
           Types', Fresh'
    PROVE  Inv'
<1>1. Alive' = Alive /\ Holding' = Holding
  BY DEF Alive, Holding, Working
<1> QED
  BY <1>1 DEF Inv, Counted, Slotted, Registered, Final

\* One message arrives.
LEMMA ReadKeeps ==
    ASSUME Inv, NEW k \in {"data", "call", "cancel"}, NEW c \in 0..MaxCalls, Read(k, c),
           UNCHANGED session, asked' \in asked..MaxCalls,
           k = "call" => asked' = asked + 1 /\ c = asked'
    PROVE  Inv'
<1> USE ConnAssumption
<1>1. /\ pending' = <<Event(seq + 1, k, c)>> /\ Event(seq + 1, k, c) \in EventType
      /\ pending'[1].kind = k /\ pending'[1].call = c /\ Len(pending') = 1
      /\ UNCHANGED <<queue, consume, tool, toolCancels, toolSlots, wg, over>>
      /\ seq' = seq + 1 /\ pending = <<>>
  BY DEF Read, session, toolVars, Event, EventType, Inv, Types
<1>2. Types'
  BY <1>1 DEF Inv, Types
<1>3. Fresh'
  <2>1. asked \in 0..MaxCalls /\ asked' \in 0..MaxCalls /\ asked <= asked'
    BY DEF Inv, Types
  <2>2. \A d \in Calls : d > asked' => tool'[d] = "none"
    BY <1>1, <2>1 DEF Inv, Fresh, FreshIn, Coming, Calls
  <2>3. \A i \in 1..Len(queue) :
           Announces(queue[i]) => queue[i].call \in 1..asked /\ tool[queue[i].call] = "none"
    BY DEF Inv, Fresh, FreshIn, Coming
  <2>4. \A i \in 1..Len(queue) :
           Announces(queue[i]) => queue[i].call \in 1..asked' /\ tool'[queue[i].call] = "none"
    BY <1>1, <2>1, <2>3
  <2>5. \A i \in 1..Len(pending') : pending'[i].kind = k /\ pending'[i].call = c
    BY <1>1
  <2>6. k = "call" => c \in 1..asked' /\ tool'[c] = "none" /\ c \notin 1..asked
    BY <1>1, <2>1 DEF Inv, Fresh, FreshIn, Coming, Calls
  <2> QED
    BY <1>1, <2>2, <2>3, <2>4, <2>5, <2>6 DEF Inv, Fresh, FreshIn, Coming, Announces
<1> QED
  BY <1>1, <1>2, <1>3, ReaderKeeps

LEMMA DeliverKeeps == Inv /\ Deliver /\ UNCHANGED session => Inv'
<1> SUFFICES ASSUME Inv, Deliver, UNCHANGED session PROVE Inv'
  OBVIOUS
<1>1. /\ UNCHANGED <<asked, seq, consume, tool, toolCancels, toolSlots, wg, over>>
      /\ queue' = queue \o pending /\ pending' = <<>> /\ pending # <<>>
  BY DEF Deliver, session, toolVars, server
<1>0. PICK e \in EventType : pending = <<e>>
  BY <1>1 DEF Inv, Types
<1>2. /\ queue \in Seq(EventType) /\ queue' = Append(queue, e)
      /\ pending[1] = e /\ Len(pending) = 1
      /\ queue' \in Seq(EventType)
      /\ Len(queue') = Len(queue) + 1 /\ Len(queue) \in Nat
      /\ \A i \in 1..Len(queue) : queue'[i] = queue[i]
      /\ queue'[Len(queue) + 1] = pending[1]
  BY <1>0, <1>1 DEF Inv, Types
<1>3. Types'
  BY <1>1, <1>2 DEF Inv, Types
<1>4. Fresh'
  <2>1. \A i \in 1..Len(queue) : Announces(queue[i]) =>
           queue[i].call \in 1..asked /\ tool[queue[i].call] = "none"
    BY DEF Inv, Fresh, FreshIn, Coming
  <2>2. Announces(pending[1]) => pending[1].call \in 1..asked /\ tool[pending[1].call] = "none"
    BY <1>1 DEF Inv, Fresh, FreshIn, Coming
  <2>3. \A i \in 1..Len(queue) :
           Announces(queue[i]) /\ Announces(pending[1]) => queue[i].call # pending[1].call
    BY <1>1 DEF Inv, Fresh, FreshIn, Coming
  <2>4. \A i \in 1..Len(queue') : i \in 1..Len(queue) \/ i = Len(queue) + 1
    BY <1>2
  <2>5. \A i \in 1..Len(queue') : Announces(queue'[i]) =>
           queue'[i].call \in 1..asked /\ tool[queue'[i].call] = "none"
    BY <1>2, <2>1, <2>2, <2>4
  <2>6. \A i, j \in 1..Len(queue') :
           i # j /\ Announces(queue'[i]) /\ Announces(queue'[j]) => queue'[i].call # queue'[j].call
    BY <1>2, <2>3, <2>4 DEF Inv, Fresh, FreshIn, Coming
  <2>7. Len(pending') = 0 /\ \A d \in Calls : d > asked => tool[d] = "none"
    BY <1>1 DEF Inv, Fresh
  <2>8. \A f \in Coming(queue', pending') : \E i \in 1..Len(queue') : f = queue'[i]
    BY <2>7 DEF Coming
  <2>9. \A f \in Coming(queue', pending') : Announces(f) => f.call \in 1..asked /\ tool[f.call] = "none"
    BY <2>5, <2>8
  <2>10. \A i \in 1..Len(queue'), j \in 1..Len(pending') : FALSE
    BY <2>7
  <2>11. FreshIn(queue, pending)'
    BY <1>1, <2>6, <2>9, <2>10 DEF FreshIn, Coming
  <2> QED
    BY <1>1, <2>7, <2>11 DEF Fresh
<1> QED
  BY <1>1, <1>3, <1>4, ReaderKeeps

\* The event at hand is given up.
LEMMA DroppedKeeps == Inv /\ (Discard \/ Abandon) /\ UNCHANGED session => Inv'
<1> SUFFICES ASSUME Inv, Discard \/ Abandon, UNCHANGED session PROVE Inv'
  OBVIOUS
<1>1. /\ UNCHANGED <<asked, seq, queue, consume, tool, toolCancels, toolSlots, wg, over>>
      /\ pending' = <<>>
  BY DEF Discard, Abandon, session, toolVars, server
<1>2. Types' /\ Fresh'
  BY <1>1 DEF Inv, Types, Fresh, FreshIn, Coming
<1> QED
  BY <1>1, <1>2, ReaderKeeps

-----------------------------------------------------------------------------
\* A call that has a goroutine moves on: no event on its way announces it.
LEMMA MovesOn ==
    ASSUME Inv, NEW c \in Calls, NEW l \in Labels, Goto(c, l), tool[c] # "none",
           UNCHANGED <<asked, seq, queue, pending, consume>>, toolCancels' \subseteq Calls
    PROVE  /\ Types' /\ Fresh'
           /\ tool' = [tool EXCEPT ![c] = l]
           /\ \A d \in Calls \ {c} : tool'[d] = tool[d]
           /\ tool'[c] = l
<1>1. tool' = [tool EXCEPT ![c] = l] /\ tool \in [Calls -> Labels]
  BY DEF Goto, Inv, Types
<1>2. Types'
  BY <1>1 DEF Inv, Types
<1>3. /\ \A d \in Calls \ {c} : tool'[d] = tool[d]
      /\ tool'[c] = l
  BY <1>1
<1>4. Fresh'
  <2>1. \A d \in Calls : d > asked => d # c /\ tool'[d] = "none"
    BY <1>3 DEF Inv, Fresh, FreshIn, Coming
  <2>2. 1..asked \subseteq Calls
    BY ConnAssumption DEF Inv, Types, Calls
  <2>3. \A e \in Coming(queue, pending) :
           Announces(e) => e.call \in 1..asked /\ e.call # c /\ tool'[e.call] = "none"
    BY <1>3, <2>2 DEF Inv, Fresh, FreshIn, Coming
  <2> QED
    BY <2>1, <2>3 DEF Inv, Fresh, FreshIn, Coming
<1> QED
  BY <1>1, <1>2, <1>3, <1>4

Works(l) == l \notin {"none", "slot", "done"}

\* What the move of a call does to the two groups.
LEMMA Groups ==
    ASSUME NEW c \in Calls, NEW l \in Labels, tool'[c] = l,
           \A d \in Calls \ {c} : tool'[d] = tool[d]
    PROVE  /\ Alive' = IF l \in {"none", "done"} THEN Alive \ {c} ELSE Alive \cup {c}
           /\ Holding' = IF Works(l) THEN Holding \cup {c} ELSE Holding \ {c}
           /\ Cardinality(Alive') = Cardinality(Alive)
                + (IF c \in Alive' THEN 1 ELSE 0) - (IF c \in Alive THEN 1 ELSE 0)
           /\ Cardinality(Holding') = Cardinality(Holding)
                + (IF c \in Holding' THEN 1 ELSE 0) - (IF c \in Holding THEN 1 ELSE 0)
<1>1. Alive' = IF l \in {"none", "done"} THEN Alive \ {c} ELSE Alive \cup {c}
  BY DEF Alive
<1>2. Holding' = IF Works(l) THEN Holding \cup {c} ELSE Holding \ {c}
  BY DEF Holding, Working, Works
<1>3. ASSUME NEW S, IsFiniteSet(S)
      PROVE  /\ Cardinality(S \cup {c}) = IF c \in S THEN Cardinality(S) ELSE Cardinality(S) + 1
             /\ Cardinality(S \ {c}) = IF c \in S THEN Cardinality(S) - 1 ELSE Cardinality(S)
  BY <1>3, FS_AddElement, FS_RemoveElement, Zenon
<1>4. Cardinality(Alive') = Cardinality(Alive)
         + (IF c \in Alive' THEN 1 ELSE 0) - (IF c \in Alive THEN 1 ELSE 0)
  <2>1. /\ Cardinality(Alive \cup {c}) =
              IF c \in Alive THEN Cardinality(Alive) ELSE Cardinality(Alive) + 1
        /\ Cardinality(Alive \ {c}) =
              IF c \in Alive THEN Cardinality(Alive) - 1 ELSE Cardinality(Alive)
    BY <1>3, GroupsFinite, Zenon
  <2>2. (c \in Alive') <=> l \notin {"none", "done"}
    BY <1>1
  <2> QED
    BY <1>1, <2>1, <2>2, GroupsFinite
<1>5. Cardinality(Holding') = Cardinality(Holding)
         + (IF c \in Holding' THEN 1 ELSE 0) - (IF c \in Holding THEN 1 ELSE 0)
  <2>1. /\ Cardinality(Holding \cup {c}) =
              IF c \in Holding THEN Cardinality(Holding) ELSE Cardinality(Holding) + 1
        /\ Cardinality(Holding \ {c}) =
              IF c \in Holding THEN Cardinality(Holding) - 1 ELSE Cardinality(Holding)
    BY <1>3, GroupsFinite, Zenon
  <2>2. (c \in Holding') <=> Works(l)
    BY <1>2
  <2> QED
    BY <1>2, <2>1, <2>2, GroupsFinite
<1> QED
  BY <1>1, <1>2, <1>4, <1>5

\* A goroutine that holds a slot does its next thing.
LEMMA WorkGoesOn ==
    ASSUME Inv, NEW c \in Calls, NEW l \in Labels, Goto(c, l), Working(c), Works(l),
           UNCHANGED <<asked, seq, queue, pending, consume, wg, over, toolSlots>>,
           toolCancels' \subseteq toolCancels \cup {c}
    PROVE  Inv'
<1>1. /\ Types' /\ Fresh'
      /\ \A d \in Calls \ {c} : tool'[d] = tool[d]
      /\ tool'[c] = l
  <2>1. tool[c] # "none" /\ toolCancels' \subseteq Calls
    BY DEF Working, Inv, Types
  <2> QED
    BY <2>1, MovesOn
<1>2. c \in Alive /\ c \in Holding
  BY DEF Alive, Holding, Working
<1>3. Alive' = Alive \cup {c} /\ Holding' = Holding \cup {c}
  BY <1>1, Groups DEF Works
<1>4. Alive' = Alive /\ Holding' = Holding
  BY <1>2, <1>3
<1> QED
  BY <1>1, <1>2, <1>4 DEF Inv, Counted, Slotted, Registered, Final

LEMMA AcquireKeeps == ASSUME Inv, NEW c \in Calls, Acquire(c) PROVE Inv'
<1>1. /\ Goto(c, "register") /\ tool[c] = "slot" /\ toolSlots < Slots /\ toolSlots' = toolSlots + 1
      /\ UNCHANGED <<asked, seq, queue, pending, consume, wg, over, toolCancels>>
  BY DEF Acquire, conn, server, reading
<1>2. /\ Types' /\ Fresh'
      /\ \A d \in Calls \ {c} : tool'[d] = tool[d]
      /\ tool'[c] = "register"
  BY <1>1, MovesOn DEF Labels, Inv, Types
<1>3. c \in Alive /\ c \notin Holding
  BY <1>1 DEF Alive, Holding, Working
<1>4. /\ Alive' = Alive /\ Holding' = Holding \cup {c}
      /\ Cardinality(Holding') = Cardinality(Holding) + 1
  BY <1>2, <1>3, Groups, GroupsFinite DEF Works, Labels
<1>5. Slotted'
  BY <1>1, <1>4, GroupsFinite, SessionAssumption DEF Inv, Slotted
<1> QED
  BY <1>1, <1>2, <1>4, <1>5 DEF Inv, Counted, Registered, Final

LEMMA NoSlotKeeps == ASSUME Inv, NEW c \in Calls, NoSlot(c) PROVE Inv'
<1>1. /\ Goto(c, "done") /\ tool[c] = "slot" /\ wg' = wg - 1
      /\ UNCHANGED <<asked, seq, queue, pending, consume, over, toolCancels, toolSlots>>
  BY DEF NoSlot, conn, server, reading
<1>2. /\ Types' /\ Fresh'
      /\ \A d \in Calls \ {c} : tool'[d] = tool[d]
      /\ tool'[c] = "done"
  BY <1>1, MovesOn DEF Labels, Inv, Types
<1>3. c \in Alive /\ c \notin Holding
  BY <1>1 DEF Alive, Holding, Working
<1>4. /\ Alive' = Alive \ {c} /\ Holding' = Holding \ {c}
      /\ Cardinality(Alive') = Cardinality(Alive) - 1
  BY <1>2, <1>3, Groups, GroupsFinite DEF Works, Labels
<1>5. Holding' = Holding
  BY <1>3, <1>4
<1>6. Counted' /\ Final'
  BY <1>1, <1>3, <1>4, Counts DEF Inv, Counted, Final
<1> QED
  BY <1>1, <1>2, <1>5, <1>6 DEF Inv, Slotted, Registered

LEMMA ToolLeavesKeeps == ASSUME Inv, NEW c \in Calls, ToolLeaves(c) PROVE Inv'
<1>1. /\ Goto(c, "done") /\ tool[c] \in {"leave", "close"}
      /\ wg' = wg - 1 /\ toolSlots' = toolSlots - 1 /\ toolCancels' = toolCancels \ {c}
      /\ UNCHANGED <<asked, seq, queue, pending, consume, over>>
  BY DEF ToolLeaves, conn, server, reading
<1>2. /\ Types' /\ Fresh'
      /\ \A d \in Calls \ {c} : tool'[d] = tool[d]
      /\ tool'[c] = "done"
  BY <1>1, MovesOn DEF Labels, Inv, Types
<1>3. c \in Alive /\ c \in Holding
  BY <1>1 DEF Alive, Holding, Working
<1>4. /\ Alive' = Alive \ {c} /\ Holding' = Holding \ {c}
      /\ Cardinality(Alive') = Cardinality(Alive) - 1
      /\ Cardinality(Holding') = Cardinality(Holding) - 1
  BY <1>2, <1>3, Groups, GroupsFinite DEF Works, Labels
<1>5. Counted' /\ Final'
  BY <1>1, <1>3, <1>4, Counts DEF Inv, Counted, Final
<1>6. Slotted'
  BY <1>1, <1>4, GroupsFinite, SessionAssumption DEF Inv, Slotted
<1> QED
  BY <1>1, <1>2, <1>4, <1>5, <1>6 DEF Inv, Registered

LEMMA ToolStepKeeps == ASSUME Inv, NEW c \in Calls, ToolStep(c) PROVE Inv'
<1>1. CASE Register(c)
  BY <1>1, WorkGoesOn DEF Register, conn, server, reading, Working, Works, Labels
<1>2. CASE Run(c)
  <2>1. PICK l \in {"leave", "send"} : Goto(c, l)
    BY <1>2 DEF Run
  <2> QED
    BY <1>2, <2>1, WorkGoesOn DEF Run, conn, server, reading, Working, Works, Labels
<1>3. CASE Send(c)
  <2>1. PICK l \in {"leave", "refused", "broken"} : Goto(c, l)
    BY <1>3 DEF Send
  <2> QED
    BY <1>3, <2>1, WorkGoesOn DEF Send, server, reading, Working, Works, Labels
<1>4. CASE SendFailed(c)
  BY <1>4, WorkGoesOn DEF SendFailed, server, reading, Working, Works, Labels
<1> QED
  BY <1>1, <1>2, <1>3, <1>4, AcquireKeeps, NoSlotKeeps, ToolLeavesKeeps DEF ToolStep

-----------------------------------------------------------------------------
\* An event leaves the channel; a call it announces is announced by no other.
LEMMA EventTaken ==
    ASSUME Inv, queue # <<>>
    PROVE  /\ Head(queue) \in EventType
           /\ Tail(queue) \in Seq(EventType)
           /\ FreshIn(Tail(queue), pending)
           /\ Announces(Head(queue)) =>
                 /\ Head(queue).call \in 1..asked /\ tool[Head(queue).call] = "none"
                 /\ \A e \in Coming(Tail(queue), pending) : Announces(e) => e.call # Head(queue).call
<1> DEFINE q == Tail(queue)
<1>1. /\ queue \in Seq(EventType)
      /\ Head(queue) = queue[1] /\ Head(queue) \in EventType /\ q \in Seq(EventType)
      /\ Len(queue) \in Nat /\ 1 \in 1..Len(queue) /\ Len(q) = Len(queue) - 1
      /\ \A i \in 1..Len(q) : i + 1 \in 1..Len(queue) /\ i + 1 # 1 /\ q[i] = queue[i + 1]
  BY DEF Inv, Types
<1> HIDE DEF q
<1>2. \A i, j \in 1..Len(q) : i # j => i + 1 # j + 1
  OBVIOUS
<1>3. FreshIn(q, pending)
  <2>1. \A i \in 1..Len(queue) : Announces(queue[i]) =>
           queue[i].call \in 1..asked /\ tool[queue[i].call] = "none"
    BY DEF Inv, Fresh, FreshIn, Coming
  <2>2. \A i \in 1..Len(q) : Announces(q[i]) => q[i].call \in 1..asked /\ tool[q[i].call] = "none"
    BY <1>1, <2>1
  <2>0. \A i, j \in 1..Len(queue) :
           i # j /\ Announces(queue[i]) /\ Announces(queue[j]) => queue[i].call # queue[j].call
    BY DEF Inv, Fresh, FreshIn
  <2>3. \A i, j \in 1..Len(q) : i # j /\ Announces(q[i]) /\ Announces(q[j]) => q[i].call # q[j].call
    BY <1>1, <1>2, <2>0
  <2>4. \A i \in 1..Len(q), j \in 1..Len(pending) :
           Announces(q[i]) /\ Announces(pending[j]) => q[i].call # pending[j].call
    BY <1>1 DEF Inv, Fresh, FreshIn
  <2> QED
    BY <2>2, <2>3, <2>4 DEF Inv, Fresh, FreshIn, Coming
<1>4. ASSUME Announces(Head(queue))
      PROVE  /\ Head(queue).call \in 1..asked /\ tool[Head(queue).call] = "none"
             /\ \A i \in 1..Len(q) : Announces(q[i]) => q[i].call # Head(queue).call
             /\ \A j \in 1..Len(pending) : Announces(pending[j]) => pending[j].call # Head(queue).call
  <2>1. queue[1].call \in 1..asked /\ tool[queue[1].call] = "none"
    BY <1>1, <1>4 DEF Inv, Fresh, FreshIn, Coming
  <2>2. \A i \in 2..Len(queue) : Announces(queue[i]) => queue[i].call # queue[1].call
    BY <1>1, <1>4 DEF Inv, Fresh, FreshIn
  <2>3. \A j \in 1..Len(pending) : Announces(pending[j]) => pending[j].call # queue[1].call
    BY <1>1, <1>4 DEF Inv, Fresh, FreshIn
  <2> QED
    BY <1>1, <2>1, <2>2, <2>3
<1> QED
  BY <1>1, <1>3, <1>4 DEF q, Coming

LEMMA TakeKeeps == Inv /\ Take => Inv'
<1> SUFFICES ASSUME Inv, Take PROVE Inv'
  OBVIOUS
<1> DEFINE e == Head(queue)
<1>1. /\ consume = "select" /\ consume' = "publish" /\ queue # <<>> /\ queue' = Tail(queue)
      /\ event' = e
      /\ UNCHANGED <<asked, seq, pending, over>>
  BY DEF Take, server, reading
<1>2. /\ e \in EventType /\ queue' \in Seq(EventType) /\ FreshIn(queue', pending)
      /\ Announces(e) => /\ e.call \in 1..asked /\ tool[e.call] = "none"
                         /\ \A f \in Coming(queue', pending) : Announces(f) => f.call # e.call
  BY <1>1, EventTaken
<1>3. CASE e.kind \in {"data", "cancel"}
  <2>1. UNCHANGED <<tool, toolCancels, toolSlots, wg>>
    BY <1>1, <1>3 DEF Take, toolVars, cancelTool
  <2>2. Types' /\ Fresh'
    BY <1>1, <1>2, <2>1 DEF Inv, Types, ConsumeLabels, Fresh, FreshIn, Coming
  <2>3. Alive' = Alive /\ Holding' = Holding
    BY <2>1 DEF Alive, Holding, Working
  <2> QED
    BY <1>1, <2>1, <2>2, <2>3 DEF Inv, Counted, Slotted, Registered, Final
<1>4. CASE e.kind = "call"
  <2> DEFINE c == e.call
  <2>1. tool' = [tool EXCEPT ![c] = "slot"] /\ wg' = wg + 1 /\ UNCHANGED <<toolCancels, toolSlots>>
    BY <1>1, <1>4 DEF Take, startTool, Goto
  <2>2. c \in Calls /\ c \in 1..asked /\ 1..asked \subseteq Calls /\ tool[c] = "none"
    BY <1>2, <1>4, ConnAssumption DEF Announces, Inv, Types, Calls
  <2>3. tool'[c] = "slot" /\ (\A d \in Calls \ {c} : tool'[d] = tool[d]) /\ tool' \in [Calls -> Labels]
    BY <2>1, <2>2 DEF Inv, Types, Labels
  <2>4. Types'
    BY <1>1, <1>2, <2>1, <2>3 DEF Inv, Types, ConsumeLabels
  <2>5. Fresh'
    <3>1. \A d \in Calls : d > asked => tool'[d] = "none"
      BY <2>2, <2>3 DEF Inv, Fresh, Types
    <3>2. \A f \in Coming(queue', pending) :
             Announces(f) => f.call \in 1..asked /\ tool'[f.call] = "none"
      BY <1>2, <1>4, <2>2, <2>3 DEF Announces, FreshIn
    <3> QED
      BY <1>1, <1>2, <3>1, <3>2 DEF Fresh, FreshIn, Coming
  <2>6. c \notin Alive /\ c \notin Holding
    BY <2>2 DEF Alive, Holding, Working
  <2>7. /\ Alive' = Alive \cup {c} /\ Holding' = Holding \ {c}
        /\ Cardinality(Alive') = Cardinality(Alive) + 1
    BY <2>2, <2>3, <2>6, Groups, GroupsFinite DEF Works, Labels
  <2>8. Holding' = Holding
    BY <2>6, <2>7
  <2>9. Counted'
    BY <1>1, <2>1, <2>7, GroupsFinite DEF Inv, Counted
  <2>10. Final'
    BY <1>1, GroupsFinite DEF Inv, Final, Counted
  <2> QED
    BY <2>1, <2>4, <2>5, <2>8, <2>9, <2>10 DEF Inv, Slotted, Registered
<1> QED
  BY <1>2, <1>3, <1>4 DEF EventType

LEMMA LeaveKeeps == Inv /\ (Leave \/ AllLeft) => Inv'
<1> SUFFICES ASSUME Inv, Leave \/ AllLeft PROVE Inv'
  OBVIOUS
<1>1. UNCHANGED <<tool, toolCancels, toolSlots, asked, seq, queue, pending>>
  BY DEF Leave, AllLeft, conn, server, reading, toolVars
<1>2. Alive' = Alive /\ Holding' = Holding /\ Fresh'
  BY <1>1 DEF Inv, Fresh, FreshIn, Coming, Alive, Holding, Working
<1>3. CASE Leave
  <2>1. consume # "done" /\ consume' = "done" /\ wg' = wg - 1 /\ UNCHANGED over
    BY <1>3 DEF Leave
  <2>2. Types'
    BY <1>1, <2>1 DEF Inv, Types, ConsumeLabels
  <2>3. Counted' /\ Final'
    BY <1>2, <2>1, GroupsFinite DEF Inv, Counted, Final
  <2> QED
    BY <1>1, <1>2, <2>2, <2>3 DEF Inv, Slotted, Registered
<1>4. CASE AllLeft
  BY <1>1, <1>2, <1>4 DEF AllLeft, Inv, Types, Counted, Slotted, Registered, Final
<1> QED
  BY <1>3, <1>4

LEMMA ReadsKeep == Inv /\ ConnStep /\ UNCHANGED session => Inv'
<1> SUFFICES ASSUME Inv, ConnStep, UNCHANGED session PROVE Inv'
  OBVIOUS
<1>1. asked \in 0..MaxCalls
  BY DEF Inv, Types
<1>2. CASE ReadData
  <2>1. Read("data", None) /\ asked' = asked /\ None \in 0..MaxCalls
    BY <1>2, ConnAssumption DEF ReadData, server, None
  <2> QED
    BY <1>1, <2>1, ReadKeeps
<1>3. CASE ReadCall
  <2>1. Read("call", asked + 1) /\ asked' = asked + 1 /\ asked + 1 \in 0..MaxCalls
    BY <1>1, <1>3, ConnAssumption DEF ReadCall
  <2> QED
    BY <1>1, <2>1, ReadKeeps, ConnAssumption
<1>4. CASE \E c \in Calls : ReadCancellation(c)
  <2>1. PICK c \in Calls : ReadCancellation(c)
    BY <1>4
  <2>2. Read("cancel", c) /\ asked' = asked /\ c \in 0..MaxCalls
    BY <2>1, ConnAssumption DEF ReadCancellation, Calls
  <2> QED
    BY <1>1, <2>2, ReadKeeps
<1>5. CASE ReadFails \/ HandshakeEnds \/ CancelConn
  BY <1>5, Elsewhere DEF ReadFails, HandshakeEnds, CancelConn, session, toolVars, server, reading,
                         Inv, Types
<1> QED
  BY <1>2, <1>3, <1>4, <1>5, DeliverKeeps, DroppedKeeps DEF ConnStep

\* The steps of consume, of the application, of the clock and of Close that touch
\* neither a goroutine nor the WaitGroup.
LEMMA OthersKeep ==
    ASSUME Inv,
           \/ Stop \/ ConnectionEnded \/ Publish \/ GiveUp \/ QueueFull \/ TimerFires \/ Receive
           \/ \E c \in Calls : ToolTimesOut(c)
           \/ Close \/ CloseTools \/ CloseReturn
           \/ ContextEnds /\ UNCHANGED <<conn, session>>
           \/ UNCHANGED vars
    PROVE  Inv'
<1>1. UNCHANGED <<tool, toolCancels, toolSlots, wg, over, asked, seq, queue, pending>>
  BY DEF Stop, ConnectionEnded, Publish, GiveUp, QueueFull, TimerFires, Receive, ToolTimesOut, Close,
         CloseTools, CloseReturn, vars, session, conn, server, reading, toolVars
<1>2. consume' \in ConsumeLabels /\ (consume' = "done" <=> consume = "done")
  BY DEF Stop, ConnectionEnded, Publish, GiveUp, QueueFull, TimerFires, Receive, ToolTimesOut, Close,
         CloseTools, CloseReturn, vars, session, ConsumeLabels, Inv, Types
<1> QED
  BY <1>1, <1>2, Elsewhere

LEMMA InvNext == Inv /\ [Next]_vars => Inv'
BY TakeKeeps, LeaveKeeps, ReadsKeep, OthersKeep, ToolStepKeeps DEF Next, SessionStep, ConsumeStep

LEMMA InvHolds == Spec => []Inv
BY InvInit, InvNext, PTL DEF Spec

-----------------------------------------------------------------------------
\* When Events() and done are closed, consume is gone, no tool runs, and no slot and
\* no cancel function is held, however many calls were made, cancelled or left in
\* the queue: the WaitGroup counts exactly the goroutines that live.
THEOREM ClosedAlwaysOver == Spec => []ClosedMeansOver
<1>1. Inv => ClosedMeansOver
  <2> SUFFICES ASSUME Inv, over PROVE /\ consume = "done"
                                      /\ \A c \in Calls : tool[c] \in {"none", "done"}
                                      /\ toolSlots = 0 /\ toolCancels = {}
    BY DEF ClosedMeansOver
  <2>1. Cardinality(Alive) = 0 /\ consume = "done"
    BY GroupsFinite DEF Inv, Final, Counted
  <2>2. Alive = {}
    BY <2>1, GroupsFinite, FS_EmptySet
  <2>3. Holding = {}
    BY <2>2 DEF Alive, Holding, Working
  <2> QED
    BY <2>1, <2>2, <2>3, FS_EmptySet DEF Inv, Slotted, Registered, Alive
<1> QED
  BY <1>1, InvHolds, PTL

\* WithRealtimeMaxParallelTools is kept to: a slot is held from before a tool runs
\* until after it has reported, and given back once.
THEOREM SlotsAlwaysBounded == Spec => []SlotsBounded
<1>1. Inv => SlotsBounded
  BY DEF Inv, Slotted, SlotsBounded, Holding
<1> QED
  BY <1>1, InvHolds, PTL

\* A call gets one goroutine: while an event that announces it is on its way, none was
\* started for it, and no other event on its way announces it.
THEOREM StartedOnce == Spec => []Fresh
BY InvHolds, PTL DEF Inv

\* wg.Wait, then close(s.events), close(s.done) (realtime.go): what is over stays so.
\* Nobody publishes to the closed channel, which would panic, adds to a WaitGroup that
\* was waited for, or starts, ends or cancels a tool, whatever the server, Close and
\* the timers still do.
EndIsFinal ==
    [][over => UNCHANGED <<over, wg, consume, published, told, tool, toolSlots, toolCancels>>]_vars

\* Every goroutine is out when consume closes the channels (ClosedMeansOver), and only
\* consume starts another.
THEOREM EndAlwaysFinal == Spec => EndIsFinal
<1>1. Inv /\ ClosedMeansOver /\ [Next]_vars
         => [over => UNCHANGED <<over, wg, consume, published, told, tool, toolSlots, toolCancels>>]_vars
  <2> DEFINE Quiet == UNCHANGED <<over, wg, consume, published, told, tool, toolSlots, toolCancels>>
  <2> SUFFICES ASSUME Inv, ClosedMeansOver, [Next]_vars, over PROVE Quiet
    OBVIOUS
  <2>1. /\ consume = "done" /\ wg = 0
        /\ \A c \in Calls : tool[c] \in {"none", "done"}
    BY DEF ClosedMeansOver, Inv, Final
  <2>2. CASE ConsumeStep
    BY <2>1, <2>2 DEF ConsumeStep, Stop, Take, ConnectionEnded, Publish, GiveUp, QueueFull, TimerFires, Leave,
       AllLeft
  <2>3. CASE Receive \/ Close \/ CloseTools \/ CloseReturn
    BY <2>3 DEF Receive, Close, CloseTools, CloseReturn, events, toolVars
  <2>4. ASSUME NEW c \in Calls, ToolStep(c) \/ ToolTimesOut(c) PROVE Quiet
    BY <2>1, <2>4 DEF ToolStep, Acquire, NoSlot, Register, Run, Send, SendFailed, ToolLeaves, ToolTimesOut
  <2>5. CASE UNCHANGED session
    BY <2>5 DEF session, events, toolVars
  <2>6. CASE UNCHANGED vars
    BY <2>6 DEF vars, session, events, toolVars
  <2> QED
    BY <2>2, <2>3, <2>4, <2>5, <2>6 DEF Next, SessionStep
<1> QED
  BY <1>1, ClosedAlwaysOver, InvHolds, PTL DEF Spec, EndIsFinal

-----------------------------------------------------------------------------
(* Why a session ended.                                                     *)

\* The session cancels itself only over an error, and consume leaves an error behind
\* unless the connection had none to give.
Reasons ==
    /\ cancelled => err # "nil" \/ closer # "idle"
    /\ consume = "close" => err # "nil"
    /\ (~Done /\ err = "nil" /\ consume \in {"leave", "done"}) => reader = "gone" /\ connErr = "nil"

LEMMA ReasonsInit == Init => Reasons
BY DEF Init, Reasons

\* The connection keeps its error once the reader is gone.
LEMMA ConnReasons ==
    ASSUME Reasons, \/ ConnStep /\ UNCHANGED session
                    \/ ContextEnds /\ UNCHANGED <<conn, session>>
                    \/ UNCHANGED vars
    PROVE  Reasons'
<1>1. UNCHANGED <<cancelled, err, closer, consume>> /\ (ctxDone => ctxDone')
  BY DEF session, ConnStep, Deliver, Discard, Abandon, ReadFails, HandshakeEnds, CancelConn, ReadData, ReadCall,
         ReadCancellation, Read, ContextEnds, vars
<1>2. reader = "gone" => UNCHANGED <<reader, connErr>>
  BY DEF ConnStep, Deliver, Discard, Abandon, ReadFails, HandshakeEnds, CancelConn, ReadData, ReadCall,
         ReadCancellation, Read, ContextEnds, vars, conn, reading
<1> QED
  BY <1>1, <1>2 DEF Reasons, Done

LEMMA ConsumeReasons == ASSUME Reasons, ConsumeStep PROVE Reasons'
<1> USE DEF Reasons, Done, setErr, conn, reading
<1>1. CASE Stop \/ GiveUp
  BY <1>1 DEF Stop, GiveUp
<1>2. CASE ConnectionEnded
  BY <1>2 DEF ConnectionEnded
<1>3. CASE Take \/ Publish \/ QueueFull
  BY <1>3 DEF Take, Publish, QueueFull
<1>4. CASE TimerFires
  BY <1>4 DEF TimerFires
<1>5. CASE Leave \/ AllLeft
  BY <1>5 DEF Leave, AllLeft
<1> QED
  BY <1>1, <1>2, <1>3, <1>4, <1>5 DEF ConsumeStep

LEMMA ToolReasons == ASSUME Reasons, NEW c \in Calls, ToolStep(c) \/ ToolTimesOut(c) PROVE Reasons'
<1> USE DEF Reasons, Done, setErr, conn, reading
<1>1. CASE Acquire(c) \/ NoSlot(c) \/ Register(c) \/ Run(c) \/ ToolLeaves(c) \/ ToolTimesOut(c)
  BY <1>1 DEF Acquire, NoSlot, Register, Run, ToolLeaves, ToolTimesOut
<1>2. CASE Send(c)
  BY <1>2 DEF Send
<1>3. CASE SendFailed(c)
  BY <1>3 DEF SendFailed
<1> QED
  BY <1>1, <1>2, <1>3 DEF ToolStep

LEMMA CallerReasons == ASSUME Reasons, Receive \/ Close \/ CloseTools \/ CloseReturn PROVE Reasons'
<1> USE DEF Reasons, Done, setErr, conn, reading
<1>1. CASE Receive \/ Close \/ CloseReturn
  BY <1>1 DEF Receive, Close, CloseReturn
<1>2. CASE CloseTools
  BY <1>2 DEF CloseTools
<1> QED
  BY <1>1, <1>2

LEMMA ReasonsNext == Reasons /\ [Next]_vars => Reasons'
BY ConnReasons, ConsumeReasons, ToolReasons, CallerReasons DEF Next, SessionStep

\* RealtimeSession.Err (realtime.go): a session that ends by itself, neither closed nor
\* with its context ended, says why: the failure of the connection, the queue nobody
\* read or the result that could not be sent, whatever happened at the same time.
THEOREM FailureAlwaysSurfaces == Spec => []FailureSurfaces
<1>1. Spec => []Reasons
  BY ReasonsInit, ReasonsNext, PTL DEF Spec
<1>2. Inv /\ Reasons => FailureSurfaces
  <2> SUFFICES ASSUME Inv, Reasons, over, ~ctxDone, closer = "idle", err = "nil"
      PROVE  connErr = "nil" /\ ~cancelled
    BY DEF FailureSurfaces
  <2>1. ~Done
    BY DEF Reasons, Done
  <2>2. consume = "done"
    BY GroupsFinite DEF Inv, Final, Counted
  <2> QED
    BY <2>1, <2>2 DEF Reasons, Done
<1> QED
  BY <1>1, <1>2, InvHolds, PTL
=============================================================================
