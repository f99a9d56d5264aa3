-------------------------- MODULE AgentStateProofs --------------------------
(***************************************************************************)
(* Proofs about the AgentState and about the goroutine of StreamText that  *)
(* makes its last store.                                                   *)
(*                                                                         *)
(* First AgentState, for every MaxSteps and every set of consumers, finite *)
(* or not: the counter is monotone whenever SetTerminal is called, and of  *)
(* the calls that follow goai's last store at most one is told that it     *)
(* won, and its word stands.                                               *)
(*                                                                         *)
(* Then StreamText without a tool loop, for streams of any length and a    *)
(* caller's channel of any size: when the AgentState rests, every callback *)
(* has returned, and no panic of a callback is lost.                       *)
(***************************************************************************)
EXTENDS AgentState, SingleStream, TLAPS

\* The word's step is the one goai stored last: SetTerminal carries it over.
StepCarried == packed.step = wstep

\* A consumer swaps only a word it has seen to be live.
SeenLive == \A c \in Consumers : place[c] = "cas" => ~IsTerminal(seen[c].kind)

\* No patient consumer is inside SetTerminal before the loop is over.
Waits == \A c \in Patient : place[c] # "idle" => LoopOver

WordInv == /\ TypeOK /\ StepCarried /\ SeenLive /\ Waits /\ OneWinner

-----------------------------------------------------------------------------
\* Everything a proof needs to know of the kinds.
LEMMA KindsDiffer ==
    /\ \A k \in Loop!LoopKinds : ~IsTerminal(k)
    /\ \A k \in TerminalKinds : IsTerminal(k) /\ k # "idle"
BY DEF Loop!LoopKinds, IsTerminal, TerminalKinds

LEMMA WordInvInit == WordInit => WordInv
BY KindsDiffer, MaxStepsAssumption, PatientAssumption
   DEF WordInit, WordInv, TypeOK, StepCarried, SeenLive, Waits, OneWinner,
       Words, Loop!Init, Loop!LoopKinds, IsTerminal, TerminalKinds

\* A store of goai's: the counter keeps or gains, and none follows "idle".
LEMMA LoopStep ==
    ASSUME wkind \in Loop!LoopKinds, wstep \in 0..MaxSteps, Loop!Next
    PROVE  /\ wkind' \in Loop!LoopKinds
           /\ wstep' \in 0..MaxSteps
           /\ wstep' >= wstep
           /\ ~LoopOver
BY MaxStepsAssumption
   DEF Loop!Next, Loop!Announce, Loop!FinishStep, Loop!RunTools, Loop!Rest, Loop!LoopKinds,
       LoopOver

LEMMA WordInvStep == WordInv /\ [WordNext]_wordVars => WordInv'
<1> SUFFICES ASSUME WordInv, [WordNext]_wordVars PROVE WordInv'
  OBVIOUS
<1> USE DEF WordInv, TypeOK, StepCarried, SeenLive, Waits, OneWinner
<1>1. CASE set
  <2>1. wkind' \in Loop!LoopKinds /\ wstep' \in 0..MaxSteps /\ ~LoopOver
    BY <1>1, LoopStep DEF set
  <2>2. \A c \in Patient : place[c] = "idle"
    BY <2>1
  <2>3. packed' = [kind |-> wkind', step |-> wstep'] /\ UNCHANGED <<place, wants, seen>>
    BY <1>1 DEF set
  <2>4. ~IsTerminal(packed'.kind)
    BY <2>1, <2>3, KindsDiffer
  <2>5. packed' \in Words
    BY <2>1, <2>3 DEF Words
  <2> QED
    BY <2>1, <2>2, <2>3, <2>4, <2>5, PatientAssumption
<1>2. ASSUME NEW c \in Consumers, Calls(c) PROVE WordInv'
  BY <1>2, PatientAssumption DEF Calls, LoopOver
<1>3. ASSUME NEW c \in Consumers, Load(c) PROVE WordInv'
  BY <1>3, PatientAssumption DEF Load, LoopOver
<1>4. ASSUME NEW c \in Consumers, CAS(c) PROVE WordInv'
  <2>1. place[c] = "cas" /\ UNCHANGED <<wkind, wstep, wants, seen>>
    BY <1>4 DEF CAS
  <2>2. c \in Patient => LoopOver
    BY <2>1
  <2>3. CASE packed # seen[c]
    BY <1>4, <2>1, <2>2, <2>3, PatientAssumption DEF CAS, LoopOver
  <2>4. CASE packed = seen[c]
    <3>1. packed' = [kind |-> wants[c], step |-> seen[c].step] /\ place' = [place EXCEPT ![c] = "true"]
      BY <1>4, <2>4 DEF CAS
    <3>2. ~IsTerminal(packed.kind)
      BY <2>1, <2>4
    <3>3. \A d \in Patient : place[d] # "true"
      BY <3>2, KindsDiffer, PatientAssumption
    <3>4. packed' \in Words
      BY <3>1 DEF Words
    <3> QED
      BY <2>1, <2>2, <2>4, <3>1, <3>3, <3>4, KindsDiffer, PatientAssumption DEF LoopOver, Words
  <2> QED
    BY <2>3, <2>4
<1>5. CASE UNCHANGED wordVars
  BY <1>5 DEF wordVars, LoopOver
<1> QED
  BY <1>1, <1>2, <1>3, <1>4, <1>5 DEF WordNext, SetTerminal

LEMMA WordInvAlways == WordSpec => []WordInv
BY WordInvInit, WordInvStep, PTL DEF WordSpec

-----------------------------------------------------------------------------
\* Type correctness of agent_state.go: the word always holds a kind and a step of
\* the loop, or a terminal kind over the loop's last step.
THEOREM TypeCorrect == WordSpec => []TypeOK
BY WordInvAlways, PTL DEF WordInv

\* SetTerminal after the loop's last store: of all the calls that race, at most one
\* returns true, and the word stays the one it asked for.
THEOREM OneWinnerAlways == WordSpec => []OneWinner
BY WordInvAlways, PTL DEF WordInv

\* A poller's counter never moves back, whenever SetTerminal is called.
THEOREM CounterMonotone == WordSpec => CounterNeverRegresses
<1>1. WordInv /\ [WordNext]_wordVars => [packed'.step >= packed.step]_wordVars
  <2> SUFFICES ASSUME WordInv, WordNext PROVE packed'.step >= packed.step
    BY DEF wordVars
  <2>1. packed.step = wstep /\ wstep \in 0..MaxSteps /\ wkind \in Loop!LoopKinds
    BY DEF WordInv, TypeOK, StepCarried
  <2>2. CASE set
    <3>1. wstep' >= wstep /\ packed'.step = wstep'
      BY <2>1, <2>2, LoopStep DEF set
    <3> QED
      BY <2>1, <3>1
  <2>3. ASSUME NEW c \in Consumers, SetTerminal(c) PROVE packed'.step = packed.step
    BY <2>3 DEF SetTerminal, Calls, Load, CAS
  <2> QED
    BY <2>1, <2>2, <2>3, MaxStepsAssumption DEF WordNext
<1> QED
  BY <1>1, WordInvAlways, PTL DEF WordSpec, CounterNeverRegresses

\* Once goai has made its last store, a terminal word is never replaced.
THEOREM StickyAlways == WordSpec => Sticky
<1>1. WordInv /\ [WordNext]_wordVars => [(LoopOver /\ IsTerminal(packed.kind)) => packed' = packed]_wordVars
  <2> SUFFICES ASSUME WordInv, WordNext, LoopOver, IsTerminal(packed.kind) PROVE packed' = packed
    BY DEF wordVars
  <2>1. ~set
    BY LoopStep DEF set, WordInv, TypeOK
  <2>2. ASSUME NEW c \in Consumers, SetTerminal(c) PROVE packed' = packed
    BY <2>2 DEF SetTerminal, Calls, Load, CAS, WordInv, SeenLive
  <2> QED
    BY <2>1, <2>2 DEF WordNext
<1> QED
  BY <1>1, WordInvAlways, PTL DEF WordSpec, Sticky

-----------------------------------------------------------------------------
(***************************************************************************)
(* StreamText, one call.                                                   *)
(***************************************************************************)
Reading == {"off", "range", "deliver"}
Hooking == {"OnResponse", "OnStepFinish", "OnFinish"}
Ending == {"close", "idle", "recover", "done"}

Names == Hooking \cup {"OnRequest"}
Errors == {"none", "provider", "caller", "deadline", "panic"}
Causes == Errors \cup {"natural"}
Callbacks == [hook : Names, told : Causes]

Types ==
    /\ pc \in {"enter", "request", "call", "respond", "returned"}
    /\ cpc \in Reading \cup Hooking \cup Ending
    /\ fired \in Seq(Callbacks)
    /\ streamErr \in Errors /\ panicking \in {"none"} \cup Hooking
    /\ ctx \in {"live", "caller", "deadline"}

\* n callbacks have run, in their order.
Ran(n) ==
    /\ Len(fired) = n
    /\ n >= 1 => fired[1].hook = "OnRequest"
    /\ n >= 2 => fired[2].hook = "OnResponse"
    /\ n >= 3 => fired[3].hook = "OnStepFinish"
    /\ n >= 4 => fired[4].hook = "OnFinish"

\* Before StreamText returns there is no consume, and it returns once.
Entry ==
    /\ ret # "pending" <=> pc = "returned"
    /\ ret # "stream" => cpc = "off"
    /\ pc \in {"enter", "request"} => Ran(0)
    /\ pc = "call" => Ran(1)
    /\ pc \in {"request", "call"} => stateRef.kind = "llm-in-flight"

\* The place in consume says how many callbacks have run ...
Turns ==
    ret = "stream" =>
       /\ cpc \in Reading \cup {"OnResponse"} => Ran(1)
       /\ cpc = "OnStepFinish" => Ran(2)
       /\ cpc = "OnFinish" => Ran(3)
       /\ cpc \in Ending => Ran(4)

\* ... and what has been released and published.
Released ==
    ret = "stream" =>
       /\ cpc \notin {"recover", "done"} => stateRef.kind = "llm-in-flight"
       /\ cpc \in {"idle", "recover", "done"} => outClosed /\ timeout # "armed"

\* OnResponse was told the error the stream had then, which stays unless it
\* had none.
Kept ==
    ret = "stream" =>
       /\ cpc \in {"OnStepFinish", "OnFinish", "close", "idle", "recover"} => streamErr = fired[2].told
       /\ cpc = "done" => /\ fired[2].told # "none" => streamErr = fired[2].told
                          /\ panicking # "none" => streamErr # "none"

Inv == Types /\ Entry /\ Turns /\ Released /\ Kept

-----------------------------------------------------------------------------
LEMMA InvInit == Init => Inv
<1> SUFFICES ASSUME Init PROVE Inv
  OBVIOUS
<1>1. Types
  BY DEF Init, Types, Reading, Errors
<1>2. Entry
  BY DEF Init, Entry, Ran
<1>3. ret # "stream"
  BY DEF Init
<1> QED
  BY <1>1, <1>2, <1>3 DEF Inv, Turns, Released, Kept

\* A callback that runs is added to the history.
LEMMA Fired ==
    ASSUME fired \in Seq(Callbacks), NEW h \in Names, NEW told \in Causes, Fire(h, told)
    PROVE  /\ fired' \in Seq(Callbacks) /\ Len(fired') = Len(fired) + 1
           /\ \A i \in 1..Len(fired) : fired'[i] = fired[i]
           /\ fired'[Len(fired) + 1].hook = h /\ fired'[Len(fired) + 1].told = told
<1> DEFINE e == [hook |-> h, told |-> told]
<1>1. e \in Callbacks /\ e.hook = h /\ e.told = told
  BY DEF Callbacks
<1>2. fired' = Append(fired, e)
  BY DEF Fire
<1> HIDE DEF e
<1>3. /\ fired' \in Seq(Callbacks) /\ Len(fired') = Len(fired) + 1
      /\ \A i \in 1..Len(fired) : fired'[i] = fired[i]
      /\ fired'[Len(fired) + 1] = e
  BY <1>1, <1>2
<1> QED
  BY <1>1, <1>3

LEMMA EntryStep == ASSUME Inv, StreamText PROVE Inv'
<1> USE DEF Inv, Types, Reading, Hooking, Ending, Names, Errors, Causes
<1>1. CASE Enter
  BY <1>1 DEF Enter, Publish, source, reader, Entry, Ran, Turns, Released, Kept
<1>2. CASE Request
  <2>1. Ran(0) /\ Fire("OnRequest", "none") /\ cpc = "off" /\ ret = "pending"
    BY <1>2 DEF Request, Entry
  <2>2. fired' \in Seq(Callbacks) /\ Ran(1)'
    BY <2>1, Fired DEF Ran
  <2> QED
    BY <1>2, <2>1, <2>2 DEF Request, source, reader, Entry, Ran, Turns, Released, Kept
<1>3. CASE Call
  BY <1>3 DEF Call, Publish, source, reader, Entry, Ran, Turns, Released, Kept
<1>4. CASE Respond
  <2>1. fired' \in Seq(Callbacks) /\ cpc = "off"
    BY <1>4, Fired DEF Respond, Entry
  <2> QED
    BY <1>4, <2>1 DEF Respond, source, reader, Entry, Turns, Released, Kept
<1> QED
  BY <1>1, <1>2, <1>3, <1>4 DEF StreamText

\* The provider, the caller and the clock leave the invariant's part alone.
LEMMA OutsideStep == ASSUME Inv, Provide \/ Start \/ Read \/ ContextEnds PROVE Inv'
<1> USE DEF Inv, Types, Reading, Hooking, Ending, Entry, Ran, Turns, Released, Kept
<1>1. CASE Provide
  BY <1>1 DEF Provide, entry, reader
<1>2. CASE Start
  BY <1>2 DEF Start, entry, source
<1>3. CASE Read
  BY <1>3 DEF Read, entry, source
<1>4. CASE ContextEnds
  BY <1>4 DEF ContextEnds, entry, source, reader
<1> QED
  BY <1>1, <1>2, <1>3, <1>4

LEMMA ConsumeStep == ASSUME Inv, consume PROVE Inv'
<1> USE DEF Inv, Types, Reading, Hooking, Ending, Names, Errors, Causes
<1>1. ret = "stream"
  BY DEF consume, Receive, Deliver, Hook, Close, Idle, Recover, Entry
<1>2. CASE Receive
  BY <1>1, <1>2 DEF Receive, entry, source, Entry, Ran, Turns, Released, Kept
<1>3. CASE Deliver
  <2>1. streamErr' \in Errors
    BY <1>3 DEF Deliver
  <2> QED
    BY <1>1, <1>3, <2>1 DEF Deliver, entry, source, Entry, Ran, Turns, Released, Kept
<1>4. CASE Hook
  <2>1. panicking' \in {"none"} \cup Hooking
    BY <1>4 DEF Hook
  <2>2. CASE cpc = "OnResponse"
    <3>1. Ran(1) /\ Fire("OnResponse", streamErr) /\ cpc' = "OnStepFinish"
      <4>1. After("OnResponse") = "OnStepFinish" /\ Told("OnResponse") = streamErr
        BY Zenon DEF After, Told
      <4> QED
        BY <1>1, <1>4, <2>2, <4>1 DEF Hook, Turns
    <3>2. fired' \in Seq(Callbacks) /\ Ran(2)' /\ fired'[2].told = streamErr
      BY <3>1, Fired DEF Ran
    <3> QED
      BY <1>1, <1>4, <2>1, <2>2, <3>1, <3>2 DEF Hook, entry, source, Entry, Turns, Released, Kept
  <2>3. CASE cpc = "OnStepFinish"
    <3>1. Ran(2) /\ Fire("OnStepFinish", "none") /\ cpc' = "OnFinish"
      <4>1. After("OnStepFinish") = "OnFinish" /\ Told("OnStepFinish") = "none"
        BY Zenon DEF After, Told
      <4> QED
        BY <1>1, <1>4, <2>3, <4>1 DEF Hook, Turns
    <3>2. fired' \in Seq(Callbacks) /\ Ran(3)' /\ fired'[2] = fired[2]
      BY <2>1, <3>1, Fired DEF Ran
    <3> QED
      BY <1>1, <1>4, <2>1, <2>3, <3>1, <3>2 DEF Hook, entry, source, Entry, Turns, Released, Kept
  <2>4. CASE cpc = "OnFinish"
    <3>1. Ran(3) /\ Fire("OnFinish", "natural") /\ cpc' = "close"
      <4>1. After("OnFinish") = "close" /\ Told("OnFinish") = "natural"
        BY Zenon DEF After, Told
      <4> QED
        BY <1>1, <1>4, <2>4, <4>1 DEF Hook, Turns
    <3>2. fired' \in Seq(Callbacks) /\ Ran(4)' /\ fired'[2] = fired[2]
      BY <2>1, <3>1, Fired DEF Ran
    <3> QED
      BY <1>1, <1>4, <2>1, <2>4, <3>1, <3>2 DEF Hook, entry, source, Entry, Turns, Released, Kept
  <2> QED
    BY <1>4, <2>2, <2>3, <2>4 DEF Hook
<1>5. CASE Close
  BY <1>1, <1>5 DEF Close, entry, source, Entry, Ran, Turns, Released, Kept
<1>6. CASE Idle
  BY <1>1, <1>6 DEF Idle, entry, source, Entry, Ran, Turns, Released, Kept
<1>7. CASE Recover
  <2>1. streamErr' \in Errors
    BY <1>7 DEF Recover
  <2> QED
    BY <1>1, <1>7, <2>1 DEF Recover, entry, source, Entry, Ran, Turns, Released, Kept
<1> QED
  BY <1>2, <1>3, <1>4, <1>5, <1>6, <1>7 DEF consume

LEMMA InvStep == Inv /\ [Next]_vars => Inv'
<1> SUFFICES ASSUME Inv, [Next]_vars PROVE Inv'
  OBVIOUS
<1>1. CASE UNCHANGED vars
  BY <1>1 DEF vars, Inv, Types, Entry, Ran, Turns, Released, Kept
<1>2. CASE Next
  BY <1>2, EntryStep, ConsumeStep, OutsideStep DEF Next
<1> QED
  BY <1>1, <1>2

LEMMA AlwaysInv == Spec => []Inv
<1> QED
  BY InvInit, InvStep, PTL DEF Spec

-----------------------------------------------------------------------------
\* generate.go, FIX 34: whoever polls StepIdle on a stream knows that all four
\* callbacks have run, in their order, that the caller's channel is closed and
\* that the timeout context is released.
THEOREM RestsLast == Spec => []IdleAfterHooks
<1>1. Inv => IdleAfterHooks
  <2> SUFFICES ASSUME Inv, ret = "stream", stateRef.kind = "idle"
               PROVE  Hooks = <<"OnRequest", "OnResponse", "OnStepFinish", "OnFinish">> /\ outClosed /\ timeout # "armed"
    BY DEF IdleAfterHooks
  <2>1. cpc \in {"recover", "done"}
    BY DEF Inv, Released
  <2>2. outClosed /\ timeout # "armed"
    BY <2>1 DEF Inv, Released
  <2>3. Ran(4)
    BY <2>1 DEF Inv, Turns, Ending
  <2>4. Hooks = <<"OnRequest", "OnResponse", "OnStepFinish", "OnFinish">>
    BY <2>3 DEF Hooks, Ran
  <2> QED
    BY <2>2, <2>4
<1> QED
  BY <1>1, AlwaysInv, PTL

\* recoverToStreamErr: by the time doneCh is closed a panic of any callback is
\* the stream's error, unless the stream had failed before; OnResponse was
\* told that failure.
THEOREM PanicIsTold == Spec => []PanicSurfaces
<1>1. Inv => PanicSurfaces
  BY DEF Inv, Entry, Kept, PanicSurfaces, doneCh
<1> QED
  BY <1>1, AlwaysInv, PTL
=============================================================================
