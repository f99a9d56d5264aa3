--------------------------- MODULE ToolExecProofs ---------------------------
(***************************************************************************)
(* Proofs about executeToolsParallel for every number of calls and of      *)
(* OnToolCallStart callbacks: the permission gate, the sequential mode and *)
(* the wait for the goroutines.                                            *)
(***************************************************************************)
EXTENDS ToolExec, FiniteSetTheorems, TLAPS

Events == {"start", "before", "veto", "exec", "after", "report"}
Labels == {"idle", "start", "before", "exec", "after", "report", "done"}

Types ==
    /\ kind \in [Calls -> Kinds]
    /\ sequential \in BOOLEAN
    /\ next \in 1..(N + 1)
    /\ pc \in [Calls -> Labels]
    /\ hookPanicked \in [Calls -> BOOLEAN]
    /\ results \in [Calls -> Outcomes]
    /\ log \in [Calls -> Seq(Events)]
    /\ wg \in Nat

\* Where the loop is says which calls have begun, and whose turn it is.
TurnOf(i) ==
    /\ i < next => pc[i] # "idle"
    /\ i > next => pc[i] = "idle"
    /\ kind[i] = "provider" => pc[i] \in {"idle", "done"}
    /\ (Running(i) /\ (sequential \/ kind[i] = "unknown")) => i = next
    /\ (Running(i) /\ ~sequential /\ kind[i] = "known") => i < next
    /\ i = next => pc[i] # "done"
Turns == \A i \in Calls : TurnOf(i)

\* What a call has been through when it is at each of its places.
Gate ==
    \A i \in Calls :
       /\ pc[i] = "idle" => log[i] = <<>>
       /\ pc[i] \in {"idle", "start"} => ~HasRun(i, "exec") /\ ~HasRun(i, "veto")
       /\ pc[i] = "before" => ~HasRun(i, "exec")
       /\ pc[i] \in {"before", "exec", "after"} => ~hookPanicked[i] /\ ~HasRun(i, "veto")
       /\ HasRun(i, "exec") => ~hookPanicked[i] /\ ~HasRun(i, "veto")

\* A call that is over has its answer.
Answered == \A i \in Calls : pc[i] = "done" => results[i] # "unset"

Active == {i \in Calls : Running(i) /\ kind[i] = "known" /\ ~sequential}
Waits == wg = Cardinality(Active)

-----------------------------------------------------------------------------
\* One more callback in the history: what had run has run, and so has this one.
LEMMA RanHistory ==
    ASSUME log \in [Calls -> Seq(Events)], NEW i \in Calls, NEW e \in Events, Ran(i, e)
    PROVE  /\ log' \in [Calls -> Seq(Events)]
           /\ \A j \in Calls : \A x : HasRun(j, x)' <=> HasRun(j, x) \/ (j = i /\ x = e)
<1>1. log' = [log EXCEPT ![i] = Append(log[i], e)]
  BY DEF Ran
<1>2. log'[i] = Append(log[i], e) /\ log[i] \in Seq(Events)
  BY <1>1
<1>3. /\ Len(log'[i]) = Len(log[i]) + 1
      /\ log'[i][Len(log[i]) + 1] = e
      /\ \A k \in 1..Len(log[i]) : log'[i][k] = log[i][k]
  BY <1>2
<1>4. ASSUME NEW x PROVE HasRun(i, x)' <=> HasRun(i, x) \/ x = e
  <2>1. Len(log[i]) \in Nat
    BY <1>2
  <2>2. (\E k \in 1..(Len(log[i]) + 1) : log'[i][k] = x)
           <=> (\E k \in 1..Len(log[i]) : log[i][k] = x) \/ x = e
    BY <1>3, <2>1
  <2> QED
    BY <1>3, <2>2 DEF HasRun
<1>5. ASSUME NEW j \in Calls, j # i, NEW x PROVE HasRun(j, x)' <=> HasRun(j, x)
  BY <1>1, <1>5 DEF HasRun
<1> QED
  BY <1>1, <1>2, <1>4, <1>5

Busy == {"start", "before", "exec", "after", "report"}

\* A callback moves its call on, or ends it; nothing else of the bookkeeping changes.
LEMMA CallbackMoves ==
    ASSUME Types, NEW i \in Calls, Callbacks(i)
    PROVE  /\ pc[i] \in Busy
           /\ UNCHANGED <<kind, sequential, returned>>
           /\ \/ /\ UNCHANGED <<next, wg>>
                 /\ \E l \in Busy : pc' = [pc EXCEPT ![i] = l]
              \/ Over(i)
<1> USE DEF Busy, Quiet, Goto, call
<1>1. CASE Start(i)
  BY <1>1 DEF Start, Types, Labels
<1>2. CASE Started(i)
  BY <1>2 DEF Started, Over
<1>3. CASE Before(i)
  BY <1>3 DEF Before
<1>4. CASE Exec(i)
  BY <1>4 DEF Exec, Over
<1>5. CASE After(i)
  BY <1>5 DEF After
<1>6. CASE Report(i)
  BY <1>6 DEF Report, Over
<1> QED
  BY <1>1, <1>2, <1>3, <1>4, <1>5, <1>6 DEF Callbacks

LEMMA TypesInit == Init => Types
BY CountsAssumption DEF Init, Types, Calls, Kinds, Labels, Outcomes, Events

LEMMA TurnsNext == Types /\ Turns /\ [Next]_vars => Turns'
<1> SUFFICES ASSUME Types, Turns, [Next]_vars, NEW j \in Calls PROVE TurnOf(j)'
  BY DEF Turns
<1> USE CountsAssumption DEF TurnOf, Running
<1>0. /\ TurnOf(j) /\ j \in Nat /\ next \in Nat /\ pc[j] \in Labels /\ kind[j] \in Kinds
      /\ next + 1 \in Calls => TurnOf(next + 1)
  BY DEF Types, Turns, Calls
<1>1. CASE Launch
  <2>1. next \in Calls /\ pc[next] = "idle" /\ UNCHANGED <<kind, sequential>>
    BY <1>1 DEF Launch, call, Types, Calls
  <2>2. j # next => pc'[j] = pc[j]
    BY <1>1, <2>1 DEF Launch, Goto, Types
  <2>3. \/ kind[next] = "provider" /\ pc'[next] = "done" /\ next' = next + 1
        \/ kind[next] = "unknown" /\ pc'[next] = "start" /\ next' = next
        \/ kind[next] = "known" /\ pc'[next] = "start" /\ sequential /\ next' = next
        \/ kind[next] = "known" /\ pc'[next] = "start" /\ ~sequential /\ next' = next + 1
    BY <1>1, <2>1 DEF Launch, Goto, Types
  <2>4. CASE j = next
    BY <1>0, <2>1, <2>3, <2>4
  <2>5. CASE j # next
    BY <1>0, <2>1, <2>2, <2>3, <2>5
  <2> QED
    BY <2>4, <2>5
<1>2. CASE Return
  BY <1>0, <1>2 DEF Return, call
<1>3. ASSUME NEW i \in Calls, Callbacks(i) PROVE TurnOf(j)'
  <2>0. TurnOf(i) /\ i \in Nat /\ pc[i] \in Busy /\ UNCHANGED <<kind, sequential>>
    BY <1>3, CallbackMoves DEF Turns, Calls
  <2>1. CASE UNCHANGED <<next, wg>> /\ \E l \in Busy : pc' = [pc EXCEPT ![i] = l]
    BY <1>0, <2>0, <2>1 DEF Busy, Types
  <2>2. CASE Over(i)
    <3>2. pc'[i] = "done" /\ (j # i => pc'[j] = pc[j])
      BY <2>2 DEF Over, Goto, Types
    <3>3. CASE kind[i] = "known" /\ ~sequential
      BY <1>0, <2>0, <2>2, <3>2, <3>3 DEF Over, Busy
    <3>4. CASE ~(kind[i] = "known" /\ ~sequential)
      <4>1. next' = next + 1 /\ i = next
        BY <2>0, <2>2, <3>4 DEF Over, Busy, Types, Kinds
      <4> QED
        BY <1>0, <2>0, <3>2, <3>4, <4>1 DEF Busy
    <3> QED
      BY <3>3, <3>4
  <2> QED
    BY <1>3, <2>1, <2>2, CallbackMoves
<1>4. CASE UNCHANGED vars
  BY <1>0, <1>4 DEF vars
<1> QED
  BY <1>1, <1>2, <1>3, <1>4 DEF Next

LEMMA ActiveFinite == IsFiniteSet(Active) /\ Cardinality(Active) \in Nat
<1>1. IsFiniteSet(Calls)
  BY CountsAssumption, FS_Interval DEF Calls
<1>2. Active \in SUBSET Calls
  BY DEF Active
<1>3. IsFiniteSet(Active)
  BY <1>1, <1>2, FS_Subset
<1> QED
  BY <1>3, FS_CardinalityType

LEMMA TypesNext == Types /\ Turns /\ Waits /\ [Next]_vars => Types'
<1> SUFFICES ASSUME Types, Turns, Waits, [Next]_vars PROVE Types'
  OBVIOUS
<1> USE CountsAssumption
<1>1. CASE Launch
  <2>1. next \in Calls /\ next' \in {next, next + 1} /\ wg' \in {wg, wg + 1}
    BY <1>1 DEF Launch, Types, Calls
  <2>2. pc' \in [Calls -> Labels]
    BY <1>1, <2>1 DEF Launch, Goto, Types, Labels
  <2>3. results' \in [Calls -> Outcomes]
    BY <1>1, <2>1 DEF Launch, Answer, Types, Outcomes
  <2> QED
    BY <1>1, <2>1, <2>2, <2>3 DEF Launch, call, Types, Calls
<1>2. CASE Return
  BY <1>2 DEF Return, call, Types
<1>3. ASSUME NEW i \in Calls, Callbacks(i) PROVE Types'
  <2>1. next' \in 1..(N + 1) /\ pc' \in [Calls -> Labels] /\ wg' \in Nat
    <3>1. CASE UNCHANGED <<next, wg>> /\ \E l \in Busy : pc' = [pc EXCEPT ![i] = l]
      BY <3>1 DEF Types, Busy, Labels
    <3>2. CASE Over(i)
      <4>1. pc[i] \in Busy
        BY <1>3, CallbackMoves
      <4>2. CASE kind[i] = "known" /\ ~sequential
        <5>1. i \in Active
          BY <4>1, <4>2 DEF Active, Running, Busy
        <5>2. IsFiniteSet(Active)
          BY ActiveFinite
        <5>3. wg # 0
          BY <5>1, <5>2, FS_EmptySet DEF Waits
        <5> QED
          BY <3>2, <4>2, <5>3 DEF Over, Goto, Types, Labels
      <4>3. CASE ~(kind[i] = "known" /\ ~sequential)
        <5>1. i = next
          BY <4>1, <4>3 DEF Turns, TurnOf, Running, Busy, Types, Kinds
        <5> QED
          BY <3>2, <4>3, <5>1 DEF Over, Goto, Types, Labels, Calls
      <4> QED
        BY <4>2, <4>3
    <3> QED
      BY <1>3, <3>1, <3>2, CallbackMoves
  <2>2. kind' \in [Calls -> Kinds] /\ sequential' \in BOOLEAN
    BY <1>3, CallbackMoves DEF Types
  <2>3. log' \in [Calls -> Seq(Events)]
    <3>1. ASSUME NEW e \in Events, Ran(i, e) PROVE log' \in [Calls -> Seq(Events)]
      BY <3>1, RanHistory DEF Types
    <3>2. UNCHANGED log \/ \E e \in Events : Ran(i, e)
      BY <1>3 DEF Callbacks, Start, Started, Before, Exec, After, Report, Events
    <3> QED
      BY <3>1, <3>2 DEF Types
  <2>4. hookPanicked' \in [Calls -> BOOLEAN]
    BY <1>3 DEF Callbacks, Start, Started, Before, Exec, After, Report, call, Types
  <2>5. results' \in [Calls -> Outcomes]
    <3>1. UNCHANGED results \/ \E r \in Outcomes : Answer(i, r)
      BY <1>3 DEF Callbacks, Start, Started, Before, Exec, After, Report, Types, Outcomes
    <3> QED
      BY <3>1 DEF Answer, Types
  <2> QED
    BY <2>1, <2>2, <2>3, <2>4, <2>5 DEF Types
<1>4. CASE UNCHANGED vars
  BY <1>4 DEF vars, Types
<1> QED
  BY <1>1, <1>2, <1>3, <1>4 DEF Next

\* The WaitGroup follows the goroutines one by one.
LEMMA WaitsNext == Types /\ Turns /\ Waits /\ [Next]_vars => Waits'
<1> SUFFICES ASSUME Types, Turns, Waits, [Next]_vars PROVE Waits'
  OBVIOUS
<1> USE CountsAssumption
<1>0. IsFiniteSet(Active) /\ Cardinality(Active) \in Nat
  BY ActiveFinite
<1>1. CASE Launch
  <2>1. next \in Calls /\ pc[next] = "idle" /\ UNCHANGED <<kind, sequential>>
    BY <1>1 DEF Launch, call, Types, Calls
  <2>2. CASE kind[next] = "known" /\ ~sequential
    <3>1. Active' = Active \cup {next} /\ next \notin Active
      BY <1>1, <2>1, <2>2 DEF Launch, Goto, Active, Running, Types
    <3> QED
      BY <1>0, <1>1, <2>2, <3>1, FS_AddElement DEF Waits, Launch
  <2>3. CASE ~(kind[next] = "known" /\ ~sequential)
    <3>1. Active' = Active
      BY <1>1, <2>1, <2>3 DEF Launch, Goto, Active, Running, Types
    <3> QED
      BY <1>1, <2>3, <3>1 DEF Waits, Launch
  <2> QED
    BY <2>2, <2>3
<1>2. CASE Return
  BY <1>2 DEF Return, call, Waits, Active, Running
<1>3. ASSUME NEW i \in Calls, Callbacks(i) PROVE Waits'
  <2>0. pc[i] \in Busy /\ UNCHANGED <<kind, sequential>>
    BY <1>3, CallbackMoves
  <2>1. CASE UNCHANGED <<next, wg>> /\ \E l \in Busy : pc' = [pc EXCEPT ![i] = l]
    <3>1. Active' = Active
      BY <2>0, <2>1 DEF Active, Running, Busy, Types
    <3> QED
      BY <2>1, <3>1 DEF Waits
  <2>2. CASE Over(i) /\ kind[i] = "known" /\ ~sequential
    <3>1. Active' = Active \ {i} /\ i \in Active
      BY <2>0, <2>2 DEF Over, Goto, Active, Running, Busy, Types
    <3> QED
      BY <1>0, <2>2, <3>1, FS_RemoveElement DEF Waits, Over
  <2>3. CASE Over(i) /\ ~(kind[i] = "known" /\ ~sequential)
    <3>1. Active' = Active
      BY <2>0, <2>3 DEF Over, Goto, Active, Running, Busy, Types
    <3> QED
      BY <2>3, <3>1 DEF Waits, Over
  <2> QED
    BY <1>3, <2>1, <2>2, <2>3, CallbackMoves
<1>4. CASE UNCHANGED vars
  BY <1>4 DEF vars, Waits, Active, Running
<1> QED
  BY <1>1, <1>2, <1>3, <1>4 DEF Next

\* A callback of call i is all that can change the history and the place of call i.
LEMMA GateNext == Types /\ Gate /\ [Next]_vars => Gate'
<1> SUFFICES ASSUME Types, Gate, [Next]_vars PROVE Gate'
  OBVIOUS
<1>1. CASE Launch
  <2>1. next \in Calls /\ pc[next] = "idle" /\ UNCHANGED <<hookPanicked, log>>
    BY <1>1, CountsAssumption DEF Launch, call, Types, Calls
  <2>2. \E l \in {"start", "done"} : pc' = [pc EXCEPT ![next] = l]
    BY <1>1 DEF Launch, Goto
  <2> QED
    BY <2>1, <2>2 DEF Gate, HasRun, Types
<1>2. CASE Return
  BY <1>2 DEF Return, call, Gate, HasRun
<1>3. ASSUME NEW i \in Calls, Callbacks(i) PROVE Gate'
  <2> DEFINE Calm(j) == /\ pc[j] = "idle" => log[j] = <<>>
                        /\ pc[j] \in {"idle", "start"} => ~HasRun(j, "exec") /\ ~HasRun(j, "veto")
                        /\ pc[j] = "before" => ~HasRun(j, "exec")
                        /\ pc[j] \in {"before", "exec", "after"}
                              => ~hookPanicked[j] /\ ~HasRun(j, "veto")
                        /\ HasRun(j, "exec") => ~hookPanicked[j] /\ ~HasRun(j, "veto")
  <2>0. Calm(i) /\ pc[i] \in Labels
    BY DEF Gate, Types
  <2>1. ASSUME NEW j \in Calls, j # i PROVE Calm(j)'
    <3>1. pc'[j] = pc[j]
      BY <1>3, <2>1, CallbackMoves DEF Over, Goto, Types
    <3>2. hookPanicked'[j] = hookPanicked[j]
      BY <1>3, <2>1 DEF Callbacks, Start, Started, Before, Exec, After, Report, call, Types
    <3>3. log'[j] = log[j]
      BY <1>3, <2>1 DEF Callbacks, Start, Started, Before, Exec, After, Report, Ran, Types
    <3>4. Calm(j)
      BY DEF Gate
    <3> QED
      BY <3>1, <3>2, <3>3, <3>4 DEF HasRun
  <2>2. Calm(i)'
    <3>1. CASE Start(i)
      <4>1. Ran(i, "start") /\ UNCHANGED pc /\ pc[i] = "start"
        BY <3>1 DEF Start
      <4>2. (HasRun(i, "exec")' <=> HasRun(i, "exec")) /\ (HasRun(i, "veto")' <=> HasRun(i, "veto"))
        BY <4>1, RanHistory DEF Types, Events
      <4> QED
        BY <2>0, <4>1, <4>2
    <3>2. CASE Started(i)
      <4>1. pc'[i] \in {"report", "done", "before"} /\ (pc'[i] = "before" => ~hookPanicked[i])
        BY <3>2 DEF Started, Over, Goto, Types
      <4>2. UNCHANGED <<log, hookPanicked>> /\ pc[i] = "start"
        BY <3>2 DEF Started, call
      <4> QED
        BY <2>0, <4>1, <4>2 DEF HasRun
    <3>3. CASE Before(i)
      <4>0. pc[i] = "before" /\ UNCHANGED hookPanicked
        BY <3>3 DEF Before, call
      <4>1. CASE Ran(i, "before") /\ pc'[i] = "exec"
        BY <2>0, <4>0, <4>1, RanHistory DEF Types, Events
      <4>2. CASE Ran(i, "veto") /\ pc'[i] = "report"
        BY <2>0, <4>0, <4>2, RanHistory DEF Types, Events
      <4> QED
        BY <3>3, <4>1, <4>2 DEF Before, Goto, Types
    <3>4. CASE Exec(i)
      <4>1. Ran(i, "exec") /\ pc[i] = "exec" /\ pc'[i] \in {"after", "done"} /\ UNCHANGED hookPanicked
        BY <3>4 DEF Exec, Over, Goto, call, Types
      <4> QED
        BY <2>0, <4>1, RanHistory DEF Types, Events
    <3>5. CASE After(i)
      <4>1. Ran(i, "after") /\ pc[i] = "after" /\ pc'[i] = "report" /\ UNCHANGED hookPanicked
        BY <3>5 DEF After, Goto, call, Types
      <4> QED
        BY <2>0, <4>1, RanHistory DEF Types, Events
    <3>6. CASE Report(i)
      <4>1. Ran(i, "report") /\ pc[i] = "report" /\ pc'[i] = "done" /\ UNCHANGED hookPanicked
        BY <3>6 DEF Report, Over, Goto, call, Types
      <4> QED
        BY <2>0, <4>1, RanHistory DEF Types, Events
    <3> QED
      BY <1>3, <3>1, <3>2, <3>3, <3>4, <3>5, <3>6 DEF Callbacks
  <2> QED
    BY <2>1, <2>2 DEF Gate
<1>4. CASE UNCHANGED vars
  BY <1>4 DEF vars, Gate, HasRun
<1> QED
  BY <1>1, <1>2, <1>3, <1>4 DEF Next

\* Once the function has returned every call is over, so nothing changes any more.
Settled ==
    /\ \A i \in Calls : pc[i] = "done" => results[i] # "unset"
    /\ \A i \in Calls : kind[i] = "unknown" /\ pc[i] # "idle" => results[i] # "unset"
    /\ \A i \in Calls : pc[i] \in {"after", "report"} => results[i] # "unset"
    /\ returned # <<>> => /\ \A i \in Calls : pc[i] = "done"
                          /\ returned.results = [i \in Calls |-> <<i, results[i]>>]

LEMMA SettledNext == Types /\ Turns /\ Waits /\ Settled /\ [Next]_vars => Settled'
<1> SUFFICES ASSUME Types, Turns, Waits, Settled, [Next]_vars PROVE Settled'
  OBVIOUS
<1>1. CASE Launch
  <2>1. next \in Calls /\ pc[next] = "idle" /\ UNCHANGED <<kind, returned>>
    BY <1>1, CountsAssumption DEF Launch, call, Types, Calls
  <2>2. returned = <<>>
    BY <2>1 DEF Settled
  <2> QED
    BY <1>1, <2>1, <2>2 DEF Launch, Goto, Answer, Types, Settled
<1>2. CASE Return
  <2>1. next = N + 1 /\ Cardinality(Active) = 0
    BY <1>2, CountsAssumption DEF Return, Types, Waits
  <2>2. Active = {}
    BY <2>1, ActiveFinite, FS_EmptySet
  <2>3. ASSUME NEW i \in Calls PROVE pc[i] = "done"
    <3>1. TurnOf(i) /\ i < next /\ pc[i] \in Labels /\ kind[i] \in Kinds
      BY <2>1, CountsAssumption DEF Turns, Calls, Types
    <3> QED
      BY <2>2, <3>1 DEF Active, Running, TurnOf, Labels, Kinds, Calls
  <2> QED
    BY <1>2, <2>3 DEF Return, call, Settled, buildToolResults
<1>3. ASSUME NEW i \in Calls, Callbacks(i) PROVE Settled'
  <2>1. returned = <<>> /\ UNCHANGED <<returned, kind>> /\ pc[i] \in Busy
    BY <1>3, CallbackMoves DEF Settled, Busy
  <2>2. ASSUME NEW j \in Calls, j # i PROVE pc'[j] = pc[j] /\ results'[j] = results[j]
    <3>1. pc'[j] = pc[j]
      BY <1>3, <2>2, CallbackMoves DEF Over, Goto, Types
    <3>2. results'[j] = results[j]
      BY <1>3, <2>2 DEF Callbacks, Start, Started, Before, Exec, After, Report, Answer, Types
    <3> QED
      BY <3>1, <3>2
  <2>3. /\ pc'[i] = "done" => results'[i] # "unset"
        /\ kind[i] = "unknown" => results'[i] # "unset"
        /\ pc'[i] \in {"after", "report"} => results'[i] # "unset"
    <3> USE <2>1 DEF Settled, Types, Goto, Answer, Over, Busy
    <3>1. CASE Start(i)
      BY <3>1 DEF Start
    <3>2. CASE Started(i)
      BY <3>2 DEF Started
    <3>3. CASE Before(i)
      BY <3>3 DEF Before
    <3>4. CASE Exec(i)
      BY <3>4 DEF Exec
    <3>5. CASE After(i)
      BY <3>5 DEF After
    <3>6. CASE Report(i)
      BY <3>6 DEF Report
    <3> QED
      BY <1>3, <3>1, <3>2, <3>3, <3>4, <3>5, <3>6 DEF Callbacks
  <2> QED
    BY <2>1, <2>2, <2>3 DEF Settled
<1>4. CASE UNCHANGED vars
  BY <1>4 DEF vars, Settled
<1> QED
  BY <1>1, <1>2, <1>3, <1>4 DEF Next

Inv == Types /\ Turns /\ Gate /\ Waits /\ Settled

LEMMA Invariance == Spec => []Inv
<1>1. Init => Inv
  <2> SUFFICES ASSUME Init PROVE Inv
    OBVIOUS
  <2>1. Turns /\ Gate /\ Settled
    BY CountsAssumption DEF Init, Turns, TurnOf, Running, Gate, HasRun, Settled, Calls, Kinds
  <2>2. Waits
    <3>1. Active = {}
      BY DEF Init, Active, Running
    <3> QED
      BY <3>1, FS_EmptySet DEF Init, Waits
  <2> QED
    BY <2>1, <2>2, TypesInit DEF Inv
<1>2. Inv /\ [Next]_vars => Inv'
  BY TypesNext, TurnsNext, GateNext, WaitsNext, SettledNext DEF Inv
<1> QED
  BY <1>1, <1>2, PTL DEF Spec

-----------------------------------------------------------------------------
\* A tool never runs after one of its start callbacks panicked or its interceptor
\* refused, however many calls and callbacks there are.
THEOREM GateAlwaysCloses == Spec => []GateFailsClosed
<1>1. Inv => GateFailsClosed
  BY DEF Inv, Gate, GateFailsClosed
<1> QED
  BY Invariance, <1>1, PTL

\* The function returns only over finished calls, each answered, and nobody writes
\* an answer after it was read.
THEOREM AllAlwaysAnswered == Spec => []AllAnswered
<1>1. Inv => AllAnswered
  BY DEF Inv, Settled, AllAnswered
<1> QED
  BY Invariance, <1>1, PTL

\* The sequential mode runs one call at a time.
THEOREM SequentialAlways == Spec => []OneAtATime
<1>1. Inv => OneAtATime
  <2> SUFFICES ASSUME Inv, sequential, NEW i \in Calls, NEW j \in Calls, i < j, pc[j] # "idle"
               PROVE  pc[i] = "done"
    BY DEF OneAtATime
  <2>1. j <= next /\ i < next
    BY CountsAssumption DEF Inv, Turns, TurnOf, Types, Calls
  <2> QED
    BY <2>1 DEF Inv, Turns, TurnOf, Running, Types, Calls
<1> QED
  BY Invariance, <1>1, PTL

\* The WaitGroup counter is the number of goroutines still running.
THEOREM WaitAlwaysCounts == Spec => []WaitCounts
<1>1. Inv => WaitCounts
  BY DEF Inv, Waits, Active, WaitCounts
<1> QED
  BY Invariance, <1>1, PTL
=============================================================================
