--------------------------- MODULE ToolLoopProofs ---------------------------
(***************************************************************************)
(* Proofs about GenerateText for every MaxSteps and every set of answers a *)
(* model may give: type correctness, the published step counter, the       *)
(* report to OnFinish, the meaning of StepsExhausted, and the replay       *)
(* transcript, however long the conversation and its calls are.            *)
(***************************************************************************)
EXTENDS ToolLoop, WellFoundedInduction, TLAPS

Kinds == {"starting", "llm-in-flight", "step-finished", "tool-executing", "idle"}
Steps == [number : Nat, text : BOOLEAN, calls : Seq(Calls), finish : STRING]

\* The steps on record are those before the current one, or up to it.
Before == {"enter", "loop", "request", "call", "respond"}
After  == {"stepFinish", "tools", "stopWhen"}
Over   == {"finalize", "finish", "unwind", "returned"}

\* The types the induction needs.
Types ==
    /\ pc \in Before \cup After \cup Over
    /\ step \in 1..(MaxSteps + 1)
    /\ steps \in Seq(Steps)
    /\ pc = "respond" => resp \in Responses \cup {Failed}
    /\ highest \in 0..MaxSteps
    /\ stateRef \in [kind : Kinds, step : 0..MaxSteps]
    /\ opts \in [toolMap : BOOLEAN, providerDefined : BOOLEAN]
    /\ hookStopped \in BOOLEAN
    /\ stopCause \in {"none", "before-step", "predicate"}

\* Where the loop is decides how many steps are complete and how many announced.
\* The loop's head is never reached with step = MaxSteps + 1: StopWhen leaves instead.
Counts ==
    /\ pc \in Before => step <= MaxSteps /\ Len(steps) = step - 1
    /\ pc \in After  => step <= MaxSteps /\ Len(steps) = step
    /\ pc \in {"call", "respond"} \cup After => highest = step
    /\ pc \in {"enter", "loop", "request"} => highest = step - 1
    /\ Len(steps) <= highest
    /\ stateRef.step = highest
    /\ pc = "enter" => highest = 0
    /\ pc = "returned" => stateRef.kind = "idle"

\* OnFinish has been told nothing before the end, and the truth after it.
Reports ==
    /\ pc \in Before \cup After \cup {"finalize"} => ret = Quits("pending")
    /\ pc \notin {"unwind", "returned"} => finishes = <<>>
    /\ pc = "finish" => ret.kind \in {"result", "error"} /\ ret.info.total = Len(steps)
    /\ pc \in {"unwind", "returned"} =>
          /\ ret.kind \in {"invalid", "panic", "error", "result"}
          /\ ret.kind \in {"result", "error"} => finishes = <<ret.info>>
          /\ ret.kind \in {"result", "error"} => ret.info.total = Len(steps)
          /\ ret.kind = "invalid" => finishes = <<>>
          /\ Len(finishes) <= 1
    /\ ret.kind = "error" <=> ret.info.cause = "abort"

Inv == Types /\ Counts /\ Reports

-----------------------------------------------------------------------------
LEMMA InitInv == Init => Inv
<1> SUFFICES ASSUME Init PROVE Inv
  OBVIOUS
<1> USE MaxStepsAssumption DEF Init, Before, After, Over
<1>1. steps \in Seq(Steps)
  BY DEF Steps
<1>2. stateRef \in [kind : Kinds, step : 0..MaxSteps]
  BY DEF Kinds
<1>3. Types
  <2>1. step \in 1..(MaxSteps + 1) /\ highest \in 0..MaxSteps
    OBVIOUS
  <2> QED
    BY <1>1, <1>2, <2>1 DEF Types

<1>4. Counts
  BY DEF Counts
<1>5. Reports
  BY DEF Reports, Quits, Returns
<1> QED
  BY <1>3, <1>4, <1>5 DEF Inv

\* What finalizeStopCause says of a loop that was left by a hook or at its bound.
LEMMA FinalCause ==
    ASSUME stopCause \in {"none", "before-step", "predicate"},
           NEW f, f = finalizeStopCause(hookStopped, stopCause, steps, MaxSteps)
    PROVE  /\ f.cause # "abort"
           /\ f.exhausted <=> /\ ~hookStopped /\ stopCause = "none"
                              /\ Len(steps) >= MaxSteps /\ steps # <<>> /\ Last(steps).calls # <<>>
           /\ f.exhausted => f.cause = "max-steps"
           /\ stopCause # "none" => f.cause = stopCause
           /\ f.cause \in {"before-step", "predicate"} => stopCause # "none"
BY DEF finalizeStopCause

\* Respond leaves the record alone or adds one step to it.
LEMMA RespondRecords ==
    ASSUME Types, Respond
    PROVE  /\ pc = "respond"
           /\ UNCHANGED <<opts, step, resp, highest, hookStopped, stopCause, finishes>>
           /\ \/ /\ UNCHANGED <<steps, stateRef>> /\ pc' \in {"unwind", "finish"}
              \/ /\ steps' \in Seq(Steps) /\ Len(steps') = Len(steps) + 1
                 /\ pc' = "stepFinish" /\ stateRef' = [kind |-> "step-finished", step |-> step]
<1> DEFINE s == [number |-> step, text |-> resp.text, calls |-> resp.calls,
                 finish |-> resp.finish]
<1>1. CASE UNCHANGED <<steps, stateRef>> /\ pc' \in {"unwind", "finish"}
  BY <1>1 DEF Respond
<1>2. CASE /\ resp # Failed /\ steps' = Append(steps, s) /\ pc' = "stepFinish"
           /\ stateRef' = [kind |-> "step-finished", step |-> step]
  <2>1. step \in Nat /\ steps \in Seq(Steps) /\ resp \in Responses
    BY <1>2, MaxStepsAssumption DEF Types, Respond
  <2>2. s \in Steps
    BY <2>1, ResponsesAssumption DEF Steps
  <2> HIDE DEF s
  <2> QED
    BY <1>2, <2>1, <2>2 DEF Respond
<1> QED
  BY <1>1, <1>2 DEF Respond, Panics, Publish

\* What StepFinish and StopWhen do to the counters.
LEMMA StepFinishMoves ==
    ASSUME StepFinish
    PROVE  /\ pc = "stepFinish" /\ pc' \in {"unwind", "finish", "tools"}
           /\ \/ UNCHANGED stateRef
              \/ stateRef' = [kind |-> "tool-executing", step |-> step]
           /\ UNCHANGED <<opts, step, steps, highest, hookStopped, stopCause, finishes>>
BY DEF StepFinish, Panics, Publish

LEMMA StopWhenMoves ==
    ASSUME StopWhen
    PROVE  /\ pc = "stopWhen"
           /\ \/ /\ pc' = "unwind" /\ UNCHANGED <<step, hookStopped, stopCause>>
              \/ /\ pc' = "finalize" /\ hookStopped' = TRUE /\ stopCause' = "predicate"
                 /\ UNCHANGED step
              \/ /\ step' = step + 1 /\ pc' = (IF step < MaxSteps THEN "loop" ELSE "finalize")
                 /\ UNCHANGED <<hookStopped, stopCause>>
           /\ UNCHANGED <<opts, steps, highest, stateRef, finishes>>
BY DEF StopWhen, Panics

LEMMA TypesNext == Inv /\ [Next]_vars => Types'
<1> SUFFICES ASSUME Inv, [Next]_vars PROVE Types'
  OBVIOUS
<1> USE MaxStepsAssumption DEF Inv, Types, Counts, Before, After, Over, Kinds, Panics, Publish
<1>1. CASE Enter
  BY <1>1 DEF Enter
<1>2. CASE BeforeStep
  BY <1>2 DEF BeforeStep
<1>3. CASE Request
  BY <1>3 DEF Request
<1>4. CASE Call
  BY <1>4 DEF Call
<1>5. CASE Respond
  BY <1>5, RespondRecords
<1>6. CASE StepFinish
  BY <1>6, StepFinishMoves
<1>7. CASE Tools
  BY <1>7 DEF Tools
<1>8. CASE StopWhen
  <2>1. pc = "stopWhen" /\ step <= MaxSteps /\ step \in Nat /\ highest = step /\ Len(steps) = step
    BY <1>8, StopWhenMoves
  <2>2. CASE pc' \in {"unwind", "finalize"} /\ UNCHANGED step
    BY <1>8, <2>1, <2>2, StopWhenMoves
  <2>3. CASE /\ step' = step + 1 /\ UNCHANGED <<hookStopped, stopCause>>
             /\ pc' = (IF step < MaxSteps THEN "loop" ELSE "finalize")
    <3>1. step' \in 1..(MaxSteps + 1) /\ (pc' = "loop" => step' <= MaxSteps)
      BY <2>1, <2>3
    <3> QED
      BY <1>8, <2>1, <2>3, <3>1, StopWhenMoves
  <2> QED
    BY <1>8, <2>2, <2>3, StopWhenMoves
<1>9. CASE Finalize
  BY <1>9 DEF Finalize
<1>10. CASE Finish
  BY <1>10 DEF Finish
<1>11. CASE Unwind
  BY <1>11 DEF Unwind
<1>12. CASE UNCHANGED vars
  BY <1>12 DEF vars
<1> QED
  BY <1>1, <1>2, <1>3, <1>4, <1>5, <1>6, <1>7, <1>8, <1>9, <1>10, <1>11, <1>12 DEF Next

LEMMA CountsNext == Inv /\ [Next]_vars => Counts'
<1> SUFFICES ASSUME Inv, [Next]_vars PROVE Counts'
  OBVIOUS
<1> USE MaxStepsAssumption DEF Inv, Types, Counts, Before, After, Over, Kinds, Panics, Publish
<1>1. CASE Enter
  BY <1>1 DEF Enter
<1>2. CASE BeforeStep
  BY <1>2 DEF BeforeStep
<1>3. CASE Request
  BY <1>3 DEF Request
<1>4. CASE Call
  BY <1>4 DEF Call
<1>5. CASE Respond
  BY <1>5, RespondRecords
<1>6. CASE StepFinish
  BY <1>6, StepFinishMoves
<1>7. CASE Tools
  BY <1>7 DEF Tools
<1>8. CASE StopWhen
  <2>1. pc = "stopWhen" /\ step <= MaxSteps /\ step \in Nat /\ highest = step /\ Len(steps) = step
    BY <1>8, StopWhenMoves
  <2>2. CASE pc' \in {"unwind", "finalize"} /\ UNCHANGED step
    BY <1>8, <2>1, <2>2, StopWhenMoves
  <2>3. CASE /\ step' = step + 1 /\ UNCHANGED <<hookStopped, stopCause>>
             /\ pc' = (IF step < MaxSteps THEN "loop" ELSE "finalize")
    <3>1. step' \in 1..(MaxSteps + 1) /\ (pc' = "loop" => step' <= MaxSteps)
      BY <2>1, <2>3
    <3> QED
      BY <1>8, <2>1, <2>3, <3>1, StopWhenMoves
  <2> QED
    BY <1>8, <2>2, <2>3, StopWhenMoves
<1>9. CASE Finalize
  BY <1>9 DEF Finalize
<1>10. CASE Finish
  BY <1>10 DEF Finish
<1>11. CASE Unwind
  BY <1>11 DEF Unwind
<1>12. CASE UNCHANGED vars
  BY <1>12 DEF vars
<1> QED
  BY <1>1, <1>2, <1>3, <1>4, <1>5, <1>6, <1>7, <1>8, <1>9, <1>10, <1>11, <1>12 DEF Next

LEMMA ReportsNext == Inv /\ [Next]_vars => Reports'
<1> SUFFICES ASSUME Inv, [Next]_vars PROVE Reports'
  OBVIOUS
<1> USE DEF Inv, Reports, Before, After, Over, Panics, Quits, Returns, FinishInfo
<1>1. CASE Enter
  BY <1>1 DEF Enter
<1>2. CASE BeforeStep
  BY <1>2 DEF BeforeStep
<1>3. CASE Request
  BY <1>3 DEF Request
<1>4. CASE Call
  BY <1>4 DEF Call
<1>5. CASE Respond
  BY <1>5 DEF Respond
<1>6. CASE StepFinish
  BY <1>6 DEF StepFinish
<1>7. CASE Tools
  BY <1>7 DEF Tools
<1>8. CASE StopWhen
  BY <1>8 DEF StopWhen
<1>9. CASE Finalize
  <2> DEFINE f == finalizeStopCause(hookStopped, stopCause, steps, MaxSteps)
  <2>1. f.cause # "abort"
    BY FinalCause DEF Types
  <2> HIDE DEF f
  <2> QED
    BY <1>9, <2>1 DEF Finalize, f
<1>10. CASE Finish
  BY <1>10 DEF Finish
<1>11. CASE Unwind
  BY <1>11 DEF Unwind
<1>12. CASE UNCHANGED vars
  BY <1>12 DEF vars
<1> QED
  BY <1>1, <1>2, <1>3, <1>4, <1>5, <1>6, <1>7, <1>8, <1>9, <1>10, <1>11, <1>12 DEF Next

LEMMA Invariance == Spec => []Inv
<1>1. Inv /\ [Next]_vars => Inv'
  BY TypesNext, CountsNext, ReportsNext DEF Inv
<1> QED
  BY InitInv, <1>1, PTL DEF Spec

-----------------------------------------------------------------------------
\* Every variable of a call of GenerateText keeps its type; no more steps are
\* recorded than MaxSteps, and OnFinish fires at most once.
THEOREM TypeCorrect == Spec => []TypeOK
<1>1. Inv => TypeOK
  <2> SUFFICES ASSUME Inv PROVE TypeOK
    OBVIOUS
  <2>1. Len(steps) <= MaxSteps
    BY MaxStepsAssumption DEF Inv, Types, Counts
  <2>2. Len(finishes) <= 1 /\ ret.kind \in {"pending", "invalid", "panic", "error", "result"}
    BY DEF Inv, Types, Reports, Before, After, Over, Quits, Returns
  <2> QED
    BY <2>1, <2>2 DEF Inv, Types, TypeOK, Before, After, Over, Kinds
<1> QED
  BY Invariance, <1>1, PTL

\* FIX 47: the step a poller reads never moves back, on any way through the loop.
THEOREM StepMonotone == Spec => StepNeverRegresses
<1>1. Inv /\ Inv' /\ [Next]_vars => [stateRef'.step >= stateRef.step]_vars
  <2> SUFFICES ASSUME Inv, Inv', Next PROVE stateRef'.step >= stateRef.step
    BY DEF vars
  <2>1. highest' >= highest
    <3>1. highest \in Nat /\ (pc = "request" => highest <= step)
      BY MaxStepsAssumption DEF Inv, Types, Counts
    <3>2. CASE Request
      BY <3>1, <3>2 DEF Request
    <3>3. CASE UNCHANGED highest
      BY <3>1, <3>3
    <3> QED
      BY <3>2, <3>3 DEF Next, Enter, BeforeStep, Call, Respond, StepFinish, Tools, StopWhen,
                        Finalize, Finish, Unwind
  <2> QED
    BY <2>1 DEF Inv, Counts
<1> QED
  BY Invariance, <1>1, PTL DEF Spec, StepNeverRegresses

\* Every way out leaves the AgentState idle at the last model call announced.
THEOREM Rests == Spec => []RestsAtHighest
<1>1. Inv => RestsAtHighest
  BY DEF Inv, Types, Counts, RestsAtHighest, returned, Kinds
<1> QED
  BY Invariance, <1>1, PTL

\* A result or a model failure is reported to OnFinish once, truthfully.
THEOREM FinishTruthful == Spec => []FinishMatchesReturn
<1>1. Inv => FinishMatchesReturn
  BY DEF Inv, Reports, FinishMatchesReturn, returned
<1> QED
  BY Invariance, <1>1, PTL

-----------------------------------------------------------------------------
\* What the AgentState says wherever the call is.
Shown ==
    /\ pc = "enter" => stateRef.kind = "starting"
    /\ pc \in {"loop", "request"} => stateRef.kind \in {"starting", "step-finished", "tool-executing"}
    /\ pc \in {"call", "respond"} => stateRef.kind = "llm-in-flight"
    /\ pc = "stepFinish" => stateRef.kind = "step-finished"
    /\ pc \in {"tools", "stopWhen"} => stateRef.kind \in {"step-finished", "tool-executing"}
    /\ pc \in {"finalize", "finish", "unwind"} => stateRef.kind # "idle"

LEMMA ShownNext == Inv /\ Shown /\ [Next]_vars => Shown'
<1> SUFFICES ASSUME Inv, Shown, [Next]_vars PROVE Shown'
  OBVIOUS
<1> USE DEF Shown, Publish, Panics
<1>1. CASE Enter \/ BeforeStep \/ Request \/ Call
  BY <1>1 DEF Enter, BeforeStep, Request, Call
<1>2. CASE Respond
  BY <1>2, RespondRecords DEF Inv
<1>3. CASE StepFinish
  BY <1>3, StepFinishMoves
<1>4. CASE Tools \/ StopWhen
  BY <1>4 DEF Tools, StopWhen
<1>5. CASE Finalize \/ Finish \/ Unwind
  BY <1>5 DEF Finalize, Finish, Unwind
<1>6. CASE UNCHANGED vars
  BY <1>6 DEF vars
<1> QED
  BY <1>1, <1>2, <1>3, <1>4, <1>5, <1>6 DEF Next

\* Every step is one of the abstract loop's, or does not show.
LEMMA StepShows == Inv /\ Shown /\ [Next]_vars => [Lifecycle!Next]_(Lifecycle!vars)
<1> SUFFICES ASSUME Inv, Shown, [Next]_vars
             PROVE  Lifecycle!Next \/ UNCHANGED <<stateRef.kind, stateRef.step>>
  BY DEF Lifecycle!vars
<1> USE DEF Shown, Publish, Panics
<1>1. stateRef.step = highest /\ highest \in Nat
  BY MaxStepsAssumption DEF Inv, Types, Counts
<1>2. CASE Enter
  BY <1>1, <1>2 DEF Enter, Inv, Counts
<1>3. CASE Request
  <2>1. CASE UNCHANGED stateRef
    BY <2>1
  <2>2. CASE stateRef' = [kind |-> "llm-in-flight", step |-> step]
    <3>1. step <= MaxSteps /\ highest = step - 1 /\ step \in Nat
      BY <1>3, MaxStepsAssumption DEF Request, Inv, Types, Counts, Before
    <3> QED
      BY <1>1, <1>3, <2>2, <3>1, MaxStepsAssumption DEF Request, Lifecycle!Next, Lifecycle!Announce
  <2> QED
    BY <1>3, <2>1, <2>2 DEF Request
<1>4. CASE Respond
  <2>1. pc = "respond" /\ highest = step
    BY <1>4 DEF Respond, Inv, Counts
  <2> QED
    BY <1>1, <1>4, <2>1, RespondRecords DEF Inv, Lifecycle!Next, Lifecycle!FinishStep
<1>5. CASE StepFinish
  <2>1. pc = "stepFinish" /\ highest = step
    BY <1>5 DEF StepFinish, Inv, Counts, After
  <2> QED
    BY <1>1, <1>5, <2>1, StepFinishMoves DEF Lifecycle!Next, Lifecycle!RunTools
<1>6. CASE Unwind
  <2>1. Len(steps) <= highest /\ Len(steps) \in Nat
    BY DEF Inv, Types, Counts
  <2>2. stateRef' = [kind |-> "idle", step |-> highest]
    BY <1>1, <1>6, <2>1 DEF Unwind
  <2> QED
    BY <1>1, <1>6, <2>2 DEF Unwind, Lifecycle!Next, Lifecycle!Rest
<1>7. CASE UNCHANGED stateRef
  BY <1>7
<1> QED
  BY <1>2, <1>3, <1>4, <1>5, <1>6, <1>7
     DEF Next, BeforeStep, Call, Tools, StopWhen, Finalize, Finish, vars

\* WithStateRef: whatever the model, the hooks and the panics do, a poller of
\* GenerateText sees a behaviour of AgentLifecycle (its liveness is left to the runs).
THEOREM ImplementsLifecycle == Spec => Lifecycle!Init /\ [][Lifecycle!Next]_(Lifecycle!vars)
<1>1. Init => Lifecycle!Init /\ Shown
  BY DEF Init, Lifecycle!Init, Shown
<1>2. Spec => []Shown
  BY Invariance, ShownNext, <1>1, PTL DEF Spec
<1> QED
  BY Invariance, StepShows, <1>1, <1>2, PTL DEF Spec

-----------------------------------------------------------------------------
(* Induction over data.  The library's induction theorems take an operator *)
(* as their parameter; here the property is a set instead, and the least   *)
(* counterexample exists by WFMin.                                         *)

LEMMA LeastNatural ==
    ASSUME NEW T, T \subseteq Nat, T # {}
    PROVE  \E x \in T : \A y \in T : x <= y
<1> DEFINE R == {p \in Nat \X Nat : p[1] < p[2]}
<1>1. IsWellFoundedOn(R, Nat)
  BY NatLessThanWellFounded DEF OpToRel
<1>2. \A x, y \in Nat : <<y, x>> \in R <=> y < x
  OBVIOUS
<1> HIDE DEF R
<1>3. PICK x \in T : \A y \in T : ~ (<<y, x>> \in R)
  BY <1>1, WFMin
<1>4. \A y \in T : ~(y < x)
  BY <1>2, <1>3
<1> QED
  BY <1>4

\* Induction without an operator as its parameter: what holds is a set.
LEMMA Induction ==
    ASSUME NEW S, 0 \in S, \A n \in Nat : n \in S => n + 1 \in S
    PROVE  \A n \in Nat : n \in S
<1> DEFINE T == Nat \ S
<1>1. SUFFICES ASSUME T # {} PROVE FALSE
  OBVIOUS
<1>2. PICK x \in T : \A y \in T : x <= y
  BY <1>1, LeastNatural
<1>3. x # 0 /\ x - 1 \in Nat
  OBVIOUS
<1>4. x - 1 \in S
  BY <1>2, <1>3
<1> QED
  BY <1>3, <1>4

LEMMA SequenceInduction ==
    ASSUME NEW X, NEW G, <<>> \in G, \A s \in Seq(X), e \in X : s \in G => Append(s, e) \in G
    PROVE  Seq(X) \subseteq G
<1> DEFINE S == {n \in Nat : \A s \in Seq(X) : Len(s) = n => s \in G}
<1>1. 0 \in S
  OBVIOUS
<1>2. ASSUME NEW n \in Nat, n \in S
      PROVE  n + 1 \in S
  <2>1. SUFFICES ASSUME NEW s \in Seq(X), Len(s) = n + 1 PROVE s \in G
    OBVIOUS
  <2> DEFINE f == SubSeq(s, 1, n)
  <2>2. f \in Seq(X) /\ Len(f) = n /\ s[n + 1] \in X
    BY <2>1
  <2>3. s = Append(f, s[n + 1])
    BY <2>1, <2>2
  <2> QED
    BY <1>2, <2>2, <2>3
<1> HIDE DEF S
<1>3. \A n \in Nat : n \in S
  BY <1>1, <1>2, Induction
<1> QED
  BY <1>3 DEF S

\* The prefixes of a sequence, one element at a time.
LEMMA UpTo ==
    ASSUME NEW X, NEW s \in Seq(X)
    PROVE  /\ SubSeq(s, 1, 0) = <<>>
           /\ SubSeq(s, 1, Len(s)) = s
           /\ \A k \in 0..Len(s) : SubSeq(s, 1, k) \in Seq(X)
           /\ \A k \in Nat : k + 1 <= Len(s) => SubSeq(s, 1, k + 1) = Append(SubSeq(s, 1, k), s[k + 1])
<1>1. SubSeq(s, 1, 0) = <<>> /\ SubSeq(s, 1, Len(s)) = s
  OBVIOUS
<1>2. ASSUME NEW k \in 0..Len(s)
      PROVE  SubSeq(s, 1, k) \in Seq(X) /\ Len(SubSeq(s, 1, k)) = k
             /\ \A i \in 1..k : SubSeq(s, 1, k)[i] = s[i]
  OBVIOUS
<1>3. ASSUME NEW k \in Nat, k + 1 <= Len(s)
      PROVE  SubSeq(s, 1, k + 1) = Append(SubSeq(s, 1, k), s[k + 1])
  <2> DEFINE p == SubSeq(s, 1, k)
             q == SubSeq(s, 1, k + 1)
  <2>1. /\ p \in Seq(X) /\ Len(p) = k /\ \A i \in 1..k : p[i] = s[i]
        /\ q \in Seq(X) /\ Len(q) = k + 1 /\ \A i \in 1..(k + 1) : q[i] = s[i]
        /\ s[k + 1] \in X
    BY <1>2, <1>3
  <2> HIDE DEF p, q
  <2> QED
    BY <2>1
<1> QED
  BY <1>1, <1>2, <1>3

LEMMA Concat ==
    ASSUME NEW X, NEW b \in Seq(X)
    PROVE  /\ b \o <<>> = b
           /\ \A p \in Seq(X), e \in X : b \o Append(p, e) = Append(b \o p, e)
<1>1. ASSUME NEW p \in Seq(X), NEW e \in X PROVE b \o Append(p, e) = Append(b \o p, e)
  <2> DEFINE l == b \o Append(p, e)
             r == Append(b \o p, e)
  <2>1. l \in Seq(X) /\ r \in Seq(X) /\ Len(l) = Len(b) + Len(p) + 1 /\ Len(r) = Len(b) + Len(p) + 1
    OBVIOUS
  <2>2. ASSUME NEW i \in 1..(Len(b) + Len(p) + 1) PROVE l[i] = r[i]
    OBVIOUS
  <2> HIDE DEF l, r
  <2>3. l = r
    BY <2>1, <2>2
  <2> QED
    BY <2>3 DEF l, r
<1> QED
  BY <1>1

\* A recursion along a sequence has a solution: g[i] is what the first i elements give.
Folds(F, A, X, a) == F \in [A \X X -> A] /\ a \in A
FoldedBy(g, F, A, a, s) ==
    /\ g \in [0..Len(s) -> A]
    /\ g[0] = a
    /\ \A i \in 1..Len(s) : g[i] = F[<<g[i - 1], s[i]>>]

LEMMA FoldExists ==
    ASSUME NEW A, NEW X, NEW F, NEW a, Folds(F, A, X, a)
    PROVE  \A s \in Seq(X) : \E g : FoldedBy(g, F, A, a, s)
<1> USE DEF Folds
<1> DEFINE Solves(g, s) == g[0] = a /\ \A i \in 1..Len(s) : g[i] = F[<<g[i - 1], s[i]>>]
           G == {s \in Seq(X) : \E g \in [0..Len(s) -> A] : Solves(g, s)}
<1>1. <<>> \in G
  <2> DEFINE g == [i \in 0..0 |-> a]
  <2>1. <<>> \in Seq(X) /\ g \in [0..Len(<<>>) -> A] /\ Solves(g, <<>>)
    OBVIOUS
  <2> HIDE DEF g, Solves
  <2> QED
    BY <2>1
<1>2. ASSUME NEW s \in Seq(X), NEW e \in X, s \in G
      PROVE  Append(s, e) \in G
  <2> DEFINE t == Append(s, e)
             n == Len(s)
  <2>1. PICK g \in [0..n -> A] : Solves(g, s)
    BY <1>2
  <2>2. t \in Seq(X) /\ Len(t) = n + 1 /\ n \in Nat /\ t[n + 1] = e /\ \A i \in 1..n : t[i] = s[i]
    OBVIOUS
  <2> DEFINE b == F[<<g[n], e>>]
             h == [i \in 0..(n + 1) |-> IF i = n + 1 THEN b ELSE g[i]]
  <2> HIDE DEF t, n
  <2>3. b \in A
    BY <2>1, <2>2
  <2> HIDE DEF b
  <2>4. h \in [0..(n + 1) -> A]
    BY <2>1, <2>2, <2>3
  <2>5. h[n + 1] = b /\ \A i \in 0..n : h[i] = g[i]
    BY <2>2
  <2> HIDE DEF h
  <2>6. h[0] = a
    BY <2>1, <2>2, <2>5
  <2>7. ASSUME NEW i \in 1..(n + 1) PROVE h[i] = F[<<h[i - 1], t[i]>>]
    <3>1. CASE i = n + 1
      <4>1. i - 1 = n /\ n \in 0..n
        BY <2>2, <3>1
      <4>2. h[i] = b /\ h[i - 1] = g[n] /\ t[i] = e
        BY <2>2, <2>5, <3>1, <4>1
      <4> QED
        BY <4>2 DEF b
    <3>2. CASE i \in 1..n
      <4>1. i - 1 \in 0..n /\ i \in 0..n
        BY <2>2, <3>2
      <4>2. g[i] = F[<<g[i - 1], s[i]>>]
        BY <2>1, <3>2 DEF n
      <4> QED
        BY <2>2, <2>5, <3>2, <4>1, <4>2
    <3> QED
      BY <2>2, <3>1, <3>2
  <2>8. t \in Seq(X) /\ h \in [0..Len(t) -> A] /\ Solves(h, t)
    BY <2>2, <2>4, <2>6, <2>7
  <2> HIDE DEF Solves
  <2> QED
    BY <2>8 DEF t
<1> HIDE DEF G
<1>3. Seq(X) \subseteq G
  BY <1>1, <1>2, SequenceInduction
<1> QED
  BY <1>3 DEF G, FoldedBy

-----------------------------------------------------------------------------
Messages == [role : {"assistant", "tool", "user"}, step : Nat, calls : Seq(Calls)]

LEMMA MergeOneType ==
    ASSUME NEW out \in Seq(Messages), NEW m \in Messages
    PROVE  appendMerged(out, m) \in Seq(Messages)
<1>1. CASE m.role = "tool" /\ out # <<>> /\ Last(out).role = "tool"
  <2> DEFINE n == Len(out)
             joined == [out[n] EXCEPT !.calls = out[n].calls \o m.calls]
  <2>1. n \in 1..Len(out) /\ out[n] \in Messages
    BY <1>1
  <2>2. out[n].calls \o m.calls \in Seq(Calls)
    BY <2>1 DEF Messages
  <2>3. joined \in Messages
    BY <2>1, <2>2 DEF Messages
  <2>4. appendMerged(out, m) = [out EXCEPT ![n] = joined]
    BY <1>1, <2>1 DEF appendMerged
  <2> HIDE DEF joined, n
  <2> QED
    BY <2>1, <2>3, <2>4
<1>2. CASE ~(m.role = "tool" /\ out # <<>> /\ Last(out).role = "tool")
  BY <1>2 DEF appendMerged
<1> QED
  BY <1>1, <1>2

\* The recursion of mergeToolMessages has a solution, and any solution is its value.
IsMerged(g, s) == g = [i \in 0..Len(s) |-> IF i = 0 THEN <<>> ELSE appendMerged(g[i - 1], s[i])]

LEMMA MergedExists == \A s \in Seq(Messages) : \E g \in [0..Len(s) -> Seq(Messages)] : IsMerged(g, s)
<1> DEFINE Q == Seq(Messages)
           F == [p \in Q \X Messages |-> appendMerged(p[1], p[2])]
<1>1. F \in [Q \X Messages -> Q] /\ <<>> \in Q
  BY MergeOneType
<1>2. SUFFICES ASSUME NEW s \in Seq(Messages) PROVE \E g \in [0..Len(s) -> Q] : IsMerged(g, s)
  OBVIOUS
<1>3. \A o \in Q, m \in Messages : F[<<o, m>>] = appendMerged(o, m)
  OBVIOUS
<1> HIDE DEF F, Q
<1>4. Folds(F, Q, Messages, <<>>)
  BY <1>1 DEF Folds
<1>5. PICK g : FoldedBy(g, F, Q, <<>>, s)
  BY <1>4, FoldExists
<1>6. ASSUME NEW i \in 1..Len(s) PROVE g[i] = appendMerged(g[i - 1], s[i])
  <2>1. g[i - 1] \in Q /\ s[i] \in Messages
    BY <1>5 DEF FoldedBy
  <2> QED
    BY <1>3, <1>5, <2>1 DEF FoldedBy
<1>7. IsMerged(g, s)
  <2>1. g[0] = <<>> /\ g = [i \in 0..Len(s) |-> g[i]]
    BY <1>5 DEF FoldedBy
  <2>2. \A i \in 0..Len(s) : i # 0 => i \in 1..Len(s)
    OBVIOUS
  <2> QED
    BY <1>6, <2>1, <2>2 DEF IsMerged
<1> QED
  BY <1>5, <1>7 DEF FoldedBy

LEMMA MergingIs ==
    ASSUME NEW s \in Seq(Messages), NEW g, IsMerged(g, s)
    PROVE  mergeToolMessages(s) = g[Len(s)]
<1> DEFINE h == CHOOSE f : IsMerged(f, s)
           S == {i \in Nat : i <= Len(s) => h[i] = g[i]}
<1>1. mergeToolMessages(s) = h[Len(s)]
  BY DEF mergeToolMessages, IsMerged
<1>2. IsMerged(h, s)
  BY Zenon
<1> HIDE DEF h
<1>3. \A i \in 0..Len(s) : /\ g[i] = IF i = 0 THEN <<>> ELSE appendMerged(g[i - 1], s[i])
                          /\ h[i] = IF i = 0 THEN <<>> ELSE appendMerged(h[i - 1], s[i])
  BY <1>2 DEF IsMerged
<1>4. 0 \in S
  BY <1>3
<1>5. ASSUME NEW i \in Nat, i \in S
      PROVE  i + 1 \in S
  <2>1. SUFFICES ASSUME i + 1 <= Len(s) PROVE h[i + 1] = g[i + 1]
    OBVIOUS
  <2>2. h[i] = g[i] /\ i + 1 \in 0..Len(s) /\ i + 1 # 0
    BY <1>5, <2>1
  <2> QED
    BY <1>3, <2>2
<1> HIDE DEF S
<1>6. \A i \in Nat : i \in S
  BY <1>4, <1>5, Induction
<1> QED
  BY <1>1, <1>6 DEF S

LEMMA MergedType == \A s \in Seq(Messages) : mergeToolMessages(s) \in Seq(Messages)
BY MergedExists, MergingIs

\* mergeToolMessages takes the messages one by one.
LEMMA Merging ==
    /\ mergeToolMessages(<<>>) = <<>>
    /\ \A s \in Seq(Messages), e \in Messages :
          mergeToolMessages(Append(s, e)) = appendMerged(mergeToolMessages(s), e)
<1>1. mergeToolMessages(<<>>) = <<>>
  <2>1. <<>> \in Seq(Messages) /\ Len(<<>>) = 0
    OBVIOUS
  <2>2. \A g : IsMerged(g, <<>>) => g[0] = <<>>
    BY DEF IsMerged
  <2> QED
    BY <2>1, <2>2, MergedExists, MergingIs
<1>2. ASSUME NEW s \in Seq(Messages), NEW e \in Messages
      PROVE  mergeToolMessages(Append(s, e)) = appendMerged(mergeToolMessages(s), e)
  <2> DEFINE t == Append(s, e)
             n == Len(s)
  <2>1. /\ t \in Seq(Messages) /\ Len(t) = n + 1 /\ n \in Nat /\ t[n + 1] = e
        /\ \A i \in 1..n : t[i] = s[i]
    OBVIOUS
  <2> HIDE DEF t
  <2>2. PICK h : IsMerged(h, t)
    BY <2>1, MergedExists
  <2>3. \A i \in 0..(n + 1) : h[i] = IF i = 0 THEN <<>> ELSE appendMerged(h[i - 1], t[i])
    BY <2>1, <2>2 DEF IsMerged
  <2> DEFINE g == [i \in 0..n |-> h[i]]
  <2>4. \A i \in 0..n : g[i] = IF i = 0 THEN <<>> ELSE appendMerged(g[i - 1], s[i])
    BY <2>1, <2>3
  <2>5. g = [i \in 0..n |-> IF i = 0 THEN <<>> ELSE appendMerged(g[i - 1], s[i])]
    BY <2>4
  <2>6. g[n] = h[n] /\ h[n + 1] = appendMerged(h[n], e)
    BY <2>1, <2>3
  <2> HIDE DEF g
  <2>7. mergeToolMessages(s) = g[n]
    BY <2>5, MergingIs DEF IsMerged
  <2>8. mergeToolMessages(t) = h[n + 1]
    BY <2>1, <2>2, MergingIs
  <2> QED
    BY <2>6, <2>7, <2>8 DEF t
<1> QED
  BY <1>1, <1>2

-----------------------------------------------------------------------------
\* The calls the client runs are calls, and a message without calls has none.
IsMine(g, s) == g = [i \in 0..Len(s) |-> IF i = 0 THEN <<>>
                                         ELSE IF isProviderExecuted(s[i]) THEN g[i - 1]
                                         ELSE Append(g[i - 1], s[i])]

LEMMA MineExists == \A s \in Seq(Calls) : \E g : IsMine(g, s)
<1> DEFINE Q == Seq(Calls)
           F == [p \in Q \X Calls |-> IF isProviderExecuted(p[2]) THEN p[1] ELSE Append(p[1], p[2])]
<1>1. F \in [Q \X Calls -> Q] /\ <<>> \in Q
  OBVIOUS
<1>2. SUFFICES ASSUME NEW s \in Seq(Calls) PROVE \E g : IsMine(g, s)
  OBVIOUS
<1>3. \A o \in Q, c \in Calls : F[<<o, c>>] = IF isProviderExecuted(c) THEN o ELSE Append(o, c)
  OBVIOUS
<1> HIDE DEF F, Q
<1>4. Folds(F, Q, Calls, <<>>)
  BY <1>1 DEF Folds
<1>5. PICK g : FoldedBy(g, F, Q, <<>>, s)
  BY <1>4, FoldExists
<1>6. ASSUME NEW i \in 1..Len(s)
      PROVE  g[i] = IF isProviderExecuted(s[i]) THEN g[i - 1] ELSE Append(g[i - 1], s[i])
  <2>1. g[i - 1] \in Q /\ s[i] \in Calls
    BY <1>5 DEF FoldedBy
  <2> QED
    BY <1>3, <1>5, <2>1 DEF FoldedBy
<1>7. IsMine(g, s)
  <2>1. g[0] = <<>> /\ g = [i \in 0..Len(s) |-> g[i]]
    BY <1>5 DEF FoldedBy
  <2>2. \A i \in 0..Len(s) : i # 0 => i \in 1..Len(s)
    OBVIOUS
  <2> QED
    BY <1>6, <2>1, <2>2 DEF IsMine
<1> QED
  BY <1>7

LEMMA Mine ==
    /\ clientCalls(<<>>) = <<>>
    /\ \A s \in Seq(Calls) : clientCalls(s) \in Seq(Calls)
<1>1. ASSUME NEW s \in Seq(Calls)
      PROVE  clientCalls(s) \in Seq(Calls) /\ (s = <<>> => clientCalls(s) = <<>>)
  <2> DEFINE g == CHOOSE f : IsMine(f, s)
             S == {i \in Nat : i <= Len(s) => g[i] \in Seq(Calls)}
  <2>1. clientCalls(s) = g[Len(s)]
    BY DEF clientCalls, IsMine
  <2>2. IsMine(g, s)
    BY MineExists, Zenon
  <2> HIDE DEF g
  <2>3. \A i \in 0..Len(s) : g[i] = IF i = 0 THEN <<>>
                                    ELSE IF isProviderExecuted(s[i]) THEN g[i - 1]
                                    ELSE Append(g[i - 1], s[i])
    BY <2>2 DEF IsMine
  <2>4. 0 \in S
    <3>1. g[0] = <<>> /\ <<>> \in Seq(Calls)
      BY <2>3
    <3> QED
      BY <3>1
  <2>5. ASSUME NEW i \in Nat, i \in S
        PROVE  i + 1 \in S
    <3>1. SUFFICES ASSUME i + 1 <= Len(s) PROVE g[i + 1] \in Seq(Calls)
      OBVIOUS
    <3>2. g[i] \in Seq(Calls) /\ i + 1 \in 0..Len(s) /\ i + 1 # 0 /\ s[i + 1] \in Calls
      BY <2>5, <3>1
    <3>3. g[i + 1] = IF isProviderExecuted(s[i + 1]) THEN g[i] ELSE Append(g[i], s[i + 1])
      BY <2>3, <3>2
    <3> QED
      BY <3>2, <3>3
  <2> HIDE DEF S
  <2>6. \A i \in Nat : i \in S
    BY <2>4, <2>5, Induction
  <2>7. clientCalls(s) \in Seq(Calls)
    BY <2>1, <2>6 DEF S
  <2>8. s = <<>> => clientCalls(s) = <<>>
    BY <2>1, <2>3
  <2> QED
    BY <2>7, <2>8
<1>2. <<>> \in Seq(Calls)
  OBVIOUS
<1> QED
  BY <1>1, <1>2

-----------------------------------------------------------------------------
ToolMsg(n, calls) == [role |-> "tool", step |-> n, calls |-> calls]

LEMMA ToolMsgType ==
    ASSUME NEW n \in Nat, NEW q \in Seq(Calls)
    PROVE  /\ ToolMsg(n, q) \in Messages
           /\ ToolMsg(n, q).role = "tool" /\ ToolMsg(n, q).calls = q /\ ToolMsg(n, q).step = n
           /\ \A w : [ToolMsg(n, q) EXCEPT !.calls = w] = ToolMsg(n, w)
BY DEF ToolMsg, Messages

LEMMA ReplaceLast ==
    ASSUME NEW X, NEW out \in Seq(X), NEW m \in X, NEW w \in X
    PROVE  /\ Append(out, m) \in Seq(X) /\ Append(out, m) # <<>>
           /\ Len(Append(out, m)) = Len(out) + 1 /\ Append(out, m)[Len(out) + 1] = m
           /\ Last(Append(out, m)) = m
           /\ [Append(out, m) EXCEPT ![Len(out) + 1] = w] = Append(out, w)
<1>1. Append(out, m) # <<>> /\ Last(Append(out, m)) = m
  BY DEF Last
<1>2. [Append(out, m) EXCEPT ![Len(out) + 1] = w] = Append(out, w)
  <2>1. PICK o : o = Append(out, m)
    OBVIOUS
  <2>2. PICK p : p = Append(out, w)
    OBVIOUS
  <2>3. /\ o \in Seq(X) /\ Len(o) = Len(out) + 1 /\ \A i \in 1..Len(out) : o[i] = out[i]
        /\ p \in Seq(X) /\ Len(p) = Len(out) + 1 /\ \A i \in 1..Len(out) : p[i] = out[i]
        /\ p[Len(out) + 1] = w /\ Len(out) \in Nat
    BY <2>1, <2>2
  <2>4. PICK r : r = [o EXCEPT ![Len(out) + 1] = w]
    OBVIOUS
  <2>5. /\ r \in Seq(X) /\ Len(r) = Len(out) + 1 /\ r[Len(out) + 1] = w
        /\ \A i \in 1..Len(out) : r[i] = out[i]
    BY <2>3, <2>4
  <2>6. r = p
    BY <2>3, <2>5
  <2> QED
    BY <2>1, <2>2, <2>4, <2>6
<1> QED
  BY <1>1, <1>2

\* An answer joins the tool message before it.
LEMMA Joins ==
    ASSUME NEW out \in Seq(Messages), NEW n \in Nat, NEW q \in Seq(Calls), NEW c \in Calls
    PROVE  appendMerged(Append(out, ToolMsg(n, q)), ToolMsg(n, <<c>>))
             = Append(out, ToolMsg(n, Append(q, c)))
<1>1. q \o <<c>> = Append(q, c) /\ Append(q, c) \in Seq(Calls) /\ <<c>> \in Seq(Calls)
  OBVIOUS
<1>2. PICK m \in Messages : m = ToolMsg(n, q)
  BY ToolMsgType
<1>3. PICK e \in Messages : e = ToolMsg(n, <<c>>)
  BY <1>1, ToolMsgType
<1>4. PICK w \in Messages : w = ToolMsg(n, Append(q, c))
  BY <1>1, ToolMsgType
<1>5. m.role = "tool" /\ m.calls = q /\ e.role = "tool" /\ e.calls = <<c>>
  BY <1>2, <1>3 DEF ToolMsg
<1>6. w = [m EXCEPT !.calls = q \o <<c>>]
  <2>1. \A p : [ToolMsg(n, q) EXCEPT !.calls = p] = ToolMsg(n, p)
    BY DEF ToolMsg
  <2> QED
    BY <1>1, <1>2, <1>4, <2>1
<1>7. PICK o : o = Append(out, m)
  OBVIOUS
<1>8. /\ o # <<>> /\ Len(o) = Len(out) + 1 /\ o[Len(out) + 1] = m /\ Last(o) = m
      /\ [o EXCEPT ![Len(out) + 1] = w] = Append(out, w)
  BY <1>7, ReplaceLast
<1>9. appendMerged(o, e) = [o EXCEPT ![Len(out) + 1] = [m EXCEPT !.calls = q \o <<c>>]]
  BY <1>5, <1>8 DEF appendMerged
<1> QED
  BY <1>2, <1>3, <1>4, <1>6, <1>7, <1>8, <1>9

\* The answers of a step become one message, however many they are.
Answered(said, n, mine) == IF mine = <<>> THEN said ELSE Append(said, ToolMsg(n, mine))

LEMMA OneMoreAnswer ==
    ASSUME NEW said \in Seq(Messages), said # <<>>, Last(said).role # "tool",
           NEW n \in Nat, NEW q \in Seq(Calls), NEW c \in Calls
    PROVE  appendMerged(Answered(said, n, q), ToolMsg(n, <<c>>)) = Answered(said, n, Append(q, c))
<1>1. Append(q, c) # <<>>
  OBVIOUS
<1>2. CASE q = <<>>
  <2>1. Append(q, c) = <<c>>
    BY <1>2
  <2> QED
    BY <1>1, <1>2, <2>1 DEF Answered, appendMerged
<1>3. CASE q # <<>>
  BY <1>1, <1>3, Joins DEF Answered
<1> QED
  BY <1>2, <1>3

Awaits(B, said) ==
    /\ B \in Seq(Messages) /\ said \in Seq(Messages)
    /\ mergeToolMessages(B) = said
    /\ said # <<>> /\ Last(said).role # "tool"
AnswerEach(tools, n, mine) ==
    /\ n \in Nat /\ mine \in Seq(Calls)
    /\ tools \in Seq(Messages) /\ Len(tools) = Len(mine)
    /\ \A i \in 1..Len(mine) : tools[i] = ToolMsg(n, <<mine[i]>>)

LEMMA AnswersMerge ==
    ASSUME NEW B, NEW said, Awaits(B, said),
           NEW n, NEW mine, NEW tools, AnswerEach(tools, n, mine)
    PROVE  mergeToolMessages(B \o tools) = Answered(said, n, mine)
<1>1. /\ n \in Nat /\ mine \in Seq(Calls)
      /\ tools \in Seq(Messages) /\ Len(tools) = Len(mine)
      /\ \A i \in 1..Len(mine) : tools[i] = ToolMsg(n, <<mine[i]>>)
  BY DEF AnswerEach
<1>2. /\ B \in Seq(Messages) /\ said \in Seq(Messages)
      /\ mergeToolMessages(B) = said
      /\ said # <<>> /\ Last(said).role # "tool"
  BY DEF Awaits
<1> USE <1>1, <1>2
<1> DEFINE P(k) == mergeToolMessages(B \o SubSeq(tools, 1, k))
           Q(k) == Answered(said, n, SubSeq(mine, 1, k))
           S    == {k \in Nat : k <= Len(mine) => P(k) = Q(k)}
<1>3. 0 \in S
  <2>1. B \o SubSeq(tools, 1, 0) = B /\ SubSeq(mine, 1, 0) = <<>>
    BY <1>1, UpTo, Concat
  <2> QED
    BY <2>1 DEF Answered
<1> HIDE DEF P, Q
<1>4. ASSUME NEW k \in Nat, k \in S
      PROVE  k + 1 \in S
  <2>1. SUFFICES ASSUME k + 1 <= Len(mine) PROVE P(k + 1) = Q(k + 1)
    OBVIOUS
  <2>2. k \in 0..Len(mine) /\ k + 1 \in 1..Len(mine) /\ k <= Len(mine)
    BY <2>1
  <2>3. P(k) = Q(k)
    BY <1>4, <2>2
  <2>4. PICK p \in Seq(Messages) : p = SubSeq(tools, 1, k)
    BY <1>1, <2>2, UpTo
  <2>5. PICK q \in Seq(Calls) : q = SubSeq(mine, 1, k)
    BY <2>2, UpTo
  <2>6. PICK c \in Calls : c = mine[k + 1]
    BY <2>2
  <2>7. PICK e \in Messages : e = tools[k + 1] /\ e = ToolMsg(n, <<c>>)
    BY <1>1, <2>2, <2>6
  <2>8. SubSeq(tools, 1, k + 1) = Append(p, e) /\ SubSeq(mine, 1, k + 1) = Append(q, c)
    BY <1>1, <2>1, <2>4, <2>5, <2>6, <2>7, UpTo
  <2>9. B \o Append(p, e) = Append(B \o p, e) /\ B \o p \in Seq(Messages)
    BY Concat
  <2>10. P(k + 1) = appendMerged(mergeToolMessages(B \o p), e)
    BY <2>8, <2>9, Merging DEF P
  <2>11. mergeToolMessages(B \o p) = Answered(said, n, q)
    BY <2>3, <2>4, <2>5 DEF P, Q
  <2>12. appendMerged(Answered(said, n, q), ToolMsg(n, <<c>>)) = Answered(said, n, Append(q, c))
    BY OneMoreAnswer
  <2>13. Q(k + 1) = Answered(said, n, Append(q, c))
    BY <2>8 DEF Q
  <2> QED
    BY <2>7, <2>10, <2>11, <2>12, <2>13
<1> HIDE DEF S
<1>5. \A k \in Nat : k \in S
  BY <1>3, <1>4, Induction
<1>6. Len(mine) \in S /\ Len(mine) \in Nat
  BY <1>5
<1>7. P(Len(mine)) = Q(Len(mine))
  BY <1>6 DEF S
<1>8. SubSeq(tools, 1, Len(mine)) = tools /\ SubSeq(mine, 1, Len(mine)) = mine
  BY <1>1, UpTo
<1> QED
  BY <1>7, <1>8 DEF P, Q

\* What a round trip adds to the replay transcript: the assistant turn and one
\* message with the answers to the calls the client ran.
LEMMA RoundTrip ==
    ASSUME NEW ms \in Seq(Messages), NEW n \in Nat, NEW r, r.calls \in Seq(Calls)
    PROVE  /\ appendToolRoundTrip(ms, n, r) \in Seq(Messages)
           /\ appendToolRoundTrip(ms, n, r) # <<>>
           /\ mergeToolMessages(appendToolRoundTrip(ms, n, r)) =
                 Answered(Append(mergeToolMessages(ms), AssistantMsg(n, r.calls)), n, clientCalls(r.calls))
<1>1. PICK mine \in Seq(Calls) : mine = clientCalls(r.calls)
  BY Mine
<1>2. PICK a \in Messages : a = AssistantMsg(n, r.calls) /\ a.role = "assistant"
  <2>1. AssistantMsg(n, r.calls) \in Messages /\ AssistantMsg(n, r.calls).role = "assistant"
    BY DEF AssistantMsg, Messages
  <2> QED
    BY <2>1
<1>3. PICK tools : tools = buildToolMessages(n, r.calls)
  OBVIOUS
<1>4. tools = [i \in 1..Len(mine) |-> ToolMsg(n, <<mine[i]>>)]
  BY <1>1, <1>3 DEF buildToolMessages, ToolMsg
<1>5. ASSUME NEW i \in 1..Len(mine) PROVE ToolMsg(n, <<mine[i]>>) \in Messages
  <2>1. <<mine[i]>> \in Seq(Calls)
    OBVIOUS
  <2> QED
    BY <2>1 DEF ToolMsg, Messages
<1>6. AnswerEach(tools, n, mine)
  BY <1>4, <1>5 DEF AnswerEach
<1>7. PICK M \in Seq(Messages) : M = mergeToolMessages(ms)
  BY MergedType
<1>8. PICK B \in Seq(Messages) : B = Append(ms, a)
  BY ReplaceLast
<1>9. PICK said \in Seq(Messages) : said = Append(M, a)
  BY ReplaceLast
<1>10. said # <<>> /\ Last(said).role # "tool" /\ B # <<>>
  BY <1>2, <1>8, <1>9, ReplaceLast
<1>11. mergeToolMessages(B) = said
  BY <1>2, <1>7, <1>8, <1>9, Merging DEF appendMerged
<1>12. Awaits(B, said)
  BY <1>8, <1>9, <1>10, <1>11 DEF Awaits
<1>13. mergeToolMessages(B \o tools) = Answered(said, n, mine)
  BY <1>6, <1>12, AnswersMerge
<1>14. B \o tools \in Seq(Messages) /\ B \o tools # <<>>
  <2>1. Len(B \o tools) # 0 /\ B \o tools \in Seq(Messages)
    BY <1>6, <1>10 DEF AnswerEach
  <2> QED
    BY <2>1
<1> QED
  BY <1>1, <1>2, <1>3, <1>7, <1>8, <1>9, <1>13, <1>14 DEF appendToolRoundTrip

-----------------------------------------------------------------------------
LEMMA Appended ==
    ASSUME NEW X, NEW s \in Seq(X), NEW e \in X
    PROVE  /\ Append(s, e) \in Seq(X) /\ Len(Append(s, e)) = Len(s) + 1
           /\ Len(s) \in Nat
           /\ \A i \in 1..Len(s) : Append(s, e)[i] = s[i]
           /\ Append(s, e)[Len(s) + 1] = e
OBVIOUS

\* A message that calls nothing the client runs keeps a transcript paired.
LEMMA PairedUnasked ==
    ASSUME NEW M \in Seq(Messages), Paired(M), NEW m \in Messages, m.role # "tool",
           m.role = "assistant" => clientCalls(m.calls) = <<>>
    PROVE  Paired(Append(M, m))
<1>1. PICK T : T = Append(M, m)
  OBVIOUS
<1>2. /\ T \in Seq(Messages) /\ Len(T) = Len(M) + 1 /\ Len(M) \in Nat /\ T[Len(M) + 1] = m
      /\ \A i \in 1..Len(M) : T[i] = M[i]
  BY <1>1, Appended
<1>3. ASSUME NEW i \in 1..Len(T), T[i].role = "assistant", clientCalls(T[i].calls) # <<>>
      PROVE  i < Len(T) /\ T[i + 1].role = "tool" /\ T[i + 1].calls = clientCalls(T[i].calls)
  <2>1. i \in 1..Len(M) /\ T[i] = M[i]
    BY <1>2, <1>3
  <2>2. i < Len(M) /\ M[i + 1].role = "tool" /\ M[i + 1].calls = clientCalls(M[i].calls)
    BY <1>3, <2>1 DEF Paired
  <2> QED
    BY <1>2, <2>1, <2>2
<1>4. ASSUME NEW i \in 1..Len(T), T[i].role = "tool"
      PROVE  i > 1 /\ T[i - 1].role = "assistant" /\ T[i - 1].step = T[i].step
  <2>1. i \in 1..Len(M) /\ T[i] = M[i]
    BY <1>2, <1>4
  <2>2. i > 1 /\ M[i - 1].role = "assistant" /\ M[i - 1].step = M[i].step
    BY <1>4, <2>1 DEF Paired
  <2> QED
    BY <1>2, <2>1, <2>2
<1> QED
  BY <1>1, <1>3, <1>4 DEF Paired

\* A turn whose calls are answered by the next message keeps it paired.
LEMMA PairedAnswered ==
    ASSUME NEW M \in Seq(Messages), Paired(M), NEW a \in Messages, NEW t \in Messages,
           a.role = "assistant", t.role = "tool", t.step = a.step, t.calls = clientCalls(a.calls)
    PROVE  Paired(Append(Append(M, a), t))
<1>1. PICK T : T = Append(Append(M, a), t)
  OBVIOUS
<1>2. /\ T \in Seq(Messages) /\ Len(T) = Len(M) + 2 /\ Len(M) \in Nat
      /\ T[Len(M) + 1] = a /\ T[Len(M) + 2] = t /\ \A i \in 1..Len(M) : T[i] = M[i]
  BY <1>1, Appended
<1>3. ASSUME NEW i \in 1..Len(T), T[i].role = "assistant", clientCalls(T[i].calls) # <<>>
      PROVE  i < Len(T) /\ T[i + 1].role = "tool" /\ T[i + 1].calls = clientCalls(T[i].calls)
  <2>1. CASE i \in 1..Len(M)
    <3>1. i < Len(M) /\ M[i + 1].role = "tool" /\ M[i + 1].calls = clientCalls(M[i].calls)
      BY <1>2, <1>3, <2>1 DEF Paired
    <3> QED
      BY <1>2, <2>1, <3>1
  <2>2. CASE i = Len(M) + 1
    BY <1>2, <2>2
  <2>3. i # Len(M) + 2
    BY <1>2, <1>3
  <2> QED
    BY <1>2, <2>1, <2>2, <2>3
<1>4. ASSUME NEW i \in 1..Len(T), T[i].role = "tool"
      PROVE  i > 1 /\ T[i - 1].role = "assistant" /\ T[i - 1].step = T[i].step
  <2>1. CASE i \in 1..Len(M)
    <3>1. i > 1 /\ M[i - 1].role = "assistant" /\ M[i - 1].step = M[i].step
      BY <1>2, <1>4, <2>1 DEF Paired
    <3> QED
      BY <1>2, <2>1, <3>1
  <2>2. CASE i = Len(M) + 2
    BY <1>2, <2>2
  <2>3. i # Len(M) + 1
    BY <1>2, <1>4
  <2> QED
    BY <1>2, <2>1, <2>2, <2>3
<1> QED
  BY <1>1, <1>3, <1>4 DEF Paired

-----------------------------------------------------------------------------
\* The assistant turns of a transcript: one for each of the first n steps, in order.
Tells(ms, n) ==
    /\ \A i, j \in 1..Len(ms) :
          (ms[i].role = "assistant" /\ ms[j].role = "assistant" /\ i < j) => ms[i].step < ms[j].step
    /\ \A i \in 1..Len(ms) : ms[i].role = "assistant" => ms[i].step \in 1..n
    /\ \A k \in 1..n : \E i \in 1..Len(ms) : ms[i].role = "assistant" /\ ms[i].step = k

LEMMA TellsUnspoken ==
    ASSUME NEW M \in Seq(Messages), NEW n \in Nat, Tells(M, n), NEW m \in Messages, m.role # "assistant"
    PROVE  Tells(Append(M, m), n)
<1>1. PICK T : T = Append(M, m)
  OBVIOUS
<1>2. /\ T \in Seq(Messages) /\ Len(T) = Len(M) + 1 /\ Len(M) \in Nat /\ T[Len(M) + 1] = m
      /\ \A i \in 1..Len(M) : T[i] = M[i]
  BY <1>1, Appended
<1>3. \A i \in 1..Len(T) : T[i].role = "assistant" => i \in 1..Len(M) /\ T[i] = M[i]
  BY <1>2
<1>4. \A i \in 1..Len(M) : i \in 1..Len(T) /\ T[i] = M[i]
  BY <1>2
<1> QED
  BY <1>1, <1>3, <1>4 DEF Tells

LEMMA TellsSpoken ==
    ASSUME NEW M \in Seq(Messages), NEW n \in Nat, Tells(M, n), NEW m \in Messages,
           m.role = "assistant", m.step = n + 1
    PROVE  Tells(Append(M, m), n + 1)
<1>1. PICK T : T = Append(M, m)
  OBVIOUS
<1>2. /\ T \in Seq(Messages) /\ Len(T) = Len(M) + 1 /\ Len(M) \in Nat /\ T[Len(M) + 1] = m
      /\ \A i \in 1..Len(M) : T[i] = M[i]
  BY <1>1, Appended
<1>3. ASSUME NEW i \in 1..Len(T), NEW j \in 1..Len(T), T[i].role = "assistant",
             T[j].role = "assistant", i < j
      PROVE  T[i].step < T[j].step
  <2>1. i \in 1..Len(M) /\ T[i] = M[i] /\ M[i].step \in 1..n
    BY <1>2, <1>3 DEF Tells
  <2>2. CASE j \in 1..Len(M)
    BY <1>2, <1>3, <2>1, <2>2 DEF Tells
  <2>3. CASE j = Len(M) + 1
    BY <1>2, <2>1, <2>3
  <2> QED
    BY <1>2, <2>2, <2>3
<1>4. ASSUME NEW i \in 1..Len(T), T[i].role = "assistant"
      PROVE  T[i].step \in 1..(n + 1)
  <2>1. CASE i \in 1..Len(M)
    BY <1>2, <1>4, <2>1 DEF Tells
  <2>2. CASE i = Len(M) + 1
    BY <1>2, <2>2
  <2> QED
    BY <1>2, <2>1, <2>2
<1>5. ASSUME NEW k \in 1..(n + 1)
      PROVE  \E i \in 1..Len(T) : T[i].role = "assistant" /\ T[i].step = k
  <2>1. CASE k \in 1..n
    <3>1. PICK i \in 1..Len(M) : M[i].role = "assistant" /\ M[i].step = k
      BY <2>1 DEF Tells
    <3> QED
      BY <1>2, <3>1
  <2>2. CASE k = n + 1
    BY <1>2, <2>2
  <2> QED
    BY <2>1, <2>2
<1> QED
  BY <1>1, <1>3, <1>4, <1>5 DEF Tells

\* A transcript that tells all the steps tells each that spoke exactly once.
LEMMA ToldOnceFrom ==
    ASSUME NEW M \in Seq(Messages), NEW ss \in Seq(Steps), NEW n \in Nat, Tells(M, n),
           n <= Len(ss),
           \A k \in 1..Len(ss) : k > n => ~ss[k].text /\ ss[k].calls = <<>>
    PROVE  ToldOnce(M, ss)
<1> DEFINE Said == {s \in 1..Len(ss) : ss[s].text \/ ss[s].calls # <<>>}
           Told == {i \in 1..Len(M) : M[i].role = "assistant" /\ M[i].step \in Said}
<1>1. \A i, j \in Told : i < j => M[i].step < M[j].step
  BY DEF Tells
<1>2. \A k \in Said : k \in 1..n
  OBVIOUS
<1>3. {M[i].step : i \in Told} = Said
  <2>1. \A i \in Told : M[i].step \in Said
    OBVIOUS
  <2>2. ASSUME NEW k \in Said PROVE \E i \in Told : M[i].step = k
    <3>1. PICK i \in 1..Len(M) : M[i].role = "assistant" /\ M[i].step = k
      BY <1>2 DEF Tells
    <3> QED
      BY <3>1
  <2> HIDE DEF Said, Told
  <2> QED
    BY <2>1, <2>2
<1> QED
  BY <1>1, <1>3 DEF ToldOnce

\* A round trip keeps the transcript paired and tells one step more.
LEMMA RoundTripReplays ==
    ASSUME NEW ms \in Seq(Messages), NEW n \in Nat, NEW r, r.calls \in Seq(Calls),
           Paired(mergeToolMessages(ms)), Tells(mergeToolMessages(ms), n)
    PROVE  /\ appendToolRoundTrip(ms, n + 1, r) \in Seq(Messages)
           /\ appendToolRoundTrip(ms, n + 1, r) # <<>>
           /\ Paired(mergeToolMessages(appendToolRoundTrip(ms, n + 1, r)))
           /\ Tells(mergeToolMessages(appendToolRoundTrip(ms, n + 1, r)), n + 1)
<1>1. PICK M \in Seq(Messages) : M = mergeToolMessages(ms)
  BY MergedType
<1>2. PICK mine \in Seq(Calls) : mine = clientCalls(r.calls)
  BY Mine
<1>3. PICK a \in Messages : /\ a = AssistantMsg(n + 1, r.calls)
                            /\ a.role = "assistant" /\ a.step = n + 1 /\ a.calls = r.calls
  <2>1. /\ AssistantMsg(n + 1, r.calls) \in Messages
        /\ AssistantMsg(n + 1, r.calls).role = "assistant"
        /\ AssistantMsg(n + 1, r.calls).step = n + 1
        /\ AssistantMsg(n + 1, r.calls).calls = r.calls
    BY DEF AssistantMsg, Messages
  <2> QED
    BY <2>1
<1>4. PICK t \in Messages : /\ t = ToolMsg(n + 1, mine)
                            /\ t.role = "tool" /\ t.step = n + 1 /\ t.calls = mine
  <2>1. /\ ToolMsg(n + 1, mine) \in Messages
        /\ ToolMsg(n + 1, mine).role = "tool"
        /\ ToolMsg(n + 1, mine).step = n + 1
        /\ ToolMsg(n + 1, mine).calls = mine
    BY DEF ToolMsg, Messages
  <2> QED
    BY <2>1
<1>5. PICK R : R = appendToolRoundTrip(ms, n + 1, r)
  OBVIOUS
<1>6. /\ R \in Seq(Messages) /\ R # <<>>
      /\ mergeToolMessages(R) = IF mine = <<>> THEN Append(M, a) ELSE Append(Append(M, a), t)
  <2>1. n + 1 \in Nat
    OBVIOUS
  <2> QED
    BY <1>1, <1>2, <1>3, <1>4, <1>5, <2>1, RoundTrip DEF Answered
<1>7. Append(M, a) \in Seq(Messages) /\ Tells(Append(M, a), n + 1) /\ n + 1 \in Nat
  BY <1>1, <1>3, Appended, TellsSpoken
<1>8. CASE mine = <<>>
  <2>1. Paired(Append(M, a))
    BY <1>1, <1>2, <1>3, <1>8, PairedUnasked
  <2> QED
    BY <1>5, <1>6, <1>7, <1>8, <2>1
<1>9. CASE mine # <<>>
  <2>1. Paired(Append(Append(M, a), t))
    BY <1>1, <1>2, <1>3, <1>4, PairedAnswered
  <2>2. Tells(Append(Append(M, a), t), n + 1)
    BY <1>4, <1>7, TellsUnspoken
  <2> QED
    BY <1>5, <1>6, <1>9, <2>1, <2>2
<1> QED
  BY <1>8, <1>9

\* So does a message a hook injects, and no step is told by it.
LEMMA InjectionReplays ==
    ASSUME NEW ms \in Seq(Messages), NEW n \in Nat, NEW m \in Messages, m.role = "user",
           Paired(mergeToolMessages(ms)), Tells(mergeToolMessages(ms), n)
    PROVE  /\ Append(ms, m) \in Seq(Messages) /\ Append(ms, m) # <<>>
           /\ Paired(mergeToolMessages(Append(ms, m)))
           /\ Tells(mergeToolMessages(Append(ms, m)), n)
<1>1. PICK M \in Seq(Messages) : M = mergeToolMessages(ms)
  BY MergedType
<1>2. mergeToolMessages(Append(ms, m)) = Append(M, m)
  BY <1>1, Merging DEF appendMerged
<1>3. Paired(Append(M, m)) /\ Tells(Append(M, m), n)
  BY <1>1, PairedUnasked, TellsUnspoken
<1> QED
  BY <1>2, <1>3, ReplaceLast

-----------------------------------------------------------------------------
LEMMA FinalAssistant ==
    ASSUME NEW s \in Steps
    PROVE  /\ AssistantMsg(s.number, s.calls) \in Messages
           /\ AssistantMsg(s.number, s.calls).role = "assistant"
           /\ AssistantMsg(s.number, s.calls).step = s.number
           /\ AssistantMsg(s.number, s.calls).calls = s.calls
BY DEF AssistantMsg, Messages, Steps

\* The replay transcript built from n told round trips: complete when they are all
\* the steps, or all but a last one that made no calls.
LEMMA BuiltReplays ==
    ASSUME NEW ms \in Seq(Messages), NEW ss \in Seq(Steps), NEW n \in Nat,
           Paired(mergeToolMessages(ms)), Tells(mergeToolMessages(ms), n),
           n = 0 <=> ms = <<>>,
           Len(ss) \in {n, n + 1}, Len(ss) > 0, \A k \in 1..Len(ss) : ss[k].number = k,
           NEW out, out = buildResponseMessages(ms, ss)
    PROVE  /\ (Last(ss).calls = <<>> \/ n = Len(ss)) => Paired(out)
           /\ (IF n = Len(ss) THEN Last(ss).calls # <<>>
                              ELSE Last(ss).calls = <<>> \/ ms = <<>>) => ToldOnce(out, ss)
<1>1. PICK M \in Seq(Messages) : M = mergeToolMessages(ms)
  BY MergedType
<1>2. PICK l \in Steps : l = Last(ss) /\ l = ss[Len(ss)] /\ l.number = Len(ss)
  BY DEF Last
<1>3. ss # <<>> /\ Len(ss) \in Nat
  OBVIOUS
<1>4. PICK a \in Messages : /\ a = AssistantMsg(l.number, l.calls)
                            /\ a.role = "assistant" /\ a.step = Len(ss) /\ a.calls = l.calls
  BY <1>2, FinalAssistant
<1>5. ms = <<>> => M = <<>>
  BY <1>1, Merging
<1>6. \/ out = M /\ (l.calls # <<>> \/ ~l.text) /\ (l.calls # <<>> => ms # <<>>)
      \/ out = Append(M, a) /\ (l.calls # <<>> => ms = <<>>)
  <2>1. Append(<<>>, a) = <<a>> /\ M \o <<a>> = Append(M, a) /\ M \o <<>> = M
    OBVIOUS
  <2>2. buildFinalAssistantMessages(l) = IF l.text \/ l.calls # <<>> THEN <<a>> ELSE <<>>
    BY <1>4 DEF buildFinalAssistantMessages
  <2>3. out = IF ms = <<>> THEN buildFinalAssistantMessages(l)
              ELSE IF l.calls # <<>> THEN M
              ELSE M \o buildFinalAssistantMessages(l)
    BY <1>1, <1>2, <1>3 DEF buildResponseMessages
  <2> QED
    BY <1>5, <2>1, <2>2, <2>3
<1>7. ASSUME l.calls = <<>> \/ n = Len(ss)
      PROVE  Paired(out)
  <2>1. CASE out = M
    BY <1>1, <2>1
  <2>2. CASE out = Append(M, a) /\ (l.calls # <<>> => ms = <<>>)
    <3>1. clientCalls(a.calls) = <<>>
      BY <1>4, <1>7, <2>2, Mine
    <3> QED
      BY <1>1, <1>4, <2>2, <3>1, PairedUnasked
  <2> QED
    BY <1>6, <2>1, <2>2
<1>8. ASSUME IF n = Len(ss) THEN l.calls # <<>> ELSE l.calls = <<>> \/ ms = <<>>
      PROVE  ToldOnce(out, ss)
  <2>1. CASE out = M /\ (l.calls # <<>> \/ ~l.text) /\ (l.calls # <<>> => ms # <<>>)
    <3>1. \A k \in 1..Len(ss) : k > n => ~ss[k].text /\ ss[k].calls = <<>>
      BY <1>2, <1>8, <2>1
    <3> QED
      BY <1>1, <2>1, <3>1, ToldOnceFrom
  <2>2. CASE out = Append(M, a) /\ (l.calls # <<>> => ms = <<>>)
    <3>1. Len(ss) = n + 1
      BY <1>8, <2>2
    <3>2. out \in Seq(Messages) /\ Tells(out, n + 1)
      BY <1>1, <1>4, <2>2, <3>1, TellsSpoken
    <3>3. \A k \in 1..Len(ss) : k > n + 1 => ~ss[k].text /\ ss[k].calls = <<>>
      BY <3>1
    <3> QED
      BY <3>1, <3>2, <3>3, ToldOnceFrom
  <2> QED
    BY <1>6, <2>1, <2>2
<1> QED
  BY <1>2, <1>7, <1>8

\* How many round trips the conversation holds.
Trips == IF pc \in {"stepFinish", "tools"} THEN Len(steps) - 1 ELSE Len(steps)

IsAnswer(r) == /\ r.calls \in Seq(Calls)
               /\ r = [text |-> r.text, calls |-> r.calls, finish |-> r.finish]

\* Normalize keeps the calls of an answer.
LEMMA Normalized ==
    ASSUME NEW r, IsAnswer(r)
    PROVE  /\ IsAnswer(Normalize(r)) /\ Normalize(r).calls = r.calls
           /\ r.calls # <<>> => Normalize(r).finish = "tool_calls"
<1>1. PICK s : s = [r EXCEPT !.finish = "tool_calls"]
  OBVIOUS
<1>2. s = [text |-> r.text, calls |-> r.calls, finish |-> "tool_calls"]
  BY <1>1 DEF IsAnswer
<1>3. IsAnswer(s) /\ s.calls = r.calls /\ s.finish = "tool_calls"
  BY <1>2 DEF IsAnswer
<1>4. Normalize(r) = IF r.calls # <<>> THEN s ELSE r
  BY <1>1 DEF Normalize
<1> QED
  BY <1>3, <1>4

\* The record is numbered, and the answer being handled is its last step.
Recorded ==
    /\ \A k \in 1..Len(steps) : steps[k].number = k
    /\ pc \in After => IsAnswer(resp) /\ Last(steps).calls = resp.calls
    /\ pc = "tools" => ~EndsLoop(resp, opts)

\* While the loop runs the conversation is a transcript that can be replayed and
\* tells every round trip; what a result returns can be replayed, and tells every step.
Replay ==
    /\ msgs \in Seq(Messages)
    /\ pc \in Before \cup After \cup {"finalize"} =>
         /\ Paired(mergeToolMessages(msgs))
         /\ Tells(mergeToolMessages(msgs), Trips)
         /\ Trips = 0 <=> msgs = <<>>
         /\ ~opts.providerDefined => \A k \in 1..Trips : steps[k].calls # <<>> /\ opts.toolMap
    /\ pc = "finalize" => Len(steps) > 0
    /\ ret.kind = "result" =>
         /\ opts.toolMap => Paired(ret.msgs)
         /\ ~opts.providerDefined => ToldOnce(ret.msgs, steps)
         /\ pc \in {"finish", "unwind", "returned"}

LEMMA RecordedNext == Inv /\ Recorded /\ [Next]_vars => Recorded'
<1> SUFFICES ASSUME Inv, Recorded, [Next]_vars PROVE Recorded'
  OBVIOUS
<1>1. CASE Respond
  <2>1. CASE UNCHANGED steps /\ pc' \in {"unwind", "finish"}
    BY <2>1 DEF Recorded, After
  <2>2. CASE /\ resp # Failed /\ pc' = "stepFinish"
             /\ steps' = Append(steps, [number |-> step, text |-> resp.text,
                                        calls |-> resp.calls, finish |-> resp.finish])
    <3> DEFINE s == [number |-> step, text |-> resp.text, calls |-> resp.calls,
                     finish |-> resp.finish]
    <3>1. step = Len(steps) + 1 /\ steps \in Seq(Steps) /\ resp \in Responses /\ UNCHANGED resp
      BY <1>1, <2>2, MaxStepsAssumption DEF Respond, Inv, Types, Counts, Before
    <3>2. s \in Steps /\ s.number = step /\ s.calls = resp.calls
      BY <3>1, ResponsesAssumption DEF Steps
    <3> HIDE DEF s
    <3>3. /\ Len(steps') = Len(steps) + 1 /\ \A k \in 1..Len(steps) : steps'[k] = steps[k]
          /\ steps'[Len(steps) + 1] = s /\ Last(steps') = s
      BY <2>2, <3>1, <3>2, Appended, ReplaceLast DEF s
    <3>4. \A k \in 1..Len(steps') : steps'[k].number = k
      BY <3>1, <3>2, <3>3 DEF Recorded
    <3> QED
      BY <2>2, <3>1, <3>2, <3>3, <3>4, ResponsesAssumption DEF Recorded, IsAnswer
  <2> QED
    BY <1>1, <2>1, <2>2 DEF Respond, Panics
<1>2. CASE StepFinish
  <2>1. UNCHANGED steps
    BY <1>2 DEF StepFinish
  <2>2. CASE pc' \in {"unwind", "finish"}
    BY <2>1, <2>2 DEF Recorded, After
  <2>3. CASE pc' = "tools" /\ resp' = Normalize(resp) /\ ~EndsLoop(Normalize(resp), opts)
    <3>1. IsAnswer(resp) /\ Last(steps).calls = resp.calls
      BY <1>2 DEF StepFinish, Recorded, After
    <3>2. IsAnswer(Normalize(resp)) /\ Normalize(resp).calls = resp.calls
      BY <3>1, Normalized
    <3> QED
      BY <1>2, <2>1, <2>3, <3>1, <3>2 DEF StepFinish, Recorded, After
  <2> QED
    BY <1>2, <2>2, <2>3 DEF StepFinish, Panics
<1>3. CASE Tools \/ StopWhen
  BY <1>3, MaxStepsAssumption DEF Tools, StopWhen, Panics, Recorded, After
<1>4. CASE Enter \/ BeforeStep \/ Request \/ Call \/ Finalize \/ Finish \/ Unwind
  BY <1>4 DEF Enter, BeforeStep, Request, Call, Finalize, Finish, Unwind, Panics, Recorded, After
<1>5. CASE UNCHANGED vars
  BY <1>5 DEF vars, Recorded
<1> QED
  BY <1>1, <1>2, <1>3, <1>4, <1>5 DEF Next

\* The actions that leave the conversation, the record and the options alone.
LEMMA ReplayQuiet ==
    ASSUME Inv, Recorded, Replay, UNCHANGED <<msgs, steps, opts>>, 
           pc' \in Before \cup After \cup {"finalize"} => pc \in Before \cup After /\ Trips' = Trips,
           pc' = "finalize" => Len(steps) > 0,
           ret'.kind # "result" \/ (ret' = ret /\ pc' \in {"unwind", "returned"})
    PROVE  Replay'
<1>1. msgs' \in Seq(Messages)
  BY DEF Replay
<1>2. ASSUME pc' \in Before \cup After \cup {"finalize"}
      PROVE  /\ Paired(mergeToolMessages(msgs'))
             /\ Tells(mergeToolMessages(msgs'), Trips')
             /\ Trips' = 0 <=> msgs' = <<>>
             /\ ~opts'.providerDefined => \A k \in 1..Trips' : steps'[k].calls # <<>> /\ opts'.toolMap
  <2>1. Trips' = Trips
    BY <1>2
  <2> QED
    BY <1>2, <2>1 DEF Replay
<1>3. ret'.kind = "result" => /\ opts'.toolMap => Paired(ret'.msgs)
                              /\ ~opts'.providerDefined => ToldOnce(ret'.msgs, steps')
                              /\ pc' \in {"finish", "unwind", "returned"}
  BY DEF Replay
<1> QED
  BY <1>1, <1>2, <1>3 DEF Replay

\* A call that is still running has returned nothing.
LEMMA Running == Inv /\ pc \in Before \cup After \cup {"finalize"} => ret.kind = "pending"
BY DEF Inv, Reports, Quits, Returns

LEMMA ReplayNext == Inv /\ Recorded /\ Replay /\ [Next]_vars => Replay'
<1> SUFFICES ASSUME Inv, Recorded, Replay, [Next]_vars PROVE Replay'
  OBVIOUS
<1> USE DEF Panics, Quits, Returns
<1>1. CASE Enter \/ Request \/ Call
  <2>1. /\ UNCHANGED <<msgs, steps, opts>> /\ pc \in Before /\ pc' \in Before \cup {"unwind"}
        /\ (ret' = ret \/ ret'.kind # "result")
    BY <1>1 DEF Enter, Request, Call, Before
  <2>2. Trips' = Trips \/ pc' = "unwind"
    BY <2>1 DEF Trips, Before
  <2> QED
    BY <2>1, <2>2, Running, ReplayQuiet DEF Before, After
<1>2. CASE BeforeStep
  <2>1. pc = "loop" /\ Trips = Len(steps) /\ Len(steps) = step - 1 /\ step \in Nat /\ UNCHANGED <<steps, opts>>
    BY <1>2, MaxStepsAssumption DEF BeforeStep, Inv, Types, Counts, Before, Trips
  <2>2. CASE UNCHANGED msgs
    <3>1. /\ pc' \in {"request", "finalize", "unwind"} /\ (ret' = ret \/ ret'.kind # "result")
          /\ pc' = "finalize" => Len(steps) > 0
      BY <1>2, <2>1 DEF BeforeStep
    <3>2. Trips' = Trips
      BY <2>1, <3>1 DEF Trips
    <3> QED
      BY <2>1, <2>2, <3>1, <3>2, Running, ReplayQuiet DEF Before, After
  <2>3. CASE /\ step > 1 /\ pc' = "request" /\ UNCHANGED ret
             /\ msgs' = Append(msgs, [role |-> "user", step |-> 0, calls |-> <<>>])
    <3> DEFINE m == [role |-> "user", step |-> 0, calls |-> <<>>]
    <3>1. m \in Messages /\ m.role = "user"
      BY DEF Messages
    <3> HIDE DEF m
    <3>2. Trips' = Trips /\ Trips \in Nat /\ Trips > 0
      BY <2>1, <2>3 DEF Trips
    <3>3. msgs \in Seq(Messages) /\ Paired(mergeToolMessages(msgs)) /\ Tells(mergeToolMessages(msgs), Trips)
      BY <2>1 DEF Replay, Before
    <3>4. /\ msgs' \in Seq(Messages) /\ msgs' # <<>>
          /\ Paired(mergeToolMessages(msgs')) /\ Tells(mergeToolMessages(msgs'), Trips)
      BY <2>3, <3>1, <3>2, <3>3, InjectionReplays DEF m
    <3>5. ret'.kind = "pending"
      BY <2>1, <2>3, Running DEF Before
    <3> QED
      BY <2>1, <2>3, <3>2, <3>4, <3>5 DEF Replay, Before
  <2> QED
    BY <1>2, <2>2, <2>3 DEF BeforeStep
<1>3. CASE Respond
  <2>1. CASE UNCHANGED steps /\ pc' \in {"unwind", "finish"}
    <3>1. UNCHANGED <<msgs, opts>>
      BY <1>3 DEF Respond
    <3>2. ret' = Quits("panic") \/ ret' = Returns("error", <<>>, FinishInfo("abort", FALSE))
      BY <1>3, <2>1, Zenon DEF Respond, Panics
    <3>3. ret'.kind # "result"
      <4>1. ASSUME NEW k, NEW i, ret' = Returns(k, <<>>, i) PROVE ret'.kind = k
        BY <4>1
      <4> QED
        BY <3>2, <4>1
    <3> QED
      BY <2>1, <3>1, <3>3, ReplayQuiet DEF Before, After
  <2>2. CASE pc' = "stepFinish" /\ UNCHANGED ret
    <3>1. /\ Len(steps') = Len(steps) + 1 /\ \A k \in 1..Len(steps) : steps'[k] = steps[k]
          /\ Len(steps) \in Nat /\ pc = "respond" /\ UNCHANGED <<msgs, opts>>
      <4> DEFINE s == [number |-> step, text |-> resp.text, calls |-> resp.calls,
                       finish |-> resp.finish]
      <4>1. steps' = Append(steps, s) /\ steps \in Seq(Steps) /\ resp \in Responses /\ step \in Nat
        BY <1>3, <2>2, MaxStepsAssumption DEF Respond, Inv, Types
      <4>2. s \in Steps
        BY <4>1, ResponsesAssumption DEF Steps
      <4> HIDE DEF s
      <4> QED
        BY <1>3, <4>1, <4>2, Appended DEF Respond
    <3>2. Trips' = Trips /\ Trips = Len(steps)
      BY <2>2, <3>1 DEF Trips
    <3>3. ret'.kind = "pending"
      BY <2>2, <3>1, Running DEF Before
    <3>4. ASSUME ~opts'.providerDefined, NEW k \in 1..Trips'
          PROVE  steps'[k].calls # <<>> /\ opts'.toolMap
      BY <3>1, <3>2, <3>4 DEF Replay, Before
    <3> QED
      BY <2>2, <3>1, <3>2, <3>3, <3>4 DEF Replay, Before
  <2> QED
    BY <1>3, <2>1, <2>2 DEF Respond
<1>4. CASE StepFinish
  <2>1. /\ pc = "stepFinish" /\ UNCHANGED <<msgs, steps, opts>> /\ Len(steps) = step /\ step \in Nat
        /\ step > 0 /\ Trips = Len(steps) - 1 /\ steps \in Seq(Steps)
    BY <1>4, MaxStepsAssumption DEF StepFinish, Inv, Types, Counts, After, Trips
  <2>2. CASE Panics
    BY <2>1, <2>2, ReplayQuiet DEF Before, After
  <2>3. CASE pc' = "tools" /\ UNCHANGED ret
    <3>1. Trips' = Trips
      BY <2>1, <2>3 DEF Trips
    <3> QED
      BY <2>1, <2>3, <3>1, Running, ReplayQuiet DEF Before, After
  <2>4. CASE /\ EndsLoop(Normalize(resp), opts) /\ pc' = "finish"
             /\ \E info : ret' = Returns("result", buildResponseMessages(msgs, steps), info)
    <3>1. /\ msgs \in Seq(Messages) /\ Trips \in Nat
          /\ Paired(mergeToolMessages(msgs)) /\ Tells(mergeToolMessages(msgs), Trips)
          /\ Trips = 0 <=> msgs = <<>>
          /\ ~opts.providerDefined => \A k \in 1..Trips : steps[k].calls # <<>> /\ opts.toolMap
          /\ IsAnswer(resp) /\ Last(steps).calls = resp.calls /\ \A k \in 1..Len(steps) : steps[k].number = k
      BY <2>1 DEF Replay, Recorded, After
    <3>2. resp.calls # <<>> => ~opts.toolMap
      <4>1. resp.calls # <<>> => Normalize(resp).calls # <<>> /\ Normalize(resp).finish = "tool_calls"
        BY <3>1, Normalized
      <4> QED
        BY <2>4, <4>1 DEF EndsLoop
    <3>3. ~opts.providerDefined => resp.calls = <<>> \/ msgs = <<>>
      BY <3>1, <3>2
    <3>4. /\ opts.toolMap => Paired(ret'.msgs)
          /\ ~opts.providerDefined => ToldOnce(ret'.msgs, steps)
      <4>1. ret'.msgs = buildResponseMessages(msgs, steps)
        BY <2>4
      <4> QED
        BY <2>1, <3>1, <3>2, <3>3, <4>1, BuiltReplays
    <3> QED
      BY <2>1, <2>4, <3>1, <3>4 DEF Replay, Before, After
  <2> QED
    BY <1>4, <2>2, <2>3, <2>4, Zenon DEF StepFinish
<1>5. CASE Tools
  <2>1. /\ pc = "tools" /\ pc' = "stopWhen" /\ UNCHANGED <<steps, opts, ret>> /\ Len(steps) = step /\ step \in Nat
        /\ step > 0 /\ Trips = Len(steps) - 1 /\ steps \in Seq(Steps) /\ Trips' = Len(steps)
        /\ msgs' = appendToolRoundTrip(msgs, step, resp)
    BY <1>5, MaxStepsAssumption DEF Tools, Inv, Types, Counts, After, Trips
  <2>2. PICK n \in Nat : n = Trips /\ step = n + 1 /\ Trips' = n + 1
    BY <2>1
  <2>3. /\ msgs \in Seq(Messages) /\ resp.calls \in Seq(Calls)
        /\ Paired(mergeToolMessages(msgs)) /\ Tells(mergeToolMessages(msgs), n)
        /\ ~opts.providerDefined => \A k \in 1..n : steps[k].calls # <<>> /\ opts.toolMap
        /\ Last(steps).calls = resp.calls /\ ~EndsLoop(resp, opts)
    BY <2>1, <2>2 DEF Replay, Recorded, After, IsAnswer
  <2>4. /\ msgs' \in Seq(Messages) /\ msgs' # <<>>
        /\ Paired(mergeToolMessages(msgs')) /\ Tells(mergeToolMessages(msgs'), n + 1)
    BY <2>1, <2>2, <2>3, RoundTripReplays
  <2>5. ~opts.providerDefined => resp.calls # <<>> /\ opts.toolMap
    BY <2>3 DEF EndsLoop
  <2>6. Last(steps) = steps[n + 1]
    BY <2>1, <2>2 DEF Last
  <2>7. ~opts.providerDefined => \A k \in 1..(n + 1) : steps[k].calls # <<>> /\ opts.toolMap
    BY <2>3, <2>5, <2>6
  <2>8. ret'.kind = "pending"
    BY <2>1, Running DEF After
  <2> QED
    BY <2>1, <2>2, <2>4, <2>7, <2>8 DEF Replay, Before, After
<1>6. CASE StopWhen
  <2>1. /\ pc = "stopWhen" /\ pc' \in {"unwind", "finalize", "loop"} /\ UNCHANGED <<msgs, steps, opts>>
        /\ Len(steps) > 0 /\ (ret' = ret \/ ret'.kind # "result")
    BY <1>6, MaxStepsAssumption DEF StopWhen, Inv, Types, Counts, After
  <2>2. Trips' = Trips
    BY <2>1 DEF Trips
  <2> QED
    BY <2>1, <2>2, Running, ReplayQuiet DEF Before, After
<1>7. CASE Finalize
  <2>1. /\ pc = "finalize" /\ pc' = "finish" /\ UNCHANGED <<msgs, steps, opts>> /\ steps \in Seq(Steps)
        /\ Trips = Len(steps) /\ Len(steps) > 0 /\ Len(steps) \in Nat
        /\ ret'.kind = "result" /\ ret'.msgs = buildResponseMessages(msgs, steps)
    BY <1>7 DEF Finalize, Inv, Types, Trips, Replay
  <2>2. /\ msgs \in Seq(Messages)
        /\ Paired(mergeToolMessages(msgs)) /\ Tells(mergeToolMessages(msgs), Trips)
        /\ Trips = 0 <=> msgs = <<>>
        /\ ~opts.providerDefined => \A k \in 1..Trips : steps[k].calls # <<>> /\ opts.toolMap
        /\ \A k \in 1..Len(steps) : steps[k].number = k
    BY <2>1 DEF Replay, Recorded
  <2>3. ~opts.providerDefined => Last(steps).calls # <<>>
    BY <2>1, <2>2 DEF Last
  <2>4. Paired(ret'.msgs) /\ (~opts.providerDefined => ToldOnce(ret'.msgs, steps))
    BY <2>1, <2>2, <2>3, BuiltReplays
  <2> QED
    BY <2>1, <2>2, <2>4 DEF Replay, Before, After
<1>8. CASE Finish
  <2>1. /\ pc = "finish" /\ pc' = "unwind" /\ UNCHANGED <<msgs, steps, opts>>
        /\ (ret' = ret \/ ret'.kind # "result")
    BY <1>8 DEF Finish
  <2> QED
    BY <2>1, ReplayQuiet DEF Before, After
<1>9. CASE Unwind
  <2>1. pc' = "returned" /\ UNCHANGED <<msgs, steps, opts, ret>>
    BY <1>9 DEF Unwind
  <2> QED
    BY <2>1, ReplayQuiet DEF Before, After
<1>10. CASE UNCHANGED vars
  BY <1>10 DEF vars, Replay, Trips
<1> QED
  BY <1>1, <1>2, <1>3, <1>4, <1>5, <1>6, <1>7, <1>8, <1>9, <1>10 DEF Next

LEMMA ReplayInvariance == Spec => [](Inv /\ Recorded /\ Replay)
<1>1. Init => Recorded /\ Replay
  <2> SUFFICES ASSUME Init PROVE Recorded /\ Replay
    OBVIOUS
  <2>1. mergeToolMessages(<<>>) = <<>> /\ <<>> \in Seq(Messages) /\ Len(<<>>) = 0
    BY Merging
  <2>2. Paired(<<>>) /\ Tells(<<>>, 0)
    BY <2>1 DEF Paired, Tells
  <2>3. Trips = 0
    BY <2>1 DEF Init, Trips
  <2> QED
    BY <2>1, <2>2, <2>3 DEF Init, Recorded, Replay, Before, After, Quits, Returns
<1> QED
  BY Invariance, <1>1, RecordedNext, ReplayNext, PTL DEF Spec

\* Wherever the loop of GenerateText stops, ResponseMessages can be replayed to a
\* provider that rejects dangling calls, given that some tool is executable.
THEOREM ReplayIsSafe == Spec => []ReplaySafe
<1>1. Replay => ReplaySafe
  BY DEF Replay, ReplaySafe, returned
<1> QED
  BY ReplayInvariance, <1>1, PTL

\* Without provider-run tools, ResponseMessages tells every step once, in order.
THEOREM StepsToldOnce == Spec => []ToldOnceClientTools
<1>1. Replay => ToldOnceClientTools
  BY DEF Replay, ToldOnceClientTools, returned
<1> QED
  BY ReplayInvariance, <1>1, PTL

-----------------------------------------------------------------------------
\* What the caller gets is the conversation as it stands, or that and the last answer.
LEMMA Built ==
    ASSUME NEW ms \in Seq(Messages), NEW ss \in Seq(Steps), Len(ss) > 0, Last(ss).number = Len(ss)
    PROVE  \/ /\ buildResponseMessages(ms, ss) = mergeToolMessages(ms)
              /\ Last(ss).calls # <<>> => ms # <<>>
           \/ /\ \E a \in Messages : /\ a.role = "assistant"
                                     /\ buildResponseMessages(ms, ss) = Append(mergeToolMessages(ms), a)
              /\ Last(ss).calls # <<>> => ms = <<>>
<1>1. PICK M \in Seq(Messages) : M = mergeToolMessages(ms)
  BY MergedType
<1>2. PICK l \in Steps : l = Last(ss)
  BY DEF Last
<1>3. PICK a \in Messages : a = AssistantMsg(l.number, l.calls) /\ a.role = "assistant"
  BY <1>2, FinalAssistant
<1>4. Append(<<>>, a) = <<a>> /\ M \o <<a>> = Append(M, a) /\ M \o <<>> = M
  OBVIOUS
<1>5. buildFinalAssistantMessages(l) = IF l.text \/ l.calls # <<>> THEN <<a>> ELSE <<>>
  BY <1>3 DEF buildFinalAssistantMessages
<1>6. buildResponseMessages(ms, ss) = IF ms = <<>> THEN buildFinalAssistantMessages(l)
                                      ELSE IF l.calls # <<>> THEN M
                                      ELSE M \o buildFinalAssistantMessages(l)
  <2>1. ss # <<>>
    OBVIOUS
  <2> QED
    BY <1>1, <1>2, <2>1 DEF buildResponseMessages
<1>7. ms = <<>> => M = <<>>
  BY <1>1, Merging
<1> QED
  BY <1>1, <1>2, <1>3, <1>4, <1>5, <1>6, <1>7

\* A transcript of n told steps holds no answers to a later one.
LEMMA NothingAhead ==
    ASSUME NEW M \in Seq(Messages), NEW n \in Nat, Paired(M), Tells(M, n)
    PROVE  ~Unseen(M, n + 1)
<1> SUFFICES ASSUME Unseen(M, n + 1) PROVE FALSE
  OBVIOUS
<1>1. PICK k \in 1..Len(M) : k = Len(M) /\ M[k].role = "tool" /\ M[k].step = n + 1
  BY DEF Unseen, Last
<1>2. k > 1 /\ M[k - 1].role = "assistant" /\ M[k - 1].step = n + 1 /\ k - 1 \in 1..Len(M)
  BY <1>1 DEF Paired
<1>3. M[k - 1].step \in 1..n
  BY <1>2 DEF Tells
<1> QED
  BY <1>2, <1>3

\* The assistant's word is never an answer nobody has seen.
LEMMA Spoken ==
    ASSUME NEW M \in Seq(Messages), NEW n, NEW a \in Messages, a.role # "tool"
    PROVE  ~Unseen(Append(M, a), n)
<1>1. Last(Append(M, a)) = a
  BY ReplaceLast
<1> QED
  BY <1>1 DEF Unseen

\* After a round trip there are such answers exactly if the client ran a call.
LEMMA RoundTripLeaves ==
    ASSUME NEW ms \in Seq(Messages), NEW n \in Nat, NEW r, r.calls \in Seq(Calls)
    PROVE  Unseen(mergeToolMessages(appendToolRoundTrip(ms, n, r)), n) <=> clientCalls(r.calls) # <<>>
<1>1. PICK M \in Seq(Messages) : M = mergeToolMessages(ms)
  BY MergedType
<1>2. PICK mine \in Seq(Calls) : mine = clientCalls(r.calls)
  BY Mine
<1>3. PICK a \in Messages : a = AssistantMsg(n, r.calls) /\ a.role = "assistant"
  <2>1. AssistantMsg(n, r.calls) \in Messages /\ AssistantMsg(n, r.calls).role = "assistant"
    BY DEF AssistantMsg, Messages
  <2> QED
    BY <2>1
<1>4. PICK said \in Seq(Messages) : said = Append(M, a)
  BY ReplaceLast
<1>5. mergeToolMessages(appendToolRoundTrip(ms, n, r)) = Answered(said, n, mine)
  BY <1>1, <1>2, <1>3, <1>4, RoundTrip
<1>6. CASE mine = <<>>
  <2>1. ~Unseen(said, n)
    BY <1>3, <1>4, Spoken
  <2> QED
    BY <1>2, <1>5, <1>6, <2>1 DEF Answered
<1>7. CASE mine # <<>>
  <2>1. PICK t \in Messages : t = ToolMsg(n, mine) /\ t.role = "tool" /\ t.step = n
    BY <1>2, ToolMsgType
  <2>2. Append(said, t) # <<>> /\ Last(Append(said, t)) = t
    BY ReplaceLast
  <2>3. Unseen(Append(said, t), n)
    BY <2>1, <2>2 DEF Unseen
  <2> QED
    BY <1>2, <1>5, <1>7, <2>1, <2>3 DEF Answered
<1> QED
  BY <1>6, <1>7

\* The body of CutShortIsTold.
Truthful ==
    LET unseen  == Unseen(ret.msgs, Len(steps))
        stopped == ret.info.cause \in {"before-step", "predicate"}
    IN  /\ unseen => (ret.info.exhausted \/ stopped)
        /\ ret.info.exhausted =>
              /\ step > MaxSteps
              /\ ~stopped
              /\ unseen \/ clientCalls(Last(steps).calls) = <<>>

\* Only a hook leaves a cause, and it leaves the loop; without one the loop is left
\* when its steps are used up.  At its head, and after it, the conversation ends with
\* unseen answers exactly if the last answer called on the client.
Leftovers ==
    /\ hookStopped <=> stopCause # "none"
    /\ hookStopped => pc \in Over
    /\ pc = "finalize" /\ ~hookStopped => step > MaxSteps /\ Len(steps) >= MaxSteps
    /\ pc \in {"stopWhen", "loop", "finalize"} /\ Len(steps) > 0 =>
          (Unseen(mergeToolMessages(msgs), Len(steps)) <=> clientCalls(Last(steps).calls) # <<>>)
    /\ ret.kind = "result" => Truthful /\ pc \in {"finish", "unwind", "returned"}

LEMMA LeftoversNext == Inv /\ Recorded /\ Replay /\ Leftovers /\ [Next]_vars => Leftovers'
<1> SUFFICES ASSUME Inv, Recorded, Replay, Leftovers, [Next]_vars PROVE Leftovers'
  OBVIOUS
<1> USE DEF Over
<1>0. MaxSteps \in Nat /\ MaxSteps > 0 /\ step \in Nat
  BY MaxStepsAssumption DEF Inv, Types
<1>1. ASSUME UNCHANGED <<step, steps, msgs, hookStopped, stopCause>>,
             pc' \notin {"stopWhen", "loop", "finalize"},
             hookStopped => pc' \in Over,
             ret'.kind = "result" => ret' = ret /\ pc' \in {"finish", "unwind", "returned"}
      PROVE  Leftovers'
  BY <1>1 DEF Leftovers, Truthful
<1>2. CASE Enter
  <2>1. /\ pc = "enter" /\ UNCHANGED <<step, steps, msgs, hookStopped, stopCause>> /\ Len(steps) = 0
        /\ ~hookStopped /\ pc' \in {"loop", "unwind"} /\ ret'.kind # "result"
    BY <1>2, Running DEF Enter, Inv, Types, Counts, Before, Leftovers, Quits, Returns
  <2> QED
    BY <2>1 DEF Leftovers
<1>3. CASE BeforeStep
  <2>1. /\ pc = "loop" /\ ~hookStopped /\ stopCause = "none" /\ UNCHANGED <<step, steps>>
        /\ ret'.kind # "result" /\ pc' \in {"request", "finalize", "unwind"}
        /\ pc' = "finalize" => hookStopped' /\ stopCause' = "before-step" /\ UNCHANGED msgs
        /\ pc' # "finalize" => UNCHANGED <<hookStopped, stopCause>>
    BY <1>3, Running DEF BeforeStep, Before, Leftovers, Panics, Quits, Returns
  <2> QED
    BY <2>1 DEF Leftovers
<1>4. CASE Request \/ Call
  BY <1>1, <1>4, Running DEF Request, Call, Panics, Quits, Returns, Before, Leftovers
<1>5. CASE Respond
  <2>1. /\ pc = "respond" /\ UNCHANGED <<step, msgs, hookStopped, stopCause>> /\ ~hookStopped
        /\ pc' \in {"unwind", "finish", "stepFinish"}
    BY <1>5 DEF Respond, Panics, Leftovers
  <2>2. \/ UNCHANGED ret
        \/ \E info : \E k \in {"panic", "error"} : ret' = Returns(k, <<>>, info)
    BY <1>5 DEF Respond, Panics, Quits
  <2>3. ret'.kind # "result"
    BY <2>1, <2>2, Running DEF Returns, Before
  <2> QED
    BY <2>1, <2>3 DEF Leftovers
<1>6. CASE StepFinish
  <2>1. /\ pc = "stepFinish" /\ UNCHANGED <<step, steps, msgs, hookStopped, stopCause>> /\ ~hookStopped
        /\ pc' \in {"unwind", "finish", "tools"} /\ Len(steps) = step /\ Trips = step - 1
        /\ steps \in Seq(Steps) /\ step > 0
    <3>1. /\ pc = "stepFinish" /\ UNCHANGED <<step, steps, msgs, hookStopped, stopCause>>
          /\ pc' \in {"unwind", "finish", "tools"}
      BY <1>6, StepFinishMoves DEF StepFinish
    <3>2. Len(steps) = step /\ steps \in Seq(Steps) /\ step > 0
      BY <3>1, MaxStepsAssumption DEF Inv, Types, Counts, After
    <3> QED
      BY <3>1, <3>2 DEF Leftovers, Trips
  <2>2. CASE ret'.kind # "result"
    BY <1>1, <2>1, <2>2
  <2>3. CASE pc' = "tools" /\ UNCHANGED ret
    BY <1>1, <2>1, <2>3, Running DEF After
  <2>4. CASE /\ pc' = "finish" /\ ret'.msgs = buildResponseMessages(msgs, steps) /\ ret'.kind = "result"
             /\ ret'.info.cause \in {"no-executable-tools", "natural"} /\ ~ret'.info.exhausted
    <3>1. PICK M \in Seq(Messages) : M = mergeToolMessages(msgs)
      BY MergedType DEF Replay
    <3>2. PICK n \in Nat : n = Trips /\ n + 1 = Len(steps)
      BY <1>0, <2>1
    <3>3. msgs \in Seq(Messages) /\ Paired(M) /\ Tells(M, n) /\ Last(steps).number = Len(steps)
      BY <2>1, <3>1, <3>2 DEF Replay, Recorded, After, Last
    <3>4. ~Unseen(M, Len(steps))
      BY <3>2, <3>3, NothingAhead
    <3>5. \/ ret'.msgs = M
          \/ \E a \in Messages : a.role = "assistant" /\ ret'.msgs = Append(M, a)
      BY <2>1, <2>4, <3>1, <3>3, <1>0, Built
    <3>6. ~Unseen(ret'.msgs, Len(steps))
      BY <3>4, <3>5, Spoken
    <3> QED
      BY <2>1, <2>4, <3>6 DEF Leftovers, Truthful
  <2>5. \/ Panics \/ (pc' = "tools" /\ UNCHANGED ret)
        \/ /\ pc' = "finish"
           /\ \E c \in {"no-executable-tools", "natural"} :
                 ret' = Returns("result", buildResponseMessages(msgs, steps), FinishInfo(c, FALSE))
    BY <1>6 DEF StepFinish
  <2> QED
    BY <2>2, <2>3, <2>4, <2>5 DEF Panics, Quits, Returns, FinishInfo
<1>7. CASE Tools
  <2>1. /\ pc = "tools" /\ pc' = "stopWhen" /\ UNCHANGED <<step, steps, hookStopped, stopCause, ret>>
        /\ ~hookStopped /\ Len(steps) = step /\ msgs' = appendToolRoundTrip(msgs, step, resp)
    BY <1>7 DEF Tools, Inv, Counts, After, Leftovers
  <2>2. msgs \in Seq(Messages) /\ resp.calls \in Seq(Calls) /\ Last(steps).calls = resp.calls
    BY <2>1 DEF Replay, Recorded, After, IsAnswer
  <2>3. Unseen(mergeToolMessages(msgs'), step) <=> clientCalls(resp.calls) # <<>>
    BY <1>0, <2>1, <2>2, RoundTripLeaves
  <2>4. ret'.kind # "result"
    BY <2>1, Running DEF After
  <2> QED
    BY <2>1, <2>2, <2>3, <2>4 DEF Leftovers
<1>8. CASE StopWhen
  <2>1. /\ pc = "stopWhen" /\ UNCHANGED <<steps, msgs>> /\ ~hookStopped /\ stopCause = "none"
        /\ Len(steps) = step /\ ret'.kind # "result"
    BY <1>8, Running DEF StopWhen, Inv, Counts, After, Leftovers, Panics, Quits, Returns
  <2>2. CASE pc' = "unwind" /\ UNCHANGED <<step, hookStopped, stopCause>>
    BY <2>1, <2>2 DEF Leftovers
  <2>3. CASE pc' = "finalize" /\ hookStopped' = TRUE /\ stopCause' = "predicate" /\ UNCHANGED step
    BY <2>1, <2>3 DEF Leftovers
  <2>4. CASE /\ step' = step + 1 /\ pc' = (IF step < MaxSteps THEN "loop" ELSE "finalize")
             /\ UNCHANGED <<hookStopped, stopCause>>
    <3>1. pc' \in {"loop", "finalize"} /\ (pc' = "finalize" => step' > MaxSteps /\ Len(steps') >= MaxSteps)
      BY <1>0, <2>1, <2>4
    <3> QED
      BY <2>1, <2>4, <3>1 DEF Leftovers
  <2> QED
    BY <1>8, <2>2, <2>3, <2>4, StopWhenMoves
<1>9. CASE Finalize
  <2>1. /\ pc = "finalize" /\ pc' = "finish" /\ UNCHANGED <<step, steps, msgs, hookStopped, stopCause>>
        /\ Len(steps) > 0 /\ steps \in Seq(Steps) /\ msgs \in Seq(Messages) /\ Trips = Len(steps)
        /\ Last(steps).number = Len(steps)
        /\ stopCause \in {"none", "before-step", "predicate"}
    BY <1>9 DEF Finalize, Inv, Types, Replay, Recorded, Trips, Last
  <2>2. PICK f : f = finalizeStopCause(hookStopped, stopCause, steps, MaxSteps)
    OBVIOUS
  <2>3. /\ ret'.kind = "result" /\ ret'.msgs = buildResponseMessages(msgs, steps)
        /\ ret'.info.cause = f.cause /\ ret'.info.exhausted = f.exhausted
    BY <1>9, <2>2 DEF Finalize, Returns, FinishInfo
  <2>4. PICK M \in Seq(Messages) : M = mergeToolMessages(msgs)
    BY <2>1, MergedType
  <2>5. Unseen(M, Len(steps)) <=> clientCalls(Last(steps).calls) # <<>>
    BY <2>1, <2>4 DEF Leftovers
  <2>6. \/ ret'.msgs = M
        \/ /\ \E a \in Messages : a.role = "assistant" /\ ret'.msgs = Append(M, a)
           /\ Last(steps).calls # <<>> => msgs = <<>>
    BY <2>1, <2>3, <2>4, Built
  <2>7. msgs # <<>>
    BY <2>1 DEF Replay
  <2>8. Unseen(ret'.msgs, Len(steps)) <=> clientCalls(Last(steps).calls) # <<>>
    <3>1. CASE ret'.msgs = M
      BY <2>5, <3>1
    <3>2. CASE Last(steps).calls = <<>> /\ \E a \in Messages : a.role = "assistant" /\ ret'.msgs = Append(M, a)
      <4>1. ~Unseen(ret'.msgs, Len(steps))
        BY <3>2, Spoken
      <4> QED
        BY <3>2, <4>1, Mine
    <3> QED
      BY <2>6, <2>7, <3>1, <3>2
  <2>9. clientCalls(Last(steps).calls) # <<>> => Last(steps).calls # <<>>
    BY Mine
  <2>10. /\ f.exhausted <=> /\ ~hookStopped /\ stopCause = "none"
                            /\ Len(steps) >= MaxSteps /\ steps # <<>> /\ Last(steps).calls # <<>>
         /\ f.exhausted => f.cause = "max-steps"
         /\ stopCause # "none" => f.cause = stopCause
    BY <2>1, <2>2, FinalCause
  <2>11. ~hookStopped => step > MaxSteps /\ Len(steps) >= MaxSteps /\ stopCause = "none"
    BY <2>1 DEF Leftovers
  <2>12. hookStopped => stopCause \in {"before-step", "predicate"}
    BY <2>1 DEF Leftovers
  <2>13. Truthful'
    BY <2>1, <2>3, <2>8, <2>9, <2>10, <2>11, <2>12 DEF Truthful
  <2> QED
    BY <2>1, <2>13 DEF Leftovers
<1>10. CASE Finish
  BY <1>1, <1>10 DEF Finish, Quits, Returns
<1>11. CASE Unwind
  BY <1>1, <1>11 DEF Unwind
<1>12. CASE UNCHANGED vars
  BY <1>12 DEF vars, Leftovers, Truthful
<1> QED
  BY <1>2, <1>3, <1>4, <1>5, <1>6, <1>7, <1>8, <1>9, <1>10, <1>11, <1>12 DEF Next

\* A caller of GenerateText can tell from the report whether the conversation it gets
\* back is finished, for every MaxSteps, every answer and every hook: results that no
\* model call has seen mean exhaustion or a hook, and exhaustion means that the loop
\* ran out of steps.
THEOREM ExhaustionTruthful == Spec => []CutShortIsTold
<1>1. Init => Leftovers
  BY DEF Init, Leftovers, Quits, Returns
<1>2. Leftovers => CutShortIsTold
  BY DEF Leftovers, Truthful, CutShortIsTold
<1> QED
  BY ReplayInvariance, LeftoversNext, <1>1, <1>2, PTL DEF Spec
=============================================================================
