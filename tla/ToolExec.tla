------------------------------ MODULE ToolExec ------------------------------
(***************************************************************************)
(* executeToolsParallel (generate.go): the tool calls of one step, each in *)
(* a goroutine of its own or, with WithSequentialToolExecution, one after  *)
(* the other in the caller's.  Around every execution stand four user      *)
(* callbacks, each of which may panic: OnToolCallStart (several), the      *)
(* OnBeforeToolExecute interceptor, the tool itself, OnAfterToolExecute,   *)
(* and OnToolCall (several, whose panics change nothing).                  *)
(*                                                                         *)
(* An action is one callback of one call.  results[i] is the toolOutput    *)
(* slot of call i; log[i] is a history of what ran for it.                 *)
(***************************************************************************)
EXTENDS Naturals, SequencesExt, FiniteSetsExt

CONSTANTS
    N,              \* number of calls in the step
    StartHooks      \* number of OnToolCallStart callbacks

ASSUME CountsAssumption == N \in Nat \ {0} /\ StartHooks \in Nat

Calls == 1..N
Kinds == {"provider", "unknown", "known"}

VARIABLES
    kind,           \* of each call: run by the provider, not in toolMap, executable
    sequential,     \* options.SequentialTools
    next,           \* the call the launching loop is at
    pc,             \* where each call is
    hookPanicked,   \* per call: one of its OnToolCallStart callbacks panicked
    results,        \* []toolOutput: where the call's answer came from
    log,            \* per call: the callbacks that ran
    wg,             \* the WaitGroup counter
    returned        \* [msgs, results] once the function has returned, or <<>>

vars == <<kind, sequential, next, pc, hookPanicked, results, log, wg, returned>>
call == <<kind, sequential, hookPanicked>>

Init ==
    /\ kind \in [Calls -> Kinds]
    /\ sequential \in BOOLEAN
    /\ next = 1
    /\ pc = [i \in Calls |-> "idle"]
    /\ hookPanicked = [i \in Calls |-> FALSE]
    /\ results = [i \in Calls |-> "unset"]
    /\ log = [i \in Calls |-> <<>>]
    /\ wg = 0
    /\ returned = <<>>

Ran(i, e) == log' = [log EXCEPT ![i] = Append(@, e)]
Goto(i, l) == pc' = [pc EXCEPT ![i] = l]
Answer(i, r) == results' = [results EXCEPT ![i] = r]
Quiet == UNCHANGED <<next, wg, returned>>

-----------------------------------------------------------------------------
\* The launching loop reaches a call.  An unknown tool's callbacks run in the
\* loop itself; a known tool gets a goroutine, or the loop runs it.
Launch ==
    /\ next <= N
    /\ pc[next] = "idle"
    /\ \/ /\ kind[next] = "provider"
          /\ Goto(next, "done") /\ Answer(next, "inline")
          /\ next' = next + 1 /\ UNCHANGED wg
       \/ /\ kind[next] = "unknown"
          /\ Goto(next, "start") /\ Answer(next, "unknown")
          /\ UNCHANGED <<next, wg>>
       \/ /\ kind[next] = "known"
          /\ Goto(next, "start") /\ UNCHANGED results
          /\ IF sequential THEN UNCHANGED <<next, wg>>
             ELSE next' = next + 1 /\ wg' = wg + 1
    /\ UNCHANGED <<call, log, returned>>

\* MUTANT: Done is left out.
OverNeverDone(i) ==
    /\ Goto(i, "done")
    /\ IF kind[i] = "known" /\ ~sequential THEN UNCHANGED next ELSE next' = next + 1
    /\ UNCHANGED <<returned, wg>>

\* The call is over: its goroutine leaves the WaitGroup, or the loop moves on.
Over(i) ==
    /\ Goto(i, "done")
    /\ IF kind[i] = "known" /\ ~sequential
       THEN wg' = wg - 1 /\ UNCHANGED next
       ELSE next' = next + 1 /\ UNCHANGED wg
    /\ UNCHANGED returned

\* One OnToolCallStart callback; the rest still run when it panics.
Start(i) ==
    /\ pc[i] = "start"
    /\ Len(log[i]) < StartHooks
    /\ Ran(i, "start")
    /\ \E p \in BOOLEAN : hookPanicked' = [hookPanicked EXCEPT ![i] = @ \/ p]
    /\ UNCHANGED <<pc, results, kind, sequential>> /\ Quiet

\* All of them ran.  A known tool whose start callback panicked is not run and not
\* reported to OnToolCall; an unknown one is reported whatever they did.
Started(i) ==
    /\ pc[i] = "start"
    /\ Len(log[i]) = StartHooks
    /\ \/ kind[i] = "unknown" /\ Goto(i, "report") /\ UNCHANGED results /\ Quiet
       \/ kind[i] = "known" /\ hookPanicked[i] /\ Answer(i, "hook-panic") /\ Over(i)
       \/ kind[i] = "known" /\ ~hookPanicked[i] /\ Goto(i, "before") /\ UNCHANGED results /\ Quiet
    /\ UNCHANGED <<log, call>>

\* MUTANT: a panicking interceptor lets the tool run.
BeforeFailsOpen(i) ==
    /\ pc[i] = "before"
    /\ \/ Ran(i, "before") /\ Goto(i, "exec") /\ UNCHANGED results
       \/ Ran(i, "veto") /\ Goto(i, "report") /\ Answer(i, "skipped")
       \/ Ran(i, "veto") /\ Goto(i, "exec") /\ UNCHANGED results
    /\ UNCHANGED call /\ Quiet

\* OnBeforeToolExecute lets the tool run, skips it with a result, or skips it with an
\* error, which is also what its panic does.
Before(i) ==
    /\ pc[i] = "before"
    /\ \/ Ran(i, "before") /\ Goto(i, "exec") /\ UNCHANGED results
       \/ Ran(i, "veto") /\ Goto(i, "report") /\ Answer(i, "skipped")
       \/ Ran(i, "veto") /\ Goto(i, "report") /\ Answer(i, "skip-error")
    /\ UNCHANGED call /\ Quiet

\* tool.Execute returns an output or an error, or panics: the recover handler then
\* answers for it and nothing else runs.
Exec(i) ==
    /\ pc[i] = "exec"
    /\ Ran(i, "exec")
    /\ \/ \E r \in {"output", "error"} : Answer(i, r) /\ Goto(i, "after") /\ Quiet
       \/ Answer(i, "tool-panic") /\ Over(i)
    /\ UNCHANGED call

\* OnAfterToolExecute may replace the output, add an error or panic; its panic keeps
\* what the tool returned.
After(i) ==
    /\ pc[i] = "after"
    /\ Ran(i, "after")
    /\ \E r \in {results[i], "output", "error"} :
          (results[i] = "error" => r = "error") /\ Answer(i, r)
    /\ Goto(i, "report")
    /\ UNCHANGED call /\ Quiet

\* The OnToolCall callbacks: each is recovered, so none changes anything.
Report(i) ==
    /\ pc[i] = "report"
    /\ Ran(i, "report")
    /\ Over(i)
    /\ UNCHANGED <<call, results>>

\* One tool message per call the client answers, in call order.
buildToolMessages ==
    LET mine == SelectSeq([i \in Calls |-> i], LAMBDA i : kind[i] # "provider")
    IN  [k \in 1..Len(mine) |-> <<mine[k], results[mine[k]]>>]

\* One ToolResult per call, the provider's included.
buildToolResults == [i \in Calls |-> <<i, results[i]>>]

\* MUTANT: the wait is left out.
ReturnAtOnce ==
    /\ next > N
    /\ returned = <<>>
    /\ returned' = [msgs |-> buildToolMessages, results |-> buildToolResults]
    /\ UNCHANGED <<call, next, pc, results, log, wg>>

\* wg.Wait, then the messages for the model and the results for the step.
Return ==
    /\ next > N
    /\ wg = 0
    /\ returned = <<>>
    /\ returned' = [msgs |-> buildToolMessages, results |-> buildToolResults]
    /\ UNCHANGED <<call, next, pc, results, log, wg>>

Callbacks(i) == Start(i) \/ Started(i) \/ Before(i) \/ Exec(i) \/ After(i) \/ Report(i)
Next == Launch \/ Return \/ \E i \in Calls : Callbacks(i)

\* Go schedules every goroutine, and the tools and callbacks return or panic.
Spec ==
    /\ Init /\ [][Next]_vars
    /\ WF_vars(Launch) /\ WF_vars(Return)
    /\ \A i \in Calls : WF_vars(Callbacks(i))

-----------------------------------------------------------------------------
Outcomes == {"unset", "inline", "unknown", "hook-panic", "skipped", "skip-error",
             "output", "error", "tool-panic"}

HasRun(i, e) == \E k \in 1..Len(log[i]) : log[i][k] = e
Running(i) == pc[i] \notin {"idle", "done"}

\* The gate holds: a tool never runs after one of its start callbacks panicked or its
\* interceptor skipped it or panicked (the permission gate fails closed).
GateFailsClosed ==
    \A i \in Calls : HasRun(i, "exec") => ~hookPanicked[i] /\ ~HasRun(i, "veto")

\* No goroutine of the step outlives the function, whose results nobody writes after
\* they were read: every call is over and answered when it returns.
AllAnswered ==
    returned # <<>> =>
       \A i \in Calls : pc[i] = "done" /\ returned.results[i] = <<i, results[i]>>
                        /\ results[i] # "unset"

\* WithSequentialToolExecution: a call begins only when every earlier one is over,
\* its callbacks included.
OneAtATime ==
    sequential => \A i, j \in Calls : i < j /\ pc[j] # "idle" => pc[i] = "done"

\* The WaitGroup counts the goroutines that are still running.
WaitCounts == wg = Cardinality({i \in Calls : Running(i) /\ kind[i] = "known" /\ ~sequential})

\* The function returns, whatever panics.
Returns == <>(returned # <<>>)

=============================================================================
