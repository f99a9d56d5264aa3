--------------------------- MODULE AgentLifecycle ---------------------------
(***************************************************************************)
(* What WithStateRef promises to a poller of AgentState.Observe: the       *)
(* (kind, step) pairs that the loops of generate.go may publish, in the    *)
(* order they may publish them.  GenerateText (module ToolLoop) and        *)
(* StreamText (module StreamLoop) both implement this specification.       *)
(***************************************************************************)
EXTENDS Naturals

CONSTANT MaxSteps     \* options.MaxSteps, at least 1

VARIABLES kind, step
vars == <<kind, step>>

LoopKinds == {"starting", "llm-in-flight", "step-finished", "tool-executing", "idle"}

Init == kind = "starting" /\ step = 0

\* A further model call is announced: the counter advances by exactly one.
Announce ==
    /\ kind \in {"starting", "step-finished", "tool-executing"}
    /\ step < MaxSteps
    /\ kind' = "llm-in-flight"
    /\ step' = step + 1

\* The announced call came back.
FinishStep == kind = "llm-in-flight" /\ kind' = "step-finished" /\ UNCHANGED step

\* The calls the model asked for are running.
RunTools == kind = "step-finished" /\ kind' = "tool-executing" /\ UNCHANGED step

\* The loop is over, by whichever path; the counter keeps its highest value.
Rest == kind # "idle" /\ kind' = "idle" /\ UNCHANGED step

Next == Announce \/ FinishStep \/ RunTools \/ Rest

\* A poller that waits for "idle" is not left waiting.
Spec == Init /\ [][Next]_vars /\ WF_vars(Rest)
=============================================================================
