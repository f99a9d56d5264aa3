----------------------------- MODULE AgentState -----------------------------
(***************************************************************************)
(* agent_state.go: the AgentState word, shared without a lock by goai's    *)
(* loop, which stores into it blindly (set), by the consumers that end its *)
(* life with a compare-and-swap (SetTerminal), and by pollers (Observe).   *)
(*                                                                         *)
(* The two fields of the word are one value, as in packed: the step is     *)
(* the high half and the kind the low half of one atomic.Uint64.           *)
(*                                                                         *)
(* goai's stores are those of AgentLifecycle; wkind and wstep are what the *)
(* loop last stored, which it never reads back.                            *)
(***************************************************************************)
EXTENDS Naturals, FiniteSets

CONSTANTS
    MaxSteps,
    Consumers,      \* goroutines that call SetTerminal, once each
    Patient         \* those that do so only once goai has made its last store

ASSUME MaxStepsAssumption == MaxSteps \in Nat \ {0}
ASSUME PatientAssumption == Patient \subseteq Consumers

VARIABLES
    packed,         \* the word: [kind, step]
    wkind, wstep,   \* goai's last store
    place,          \* of each consumer: "idle", "load", "cas", "true", "false"
    wants,          \* the terminal kind a consumer asks for
    seen            \* the word a consumer loaded

wordVars == <<packed, wkind, wstep, place, wants, seen>>

TerminalKinds == {"done", "cancelled", "error"}
IsTerminal(k) == k \in TerminalKinds

Loop == INSTANCE AgentLifecycle WITH kind <- wkind, step <- wstep

LoopOver == wkind = "idle"
Words == [kind : Loop!LoopKinds \cup TerminalKinds, step : 0..MaxSteps]

WordInit ==
    /\ Loop!Init
    /\ packed = [kind |-> "starting", step |-> 0]
    /\ place = [c \in Consumers |-> "idle"]
    /\ wants \in [Consumers -> TerminalKinds]
    /\ seen = [c \in Consumers |-> packed]

-----------------------------------------------------------------------------
\* goai publishes: a blind store of both fields.
set ==
    /\ Loop!Next
    /\ packed' = [kind |-> wkind', step |-> wstep']
    /\ UNCHANGED <<place, wants, seen>>

\* MUTANT: the check that decides to give up is not the word that is swapped.
LoadWithoutCheck(c) ==
    /\ place[c] = "load"
    /\ seen' = [seen EXCEPT ![c] = packed]
    /\ place' = [place EXCEPT ![c] = "cas"]
    /\ UNCHANGED <<packed, wkind, wstep, wants>>

\* MUTANT: a plain store where the compare-and-swap is.
StoreAnyway(c) ==
    /\ place[c] = "cas"
    /\ packed' = [kind |-> wants[c], step |-> seen[c].step]
    /\ place' = [place EXCEPT ![c] = "true"]
    /\ UNCHANGED <<wkind, wstep, wants, seen>>

\* SetTerminal is called.
Calls(c) ==
    /\ place[c] = "idle"
    /\ c \in Patient => LoopOver
    /\ place' = [place EXCEPT ![c] = "load"]
    /\ UNCHANGED <<packed, wkind, wstep, wants, seen>>

\* The load at the head of the retry loop; a terminal word ends the call.
Load(c) ==
    /\ place[c] = "load"
    /\ seen' = [seen EXCEPT ![c] = packed]
    /\ place' = [place EXCEPT ![c] = IF IsTerminal(packed.kind) THEN "false" ELSE "cas"]
    /\ UNCHANGED <<packed, wkind, wstep, wants>>

\* CompareAndSwap: the step counter is carried over.
CAS(c) ==
    /\ place[c] = "cas"
    /\ \/ /\ packed = seen[c]
          /\ packed' = [kind |-> wants[c], step |-> seen[c].step]
          /\ place' = [place EXCEPT ![c] = "true"]
       \/ /\ packed # seen[c]
          /\ place' = [place EXCEPT ![c] = "load"]
          /\ UNCHANGED packed
    /\ UNCHANGED <<wkind, wstep, wants, seen>>

SetTerminal(c) == Calls(c) \/ Load(c) \/ CAS(c)

WordNext == set \/ \E c \in Consumers : SetTerminal(c)

\* The loop ends by itself; a consumer inside SetTerminal keeps running.
WordSpec == /\ WordInit /\ [][WordNext]_wordVars
            /\ WF_wordVars(set)
            /\ \A c \in Consumers : WF_wordVars(SetTerminal(c))

-----------------------------------------------------------------------------
TypeOK ==
    /\ packed \in Words
    /\ wkind \in Loop!LoopKinds
    /\ wstep \in 0..MaxSteps
    /\ place \in [Consumers -> {"idle", "load", "cas", "true", "false"}]
    /\ wants \in [Consumers -> TerminalKinds]
    /\ seen \in [Consumers -> Words]

\* A word read by Observe never shows a lower step than one read before it, with
\* any number of consumers ending the life of the state concurrently.
CounterNeverRegresses == [][packed'.step >= packed.step]_wordVars

\* StepDone, StepCancelled and StepError are sticky once goai has made its last
\* store: no later swap replaces the terminal word.
Sticky == [][(LoopOver /\ IsTerminal(packed.kind)) => packed' = packed]_wordVars

\* "A second SetTerminal call on an already-terminal state returns false": of all
\* the calls that follow goai's last store, at most one reports that it made the
\* transition, and the word is the one it asked for, whatever the calls that came
\* too early did.
OneWinner ==
    /\ \A c, d \in Patient : (place[c] = "true" /\ place[d] = "true") => c = d
    /\ \A c \in Patient : place[c] = "true" => packed.kind = wants[c]

=============================================================================
