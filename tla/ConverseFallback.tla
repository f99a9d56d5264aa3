------------------------- MODULE ConverseFallback --------------------------
(***************************************************************************)
(* bedrock.go doRequest: a Converse request and the chain of fallbacks     *)
(* behind it.  The callers share one model instance: the first two         *)
(* fallbacks change its id and region for all of them, the others change   *)
(* only the caller's own request.  Each read and write of the instance is  *)
(* a step of its own, as its lock is taken and released around each.       *)
(***************************************************************************)
EXTENDS ClaudeRequest

CONSTANT
    Callers     \* the goroutines that use the model instance

VARIABLES
    mid,        \* m.id: the prefixes in front of the bare id
    region,     \* m.opts.region: where it was made, or us-east-1
    attempted,  \* m.fallbackAttempted has run
    moved,      \* m.fallbackDone
    stage,      \* per caller: where in doRequest it is
    then,       \* per caller: the fallback to look at after the next failure
    want,       \* per caller: the parameters, as the fallbacks leave them
    streaming,  \* per caller: the request asks for a stream
    err,        \* per caller: why the last request was refused
    at,         \* per caller: the id and region the last request went to
    tried,      \* per caller: those that would not do, in this call
    met         \* per caller: another caller moved the instance meanwhile

instance == <<mid, region, attempted, moved>>
chainVars == <<mid, region, attempted, moved, stage, then, want, streaming, err, at, tried, met>>

Bare == <<>>
Profile == <<"us.">>
Home == "home"
US == "us-east-1"

\* A service: the pairs of id and region it serves, those it serves with
\* provisioned throughput only, and what else it refuses: a limit on the
\* output, tools in a stream (at once, or in the stream's first frame), a
\* cache point.
Misplaced == {"unknown", "provisioned"}
Refuses(service, c) ==
    CASE at[c] \in service.provisioned -> {"provisioned"}
      [] at[c] \notin service.serves \cup service.provisioned -> {"unknown"}
      [] OTHER -> {r \in service.refuses :
            \/ r = "limit" /\ want[c].limit > 0
            \/ r \in {"tools", "frame"} /\ streaming[c] /\ want[c].tools # <<>>
            \/ r = "cache" /\ want[c].caching}

NoAsk ==
    [tools |-> <<>>, choice |-> "", format |-> "", limit |-> 0, budget |-> 0, sampling |-> {},
     system |-> FALSE, caching |-> FALSE, opts |-> Nothing, called |-> {}]
ChainInit ==
    /\ mid = Bare /\ region = Home /\ attempted = FALSE /\ moved = FALSE
    /\ stage = [c \in Callers |-> "idle"] /\ then = [c \in Callers |-> "cross"]
    /\ want = [c \in Callers |-> NoAsk] /\ streaming = [c \in Callers |-> FALSE]
    /\ err = [c \in Callers |-> ""] /\ at = [c \in Callers |-> <<Bare, Home>>]
    /\ tried = [c \in Callers |-> {}] /\ met = [c \in Callers |-> FALSE]

\* doRequest begins.
doRequest(c, p, streams) ==
    /\ stage[c] = "idle"
    /\ stage' = [stage EXCEPT ![c] = "send"] /\ then' = [then EXCEPT ![c] = "cross"]
    /\ want' = [want EXCEPT ![c] = p] /\ streaming' = [streaming EXCEPT ![c] = streams]
    /\ err' = [err EXCEPT ![c] = ""]
    /\ tried' = [tried EXCEPT ![c] = {}] /\ met' = [met EXCEPT ![c] = FALSE]
    /\ UNCHANGED <<instance, at>>

\* buildAndSend: the id and the region are read when the request goes out.
Send(c) ==
    /\ stage[c] = "send"
    /\ stage' = [stage EXCEPT ![c] = "sent"] /\ at' = [at EXCEPT ![c] = <<mid, region>>]
    /\ UNCHANGED <<instance, then, want, streaming, err, tried, met>>

\* The service refuses it; the fallbacks already looked at are not again.
Refused(c, service) ==
    /\ stage[c] = "sent"
    /\ \E r \in Refuses(service, c) \ {"frame"} : err' = [err EXCEPT ![c] = r]
    /\ tried' = [tried EXCEPT ![c] = IF err'[c] \in Misplaced THEN @ \cup {at[c]} ELSE @]
    /\ stage' = [stage EXCEPT ![c] = then[c]]
    /\ UNCHANGED <<instance, then, want, streaming, at, met>>

\* The service takes it.
Accepted(c, service) ==
    /\ stage[c] = "sent" /\ Refuses(service, c) \subseteq {"frame"}
    /\ stage' = [stage EXCEPT ![c] = "back"] /\ err' = [err EXCEPT ![c] = ""]
    /\ UNCHANGED <<instance, then, want, streaming, at, tried, met>>

\* The next attempt, and the fallback to go on with.
Again(c, next) ==
    /\ stage' = [stage EXCEPT ![c] = "send"] /\ then' = [then EXCEPT ![c] = next]
    /\ UNCHANGED <<streaming, err, at, tried>>
Skip(c, next) ==
    /\ stage' = [stage EXCEPT ![c] = next]
    /\ UNCHANGED <<then, want, streaming, err, at, tried, met>>

\* tryCrossRegionFallback: another caller may have moved the instance
\* already; if not, the id is read, and the first to get there moves it.
CrossRegion(c) ==
    /\ stage[c] = "cross"
    /\ \/ moved /\ err[c] \in Misplaced /\ Again(c, "bare") /\ UNCHANGED <<want, met>>
       \/ moved /\ err[c] \notin Misplaced /\ Skip(c, "bare")
       \/ ~moved /\ Skip(c, "crossRead")
    /\ UNCHANGED instance

CrossRegionReadsId(c) ==
    /\ stage[c] = "crossRead"
    /\ Skip(c, IF mid = Bare /\ err[c] \in Misplaced THEN "crossOnce" ELSE "bare")
    /\ UNCHANGED instance

CrossRegionOnce(c) ==
    /\ stage[c] = "crossOnce"
    /\ IF attempted THEN UNCHANGED <<instance, met>>
       ELSE /\ mid' = Profile \o mid /\ region' = US /\ attempted' = TRUE /\ moved' = TRUE
            /\ met' = [d \in Callers |-> met[d] \/ d # c]
    /\ Again(c, "bare") /\ UNCHANGED want

\* tryBareUSFallback: once moved, an id with the prefix that is unknown is
\* taken back, for every caller; the region stays.
\* MUTANT: the bare id is not tried again.
NoBareUS(c) ==
    /\ stage[c] = "bare" /\ Skip(c, "limit") /\ UNCHANGED instance
BareUS(c) ==
    /\ stage[c] = "bare"
    /\ Skip(c, IF moved /\ mid # Bare /\ err[c] = "unknown" THEN "revert" ELSE "limit")
    /\ UNCHANGED instance

BareUSReverts(c) ==
    /\ stage[c] = "revert"
    /\ mid' = Bare /\ met' = [d \in Callers |-> met[d] \/ d # c]
    /\ Again(c, "limit") /\ UNCHANGED <<region, attempted, moved, want>>

\* The limit, the tools and the caching are dropped in turn, each when the
\* error says so.
\* MUTANT: the limit is sent again, for as long as it is refused.
LimitKept(c) ==
    /\ stage[c] = "limit"
    /\ IF err[c] = "limit" THEN Again(c, "limit") /\ UNCHANGED <<want, met>> ELSE Skip(c, "tools")
    /\ UNCHANGED instance
DropLimit(c) ==
    /\ stage[c] = "limit"
    /\ IF err[c] = "limit" /\ want[c].limit > 0
       THEN Again(c, "tools") /\ want' = [want EXCEPT ![c].limit = 0] /\ UNCHANGED met
       ELSE Skip(c, "tools")
    /\ UNCHANGED instance

DropTools(c) ==
    /\ stage[c] = "tools"
    /\ IF streaming[c] /\ err[c] = "tools" /\ want[c].tools # <<>>
       THEN Again(c, "cache") /\ want' = [want EXCEPT ![c].tools = <<>>, ![c].choice = ""] /\ UNCHANGED met
       ELSE Skip(c, "cache")
    /\ UNCHANGED instance

DropCaching(c) ==
    /\ stage[c] = "cache"
    /\ IF err[c] = "cache" /\ want[c].caching
       THEN Again(c, "back") /\ want' = [want EXCEPT ![c].caching = FALSE] /\ UNCHANGED met
       ELSE Skip(c, "back")
    /\ UNCHANGED instance

\* doRequest of one caller, up to its return.
ChainStep(c, service) ==
    \/ Send(c) \/ Refused(c, service) \/ Accepted(c, service)
    \/ CrossRegion(c) \/ CrossRegionReadsId(c) \/ CrossRegionOnce(c)
    \/ BareUS(c) \/ BareUSReverts(c)
    \/ DropLimit(c) \/ DropTools(c) \/ DropCaching(c)
=============================================================================
