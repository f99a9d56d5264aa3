----------------------------- MODULE EmbedMany -----------------------------
(***************************************************************************)
(* EmbedMany (embed.go): the values are cut into chunks, each chunk is one *)
(* DoEmbed behind a semaphore (or in turn, when only one may run), the     *)
(* results are checked and joined in order after all chunks have finished. *)
(* A DoEmbed takes a token from the provider's cached source, or its HTTP  *)
(* client is NewOAuthHTTPClient's around an OAuth source, which answers a  *)
(* 401 by one retry with another token.  The rows of the reply are placed  *)
(* as the provider does.  The embedding of value v is v, and Count + 1 is  *)
(* the one in a row that nobody asked for.                                 *)
(***************************************************************************)
EXTENDS TokenSource, Integers, Sequences, SequencesExt, FiniteSetsExt

CONSTANTS
    Count,          \* number of values, in MaxPerCall sizes more than one chunk
    MaxPerCall,     \* MaxValuesPerCall of the models that take a batch
    MaxRetries,     \* o.MaxRetries
    Parallelisms,   \* o.MaxParallelCalls, as tried
    Models          \* how the provider treats a batch: "indexed" and "listed" take one,
                    \* "single" and "lenient" one value a call

ASSUME EmbedAssumption == Count \in Nat \ {0} /\ MaxPerCall \in Nat \ {0} /\ MaxRetries \in Nat
ASSUME ModelsAssumption == Models \subseteq {"indexed", "listed", "single", "lenient"}

\* A chunk without a result, and one with an error, instead of embeddings.
None == <<-1>>
Failed == <<-2>>

NoVector == 0   \* a nil []float64 among the embeddings
SingleInput == {"single", "lenient"}

ASSUME CallersAssumption == Callers = 1..Count

VARIABLES
    parallel,       \* maxParallel
    model,          \* the provider's way of placing rows
    ctxDone,        \* the context ended
    chunk,          \* where each chunk's goroutine is
    tries,          \* attempts of withRetry so far
    second,         \* the RoundTripper is in its retry
    refused,        \* history: the token of the request that got a 401
    sem,            \* chunks in the semaphore
    result,         \* results[i]: the embeddings, or Failed
    answer          \* what EmbedMany returned, or None

embedVars == <<parallel, model, ctxDone, chunk, tries, second, refused, sem, result, answer>>
vars == <<source, stored, force, issued, lapsed, tpc, held, forced,
          parallel, model, ctxDone, chunk, tries, second, refused, sem, result, answer>>

\* MUTANT: every model is asked for the values of a whole batch.
MaxValuesPerCallAll(m) == MaxPerCall

\* Bedrock's single-input models take one value, the others a batch.
MaxValuesPerCall(m) == IF m \in SingleInput THEN 1 ELSE MaxPerCall

\* slices.Chunk: all chunks are full but the last.
Chunks == 1..((Count + MaxValuesPerCall(model) - 1) \div MaxValuesPerCall(model))
ChunkValues(i) ==
    LET first == (i - 1) * MaxValuesPerCall(model)
        size == Min({MaxValuesPerCall(model), Count - first})
    IN [j \in 1..size |-> first + j]

Init ==
    /\ TokenInit
    /\ parallel \in Parallelisms /\ model \in Models
    /\ model \in SingleInput <=> source = "static"    \* Bedrock signs, or has a fixed key
    /\ ctxDone = FALSE
    /\ chunk = [i \in Callers |-> "new"]
    /\ tries = [i \in Callers |-> 0]
    /\ second = [i \in Callers |-> FALSE]
    /\ refused = [i \in Callers |-> 0]
    /\ sem = {}
    /\ result = [i \in Callers |-> None]
    /\ answer = None

Step(i, l) == chunk' = [chunk EXCEPT ![i] = l]
\* The goroutine is over: its locals are gone.
Finish(i, r) ==
    /\ Step(i, "finished") /\ result' = [result EXCEPT ![i] = r]
    /\ tries' = [tries EXCEPT ![i] = 0]
    /\ second' = [second EXCEPT ![i] = FALSE] /\ refused' = [refused EXCEPT ![i] = 0]
    /\ At(i, "idle") /\ held' = [held EXCEPT ![i] = 0] /\ forced' = [forced EXCEPT ![i] = FALSE]

-----------------------------------------------------------------------------
\* With one call at a time the loop takes the chunks in turn, and looks at the
\* context before each.
Turn(i) == parallel = 1 => \A j \in Chunks : j < i => chunk[j] = "finished"

\* A goroutine enters the semaphore; select may choose it after the context
\* ended.
Enter(i) ==
    /\ chunk[i] = "new" /\ Turn(i) /\ Cardinality(sem) < parallel
    /\ parallel = 1 => ~ctxDone
    /\ sem' = sem \cup {i}
    /\ Step(i, "calling")
    /\ UNCHANGED <<tokenVars, parallel, model, ctxDone, tries, second, refused, result, answer>>

\* The context ended before the chunk's turn came.
Skipped(i) ==
    /\ chunk[i] = "new" /\ Turn(i) /\ ctxDone
    /\ Finish(i, Failed)
    /\ UNCHANGED <<source, stored, force, issued, lapsed, parallel, model, ctxDone, sem, answer>>

\* DoEmbed asks its source for a token and posts the request with it.
AskToken(i) ==
    /\ chunk[i] = "calling"
    /\ IF source = "static" THEN Step(i, "posted") /\ UNCHANGED tpc
       ELSE At(i, "asked") /\ Step(i, "token")
    /\ UNCHANGED <<source, stored, force, issued, lapsed, held, forced,
                   parallel, model, ctxDone, tries, second, refused, sem, result, answer>>

HasToken(i) ==
    /\ chunk[i] = "token" /\ tpc[i] = "has"
    /\ At(i, "idle")
    /\ Step(i, "posted")
    /\ UNCHANGED <<source, stored, force, issued, lapsed, held, forced,
                   parallel, model, ctxDone, tries, second, refused, sem, result, answer>>

\* A fetch that broke on the network is retried by withRetry while it may.
TokenRetried(i) ==
    /\ chunk[i] = "token" /\ tpc[i] = "failed" /\ ~ctxDone /\ tries[i] < MaxRetries
    /\ tries' = [tries EXCEPT ![i] = @ + 1]
    /\ second' = [second EXCEPT ![i] = FALSE]
    /\ refused' = [refused EXCEPT ![i] = 0]
    /\ At(i, "idle") /\ Step(i, "calling")
    /\ UNCHANGED <<source, stored, force, issued, lapsed, held, forced,
                   parallel, model, ctxDone, sem, result, answer>>

\* Any other error of the fetch is the chunk's result.
NoToken(i) ==
    /\ chunk[i] = "token" /\ tpc[i] = "failed"
    /\ Finish(i, Failed)
    /\ sem' = sem \ {i}
    /\ UNCHANGED <<source, stored, force, issued, lapsed, parallel, model, ctxDone, answer>>

-----------------------------------------------------------------------------
\* A single-input model posts the first value of its chunk.
Posted(i) == IF model \in SingleInput THEN <<Head(ChunkValues(i))>> ELSE ChunkValues(i)

\* The rows of a reply: the chunk's values in some order with their index,
\* the last one missing, or one too many.
Row(i, v) == [index |-> v - ChunkValues(i)[1] + 1, values |-> v]
Replies(i) ==
    LET rows == [j \in DOMAIN Posted(i) |-> Row(i, Posted(i)[j])]
        n == Len(rows)
    IN {rows, Front(rows), Append(rows, [index |-> n + 1, values |-> Count + 1])}
       \cup IF model = "indexed" THEN {Reverse(rows)} ELSE {}

\* OpenAI's DoEmbed puts each row at its index, in as many places as rows came.
PlaceByIndex(rows) ==
    [p \in DOMAIN rows |-> IF \E j \in DOMAIN rows : rows[j].index = p
                           THEN rows[Max({j \in DOMAIN rows : rows[j].index = p})].values
                           ELSE NoVector]
\* Gemini, Vertex and the others keep the order of the reply.
PlaceInOrder(rows) == [j \in DOMAIN rows |-> rows[j].values]

\* Nova returns the first row and fails without one; Titan and Marengo return
\* whatever the field of the reply held, without it a vector that is nil.
PlaceSingle(rows) == IF rows = <<>> THEN Failed ELSE <<Head(rows).values>>
PlaceLenient(rows) == IF rows = <<>> THEN <<NoVector>> ELSE <<Head(rows).values>>

DoEmbed(rows) ==
    CASE model = "indexed" -> PlaceByIndex(rows)
      [] model = "listed"  -> PlaceInOrder(rows)
      [] model = "single"  -> PlaceSingle(rows)
      [] model = "lenient" -> PlaceLenient(rows)

Replied(i) ==
    /\ chunk[i] = "posted"
    /\ \E rows \in Replies(i) : Finish(i, DoEmbed(rows))
    /\ sem' = sem \ {i}
    /\ UNCHANGED <<source, stored, force, issued, lapsed, parallel, model, ctxDone, answer>>

\* A 401: the round tripper invalidates the token and asks for another, once;
\* without it, or the second time, the error is returned.
Unauthorized(i) ==
    /\ chunk[i] = "posted"
    /\ IF source = "oauth" /\ ~second[i]
       THEN /\ Invalidate
            /\ At(i, "asked") /\ Step(i, "token")
            /\ second' = [second EXCEPT ![i] = TRUE]
            /\ refused' = [refused EXCEPT ![i] = held[i]]
            /\ UNCHANGED <<held, forced, tries, result, sem>>
       ELSE /\ Finish(i, Failed) /\ sem' = sem \ {i}
            /\ UNCHANGED <<stored, force>>
    /\ UNCHANGED <<source, issued, lapsed, parallel, model, ctxDone, answer>>

\* A transient failure is retried by withRetry while it may; any other error,
\* or the end of the context, is the chunk's result.
Retried(i) ==
    /\ chunk[i] = "posted" /\ ~ctxDone /\ tries[i] < MaxRetries
    /\ tries' = [tries EXCEPT ![i] = @ + 1]
    /\ second' = [second EXCEPT ![i] = FALSE]
    /\ refused' = [refused EXCEPT ![i] = 0]
    /\ Step(i, "calling")
    /\ UNCHANGED <<tokenVars, parallel, model, ctxDone, sem, result, answer>>

\* MUTANT: a failed chunk keeps its slot.
FailsInside(i) ==
    /\ chunk[i] = "posted"
    /\ Finish(i, Failed)
    /\ UNCHANGED <<source, stored, force, issued, lapsed, parallel, model, ctxDone, sem, answer>>

Fails(i) ==
    /\ chunk[i] = "posted"
    /\ Finish(i, Failed)
    /\ sem' = sem \ {i}
    /\ UNCHANGED <<source, stored, force, issued, lapsed, parallel, model, ctxDone, answer>>

-----------------------------------------------------------------------------
\* MUTANT: only the total is compared with the number of values.
CombineByTotal ==
    /\ answer = None /\ \A i \in Chunks : chunk[i] = "finished"
    /\ LET all == FlattenSeq([i \in Chunks |-> result[i]])
       IN answer' = IF (\E i \in Chunks : result[i] = Failed) \/ Len(all) # Count THEN Failed ELSE all
    /\ UNCHANGED <<tokenVars, parallel, model, ctxDone, chunk, tries, second, refused, sem, result>>

\* After wg.Wait the chunks are checked one by one and joined in order.
Combine ==
    /\ answer = None /\ \A i \in Chunks : chunk[i] = "finished"
    /\ LET wrong(i) == result[i] = Failed \/ Len(result[i]) # Len(ChunkValues(i))
       IN answer' = IF \E i \in Chunks : wrong(i) THEN Failed
                    ELSE FlattenSeq([i \in Chunks |-> result[i]])
    /\ UNCHANGED <<tokenVars, parallel, model, ctxDone, chunk, tries, second, refused, sem, result>>

\* The environment: the context ends, a token expires, the application
\* invalidates it.
CtxEnds == ~ctxDone /\ ctxDone' = TRUE /\ UNCHANGED <<tokenVars, parallel, model, chunk, tries, second, refused, sem, result, answer>>
Expires == Lapse /\ UNCHANGED embedVars
AppInvalidates == Invalidate /\ UNCHANGED <<source, issued, lapsed, tpc, held, forced, embedVars>>

Token(i) == TokenStep(i) /\ UNCHANGED embedVars
ChunkStep(i) ==
    \/ Enter(i) \/ Skipped(i) \/ AskToken(i) \/ HasToken(i) \/ TokenRetried(i) \/ NoToken(i) \/ Token(i)
    \/ Replied(i) \/ Unauthorized(i) \/ Retried(i) \/ Fails(i)

Next ==
    \/ \E i \in Chunks : ChunkStep(i)
    \/ Combine
    \/ CtxEnds \/ Expires \/ AppInvalidates

\* The goroutines run, and every fetch and every request is answered or fails.
Spec == Init /\ [][Next]_vars /\ \A i \in Callers : WF_vars(i \in Chunks /\ ChunkStep(i)) /\ WF_vars(Combine)

-----------------------------------------------------------------------------
\* What is returned without an error has one place for each value, in the order
\* of the values, and the value's own embedding in it: a chunk with too many
\* and one with too few do not make up for each other.  Behind Titan and
\* Marengo a place can be nil, for a reply without a vector (README, 7).
OrderKept ==
    answer \notin {None, Failed} =>
        /\ DOMAIN answer = 1..Count
        /\ \A v \in 1..Count : answer[v] = v \/ (model = "lenient" /\ answer[v] = NoVector)

\* With one call at a time, the retry after a 401 carries another token than
\* the refused one (mcp/oauth.go promises a fresh one; a second caller can
\* take the flag before the store has the new token).
RetryIsFresh ==
    \A i \in Chunks : parallel = 1 /\ second[i] /\ chunk[i] = "posted" => held[i] # refused[i]

\* EmbedMany returns, whatever fails and whenever the context ends.
Returns == <>(answer # None)
=============================================================================
