# A TLA+ model of GoAI

GoAI is a Go client library for language models: text, structured output,
embeddings, images, video and realtime sessions over some thirty providers.
Its core is control: loops that call a model, run the user's tools and callbacks
and call again; goroutines that hand chunks to each other over bounded channels;
contexts that end at any moment; callbacks that panic. Around it are the codecs,
which turn a conversation into a request and a stream of events back into an
answer, and two protocols of their own, MCP and realtime. This project models
these parts, checks them with TLC and proves part of it with TLAPS.

## 1. Inventory

| Component | State | Operations | Interacts with | What is hard |
|---|---|---|---|---|
| GenerateText loop (`generate.go:1313-1660`) | completed steps, message delta, stop cause, highest announced step | one call: hooks, model call, tools, exit | AgentState, tool execution, retry, hooks | every exit must tell the truth to three observers (result, OnFinish, poller) |
| StreamText loop (`generate.go:763-1190`) | the same, in a goroutine | forward chunks, drain a step, run tools, close | consume over a channel; context; AgentState | two goroutines and a reader, chunks dropped by `TrySend` once the context is done |
| `TextStream.consume` (`generate.go:369-617`) | rebuilt steps, streamErr, usage | take a chunk, forward, leave | caller's channel, doneCh | which error wins; what is complete when doneCh closes |
| Single-call StreamText | streamErr, deferred functions | one model call | hooks, AgentState | the order of eight deferred functions under panics |
| AgentState (`agent_state.go`) | one 64-bit word | set, SetTerminal, Observe | loops, consumers, pollers | lock-free, a blind store against a compare-and-swap |
| Tool execution (`generate.go:1700-2046`) | result slot per call, WaitGroup | launch, five kinds of callback, wait | user code | a gate that must fail closed, answers in call order |
| Retry (`retry.go`) | attempt, delay | call, classify, sleep | every provider call | arithmetic on a server's numbers, a context that ends in the sleep |
| Structured output (`object.go`, `partial_json.go`) | text so far, step, partial objects | tool steps, consume, repair of a prefix | the codecs' requests | a prefix must never pass for the object |
| Realtime session (`realtime.go`) | event queue, tool cancels, slots, first error | consume, publish, tools, Close | websocket connection, user tools | backpressure, cancellation racing registration |
| Embeddings (`embed.go`) | result slot per chunk, semaphore | chunk goroutines | retry, token sources | order of values, partial failure |
| Token sources (`provider/token.go`, `mcp/oauth.go`) | cached token, force flag | Token, Invalidate | HTTP round trips | double fetch, stale write-back |
| MCP client (`mcp/client.go`) | pending requests by id | request, response, timeout, notification, Close | transports, the application's handlers | a send on a channel looked up before the lock was released |
| MCP transports (`mcp/transport.go`) | reader goroutines, endpoint | Start, Send, Close | HTTP, a subprocess | Close against readers and callbacks |
| Live connection (`provider/google/live.go`) | event channel, table of pending calls, close state | reader, Send, Close | websocket library, RealtimeSession | Close against a reader that waits for room |
| Stream runner (`provider/stream.go`, `internal/sse`) | the parser's goroutine, the body | RunStream, TrySend, watchdog | HTTP bodies, the codecs | a stalled server, a caller that left |
| Codecs (`provider/*`, `internal/openaicompat`) | calls and blocks under assembly | build a request, parse an answer, parse a stream | RunStream, message normalisation | two decoders of one answer, fragments in any order, truncated streams |
| Message normalisation (`provider/normalize.go`) | none | pair calls with results, merge roles | Anthropic, Bedrock | conversations cut in the middle of their tool calls |
| Bedrock's fallbacks (`provider/bedrock/bedrock.go`) | the model instance's id and region, shared by its callers | five fallbacks behind one request | the request builder | each lock taken and released around one access |
| Observability (`observability/*`) | open spans by step and call | hook callbacks | the loops' hooks | start without end |
| Images, videos (`image.go`, `video.go`) | none | one call, or polling | retry | - |
| Options, messages, schema, errors | none | pure construction | request builders | options that override what the call says |

How they interact. A caller starts `GenerateText`, `StreamText` or one of the
object functions. The loop calls a provider through `withRetry`, hands the tool
calls of an answer to `executeToolsParallel`, appends the round trip to the
conversation and goes on. Hooks run in the loop's goroutine, tools in goroutines
of their own. Three parties watch: the caller through the result (or, for a
stream, through a channel, `Err()` and `Result()`), the `OnFinish` hooks, and a
poller of the `AgentState` word, which consumers may also end themselves. A
realtime session has the same parts turned around: the provider pushes events,
and the session answers tool calls on its own.

What makes each component correct:

- **GenerateText loop**: every way out (result, error, panic, hook, rejected
  arguments) leaves the AgentState at rest at the highest step announced; the
  `OnFinish` hooks are told what the caller is told; `ResponseMessages` can be
  replayed, each completed step told once and each client call answered; a
  conversation that ends with tool results nobody has seen is reported as cut short.
- **StreamText loop and `consume`**: `Err() == nil` on a live context means that
  nothing is missing; the first error wins; tool results are attached to their
  own step; `OnFinish` fires once; no goroutine outlives a cancelled context and
  a reader that keeps reading gets to the end.
- **Single-call StreamText**: idle is published after the callbacks; a panic in
  any deferred callback reaches `Err()`, and the channels close all the same.
- **AgentState**: the step never goes back, one of several racing consumers wins,
  a terminal state stays once the loop has made its last store.
- **Tool execution**: a gate that panics or refuses keeps its tool from running;
  answers are complete, in call order, and nobody writes them after the return.
- **Retry**: only transient errors are retried, within the budget; whatever
  number a server sends, no delay is longer than the schedule's longest.
- **Realtime session**: a failure that ended it is told; closed
  means that nothing runs; `Close` returns; slots bound the tools; a cancelled
  call stops.
- **Embeddings**: place i holds the embedding of value i; a failing or short chunk
  fails the call. **Token sources**: a fetched token never replaces a fresher one, the retry
  after a 401 carries another token. **MCP client**: each request ends, with its
  answer, an error or its timeout, and a dispatcher never waits for a caller.
  **Transports**: `Close` returns.
- **Codecs and stream runner**: an answer read as a stream is the answer read at once;
  a broken connection is told; what Anthropic must see again comes back verbatim;
  whatever the parser waits for, the end of the context frees it. **Message
  normalisation**: each call of a request is answered in the next message, once.
- **Structured output**: an object that is returned is the whole document the model
  wrote; partial objects only grow; the request says what the caller asked, whatever
  the options and the fallbacks made of it; the fallbacks end, and give up only after
  every form was tried.
- **Observability**: every span opened is closed.

## 2. Modules

| Module | Models | Built from |
|---|---|---|
| `AgentLifecycle` | what a poller of `AgentState.Observe` is promised: the abstract loop | - |
| `Transcript` | the operators both loops share: exit test, stop cause, replay transcript | - |
| `ToolLoop` | `GenerateText` | extends `Transcript`; implements `AgentLifecycle` |
| `StreamLoop` | `streamWithToolLoop`, `drainStep`, `TrySend`, `consume` | extends `Transcript`; implements the safety part of `AgentLifecycle` |
| `SingleStream` | `StreamText` without a tool loop | - |
| `AgentState` | the packed word, `set`, `SetTerminal` | instantiates `AgentLifecycle` as the loop that stores |
| `ToolExec` | `executeToolsParallel` | - |
| `Retry` | `withRetry` | - |
| `LiveConn` | a Gemini Live connection | - |
| `Realtime` | `RealtimeSession` | extends `LiveConn` |
| `McpClient`, `McpTransport` | `mcp.Client` and its dispatchers; the three transports, the server, `Close` | the second extends the first |
| `TokenSource`, `EmbedMany` | the caching token sources; `EmbedMany` over a provider that uses one | the second extends the first |
| `ProviderWire` | chunks, results, and how `drainStep` gathers a stream | - |
| `Messages` | `provider/normalize.go` | - |
| `CompatCodec`, `ResponsesCodec`, `AnthropicCodec`, `GoogleCodec`, `ConverseCodec`, `CohereCodec`, `OllamaCodec` | one codec each: the server's events, the stream parser, the whole answer, the conversion of messages | extend `ProviderWire`, `Messages` |
| `ProviderCall` | one call: a conversation, its request, the answer over `RunStream` | extends the seven codecs |
| `CallOptions`, `ClaudeRequest` | from parameters and options to a request body | the second extends the first |
| `ConverseFallback` | `doRequest` of Bedrock: the chain of fallbacks on a shared model instance | extends `ClaudeRequest` |
| `PartialJson` | the repair of a document that is still arriving | - |
| `ObjectCall` | `GenerateObject` and `StreamObject` | extends `ConverseFallback`, `PartialJson` |
| `MC*` | the instances whose constants need definitions | the module of the same name |
| `*Proofs` | theorems of `ToolLoop`, `ToolExec`, `Realtime`, `StreamLoop`, `McpTransport`, `ObjectCall`; `AgentStateProofs` those of `AgentState` and `SingleStream`, `CallProofs` those of `Retry` and `EmbedMany` | the module they are about |

A run with plain constants (`AgentState`, `ToolExec`, `Realtime`, `McpTransport`,
`EmbedMany`) checks the module itself, with the configuration of its name.

`AgentLifecycle` is the hinge. `ToolLoop` and `StreamLoop` are shown to implement
it through the mapping `kind <- stateRef.kind, step <- stateRef.step`;
`AgentState` uses the very same specification as the writer that races with the
consumers. So what `AgentState` shows about the word holds for every loop that
was shown to follow the lifecycle, and the loops need not carry the consumers.

Tool execution and retry are separate from the loops: in a loop,
`executeToolsParallel` is one action (it returns only when everything is over,
which is what `ToolExec` shows) and `withRetry` is one action with the outcomes
answer, error and panic (that it ends is a matter of its budget, in `Retry`). In the
same way a provider's stream is a sequence of chunks in `StreamLoop` and
`SingleStream`; `ProviderCall` is the other side of that channel.

A definition whose comment begins with MUTANT is a wrong version of the one that
follows it. No specification uses it: it documents which bug each property was
seen to catch (`PROJECT.json`, "mutants").

## 3. How the models correspond to the code

An action ends where another goroutine, a callback or the user can notice the
difference: at a channel operation, a callback, a model call, or a store to the
`AgentState`. Between two such points the code is sequential and its steps are
merged. A callback may return or panic; what it decides (`Stop`, an injected
message, skip) is nondeterministic, since it is the user's.

**ToolLoop.** `pc` is the place in `GenerateText` (generate.go:1313-1660):
`Enter` the argument checks, `BeforeStep` the loop's head with OnBeforeStep,
`Request` OnRequest and the announcement, `Call` the model, `Respond` OnResponse
and the completion of the step, `StepFinish` OnStepFinish and the exit
conditions, `Tools` and `StopWhen` the tool round trip, `Finalize` and `Finish`
the end, `Unwind` the deferred functions. `steps`, `highest`, `hookStopped` and
`stopCause` are the local variables of these names, `msgs` is
`params.Messages[originalLen:]`. `finishes` is a history of what OnFinish was
told. A response is reduced to its text bit, its calls and its finish reason,
which is all that the exit conditions and the transcript look at.

**StreamLoop.** `gpc` is the loop's place, first in `StreamText`, then in its
goroutine, then in its deferred functions (`Rest`, `Release`, `RecoverError`,
`RecoverFinish`, `Close` in that order); `cpc` is consume's. `out` is the channel
between them with its chunks, `raw` counts those in the caller's channel.
`TrySend` is the select it is: when the context has ended and there is room too,
either may happen. `ctx` tells who ended the context: the outside, or the loop's
own deferred `timeoutCancel`. `tsSteps`, `tsUsage` and `streamErr` are the fields
of `TextStream` that consume writes; a step's record keeps the number of the step
it was built from, which the code does not, so that a property can compare.

**SingleStream.** `pc` walks through `StreamText`, `cpc` through consume and its
eight deferred functions in the order in which Go runs them. `fired` is a history
of the callbacks.

**AgentState.** `packed` is the 64-bit word as one value; `set` is the loop's blind
store, one step of `AgentLifecycle` at a time; `Call`, `Load` and `CAS` are the
three steps of `SetTerminal`. Consumers in `Patient` keep the documented protocol
(they call once the loop has made its last store); the others do not.

**ToolExec.** `pc[i]` is the place of call i; one action for each callback of each
call; `next` is the launching loop; `results`, `wg` and `returned` are the result
slots, the WaitGroup and the return value. A call is `provider` (answered
already), `unknown` (no such tool; its callbacks run in the launching goroutine)
or `known`.

**Retry.** Durations are signed integers of a given width, and `Wrap` is what a
product does when it overflows. An error is its class and the hints a server
attached: milliseconds, seconds, a date, a phrase in the body.

**LiveConn and Realtime.** `reader`, `pending`, `queue` are `readLoop`, the event it
is delivering and `c.events`; `calls` is the table of pending function calls;
`closing` the progress of `Close`. On top of it `consume` is the session's
goroutine, `tool[c]` that of each call, `published`/`taken` the event queue,
`toolCancels`, `toolSlots` and `wg` the fields of these names. Merged steps: an
event is taken and handled in one step (the handling cannot block), a result is
encoded and written in one step. A server message carries one event; call ids
are fresh; a write may fail also on an open connection; the error that closing
the websocket returns is arbitrary. One caller of `Close` stands for all: the
later ones wait in `closeOnce` for the first and then for the same channel.

**McpClient and McpTransport.** `pc[r]` is the place of request r in `sendRequest`;
`pending`, `full` and `closed` are `c.pending` and the state of each one-slot
channel. A dispatcher is a goroutine that reads messages: the transport's own stream
(`Main`), or the body of request r's POST. `Lookup` and `Deliver` are the two halves
of `handleMessage`, before and after `pendingMu` is released. A notification's handler
runs on the dispatcher and may make a request of its own (`Refetches`). `kind` is the
transport; `closer` the place of `Close`, which first empties the table and then, for
HTTP, waits for the GET reader before it cancels the POST readers. The server answers
a request once, on any stream it may use, or never. `connect` is the handshake. Over
stdio `writer` is whose `Send` holds `writeMu`, from `StdioSend` to the end of its write
(`Written`, `PipeBreaks`); a child that has `stalled` need never take what is written, and
neither the request's context nor `Close`, which wants the same lock, can take the lock
away. A handler may call `Close` itself (`HandlerCloses`), and its dispatcher waits.

**TokenSource and EmbedMany.** Tokens are numbers in the order the server issued them;
`stored` is the cache or the store, `lapsed` the expired ones. The locks are taken and
released around one action each, the fetch lies between two of them. `chunk[i]` is the
place of chunk i's goroutine, `sem` the semaphore, `second` the round tripper of
`NewOAuthHTTPClient` in its retry. A reply is a sequence of rows, in another order, one
short or one too long; `model` says how the provider places them (OpenAI by index, the
others in order, Bedrock's single-input models one row: without one Nova fails
("single"), Titan and Marengo return a nil vector ("lenient")).

**ProviderCall and the codecs.** An answer of the model is abstract: paragraphs of
reasoning, text, calls, sources, the cause of its end, how many calls the server ran
itself. Each codec module first plays the server - the events that bring the answer
(several orders and cuts, late ids, an error event, a line that is no JSON) and the
counts of a usage block - and then translates the code: the stream parser as a state
and a step per event, the whole answer, the messages of a request. Texts, arguments
and signatures are sequences of fragments. `ProviderCall` runs the parser of one codec
in `RunStream`'s goroutine: `parser` and `body` are the goroutine and the connection,
`todo` the chunks of the event under way, each a `TrySend` into `chan`; the watchdog
closes the body at the end of the context. The connection may break, stall or end
early, once per call. `conv` grows message by message before a request is built.

**CallOptions, ClaudeRequest, ConverseFallback, ObjectCall.** A body is a function from
the wire keys to what stands there and where it came from (a parameter, an option).
The parameters keep the order of the code's assignments, since a later one overwrites.
`doRequest` is the chain of fallbacks, `stage` and `then` its place, one action for each
access to the shared instance, whose lock is taken and released around it. The service
says which pairs of id and region it knows and what else it refuses. `ObjectCall` is
the loop of `GenerateObject` and the consumption of `StreamObject` on top; a document is
a sequence of characters, and what unmarshals from it is the set of paths it populates.

**PartialJson.** `repairJSON`, `completeTrailing` and `trimTrailingIncomplete`, character
by character, since the property is about where a document may be cut.

## 4. Runs

All runs take `Spec` with its fairness; deadlock is not checked because each of
these programs ends.

| Run | States | What it shows | Properties |
|---|---|---|---|
| `tool_loop` | 476k | every way through `GenerateText`: what OnFinish is told is what is returned, the transcript can be replayed, a conversation cut short is reported so, and the AgentState implements `AgentLifecycle`, liveness included: the call comes to rest also with a model that never stops asking | `FinishMatchesReturn`, `ReplaySafe`, `ToldOnceClientTools`, `CutShortIsTold`, `LifecycleSpec` |
| `stream_loop` | 732k | two goroutines, a reader that may stop, a context that may end, callbacks that may panic: on a live context nothing is missing behind `Err() == nil`; `Err()` is what went wrong first in the loop; the poller sees the lifecycle's steps; a cancelled context frees both goroutines | `NilErrMeansComplete`, `FirstErrorTold`, `FollowsLifecycle`, `NoLeak` |
| `single_stream` | 10k | the deferred functions do what their order is meant to do, panics included, and cancelling frees the goroutine | `IdleAfterHooks`, `PanicSurfaces`, `CancelFrees` |
| `agent_state` | 27k | three consumers race with the loop: monotone counter, one winner | `OneWinner`, `CounterNeverRegresses` |
| `tool_exec` | 21k | three calls of any kind, parallel and sequential, any of the callbacks panicking: the gate fails closed, every call is answered in order, the function returns | `GateFailsClosed`, `AllAnswered`, `Returns` |
| `retry` | 7.9k | classification, budget and delay for every kind of hint | `ExhaustedIsEarned`, `DelayBounded` |
| `realtime` | 1.29M | two calls for one slot, a full queue, cancellation, failures of the connection and `Close` at any moment: a failure surfaces, closed means over, `Close` returns | `FailureSurfaces`, `ClosedMeansOver`, `CloseReturns` |
| `mcp` | 123k | a handshake, an operation and a request inside a handler over each transport, a child that stops reading, `Close` at any moment and from a handler: no dispatcher waits for a slot; every request ends and `Close` returns, but for a write over stdio that is never taken and a handler that closes the stream it runs on | `ReaderNeverBlocks`, `EveryRequestEnds`, `CloseReturns` |
| `embed` | 378k | three values in chunks of two or one, in turn or at once, each token source: every value its place, the retry after a 401, no fresher token overwritten, `EmbedMany` returns | `OrderKept`, `RetryIsFresh`, `FresherKept`, `Returns` |
| `provider_call` | 290k | seven codecs: a stream, gathered as `drainStep` does, adds up to the same answer read at once, Anthropic's blocks come back verbatim, a broken connection is told, requests are paired, a cancelled stream ends | `StreamFaithful`, `ReplayVerbatim`, `FailureTold`, `RequestPaired`, `StreamEnds` |
| `structured` | 54k | what reaches the service is what was asked, but for the fields a codec leaves to options; an object is whole; partial objects grow; Bedrock's fallbacks give up only after every form was tried; every call ends | `AsAsked`, `ObjectIsWhole`, `RefusedEverywhere`, `PartialsGrow`, `CallEnds` |
| `structured_profile_tried` | - | violated: section 7 | `ProfileTried` |

Bounds, and why they are enough to make the interesting cases happen:

- `tool_loop`: MaxSteps 3 (a first, a middle and a last step), two calls the client
  runs and one the provider runs, each of the answers with and without text, with no
  call, the client's two, the provider's, or one of each, and with a finish reason that
  agrees with the calls or contradicts them. The loop's decisions look at one answer, the step
  number and its bound; three steps give two consecutive round trips and an end
  after them, where merging and duplication show.
- `stream_loop`: MaxSteps 2, one chunk per provider stream (text, a call, a boundary,
  an error or the finish), after which it closes, channels of 2 and 1, a call the
  client runs, the three ways to read. One chunk is a whole step, since the exit
  conditions look at what was gathered and not at how many chunks brought it. Two
  steps are needed for results on the wrong record and for a second announcement; a
  channel of 2 both fills and lets a step boundary and its results travel together.
  The code's 64 only makes the same situations longer.
- `single_stream`: three chunks through a channel of one: full, drained, full again.
- `agent_state`: two consumers that keep the protocol (for a race between them), one
  that does not, MaxSteps 2 for a counter that advances more than once.
- `tool_exec`: three calls and two start callbacks, so that two goroutines overlap a
  third in each order and a panic in the first callback is followed by a second.
- `retry`: six retries reach the cap of the exponential schedule; durations of 22
  bits at two ticks per millisecond span about a quarter of an hour to either
  side; hints lie below, at and above a minute and beyond the width.
- `realtime`: two calls and one slot (one works, one waits), three events (both calls
  and a cancellation, or an overrun), every channel of one.
- `mcp`: the initialize request, one operation of the application and one made in a
  handler, one notification. A request meets its own answer, its time-out and `Close`;
  two dispatchers, the stream and a POST's body, may carry it; the handler's request
  occupies the dispatcher the others wait for. Three writers (a request, the handler's
  and the initialized notification) and `Close` compete for the lock of stdio's input.
- `embed`: three values in batches of two (a full chunk and a short one) or one (three
  chunks), four ways of placing rows, one or two at a time, one retry, two tokens: one that is refused and one
  that replaces it while another caller still holds the first.
- `provider_call`: twelve answers that reach each branch of the parsers (interleaved
  fragments, missing ids, several paragraphs of reasoning with and without a
  signature, calls the server ran, a paused turn, a call longer than the codec takes,
  each cause of an end), one slot in the channel, one fault, conversations of up to
  five messages: a turn with calls, its answers in one or several messages, a user who
  interrupts, and a second round. The normalisation looks at one turn and what follows
  it up to the next.
- `structured`: one caller with each codec, tool choice, format and a dozen sets of
  options, some that try to overwrite the call's own fields; one caller that reads an
  object whole or as it arrives, two documents with every kind of value, nesting one
  beyond MaxJSONDepth 3; two callers that share a Bedrock instance, five services that
  know different pairs of id and region. Two callers are enough: a third can only move
  an instance that is already moved. Field names of the documents hold no escaped quote.

## 5. Fairness

- `ToolLoop`, `ToolExec`, `Retry`: Go's scheduler runs a goroutine that can run;
  model calls, tools and callbacks return and timers fire. Weak fairness of the
  program's own steps says that. Nobody has to cancel.
- `StreamLoop`: weak fairness of the loop and of consume, separately. A provider
  sends or closes its stream and closes it once its context has ended (its
  goroutine defers the close; `StreamEnds` of `ProviderCall` shows that it gets there).
  The caller promises nothing.
- `SingleStream`: also the provider ends its stream, and the caller asks for the
  stream; it may stop reading.
- `AgentState`: the loop ends, and a consumer inside `SetTerminal` keeps running. That
  the retry loop ends follows from the loop's finitely many stores.
- `Realtime`: the reader, consume, each tool goroutine and `Close` proceed; the
  backpressure timer is one of consume's steps. The close handshake ends because the
  websocket library bounds it. The server, the application that reads events and
  the caller's context promise nothing.
- `McpTransport`: a request's own time-out fires, a POST is answered or fails, a
  handler returns, a body that was closed is noticed, a mutex is handed on, `Close` goes
  on. The server need not answer and need not end its stream; a child reads its input
  until it stalls, which it may do at any time.
- `ProviderCall`: the parser's goroutine and the watchdog run; neither the server nor
  the caller has to do anything. So `StreamEnds` holds although both have left.
- `EmbedMany`: a goroutine runs, and a request or a fetch is answered or fails (each
  has the context and the client's time-out).
- `ObjectCall`: a caller's own steps go on: the service answers, a stream's reader takes
  what is there. The reader of partial objects is taken to keep reading or to cancel.

## 6. What is proved

TLC checks the instances of section 4. TLAPS proves the following for every value
of the constants, from the named assumptions on them (MaxSteps at least 1,
Patient a subset of Consumers, server calls among the calls, answers and errors that
are well formed and announce a call once, at least one slot and one place in every channel, distinct names for
requests and dispatchers, at least one value and one value per call, the four ways of
placing rows, and answers whose document is a JSON object and whose prose does not begin as
a JSON value does).

| Module | Theorems | Inductive invariant |
|---|---|---|
| `AgentStateProofs` | of the word: types; the counter never goes back; one winner; terminal states stay. Of `SingleStream`: idle comes after every callback; no panic is lost | `TypeOK`, `OneWinner`, and three facts: the word carries the step goai stored last; a consumer swaps only a word it saw live; no patient consumer is inside before the loop is over. `Turns` (the place in consume says which callbacks have run, in order), `Released` (what is closed and published), `Kept` (OnResponse was told the error that stays) |
| `ToolLoopProofs` | types; the counter never goes back; rest at the highest step; OnFinish told the truth; a conversation cut short is reported so; what is sent again can be replayed; every step's client calls are told once, in order; the call implements `AgentLifecycle` (safety) | where the call is decides how many steps are recorded and announced (`Counts`), what was reported (`Reports`) and which answers the model has not seen (`Leftovers`); the steps are numbered in order and the last one carries the answer's calls (`Recorded`); the conversation so far answers every call it announces and tells every round trip made (`Replay`); for the refinement also what the AgentState shows (`Shown`) |
| `StreamLoopProofs` | the stream implements `AgentLifecycle` (safety); Err() is what went wrong first in the loop's goroutine, and never an error nobody met; nothing is missing behind `Err() == nil` | `Shown` (the loop's place decides what is published and that it is the highest step announced), `Recorded` (how many steps are on record), and the types of a step under way; for completeness what the channel can carry at each place (`Flow`), that the loop goes on only when no error was told (`Telling`), which step each boundary in the channel closes (`Numbered`), and that the records, with what is still in the channel and at the loop, are those of the steps (`Complete`); for `Err()`, `Causal` (`Rooted`, `Honest`, `Unwinds`, below) |
| `ToolExecProofs` | the gate; answers complete at the return; sequential mode; the WaitGroup counts | `Turns` (the launching loop's index says which calls have begun), `Gate` (what a call has been through at each place), `Waits` (the counter is the number of running goroutines), `Settled` (what is returned is final) |
| `CallProofs` | of `withRetry`: calls match attempts; delays bounded; exhaustion earned; only transient errors retried. Of `EmbedMany`: every value at its place, with its own embedding or, behind a lenient model that got no row for it, none; the retry after a 401 carries another token; a usable cached token is not overwritten | `Budget` (sleep is reached only with budget left and a transient error) and `DelayBounded`; `Placed` (a chunk that is over has its values or a result that is seen to be wrong), `Alone` (with one call at a time the chunks before a chunk that began are over), `Dated` (no token is later than the last one issued) and `Retrying` (what the flag, the fetch and the request of a retry carry) |
| `RealtimeProofs` | closed means over; slots bound the tools; a call is started once; a failure surfaces; nothing happens after the end | `Fresh` (an event on its way announces a call nobody started), `Counted` (the WaitGroup counts consume and the live goroutines), `Slotted` and `Registered` (slots and cancel functions belong to working calls), `Final`, `Reasons` (a cancelled context has a cause, and without one consume leaves only after an orderly end of the connection) |
| `McpProofs` | a dispatcher never waits for a slot; an answer is carried once | `HoldsOne` (a dispatcher that delivers holds the answer to a request), and `Known`, `OneWay`, `NotYet`: an answer is in one place at a time - on its way to one dispatcher, in the hands of one, in its channel, or gone |
| `ObjectProofs` | the shared id is prefixed once; an id reported unknown was tried bare in us-east-1 too; an object that is returned is the whole document | `Placement` (the three flags of the instance agree with where it is), and per caller `Unmoved`: what it knows at each place of the chain as long as no other moved the instance. `Holds`: nothing was read before the stream is open, and from then on the chunks to come are pieces of the answer behind the text read (`Reading`) |

Why the invariants are needed. `OneWinner` alone is not inductive: a consumer that
loaded the word before another won could swap if the word came back, which the
loop's last store and `SeenLive` exclude. `AllAnswered` needs that a WaitGroup of
zero means that nobody runs, which is a statement about cardinalities
(`WaitCounts`), and so does `ClosedMeansOver`. There, a second event for the same
call would count one goroutine twice: hence `Fresh`. `DelayBounded` needs no
bound on the hints: whatever an overflow makes of one, `retryDelay` takes it only
when it is positive and below a minute or below the exponential delay. That the
stream's last publication keeps the step (`Rest`) needs that no more steps are on
record than were announced. `ReaderNeverBlocks` speaks of one dispatcher and its
request; that the slot is free needs that no other dispatcher, and no stream, has
a copy of the answer, hence `OneWay` - and there the assumption on the server
enters, which answers a request once.

`RefusedEverywhere` says something of the last link of Bedrock's chain, and its proof is
what each link leaves to the next: a refusal as unknown names an id and region the
service does not serve; behind `tryCrossRegion` the instance has moved, or the refusal was
of another kind; `tryBareUS` sends the bare id to us-east-1 whenever an unknown id was
refused there with the prefix; and the later links are reached only by an id the service
knows. All of this holds of the instance as the caller sent it, so it is stated for a
caller under whom no other moved it (`Unmoved`); where another did, `Placement` is all
that is left, and section 7 shows what comes of it.

That the values come back in order (`OrderKept`) is a fact about data: `Indexed` says
that rows whose indices are their own inverse, so those in order and those reversed, are
put at the places of their values, `ChunkBounds` where a chunk begins and ends, and
`WholeChunksJoin` that the chunks joined are all the values; a reply with a row too few or
too many has another length, which `Combine` sees chunk by chunk. A model that sends one
value per request joins its rows one by one (`SinglesJoin`); a lenient one puts a nil
vector where a reply has no row, which leaves every other value at its place
(`LenientJoin`). That a retry carries
another token needs that no other caller takes the flag in between, hence `Alone`, and
that what is fetched is later than what was refused, hence `Dated`.

That an object is whole (`ObjectIsWhole`) has two halves. One is about the parser:
`Unmarshal` is a fold over the characters, and `ParsedNext` says that one more character is
one more step, so what a step keeps holds behind every prefix. Behind the first character
of an object the parser is inside a bracket until it is at the end or in error
(`Bracketed`), nothing may follow the end, and an error stays one (`StaysWrong`); a text
that begins as prose is in one word that is no literal, or in error (`Stray`). Hence
`WholeOrNothing`: a prefix of prose and document that parses is the document, all of it.
The other half is about the stream: whether the document comes a character at a time or at
once, and wherever the stream is cut, what was read is a prefix (`Pieces`). `DocumentsAssumption`
names what is asked of the model's answers; `ConverseFallback`'s chain, which runs before
either, is shown to leave all of this alone (`ChainMoves`).

Four proofs need induction over sequences. The library states it with an operator as a
parameter; here it is stated over sets: the set of lengths (or of prefixes) at which a
fact fails has a least element (`WFMin` over the naturals), and there is none
(`LeastNatural`, `Induction`, `SequenceInduction` of `ToolLoopProofs`; `CallProofs` and `ObjectProofs` have the first two). The
transcript's functions are recursive functions over the number of entries for that
reason, and their defining equations are lemmas of their own. `NilErrMeansComplete`
relates three places, since what consume has recorded lags behind what the loop has
done: the boundaries that consume has taken, those in the channel and the one the loop
is about to send are the steps in order, and the results between two boundaries belong
to the first (`Complete`). An error sits in the channel before the loop leaves for it
(`Telling`), so a stream whose records fall short has an error on its way; that no
error is dropped while the context lives is what makes `Err()` speak of it. `ErrIsTheFirst` follows the first failure
from where it happens: as long as it is not in the channel it is in the loop's hands
(`Pending`), the first error in the channel is the first failure (`Rooted`), whatever is
in the channel or recorded was met by somebody (`Honest`), and behind a panic only the
deferred functions run (`Unwinds`).

Left to TLC: every liveness property, since fairness and ENABLED are not for this
prover; the codecs and normalisations behind `provider_call` (`StreamFaithful`,
`ReplayVerbatim`, `FailureTold`, `RequestPaired`), which fold whole streams and
conversations and compare the outcomes of seven codecs; and, only model-checked so far,
`AsAsked` and `PartialsGrow` of `ObjectCall`: the first builds its requests with `@@` and
`:>` of the module TLC, which have no definition the provers can expand, the second compares
what the repaired texts of two prefixes parse to.

## 7. Where the code and its documentation differ

One run checks a sentence of the repository and finds it violated.
`structured_profile_tried`: a call that is refused its model id tries the us.
inference profile (bedrock.go:612-613, docs/providers/bedrock.md:240). Two calls share
an instance and are both refused their bare id. The first reads `fallbackDone` as false
(bedrock.go:617); then the second's fallback prefixes the shared id; the first now reads
the prefixed id, takes it for one that had its prefix from the start (bedrock.go:625-627),
and returns the error, though it never sent its request to the profile.

Further disagreements met while modelling, for which no run is kept. The properties
above are stated so that they hold in spite of these.

The loops and their streams:

- generate.go:2157 (against :2135, :2158): a step whose tools the provider ran is
  already in the delta when a hook or MaxSteps ends the loop, and is told twice; in
  other shapes a later step is dropped. Hence `ToldOnceClientTools`.
- generate.go:993 (against hooks.go:178-182): with an ended context `TrySend` may drop
  the error chunk and the terminal chunk; consume finds the channel closed, and
  `Err()` is nil over a truncated result.
- generate.go:846 (against :360): with `WithTimeout`, the loop's deferred
  `timeoutCancel` ends the context while chunks still wait; consume stops with
  `context.Canceled` though nobody cancelled.
- generate.go:70-72: a last answer at MaxSteps whose calls the provider ran itself is
  reported as exhausted though no call is pending; `CutShortIsTold` allows it.
- generate.go:1482: an answer that finished with `stop` and carries only calls the
  provider ran is sent back for another step (against :70 on `StepsExhausted`).
- generate.go:1590: a run of provider-executed steps cut short by MaxSteps is
  reported as natural (against provider/types.go:324).
- generate.go:1323: a panic leaves `GenerateText` without OnFinish (against
  hooks.go:130, "exactly once per call"); the same in the streaming loop.
- generate.go:617: when consume leaves on a finished context, doneCh closes before
  the loop publishes idle (against agent_state.go:240-244) and before its last
  write of the result fields (generate.go:1170 against :1168 and :298).
- generate.go:1078: a step boundary may be dropped and the results behind it
  delivered, which attaches them to the wrong step (against provider/types.go:62).
- generate.go:599-602: cancellation replaces a provider error already recorded (against
  :360; `FirstErrorTold` allows it once the context has ended); generate.go:842: after a
  panic the usage of completed steps is replaced by zero (against :516-519), and the
  panic itself may be dropped when `timeoutCancel` has run (:841 against
  hooks.go:402-404).
- generate.go:1108: with provider-defined tools only, a client call ends the stream as
  natural (against :1091-1093).
- agent_state.go:147: a consumer that sets a terminal state too early has it
  overwritten (against :49-51); hence `Patient`.
- generate.go:784: a panic of OnRequest before the goroutine exists leaves a poller
  without idle (against :1201-1204).
- generate.go:1816: a tool that panics is not reported to OnToolCall (against
  hooks.go:211); generate.go:412: a single-call stream that failed reports a
  natural end (against hooks.go:178-180).

Retry, realtime, MCP, tokens, embeddings:

- retry.go:106 (against :88-89): a number of seconds that overflows a duration to a
  small positive value (18446744074 s wraps to 0.29 s) is followed at once.
- realtime.go:524 (against docs/concepts/realtime.md:112): a call that is cancelled
  while it waits for a slot runs with a live context; the connection refuses its
  result, which ends the session. A normal close by the server while a tool sends its
  result can leave `Err()` set, and calls still in the queue of slots run after consume
  has left.
- mcp/client.go:415: a response that is looked up just before `Close` is sent on the
  channel `Close` has closed, which panics (`crashed`, from which the model makes no step).
- mcp/transport.go:177-187: the stdio `Send` does not look at its context and writes to the
  pipe under `writeMu`. A child that no longer reads stops it there, and neither the
  request's time-out nor `Close`, which needs the mutex before it kills the child (:193),
  gets any further. `EveryRequestEnds` and `CloseReturns` name this case (`Unsent`,
  `Blocked`).
- mcp/client.go:432 (against docs/concepts/mcp.md:146-150): handlers run on the reader,
  so a handler that makes a request over stdio or the GET stream waits for its time-out.
- mcp/transport.go:496-502: a POST reader that registers after `Close` has taken the
  list is never cancelled. mcp/transport.go:528-538: a handler that calls `Close` on the
  stream's reader waits for itself (`ClosesItself` in `CloseReturns`).
- mcp/oauth.go:455: the force flag is taken before the store has the new token, so of
  two callers refused at once the second may retry with the refused token. Hence
  `RetryIsFresh` is about one call at a time.
- provider/bedrock/embed.go:148-152, 208-212, 325, 333 (against docs/api/types.md:119): for
  a reply without a row, Titan and Marengo return a nil vector and no error, where Nova
  fails (:265). `OrderKept` allows a missing vector there and nowhere else.
- provider/vertex/embedding.go:165-171 and provider/google/embedding.go read different
  field names; a duplicate index in an OpenAI reply leaves a row without values.

Codecs:

- an early end of the body without an error ends a stream as complete, calls under
  assembly included (openaicompat, Responses, Ollama).
- openaicompat.go:810-814, responses.go:647, google.go:957-961, converse.go:731-735: the
  finish chunk repeats or lacks the reason of the step (against docs/api/types.md:27),
  and the loop takes the last one it is told (generate.go:2321, :565). `StreamFaithful`
  follows that fold, so it has these four end on a reason that is lost.
- anthropic.go:749-752 with normalize.go:147-155: sent back, a call that the server ran goes
  behind the text that followed it. A turn with
  thinking keeps its order (`AsSaid` in `ReplayVerbatim`).
- Responses: citations and the breaks between summaries of reasoning are lost when
  streaming; so is a call whose arguments come only in the last event.
- Google: a whole answer with calls says tool-calls whatever the reason, a streamed one
  only for STOP. Cohere: the tool plan is text in one decoder and metadata in the
  other. Cohere, Converse: empty arguments differ. Ollama: an error line is ignored, and
  "length" is reported as other.
- Anthropic: a made-up tool that follows text replaces it in a whole answer and is
  appended to it in a stream; when another tool is called too, the stream says stop
  and the whole answer tool-calls. A paused server call comes back as a plain call.
- Converse and Cohere may send an error chunk after the finish.

Objects and requests:

- object.go:376 and docs/api/core-functions.md:182 let the model decide when to call
  tools; Anthropic by default (anthropic.go:1354) and Bedrock (bedrock.go:323) force
  the format tool at every step, which leaves the caller's tools unreachable.
- object.go:190-228: a stream that was cancelled or cut before any text gives a zero
  object and no error, where GenerateObject gives an error.
- Bedrock's fallback for tools in a stream drops the format tool as well; a tool choice
  of none drops the tool configuration (against converse.go:168-171); a forced tool is
  kept under thinking (against anthropic.go:556).
- bedrock.go:666-668: the reasoning configuration of the instance, not of the call,
  takes precedence. The fallbacks are one pass in a fixed order: a limit that is
  refused only after the caching was dropped is not retried.
- a Responses `text` option and an Anthropic `output_config` option replace the format; the
  Responses `instructions` option replaces the system prompt (responses.go:227), though
  :285 protects the field from options. In openaicompat the options `top_k` and
  `stream_options` overwrite what the call asked for (openaicompat.go:41-47, 212, 398-401).
  `Yields` names every field that gives way, and `AsAsked` holds for the others.

## 8. Not modelled

- Observability: spans and batches driven by the hooks. Which hooks come in pairs is
  a property of the loops; the rest is formatting and an HTTP batch.
- Images and videos: one provider call inside `withRetry`; polling is one request and a
  timer. The realtime websocket layer is what `LiveConn` assumes of it.
- MCP's OAuth discovery, registration and redirect: single requests in a row before
  there is a token. Session ids and protocol headers.
- Schema generation, request signing, URLs, headers, files and caches; unmarshalling
  into Go types; the details of citations and of built-in tools' outputs.
- In `ObjectCall`: the hooks of the object functions and their panics, which repeat the
  loops' control.
- Hook composition (several hooks of a kind run in order), `OnPanic`, and the text of
  errors.
- In `Realtime`: the application's own sends (a stateless pass-through), several
  events in one server message, and user callbacks that call `Close`, which wait
  for the goroutine they run on.
- In `StreamLoop`: several chunks between two boundaries beyond the bound, and the
  metadata copied from chunk to step.
- Data races are modelled as what a reader may see at each interleaving; torn values
  inside one field are not.
