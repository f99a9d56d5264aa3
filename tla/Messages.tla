------------------------------ MODULE Messages ------------------------------
(***************************************************************************)
(* provider/normalize.go: what the codecs of Anthropic and Bedrock do to   *)
(* a conversation before they convert it.  A message is a role and a       *)
(* sequence of parts; a part is a kind, a number and a content: the number *)
(* of the tool call for "call" and "result", of the signature for          *)
(* "reasoning", 0 when it has none.  A "server" part is a tool call the    *)
(* provider ran itself, its result inside the part.                        *)
(***************************************************************************)
EXTENDS Naturals, Sequences, SequencesExt

Part(t, id) == [t |-> t, id |-> id, v |-> <<id>>]
Msg(role, parts) == [role |-> role, parts |-> parts]
Kind(parts, K) == SelectSeq(parts, LAMBDA p : p.t \in K)
Ids(parts, K) == {Kind(parts, K)[j].id : j \in DOMAIN Kind(parts, K)}

Answering == {"tool", "user"}

\* The calls of message i without a result in the tool and user messages that
\* follow it directly, as aborted results.
\* MUTANT: only the next message is searched.
OrphansOfNext(msgs, i) ==
    LET answered == IF i < Len(msgs) THEN Ids(msgs[i + 1].parts, {"result"}) ELSE {}
        calls == SelectSeq(Kind(msgs[i].parts, {"call"}), LAMBDA p : p.id \notin answered)
    IN IF msgs[i].role # "assistant" THEN <<>>
       ELSE [j \in DOMAIN calls |-> Part("result", calls[j].id)]
Orphans(msgs, i) ==
    LET follows(j) == \A k \in i + 1..j : msgs[k].role \in Answering
        answered == UNION {Ids(msgs[j].parts, {"result"}) : j \in {k \in i + 1..Len(msgs) : follows(k)}}
        calls == SelectSeq(Kind(msgs[i].parts, {"call"}), LAMBDA p : p.id \notin answered)
    IN IF msgs[i].role # "assistant" THEN <<>>
       ELSE [j \in DOMAIN calls |-> Part("result", calls[j].id)]

\* They go to the end of the next message, or into one of their own when that
\* is none of the user's.
ensureToolResultPairing(msgs) ==
    LET takes(i) == i \in DOMAIN msgs /\ msgs[i].role \in Answering
        kept(i) == IF i > 1 /\ takes(i)
                   THEN [msgs[i] EXCEPT !.parts = @ \o Orphans(msgs, i - 1)] ELSE msgs[i]
        added(i) == IF Orphans(msgs, i) # <<>> /\ ~takes(i + 1)
                    THEN <<Msg("tool", Orphans(msgs, i))>> ELSE <<>>
    IN FlattenSeq([i \in DOMAIN msgs |-> <<kept(i)>> \o added(i)])

\* Neighbours of one role become one message, a tool's being the user's; the
\* results of a merged message come before its other parts.
Effective(role) == IF role = "tool" THEN "user" ELSE role
mergeMessage(result, msg) ==
    IF result # <<>> /\ Effective(Last(result).role) = Effective(msg.role)
    THEN LET all == Last(result).parts \o msg.parts
             parts == Kind(all, {"result"}) \o SelectSeq(all, LAMBDA p : p.t # "result")
         IN Append(Front(result), [Last(result) EXCEPT !.parts = parts])
    ELSE Append(result, msg)
mergeConsecutiveRoles(msgs) == FoldLeft(mergeMessage, <<>>, msgs)

NormalizeToolMessages(msgs) == mergeConsecutiveRoles(ensureToolResultPairing(msgs))

\* In an assistant's message everything else comes before the tool calls, those
\* the provider ran itself included.
Calls == {"call", "server"}
ReorderAssistantParts(msgs) ==
    [i \in DOMAIN msgs |->
        IF msgs[i].role = "assistant"
        THEN [msgs[i] EXCEPT !.parts = SelectSeq(@, LAMBDA p : p.t \notin Calls) \o Kind(@, Calls)]
        ELSE msgs[i]]
=============================================================================
