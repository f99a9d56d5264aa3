---------------------------- MODULE PartialJson ----------------------------
(***************************************************************************)
(* partial_json.go: the text of an object that is still arriving, closed   *)
(* so that it parses.  A text is a sequence of characters; white space is  *)
(* left out.  What encoding/json makes of it is abstracted to the set of   *)
(* the fields it populates, each a path from the root.                     *)
(***************************************************************************)
EXTENDS Naturals, Sequences, SequencesExt, FiniteSets

CONSTANT MaxJSONDepth   \* maxJSONDepth (512 in the code)

Quote == "\""
Backslash == "\\"
Opener(c) == IF c = "}" THEN "{" ELSE "["
Closer(c) == IF c = "{" THEN "}" ELSE "]"
Ends(s, suffix) == IsSuffix(suffix, s)
Keywords == {<<"t", "r", "u", "e">>, <<"f", "a", "l", "s", "e">>, <<"n", "u", "l", "l">>}

-----------------------------------------------------------------------------
\* repairJSON, one character: what is kept, the open brackets, whether it is
\* in a string, behind a backslash, or past the depth where it stops.
RepairChar(st, c) ==
    CASE st.full -> st
      [] st.escaped -> [st EXCEPT !.out = Append(@, c), !.escaped = FALSE]
      [] ~st.escaped /\ st.inString ->
            [st EXCEPT !.out = Append(@, c), !.escaped = c = Backslash, !.inString = c # Quote]
      [] ~st.escaped /\ ~st.inString ->
            CASE c \in {"{", "["} /\ Len(st.stack) >= MaxJSONDepth -> [st EXCEPT !.full = TRUE]
              [] c \in {"{", "["} /\ Len(st.stack) < MaxJSONDepth ->
                    [st EXCEPT !.out = Append(@, c), !.stack = Append(@, c)]
              [] c \in {"}", "]"} ->
                    IF st.stack # <<>> /\ Last(st.stack) = Opener(c)
                    THEN [st EXCEPT !.out = Append(@, c), !.stack = Front(@)] ELSE st
              [] OTHER -> [st EXCEPT !.out = Append(@, c), !.inString = c = Quote]
      [] OTHER -> st

\* An open string is closed; a lone backslash and a \u short of its four
\* digits go first, unless that backslash is itself escaped.
LastIndex(s, sub) ==
    LET found == {i \in 1..Len(s) : i + Len(sub) - 1 <= Len(s) /\ SubSeq(s, i, i + Len(sub) - 1) = sub}
    IN IF found = {} THEN 0 ELSE CHOOSE i \in found : \A j \in found : j <= i
Backslashes(s, i) ==
    LET before == {j \in 1..i : \A k \in j..i : s[k] = Backslash} IN Cardinality(before)
CloseString(st) ==
    LET s == IF st.escaped /\ Ends(st.out, <<Backslash>>) THEN Front(st.out) ELSE st.out
        u == LastIndex(s, <<Backslash, "u">>)
        cut == u > 0 /\ Len(s) - u + 1 < 6 /\ Backslashes(s, u) % 2 = 1
    IN IF st.inString \/ st.escaped THEN Append(IF cut THEN SubSeq(s, 1, u - 1) ELSE s, Quote) ELSE st.out

\* A keyword or a number that was cut off.
Starts == {":", ",", "[", "{"}
completeTrailing(s) ==
    LET bounded(n) == n = Len(s) \/ s[Len(s) - n] \in Starts
        cut == {kw \in Keywords : \E n \in 1..Len(kw) : Ends(s, SubSeq(kw, 1, n)) /\ bounded(n)}
        kept(kw) == CHOOSE n \in 1..Len(kw) : Ends(s, SubSeq(kw, 1, n)) /\ bounded(n)
    IN CASE s = <<>> -> s
         [] cut # {} -> LET kw == CHOOSE k \in cut : TRUE IN SubSeq(s, 1, Len(s) - kept(kw)) \o kw
         [] cut = {} /\ s # <<>> /\ Last(s) \in {".", "-", "+", "e", "E"} -> Append(s, "0")
         [] OTHER -> s

\* The entry a bracket cannot be closed behind: a comma, a key and its colon,
\* a key without one.
Key(s) == LastIndex(SubSeq(s, 1, Len(s) - 1), <<Quote>>)
TrimComma(s) == IF s # <<>> /\ Last(s) = "," THEN Front(s) ELSE s
\* MUTANT: a key without its colon stays.
TrimColonOnly(s) ==
    CASE s = <<>> -> s
      [] s # <<>> /\ Last(s) = "," -> Front(s)
      [] s # <<>> /\ Last(s) = ":" ->
            LET k == Front(s) IN IF Ends(k, <<Quote>>) /\ Key(k) > 0 THEN TrimComma(SubSeq(k, 1, Key(k) - 1)) ELSE k
      [] OTHER -> s
trimTrailingIncomplete(s) ==
    CASE s = <<>> -> s
      [] s # <<>> /\ Last(s) = "," -> Front(s)
      [] s # <<>> /\ Last(s) = ":" ->
            LET k == Front(s) IN IF Ends(k, <<Quote>>) /\ Key(k) > 0 THEN TrimComma(SubSeq(k, 1, Key(k) - 1)) ELSE k
      [] s # <<>> /\ Last(s) = Quote /\ Key(s) > 1 ->
            CASE s[Key(s) - 1] = "{" -> SubSeq(s, 1, Key(s) - 1)
              [] s[Key(s) - 1] = "," -> SubSeq(s, 1, Key(s) - 2)
              [] OTHER -> s
      [] OTHER -> s

repairJSON(s) ==
    LET st == FoldLeft(RepairChar, [out |-> <<>>, stack |-> <<>>, inString |-> FALSE, escaped |-> FALSE, full |-> FALSE], s)
        done == completeTrailing(CloseString(st))
    IN CASE s = <<>> -> <<"{", "}">>
         [] s # <<>> /\ st.stack = <<>> -> done
         [] OTHER -> trimTrailingIncomplete(done) \o [i \in 1..Len(st.stack) |-> Closer(st.stack[Len(st.stack) + 1 - i])]

-----------------------------------------------------------------------------
\* encoding/json, one character: what may come next, the literal being read,
\* the open brackets, the path it is at and the fields populated so far.  A
\* null populates nothing.
Wrong(p) == [p EXCEPT !.ok = FALSE]
ValueEnds(p, populated) ==
    LET field == IF populated THEN [p EXCEPT !.fields = @ \cup {p.path}] ELSE p
    IN [field EXCEPT !.literal = <<>>, !.lex = "",
                     !.next = IF p.open = <<>> THEN "end" ELSE "comma",
                     !.path = IF p.open # <<>> /\ Last(p.open) = "{" THEN Front(@) ELSE @]
Digits == {"0", "1"}
Number(s) == Last(s) \in Digits /\ \A i \in DOMAIN s : s[i] \in Digits \cup {".", "-", "+", "e", "E"}
LiteralEnds(p) ==
    IF p.lex # "word" THEN p
    ELSE IF p.literal \in Keywords \/ Number(p.literal) THEN ValueEnds(p, p.literal[1] # "n") ELSE Wrong(p)

InString(p, c) ==
    CASE p.literal # <<>> /\ Last(p.literal) = Backslash -> [p EXCEPT !.literal = Append(Front(@), "x")]
      [] c = Quote /\ p.lex = "key" -> [p EXCEPT !.lex = "", !.next = "colon", !.path = Append(@, p.literal), !.literal = <<>>]
      [] c = Quote /\ p.lex = "string" -> ValueEnds(p, TRUE)
      [] OTHER -> [p EXCEPT !.literal = Append(@, c)]

Closes(p, c) ==
    IF p.next \in {"comma", "first"} /\ p.open # <<>> /\ Last(p.open) = Opener(c)
    THEN ValueEnds([p EXCEPT !.open = Front(@), !.path = IF c = "]" THEN Front(@) ELSE @], TRUE)
    ELSE Wrong(p)

Begins(p, c) ==
    LET key == p.open # <<>> /\ Last(p.open) = "{" /\ p.next \in {"first", "entry"}
        value == p.next \in {"value", "entry"} \/ (p.next = "first" /\ Last(p.open) = "[")
    IN CASE key -> IF c = Quote THEN [p EXCEPT !.lex = "key"] ELSE Wrong(p)
         [] ~key /\ value ->
              CASE c = Quote -> [p EXCEPT !.lex = "string"]
                [] c = "{" -> [p EXCEPT !.open = Append(@, c), !.next = "first"]
                [] c = "[" -> [p EXCEPT !.open = Append(@, c), !.next = "first", !.path = Append(@, <<"item">>)]
                [] c \in {"]", "}", ",", ":"} -> Wrong(p)
                [] OTHER -> [p EXCEPT !.lex = "word", !.literal = <<c>>]
         [] OTHER -> Wrong(p)

ParseChar(given, c) ==
    LET ends == given.lex = "word" /\ c \in {",", "]", "}"}
        p == IF ends THEN LiteralEnds(given) ELSE given
    IN CASE ~p.ok -> p
         [] p.ok /\ p.lex \in {"key", "string"} -> InString(p, c)
         [] p.ok /\ p.lex = "word" -> [p EXCEPT !.literal = Append(@, c)]
         [] p.ok /\ p.lex = "" ->
              CASE c \in {"}", "]"} -> Closes(p, c)
                [] c = ":" -> IF p.next = "colon" THEN [p EXCEPT !.next = "value"] ELSE Wrong(p)
                [] c = "," -> IF p.next # "comma" THEN Wrong(p)
                              ELSE [p EXCEPT !.next = "entry",
                                             !.path = IF Last(p.open) = "[" THEN Append(Front(@), Append(Last(@), "item")) ELSE @]
                [] OTHER -> Begins(p, c)

Unparsed == {<<<<"not", "json">>>>}
Unmarshal(s) ==
    LET p == LiteralEnds(FoldLeft(ParseChar,
                [ok |-> TRUE, next |-> "value", lex |-> "", literal |-> <<>>, open |-> <<>>, path |-> <<>>, fields |-> {}], s))
    IN IF p.ok /\ p.next = "end" THEN p.fields ELSE Unparsed

\* parsePartialJSON.
parsePartialJSON(s) == IF Unmarshal(s) # Unparsed THEN Unmarshal(s) ELSE Unmarshal(repairJSON(s))
=============================================================================
