--------------------------- MODULE MCProviderCall ---------------------------
\* Answers that reach every branch of the seven codecs, and conversations of
\* all their turns.
EXTENDS ProviderCall

MCCodecs == {"compat", "responses", "anthropic", "google", "converse", "cohere", "ollama"}

Answer == [reasoning |-> <<>>, text |-> <<>>, calls |-> <<>>, sources |-> <<>>, cause |-> "end", served |-> 0, rf |-> FALSE]
Call(id, args) == [id |-> id, args |-> args]

MCAnswers ==
    {[Answer EXCEPT !.text = <<1, 2>>, !.sources = <<1>>],
     [Answer EXCEPT !.text = <<1>>, !.cause = "limit"],
     [Answer EXCEPT !.text = <<1>>, !.cause = "filter"],
     [Answer EXCEPT !.cause = "novel"],
     [Answer EXCEPT !.reasoning = <<<<1>>, <<2>>>>, !.text = <<3>>,
                    !.calls = <<Call(1, <<1, 2>>), Call(2, <<>>)>>, !.cause = "calls"],
     [Answer EXCEPT !.calls = <<Call(0, <<1>>), Call(0, <<2>>)>>, !.cause = "calls"],
     [Answer EXCEPT !.reasoning = <<<<>>, <<1>>>>, !.calls = <<Call(1, <<1>>)>>, !.cause = "calls"],
     [Answer EXCEPT !.calls = <<Call(1, <<1, 2, 3>>)>>, !.cause = "calls"],
     [Answer EXCEPT !.calls = <<Call(1, <<1>>), Call(2, <<2>>), Call(3, <<>>)>>, !.served = 2, !.cause = "calls"],
     [Answer EXCEPT !.calls = <<Call(1, <<1>>)>>, !.text = <<1>>, !.served = 1],
     [Answer EXCEPT !.reasoning = <<<<1>>>>, !.calls = <<Call(1, <<1>>), Call(2, <<2>>)>>, !.text = <<2>>,
                    !.served = 1, !.cause = "calls"],
     [Answer EXCEPT !.calls = <<Call(1, <<1>>)>>, !.served = 1, !.cause = "paused"],
     [Answer EXCEPT !.calls = <<Call(1, <<1, 2>>)>>, !.rf = TRUE, !.cause = "calls"]}

MCRawUsages == {[prompt |-> 9, completion |-> 3, total |-> 0, cached |-> 2, written |-> 1, thought |-> 1]}

MCTurns ==
    {<<Part("text", 1)>>,
     <<Part("text", 1), Part("call", 1)>>,
     <<Part("reasoning", 5), Part("call", 1), Part("reasoning", 6), Part("call", 2)>>,
     <<Part("reasoning", 0), Part("call", 1), Part("text", 2)>>,
     <<Part("server", 1), Part("text", 1), Part("call", 2)>>}
=============================================================================
