----------------------------- MODULE MCToolLoop -----------------------------
(***************************************************************************)
(* A small instance of ToolLoop: three steps, two calls the client runs    *)
(* and one the provider runs, and answers of every shape that the loop     *)
(* tells apart (with and without text, calls, and a finish reason that     *)
(* agrees with the calls or contradicts them).                             *)
(***************************************************************************)
EXTENDS ToolLoop

MCCalls == {"client", "second", "server"}
MCServerCalls == {"server"}
MCMaxSteps == 3
MCResponses ==
    [text : BOOLEAN, calls : {<<>>, <<"client", "second">>, <<"server", "client">>, <<"server">>},
     finish : {"stop", "tool_calls"}]
=============================================================================
