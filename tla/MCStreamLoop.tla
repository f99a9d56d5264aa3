---------------------------- MODULE MCStreamLoop ----------------------------
(***************************************************************************)
(* Small instances of StreamLoop.                                          *)
(***************************************************************************)
EXTENDS StreamLoop

MCCalls == {"client"}
MCServerCalls == {}
=============================================================================
