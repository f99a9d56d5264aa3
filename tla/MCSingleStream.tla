--------------------------- MODULE MCSingleStream ---------------------------
(* Three chunks through a channel of one, every way to read, callbacks that panic. *)
EXTENDS SingleStream

MCModes == {"channel", "none"}
=============================================================================
