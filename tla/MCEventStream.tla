--------------------------- MODULE MCEventStream ---------------------------
(* One client of the event stream for TLC. *)
EXTENDS EventStream

CONSTANT c1
=============================================================================
