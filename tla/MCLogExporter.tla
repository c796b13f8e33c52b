--------------------------- MODULE MCLogExporter ----------------------------
(* A queue of two: full, drained and full again. *)
EXTENDS LogExporter
=============================================================================
