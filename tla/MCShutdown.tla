----------------------------- MODULE MCShutdown -----------------------------
(***************************************************************************)
(* A task whose saves are answered and one whose saves may hang.  The      *)
(* drain's budget is so small that it can run out.                         *)
(***************************************************************************)
EXTENDS Shutdown
=============================================================================
