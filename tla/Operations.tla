----------------------------- MODULE Operations -----------------------------
(***************************************************************************)
(* The operation ids clients submit (ResearchRequestInput.operationId),    *)
(* shared by every module about the service's storage.                     *)
(***************************************************************************)
CONSTANT Op
=============================================================================
