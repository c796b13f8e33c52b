--------------------------- MODULE MCSearchBudget ---------------------------
(***************************************************************************)
(* Two research runs with different profiles, a Brain request beside them, *)
(* one worker thread of each run.                                          *)
(***************************************************************************)
EXTENDS SearchBudget

MCGuard == {"r1", "r2", "brain"}
MCProfileOf == [g \in MCGuard |-> IF g = "r1" THEN "technical" ELSE "general"]
MCMaximumOf == [g \in MCGuard |-> CASE g = "r1" -> 1 [] g = "r2" -> 2 [] OTHER -> NoBudget]
MCSearchProfiles == {"technical", "general"}
MCThread == {"t1", "t2"}
MCRunOf == [t \in MCThread |-> IF t = "t1" THEN "r1" ELSE "r2"]
=============================================================================
