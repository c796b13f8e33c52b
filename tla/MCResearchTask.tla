--------------------------- MODULE MCResearchTask ---------------------------
(***************************************************************************)
(* Instances and cancel requests for TLC: one operation on i1, metered o1  *)
(* or o2 whose cost the gateway accounts for; c1 cancels it where it runs, *)
(* c2 from the other instance.                                             *)
(***************************************************************************)
EXTENDS ResearchTask, TLC

CONSTANTS o1, o2, i1, i2, c1, c2

Hosts == [o \in Op |-> i1]
Metering == [o \in Op |-> IF o = o1 THEN 1 ELSE 0]
Targets == [c \in Canceller |-> CHOOSE o \in Op : TRUE]
Vias == [c \in Canceller |-> IF c = c1 THEN i1 ELSE i2]
=============================================================================
