----------------------------- MODULE DailyBudget -----------------------------
(***************************************************************************)
(* What the daily spend ceiling promises, without counters, markers or     *)
(* TTLs: within one day the operations that hold budget hold at most Limit *)
(* together, an operation holds at most one reservation, giving it back    *)
(* twice gives it back once, and a new day starts with nothing held.       *)
(***************************************************************************)
EXTENDS Naturals, FiniteSetsExt

CONSTANTS Op, Limit, Amounts

VARIABLE held          \* held[o]: what operation o holds of today's budget

HeldTotal(h) == MapThenSumSet(LAMBDA o : h[o], Op)

Init == held = [o \in Op |-> 0]

Take(o, amount) ==
    /\ held[o] = 0
    /\ HeldTotal(held) + amount <= Limit
    /\ held' = [held EXCEPT ![o] = amount]

GiveBack(o) ==
    /\ held[o] # 0
    /\ held' = [held EXCEPT ![o] = 0]

NewDay == held' = [o \in Op |-> 0]

Next ==
    \/ \E o \in Op : GiveBack(o) \/ \E amount \in Amounts : Take(o, amount)
    \/ NewDay

Spec == Init /\ [][Next]_held
=============================================================================
