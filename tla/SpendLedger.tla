----------------------------- MODULE SpendLedger -----------------------------
(***************************************************************************)
(* The shared daily spend ledger of app/storage.py: the running total      *)
(* (research:spend:daily), the marker of the daily window it belongs to    *)
(* (research:spend:window) and the reservations hash                       *)
(* (research:spend:reservations), changed only by three Lua scripts, each  *)
(* one atomic action.                                                      *)
(*                                                                         *)
(* Amounts are naturals (a unit is the smallest amount the run uses).  The *)
(* total and its window marker are written by one script with one TTL, so  *)
(* they expire together; window = 0 stands for "both keys are absent".     *)
(* add_daily_spend is not modelled: its only caller is reached when a      *)
(* metered request reserved 0, which the request schema (gt=0) and the     *)
(* settings validator exclude.                                             *)
(***************************************************************************)
EXTENDS Integers, FiniteSets, Operations

CONSTANTS
    Limit,       \* DAILY_SPEND_LIMIT_USD
    Amounts,     \* the amounts requests reserve
    MaxWindow    \* bound: daily windows in a behaviour

ASSUME LedgerAssumption ==
    /\ Limit \in Nat
    /\ Amounts \subseteq Nat \ {0}
    /\ MaxWindow \in Nat

\* Ids are strings of at most 128 characters (app/schemas.py).
ASSUME OperationsAssumption == IsFiniteSet(Op)

VARIABLES
    total,       \* research:spend:daily, 0 when the key is absent
    window,      \* research:spend:window, 0 when the key is absent
    holds,       \* research:spend:reservations: amount and window per operation
    windowSeq    \* windows opened so far (the next marker is a new time stamp)

ledgerVars == <<total, window, holds, windowSeq>>

NoHold == [amount |-> 0, window |-> 0]

Hold == [amount : Amounts \cup {0}, window : 0..MaxWindow]

LedgerTypeOK ==
    /\ total \in Nat
    /\ windowSeq \in 0..MaxWindow
    /\ window \in 0..windowSeq
    /\ holds \in [Op -> Hold]

LedgerInit ==
    /\ total = 0
    /\ window = 0
    /\ windowSeq = 0
    /\ holds = [o \in Op |-> NoHold]

\* The stored hold of o carries the marker of the live window.
CurrentHold(o) == window # 0 /\ holds[o].window = window

\* What reserve_daily_spend answers.
ReserveGranted(o, amount) == CurrentHold(o) \/ total + amount <= Limit

OpensWindow == window = 0 /\ windowSeq < MaxWindow

\* Mutants: the ceiling is not checked; a repeated reservation is not
\* recognized.
ReserveUnchecked(o, amount) ==
    /\ window # 0 \/ OpensWindow
    /\ windowSeq' = IF window = 0 THEN windowSeq + 1 ELSE windowSeq
    /\ window' = IF window = 0 THEN windowSeq' ELSE window
    /\ IF ~CurrentHold(o)
         THEN /\ total' = total + amount
              /\ holds' = [holds EXCEPT ![o] = [amount |-> amount, window |-> window']]
         ELSE UNCHANGED <<total, holds>>

ReserveAgain(o, amount) ==
    /\ window # 0 \/ OpensWindow
    /\ windowSeq' = IF window = 0 THEN windowSeq + 1 ELSE windowSeq
    /\ window' = IF window = 0 THEN windowSeq' ELSE window
    /\ IF total + amount <= Limit
         THEN /\ total' = total + amount
              /\ holds' = [holds EXCEPT ![o] = [amount |-> amount, window |-> window']]
         ELSE UNCHANGED <<total, holds>>

(***************************************************************************)
(* _RESERVE_SPEND_LUA: open a window when none is live, answer a repeated  *)
(* reservation of the same window from the hash, otherwise check the       *)
(* ceiling and add.  A refusal leaves the freshly opened window behind.    *)
(***************************************************************************)
ReserveSpend(o, amount) ==
    /\ window # 0 \/ OpensWindow
    /\ windowSeq' = IF window = 0 THEN windowSeq + 1 ELSE windowSeq
    /\ window' = IF window = 0 THEN windowSeq' ELSE window
    /\ IF ~CurrentHold(o) /\ total + amount <= Limit
         THEN /\ total' = total + amount
              /\ holds' = [holds EXCEPT ![o] = [amount |-> amount, window |-> window']]
         ELSE UNCHANGED <<total, holds>>

\* Lua clamps the new total from below at zero and, on reconcile, from above.
Subtract(n, m) == IF m <= n THEN n - m ELSE 0
Clamp(n) == IF n > Limit THEN Limit ELSE n

\* Mutant: the window of the hold is not compared.
ReleaseStaleHold(o) ==
    /\ total' = Subtract(total, holds[o].amount)
    /\ holds' = [holds EXCEPT ![o] = NoHold]
    /\ UNCHANGED <<window, windowSeq>>

\* _RELEASE_SPEND_LUA with an operation id.
ReleaseSpend(o) ==
    /\ total' = IF CurrentHold(o) THEN Subtract(total, holds[o].amount) ELSE total
    /\ holds' = [holds EXCEPT ![o] = NoHold]
    /\ UNCHANGED <<window, windowSeq>>

\* _RECONCILE_SPEND_LUA; the only caller passes an observed cost of 0.0.
ObservedCost == 0

ReconcileSpend(o) ==
    /\ total' = IF CurrentHold(o)
                  THEN Clamp(Subtract(total + ObservedCost, holds[o].amount))
                  ELSE total
    /\ holds' = [holds EXCEPT ![o] = NoHold]
    /\ UNCHANGED <<window, windowSeq>>

\* The 24 hours of the window are over: total and marker expire together.
WindowExpires ==
    /\ window # 0
    /\ window' = 0
    /\ total' = 0
    /\ UNCHANGED <<holds, windowSeq>>

(***************************************************************************)
(* The reservations hash expires 86400 s after the last reservation, hence *)
(* never before the window that any of its holds was made in.              *)
(***************************************************************************)
HoldsExpire ==
    /\ \A o \in Op : ~CurrentHold(o)
    /\ holds' = [o \in Op |-> NoHold]
    /\ UNCHANGED <<total, window, windowSeq>>

LedgerNext ==
    \/ \E o \in Op :
         \/ \E amount \in Amounts : ReserveSpend(o, amount)
         \/ ReleaseSpend(o)
         \/ ReconcileSpend(o)
    \/ WindowExpires
    \/ HoldsExpire

LedgerSpec == LedgerInit /\ [][LedgerNext]_ledgerVars

-----------------------------------------------------------------------------
(***************************************************************************)
(* The running total never exceeds the daily ceiling, whatever the order   *)
(* in which replicas reserve, release and reconcile and whenever the       *)
(* window rolls over.                                                      *)
(***************************************************************************)
WithinLimit == total <= Limit

HeldToday == [o \in Op |-> IF CurrentHold(o) THEN holds[o].amount ELSE 0]

Budget == INSTANCE DailyBudget WITH held <- HeldToday

(***************************************************************************)
(* The counter is exactly what the live reservations add up to: a retried  *)
(* reserve or release counts once, and a hold that outlived its window is  *)
(* dropped without being taken from the next window's total.               *)
(***************************************************************************)
TotalIsHeld == total = Budget!HeldTotal(HeldToday)

(***************************************************************************)
(* The ledger implements the daily budget: every script is a Take, a       *)
(* GiveBack, a NewDay or no step at all of it.                             *)
(***************************************************************************)
ImplementsBudget == Budget!Spec
=============================================================================
