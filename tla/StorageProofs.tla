---------------------------- MODULE StorageProofs ----------------------------
(***************************************************************************)
(* The two parts of the Redis backend that the other components share.     *)
(*                                                                         *)
(* Of the operation store: facts about its single actions, cited by the    *)
(* proofs about admission and the task.  Of the spend ledger: the daily    *)
(* ceiling, for any finite set of operations, any amounts and any number   *)
(* of windows, and that the total is what the live holds add up to.        *)
(***************************************************************************)
EXTENDS OperationStore, SpendLedger, FiniteSums

\* Every action of the operation store keeps its types.
LEMMA StoreCallTypes ==
    ASSUME StoreTypeOK, NEW o \in Op, NEW i \in Instance, NEW k \in Key,
           NEW s \in Status,
           \/ SaveOperation(o, s) \/ SaveQueued(o, k)
           \/ BeginOperation(i, o) \/ ReleaseOperationLease(i, o)
           \/ AcquireSlot(i, o) \/ ReleaseSlot(i, o)
           \/ LeaseExpires(o) \/ SlotExpires(<<i, o>>)
    PROVE  StoreTypeOK'
<1> USE DEF StoreTypeOK
<1>1. CASE SaveOperation(o, s)
  BY <1>1 DEF SaveOperation, Record
<1>2. CASE SaveQueued(o, k)
  BY <1>2 DEF SaveQueued, Record, Status, ActiveStatus
<1>3. CASE BeginOperation(i, o)
  BY <1>3 DEF BeginOperation
<1>4. CASE ReleaseOperationLease(i, o)
  BY <1>4 DEF ReleaseOperationLease
<1>5. CASE AcquireSlot(i, o)
  BY <1>5 DEF AcquireSlot, Slot
<1>6. CASE ReleaseSlot(i, o)
  BY <1>6 DEF ReleaseSlot
<1>7. CASE LeaseExpires(o)
  BY <1>7 DEF LeaseExpires
<1>8. CASE SlotExpires(<<i, o>>)
  BY <1>8 DEF SlotExpires, Slot
<1> QED BY <1>1, <1>2, <1>3, <1>4, <1>5, <1>6, <1>7, <1>8

-----------------------------------------------------------------------------
\* The members of the sorted set, expired ones included.
Members == slots \cup lapsedSlots

CeilingHolds ==
    /\ IsFiniteSet(Members)
    /\ Cardinality(Members) <= MaxConcurrentOps

(***************************************************************************)
(* No action of the store takes the sorted set over the ceiling: acquiring *)
(* reaps first and counts what is left, renewing adds no member.           *)
(***************************************************************************)
LEMMA AcquireKeepsCeiling ==
    ASSUME CeilingHolds, NEW i, NEW o, AcquireSlot(i, o)
    PROVE  CeilingHolds'
<1>1. IsFiniteSet(slots)
  BY FS_Subset DEF CeilingHolds, Members
<1>2. IsFiniteSet(slots \cup {<<i, o>>})
  BY <1>1, FS_AddElement
<1>3. /\ Cardinality(slots) \in Nat
      /\ Cardinality(slots \cup {<<i, o>>}) <= Cardinality(slots) + 1
      /\ Cardinality(slots \cup {<<i, o>>}) \in Nat
  <2>1. /\ Cardinality(slots) \in Nat
        /\ Cardinality(slots \cup {<<i, o>>}) \in Nat
    BY <1>1, <1>2, FS_CardinalityType
  <2>2. Cardinality(slots \cup {<<i, o>>}) =
          IF <<i, o>> \in slots THEN Cardinality(slots) ELSE Cardinality(slots) + 1
    BY <1>1, FS_AddElement
  <2> QED BY <2>1, <2>2
<1>4. CASE SlotFree
  <2>1. Members' = slots \cup {<<i, o>>}
    BY <1>4 DEF AcquireSlot, Members
  <2> QED BY <2>1, <1>2, <1>3, <1>4, StoreAssumption DEF SlotFree, StoreAssumption, CeilingHolds
<1>5. CASE ~SlotFree
  <2>1. Members' = slots
    BY <1>5 DEF AcquireSlot, Members
  <2>2. slots \in SUBSET Members
    BY DEF Members
  <2>3. Cardinality(slots) <= Cardinality(Members)
    BY <2>2, FS_Subset DEF CeilingHolds
  <2>4. Cardinality(Members) \in Nat
    BY FS_CardinalityType DEF CeilingHolds
  <2> QED BY <2>1, <2>3, <2>4, <1>1, <1>3, StoreAssumption DEF CeilingHolds, StoreAssumption
<1> QED BY <1>4, <1>5

\* Fewer members are still within the ceiling.
LEMMA OthersKeepCeiling ==
    ASSUME CeilingHolds, Members' \subseteq Members
    PROVE  CeilingHolds'
<1>1. Members' \in SUBSET Members
  OBVIOUS
<1>2. IsFiniteSet(Members') /\ Cardinality(Members') <= Cardinality(Members)
  BY <1>1, FS_Subset DEF CeilingHolds
<1>3. Cardinality(Members) \in Nat /\ Cardinality(Members') \in Nat
  BY <1>2, FS_CardinalityType DEF CeilingHolds
<1> QED BY <1>2, <1>3, StoreAssumption DEF CeilingHolds, StoreAssumption

\* Every other action of the store adds no member to the sorted set.
LEMMA MembersShrink ==
    ASSUME NEW o, NEW i, NEW k, NEW s, NEW m,
           \/ SaveOperation(o, s) \/ SaveQueued(o, k)
           \/ BeginOperation(i, o) \/ ReleaseOperationLease(i, o)
           \/ ReleaseSlot(i, o) \/ TouchOperation(i, o)
           \/ LeaseExpires(o) \/ SlotExpires(m)
    PROVE  Members' \subseteq Members
BY DEF SaveOperation, SaveQueued, BeginOperation, ReleaseOperationLease, ReleaseSlot,
       TouchOperation, TouchSucceeds, LeaseExpires, SlotExpires, Members

-----------------------------------------------------------------------------
(***************************************************************************)
(* The spend ledger.                                                       *)
(***************************************************************************)
\* Amounts, the zero of an empty hold included, are naturals.
LEMMA AmountsAreNaturals == \A m \in Amounts \cup {0} : m \in Nat
BY LedgerAssumption DEF LedgerAssumption

\* The amount of a stored hold is a natural.
LEMMA HoldAmountType ==
    ASSUME LedgerTypeOK, NEW o \in Op
    PROVE  holds[o].amount \in Nat
<1>1. holds[o] \in Hold
  BY DEF LedgerTypeOK
<1>2. holds[o].amount \in Amounts \cup {0}
  BY <1>1 DEF Hold
<1> QED BY <1>2, AmountsAreNaturals

\* Every script of the ledger keeps its types.
LEMMA LedgerCallTypes ==
    ASSUME LedgerTypeOK, NEW o \in Op, NEW m \in Amounts \cup {0},
           ReserveSpend(o, m) \/ ReleaseSpend(o) \/ ReconcileSpend(o)
    PROVE  LedgerTypeOK'
<1> USE LedgerAssumption DEF LedgerAssumption
<1>1. CASE ReserveSpend(o, m)
  <2>1. /\ windowSeq' \in 0..MaxWindow
        /\ window' \in 0..windowSeq'
    BY <1>1 DEF ReserveSpend, OpensWindow, LedgerTypeOK
  <2>2. total' \in Nat
    BY <1>1 DEF ReserveSpend, LedgerTypeOK
  <2>3. holds' \in [Op -> Hold]
    BY <1>1, <2>1 DEF ReserveSpend, LedgerTypeOK, Hold
  <2> QED BY <2>1, <2>2, <2>3 DEF LedgerTypeOK
<1>a. holds[o].amount \in Nat
  BY HoldAmountType
<1>b. NoHold \in Hold
  BY DEF NoHold, Hold
<1>2. CASE ReleaseSpend(o)
  <2>1. total' \in Nat
    BY <1>2, <1>a DEF ReleaseSpend, Subtract, LedgerTypeOK
  <2>2. holds' \in [Op -> Hold]
    BY <1>2, <1>b DEF ReleaseSpend, LedgerTypeOK
  <2> QED BY <1>2, <2>1, <2>2 DEF ReleaseSpend, LedgerTypeOK
<1>3. CASE ReconcileSpend(o)
  <2>1. total' \in Nat
    BY <1>3, <1>a DEF ReconcileSpend, Subtract, Clamp, ObservedCost, LedgerTypeOK
  <2>2. holds' \in [Op -> Hold]
    BY <1>3, <1>b DEF ReconcileSpend, LedgerTypeOK
  <2> QED BY <1>3, <2>1, <2>2 DEF ReconcileSpend, LedgerTypeOK
<1> QED BY <1>1, <1>2, <1>3

\* The expiry of the window and of the reservations keeps the types.
LEMMA LedgerTimeTypes ==
    ASSUME LedgerTypeOK, WindowExpires \/ HoldsExpire
    PROVE  LedgerTypeOK'
<1>1. CASE WindowExpires
  BY <1>1, LedgerAssumption DEF WindowExpires, LedgerTypeOK, LedgerAssumption
<1>2. CASE HoldsExpire
  BY <1>2, LedgerAssumption DEF HoldsExpire, LedgerTypeOK, Hold, NoHold, LedgerAssumption
<1> QED BY <1>1, <1>2

(***************************************************************************)
(* The ledger's variables keep their types.                                *)
(***************************************************************************)
THEOREM LedgerTypeCorrect == LedgerSpec => []LedgerTypeOK
<1>1. LedgerInit => LedgerTypeOK
  BY LedgerAssumption DEF LedgerInit, LedgerTypeOK, LedgerAssumption, Hold, NoHold
<1>2. LedgerTypeOK /\ [LedgerNext]_ledgerVars => LedgerTypeOK'
  <2> SUFFICES ASSUME LedgerTypeOK, [LedgerNext]_ledgerVars
               PROVE  LedgerTypeOK'
    OBVIOUS
  <2>1. ASSUME NEW o \in Op, NEW m \in Amounts, ReserveSpend(o, m)
        PROVE  LedgerTypeOK'
    BY <2>1, LedgerCallTypes
  <2>2. ASSUME NEW o \in Op, ReleaseSpend(o) \/ ReconcileSpend(o)
        PROVE  LedgerTypeOK'
    <3>1. 0 \in Amounts \cup {0}
      OBVIOUS
    <3> QED BY <2>2, <3>1, LedgerCallTypes
  <2>3. CASE WindowExpires \/ HoldsExpire
    BY <2>3, LedgerTimeTypes
  <2>4. CASE UNCHANGED ledgerVars
    BY <2>4 DEF ledgerVars, LedgerTypeOK
  <2> QED BY <2>1, <2>2, <2>3, <2>4 DEF LedgerNext
<1> QED BY <1>1, <1>2, PTL DEF LedgerSpec

(***************************************************************************)
(* The running total stays within the daily ceiling, for every set of      *)
(* operations and amounts and any number of windows.                       *)
(***************************************************************************)
THEOREM LedgerWithinLimit == LedgerSpec => []WithinLimit
<1>1. LedgerInit => WithinLimit
  BY LedgerAssumption DEF LedgerInit, WithinLimit, LedgerAssumption
<1>2. LedgerTypeOK /\ WithinLimit /\ [LedgerNext]_ledgerVars => WithinLimit'
  <2> SUFFICES ASSUME LedgerTypeOK, WithinLimit, [LedgerNext]_ledgerVars
               PROVE  WithinLimit'
    OBVIOUS
  <2>1. ASSUME NEW o \in Op, NEW m \in Amounts, ReserveSpend(o, m)
        PROVE  WithinLimit'
    BY <2>1 DEF ReserveSpend, WithinLimit
  <2>2. ASSUME NEW o \in Op, ReleaseSpend(o) \/ ReconcileSpend(o)
        PROVE  WithinLimit'
    <3>1. holds[o].amount \in Nat
      BY HoldAmountType
    <3>2. CASE ReleaseSpend(o)
      BY <3>1, <3>2, LedgerAssumption
         DEF ReleaseSpend, Subtract, WithinLimit, LedgerTypeOK, LedgerAssumption
    <3>3. CASE ReconcileSpend(o)
      BY <3>1, <3>3, LedgerAssumption
         DEF ReconcileSpend, Subtract, Clamp, ObservedCost, WithinLimit, LedgerTypeOK,
             LedgerAssumption
    <3> QED BY <2>2, <3>2, <3>3
  <2>3. CASE WindowExpires
    BY <2>3, LedgerAssumption DEF WindowExpires, WithinLimit, LedgerAssumption
  <2>4. CASE HoldsExpire
    BY <2>4 DEF HoldsExpire, WithinLimit
  <2>5. CASE UNCHANGED ledgerVars
    BY <2>5 DEF ledgerVars, WithinLimit
  <2> QED BY <2>1, <2>2, <2>3, <2>4, <2>5 DEF LedgerNext
<1> QED BY <1>1, <1>2, LedgerTypeCorrect, PTL DEF LedgerSpec
-----------------------------------------------------------------------------
(***************************************************************************)
(* The total against the holds.                                            *)
(***************************************************************************)

\* A hold names a window that was opened, and nobody holds nothing in one.
HoldsKnown ==
    \A o \in Op :
        /\ holds[o].window <= windowSeq
        /\ holds[o].window # 0 => holds[o].amount # 0

LedgerInv == LedgerTypeOK /\ WithinLimit /\ HoldsKnown /\ TotalIsHeld

LEMMA HeldTotalIs == ASSUME NEW h PROVE Budget!HeldTotal(h) = SumOver(h, Op)
BY DEF Budget!HeldTotal, Budget!MapThenSumSet, Budget!MapThenFoldSet,
       SumOver, MapThenSumSet, MapThenFoldSet

LEMMA HeldSummable == ASSUME LedgerTypeOK PROVE Summable(HeldToday, Op)
BY HoldAmountType, OperationsAssumption DEF Summable, HeldToday, OperationsAssumption

\* One hold is taken or given back, nothing else changes.
HoldChanges(o, n) == HeldToday' = [HeldToday EXCEPT ![o] = n]

LEMMA ChangedTotal ==
    ASSUME LedgerTypeOK, LedgerTypeOK', NEW o \in Op, NEW n \in Nat, HoldChanges(o, n)
    PROVE  /\ SumOver(HeldToday', Op) = (SumOver(HeldToday, Op) - HeldToday[o]) + n
           /\ SumOver(HeldToday, Op) \in Nat
           /\ HeldToday[o] \in Nat /\ HeldToday[o] <= SumOver(HeldToday, Op)
<1> DEFINE h == HeldToday
           g == HeldToday'
<1>1. Summable(h, Op)
  BY HeldSummable
<1>2. DOMAIN h = Op
  BY DEF HeldToday
<1>3. g = [h EXCEPT ![o] = n]
  BY DEF HoldChanges
<1> HIDE DEF h, g
<1>4. \A p \in Op : h[p] \in Nat
  BY <1>1 DEF Summable
<1>5. g[o] = n /\ \A p \in Op \ {o} : h[p] = g[p]
  BY <1>2, <1>3
<1>6. Summable(g, Op)
  BY <1>1, <1>4, <1>5 DEF Summable
<1>7. SumOver(g, Op) = (SumOver(h, Op) - h[o]) + g[o]
  BY <1>1, <1>5, <1>6, SumChanges
<1>8. SumOver(h, Op) \in Nat /\ h[o] <= SumOver(h, Op)
  BY <1>1, SumIsNatural, SumBounds
<1> QED BY <1>4, <1>5, <1>7, <1>8 DEF h, g

LEMMA NothingHeld ==
    ASSUME LedgerTypeOK, window = 0
    PROVE  HeldToday = [o \in Op |-> 0] /\ SumOver(HeldToday, Op) = 0
<1>1. HeldToday = [o \in Op |-> 0]
  BY DEF HeldToday, CurrentHold
<1>2. \A o \in Op : HeldToday[o] = 0
  BY <1>1
<1> QED BY <1>1, <1>2, HeldSummable, SumOfNothing

\* Every reservation is a Take of the abstract budget, or no step of it.
LEMMA ReserveSteps ==
    ASSUME LedgerInv, NEW o \in Op, NEW m \in Amounts, ReserveSpend(o, m)
    PROVE  /\ HoldsKnown' /\ TotalIsHeld'
           /\ Budget!Take(o, m) \/ UNCHANGED HeldToday
<1>1. LedgerTypeOK'
  BY LedgerCallTypes DEF LedgerInv
<1>m. m \in Nat /\ m # 0
  BY LedgerAssumption DEF LedgerAssumption
<1>t. LedgerTypeOK /\ holds \in [Op -> Hold] /\ windowSeq \in Nat /\ window \in Nat /\ total \in Nat
  BY LedgerAssumption DEF LedgerInv, LedgerTypeOK, LedgerAssumption
<1>w. \A p \in Op : holds[p].window \in Nat /\ holds[p].window <= windowSeq
  <2>1. \A p \in Op : holds[p] \in Hold
    BY <1>t
  <2> QED BY <2>1, LedgerAssumption DEF Hold, LedgerInv, HoldsKnown, LedgerAssumption
<1>2. /\ window' # 0 /\ window' \in Nat
      /\ window # 0 => window' = window
      /\ window = 0 => window' = windowSeq + 1
      /\ windowSeq <= windowSeq' /\ window' <= windowSeq'
  BY <1>t DEF ReserveSpend, LedgerInv, LedgerTypeOK
<1>3. \A p \in Op : (window' = holds[p].window) <=> CurrentHold(p)
  <2>1. CASE window = 0
    BY <2>1, <1>2, <1>w, <1>t DEF CurrentHold
  <2>2. CASE window # 0
    BY <2>2, <1>2 DEF CurrentHold
  <2> QED BY <2>1, <2>2
<1>k. \A p \in Op :
         /\ holds[p].window <= windowSeq'
         /\ holds[p].window # 0 => holds[p].amount # 0
  <2>1. windowSeq' \in Nat
    BY <1>1, LedgerAssumption DEF LedgerTypeOK, LedgerAssumption
  <2> QED BY <2>1, <1>2, <1>t, <1>w DEF LedgerInv, HoldsKnown
<1>4. total = SumOver(HeldToday, Op)
  BY HeldTotalIs DEF LedgerInv, TotalIsHeld
<1>5. CASE ~CurrentHold(o) /\ total + m <= Limit
  <2>1. /\ total' = total + m
        /\ holds' = [holds EXCEPT ![o] = [amount |-> m, window |-> window']]
    BY <1>5 DEF ReserveSpend
  <2>2. \A p \in Op : holds'[p] = IF p = o THEN [amount |-> m, window |-> window'] ELSE holds[p]
    BY <2>1, <1>t
  <2>3. HoldsKnown'
    BY <2>2, <1>2, <1>m, <1>k DEF HoldsKnown
  <2>4. HeldToday[o] = 0
    BY <1>5 DEF HeldToday
  <2>5. HoldChanges(o, m)
    <3>0. \A p \in Op : CurrentHold(p)' <=> (p = o \/ CurrentHold(p))
      BY <2>2, <1>2, <1>3 DEF CurrentHold
    <3>1. \A p \in Op : HeldToday'[p] = IF p = o THEN m ELSE HeldToday[p]
      BY <2>2, <3>0 DEF HeldToday
    <3>2. DOMAIN HeldToday = Op /\ HeldToday' = [p \in Op |-> HeldToday'[p]]
      BY DEF HeldToday
    <3>3. HeldToday = [p \in Op |-> HeldToday[p]]
      BY DEF HeldToday
    <3> QED BY <3>1, <3>2, <3>3 DEF HoldChanges
  <2>6. SumOver(HeldToday', Op) = SumOver(HeldToday, Op) + m
    BY <1>1, <1>t, <1>m, <2>4, <2>5, ChangedTotal
  <2>7. TotalIsHeld'
    BY <1>4, <2>1, <2>6, HeldTotalIs DEF TotalIsHeld
  <2>8. Budget!Take(o, m)
    BY <1>4, <1>5, <2>4, <2>5, HeldTotalIs DEF Budget!Take, HoldChanges
  <2> QED BY <2>3, <2>7, <2>8
<1>6. CASE ~(~CurrentHold(o) /\ total + m <= Limit)
  <2>1. UNCHANGED <<total, holds>>
    BY <1>6 DEF ReserveSpend
  <2>2. HoldsKnown'
    BY <2>1, <1>k DEF HoldsKnown
  <2>3. HeldToday' = HeldToday
    BY <2>1, <1>2, <1>3 DEF HeldToday, CurrentHold
  <2>4. TotalIsHeld'
    BY <1>4, <2>1, <2>3, HeldTotalIs DEF TotalIsHeld
  <2> QED BY <2>2, <2>3, <2>4
<1> QED BY <1>5, <1>6

\* Every release and reconciliation gives a hold back, or is no step.
LEMMA ReleaseSteps ==
    ASSUME LedgerInv, NEW o \in Op, ReleaseSpend(o) \/ ReconcileSpend(o)
    PROVE  /\ HoldsKnown' /\ TotalIsHeld'
           /\ Budget!GiveBack(o) \/ UNCHANGED HeldToday
<1>1. LedgerTypeOK'
  <2>1. 0 \in Amounts \cup {0}
    OBVIOUS
  <2> QED BY <2>1, LedgerCallTypes DEF LedgerInv
<1>t. /\ LedgerTypeOK /\ holds \in [Op -> Hold] /\ total \in Nat
      /\ holds[o].amount \in Nat /\ windowSeq \in Nat
  BY LedgerAssumption, HoldAmountType DEF LedgerInv, LedgerTypeOK, LedgerAssumption
<1>2. /\ holds' = [holds EXCEPT ![o] = NoHold]
      /\ window' = window /\ windowSeq' = windowSeq
  BY DEF ReleaseSpend, ReconcileSpend
<1>3. \A p \in Op : holds'[p] = IF p = o THEN NoHold ELSE holds[p]
  BY <1>2, <1>t
<1>4. HoldsKnown'
  BY <1>2, <1>3, <1>t DEF LedgerInv, HoldsKnown, NoHold
<1>5. total = SumOver(HeldToday, Op)
  BY HeldTotalIs DEF LedgerInv, TotalIsHeld
<1>6. \A p \in Op : CurrentHold(p)' <=> (p # o /\ CurrentHold(p))
  BY <1>2, <1>3 DEF CurrentHold, NoHold
<1>7. HoldChanges(o, 0)
  <2>1. \A p \in Op : HeldToday'[p] = IF p = o THEN 0 ELSE HeldToday[p]
    BY <1>3, <1>6 DEF HeldToday
  <2>2. HeldToday' = [p \in Op |-> HeldToday'[p]] /\ HeldToday = [p \in Op |-> HeldToday[p]]
    BY DEF HeldToday
  <2> QED BY <2>1, <2>2 DEF HoldChanges
<1>8. /\ SumOver(HeldToday', Op) = SumOver(HeldToday, Op) - HeldToday[o]
      /\ HeldToday[o] \in Nat /\ HeldToday[o] <= SumOver(HeldToday, Op)
      /\ SumOver(HeldToday, Op) \in Nat
  <2>1. 0 \in Nat
    OBVIOUS
  <2> QED BY <1>1, <1>t, <1>7, <2>1, ChangedTotal
<1>9. CASE CurrentHold(o)
  <2>1. HeldToday[o] = holds[o].amount /\ HeldToday[o] # 0
    BY <1>9 DEF HeldToday, CurrentHold, LedgerInv, HoldsKnown
  <2>2. total <= Limit /\ Limit \in Nat
    BY LedgerAssumption DEF LedgerInv, WithinLimit, LedgerAssumption
  <2>3. total' = total - holds[o].amount
    <3>1. CASE ReleaseSpend(o)
      BY <1>5, <1>8, <1>9, <1>t, <2>1, <3>1 DEF ReleaseSpend, Subtract
    <3>2. CASE ReconcileSpend(o)
      BY <1>5, <1>8, <1>9, <1>t, <2>1, <2>2, <3>2 DEF ReconcileSpend, Subtract, Clamp, ObservedCost
    <3> QED BY <3>1, <3>2
  <2>4. TotalIsHeld'
    BY <1>5, <1>8, <2>1, <2>3, HeldTotalIs DEF TotalIsHeld
  <2>5. Budget!GiveBack(o)
    BY <1>7, <2>1 DEF Budget!GiveBack, HoldChanges
  <2> QED BY <1>4, <2>4, <2>5
<1>10. CASE ~CurrentHold(o)
  <2>1. HeldToday[o] = 0
    BY <1>10 DEF HeldToday
  <2>2. HeldToday' = HeldToday
    <3>1. HeldToday = [HeldToday EXCEPT ![o] = 0]
      BY <2>1 DEF HeldToday
    <3> QED BY <1>7, <3>1 DEF HoldChanges
  <2>3. total' = total
    BY <1>10 DEF ReleaseSpend, ReconcileSpend
  <2>4. TotalIsHeld'
    BY <1>5, <2>2, <2>3, HeldTotalIs DEF TotalIsHeld
  <2> QED BY <1>4, <2>2, <2>4
<1> QED BY <1>9, <1>10

LEMMA TimeSteps ==
    ASSUME LedgerInv, WindowExpires \/ HoldsExpire
    PROVE  /\ HoldsKnown' /\ TotalIsHeld'
           /\ Budget!NewDay \/ UNCHANGED HeldToday
<1>1. LedgerTypeOK'
  BY LedgerTimeTypes DEF LedgerInv
<1>2. CASE WindowExpires
  <2>1. HoldsKnown'
    BY <1>2 DEF WindowExpires, LedgerInv, HoldsKnown
  <2>2. HeldToday' = [o \in Op |-> 0]
    BY <1>2 DEF WindowExpires, HeldToday, CurrentHold
  <2>3. SumOver(HeldToday', Op) = 0
    <3>1. Summable(HeldToday', Op)
      BY <2>2, OperationsAssumption DEF Summable, OperationsAssumption
    <3>2. \A o \in Op : HeldToday'[o] = 0
      BY <2>2
    <3> QED BY <3>1, <3>2, SumOfNothing
  <2>4. TotalIsHeld'
    BY <1>2, <2>3, HeldTotalIs DEF WindowExpires, TotalIsHeld
  <2> QED BY <2>1, <2>2, <2>4 DEF Budget!NewDay
<1>3. CASE HoldsExpire
  <2>1. windowSeq \in Nat
    BY LedgerAssumption DEF LedgerInv, LedgerTypeOK, LedgerAssumption
  <2>2. HoldsKnown'
    BY <1>3, <2>1 DEF HoldsExpire, HoldsKnown, NoHold
  <2>3. HeldToday' = HeldToday
    <3>1. \A o \in Op : ~CurrentHold(o) /\ ~CurrentHold(o)'
      BY <1>3 DEF HoldsExpire, CurrentHold, NoHold
    <3> QED BY <3>1 DEF HeldToday
  <2>4. TotalIsHeld'
    BY <1>3, <2>3, HeldTotalIs DEF HoldsExpire, LedgerInv, TotalIsHeld
  <2> QED BY <2>2, <2>3, <2>4
<1> QED BY <1>2, <1>3

LEMMA LedgerStart == LedgerInit => LedgerInv /\ Budget!Init
<1> SUFFICES ASSUME LedgerInit PROVE LedgerInv /\ Budget!Init
  OBVIOUS
<1>1. LedgerTypeOK /\ WithinLimit
  BY LedgerAssumption
     DEF LedgerInit, LedgerTypeOK, WithinLimit, LedgerAssumption, Hold, NoHold
<1>2. HoldsKnown
  BY DEF LedgerInit, HoldsKnown, NoHold
<1>3. window = 0 /\ total = 0
  BY DEF LedgerInit
<1>4. HeldToday = [o \in Op |-> 0] /\ SumOver(HeldToday, Op) = 0
  BY <1>1, <1>3, NothingHeld
<1>5. TotalIsHeld
  BY <1>3, <1>4, HeldTotalIs DEF TotalIsHeld
<1> QED BY <1>1, <1>2, <1>4, <1>5 DEF LedgerInv, Budget!Init

LEMMA LedgerSteps ==
    ASSUME LedgerInv, [LedgerNext]_ledgerVars
    PROVE  HoldsKnown' /\ TotalIsHeld' /\ [Budget!Next]_HeldToday
<1>1. ASSUME NEW o \in Op, NEW m \in Amounts, ReserveSpend(o, m)
      PROVE  HoldsKnown' /\ TotalIsHeld' /\ [Budget!Next]_HeldToday
  BY <1>1, ReserveSteps DEF Budget!Next
<1>2. ASSUME NEW o \in Op, ReleaseSpend(o) \/ ReconcileSpend(o)
      PROVE  HoldsKnown' /\ TotalIsHeld' /\ [Budget!Next]_HeldToday
  BY <1>2, ReleaseSteps DEF Budget!Next
<1>3. CASE WindowExpires \/ HoldsExpire
  BY <1>3, TimeSteps DEF Budget!Next
<1>4. CASE UNCHANGED ledgerVars
  <2>1. HeldToday' = HeldToday
    BY <1>4 DEF ledgerVars, HeldToday, CurrentHold
  <2>2. HoldsKnown'
    BY <1>4 DEF ledgerVars, LedgerInv, HoldsKnown
  <2>3. TotalIsHeld'
    BY <1>4, <2>1, HeldTotalIs DEF ledgerVars, LedgerInv, TotalIsHeld
  <2> QED BY <2>1, <2>2, <2>3
<1> QED BY <1>1, <1>2, <1>3, <1>4 DEF LedgerNext

(***************************************************************************)
(* The counter is the sum of the live reservations: what the three scripts *)
(* add and subtract never drifts from what the hash holds, and no clamp    *)
(* ever takes effect, for every finite set of operations.                  *)
(***************************************************************************)
THEOREM LedgerTotalIsHeld == LedgerSpec => []TotalIsHeld
<1>1. LedgerInit => HoldsKnown /\ TotalIsHeld
  BY LedgerStart DEF LedgerInv
<1>2. /\ LedgerTypeOK /\ WithinLimit
      /\ HoldsKnown /\ TotalIsHeld /\ [LedgerNext]_ledgerVars
      => HoldsKnown' /\ TotalIsHeld'
  BY LedgerSteps DEF LedgerInv
<1> QED BY <1>1, <1>2, LedgerTypeCorrect, LedgerWithinLimit, PTL DEF LedgerSpec

(***************************************************************************)
(* The three scripts and the two TTLs implement the daily budget: every    *)
(* step is a Take, a GiveBack, a NewDay or changes nothing of it.          *)
(***************************************************************************)
THEOREM LedgerRefinement == LedgerSpec => ImplementsBudget
<1>1. LedgerInit => Budget!Init /\ HoldsKnown /\ TotalIsHeld
  BY LedgerStart DEF LedgerInv
<1>2. /\ LedgerTypeOK /\ WithinLimit
      /\ HoldsKnown /\ TotalIsHeld /\ [LedgerNext]_ledgerVars
      => HoldsKnown' /\ TotalIsHeld' /\ [Budget!Next]_HeldToday
  BY LedgerSteps DEF LedgerInv
<1> QED
  BY <1>1, <1>2, LedgerTypeCorrect, LedgerWithinLimit, PTL
     DEF LedgerSpec, ImplementsBudget, Budget!Spec
=============================================================================
