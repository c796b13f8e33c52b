--------------------------- MODULE AdmissionProofs ---------------------------
(***************************************************************************)
(* What admission guarantees for every set of requests, keys, operations   *)
(* and instances, every ceiling and limit, and any number of faults,       *)
(* expired TTLs and crashes.                                               *)
(***************************************************************************)
EXTENDS Admission, StorageProofs

-----------------------------------------------------------------------------
(***************************************************************************)
(* Types.  TypeOK is split into what storage calls change and what only    *)
(* the handler changes, so that each call is looked at once.               *)
(***************************************************************************)
StorageTypeOK ==
    /\ StoreTypeOK
    /\ LedgerTypeOK
    /\ idem \in [Key -> Op \cup {NoOp}]
    /\ pending \in [Key -> Attempt \cup {NoAttempt}]
    /\ opClaims \in [Op -> Key \cup {NoKey}]
    /\ admitted \subseteq Attempt
    /\ forgotten \subseteq Key
    /\ unleased \subseteq Op

HandlerTypeOK ==
    /\ st \in [Attempt -> State]
    /\ took \in [Attempt -> SUBSET Resource]
    /\ answer \in [Attempt -> Op \cup {NoOp}]

CounterTypeOK == faults \in 0..MaxFaults /\ lapses \in 0..MaxLapses

\* TypeOK is the three parts together.
LEMMA TypeParts == TypeOK <=> StorageTypeOK /\ HandlerTypeOK /\ CounterTypeOK
BY DEF TypeOK, StorageTypeOK, HandlerTypeOK, CounterTypeOK

\* What a request carries, from the assumption on the constants.
LEMMA RequestTypes ==
    ASSUME NEW a \in Attempt
    PROVE  /\ KeyOf[a] \in Key
           /\ OpOf[a] \in Op
           /\ HostOf[a] \in Instance
           /\ AmountOf[a] \in Amounts \cup {0}
BY AdmissionAssumption DEF AdmissionAssumption

\* A step of the handler alone keeps the types of the storage.
LEMMA NoStorageChange ==
    ASSUME StorageTypeOK, UNCHANGED <<storeVars, ledgerVars, keyVars, historyVars>>
    PROVE  StorageTypeOK'
BY DEF StorageTypeOK, StoreTypeOK, LedgerTypeOK, storeVars, ledgerVars, keyVars, historyVars

\* Every storage call of the handler, the rollback and the task keeps the
\* types of the storage.
LEMMA CallTypes ==
    ASSUME StorageTypeOK, NEW a \in Attempt,
           \/ ClaimKeyCall(a) \/ ReserveCall(a) \/ ClaimIdCall(a) \/ SlotCall(a)
           \/ BeginCall(a) \/ SaveCall(a) \/ ReleaseKeyCall(a) \/ DeleteClaimCall(a)
           \/ \E r \in Resource : ReleaseCall(a, r)
    PROVE  StorageTypeOK'
<1> DEFINE o == OpOf[a]
           i == HostOf[a]
           k == KeyOf[a]
<1>0. o \in Op /\ i \in Instance /\ k \in Key /\ AmountOf[a] \in Amounts \cup {0}
  BY RequestTypes
<1>s. "queued" \in Status
  BY DEF Status, ActiveStatus
<1> HIDE DEF o, i, k
<1>1. CASE ClaimKeyCall(a)
  <2>1. UNCHANGED <<storeVars, ledgerVars, historyVars>>
    BY <1>1 DEF ClaimKeyCall
  <2>2. /\ idem' \in [Key -> Op \cup {NoOp}]
        /\ pending' \in [Key -> Attempt \cup {NoAttempt}]
        /\ opClaims' \in [Op -> Key \cup {NoKey}]
    BY <1>0, <1>1 DEF ClaimKeyCall, keyVars, StorageTypeOK, k, o
  <2> QED BY <2>1, <2>2
          DEF StorageTypeOK, StoreTypeOK, LedgerTypeOK, storeVars, ledgerVars, historyVars
<1>2. CASE ReserveCall(a)
  <2>1. LedgerTypeOK'
    BY <1>0, <1>2, LedgerCallTypes DEF ReserveCall, StorageTypeOK, o
  <2> QED BY <1>2, <2>1
          DEF ReserveCall, StorageTypeOK, StoreTypeOK, storeVars, keyVars, historyVars
<1>3. CASE ClaimIdCall(a)
  <2>1. UNCHANGED <<idem, pending, storeVars, ledgerVars, historyVars>>
    BY <1>3 DEF ClaimIdCall
  <2>2. opClaims' \in [Op -> Key \cup {NoKey}]
    BY <1>0, <1>3 DEF ClaimIdCall, StorageTypeOK, k, o
  <2> QED BY <2>1, <2>2
          DEF StorageTypeOK, StoreTypeOK, LedgerTypeOK, storeVars, ledgerVars, historyVars
<1>4. CASE SlotCall(a)
  <2>1. StoreTypeOK'
    BY <1>0, <1>4, <1>s, StoreCallTypes DEF SlotCall, StorageTypeOK, o, i
  <2> QED BY <1>4, <2>1
          DEF SlotCall, StorageTypeOK, LedgerTypeOK, ledgerVars, keyVars, historyVars
<1>5. CASE BeginCall(a)
  <2>1. StoreTypeOK'
    BY <1>0, <1>5, <1>s, StoreCallTypes DEF BeginCall, StorageTypeOK, o, i
  <2> QED BY <1>5, <2>1
          DEF BeginCall, StorageTypeOK, LedgerTypeOK, ledgerVars, keyVars, historyVars
<1>6. CASE SaveCall(a)
  <2>1. StoreTypeOK'
    <3>1. CASE StillAdmitting(a)
      BY <1>0, <1>6, <1>s, <3>1, StoreCallTypes DEF SaveCall, StorageTypeOK, o, k
    <3>2. CASE ~StillAdmitting(a)
      BY <1>6, <3>2 DEF SaveCall, StorageTypeOK, StoreTypeOK, storeVars
    <3> QED BY <3>1, <3>2
  <2>2. /\ pending' \in [Key -> Attempt \cup {NoAttempt}]
        /\ admitted' \subseteq Attempt
        /\ UNCHANGED <<idem, opClaims, ledgerVars, forgotten, unleased>>
    BY <1>0, <1>6 DEF SaveCall, StorageTypeOK, k
  <2> QED BY <2>1, <2>2 DEF StorageTypeOK, LedgerTypeOK, ledgerVars
<1>7. CASE ReleaseKeyCall(a)
  <2>1. UNCHANGED <<storeVars, ledgerVars, historyVars>>
    BY <1>7 DEF ReleaseKeyCall
  <2>2. /\ idem' \in [Key -> Op \cup {NoOp}]
        /\ pending' \in [Key -> Attempt \cup {NoAttempt}]
        /\ opClaims' \in [Op -> Key \cup {NoKey}]
    BY <1>0, <1>7 DEF ReleaseKeyCall, keyVars, StorageTypeOK, k
  <2> QED BY <2>1, <2>2
          DEF StorageTypeOK, StoreTypeOK, LedgerTypeOK, storeVars, ledgerVars, historyVars
<1>8. CASE DeleteClaimCall(a)
  <2>1. UNCHANGED <<idem, pending, storeVars, ledgerVars, historyVars>>
    BY <1>8 DEF DeleteClaimCall
  <2>2. opClaims' \in [Op -> Key \cup {NoKey}]
    BY <1>0, <1>8 DEF DeleteClaimCall, StorageTypeOK, o
  <2> QED BY <2>1, <2>2
          DEF StorageTypeOK, StoreTypeOK, LedgerTypeOK, storeVars, ledgerVars, historyVars
<1>9. CASE \E r \in Resource : ReleaseCall(a, r)
  <2>1. StoreTypeOK'
    BY <1>0, <1>9, <1>s, StoreCallTypes
       DEF ReleaseCall, StorageTypeOK, StoreTypeOK, storeVars, o, i
  <2>2. LedgerTypeOK'
    BY <1>0, <1>9, LedgerCallTypes
       DEF ReleaseCall, StorageTypeOK, LedgerTypeOK, ledgerVars, o
  <2> QED BY <1>9, <2>1, <2>2 DEF ReleaseCall, StorageTypeOK, keyVars, historyVars
<1> QED BY <1>1, <1>2, <1>3, <1>4, <1>5, <1>6, <1>7, <1>8, <1>9

\* The background task's writes of a status keep the types of the storage.
LEMMA TaskWriteTypes ==
    ASSUME StorageTypeOK, NEW a \in Attempt, NEW s \in Status, SaveOperation(OpOf[a], s),
           UNCHANGED <<ledgerVars, keyVars, historyVars>>
    PROVE  StorageTypeOK'
<1>1. StoreTypeOK'
  <2>1. OpOf[a] \in Op /\ HostOf[a] \in Instance /\ KeyOf[a] \in Key
    BY RequestTypes
  <2> QED BY <2>1, StoreCallTypes DEF StorageTypeOK
<1> QED BY <1>1 DEF StorageTypeOK, LedgerTypeOK, ledgerVars, keyVars, historyVars

\* Moving a handler on, or into its rollback, keeps the handlers' types.
LEMMA GotoTypes ==
    ASSUME HandlerTypeOK, NEW a \in Attempt, NEW s \in State, NEW res \in SUBSET Resource,
           Goto(a, s, res) \/ Unwind(a, res),
           answer' = answer \/ \E x \in Op \cup {NoOp} : answer' = [answer EXCEPT ![a] = x]
    PROVE  HandlerTypeOK'
<1>1. "done" \in State /\ "unwind" \in State
  BY DEF State
<1> QED BY <1>1 DEF HandlerTypeOK, Goto, Unwind

(***************************************************************************)
(* Every step keeps the types.                                             *)
(***************************************************************************)
LEMMA StepTypes ==
    ASSUME TypeOK, NEW a \in Attempt, Step(a)
    PROVE  StorageTypeOK' /\ HandlerTypeOK' /\ CounterTypeOK'
<1>0. StorageTypeOK /\ HandlerTypeOK /\ CounterTypeOK
  BY TypeParts
<1>1. CounterTypeOK'
  BY <1>0 DEF Step, ClaimKey, LookupExisting, RejectInvalid, ReserveBudget, ClaimId, TakeSlot,
     Begin, Save, RollbackKey, RollbackIdRead, RollbackIdDelete, Release, TaskStarts, TaskEnds,
     CounterTypeOK
<1>2. StorageTypeOK'
  <2>1. CASE \/ ClaimKey(a) \/ ReserveBudget(a) \/ ClaimId(a) \/ TakeSlot(a) \/ Begin(a)
             \/ Save(a) \/ RollbackKey(a) \/ RollbackIdDelete(a)
             \/ \E r \in Resource : Release(a, r)
    BY <1>0, <2>1, CallTypes DEF ClaimKey, ReserveBudget, ClaimId, TakeSlot, Begin, Save,
       RollbackKey, RollbackIdDelete, Release
  <2>2. CASE LookupExisting(a) \/ RejectInvalid(a) \/ RollbackIdRead(a)
    BY <1>0, <2>2, NoStorageChange DEF LookupExisting, RejectInvalid, RollbackIdRead
  <2>3. CASE TaskStarts(a)
    BY <1>0, <2>3, TaskWriteTypes DEF TaskStarts, Status, ActiveStatus
  <2>4. CASE TaskEnds(a)
    <3>1. CASE \E status \in TerminalStatus : SaveOperation(OpOf[a], status)
      BY <1>0, <2>4, <3>1, TaskWriteTypes DEF TaskEnds, Status
    <3>2. CASE UNCHANGED storeVars
      BY <1>0, <2>4, <3>2, NoStorageChange DEF TaskEnds
    <3> QED BY <2>4, <3>1, <3>2 DEF TaskEnds
  <2> QED BY <2>1, <2>2, <2>3, <2>4 DEF Step
<1>3. HandlerTypeOK'
  <2>1. /\ OpOf[a] \in Op
        /\ idem[KeyOf[a]] \in Op \cup {NoOp}
        /\ took[a] \in SUBSET Resource
        /\ st[a] \in State
    BY <1>0, RequestTypes DEF StorageTypeOK, HandlerTypeOK
  <2>2. State = {"new", "lookup", "admit", "claimId", "slot", "begin", "save", "queued",
                 "running", "unwind", "unclaim", "cleanup", "done", "crashed"}
    BY DEF State, Admitting, Tasking
  <2> USE <1>0, <2>1, <2>2, GotoTypes DEF Resource
  <2>3. CASE ClaimKey(a)
    <3>1. CASE KeyTaken(KeyOf[a])
      BY <2>3, <3>1 DEF ClaimKey
    <3>2. CASE ~KeyTaken(KeyOf[a])
      BY <2>3, <3>2 DEF ClaimKey
    <3> QED BY <3>1, <3>2
  <2>4. CASE LookupExisting(a)
    BY <2>4 DEF LookupExisting
  <2>5. CASE RejectInvalid(a)
    BY <2>5 DEF RejectInvalid
  <2>6. CASE ReserveBudget(a)
    BY <2>6 DEF ReserveBudget
  <2>7. CASE ClaimId(a)
    BY <2>7 DEF ClaimId
  <2>8. CASE TakeSlot(a)
    BY <2>8 DEF TakeSlot
  <2>9. CASE Begin(a)
    BY <2>9 DEF Begin
  <2>10. CASE Save(a)
    <3>1. CASE StillAdmitting(a)
      BY <2>10, <3>1 DEF Save
    <3>2. CASE ~StillAdmitting(a)
      BY <2>10, <3>2 DEF Save
    <3> QED BY <3>1, <3>2
  <2>11. CASE RollbackKey(a)
    BY <2>11 DEF RollbackKey
  <2>12. CASE RollbackIdRead(a)
    BY <2>12 DEF RollbackIdRead
  <2>13. CASE RollbackIdDelete(a)
    BY <2>13 DEF RollbackIdDelete
  <2>14. CASE \E r \in Resource : Release(a, r)
    BY <2>14 DEF Release, Drop
  <2>15. CASE TaskStarts(a)
    BY <2>15 DEF TaskStarts
  <2>16. CASE TaskEnds(a)
    BY <2>16 DEF TaskEnds
  <2> QED BY <2>3, <2>4, <2>5, <2>6, <2>7, <2>8, <2>9, <2>10, <2>11, <2>12, <2>13, <2>14,
             <2>15, <2>16 DEF Step
<1> QED BY <1>1, <1>2, <1>3

\* Every storage call that raises keeps the types.
LEMMA MishapTypes ==
    ASSUME TypeOK, NEW a \in Attempt, Mishap(a)
    PROVE  StorageTypeOK' /\ HandlerTypeOK' /\ CounterTypeOK'
<1>0. StorageTypeOK /\ HandlerTypeOK /\ CounterTypeOK
  BY TypeParts
<1>1. CounterTypeOK'
  BY <1>0, AdmissionAssumption DEF Mishap, AdmissionFault, RollbackKeyFault, RollbackIdFault,
     ReleaseFault, TaskFault, Faulty, CounterTypeOK, AdmissionAssumption
<1>2. StorageTypeOK'
  <2>1. CASE NoEffect
    BY <1>0, <2>1, NoStorageChange DEF NoEffect
  <2>2. CASE \/ AdmissionCall(a) \/ ReleaseKeyCall(a) \/ DeleteClaimCall(a)
             \/ \E r \in Resource : ReleaseCall(a, r)
    BY <1>0, <2>2, CallTypes DEF AdmissionCall
  <2>3. CASE TaskFault(a)
    <3>1. CASE \E status \in TerminalStatus : SaveOperation(OpOf[a], status)
      BY <1>0, <2>3, <3>1, TaskWriteTypes DEF TaskFault, Status
    <3>2. CASE UNCHANGED storeVars
      BY <1>0, <2>3, <3>2, NoStorageChange DEF TaskFault
    <3> QED BY <2>3, <3>1, <3>2 DEF TaskFault
  <2> QED BY <2>1, <2>2, <2>3
          DEF Mishap, AdmissionFault, RollbackKeyFault, RollbackIdFault, ReleaseFault
<1>3. HandlerTypeOK'
  <2>1. took[a] \in SUBSET Resource /\ st[a] \in State
    BY <1>0 DEF HandlerTypeOK
  <2>2. State = {"new", "lookup", "admit", "claimId", "slot", "begin", "save", "queued",
                 "running", "unwind", "unclaim", "cleanup", "done", "crashed"}
    BY DEF State, Admitting, Tasking
  <2> USE <1>0, <2>1, <2>2, GotoTypes DEF Resource
  <2>3. CASE AdmissionFault(a)
    BY <2>3 DEF AdmissionFault
  <2>4. CASE RollbackKeyFault(a)
    BY <2>4 DEF RollbackKeyFault
  <2>5. CASE RollbackIdFault(a)
    BY <2>5 DEF RollbackIdFault
  <2>6. CASE \E r \in Resource : ReleaseFault(a, r)
    BY <2>6 DEF ReleaseFault, Drop
  <2>7. CASE TaskFault(a)
    BY <2>7 DEF TaskFault
  <2> QED BY <2>3, <2>4, <2>5, <2>6, <2>7 DEF Mishap
<1> QED BY <1>1, <1>2, <1>3

\* Every TTL that passes keeps the types.
LEMMA TimeTypes ==
    ASSUME TypeOK, TimePasses
    PROVE  StorageTypeOK' /\ HandlerTypeOK' /\ CounterTypeOK'
<1>0. StorageTypeOK /\ HandlerTypeOK /\ CounterTypeOK
  BY TypeParts
<1>1. Lapse
  BY DEF TimePasses, PendingLapses, KeyLapses, IdClaimLapses, OwnerLapses, SlotLapses,
     LedgerLapses
<1>2. HandlerTypeOK' /\ CounterTypeOK'
  BY <1>0, <1>1, AdmissionAssumption
     DEF Lapse, HandlerTypeOK, CounterTypeOK, handlerVars, AdmissionAssumption
<1>3. StorageTypeOK'
  <2>1. ASSUME NEW k \in Key, PendingLapses(k) \/ KeyLapses(k)
        PROVE  StorageTypeOK'
    <3>1. StoreTypeOK' /\ LedgerTypeOK'
      BY <1>0, <2>1 DEF PendingLapses, KeyLapses, StorageTypeOK, StoreTypeOK, LedgerTypeOK,
         storeVars, ledgerVars
    <3> QED BY <1>0, <2>1, <3>1 DEF PendingLapses, KeyLapses, StorageTypeOK, historyVars
  <2>2. ASSUME NEW o \in Op, IdClaimLapses(o)
        PROVE  StorageTypeOK'
    <3>1. StoreTypeOK' /\ LedgerTypeOK'
      BY <1>0, <2>2 DEF IdClaimLapses, StorageTypeOK, StoreTypeOK, LedgerTypeOK,
         storeVars, ledgerVars
    <3> QED BY <1>0, <2>2, <3>1 DEF IdClaimLapses, StorageTypeOK, historyVars
  <2>3. ASSUME NEW o \in Op, OwnerLapses(o)
        PROVE  StorageTypeOK'
    <3>1. StoreTypeOK' /\ LedgerTypeOK'
      BY <1>0, <2>3 DEF OwnerLapses, LeaseExpires, StorageTypeOK, StoreTypeOK, LedgerTypeOK,
         ledgerVars
    <3> QED BY <1>0, <2>3, <3>1 DEF OwnerLapses, StorageTypeOK, keyVars
  <2>4. ASSUME NEW m \in Slot, SlotLapses(m)
        PROVE  StorageTypeOK'
    <3>1. StoreTypeOK' /\ LedgerTypeOK'
      BY <1>0, <2>4 DEF SlotLapses, SlotExpires, StorageTypeOK, StoreTypeOK, LedgerTypeOK,
         ledgerVars
    <3> QED BY <1>0, <2>4, <3>1 DEF SlotLapses, StorageTypeOK, keyVars, historyVars
  <2>5. CASE LedgerLapses
    <3>1. StoreTypeOK'
      BY <1>0, <2>5 DEF LedgerLapses, StorageTypeOK, StoreTypeOK, storeVars
    <3>2. LedgerTypeOK'
      BY <1>0, <2>5, LedgerTimeTypes DEF LedgerLapses, StorageTypeOK
    <3> QED BY <1>0, <2>5, <3>1, <3>2 DEF LedgerLapses, StorageTypeOK, keyVars, historyVars
  <2> QED BY <2>1, <2>2, <2>3, <2>4, <2>5 DEF TimePasses
<1> QED BY <1>2, <1>3

\* The death of an instance keeps the types.
LEMMA CrashTypes ==
    ASSUME TypeOK, NEW i \in Instance, Crash(i)
    PROVE  StorageTypeOK' /\ HandlerTypeOK' /\ CounterTypeOK'
<1>0. StorageTypeOK /\ HandlerTypeOK /\ CounterTypeOK
  BY TypeParts
<1>1. StorageTypeOK'
  BY <1>0, NoStorageChange DEF Crash
<1>2. HandlerTypeOK'
  BY <1>0 DEF Crash, HandlerTypeOK, State
<1>3. CounterTypeOK'
  BY <1>0 DEF Crash, CounterTypeOK
<1> QED BY <1>1, <1>2, <1>3

(***************************************************************************)
(* Type correctness of admission.                                          *)
(***************************************************************************)
THEOREM TypeCorrect == Spec => []TypeOK
<1>1. Init => TypeOK
  <2>1. NoHold \in Hold /\ 0 \in 0..MaxWindow /\ 0 \in 0..MaxFaults /\ 0 \in 0..MaxLapses
    BY LedgerAssumption, AdmissionAssumption
       DEF LedgerAssumption, AdmissionAssumption, NoHold, Hold
  <2> QED BY <2>1 DEF Init, StoreInit, LedgerInit, TypeOK, StoreTypeOK, LedgerTypeOK, Record,
             NoRecord, Status, State, Admitting
<1>2. TypeOK /\ [Next]_vars => TypeOK'
  <2> SUFFICES ASSUME TypeOK, [Next]_vars
               PROVE  StorageTypeOK' /\ HandlerTypeOK' /\ CounterTypeOK'
    BY TypeParts DEF StorageTypeOK, HandlerTypeOK, CounterTypeOK, TypeOK
  <2>1. CASE UNCHANGED vars
    <3>1. StorageTypeOK /\ HandlerTypeOK /\ CounterTypeOK
      BY TypeParts
    <3>2. StorageTypeOK'
      BY <2>1, <3>1, NoStorageChange DEF vars
    <3> QED BY <2>1, <3>1, <3>2 DEF vars, handlerVars, HandlerTypeOK, CounterTypeOK
  <2> QED BY <2>1, StepTypes, MishapTypes, TimeTypes, CrashTypes DEF Next
<1> QED BY <1>1, <1>2, PTL DEF Spec

-----------------------------------------------------------------------------
(***************************************************************************)
(* One admission per key.  OneAdmissionPerKey is not inductive: that a     *)
(* second attempt cannot be admitted follows from the key still naming the *)
(* first one's operation, from that operation's record making the key      *)
(* "taken", and from the admission lease having been consumed.             *)
(***************************************************************************)
KeySettled(a) ==
    /\ idem[KeyOf[a]] = OpOf[a]
    /\ Persisted(OpOf[a])
    /\ pending[KeyOf[a]] = NoAttempt

KeyInv ==
    /\ OneAdmissionPerKey
    /\ \A a \in admitted : KeyOf[a] \notin forgotten => KeySettled(a)

\* A step that leaves keys and history alone, and no record out, keeps KeyInv.
LEMMA KeyInvUnchanged ==
    ASSUME KeyInv, idem' = idem, pending' = pending, admitted' = admitted,
           forgotten' = forgotten,
           \A o \in Op : Persisted(o) => Persisted(o)',
           admitted \subseteq Attempt
    PROVE  KeyInv'
<1>1. \A a \in admitted : OpOf[a] \in Op
  BY RequestTypes
<1> QED BY <1>1 DEF KeyInv, KeySettled, OneAdmissionPerKey

\* No action of the store removes a record.
LEMMA RecordsStay ==
    ASSUME StoreTypeOK, NEW x \in Op, NEW i \in Instance, NEW k \in Key, NEW s \in Status,
           s # "absent", NEW m \in Slot,
           \/ SaveOperation(x, s) \/ SaveQueued(x, k)
           \/ BeginOperation(i, x) \/ ReleaseOperationLease(i, x)
           \/ AcquireSlot(i, x) \/ ReleaseSlot(i, x)
           \/ LeaseExpires(x) \/ SlotExpires(m)
           \/ UNCHANGED storeVars
    PROVE  \A o \in Op : Persisted(o) => Persisted(o)'
<1>1. CASE SaveOperation(x, s)
  BY <1>1 DEF SaveOperation, Persisted, StoreTypeOK, Record
<1>2. CASE SaveQueued(x, k)
  BY <1>2 DEF SaveQueued, Persisted, StoreTypeOK, Record
<1>3. CASE operations' = operations
  BY <1>3 DEF Persisted
<1> QED BY <1>1, <1>2, <1>3 DEF BeginOperation, ReleaseOperationLease, AcquireSlot, ReleaseSlot,
           LeaseExpires, SlotExpires, storeVars

\* While a key is free to be claimed, nobody is admitted under it.
LEMMA NobodyAdmittedUnderFreeKey ==
    ASSUME TypeOK, KeyInv, NEW k \in Key, ~KeyTaken(k)
    PROVE  \A b \in admitted : KeyOf[b] \notin forgotten => KeyOf[b] # k
<1>1. SUFFICES ASSUME NEW b \in admitted, KeyOf[b] \notin forgotten, KeyOf[b] = k
               PROVE  FALSE
  OBVIOUS
<1>2. KeySettled(b) /\ OpOf[b] \in Op
  BY <1>1, RequestTypes DEF KeyInv, TypeOK
<1> QED BY <1>1, <1>2, AdmissionAssumption DEF KeySettled, KeyTaken, AdmissionAssumption

(***************************************************************************)
(* The three calls that touch a key.                                       *)
(***************************************************************************)
LEMMA ClaimKeepsKeys ==
    ASSUME TypeOK, KeyInv, NEW a \in Attempt, ClaimKeyCall(a)
    PROVE  KeyInv'
<1>0. admitted \subseteq Attempt /\ UNCHANGED <<storeVars, historyVars>>
  BY DEF TypeOK, ClaimKeyCall
<1>1. CASE KeyTaken(KeyOf[a])
  BY <1>0, <1>1, KeyInvUnchanged
     DEF ClaimKeyCall, keyVars, historyVars, storeVars, Persisted
<1>2. CASE ~KeyTaken(KeyOf[a])
  <2>1. \A b \in admitted : KeyOf[b] \notin forgotten => KeyOf[b] # KeyOf[a]
    BY <1>2, RequestTypes, NobodyAdmittedUnderFreeKey
  <2>2. \A b \in admitted : KeyOf[b] \notin forgotten =>
           idem'[KeyOf[b]] = idem[KeyOf[b]] /\ pending'[KeyOf[b]] = pending[KeyOf[b]]
    BY <1>0, <1>2, <2>1, RequestTypes DEF ClaimKeyCall, TypeOK
  <2> QED BY <1>0, <2>2
          DEF KeyInv, KeySettled, OneAdmissionPerKey, historyVars, storeVars, Persisted
<1> QED BY <1>1, <1>2

\* While an attempt's own token is on its key, nobody is admitted under the key.
LEMMA NobodyAdmittedUnderOwnToken ==
    ASSUME TypeOK, KeyInv, NEW a \in Attempt, StillAdmitting(a)
    PROVE  \A b \in admitted : KeyOf[b] \notin forgotten => KeyOf[b] # KeyOf[a]
BY AdmissionAssumption DEF KeyInv, KeySettled, StillAdmitting, AdmissionAssumption

\* Releasing a key: by token, hence never the key of an admitted attempt.
LEMMA ReleaseKeepsKeys ==
    ASSUME TypeOK, KeyInv, NEW a \in Attempt, ReleaseKeyCall(a)
    PROVE  KeyInv'
<1>0. admitted \subseteq Attempt /\ UNCHANGED <<storeVars, historyVars>>
  BY DEF TypeOK, ReleaseKeyCall
<1>1. CASE ~StillAdmitting(a)
  BY <1>0, <1>1, KeyInvUnchanged
     DEF ReleaseKeyCall, keyVars, historyVars, storeVars, Persisted
<1>2. CASE StillAdmitting(a)
  <2>1. \A b \in admitted : KeyOf[b] \notin forgotten => KeyOf[b] # KeyOf[a]
    BY <1>2, NobodyAdmittedUnderOwnToken
  <2>2. \A b \in admitted : KeyOf[b] \notin forgotten =>
           idem'[KeyOf[b]] = idem[KeyOf[b]] /\ pending'[KeyOf[b]] = pending[KeyOf[b]]
    BY <1>0, <1>2, <2>1, RequestTypes DEF ReleaseKeyCall, TypeOK
  <2> QED BY <1>0, <2>2
          DEF KeyInv, KeySettled, OneAdmissionPerKey, historyVars, storeVars, Persisted
<1> QED BY <1>1, <1>2

\* Recording the admission: by token, hence the first one under the key.
LEMMA SaveKeepsKeys ==
    ASSUME TypeOK, KeyInv, NEW a \in Attempt, SaveCall(a)
    PROVE  KeyInv'
<1>0. /\ admitted \subseteq Attempt /\ StoreTypeOK
      /\ OpOf[a] \in Op /\ KeyOf[a] \in Key /\ HostOf[a] \in Instance
  BY RequestTypes DEF TypeOK
<1>1. CASE ~StillAdmitting(a)
  BY <1>0, <1>1, KeyInvUnchanged DEF SaveCall, storeVars, Persisted
<1>2. CASE StillAdmitting(a)
  <2>1. \A b \in admitted : KeyOf[b] \notin forgotten => KeyOf[b] # KeyOf[a]
    BY <1>2, NobodyAdmittedUnderOwnToken
  <2>2. \A o \in Op : Persisted(o) => Persisted(o)'
    BY <1>0, <1>2 DEF SaveCall, SaveQueued, Persisted, StoreTypeOK, Record
  <2>3. Persisted(OpOf[a])'
    BY <1>0, <1>2 DEF SaveCall, SaveQueued, Persisted, StoreTypeOK, Record
  <2>4. /\ admitted' = admitted \cup {a} /\ forgotten' = forgotten /\ idem' = idem
        /\ pending' = [pending EXCEPT ![KeyOf[a]] = NoAttempt]
    BY <1>2 DEF SaveCall
  <2>5. OneAdmissionPerKey'
    BY <2>1, <2>4 DEF KeyInv, OneAdmissionPerKey
  <2>6. ASSUME NEW b \in admitted', KeyOf[b] \notin forgotten'
        PROVE  KeySettled(b)'
    <3>1. CASE b = a
      BY <1>0, <1>2, <2>3, <2>4, <3>1 DEF KeySettled, StillAdmitting, TypeOK
    <3>2. CASE b # a
      <4>1. b \in admitted /\ KeySettled(b) /\ KeyOf[b] # KeyOf[a] /\ OpOf[b] \in Op
        BY <1>0, <2>1, <2>4, <2>6, <3>2, RequestTypes DEF KeyInv
      <4> QED BY <1>0, <2>2, <2>4, <4>1 DEF KeySettled, TypeOK
    <3> QED BY <3>1, <3>2
  <2> QED BY <2>5, <2>6 DEF KeyInv
<1> QED BY <1>1, <1>2

\* Every other call leaves keys alone and keeps every record.
LEMMA OtherCallsKeepKeys ==
    ASSUME TypeOK, KeyInv, NEW a \in Attempt,
           \/ ReserveCall(a) \/ ClaimIdCall(a) \/ SlotCall(a) \/ BeginCall(a)
           \/ DeleteClaimCall(a) \/ \E r \in Resource : ReleaseCall(a, r)
           \/ NoEffect
    PROVE  KeyInv'
<1>0. /\ admitted \subseteq Attempt /\ StoreTypeOK
      /\ OpOf[a] \in Op /\ KeyOf[a] \in Key /\ HostOf[a] \in Instance
  BY RequestTypes DEF TypeOK
<1>1. UNCHANGED <<idem, pending, admitted, forgotten>>
  BY DEF ReserveCall, ClaimIdCall, SlotCall, BeginCall, DeleteClaimCall, ReleaseCall, NoEffect,
     keyVars, historyVars
<1>2. operations' = operations
  BY DEF ReserveCall, ClaimIdCall, SlotCall, BeginCall, DeleteClaimCall, ReleaseCall, NoEffect,
     storeVars, AcquireSlot, BeginOperation, ReleaseOperationLease, ReleaseSlot
<1> QED BY <1>0, <1>1, <1>2, KeyInvUnchanged DEF Persisted

\* The background task's writes never remove a record.
LEMMA TaskWritesKeepKeys ==
    ASSUME TypeOK, KeyInv, NEW a \in Attempt, UNCHANGED <<keyVars, historyVars>>,
           \/ \E s \in Status \ {"absent"} : SaveOperation(OpOf[a], s)
           \/ UNCHANGED storeVars
    PROVE  KeyInv'
<1>0. admitted \subseteq Attempt /\ StoreTypeOK /\ OpOf[a] \in Op
  BY RequestTypes DEF TypeOK
<1>1. \A o \in Op : Persisted(o) => Persisted(o)'
  BY <1>0 DEF SaveOperation, Persisted, storeVars, StoreTypeOK, Record
<1> QED BY <1>0, <1>1, KeyInvUnchanged DEF keyVars, historyVars

\* Every call of a handler or a task, raising or not, keeps KeyInv.
LEMMA KeyInvStep ==
    ASSUME TypeOK, KeyInv, NEW a \in Attempt, Step(a) \/ Mishap(a)
    PROVE  KeyInv'
<1> USE ClaimKeepsKeys, ReleaseKeepsKeys, SaveKeepsKeys, OtherCallsKeepKeys
<1>1. CASE \/ ClaimKey(a) \/ ReserveBudget(a) \/ ClaimId(a) \/ TakeSlot(a) \/ Begin(a)
           \/ Save(a) \/ RollbackKey(a) \/ RollbackIdDelete(a)
           \/ \E r \in Resource : Release(a, r)
  BY <1>1 DEF ClaimKey, ReserveBudget, ClaimId, TakeSlot, Begin, Save, RollbackKey,
     RollbackIdDelete, Release
<1>2. CASE LookupExisting(a) \/ RejectInvalid(a) \/ RollbackIdRead(a)
  BY <1>2 DEF LookupExisting, RejectInvalid, RollbackIdRead, NoEffect
<1>3. CASE TaskStarts(a) \/ TaskEnds(a) \/ TaskFault(a)
  BY <1>3, TaskWritesKeepKeys
     DEF TaskStarts, TaskEnds, TaskFault, Status, ActiveStatus, TerminalStatus
<1>4. CASE AdmissionFault(a)
  BY <1>4 DEF AdmissionFault, AdmissionCall
<1>5. CASE RollbackKeyFault(a) \/ RollbackIdFault(a) \/ \E r \in Resource : ReleaseFault(a, r)
  BY <1>5 DEF RollbackKeyFault, RollbackIdFault, ReleaseFault
<1> QED BY <1>1, <1>2, <1>3, <1>4, <1>5 DEF Step, Mishap

\* Every TTL that passes keeps KeyInv.
LEMMA KeyInvTime ==
    ASSUME TypeOK, KeyInv, TimePasses
    PROVE  KeyInv'
<1>0. admitted \subseteq Attempt
  BY DEF TypeOK
<1>1. ASSUME NEW k \in Key, PendingLapses(k)
      PROVE  KeyInv'
  BY <1>0, <1>1, RequestTypes DEF PendingLapses, KeyInv, KeySettled, OneAdmissionPerKey,
     historyVars, storeVars, Persisted, TypeOK
<1>2. ASSUME NEW k \in Key, KeyLapses(k)
      PROVE  KeyInv'
  BY <1>0, <1>2, RequestTypes DEF KeyLapses, KeyInv, KeySettled, OneAdmissionPerKey,
     storeVars, Persisted, TypeOK
<1>3. ASSUME UNCHANGED <<idem, pending, operations, admitted, forgotten>>
      PROVE  KeyInv'
  BY <1>0, <1>3, KeyInvUnchanged DEF Persisted
<1> QED BY <1>1, <1>2, <1>3 DEF TimePasses, IdClaimLapses, OwnerLapses, SlotLapses, LedgerLapses,
           LeaseExpires, SlotExpires, storeVars, keyVars, historyVars

\* KeyInv is inductive, given the types.
LEMMA KeyInvInductive == TypeOK /\ KeyInv /\ [Next]_vars => KeyInv'
<1> SUFFICES ASSUME TypeOK, KeyInv, [Next]_vars
             PROVE  KeyInv'
  OBVIOUS
<1>0. admitted \subseteq Attempt
  BY DEF TypeOK
<1>1. ASSUME NEW i \in Instance, Crash(i)
      PROVE  KeyInv'
  BY <1>0, <1>1, KeyInvUnchanged DEF Crash, storeVars, keyVars, historyVars, Persisted
<1>2. CASE UNCHANGED vars
  BY <1>0, <1>2, KeyInvUnchanged DEF vars, storeVars, keyVars, historyVars, Persisted
<1> QED BY <1>1, <1>2, KeyInvStep, KeyInvTime DEF Next

\* KeyInv holds in every reachable state.
LEMMA KeyInvAlways == Spec => []KeyInv
<1>1. Init => KeyInv
  BY DEF Init, KeyInv, OneAdmissionPerKey
<1> QED BY <1>1, KeyInvInductive, TypeCorrect, PTL DEF Spec

(***************************************************************************)
(* At most one attempt per idempotency key has its operation recorded.     *)
(***************************************************************************)
THEOREM OneAdmission == Spec => []OneAdmissionPerKey
<1>1. KeyInv => OneAdmissionPerKey
  BY DEF KeyInv
<1> QED BY <1>1, KeyInvAlways, PTL

\* Only an admission and a lapsed retention move the history.
LEMMA HistoryStep ==
    ASSUME [Next]_vars
    PROVE  \/ UNCHANGED <<admitted, forgotten>>
           \/ \E a \in Attempt : /\ StillAdmitting(a)
                                  /\ admitted' = admitted \cup {a}
                                  /\ forgotten' = forgotten
           \/ \E k \in Key : /\ forgotten' = forgotten \cup {k}
                              /\ admitted' = admitted
<1>1. ASSUME NEW a \in Attempt, Step(a) \/ Mishap(a)
      PROVE  \/ UNCHANGED <<admitted, forgotten>>
             \/ /\ StillAdmitting(a)
                /\ admitted' = admitted \cup {a}
                /\ forgotten' = forgotten
  <2>1. CASE UNCHANGED historyVars
    BY <2>1 DEF historyVars
  <2>2. CASE SaveCall(a)
    BY <2>2 DEF SaveCall
  <2> QED BY <1>1, <2>1, <2>2 DEF Step, Mishap, ClaimKey, LookupExisting, RejectInvalid,
          ReserveBudget, ClaimId, TakeSlot, Begin, Save, RollbackKey, RollbackIdRead,
          RollbackIdDelete, Release, TaskStarts, TaskEnds, AdmissionFault, AdmissionCall,
          RollbackKeyFault, RollbackIdFault, ReleaseFault, TaskFault, NoEffect, ClaimKeyCall,
          ReserveCall, ClaimIdCall, SlotCall, BeginCall, ReleaseKeyCall, DeleteClaimCall,
          ReleaseCall
<1>2. CASE TimePasses
  BY <1>2 DEF TimePasses, PendingLapses, KeyLapses, IdClaimLapses, OwnerLapses, SlotLapses,
     LedgerLapses, historyVars
<1>3. ASSUME NEW i \in Instance, Crash(i)
      PROVE  UNCHANGED <<admitted, forgotten>>
  BY <1>3 DEF Crash, historyVars
<1>4. CASE UNCHANGED vars
  BY <1>4 DEF vars, historyVars
<1> QED BY <1>1, <1>2, <1>3, <1>4 DEF Next

(***************************************************************************)
(* No step unbinds a key from the operation admitted under it.             *)
(***************************************************************************)
THEOREM AdmittedKeysBound == Spec => AdmittedKeysStayBound
<1> DEFINE Bound == \A a \in admitted : KeyOf[a] \notin forgotten' => idem'[KeyOf[a]] = OpOf[a]
<1>1. TypeOK /\ KeyInv /\ [Next]_vars => [Bound]_vars
  <2> SUFFICES ASSUME TypeOK, KeyInv, Next
               PROVE  Bound
    OBVIOUS
  <2>1. KeyInv'
    BY KeyInvInductive
  <2>2. admitted \subseteq admitted'
    BY HistoryStep
  <2> QED BY <2>1, <2>2 DEF KeyInv, KeySettled
<1> QED BY <1>1, KeyInvAlways, TypeCorrect, PTL DEF Spec, AdmittedKeysStayBound

-----------------------------------------------------------------------------
(***************************************************************************)
(* One execution at a time.  While its lease has not run out, an attempt   *)
(* that took the owner lease is the only one that did, and the owner key   *)
(* names its instance; an attempt with a task took the lease.              *)
(***************************************************************************)
TookLease(a) == "lease" \in took[a]

LeaseInv ==
    /\ \A a \in Attempt : st[a] \in Tasking \cup {"save"} => TookLease(a)
    /\ \A a \in Attempt :
          TookLease(a) /\ OpOf[a] \notin unleased => owners[OpOf[a]] = HostOf[a]
    /\ \A a, b \in Attempt :
          TookLease(a) /\ TookLease(b) /\ OpOf[a] = OpOf[b] /\ OpOf[a] \notin unleased => a = b

\* A step of one handler that gives or keeps, and does not take, its lease.
LEMMA LeaseKept ==
    ASSUME TypeOK, LeaseInv, NEW a \in Attempt, NEW s \in State, NEW res \in SUBSET Resource,
           Goto(a, s, res) \/ Unwind(a, res),
           UNCHANGED <<owners, unleased>>,
           "lease" \in res => TookLease(a),
           s \in Tasking \cup {"save"} => "lease" \in res
    PROVE  LeaseInv'
<1>1. /\ took' = [took EXCEPT ![a] = res]
      /\ st'[a] \in Tasking \cup {"save"} => "lease" \in res
      /\ \A b \in Attempt \ {a} : st'[b] = st[b]
  BY DEF Goto, Unwind, Tasking, TypeOK
<1>2. \A b \in Attempt : TookLease(b)' => TookLease(b)
  BY <1>1 DEF TookLease, TypeOK
<1>3. \A b \in Attempt : st'[b] \in Tasking \cup {"save"} => TookLease(b)'
  BY <1>1 DEF TookLease, TypeOK, LeaseInv
<1> QED BY <1>2, <1>3 DEF LeaseInv

\* Taking the lease, with or without learning of it.
LEMMA LeaseTaken ==
    ASSUME TypeOK, LeaseInv, NEW a \in Attempt, BeginCall(a), CanBegin(OpOf[a]),
           \/ Goto(a, "save", took[a] \cup {"lease"})
           \/ Unwind(a, took[a])
    PROVE  LeaseInv'
<1>0. OpOf[a] \in Op /\ HostOf[a] \in Instance /\ HostOf[a] # NoInstance
  BY RequestTypes, StoreAssumption DEF StoreAssumption
<1>1. \A b \in Attempt : TookLease(b) /\ OpOf[b] \notin unleased => OpOf[b] # OpOf[a]
  BY RequestTypes, StoreAssumption DEF LeaseInv, CanBegin, StoreAssumption
<1>2. owners' = [owners EXCEPT ![OpOf[a]] = HostOf[a]] /\ unleased' = unleased
  BY DEF BeginCall, BeginOperation, historyVars
<1>3. /\ \A b \in Attempt \ {a} : took'[b] = took[b] /\ st'[b] = st[b]
      /\ st'[a] \in Tasking \cup {"save"} => TookLease(a)'
  BY DEF Goto, Unwind, TypeOK, Tasking, TookLease
<1>4. \A b \in Attempt : st'[b] \in Tasking \cup {"save"} => TookLease(b)'
  BY <1>3 DEF LeaseInv, TookLease
<1>5. \A b \in Attempt : TookLease(b)' /\ OpOf[b] \notin unleased' =>
         owners'[OpOf[b]] = HostOf[b]
  <2>1. SUFFICES ASSUME NEW b \in Attempt, TookLease(b)', OpOf[b] \notin unleased
                 PROVE  owners'[OpOf[b]] = HostOf[b]
    BY <1>2
  <2>2. OpOf[b] \in Op
    BY RequestTypes
  <2>3. CASE b = a
    BY <1>0, <1>2, <2>3 DEF TypeOK, StoreTypeOK
  <2>4. CASE b # a
    BY <1>0, <1>1, <1>2, <1>3, <2>1, <2>2, <2>4 DEF TypeOK, StoreTypeOK, LeaseInv, TookLease
  <2> QED BY <2>3, <2>4
<1>6. \A b, c \in Attempt :
         TookLease(b)' /\ TookLease(c)' /\ OpOf[b] = OpOf[c] /\ OpOf[b] \notin unleased' => b = c
  BY <1>1, <1>2, <1>3 DEF LeaseInv, TookLease
<1> QED BY <1>4, <1>5, <1>6 DEF LeaseInv

\* Giving the lease back, in the rollback or in the task's finally block.
LEMMA LeaseGiven ==
    ASSUME TypeOK, LeaseInv, NEW a \in Attempt, TookLease(a), st[a] \notin Tasking \cup {"save"},
           owners' = owners \/ ReleaseOperationLease(HostOf[a], OpOf[a]),
           unleased' = unleased, Drop(a, "lease")
    PROVE  LeaseInv'
<1>0. OpOf[a] \in Op /\ HostOf[a] \in Instance
  BY RequestTypes
<1>1. /\ \A b \in Attempt \ {a} : took'[b] = took[b] /\ st'[b] = st[b]
      /\ ~TookLease(a)'
      /\ st'[a] \notin Tasking \cup {"save"}
  BY DEF Drop, Goto, TypeOK, TookLease, Tasking
<1>2. \A b \in Attempt :
         TookLease(b)' /\ OpOf[b] \notin unleased => TookLease(b) /\ OpOf[b] # OpOf[a]
  BY <1>1 DEF LeaseInv, TookLease
<1>3. \A o \in Op \ {OpOf[a]} : owners'[o] = owners[o]
  BY DEF ReleaseOperationLease, TypeOK, StoreTypeOK
<1>4. \A b \in Attempt : st'[b] \in Tasking \cup {"save"} => TookLease(b)'
  BY <1>1 DEF LeaseInv, TookLease
<1>5. \A b \in Attempt : TookLease(b)' /\ OpOf[b] \notin unleased' =>
         owners'[OpOf[b]] = HostOf[b]
  BY <1>2, <1>3, RequestTypes DEF LeaseInv
<1>6. \A b, c \in Attempt :
         TookLease(b)' /\ TookLease(c)' /\ OpOf[b] = OpOf[c] /\ OpOf[b] \notin unleased' => b = c
  BY <1>2 DEF LeaseInv
<1> QED BY <1>4, <1>5, <1>6 DEF LeaseInv

\* Which calls leave every owner lease alone.
LEMMA OwnersUntouched ==
    ASSUME NEW a \in Attempt, NEW r \in Resource,
           \/ ClaimKeyCall(a) \/ ReserveCall(a) \/ ClaimIdCall(a) \/ SlotCall(a) \/ SaveCall(a)
           \/ ReleaseKeyCall(a) \/ DeleteClaimCall(a) \/ NoEffect
           \/ r # "lease" /\ ReleaseCall(a, r)
           \/ ~CanBegin(OpOf[a]) /\ BeginCall(a)
    PROVE  UNCHANGED <<owners, unleased>>
BY DEF ClaimKeyCall, ReserveCall, ClaimIdCall, SlotCall, SaveCall, ReleaseKeyCall,
   DeleteClaimCall, NoEffect, ReleaseCall, BeginCall, BeginOperation, SaveQueued, AcquireSlot,
   ReleaseSlot, storeVars, historyVars

\* Every step of a handler or a task keeps LeaseInv.
LEMMA LeaseInvStep ==
    ASSUME TypeOK, LeaseInv, NEW a \in Attempt, Step(a)
    PROVE  LeaseInv'
<1>1. took[a] \in SUBSET Resource /\ st[a] \in State
  BY DEF TypeOK
<1>2. State = {"new", "lookup", "admit", "claimId", "slot", "begin", "save", "queued",
               "running", "unwind", "unclaim", "cleanup", "done", "crashed"}
  BY DEF State, Admitting, Tasking
<1>3. "slot" \in Resource /\ Resource = {"key", "lease", "opId", "slot", "spend"}
  BY DEF Resource
<1> USE <1>1, <1>2, <1>3, LeaseKept, OwnersUntouched
<1>4. CASE ClaimKey(a)
  BY <1>4 DEF ClaimKey, Tasking
<1>5. CASE LookupExisting(a) \/ RejectInvalid(a) \/ RollbackIdRead(a)
  BY <1>5 DEF LookupExisting, RejectInvalid, RollbackIdRead, NoEffect, Tasking, TookLease,
     storeVars, historyVars
<1>6. CASE ReserveBudget(a)
  BY <1>6 DEF ReserveBudget, Tasking, TookLease
<1>7. CASE ClaimId(a)
  BY <1>7 DEF ClaimId, Tasking, TookLease
<1>8. CASE TakeSlot(a)
  BY <1>8 DEF TakeSlot, Tasking, TookLease
<1>9. CASE Begin(a)
  <2>1. CASE CanBegin(OpOf[a])
    BY <1>9, <2>1, LeaseTaken DEF Begin
  <2>2. CASE ~CanBegin(OpOf[a])
    BY <1>9, <2>2 DEF Begin, Tasking, TookLease
  <2> QED BY <2>1, <2>2
<1>10. CASE Save(a)
  <2>1. TookLease(a)
    BY <1>10 DEF Save, LeaseInv
  <2> QED BY <1>10, <2>1 DEF Save, Tasking, TookLease
<1>11. CASE RollbackKey(a)
  BY <1>11 DEF RollbackKey, Tasking, TookLease
<1>12. CASE RollbackIdDelete(a)
  BY <1>12 DEF RollbackIdDelete, Tasking, TookLease
<1>13. ASSUME NEW r \in Resource, Release(a, r)
       PROVE  LeaseInv'
  <2>1. st[a] \in {"unwind", "cleanup"} /\ r \in took[a]
    BY <1>13 DEF Release, Releasing, IsNext
  <2>2. CASE r = "lease"
    BY <1>13, <2>1, <2>2, LeaseGiven
       DEF Release, ReleaseCall, TookLease, Tasking, historyVars
  <2>3. CASE r # "lease"
    BY <1>13, <2>1, <2>3 DEF Release, Drop, Tasking, TookLease
  <2> QED BY <2>2, <2>3
<1>14. CASE TaskStarts(a) \/ TaskEnds(a)
  <2>1. TookLease(a) /\ UNCHANGED <<owners, unleased>>
    BY <1>14 DEF TaskStarts, TaskEnds, LeaseInv, Tasking, SaveOperation, storeVars, historyVars
  <2> QED BY <1>14, <2>1 DEF TaskStarts, TaskEnds, Tasking, TookLease
<1> QED BY <1>4, <1>5, <1>6, <1>7, <1>8, <1>9, <1>10, <1>11, <1>12, <1>13, <1>14 DEF Step

\* Every storage call that raises keeps LeaseInv.
LEMMA LeaseInvMishap ==
    ASSUME TypeOK, LeaseInv, NEW a \in Attempt, Mishap(a)
    PROVE  LeaseInv'
<1>1. took[a] \in SUBSET Resource /\ st[a] \in State
  BY DEF TypeOK
<1>2. State = {"new", "lookup", "admit", "claimId", "slot", "begin", "save", "queued",
               "running", "unwind", "unclaim", "cleanup", "done", "crashed"}
  BY DEF State, Admitting, Tasking
<1>3. "slot" \in Resource /\ Resource = {"key", "lease", "opId", "slot", "spend"}
  BY DEF Resource
<1> USE <1>1, <1>2, <1>3, LeaseKept, OwnersUntouched
<1>4. CASE AdmissionFault(a)
  <2>1. Unwind(a, took[a])
    BY <1>4 DEF AdmissionFault
  <2>2. CASE BeginCall(a) /\ CanBegin(OpOf[a])
    BY <2>1, <2>2, LeaseTaken
  <2>3. CASE ~(BeginCall(a) /\ CanBegin(OpOf[a]))
    <3>1. UNCHANGED <<owners, unleased>>
      BY <1>4, <2>3 DEF AdmissionFault, AdmissionCall
    <3>2. "done" \in State /\ "done" \notin Tasking \cup {"save"}
      BY DEF Tasking
    <3> QED BY <2>1, <3>1, <3>2 DEF TookLease
  <2> QED BY <2>2, <2>3
<1>5. CASE RollbackKeyFault(a)
  BY <1>5 DEF RollbackKeyFault, Tasking
<1>6. CASE RollbackIdFault(a)
  <2>1. Unwind(a, took[a] \ {"opId"}) /\ UNCHANGED <<owners, unleased>>
    BY <1>6 DEF RollbackIdFault
  <2>2. "done" \in State /\ "done" \notin Tasking \cup {"save"}
    BY DEF Tasking
  <2> QED BY <2>1, <2>2 DEF TookLease
<1>7. ASSUME NEW r \in Resource, ReleaseFault(a, r)
      PROVE  LeaseInv'
  <2>1. st[a] \in {"unwind", "cleanup"} /\ r \in took[a]
    BY <1>7 DEF ReleaseFault, Releasing, IsNext
  <2>2. CASE r = "lease"
    BY <1>7, <2>1, <2>2, LeaseGiven
       DEF ReleaseFault, ReleaseCall, NoEffect, TookLease, Tasking, historyVars, storeVars
  <2>3. CASE r # "lease"
    BY <1>7, <2>1, <2>3 DEF ReleaseFault, Drop, Tasking, TookLease
  <2> QED BY <2>2, <2>3
<1>8. CASE TaskFault(a)
  <2>1. TookLease(a) /\ UNCHANGED <<owners, unleased>>
    BY <1>8 DEF TaskFault, LeaseInv, Tasking, SaveOperation, storeVars, historyVars
  <2> QED BY <1>8, <2>1 DEF TaskFault, Tasking, TookLease
<1> QED BY <1>4, <1>5, <1>6, <1>7, <1>8 DEF Mishap

\* LeaseInv is inductive, given the types.
LEMMA LeaseInvInductive == TypeOK /\ LeaseInv /\ [Next]_vars => LeaseInv'
<1> SUFFICES ASSUME TypeOK, LeaseInv, [Next]_vars
             PROVE  LeaseInv'
  OBVIOUS
<1>1. ASSUME NEW i \in Instance, Crash(i)
      PROVE  LeaseInv'
  <2>1. UNCHANGED <<owners, unleased>>
    BY <1>1 DEF Crash, storeVars, historyVars
  <2>2. \A b \in Attempt : TookLease(b)' => TookLease(b)
    BY <1>1 DEF Crash, TookLease, TypeOK
  <2>3. \A b \in Attempt : st'[b] \in Tasking \cup {"save"} => TookLease(b)'
    BY <1>1 DEF Crash, TookLease, LeaseInv, Tasking, TypeOK
  <2> QED BY <2>1, <2>2, <2>3 DEF LeaseInv
<1>2. CASE TimePasses
  <2>1. UNCHANGED <<st, took>>
    BY <1>2 DEF TimePasses, PendingLapses, KeyLapses, IdClaimLapses, OwnerLapses, SlotLapses,
       LedgerLapses, Lapse, handlerVars
  <2>2. ASSUME NEW o \in Op, OwnerLapses(o)
        PROVE  LeaseInv'
    <3>1. /\ unleased' = unleased \cup {o}
          /\ \A x \in Op \ {o} : owners'[x] = owners[x]
      BY <2>2 DEF OwnerLapses, LeaseExpires, TypeOK, StoreTypeOK
    <3> QED BY <2>1, <3>1, RequestTypes DEF LeaseInv, TookLease
  <2>3. CASE UNCHANGED <<owners, unleased>>
    BY <2>1, <2>3 DEF LeaseInv, TookLease
  <2> QED BY <1>2, <2>2, <2>3 DEF TimePasses, PendingLapses, KeyLapses, IdClaimLapses,
          SlotLapses, SlotExpires, LedgerLapses, storeVars, historyVars
<1>3. CASE UNCHANGED vars
  BY <1>3 DEF vars, storeVars, handlerVars, historyVars, LeaseInv, TookLease
<1> QED BY <1>1, <1>2, <1>3, LeaseInvStep, LeaseInvMishap DEF Next

(***************************************************************************)
(* Two tasks never execute one operation at a time while its lease lives.  *)
(***************************************************************************)
THEOREM OneExecution == Spec => []NoConcurrentExecution
<1>1. Init => LeaseInv
  BY DEF Init, LeaseInv, TookLease, Tasking
<1>2. LeaseInv => NoConcurrentExecution
  BY DEF LeaseInv, NoConcurrentExecution
<1> QED BY <1>1, <1>2, LeaseInvInductive, TypeCorrect, PTL DEF Spec

-----------------------------------------------------------------------------
(***************************************************************************)
(* What is held in Redis, somebody's flags say.  A crash or a TTL breaks   *)
(* this, and so does a call that takes effect and raises; without them the *)
(* early return of the rollback is never taken, because the token that a   *)
(* rollback holds is still on the key.                                     *)
(***************************************************************************)
Undisturbed == faults = 0 /\ lapses = 0 /\ \A a \in Attempt : st[a] # "crashed"

Took(a, r) == r \in took[a]

SlotTaken(a, m) == Took(a, "slot") /\ m = <<HostOf[a], OpOf[a]>>
OwnerTaken(a, o) == Took(a, "lease") /\ OpOf[a] = o /\ owners[o] = HostOf[a]
HoldTaken(a, o) == Took(a, "spend") /\ OpOf[a] = o

IdleInv == \A a \in Attempt : st[a] \in {"new", "lookup", "done"} => took[a] = {}
TokenInv == \A a \in Attempt : Took(a, "key") => StillAdmitting(a)
PendingInv ==
    \A k \in Key : pending[k] # NoAttempt => KeyOf[pending[k]] = k /\ Took(pending[k], "key")
SlotInv == \A m \in slots : \E a \in Attempt : SlotTaken(a, m)
OwnerInv == \A o \in Op : owners[o] # NoInstance => \E a \in Attempt : OwnerTaken(a, o)
SpendInv == \A o \in Op : holds[o] # NoHold => \E a \in Attempt : HoldTaken(a, o)

TakenInv ==
    Undisturbed => IdleInv /\ TokenInv /\ PendingInv /\ SlotInv /\ OwnerInv /\ SpendInv

(***************************************************************************)
(* What a step of one attempt may do to each kind of thing held, for the   *)
(* flags to say what is held afterwards too.                               *)
(***************************************************************************)
Gains(a, r) == Took(a, r)'
Loses(a, r) == Took(a, r) /\ ~Took(a, r)'

OthersKeep(a) == \A b \in Attempt \ {a} : st'[b] = st[b] /\ took'[b] = took[b]

SlotMoves(a) ==
    /\ \A m \in slots' : m \in slots \/ (m = <<HostOf[a], OpOf[a]>> /\ Gains(a, "slot"))
    /\ Loses(a, "slot") => <<HostOf[a], OpOf[a]>> \notin slots'

OwnerMoves(a) ==
    /\ \A o \in Op :
         \/ owners'[o] \in {owners[o], NoInstance}
         \/ o = OpOf[a] /\ owners'[o] = HostOf[a] /\ Gains(a, "lease")
    /\ Loses(a, "lease") => owners'[OpOf[a]] # HostOf[a]

SpendMoves(a) ==
    /\ \A o \in Op : holds'[o] \in {holds[o], NoHold} \/ (o = OpOf[a] /\ Gains(a, "spend"))
    /\ Loses(a, "spend") => holds'[OpOf[a]] = NoHold

KeyMoves(a) ==
    \/ UNCHANGED <<idem, pending>> /\ (Took(a, "key")' <=> Took(a, "key"))
    \/ /\ pending[KeyOf[a]] = NoAttempt \/ StillAdmitting(a)
       /\ \A k \in Key \ {KeyOf[a]} : idem'[k] = idem[k] /\ pending'[k] = pending[k]
       /\ IF Took(a, "key")'
            THEN StillAdmitting(a)'
            ELSE pending'[KeyOf[a]] = NoAttempt

LEMMA SlotMovesKeep ==
    ASSUME SlotInv, NEW a \in Attempt, OthersKeep(a), SlotMoves(a)
    PROVE  SlotInv'
<1> SUFFICES ASSUME NEW m \in slots'
             PROVE  \E b \in Attempt : SlotTaken(b, m)'
  BY DEF SlotInv
<1>1. CASE m = <<HostOf[a], OpOf[a]>> /\ Gains(a, "slot")
  BY <1>1 DEF SlotTaken, Gains
<1>2. CASE m \in slots
  <2>1. PICK b \in Attempt : SlotTaken(b, m)
    BY <1>2 DEF SlotInv
  <2>2. CASE b # a
    BY <2>1, <2>2 DEF SlotTaken, Took, OthersKeep
  <2>3. CASE b = a
    BY <2>1, <2>3 DEF SlotTaken, SlotMoves, Loses
  <2> QED BY <2>2, <2>3
<1> QED BY <1>1, <1>2 DEF SlotMoves

LEMMA OwnerMovesKeep ==
    ASSUME OwnerInv, NEW a \in Attempt, OthersKeep(a), OwnerMoves(a)
    PROVE  OwnerInv'
<1> SUFFICES ASSUME NEW o \in Op, owners'[o] # NoInstance
             PROVE  \E b \in Attempt : OwnerTaken(b, o)'
  BY DEF OwnerInv
<1>1. CASE o = OpOf[a] /\ owners'[o] = HostOf[a] /\ Gains(a, "lease")
  BY <1>1 DEF OwnerTaken, Gains
<1>2. CASE owners'[o] = owners[o]
  <2>1. PICK b \in Attempt : OwnerTaken(b, o)
    BY <1>2 DEF OwnerInv
  <2>2. CASE b # a
    BY <1>2, <2>1, <2>2 DEF OwnerTaken, Took, OthersKeep
  <2>3. CASE b = a
    BY <1>2, <2>1, <2>3 DEF OwnerTaken, OwnerMoves, Loses
  <2> QED BY <2>2, <2>3
<1> QED BY <1>1, <1>2 DEF OwnerMoves

LEMMA SpendMovesKeep ==
    ASSUME SpendInv, NEW a \in Attempt, OthersKeep(a), SpendMoves(a)
    PROVE  SpendInv'
<1> SUFFICES ASSUME NEW o \in Op, holds'[o] # NoHold
             PROVE  \E b \in Attempt : HoldTaken(b, o)'
  BY DEF SpendInv
<1>1. CASE o = OpOf[a] /\ Gains(a, "spend")
  BY <1>1 DEF HoldTaken, Gains
<1>2. CASE holds'[o] = holds[o]
  <2>1. PICK b \in Attempt : HoldTaken(b, o)
    BY <1>2 DEF SpendInv
  <2>2. CASE b # a
    BY <2>1, <2>2 DEF HoldTaken, Took, OthersKeep
  <2>3. CASE b = a
    BY <1>2, <2>1, <2>3 DEF HoldTaken, SpendMoves, Loses
  <2> QED BY <2>2, <2>3
<1> QED BY <1>1, <1>2 DEF SpendMoves

\* The token on a key is its holder's: nobody else moves while it is there.
LEMMA KeyMovesKeep ==
    ASSUME TypeOK, TokenInv, PendingInv, NEW a \in Attempt, OthersKeep(a), KeyMoves(a)
    PROVE  TokenInv' /\ PendingInv'
<1>r. \A b \in Attempt : KeyOf[b] \in Key
  BY RequestTypes
<1>n. \A b \in Attempt : b # NoAttempt
  BY AdmissionAssumption DEF AdmissionAssumption
<1>p. \A k \in Key : pending[k] \in Attempt \cup {NoAttempt}
  BY DEF TypeOK
<1>o. \A b \in Attempt \ {a} : Took(b, "key")' <=> Took(b, "key")
  BY DEF Took, OthersKeep
<1>1. CASE UNCHANGED <<idem, pending>> /\ (Took(a, "key")' <=> Took(a, "key"))
  <2>1. \A b \in Attempt : Took(b, "key")' <=> Took(b, "key")
    BY <1>1, <1>o
  <2>2. TokenInv'
    BY <1>1, <2>1 DEF TokenInv, StillAdmitting
  <2>3. PendingInv'
    BY <1>1, <1>p, <2>1 DEF PendingInv
  <2> QED BY <2>2, <2>3
<1>2. CASE ~(UNCHANGED <<idem, pending>> /\ (Took(a, "key")' <=> Took(a, "key")))
  <2>1. /\ pending[KeyOf[a]] = NoAttempt \/ StillAdmitting(a)
        /\ \A k \in Key \ {KeyOf[a]} : idem'[k] = idem[k] /\ pending'[k] = pending[k]
        /\ Took(a, "key")' => StillAdmitting(a)'
        /\ ~Took(a, "key")' => pending'[KeyOf[a]] = NoAttempt
    BY <1>2 DEF KeyMoves
  <2>2. ASSUME NEW b \in Attempt, Took(b, "key")'
        PROVE  StillAdmitting(b)'
    <3>1. CASE b = a
      BY <2>1, <2>2, <3>1
    <3>2. CASE b # a
      <4>1. Took(b, "key")
        BY <1>o, <2>2, <3>2
      <4>2. StillAdmitting(b)
        BY <4>1 DEF TokenInv
      <4>3. KeyOf[b] # KeyOf[a]
        BY <1>n, <2>1, <3>2, <4>2 DEF StillAdmitting
      <4> QED BY <1>r, <2>1, <4>2, <4>3 DEF StillAdmitting
    <3> QED BY <3>1, <3>2
  <2>3. ASSUME NEW k \in Key, pending'[k] # NoAttempt
        PROVE  KeyOf[pending'[k]] = k /\ Took(pending[k], "key")'
    <3>1. CASE k = KeyOf[a]
      BY <2>1, <2>3, <3>1 DEF StillAdmitting, Took
    <3>2. CASE k # KeyOf[a]
      <4>1. pending'[k] = pending[k] /\ KeyOf[pending[k]] = k /\ Took(pending[k], "key")
        BY <2>1, <2>3, <3>2 DEF PendingInv
      <4>2. pending[k] # a
        BY <3>2, <4>1
      <4> QED BY <1>o, <1>p, <2>3, <4>1, <4>2 DEF Took
    <3> QED BY <3>1, <3>2
  <2> QED BY <2>2, <2>3 DEF TokenInv, PendingInv
<1> QED BY <1>1, <1>2

LEMMA GotoMoves ==
    ASSUME TypeOK, IdleInv, NEW a \in Attempt, NEW s, NEW res, Goto(a, s, res),
           s \in {"new", "lookup", "done"} => res = {}
    PROVE  /\ OthersKeep(a) /\ IdleInv'
           /\ \A r : Took(a, r)' <=> r \in res
<1>1. /\ st'[a] = s /\ took'[a] = res
      /\ \A b \in Attempt \ {a} : st'[b] = st[b] /\ took'[b] = took[b]
  BY DEF Goto, TypeOK
<1>2. IdleInv'
  BY <1>1 DEF IdleInv
<1> QED BY <1>1, <1>2 DEF OthersKeep, Took

LEMMA UnwindMoves ==
    ASSUME TypeOK, IdleInv, NEW a \in Attempt, NEW res, Unwind(a, res)
    PROVE  /\ OthersKeep(a) /\ IdleInv'
           /\ \A r : Took(a, r)' <=> r \in res
<1> DEFINE s == IF res = {} THEN "done" ELSE "unwind"
<1>1. Goto(a, s, res)
  BY DEF Unwind
<1>2. s \in {"new", "lookup", "done"} => res = {}
  OBVIOUS
<1> HIDE DEF s
<1> QED BY <1>1, <1>2, GotoMoves

TakenMoves(a) ==
    OthersKeep(a) /\ IdleInv' /\ SlotMoves(a) /\ OwnerMoves(a) /\ SpendMoves(a) /\ KeyMoves(a)

\* Calls that leave a thing alone, and flags that do.
LEMMA SameSlots ==
    ASSUME NEW a, UNCHANGED slots, ~Loses(a, "slot") PROVE SlotMoves(a)
BY DEF SlotMoves

LEMMA SameOwners ==
    ASSUME NEW a, UNCHANGED owners, ~Loses(a, "lease") PROVE OwnerMoves(a)
BY DEF OwnerMoves

LEMMA SameHolds ==
    ASSUME NEW a, UNCHANGED holds, ~Loses(a, "spend") PROVE SpendMoves(a)
BY DEF SpendMoves

LEMMA SameKeys ==
    ASSUME NEW a, UNCHANGED <<idem, pending>>, Took(a, "key")' <=> Took(a, "key")
    PROVE  KeyMoves(a)
BY DEF KeyMoves

\* Steps that call no storage and keep the flags.
LEMMA QuietMoves ==
    ASSUME NEW a, OthersKeep(a), IdleInv', \A r : Took(a, r)' <=> Took(a, r),
           UNCHANGED <<slots, owners, holds, idem, pending>>
    PROVE  TakenMoves(a)
<1>1. \A r : ~Loses(a, r)
  BY DEF Loses
<1> QED BY <1>1, SameSlots, SameOwners, SameHolds, SameKeys DEF TakenMoves

LEMMA EntryMoves ==
    ASSUME TypeOK, IdleInv, TokenInv, PendingInv, NEW a \in Attempt,
           \/ ClaimKey(a) \/ LookupExisting(a) \/ RejectInvalid(a) \/ ReserveBudget(a)
           \/ ClaimId(a) \/ TakeSlot(a) \/ Begin(a)
    PROVE  TakenMoves(a)
<1>r. HostOf[a] \in Instance /\ OpOf[a] \in Op /\ KeyOf[a] \in Key
  BY RequestTypes
<1>1. CASE ClaimKey(a)
  <2>1. UNCHANGED <<slots, owners, holds>> /\ took[a] = {}
    BY <1>1 DEF ClaimKey, ClaimKeyCall, storeVars, ledgerVars, IdleInv
  <2>2. CASE KeyTaken(KeyOf[a])
    <3>1. OthersKeep(a) /\ IdleInv' /\ (\A r : Took(a, r)' <=> r \in {})
      BY <1>1, <2>2, GotoMoves DEF ClaimKey
    <3>2. UNCHANGED <<idem, pending>>
      BY <1>1, <2>2 DEF ClaimKey, ClaimKeyCall, keyVars
    <3> QED BY <2>1, <3>1, <3>2, QuietMoves DEF Took
  <2>3. CASE ~KeyTaken(KeyOf[a])
    <3>1. OthersKeep(a) /\ IdleInv' /\ (\A r : Took(a, r)' <=> r \in {"key"})
      BY <1>1, <2>3, GotoMoves DEF ClaimKey
    <3>2. KeyMoves(a)
      <4>1. /\ idem' = [idem EXCEPT ![KeyOf[a]] = OpOf[a]]
            /\ pending' = [pending EXCEPT ![KeyOf[a]] = a]
        BY <1>1, <2>3 DEF ClaimKey, ClaimKeyCall
      <4>2. pending[KeyOf[a]] = NoAttempt
        <5> SUFFICES ASSUME pending[KeyOf[a]] # NoAttempt, idem[KeyOf[a]] = NoOp
                     PROVE  FALSE
          BY <2>3 DEF KeyTaken
        <5> DEFINE b == pending[KeyOf[a]]
        <5>1. b \in Attempt /\ KeyOf[b] = KeyOf[a] /\ Took(b, "key")
          BY <1>r DEF PendingInv, TypeOK
        <5> HIDE DEF b
        <5> QED BY <5>1, RequestTypes, AdmissionAssumption
                DEF TokenInv, StillAdmitting, AdmissionAssumption
      <4>3. StillAdmitting(a)'
        BY <1>r, <4>1 DEF StillAdmitting, TypeOK
      <4>4. \A k \in Key \ {KeyOf[a]} : idem'[k] = idem[k] /\ pending'[k] = pending[k]
        BY <4>1 DEF TypeOK
      <4> QED BY <3>1, <4>2, <4>3, <4>4 DEF KeyMoves
    <3>3. \A r : ~Loses(a, r)
      BY <2>1 DEF Loses, Took
    <3> QED BY <2>1, <3>1, <3>2, <3>3, SameSlots, SameOwners, SameHolds DEF TakenMoves
  <2> QED BY <2>2, <2>3
<1>2. CASE LookupExisting(a)
  <2>1. OthersKeep(a) /\ IdleInv' /\ (\A r : Took(a, r)' <=> r \in {})
    BY <1>2, GotoMoves DEF LookupExisting
  <2>2. UNCHANGED <<slots, owners, holds, idem, pending>> /\ took[a] = {}
    BY <1>2 DEF LookupExisting, storeVars, ledgerVars, keyVars, IdleInv
  <2> QED BY <2>1, <2>2, QuietMoves DEF Took
<1>3. CASE RejectInvalid(a)
  <2>1. OthersKeep(a) /\ IdleInv' /\ (\A r : Took(a, r)' <=> r \in took[a])
    BY <1>3, UnwindMoves DEF RejectInvalid
  <2>2. UNCHANGED <<slots, owners, holds, idem, pending>>
    BY <1>3 DEF RejectInvalid, storeVars, ledgerVars, keyVars
  <2> QED BY <2>1, <2>2, QuietMoves DEF Took
<1>4. CASE ReserveBudget(a)
  <2>1. UNCHANGED <<slots, owners, idem, pending>>
    BY <1>4 DEF ReserveBudget, ReserveCall, storeVars, keyVars
  <2>2. CASE ReserveGranted(OpOf[a], AmountOf[a])
    <3>1. OthersKeep(a) /\ IdleInv' /\ (\A r : Took(a, r)' <=> r \in took[a] \cup {"spend"})
      BY <1>4, <2>2, GotoMoves DEF ReserveBudget
    <3>2. \A o \in Op \ {OpOf[a]} : holds'[o] = holds[o]
      BY <1>4, <1>r DEF ReserveBudget, ReserveCall, ReserveSpend, TypeOK, LedgerTypeOK
    <3>3. SpendMoves(a)
      BY <3>1, <3>2 DEF SpendMoves, Gains, Loses, Took
    <3>4. ~Loses(a, "slot") /\ ~Loses(a, "lease") /\ (Took(a, "key")' <=> Took(a, "key"))
      BY <3>1 DEF Loses, Took
    <3> QED BY <2>1, <3>1, <3>3, <3>4, SameSlots, SameOwners, SameKeys DEF TakenMoves
  <2>3. CASE ~ReserveGranted(OpOf[a], AmountOf[a])
    <3>1. OthersKeep(a) /\ IdleInv' /\ (\A r : Took(a, r)' <=> r \in took[a])
      BY <1>4, <2>3, UnwindMoves DEF ReserveBudget
    <3>2. UNCHANGED holds
      BY <1>4, <2>3 DEF ReserveBudget, ReserveCall, ReserveSpend, ReserveGranted
    <3> QED BY <2>1, <3>1, <3>2, QuietMoves DEF Took
  <2> QED BY <2>2, <2>3
<1>5. CASE ClaimId(a)
  <2>1. UNCHANGED <<slots, owners, holds, idem, pending>>
    BY <1>5 DEF ClaimId, ClaimIdCall, storeVars, ledgerVars
  <2>2. \E res : /\ OthersKeep(a) /\ IdleInv'
                 /\ \A r : Took(a, r)' <=> r \in res
                 /\ res \in {took[a], took[a] \cup {"opId"}}
    BY <1>5, GotoMoves, UnwindMoves DEF ClaimId
  <2>3. \A r \in Resource \ {"opId"} : Took(a, r)' <=> Took(a, r)
    BY <2>2 DEF Took
  <2>4. /\ ~Loses(a, "slot") /\ ~Loses(a, "lease") /\ ~Loses(a, "spend")
        /\ Took(a, "key")' <=> Took(a, "key")
    BY <2>3 DEF Loses, Resource
  <2> QED BY <2>1, <2>2, <2>4, SameSlots, SameOwners, SameHolds, SameKeys DEF TakenMoves
<1>6. CASE TakeSlot(a)
  <2>1. UNCHANGED <<owners, holds, idem, pending>>
    BY <1>6 DEF TakeSlot, SlotCall, AcquireSlot, ledgerVars, keyVars
  <2>2. CASE SlotFree
    <3>1. OthersKeep(a) /\ IdleInv' /\ (\A r : Took(a, r)' <=> r \in took[a] \cup {"slot"})
      BY <1>6, <2>2, GotoMoves DEF TakeSlot
    <3>2. slots' = slots \cup {<<HostOf[a], OpOf[a]>>}
      BY <1>6, <2>2 DEF TakeSlot, SlotCall, AcquireSlot
    <3>3. SlotMoves(a)
      BY <3>1, <3>2 DEF SlotMoves, Gains, Loses
    <3>4. ~Loses(a, "spend") /\ ~Loses(a, "lease") /\ (Took(a, "key")' <=> Took(a, "key"))
      BY <3>1 DEF Loses, Took
    <3> QED BY <2>1, <3>1, <3>3, <3>4, SameHolds, SameOwners, SameKeys DEF TakenMoves
  <2>3. CASE ~SlotFree
    <3>1. OthersKeep(a) /\ IdleInv' /\ (\A r : Took(a, r)' <=> r \in took[a])
      BY <1>6, <2>3, UnwindMoves DEF TakeSlot
    <3>2. UNCHANGED slots
      BY <1>6, <2>3 DEF TakeSlot, SlotCall, AcquireSlot
    <3> QED BY <2>1, <3>1, <3>2, QuietMoves DEF Took
  <2> QED BY <2>2, <2>3
<1>7. CASE Begin(a)
  <2>1. UNCHANGED <<slots, holds, idem, pending>>
    BY <1>7 DEF Begin, BeginCall, BeginOperation, ledgerVars, keyVars
  <2>2. CASE CanBegin(OpOf[a])
    <3>1. OthersKeep(a) /\ IdleInv' /\ (\A r : Took(a, r)' <=> r \in took[a] \cup {"lease"})
      BY <1>7, <2>2, GotoMoves DEF Begin
    <3>2. owners' = [owners EXCEPT ![OpOf[a]] = HostOf[a]]
      BY <1>7, <2>2 DEF Begin, BeginCall, BeginOperation
    <3>3. OwnerMoves(a)
      BY <1>r, <3>1, <3>2 DEF OwnerMoves, Gains, Loses, TypeOK, StoreTypeOK
    <3>4. ~Loses(a, "spend") /\ ~Loses(a, "slot") /\ (Took(a, "key")' <=> Took(a, "key"))
      BY <3>1 DEF Loses, Took
    <3> QED BY <2>1, <3>1, <3>3, <3>4, SameHolds, SameSlots, SameKeys DEF TakenMoves
  <2>3. CASE ~CanBegin(OpOf[a])
    <3>1. OthersKeep(a) /\ IdleInv' /\ (\A r : Took(a, r)' <=> r \in took[a])
      BY <1>7, <2>3, UnwindMoves DEF Begin
    <3>2. UNCHANGED owners
      BY <1>7, <2>3 DEF Begin, BeginCall, BeginOperation
    <3> QED BY <2>1, <3>1, <3>2, QuietMoves DEF Took
  <2> QED BY <2>2, <2>3
<1> QED BY <1>1, <1>2, <1>3, <1>4, <1>5, <1>6, <1>7

\* The key of an attempt that holds its token is given back, never left to a
\* successor.
LEMMA TokenReleased ==
    ASSUME TypeOK, TokenInv, NEW a \in Attempt, Took(a, "key"), ReleaseKeyCall(a)
    PROVE  /\ StillAdmitting(a)
           /\ idem'[KeyOf[a]] = NoOp /\ NoOp # OpOf[a]
           /\ pending'[KeyOf[a]] = NoAttempt
           /\ \A k \in Key \ {KeyOf[a]} : idem'[k] = idem[k] /\ pending'[k] = pending[k]
<1>1. StillAdmitting(a)
  BY DEF TokenInv
<1>2. /\ idem' = [idem EXCEPT ![KeyOf[a]] = NoOp]
      /\ pending' = [pending EXCEPT ![KeyOf[a]] = NoAttempt]
  BY <1>1 DEF ReleaseKeyCall
<1>3. NoOp # OpOf[a]
  BY RequestTypes, AdmissionAssumption DEF AdmissionAssumption
<1> QED BY <1>1, <1>2, <1>3, RequestTypes DEF TypeOK

LEMMA ExitMoves ==
    ASSUME TypeOK, IdleInv, TokenInv, NEW a \in Attempt,
           \/ Save(a) \/ RollbackKey(a) \/ RollbackIdRead(a) \/ RollbackIdDelete(a)
           \/ TaskStarts(a) \/ TaskEnds(a)
    PROVE  TakenMoves(a)
<1>r. HostOf[a] \in Instance /\ OpOf[a] \in Op /\ KeyOf[a] \in Key
  BY RequestTypes
<1>1. CASE Save(a)
  <2>1. UNCHANGED <<slots, owners, holds, idem>>
    BY <1>1 DEF Save, SaveCall, SaveQueued, storeVars, ledgerVars
  <2>2. CASE StillAdmitting(a)
    <3>1. OthersKeep(a) /\ IdleInv' /\ (\A r : Took(a, r)' <=> r \in took[a] \ {"key", "opId"})
      BY <1>1, <2>2, GotoMoves DEF Save
    <3>2. pending' = [pending EXCEPT ![KeyOf[a]] = NoAttempt]
      BY <1>1, <2>2 DEF Save, SaveCall
    <3>3. ~Took(a, "key")'
      BY <3>1
    <3>4. KeyMoves(a)
      BY <1>r, <2>1, <2>2, <3>2, <3>3 DEF KeyMoves, TypeOK
    <3>5. ~Loses(a, "slot") /\ ~Loses(a, "lease") /\ ~Loses(a, "spend")
      BY <3>1 DEF Loses, Took
    <3> QED BY <2>1, <3>1, <3>4, <3>5, SameSlots, SameOwners, SameHolds DEF TakenMoves
  <2>3. CASE ~StillAdmitting(a)
    <3>1. OthersKeep(a) /\ IdleInv' /\ (\A r : Took(a, r)' <=> r \in took[a])
      BY <1>1, <2>3, UnwindMoves DEF Save
    <3>2. UNCHANGED pending
      BY <1>1, <2>3 DEF Save, SaveCall
    <3> QED BY <2>1, <3>1, <3>2, QuietMoves DEF Took
  <2> QED BY <2>2, <2>3
<1>2. CASE RollbackKey(a)
  <2>1. UNCHANGED <<slots, owners, holds>>
    BY <1>2 DEF RollbackKey, ReleaseKeyCall, storeVars, ledgerVars
  <2>2. Took(a, "key") /\ ReleaseKeyCall(a)
    BY <1>2 DEF RollbackKey, IsNext, Took
  <2>3. Unwind(a, took[a] \ {"key"})
    BY <1>2, <2>2, TokenReleased DEF RollbackKey
  <2>4. OthersKeep(a) /\ IdleInv' /\ (\A r : Took(a, r)' <=> r \in took[a] \ {"key"})
    BY <2>3, UnwindMoves
  <2>5. ~Took(a, "key")'
    BY <2>4
  <2>6. KeyMoves(a)
    BY <2>2, <2>5, TokenReleased DEF KeyMoves
  <2>7. ~Loses(a, "slot") /\ ~Loses(a, "lease") /\ ~Loses(a, "spend")
    BY <2>4 DEF Loses, Took
  <2> QED BY <2>1, <2>4, <2>6, <2>7, SameSlots, SameOwners, SameHolds DEF TakenMoves
<1>3. ASSUME OthersKeep(a), IdleInv', \A r \in Resource \ {"opId"} : Took(a, r)' <=> Took(a, r),
             UNCHANGED <<slots, owners, holds, idem, pending>>
      PROVE  TakenMoves(a)
  <2>1. /\ ~Loses(a, "slot") /\ ~Loses(a, "lease") /\ ~Loses(a, "spend")
        /\ Took(a, "key")' <=> Took(a, "key")
    BY <1>3 DEF Loses, Resource
  <2> QED BY <1>3, <2>1, SameSlots, SameOwners, SameHolds, SameKeys DEF TakenMoves
<1>4. CASE RollbackIdRead(a)
  <2>1. UNCHANGED <<slots, owners, holds, idem, pending>>
    BY <1>4 DEF RollbackIdRead, storeVars, ledgerVars, keyVars
  <2>2. \E res : /\ OthersKeep(a) /\ IdleInv'
                 /\ \A r : Took(a, r)' <=> r \in res
                 /\ res \in {took[a], took[a] \ {"opId"}}
    BY <1>4, GotoMoves, UnwindMoves DEF RollbackIdRead
  <2> QED BY <1>3, <2>1, <2>2 DEF Took
<1>5. CASE RollbackIdDelete(a)
  <2>1. UNCHANGED <<slots, owners, holds, idem, pending>>
    BY <1>5 DEF RollbackIdDelete, DeleteClaimCall, storeVars, ledgerVars
  <2>2. OthersKeep(a) /\ IdleInv' /\ (\A r : Took(a, r)' <=> r \in took[a] \ {"opId"})
    BY <1>5, UnwindMoves DEF RollbackIdDelete
  <2> QED BY <1>3, <2>1, <2>2 DEF Took
<1>6. CASE TaskStarts(a) \/ TaskEnds(a)
  <2>1. UNCHANGED <<slots, owners, holds, idem, pending>>
    BY <1>6 DEF TaskStarts, TaskEnds, SaveOperation, storeVars, ledgerVars, keyVars
  <2>2. OthersKeep(a) /\ IdleInv' /\ (\A r : Took(a, r)' <=> r \in took[a])
    BY <1>6, GotoMoves DEF TaskStarts, TaskEnds
  <2> QED BY <1>3, <2>1, <2>2 DEF Took
<1> QED BY <1>1, <1>2, <1>4, <1>5, <1>6

LEMMA ReleaseMoves ==
    ASSUME TypeOK, IdleInv, NEW a \in Attempt, NEW r \in Resource, Release(a, r)
    PROVE  TakenMoves(a)
<1>r. HostOf[a] \in Instance /\ HostOf[a] # NoInstance /\ OpOf[a] \in Op
  BY RequestTypes, StoreAssumption DEF StoreAssumption
<1>1. OthersKeep(a) /\ IdleInv' /\ (\A x : Took(a, x)' <=> x \in took[a] \ {r})
  <2> DEFINE s == IF took[a] = {r} THEN "done" ELSE st[a]
  <2>1. Goto(a, s, took[a] \ {r})
    BY DEF Release, Drop
  <2>2. s \in {"new", "lookup", "done"} => took[a] \ {r} = {}
    BY DEF Release, Releasing
  <2> HIDE DEF s
  <2> QED BY <2>1, <2>2, GotoMoves
<1>2. UNCHANGED <<idem, pending>>
  BY DEF Release, ReleaseCall, keyVars
<1>3. \A x : Loses(a, x) => x = r
  BY <1>1 DEF Loses, Took
<1>4. r # "key" => (Took(a, "key")' <=> Took(a, "key"))
  BY <1>1 DEF Took
<1>5. CASE r = "lease"
  <2>1. /\ owners' = IF owners[OpOf[a]] = HostOf[a]
                       THEN [owners EXCEPT ![OpOf[a]] = NoInstance] ELSE owners
        /\ UNCHANGED <<slots, holds>>
    BY <1>5 DEF Release, ReleaseCall, ReleaseOperationLease, ledgerVars
  <2>2. OwnerMoves(a)
    BY <1>r, <2>1 DEF OwnerMoves, TypeOK, StoreTypeOK
  <2>3. ~Loses(a, "slot") /\ ~Loses(a, "spend")
    BY <1>3, <1>5
  <2> QED BY <1>1, <1>2, <1>4, <1>5, <2>1, <2>2, <2>3, SameSlots, SameHolds, SameKeys
          DEF TakenMoves
<1>6. CASE r = "slot"
  <2>1. slots' = slots \ {<<HostOf[a], OpOf[a]>>} /\ UNCHANGED <<owners, holds>>
    BY <1>6 DEF Release, ReleaseCall, ReleaseSlot, ledgerVars
  <2>2. SlotMoves(a)
    BY <2>1 DEF SlotMoves
  <2>3. ~Loses(a, "lease") /\ ~Loses(a, "spend")
    BY <1>3, <1>6
  <2> QED BY <1>1, <1>2, <1>4, <1>6, <2>1, <2>2, <2>3, SameOwners, SameHolds, SameKeys
          DEF TakenMoves
<1>7. CASE r = "spend"
  <2>1. holds' = [holds EXCEPT ![OpOf[a]] = NoHold] /\ UNCHANGED <<slots, owners>>
    BY <1>7 DEF Release, ReleaseCall, ReleaseSpend, storeVars
  <2>2. SpendMoves(a)
    BY <1>r, <2>1 DEF SpendMoves, TypeOK, LedgerTypeOK
  <2>3. ~Loses(a, "lease") /\ ~Loses(a, "slot")
    BY <1>3, <1>7
  <2> QED BY <1>1, <1>2, <1>4, <1>7, <2>1, <2>2, <2>3, SameOwners, SameSlots, SameKeys
          DEF TakenMoves
<1> QED BY <1>5, <1>6, <1>7 DEF Release, ReleaseCall

\* TakenInv is inductive, given the types.
LEMMA TakenInductive == TypeOK /\ TakenInv /\ [Next]_vars => TakenInv'
<1> SUFFICES ASSUME TypeOK, TakenInv, [Next]_vars, Undisturbed'
             PROVE  IdleInv' /\ TokenInv' /\ PendingInv' /\ SlotInv' /\ OwnerInv' /\ SpendInv'
  BY DEF TakenInv
<1>1. ASSUME NEW a \in Attempt, Step(a)
      PROVE  IdleInv' /\ TokenInv' /\ PendingInv' /\ SlotInv' /\ OwnerInv' /\ SpendInv'
  <2>1. UNCHANGED <<faults, lapses>>
    BY <1>1 DEF Step, ClaimKey, LookupExisting, RejectInvalid, ReserveBudget, ClaimId, TakeSlot,
       Begin, Save, RollbackKey, RollbackIdRead, RollbackIdDelete, Release, TaskStarts, TaskEnds
  <2>2. \A b \in Attempt : st[b] = "crashed" => ~Step(b)
    BY DEF Step, ClaimKey, LookupExisting, RejectInvalid, ReserveBudget, ClaimId, IdStep, TakeSlot,
       Begin, Save, RollbackKey, RollbackIdRead, RollbackIdDelete, Release, Releasing, TaskStarts,
       TaskEnds, Tasking
  <2>3. \A b \in Attempt \ {a} : st'[b] = st[b]
    BY <1>1 DEF Step, ClaimKey, LookupExisting, RejectInvalid, ReserveBudget, ClaimId, TakeSlot,
       Begin, Save, RollbackKey, RollbackIdRead, RollbackIdDelete, Release, Drop, TaskStarts,
       TaskEnds, Unwind, Goto, TypeOK
  <2>4. Undisturbed
    BY <1>1, <2>1, <2>2, <2>3 DEF Undisturbed
  <2>5. TakenMoves(a)
    BY <1>1, <2>4, EntryMoves, ExitMoves, ReleaseMoves DEF Step, TakenInv
  <2> QED BY <2>4, <2>5, SlotMovesKeep, OwnerMovesKeep, SpendMovesKeep, KeyMovesKeep
          DEF TakenInv, TakenMoves
<1>2. ASSUME NEW a \in Attempt, Mishap(a)
      PROVE  FALSE
  <2>1. Faulty
    BY <1>2 DEF Mishap, AdmissionFault, RollbackKeyFault, RollbackIdFault, TaskFault, ReleaseFault
  <2> QED BY <2>1 DEF Faulty, Undisturbed, TypeOK
<1>3. ASSUME NEW i \in Instance, Crash(i)
      PROVE  FALSE
  BY <1>3 DEF Crash, Undisturbed
<1>4. ASSUME TimePasses
      PROVE  FALSE
  <2>1. Lapse
    BY <1>4 DEF TimePasses, PendingLapses, KeyLapses, IdClaimLapses, OwnerLapses, SlotLapses,
       LedgerLapses
  <2> QED BY <2>1 DEF Lapse, Undisturbed, TypeOK
<1>5. CASE UNCHANGED vars
  BY <1>5 DEF vars, storeVars, ledgerVars, keyVars, handlerVars, Undisturbed, TakenInv, IdleInv,
     TokenInv, PendingInv, SlotInv, OwnerInv, SpendInv, StillAdmitting, SlotTaken, OwnerTaken,
     HoldTaken, Took
<1> QED BY <1>1, <1>2, <1>3, <1>4, <1>5 DEF Next

(***************************************************************************)
(* Once every request and task is through, nothing is held for any of      *)
(* them, if no call raised, no TTL passed and no instance died.            *)
(***************************************************************************)
THEOREM NothingIsLeft == Spec => []NothingLeft
<1>1. Init => TakenInv
  BY DEF Init, StoreInit, LedgerInit, TakenInv, IdleInv, TokenInv, PendingInv, SlotInv, OwnerInv,
     SpendInv, Took
<1>2. TypeOK /\ TakenInv => NothingLeft
  <2> SUFFICES ASSUME TypeOK, TakenInv, AllThrough
               PROVE  /\ slots = {}
                      /\ \A o \in Op : owners[o] = NoInstance /\ ~CurrentHold(o)
                      /\ \A k \in Key : pending[k] = NoAttempt
    BY DEF NothingLeft
  <2>1. Undisturbed
    BY DEF AllThrough, Undisturbed
  <2>2. \A a \in Attempt : took[a] = {}
    BY <2>1 DEF AllThrough, TakenInv, IdleInv
  <2>3. slots = {}
    BY <2>1, <2>2 DEF TakenInv, SlotInv, SlotTaken, Took
  <2>4. ASSUME NEW o \in Op
        PROVE  owners[o] = NoInstance /\ holds[o] = NoHold
    BY <2>1, <2>2 DEF TakenInv, OwnerInv, OwnerTaken, SpendInv, HoldTaken, Took
  <2>5. \A o \in Op : ~CurrentHold(o)
    BY <2>4 DEF CurrentHold, NoHold
  <2>6. \A k \in Key : pending[k] = NoAttempt
    BY <2>1, <2>2 DEF TakenInv, PendingInv, Took, TypeOK
  <2> QED BY <2>3, <2>4, <2>5, <2>6
<1> QED BY <1>1, <1>2, TakenInductive, TypeCorrect, PTL DEF Spec

-----------------------------------------------------------------------------
(***************************************************************************)
(* The ceiling.                                                            *)
(***************************************************************************)
\* What a step does to the slots: one acquires, the others add no member.
LEMMA CeilingKept ==
    ASSUME CeilingHolds, [Next]_vars
    PROVE  CeilingHolds'
<1> USE MembersShrink, OthersKeepCeiling, AcquireKeepsCeiling
<1>1. CASE Members' = Members
  BY <1>1
<1>2. ASSUME NEW i, NEW o, AcquireSlot(i, o)
      PROVE  CeilingHolds'
  BY <1>2
<1>3. CASE Members' \subseteq Members
  BY <1>3
<1>4. UNCHANGED storeVars => Members' = Members
  BY DEF storeVars, Members
<1>5. ASSUME NEW a \in Attempt, Step(a) \/ Mishap(a)
      PROVE  CeilingHolds'
  <2>1. CASE UNCHANGED storeVars
    BY <1>1, <1>4, <2>1
  <2>2. CASE SlotCall(a)
    BY <1>2, <2>2 DEF SlotCall
  <2>3. CASE SaveCall(a) \/ BeginCall(a) \/ \E r \in Resource : ReleaseCall(a, r)
    <3>1. Members' \subseteq Members
      BY <1>4, <2>3 DEF SaveCall, BeginCall, ReleaseCall
    <3> QED BY <1>3, <3>1
  <2>4. CASE TaskStarts(a) \/ TaskEnds(a) \/ TaskFault(a)
    <3>1. Members' \subseteq Members
      BY <1>4, <2>4 DEF TaskStarts, TaskEnds, TaskFault
    <3> QED BY <1>3, <3>1
  <2> QED BY <1>5, <2>1, <2>2, <2>3, <2>4 DEF Step, Mishap, ClaimKey, LookupExisting,
          RejectInvalid, ReserveBudget, ClaimId, TakeSlot, Begin, Save, RollbackKey,
          RollbackIdRead, RollbackIdDelete, Release, AdmissionFault, AdmissionCall,
          RollbackKeyFault, RollbackIdFault, ReleaseFault, NoEffect, ClaimKeyCall, ReserveCall,
          ClaimIdCall, ReleaseKeyCall, DeleteClaimCall
<1>6. CASE TimePasses
  <2>1. ASSUME NEW m \in Slot, SlotLapses(m)
        PROVE  Members' \subseteq Members
    BY <2>1 DEF SlotLapses
  <2>2. ASSUME NEW o \in Op, OwnerLapses(o)
        PROVE  Members' \subseteq Members
    BY <2>2 DEF OwnerLapses
  <2> QED BY <1>1, <1>3, <1>4, <1>6, <2>1, <2>2
          DEF TimePasses, PendingLapses, KeyLapses, IdClaimLapses, LedgerLapses
<1>7. ASSUME NEW i \in Instance, Crash(i)
      PROVE  CeilingHolds'
  BY <1>1, <1>4, <1>7 DEF Crash
<1>8. CASE UNCHANGED vars
  BY <1>1, <1>4, <1>8 DEF vars
<1> QED BY <1>5, <1>6, <1>7, <1>8 DEF Next

(***************************************************************************)
(* The sorted set of slots never exceeds MAX_CONCURRENT_OPS.               *)
(***************************************************************************)
THEOREM SlotCeiling == Spec => []SlotsWithinCeiling
<1>1. Init => CeilingHolds
  BY FS_EmptySet, StoreAssumption DEF Init, StoreInit, CeilingHolds, Members, StoreAssumption
<1>2. CeilingHolds => SlotsWithinCeiling
  BY DEF CeilingHolds, SlotsWithinCeiling, Members
<1>3. CeilingHolds /\ [Next]_vars => CeilingHolds'
  BY CeilingKept
<1> QED BY <1>1, <1>2, <1>3, PTL DEF Spec

-----------------------------------------------------------------------------
(***************************************************************************)
(* Refinement: every step of admission is one of KeyedAdmission or none.   *)
(* A key is bound and unbound only while it is free or bears the token of  *)
(* the attempt that does it, and in either case it is not settled.         *)
(***************************************************************************)
LEMMA ReboundUnsettled ==
    ASSUME TypeOK, KeyInv, NEW a \in Attempt, StillAdmitting(a) \/ ~KeyTaken(KeyOf[a])
    PROVE  ~Keyed!Settled(KeyOf[a])
BY RequestTypes, NobodyAdmittedUnderOwnToken, NobodyAdmittedUnderFreeKey DEF Keyed!Settled

\* What an attempt is told: an error, or what it was told before.
Silent(a) == answer' = answer \/ answer' = [answer EXCEPT ![a] = NoOp]

\* A claim of the key, an answer with the existing operation, or neither.
LEMMA ClaimRefines ==
    ASSUME TypeOK, KeyInv, NEW a \in Attempt, ClaimKeyCall(a),
           \/ Silent(a)
           \/ KeyTaken(KeyOf[a]) /\ answer' = [answer EXCEPT ![a] = idem[KeyOf[a]]]
    PROVE  [Keyed!Next]_(Keyed!vars)
<1>1. KeyOf[a] \in Key /\ OpOf[a] \in Op
  BY RequestTypes
<1>2. UNCHANGED <<admitted, forgotten>>
  BY DEF ClaimKeyCall, historyVars
<1>3. CASE ~KeyTaken(KeyOf[a])
  <2>1. idem' = [idem EXCEPT ![KeyOf[a]] = OpOf[a]] /\ Silent(a)
    BY <1>3 DEF ClaimKeyCall
  <2>2. Keyed!Rebind(a)
    BY <1>1, <1>2, <1>3, <2>1, ReboundUnsettled
       DEF Keyed!Rebind, Keyed!Unanswered, Silent
  <2> QED BY <2>2 DEF Keyed!Next
<1>4. CASE KeyTaken(KeyOf[a])
  <2>1. idem' = idem /\ idem[KeyOf[a]] # NoOp
    BY <1>4 DEF ClaimKeyCall, KeyTaken, keyVars
  <2>2. \/ Keyed!Refuse(a) \/ Keyed!Resolve(a) \/ UNCHANGED Keyed!vars
    BY <1>2, <2>1 DEF Keyed!Refuse, Keyed!Resolve, Keyed!Unanswered, Keyed!vars, Silent
  <2> QED BY <2>2 DEF Keyed!Next
<1> QED BY <1>3, <1>4

\* Recording the operation accepts the attempt, whether it is told of it or not.
LEMMA SaveRefines ==
    ASSUME TypeOK, KeyInv, NEW a \in Attempt, SaveCall(a),
           \/ Keyed!Unanswered(a)
           \/ /\ StillAdmitting(a)
              /\ answer' = [answer EXCEPT ![a] = OpOf[a]]
           \/ ~StillAdmitting(a) /\ answer' = answer
    PROVE  [Keyed!Next]_(Keyed!vars)
<1>1. UNCHANGED <<idem, forgotten>>
  BY DEF SaveCall
<1>2. CASE StillAdmitting(a)
  <2>1. admitted' = admitted \cup {a} /\ idem[KeyOf[a]] = OpOf[a]
    BY <1>2 DEF SaveCall, StillAdmitting
  <2>2. Keyed!Accept(a)
    BY <1>1, <1>2, <2>1, ReboundUnsettled DEF Keyed!Accept
  <2> QED BY <2>2 DEF Keyed!Next
<1>3. CASE ~StillAdmitting(a)
  <2>1. Keyed!Refuse(a) \/ UNCHANGED Keyed!vars
    BY <1>1, <1>3 DEF SaveCall, Keyed!Refuse, Keyed!vars
  <2> QED BY <2>1 DEF Keyed!Next
<1> QED BY <1>2, <1>3

\* A rollback unbinds the key only under its own token.
LEMMA ReleaseKeyRefines ==
    ASSUME TypeOK, KeyInv, NEW a \in Attempt, ReleaseKeyCall(a), answer' = answer
    PROVE  [Keyed!Next]_(Keyed!vars)
<1>1. UNCHANGED <<admitted, forgotten>>
  BY DEF ReleaseKeyCall, historyVars
<1>2. CASE StillAdmitting(a)
  <2>1. idem' = [idem EXCEPT ![KeyOf[a]] = NoOp]
    BY <1>2 DEF ReleaseKeyCall
  <2>2. Keyed!Rebind(a)
    BY <1>1, <1>2, <2>1, ReboundUnsettled DEF Keyed!Rebind
  <2> QED BY <2>2 DEF Keyed!Next
<1>3. CASE ~StillAdmitting(a)
  BY <1>1, <1>3 DEF ReleaseKeyCall, keyVars, Keyed!vars
<1> QED BY <1>2, <1>3

\* Whatever leaves the keys and the history alone.
LEMMA SilentRefines ==
    ASSUME NEW a \in Attempt, UNCHANGED <<idem, admitted, forgotten>>, Silent(a)
    PROVE  [Keyed!Next]_(Keyed!vars)
BY DEF Silent, Keyed!Next, Keyed!Refuse, Keyed!Unanswered, Keyed!vars

\* Every call of a handler or a task, raising or not.
LEMMA StepRefines ==
    ASSUME TypeOK, KeyInv, NEW a \in Attempt, Step(a) \/ Mishap(a)
    PROVE  [Keyed!Next]_(Keyed!vars)
<1>1. CASE ClaimKey(a)
  BY <1>1, ClaimRefines DEF ClaimKey, Silent
<1>2. CASE Save(a)
  BY <1>2, SaveRefines DEF Save
<1>3. CASE RollbackKey(a) \/ RollbackKeyFault(a)
  <2>1. CASE ReleaseKeyCall(a)
    BY <1>3, <2>1, ReleaseKeyRefines DEF RollbackKey, RollbackKeyFault
  <2>2. CASE NoEffect
    BY <1>3, <2>2, SilentRefines DEF RollbackKey, RollbackKeyFault, NoEffect, keyVars,
       historyVars, Silent
  <2> QED BY <1>3, <2>1, <2>2 DEF RollbackKey, RollbackKeyFault
<1>4. CASE \/ LookupExisting(a) \/ RejectInvalid(a) \/ ReserveBudget(a) \/ ClaimId(a)
           \/ TakeSlot(a) \/ Begin(a) \/ RollbackIdRead(a) \/ RollbackIdDelete(a)
           \/ TaskStarts(a) \/ TaskEnds(a) \/ TaskFault(a) \/ RollbackIdFault(a)
           \/ \E r \in Resource : Release(a, r) \/ ReleaseFault(a, r)
  <2>1. UNCHANGED <<idem, admitted, forgotten>>
    BY <1>4 DEF LookupExisting, RejectInvalid, ReserveBudget, ReserveCall, ClaimId, ClaimIdCall,
       TakeSlot, SlotCall, Begin, BeginCall, RollbackIdRead, RollbackIdDelete, DeleteClaimCall,
       TaskStarts, TaskEnds, TaskFault, RollbackIdFault, Release, ReleaseFault, ReleaseCall,
       NoEffect, keyVars, historyVars
  <2>2. Silent(a)
    BY <1>4 DEF Silent, LookupExisting, RejectInvalid, ReserveBudget, ClaimId, TakeSlot, Begin,
       RollbackIdRead, RollbackIdDelete, TaskStarts, TaskEnds, TaskFault, RollbackIdFault,
       Release, ReleaseFault
  <2> QED BY <2>1, <2>2, SilentRefines
<1>5. CASE AdmissionFault(a)
  <2>1. Silent(a)
    BY <1>5 DEF AdmissionFault, Silent
  <2>2. CASE ClaimKeyCall(a)
    BY <2>1, <2>2, ClaimRefines
  <2>3. CASE SaveCall(a)
    BY <1>5, <2>3, SaveRefines DEF AdmissionFault, Keyed!Unanswered
  <2>4. CASE ReserveCall(a) \/ ClaimIdCall(a) \/ SlotCall(a) \/ BeginCall(a) \/ NoEffect
    BY <2>1, <2>4, SilentRefines DEF ReserveCall, ClaimIdCall, SlotCall, BeginCall, NoEffect,
       keyVars, historyVars
  <2> QED BY <1>5, <2>2, <2>3, <2>4 DEF AdmissionFault, AdmissionCall
<1> QED BY <1>1, <1>2, <1>3, <1>4, <1>5 DEF Step, Mishap

(***************************************************************************)
(* Admission implements the promise of an idempotency key: what it is      *)
(* bound to, who is accepted under it and what its requests are answered.  *)
(***************************************************************************)
THEOREM AdmissionRefinement == Spec => ImplementsKeyedAdmission
<1>1. Init => Keyed!Init
  BY DEF Init, Keyed!Init
<1>2. TypeOK /\ KeyInv /\ [Next]_vars => [Keyed!Next]_(Keyed!vars)
  <2> SUFFICES ASSUME TypeOK, KeyInv, [Next]_vars
               PROVE  [Keyed!Next]_(Keyed!vars)
    OBVIOUS
  <2>1. ASSUME NEW a \in Attempt, Step(a) \/ Mishap(a)
        PROVE  [Keyed!Next]_(Keyed!vars)
    BY <2>1, StepRefines
  <2>2. ASSUME NEW k \in Key, KeyLapses(k)
        PROVE  Keyed!Forget(k)
    BY <2>2 DEF KeyLapses, Lapse, handlerVars, Keyed!Forget
  <2>3. CASE UNCHANGED <<idem, answer, admitted, forgotten>>
    BY <2>3 DEF Keyed!vars
  <2>4. CASE TimePasses
    <3>1. \/ \E k \in Key : KeyLapses(k)
          \/ UNCHANGED <<idem, answer, admitted, forgotten>>
      BY <2>4 DEF TimePasses, PendingLapses, IdClaimLapses, OwnerLapses, SlotLapses,
         LedgerLapses, Lapse, handlerVars, keyVars, historyVars
    <3> QED BY <2>2, <2>3, <3>1 DEF Keyed!Next
  <2>5. ASSUME NEW i \in Instance, Crash(i)
        PROVE  [Keyed!Next]_(Keyed!vars)
    BY <2>3, <2>5 DEF Crash, keyVars, historyVars
  <2>6. CASE UNCHANGED vars
    BY <2>3, <2>6 DEF vars, keyVars, handlerVars, historyVars
  <2> QED BY <2>1, <2>4, <2>5, <2>6 DEF Next
<1> QED BY <1>1, <1>2, KeyInvAlways, TypeCorrect, PTL
        DEF Spec, ImplementsKeyedAdmission, Keyed!Spec
=============================================================================
