--------------------------- MODULE OperationStore ---------------------------
(***************************************************************************)
(* The part of the Redis backend of app/storage.py that admission, the     *)
(* running task and the reconciliation scan share: the operation records,  *)
(* the index of active operations, the owner leases and the concurrency    *)
(* slots.  A Lua script or a single command is one atomic action here.     *)
(*                                                                         *)
(* A record is its status and the idempotency key it was admitted under.   *)
(* save_operation reads, merges and writes back in two round trips; its    *)
(* callers always set the status and never the key, so on this record the  *)
(* write-back is the whole effect.                                         *)
(***************************************************************************)
EXTENDS Naturals, FiniteSets, Operations

CONSTANTS
    Key,             \* idempotency keys
    Instance,        \* service instances (one _InstanceIdentity each)
    MaxConcurrentOps,
    NoKey, NoInstance

ASSUME StoreAssumption ==
    /\ MaxConcurrentOps \in Nat \ {0}
    /\ NoKey \notin Key
    /\ NoInstance \notin Instance

VARIABLES
    operations,      \* research:operations
    activeOps,       \* research:active_ops
    owners,          \* research:owners:<op>, NoInstance when absent or expired
    slots,           \* research:concurrency:slots, score in the future
    lapsedSlots      \* the members whose score has passed, not yet reaped

storeVars == <<operations, activeOps, owners, slots, lapsedSlots>>

ActiveStatus == {"queued", "running"}
TerminalStatus == {"completed", "partial", "failed", "cancelled"}
Status == ActiveStatus \cup TerminalStatus \cup {"absent"}

Record == [status : Status, key : Key \cup {NoKey}]
NoRecord == [status |-> "absent", key |-> NoKey]

\* lease_id(op): the sorted-set member names the instance and the operation.
Slot == Instance \X Op

StoreTypeOK ==
    /\ operations \in [Op -> Record]
    /\ activeOps \subseteq Op
    /\ owners \in [Op -> Instance \cup {NoInstance}]
    /\ slots \subseteq Slot
    /\ lapsedSlots \subseteq Slot

StoreInit ==
    /\ operations = [o \in Op |-> NoRecord]
    /\ activeOps = {}
    /\ owners = [o \in Op |-> NoInstance]
    /\ slots = {}
    /\ lapsedSlots = {}

Persisted(o) == operations[o].status # "absent"
StatusOf(o) == operations[o].status
Active(o) == StatusOf(o) \in ActiveStatus
Terminal(o) == StatusOf(o) \in TerminalStatus

-----------------------------------------------------------------------------
\* _SAVE_OPERATION_LUA: the record and its index membership in one step.
SaveOperation(o, status) ==
    /\ operations' = [operations EXCEPT ![o].status = status]
    /\ activeOps' = IF status \in ActiveStatus THEN activeOps \cup {o} ELSE activeOps \ {o}
    /\ UNCHANGED <<owners, slots, lapsedSlots>>

\* The write of _SAVE_ADMITTED_OPERATION_LUA (its token test is in Admission).
SaveQueued(o, key) ==
    /\ operations' = [operations EXCEPT ![o] = [status |-> "queued", key |-> key]]
    /\ activeOps' = activeOps \cup {o}
    /\ UNCHANGED <<owners, slots, lapsedSlots>>

\* _FAIL_IF_UNOWNED_LUA, without the later removal from the index.
\* Mutants: no owner test, no status test, queued work forgotten.
CanFailOwned(o) == Active(o)
CanFailEnded(o) == owners[o] = NoInstance
CanFailRunning(o) == owners[o] = NoInstance /\ StatusOf(o) = "running"

CanFailUnowned(o) == owners[o] = NoInstance /\ Active(o)

FailIfUnowned(o) ==
    /\ operations' = IF CanFailUnowned(o)
                       THEN [operations EXCEPT ![o].status = "failed"]
                       ELSE operations
    /\ UNCHANGED <<activeOps, owners, slots, lapsedSlots>>

RemoveActive(o) ==
    /\ activeOps' = activeOps \ {o}
    /\ UNCHANGED <<operations, owners, slots, lapsedSlots>>

-----------------------------------------------------------------------------
\* begin_operation: SET NX on the owner key.
\* Mutant: SET without NX.
CanBeginAlways(o) == TRUE

CanBegin(o) == owners[o] = NoInstance

BeginOperation(i, o) ==
    /\ owners' = IF CanBegin(o) THEN [owners EXCEPT ![o] = i] ELSE owners
    /\ UNCHANGED <<operations, activeOps, slots, lapsedSlots>>

\* _CAD_LUA: delete the owner key only while it still names this instance.
ReleaseOperationLease(i, o) ==
    /\ owners' = IF owners[o] = i THEN [owners EXCEPT ![o] = NoInstance] ELSE owners
    /\ UNCHANGED <<operations, activeOps, slots, lapsedSlots>>

\* _ACQUIRE_SLOT_LUA: reap what has expired, then admit below the ceiling.
\* Mutant: one too many.
SlotFreeAtCeiling == Cardinality(slots) <= MaxConcurrentOps

SlotFree == Cardinality(slots) < MaxConcurrentOps

AcquireSlot(i, o) ==
    /\ lapsedSlots' = {}
    /\ slots' = IF SlotFree THEN slots \cup {<<i, o>>} ELSE slots
    /\ UNCHANGED <<operations, activeOps, owners>>

\* release_concurrency_slot: ZREM of the member, expired or not.
ReleaseSlot(i, o) ==
    /\ slots' = slots \ {<<i, o>>}
    /\ lapsedSlots' = lapsedSlots \ {<<i, o>>}
    /\ UNCHANGED <<operations, activeOps, owners>>

(***************************************************************************)
(* _RENEW_LUA: touch_operation answers TRUE only when the lease is ours    *)
(* and the slot member is still there.  A member whose score has passed    *)
(* but which nobody reaped is still there, and is revived.                 *)
(***************************************************************************)
TouchSucceeds(i, o) == owners[o] = i /\ <<i, o>> \in slots \cup lapsedSlots

TouchOperation(i, o) ==
    /\ IF TouchSucceeds(i, o)
         THEN /\ slots' = slots \cup {<<i, o>>}
              /\ lapsedSlots' = lapsedSlots \ {<<i, o>>}
         ELSE UNCHANGED <<slots, lapsedSlots>>
    /\ UNCHANGED <<operations, activeOps, owners>>

\* Mutants: keys written without an expiry.
LeaseNeverExpires(o) == FALSE /\ UNCHANGED storeVars
SlotNeverExpires(m) == FALSE /\ UNCHANGED storeVars

\* The TTL of an owner lease, and the score of a slot, pass.
LeaseExpires(o) ==
    /\ owners[o] # NoInstance
    /\ owners' = [owners EXCEPT ![o] = NoInstance]
    /\ UNCHANGED <<operations, activeOps, slots, lapsedSlots>>

SlotExpires(m) ==
    /\ m \in slots
    /\ slots' = slots \ {m}
    /\ lapsedSlots' = lapsedSlots \cup {m}
    /\ UNCHANGED <<operations, activeOps, owners>>
=============================================================================
