------------------------------ MODULE Admission ------------------------------
(***************************************************************************)
(* start_research (app/api.py): how POST /v1/research turns a request into *)
(* one queued operation, and how a request that fails half way gives back  *)
(* what it took.  Each storage call is one atomic action; between two of   *)
(* them any other request, on this or another instance, may take steps.    *)
(*                                                                         *)
(* A request attempt a carries a key, an operation id and the amount it    *)
(* reserves (0 when the gateway accounts for it), and runs on one          *)
(* instance; its admission token is a itself.  st[a] is where the handler  *)
(* (and then the background task it spawned) stands, took[a] the resources *)
(* its local flags say it took and has not given back.                     *)
(*                                                                         *)
(* The background task appears with the steps that touch what admission    *)
(* shares with it: its writes of the record and the releases of its        *)
(* finally block.  Its heartbeat, cancellation and the reconciliation scan *)
(* are in ResearchTask.  Validation of the request and the gateway         *)
(* configuration are one choice, "rejected".                               *)
(***************************************************************************)
EXTENDS OperationStore, SpendLedger

CONSTANTS
    Attempt,           \* request attempts, each with a fresh admission token
    KeyOf, OpOf, HostOf, AmountOf,
    NoAttempt, NoOp,
    MayCrash,          \* the instances that may crash
    MaxFaults,         \* bound: storage calls that raise
    MaxLapses          \* bound: TTLs that pass

ASSUME AdmissionAssumption ==
    /\ KeyOf \in [Attempt -> Key]
    /\ OpOf \in [Attempt -> Op]
    /\ HostOf \in [Attempt -> Instance]
    /\ AmountOf \in [Attempt -> Amounts \cup {0}]
    /\ NoAttempt \notin Attempt
    /\ NoOp \notin Op
    /\ MayCrash \subseteq Instance
    /\ MaxFaults \in Nat
    /\ MaxLapses \in Nat

VARIABLES
    idem,              \* research:idempotency:<key>
    pending,           \* research:idempotency_pending:<key>: the admission token
    opClaims,          \* research:operation_claims:<op>
    st, took, answer,  \* the handler of each attempt
    admitted,          \* history: attempts whose operation record was written
    forgotten,         \* history: keys whose 24 h retention passed
    unleased,          \* history: operations whose owner lease ran out
    faults, lapses

keyVars == <<idem, pending, opClaims>>
handlerVars == <<st, took, answer>>
historyVars == <<admitted, forgotten, unleased>>
vars == <<storeVars, ledgerVars, keyVars, handlerVars, historyVars, faults, lapses>>

Metered(a) == AmountOf[a] # 0

\* Where a handler awaits a storage call on the way in, and later.
Admitting == {"new", "lookup", "admit", "claimId", "slot", "begin", "save"}
Tasking == {"queued", "running"}
State == Admitting \cup Tasking \cup {"unwind", "unclaim", "cleanup", "done", "crashed"}

Resource == {"key", "lease", "opId", "slot", "spend"}

TypeOK ==
    /\ StoreTypeOK
    /\ LedgerTypeOK
    /\ idem \in [Key -> Op \cup {NoOp}]
    /\ pending \in [Key -> Attempt \cup {NoAttempt}]
    /\ opClaims \in [Op -> Key \cup {NoKey}]
    /\ st \in [Attempt -> State]
    /\ took \in [Attempt -> SUBSET Resource]
    /\ answer \in [Attempt -> Op \cup {NoOp}]
    /\ admitted \subseteq Attempt
    /\ forgotten \subseteq Key
    /\ unleased \subseteq Op
    /\ faults \in 0..MaxFaults
    /\ lapses \in 0..MaxLapses

Init ==
    /\ StoreInit
    /\ LedgerInit
    /\ idem = [k \in Key |-> NoOp]
    /\ pending = [k \in Key |-> NoAttempt]
    /\ opClaims = [o \in Op |-> NoKey]
    /\ st = [a \in Attempt |-> "new"]
    /\ took = [a \in Attempt |-> {}]
    /\ answer = [a \in Attempt |-> NoOp]
    /\ admitted = {}
    /\ forgotten = {}
    /\ unleased = {}
    /\ faults = 0
    /\ lapses = 0

-----------------------------------------------------------------------------
(***************************************************************************)
(* The storage calls of the way in: what each changes, and on what its     *)
(* answer depends.                                                         *)
(***************************************************************************)
\* Mutants: only the admission lease protects a key; the script's operation id
\* and token arguments are swapped.
KeyTakenWhileLeased(k) == idem[k] # NoOp /\ pending[k] # NoAttempt

ClaimKeySwapped(a) ==
    /\ IF idem[KeyOf[a]] # NoOp
         THEN UNCHANGED keyVars
         ELSE /\ idem' = [idem EXCEPT ![KeyOf[a]] = a]
              /\ pending' = [pending EXCEPT ![KeyOf[a]] = OpOf[a]]
              /\ UNCHANGED opClaims
    /\ UNCHANGED <<storeVars, ledgerVars, historyVars>>

\* _CLAIM_IDEMPOTENCY_LUA returns the stored operation id when that
\* operation has a record or an admission lease on the key is live.
KeyTaken(k) == idem[k] # NoOp /\ (Persisted(idem[k]) \/ pending[k] # NoAttempt)

ClaimKeyCall(a) ==
    /\ IF KeyTaken(KeyOf[a])
         THEN UNCHANGED keyVars
         ELSE /\ idem' = [idem EXCEPT ![KeyOf[a]] = OpOf[a]]
              /\ pending' = [pending EXCEPT ![KeyOf[a]] = a]
              /\ UNCHANGED opClaims
    /\ UNCHANGED <<storeVars, ledgerVars, historyVars>>

ReserveCall(a) ==
    /\ ReserveSpend(OpOf[a], AmountOf[a])
    /\ UNCHANGED <<storeVars, keyVars, historyVars>>

\* claim_operation_id: refused to a key other than the recorded or claimed one.
IdClaimable(a) ==
    LET o == OpOf[a] IN
    /\ Persisted(o) => operations[o].key = KeyOf[a]
    /\ opClaims[o] \in {NoKey, KeyOf[a]}

ClaimIdCall(a) ==
    /\ opClaims' = IF IdClaimable(a) THEN [opClaims EXCEPT ![OpOf[a]] = KeyOf[a]] ELSE opClaims
    /\ UNCHANGED <<idem, pending, storeVars, ledgerVars, historyVars>>

SlotCall(a) ==
    /\ AcquireSlot(HostOf[a], OpOf[a])
    /\ UNCHANGED <<ledgerVars, keyVars, historyVars>>

BeginCall(a) ==
    /\ BeginOperation(HostOf[a], OpOf[a])
    /\ UNCHANGED <<ledgerVars, keyVars, historyVars>>

\* Mutant: the token is not compared.
StillNamed(a) == idem[KeyOf[a]] = OpOf[a]

\* _SAVE_ADMITTED_OPERATION_LUA: only while key and lease are still this
\* attempt's; writes the record and consumes the lease.
StillAdmitting(a) == idem[KeyOf[a]] = OpOf[a] /\ pending[KeyOf[a]] = a

SaveCall(a) ==
    /\ IF StillAdmitting(a)
         THEN /\ SaveQueued(OpOf[a], KeyOf[a])
              /\ pending' = [pending EXCEPT ![KeyOf[a]] = NoAttempt]
              /\ admitted' = admitted \cup {a}
         ELSE UNCHANGED <<storeVars, pending, admitted>>
    /\ UNCHANGED <<idem, opClaims, ledgerVars, forgotten, unleased>>

-----------------------------------------------------------------------------
(***************************************************************************)
(* The handler on the way in.                                              *)
(***************************************************************************)
Goto(a, s, res) ==
    /\ st' = [st EXCEPT ![a] = s]
    /\ took' = [took EXCEPT ![a] = res]

\* Leave through the except clause; _rollback_admission releases res.
Unwind(a, res) == Goto(a, IF res = {} THEN "done" ELSE "unwind", res)

\* Mutant: a request is told it is accepted once it has claimed its key.
ClaimKeyAnswered(a) ==
    /\ st[a] = "new"
    /\ ClaimKeyCall(a)
    /\ IF KeyTaken(KeyOf[a])
         THEN Goto(a, "lookup", {}) /\ answer' = [answer EXCEPT ![a] = idem[KeyOf[a]]]
         ELSE Goto(a, "admit", {"key"}) /\ answer' = [answer EXCEPT ![a] = OpOf[a]]
    /\ UNCHANGED <<faults, lapses>>

ClaimKey(a) ==
    /\ st[a] = "new"
    /\ ClaimKeyCall(a)
    /\ IF KeyTaken(KeyOf[a])
         THEN Goto(a, "lookup", {}) /\ answer' = [answer EXCEPT ![a] = idem[KeyOf[a]]]
         ELSE Goto(a, "admit", {"key"}) /\ UNCHANGED answer
    /\ UNCHANGED <<faults, lapses>>

\* get_operation of the existing id: its status is the answer, or 409.
LookupExisting(a) ==
    /\ st[a] = "lookup"
    /\ Goto(a, "done", {})
    /\ answer' = IF Persisted(answer[a]) THEN answer ELSE [answer EXCEPT ![a] = NoOp]
    /\ UNCHANGED <<storeVars, ledgerVars, keyVars, historyVars, faults, lapses>>

RejectInvalid(a) ==
    /\ st[a] = "admit"
    /\ Unwind(a, took[a])
    /\ UNCHANGED <<storeVars, ledgerVars, keyVars, answer, historyVars, faults, lapses>>

\* Work the gateway accounts for goes on without a reservation.
ReserveBudget(a) ==
    /\ st[a] = "admit" /\ Metered(a)
    /\ ReserveCall(a)
    /\ IF ReserveGranted(OpOf[a], AmountOf[a])
         THEN Goto(a, "claimId", took[a] \cup {"spend"})
         ELSE Unwind(a, took[a])
    /\ UNCHANGED <<answer, faults, lapses>>

IdStep(a) == st[a] = "claimId" \/ (st[a] = "admit" /\ ~Metered(a))

ClaimId(a) ==
    /\ IdStep(a)
    /\ ClaimIdCall(a)
    /\ IF IdClaimable(a) THEN Goto(a, "slot", took[a] \cup {"opId"}) ELSE Unwind(a, took[a])
    /\ UNCHANGED <<answer, faults, lapses>>

TakeSlot(a) ==
    /\ st[a] = "slot"
    /\ SlotCall(a)
    /\ IF SlotFree THEN Goto(a, "begin", took[a] \cup {"slot"}) ELSE Unwind(a, took[a])
    /\ UNCHANGED <<answer, faults, lapses>>

Begin(a) ==
    /\ st[a] = "begin"
    /\ BeginCall(a)
    /\ IF CanBegin(OpOf[a]) THEN Goto(a, "save", took[a] \cup {"lease"}) ELSE Unwind(a, took[a])
    /\ UNCHANGED <<answer, faults, lapses>>

\* On success the best-effort progress event follows, and then, without an
\* await, the background task is spawned: it inherits spend, lease and slot.
Save(a) ==
    /\ st[a] = "save"
    /\ SaveCall(a)
    /\ IF StillAdmitting(a)
         THEN /\ Goto(a, "queued", took[a] \ {"key", "opId"})
              /\ answer' = [answer EXCEPT ![a] = OpOf[a]]
         ELSE Unwind(a, took[a]) /\ UNCHANGED answer
    /\ UNCHANGED <<faults, lapses>>

-----------------------------------------------------------------------------
(***************************************************************************)
(* _rollback_admission: the key first; a same-operation successor on the   *)
(* key keeps everything; otherwise lease, operation claim, slot and spend, *)
(* each whatever became of the one before.                                 *)
(***************************************************************************)
RollbackOrder == <<"key", "lease", "opId", "slot", "spend">>
CleanupOrder == <<"spend", "lease", "slot">>

\* r is the first resource of the order that a still has to give back.
IsNext(a, r, order) ==
    /\ r \in took[a]
    /\ \E n \in DOMAIN order :
         /\ order[n] = r
         /\ \A m \in 1..(n - 1) : order[m] \notin took[a]

\* Mutant: any rollback of the same operation deletes the key.
ReleaseNamedKey(a) ==
    LET k == KeyOf[a] IN
    /\ IF idem[k] = OpOf[a]
         THEN /\ idem' = [idem EXCEPT ![k] = NoOp]
              /\ pending' = [pending EXCEPT ![k] = NoAttempt]
              /\ UNCHANGED opClaims
         ELSE UNCHANGED keyVars
    /\ UNCHANGED <<storeVars, ledgerVars, historyVars>>

\* _RELEASE_IDEMPOTENCY_LUA deletes key and lease only under a's own token.
ReleaseKeyCall(a) ==
    LET k == KeyOf[a] IN
    /\ IF StillAdmitting(a)
         THEN /\ idem' = [idem EXCEPT ![k] = NoOp]
              /\ pending' = [pending EXCEPT ![k] = NoAttempt]
              /\ UNCHANGED opClaims
         ELSE UNCHANGED keyVars
    /\ UNCHANGED <<storeVars, ledgerVars, historyVars>>

\* Mutant: the answer of the release is misread, nothing else is released.
RollbackKeyOnly(a) ==
    /\ st[a] = "unwind" /\ IsNext(a, "key", RollbackOrder)
    /\ ReleaseKeyCall(a)
    /\ Goto(a, "done", {})
    /\ UNCHANGED <<answer, faults, lapses>>

RollbackKey(a) ==
    /\ st[a] = "unwind" /\ IsNext(a, "key", RollbackOrder)
    /\ ReleaseKeyCall(a)
    /\ IF idem'[KeyOf[a]] = OpOf[a]
         THEN Goto(a, "done", {})
         ELSE Unwind(a, took[a] \ {"key"})
    /\ UNCHANGED <<answer, faults, lapses>>

\* release_operation_id reads the claim, and deletes it in a second call.
RollbackIdRead(a) ==
    /\ st[a] = "unwind" /\ IsNext(a, "opId", RollbackOrder)
    /\ IF opClaims[OpOf[a]] = KeyOf[a]
         THEN Goto(a, "unclaim", took[a])
         ELSE Unwind(a, took[a] \ {"opId"})
    /\ UNCHANGED <<storeVars, ledgerVars, keyVars, answer, historyVars, faults, lapses>>

DeleteClaimCall(a) ==
    /\ opClaims' = [opClaims EXCEPT ![OpOf[a]] = NoKey]
    /\ UNCHANGED <<idem, pending, storeVars, ledgerVars, historyVars>>

RollbackIdDelete(a) ==
    /\ st[a] = "unclaim"
    /\ DeleteClaimCall(a)
    /\ Unwind(a, took[a] \ {"opId"})
    /\ UNCHANGED <<answer, faults, lapses>>

\* The releases that rollback and the task's finally block share.
ReleaseCall(a, r) ==
    /\ \/ /\ r = "lease"
          /\ ReleaseOperationLease(HostOf[a], OpOf[a])
          /\ UNCHANGED ledgerVars
       \/ /\ r = "slot"
          /\ ReleaseSlot(HostOf[a], OpOf[a])
          /\ UNCHANGED ledgerVars
       \/ /\ r = "spend"
          /\ ReleaseSpend(OpOf[a])
          /\ UNCHANGED storeVars
    /\ UNCHANGED <<keyVars, historyVars>>

Releasing(a, r) ==
    \/ st[a] = "unwind" /\ IsNext(a, r, RollbackOrder)
    \/ st[a] = "cleanup" /\ IsNext(a, r, CleanupOrder)

Drop(a, r) ==
    Goto(a, IF took[a] = {r} THEN "done" ELSE st[a], took[a] \ {r})

Release(a, r) ==
    /\ Releasing(a, r)
    /\ ReleaseCall(a, r)
    /\ Drop(a, r)
    /\ UNCHANGED <<answer, faults, lapses>>

-----------------------------------------------------------------------------
(***************************************************************************)
(* The background task: save "running", save one terminal status (or none, *)
(* when the lease was lost or the save raised), then its finally block.    *)
(* The reconcile of a finished result and the release of an unfinished one *)
(* do the same to the ledger, since the observed cost is 0.                *)
(***************************************************************************)
TaskStarts(a) ==
    /\ st[a] = "queued"
    /\ SaveOperation(OpOf[a], "running")
    /\ Goto(a, "running", took[a])
    /\ UNCHANGED <<ledgerVars, keyVars, answer, historyVars, faults, lapses>>

TaskEnds(a) ==
    /\ st[a] \in Tasking
    /\ \/ \E status \in TerminalStatus : SaveOperation(OpOf[a], status)
       \/ /\ st[a] = "running" /\ ~TouchSucceeds(HostOf[a], OpOf[a])
          /\ UNCHANGED storeVars
    /\ Goto(a, "cleanup", took[a])
    /\ UNCHANGED <<ledgerVars, keyVars, answer, historyVars, faults, lapses>>

-----------------------------------------------------------------------------
(***************************************************************************)
(* A storage call raises (connection error): it took effect or it did not, *)
(* and the handler cannot tell.  On the way in that leads to the rollback  *)
(* with the flag of that call unset; a rollback that cannot release its    *)
(* key returns at once; any other release is skipped.                      *)
(***************************************************************************)
AdmissionCall(a) ==
    \/ st[a] = "new" /\ ClaimKeyCall(a)
    \/ st[a] = "admit" /\ Metered(a) /\ ReserveCall(a)
    \/ IdStep(a) /\ ClaimIdCall(a)
    \/ st[a] = "slot" /\ SlotCall(a)
    \/ st[a] = "begin" /\ BeginCall(a)
    \/ st[a] = "save" /\ SaveCall(a)

NoEffect == UNCHANGED <<storeVars, ledgerVars, keyVars, historyVars>>

Faulty == faults < MaxFaults /\ faults' = faults + 1 /\ UNCHANGED lapses

AdmissionFault(a) ==
    /\ Faulty
    /\ st[a] \in Admitting
    /\ AdmissionCall(a) \/ NoEffect
    /\ Unwind(a, took[a])
    /\ answer' = [answer EXCEPT ![a] = NoOp]

RollbackKeyFault(a) ==
    /\ Faulty
    /\ st[a] = "unwind" /\ IsNext(a, "key", RollbackOrder)
    /\ ReleaseKeyCall(a) \/ NoEffect
    /\ Goto(a, "done", {})
    /\ UNCHANGED answer

RollbackIdFault(a) ==
    /\ Faulty
    /\ \/ st[a] = "unwind" /\ IsNext(a, "opId", RollbackOrder) /\ NoEffect
       \/ st[a] = "unclaim" /\ (DeleteClaimCall(a) \/ NoEffect)
    /\ Unwind(a, took[a] \ {"opId"})
    /\ UNCHANGED answer

ReleaseFault(a, r) ==
    /\ Faulty
    /\ Releasing(a, r)
    /\ ReleaseCall(a, r) \/ NoEffect
    /\ Drop(a, r)
    /\ UNCHANGED answer

\* The task's own writes raise, the one of the failed status included.
TaskFault(a) ==
    /\ Faulty
    /\ st[a] \in Tasking
    /\ (\E status \in TerminalStatus : SaveOperation(OpOf[a], status)) \/ UNCHANGED storeVars
    /\ Goto(a, "cleanup", took[a])
    /\ UNCHANGED <<ledgerVars, keyVars, answer, historyVars>>

\* An instance dies with all its handlers and tasks; a restart has a new
\* identity and is another instance.
Crash(i) ==
    /\ i \in MayCrash
    /\ \E a \in Attempt : HostOf[a] = i /\ st[a] \notin {"done", "crashed"}
    /\ st' = [a \in Attempt |->
                IF HostOf[a] = i /\ st[a] # "done" THEN "crashed" ELSE st[a]]
    /\ took' = [a \in Attempt |-> IF HostOf[a] = i THEN {} ELSE took[a]]
    /\ UNCHANGED <<storeVars, ledgerVars, keyVars, answer, historyVars, faults, lapses>>

-----------------------------------------------------------------------------
(***************************************************************************)
(* Time.  A handler can stall between any two calls for longer than the    *)
(* 30 s of the admission lease, and its instance for longer than the lease *)
(* TTL (at least 30 s).  The retention of a key passes 24 h after it was   *)
(* claimed, when its admission lease is long gone.                         *)
(***************************************************************************)
Lapse == lapses < MaxLapses /\ lapses' = lapses + 1 /\ UNCHANGED <<handlerVars, faults>>

PendingLapses(k) ==
    /\ Lapse
    /\ pending[k] # NoAttempt
    /\ pending' = [pending EXCEPT ![k] = NoAttempt]
    /\ UNCHANGED <<idem, opClaims, storeVars, ledgerVars, historyVars>>

KeyLapses(k) ==
    /\ Lapse
    /\ idem[k] # NoOp /\ pending[k] = NoAttempt
    /\ idem' = [idem EXCEPT ![k] = NoOp]
    /\ forgotten' = forgotten \cup {k}
    /\ UNCHANGED <<pending, opClaims, storeVars, ledgerVars, admitted, unleased>>

IdClaimLapses(o) ==
    /\ Lapse
    /\ opClaims[o] # NoKey
    /\ opClaims' = [opClaims EXCEPT ![o] = NoKey]
    /\ UNCHANGED <<idem, pending, storeVars, ledgerVars, historyVars>>

OwnerLapses(o) ==
    /\ Lapse
    /\ LeaseExpires(o)
    /\ unleased' = unleased \cup {o}
    /\ UNCHANGED <<ledgerVars, keyVars, admitted, forgotten>>

SlotLapses(m) ==
    /\ Lapse
    /\ SlotExpires(m)
    /\ UNCHANGED <<ledgerVars, keyVars, historyVars>>

LedgerLapses ==
    /\ Lapse
    /\ WindowExpires \/ HoldsExpire
    /\ UNCHANGED <<storeVars, keyVars, historyVars>>

-----------------------------------------------------------------------------
Step(a) ==
    \/ ClaimKey(a) \/ LookupExisting(a) \/ RejectInvalid(a)
    \/ ReserveBudget(a) \/ ClaimId(a) \/ TakeSlot(a) \/ Begin(a) \/ Save(a)
    \/ RollbackKey(a) \/ RollbackIdRead(a) \/ RollbackIdDelete(a)
    \/ \E r \in Resource : Release(a, r)
    \/ TaskStarts(a) \/ TaskEnds(a)

Mishap(a) ==
    \/ AdmissionFault(a) \/ RollbackKeyFault(a) \/ RollbackIdFault(a) \/ TaskFault(a)
    \/ \E r \in Resource : ReleaseFault(a, r)

TimePasses ==
    \/ \E k \in Key : PendingLapses(k) \/ KeyLapses(k)
    \/ \E o \in Op : IdClaimLapses(o) \/ OwnerLapses(o)
    \/ \E m \in Slot : SlotLapses(m)
    \/ LedgerLapses

Next ==
    \/ \E a \in Attempt : Step(a) \/ Mishap(a)
    \/ \E i \in Instance : Crash(i)
    \/ TimePasses

Spec == Init /\ [][Next]_vars

-----------------------------------------------------------------------------
(***************************************************************************)
(* One admission per idempotency key: of all the requests that carry one   *)
(* key, on every instance, through retries, lost answers, crashes and      *)
(* expired admission leases, at most one has its operation recorded - as   *)
(* long as the 24 h retention of the key has not passed.                   *)
(***************************************************************************)
OneAdmissionPerKey ==
    \A a, b \in admitted :
        KeyOf[a] = KeyOf[b] /\ KeyOf[a] \notin forgotten => a = b

(***************************************************************************)
(* A rollback never unbinds a key from work that was admitted under it: a  *)
(* late or repeated rollback holds a token, and the token was consumed.    *)
(***************************************************************************)
AdmittedKeysStayBound ==
    [][\A a \in admitted :
          KeyOf[a] \notin forgotten' => idem'[KeyOf[a]] = OpOf[a]]_vars

(***************************************************************************)
(* "A retry of already-accepted work must resolve to its existing          *)
(* operation": seen by its clients, a key goes through KeyedAdmission.     *)
(* That is the two promises above, and what the attempts are answered:     *)
(* once an attempt was admitted, a retry that finds the key finds that     *)
(* operation, also when the answer to the admitted one was lost.           *)
(***************************************************************************)
Keyed == INSTANCE KeyedAdmission WITH bound <- idem, accepted <- admitted, resolved <- answer

ImplementsKeyedAdmission == Keyed!Spec

(***************************************************************************)
(* The service-wide ceiling: the sorted set never has more members than    *)
(* MAX_CONCURRENT_OPS, expired and unreaped ones included.                 *)
(***************************************************************************)
SlotsWithinCeiling == Cardinality(slots \cup lapsedSlots) <= MaxConcurrentOps

(***************************************************************************)
(* Two tasks never execute one operation at a time, on any two instances,  *)
(* unless its owner lease ran out: SET NX on the owner key keeps the       *)
(* second one out even when rollbacks of other requests have taken the id  *)
(* claim, the slot and the hold of the first one away.                     *)
(***************************************************************************)
NoConcurrentExecution ==
    \A a, b \in Attempt :
        /\ st[a] \in Tasking /\ st[b] \in Tasking
        /\ OpOf[a] = OpOf[b] /\ OpOf[a] \notin unleased
        => a = b

(***************************************************************************)
(* Once every handler and task is through, a request that was rejected,    *)
(* rolled back or finished has left nothing behind: no slot, no owner      *)
(* lease, no admission lease, no spend hold.  Only as long as no storage   *)
(* call raised, no TTL passed and no instance died: those leave what they  *)
(* leave to the TTLs.                                                      *)
(***************************************************************************)
AllThrough == faults = 0 /\ lapses = 0 /\ \A a \in Attempt : st[a] = "done"

NothingLeft ==
    AllThrough =>
        /\ slots = {}
        /\ \A o \in Op : owners[o] = NoInstance /\ ~CurrentHold(o)
        /\ \A k \in Key : pending[k] = NoAttempt

-----------------------------------------------------------------------------
(***************************************************************************)
(* What a reply of the code says and what it does not always do.           *)
(***************************************************************************)
\* "operationId is already associated with a different idempotency key" refuses
\* a request: an operation recorded under one key is never recorded again under
\* another.
RecordKeepsItsKey ==
    [][\A o \in Op : Persisted(o) => operations'[o].key = operations[o].key]_vars
=============================================================================
