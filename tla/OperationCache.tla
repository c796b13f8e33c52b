--------------------------- MODULE OperationCache ---------------------------
(***************************************************************************)
(* The single-process backend, InMemoryStorage (app/storage.py), under     *)
(* start_research and the background task: bounded maps of operations,     *)
(* idempotency keys and operation-id claims, each ordered by age, the      *)
(* owners and the slots.  Its methods never suspend, so a request runs     *)
(* from claim to answer, rollback included, in one step; the task suspends *)
(* between its steps.  The startup scan finds nothing: the maps start      *)
(* empty.  The event lists are in EventStream.                             *)
(***************************************************************************)
EXTENDS Naturals, FiniteSets, SequencesExt

CONSTANTS
    Op, Key, NoKey,
    CacheLimit,        \* OPERATION_CACHE_LIMIT
    ReservationLimit,  \* IDEMPOTENCY_RESERVATION_LIMIT
    MaxConcurrentOps,
    Limit, Amounts,    \* the daily ceiling, what requests reserve (0: unmetered)
    MaxTasks           \* bound: requests admitted

ASSUME CacheAssumption ==
    /\ CacheLimit \in Nat \ {0}
    /\ ReservationLimit \in Nat \ {0}
    /\ MaxConcurrentOps \in Nat \ {0}
    /\ Limit \in Nat /\ Amounts \subseteq Nat
    /\ IsFiniteSet(Op)
    /\ NoKey \notin Key
    /\ MaxTasks \in Nat

VARIABLES
    operations,        \* the cached operations, oldest save first
    keys,              \* idempotency_keys: [key, op], oldest first
    claims,            \* operation_claims: [key, op], oldest first
    owners, slots,     \* operation_owners, _concurrency_slots
    spent, reserved,   \* _daily_spend_usd, _spend_reservations (0: none)
    tasks,             \* one background task per admitted request
    forgotten,         \* history: operations that lost a key or a claim to a bound
    late               \* history: operations evicted before their task gave the lease back

ledger == <<spent, reserved>>
vars == <<operations, keys, claims, owners, slots, ledger, tasks, forgotten, late>>

Live == {"queued", "running"}
Terminal == "terminal"     \* any of the four
Entry == [op : Op, key : Key \cup {NoKey}, status : Live \cup {Terminal}]
Binding == [op : Op, key : Key]

TypeOK ==
    /\ operations \in Seq(Entry)
    /\ keys \in Seq(Binding) /\ Len(keys) <= ReservationLimit
    /\ claims \in Seq(Binding) /\ Len(claims) <= ReservationLimit
    /\ owners \subseteq Op
    /\ slots \subseteq Op
    /\ spent \in 0..Limit
    /\ reserved \in [Op -> Amounts \cup {0}]
    /\ tasks \in Seq([op : Op, key : Key, amount : Amounts,
                       at : {"queued", "running", "holding", "ended", "released", "done"}])
    /\ forgotten \subseteq Op
    /\ late \subseteq Op

Init ==
    /\ operations = <<>> /\ keys = <<>> /\ claims = <<>>
    /\ owners = {} /\ slots = {} /\ tasks = <<>>
    /\ spent = 0 /\ reserved = [o \in Op |-> 0]
    /\ forgotten = {} /\ late = {}

-----------------------------------------------------------------------------
Cached(o) == \E e \in ToSet(operations) : e.op = o
EntryOf(o) == CHOOSE e \in ToSet(operations) : e.op = o
KeyBound(k) == \E b \in ToSet(keys) : b.key = k
OpClaimed(o) == \E b \in ToSet(claims) : b.op = o

\* pop of the members that are in gone; the others keep their order.  (Their
\* new places are counted, where SelectSeq would recurse.)
Without(seq, gone) ==
    LET kept == {n \in DOMAIN seq : seq[n] \notin gone}
        place(n) == Cardinality({m \in kept : m <= n})
    IN [i \in 1..Cardinality(kept) |-> seq[CHOOSE n \in kept : place(n) = i]]

EntriesOf(ops) == [op : ops, key : Key \cup {NoKey}, status : Live \cup {Terminal}]
BindingsOfKey(k) == [op : Op, key : {k}]
BindingsOfOp(o) == [op : {o}, key : Key]

\* popitem(last=False) while the map is over its bound.
Newest(seq, n) == IF Len(seq) <= n THEN seq ELSE SubSeq(seq, Len(seq) - n + 1, Len(seq))

\* Mutant: live operations go as well.
EvictedAny(seq) ==
    {seq[n].op : n \in {m \in DOMAIN seq : m + CacheLimit <= Len(seq)}}

\* _evict_if_needed: the oldest terminal operations go until the cache fits.
Evicted(seq) ==
    LET ended(n) == seq[n].status \notin Live
        age(n) == Cardinality({m \in 1..n : ended(m)})
    IN {seq[n].op : n \in {m \in DOMAIN seq : ended(m) /\ age(m) + CacheLimit <= Len(seq)}}

\* save_operation: replace, move to the end, evict.
SaveOperation(e, owned) ==
    LET saved == Append(Without(operations, EntriesOf({e.op})), e)
        gone == Evicted(saved)
    IN /\ operations' = Without(saved, EntriesOf(gone))
       /\ owners' = owned \ gone
       /\ late' = late \cup {o \in gone : \E n \in DOMAIN tasks' :
                                 tasks'[n].op = o /\ tasks'[n].at \in {"holding", "ended"}}

-----------------------------------------------------------------------------
(***************************************************************************)
(* The spend counter; what is no longer reserved is not given back again.  *)
(* A new day is noticed at the next call and drops everything.             *)
(***************************************************************************)
CanReserve(o, amount) == amount = 0 \/ reserved[o] # 0 \/ spent + amount <= Limit

ReserveSpend(o, amount) ==
    IF amount = 0 \/ reserved[o] # 0 THEN UNCHANGED ledger
    ELSE /\ spent' = spent + amount
         /\ reserved' = [reserved EXCEPT ![o] = amount]

\* Mutant: the reservation stays.
KeepReservation(o, amount) ==
    IF amount = 0 \/ reserved[o] = 0 THEN UNCHANGED ledger
    ELSE /\ spent' = IF reserved[o] <= spent THEN spent - reserved[o] ELSE 0
         /\ UNCHANGED reserved

\* release_daily_spend, and reconcile_daily_spend with a cost of 0.
ReleaseSpend(o, amount) ==
    IF amount = 0 \/ reserved[o] = 0 THEN UNCHANGED ledger
    ELSE /\ spent' = IF reserved[o] <= spent THEN spent - reserved[o] ELSE 0
         /\ reserved' = [reserved EXCEPT ![o] = 0]

ResetSpendWindow ==
    /\ spent' = 0
    /\ reserved' = [o \in Op |-> 0]
    /\ UNCHANGED <<operations, keys, claims, owners, slots, tasks, forgotten, late>>

-----------------------------------------------------------------------------
(***************************************************************************)
(* start_research.  Claiming the key may push the oldest reservation out,  *)
(* and that stays so when the request is then refused.                     *)
(***************************************************************************)
ClaimedKeys(k, o) == Newest(Append(keys, [op |-> o, key |-> k]), ReservationLimit)
ClaimedIds(k, o) ==
    IF OpClaimed(o) THEN claims
    ELSE Newest(Append(claims, [op |-> o, key |-> k]), ReservationLimit)

\* claim_operation_id.  A cached operation without a key refuses nobody.
IdClaimable(k, o) ==
    IF OpClaimed(o)
      THEN [op |-> o, key |-> k] \in ToSet(claims)
      ELSE Cached(o) => EntryOf(o).key \in {k, NoKey}

Lost(old, new) == {b.op : b \in ToSet(old) \ ToSet(new)}

\* Mutant: the id claim is released although another key holds it.
RefuseEarlyReleasesId(k, o) ==
    /\ ~KeyBound(k)
    /\ keys' = Without(ClaimedKeys(k, o), BindingsOfKey(k))
    /\ claims' = Without(claims, BindingsOfOp(o))
    /\ forgotten' = forgotten \cup Lost(keys, keys')
    /\ UNCHANGED <<operations, owners, slots, ledger, tasks, late>>

\* _rollback_admission of the key alone; refused by validation or the budget.
RefuseEarly(k, o) ==
    /\ ~KeyBound(k)
    /\ keys' = Without(ClaimedKeys(k, o), BindingsOfKey(k))
    /\ forgotten' = forgotten \cup Lost(keys, keys')
    /\ UNCHANGED <<operations, claims, owners, slots, ledger, tasks, late>>

\* ... of key and hold; refused by an id that another key claims.
RefuseId(k, o, amount) ==
    /\ ~KeyBound(k) /\ CanReserve(o, amount) /\ ~IdClaimable(k, o)
    /\ keys' = Without(ClaimedKeys(k, o), BindingsOfKey(k))
    /\ forgotten' = forgotten \cup Lost(keys, keys')
    /\ ReleaseSpend(o, amount)
    /\ UNCHANGED <<operations, claims, owners, slots, tasks, late>>

\* ... of key, id claim, hold and, when it was the owner that refused, slot.
RefuseLate(k, o, amount) ==
    /\ ~KeyBound(k) /\ CanReserve(o, amount) /\ IdClaimable(k, o)
    /\ \/ Cardinality(slots) >= MaxConcurrentOps /\ UNCHANGED slots
       \/ Cardinality(slots) < MaxConcurrentOps /\ o \in owners /\ slots' = slots \ {o}
    /\ keys' = Without(ClaimedKeys(k, o), BindingsOfKey(k))
    /\ claims' = Without(ClaimedIds(k, o), BindingsOfOp(o))
    /\ forgotten' = forgotten \cup Lost(keys, keys') \cup Lost(claims, claims')
    /\ ReleaseSpend(o, amount)
    /\ UNCHANGED <<operations, owners, tasks, late>>

\* begin_operation.  Mutant: the owner is not consulted.
BeginAlways(o) == TRUE
CanBegin(o) == o \notin owners

Admit(k, o, amount) ==
    /\ Len(tasks) < MaxTasks
    /\ ~KeyBound(k) /\ CanReserve(o, amount) /\ IdClaimable(k, o)
    /\ Cardinality(slots) < MaxConcurrentOps
    /\ CanBegin(o)
    /\ ReserveSpend(o, amount)
    /\ keys' = ClaimedKeys(k, o)
    /\ claims' = ClaimedIds(k, o)
    /\ slots' = slots \cup {o}
    /\ tasks' = Append(tasks, [op |-> o, key |-> k, amount |-> amount, at |-> "queued"])
    /\ SaveOperation([op |-> o, key |-> k, status |-> "queued"], owners \cup {o})
    /\ forgotten' = forgotten \cup Lost(keys, keys') \cup Lost(claims, claims')

-----------------------------------------------------------------------------
(***************************************************************************)
(* The background task of one admitted request.                            *)
(***************************************************************************)
Moves(n, at) == tasks' = [tasks EXCEPT ![n].at = at]

\* A task saves no key: the save merges what it writes into the cached
\* operation, and begins a new one when that was evicted.
KeyKept(o) == IF Cached(o) THEN EntryOf(o).key ELSE NoKey

TaskWrites(n, status) ==
    LET o == tasks[n].op IN
    SaveOperation([op |-> o, key |-> KeyKept(o), status |-> status], owners)

Run(n) ==
    /\ tasks[n].at = "queued"
    /\ Moves(n, "running")
    /\ TaskWrites(n, "running")
    /\ UNCHANGED <<keys, claims, slots, ledger, forgotten>>

\* A result is saved and the hold reconciled.
Succeed(n) ==
    /\ tasks[n].at = "running"
    /\ Moves(n, "ended")
    /\ TaskWrites(n, Terminal)
    /\ ReleaseSpend(tasks[n].op, tasks[n].amount)
    /\ UNCHANGED <<keys, claims, slots, forgotten>>

\* A handler saves; the hold is left for the finally block.
Fail(n) ==
    /\ tasks[n].at \in {"queued", "running"}
    /\ Moves(n, IF tasks[n].amount = 0 THEN "ended" ELSE "holding")
    /\ TaskWrites(n, Terminal)
    /\ UNCHANGED <<keys, claims, slots, ledger, forgotten>>

ReleaseHold(n) ==
    /\ tasks[n].at = "holding"
    /\ ReleaseSpend(tasks[n].op, tasks[n].amount)
    /\ Moves(n, "ended")
    /\ UNCHANGED <<operations, keys, claims, owners, slots, forgotten, late>>

ReleaseLease(n) ==
    /\ tasks[n].at = "ended"
    /\ owners' = owners \ {tasks[n].op}
    /\ Moves(n, "released")
    /\ UNCHANGED <<operations, keys, claims, slots, ledger, forgotten, late>>

ReleaseSlot(n) ==
    /\ tasks[n].at = "released"
    /\ slots' = slots \ {tasks[n].op}
    /\ Moves(n, "done")
    /\ UNCHANGED <<operations, keys, claims, owners, ledger, forgotten, late>>

Next ==
    \/ \E k \in Key, o \in Op :
          \/ RefuseEarly(k, o)
          \/ \E amount \in Amounts :
                RefuseId(k, o, amount) \/ RefuseLate(k, o, amount) \/ Admit(k, o, amount)
    \/ \E n \in DOMAIN tasks :
          Run(n) \/ Succeed(n) \/ Fail(n) \/ ReleaseHold(n) \/ ReleaseLease(n) \/ ReleaseSlot(n)
    \/ ResetSpendWindow

Spec == Init /\ [][Next]_vars

-----------------------------------------------------------------------------
Working == {n \in DOMAIN tasks : tasks[n].at \in Live}

(***************************************************************************)
(* Two tasks never run one operation at a time, whatever the bounds have   *)
(* pushed out: neither a lost key nor a lost claim admits running work     *)
(* again, unless an earlier task of the operation was still to give its    *)
(* lease back when the operation was evicted.                              *)
(***************************************************************************)
NoDuplicateWork ==
    \A n, m \in Working : tasks[n].op = tasks[m].op /\ tasks[n].op \notin late => n = m

(***************************************************************************)
(* Work in progress is never evicted: the cache holds it, as live, however *)
(* many other results are saved meanwhile, and it has its lease, again but *)
(* for those late ones; and it has its slot, unless a bound made the       *)
(* service forget it (a refused retry then gives the shared slot back).    *)
(***************************************************************************)
WorkIsKept ==
    \A n \in Working :
        /\ tasks[n].op \notin late =>
              /\ Cached(tasks[n].op) /\ EntryOf(tasks[n].op).status \in Live
              /\ tasks[n].op \in owners
        /\ tasks[n].op \in slots \cup forgotten

(***************************************************************************)
(* An operation is admitted again only when the bound on reservations (or  *)
(* a refused retry) dropped what remembered it; evicting its result from   *)
(* the cache alone does not do that.                                       *)
(***************************************************************************)
RepeatedOnlyIfForgotten ==
    \A n, m \in DOMAIN tasks :
        tasks[n].op = tasks[m].op /\ tasks[n].op \notin forgotten => n = m

(***************************************************************************)
(* The in-memory counter implements the daily budget that SpendLedger      *)
(* implements with three scripts: whatever a request, its rollback and its *)
(* task reserve and give back, and whenever the day ends in between, the   *)
(* reservations stay within the ceiling.                                   *)
(***************************************************************************)
Budget == INSTANCE DailyBudget WITH held <- reserved

ImplementsBudget == Budget!Spec
=============================================================================
