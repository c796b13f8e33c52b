------------------------ MODULE OperationCacheProofs ------------------------
(***************************************************************************)
(* The single-process backend, for every finite set of operations, any     *)
(* keys, and any bounds on the cache, the reservations, the slots and the  *)
(* budget.                                                                 *)
(***************************************************************************)
EXTENDS OperationCache, FiniteSums, SequenceTheorems

-----------------------------------------------------------------------------
(***************************************************************************)
(* The ordered maps as sets of entries.                                    *)
(***************************************************************************)
LEMMA ToSetAppend ==
    ASSUME NEW S, NEW s \in Seq(S), NEW e \in S
    PROVE  ToSet(Append(s, e)) = ToSet(s) \cup {e}
<1>1. DOMAIN s = 1..Len(s) /\ Len(s) \in Nat
  OBVIOUS
<1>2. DOMAIN Append(s, e) = 1..(Len(s) + 1)
  OBVIOUS
<1>3. \A i \in 1..Len(s) : Append(s, e)[i] = s[i]
  OBVIOUS
<1>4. Append(s, e)[Len(s) + 1] = e
  OBVIOUS
<1>5. 1..(Len(s) + 1) = 1..Len(s) \cup {Len(s) + 1}
  BY <1>1
<1> QED BY <1>1, <1>2, <1>3, <1>4, <1>5 DEF ToSet

\* What is kept of a map, and the place each kept position moves to.
Kept(s, gone) == {n \in DOMAIN s : s[n] \notin gone}
Place(s, gone, n) == Cardinality({m \in Kept(s, gone) : m <= n})
Places(s, gone) == [n \in Kept(s, gone) |-> Place(s, gone, n)]

LEMMA KeptFinite ==
    ASSUME NEW S, NEW s \in Seq(S), NEW gone
    PROVE  /\ Kept(s, gone) \in SUBSET Nat
           /\ IsFiniteSet(Kept(s, gone))
           /\ Cardinality(Kept(s, gone)) \in Nat
           /\ Cardinality(Kept(s, gone)) <= Len(s)
<1>1. DOMAIN s = 1..Len(s) /\ Len(s) \in Nat
  OBVIOUS
<1>2. Kept(s, gone) \subseteq 1..Len(s)
  BY <1>1 DEF Kept
<1>3. IsFiniteSet(1..Len(s)) /\ Cardinality(1..Len(s)) = Len(s)
  <2>1. 1 \in Int /\ Len(s) \in Int
    BY <1>1
  <2> QED BY <1>1, <2>1, FS_Interval
<1> QED BY <1>1, <1>2, <1>3, FS_Subset, FS_CardinalityType

LEMMA PlaceBounds ==
    ASSUME NEW S, NEW s \in Seq(S), NEW gone, NEW n \in Kept(s, gone)
    PROVE  Place(s, gone, n) \in 1..Cardinality(Kept(s, gone))
<1> DEFINE K == Kept(s, gone)
           B == {m \in K : m <= n}
<1>1. K \in SUBSET Nat /\ IsFiniteSet(K) /\ Cardinality(K) \in Nat
  BY KeptFinite
<1>2. B \subseteq K /\ n \in B
  BY <1>1
<1>3. IsFiniteSet(B) /\ Cardinality(B) \in Nat /\ Cardinality(B) <= Cardinality(K)
  <2> HIDE DEF B, K
  <2> QED BY <1>1, <1>2, FS_Subset, FS_CardinalityType
<1>4. Cardinality(B) # 0
  <2> HIDE DEF B, K
  <2> QED BY <1>2, <1>3, FS_EmptySet
<1>5. Place(s, gone, n) = Cardinality(B)
  BY DEF Place
<1> HIDE DEF B, K
<1>6. Cardinality(B) \in 1..Cardinality(K)
  BY <1>1, <1>3, <1>4
<1> QED BY <1>5, <1>6 DEF K

LEMMA PlacesGrow ==
    ASSUME NEW S, NEW s \in Seq(S), NEW gone,
           NEW n \in Kept(s, gone), NEW m \in Kept(s, gone), n < m
    PROVE  Place(s, gone, n) # Place(s, gone, m)
<1> DEFINE K == Kept(s, gone)
           B == {l \in K : l <= n}
           C == {l \in K : l <= m}
<1>1. K \in SUBSET Nat /\ IsFiniteSet(K)
  BY KeptFinite
<1>2. B \subseteq C /\ C \subseteq K /\ m \in C /\ m \notin B
  BY <1>1
<1>3. Place(s, gone, n) = Cardinality(B) /\ Place(s, gone, m) = Cardinality(C)
  BY DEF Place
<1> HIDE DEF B, C, K
<1>4. IsFiniteSet(C)
  BY <1>1, <1>2, FS_Subset
<1>5. Cardinality(B) # Cardinality(C)
  BY <1>2, <1>4, FS_Subset
<1> QED BY <1>3, <1>5

LEMMA PlacesBijective ==
    ASSUME NEW S, NEW s \in Seq(S), NEW gone
    PROVE  /\ Places(s, gone) \in Injection(Kept(s, gone), 1..Cardinality(Kept(s, gone)))
           /\ Places(s, gone) \in Surjection(Kept(s, gone), 1..Cardinality(Kept(s, gone)))
<1> DEFINE K == Kept(s, gone)
           N == Cardinality(K)
           f == Places(s, gone)
<1>1. K \in SUBSET Nat /\ IsFiniteSet(K) /\ N \in Nat
  BY KeptFinite
<1>2. f \in [K -> 1..N]
  BY PlaceBounds DEF Places
<1>3. \A n, m \in K : n # m => f[n] # f[m]
  <2> SUFFICES ASSUME NEW n \in K, NEW m \in K, n # m
               PROVE  f[n] # f[m]
    OBVIOUS
  <2>1. f[n] = Place(s, gone, n) /\ f[m] = Place(s, gone, m)
    BY DEF Places
  <2>2. CASE n < m
    BY <2>1, <2>2, PlacesGrow
  <2>3. CASE m < n
    BY <2>1, <2>3, PlacesGrow
  <2>4. n \in Nat /\ m \in Nat
    BY <1>1
  <2> QED BY <2>2, <2>3, <2>4
<1> HIDE DEF f, N
<1>4. f \in Injection(K, 1..N)
  BY <1>2, <1>3 DEF Injection, IsInjective
<1>5. IsFiniteSet(1..N) /\ Cardinality(1..N) = N
  <2>1. N \in Int /\ 1 \in Int
    BY <1>1
  <2> QED BY <1>1, <2>1, FS_Interval
<1>6. Cardinality(K) = Cardinality(1..N)
  BY <1>5 DEF N
<1> HIDE DEF K
<1>7. f \in Surjection(K, 1..N)
  BY <1>4, <1>5, <1>6, FS_Injection
<1> QED BY <1>4, <1>7 DEF f, N, K

\* Taking members out of a map takes them out of the set and adds nothing.
LEMMA WithoutSet ==
    ASSUME NEW S, NEW s \in Seq(S), NEW gone
    PROVE  /\ Without(s, gone) \in Seq(S)
           /\ Len(Without(s, gone)) <= Len(s)
           /\ ToSet(Without(s, gone)) = ToSet(s) \ gone
<1> DEFINE K == Kept(s, gone)
           N == Cardinality(K)
           f == Places(s, gone)
           at(i) == CHOOSE n \in K : Place(s, gone, n) = i
           t == Without(s, gone)
<1>1. t = [i \in 1..N |-> s[at(i)]]
  BY DEF Without, Kept, Place
<1>2. K \in SUBSET Nat /\ N \in Nat /\ N <= Len(s)
  BY KeptFinite
<1>3. \A n \in K : n \in DOMAIN s /\ s[n] \notin gone /\ s[n] \in S
  BY DEF Kept
<1>4. \A n \in K : f[n] = Place(s, gone, n)
  BY DEF Places
<1>5. \A i \in 1..N : \E n \in K : f[n] = i
  BY PlacesBijective DEF Surjection
<1>6. \A n, m \in K : f[n] = f[m] => n = m
  BY PlacesBijective DEF Injection, IsInjective
<1>7. \A n \in K : f[n] \in 1..N
  BY PlacesBijective DEF Injection
<1>8. \A i \in 1..N : at(i) \in K
  <2> HIDE DEF f, K, N
  <2> QED BY <1>4, <1>5
<1>9. \A n \in K : at(f[n]) = n
  <2> TAKE n \in K
  <2>1. at(f[n]) \in K /\ Place(s, gone, at(f[n])) = f[n]
    <3> HIDE DEF f, K, N
    <3> QED BY <1>4
  <2> HIDE DEF at, f, K, N
  <2> QED BY <1>4, <1>6, <2>1
<1> HIDE DEF at, f, K, N, t
<1>10. t \in Seq(S) /\ Len(t) = N
  <2>1. \A i \in 1..N : s[at(i)] \in S
    BY <1>3, <1>8
  <2>2. t \in [1..N -> S]
    BY <1>1, <2>1
  <2>3. t \in Seq(S)
    BY <1>2, <2>2, SeqDef
  <2> QED BY <1>2, <2>2, <2>3
<1>11. ASSUME NEW x
       PROVE  x \in ToSet(t) <=> \E n \in K : x = s[n]
  <2>1. DOMAIN t = 1..N
    BY <1>1
  <2>2. \A i \in 1..N : t[i] = s[at(i)]
    BY <1>1
  <2> QED BY <1>7, <1>8, <1>9, <2>1, <2>2 DEF ToSet
<1>12. ASSUME NEW x
       PROVE  x \in ToSet(s) \ gone <=> \E n \in K : x = s[n]
  BY DEF ToSet, K, Kept
<1> QED BY <1>2, <1>10, <1>11, <1>12 DEF t

\* Dropping the oldest members keeps the newest one.
LEMMA NewestSet ==
    ASSUME NEW S, NEW s \in Seq(S), NEW e \in S, NEW n \in Nat \ {0}
    PROVE  /\ Newest(Append(s, e), n) \in Seq(S)
           /\ Len(Newest(Append(s, e), n)) <= n
           /\ ToSet(Newest(Append(s, e), n)) \subseteq ToSet(s) \cup {e}
           /\ e \in ToSet(Newest(Append(s, e), n))
<1> DEFINE t == Append(s, e)
<1>1. t \in Seq(S) /\ Len(t) = Len(s) + 1 /\ Len(s) \in Nat /\ t[Len(t)] = e
  OBVIOUS
<1>2. ToSet(t) = ToSet(s) \cup {e}
  BY ToSetAppend
<1> HIDE DEF t
<1>3. DOMAIN t = 1..Len(t)
  BY <1>1
<1>4. CASE Len(t) <= n
  <2>1. Newest(t, n) = t
    BY <1>4 DEF Newest
  <2>2. e \in ToSet(t)
    BY <1>2
  <2> QED BY <1>1, <1>2, <1>4, <2>1, <2>2 DEF t
<1>5. CASE ~(Len(t) <= n)
  <2> DEFINE u == SubSeq(t, Len(t) - n + 1, Len(t))
  <2>1. Newest(t, n) = u
    BY <1>5 DEF Newest
  <2>2. u \in Seq(S) /\ Len(u) = n
    BY <1>1, <1>5
  <2>3. \A i \in 1..n : u[i] = t[Len(t) - n + i] /\ Len(t) - n + i \in 1..Len(t)
    BY <1>1, <1>5
  <2>4. DOMAIN u = 1..n
    BY <2>2
  <2>5. u[n] = e
    BY <1>1, <2>3
  <2> HIDE DEF u
  <2>6. ToSet(u) \subseteq ToSet(t) /\ e \in ToSet(u)
    <3>1. n \in 1..n
      OBVIOUS
    <3>2. \A i \in 1..n : \E j \in DOMAIN t : u[i] = t[j]
      BY <1>3, <2>3
    <3>3. ToSet(u) \subseteq ToSet(t)
      BY <2>4, <3>2 DEF ToSet
    <3> QED BY <2>4, <2>5, <3>1, <3>3 DEF ToSet
  <2> QED BY <1>2, <2>1, <2>2, <2>6 DEF t
<1> QED BY <1>4, <1>5

-----------------------------------------------------------------------------
(***************************************************************************)
(* Tasks, one record each.                                                 *)
(***************************************************************************)
At == {"queued", "running", "holding", "ended", "released", "done"}
Task == [op : Op, key : Key, amount : Amounts, at : At]

LEMMA TasksTyped ==
    ASSUME TypeOK
    PROVE  /\ tasks \in Seq(Task) /\ DOMAIN tasks = 1..Len(tasks) /\ Len(tasks) \in Nat
           /\ \A n \in DOMAIN tasks :
                 /\ tasks[n] \in Task /\ tasks[n].op \in Op /\ tasks[n].key \in Key
                 /\ tasks[n].amount \in Amounts /\ tasks[n].at \in At
<1>1. tasks \in Seq(Task)
  BY DEF TypeOK, Task, At
<1>2. DOMAIN tasks = 1..Len(tasks) /\ Len(tasks) \in Nat
  BY <1>1
<1>3. \A n \in DOMAIN tasks : tasks[n] \in Task
  BY <1>1, <1>2
<1> QED BY <1>1, <1>2, <1>3 DEF Task

\* Only one task moves, and keeps what it is about.
TaskMoves(n, at) ==
    /\ DOMAIN tasks' = DOMAIN tasks
    /\ \A m \in DOMAIN tasks :
         /\ tasks'[m].op = tasks[m].op
         /\ tasks'[m].key = tasks[m].key
         /\ m # n => tasks'[m].at = tasks[m].at
    /\ tasks'[n].at = at

LEMMA MovedTask ==
    ASSUME TypeOK, NEW n \in DOMAIN tasks, NEW at \in At, Moves(n, at)
    PROVE  TaskMoves(n, at) /\ tasks' \in Seq(Task)
<1> DEFINE r == [tasks[n] EXCEPT !.at = at]
<1>1. tasks[n] \in Task
  BY TasksTyped
<1>2. r \in Task /\ r.op = tasks[n].op /\ r.key = tasks[n].key /\ r.at = at
  BY <1>1 DEF Task
<1>3. tasks' = [tasks EXCEPT ![n] = r]
  BY DEF Moves
<1> HIDE DEF r
<1>4. /\ DOMAIN tasks' = DOMAIN tasks /\ tasks'[n] = r
      /\ \A m \in DOMAIN tasks : m # n => tasks'[m] = tasks[m]
  BY <1>3
<1>5. tasks' \in Seq(Task)
  BY <1>2, <1>3, TasksTyped
<1> QED BY <1>2, <1>4, <1>5 DEF TaskMoves

\* The admitted request gets a task of its own.
TaskAdded(k, o, amount) ==
    LET new == Len(tasks) + 1 IN
    /\ new \notin DOMAIN tasks /\ DOMAIN tasks' = DOMAIN tasks \cup {new}
    /\ \A m \in DOMAIN tasks : tasks'[m] = tasks[m]
    /\ tasks'[new] = [op |-> o, key |-> k, amount |-> amount, at |-> "queued"]

LEMMA AddedTask ==
    ASSUME TypeOK, NEW k \in Key, NEW o \in Op, NEW amount \in Amounts,
           tasks' = Append(tasks, [op |-> o, key |-> k, amount |-> amount, at |-> "queued"])
    PROVE  TaskAdded(k, o, amount) /\ tasks' \in Seq(Task)
<1> DEFINE t == [op |-> o, key |-> k, amount |-> amount, at |-> "queued"]
<1>1. t \in Task
  BY DEF Task, At
<1>2. tasks' = Append(tasks, t)
  OBVIOUS
<1> HIDE DEF t
<1>3. tasks' \in Seq(Task) /\ Len(tasks') = Len(tasks) + 1
  BY <1>1, <1>2, TasksTyped
<1>4. DOMAIN tasks' = 1..(Len(tasks) + 1)
  BY <1>3
<1>5. /\ \A m \in 1..Len(tasks) : tasks'[m] = tasks[m]
      /\ tasks'[Len(tasks) + 1] = t
  BY <1>1, <1>2, TasksTyped
<1>6. 1..(Len(tasks) + 1) = 1..Len(tasks) \cup {Len(tasks) + 1} /\ Len(tasks) + 1 \notin 1..Len(tasks)
  BY TasksTyped
<1> QED BY <1>3, <1>4, <1>5, <1>6, TasksTyped DEF TaskAdded, t

-----------------------------------------------------------------------------
(***************************************************************************)
(* The cache: a save replaces the entry of its operation and evicts only   *)
(* entries that are over.                                                  *)
(***************************************************************************)
EntriesUnique == \A x, y \in ToSet(operations) : x.op = y.op => x = y

\* What is saved or was cached of another operation, before the eviction.
Saved(e, x) == x = e \/ (x \in ToSet(operations) /\ x.op # e.op)

SavedBy(e, owned, gone) ==
    /\ gone \in SUBSET Op
    /\ owners' = owned \ gone
    /\ late' = late \cup {o \in gone : \E n \in DOMAIN tasks' :
                              tasks'[n].op = o /\ tasks'[n].at \in {"holding", "ended"}}
    /\ \A x \in ToSet(operations') : Saved(e, x)
    /\ \A x : Saved(e, x) /\ x.status \in Live => x.op \notin gone /\ x \in ToSet(operations')

LEMMA EvictedEnded ==
    ASSUME NEW seq \in Seq(Entry), NEW o \in Evicted(seq)
    PROVE  o \in Op /\ \E x \in ToSet(seq) : x.op = o /\ x.status \notin Live
<1>1. PICK n \in DOMAIN seq : o = seq[n].op /\ seq[n].status \notin Live
  BY DEF Evicted
<1>2. seq[n] \in Entry /\ seq[n] \in ToSet(seq)
  BY <1>1 DEF ToSet
<1> QED BY <1>1, <1>2 DEF Entry

LEMMA SaveEffects ==
    ASSUME TypeOK, EntriesUnique, NEW e \in Entry, NEW owned, SaveOperation(e, owned)
    PROVE  /\ operations' \in Seq(Entry)
           /\ EntriesUnique'
           /\ \E gone : SavedBy(e, owned, gone)
<1> DEFINE old == Without(operations, EntriesOf({e.op}))
           saved == Append(old, e)
           gone == Evicted(saved)
<1>0. operations \in Seq(Entry) /\ ToSet(operations) \subseteq Entry
  BY DEF TypeOK, ToSet
<1>1. old \in Seq(Entry) /\ ToSet(old) = ToSet(operations) \ EntriesOf({e.op})
  BY <1>0, WithoutSet
<1>2. saved \in Seq(Entry) /\ ToSet(saved) = ToSet(old) \cup {e}
  <2>1. \A s \in Seq(Entry) : Append(s, e) \in Seq(Entry) /\ ToSet(Append(s, e)) = ToSet(s) \cup {e}
    BY ToSetAppend
  <2> HIDE DEF old
  <2> QED BY <1>1, <2>1
<1>3. /\ operations' = Without(saved, EntriesOf(gone))
      /\ owners' = owned \ gone
      /\ late' = late \cup {o \in gone : \E n \in DOMAIN tasks' :
                                tasks'[n].op = o /\ tasks'[n].at \in {"holding", "ended"}}
  BY DEF SaveOperation
<1>4. \A o \in gone : o \in Op /\ \E x \in ToSet(saved) : x.op = o /\ x.status \notin Live
  <2> HIDE DEF saved
  <2> QED BY <1>2, EvictedEnded
<1> HIDE DEF old, saved, gone
<1>5. operations' \in Seq(Entry) /\ ToSet(operations') = ToSet(saved) \ EntriesOf(gone)
  BY <1>2, <1>3, WithoutSet
<1>6. \A x : x \in ToSet(saved) <=> Saved(e, x)
  BY <1>0, <1>1, <1>2 DEF Saved, EntriesOf, Entry
<1>7. \A x, y \in ToSet(saved) : x.op = y.op => x = y
  BY <1>6 DEF Saved, EntriesUnique
<1>8. EntriesUnique'
  BY <1>5, <1>7 DEF EntriesUnique
<1>9. gone \in SUBSET Op
  BY <1>4
<1>10. \A x \in ToSet(operations') : Saved(e, x)
  BY <1>5, <1>6
<1>11. ASSUME NEW x, Saved(e, x), x.status \in Live
       PROVE  x.op \notin gone /\ x \in ToSet(operations')
  <2>1. x \in ToSet(saved)
    BY <1>6, <1>11
  <2>2. x.op \notin gone
    BY <1>4, <1>7, <1>11, <2>1
  <2>3. x \notin EntriesOf(gone)
    BY <2>2 DEF EntriesOf
  <2> QED BY <1>5, <2>1, <2>2, <2>3
<1> QED BY <1>3, <1>5, <1>8, <1>9, <1>10, <1>11 DEF SavedBy

-----------------------------------------------------------------------------
(***************************************************************************)
(* Keys and claims.                                                        *)
(***************************************************************************)
ClaimsUnique == \A b, c \in ToSet(claims) : b.op = c.op => b = c

BindingsOK(s) == s \in Seq(Binding) /\ Len(s) <= ReservationLimit

Bound(k, o) == [op |-> o, key |-> k]

LEMMA BindingsTyped ==
    ASSUME TypeOK
    PROVE  /\ BindingsOK(keys) /\ BindingsOK(claims)
           /\ ToSet(keys) \subseteq Binding /\ ToSet(claims) \subseteq Binding
           /\ Len(keys) \in Nat /\ Len(claims) \in Nat /\ ReservationLimit \in Nat \ {0}
<1>1. BindingsOK(keys) /\ BindingsOK(claims)
  BY DEF TypeOK, BindingsOK
<1> QED BY <1>1, CacheAssumption DEF BindingsOK, ToSet, CacheAssumption

LEMMA KeyClaimed ==
    ASSUME TypeOK, NEW k \in Key, NEW o \in Op
    PROVE  /\ BindingsOK(ClaimedKeys(k, o))
           /\ ToSet(ClaimedKeys(k, o)) \subseteq ToSet(keys) \cup {Bound(k, o)}
           /\ Bound(k, o) \in ToSet(ClaimedKeys(k, o))
<1>1. Bound(k, o) \in Binding
  BY DEF Bound, Binding
<1>2. keys \in Seq(Binding) /\ ReservationLimit \in Nat \ {0}
  BY BindingsTyped DEF BindingsOK
<1>3. ClaimedKeys(k, o) = Newest(Append(keys, Bound(k, o)), ReservationLimit)
  BY DEF ClaimedKeys, Bound
<1> QED BY <1>1, <1>2, <1>3, NewestSet DEF BindingsOK

LEMMA IdClaimed ==
    ASSUME TypeOK, ClaimsUnique, NEW k \in Key, NEW o \in Op
    PROVE  /\ BindingsOK(ClaimedIds(k, o))
           /\ ToSet(ClaimedIds(k, o)) \subseteq ToSet(claims) \cup {Bound(k, o)}
           /\ IdClaimable(k, o) => Bound(k, o) \in ToSet(ClaimedIds(k, o))
           /\ \A b, c \in ToSet(ClaimedIds(k, o)) : b.op = c.op => b = c
<1>1. CASE OpClaimed(o)
  BY <1>1, BindingsTyped DEF ClaimedIds, IdClaimable, Bound, ClaimsUnique
<1>2. CASE ~OpClaimed(o)
  <2>1. Bound(k, o) \in Binding /\ Bound(k, o).op = o
    BY DEF Bound, Binding
  <2>2. claims \in Seq(Binding) /\ ReservationLimit \in Nat \ {0}
    BY BindingsTyped DEF BindingsOK
  <2>3. ClaimedIds(k, o) = Newest(Append(claims, Bound(k, o)), ReservationLimit)
    BY <1>2 DEF ClaimedIds, Bound
  <2>4. /\ BindingsOK(ClaimedIds(k, o))
        /\ ToSet(ClaimedIds(k, o)) \subseteq ToSet(claims) \cup {Bound(k, o)}
        /\ Bound(k, o) \in ToSet(ClaimedIds(k, o))
    <3> DEFINE t == Newest(Append(claims, Bound(k, o)), ReservationLimit)
    <3>1. /\ t \in Seq(Binding) /\ Len(t) <= ReservationLimit
          /\ ToSet(t) \subseteq ToSet(claims) \cup {Bound(k, o)}
          /\ Bound(k, o) \in ToSet(t)
      BY <2>1, <2>2, NewestSet, Zenon
    <3> QED BY <2>3, <3>1 DEF BindingsOK
  <2>5. \A b \in ToSet(claims) : b.op # o
    BY <1>2 DEF OpClaimed
  <2> QED BY <2>1, <2>4, <2>5 DEF ClaimsUnique
<1> QED BY <1>1, <1>2

LEMMA Unbound ==
    ASSUME NEW s, BindingsOK(s), NEW gone
    PROVE  /\ BindingsOK(Without(s, gone))
           /\ ToSet(Without(s, gone)) = ToSet(s) \ gone
<1>1. s \in Seq(Binding) /\ Len(s) \in Nat /\ Len(s) <= ReservationLimit
  BY DEF BindingsOK
<1>2. /\ Without(s, gone) \in Seq(Binding) /\ Len(Without(s, gone)) <= Len(s)
      /\ ToSet(Without(s, gone)) = ToSet(s) \ gone
  BY <1>1, WithoutSet
<1>3. Len(Without(s, gone)) \in Nat /\ ReservationLimit \in Nat
  BY <1>2, CacheAssumption DEF CacheAssumption
<1> QED BY <1>1, <1>2, <1>3 DEF BindingsOK

\* What a request leaves of keys and claims, admitted or refused.
Rebinds ==
    /\ BindingsOK(keys') /\ BindingsOK(claims')
    /\ ClaimsUnique'
    /\ forgotten' \in SUBSET Op /\ forgotten \subseteq forgotten'
    /\ Lost(keys, keys') \subseteq forgotten' /\ Lost(claims, claims') \subseteq forgotten'

LEMMA LostOps ==
    ASSUME TypeOK, NEW new
    PROVE  Lost(keys, new) \subseteq Op /\ Lost(claims, new) \subseteq Op
BY BindingsTyped DEF Lost, Binding

LEMMA SameBindings ==
    ASSUME TypeOK, ClaimsUnique, UNCHANGED <<keys, claims, forgotten>>
    PROVE  Rebinds
BY BindingsTyped DEF Rebinds, Lost, ClaimsUnique, TypeOK, BindingsOK

LEMMA RefusalRebinds ==
    ASSUME TypeOK, ClaimsUnique, NEW k \in Key, NEW o \in Op,
           \/ RefuseEarly(k, o)
           \/ \E amount \in Amounts : RefuseId(k, o, amount) \/ RefuseLate(k, o, amount)
    PROVE  Rebinds
<1>1. keys' = Without(ClaimedKeys(k, o), BindingsOfKey(k))
  BY DEF RefuseEarly, RefuseId, RefuseLate
<1>2. BindingsOK(keys')
  BY <1>1, KeyClaimed, Unbound
<1>3. forgotten \in SUBSET Op
  BY DEF TypeOK
<1>4. CASE claims' = claims /\ forgotten' = forgotten \cup Lost(keys, keys')
  <2>1. Lost(claims, claims') = {}
    BY <1>4 DEF Lost
  <2> QED BY <1>2, <1>3, <1>4, <2>1, LostOps, BindingsTyped DEF Rebinds, ClaimsUnique
<1>5. CASE /\ claims' = Without(ClaimedIds(k, o), BindingsOfOp(o))
           /\ forgotten' = forgotten \cup Lost(keys, keys') \cup Lost(claims, claims')
  <2>1. BindingsOK(claims') /\ ToSet(claims') \subseteq ToSet(ClaimedIds(k, o))
    BY <1>5, IdClaimed, Unbound
  <2>2. ClaimsUnique'
    BY <2>1, IdClaimed DEF ClaimsUnique
  <2> QED BY <1>2, <1>3, <1>5, <2>1, <2>2, LostOps DEF Rebinds
<1> QED BY <1>4, <1>5 DEF RefuseEarly, RefuseId, RefuseLate

LEMMA AdmissionRebinds ==
    ASSUME TypeOK, ClaimsUnique, NEW k \in Key, NEW o \in Op, NEW amount \in Amounts,
           Admit(k, o, amount)
    PROVE  Rebinds /\ Bound(k, o) \in ToSet(keys') /\ Bound(k, o) \in ToSet(claims')
<1>1. /\ keys' = ClaimedKeys(k, o) /\ claims' = ClaimedIds(k, o) /\ IdClaimable(k, o)
      /\ forgotten' = forgotten \cup Lost(keys, keys') \cup Lost(claims, claims')
  BY DEF Admit
<1>2. forgotten \in SUBSET Op
  BY DEF TypeOK
<1>3. ClaimsUnique'
  BY <1>1, IdClaimed DEF ClaimsUnique
<1> QED BY <1>1, <1>2, <1>3, KeyClaimed, IdClaimed, LostOps DEF Rebinds

-----------------------------------------------------------------------------
(***************************************************************************)
(* Types.                                                                  *)
(***************************************************************************)
LedgerTypeOK == spent \in 0..Limit /\ reserved \in [Op -> Amounts \cup {0}]

LEMMA LedgerNumbers ==
    /\ Limit \in Nat /\ Amounts \subseteq Nat
    /\ LedgerTypeOK => spent \in Nat /\ \A o \in Op : reserved[o] \in Nat
<1>1. Limit \in Nat /\ Amounts \subseteq Nat
  BY CacheAssumption DEF CacheAssumption
<1>2. ASSUME LedgerTypeOK
      PROVE  spent \in Nat /\ \A o \in Op : reserved[o] \in Nat
  <2>1. \A o \in Op : reserved[o] \in Amounts \cup {0}
    BY <1>2 DEF LedgerTypeOK
  <2>2. \A n \in Amounts \cup {0} : n \in Nat
    BY <1>1
  <2>3. spent \in Nat
    BY <1>1, <1>2 DEF LedgerTypeOK
  <2> QED BY <2>1, <2>2, <2>3
<1> QED BY <1>1, <1>2

LEMMA LedgerTypes ==
    ASSUME LedgerTypeOK, NEW o \in Op, NEW amount \in Amounts,
           \/ CanReserve(o, amount) /\ ReserveSpend(o, amount)
           \/ ReleaseSpend(o, amount)
           \/ UNCHANGED ledger
    PROVE  LedgerTypeOK'
<1>1. /\ amount \in Nat /\ spent \in Nat /\ reserved[o] \in Nat /\ Limit \in Nat
      /\ spent <= Limit
  BY LedgerNumbers DEF LedgerTypeOK
<1>2. CASE CanReserve(o, amount) /\ ReserveSpend(o, amount)
  BY <1>1, <1>2 DEF CanReserve, ReserveSpend, ledger, LedgerTypeOK
<1>3. CASE ReleaseSpend(o, amount)
  BY <1>1, <1>3 DEF ReleaseSpend, ledger, LedgerTypeOK
<1>4. CASE UNCHANGED ledger
  BY <1>4 DEF ledger, LedgerTypeOK
<1> QED BY <1>2, <1>3, <1>4

CacheTypeOK ==
    /\ operations \in Seq(Entry) /\ tasks \in Seq(Task)
    /\ owners \in SUBSET Op /\ slots \in SUBSET Op /\ late \in SUBSET Op

KeyTypeOK == BindingsOK(keys) /\ BindingsOK(claims) /\ forgotten \in SUBSET Op

LEMMA TypeParts == TypeOK <=> CacheTypeOK /\ KeyTypeOK /\ LedgerTypeOK
BY DEF TypeOK, BindingsOK, LedgerTypeOK, Task, At, CacheTypeOK, KeyTypeOK

LEMMA TypePartsNext == TypeOK' <=> CacheTypeOK' /\ KeyTypeOK' /\ LedgerTypeOK'
BY DEF TypeOK, BindingsOK, LedgerTypeOK, Task, At, CacheTypeOK, KeyTypeOK

LEMMA SavedTypes ==
    ASSUME TypeOK, EntriesUnique, NEW e \in Entry, NEW owned \in SUBSET Op,
           SaveOperation(e, owned)
    PROVE  /\ operations' \in Seq(Entry) /\ EntriesUnique'
           /\ owners' \in SUBSET Op /\ late' \in SUBSET Op
<1>1. PICK gone : SavedBy(e, owned, gone)
  BY SaveEffects
<1>2. owners' \in SUBSET Op /\ late' \in SUBSET Op
  BY <1>1 DEF SavedBy, TypeOK
<1> QED BY <1>2, SaveEffects

BaseInv == TypeOK /\ EntriesUnique /\ ClaimsUnique

\* The entry a task writes.
EntryBy(n, status) ==
    [op |-> tasks[n].op, key |-> KeyKept(tasks[n].op), status |-> status]

TaskSaves(n, at, status) ==
    /\ TaskMoves(n, at) /\ tasks' \in Seq(Task)
    /\ tasks[n].at \in Live
    /\ \/ at = "running" /\ status = "running"
       \/ at \in {"holding", "ended"} /\ status = Terminal
    /\ EntryBy(n, status) \in Entry
    /\ SaveOperation(EntryBy(n, status), owners)
    /\ UNCHANGED <<keys, claims, slots, forgotten>>

LEMMA TaskSaving ==
    ASSUME TypeOK, NEW n \in DOMAIN tasks, Run(n) \/ Succeed(n) \/ Fail(n)
    PROVE  \E at, status : TaskSaves(n, at, status)
<1>1. \A status \in Live \cup {Terminal} : EntryBy(n, status) \in Entry
  <2>1. \A x \in ToSet(operations) : x \in Entry
    BY DEF TypeOK, ToSet
  <2>2. \A o \in Op : KeyKept(o) \in Key \cup {NoKey}
    BY <2>1 DEF KeyKept, EntryOf, Cached, Entry
  <2> QED BY <2>2, TasksTyped DEF EntryBy, Entry
<1>2. CASE Run(n)
  <2>1. Moves(n, "running") /\ "running" \in At
    BY <1>2 DEF Run, At
  <2>2. TaskMoves(n, "running") /\ tasks' \in Seq(Task)
    BY <2>1, MovedTask
  <2>3. TaskSaves(n, "running", "running")
    BY <1>1, <1>2, <2>2 DEF Run, TaskSaves, TaskWrites, EntryBy, Live
  <2> QED BY <2>3
<1>3. CASE Succeed(n)
  <2>1. Moves(n, "ended") /\ "ended" \in At
    BY <1>3 DEF Succeed, At
  <2> QED BY <1>1, <1>3, <2>1, MovedTask DEF Succeed, TaskSaves, TaskWrites, EntryBy, Live
<1>4. CASE Fail(n)
  <2>1. PICK at \in {"ended", "holding"} : Moves(n, at)
    BY <1>4 DEF Fail
  <2>2. at \in At
    BY DEF At
  <2> QED BY <1>1, <1>4, <2>1, <2>2, MovedTask DEF Fail, TaskSaves, TaskWrites, EntryBy, Live
<1> QED BY <1>2, <1>3, <1>4

\* A task gives something back.
TaskReleases(n, at) ==
    /\ TaskMoves(n, at) /\ tasks' \in Seq(Task)
    /\ \/ /\ tasks[n].at = "holding" /\ at = "ended" /\ UNCHANGED <<owners, slots>>
       \/ /\ tasks[n].at = "ended" /\ at = "released" /\ UNCHANGED slots
          /\ owners' = owners \ {tasks[n].op}
       \/ /\ tasks[n].at = "released" /\ at = "done" /\ UNCHANGED owners
          /\ slots' = slots \ {tasks[n].op}
    /\ UNCHANGED <<operations, keys, claims, forgotten, late>>

LEMMA TaskReleasing ==
    ASSUME TypeOK, NEW n \in DOMAIN tasks, ReleaseHold(n) \/ ReleaseLease(n) \/ ReleaseSlot(n)
    PROVE  \E at : TaskReleases(n, at)
<1>1. CASE ReleaseHold(n)
  <2>1. Moves(n, "ended") /\ "ended" \in At
    BY <1>1 DEF ReleaseHold, At
  <2> QED BY <1>1, <2>1, MovedTask DEF ReleaseHold, TaskReleases
<1>2. CASE ReleaseLease(n)
  <2>1. Moves(n, "released") /\ "released" \in At
    BY <1>2 DEF ReleaseLease, At
  <2> QED BY <1>2, <2>1, MovedTask DEF ReleaseLease, TaskReleases
<1>3. CASE ReleaseSlot(n)
  <2>1. Moves(n, "done") /\ "done" \in At
    BY <1>3 DEF ReleaseSlot, At
  <2> QED BY <1>3, <2>1, MovedTask DEF ReleaseSlot, TaskReleases
<1> QED BY <1>1, <1>2, <1>3

\* A request is refused: it may take the slot of running work it could name.
Refuses(k, o) ==
    /\ Rebinds
    /\ UNCHANGED <<operations, owners, tasks, late>>
    /\ \/ UNCHANGED slots
       \/ ~KeyBound(k) /\ IdClaimable(k, o) /\ slots' = slots \ {o}

LEMMA Refusing ==
    ASSUME BaseInv, NEW k \in Key, NEW o \in Op,
           \/ RefuseEarly(k, o)
           \/ \E amount \in Amounts : RefuseId(k, o, amount) \/ RefuseLate(k, o, amount)
    PROVE  Refuses(k, o)
<1>1. Rebinds
  BY RefusalRebinds DEF BaseInv
<1> QED BY <1>1 DEF Refuses, RefuseEarly, RefuseId, RefuseLate

Admits(k, o) ==
    LET e == [op |-> o, key |-> k, status |-> "queued"] IN
    /\ Rebinds
    /\ Bound(k, o) \in ToSet(keys') /\ Bound(k, o) \in ToSet(claims')
    /\ ~KeyBound(k) /\ IdClaimable(k, o)
    /\ \E amount \in Amounts : TaskAdded(k, o, amount)
    /\ tasks' \in Seq(Task)
    /\ o \notin owners
    /\ e \in Entry
    /\ SaveOperation(e, owners \cup {o})
    /\ slots' = slots \cup {o}

LEMMA Admitting ==
    ASSUME BaseInv, NEW k \in Key, NEW o \in Op, NEW amount \in Amounts, Admit(k, o, amount)
    PROVE  Admits(k, o)
<1>1. Rebinds /\ Bound(k, o) \in ToSet(keys') /\ Bound(k, o) \in ToSet(claims')
  BY AdmissionRebinds DEF BaseInv
<1>2. TaskAdded(k, o, amount) /\ tasks' \in Seq(Task)
  BY AddedTask DEF Admit, BaseInv
<1>3. [op |-> o, key |-> k, status |-> "queued"] \in Entry
  BY DEF Entry, Live
<1> QED BY <1>1, <1>2, <1>3 DEF Admits, Admit, CanBegin

\* Every step, by what it does to everything but the counter.
StepKind ==
    \/ \E k \in Key, o \in Op : Refuses(k, o) \/ Admits(k, o)
    \/ \E n \in DOMAIN tasks :
          (\E at, status : TaskSaves(n, at, status)) \/ (\E at : TaskReleases(n, at))
    \/ UNCHANGED <<operations, keys, claims, owners, slots, tasks, forgotten, late>>

LEMMA StepKinds ==
    ASSUME BaseInv, [Next]_vars
    PROVE  StepKind
<1>1. ASSUME NEW k \in Key, NEW o \in Op,
             \/ RefuseEarly(k, o)
             \/ \E amount \in Amounts :
                   RefuseId(k, o, amount) \/ RefuseLate(k, o, amount) \/ Admit(k, o, amount)
      PROVE  Refuses(k, o) \/ Admits(k, o)
  BY <1>1, Refusing, Admitting
<1>2. ASSUME NEW n \in DOMAIN tasks,
             Run(n) \/ Succeed(n) \/ Fail(n) \/ ReleaseHold(n) \/ ReleaseLease(n) \/ ReleaseSlot(n)
      PROVE  (\E at, status : TaskSaves(n, at, status)) \/ (\E at : TaskReleases(n, at))
  BY <1>2, TaskSaving, TaskReleasing DEF BaseInv
<1>3. CASE ResetSpendWindow
  BY <1>3 DEF ResetSpendWindow, StepKind
<1>4. CASE UNCHANGED vars
  BY <1>4 DEF vars, StepKind
<1>5. CASE Next
  BY <1>1, <1>2, <1>3, <1>5 DEF Next, StepKind
<1> QED BY <1>4, <1>5

LEMMA LedgerTypesKept ==
    ASSUME LedgerTypeOK, TypeOK, [Next]_vars
    PROVE  LedgerTypeOK'
<1>1. ASSUME NEW o \in Op, NEW amount \in Amounts,
             \/ CanReserve(o, amount) /\ ReserveSpend(o, amount)
             \/ ReleaseSpend(o, amount)
      PROVE  LedgerTypeOK'
  BY <1>1, LedgerTypes
<1>2. CASE UNCHANGED ledger
  BY <1>2 DEF ledger, LedgerTypeOK
<1>3. CASE ResetSpendWindow
  BY <1>3, LedgerNumbers DEF ResetSpendWindow, LedgerTypeOK
<1>4. ASSUME NEW n \in DOMAIN tasks,
             Run(n) \/ Succeed(n) \/ Fail(n) \/ ReleaseHold(n) \/ ReleaseLease(n) \/ ReleaseSlot(n)
      PROVE  LedgerTypeOK'
  <2>1. tasks[n].op \in Op /\ tasks[n].amount \in Amounts
    BY TasksTyped
  <2> QED BY <1>1, <1>2, <1>4, <2>1
          DEF Run, Succeed, Fail, ReleaseHold, ReleaseLease, ReleaseSlot
<1>5. ASSUME NEW k \in Key, NEW o \in Op,
             \/ RefuseEarly(k, o)
             \/ \E amount \in Amounts :
                   RefuseId(k, o, amount) \/ RefuseLate(k, o, amount) \/ Admit(k, o, amount)
      PROVE  LedgerTypeOK'
  BY <1>1, <1>2, <1>5 DEF RefuseEarly, RefuseId, RefuseLate, Admit
<1>6. CASE UNCHANGED vars
  BY <1>2, <1>6 DEF vars
<1> QED BY <1>3, <1>4, <1>5, <1>6 DEF Next

LEMMA TypesKept ==
    ASSUME BaseInv, [Next]_vars
    PROVE  BaseInv'
<1>t. TypeOK /\ CacheTypeOK /\ KeyTypeOK /\ LedgerTypeOK'
  BY LedgerTypesKept, TypeParts DEF BaseInv
<1>o. owners \in SUBSET Op /\ slots \in SUBSET Op
  BY <1>t DEF CacheTypeOK
<1>s. ASSUME CacheTypeOK', KeyTypeOK', EntriesUnique', ClaimsUnique' PROVE BaseInv'
  BY <1>s, <1>t, TypePartsNext DEF BaseInv
<1>k. UNCHANGED <<keys, claims, forgotten>> => KeyTypeOK' /\ ClaimsUnique'
  BY <1>t DEF BaseInv, KeyTypeOK, ClaimsUnique
<1>r. Rebinds => KeyTypeOK' /\ ClaimsUnique'
  BY DEF Rebinds, KeyTypeOK
<1>1. ASSUME NEW k \in Key, NEW o \in Op, Refuses(k, o)
      PROVE  BaseInv'
  <2>1. CacheTypeOK'
    BY <1>1, <1>t DEF Refuses, CacheTypeOK
  <2>2. EntriesUnique'
    BY <1>1 DEF Refuses, BaseInv, EntriesUnique
  <2> QED BY <1>1, <1>r, <1>s, <2>1, <2>2 DEF Refuses
<1>2. ASSUME NEW k \in Key, NEW o \in Op, Admits(k, o)
      PROVE  BaseInv'
  <2>1. owners \cup {o} \in SUBSET Op
    BY <1>o
  <2>2. /\ operations' \in Seq(Entry) /\ EntriesUnique'
        /\ owners' \in SUBSET Op /\ late' \in SUBSET Op
    BY <1>2, <2>1, SavedTypes DEF Admits, BaseInv
  <2>3. CacheTypeOK'
    BY <1>2, <1>o, <2>2 DEF Admits, CacheTypeOK
  <2> QED BY <1>2, <1>r, <1>s, <2>2, <2>3 DEF Admits
<1>3. ASSUME NEW n \in DOMAIN tasks, NEW at, NEW status, TaskSaves(n, at, status)
      PROVE  BaseInv'
  <2>1. /\ operations' \in Seq(Entry) /\ EntriesUnique'
        /\ owners' \in SUBSET Op /\ late' \in SUBSET Op
    BY <1>3, <1>o, SavedTypes DEF TaskSaves, BaseInv
  <2>2. UNCHANGED <<keys, claims, slots, forgotten>> /\ tasks' \in Seq(Task)
    BY <1>3 DEF TaskSaves
  <2>3. CacheTypeOK'
    BY <1>o, <2>1, <2>2 DEF CacheTypeOK
  <2> QED BY <1>k, <1>s, <2>1, <2>2, <2>3
<1>4. ASSUME NEW n \in DOMAIN tasks, NEW at, TaskReleases(n, at)
      PROVE  BaseInv'
  <2>1. owners' \in SUBSET Op /\ slots' \in SUBSET Op
    BY <1>4, <1>o DEF TaskReleases
  <2>2. UNCHANGED <<operations, keys, claims, forgotten, late>> /\ tasks' \in Seq(Task)
    BY <1>4 DEF TaskReleases
  <2>3. CacheTypeOK'
    BY <1>t, <2>1, <2>2 DEF CacheTypeOK
  <2>4. EntriesUnique'
    BY <2>2 DEF BaseInv, EntriesUnique
  <2> QED BY <1>k, <1>s, <2>2, <2>3, <2>4
<1>5. CASE UNCHANGED <<operations, keys, claims, owners, slots, tasks, forgotten, late>>
  <2>1. CacheTypeOK' /\ EntriesUnique'
    BY <1>5, <1>t DEF CacheTypeOK, BaseInv, EntriesUnique
  <2> QED BY <1>5, <1>k, <1>s, <2>1
<1> QED BY <1>1, <1>2, <1>3, <1>4, <1>5, StepKinds DEF StepKind

-----------------------------------------------------------------------------
(***************************************************************************)
(* Work and what keeps it.                                                 *)
(***************************************************************************)
OpOf(n) == tasks[n].op

\* n has not given its lease back, and was not evicted while it had.
Leased(n) == tasks[n].at \in Live \cup {"holding", "ended"} /\ OpOf(n) \notin late

CachedLive(o) == \E x \in ToSet(operations) : x.op = o /\ x.status \in Live

LeaseInv ==
    \A n \in DOMAIN tasks : Leased(n) =>
        /\ OpOf(n) \in owners
        /\ \A m \in DOMAIN tasks : Leased(m) /\ OpOf(m) = OpOf(n) => m = n

CachedInv == \A n \in Working : OpOf(n) \notin late => CachedLive(OpOf(n))

\* What remembers an admitted operation.
BoundInv ==
    \A n \in DOMAIN tasks : OpOf(n) \notin forgotten =>
        Bound(tasks[n].key, OpOf(n)) \in ToSet(keys) \cap ToSet(claims)

SlotInv == \A n \in Working : OpOf(n) \in slots \cup forgotten

WorkInv == LeaseInv /\ CachedInv
MemoryInv == BoundInv /\ RepeatedOnlyIfForgotten /\ SlotInv

IInv == BaseInv /\ WorkInv /\ MemoryInv

\* After a save, an operation that was leased and not late is kept.
LEMMA SaveKeepsLease ==
    ASSUME NEW e, NEW owned, NEW gone, SavedBy(e, owned, gone),
           NEW n \in DOMAIN tasks', Leased(n)', tasks'[n].op \in owned,
           tasks'[n].at \in Live => \E x : Saved(e, x) /\ x.op = tasks'[n].op /\ x.status \in Live
    PROVE  /\ tasks'[n].op \in owners'
           /\ tasks'[n].at \in Live => CachedLive(tasks[n].op)'
<1> DEFINE o == tasks'[n].op
<1>0. /\ owners' = owned \ gone
      /\ \A m \in DOMAIN tasks' :
           tasks'[m].op \in gone /\ tasks'[m].at \in {"holding", "ended"} => tasks'[m].op \in late'
      /\ \A x : Saved(e, x) /\ x.status \in Live => x.op \notin gone /\ x \in ToSet(operations')
  BY DEF SavedBy
<1>1. tasks'[n].at \in Live \cup {"holding", "ended"} /\ o \notin late'
  BY DEF Leased, OpOf
<1>2. CASE tasks'[n].at \in Live
  <2>1. PICK x : Saved(e, x) /\ x.op = o /\ x.status \in Live
    BY <1>2
  <2>2. o \notin gone /\ x \in ToSet(operations')
    BY <1>0, <2>1
  <2> QED BY <1>0, <2>1, <2>2 DEF CachedLive
<1>3. CASE tasks'[n].at \notin Live
  BY <1>0, <1>1, <1>3
<1> QED BY <1>2, <1>3

LEMMA LateGrows ==
    ASSUME NEW e, NEW owned, NEW gone, SavedBy(e, owned, gone)
    PROVE  late \subseteq late'
BY DEF SavedBy

LEMMA SavingKeepsWork ==
    ASSUME BaseInv, WorkInv, NEW n \in DOMAIN tasks, NEW at, NEW status, TaskSaves(n, at, status)
    PROVE  WorkInv'
<1> DEFINE e == EntryBy(n, status)
<1>1. PICK gone : SavedBy(e, owners, gone)
  BY SaveEffects DEF TaskSaves, BaseInv
<1>2. late \subseteq late'
  BY <1>1, LateGrows
<1>3. /\ DOMAIN tasks' = DOMAIN tasks
      /\ \A m \in DOMAIN tasks : OpOf(m)' = OpOf(m)
      /\ \A m \in DOMAIN tasks : m # n => tasks'[m].at = tasks[m].at
      /\ tasks'[n].at = at /\ tasks[n].at \in Live
      /\ at \in Live => status \in Live
  BY DEF TaskSaves, TaskMoves, OpOf, Live
<1>4. e.op = OpOf(n) /\ e.status = status
  BY DEF EntryBy, OpOf
<1> HIDE DEF e
<1>5. \A m \in DOMAIN tasks : Leased(m)' => Leased(m)
  BY <1>2, <1>3 DEF Leased
<1>6. ASSUME NEW m \in DOMAIN tasks, Leased(m)', tasks'[m].at \in Live
      PROVE  \E x : Saved(e, x) /\ x.op = tasks'[m].op /\ x.status \in Live
  <2>1. CASE m = n
    BY <1>3, <1>4, <1>6, <2>1 DEF Saved, OpOf
  <2>2. CASE m # n
    <3>1. Leased(m) /\ tasks[m].at \in Live /\ OpOf(m) \notin late
      BY <1>3, <1>5, <1>6, <2>2 DEF Leased
    <3>2. PICK x \in ToSet(operations) : x.op = OpOf(m) /\ x.status \in Live
      BY <3>1 DEF WorkInv, CachedInv, Working, CachedLive
    <3>3. OpOf(m) # OpOf(n)
      BY <1>3, <2>2, <3>1 DEF WorkInv, LeaseInv, Leased
    <3>4. Saved(e, x)
      BY <1>4, <3>2, <3>3 DEF Saved
    <3> QED BY <1>3, <3>2, <3>4 DEF OpOf
  <2> QED BY <2>1, <2>2
<1>7. ASSUME NEW m \in DOMAIN tasks, Leased(m)'
      PROVE  OpOf(m)' \in owners' /\ (tasks'[m].at \in Live => CachedLive(OpOf(m))')
  <2>1. tasks'[m].op \in owners
    BY <1>3, <1>5, <1>7 DEF WorkInv, LeaseInv, OpOf
  <2> QED BY <1>1, <1>3, <1>6, <1>7, <2>1, SaveKeepsLease DEF OpOf
<1>8. LeaseInv'
  BY <1>3, <1>5, <1>7 DEF LeaseInv, WorkInv
<1>9. CachedInv'
  BY <1>3, <1>7 DEF CachedInv, Working, Leased
<1> QED BY <1>8, <1>9 DEF WorkInv

LEMMA AdmittingKeepsWork ==
    ASSUME BaseInv, WorkInv, NEW k \in Key, NEW o \in Op, Admits(k, o)
    PROVE  WorkInv'
<1> DEFINE e == [op |-> o, key |-> k, status |-> "queued"]
           new == Len(tasks) + 1
<1>1. PICK gone : SavedBy(e, owners \cup {o}, gone)
  BY SaveEffects DEF Admits, BaseInv
<1>2. late \subseteq late'
  BY <1>1, LateGrows
<1>3. /\ DOMAIN tasks' = DOMAIN tasks \cup {new} /\ new \notin DOMAIN tasks
      /\ \A m \in DOMAIN tasks : tasks'[m] = tasks[m]
      /\ tasks'[new].op = o /\ tasks'[new].at = "queued"
      /\ o \notin owners
  BY DEF Admits, TaskAdded
<1>4. e.op = o /\ e.status \in Live
  BY DEF Live
<1> HIDE DEF e, new
<1>5. \A m \in DOMAIN tasks : Leased(m)' => Leased(m) /\ OpOf(m) \in owners /\ OpOf(m) # o
  BY <1>2, <1>3 DEF Leased, OpOf, WorkInv, LeaseInv
<1>6. ASSUME NEW m \in DOMAIN tasks', Leased(m)', tasks'[m].at \in Live
      PROVE  \E x : Saved(e, x) /\ x.op = tasks'[m].op /\ x.status \in Live
  <2>1. CASE m = new
    BY <1>3, <1>4, <2>1 DEF Saved
  <2>2. CASE m # new
    <3>1. m \in DOMAIN tasks /\ tasks'[m] = tasks[m]
      BY <1>3, <2>2
    <3>2. Leased(m) /\ tasks[m].at \in Live /\ OpOf(m) \notin late /\ OpOf(m) # o
      BY <1>5, <1>6, <3>1 DEF Leased
    <3>3. PICK x \in ToSet(operations) : x.op = OpOf(m) /\ x.status \in Live
      BY <3>1, <3>2 DEF WorkInv, CachedInv, Working, CachedLive
    <3>4. Saved(e, x)
      BY <1>4, <3>2, <3>3 DEF Saved
    <3> QED BY <3>1, <3>3, <3>4 DEF OpOf
  <2> QED BY <2>1, <2>2
<1>7. ASSUME NEW m \in DOMAIN tasks', Leased(m)'
      PROVE  OpOf(m)' \in owners' /\ (tasks'[m].at \in Live => CachedLive(OpOf(m))')
  <2>1. tasks'[m].op \in owners \cup {o}
    BY <1>3, <1>5, <1>7 DEF OpOf
  <2> QED BY <1>1, <1>6, <1>7, <2>1, SaveKeepsLease DEF OpOf
<1>8. LeaseInv'
  <2> SUFFICES ASSUME NEW m \in DOMAIN tasks', NEW l \in DOMAIN tasks', Leased(m)', Leased(l)',
                      OpOf(m)' = OpOf(l)'
               PROVE  m = l
    BY <1>7 DEF LeaseInv
  <2>1. CASE m \in DOMAIN tasks /\ l \in DOMAIN tasks
    BY <1>3, <1>5, <2>1 DEF WorkInv, LeaseInv, OpOf
  <2>2. CASE m = new \/ l = new
    BY <1>3, <1>5, <2>2 DEF OpOf
  <2> QED BY <1>3, <2>1, <2>2
<1>9. CachedInv'
  BY <1>7 DEF CachedInv, Working, Leased
<1> QED BY <1>8, <1>9 DEF WorkInv

LEMMA ReleasingKeepsWork ==
    ASSUME WorkInv, NEW n \in DOMAIN tasks, NEW at, TaskReleases(n, at)
    PROVE  WorkInv'
<1>1. /\ DOMAIN tasks' = DOMAIN tasks
      /\ \A m \in DOMAIN tasks : OpOf(m)' = OpOf(m)
      /\ \A m \in DOMAIN tasks : m # n => tasks'[m].at = tasks[m].at
      /\ tasks'[n].at = at
      /\ UNCHANGED <<operations, late>>
      /\ at \notin Live
  BY DEF TaskReleases, TaskMoves, OpOf, Live
<1>2. \A m \in DOMAIN tasks : Leased(m)' => Leased(m)
  BY <1>1 DEF Leased, TaskReleases
<1>3. ASSUME NEW m \in DOMAIN tasks, Leased(m)'
      PROVE  OpOf(m)' \in owners'
  <2>1. OpOf(m) \in owners /\ Leased(m)
    BY <1>2, <1>3 DEF WorkInv, LeaseInv
  <2>2. CASE owners' = owners
    BY <1>1, <2>1, <2>2
  <2>3. CASE tasks[n].at = "ended" /\ at = "released" /\ owners' = owners \ {tasks[n].op}
    <3>1. m # n
      BY <1>1, <1>3, <2>3 DEF Leased, Live
    <3>2. OpOf(m) # OpOf(n)
      BY <2>1, <2>3, <3>1 DEF WorkInv, LeaseInv, Leased
    <3> QED BY <1>1, <2>1, <2>3, <3>2 DEF OpOf
  <2> QED BY <2>2, <2>3 DEF TaskReleases
<1>4. LeaseInv'
  BY <1>1, <1>2, <1>3 DEF WorkInv, LeaseInv
<1>5. CachedInv'
  <2>1. \A m \in Working' : m \in Working
    BY <1>1 DEF Working
  <2> QED BY <1>1, <2>1 DEF WorkInv, CachedInv, CachedLive, OpOf, Working
<1> QED BY <1>4, <1>5 DEF WorkInv

-----------------------------------------------------------------------------
(***************************************************************************)
(* Memory of what was admitted.                                            *)
(***************************************************************************)
\* A request that gets past key and claim finds only forgotten operations.
LEMMA OnlyForgottenPass ==
    ASSUME BaseInv, BoundInv, NEW k, NEW o, ~KeyBound(k), IdClaimable(k, o),
           NEW n \in DOMAIN tasks, OpOf(n) = o
    PROVE  o \in forgotten
<1> SUFFICES ASSUME o \notin forgotten PROVE FALSE
  OBVIOUS
<1> DEFINE b == Bound(tasks[n].key, o)
<1>1. b \in ToSet(keys) /\ b \in ToSet(claims)
  BY DEF BoundInv
<1>2. b.op = o /\ b.key = tasks[n].key
  BY DEF Bound
<1>3. Bound(k, o) \in ToSet(claims) /\ Bound(k, o).op = o /\ Bound(k, o).key = k
  <2>1. OpClaimed(o)
    BY <1>1, <1>2 DEF OpClaimed
  <2> QED BY <2>1 DEF IdClaimable, Bound
<1> HIDE DEF b
<1>4. b = Bound(k, o)
  BY <1>1, <1>2, <1>3 DEF BaseInv, ClaimsUnique
<1>5. b.key = k
  BY <1>3, <1>4
<1> QED BY <1>1, <1>5 DEF KeyBound

\* What is not forgotten stays bound.
LEMMA StaysBound ==
    ASSUME Rebinds, NEW k, NEW o, o \notin forgotten',
           Bound(k, o) \in ToSet(keys) \cap ToSet(claims)
    PROVE  Bound(k, o) \in ToSet(keys') \cap ToSet(claims')
<1> DEFINE b == Bound(k, o)
<1>1. b.op = o
  BY DEF Bound
<1> HIDE DEF b
<1>2. b \in ToSet(keys) /\ b \in ToSet(claims)
  BY DEF b
<1>3. b \in ToSet(keys')
  BY <1>1, <1>2 DEF Rebinds, Lost
<1>4. b \in ToSet(claims')
  BY <1>1, <1>2 DEF Rebinds, Lost
<1> QED BY <1>3, <1>4 DEF b

\* Steps that admit nothing.
LEMMA NoNewTask ==
    ASSUME MemoryInv, Rebinds, DOMAIN tasks' = DOMAIN tasks,
           \A n \in DOMAIN tasks : OpOf(n)' = OpOf(n) /\ tasks'[n].key = tasks[n].key
    PROVE  BoundInv' /\ RepeatedOnlyIfForgotten'
<1>1. forgotten \subseteq forgotten'
  BY DEF Rebinds
<1>2. ASSUME NEW n \in DOMAIN tasks, OpOf(n)' \notin forgotten'
      PROVE  Bound(tasks[n].key, OpOf(n))' \in ToSet(keys') \cap ToSet(claims')
  <2>1. Bound(tasks[n].key, OpOf(n)) \in ToSet(keys) \cap ToSet(claims)
    BY <1>1, <1>2 DEF MemoryInv, BoundInv
  <2>2. Bound(tasks[n].key, OpOf(n)) \in ToSet(keys') \cap ToSet(claims')
    BY <1>2, <2>1, StaysBound
  <2> QED BY <2>2 DEF Bound
<1>3. BoundInv'
  BY <1>2 DEF BoundInv
<1>4. RepeatedOnlyIfForgotten'
  BY <1>1 DEF MemoryInv, RepeatedOnlyIfForgotten, OpOf
<1> QED BY <1>3, <1>4

LEMMA RefusingKeepsMemory ==
    ASSUME BaseInv, MemoryInv, NEW k \in Key, NEW o \in Op, Refuses(k, o)
    PROVE  MemoryInv'
<1>1. UNCHANGED tasks /\ Rebinds
  BY DEF Refuses
<1>2. \A n \in DOMAIN tasks : OpOf(n)' = OpOf(n) /\ tasks'[n].key = tasks[n].key
  BY <1>1 DEF OpOf
<1>3. BoundInv' /\ RepeatedOnlyIfForgotten'
  BY <1>1, <1>2, NoNewTask
<1>4. ASSUME NEW n \in Working
      PROVE  OpOf(n) \in slots' \cup forgotten'
  <2>1. OpOf(n) \in slots \cup forgotten /\ forgotten \subseteq forgotten' /\ n \in DOMAIN tasks
    BY <1>1, <1>4 DEF MemoryInv, SlotInv, Rebinds, Working
  <2>2. CASE OpOf(n) = o /\ ~KeyBound(k) /\ IdClaimable(k, o)
    BY <2>1, <2>2, OnlyForgottenPass DEF MemoryInv
  <2> QED BY <2>1, <2>2 DEF Refuses
<1>5. SlotInv'
  BY <1>1, <1>4 DEF SlotInv, Working, OpOf
<1> QED BY <1>3, <1>5 DEF MemoryInv

LEMMA AdmittingKeepsMemory ==
    ASSUME BaseInv, MemoryInv, NEW k \in Key, NEW o \in Op, Admits(k, o)
    PROVE  MemoryInv'
<1> DEFINE new == Len(tasks) + 1
<1>1. /\ DOMAIN tasks' = DOMAIN tasks \cup {new} /\ new \notin DOMAIN tasks
      /\ \A m \in DOMAIN tasks : tasks'[m] = tasks[m]
      /\ tasks'[new].op = o /\ tasks'[new].key = k
      /\ Bound(k, o) \in ToSet(keys') \cap ToSet(claims')
      /\ Rebinds /\ forgotten \subseteq forgotten'
      /\ slots' = slots \cup {o}
  BY DEF Admits, TaskAdded, Rebinds
<1> HIDE DEF new
<1>2. \A n \in DOMAIN tasks : OpOf(n) = o => o \in forgotten
  BY OnlyForgottenPass DEF Admits, MemoryInv
<1>3. ASSUME NEW n \in DOMAIN tasks', tasks'[n].op \notin forgotten'
      PROVE  Bound(tasks'[n].key, tasks'[n].op) \in ToSet(keys') \cap ToSet(claims')
  <2>1. CASE n = new
    BY <1>1, <2>1
  <2>2. CASE n # new
    <3>1. n \in DOMAIN tasks /\ tasks'[n] = tasks[n] /\ OpOf(n) \notin forgotten'
      BY <1>1, <1>3, <2>2 DEF OpOf
    <3>2. Bound(tasks[n].key, OpOf(n)) \in ToSet(keys) \cap ToSet(claims)
      BY <1>1, <3>1 DEF MemoryInv, BoundInv
    <3>3. Bound(tasks[n].key, OpOf(n)) \in ToSet(keys') \cap ToSet(claims')
      BY <1>1, <3>1, <3>2, StaysBound
    <3> QED BY <3>1, <3>3 DEF OpOf
  <2> QED BY <2>1, <2>2
<1>4. BoundInv'
  BY <1>3 DEF BoundInv, OpOf, Bound
<1>5. RepeatedOnlyIfForgotten'
  BY <1>1, <1>2 DEF MemoryInv, RepeatedOnlyIfForgotten, OpOf
<1>6. SlotInv'
  BY <1>1 DEF MemoryInv, SlotInv, Working, OpOf
<1> QED BY <1>4, <1>5, <1>6 DEF MemoryInv

LEMMA TaskKeepsMemory ==
    ASSUME BaseInv, MemoryInv, NEW n \in DOMAIN tasks, NEW at, NEW status,
           TaskSaves(n, at, status) \/ TaskReleases(n, at)
    PROVE  MemoryInv'
<1>1. TaskMoves(n, at) /\ UNCHANGED <<keys, claims, forgotten>>
  BY DEF TaskSaves, TaskReleases
<1>2. Rebinds
  BY <1>1, SameBindings DEF BaseInv
<1>3. /\ DOMAIN tasks' = DOMAIN tasks
      /\ \A m \in DOMAIN tasks : OpOf(m)' = OpOf(m) /\ tasks'[m].key = tasks[m].key
      /\ \A m \in DOMAIN tasks : m # n => tasks'[m].at = tasks[m].at
      /\ tasks'[n].at = at
  BY <1>1 DEF TaskMoves, OpOf
<1>4. BoundInv' /\ RepeatedOnlyIfForgotten'
  BY <1>2, <1>3, NoNewTask
<1>5. \A m \in Working' : m \in Working /\ OpOf(m) \in slots \cup forgotten
  BY <1>3 DEF TaskSaves, TaskReleases, Working, Live, MemoryInv, SlotInv
<1>s. ASSUME \A m \in Working' : OpOf(m) \in slots' \cup forgotten'
      PROVE  SlotInv'
  <2>1. ASSUME NEW m \in Working'
        PROVE  OpOf(m)' \in slots' \cup forgotten'
    <3>1. m \in DOMAIN tasks
      BY <1>5 DEF Working
    <3>2. OpOf(m)' = OpOf(m)
      BY <1>3, <3>1
    <3> QED BY <1>s, <3>2
  <2> QED BY <2>1 DEF SlotInv
<1>f. forgotten' = forgotten
  BY <1>1
<1>6. CASE slots' = slots
  BY <1>4, <1>5, <1>6, <1>f, <1>s DEF MemoryInv
<1>7. CASE slots' = slots \ {tasks[n].op} /\ at = "done"
  <2>1. ASSUME NEW m \in Working', OpOf(m) \notin forgotten
        PROVE  OpOf(m) # OpOf(n)
    <3>1. m # n /\ m \in DOMAIN tasks
      BY <1>3, <1>7, <2>1 DEF Working, Live
    <3> QED BY <2>1, <3>1 DEF MemoryInv, RepeatedOnlyIfForgotten, OpOf
  <2>2. slots' = slots \ {OpOf(n)}
    BY <1>7 DEF OpOf
  <2>3. ASSUME NEW m \in Working'
        PROVE  OpOf(m) \in slots' \cup forgotten'
    BY <1>5, <1>f, <2>1, <2>2
  <2> QED BY <1>4, <1>s, <2>3 DEF MemoryInv
<1> QED BY <1>6, <1>7 DEF TaskSaves, TaskReleases

\* The invariant is inductive.
LEMMA IInvInductive == IInv /\ [Next]_vars => IInv'
<1> SUFFICES ASSUME BaseInv, WorkInv, MemoryInv, [Next]_vars
             PROVE  IInv'
  BY DEF IInv
<1>1. BaseInv'
  BY TypesKept
<1>2. ASSUME NEW k \in Key, NEW o \in Op, Refuses(k, o)
      PROVE  WorkInv' /\ MemoryInv'
  <2>1. WorkInv'
    BY <1>2 DEF Refuses, WorkInv, LeaseInv, Leased, CachedInv, CachedLive, Working, OpOf
  <2> QED BY <1>2, <2>1, RefusingKeepsMemory
<1>3. ASSUME NEW k \in Key, NEW o \in Op, Admits(k, o)
      PROVE  WorkInv' /\ MemoryInv'
  BY <1>3, AdmittingKeepsWork, AdmittingKeepsMemory
<1>4. ASSUME NEW n \in DOMAIN tasks, NEW at, NEW status, TaskSaves(n, at, status)
      PROVE  WorkInv' /\ MemoryInv'
  BY <1>4, SavingKeepsWork, TaskKeepsMemory
<1>5. ASSUME NEW n \in DOMAIN tasks, NEW at, TaskReleases(n, at)
      PROVE  WorkInv' /\ MemoryInv'
  BY <1>5, ReleasingKeepsWork, TaskKeepsMemory
<1>6. ASSUME UNCHANGED <<operations, keys, claims, owners, slots, tasks, forgotten, late>>
      PROVE  WorkInv' /\ MemoryInv'
  <2>1. LeaseInv'
    BY <1>6 DEF WorkInv, LeaseInv, Leased, OpOf
  <2>2. CachedInv'
    BY <1>6 DEF WorkInv, CachedInv, CachedLive, Working, OpOf
  <2>3. BoundInv' /\ RepeatedOnlyIfForgotten'
    BY <1>6 DEF MemoryInv, BoundInv, Bound, RepeatedOnlyIfForgotten, OpOf
  <2>4. SlotInv'
    BY <1>6 DEF MemoryInv, SlotInv, Working, OpOf
  <2>5. WorkInv'
    BY <2>1, <2>2 DEF WorkInv
  <2>6. MemoryInv'
    BY <2>3, <2>4 DEF MemoryInv
  <2> QED BY <2>5, <2>6
<1>7. StepKind
  BY StepKinds
<1>8. WorkInv' /\ MemoryInv'
  <2>1. CASE \E k \in Key, o \in Op : Refuses(k, o) \/ Admits(k, o)
    BY <1>2, <1>3, <2>1
  <2>2. CASE \E n \in DOMAIN tasks : \E at, status : TaskSaves(n, at, status)
    BY <1>4, <2>2
  <2>3. CASE \E n \in DOMAIN tasks : \E at : TaskReleases(n, at)
    BY <1>5, <2>3
  <2>4. \/ \E k \in Key, o \in Op : Refuses(k, o) \/ Admits(k, o)
        \/ \E n \in DOMAIN tasks : \E at, status : TaskSaves(n, at, status)
        \/ \E n \in DOMAIN tasks : \E at : TaskReleases(n, at)
        \/ UNCHANGED <<operations, keys, claims, owners, slots, tasks, forgotten, late>>
    BY <1>7, Zenon DEF StepKind
  <2> QED BY <1>6, <2>1, <2>2, <2>3, <2>4, Zenon
<1> QED BY <1>1, <1>8 DEF IInv

LEMMA IInvStart == Init => IInv
<1> SUFFICES ASSUME Init PROVE IInv
  OBVIOUS
<1>1. ToSet(operations) = {} /\ ToSet(claims) = {} /\ DOMAIN tasks = {}
  BY DEF Init, ToSet
<1>2. TypeOK
  <2>1. Limit \in Nat /\ ReservationLimit \in Nat
    BY CacheAssumption DEF CacheAssumption
  <2> QED BY <2>1 DEF Init, TypeOK
<1>3. BaseInv
  BY <1>1, <1>2 DEF BaseInv, EntriesUnique, ClaimsUnique
<1>4. WorkInv /\ MemoryInv
  BY <1>1 DEF WorkInv, LeaseInv, CachedInv, Working, MemoryInv, BoundInv, SlotInv,
     RepeatedOnlyIfForgotten
<1> QED BY <1>3, <1>4 DEF IInv

LEMMA IInvAlways == Spec => []IInv
BY IInvStart, IInvInductive, PTL DEF Spec

(***************************************************************************)
(* Types: maps stay within their bounds, the counter within the ceiling.   *)
(***************************************************************************)
THEOREM CacheTypeCorrect == Spec => []TypeOK
<1>1. IInv => TypeOK
  BY DEF IInv, BaseInv
<1> QED BY <1>1, IInvAlways, PTL

(***************************************************************************)
(* No two tasks run one operation, whatever the bounds pushed out.         *)
(***************************************************************************)
THEOREM NoWorkTwice == Spec => []NoDuplicateWork
<1>1. IInv => NoDuplicateWork
  BY DEF IInv, WorkInv, LeaseInv, Leased, OpOf, Working, NoDuplicateWork
<1> QED BY <1>1, IInvAlways, PTL

(***************************************************************************)
(* Running work is never evicted and keeps its lease, and its slot unless  *)
(* it was forgotten.                                                       *)
(***************************************************************************)
THEOREM WorkKept == Spec => []WorkIsKept
<1>1. ASSUME IInv, NEW n \in Working
      PROVE  /\ tasks[n].op \notin late =>
                  /\ Cached(tasks[n].op) /\ EntryOf(tasks[n].op).status \in Live
                  /\ tasks[n].op \in owners
             /\ tasks[n].op \in slots \cup forgotten
  <2>1. n \in DOMAIN tasks /\ tasks[n].at \in Live
    BY <1>1 DEF Working
  <2>2. tasks[n].op \in slots \cup forgotten
    BY <1>1 DEF IInv, MemoryInv, SlotInv, OpOf
  <2>3. ASSUME tasks[n].op \notin late
        PROVE  /\ Cached(tasks[n].op) /\ EntryOf(tasks[n].op).status \in Live
               /\ tasks[n].op \in owners
    <3>1. tasks[n].op \in owners
      BY <1>1, <2>1, <2>3 DEF IInv, WorkInv, LeaseInv, Leased, OpOf
    <3>2. PICK x \in ToSet(operations) : x.op = tasks[n].op /\ x.status \in Live
      BY <1>1, <2>3 DEF IInv, WorkInv, CachedInv, CachedLive, OpOf
    <3>3. EntryOf(tasks[n].op) = x
      BY <1>1, <3>2 DEF EntryOf, IInv, BaseInv, EntriesUnique
    <3> QED BY <3>1, <3>2, <3>3 DEF Cached
  <2> QED BY <2>2, <2>3
<1>2. IInv => WorkIsKept
  BY <1>1 DEF WorkIsKept
<1> QED BY <1>2, IInvAlways, PTL

(***************************************************************************)
(* Only a forgotten operation is admitted again.                           *)
(***************************************************************************)
THEOREM RepeatsForgottenOnly == Spec => []RepeatedOnlyIfForgotten
<1>1. IInv => RepeatedOnlyIfForgotten
  BY DEF IInv, MemoryInv
<1> QED BY <1>1, IInvAlways, PTL
-----------------------------------------------------------------------------
(***************************************************************************)
(* The counter against the reservations.                                   *)
(***************************************************************************)
SpentInv == spent = SumOver(reserved, Op)

LEMMA HeldTotalIs == ASSUME NEW h PROVE Budget!HeldTotal(h) = SumOver(h, Op)
BY DEF Budget!HeldTotal, Budget!MapThenSumSet, Budget!MapThenFoldSet,
       SumOver, MapThenSumSet, MapThenFoldSet

LEMMA ReservedSummable == ASSUME LedgerTypeOK PROVE Summable(reserved, Op)
BY LedgerNumbers, CacheAssumption DEF Summable, CacheAssumption

\* One reservation is made or dropped.
LEMMA ChangedTotal ==
    ASSUME LedgerTypeOK, NEW o \in Op, NEW n \in Nat,
           reserved' = [reserved EXCEPT ![o] = n]
    PROVE  /\ SumOver(reserved', Op) = (SumOver(reserved, Op) - reserved[o]) + n
           /\ SumOver(reserved, Op) \in Nat
           /\ reserved[o] \in Nat /\ reserved[o] <= SumOver(reserved, Op)
<1> DEFINE h == reserved
           g == reserved'
<1>1. Summable(h, Op) /\ DOMAIN h = Op /\ g = [h EXCEPT ![o] = n]
  BY ReservedSummable DEF LedgerTypeOK
<1> HIDE DEF g, h
<1>2. g[o] = n /\ \A p \in Op \ {o} : h[p] = g[p]
  BY <1>1
<1>3. Summable(g, Op)
  BY <1>1, <1>2 DEF Summable
<1>4. SumOver(g, Op) = (SumOver(h, Op) - h[o]) + g[o]
  <2>1. Summable(h, Op)
    BY <1>1
  <2> QED BY <1>2, <1>3, <2>1, SumChanges
<1>5. SumOver(h, Op) \in Nat /\ h[o] <= SumOver(h, Op) /\ h[o] \in Nat
  BY <1>1, SumIsNatural, SumBounds DEF Summable
<1> QED BY <1>2, <1>4, <1>5 DEF g, h

LEMMA NothingReserved ==
    ASSUME NEW h, h = [o \in Op |-> 0]
    PROVE  SumOver(h, Op) = 0
<1>1. \A o \in Op : h[o] = 0
  OBVIOUS
<1>2. Summable(h, Op)
  BY <1>1, CacheAssumption DEF Summable, CacheAssumption
<1> QED BY <1>1, <1>2, SumOfNothing

\* What a step does to the budget.
BudgetMoves == SpentInv' /\ [Budget!Next]_reserved

LEMMA BudgetIdle == ASSUME SpentInv, UNCHANGED ledger PROVE BudgetMoves
BY DEF SpentInv, ledger, BudgetMoves

LEMMA BudgetTaken ==
    ASSUME LedgerTypeOK, SpentInv, NEW o \in Op, NEW amount \in Amounts,
           CanReserve(o, amount), ReserveSpend(o, amount)
    PROVE  BudgetMoves
<1>1. CASE amount = 0 \/ reserved[o] # 0
  BY <1>1, BudgetIdle DEF ReserveSpend
<1>2. CASE ~(amount = 0 \/ reserved[o] # 0)
  <2>1. /\ spent' = spent + amount /\ spent + amount <= Limit /\ reserved[o] = 0
        /\ reserved' = [reserved EXCEPT ![o] = amount]
    BY <1>2 DEF ReserveSpend, CanReserve
  <2>2. amount \in Nat /\ spent = SumOver(reserved, Op)
    BY LedgerNumbers DEF SpentInv
  <2>3. /\ SumOver(reserved', Op) = (SumOver(reserved, Op) - reserved[o]) + amount
        /\ SumOver(reserved, Op) \in Nat
    BY <2>1, <2>2, ChangedTotal
  <2>4. SpentInv'
    BY <2>1, <2>2, <2>3 DEF SpentInv
  <2>5. Budget!Take(o, amount)
    BY <2>1, <2>2, HeldTotalIs DEF Budget!Take
  <2> QED BY <2>4, <2>5 DEF BudgetMoves, Budget!Next
<1> QED BY <1>1, <1>2

LEMMA BudgetGivenBack ==
    ASSUME LedgerTypeOK, SpentInv, NEW o \in Op, NEW amount, ReleaseSpend(o, amount)
    PROVE  BudgetMoves
<1>1. CASE amount = 0 \/ reserved[o] = 0
  BY <1>1, BudgetIdle DEF ReleaseSpend
<1>2. CASE ~(amount = 0 \/ reserved[o] = 0)
  <2>1. /\ spent' = IF reserved[o] <= spent THEN spent - reserved[o] ELSE 0
        /\ reserved' = [reserved EXCEPT ![o] = 0]
        /\ reserved[o] # 0
    BY <1>2 DEF ReleaseSpend
  <2>2. spent = SumOver(reserved, Op)
    BY DEF SpentInv
  <2>3. /\ SumOver(reserved', Op) = (SumOver(reserved, Op) - reserved[o]) + 0
        /\ SumOver(reserved, Op) \in Nat
        /\ reserved[o] \in Nat /\ reserved[o] <= SumOver(reserved, Op)
    <3>1. 0 \in Nat
      OBVIOUS
    <3> QED BY <2>1, <3>1, ChangedTotal
  <2>4. SpentInv'
    BY <2>1, <2>2, <2>3 DEF SpentInv
  <2>5. Budget!GiveBack(o)
    BY <2>1 DEF Budget!GiveBack
  <2> QED BY <2>4, <2>5 DEF BudgetMoves, Budget!Next
<1> QED BY <1>1, <1>2

LEMMA BudgetReset == ASSUME ResetSpendWindow PROVE BudgetMoves
<1>1. spent' = 0 /\ reserved' = [o \in Op |-> 0]
  BY DEF ResetSpendWindow
<1>2. SpentInv'
  BY <1>1, NothingReserved DEF SpentInv
<1>3. Budget!NewDay
  BY <1>1 DEF Budget!NewDay
<1> QED BY <1>2, <1>3 DEF BudgetMoves, Budget!Next

LEMMA BudgetSteps ==
    ASSUME TypeOK, SpentInv, [Next]_vars
    PROVE  BudgetMoves
<1>t. LedgerTypeOK
  BY TypeParts
<1>1. ASSUME NEW o \in Op, NEW amount \in Amounts,
             \/ CanReserve(o, amount) /\ ReserveSpend(o, amount)
             \/ ReleaseSpend(o, amount)
             \/ UNCHANGED ledger
      PROVE  BudgetMoves
  BY <1>1, <1>t, BudgetTaken, BudgetGivenBack, BudgetIdle
<1>2. ASSUME NEW n \in DOMAIN tasks,
             Run(n) \/ Succeed(n) \/ Fail(n) \/ ReleaseHold(n) \/ ReleaseLease(n) \/ ReleaseSlot(n)
      PROVE  BudgetMoves
  <2>1. tasks[n].op \in Op /\ tasks[n].amount \in Amounts
    BY TasksTyped
  <2> QED BY <1>1, <1>2, <2>1
          DEF Run, Succeed, Fail, ReleaseHold, ReleaseLease, ReleaseSlot
<1>3. ASSUME NEW k \in Key, NEW o \in Op,
             \/ RefuseEarly(k, o)
             \/ \E amount \in Amounts :
                   RefuseId(k, o, amount) \/ RefuseLate(k, o, amount) \/ Admit(k, o, amount)
      PROVE  BudgetMoves
  BY <1>1, <1>3, BudgetIdle DEF RefuseEarly, RefuseId, RefuseLate, Admit
<1>4. CASE UNCHANGED vars
  BY <1>4, BudgetIdle DEF vars
<1> QED BY <1>2, <1>3, <1>4, BudgetReset DEF Next

(***************************************************************************)
(* The in-memory counter implements the daily budget: every step is a      *)
(* Take, a GiveBack, a NewDay or changes nothing of it.                    *)
(***************************************************************************)
THEOREM CacheBudgetImplemented == Spec => ImplementsBudget
<1>1. Init => Budget!Init /\ SpentInv
  BY NothingReserved DEF Init, Budget!Init, SpentInv
<1>2. TypeOK /\ SpentInv /\ [Next]_vars => SpentInv' /\ [Budget!Next]_reserved
  BY BudgetSteps DEF BudgetMoves
<1> QED
  BY <1>1, <1>2, CacheTypeCorrect, PTL DEF Spec, ImplementsBudget, Budget!Spec
=============================================================================
