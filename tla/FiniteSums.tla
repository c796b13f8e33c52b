----------------------------- MODULE FiniteSums -----------------------------
(***************************************************************************)
(* What the proofs about budgets need of a sum over a finite set: it is a  *)
(* natural number, any one member can be taken out of it, and so changing  *)
(* what one member contributes changes the sum by the difference.          *)
(*                                                                         *)
(* MapThenSumSet takes the members in the order of a CHOOSE; that the      *)
(* order does not matter is what has to be shown.  The proofs by induction *)
(* on the number of members look at a smallest counterexample.             *)
(***************************************************************************)
EXTENDS FiniteSetsExt, FiniteSetTheorems, TLAPS

SumOver(h, S) == MapThenSumSet(LAMBDA x : h[x], S)

\* The functions h whose sum over S is meant.
Summable(h, S) == IsFiniteSet(S) /\ \A x \in S : h[x] \in Nat

-----------------------------------------------------------------------------
\* A nonempty set of naturals has a least member.
LEMMA Least ==
    ASSUME NEW T \in SUBSET Nat, T # {}
    PROVE  \E x \in T : \A y \in T : x <= y
<1> DEFINE R == OpToRel(<, Nat)
<1>1. IsWellFoundedOn(R, Nat)
  BY NatLessThanWellFounded
<1>2. PICK x \in T : \A y \in T : ~ (<<y, x>> \in R)
  <2> HIDE DEF R
  <2> QED BY <1>1, WFMin
<1>3. \A y \in T : ~(y < x)
  BY <1>2 DEF OpToRel
<1> QED BY <1>3

\* A nonempty set of finite sets has a member of least cardinality.
LEMMA Smallest ==
    ASSUME NEW F, F # {}, \A T \in F : IsFiniteSet(T)
    PROVE  \E T \in F : \A U \in F : Cardinality(T) <= Cardinality(U)
<1> DEFINE N == {Cardinality(T) : T \in F}
<1>1. \A T \in F : Cardinality(T) \in Nat
  BY FS_CardinalityType
<1>2. N \in SUBSET Nat /\ N # {}
  BY <1>1
<1>3. PICK n \in N : \A m \in N : n <= m
  <2> HIDE DEF N
  <2> QED BY <1>2, Least
<1> QED BY <1>3

-----------------------------------------------------------------------------
(***************************************************************************)
(* The recursive function behind the sum exists.                           *)
(***************************************************************************)
Pick(s) == CHOOSE x \in s : TRUE

IsSum(g, h, S) == g = [s \in SUBSET S |-> IF s = {} THEN 0 ELSE h[Pick(s)] + g[s \ {Pick(s)}]]

SumFn(h, S) == CHOOSE g : IsSum(g, h, S)

LEMMA SumOverIs == ASSUME NEW h, NEW S PROVE SumOver(h, S) = SumFn(h, S)[S]
BY DEF SumOver, MapThenSumSet, MapThenFoldSet, SumFn, IsSum, Pick

LEMMA PickRemoves ==
    ASSUME NEW S, IsFiniteSet(S), NEW T \in SUBSET S, T # {}
    PROVE  /\ Pick(T) \in T /\ Pick(T) \in S
           /\ T \ {Pick(T)} \in SUBSET S
           /\ IsFiniteSet(T)
           /\ Cardinality(T) \in Nat /\ Cardinality(T \ {Pick(T)}) \in Nat
           /\ Cardinality(T \ {Pick(T)}) = Cardinality(T) - 1
<1>1. Pick(T) \in T
  BY DEF Pick
<1>2. IsFiniteSet(T)
  BY FS_Subset
<1>3. IsFiniteSet(T \ {Pick(T)}) /\ Cardinality(T \ {Pick(T)}) = Cardinality(T) - 1
  BY <1>1, <1>2, FS_RemoveElement
<1> QED BY <1>1, <1>2, <1>3, FS_CardinalityType

\* g satisfies the recursion for the sets of at most n members.
UpTo(g, h, S, n) ==
    \A T \in SUBSET S :
        Cardinality(T) <= n => g[T] = IF T = {} THEN 0 ELSE h[Pick(T)] + g[T \ {Pick(T)}]

LEMMA SumExists ==
    ASSUME NEW h, NEW S, Summable(h, S)
    PROVE  \E g \in [SUBSET S -> Nat] : IsSum(g, h, S)
<1>a. IsFiniteSet(S) /\ \A x \in S : h[x] \in Nat
  BY DEF Summable
<1> DEFINE Missing == {n \in Nat : ~ \E g \in [SUBSET S -> Nat] : UpTo(g, h, S, n)}
<1>1. Missing = {}
  <2> SUFFICES ASSUME Missing # {} PROVE FALSE
    OBVIOUS
  <2>1. PICK n \in Missing : \A m \in Missing : n <= m
    <3>1. Missing \in SUBSET Nat
      OBVIOUS
    <3> HIDE DEF Missing
    <3> QED BY <3>1, Least
  <2>2. CASE n = 0
    <3> DEFINE g == [T \in SUBSET S |-> 0]
    <3>1. g \in [SUBSET S -> Nat]
      OBVIOUS
    <3>2. ASSUME NEW T \in SUBSET S, Cardinality(T) <= 0
          PROVE  T = {}
      BY <1>a, <3>2, FS_Subset, FS_EmptySet, FS_CardinalityType
    <3>3. UpTo(g, h, S, 0)
      BY <3>2 DEF UpTo
    <3> QED BY <2>1, <2>2, <3>1, <3>3
  <2>3. CASE n # 0
    <3>0. n \in Nat
      OBVIOUS
    <3>1. n - 1 \in Nat /\ n - 1 \notin Missing
      <4>1. n - 1 \in Nat /\ ~(n <= n - 1)
        BY <3>0, <2>3
      <4> HIDE DEF Missing
      <4> QED BY <4>1, <2>1
    <3>2. PICK f \in [SUBSET S -> Nat] : UpTo(f, h, S, n - 1)
      BY <3>1
    <3> DEFINE g == [T \in SUBSET S |->
                       IF T # {} /\ Cardinality(T) = n THEN h[Pick(T)] + f[T \ {Pick(T)}] ELSE f[T]]
    <3>3. g \in [SUBSET S -> Nat]
      <4>1. ASSUME NEW T \in SUBSET S, T # {}
            PROVE  h[Pick(T)] + f[T \ {Pick(T)}] \in Nat
        <5>1. Pick(T) \in S /\ T \ {Pick(T)} \in SUBSET S
          BY <1>a, <4>1, PickRemoves, Zenon
        <5>2. h[Pick(T)] \in Nat /\ f[T \ {Pick(T)}] \in Nat
          BY <1>a, <5>1
        <5> QED BY <5>2
      <4> QED BY <4>1
    <3>4. ASSUME NEW T \in SUBSET S, Cardinality(T) <= n
          PROVE  g[T] = IF T = {} THEN 0 ELSE h[Pick(T)] + g[T \ {Pick(T)}]
      <4>1. CASE T = {}
        <5>1. Cardinality(T) <= n - 1
          BY <3>1, <4>1, FS_EmptySet
        <5>2. f[T] = 0
          BY <3>2, <4>1, <5>1 DEF UpTo
        <5> QED BY <4>1, <5>2
      <4>2. CASE T # {}
        <5> DEFINE U == T \ {Pick(T)}
        <5>1. /\ U \in SUBSET S
              /\ Cardinality(T) \in Nat /\ Cardinality(U) = Cardinality(T) - 1
          BY <1>a, <4>2, PickRemoves
        <5>2. g[U] = f[U]
          BY <2>1, <3>4, <5>1
        <5>3. CASE Cardinality(T) = n
          BY <4>2, <5>2, <5>3
        <5>4. CASE Cardinality(T) # n
          <6>1. Cardinality(T) <= n - 1
            BY <2>1, <3>4, <5>1, <5>4
          <6>2. f[T] = h[Pick(T)] + f[U]
            BY <3>2, <4>2, <6>1 DEF UpTo
          <6> QED BY <4>2, <5>2, <5>4, <6>2
        <5> QED BY <5>3, <5>4
      <4> QED BY <4>1, <4>2
    <3>5. UpTo(g, h, S, n)
      <4> HIDE DEF g
      <4> QED BY <3>4 DEF UpTo
    <3> QED
      <4> HIDE DEF g
      <4> QED BY <2>1, <3>3, <3>5
  <2> QED BY <2>2, <2>3
<1>2. Cardinality(S) \in Nat
  BY <1>a, FS_CardinalityType
<1>3. PICK g \in [SUBSET S -> Nat] : UpTo(g, h, S, Cardinality(S))
  BY <1>1, <1>2
<1>4. \A T \in SUBSET S : Cardinality(T) <= Cardinality(S)
  BY <1>a, FS_Subset
<1>5. \A T \in SUBSET S : g[T] = IF T = {} THEN 0 ELSE h[Pick(T)] + g[T \ {Pick(T)}]
  BY <1>3, <1>4 DEF UpTo
<1>6. g = [T \in SUBSET S |-> IF T = {} THEN 0 ELSE h[Pick(T)] + g[T \ {Pick(T)}]]
  BY <1>5
<1> QED BY <1>6 DEF IsSum

\* What is used of it.
Recursion(f, h, S) ==
    /\ \A T \in SUBSET S : f[T] \in Nat
    /\ f[{}] = 0
    /\ \A T \in SUBSET S : T # {} => f[T] = h[Pick(T)] + f[T \ {Pick(T)}]

LEMMA SumFnRecursion ==
    ASSUME NEW h, NEW S, Summable(h, S)
    PROVE  Recursion(SumFn(h, S), h, S)
<1> DEFINE f == SumFn(h, S)
<1>1. IsSum(f, h, S)
  BY SumExists DEF SumFn
<1>a. IsFiniteSet(S) /\ \A x \in S : h[x] \in Nat
  BY DEF Summable
<1>2. /\ f[{}] = 0
      /\ \A T \in SUBSET S : T # {} => f[T] = h[Pick(T)] + f[T \ {Pick(T)}]
  <2> HIDE DEF f
  <2> QED BY <1>1 DEF IsSum
<1> DEFINE Odd == {T \in SUBSET S : f[T] \notin Nat}
<1>3. Odd = {}
  <2> HIDE DEF f
  <2> SUFFICES ASSUME Odd # {} PROVE FALSE
    OBVIOUS
  <2>1. \A T \in Odd : IsFiniteSet(T)
    BY <1>a, FS_Subset
  <2>2. PICK T \in Odd : \A U \in Odd : Cardinality(T) <= Cardinality(U)
    <3> HIDE DEF Odd
    <3> QED BY <2>1, Smallest
  <2>3. T # {} /\ T \in SUBSET S
    <3>1. T \in SUBSET S /\ f[T] \notin Nat
      OBVIOUS
    <3>2. CASE T = {}
      BY <1>2, <3>1, <3>2
    <3> HIDE DEF Odd
    <3> QED BY <3>1, <3>2
  <2>4. f[T \ {Pick(T)}] \in Nat /\ h[Pick(T)] \in Nat
    BY <1>a, <2>2, <2>3, PickRemoves
  <2> QED BY <1>2, <2>3, <2>4
<1>4. Recursion(f, h, S)
  <2> HIDE DEF f
  <2> QED BY <1>2, <1>3 DEF Recursion
<1> QED BY <1>4

-----------------------------------------------------------------------------
\* Any member can be taken out first.
LEMMA SumFnRemove ==
    ASSUME NEW h, NEW S, Summable(h, S)
    PROVE  \A T \in SUBSET S : \A x \in T :
              SumFn(h, S)[T] = h[x] + SumFn(h, S)[T \ {x}]
<1> DEFINE f == SumFn(h, S)
<1>a. IsFiniteSet(S) /\ \A x \in S : h[x] \in Nat
  BY DEF Summable
<1>1. /\ \A T \in SUBSET S : f[T] \in Nat
      /\ \A T \in SUBSET S : T # {} => f[T] = h[Pick(T)] + f[T \ {Pick(T)}]
  <2>1. Recursion(f, h, S)
    BY SumFnRecursion
  <2> HIDE DEF f
  <2> QED BY <2>1 DEF Recursion
<1> DEFINE Holds(T) == \A x \in T : f[T] = h[x] + f[T \ {x}]
           Odd == {T \in SUBSET S : ~Holds(T)}
<1>2. Odd = {}
  <2> HIDE DEF f
  <2> SUFFICES ASSUME Odd # {} PROVE FALSE
    OBVIOUS
  <2>1. \A T \in Odd : IsFiniteSet(T)
    BY <1>a, FS_Subset
  <2>2. PICK T \in Odd : \A U \in Odd : Cardinality(T) <= Cardinality(U)
    <3> HIDE DEF Odd
    <3> QED BY <2>1, Smallest
  <2>3. PICK x \in T : f[T] # h[x] + f[T \ {x}]
    OBVIOUS
  <2> DEFINE p == Pick(T)
             both == (T \ {x}) \ {p}
  <2>4. T \in SUBSET S /\ T # {} /\ p \in T /\ p # x
    BY <1>a, <1>1, <2>3, PickRemoves
  <2>5. ASSUME NEW y \in T
        PROVE  Holds(T \ {y})
    <3>1. /\ IsFiniteSet(T) /\ Cardinality(T) \in Nat
          /\ IsFiniteSet(T \ {y}) /\ Cardinality(T \ {y}) = Cardinality(T) - 1
      BY <1>a, <2>4, FS_Subset, FS_RemoveElement, FS_CardinalityType
    <3>2. T \ {y} \in SUBSET S /\ ~(Cardinality(T) <= Cardinality(T \ {y}))
      BY <2>4, <3>1
    <3> HIDE DEF Holds
    <3> QED BY <2>2, <3>2
  <2>6. f[T] = h[p] + f[T \ {p}]
    BY <1>1, <2>4
  <2>7. f[T \ {p}] = h[x] + f[both]
    <3>1. (T \ {p}) \ {x} = both
      OBVIOUS
    <3> QED BY <2>4, <2>5, <3>1
  <2>8. f[T \ {x}] = h[p] + f[both]
    BY <2>4, <2>5
  <2>9. h[p] \in Nat /\ h[x] \in Nat /\ f[both] \in Nat
    BY <1>a, <1>1, <2>4
  <2> HIDE DEF both, p
  <2> QED BY <2>3, <2>6, <2>7, <2>8, <2>9
<1> QED BY <1>2

\* The sum depends on what the members contribute and on nothing else.
LEMMA SumFnSame ==
    ASSUME NEW g, NEW h, NEW S, Summable(g, S), Summable(h, S)
    PROVE  \A T \in SUBSET S : (\A x \in T : g[x] = h[x]) => SumFn(g, S)[T] = SumFn(h, S)[T]
<1> DEFINE e == SumFn(g, S)
           f == SumFn(h, S)
<1>a. IsFiniteSet(S)
  BY DEF Summable
<1>1. /\ e[{}] = 0 /\ f[{}] = 0
      /\ \A T \in SUBSET S : T # {} => e[T] = g[Pick(T)] + e[T \ {Pick(T)}]
      /\ \A T \in SUBSET S : T # {} => f[T] = h[Pick(T)] + f[T \ {Pick(T)}]
  <2>1. Recursion(e, g, S) /\ Recursion(f, h, S)
    BY SumFnRecursion
  <2> HIDE DEF e, f
  <2> QED BY <2>1 DEF Recursion
<1> DEFINE Holds(T) == (\A x \in T : g[x] = h[x]) => e[T] = f[T]
           Odd == {T \in SUBSET S : ~Holds(T)}
<1>2. Odd = {}
  <2> HIDE DEF e, f
  <2> SUFFICES ASSUME Odd # {} PROVE FALSE
    OBVIOUS
  <2>1. \A T \in Odd : IsFiniteSet(T)
    BY <1>a, FS_Subset
  <2>2. PICK T \in Odd : \A U \in Odd : Cardinality(T) <= Cardinality(U)
    <3> HIDE DEF Odd
    <3> QED BY <2>1, Smallest
  <2>3. T \in SUBSET S /\ T # {} /\ (\A x \in T : g[x] = h[x]) /\ e[T] # f[T]
    BY <1>1
  <2> DEFINE U == T \ {Pick(T)}
  <2>4. Pick(T) \in T /\ U \in SUBSET S /\ ~(Cardinality(T) <= Cardinality(U))
    <3>1. /\ Pick(T) \in T /\ U \in SUBSET S
          /\ Cardinality(T) \in Nat /\ Cardinality(U) = Cardinality(T) - 1
      BY <1>a, <2>3, PickRemoves, Zenon
    <3> QED BY <3>1
  <2>5. Holds(U)
    BY <2>2, <2>4
  <2>6. e[U] = f[U] /\ g[Pick(T)] = h[Pick(T)]
    BY <2>3, <2>4, <2>5
  <2> QED BY <1>1, <2>3, <2>6
<1> QED BY <1>2

-----------------------------------------------------------------------------
(***************************************************************************)
(* The facts about sums that budgets need.                                 *)
(***************************************************************************)
LEMMA SumIsNatural ==
    ASSUME NEW h, NEW S, Summable(h, S)
    PROVE  SumOver(h, S) \in Nat
BY SumFnRecursion, SumOverIs DEF Recursion

\* No member contributes more than the sum.
LEMMA SumBounds ==
    ASSUME NEW h, NEW S, Summable(h, S), NEW x \in S
    PROVE  h[x] <= SumOver(h, S)
<1>1. SumOver(h, S) = h[x] + SumFn(h, S)[S \ {x}]
  BY SumFnRemove, SumOverIs
<1>2. SumFn(h, S)[S \ {x}] \in Nat /\ h[x] \in Nat
  BY SumFnRecursion, FS_Subset DEF Summable, Recursion
<1> QED BY <1>1, <1>2

LEMMA SumSame ==
    ASSUME NEW g, NEW h, NEW S, Summable(g, S), \A x \in S : g[x] = h[x]
    PROVE  SumOver(g, S) = SumOver(h, S)
<1>1. Summable(h, S)
  BY DEF Summable
<1> QED BY <1>1, SumFnSame, SumOverIs

\* Only x contributes something else.
LEMMA SumChanges ==
    ASSUME NEW g, NEW h, NEW S, Summable(g, S), Summable(h, S), NEW x \in S,
           \A y \in S \ {x} : g[y] = h[y]
    PROVE  SumOver(h, S) = (SumOver(g, S) - g[x]) + h[x]
<1>1. SumOver(g, S) = g[x] + SumFn(g, S)[S \ {x}]
  BY SumFnRemove, SumOverIs
<1>2. SumOver(h, S) = h[x] + SumFn(h, S)[S \ {x}]
  BY SumFnRemove, SumOverIs
<1>3. SumFn(g, S)[S \ {x}] = SumFn(h, S)[S \ {x}]
  BY SumFnSame
<1>4. SumFn(g, S)[S \ {x}] \in Nat /\ g[x] \in Nat /\ h[x] \in Nat
  BY SumFnRecursion, FS_Subset DEF Summable, Recursion
<1> QED BY <1>1, <1>2, <1>3, <1>4

LEMMA SumOfNothing ==
    ASSUME NEW h, NEW S, Summable(h, S), \A x \in S : h[x] = 0
    PROVE  SumOver(h, S) = 0
<1> DEFINE f == SumFn(h, S)
           Odd == {T \in SUBSET S : f[T] # 0}
<1>a. IsFiniteSet(S)
  BY DEF Summable
<1>1. /\ f[{}] = 0
      /\ \A T \in SUBSET S : f[T] \in Nat
      /\ \A T \in SUBSET S : T # {} => f[T] = h[Pick(T)] + f[T \ {Pick(T)}]
  <2>1. Recursion(f, h, S)
    BY SumFnRecursion
  <2> HIDE DEF f
  <2> QED BY <2>1 DEF Recursion
<1>2. Odd = {}
  <2> HIDE DEF f
  <2> SUFFICES ASSUME Odd # {} PROVE FALSE
    OBVIOUS
  <2>1. \A T \in Odd : IsFiniteSet(T)
    BY <1>a, FS_Subset
  <2>2. PICK T \in Odd : \A U \in Odd : Cardinality(T) <= Cardinality(U)
    <3> HIDE DEF Odd
    <3> QED BY <2>1, Smallest
  <2>3. T \in SUBSET S /\ T # {} /\ f[T] # 0
    BY <1>1
  <2>4. Pick(T) \in S /\ T \ {Pick(T)} \in SUBSET S /\ ~(Cardinality(T) <= Cardinality(T \ {Pick(T)}))
    BY <1>a, <2>3, PickRemoves
  <2>5. f[T \ {Pick(T)}] = 0 /\ h[Pick(T)] = 0
    BY <2>2, <2>4
  <2> QED BY <1>1, <2>3, <2>5
<1> QED BY <1>2, SumOverIs
=============================================================================
