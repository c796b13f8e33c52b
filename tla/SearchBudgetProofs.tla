------------------------- MODULE SearchBudgetProofs -------------------------
(***************************************************************************)
(* The search budgets and the fallback stacks, for any finite set of runs, *)
(* any profiles and maxima, and any number of worker threads.              *)
(***************************************************************************)
EXTENDS SearchBudget, FiniteSums, SequenceTheorems

-----------------------------------------------------------------------------
(***************************************************************************)
(* Stacks.                                                                 *)
(***************************************************************************)
LEMMA MaxIsMember ==
    ASSUME NEW n \in Nat, NEW I \in SUBSET (1..n), I # {}
    PROVE  Max(I) \in I
<1> DEFINE T == {n - i : i \in I}
<1>a. \A i \in I : i \in Int /\ n - i \in Nat
  OBVIOUS
<1>1. T \in SUBSET Nat /\ T # {}
  BY <1>a
<1>2. PICK x \in T : \A y \in T : x <= y
  BY <1>1, Least
<1>3. PICK m \in I : x = n - m
  BY <1>2
<1>4. ASSUME NEW i \in I
      PROVE  m >= i
  <2>1. n - m <= n - i
    BY <1>2, <1>3
  <2> QED BY <1>a, <2>1
<1> QED BY <1>4 DEF Max

Positions(stack, x) == {n \in 1..Len(stack) : stack[n] = x}

\* The positions of a sequence are finitely many.
LEMMA IntervalIsFinite ==
    ASSUME NEW S, NEW s \in Seq(S)
    PROVE  IsFiniteSet(1..Len(s))
<1>1. Len(s) \in Int /\ 1 \in Int
  BY LenProperties
<1> QED BY <1>1, FS_Interval, Zenon

LEMMA OccurrencesAre ==
    ASSUME NEW S, NEW stack \in Seq(S), NEW x
    PROVE  /\ IsFiniteSet(Positions(stack, x))
           /\ Occurrences(stack, x) = Cardinality(Positions(stack, x))
           /\ Occurrences(stack, x) \in Nat
           /\ Occurrences(stack, x) = 0 <=> ~ \E n \in 1..Len(stack) : stack[n] = x
<1>1. DOMAIN stack = 1..Len(stack) /\ Len(stack) \in Nat
  BY LenProperties
<1>2. IsFiniteSet(1..Len(stack))
  BY IntervalIsFinite, Zenon
<1>3. IsFiniteSet(Positions(stack, x))
  BY <1>2, FS_Subset DEF Positions
<1>4. Occurrences(stack, x) = Cardinality(Positions(stack, x))
  BY <1>1 DEF Occurrences, Positions
<1>5. Occurrences(stack, x) = 0 <=> Positions(stack, x) = {}
  BY <1>3, <1>4, FS_EmptySet
<1> QED BY <1>3, <1>4, <1>5, FS_CardinalityType DEF Positions

\* Two different things make a pair.
LEMMA PairIsTwo ==
    ASSUME NEW a, NEW b, a # b
    PROVE  Cardinality({a} \cup {b}) = 2
<1>1. IsFiniteSet({a}) /\ Cardinality({a}) = 1 /\ b \notin {a}
  BY FS_Singleton
<1>2. Cardinality({a} \cup {b}) = Cardinality({a}) + 1
  BY <1>1, FS_AddElement, Zenon
<1> QED BY <1>1, <1>2

\* A push adds one occurrence of what is pushed.
LEMMA Pushed ==
    ASSUME NEW S, NEW stack \in Seq(S), NEW x \in S, NEW y
    PROVE  Occurrences(Append(stack, x), y)
             = IF y = x THEN Occurrences(stack, y) + 1 ELSE Occurrences(stack, y)
<1> DEFINE new == Append(stack, x)
           n == Len(stack)
<1>1. /\ new \in Seq(S) /\ Len(new) = n + 1 /\ n \in Nat
      /\ \A i \in 1..n : new[i] = stack[i]
      /\ new[n + 1] = x
  BY AppendProperties, LenProperties
<1>2. Positions(new, y) = IF y = x THEN Positions(stack, y) \cup {n + 1} ELSE Positions(stack, y)
  <2> HIDE DEF new
  <2>1. ASSUME NEW i \in 1..(n + 1)
        PROVE  i \in Positions(new, y) <=> (i \in Positions(stack, y) \/ (i = n + 1 /\ y = x))
    BY <1>1 DEF Positions
  <2>2. Positions(new, y) \subseteq 1..(n + 1) /\ Positions(stack, y) \subseteq 1..(n + 1)
    BY <1>1 DEF Positions
  <2>3. CASE y = x
    BY <2>1, <2>2, <2>3, <1>1
  <2>4. CASE y # x
    BY <2>1, <2>2, <2>4
  <2> QED BY <2>3, <2>4
<1>3. n + 1 \notin Positions(stack, y)
  BY <1>1 DEF Positions
<1>4. IsFiniteSet(Positions(stack, y))
  BY OccurrencesAre
<1>5. /\ Occurrences(stack, y) = Cardinality(Positions(stack, y))
      /\ Occurrences(new, y) = Cardinality(Positions(new, y))
  BY <1>1, OccurrencesAre
<1>6. Cardinality(Positions(stack, y) \cup {n + 1}) = Cardinality(Positions(stack, y)) + 1
  BY <1>3, <1>4, FS_AddElement
<1> QED BY <1>2, <1>5, <1>6

\* The search from the top finds an entry that is there.
LEMMA PopIsRemoval ==
    ASSUME NEW S, NEW stack \in Seq(S), NEW x, \E n \in 1..Len(stack) : stack[n] = x
    PROVE  \E i \in 1..Len(stack) :
              /\ stack[i] = x
              /\ PopLast(stack, x) = RemoveAt(stack, i)
<1> DEFINE I == {n \in 1..Len(stack) : stack[n] = x}
<1>1. Len(stack) \in Nat
  BY LenProperties
<1>2. Max(I) \in I
  BY <1>1, MaxIsMember
<1>3. SelectLastInSeq(stack, LAMBDA y : y = x) = Max(I)
  BY DEF SelectLastInSeq
<1> QED BY <1>2, <1>3 DEF PopLast

LEMMA Removal ==
    ASSUME NEW S, NEW stack \in Seq(S), NEW i \in 1..Len(stack)
    PROVE  /\ RemoveAt(stack, i) \in Seq(S) /\ Len(RemoveAt(stack, i)) = Len(stack) - 1
           /\ \A j \in 1..(Len(stack) - 1) :
                 RemoveAt(stack, i)[j] = stack[IF j < i THEN j ELSE j + 1]
<1> DEFINE n == Len(stack)
           new == RemoveAt(stack, i)
           low == SubSeq(stack, 1, i - 1)
           high == SubSeq(stack, i + 1, n)
<1>1. n \in Nat /\ \A j \in 1..n : stack[j] \in S
  BY LenProperties, ElementOfSeq
<1>2. /\ low \in Seq(S) /\ Len(low) = i - 1
      /\ \A j \in 1..(i - 1) : low[j] = stack[j]
  <2>1. \A j \in 1..(i - 1) : stack[j] \in S
    BY <1>1
  <2>2. /\ low \in Seq(S) /\ Len(low) = IF 1 <= i - 1 THEN i - 1 - 1 + 1 ELSE 0
        /\ \A j \in 1..(i - 1 - 1 + 1) : low[j] = stack[1 + j - 1]
    BY <1>1, <2>1, SubSeqProperties
  <2> HIDE DEF low
  <2> QED BY <1>1, <2>2
<1>3. /\ high \in Seq(S) /\ Len(high) = n - i
      /\ \A j \in 1..(n - i) : high[j] = stack[i + j]
  <2>1. \A j \in (i + 1)..n : stack[j] \in S
    BY <1>1
  <2>2. /\ high \in Seq(S) /\ Len(high) = IF i + 1 <= n THEN n - (i + 1) + 1 ELSE 0
        /\ \A j \in 1..(n - (i + 1) + 1) : high[j] = stack[(i + 1) + j - 1]
    BY <1>1, <2>1, SubSeqProperties
  <2> HIDE DEF high
  <2>3. ASSUME NEW j \in 1..(n - i)
        PROVE  high[j] = stack[i + j]
    <3>1. j \in 1..(n - (i + 1) + 1) /\ (i + 1) + j - 1 = i + j
      BY <1>1
    <3> QED BY <2>2, <3>1
  <2> QED BY <1>1, <2>2, <2>3
<1>a. new = low \o high
  BY DEF RemoveAt
<1> HIDE DEF low, high, new
<1>4. /\ new \in Seq(S) /\ Len(new) = Len(low) + Len(high)
      /\ \A j \in 1..(Len(low) + Len(high)) :
            new[j] = IF j <= Len(low) THEN low[j] ELSE high[j - Len(low)]
  <2>1. low \in Seq(S) /\ high \in Seq(S)
    BY <1>2, <1>3
  <2>2. /\ low \o high \in Seq(S) /\ Len(low \o high) = Len(low) + Len(high)
        /\ \A j \in 1..(Len(low) + Len(high)) :
            (low \o high)[j] = IF j <= Len(low) THEN low[j] ELSE high[j - Len(low)]
    BY <2>1, ConcatProperties
  <2> QED BY <1>a, <2>2, Zenon
<1>5. Len(new) = n - 1
  <2>1. Len(new) = Len(low) + Len(high) /\ Len(low) = i - 1 /\ Len(high) = n - i
    BY <1>2, <1>3, <1>4
  <2> QED BY <1>1, <2>1
<1>6. ASSUME NEW j \in 1..(n - 1)
      PROVE  new[j] = stack[IF j < i THEN j ELSE j + 1]
  <2>1. j \in 1..(Len(low) + Len(high))
    BY <1>4, <1>5
  <2>2. CASE j < i
    <3>1. j <= Len(low) /\ j \in 1..(i - 1)
      BY <1>1, <1>2, <2>2
    <3> QED BY <1>2, <1>4, <2>1, <2>2, <3>1
  <2>3. CASE ~(j < i)
    <3>1. ~(j <= Len(low)) /\ j - Len(low) = j - i + 1 /\ j - i + 1 \in 1..(n - i)
      BY <1>1, <1>2, <2>3
    <3>2. new[j] = high[j - i + 1]
      BY <1>4, <2>1, <3>1
    <3>3. high[j - i + 1] = stack[i + (j - i + 1)] /\ i + (j - i + 1) = j + 1
      BY <1>1, <1>3, <3>1
    <3> QED BY <2>3, <3>2, <3>3
  <2> QED BY <2>2, <2>3
<1> QED BY <1>4, <1>5, <1>6 DEF new

\* A pop takes one occurrence of its entry away and leaves the others.
LEMMA Popped ==
    ASSUME NEW S, NEW stack \in Seq(S), NEW x, NEW y, Occurrences(stack, x) > 0
    PROVE  /\ PopLast(stack, x) \in Seq(S)
           /\ Occurrences(PopLast(stack, x), y)
                = IF y = x THEN Occurrences(stack, y) - 1 ELSE Occurrences(stack, y)
<1> DEFINE n == Len(stack)
           new == PopLast(stack, x)
<1>1. \E i \in 1..n : stack[i] = x
  BY OccurrencesAre
<1>2. PICK i \in 1..n :
         /\ stack[i] = x
         /\ new = RemoveAt(stack, i)
  BY <1>1, PopIsRemoval
<1> HIDE DEF new
<1>3. /\ new \in Seq(S) /\ Len(new) = n - 1 /\ n \in Nat
      /\ \A j \in 1..(n - 1) : new[j] = stack[IF j < i THEN j ELSE j + 1]
  <2>1. n \in Nat
    BY LenProperties
  <2>2. /\ new \in Seq(S) /\ Len(new) = n - 1
        /\ \A j \in 1..(n - 1) : new[j] = stack[IF j < i THEN j ELSE j + 1]
    BY <1>2, Removal
  <2> QED BY <2>1, <2>2
<1> DEFINE old == Positions(stack, y) \ {i}
           F == [j \in Positions(new, y) |-> IF j < i THEN j ELSE j + 1]
<1>4. \A j \in Positions(new, y) : j \in Int /\ j \in 1..(n - 1) /\ new[j] = y
  BY <1>3 DEF Positions
<1>5. F \in Bijection(Positions(new, y), old)
  <2>1. ASSUME NEW j \in Positions(new, y)
        PROVE  F[j] \in old
    <3>1. F[j] = IF j < i THEN j ELSE j + 1
      OBVIOUS
    <3>2. stack[F[j]] = y
      BY <1>3, <1>4, <3>1
    <3>3. F[j] \in 1..n /\ F[j] # i
      BY <1>3, <1>4, <3>1
    <3> QED BY <3>2, <3>3 DEF Positions
  <2>2. ASSUME NEW j \in Positions(new, y), NEW k \in Positions(new, y), F[j] = F[k]
        PROVE  j = k
    BY <1>4, <2>2
  <2>3. ASSUME NEW k \in old
        PROVE  \E j \in Positions(new, y) : F[j] = k
    <3>1. k \in 1..n /\ k # i /\ stack[k] = y
      BY DEF Positions
    <3>2. CASE k < i
      <4>1. k \in 1..(n - 1) /\ new[k] = stack[k]
        BY <1>3, <3>1, <3>2
      <4>2. k \in Positions(new, y)
        BY <1>3, <3>1, <4>1 DEF Positions
      <4> QED BY <3>2, <4>2
    <3>3. CASE ~(k < i)
      <4>1. k - 1 \in 1..(n - 1) /\ ~(k - 1 < i) /\ (k - 1) + 1 = k
        BY <1>3, <3>1, <3>3
      <4>2. new[k - 1] = stack[k]
        BY <1>3, <4>1
      <4>3. k - 1 \in Positions(new, y)
        BY <1>3, <3>1, <4>1, <4>2 DEF Positions
      <4> QED BY <4>1, <4>3
    <3> QED BY <3>2, <3>3
  <2>4. F \in [Positions(new, y) -> old]
    BY <2>1
  <2> HIDE DEF F
  <2>5. IsInjective(F)
    BY <2>2, <2>4 DEF IsInjective
  <2> QED BY <2>3, <2>4, <2>5 DEF Bijection, Injection, Surjection
<1>6. Cardinality(old) = Cardinality(Positions(new, y))
  <2>1. ExistsBijection(Positions(new, y), old)
    BY <1>5 DEF ExistsBijection
  <2>2. IsFiniteSet(Positions(new, y))
    BY <1>3, OccurrencesAre
  <2> QED BY <2>1, <2>2, FS_Bijection
<1>7. Cardinality(old)
        = IF y = x THEN Cardinality(Positions(stack, y)) - 1 ELSE Cardinality(Positions(stack, y))
  <2>1. IsFiniteSet(Positions(stack, y))
    BY OccurrencesAre
  <2>2. i \in Positions(stack, y) <=> y = x
    BY <1>2 DEF Positions
  <2> QED BY <2>1, <2>2, FS_RemoveElement
<1>8. /\ Occurrences(stack, y) = Cardinality(Positions(stack, y))
      /\ Occurrences(new, y) = Cardinality(Positions(new, y))
  BY <1>3, OccurrencesAre
<1> QED BY <1>3, <1>6, <1>7, <1>8 DEF new

-----------------------------------------------------------------------------
(***************************************************************************)
(* The stacks describe the active guards.                                  *)
(***************************************************************************)
Of(p) == {g \in Active : ProfileOf[g] = p}

LEMMA ActiveSets ==
    /\ IsFiniteSet(Active) /\ Cardinality(Active) \in 0..Cardinality(Guard)
    /\ Cardinality(Guard) \in Nat
    /\ \A p : IsFiniteSet(Of(p)) /\ Cardinality(Of(p)) \in Nat
    /\ IsFiniteSet(Active \ Budgeted) /\ Cardinality(Active \ Budgeted) \in Nat
<1>1. IsFiniteSet(Guard) /\ Active \in SUBSET Guard
  BY BudgetAssumption DEF BudgetAssumption, Active
<1>2. IsFiniteSet(Active) /\ Cardinality(Active) <= Cardinality(Guard)
  BY <1>1, FS_Subset
<1>3. Cardinality(Active) \in Nat /\ Cardinality(Guard) \in Nat
  BY <1>1, <1>2, FS_CardinalityType
<1>4. \A T \in SUBSET Active : IsFiniteSet(T) /\ Cardinality(T) \in Nat
  BY <1>2, FS_Subset, FS_CardinalityType
<1>5. \A p : Of(p) \in SUBSET Active
  BY DEF Of
<1> QED BY <1>2, <1>3, <1>4, <1>5

LEMMA EntryTypes ==
    ASSUME NEW g \in Guard
    PROVE  /\ ProfileOf[g] \in Profile
           /\ BudgetEntry(g) \in Budgeted \cup {NoBudget}
           /\ NoBudget \notin Budgeted
BY BudgetAssumption DEF BudgetAssumption, Profile, BudgetEntry, Budgeted

LEMMA EnterKeepsStacks ==
    ASSUME TypeOK, StacksMatchGuards, NEW g \in Guard, Enter(g)
    PROVE  StacksMatchGuards'
<1> USE DEF Enter
<1>1. g \notin Active /\ Active' = Active \cup {g}
  BY DEF TypeOK, Active
<1>2. depth' = Cardinality(Active')
  BY <1>1, ActiveSets, FS_AddElement DEF StacksMatchGuards
<1>3. ASSUME NEW p \in Profile
      PROVE  Occurrences(profiles', p) = Cardinality({h \in Active' : ProfileOf[h] = p})
  <2>1. Occurrences(profiles', p)
          = IF p = ProfileOf[g] THEN Occurrences(profiles, p) + 1 ELSE Occurrences(profiles, p)
    BY EntryTypes, Pushed DEF TypeOK
  <2>2. Occurrences(profiles, p) = Cardinality(Of(p))
    BY DEF StacksMatchGuards, Of
  <2>3. {h \in Active' : ProfileOf[h] = p} = IF p = ProfileOf[g] THEN Of(p) \cup {g} ELSE Of(p)
    BY <1>1 DEF Of
  <2>4. g \notin Of(p) /\ IsFiniteSet(Of(p))
    BY <1>1, ActiveSets DEF Of
  <2>5. Cardinality(Of(p) \cup {g}) = Cardinality(Of(p)) + 1
    BY <2>4, FS_AddElement
  <2> QED BY <2>1, <2>2, <2>3, <2>5
<1>4. \A y : Occurrences(budgets', y)
        = IF y = BudgetEntry(g) THEN Occurrences(budgets, y) + 1 ELSE Occurrences(budgets, y)
  <2>1. budgets \in Seq(Budgeted \cup {NoBudget}) /\ BudgetEntry(g) \in Budgeted \cup {NoBudget}
    BY EntryTypes DEF TypeOK
  <2>2. budgets' = Append(budgets, BudgetEntry(g))
    OBVIOUS
  <2>3. \A y : Occurrences(Append(budgets, BudgetEntry(g)), y)
          = IF y = BudgetEntry(g) THEN Occurrences(budgets, y) + 1 ELSE Occurrences(budgets, y)
    BY <2>1, Pushed, Zenon
  <2> QED BY <2>2, <2>3, Zenon
<1>5. ASSUME NEW b \in Budgeted
      PROVE  Occurrences(budgets', b) = IF b \in Active' THEN 1 ELSE 0
  <2>1. Occurrences(budgets, b) = IF b \in Active THEN 1 ELSE 0
    BY DEF StacksMatchGuards
  <2>2. b = BudgetEntry(g) <=> b = g
    BY EntryTypes DEF BudgetEntry
  <2> QED BY <1>1, <1>4, <2>1, <2>2
<1>6. Occurrences(budgets', NoBudget) = Cardinality(Active' \ Budgeted)
  <2>1. Occurrences(budgets, NoBudget) = Cardinality(Active \ Budgeted)
    BY DEF StacksMatchGuards
  <2>2. NoBudget = BudgetEntry(g) <=> g \notin Budgeted
    BY EntryTypes DEF BudgetEntry
  <2>3. Active' \ Budgeted
          = IF g \in Budgeted THEN Active \ Budgeted ELSE (Active \ Budgeted) \cup {g}
    BY <1>1
  <2>4. Cardinality((Active \ Budgeted) \cup {g}) = Cardinality(Active \ Budgeted) + 1
    BY <1>1, ActiveSets, FS_AddElement
  <2> QED BY <1>4, <2>1, <2>2, <2>3, <2>4
<1> QED BY <1>2, <1>3, <1>5, <1>6 DEF StacksMatchGuards

LEMMA ExitKeepsStacks ==
    ASSUME TypeOK, StacksMatchGuards, NEW g \in Guard, Exit(g)
    PROVE  /\ StacksMatchGuards'
           /\ profiles' \in Seq(Profile)
           /\ budgets' \in Seq(Budgeted \cup {NoBudget})
           /\ depth' = depth - 1
<1> USE DEF Exit
<1>1. g \in Active /\ Active' = Active \ {g}
  BY DEF TypeOK, Active
<1>2. depth' = Cardinality(Active') /\ depth' = depth - 1
  <2>1. Cardinality(Active \ {g}) = Cardinality(Active) - 1
    BY <1>1, ActiveSets, FS_RemoveElement
  <2>2. Cardinality(Active) # 0
    BY <1>1, ActiveSets, FS_EmptySet
  <2> QED BY <1>1, <2>1, <2>2, ActiveSets DEF StacksMatchGuards
<1>3. Occurrences(profiles, ProfileOf[g]) > 0
  <2>1. g \in Of(ProfileOf[g])
    BY <1>1 DEF Of
  <2>2. Cardinality(Of(ProfileOf[g])) # 0
    BY <2>1, ActiveSets, FS_EmptySet
  <2>3. Occurrences(profiles, ProfileOf[g]) = Cardinality(Of(ProfileOf[g]))
    BY EntryTypes DEF StacksMatchGuards, Of
  <2> QED BY <2>2, <2>3, ActiveSets
<1>4. \A y : Occurrences(profiles', y)
        = IF y = ProfileOf[g] THEN Occurrences(profiles, y) - 1 ELSE Occurrences(profiles, y)
  BY <1>3, Popped DEF TypeOK
<1>5. profiles' \in Seq(Profile)
  BY <1>3, Popped DEF TypeOK
<1>6. ASSUME NEW p \in Profile
      PROVE  Occurrences(profiles', p) = Cardinality({h \in Active' : ProfileOf[h] = p})
  <2>1. Occurrences(profiles, p) = Cardinality(Of(p))
    BY DEF StacksMatchGuards, Of
  <2>2. {h \in Active' : ProfileOf[h] = p} = IF p = ProfileOf[g] THEN Of(p) \ {g} ELSE Of(p)
    BY <1>1 DEF Of
  <2>3. p = ProfileOf[g] => g \in Of(p)
    BY <1>1 DEF Of
  <2>4. p = ProfileOf[g] => Cardinality(Of(p) \ {g}) = Cardinality(Of(p)) - 1
    BY <2>3, ActiveSets, FS_RemoveElement
  <2> QED BY <1>4, <2>1, <2>2, <2>4
<1>7. Occurrences(budgets, BudgetEntry(g)) > 0
  <2>1. CASE g \in Budgeted
    BY <1>1, <2>1 DEF StacksMatchGuards, BudgetEntry
  <2>2. CASE g \notin Budgeted
    <3>1. Cardinality(Active \ Budgeted) # 0
      BY <1>1, <2>2, ActiveSets, FS_EmptySet
    <3> QED BY <2>2, <3>1, ActiveSets DEF StacksMatchGuards, BudgetEntry
  <2> QED BY <2>1, <2>2
<1>8. \A y : Occurrences(budgets', y)
        = IF y = BudgetEntry(g) THEN Occurrences(budgets, y) - 1 ELSE Occurrences(budgets, y)
  BY <1>7, Popped DEF TypeOK
<1>9. budgets' \in Seq(Budgeted \cup {NoBudget})
  BY <1>7, Popped DEF TypeOK
<1>10. ASSUME NEW b \in Budgeted
       PROVE  Occurrences(budgets', b) = IF b \in Active' THEN 1 ELSE 0
  <2>1. Occurrences(budgets, b) = IF b \in Active THEN 1 ELSE 0
    BY DEF StacksMatchGuards
  <2>2. b = BudgetEntry(g) <=> b = g
    BY EntryTypes DEF BudgetEntry
  <2> QED BY <1>1, <1>8, <2>1, <2>2
<1>11. Occurrences(budgets', NoBudget) = Cardinality(Active' \ Budgeted)
  <2>1. Occurrences(budgets, NoBudget) = Cardinality(Active \ Budgeted)
    BY DEF StacksMatchGuards
  <2>2. NoBudget = BudgetEntry(g) <=> g \notin Budgeted
    BY EntryTypes DEF BudgetEntry
  <2>3. Active' \ Budgeted
          = IF g \in Budgeted THEN Active \ Budgeted ELSE (Active \ Budgeted) \ {g}
    BY <1>1
  <2>4. g \notin Budgeted => Cardinality((Active \ Budgeted) \ {g}) = Cardinality(Active \ Budgeted) - 1
    BY <1>1, ActiveSets, FS_RemoveElement
  <2> QED BY <1>8, <2>1, <2>2, <2>3, <2>4
<1> QED BY <1>2, <1>5, <1>6, <1>9, <1>10, <1>11 DEF StacksMatchGuards

-----------------------------------------------------------------------------
(***************************************************************************)
(* What a worker thread reads from the stacks while its run is active.     *)
(***************************************************************************)
LEMMA RunTypes ==
    ASSUME NEW t \in Thread
    PROVE  /\ RunOf[t] \in Budgeted /\ RunOf[t] \in Guard
           /\ RunOf[t] # NoBudget /\ RunOf[t] # ThrowAway
BY BudgetAssumption DEF BudgetAssumption, Budgeted

LEMMA OwnProfileRead ==
    ASSUME TypeOK, StacksMatchGuards, NEW t \in Thread, guard[RunOf[t]] = "in"
    PROVE  /\ FallbackProfile \in Profile \cup {DenyAll}
           /\ FallbackProfile \in SearchProfiles => FallbackProfile = ProfileOf[RunOf[t]]
<1> DEFINE own == ProfileOf[RunOf[t]]
<1>1. RunOf[t] \in Of(own) /\ own \in Profile
  BY RunTypes, EntryTypes DEF Of, Active
<1>2. Cardinality(Of(own)) # 0
  BY <1>1, ActiveSets, FS_EmptySet
<1>3. Occurrences(profiles, own) # 0
  BY <1>1, <1>2 DEF StacksMatchGuards, Of
<1>4. profiles \in Seq(Profile) /\ Len(profiles) \in Nat /\ DOMAIN profiles = 1..Len(profiles)
  BY LenProperties DEF TypeOK
<1>5. PICK n \in 1..Len(profiles) : profiles[n] = own
  BY <1>3, <1>4, OccurrencesAre
<1>6. profiles # <<>> /\ Len(profiles) \in 1..Len(profiles)
  BY <1>4, <1>5, EmptySeq
<1>7. CASE Cardinality(ToSet(profiles)) = 1
  <2>1. IsFiniteSet(ToSet(profiles))
    <3>1. IsFiniteSet(1..Len(profiles))
      BY IntervalIsFinite DEF TypeOK
    <3>2. profiles \in Surjection(1..Len(profiles), ToSet(profiles))
      BY <1>4, LenProperties DEF ToSet, Surjection
    <3> QED BY <3>1, <3>2, FS_Surjection
  <2>2. PICK x : ToSet(profiles) = {x}
    BY <1>7, <2>1, FS_Singleton
  <2>3. \A m \in 1..Len(profiles) : profiles[m] = x
    BY <1>4, <2>2 DEF ToSet
  <2>4. Last(profiles) = own
    BY <1>5, <1>6, <2>3 DEF Last
  <2>5. FallbackProfile = Last(profiles)
    BY <1>6, <1>7 DEF FallbackProfile
  <2> QED BY <1>1, <2>4, <2>5
<1>8. CASE Cardinality(ToSet(profiles)) # 1
  <2>1. FallbackProfile = DenyAll
    BY <1>6, <1>8 DEF FallbackProfile
  <2> QED BY <2>1, BudgetAssumption DEF BudgetAssumption
<1> QED BY <1>7, <1>8

LEMMA AnyProfileRead ==
    ASSUME TypeOK
    PROVE  FallbackProfile \in Profile \cup {DenyAll}
<1>1. profiles \in Seq(Profile) /\ Len(profiles) \in Nat
  BY LenProperties DEF TypeOK
<1>2. CASE profiles = <<>>
  <2>1. ToSet(profiles) = {}
    BY <1>2 DEF ToSet
  <2>2. Cardinality(ToSet(profiles)) # 1
    BY <2>1, FS_EmptySet
  <2> QED BY <1>2, <2>2 DEF FallbackProfile, Profile
<1>3. CASE profiles # <<>>
  <2>1. Len(profiles) \in 1..Len(profiles)
    BY <1>1, <1>3, EmptySeq
  <2>2. Last(profiles) \in Profile
    BY <1>1, <2>1, ElementOfSeq DEF Last
  <2> QED BY <1>3, <2>2 DEF FallbackProfile
<1> QED BY <1>2, <1>3

\* The dicts on the stack are those of the active budgeted guards.
LEMMA BudgetsOnStack ==
    ASSUME TypeOK, StacksMatchGuards
    PROVE  ToSet(budgets) \ {NoBudget} = Active \cap Budgeted
<1>1. /\ budgets \in Seq(Budgeted \cup {NoBudget})
      /\ DOMAIN budgets = 1..Len(budgets)
      /\ \A n \in 1..Len(budgets) : budgets[n] \in Budgeted \cup {NoBudget}
  BY LenProperties, ElementOfSeq DEF TypeOK
<1>2. ASSUME NEW b \in Budgeted
      PROVE  b \in ToSet(budgets) <=> b \in Active
  <2>1. Occurrences(budgets, b) = 0 <=> ~ \E n \in 1..Len(budgets) : budgets[n] = b
    BY <1>1, OccurrencesAre
  <2>2. Occurrences(budgets, b) = IF b \in Active THEN 1 ELSE 0
    BY DEF StacksMatchGuards
  <2> QED BY <1>1, <2>1, <2>2 DEF ToSet
<1>3. ToSet(budgets) \ {NoBudget} \subseteq Budgeted
  BY <1>1 DEF ToSet
<1>4. NoBudget \notin Budgeted
  BY BudgetAssumption DEF BudgetAssumption, Budgeted
<1> QED BY <1>2, <1>3, <1>4

LEMMA BudgetRead ==
    ASSUME TypeOK, StacksMatchGuards
    PROVE  /\ FallbackBudget \in Budgeted \cup {NoBudget, ThrowAway}
           /\ \A g \in Active \cap Budgeted :
                 \/ FallbackBudget = g
                 \/ FallbackBudget = ThrowAway /\ \E h \in Active \cap Budgeted : h # g
<1> DEFINE active == Active \cap Budgeted
<1>1. FallbackBudget = CASE active = {} -> NoBudget
                        [] \E b \in active : active = {b} -> CHOOSE b \in active : TRUE
                        [] OTHER -> ThrowAway
  BY BudgetsOnStack DEF FallbackBudget
<1> HIDE DEF active
<1>2. CASE active = {}
  BY <1>1, <1>2 DEF active
<1>3. CASE \E b \in active : active = {b}
  <2>1. PICK b \in active : active = {b}
    BY <1>3
  <2>2. (CHOOSE x \in active : TRUE) = b
    BY <2>1
  <2>3. FallbackBudget = b
    BY <1>1, <2>1, <2>2
  <2> QED BY <2>1, <2>3 DEF active
<1>4. CASE active # {} /\ ~ \E b \in active : active = {b}
  <2>1. FallbackBudget = ThrowAway
    BY <1>1, <1>4
  <2>2. \A g \in active : \E h \in active : h # g
    BY <1>4
  <2> QED BY <2>1, <2>2 DEF active
<1> QED BY <1>2, <1>3, <1>4

-----------------------------------------------------------------------------
(***************************************************************************)
(* The invariant: what a request holds is its run's own, or a refusal that *)
(* another active budget explains; what a run may still take and what it   *)
(* has taken stay within its maximum.                                      *)
(***************************************************************************)
RequestInv ==
    \A t \in Thread :
        /\ request[t].at # "none" => guard[RunOf[t]] # "new"
        /\ request[t].at = "metered" => request[t].budget # NoBudget
        /\ guard[RunOf[t]] = "in" =>
              /\ request[t].at \in {"safe", "metered"} => request[t].profile = ProfileOf[RunOf[t]]
              /\ request[t].at = "metered" =>
                    \/ request[t].budget = RunOf[t]
                    \/ request[t].budget = ThrowAway /\ RunOf[t] \in overlapped

OverlapInv == \A g, h \in Active \cap Budgeted : g # h => g \in overlapped

CountInv ==
    \A g \in Budgeted :
        /\ issued[g] + budget[g].remaining <= MaximumOf[g]
        /\ budget[g].exhausted => budget[g].remaining = 0
        /\ g \in refused => budget[g].exhausted \/ g \in overlapped

IInv == TypeOK /\ StacksMatchGuards /\ RequestInv /\ OverlapInv /\ CountInv

LEMMA Maxima ==
    ASSUME NEW g \in Budgeted
    PROVE  g \in Guard /\ MaximumOf[g] \in Nat
BY BudgetAssumption DEF BudgetAssumption, Budgeted

LEMMA EnterKeeps == ASSUME IInv, NEW g \in Guard, Enter(g) PROVE IInv'
<1> DEFINE both == (Active \cap Budgeted) \cup ({g} \cap Budgeted)
<1>1. /\ guard[g] = "new" /\ guard' = [guard EXCEPT ![g] = "in"]
      /\ depth' = depth + 1
      /\ profiles' = Append(profiles, ProfileOf[g])
      /\ budgets' = Append(budgets, BudgetEntry(g))
      /\ overlapped' = overlapped \cup (IF Cardinality(both) > 1 THEN both ELSE {})
      /\ UNCHANGED <<budget, request, issued, refused>>
  BY DEF Enter
<1>2. StacksMatchGuards'
  BY EnterKeepsStacks DEF IInv
<1>3. Active' = Active \cup {g}
  BY <1>1 DEF IInv, TypeOK, Active
<1>4. both \subseteq Budgeted /\ IsFiniteSet(both) /\ Cardinality(both) \in Nat
  <2>1. both \subseteq Budgeted
    OBVIOUS
  <2>2. IsFiniteSet(Guard) /\ Budgeted \subseteq Guard
    BY BudgetAssumption DEF BudgetAssumption, Budgeted
  <2> HIDE DEF both
  <2> QED BY <2>1, <2>2, FS_Subset, FS_CardinalityType
<1>5. TypeOK'
  <2>1. guard' \in [Guard -> {"new", "in", "out"}]
    BY <1>1 DEF IInv, TypeOK
  <2>2. profiles' \in Seq(Profile)
    BY <1>1, EntryTypes, AppendProperties DEF IInv, TypeOK
  <2>3. budgets' \in Seq(Budgeted \cup {NoBudget})
    <3>1. budgets \in Seq(Budgeted \cup {NoBudget}) /\ BudgetEntry(g) \in Budgeted \cup {NoBudget}
      BY EntryTypes DEF IInv, TypeOK
    <3> QED BY <1>1, <3>1, AppendProperties
  <2>4. depth' \in 0..Cardinality(Guard)
    <3>1. Active' \in SUBSET Guard /\ IsFiniteSet(Guard)
      BY <1>3, BudgetAssumption DEF BudgetAssumption, Active
    <3>2. Cardinality(Active') <= Cardinality(Guard) /\ Cardinality(Active') \in Nat
      BY <3>1, FS_Subset, FS_CardinalityType
    <3> QED BY <1>2, <3>2, ActiveSets DEF StacksMatchGuards
  <2>5. overlapped' \subseteq Budgeted
    BY <1>1, <1>4 DEF IInv, TypeOK
  <2> QED BY <1>1, <2>1, <2>2, <2>3, <2>4, <2>5 DEF IInv, TypeOK
<1>6. RequestInv'
  <2> SUFFICES ASSUME NEW t \in Thread
               PROVE  (/\ request[t].at # "none" => guard[RunOf[t]] # "new"
                       /\ request[t].at = "metered" => request[t].budget # NoBudget
                       /\ guard[RunOf[t]] = "in" =>
                             /\ request[t].at \in {"safe", "metered"} =>
                                   request[t].profile = ProfileOf[RunOf[t]]
                             /\ request[t].at = "metered" =>
                                   \/ request[t].budget = RunOf[t]
                                   \/ request[t].budget = ThrowAway /\ RunOf[t] \in overlapped)'
    BY DEF RequestInv
  <2>1. RunOf[t] \in Guard
    BY RunTypes
  <2>2. CASE RunOf[t] = g
    BY <1>1, <2>1, <2>2 DEF IInv, RequestInv, TypeOK
  <2>3. CASE RunOf[t] # g
    <3>1. guard'[RunOf[t]] = guard[RunOf[t]]
      BY <1>1, <2>1, <2>3 DEF IInv, TypeOK
    <3> HIDE DEF both
    <3> QED BY <1>1, <3>1 DEF IInv, RequestInv
  <2> QED BY <2>2, <2>3
<1>7. OverlapInv'
  <2> SUFFICES ASSUME NEW a \in Active' \cap Budgeted, NEW b \in Active' \cap Budgeted, a # b
               PROVE  a \in overlapped'
    BY DEF OverlapInv
  <2>1. a \in both /\ b \in both
    BY <1>3
  <2>2. Cardinality({a} \cup {b}) = 2 /\ {a} \cup {b} \in SUBSET both
    <3> HIDE DEF both
    <3>1. Cardinality({a} \cup {b}) = 2
      BY PairIsTwo, Zenon
    <3> QED BY <2>1, <3>1
  <2>3. Cardinality({a} \cup {b}) <= Cardinality(both)
    BY <1>4, <2>2, FS_Subset
  <2>4. Cardinality(both) > 1
    BY <1>4, <2>2, <2>3
  <2> QED BY <1>1, <2>1, <2>4
<1>8. CountInv'
  BY <1>1 DEF IInv, CountInv
<1> QED BY <1>2, <1>5, <1>6, <1>7, <1>8 DEF IInv

LEMMA ExitKeeps == ASSUME IInv, NEW g \in Guard, Exit(g) PROVE IInv'
<1>1. /\ guard[g] = "in" /\ guard' = [guard EXCEPT ![g] = "out"]
      /\ UNCHANGED <<budget, request, issued, refused, overlapped>>
  BY DEF Exit
<1>2. /\ StacksMatchGuards'
      /\ profiles' \in Seq(Profile)
      /\ budgets' \in Seq(Budgeted \cup {NoBudget})
      /\ depth' = depth - 1
  BY ExitKeepsStacks DEF IInv
<1>3. Active' = Active \ {g} /\ g \in Active
  BY <1>1 DEF IInv, TypeOK, Active
<1>4. depth' \in 0..Cardinality(Guard)
  <2>1. depth # 0
    BY <1>3, ActiveSets, FS_EmptySet DEF IInv, StacksMatchGuards
  <2> QED BY <1>2, <2>1, ActiveSets DEF IInv, TypeOK
<1>5. TypeOK'
  BY <1>1, <1>2, <1>4 DEF IInv, TypeOK
<1>6. RequestInv'
  BY <1>1, RunTypes DEF IInv, RequestInv, TypeOK
<1>7. OverlapInv'
  BY <1>1, <1>3 DEF IInv, OverlapInv
<1>8. CountInv'
  BY <1>1 DEF IInv, CountInv
<1> QED BY <1>2, <1>5, <1>6, <1>7, <1>8 DEF IInv

\* A search of run g, on its own dict or after the run has left its guard.
LEMMA ConsumeKeeps ==
    ASSUME IInv, NEW b \in Budgeted, NEW g \in Budgeted, Consume(b, g),
           b = g \/ guard[g] # "in", UNCHANGED overlapped
    PROVE  /\ CountInv'
           /\ budget' \in [Budgeted -> [remaining : Nat, exhausted : BOOLEAN]]
           /\ issued' \in [Budgeted -> Nat]
           /\ refused' \subseteq Budgeted
<1>1. /\ budget \in [Budgeted -> [remaining : Nat, exhausted : BOOLEAN]]
      /\ issued \in [Budgeted -> Nat] /\ refused \subseteq Budgeted
      /\ \A h \in Budgeted : MaximumOf[h] \in Nat
  BY Maxima DEF IInv, TypeOK
<1>2. CASE MayTake(b)
  <2>1. /\ budget[b].remaining > 0
        /\ budget' = [budget EXCEPT ![b].remaining = @ - 1]
        /\ IF b = g THEN issued' = [issued EXCEPT ![g] = @ + 1] ELSE UNCHANGED issued
        /\ UNCHANGED refused
    BY <1>2 DEF Consume, MayTake, Take, Issue
  <2>2. ASSUME NEW h \in Budgeted
        PROVE  /\ issued'[h] = IF h = b /\ b = g THEN issued[h] + 1 ELSE issued[h]
               /\ budget'[h].remaining = IF h = b THEN budget[h].remaining - 1 ELSE budget[h].remaining
               /\ budget'[h].exhausted = budget[h].exhausted
    BY <1>1, <2>1
  <2>3. budget' \in [Budgeted -> [remaining : Nat, exhausted : BOOLEAN]] /\ issued' \in [Budgeted -> Nat]
    BY <1>1, <2>1
  <2>4. ASSUME NEW h \in Budgeted
        PROVE  /\ issued'[h] + budget'[h].remaining <= MaximumOf[h]
               /\ budget'[h].exhausted => budget'[h].remaining = 0
               /\ h \in refused' => budget'[h].exhausted \/ h \in overlapped'
    <3>1. /\ issued[h] + budget[h].remaining <= MaximumOf[h]
          /\ budget[h].exhausted => budget[h].remaining = 0
          /\ h \in refused => budget[h].exhausted \/ h \in overlapped
      BY DEF IInv, CountInv
    <3>2. issued[h] \in Nat /\ budget[h].remaining \in Nat /\ MaximumOf[h] \in Nat
      BY <1>1
    <3> QED BY <2>1, <2>2, <3>1, <3>2
  <2> QED BY <1>1, <2>1, <2>3, <2>4 DEF CountInv
<1>3. CASE ~MayTake(b)
  <2>1. /\ ~(budget[b].remaining > 0)
        /\ budget' = [budget EXCEPT ![b].exhausted = TRUE]
        /\ UNCHANGED issued
        /\ refused' = IF guard[g] = "in" THEN refused \cup {g} ELSE refused
    BY <1>3 DEF Consume, MayTake, Flag, Refuse
  <2>2. budget[b].remaining = 0
    BY <1>1, <2>1
  <2>3. budget' \in [Budgeted -> [remaining : Nat, exhausted : BOOLEAN]]
    BY <1>1, <2>1
  <2>4. ASSUME NEW h \in Budgeted
        PROVE  /\ budget'[h].remaining = budget[h].remaining
               /\ budget'[h].exhausted <=> (h = b \/ budget[h].exhausted)
    BY <1>1, <2>1
  <2>5. \A h \in Budgeted : h \in refused' => h \in refused \/ h = b
    BY <2>1
  <2>6. CountInv'
    BY <2>1, <2>2, <2>4, <2>5 DEF IInv, CountInv
  <2> QED BY <1>1, <2>1, <2>3, <2>6
<1> QED BY <1>2, <1>3

\* A step that leaves the guards and their stacks alone, and no request but t's.
LEMMA Frame ==
    ASSUME IInv, UNCHANGED GuardVars
    PROVE  /\ StacksMatchGuards' /\ OverlapInv' /\ Active' = Active
           /\ depth' \in 0..Cardinality(Guard)
           /\ profiles' \in Seq(Profile)
           /\ budgets' \in Seq(Budgeted \cup {NoBudget})
           /\ guard' \in [Guard -> {"new", "in", "out"}]
           /\ overlapped' \subseteq Budgeted
<1>1. UNCHANGED <<depth, profiles, budgets, guard, overlapped>>
  BY DEF GuardVars
<1>2. Active' = Active
  BY <1>1 DEF Active
<1>3. StacksMatchGuards'
  BY <1>1, <1>2 DEF IInv, StacksMatchGuards, Occurrences
<1> QED BY <1>1, <1>2, <1>3 DEF IInv, TypeOK, OverlapInv

LEMMA SearchInContextKeeps ==
    ASSUME IInv, NEW g \in Budgeted, SearchInContext(g) PROVE IInv'
<1>1. Consume(g, g) /\ UNCHANGED <<GuardVars, request>>
  BY DEF SearchInContext
<1>2. UNCHANGED <<guard, overlapped>>
  BY <1>1 DEF GuardVars
<1>3. RequestInv'
  BY <1>1, <1>2 DEF IInv, RequestInv
<1> QED BY <1>1, <1>2, <1>3, Frame, ConsumeKeeps DEF IInv, TypeOK

Request == [at : {"none", "protected", "safe", "metered"},
            profile : Profile \cup {DenyAll},
            budget : Budgeted \cup {NoBudget, ThrowAway}]

\* A search that no budget meters is no search of a run inside its guard.
LEMMA PassKeeps ==
    ASSUME IInv, NEW t \in Thread, Passes(t), guard[RunOf[t]] # "in",
           UNCHANGED <<budget, overlapped>>
    PROVE  /\ CountInv' /\ UNCHANGED <<issued, refused>>
           /\ budget' \in [Budgeted -> [remaining : Nat, exhausted : BOOLEAN]]
BY DEF Passes, IInv, CountInv, TypeOK

LEMMA NothingCounted ==
    ASSUME IInv, UNCHANGED <<budget, overlapped, issued, refused>>
    PROVE  /\ CountInv'
           /\ budget' \in [Budgeted -> [remaining : Nat, exhausted : BOOLEAN]]
BY DEF IInv, CountInv, TypeOK

\* What holds of the request that thread t is left with.
OwnRequest(t, r) ==
    /\ r \in Request
    /\ r.at # "none" => guard[RunOf[t]] # "new"
    /\ r.at = "metered" => r.budget # NoBudget
    /\ guard[RunOf[t]] = "in" =>
          /\ r.at \in {"safe", "metered"} => r.profile = ProfileOf[RunOf[t]]
          /\ r.at = "metered" =>
                r.budget = RunOf[t] \/ (r.budget = ThrowAway /\ RunOf[t] \in overlapped)

LEMMA RequestKeeps ==
    ASSUME IInv, NEW t \in Thread, UNCHANGED GuardVars,
           NEW r, OwnRequest(t, r), request' = [request EXCEPT ![t] = r]
    PROVE  RequestInv' /\ request' \in [Thread -> Request]
<1>1. UNCHANGED <<guard, overlapped>>
  BY DEF GuardVars
<1>2. request \in [Thread -> Request]
  BY DEF IInv, TypeOK, Request
<1>3. \A u \in Thread : request'[u] = IF u = t THEN r ELSE request[u]
  BY <1>2
<1>4. RequestInv'
  <2> SUFFICES ASSUME NEW u \in Thread
               PROVE  /\ request'[u].at # "none" => guard[RunOf[u]] # "new"
                      /\ request'[u].at = "metered" => request'[u].budget # NoBudget
                      /\ guard[RunOf[u]] = "in" =>
                            /\ request'[u].at \in {"safe", "metered"} =>
                                  request'[u].profile = ProfileOf[RunOf[u]]
                            /\ request'[u].at = "metered" =>
                                  \/ request'[u].budget = RunOf[u]
                                  \/ request'[u].budget = ThrowAway /\ RunOf[u] \in overlapped
    BY <1>1 DEF RequestInv
  <2>1. CASE u = t
    BY <1>3, <2>1 DEF OwnRequest
  <2>2. CASE u # t
    BY <1>3, <2>2 DEF IInv, RequestInv
  <2> QED BY <2>1, <2>2
<1> QED BY <1>2, <1>4 DEF OwnRequest

\* The parts of a thread's step together.
LEMMA ThreadKeeps ==
    ASSUME IInv, NEW t \in Thread, UNCHANGED GuardVars,
           NEW r, OwnRequest(t, r), request' = [request EXCEPT ![t] = r],
           CountInv',
           budget' \in [Budgeted -> [remaining : Nat, exhausted : BOOLEAN]],
           issued' \in [Budgeted -> Nat], refused' \subseteq Budgeted
    PROVE  IInv'
BY Frame, RequestKeeps DEF IInv, TypeOK, Request

LEMMA ThreadStartsKeeps == ASSUME IInv, NEW t \in Thread, ThreadStarts(t) PROVE IInv'
<1>1. /\ request[t] \in Request /\ request \in [Thread -> Request]
      /\ issued \in [Budgeted -> Nat] /\ refused \subseteq Budgeted
      /\ depth \in Nat
  BY ActiveSets DEF IInv, TypeOK, Request
<1>2. /\ request[t].at = "none" /\ guard[RunOf[t]] # "new"
      /\ UNCHANGED <<GuardVars, budget>> /\ UNCHANGED overlapped
  BY DEF ThreadStarts, GuardVars
<1>3. CASE depth > 0
  <2> DEFINE r == [request[t] EXCEPT !.at = "protected"]
  <2>1. request' = [request EXCEPT ![t] = r] /\ UNCHANGED <<issued, refused>>
    BY <1>1, <1>3 DEF ThreadStarts
  <2>2. OwnRequest(t, r)
    BY <1>1, <1>2 DEF OwnRequest, Request
  <2> QED BY <1>1, <1>2, <2>1, <2>2, NothingCounted, ThreadKeeps
<1>4. CASE ~(depth > 0)
  <2>1. Passes(t) /\ UNCHANGED request
    BY <1>4 DEF ThreadStarts
  <2>2. Active = {}
    BY <1>1, <1>4, ActiveSets, FS_EmptySet DEF IInv, StacksMatchGuards
  <2>3. guard[RunOf[t]] # "in"
    BY <2>2, RunTypes DEF Active
  <2>4. request' = [request EXCEPT ![t] = request[t]]
    BY <1>1, <2>1
  <2>5. OwnRequest(t, request[t])
    BY <1>1, <1>2 DEF OwnRequest
  <2> QED BY <1>1, <1>2, <2>1, <2>3, <2>4, <2>5, PassKeeps, ThreadKeeps
<1> QED BY <1>3, <1>4

LEMMA ThreadReadsProfileKeeps ==
    ASSUME IInv, NEW t \in Thread, ThreadReadsProfile(t) PROVE IInv'
<1>1. /\ request[t] \in Request /\ request \in [Thread -> Request]
      /\ issued \in [Budgeted -> Nat] /\ refused \subseteq Budgeted
  BY DEF IInv, TypeOK, Request
<1>2. /\ request[t].at = "protected"
      /\ UNCHANGED <<GuardVars, budget, issued, refused>> /\ UNCHANGED overlapped
  BY DEF ThreadReadsProfile, GuardVars
<1> DEFINE next == IF FallbackProfile \in SearchProfiles THEN "safe" ELSE "none"
           r == [request[t] EXCEPT !.at = next, !.profile = FallbackProfile]
<1>3. request' = [request EXCEPT ![t] = r]
  BY <1>1 DEF ThreadReadsProfile
<1>4. FallbackProfile \in Profile \cup {DenyAll}
  BY AnyProfileRead DEF IInv
<1>5. guard[RunOf[t]] # "new"
  BY <1>2 DEF IInv, RequestInv
<1>6. guard[RunOf[t]] = "in" /\ next = "safe" => FallbackProfile = ProfileOf[RunOf[t]]
  BY OwnProfileRead DEF IInv
<1>7. OwnRequest(t, r)
  <2>1. next \in {"safe", "none"}
    OBVIOUS
  <2> HIDE DEF next
  <2> QED BY <1>1, <1>4, <1>5, <1>6, <2>1 DEF OwnRequest, Request
<1> QED BY <1>1, <1>2, <1>3, <1>7, NothingCounted, ThreadKeeps

LEMMA ThreadReadsBudgetKeeps ==
    ASSUME IInv, NEW t \in Thread, ThreadReadsBudget(t) PROVE IInv'
<1>1. /\ request[t] \in Request /\ request \in [Thread -> Request]
      /\ issued \in [Budgeted -> Nat] /\ refused \subseteq Budgeted
  BY DEF IInv, TypeOK, Request
<1>2. /\ request[t].at = "safe"
      /\ UNCHANGED <<GuardVars, budget>> /\ UNCHANGED overlapped
      /\ IF FallbackBudget = NoBudget THEN Passes(t) ELSE UNCHANGED <<issued, refused>>
  BY DEF ThreadReadsBudget, GuardVars
<1> DEFINE next == IF FallbackBudget = NoBudget THEN "none" ELSE "metered"
           r == [request[t] EXCEPT !.at = next, !.budget = FallbackBudget]
<1>3. request' = [request EXCEPT ![t] = r]
  BY <1>1 DEF ThreadReadsBudget
<1>4. /\ FallbackBudget \in Budgeted \cup {NoBudget, ThrowAway}
      /\ \A g \in Active \cap Budgeted :
            \/ FallbackBudget = g
            \/ FallbackBudget = ThrowAway /\ \E h \in Active \cap Budgeted : h # g
  BY BudgetRead DEF IInv
<1>5. /\ guard[RunOf[t]] # "new"
      /\ guard[RunOf[t]] = "in" => request[t].profile = ProfileOf[RunOf[t]]
  BY <1>2 DEF IInv, RequestInv
<1>6. guard[RunOf[t]] = "in" =>
        \/ FallbackBudget = RunOf[t]
        \/ FallbackBudget = ThrowAway /\ RunOf[t] \in overlapped
  <2>1. guard[RunOf[t]] = "in" => RunOf[t] \in Active \cap Budgeted
    BY RunTypes DEF Active
  <2> QED BY <1>4, <2>1 DEF IInv, OverlapInv
<1>7. OwnRequest(t, r)
  <2>1. /\ r.profile = request[t].profile /\ r.budget = FallbackBudget /\ r.at = next
        /\ r.profile \in Profile \cup {DenyAll}
    BY <1>1 DEF Request
  <2>2. next \in {"metered", "none"} /\ (next = "metered" => FallbackBudget # NoBudget)
    OBVIOUS
  <2>3. r \in Request
    BY <1>1, <1>4 DEF Request
  <2> HIDE DEF next, r
  <2> QED BY <1>5, <1>6, <2>1, <2>2, <2>3 DEF OwnRequest
<1>8. CASE FallbackBudget = NoBudget
  <2>1. guard[RunOf[t]] # "in"
    BY <1>6, <1>8, RunTypes, BudgetAssumption DEF BudgetAssumption
  <2> QED BY <1>1, <1>2, <1>3, <1>7, <1>8, <2>1, PassKeeps, ThreadKeeps
<1>9. CASE FallbackBudget # NoBudget
  BY <1>1, <1>2, <1>3, <1>7, <1>9, NothingCounted, ThreadKeeps
<1> QED BY <1>8, <1>9

LEMMA ThreadConsumesKeeps ==
    ASSUME IInv, NEW t \in Thread, ThreadConsumes(t) PROVE IInv'
<1>1. /\ request[t] \in Request /\ request \in [Thread -> Request]
      /\ issued \in [Budgeted -> Nat] /\ refused \subseteq Budgeted
      /\ RunOf[t] \in Budgeted
  BY RunTypes DEF IInv, TypeOK, Request
<1>2. request[t].at = "metered" /\ UNCHANGED GuardVars /\ UNCHANGED overlapped
  BY DEF ThreadConsumes, GuardVars
<1> DEFINE r == [request[t] EXCEPT !.at = "none"]
<1>3. request' = [request EXCEPT ![t] = r]
  BY <1>1 DEF ThreadConsumes
<1>4. OwnRequest(t, r)
  BY <1>1 DEF OwnRequest, Request
<1>5. /\ request[t].budget # NoBudget
      /\ guard[RunOf[t]] = "in" =>
            \/ request[t].budget = RunOf[t]
            \/ request[t].budget = ThrowAway /\ RunOf[t] \in overlapped
  BY <1>2 DEF IInv, RequestInv
<1>6. CASE request[t].budget = ThrowAway
  <2>1. UNCHANGED <<budget, issued>>
    BY <1>6 DEF ThreadConsumes, Refuse
  <2>2. refused' = IF guard[RunOf[t]] = "in" THEN refused \cup {RunOf[t]} ELSE refused
    BY <1>6 DEF ThreadConsumes, Refuse
  <2>3. guard[RunOf[t]] = "in" => RunOf[t] \in overlapped
    BY <1>5, <1>6, RunTypes
  <2>4. CountInv'
    BY <1>2, <2>1, <2>2, <2>3 DEF IInv, CountInv
  <2>5. budget' \in [Budgeted -> [remaining : Nat, exhausted : BOOLEAN]]
    BY <2>1 DEF IInv, TypeOK
  <2> QED BY <1>1, <1>2, <1>3, <1>4, <2>1, <2>2, <2>4, <2>5, ThreadKeeps
<1>7. CASE request[t].budget # ThrowAway
  <2>1. request[t].budget \in Budgeted
    BY <1>1, <1>5, <1>7 DEF Request
  <2>2. Consume(request[t].budget, RunOf[t])
    BY <1>7 DEF ThreadConsumes
  <2>3. request[t].budget = RunOf[t] \/ guard[RunOf[t]] # "in"
    BY <1>5, <1>7
  <2>4. /\ CountInv'
        /\ budget' \in [Budgeted -> [remaining : Nat, exhausted : BOOLEAN]]
        /\ issued' \in [Budgeted -> Nat]
        /\ refused' \subseteq Budgeted
    BY <1>1, <1>2, <2>1, <2>2, <2>3, ConsumeKeeps
  <2> QED BY <1>2, <1>3, <1>4, <2>4, ThreadKeeps
<1> QED BY <1>6, <1>7

-----------------------------------------------------------------------------
LEMMA InitIInv == Init => IInv
<1> SUFFICES ASSUME Init PROVE IInv
  OBVIOUS
<1>1. Active = {}
  BY DEF Init, Active
<1>2. profiles = <<>> /\ budgets = <<>> /\ depth = 0
  BY DEF Init
<1>3. \A x : Occurrences(<<>>, x) = 0
  <2>1. \A x : {n \in DOMAIN <<>> : <<>>[n] = x} = {}
    OBVIOUS
  <2> QED BY <2>1, FS_EmptySet DEF Occurrences
<1>4. StacksMatchGuards
  <2>1. \A p : {g \in Active : ProfileOf[g] = p} = {}
    BY <1>1
  <2>2. Active \ Budgeted = {}
    BY <1>1
  <2> QED BY <1>1, <1>2, <1>3, <2>1, <2>2, FS_EmptySet DEF StacksMatchGuards
<1>5. TypeOK
  <2>1. <<>> \in Seq(Profile) /\ <<>> \in Seq(Budgeted \cup {NoBudget})
    BY EmptySeq
  <2>2. budget \in [Budgeted -> [remaining : Nat, exhausted : BOOLEAN]]
    BY Maxima DEF Init
  <2>3. NoRequest \in Request
    BY DEF NoRequest, Request, Profile
  <2>4. 0 \in 0..Cardinality(Guard)
    BY ActiveSets
  <2> QED BY <2>1, <2>2, <2>3, <2>4 DEF Init, TypeOK, Request
<1>6. CountInv
  <2>1. refused = {}
    BY DEF Init
  <2>2. ASSUME NEW g \in Budgeted
        PROVE  issued[g] + budget[g].remaining <= MaximumOf[g] /\ ~budget[g].exhausted
    <3>1. MaximumOf[g] \in Nat
      BY Maxima
    <3>2. issued[g] = 0
      BY DEF Init
    <3>3. budget[g].remaining = MaximumOf[g]
      BY DEF Init
    <3>4. ~budget[g].exhausted
      BY DEF Init
    <3> QED BY <3>1, <3>2, <3>3, <3>4
  <2> QED BY <2>1, <2>2 DEF CountInv
<1>7. RequestInv
  BY DEF Init, RequestInv, NoRequest
<1>8. OverlapInv
  BY <1>1 DEF OverlapInv
<1> QED BY <1>4, <1>5, <1>6, <1>7, <1>8 DEF IInv

LEMMA NextIInv == IInv /\ [Next]_vars => IInv'
<1> SUFFICES ASSUME IInv, [Next]_vars PROVE IInv'
  OBVIOUS
<1>1. ASSUME NEW g \in Guard, Enter(g) \/ Exit(g)
      PROVE  IInv'
  BY <1>1, EnterKeeps, ExitKeeps
<1>2. ASSUME NEW g \in Budgeted, SearchInContext(g)
      PROVE  IInv'
  BY <1>2, SearchInContextKeeps
<1>3. ASSUME NEW t \in Thread,
             ThreadStarts(t) \/ ThreadReadsProfile(t) \/ ThreadReadsBudget(t) \/ ThreadConsumes(t)
      PROVE  IInv'
  BY <1>3, ThreadStartsKeeps, ThreadReadsProfileKeeps, ThreadReadsBudgetKeeps, ThreadConsumesKeeps
<1>4. CASE UNCHANGED vars
  <2>1. /\ UNCHANGED GuardVars
        /\ UNCHANGED <<budget, request, issued, refused, guard, overlapped>>
    BY <1>4 DEF vars, GuardVars
  <2>2. RequestInv' /\ CountInv'
    BY <2>1 DEF IInv, RequestInv, CountInv
  <2> QED BY <2>1, <2>2, Frame DEF IInv, TypeOK
<1> QED BY <1>1, <1>2, <1>3, <1>4 DEF Next

LEMMA Inductive == Spec => []IInv
BY InitIInv, NextIInv, PTL DEF Spec

(***************************************************************************)
(* Depth, stacks, dicts and requests keep their types, for any finite set  *)
(* of runs: in particular no budget ever goes below zero.                  *)
(***************************************************************************)
THEOREM TypeCorrect == Spec => []TypeOK
<1>1. IInv => TypeOK
  BY DEF IInv
<1> QED BY <1>1, Inductive, PTL

(***************************************************************************)
(* The stacks and the depth describe the active guards, whatever the order *)
(* in which any number of overlapping runs leave theirs.                   *)
(***************************************************************************)
THEOREM StacksMatch == Spec => []StacksMatchGuards
<1>1. IInv => StacksMatchGuards
  BY DEF IInv
<1> QED BY <1>1, Inductive, PTL

(***************************************************************************)
(* No run inside its guard searches more often than its maximum, with its  *)
(* worker threads, however many runs and threads overlap.                  *)
(***************************************************************************)
THEOREM WithinMaximum == Spec => []SearchesWithinMaximum
<1>1. ASSUME IInv PROVE SearchesWithinMaximum
  <2> SUFFICES ASSUME NEW g \in Budgeted PROVE issued[g] <= MaximumOf[g]
    BY DEF SearchesWithinMaximum
  <2>1. issued[g] \in Nat /\ budget[g].remaining \in Nat /\ MaximumOf[g] \in Nat
    BY <1>1, Maxima DEF IInv, TypeOK
  <2>2. issued[g] + budget[g].remaining <= MaximumOf[g]
    BY <1>1 DEF IInv, CountInv
  <2> QED BY <2>1, <2>2
<1> QED BY <1>1, Inductive, PTL

(***************************************************************************)
(* A thread without context works under its own run's profile and budget   *)
(* or is refused, while that run is active.                                *)
(***************************************************************************)
THEOREM OwnWork == Spec => []OwnOrRefused
<1>1. IInv => OwnOrRefused
  BY DEF IInv, RequestInv, OwnOrRefused
<1> QED BY <1>1, Inductive, PTL

(***************************************************************************)
(* A budget stop is true: seen by the run it concerns when no other budget *)
(* overlapped, and by a run only when its budget is used up.               *)
(***************************************************************************)
THEOREM BudgetStop == Spec => []BudgetStopIsTrue
<1>1. ASSUME IInv PROVE BudgetStopIsTrue
  <2>1. refused \subseteq Budgeted
    BY <1>1 DEF IInv, TypeOK
  <2> QED BY <1>1, <2>1 DEF IInv, CountInv, BudgetStopIsTrue, SearchBudgetExhausted
<1> QED BY <1>1, Inductive, PTL
=============================================================================
