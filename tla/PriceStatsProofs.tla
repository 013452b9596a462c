-------------------------- MODULE PriceStatsProofs --------------------------
(***************************************************************************)
(* Proofs about the numbers GET /auctions shows for an item, for lists of  *)
(* any length: the median of a sorted list, and what ItemInfo tells of     *)
(* prices that came in any order.                                          *)
(*                                                                         *)
(* The sum and the sorting take induction over data.  It is said here with *)
(* sets: the numbers, or the subsets of a finite set, that lack a property *)
(* have no least among them, so that there are none.                       *)
(***************************************************************************)
EXTENDS PriceStats, FiniteSetsExt, FiniteSetTheorems, SequenceTheorems, FunctionTheorems,
        WellFoundedInduction, TLAPS

-----------------------------------------------------------------------------
\* Induction, said with sets.

\* Every set of natural numbers that is not empty has a least element.
LEMMA LeastNatural ==
  ASSUME NEW T \in SUBSET Nat, T # {}
  PROVE  \E m \in T : \A n \in T : m <= n
<1>1. IsWellFoundedOn(OpToRel(<, Nat), Nat)
  BY NatLessThanWellFounded
<1>2. PICK m \in T : \A n \in T : <<n, m>> \notin OpToRel(<, Nat)
  BY <1>1, WFMin
<1>3. \A n \in T : <<n, m>> \in OpToRel(<, Nat) <=> n < m
  BY DEF OpToRel
<1>4. \A n \in T : ~(n < m)
  BY <1>2, <1>3, Zenon
<1>5. \A n \in T : m <= n
  BY <1>4
<1> QED
  BY <1>5

\* A set that has 0, and with a number also the next, has all numbers.
LEMMA StepByStep ==
  ASSUME NEW S \in SUBSET Nat, 0 \in S, \A n \in Nat : n \in S => n + 1 \in S
  PROVE  S = Nat
<1> SUFFICES ASSUME Nat \ S # {} PROVE FALSE
  OBVIOUS
<1>1. PICK m \in Nat \ S : \A n \in Nat \ S : m <= n
  BY LeastNatural
<1>2. m # 0 /\ m - 1 \in Nat
  BY <1>1
<1>3. m - 1 \in S
  BY <1>1, <1>2
<1>4. (m - 1) + 1 \in S
  BY <1>2, <1>3
<1> QED
  BY <1>1, <1>4

\* A family of subsets of a finite set that has the empty set, and a set when it has
\* that set without any one of its elements, has all of them.
LEMMA ElementByElement ==
  ASSUME NEW S, IsFiniteSet(S), NEW G \in SUBSET SUBSET S, {} \in G,
         \A T \in SUBSET S : T # {} /\ (\A x \in T : T \ {x} \in G) => T \in G
  PROVE  G = SUBSET S
<1> SUFFICES ASSUME (SUBSET S) \ G # {} PROVE FALSE
  OBVIOUS
<1> DEFINE Sizes == {Cardinality(T) : T \in (SUBSET S) \ G}
<1>1. \A T \in SUBSET S : IsFiniteSet(T) /\ Cardinality(T) \in Nat
  BY FS_Subset, FS_CardinalityType
<1>2. Sizes \in SUBSET Nat /\ Sizes # {}
  BY <1>1
<1>3. PICK m \in Sizes : \A n \in Sizes : m <= n
  <2> HIDE DEF Sizes
  <2> QED
    BY <1>2, LeastNatural
<1>4. PICK T \in (SUBSET S) \ G : m = Cardinality(T)
  BY <1>3
<1>5. \A U \in (SUBSET S) \ G : Cardinality(T) <= Cardinality(U)
  BY <1>3, <1>4
<1>6. ASSUME NEW x \in T PROVE T \ {x} \in G
  <2>1. Cardinality(T \ {x}) = Cardinality(T) - 1
    BY <1>1, <1>6, FS_RemoveElement
  <2>2. T \ {x} \in SUBSET S
    OBVIOUS
  <2>3. Cardinality(T) \in Nat
    BY <1>1
  <2> QED
    BY <1>5, <2>1, <2>2, <2>3
<1> QED
  BY <1>6

-----------------------------------------------------------------------------
\* Sums.

\* The function sum of Sum: it exists, and its steps are those of the loop.
LEMMA SumBySteps ==
  ASSUME NEW list \in Seq(Int)
  PROVE  \E sum \in [0 .. Len(list) -> Int] :
           /\ sum[0] = 0
           /\ \A n \in 1 .. Len(list) : sum[n] = sum[n - 1] + list[n]
           /\ Sum(list) = sum[Len(list)]
<1> DEFINE N == Len(list)
           Good(f, k) == /\ f[0] = 0
                         /\ \A n \in 1 .. k : f[n] = f[n - 1] + list[n]
           S == {k \in Nat : k <= N => \E f \in [0 .. k -> Int] : Good(f, k)}
<1>0. N \in Nat /\ \A n \in 1 .. N : list[n] \in Int
  BY LenProperties
<1> HIDE DEF N
<1>1. 0 \in S
  <2>1. [n \in 0 .. 0 |-> 0] \in [0 .. 0 -> Int] /\ Good([n \in 0 .. 0 |-> 0], 0)
    OBVIOUS
  <2> QED
    BY <2>1
<1>2. ASSUME NEW k \in Nat, k \in S PROVE k + 1 \in S
  <2> SUFFICES ASSUME k + 1 <= N
               PROVE  \E g \in [0 .. k + 1 -> Int] : Good(g, k + 1)
    OBVIOUS
  <2>1. PICK f \in [0 .. k -> Int] : Good(f, k)
    BY <1>0, <1>2
  <2> DEFINE g == [n \in 0 .. k + 1 |-> IF n = k + 1 THEN f[k] + list[k + 1] ELSE f[n]]
  <2>2. list[k + 1] \in Int
    BY <1>0
  <2>3. g \in [0 .. k + 1 -> Int]
    BY <2>1, <2>2
  <2>4. g[0] = 0
    BY <2>1
  <2>5. ASSUME NEW n \in 1 .. k + 1 PROVE g[n] = g[n - 1] + list[n]
    <3>1. CASE n = k + 1
      BY <3>1
    <3>2. CASE n \in 1 .. k
      BY <2>1, <3>2
    <3> QED
      BY <3>1, <3>2
  <2> HIDE DEF g
  <2> QED
    BY <2>3, <2>4, <2>5
<1>3. N \in S
  <2>1. S \in SUBSET Nat
    OBVIOUS
  <2> HIDE DEF S
  <2> QED
    BY <1>0, <1>1, <1>2, <2>1, StepByStep
<1>4. PICK f \in [0 .. N -> Int] : Good(f, N)
  <2>1. N <= N
    BY <1>0
  <2> HIDE DEF Good
  <2> QED
    BY <1>3, <2>1
<1> DEFINE Step(h) == [n \in 0 .. N |-> IF n = 0 THEN 0 ELSE h[n - 1] + list[n]]
           sum == CHOOSE h : h = Step(h)
<1>5. f = Step(f)
  BY <1>4
<1>6. sum = Step(sum)
  <2> HIDE DEF Step
  <2> QED
    BY <1>5
<1>7. Sum(list) = sum[N]
  BY DEF Sum, N
<1> HIDE DEF sum
<1>8. DOMAIN sum = 0 .. N /\ sum[0] = 0 /\ \A n \in 1 .. N : sum[n] = sum[n - 1] + list[n]
  BY <1>0, <1>6
<1>9. ASSUME NEW n \in 0 .. N PROVE sum[n] \in Int
  <2> DEFINE R == {k \in Nat : k <= N => sum[k] \in Int}
  <2>1. 0 \in R
    BY <1>8
  <2>2. ASSUME NEW k \in Nat, k \in R PROVE k + 1 \in R
    <3>1. CASE k + 1 <= N
      <4>1. k + 1 \in 1 .. N /\ (k + 1) - 1 = k /\ sum[k] \in Int
        BY <1>0, <2>2, <3>1
      <4>2. sum[k + 1] = sum[k] + list[k + 1]
        BY <1>8, <4>1
      <4> QED
        BY <1>0, <4>1, <4>2
    <3> QED
      BY <3>1
  <2>3. R = Nat
    <3>1. R \in SUBSET Nat
      OBVIOUS
    <3> HIDE DEF R
    <3> QED
      BY <2>1, <2>2, <3>1, StepByStep
  <2>4. n \in R
    BY <1>0, <2>3
  <2> QED
    BY <1>0, <2>4
<1>10. sum \in [0 .. N -> Int]
  BY <1>6, <1>9
<1> QED
  BY <1>7, <1>8, <1>10 DEF N

\* The sum of a function over a set.
Total(P, S) == MapThenSumSet(LAMBDA x : P[x], S)

\* What MapThenSumSet computes with: a function on the subsets of a set, which takes
\* some element first.
First(T) == CHOOSE x \in T : TRUE
TotalStep(P, S, it) ==
  [T \in SUBSET S |-> IF T = {} THEN 0 ELSE P[First(T)] + it[T \ {First(T)}]]

\* Total by that function.
LEMMA TotalIs ==
  ASSUME NEW P, NEW S
  PROVE  Total(P, S) = (CHOOSE it : it = TotalStep(P, S, it))[S]
BY DEF Total, MapThenSumSet, MapThenFoldSet, TotalStep, First

\* Only the empty set has no first element.
LEMMA FirstIn ==
  ASSUME NEW T, T # {}
  PROVE  First(T) \in T
BY DEF First

\* That function exists.
LEMMA TotalExists ==
  ASSUME NEW S, IsFiniteSet(S), NEW P \in [S -> Int]
  PROVE  \E it \in [SUBSET S -> Int] : it = TotalStep(P, S, it)
<1> DEFINE Upto(k) == {T \in SUBSET S : Cardinality(T) <= k}
           Good(f, k) == \A T \in Upto(k) :
                           f[T] = IF T = {} THEN 0 ELSE P[First(T)] + f[T \ {First(T)}]
           K == {k \in Nat : \E f \in [Upto(k) -> Int] : Good(f, k)}
<1>0. \A T \in SUBSET S : IsFiniteSet(T) /\ Cardinality(T) \in Nat
  BY FS_Subset, FS_CardinalityType
<1>1. \A T \in SUBSET S : Cardinality(T) = 0 <=> T = {}
  BY <1>0, FS_EmptySet
<1>2. \A T \in SUBSET S : T # {} => /\ T \ {First(T)} \in SUBSET S
                                    /\ Cardinality(T \ {First(T)}) = Cardinality(T) - 1
                                    /\ P[First(T)] \in Int
  BY <1>0, FirstIn, FS_RemoveElement
<1>3. 0 \in K
  <2>1. \A T \in Upto(0) : T = {}
    BY <1>0, <1>1
  <2>2. [T \in Upto(0) |-> 0] \in [Upto(0) -> Int]
    OBVIOUS
  <2>3. Good([T \in Upto(0) |-> 0], 0)
    BY <2>1
  <2> QED
    BY <2>2, <2>3
<1>4. ASSUME NEW k \in Nat, k \in K PROVE k + 1 \in K
  <2>1. PICK f \in [Upto(k) -> Int] : Good(f, k)
    BY <1>4
  <2> DEFINE Value(T) == IF T = {} THEN 0 ELSE P[First(T)] + f[T \ {First(T)}]
             g == [T \in Upto(k + 1) |-> Value(T)]
  <2>2. ASSUME NEW T \in Upto(k + 1), T # {} PROVE T \ {First(T)} \in Upto(k)
    BY <1>0, <1>2, <2>2
  <2>3. \A T \in Upto(k + 1) : Value(T) \in Int
    BY <1>2, <2>2
  <2>4. \A T \in Upto(k) : T \in Upto(k + 1) /\ f[T] = Value(T)
    BY <1>0, <2>1
  <2>5. g \in [Upto(k + 1) -> Int]
    <3> HIDE DEF Upto, Value
    <3> QED
      BY <2>3
  <2>6. \A T \in Upto(k) : g[T] = f[T]
    <3> HIDE DEF Upto, Value
    <3> QED
      BY <2>4
  <2>7. ASSUME NEW T \in Upto(k + 1)
        PROVE  g[T] = IF T = {} THEN 0 ELSE P[First(T)] + g[T \ {First(T)}]
    <3> HIDE DEF Upto
    <3>1. g[T] = Value(T)
      OBVIOUS
    <3> HIDE DEF g
    <3> QED
      BY <2>2, <2>6, <2>7, <3>1
  <2>8. Good(g, k + 1)
    <3> HIDE DEF Upto, g
    <3> QED
      BY <2>7
  <2>9. k + 1 \in Nat /\ \E h \in [Upto(k + 1) -> Int] : Good(h, k + 1)
    <3> HIDE DEF g, Good, Upto
    <3> QED
      BY <2>5, <2>8
  <2> HIDE DEF Good, Upto
  <2> QED
    BY <2>9
<1>5. Cardinality(S) \in K
  <2>1. K \in SUBSET Nat
    OBVIOUS
  <2>2. K = Nat
    <3> HIDE DEF K
    <3> QED
      BY <1>3, <1>4, <2>1, StepByStep
  <2> QED
    BY <1>0, <2>2
<1>6. Upto(Cardinality(S)) = SUBSET S
  BY FS_Subset
<1>7. PICK f \in [SUBSET S -> Int] : Good(f, Cardinality(S))
  <2> HIDE DEF Upto, Good
  <2> QED
    BY <1>5, <1>6
<1>8. f = TotalStep(P, S, f)
  <2> HIDE DEF Upto
  <2>1. \A T \in SUBSET S : f[T] = IF T = {} THEN 0 ELSE P[First(T)] + f[T \ {First(T)}]
    BY <1>6, <1>7
  <2> QED
    BY <2>1 DEF TotalStep
<1> QED
  BY <1>8

\* The sums over all subsets at once.
TotalsOf(P, S, it) ==
  /\ it \in [SUBSET S -> Int]
  /\ \A T \in SUBSET S : Total(P, T) = it[T]
  /\ it[{}] = 0
  /\ \A T \in SUBSET S : T # {} => it[T] = P[First(T)] + it[T \ {First(T)}]

\* The sum over a set is its first element's value and the sum of the others.
LEMMA TotalOfSubsets ==
  ASSUME NEW S, IsFiniteSet(S), NEW P \in [S -> Int]
  PROVE  \E it : TotalsOf(P, S, it)
<1>1. PICK it \in [SUBSET S -> Int] : it = TotalStep(P, S, it)
  BY TotalExists
<1>2. it[{}] = 0 /\ \A T \in SUBSET S : T # {} => it[T] = P[First(T)] + it[T \ {First(T)}]
  BY <1>1 DEF TotalStep
<1>3. ASSUME NEW T \in SUBSET S PROVE Total(P, T) = it[T]
  <2> DEFINE own == CHOOSE h : h = TotalStep(P, T, h)
  <2>1. [U \in SUBSET T |-> it[U]] = TotalStep(P, T, [U \in SUBSET T |-> it[U]])
    BY <1>2 DEF TotalStep
  <2>2. own = TotalStep(P, T, own)
    BY <2>1
  <2>3. Total(P, T) = own[T]
    BY TotalIs
  <2> HIDE DEF own
  <2>4. /\ own[{}] = 0
        /\ \A U \in SUBSET T : U # {} => own[U] = P[First(U)] + own[U \ {First(U)}]
    BY <2>2 DEF TotalStep
  <2> DEFINE G == {U \in SUBSET T : own[U] = it[U]}
  <2>5. {} \in G
    BY <1>2, <2>4
  <2>6. ASSUME NEW U \in SUBSET T, U # {}, \A x \in U : U \ {x} \in G PROVE U \in G
    <3>1. First(U) \in U
      BY <2>6, FirstIn
    <3>2. own[U \ {First(U)}] = it[U \ {First(U)}]
      BY <2>6, <3>1
    <3> QED
      BY <1>2, <2>4, <2>6, <3>2
  <2>7. G = SUBSET T
    <3>1. G \in SUBSET SUBSET T /\ IsFiniteSet(T)
      BY FS_Subset
    <3> HIDE DEF G
    <3> QED
      BY <2>5, <2>6, <3>1, ElementByElement
  <2> QED
    BY <2>3, <2>7
<1> QED
  BY <1>2, <1>3 DEF TotalsOf

\* Which element is taken first makes no difference.
LEMMA TotalRemove ==
  ASSUME NEW S, IsFiniteSet(S), NEW P \in [S -> Int]
  PROVE  /\ Total(P, {}) = 0
         /\ \A T \in SUBSET S : Total(P, T) \in Int
         /\ \A T \in SUBSET S : \A x \in T : Total(P, T) = P[x] + Total(P, T \ {x})
<1>0. PICK it : TotalsOf(P, S, it)
  BY TotalOfSubsets
<1>1. /\ it \in [SUBSET S -> Int]
      /\ \A T \in SUBSET S : Total(P, T) = it[T]
      /\ it[{}] = 0
      /\ \A T \in SUBSET S : T # {} => it[T] = P[First(T)] + it[T \ {First(T)}]
  BY <1>0 DEF TotalsOf
<1> DEFINE G == {T \in SUBSET S : \A x \in T : it[T] = P[x] + it[T \ {x}]}
<1>2. {} \in G
  OBVIOUS
<1>3. ASSUME NEW T \in SUBSET S, T # {}, \A x \in T : T \ {x} \in G PROVE T \in G
  <2>1. ASSUME NEW x \in T PROVE it[T] = P[x] + it[T \ {x}]
    <3> DEFINE c == First(T)
    <3>1. c \in T /\ it[T] = P[c] + it[T \ {c}]
      BY <1>1, <1>3, FirstIn
    <3> HIDE DEF c
    <3>2. CASE x = c
      BY <3>1, <3>2
    <3>3. CASE x # c
      <4>1. it[T \ {c}] = P[x] + it[(T \ {c}) \ {x}]
        BY <1>3, <3>1, <3>3
      <4>2. it[T \ {x}] = P[c] + it[(T \ {x}) \ {c}]
        BY <1>3, <3>1, <3>3
      <4>3. (T \ {c}) \ {x} = (T \ {x}) \ {c}
        OBVIOUS
      <4> DEFINE rest == it[(T \ {x}) \ {c}]
      <4>4. P[x] \in Int /\ P[c] \in Int /\ rest \in Int
        BY <1>1, <3>1
      <4>5. it[T] = P[c] + (P[x] + rest) /\ it[T \ {x}] = P[c] + rest
        BY <3>1, <4>1, <4>2, <4>3, Zenon
      <4> HIDE DEF rest
      <4> QED
        BY <4>4, <4>5
    <3> QED
      BY <3>2, <3>3
  <2> QED
    BY <2>1
<1>4. G = SUBSET S
  <2>1. G \in SUBSET SUBSET S
    OBVIOUS
  <2> HIDE DEF G
  <2> QED
    BY <1>2, <1>3, <2>1, ElementByElement
<1>5. \A T \in SUBSET S : \A x \in T : T \ {x} \in SUBSET S /\ it[T] = P[x] + it[T \ {x}]
  BY <1>4
<1>6. {} \in SUBSET S
  OBVIOUS
<1> QED
  BY <1>1, <1>5, <1>6

-----------------------------------------------------------------------------
\* Prices in any order, and sorted.

\* What it takes to be a bijection.
Enumerates(at, n, S) ==
  /\ at \in [1 .. n -> S]
  /\ \A i, j \in 1 .. n : at[i] = at[j] => i = j
  /\ \A x \in S : \E i \in 1 .. n : at[i] = x

\* Enumerates is what the library calls a bijection.
LEMMA BijectionIs ==
  ASSUME NEW n, NEW S, NEW at
  PROVE  at \in Bijection(1 .. n, S) <=> Enumerates(at, n, S)
<1>1. ASSUME at \in [1 .. n -> S]
      PROVE  IsInjective(at) <=> \A i, j \in 1 .. n : at[i] = at[j] => i = j
  BY <1>1 DEF IsInjective
<1>2. at \in Bijection(1 .. n, S) <=>
        /\ at \in [1 .. n -> S] /\ IsInjective(at)
        /\ \A x \in S : \E i \in 1 .. n : at[i] = x
  BY DEF Bijection, Injection, Surjection
<1> QED
  BY <1>1, <1>2, Zenon DEF Enumerates

\* Prices listed in any order: list[i] is the price of at[i], and at runs through S.
Lists(list, at, P, S) ==
  /\ list \in Seq(Int)
  /\ at \in Bijection(1 .. Len(list), S)
  /\ \A i \in 1 .. Len(list) : list[i] = P[at[i]]

\* The sum the code computes of a list is the sum over what the list is of.
LEMMA SumIsTotal ==
  ASSUME NEW S, NEW P \in [S -> Int], NEW list, NEW at, Lists(list, at, P, S)
  PROVE  /\ IsFiniteSet(S) /\ Cardinality(S) = Len(list)
         /\ Sum(list) = Total(P, S)
<1> DEFINE N == Len(list)
           Upto(k) == {at[i] : i \in 1 .. k}
<1>0. /\ list \in Seq(Int) /\ N \in Nat
      /\ at \in Bijection(1 .. N, S)
      /\ \A i \in 1 .. N : list[i] = P[at[i]]
  BY LenProperties DEF Lists
<1> HIDE DEF N
<1>1. /\ at \in [1 .. N -> S]
      /\ \A i, j \in 1 .. N : at[i] = at[j] => i = j
      /\ \A x \in S : \E i \in 1 .. N : at[i] = x
  BY <1>0, BijectionIs DEF Enumerates
<1>2. IsFiniteSet(S) /\ Cardinality(S) = N
  <2>1. ExistsBijection(1 .. N, S)
    BY <1>0 DEF ExistsBijection
  <2>2. IsFiniteSet(1 .. N) /\ Cardinality(1 .. N) = N
    BY <1>0, FS_Interval
  <2> QED
    BY <2>1, <2>2, FS_Bijection
<1>3. PICK sum \in [0 .. N -> Int] :
        /\ sum[0] = 0
        /\ \A n \in 1 .. N : sum[n] = sum[n - 1] + list[n]
        /\ Sum(list) = sum[N]
  BY <1>0, SumBySteps DEF N
<1>4. /\ Total(P, {}) = 0
      /\ \A T \in SUBSET S : Total(P, T) \in Int
      /\ \A T \in SUBSET S : \A x \in T : Total(P, T) = P[x] + Total(P, T \ {x})
  BY <1>2, TotalRemove
<1> DEFINE R == {k \in Nat : k <= N => sum[k] = Total(P, Upto(k))}
<1>5. 0 \in R
  <2>1. Upto(0) = {}
    OBVIOUS
  <2> QED
    BY <1>3, <1>4, <2>1
<1>6. ASSUME NEW k \in Nat, k \in R PROVE k + 1 \in R
  <2>1. CASE k + 1 <= N
    <3> DEFINE x == at[k + 1]
    <3>1. k + 1 \in 1 .. N /\ (k + 1) - 1 = k /\ k \in 0 .. N
      BY <1>0, <2>1
    <3>2. Upto(k + 1) \in SUBSET S /\ x \in Upto(k + 1)
      <4>1. 1 .. k + 1 \subseteq 1 .. N /\ k + 1 \in 1 .. k + 1
        BY <1>0, <3>1
      <4>2. \A i \in 1 .. k + 1 : at[i] \in S
        BY <1>1, <4>1
      <4> QED
        BY <4>1, <4>2
    <3>3. Upto(k + 1) \ {x} = Upto(k)
      <4>1. ASSUME NEW i \in 1 .. k PROVE at[i] # x
        <5>1. i \in 1 .. N /\ i # k + 1
          BY <1>0, <3>1
        <5> QED
          BY <1>1, <3>1, <5>1
      <4>2. \A i : i \in 1 .. k + 1 <=> i \in 1 .. k \/ i = k + 1
        OBVIOUS
      <4> QED
        BY <4>1, <4>2
    <3>4. Total(P, Upto(k + 1)) = P[x] + Total(P, Upto(k))
      <4> HIDE DEF x, Upto
      <4> QED
        BY <1>4, <3>2, <3>3
    <3>5. sum[k + 1] = sum[k] + P[x]
      BY <1>0, <1>3, <3>1
    <3>6. sum[k] = Total(P, Upto(k))
      BY <1>6, <2>1, <1>0
    <3>7. P[x] \in Int /\ sum[k] \in Int
      BY <1>1, <1>3, <3>1
    <3> HIDE DEF x, Upto
    <3> QED
      BY <3>4, <3>5, <3>6, <3>7
  <2> QED
    BY <2>1
<1>7. N \in R
  <2>1. R \in SUBSET Nat
    OBVIOUS
  <2> HIDE DEF R
  <2> QED
    BY <1>0, <1>5, <1>6, <2>1, StepByStep
<1>8. Upto(N) = S
  BY <1>1
<1>9. Sum(list) = Total(P, S)
  <2>1. N <= N
    BY <1>0
  <2>2. sum[N] = Total(P, Upto(N))
    BY <1>7, <2>1
  <2> HIDE DEF Upto
  <2> QED
    BY <1>3, <1>8, <2>2
<1> QED
  BY <1>2, <1>9 DEF N

\* Of finitely many prices one is the highest.
LEMMA HighestIn ==
  ASSUME NEW S, IsFiniteSet(S), NEW P \in [S -> Int]
  PROVE  \A T \in SUBSET S : T # {} => \E x \in T : \A y \in T : P[y] <= P[x]
<1> DEFINE G == {T \in SUBSET S : T # {} => \E x \in T : \A y \in T : P[y] <= P[x]}
<1>1. {} \in G
  OBVIOUS
<1>2. ASSUME NEW T \in SUBSET S, T # {}, \A x \in T : T \ {x} \in G PROVE T \in G
  <2>1. PICK z \in T : TRUE
    BY <1>2
  <2>2. CASE T = {z}
    BY <2>2
  <2>3. CASE T # {z}
    <3>1. PICK x \in T \ {z} : \A y \in T \ {z} : P[y] <= P[x]
      <4>1. T \ {z} # {} /\ T \ {z} \in G
        BY <1>2, <2>1, <2>3
      <4> QED
        BY <4>1
    <3>2. \A y \in T : P[y] \in Int
      OBVIOUS
    <3>3. \E w \in T : \A y \in T : P[y] <= P[w]
      <4>1. CASE P[z] <= P[x]
        BY <3>1, <4>1
      <4>2. CASE P[x] < P[z]
        <5>1. \A y \in T : P[y] <= P[z]
          BY <3>1, <3>2, <4>2
        <5> QED
          BY <5>1
      <4> QED
        BY <3>1, <3>2, <4>1, <4>2
    <3> QED
      BY <3>3
  <2> QED
    BY <2>2, <2>3
<1>3. G = SUBSET S
  <2>1. G \in SUBSET SUBSET S
    OBVIOUS
  <2> HIDE DEF G
  <2> QED
    BY <1>1, <1>2, <2>1, ElementByElement
<1> QED
  BY <1>3

\* at runs through S from the lowest price to the highest.
Ordered(at, P, S) ==
  /\ at \in Bijection(1 .. Cardinality(S), S)
  /\ \A i, j \in 1 .. Cardinality(S) : i <= j => P[at[i]] <= P[at[j]]

\* Finitely many prices can be put in order.
LEMMA OrderExists ==
  ASSUME NEW S, IsFiniteSet(S), NEW P \in [S -> Int]
  PROVE  \E at : Ordered(at, P, S)
<1> DEFINE G == {T \in SUBSET S : \E at : Ordered(at, P, T)}
<1>0. \A T \in SUBSET S : IsFiniteSet(T) /\ Cardinality(T) \in Nat
  BY FS_Subset, FS_CardinalityType
<1>1. {} \in G
  <2>1. Cardinality({}) = 0
    BY FS_EmptySet
  <2>2. \A i \in 1 .. 0 : FALSE
    OBVIOUS
  <2>3. [i \in 1 .. 0 |-> 0] \in Bijection(1 .. 0, {})
    <3>1. Enumerates([i \in 1 .. 0 |-> 0], 0, {})
      BY <2>2 DEF Enumerates
    <3> QED
      BY <3>1, BijectionIs
  <2>4. Ordered([i \in 1 .. 0 |-> 0], P, {})
    BY <2>1, <2>2, <2>3 DEF Ordered
  <2> QED
    BY <2>4
<1>2. ASSUME NEW T \in SUBSET S, T # {}, \A x \in T : T \ {x} \in G PROVE T \in G
  <2> DEFINE n == Cardinality(T)
  <2>1. PICK x \in T : \A y \in T : P[y] <= P[x]
    BY <1>0, <1>2, HighestIn
  <2>2. n \in Nat /\ Cardinality(T \ {x}) = n - 1 /\ n - 1 \in Nat
    <3>1. IsFiniteSet(T) /\ n \in Nat
      BY <1>0
    <3>2. IsFiniteSet(T \ {x}) /\ Cardinality(T \ {x}) = n - 1
      BY <3>1, FS_RemoveElement
    <3>3. Cardinality(T \ {x}) \in Nat
      BY <3>2, FS_CardinalityType
    <3> QED
      BY <3>1, <3>2, <3>3
  <2>3. PICK at : Ordered(at, P, T \ {x})
    BY <1>2
  <2> HIDE DEF n
  <2>4. /\ at \in Bijection(1 .. n - 1, T \ {x})
        /\ \A i, j \in 1 .. n - 1 : i <= j => P[at[i]] <= P[at[j]]
    BY <2>2, <2>3 DEF Ordered
  <2>5. /\ at \in [1 .. n - 1 -> T \ {x}]
        /\ \A i, j \in 1 .. n - 1 : at[i] = at[j] => i = j
        /\ \A y \in T \ {x} : \E i \in 1 .. n - 1 : at[i] = y
    <3>1. Enumerates(at, n - 1, T \ {x})
      BY <2>4, BijectionIs
    <3> QED
      BY <3>1 DEF Enumerates
  <2> DEFINE new == [i \in 1 .. n |-> IF i = n THEN x ELSE at[i]]
  <2>6. \A i \in 1 .. n : i = n \/ i \in 1 .. n - 1
    BY <2>2
  <2>7. new[n] = x /\ \A i \in 1 .. n - 1 : new[i] = at[i] /\ new[i] \in T \ {x}
    BY <2>2, <2>5
  <2>8. new \in [1 .. n -> T]
    BY <2>5, <2>6
  <2> HIDE DEF new
  <2>9. \A i, j \in 1 .. n : new[i] = new[j] => i = j
    BY <2>5, <2>6, <2>7
  <2>10. \A y \in T : \E i \in 1 .. n : new[i] = y
    <3>1. n \in 1 .. n /\ 1 .. n - 1 \subseteq 1 .. n
      BY <2>2
    <3> QED
      BY <2>5, <2>7, <3>1
  <2>11. new \in Bijection(1 .. n, T)
    BY <2>8, <2>9, <2>10, BijectionIs DEF Enumerates
  <2>12. ASSUME NEW i \in 1 .. n, NEW j \in 1 .. n, i <= j PROVE P[new[i]] <= P[new[j]]
    <3>1. CASE j = n
      BY <2>1, <2>7, <2>8, <3>1
    <3>2. CASE j \in 1 .. n - 1
      <4>1. i \in 1 .. n - 1
        BY <2>2, <2>12, <3>2
      <4> QED
        BY <2>4, <2>7, <2>12, <3>2, <4>1
    <3> QED
      BY <2>6, <3>1, <3>2
  <2>13. Ordered(new, P, T)
    BY <2>11, <2>12 DEF Ordered, n
  <2> QED
    BY <2>13
<1>3. G = SUBSET S
  <2>1. G \in SUBSET SUBSET S
    OBVIOUS
  <2> HIDE DEF G
  <2> QED
    BY <1>1, <1>2, <2>1, ElementByElement
<1>4. S \in G
  BY <1>3
<1> QED
  BY <1>4

\* What Sort returns is sorted, and lists the same prices.
LEMMA SortLists ==
  ASSUME NEW S, NEW P \in [S -> Int], NEW list, NEW at, Lists(list, at, P, S)
  PROVE  /\ Sorted(Sort(list))
         /\ \E to : Lists(Sort(list), to, P, S)
<1> DEFINE N == Len(list)
           At(place) == [i \in 1 .. N |-> list[place[i]]]
           all == Bijection(1 .. N, 1 .. N)
           chosen == CHOOSE place \in all : Sorted(At(place))
<1>0. /\ list \in Seq(Int) /\ N \in Nat /\ DOMAIN list = 1 .. N
      /\ list \in [1 .. N -> Int]
      /\ at \in Bijection(1 .. N, S)
      /\ \A i \in 1 .. N : list[i] = P[at[i]]
  BY LenProperties DEF Lists
<1> HIDE DEF N
<1>1. PICK place \in all : Sorted(At(place))
  <2>1. IsFiniteSet(1 .. N) /\ Cardinality(1 .. N) = N
    BY <1>0, FS_Interval
  <2>2. PICK place : Ordered(place, list, 1 .. N)
    BY <1>0, <2>1, OrderExists
  <2>3. place \in all /\ \A i, j \in 1 .. N : i <= j => list[place[i]] <= list[place[j]]
    BY <2>1, <2>2 DEF Ordered
  <2>4. Sorted(At(place))
    BY <2>3 DEF Sorted
  <2> QED
    BY <2>3, <2>4
<1>2. chosen \in all /\ Sorted(At(chosen))
  <2> HIDE DEF all, At
  <2> QED
    BY <1>1
<1>3. Sort(list) = At(chosen)
  BY <1>0 DEF Sort
<1> HIDE DEF chosen
<1>4. chosen \in [1 .. N -> 1 .. N]
  BY <1>2, BijectionIs DEF Enumerates
<1>5. At(chosen) \in Seq(Int) /\ Len(At(chosen)) = N
  <2>1. At(chosen) \in [1 .. N -> Int] /\ DOMAIN At(chosen) = 1 .. N
    BY <1>0, <1>4
  <2>2. At(chosen) \in Seq(Int)
    <3> HIDE DEF At
    <3> QED
      BY <1>0, <2>1
  <2> HIDE DEF At
  <2> QED
    BY <1>0, <2>1, <2>2
<1> DEFINE to == [i \in 1 .. N |-> at[chosen[i]]]
<1>6. to \in Bijection(1 .. N, S)
  <2>1. chosen \in Bijection(1 .. N, 1 .. N)
    BY <1>2
  <2>2. Enumerates(chosen, N, 1 .. N) /\ Enumerates(at, N, S)
    BY <1>0, <2>1, BijectionIs
  <2>3. to \in [1 .. N -> S]
    BY <2>2 DEF Enumerates
  <2>4. \A i, j \in 1 .. N : to[i] = to[j] => i = j
    BY <2>2 DEF Enumerates
  <2>5. \A x \in S : \E i \in 1 .. N : to[i] = x
    <3>1. ASSUME NEW x \in S PROVE \E i \in 1 .. N : to[i] = x
      <4>1. PICK j \in 1 .. N : at[j] = x
        BY <2>2 DEF Enumerates
      <4>2. PICK i \in 1 .. N : chosen[i] = j
        BY <2>2 DEF Enumerates
      <4> QED
        BY <4>1, <4>2
    <3> QED
      BY <3>1
  <2> HIDE DEF to
  <2>6. Enumerates(to, N, S)
    BY <2>3, <2>4, <2>5 DEF Enumerates
  <2> QED
    BY <2>6, BijectionIs
<1>7. \A i \in 1 .. N : At(chosen)[i] = P[to[i]]
  BY <1>0, <1>4
<1>8. Lists(At(chosen), to, P, S)
  <2> HIDE DEF At, to
  <2> QED
    BY <1>5, <1>6, <1>7 DEF Lists
<1> QED
  BY <1>2, <1>3, <1>8

-----------------------------------------------------------------------------
\* The median of a sorted list.

\* Half of an integer, towards zero.
LEMMA QuotientByTwo ==
  ASSUME NEW s \in Int
  PROVE  /\ Quotient(s, 2) \in Int
         /\ s >= 0 => 2 * Quotient(s, 2) \in {s, s - 1}
         /\ s < 0 => 2 * Quotient(s, 2) \in {s, s + 1}
<1>1. CASE s >= 0
  <2>1. Quotient(s, 2) = s \div 2
    BY <1>1 DEF Quotient
  <2> QED
    BY <1>1, <2>1
<1>2. CASE s < 0
  <2>1. Quotient(s, 2) = -((-s) \div 2)
    BY <1>2 DEF Quotient
  <2>2. (-s) \in Nat /\ 2 * ((-s) \div 2) \in {-s, -s - 1}
    BY <1>2
  <2> QED
    BY <1>2, <2>1, <2>2
<1> QED
  BY <1>1, <1>2

\* The average of two integers, as the code rounds it, lies between them.
LEMMA AverageBetween ==
  ASSUME NEW a \in Int, NEW b \in Int, a <= b
  PROVE  Quotient(a + b, 2) \in Int /\ a <= Quotient(a + b, 2) /\ Quotient(a + b, 2) <= b
<1> DEFINE m == Quotient(a + b, 2)
<1>1. m \in Int /\ 2 * m \in {a + b - 1, a + b, a + b + 1}
  BY QuotientByTwo
<1>2. a + b >= 0 => 2 * m <= a + b
  BY QuotientByTwo
<1>3. a + b < 0 => 2 * m >= a + b
  BY QuotientByTwo
<1> HIDE DEF m
<1>4. a <= m /\ m <= b
  BY <1>1, <1>2, <1>3
<1> QED
  BY <1>1, <1>4 DEF m

\* Positions of a sorted list: whatever is left of a place is not above it.
LEMMA SortedBetween ==
  ASSUME NEW list \in Seq(Int), Sorted(list),
         NEW i \in 1 .. Len(list), NEW j \in 1 .. Len(list), i <= j
  PROVE  list[i] \in Int /\ list[j] \in Int /\ list[i] <= list[j]
BY DEF Sorted

\* Every sorted list of prices, of any length, is split by its median: nothing of the
\* lower half is above it, and at most one price after the middle is below it.
THEOREM MedianSplitsSorted ==
  ASSUME NEW list \in Seq(Int), list # <<>>, Sorted(list)
  PROVE  Splits(calculateMedian(list), list)
<1> DEFINE n == Len(list)
           median == calculateMedian(list)
<1>0. n \in Nat \ {0}
  OBVIOUS
<1>1. CASE n <= 2
  <2>1. median = list[1]
    BY <1>0, <1>1 DEF calculateMedian
  <2> QED
    BY <1>0, <1>1, <2>1, SortedBetween DEF Splits
<1>2. CASE n > 2 /\ n % 2 = 1
  <2>1. PICK h \in Nat : n = 2 * h + 1 /\ h >= 1
    <3>1. n = 2 * (n \div 2) + 1 /\ n \div 2 \in Nat
      BY <1>0, <1>2
    <3> QED
      BY <1>2, <3>1
  <2>2. median = list[h + 1]
    <3>1. n \div 2 = h
      BY <2>1
    <3> QED
      BY <1>2, <2>1, <3>1 DEF calculateMedian
  <2> QED
    BY <2>1, <2>2, SortedBetween DEF Splits
<1>3. CASE n > 2 /\ n % 2 = 0
  <2>1. PICK h \in Nat : n = 2 * h /\ h >= 2
    <3>1. n = 2 * (n \div 2) /\ n \div 2 \in Nat
      BY <1>0, <1>3
    <3> QED
      BY <1>3, <3>1
  <2>2. median = Quotient(list[h + 1] + list[h + 2], 2)
    <3>1. n \div 2 = h
      BY <2>1
    <3> QED
      BY <1>3, <2>1, <3>1 DEF calculateMedian
  <2>3. h + 1 \in 1 .. n /\ h + 2 \in 1 .. n
    BY <2>1
  <2>4. median \in Int /\ list[h + 1] <= median /\ median <= list[h + 2]
    <3>1. list[h + 1] \in Int /\ list[h + 2] \in Int /\ list[h + 1] <= list[h + 2]
      BY <2>1, <2>3, SortedBetween
    <3> QED
      BY <2>2, <3>1, AverageBetween
  <2>5. ASSUME NEW i \in 1 .. n, 2 * i <= n + 1
        PROVE  list[i] <= median
    <3>1. i <= h + 1
      BY <2>1, <2>5
    <3>2. list[i] \in Int /\ list[i] <= list[h + 1] /\ list[h + 1] \in Int
      BY <2>3, <3>1, SortedBetween
    <3> QED
      BY <2>4, <3>2
  <2>6. ASSUME NEW i \in 1 .. n, 2 * i >= n + 3
        PROVE  median <= list[i]
    <3>1. h + 2 <= i
      BY <2>1, <2>6
    <3>2. list[i] \in Int /\ list[h + 2] <= list[i] /\ list[h + 2] \in Int
      BY <2>3, <3>1, SortedBetween
    <3> QED
      BY <2>4, <3>2
  <2>7. list[1] <= median /\ median <= list[n]
    <3>1. 1 \in 1 .. n /\ n \in 1 .. n /\ 1 <= h + 1 /\ h + 2 <= n
      BY <2>1
    <3>2. list[1] \in Int /\ list[1] <= list[h + 1] /\ list[h + 1] \in Int
      BY <2>3, <3>1, SortedBetween
    <3>3. list[n] \in Int /\ list[h + 2] <= list[n] /\ list[h + 2] \in Int
      BY <2>3, <3>1, SortedBetween
    <3> QED
      BY <2>4, <3>2, <3>3
  <2> QED
    BY <2>5, <2>6, <2>7 DEF Splits
<1> QED
  BY <1>0, <1>1, <1>2, <1>3

-----------------------------------------------------------------------------
\* What ItemInfo tells.

\* A set with the items of the positions a to b has at least as many elements.
LEMMA Counted ==
  ASSUME NEW S, NEW P \in [S -> Int], NEW list, NEW at, Lists(list, at, P, S),
         NEW a \in 1 .. Len(list), NEW b \in 1 .. Len(list),
         NEW T \in SUBSET S, \A i \in a .. b : at[i] \in T
  PROVE  Cardinality(T) \in Nat /\ Cardinality(T) >= b - a + 1
<1>0. list \in Seq(Int) /\ Len(list) \in Nat /\ IsFiniteSet(S)
  <2>1. list \in Seq(Int)
    BY DEF Lists
  <2>2. IsFiniteSet(S)
    BY SumIsTotal
  <2> QED
    BY <2>1, <2>2, LenProperties
<1>1. Enumerates(at, Len(list), S)
  BY BijectionIs DEF Lists
<1>2. IsFiniteSet(T) /\ Cardinality(T) \in Nat
  BY <1>0, FS_Subset, FS_CardinalityType
<1>3. a .. b \subseteq 1 .. Len(list)
  BY <1>0
<1> DEFINE f == [i \in a .. b |-> at[i]]
<1>4. f \in Injection(a .. b, T)
  <2>1. f \in [a .. b -> T]
    OBVIOUS
  <2>2. \A i, j \in a .. b : f[i] = f[j] => i = j
    BY <1>1, <1>3 DEF Enumerates
  <2> HIDE DEF f
  <2> QED
    BY <2>1, <2>2 DEF Injection, IsInjective
<1>5. Cardinality(a .. b) <= Cardinality(T)
  <2> HIDE DEF f
  <2> QED
    BY <1>2, <1>4, FS_Injection
<1>6. Cardinality(a .. b) = IF a > b THEN 0 ELSE b - a + 1
  BY FS_Interval
<1> QED
  BY <1>2, <1>5, <1>6

\* What ItemInfo tells of prices, in the terms of what they are prices of.
Low(info, P, S) == (\A x \in S : info.Lowest <= P[x]) /\ \E x \in S : P[x] = info.Lowest
High(info, P, S) == (\A x \in S : P[x] <= info.Highest) /\ \E x \in S : P[x] = info.Highest
Middle(info, P, S) ==
  /\ 2 * Cardinality({x \in S : P[x] <= info.Median}) >= Cardinality(S)
  /\ 2 * Cardinality({x \in S : P[x] >= info.Median}) >= Cardinality(S) - 2
Tells(info, P, S) ==
  /\ Low(info, P, S) /\ High(info, P, S) /\ Middle(info, P, S)
  /\ info.Mean = <<Total(P, S), Cardinality(S)>>

\* The numbers of a sorted list.
LEMMA SortedTells ==
  ASSUME NEW S, NEW P \in [S -> Int], NEW list, NEW at, Lists(list, at, P, S),
         Sorted(list), S # {}
  PROVE  Tells(ItemInfo(list), P, S)
<1> DEFINE n == Len(list)
           info == ItemInfo(list)
           median == calculateMedian(list)
<1>0. /\ list \in Seq(Int) /\ n \in Nat
      /\ \A i \in 1 .. n : list[i] = P[at[i]]
  BY LenProperties DEF Lists
<1>1. IsFiniteSet(S) /\ Cardinality(S) = n /\ Sum(list) = Total(P, S)
  BY SumIsTotal
<1>2. n # 0 /\ list # <<>>
  BY <1>0, <1>1, FS_EmptySet
<1>3. /\ \A i \in 1 .. n : at[i] \in S /\ list[i] \in Int
      /\ \A x \in S : \E i \in 1 .. n : at[i] = x
  <2>1. Enumerates(at, n, S)
    BY BijectionIs DEF Lists
  <2> QED
    BY <1>0, <2>1 DEF Enumerates
<1>4. Splits(median, list)
  BY <1>0, <1>2, MedianSplitsSorted
<1>5. /\ info.Lowest = list[1] /\ info.Highest = list[n]
      /\ info.Median = median /\ info.Mean = <<Sum(list), n>>
  BY DEF ItemInfo
<1>6. \A i \in 1 .. n : list[1] <= list[i] /\ list[i] <= list[n]
  <2>1. 1 \in 1 .. n /\ n \in 1 .. n
    BY <1>0, <1>2
  <2> QED
    BY <1>0, <2>1, SortedBetween
<1>7. 1 \in 1 .. n /\ n \in 1 .. n
  BY <1>0, <1>2
<1> HIDE DEF info
<1>8. \A x \in S : list[1] <= P[x] /\ P[x] <= list[n]
  <2>1. ASSUME NEW x \in S PROVE list[1] <= P[x] /\ P[x] <= list[n]
    <3>1. PICK i \in 1 .. n : at[i] = x
      BY <1>3
    <3> QED
      BY <1>0, <1>6, <3>1
  <2> QED
    BY <2>1
<1>9. Low(info, P, S) /\ High(info, P, S)
  <2>1. at[1] \in S /\ P[at[1]] = list[1] /\ at[n] \in S /\ P[at[n]] = list[n]
    BY <1>0, <1>3, <1>7
  <2> QED
    BY <1>5, <1>8, <2>1 DEF Low, High
<1>10. Middle(info, P, S)
  <2> HIDE DEF n, median
  <2> DEFINE below == {x \in S : P[x] <= median}
             above == {x \in S : P[x] >= median}
  <2>1. 2 * Cardinality(below) >= n
    <3>1. PICK h \in Nat : 2 * h = n \/ 2 * h = n + 1
      <4>1. 2 * (n \div 2) = n \/ 2 * (n \div 2 + 1) = n + 1
        BY <1>0
      <4>2. n \div 2 \in Nat
        BY <1>0
      <4> QED
        BY <4>1, <4>2
    <3>2. h \in 1 .. n
      BY <1>0, <1>2, <3>1
    <3>3. ASSUME NEW i \in 1 .. h PROVE at[i] \in below
      <4>1. i \in 1 .. n /\ 2 * i <= n + 1
        BY <1>0, <3>1, <3>2
      <4>2. list[i] <= median
        BY <1>4, <4>1 DEF Splits, n
      <4> QED
        BY <1>0, <1>3, <4>1, <4>2
    <3>4. Cardinality(below) \in Nat /\ Cardinality(below) >= h - 1 + 1
      <4>1. below \in SUBSET S
        OBVIOUS
      <4> HIDE DEF below
      <4> QED
        BY <1>7, <3>2, <3>3, <4>1, Counted DEF n
    <3> QED
      BY <3>1, <3>4, <1>0
  <2>2. 2 * Cardinality(above) >= n - 2
    <3>1. Cardinality(above) \in Nat
      BY <1>1, FS_Subset, FS_CardinalityType
    <3>2. CASE n <= 2
      BY <1>0, <3>1, <3>2
    <3>3. CASE n > 2
      <4>1. PICK h \in Nat : 2 * h = n + 3 \/ 2 * h = n + 4
        <5>1. 2 * (n \div 2 + 2) = n + 3 \/ 2 * (n \div 2 + 2) = n + 4
          BY <1>0
        <5>2. n \div 2 + 2 \in Nat
          BY <1>0
        <5> QED
          BY <5>1, <5>2
      <4>2. h \in 1 .. n
        BY <1>0, <3>3, <4>1
      <4>3. ASSUME NEW i \in h .. n PROVE at[i] \in above
        <5>1. i \in 1 .. n /\ 2 * i >= n + 3
          BY <1>0, <4>1, <4>2
        <5>2. list[i] >= median
          BY <1>4, <5>1 DEF Splits, n
        <5> QED
          BY <1>0, <1>3, <5>1, <5>2
      <4>4. Cardinality(above) >= n - h + 1
        <5>1. above \in SUBSET S
          OBVIOUS
        <5> HIDE DEF above
        <5> QED
          BY <1>7, <4>2, <4>3, <5>1, Counted DEF n
      <4> QED
        BY <1>0, <3>1, <4>1, <4>4
    <3> QED
      BY <1>0, <3>2, <3>3
  <2> QED
    BY <1>1, <1>5, <2>1, <2>2 DEF Middle
<1>11. Tells(info, P, S)
  BY <1>1, <1>5, <1>9, <1>10 DEF Tells
<1> QED
  BY <1>11 DEF info

\* The numbers published for prices that came in any order.
THEOREM ItemInfoTells ==
  ASSUME NEW S, S # {}, NEW P \in [S -> Int], NEW list, NEW at, Lists(list, at, P, S)
  PROVE  Tells(ItemInfo(Sort(list)), P, S)
BY SortLists, SortedTells
=============================================================================
