--------------------------- MODULE RecursionTheorems ---------------------------
(***************************************************************************)
(* Facts about recursive functions that the proofs about the components    *)
(* rest on: induction over the natural numbers, the existence of functions *)
(* that are defined by recursion, and the unfolding of the folds of the    *)
(* community modules.  The library's induction theorems take the predicate *)
(* to be proved as an operator; here it is the set of the numbers that     *)
(* satisfy it.  At the end the powers of two.                              *)
(***************************************************************************)
EXTENDS Integers, FiniteSetsExt, FiniteSetTheorems, FunctionTheorems,
        WellFoundedInduction, TLAPS

-----------------------------------------------------------------------------
(***************************************************************************)
(* A non-empty set of natural numbers has a least element.                 *)
(***************************************************************************)
LEMMA LeastNat ==
  ASSUME NEW T, T \subseteq Nat, T # {}
  PROVE  \E x \in T : \A y \in T : x <= y
<1> DEFINE Rel == OpToRel(<, Nat)
<1>1. \A x, y \in Nat : y < x => <<y, x>> \in Rel
  BY DEF OpToRel
<1>2. IsWellFoundedOn(Rel, Nat)
  BY NatLessThanWellFounded
<1> HIDE DEF Rel
<1>3. \E x \in T : \A y \in T : ~ (<<y, x>> \in Rel)
  BY <1>2, WFMin
<1>4. PICK x \in T : \A y \in T : ~ (<<y, x>> \in Rel)
  BY <1>3
<1>5. \A y \in T : ~(y < x)
  BY <1>1, <1>4
<1> QED BY <1>4, <1>5

(***************************************************************************)
(* Induction: a set that holds 0 and the successor of each number it holds *)
(* holds all the natural numbers.                                          *)
(***************************************************************************)
LEMMA Induction ==
  ASSUME NEW S, 0 \in S, \A n \in Nat : n \in S => n + 1 \in S
  PROVE  Nat \subseteq S
<1> SUFFICES ASSUME Nat \ S # {} PROVE FALSE
  OBVIOUS
<1>1. PICK x \in Nat \ S : \A y \in Nat \ S : x <= y
  <2>1. Nat \ S \subseteq Nat
    OBVIOUS
  <2> QED BY <2>1, LeastNat
<1>2. x # 0 /\ x - 1 \in Nat /\ x - 1 \in S
  BY <1>1
<1> QED BY <1>1, <1>2

(***************************************************************************)
(* Complete induction: the same for a set that holds each number below     *)
(* which it holds all.                                                     *)
(***************************************************************************)
LEMMA CompleteInduction ==
  ASSUME NEW S, \A n \in Nat : (\A m \in 0..(n-1) : m \in S) => n \in S
  PROVE  Nat \subseteq S
<1> SUFFICES ASSUME Nat \ S # {} PROVE FALSE
  OBVIOUS
<1>1. PICK x \in Nat \ S : \A y \in Nat \ S : x <= y
  <2>1. Nat \ S \subseteq Nat
    OBVIOUS
  <2> QED BY <2>1, LeastNat
<1>2. \A m \in 0..(x-1) : m \in S
  BY <1>1
<1> QED BY <1>1, <1>2

-----------------------------------------------------------------------------
(***************************************************************************)
(* There is a function whose value at x is worked out from its values at   *)
(* the elements of lower rank.                                             *)
(***************************************************************************)
ByRank(D, V, N, rank, G) ==
  /\ V # {} /\ N \in Nat
  /\ rank \in [D -> 0..N]
  /\ G \in [D -> [[D -> V] -> V]]
  /\ \A x \in D : \A f, g \in [D -> V] :
       (\A y \in D : rank[y] < rank[x] => f[y] = g[y]) => G[x][f] = G[x][g]

LEMMA FunctionByRank ==
  ASSUME NEW D, NEW V, NEW N, NEW rank, NEW G, ByRank(D, V, N, rank, G)
  PROVE  \E f \in [D -> V] : \A x \in D : f[x] = G[x][f]
<1> USE DEF ByRank
<1> DEFINE Good(f, n) == \A x \in D : rank[x] < n => f[x] = G[x][f]
           S == {n \in Nat : \E f \in [D -> V] : Good(f, n)}
<1>0. /\ N \in Nat
      /\ \A x \in D : rank[x] \in Nat /\ rank[x] < N + 1
      /\ \A x \in D, n \in Nat : rank[x] < n + 1 => rank[x] = n \/ rank[x] < n
  <2>1. \A x \in D : rank[x] \in 0..N
    OBVIOUS
  <2>2. N \in Nat
    OBVIOUS
  <2>3. \A r, n \in Nat : r < n + 1 => r = n \/ r < n
    OBVIOUS
  <2>4. \A r \in 0..N : r \in Nat /\ r < N + 1
    BY <2>2
  <2> HIDE DEF ByRank
  <2> QED BY <2>1, <2>2, <2>3, <2>4
<1>1. 0 \in S
  <2>1. PICK v : v \in V
    OBVIOUS
  <2>2. [x \in D |-> v] \in [D -> V]
    BY <2>1
  <2>3. Good([x \in D |-> v], 0)
    BY <1>0
  <2> QED BY <2>2, <2>3
<1>2. ASSUME NEW n \in Nat, n \in S PROVE n + 1 \in S
  <2>1. PICK f \in [D -> V] : Good(f, n)
    BY <1>2
  <2> DEFINE g == [x \in D |-> IF rank[x] = n THEN G[x][f] ELSE f[x]]
  <2>2. \A x \in D : G[x][f] \in V
    <3>1. \A x \in D : G[x] \in [[D -> V] -> V]
      OBVIOUS
    <3> QED BY <3>1
  <2>3. g \in [D -> V]
    BY <2>2
  <2>4. \A x \in D : rank[x] < n => g[x] = f[x]
    BY <1>0
  <2>5. \A x \in D : rank[x] = n => g[x] = G[x][f]
    OBVIOUS
  <2> HIDE DEF g
  <2>6. ASSUME NEW x \in D, rank[x] < n + 1 PROVE g[x] = G[x][g]
    <3>1. \A y \in D : rank[y] < rank[x] => f[y] = g[y]
      BY <2>4, <2>6, <1>0
    <3>2. G[x][f] = G[x][g]
      BY <3>1, <2>3
    <3>3. CASE rank[x] = n
      BY <3>2, <3>3, <2>5
    <3>4. CASE rank[x] < n
      BY <3>2, <3>4, <2>4, <2>1
    <3> HIDE DEF ByRank
    <3>5. rank[x] = n \/ rank[x] < n
      BY <1>0, <2>6
    <3> QED BY <3>3, <3>4, <3>5
  <2>7. Good(g, n + 1)
    BY <2>6
  <2> HIDE DEF Good
  <2> QED BY <2>3, <2>7
<1>3. N + 1 \in S
  <2> HIDE DEF S
  <2>1. Nat \subseteq S
    BY <1>1, <1>2, Induction
  <2> QED BY <2>1
<1>4. PICK f \in [D -> V] : Good(f, N + 1)
  <2> HIDE DEF Good
  <2> QED BY <1>3
<1> QED BY <1>0, <1>4
-----------------------------------------------------------------------------
(***************************************************************************)
(* The maximum of a set of natural numbers that has a bound.               *)
(***************************************************************************)
LEMMA MaxOfBounded ==
  ASSUME NEW n \in Nat, NEW s, s \subseteq 0..n, s # {}
  PROVE  Max(s) \in s /\ \A y \in s : Max(s) >= y
<1> DEFINE T == {n - y : y \in s}
<1>1. T \subseteq Nat /\ T # {}
  <2>1. \A y \in s : n - y \in Nat
    OBVIOUS
  <2> QED BY <2>1
<1>2. PICK t \in T : \A u \in T : t <= u
  <2> HIDE DEF T
  <2> QED BY <1>1, LeastNat
<1>3. PICK x \in s : t = n - x
  OBVIOUS
<1>4. \A y \in s : x >= y
  <2> SUFFICES ASSUME NEW y \in s PROVE x >= y
    OBVIOUS
  <2>1. n - x <= n - y
    BY <1>2, <1>3
  <2>2. x \in Nat /\ y \in Nat
    OBVIOUS
  <2> QED BY <2>1, <2>2
<1> QED BY <1>4 DEF Max

LEMMA MaxIs ==
  ASSUME NEW S, S \subseteq Nat, NEW x \in S, \A y \in S : x >= y
  PROVE  Max(S) = x
<1>1. Max(S) \in S /\ \A y \in S : Max(S) >= y
  BY DEF Max
<1>2. x \in Nat /\ Max(S) \in Nat /\ Max(S) >= x /\ x >= Max(S)
  BY <1>1
<1> QED BY <1>2

LEMMA MaxOfSegment ==
  ASSUME NEW n \in Nat, n # 0
  PROVE  Max(1..n) = n
<1>1. n \in 1..n /\ \A m \in 1..n : n >= m
  OBVIOUS
<1>2. Max(1..n) \in 1..n /\ Max(1..n) >= n
  <2>1. 1..n \subseteq 0..n /\ 1..n # {}
    OBVIOUS
  <2> QED BY <2>1, <1>1, MaxOfBounded
<1> QED BY <1>2

(***************************************************************************)
(* The function by which a sequence of n elements is folded from the left. *)
(* F[i][v] is what the i-th element makes of v.                            *)
(***************************************************************************)
IsFold(iter, n, base, F) ==
  iter = [s \in SUBSET (1..n) |->
            IF s = {} THEN base ELSE F[Max(s)][iter[s \ {Max(s)}]]]

LEMMA FoldExists ==
  ASSUME NEW n \in Nat, NEW V, NEW base \in V, NEW F \in [1..n -> [V -> V]]
  PROVE  \E iter \in [SUBSET (1..n) -> V] : IsFold(iter, n, base, F)
<1> DEFINE D == SUBSET (1..n)
           rank == [s \in D |-> Cardinality(s)]
           G == [s \in D |-> [f \in [D -> V] |->
                   IF s = {} THEN base ELSE F[Max(s)][f[s \ {Max(s)}]]]]
<1>1. \A s \in D : s # {} => Max(s) \in s /\ Max(s) \in 1..n
  <2> TAKE s \in D
  <2>1. s \subseteq 0..n
    OBVIOUS
  <2> QED BY <2>1, MaxOfBounded
<1>2. G \in [D -> [[D -> V] -> V]]
  <2> SUFFICES ASSUME NEW s \in D, NEW f \in [D -> V], s # {}
               PROVE  F[Max(s)][f[s \ {Max(s)}]] \in V
    OBVIOUS
  <2>1. s \ {Max(s)} \in D
    OBVIOUS
  <2>2. f[s \ {Max(s)}] \in V
    BY <2>1
  <2>3. F[Max(s)] \in [V -> V]
    BY <1>1
  <2> QED BY <2>2, <2>3
<1>3. \A s \in D : IsFiniteSet(s) /\ Cardinality(s) \in 0..n
  <2> DEFINE S == 1..n
  <2>1. IsFiniteSet(S) /\ Cardinality(S) = n
    BY FS_Interval
  <2> HIDE DEF S
  <2> SUFFICES ASSUME NEW s \in SUBSET S
               PROVE  IsFiniteSet(s) /\ Cardinality(s) \in 0..n
    BY DEF S
  <2>2. IsFiniteSet(s) /\ Cardinality(s) <= n
    BY <2>1, FS_Subset
  <2>3. Cardinality(s) \in Nat
    BY <2>2, FS_CardinalityType
  <2> QED BY <2>2, <2>3
<1>4. \A s \in D : s # {} => rank[s \ {Max(s)}] < rank[s]
  <2> SUFFICES ASSUME NEW s \in D, s # {}
               PROVE  Cardinality(s \ {Max(s)}) < Cardinality(s)
    OBVIOUS
  <2>1. Cardinality(s \ {Max(s)}) = Cardinality(s) - 1
    BY <1>1, <1>3, FS_RemoveElement
  <2> QED BY <2>1, <1>3
<1>5. rank \in [D -> 0..n]
  BY <1>3
<1>6. \A s \in D : \A f, g \in [D -> V] :
        (\A t \in D : rank[t] < rank[s] => f[t] = g[t]) => G[s][f] = G[s][g]
  <2> SUFFICES ASSUME NEW s \in D, NEW f \in [D -> V], NEW g \in [D -> V],
                      \A t \in D : rank[t] < rank[s] => f[t] = g[t]
               PROVE  G[s][f] = G[s][g]
    OBVIOUS
  <2>1. s # {} => f[s \ {Max(s)}] = g[s \ {Max(s)}]
    <3> HIDE DEF rank
    <3>1. s \ {Max(s)} \in D
      OBVIOUS
    <3> QED BY <3>1, <1>4
  <2> QED BY <2>1
<1>7. ByRank(D, V, n, rank, G)
  <2>1. V # {}
    OBVIOUS
  <2> HIDE DEF D, rank, G
  <2> QED BY <1>2, <1>5, <1>6, <2>1 DEF ByRank
<1>8. PICK f \in [D -> V] : \A s \in D : f[s] = G[s][f]
  <2> HIDE DEF D, rank, G
  <2> QED BY <1>7, FunctionByRank
<1>9. \A s \in D : f[s] = IF s = {} THEN base ELSE F[Max(s)][f[s \ {Max(s)}]]
  BY <1>8
<1> QED BY <1>9 DEF IsFold

(***************************************************************************)
(* Such a function is taken at the segments 1..j only, and what it is      *)
(* there is worked out from the segment before.                            *)
(***************************************************************************)
LEMMA Segments ==
  ASSUME NEW n \in Nat
  PROVE  /\ 1..0 = {}
         /\ \A j \in 0..n : 1..j \in SUBSET (1..n)
         /\ \A j \in 1..n : /\ j - 1 \in 0..n
                            /\ 1..j # {} /\ Max(1..j) = j
                            /\ (1..j) \ {j} = 1..(j-1)
<1>1. 1..0 = {} /\ \A j \in 0..n : 1..j \in SUBSET (1..n)
  OBVIOUS
<1>2. ASSUME NEW j \in 1..n
      PROVE  /\ j - 1 \in 0..n
             /\ 1..j # {} /\ Max(1..j) = j
             /\ (1..j) \ {j} = 1..(j-1)
  <2>1. j \in Nat /\ j # 0 /\ j - 1 \in 0..n
    OBVIOUS
  <2>2. 1..j # {} /\ (1..j) \ {j} = 1..(j-1)
    BY <2>1
  <2> QED BY <2>1, <2>2, MaxOfSegment
<1> QED BY <1>1, <1>2

LEMMA MaxOfSubset ==
  ASSUME NEW n \in Nat
  PROVE  \A s \in SUBSET (1..n) :
           s # {} => Max(s) \in 1..n /\ s \ {Max(s)} \in SUBSET (1..n)
<1> TAKE s \in SUBSET (1..n)
<1>1. s \subseteq 0..n
  OBVIOUS
<1>2. s # {} => Max(s) \in s
  BY <1>1, MaxOfBounded
<1> QED BY <1>2

-----------------------------------------------------------------------------
(***************************************************************************)
(* Sums over a finite set, whatever the order in which its elements are    *)
(* taken: the sum of the costs of the elements is the number of the pairs  *)
(* of an element and a number up to its cost.                              *)
(***************************************************************************)
Units(cost, S) == UNION {{x} \X (1..cost[x]) : x \in S}
Weight(cost, S) == Cardinality(Units(cost, S))

LEMMA UnitsOfOne ==
  ASSUME NEW x, NEW c \in Nat
  PROVE  IsFiniteSet({x} \X (1..c)) /\ Cardinality({x} \X (1..c)) = c
<1> DEFINE S == 1..c
           T == {x} \X S
           f == [j \in S |-> <<x, j>>]
<1>1. IsFiniteSet(S) /\ Cardinality(S) = c
  BY FS_Interval
<1> HIDE DEF S
<1>2. f \in Bijection(S, T)
  <2>1. f \in [S -> T]
    OBVIOUS
  <2>2. \A a, b \in S : f[a] = f[b] => a = b
    OBVIOUS
  <2>3. \A t \in T : \E j \in S : f[j] = t
    OBVIOUS
  <2> HIDE DEF f, T
  <2> QED BY <2>1, <2>2, <2>3 DEF Bijection, Injection, Surjection, IsInjective
<1>3. ExistsBijection(S, T)
  BY <1>2 DEF ExistsBijection
<1> HIDE DEF T
<1>4. IsFiniteSet(T) /\ Cardinality(T) = c
  BY <1>1, <1>3, FS_Bijection
<1> QED BY <1>4 DEF T, S

LEMMA WeightAdd ==
  ASSUME NEW D, NEW cost \in [D -> Nat], NEW S \in SUBSET D, IsFiniteSet(Units(cost, S)),
         NEW x \in D, x \notin S
  PROVE  /\ IsFiniteSet(Units(cost, S \cup {x}))
         /\ Weight(cost, S) \in Nat
         /\ Weight(cost, S \cup {x}) = Weight(cost, S) + cost[x]
<1> DEFINE A == Units(cost, S)
           B == {x} \X (1..cost[x])
<1>1. Units(cost, S \cup {x}) = A \cup B
  BY DEF Units
<1>2. A \cap B = {}
  BY DEF Units
<1>3. IsFiniteSet(B) /\ Cardinality(B) = cost[x] /\ cost[x] \in Nat
  BY UnitsOfOne
<1> HIDE DEF A, B
<1>4. IsFiniteSet(A)
  BY DEF A
<1>5. Cardinality(A \cap B) = 0
  BY <1>2, FS_EmptySet
<1>6. /\ IsFiniteSet(A \cup B)
      /\ Cardinality(A \cup B) = Cardinality(A) + Cardinality(B) - Cardinality(A \cap B)
  BY <1>3, <1>4, FS_Union
<1>7. Cardinality(A) \in Nat
  BY <1>4, FS_CardinalityType
<1>8. Cardinality(A \cup B) = Cardinality(A) + cost[x]
  BY <1>3, <1>5, <1>6, <1>7
<1>9. Weight(cost, S) = Cardinality(A) /\ Weight(cost, S \cup {x}) = Cardinality(A \cup B)
  BY <1>1 DEF Weight, A
<1> QED BY <1>1, <1>6, <1>7, <1>8, <1>9

LEMMA WeightEmpty ==
  ASSUME NEW cost
  PROVE  IsFiniteSet(Units(cost, {})) /\ Weight(cost, {}) = 0
<1>1. Units(cost, {}) = {}
  BY DEF Units
<1> QED BY <1>1, FS_EmptySet DEF Weight

LEMMA WeightFinite ==
  ASSUME NEW D, NEW cost \in [D -> Nat], NEW S \in SUBSET D, IsFiniteSet(S)
  PROVE  IsFiniteSet(Units(cost, S)) /\ Weight(cost, S) \in Nat
<1> DEFINE T == {n \in Nat : \A U \in SUBSET D :
                   IsFiniteSet(U) /\ Cardinality(U) = n => IsFiniteSet(Units(cost, U))}
<1>1. 0 \in T
  <2> SUFFICES ASSUME NEW U \in SUBSET D, IsFiniteSet(U), Cardinality(U) = 0
               PROVE  IsFiniteSet(Units(cost, U))
    OBVIOUS
  <2>1. U = {}
    BY FS_EmptySet
  <2> QED BY <2>1, WeightEmpty
<1>2. ASSUME NEW n \in Nat, n \in T PROVE n + 1 \in T
  <2> SUFFICES ASSUME NEW U \in SUBSET D, IsFiniteSet(U), Cardinality(U) = n + 1
               PROVE  IsFiniteSet(Units(cost, U))
    OBVIOUS
  <2>1. PICK x \in U : TRUE
    <3>1. U # {}
      BY FS_EmptySet
    <3> QED BY <3>1
  <2> DEFINE V == U \ {x}
  <2>2. V \in SUBSET D /\ IsFiniteSet(V) /\ Cardinality(V) = n
    <3>1. IsFiniteSet(U \ {x}) /\ Cardinality(U \ {x}) = Cardinality(U) - 1
      BY <2>1, FS_RemoveElement
    <3> QED BY <3>1
  <2>3. U = V \cup {x} /\ x \notin V /\ x \in D
    BY <2>1
  <2> HIDE DEF V
  <2>4. IsFiniteSet(Units(cost, V))
    BY <1>2, <2>2
  <2>5. IsFiniteSet(Units(cost, V \cup {x}))
    BY <2>2, <2>3, <2>4, WeightAdd
  <2> QED BY <2>3, <2>5
<1>3. Nat \subseteq T
  <2> HIDE DEF T
  <2> QED BY <1>1, <1>2, Induction
<1>4. Cardinality(S) \in T
  BY <1>3, FS_CardinalityType
<1>5. IsFiniteSet(Units(cost, S))
  BY <1>4
<1> QED BY <1>5, FS_CardinalityType DEF Weight

LEMMA WeightRemove ==
  ASSUME NEW D, NEW cost \in [D -> Nat], NEW S \in SUBSET D, IsFiniteSet(S), NEW x \in S
  PROVE  /\ Weight(cost, S) \in Nat /\ Weight(cost, S \ {x}) \in Nat
         /\ Weight(cost, S) = Weight(cost, S \ {x}) + cost[x]
<1> DEFINE V == S \ {x}
<1>1. V \in SUBSET D /\ IsFiniteSet(V) /\ x \notin V /\ S = V \cup {x} /\ x \in D
  BY FS_RemoveElement
<1>v. V = S \ {x}
  OBVIOUS
<1> HIDE DEF V
<1>2. IsFiniteSet(Units(cost, V))
  BY <1>1, WeightFinite
<1>3. Weight(cost, V) \in Nat /\ Weight(cost, V \cup {x}) = Weight(cost, V) + cost[x]
  BY <1>1, <1>2, WeightAdd
<1>4. Weight(cost, S) \in Nat
  BY WeightFinite
<1> QED BY <1>1, <1>v, <1>3, <1>4

\* Costs that are nowhere greater but at x.
LEMMA WeightMonotone ==
  ASSUME NEW D, NEW f \in [D -> Nat], NEW g \in [D -> Nat], NEW S \in SUBSET D,
         IsFiniteSet(S), \A y \in S : f[y] <= g[y]
  PROVE  Weight(f, S) <= Weight(g, S)
<1>1. Units(f, S) \subseteq Units(g, S)
  <2> SUFFICES ASSUME NEW x \in S, NEW k \in 1..f[x]
               PROVE  k \in 1..g[x]
    BY DEF Units
  <2>1. f[x] \in Nat /\ g[x] \in Nat /\ f[x] <= g[x]
    OBVIOUS
  <2> QED BY <2>1
<1>2. IsFiniteSet(Units(g, S))
  BY WeightFinite
<1> QED BY <1>1, <1>2, FS_Subset DEF Weight

LEMMA WeightChange ==
  ASSUME NEW D, NEW f \in [D -> Nat], NEW g \in [D -> Nat], NEW S \in SUBSET D,
         IsFiniteSet(S), NEW x \in S, \A y \in S : y # x => f[y] <= g[y]
  PROVE  /\ Weight(f, S) \in Nat /\ Weight(g, S) \in Nat
         /\ Weight(f, S) - f[x] <= Weight(g, S) - g[x]
<1> DEFINE V == S \ {x}
<1>1. /\ Weight(f, S) \in Nat /\ Weight(f, V) \in Nat
      /\ Weight(f, S) = Weight(f, V) + f[x]
  BY WeightRemove
<1>2. /\ Weight(g, S) \in Nat /\ Weight(g, V) \in Nat
      /\ Weight(g, S) = Weight(g, V) + g[x]
  BY WeightRemove
<1>3. IsFiniteSet(V) /\ V \in SUBSET D /\ \A y \in V : f[y] <= g[y]
  BY FS_RemoveElement
<1> HIDE DEF V
<1>4. Weight(f, V) <= Weight(g, V)
  BY <1>3, WeightMonotone
<1>5. f[x] \in Nat /\ g[x] \in Nat
  OBVIOUS
<1> QED BY <1>1, <1>2, <1>4, <1>5

(***************************************************************************)
(* A function by which the elements of a set are added up, in some order,  *)
(* gives their weight, and the one that takes them in the order of CHOOSE, *)
(* as the folds of the community modules do, exists.                       *)
(***************************************************************************)
AddsUp(f, S, cost) ==
  /\ f[{}] = 0
  /\ \A s \in SUBSET S : s # {} =>
       \E x \in s : f[s \ {x}] \in Nat => f[s] = f[s \ {x}] + cost[x]

LEMMA SumIsWeight ==
  ASSUME NEW D, NEW cost \in [D -> Nat], NEW S \in SUBSET D, IsFiniteSet(S),
         NEW f, AddsUp(f, S, cost)
  PROVE  f[S] = Weight(cost, S)
<1> DEFINE T == {n \in Nat : \A s \in SUBSET S :
                   IsFiniteSet(s) /\ Cardinality(s) = n => f[s] = Weight(cost, s)}
<1>1. 0 \in T
  <2> SUFFICES ASSUME NEW s \in SUBSET S, IsFiniteSet(s), Cardinality(s) = 0
               PROVE  f[s] = Weight(cost, s)
    OBVIOUS
  <2>1. s = {}
    BY FS_EmptySet
  <2> QED BY <2>1, WeightEmpty DEF AddsUp
<1>2. ASSUME NEW n \in Nat, n \in T PROVE n + 1 \in T
  <2> SUFFICES ASSUME NEW s \in SUBSET S, IsFiniteSet(s), Cardinality(s) = n + 1
               PROVE  f[s] = Weight(cost, s)
    OBVIOUS
  <2>0. s # {}
    BY FS_EmptySet
  <2>1. PICK x \in s : f[s \ {x}] \in Nat => f[s] = f[s \ {x}] + cost[x]
    BY <2>0 DEF AddsUp
  <2> DEFINE V == s \ {x}
  <2>2. V \in SUBSET S /\ IsFiniteSet(V) /\ Cardinality(V) = n
    <3>1. IsFiniteSet(s \ {x}) /\ Cardinality(s \ {x}) = Cardinality(s) - 1
      BY <2>1, FS_RemoveElement
    <3> QED BY <3>1
  <2>3. f[V] = Weight(cost, V)
    <3> HIDE DEF V
    <3> QED BY <1>2, <2>2
  <2>4. /\ Weight(cost, s) \in Nat /\ Weight(cost, s \ {x}) \in Nat
        /\ Weight(cost, s) = Weight(cost, s \ {x}) + cost[x]
    <3>1. s \in SUBSET D
      OBVIOUS
    <3> QED BY <2>1, <3>1, WeightRemove
  <2> QED BY <2>1, <2>3, <2>4
<1>3. Nat \subseteq T
  <2> HIDE DEF T
  <2> QED BY <1>1, <1>2, Induction
<1>4. Cardinality(S) \in T
  BY <1>3, FS_CardinalityType
<1> QED BY <1>4

InChosenOrder(f, S, cost) ==
  f = [s \in SUBSET S |-> IF s = {} THEN 0
                          ELSE LET x == CHOOSE x \in s : TRUE
                               IN  f[s \ {x}] + cost[x]]

LEMMA SumExists ==
  ASSUME NEW S, IsFiniteSet(S), NEW cost \in [S -> Nat]
  PROVE  \E f \in [SUBSET S -> Nat] : InChosenOrder(f, S, cost)
<1> DEFINE D == SUBSET S
           C(s) == CHOOSE x \in s : TRUE
           rank == [s \in D |-> Cardinality(s)]
           n == Cardinality(S)
           G == [s \in D |-> [f \in [D -> Nat] |->
                   IF s = {} THEN 0 ELSE f[s \ {C(s)}] + cost[C(s)]]]
<1>1. \A s \in D : s # {} => C(s) \in s /\ C(s) \in S
  OBVIOUS
<1> HIDE DEF C
<1>2. G \in [D -> [[D -> Nat] -> Nat]]
  <2> SUFFICES ASSUME NEW s \in D, NEW f \in [D -> Nat], s # {}
               PROVE  f[s \ {C(s)}] + cost[C(s)] \in Nat
    OBVIOUS
  <2>1. f[s \ {C(s)}] \in Nat
    OBVIOUS
  <2>2. cost[C(s)] \in Nat
    BY <1>1
  <2> QED BY <2>1, <2>2
<1>3. \A s \in D : IsFiniteSet(s) /\ Cardinality(s) \in 0..n
  <2> SUFFICES ASSUME NEW s \in SUBSET S
               PROVE  IsFiniteSet(s) /\ Cardinality(s) \in 0..n
    OBVIOUS
  <2>1. IsFiniteSet(s) /\ Cardinality(s) <= n
    BY FS_Subset
  <2>2. Cardinality(s) \in Nat /\ n \in Nat
    BY <2>1, FS_CardinalityType
  <2> QED BY <2>1, <2>2
<1>4. \A s \in D : s # {} => rank[s \ {C(s)}] < rank[s]
  <2> SUFFICES ASSUME NEW s \in D, s # {}
               PROVE  Cardinality(s \ {C(s)}) < Cardinality(s)
    OBVIOUS
  <2>1. Cardinality(s \ {C(s)}) = Cardinality(s) - 1
    BY <1>1, <1>3, FS_RemoveElement
  <2> QED BY <2>1, <1>3
<1>5. rank \in [D -> 0..n] /\ n \in Nat
  BY <1>3, FS_CardinalityType
<1>6. ASSUME NEW s \in D, NEW f \in [D -> Nat], NEW g \in [D -> Nat],
             \A t \in D : rank[t] < rank[s] => f[t] = g[t]
      PROVE  G[s][f] = G[s][g]
  <2>1. s # {} => f[s \ {C(s)}] = g[s \ {C(s)}]
    <3> HIDE DEF rank
    <3>1. s \ {C(s)} \in D
      OBVIOUS
    <3> QED BY <3>1, <1>4, <1>6
  <2> QED BY <2>1
<1>7. ByRank(D, Nat, n, rank, G)
  <2> HIDE DEF D, rank, G, n
  <2> QED BY <1>2, <1>5, <1>6 DEF ByRank
<1>8. PICK f \in [D -> Nat] : \A s \in D : f[s] = G[s][f]
  <2> HIDE DEF D, rank, G, n
  <2> QED BY <1>7, FunctionByRank
<1>9. \A s \in D : f[s] = IF s = {} THEN 0 ELSE f[s \ {C(s)}] + cost[C(s)]
  BY <1>8
<1>10. f = [s \in D |-> f[s]]
  OBVIOUS
<1> QED BY <1>9, <1>10 DEF C, InChosenOrder

-----------------------------------------------------------------------------
(***************************************************************************)
(* Powers of two.  2^n is the number of subsets of an interval of n        *)
(* numbers; one number more doubles it.                                    *)
(***************************************************************************)
LEMMA PowerOfTwo ==
  ASSUME NEW n \in Nat
  PROVE  2^n \in Nat /\ 2^n >= 1 /\ 2^(n + 1) = 2^n + 2^n
<1> DEFINE S == 1..n
           A == SUBSET S
           B == {s \cup {n + 1} : s \in A}
<1>1. /\ IsFiniteSet(S) /\ Cardinality(S) = n
      /\ IsFiniteSet(S \cup {n + 1}) /\ Cardinality(S \cup {n + 1}) = n + 1
  <2>1. IsFiniteSet(S) /\ Cardinality(S) = n
    BY FS_Interval
  <2>2. n + 1 \notin S
    OBVIOUS
  <2> HIDE DEF S
  <2> QED BY <2>1, <2>2, FS_AddElement
<1>2. n + 1 \notin S
  OBVIOUS
<1> HIDE DEF S
<1>3. /\ IsFiniteSet(A) /\ Cardinality(A) = 2^n
      /\ IsFiniteSet(SUBSET (S \cup {n + 1}))
      /\ Cardinality(SUBSET (S \cup {n + 1})) = 2^(n + 1)
  BY <1>1, FS_SUBSET
<1>4. A \cup B = SUBSET (S \cup {n + 1}) /\ A \cap B = {}
  <2>1. ASSUME NEW s \in SUBSET (S \cup {n + 1}), s \notin A PROVE s \in B
    <3>1. n + 1 \in s
      BY <2>1
    <3>2. s \ {n + 1} \in A /\ s = (s \ {n + 1}) \cup {n + 1}
      BY <2>1, <3>1
    <3> QED BY <3>2
  <2> QED BY <1>2, <2>1
<1>5. IsFiniteSet(B) /\ Cardinality(B) = Cardinality(A)
  <2> DEFINE f == [s \in A |-> s \cup {n + 1}]
  <2>1. f \in Bijection(A, B)
    <3>1. f \in [A -> B] /\ \A r \in B : \E s \in A : f[s] = r
      OBVIOUS
    <3>2. ASSUME NEW s \in A, NEW r \in A, f[s] = f[r] PROVE s = r
      <4>1. s \cup {n + 1} = r \cup {n + 1} /\ n + 1 \notin s /\ n + 1 \notin r
        BY <1>2, <3>2
      <4> QED BY <4>1
    <3> HIDE DEF f, A, B
    <3> QED BY <3>1, <3>2, Fun_IsBij
  <2>2. ExistsBijection(A, B)
    BY <2>1 DEF ExistsBijection
  <2> HIDE DEF A, B
  <2> QED BY <1>3, <2>2, FS_Bijection
<1> HIDE DEF A, B
<1>6. Cardinality(A \cup B) = Cardinality(A) + Cardinality(B) - Cardinality(A \cap B)
  BY <1>3, <1>5, FS_Union
<1>7. Cardinality(A \cap B) = 0 /\ Cardinality(A) \in Nat
  BY <1>3, <1>4, FS_EmptySet, FS_CardinalityType
<1>8. 2^n >= 1
  <2>1. {} \in A
    BY DEF A
  <2> QED BY <1>3, <1>7, <2>1, FS_EmptySet
<1>9. Cardinality(A \cup B) = 2^(n + 1)
  BY <1>3, <1>4
<1>10. \A a, b, c, d \in Int : a = b + c - d /\ d = 0 => a = b + c
  OBVIOUS
<1> DEFINE p == 2^n
           q == 2^(n + 1)
<1>11. q = p + p - 0 /\ p \in Nat
  BY <1>3, <1>5, <1>6, <1>7, <1>9
<1> HIDE DEF p, q
<1>12. q = p + p
  BY <1>11
<1> QED BY <1>8, <1>11, <1>12 DEF p, q

LEMMA PowerExceeds == \A n \in Nat : 2^n >= n + 1
<1> DEFINE S == {n \in Nat : 2^n >= n + 1}
<1>1. 0 \in S
  OBVIOUS
<1>2. ASSUME NEW n \in Nat, n \in S PROVE n + 1 \in S
  <2> DEFINE p == 2^n
             q == 2^(n + 1)
  <2>1. p \in Nat /\ q = p + p
    BY PowerOfTwo
  <2>2. p >= n + 1
    BY <1>2
  <2> HIDE DEF p, q
  <2>3. q >= n + 1 + 1
    BY <2>1, <2>2
  <2> QED BY <2>3 DEF q
<1> HIDE DEF S
<1>3. Nat \subseteq S
  BY <1>1, <1>2, Induction
<1> QED BY <1>3 DEF S

(***************************************************************************)
(* The logarithm of a positive number, rounded down.                       *)
(***************************************************************************)
LEMMA LogExists ==
  ASSUME NEW m \in Nat \ {0}
  PROVE  \E n \in 0..m : 2^n <= m /\ m < 2^(n + 1)
<1> DEFINE T == {n \in Nat : m < 2^(n + 1)}
<1>1. m \in T
  <2>1. 2^(m + 1) >= m + 1 + 1 /\ 2^(m + 1) \in Nat
    BY PowerExceeds, PowerOfTwo
  <2> DEFINE q == 2^(m + 1)
  <2>2. q >= m + 1 + 1 /\ q \in Nat
    BY <2>1
  <2> HIDE DEF q
  <2>3. m < q
    BY <2>2
  <2> QED BY <2>3 DEF q
<1>2. PICK n \in T : \A k \in T : n <= k
  <2>1. T \subseteq Nat
    OBVIOUS
  <2> HIDE DEF T
  <2> QED BY <1>1, <2>1, LeastNat
<1>3. n \in 0..m /\ m < 2^(n + 1)
  BY <1>1, <1>2
<1>4. 2^n <= m
  <2>1. CASE n = 0
    <3>1. 2^0 = 1
      OBVIOUS
    <3> QED BY <2>1, <3>1
  <2>2. CASE n # 0
    <3>1. n - 1 \in Nat /\ ~(n <= n - 1) /\ (n - 1) + 1 = n
      BY <1>3, <2>2
    <3>2. ~(m < 2^((n - 1) + 1))
      BY <1>2, <3>1
    <3> DEFINE p == 2^n
    <3>3. ~(m < p) /\ p \in Nat
      BY <3>1, <3>2, PowerOfTwo
    <3> HIDE DEF p
    <3>4. p <= m
      BY <3>3
    <3> QED BY <3>4 DEF p
  <2> QED BY <2>1, <2>2
<1> QED BY <1>3, <1>4
=============================================================================
