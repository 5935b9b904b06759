------------------------- MODULE MonitorRulesProofs -------------------------
(***************************************************************************)
(* Lemmas about the operators of MonitorRules: what selecting, sorting,    *)
(* picking the latest row and cutting into pages preserve.                 *)
(***************************************************************************)
EXTENDS MonitorRules, FiniteSetTheorems, SequenceTheorems, TLAPS

-----------------------------------------------------------------------------
(***************************************************************************)
(* A finite set in a strict total order.  InOrder lists each element once, *)
(* in that order, and it is the only list that does.                       *)
(***************************************************************************)

StrictOrder(S, R) ==
  /\ \A x \in S : <<x, x>> \notin R
  /\ \A x, y \in S : x # y => <<x, y>> \in R \/ <<y, x>> \in R
  /\ \A x, y, z \in S : <<x, y>> \in R /\ <<y, z>> \in R => <<x, z>> \in R

\* f lists the elements of S, each once, in the order R.
Lists(f, S, R) ==
  /\ DOMAIN f = 1..Cardinality(S)
  /\ \A k \in DOMAIN f : f[k] \in S
  /\ \A x \in S : \E k \in DOMAIN f : f[k] = x
  /\ \A i, j \in DOMAIN f : i < j <=> <<f[i], f[j]>> \in R

\* The number of elements before one is its place in the order.
LEMMA RanksCount ==
  ASSUME NEW S, NEW R, IsFiniteSet(S), StrictOrder(S, R), NEW rank, rank = Ranks(S, R)
  PROVE  /\ \A x, y \in S : <<x, y>> \in R => rank[x] < rank[y]
         /\ rank \in Injection(S, 0..(Cardinality(S) - 1))
         /\ rank \in Surjection(S, 0..(Cardinality(S) - 1))
<1> DEFINE n == Cardinality(S)
           First(x) == {y \in S : <<y, x>> \in R}
<1>1. n \in Nat
  BY FS_CardinalityType
<1>2. \A x \in S : /\ rank[x] = Cardinality(First(x)) /\ First(x) \in SUBSET S
                   /\ IsFiniteSet(First(x)) /\ rank[x] \in Nat
  BY FS_Subset, FS_CardinalityType DEF Ranks
<1>3. ASSUME NEW x \in S
      PROVE  rank[x] \in 0..(n - 1)
  <2>1. First(x) # S
    BY DEF StrictOrder
  <2>2. Cardinality(First(x)) <= n /\ Cardinality(First(x)) # n
    BY <1>2, <2>1, FS_Subset
  <2>3. rank[x] \in Nat /\ rank[x] <= n /\ rank[x] # n
    BY <1>2, <2>2
  <2> HIDE DEF n
  <2> QED
    BY <1>1, <2>3
<1>4. ASSUME NEW x \in S, NEW y \in S, <<x, y>> \in R
      PROVE  rank[x] < rank[y]
  <2>1. First(x) \in SUBSET First(y)
    BY <1>4 DEF StrictOrder
  <2>2. First(x) # First(y)
    BY <1>4 DEF StrictOrder
  <2>3. Cardinality(First(x)) <= Cardinality(First(y)) /\ Cardinality(First(x)) # Cardinality(First(y))
    BY <1>2, <2>1, <2>2, FS_Subset
  <2> QED
    BY <1>2, <2>3
<1>5. rank \in Injection(S, 0..(n - 1))
  <2>1. rank \in [S -> 0..(n - 1)]
    BY <1>3 DEF Ranks
  <2>2. ASSUME NEW x \in S, NEW y \in S, x # y
        PROVE  rank[x] # rank[y]
    <3>1. <<x, y>> \in R \/ <<y, x>> \in R
      BY <2>2 DEF StrictOrder
    <3>2. rank[x] < rank[y] \/ rank[y] < rank[x]
      BY <1>4, <3>1
    <3>3. rank[x] \in Nat /\ rank[y] \in Nat
      BY <1>2
    <3> QED
      BY ONLY <3>2, <3>3
  <2> QED
    BY <2>1, <2>2 DEF Injection, IsInjective
<1>6. rank \in Surjection(S, 0..(n - 1))
  <2>1. IsFiniteSet(0..(n - 1)) /\ Cardinality(0..(n - 1)) = n
    BY <1>1, FS_Interval
  <2> QED
    BY <1>5, <2>1, FS_Injection
<1> QED
  BY <1>4, <1>5, <1>6

\* InOrder(S, R) lists S in the order R.
LEMMA InOrderLists ==
  ASSUME NEW S, NEW R, IsFiniteSet(S), StrictOrder(S, R)
  PROVE  Lists(InOrder(S, R), S, R)
<1> DEFINE n == Cardinality(S)
           f == InOrder(S, R)
           rank == Ranks(S, R)
<1>1. n \in Nat
  BY FS_CardinalityType
<1>2. /\ \A x, y \in S : <<x, y>> \in R => rank[x] < rank[y]
      /\ rank \in Injection(S, 0..(n - 1))
      /\ rank \in Surjection(S, 0..(n - 1))
  BY RanksCount
<1>3. f = [k \in 1..n |-> CHOOSE x \in S : rank[x] = k - 1]
  BY DEF InOrder
<1> HIDE DEF f, rank, n
<1>4. ASSUME NEW k \in 1..n
      PROVE  f[k] \in S /\ rank[f[k]] = k - 1
  <2>1. k - 1 \in 0..(n - 1)
    BY <1>1
  <2>2. \E x \in S : rank[x] = k - 1
    BY <1>2, <2>1 DEF Surjection
  <2> QED
    BY <1>3, <2>2
<1>5. ASSUME NEW x \in S
      PROVE  rank[x] + 1 \in 1..n /\ f[rank[x] + 1] = x
  <2>1. rank[x] \in 0..(n - 1)
    BY <1>2 DEF Injection
  <2>2. rank[x] + 1 \in 1..n /\ (rank[x] + 1) - 1 = rank[x]
    BY <1>1, <2>1
  <2>3. f[rank[x] + 1] \in S /\ rank[f[rank[x] + 1]] = rank[x]
    BY <1>4, <2>2
  <2> QED
    BY <1>2, <2>2, <2>3 DEF Injection, IsInjective
<1>6. ASSUME NEW i \in 1..n, NEW j \in 1..n
      PROVE  i < j <=> <<f[i], f[j]>> \in R
  <2>1. f[i] \in S /\ f[j] \in S /\ rank[f[i]] = i - 1 /\ rank[f[j]] = j - 1
    BY <1>4
  <2>2. i < j => f[i] # f[j]
    BY <1>1, <2>1
  <2>3. <<f[j], f[i]>> \in R => j < i
    BY <1>1, <1>2, <2>1
  <2>4. <<f[i], f[j]>> \in R => i < j
    BY <1>1, <1>2, <2>1
  <2> QED
    BY <1>1, <2>1, <2>2, <2>3, <2>4 DEF StrictOrder
<1>7. DOMAIN f = 1..n
  BY <1>3
<1> QED
  BY <1>4, <1>5, <1>6, <1>7 DEF Lists, f, n

\* A list in the order R of all of S is InOrder(S, R).
LEMMA OneListing ==
  ASSUME NEW S, NEW R, StrictOrder(S, R), NEW n \in Nat, NEW f, DOMAIN f = 1..n,
         \A k \in 1..n : f[k] \in S,
         \A x \in S : \E k \in 1..n : f[k] = x,
         \A i, j \in 1..n : i < j => <<f[i], f[j]>> \in R
  PROVE  /\ IsFiniteSet(S) /\ Cardinality(S) = n
         /\ \A k \in 1..n : InOrder(S, R)[k] = f[k]
<1> DEFINE rank == Ranks(S, R)
           e == [k \in 1..n |-> f[k]]
<1>1. \A i, j \in 1..n : i # j => f[i] # f[j]
  <2> SUFFICES ASSUME NEW i \in 1..n, NEW j \in 1..n, i # j
               PROVE  f[i] # f[j]
    OBVIOUS
  <2>1. i < j \/ j < i
    OBVIOUS
  <2> QED
    BY <2>1 DEF StrictOrder
<1>2. e \in Bijection(1..n, S)
  BY <1>1 DEF Bijection, Injection, Surjection, IsInjective
<1>3. IsFiniteSet(S) /\ Cardinality(S) = n
  BY <1>2, FS_CountingElements, FS_NatBijection DEF ExistsBijection
<1>4. ASSUME NEW k \in 1..n
      PROVE  rank[f[k]] = k - 1
  <2> DEFINE T == {y \in S : <<y, f[k]>> \in R}
             b == [i \in 1..(k - 1) |-> f[i]]
  <2>1. k - 1 \in Nat /\ \A i \in 1..(k - 1) : i \in 1..n /\ i < k /\ f[i] \in T
    OBVIOUS
  <2>2. ASSUME NEW y \in T
        PROVE  \E i \in 1..(k - 1) : f[i] = y
    <3>1. PICK i \in 1..n : f[i] = y
      OBVIOUS
    <3>2. i # k
      BY <3>1 DEF StrictOrder
    <3>3. ~(k < i)
      <4> SUFFICES ASSUME k < i PROVE FALSE
        OBVIOUS
      <4>1. <<f[k], f[i]>> \in R /\ <<f[i], f[k]>> \in R
        BY <3>1
      <4> QED
        BY <4>1 DEF StrictOrder
    <3>4. i \in 1..(k - 1)
      BY <3>2, <3>3
    <3> QED
      BY <3>1, <3>4
  <2>3. b \in Bijection(1..(k - 1), T)
    BY <1>1, <2>1, <2>2 DEF Bijection, Injection, Surjection, IsInjective
  <2>4. Cardinality(T) = k - 1
    BY <2>1, <2>3, FS_CountingElements DEF ExistsBijection
  <2> QED
    BY <2>4 DEF Ranks
<1>5. rank \in Injection(S, 0..(Cardinality(S) - 1))
  BY <1>3, RanksCount
<1>6. InOrder(S, R) = [k \in 1..n |-> CHOOSE x \in S : rank[x] = k - 1]
  BY <1>3 DEF InOrder
<1> HIDE DEF rank
<1>7. ASSUME NEW k \in 1..n
      PROVE  InOrder(S, R)[k] = f[k]
  <2>1. \A x \in S : rank[x] = k - 1 => x = f[k]
    BY <1>4, <1>5 DEF Injection, IsInjective
  <2>2. f[k] \in S /\ rank[f[k]] = k - 1
    BY <1>4
  <2> QED
    BY <1>6, <2>1, <2>2
<1> QED
  BY <1>3, <1>7

\* What is arranged by an order depends on the order and the items alone.
LEMMA ArrangedAlike ==
  ASSUME NEW I, NEW R, NEW Q, NEW items, NEW items2,
         IsFiniteSet(I), StrictOrder(I, R),
         \A x, y \in I : <<x, y>> \in R <=> <<x, y>> \in Q,
         \A i \in I : items[i] = items2[i]
  PROVE  Arranged(items, I, R) = Arranged(items2, I, Q)
<1> DEFINE First(x, O) == Cardinality({y \in I : <<y, x>> \in O})
           g == InOrder(I, R)
<1>1. \A x \in I : {y \in I : <<y, x>> \in R} = {y \in I : <<y, x>> \in Q}
  OBVIOUS
<1>2. Ranks(I, R) = Ranks(I, Q)
  <2>1. \A x \in I : First(x, R) = First(x, Q)
    BY <1>1
  <2>2. Ranks(I, R) = [x \in I |-> First(x, R)] /\ Ranks(I, Q) = [x \in I |-> First(x, Q)]
    BY DEF Ranks
  <2> HIDE DEF First
  <2> QED
    BY <2>1, <2>2
<1>3. g = InOrder(I, Q)
  BY <1>2 DEF InOrder
<1>4. Lists(g, I, R)
  BY InOrderLists
<1> HIDE DEF g
<1>5. \A k \in 1..Cardinality(I) : g[k] \in I
  BY <1>4 DEF Lists
<1>6. Arranged(items, I, R) = [k \in 1..Cardinality(I) |-> items[g[k]]]
  BY DEF Arranged, g
<1>7. Arranged(items2, I, Q) = [k \in 1..Cardinality(I) |-> items2[g[k]]]
  BY <1>3 DEF Arranged
<1> QED
  BY <1>5, <1>6, <1>7

\* The places K of the list g are those of the elements of J, and P orders
\* the places as R orders the elements.
Moves(g, K, P, J, R) ==
  /\ K \subseteq DOMAIN g
  /\ \A k \in K : g[k] \in J
  /\ \A x \in J : \E k \in K : x = g[k]
  /\ \A a, b \in K : <<a, b>> \in P <=> <<g[a], g[b]>> \in R

\* Arranging some places K of what was arranged by Q: the items at the places
\* they come from, in an order that agrees on them.
LEMMA Rearranged ==
  ASSUME NEW items, NEW I, NEW Q, NEW K, NEW P, NEW J, NEW R,
         IsFiniteSet(I), StrictOrder(I, Q), StrictOrder(J, R),
         Moves(InOrder(I, Q), K, P, J, R)
  PROVE  Arranged(Arranged(items, I, Q), K, P) = Arranged(items, J, R)
<1> DEFINE g == InOrder(I, Q)
           h == InOrder(K, P)
           n == Cardinality(K)
           f == [k \in 1..n |-> g[h[k]]]
<1>1. Lists(g, I, Q)
  BY InOrderLists
<1>2. /\ K \subseteq 1..Cardinality(I)
      /\ \A k \in K : g[k] \in J
      /\ \A x \in J : \E k \in K : x = g[k]
      /\ \A k, l \in K : <<k, l>> \in P <=> <<g[k], g[l]>> \in R
  BY DEF Moves, InOrder
<1> HIDE DEF g
<1>3. Cardinality(I) \in Nat /\ IsFiniteSet(K) /\ n \in Nat
  <2>1. Cardinality(I) \in Nat
    BY FS_CardinalityType
  <2>2. IsFiniteSet(1..Cardinality(I))
    BY <2>1, FS_Interval
  <2>3. IsFiniteSet(K)
    BY <1>2, <2>2, FS_Subset
  <2> QED
    BY <2>1, <2>3, FS_CardinalityType
<1>4. \A a, b \in K : g[a] = g[b] => a = b
  <2> SUFFICES ASSUME NEW a \in K, NEW b \in K, a # b
               PROVE  g[a] # g[b]
    OBVIOUS
  <2>1. a \in DOMAIN g /\ b \in DOMAIN g /\ (a < b \/ b < a)
    BY <1>1, <1>2, <1>3 DEF Lists
  <2>2. g[a] \in I /\ (<<g[a], g[b]>> \in Q \/ <<g[b], g[a]>> \in Q)
    BY <1>1, <2>1 DEF Lists
  <2> QED
    BY <2>2 DEF StrictOrder
<1>5. StrictOrder(K, P)
  BY <1>4, <1>2 DEF StrictOrder
<1>6. Lists(h, K, P)
  BY <1>3, <1>5, InOrderLists
<1> HIDE DEF h
<1>7. \A k \in 1..n : h[k] \in K /\ f[k] \in J
  BY <1>6, <1>2 DEF Lists
<1>8. \A x \in J : \E k \in 1..n : f[k] = x
  <2> SUFFICES ASSUME NEW x \in J
               PROVE  \E k \in 1..n : f[k] = x
    OBVIOUS
  <2>1. PICK a \in K : x = g[a]
    BY <1>2
  <2>2. PICK k \in 1..n : h[k] = a
    BY <1>6 DEF Lists
  <2> QED
    BY <2>1, <2>2
<1>9. \A i, j \in 1..n : i < j => <<f[i], f[j]>> \in R
  <2> SUFFICES ASSUME NEW i \in 1..n, NEW j \in 1..n, i < j
               PROVE  <<f[i], f[j]>> \in R
    OBVIOUS
  <2>1. <<h[i], h[j]>> \in P
    BY <1>6 DEF Lists
  <2>2. h[i] \in K /\ h[j] \in K
    BY <1>7
  <2> QED
    BY <2>1, <2>2, <1>2
<1>10. Cardinality(J) = n /\ \A k \in 1..n : InOrder(J, R)[k] = f[k]
  <2>1. DOMAIN f = 1..n
    OBVIOUS
  <2> HIDE DEF f, n
  <2> QED
    BY ONLY <1>3, <1>7, <1>8, <1>9, <2>1, StrictOrder(J, R), OneListing
<1>11. \A k \in 1..n : Arranged(items, I, Q)[h[k]] = items[g[h[k]]]
  BY <1>2, <1>7 DEF Arranged, g
<1> QED
  BY <1>10, <1>11 DEF Arranged, h

\* A finite set has a first and a last element.
LEMMA Ends ==
  ASSUME NEW S, NEW R, IsFiniteSet(S), StrictOrder(S, R), S # {}
  PROVE  /\ \E x \in S : \A y \in S : y # x => <<x, y>> \in R
         /\ \E x \in S : \A y \in S : y # x => <<y, x>> \in R
<1> DEFINE f == InOrder(S, R)
           n == Cardinality(S)
<1>1. n \in Nat /\ n # 0
  BY FS_CardinalityType, FS_EmptySet
<1>2. Lists(f, S, R)
  BY InOrderLists
<1> HIDE DEF f
<1>3. f[1] \in S /\ f[n] \in S
  BY <1>1, <1>2 DEF Lists
<1>4. ASSUME NEW y \in S
      PROVE  (y # f[1] => <<f[1], y>> \in R) /\ (y # f[n] => <<y, f[n]>> \in R)
  <2>1. PICK k \in 1..n : f[k] = y
    BY <1>2 DEF Lists
  <2>2. y # f[1] => 1 < k
    BY <2>1, <1>1
  <2>3. y # f[n] => k < n
    BY <2>1, <1>1
  <2>4. 1 \in 1..n /\ n \in 1..n
    BY <1>1
  <2> HIDE DEF n
  <2> QED
    BY <1>2, <2>1, <2>2, <2>3, <2>4 DEF Lists, n
<1> QED
  BY <1>3, <1>4

-----------------------------------------------------------------------------
(* Keys: tuples of integers. *)

Keys(n) == [1..n -> Int]

LEMMA RisingOrder ==
  ASSUME NEW I \in SUBSET Int
  PROVE  StrictOrder(I, Rising(I))
BY DEF StrictOrder, Rising

\* A finite set of numbers has a least one.
LEMMA LeastNumber ==
  ASSUME NEW D, D \subseteq Int, IsFiniteSet(D), D # {}
  PROVE  \E i \in D : \A j \in D : i <= j
<1> DEFINE R == Rising(D)
<1>1. StrictOrder(D, R)
  BY RisingOrder
<1>2. \A i, j \in D : <<i, j>> \in R => i < j
  BY DEF Rising
<1> HIDE DEF R
<1>3. PICK i \in D : \A j \in D : j # i => <<i, j>> \in R
  BY ONLY <1>1, IsFiniteSet(D), D # {}, Ends
<1>4. ASSUME NEW j \in D
      PROVE  i <= j
  <2>1. i \in Int /\ j \in Int
    OBVIOUS
  <2>2. j = i \/ i < j
    BY <1>2, <1>3
  <2> QED
    BY ONLY <2>1, <2>2
<1> QED
  BY <1>4

\* Of two different keys one is before the other, and not conversely.
LEMMA BeforeOrder ==
  ASSUME NEW n \in Nat
  PROVE  /\ \A a \in Keys(n) : ~Before(a, a)
         /\ \A a, b \in Keys(n) : a # b => Before(a, b) \/ Before(b, a)
         /\ \A a, b, c \in Keys(n) : Before(a, b) /\ Before(b, c) => Before(a, c)
<1>1. \A a \in Keys(n) : ~Before(a, a)
  BY DEF Keys, Before
<1>2. ASSUME NEW a \in Keys(n), NEW b \in Keys(n), a # b
      PROVE  Before(a, b) \/ Before(b, a)
  <2> DEFINE D == {i \in 1..n : a[i] # b[i]}
  <2>1. D # {}
    BY <1>2 DEF Keys
  <2>2. D \in SUBSET Int /\ IsFiniteSet(D)
    <3>1. IsFiniteSet(1..n)
      BY FS_Interval
    <3> QED
      BY <3>1, FS_Subset
  <2>3. PICK i \in D : \A j \in D : i <= j
    BY <2>1, <2>2, LeastNumber
  <2>4. \A j \in 1..(i - 1) : a[j] = b[j]
    BY <2>3
  <2>5. i \in 1..n /\ a[i] \in Int /\ b[i] \in Int /\ a[i] # b[i]
    BY DEF Keys
  <2>6. i \in DOMAIN a /\ i \in DOMAIN b /\ (a[i] < b[i] \/ b[i] < a[i])
    BY <2>5 DEF Keys
  <2> QED
    BY <2>4, <2>6 DEF Before
<1>3. ASSUME NEW a \in Keys(n), NEW b \in Keys(n), NEW c \in Keys(n),
             Before(a, b), Before(b, c)
      PROVE  Before(a, c)
  <2>1. PICK i \in 1..n : a[i] < b[i] /\ \A j \in 1..(i - 1) : a[j] = b[j]
    BY <1>3 DEF Before, Keys
  <2>2. PICK k \in 1..n : b[k] < c[k] /\ \A j \in 1..(k - 1) : b[j] = c[j]
    BY <1>3 DEF Before, Keys
  <2>3. \A j \in 1..n : a[j] \in Int /\ b[j] \in Int /\ c[j] \in Int
    BY DEF Keys
  <2>4. DOMAIN a = 1..n
    BY DEF Keys
  <2>5. CASE i <= k
    <3>1. a[i] < c[i]
      BY <2>1, <2>2, <2>3, <2>5
    <3>2. \A j \in 1..(i - 1) : a[j] = c[j]
      BY <2>1, <2>2, <2>5
    <3> QED
      BY <2>4, <3>1, <3>2 DEF Before
  <2>6. CASE k < i
    <3>1. a[k] < c[k]
      BY <2>1, <2>2, <2>3, <2>6
    <3>2. \A j \in 1..(k - 1) : a[j] = c[j]
      BY <2>1, <2>2, <2>6
    <3> QED
      BY <2>4, <3>1, <3>2 DEF Before
  <2> QED
    BY <2>5, <2>6
<1> QED
  BY <1>1, <1>2, <1>3

\* Places in the order of their keys, equal keys in the order of the places.
LEMMA ByKeyOrder ==
  ASSUME NEW n \in Nat, NEW key, NEW I \in SUBSET Int, I \subseteq DOMAIN key,
         \A i \in I : key[i] \in Keys(n)
  PROVE  StrictOrder(I, ByKey(key))
<1>1. \A i, j \in I : <<i, j>> \in ByKey(key) <=>
        \/ Before(key[i], key[j])
        \/ key[i] = key[j] /\ i < j
  BY DEF ByKey
<1>2. /\ \A i \in I : ~Before(key[i], key[i])
      /\ \A i, j \in I : key[i] # key[j] => Before(key[i], key[j]) \/ Before(key[j], key[i])
      /\ \A i, j, k \in I : Before(key[i], key[j]) /\ Before(key[j], key[k]) => Before(key[i], key[k])
  BY BeforeOrder
<1>3. \A i \in I : <<i, i>> \notin ByKey(key)
  BY <1>1, <1>2
<1>4. \A i, j \in I : i # j => <<i, j>> \in ByKey(key) \/ <<j, i>> \in ByKey(key)
  BY <1>1, <1>2
<1>5. \A i, j, k \in I : <<i, j>> \in ByKey(key) /\ <<j, k>> \in ByKey(key) => <<i, k>> \in ByKey(key)
  BY <1>1, <1>2
<1> QED
  BY <1>3, <1>4, <1>5 DEF StrictOrder

-----------------------------------------------------------------------------
(***************************************************************************)
(* Selecting and sorting.  A condition is the set G of the items that meet *)
(* it, a sort key a function keyOf of the items.                           *)
(***************************************************************************)

Where(items, G) == {i \in DOMAIN items : items[i] \in G}
Picked(items, G) == ItemsAt(items, Where(items, G))
KeysOf(items, keyOf) == [i \in DOMAIN items |-> keyOf[items[i]]]
Sorted(items, keyOf) == SortedBy(items, KeysOf(items, keyOf))

\* A list of m items.
ListOfItems(items, m) ==
  m \in Nat /\ DOMAIN items = 1..m /\ items = [i \in 1..m |-> items[i]]

\* An arrangement of some places of a list: as many items as places, the items
\* of these places, and as many with a property.
LEMMA ArrangedItems ==
  ASSUME NEW items, NEW I, NEW R, IsFiniteSet(I), StrictOrder(I, R),
         NEW L, L = Arranged(items, I, R)
  PROVE  /\ ListOfItems(L, Cardinality(I))
         /\ Len(L) = Cardinality(I)
         /\ ToSet(L) = {items[i] : i \in I}
         /\ \A G : Cardinality(Where(L, G)) = Cardinality({i \in I : items[i] \in G})
<1> DEFINE g == InOrder(I, R)
           n == Cardinality(I)
<1>1. n \in Nat /\ Lists(g, I, R)
  BY FS_CardinalityType, InOrderLists
<1>2. L = [k \in 1..n |-> items[g[k]]]
  BY DEF Arranged
<1> HIDE DEF g, n
<1>3. DOMAIN L = 1..n /\ Len(L) = n
  BY <1>1, <1>2
<1>4. \A k \in 1..n : g[k] \in I /\ L[k] = items[g[k]]
  BY <1>1, <1>2 DEF Lists, n
<1>5. \A i \in I : \E k \in 1..n : g[k] = i
  BY <1>1 DEF Lists, n
<1>6. \A j, k \in 1..n : g[j] = g[k] => j = k
  <2> SUFFICES ASSUME NEW j \in 1..n, NEW k \in 1..n, j # k
               PROVE  g[j] # g[k]
    OBVIOUS
  <2>1. j < k \/ k < j
    BY <1>1
  <2>2. <<g[j], g[k]>> \in R \/ <<g[k], g[j]>> \in R
    BY <1>1, <2>1 DEF Lists, n
  <2> QED
    BY <1>4, <2>2 DEF StrictOrder
<1>7. ToSet(L) = {items[i] : i \in I}
  BY <1>3, <1>4, <1>5 DEF ToSet
<1>8. ASSUME NEW G
      PROVE  Cardinality(Where(L, G)) = Cardinality({i \in I : items[i] \in G})
  <2> DEFINE W == Where(L, G)
             T == {i \in I : items[i] \in G}
             b == [k \in W |-> g[k]]
  <2>1. W = {k \in 1..n : items[g[k]] \in G}
    BY <1>3, <1>4 DEF Where
  <2>2. \A k \in W : g[k] \in T
    BY <1>4, <2>1
  <2>3. \A i \in T : \E k \in W : g[k] = i
    BY <1>5, <2>1
  <2>4. b \in Bijection(W, T)
    BY <1>6, <2>1, <2>2, <2>3 DEF Bijection, Injection, Surjection, IsInjective
  <2>5. IsFiniteSet(W)
    BY <1>1, <2>1, FS_Interval, FS_Subset
  <2> QED
    BY <2>4, <2>5, FS_Bijection DEF ExistsBijection
<1>9. L = [k \in 1..n |-> L[k]]
  BY <1>2
<1> QED
  BY <1>1, <1>3, <1>7, <1>8, <1>9 DEF ListOfItems, n

\* The places of a list are finitely many, in the order of the numbers.
LEMMA Places ==
  ASSUME NEW items, NEW m, ListOfItems(items, m), NEW I, I \subseteq 1..m
  PROVE  /\ IsFiniteSet(I)
         /\ StrictOrder(I, Rising(I))
         /\ Cardinality(1..m) = m
<1>1. IsFiniteSet(1..m) /\ Cardinality(1..m) = m
  BY FS_Interval DEF ListOfItems
<1>2. I \subseteq Int
  BY DEF ListOfItems
<1> QED
  BY <1>1, <1>2, FS_Subset, RisingOrder

LEMMA PickedItems ==
  ASSUME NEW items, NEW m, ListOfItems(items, m), NEW G
  PROVE  /\ ListOfItems(Picked(items, G), Cardinality(Where(items, G)))
         /\ Len(Picked(items, G)) = Cardinality(Where(items, G))
         /\ ToSet(Picked(items, G)) = ToSet(items) \cap G
         /\ \A H : Cardinality(Where(Picked(items, G), H)) = Cardinality(Where(items, G \cap H))
<1> DEFINE I == Where(items, G)
           L == Arranged(items, I, Rising(I))
<1>1. I \subseteq 1..m
  BY DEF Where, ListOfItems
<1>2. IsFiniteSet(I) /\ StrictOrder(I, Rising(I))
  BY <1>1, Places
<1>3. L = Picked(items, G)
  BY DEF Picked, ItemsAt
<1>4. /\ ListOfItems(L, Cardinality(I)) /\ Len(L) = Cardinality(I)
      /\ ToSet(L) = {items[i] : i \in I}
      /\ \A H : Cardinality(Where(L, H)) = Cardinality({i \in I : items[i] \in H})
  BY <1>2, ArrangedItems
<1>5. {items[i] : i \in I} = ToSet(items) \cap G
  BY DEF Where, ToSet
<1>6. \A H : {i \in I : items[i] \in H} = Where(items, G \cap H)
  BY DEF Where
<1> HIDE DEF L
<1> QED
  BY <1>3, <1>4, <1>5, <1>6

LEMMA SortedItems ==
  ASSUME NEW items, NEW m, ListOfItems(items, m), NEW n \in Nat, NEW keyOf,
         \A i \in 1..m : keyOf[items[i]] \in Keys(n)
  PROVE  /\ StrictOrder(1..m, ByKey(KeysOf(items, keyOf)))
         /\ Sorted(items, keyOf) = Arranged(items, 1..m, ByKey(KeysOf(items, keyOf)))
         /\ ListOfItems(Sorted(items, keyOf), m)
         /\ Len(Sorted(items, keyOf)) = m
         /\ ToSet(Sorted(items, keyOf)) = ToSet(items)
         /\ \A G : Cardinality(Where(Sorted(items, keyOf), G)) = Cardinality(Where(items, G))
<1> DEFINE key == KeysOf(items, keyOf)
           L == Arranged(items, 1..m, ByKey(key))
<1>1. DOMAIN key = 1..m /\ \A i \in 1..m : key[i] \in Keys(n)
  BY DEF KeysOf, ListOfItems
<1>2. StrictOrder(1..m, ByKey(key))
  <2>1. 1..m \subseteq Int
    BY DEF ListOfItems
  <2> HIDE DEF key
  <2> QED
    BY <1>1, <2>1, ByKeyOrder
<1>3. IsFiniteSet(1..m) /\ Cardinality(1..m) = m
  <2>1. m \in Nat
    BY DEF ListOfItems
  <2> QED
    BY ONLY <2>1, FS_Interval
<1>4. L = Sorted(items, keyOf)
  BY DEF Sorted, SortedBy, ListOfItems
<1>5. /\ ListOfItems(L, m) /\ Len(L) = m
      /\ ToSet(L) = {items[i] : i \in 1..m}
      /\ \A G : Cardinality(Where(L, G)) = Cardinality({i \in 1..m : items[i] \in G})
  BY <1>2, <1>3, ArrangedItems
<1>6. {items[i] : i \in 1..m} = ToSet(items)
  BY DEF ListOfItems, ToSet
<1>7. \A G : {i \in 1..m : items[i] \in G} = Where(items, G)
  BY DEF Where, ListOfItems
<1> HIDE DEF L, key
<1> QED
  BY <1>2, <1>4, <1>5, <1>6, <1>7 DEF key, L

\* Selecting twice selects what meets both conditions.
LEMMA PickedPicked ==
  ASSUME NEW items, NEW m, ListOfItems(items, m), NEW G, NEW H
  PROVE  Picked(Picked(items, G), H) = Picked(items, G \cap H)
<1> DEFINE I == Where(items, G)
           J == Where(items, G \cap H)
           g == InOrder(I, Rising(I))
           n == Cardinality(I)
           L == Arranged(items, I, Rising(I))
           K == Where(L, H)
<1>1. I \subseteq 1..m /\ J \subseteq I
  BY DEF Where, ListOfItems
<1>2. /\ IsFiniteSet(I) /\ StrictOrder(I, Rising(I)) /\ StrictOrder(J, Rising(J))
      /\ J \subseteq 1..m
  BY <1>1, Places
<1>3. Lists(g, I, Rising(I)) /\ g = InOrder(I, Rising(I)) /\ n = Cardinality(I)
  BY <1>2, InOrderLists
<1>4. L = [k \in 1..n |-> items[g[k]]]
  BY DEF Arranged
<1>5. \A k \in 1..n : g[k] \in I
  <2> HIDE DEF g
  <2> QED
    BY <1>3 DEF Lists
<1>6. \A i \in I : i \in J <=> items[i] \in H
  BY DEF Where
<1> HIDE DEF g, n, I, J, L
<1>7. K \in SUBSET (1..n) /\ \A k \in 1..n : k \in K <=> items[g[k]] \in H
  BY <1>4 DEF Where
<1>8. (\A k \in K : g[k] \in J) /\ \A x \in J : \E k \in K : x = g[k]
  <2>1. \A k \in K : g[k] \in J
    BY <1>5, <1>6, <1>7
  <2>2. \A i \in J : \E k \in K : g[k] = i
    <3> SUFFICES ASSUME NEW i \in J
                 PROVE  \E k \in K : g[k] = i
      OBVIOUS
    <3>1. PICK k \in 1..n : g[k] = i
      BY <1>1, <1>3 DEF Lists, n
    <3>2. k \in K
      BY <1>1, <1>6, <1>7, <3>1
    <3> QED
      BY <3>1, <3>2
  <2> QED
    BY <2>1, <2>2
<1>9. \A a, b \in K : <<a, b>> \in Rising(K) <=> <<g[a], g[b]>> \in Rising(J)
  <2> SUFFICES ASSUME NEW a \in K, NEW b \in K
               PROVE  <<a, b>> \in Rising(K) <=> <<g[a], g[b]>> \in Rising(J)
    OBVIOUS
  <2>1. a < b <=> <<g[a], g[b]>> \in Rising(I)
    BY <1>3, <1>7 DEF Lists, n
  <2>2. g[a] \in J /\ g[b] \in J /\ g[a] \in I /\ g[b] \in I
    BY <1>1, <1>8
  <2> QED
    BY <2>1, <2>2 DEF Rising
<1>10. Arranged(Arranged(items, I, Rising(I)), K, Rising(K)) = Arranged(items, J, Rising(J))
  <2>1. Moves(InOrder(I, Rising(I)), K, Rising(K), J, Rising(J))
    BY <1>3, <1>7, <1>8, <1>9 DEF Moves, Lists
  <2> HIDE DEF K
  <2> QED
    BY ONLY <1>2, <2>1, Rearranged
<1> QED
  BY <1>10 DEF Picked, ItemsAt, I, J, L

\* Selecting from a sorted list is sorting what is selected.
LEMMA PickedSorted ==
  ASSUME NEW items, NEW m, ListOfItems(items, m), NEW n \in Nat, NEW keyOf,
         \A i \in 1..m : keyOf[items[i]] \in Keys(n), NEW G
  PROVE  Picked(Sorted(items, keyOf), G) = Sorted(Picked(items, G), keyOf)
<1> DEFINE Q == ByKey(KeysOf(items, keyOf))
           J == Where(items, G)
           c == Cardinality(J)
<1>1. StrictOrder(1..m, Q) /\ Sorted(items, keyOf) = Arranged(items, 1..m, Q)
  BY SortedItems
<1>2. /\ J \subseteq 1..m /\ IsFiniteSet(1..m) /\ Cardinality(1..m) = m /\ m \in Nat
      /\ \A i \in 1..m : i \in J <=> items[i] \in G
  BY FS_Interval DEF Where, ListOfItems
<1>3. IsFiniteSet(J) /\ StrictOrder(J, Rising(J)) /\ c \in Nat
  BY <1>2, Places, FS_CardinalityType
<1>4. StrictOrder(J, Q)
  BY <1>1, <1>2 DEF StrictOrder
<1>5. \A i, j \in 1..m : <<i, j>> \in Q <=>
        \/ Before(keyOf[items[i]], keyOf[items[j]])
        \/ keyOf[items[i]] = keyOf[items[j]] /\ i < j
  BY DEF ByKey, KeysOf, ListOfItems
<1> HIDE DEF Q, J, c
<1>6. Picked(Sorted(items, keyOf), G) = Arranged(items, J, Q)
  <2> DEFINE g == InOrder(1..m, Q)
             L == Arranged(items, 1..m, Q)
             K == Where(L, G)
  <2>1. Lists(g, 1..m, Q) /\ g = InOrder(1..m, Q)
    BY <1>1, <1>2, InOrderLists
  <2>2. L = [k \in 1..m |-> items[g[k]]]
    BY <1>2 DEF Arranged
  <2> HIDE DEF g, L
  <2>3. \A k \in 1..m : g[k] \in 1..m
    BY <1>2, <2>1 DEF Lists
  <2>4. K \in SUBSET (1..m) /\ \A k \in 1..m : k \in K <=> g[k] \in J
    BY <1>2, <2>2, <2>3 DEF Where
  <2>5. (\A k \in K : g[k] \in J) /\ \A x \in J : \E k \in K : x = g[k]
    <3>1. \A i \in J : \E k \in K : g[k] = i
      <4> SUFFICES ASSUME NEW i \in J
                   PROVE  \E k \in K : g[k] = i
        OBVIOUS
      <4>1. PICK k \in 1..m : g[k] = i
        BY <1>2, <2>1 DEF Lists
      <4> QED
        BY <2>4, <4>1
    <3> QED
      BY <2>4, <3>1
  <2>6. \A a, b \in K : <<a, b>> \in Rising(K) <=> <<g[a], g[b]>> \in Q
    BY <1>2, <2>1, <2>4 DEF Lists, Rising
  <2>7. Arranged(Arranged(items, 1..m, Q), K, Rising(K)) = Arranged(items, J, Q)
    <3> DEFINE I == 1..m
    <3>1. IsFiniteSet(I) /\ StrictOrder(I, Q)
      BY <1>1, <1>2
    <3>2. Moves(InOrder(I, Q), K, Rising(K), J, Q)
      BY <1>2, <2>1, <2>4, <2>5, <2>6 DEF Moves, Lists
    <3> HIDE DEF I, K
    <3>3. Arranged(Arranged(items, I, Q), K, Rising(K)) = Arranged(items, J, Q)
      BY ONLY <1>4, <3>1, <3>2, Rearranged
    <3> QED
      BY <3>3 DEF I
  <2> QED
    BY <1>1, <2>7 DEF Picked, ItemsAt, L
<1>7. Sorted(Picked(items, G), keyOf) = Arranged(items, J, Q)
  <2> DEFINE h == InOrder(J, Rising(J))
             L == Arranged(items, J, Rising(J))
             P == ByKey(KeysOf(L, keyOf))
  <2>1. Lists(h, J, Rising(J)) /\ h = InOrder(J, Rising(J)) /\ c = Cardinality(J)
    BY <1>3, InOrderLists DEF c
  <2>2. L = [k \in 1..c |-> items[h[k]]]
    BY DEF Arranged, c
  <2> HIDE DEF h
  <2>3. \A k \in 1..c : h[k] \in J /\ h[k] \in 1..m
    BY <1>2, <2>1 DEF Lists, c
  <2>4. (\A k \in 1..c : h[k] \in J) /\ \A x \in J : \E k \in 1..c : x = h[k]
    BY <2>1, <2>3 DEF Lists, c
  <2> HIDE DEF L
  <2>5. DOMAIN KeysOf(L, keyOf) = 1..c /\ \A k \in 1..c : KeysOf(L, keyOf)[k] = keyOf[items[h[k]]]
    BY <2>2 DEF KeysOf
  <2>6. \A a, b \in 1..c : <<a, b>> \in P <=> <<h[a], h[b]>> \in Q
    <3> SUFFICES ASSUME NEW a \in 1..c, NEW b \in 1..c
                 PROVE  <<a, b>> \in P <=> <<h[a], h[b]>> \in Q
      OBVIOUS
    <3>1. a < b <=> <<h[a], h[b]>> \in Rising(J)
      BY <2>1 DEF Lists, c
    <3>2. a < b <=> h[a] < h[b]
      BY <2>3, <3>1 DEF Rising
    <3>3. <<a, b>> \in P <=> \/ Before(keyOf[items[h[a]]], keyOf[items[h[b]]])
                             \/ keyOf[items[h[a]]] = keyOf[items[h[b]]] /\ a < b
      BY <2>5 DEF ByKey
    <3> QED
      BY <1>5, <2>3, <3>2, <3>3
  <2>7. Arranged(Arranged(items, J, Rising(J)), 1..c, P) = Arranged(items, J, Q)
    <3> DEFINE K == 1..c
    <3>1. IsFiniteSet(J) /\ StrictOrder(J, Rising(J))
      BY <1>3
    <3>2. Moves(InOrder(J, Rising(J)), K, P, J, Q)
      BY <2>1, <2>4, <2>6 DEF Moves, Lists
    <3> HIDE DEF P, K
    <3>3. Arranged(Arranged(items, J, Rising(J)), K, P) = Arranged(items, J, Q)
      BY ONLY <1>4, <3>1, <3>2, Rearranged
    <3> QED
      BY <3>3 DEF K
  <2>8. Picked(items, G) = L
    BY DEF Picked, ItemsAt, J, L
  <2>9. DOMAIN L = 1..c
    BY <2>2
  <2> QED
    BY <2>7, <2>8, <2>9 DEF Sorted, SortedBy, L
<1> QED
  BY <1>6, <1>7

\* Sorting items that are all different by keys that are all different.
NoRepeats(items) == \A i, j \in DOMAIN items : items[i] = items[j] => i = j
Order(E, keyOf) == {e \in E \X E : Before(keyOf[e[1]], keyOf[e[2]])}

\* The result depends on the set of the items, not on their order.
LEMMA SortedSet ==
  ASSUME NEW items, NEW m, ListOfItems(items, m), NoRepeats(items), NEW n \in Nat, NEW keyOf,
         NEW E, E = ToSet(items),
         \A x \in E : keyOf[x] \in Keys(n),
         \A x, y \in E : keyOf[x] = keyOf[y] => x = y
  PROVE  /\ StrictOrder(E, Order(E, keyOf))
         /\ IsFiniteSet(E) /\ Cardinality(E) = m
         /\ Sorted(items, keyOf) = [k \in 1..Cardinality(E) |-> InOrder(E, Order(E, keyOf))[k]]
<1> DEFINE R == Order(E, keyOf)
           Q == ByKey(KeysOf(items, keyOf))
           g == InOrder(1..m, Q)
           L == Sorted(items, keyOf)
<1>1. \A x, y \in E : <<x, y>> \in R <=> Before(keyOf[x], keyOf[y])
  BY DEF Order
<1>2. StrictOrder(E, R)
  <2>1. /\ \A x \in E : ~Before(keyOf[x], keyOf[x])
        /\ \A x, y \in E : x # y => Before(keyOf[x], keyOf[y]) \/ Before(keyOf[y], keyOf[x])
        /\ \A x, y, z \in E : Before(keyOf[x], keyOf[y]) /\ Before(keyOf[y], keyOf[z])
                                => Before(keyOf[x], keyOf[z])
    BY BeforeOrder
  <2> HIDE DEF R
  <2> QED
    BY <1>1, <2>1 DEF StrictOrder
<1>3. \A i \in 1..m : items[i] \in E /\ keyOf[items[i]] \in Keys(n)
  BY DEF ToSet, ListOfItems
<1>4. /\ StrictOrder(1..m, Q) /\ L = Arranged(items, 1..m, Q)
      /\ ListOfItems(L, m) /\ ToSet(L) = E
  BY <1>3, SortedItems
<1>5. m \in Nat /\ IsFiniteSet(1..m) /\ Cardinality(1..m) = m
  BY FS_Interval DEF ListOfItems
<1>6. Lists(g, 1..m, Q)
  BY <1>4, <1>5, InOrderLists
<1>7. L = [k \in 1..m |-> items[g[k]]]
  BY <1>4, <1>5 DEF Arranged
<1>8. \A i, j \in 1..m : <<i, j>> \in Q <=>
        \/ Before(keyOf[items[i]], keyOf[items[j]])
        \/ keyOf[items[i]] = keyOf[items[j]] /\ i < j
  BY DEF ByKey, KeysOf, ListOfItems
<1> HIDE DEF g, L, Q, R
<1>9. \A i, j \in 1..m : i < j => <<L[i], L[j]>> \in R
  <2> SUFFICES ASSUME NEW i \in 1..m, NEW j \in 1..m, i < j
               PROVE  <<L[i], L[j]>> \in R
    OBVIOUS
  <2>1. g[i] \in 1..m /\ g[j] \in 1..m /\ <<g[i], g[j]>> \in Q
    BY <1>5, <1>6 DEF Lists
  <2>2. g[i] # g[j]
    BY <1>4, <2>1 DEF StrictOrder
  <2>3. keyOf[items[g[i]]] # keyOf[items[g[j]]]
    BY <1>3, <2>1, <2>2 DEF NoRepeats, ListOfItems
  <2>4. Before(keyOf[items[g[i]]], keyOf[items[g[j]]])
    BY <1>8, <2>1, <2>3
  <2> QED
    BY <1>1, <1>3, <1>7, <2>1, <2>4
<1>10. DOMAIN L = 1..m /\ (\A k \in 1..m : L[k] \in E) /\ \A x \in E : \E k \in 1..m : L[k] = x
  BY <1>4 DEF ToSet, ListOfItems
<1>11. IsFiniteSet(E) /\ Cardinality(E) = m /\ \A k \in 1..m : InOrder(E, R)[k] = L[k]
  BY ONLY <1>2, <1>5, <1>9, <1>10, OneListing
<1>12. L = [k \in 1..Cardinality(E) |-> InOrder(E, R)[k]]
  BY <1>7, <1>11
<1> QED
  BY <1>2, <1>11, <1>12 DEF L, R

-----------------------------------------------------------------------------
(* The latest of the rows of one day and type. *)

RowTyped(s) ==
  /\ s.machine \in Int /\ s.key \in Int /\ s.value \in Int
  /\ s.time \in Int \cup {None}

\* Finitely many rows, told apart by machine, key and value.
RowsOK(rows) ==
  /\ IsFiniteSet(rows)
  /\ \A s \in rows : RowTyped(s)
  /\ \A s, t \in rows :
       s.machine = t.machine /\ s.key = t.key /\ s.value = t.value => s = t

LEMMA LatestKeyTyped ==
  ASSUME NEW s, RowTyped(s)
  PROVE  LatestKey(s) \in Keys(5)
<1>1. Bit(s.time # None) \in Int
  BY DEF Bit
<1>2. (IF s.time = None THEN 0 ELSE s.time) \in Int
  BY DEF RowTyped
<1> QED
  BY <1>1, <1>2 DEF RowTyped, LatestKey, Keys

\* The row picked is one of them, and none has a later time.
LEMMA LatestRow ==
  ASSUME NEW rows, RowsOK(rows), rows # {}
  PROVE  /\ Latest(rows) \in rows
         /\ \A t \in rows : t.time # None =>
              Latest(rows).time # None /\ t.time <= Latest(rows).time
<1> DEFINE R == {e \in rows \X rows : Before(LatestKey(e[1]), LatestKey(e[2]))}
<1>1. \A s, t \in rows : <<s, t>> \in R <=> Before(LatestKey(s), LatestKey(t))
  OBVIOUS
<1>2. \A s \in rows : RowTyped(s) /\ LatestKey(s) \in Keys(5)
  BY LatestKeyTyped DEF RowsOK
<1>3. \A s, t \in rows : s # t => LatestKey(s) # LatestKey(t)
  BY DEF RowsOK, LatestKey
<1> HIDE DEF R
<1>4. StrictOrder(rows, R)
  <2>1. /\ \A s \in rows : ~Before(LatestKey(s), LatestKey(s))
        /\ \A s, t \in rows : s # t =>
             Before(LatestKey(s), LatestKey(t)) \/ Before(LatestKey(t), LatestKey(s))
        /\ \A s, t, u \in rows :
             Before(LatestKey(s), LatestKey(t)) /\ Before(LatestKey(t), LatestKey(u))
               => Before(LatestKey(s), LatestKey(u))
    BY <1>2, <1>3, BeforeOrder
  <2> QED
    BY <1>1, <2>1 DEF StrictOrder
<1>5. \E s \in rows : \A t \in rows : t # s => <<t, s>> \in R
  BY <1>4, Ends DEF RowsOK
<1>6. \E s \in rows : \A t \in rows \ {s} : Before(LatestKey(t), LatestKey(s))
  BY <1>1, <1>5
<1> DEFINE l == Latest(rows)
<1>7. l \in rows /\ \A t \in rows \ {l} : Before(LatestKey(t), LatestKey(l))
  BY <1>6 DEF Latest
<1> HIDE DEF l
<1>8. ASSUME NEW t \in rows, t.time # None
      PROVE  l.time # None /\ t.time <= l.time
  <2>1. CASE t = l
    BY <1>2, <1>8, <2>1 DEF RowTyped
  <2>2. CASE t # l
    <3>1. PICK i \in 1..5 : /\ LatestKey(t)[i] < LatestKey(l)[i]
                            /\ \A j \in 1..(i - 1) : LatestKey(t)[j] = LatestKey(l)[j]
      <4>1. DOMAIN LatestKey(t) = 1..5
        BY <1>2 DEF Keys
      <4> QED
        BY <1>7, <2>2, <4>1 DEF Before
    <3>2. /\ LatestKey(t)[1] = 1 /\ LatestKey(t)[2] = t.time
          /\ LatestKey(l)[1] = Bit(l.time # None)
          /\ l.time # None => LatestKey(l)[2] = l.time
      BY <1>8 DEF LatestKey, Bit
    <3>3. RowTyped(t) /\ RowTyped(l)
      BY <1>2, <1>7
    <3>4. i = 1 => FALSE
      BY <3>1, <3>2 DEF Bit
    <3>5. LatestKey(t)[1] = LatestKey(l)[1]
      BY <3>1, <3>4
    <3>6. l.time # None
      BY <3>2, <3>5 DEF Bit
    <3>7. i = 2 => t.time < l.time
      BY <3>1, <3>2, <3>6
    <3>8. i > 2 => t.time = l.time
      BY <3>1, <3>2, <3>6
    <3>9. t.time \in Int /\ l.time \in Int /\ i \in Int
      BY <1>8, <3>3, <3>6 DEF RowTyped
    <3> QED
      BY <3>1, <3>4, <3>6, <3>7, <3>8, <3>9
  <2> QED
    BY <2>1, <2>2
<1> QED
  BY <1>7, <1>8 DEF l

-----------------------------------------------------------------------------
(* Lists one after the other, and pieces of lists. *)

\* L is s, of length m, and then t, of length n.
OneAfterTheOther(L, s, m, t, n) ==
  /\ ListOfItems(L, m + n)
  /\ Len(L) = m + n
  /\ \A i \in 1..m : L[i] = s[i]
  /\ \A i \in 1..n : L[m + i] = t[i]

LEMMA Joined ==
  ASSUME NEW s, NEW t, NEW m, NEW n, ListOfItems(s, m), ListOfItems(t, n)
  PROVE  OneAfterTheOther(s \o t, s, m, t, n)
<1> DEFINE S == {s[i] : i \in 1..m} \cup {t[i] : i \in 1..n}
<1>1. s \in [1..m -> S] /\ t \in [1..n -> S] /\ m \in Nat /\ n \in Nat
  BY DEF ListOfItems
<1> HIDE DEF S
<1>2. s \in Seq(S) /\ t \in Seq(S)
  BY <1>1, SeqDef
<1>3. Len(s) = m /\ Len(t) = n
  BY <1>1
<1>4. s \o t \in Seq(S) /\ Len(s \o t) = m + n
  BY ONLY <1>1, <1>2, <1>3
<1>5. \A i \in 1..(m + n) : (s \o t)[i] = IF i <= m THEN s[i] ELSE t[i - m]
  BY ONLY <1>1, <1>2, <1>3
<1>6. m + n \in Nat /\ s \o t \in [1..(m + n) -> S]
  BY <1>1, <1>4, LenProperties
<1>7. \A i \in 1..m : i \in 1..(m + n) /\ i <= m
  BY <1>1
<1>8. \A i \in 1..n : m + i \in 1..(m + n) /\ ~(m + i <= m) /\ (m + i) - m = i
  BY <1>1
<1> QED
  BY <1>4, <1>5, <1>6, <1>7, <1>8 DEF ListOfItems, OneAfterTheOther

LEMMA JoinedNone ==
  ASSUME NEW s, NEW m, ListOfItems(s, m)
  PROVE  s \o << >> = s
<1> DEFINE S == {s[i] : i \in 1..m}
<1>1. s \in [1..m -> S] /\ m \in Nat
  BY DEF ListOfItems
<1> HIDE DEF S
<1>2. s \in Seq(S)
  BY <1>1, SeqDef
<1> QED
  BY <1>2, ConcatEmptySeq

LEMMA CutOut ==
  ASSUME NEW s, NEW m, ListOfItems(s, m), NEW a \in Nat \ {0}, NEW b \in 0..m
  PROVE  SubSeq(s, a, b) = [i \in 1..(b - a + 1) |-> s[i + a - 1]]
<1> DEFINE S == {s[i] : i \in 1..m}
<1>1. s \in [1..m -> S] /\ m \in Nat
  BY DEF ListOfItems
<1> HIDE DEF S
<1>2. s \in Seq(S)
  BY <1>1, SeqDef
<1> QED
  BY <1>1, <1>2, SubSeqProperties

\* The first items of a list, followed by the next ones.
Beginning(s, a) == [i \in 1..a |-> s[i]]

LEMMA BeginningGrows ==
  ASSUME NEW s, NEW a \in Nat, NEW b \in Nat, a <= b
  PROVE  Beginning(s, a) \o [i \in 1..(b - a) |-> s[i + a]] = Beginning(s, b)
<1> DEFINE u == Beginning(s, a)
           v == [i \in 1..(b - a) |-> s[i + a]]
<1>1. ListOfItems(u, a) /\ ListOfItems(v, b - a)
  BY DEF Beginning, ListOfItems
<1>2. /\ \A i \in 1..a : u[i] = s[i]
      /\ \A i \in 1..(b - a) : v[i] = s[i + a]
  BY DEF Beginning
<1> HIDE DEF u, v
<1>3. OneAfterTheOther(u \o v, u, a, v, b - a)
  BY ONLY <1>1, Joined
<1> DEFINE w == u \o v
<1>4. OneAfterTheOther(w, u, a, v, b - a)
  BY <1>3
<1> HIDE DEF w
<1>5. /\ ListOfItems(w, b)
      /\ \A i \in 1..a : w[i] = u[i]
      /\ \A i \in 1..(b - a) : w[a + i] = v[i]
  <2>1. a + (b - a) = b
    OBVIOUS
  <2> QED
    BY <1>4, <2>1 DEF OneAfterTheOther
<1>6. ASSUME NEW i \in 1..b
      PROVE  w[i] = s[i]
  <2>1. CASE i <= a
    BY <1>2, <1>5, <2>1
  <2>2. CASE i > a
    <3>1. i - a \in 1..(b - a) /\ a + (i - a) = i /\ (i - a) + a = i
      BY <2>2
    <3>2. w[a + (i - a)] = v[i - a] /\ v[i - a] = s[(i - a) + a]
      BY <1>2, <1>5, <3>1
    <3> QED
      BY <3>1, <3>2
  <2> QED
    BY <2>1, <2>2
<1>7. w = [i \in 1..b |-> s[i]]
  BY <1>5, <1>6 DEF ListOfItems
<1> QED
  BY <1>7 DEF Beginning, u, v, w

\* F[i] is the first i pages, one after the other.
Chained(F, seqs, n) ==
  /\ F = [i \in 1..n |-> F[i]]
  /\ F[1] = seqs[1]
  /\ \A i \in 2..n : F[i] = F[i - 1] \o seqs[i]

\* There is one such F only: two of them would differ first at some page.
LEMMA FlattenIs ==
  ASSUME NEW seqs, NEW n \in Nat \ {0}, ListOfItems(seqs, n), Len(seqs) = n,
         NEW F, Chained(F, seqs, n)
  PROVE  FlattenSeq(seqs) = F[n]
<1> DEFINE Step(f) == [i \in 1..Len(seqs) |-> IF i = 1 THEN seqs[i] ELSE f[i - 1] \o seqs[i]]
           flatten == CHOOSE f : f = Step(f)
<1>1. FlattenSeq(seqs) = flatten[n]
  BY DEF FlattenSeq
<1>2. F = Step(F)
  <2>1. ASSUME NEW i \in 1..n
        PROVE  F[i] = IF i = 1 THEN seqs[i] ELSE F[i - 1] \o seqs[i]
    <3>1. i = 1 \/ i \in 2..n
      OBVIOUS
    <3> QED
      BY <3>1 DEF Chained
  <2>2. [i \in 1..n |-> F[i]] = [i \in 1..n |-> IF i = 1 THEN seqs[i] ELSE F[i - 1] \o seqs[i]]
    BY <2>1
  <2> QED
    BY <2>2 DEF Chained
<1>3. flatten = Step(flatten)
  BY <1>2
<1> HIDE DEF flatten
<1>4. \A i \in 1..n : flatten[i] = IF i = 1 THEN seqs[i] ELSE flatten[i - 1] \o seqs[i]
  BY <1>3
<1> DEFINE D == {i \in 1..n : flatten[i] # F[i]}
<1>5. D = {}
  <2> SUFFICES ASSUME D # {}
               PROVE  FALSE
    OBVIOUS
  <2>1. IsFiniteSet(D) /\ D \subseteq Int
    <3>1. IsFiniteSet(1..n) /\ D \subseteq 1..n
      BY FS_Interval
    <3>2. D \subseteq Int
      OBVIOUS
    <3> HIDE DEF D
    <3> QED
      BY <3>1, <3>2, FS_Subset
  <2>2. PICK i \in D : \A j \in D : i <= j
    BY <2>1, LeastNumber
  <2>3. CASE i = 1
    BY <1>4, <2>3 DEF Chained
  <2>4. CASE i # 1
    <3>1. i \in 2..n /\ i - 1 \in 1..n /\ ~(i <= i - 1)
      BY <2>4
    <3>2. flatten[i - 1] = F[i - 1]
      BY <2>2, <3>1
    <3>3. flatten[i] = flatten[i - 1] \o seqs[i]
      BY <1>4, <2>4
    <3> QED
      BY <3>1, <3>2, <3>3 DEF Chained
  <2> QED
    BY <2>3, <2>4
<1>6. n \notin D
  BY <1>5
<1> QED
  BY <1>1, <1>6

\* Pages of any size, asked for one by one, make up the list.
LEMMA PagesJoin ==
  ASSUME NEW list, NEW m, ListOfItems(list, m), Len(list) = m, NEW size \in Int,
         NEW pages, pages = [no \in 1..(m + 1) |-> Page(list, no, size)]
  PROVE  FlattenSeq(pages) = list
<1> DEFINE z == PageSize(size)
           Upto(i) == IF i * z < m THEN i * z ELSE m
           F == [i \in 1..(m + 1) |-> Beginning(list, Upto(i))]
<1>1. m \in Nat /\ list = [i \in 1..m |-> list[i]]
  BY DEF ListOfItems
<1>2. z \in Nat \ {0}
  BY RulesAssumption DEF PageSize
<1> HIDE DEF z
<1>3. ASSUME NEW i \in 1..(m + 1)
      PROVE  /\ i * z \in Nat /\ (i - 1) * z \in Nat /\ i * z = (i - 1) * z + z
             /\ Upto(i) \in 0..m
             /\ pages[i] = SubSeq(list, (i - 1) * z + 1, Upto(i))
  <2>1. i * z \in Nat /\ (i - 1) * z \in Nat /\ i * z = (i - 1) * z + z
    BY <1>1, <1>2
  <2>2. PageNo(i) = i
    BY <1>1, RulesAssumption DEF PageNo
  <2>3. pages[i] = Page(list, i, size)
    OBVIOUS
  <2>4. Upto(i) \in 0..m
    BY <1>1, <2>1
  <2> DEFINE p == (i - 1) * z
             q == i * z
  <2>5. Page(list, i, size) = SubSeq(list, p + 1, IF p + z < Len(list) THEN p + z ELSE Len(list))
    BY <2>2 DEF Page, z
  <2>6. Page(list, i, size) = SubSeq(list, p + 1, IF q < m THEN q ELSE m)
    BY <2>1, <2>5
  <2> QED
    BY <2>1, <2>3, <2>4, <2>6
<1>4. F[1] = pages[1]
  <2> DEFINE b == Upto(1)
  <2>1. 1 \in 1..(m + 1) /\ (1 - 1) * z + 1 = 1
    BY <1>1, <1>2
  <2>2. pages[1] = SubSeq(list, 1, b) /\ b \in 0..m
    BY <1>3, <2>1
  <2>3. F[1] = Beginning(list, b)
    BY <2>1
  <2> HIDE DEF b
  <2>4. SubSeq(list, 1, b) = [i \in 1..(b - 1 + 1) |-> list[i + 1 - 1]]
    BY <2>2, CutOut
  <2>5. [i \in 1..(b - 1 + 1) |-> list[i + 1 - 1]] = [i \in 1..b |-> list[i]]
    BY <1>1, <2>2
  <2> QED
    BY <2>2, <2>3, <2>4, <2>5 DEF Beginning
<1>5. ASSUME NEW i \in 2..(m + 1)
      PROVE  F[i] = F[i - 1] \o pages[i]
  <2> DEFINE a == Upto(i - 1)
             b == Upto(i)
             p == (i - 1) * z
             q == i * z
  <2>1. i \in 1..(m + 1) /\ i - 1 \in 1..(m + 1)
    BY <1>1
  <2>2. /\ p \in Nat /\ q \in Nat /\ q = p + z
        /\ b \in 0..m /\ a \in 0..m
        /\ pages[i] = SubSeq(list, p + 1, b)
    BY <1>3, <2>1
  <2>3. a = (IF p < m THEN p ELSE m) /\ b = (IF q < m THEN q ELSE m)
    OBVIOUS
  <2>4. F[i] = Beginning(list, b) /\ F[i - 1] = Beginning(list, a)
    BY <2>1
  <2> HIDE DEF a, b, p, q, F, Upto
  <2>5. SubSeq(list, p + 1, b) = [j \in 1..(b - (p + 1) + 1) |-> list[j + (p + 1) - 1]]
    <3>1. p + 1 \in Nat \ {0}
      BY <2>2
    <3> QED
      BY <2>2, <3>1, CutOut
  <2>6. [j \in 1..(b - (p + 1) + 1) |-> list[j + (p + 1) - 1]] = [j \in 1..(b - a) |-> list[j + a]]
    <3>1. CASE p < m
      <4>1. a = p
        BY <2>3, <3>1
      <4>2. b - (p + 1) + 1 = b - a /\ \A j \in Int : j + (p + 1) - 1 = j + a
        <5>1. p \in Int /\ a \in Int /\ b \in Int
          BY <1>1, <2>2
        <5>2. b - (p + 1) + 1 = b - a
          BY ONLY <5>1, <4>1
        <5>3. \A j \in Int : j + (p + 1) - 1 = j + a
          BY ONLY <5>1, <4>1
        <5> QED
          BY <5>2, <5>3
      <4>3. \A j \in 1..(b - a) : list[j + (p + 1) - 1] = list[j + a]
        <5>1. a \in Int /\ b \in Int
          BY <1>1, <2>2
        <5> QED
          BY ONLY <4>2, <5>1
      <4> QED
        BY <4>2, <4>3
    <3>2. CASE ~(p < m)
      <4>1. 1..(b - (p + 1) + 1) = {} /\ 1..(b - a) = {}
        BY ONLY <1>1, <1>2, <2>2, <2>3, <3>2
      <4> QED
        BY <4>1
    <3> QED
      BY <3>1, <3>2
  <2>7. a \in Nat /\ b \in Nat /\ a <= b
    BY <1>1, <1>2, <2>2, <2>3
  <2>8. Beginning(list, a) \o [j \in 1..(b - a) |-> list[j + a]] = Beginning(list, b)
    BY <2>7, BeginningGrows
  <2> QED
    BY <2>2, <2>4, <2>5, <2>6, <2>8
<1> DEFINE n == m + 1
<1>6. n \in Nat \ {0} /\ n \in 1..(m + 1)
  BY <1>1
<1>7. F[n] = list
  <2>1. ~(n * z < m)
    BY <1>1, <1>2
  <2>2. F[n] = Beginning(list, m)
    BY <1>6, <2>1
  <2> QED
    BY <1>1, <2>2 DEF Beginning
<1>8. F = [i \in 1..n |-> F[i]]
  OBVIOUS
<1>9. ListOfItems(pages, n)
  BY <1>6 DEF ListOfItems
<1>10. Len(pages) = n
  BY <1>6
<1> HIDE DEF F, n
<1>11. Chained(F, pages, n)
  BY <1>4, <1>5, <1>8 DEF n, Chained
<1>12. FlattenSeq(pages) = F[n]
  BY ONLY <1>6, <1>9, <1>10, <1>11, FlattenIs
<1> QED
  BY <1>7, <1>12

LEMMA ListLen ==
  ASSUME NEW s, NEW m, ListOfItems(s, m)
  PROVE  Len(s) = m
BY DEF ListOfItems

\* Picking does not repeat an item.
LEMMA PickedNoRepeats ==
  ASSUME NEW items, NEW m, ListOfItems(items, m), NoRepeats(items), NEW G
  PROVE  NoRepeats(Picked(items, G))
<1> DEFINE L == Picked(items, G)
<1>1. SUFFICES ASSUME NEW i \in DOMAIN L, NEW j \in DOMAIN L, L[i] = L[j], i # j
               PROVE  FALSE
  BY DEF NoRepeats
<1> DEFINE H == {L[i]}
           W == Where(L, H)
           V == Where(items, G \cap H)
<1>2. /\ ListOfItems(L, Cardinality(Where(items, G)))
      /\ Cardinality(W) = Cardinality(V)
  BY PickedItems
<1>3. i \in W /\ j \in W
  BY <1>1 DEF Where
<1>4. \A p, q \in V : p = q
  BY DEF Where, NoRepeats
<1> HIDE DEF L, V
<1>5. IsFiniteSet(W)
  <2>1. W \subseteq DOMAIN L
    BY DEF Where
  <2>2. IsFiniteSet(DOMAIN L)
    <3> DEFINE k == Cardinality(Where(items, G))
    <3>1. k \in Nat /\ DOMAIN L = 1..k
      BY <1>2 DEF ListOfItems
    <3> HIDE DEF k
    <3> QED
      BY <3>1, FS_Interval
  <2> HIDE DEF W
  <2> QED
    BY <2>1, <2>2, FS_Subset
<1> HIDE DEF W, H
<1>6. V = {} \/ \E p : V = {p}
  <2> SUFFICES ASSUME NEW p \in V
               PROVE  V = {p}
    OBVIOUS
  <2> QED
    BY <1>4
<1>7. Cardinality(V) = 0 \/ Cardinality(V) = 1
  BY <1>6, FS_EmptySet, FS_Singleton
<1>8. W = {} \/ \E p : W = {p}
  BY <1>2, <1>5, <1>7, FS_EmptySet, FS_Singleton
<1> QED
  BY <1>1, <1>3, <1>8

LEMMA PairOrder ==
  ASSUME NEW S, S \subseteq Int \X Int, NEW R, R = {e \in S \X S : Before(e[1], e[2])}
  PROVE  StrictOrder(S, R)
<1>1. \A a, b \in Int : <<a, b>> \in Keys(2)
  BY DEF Keys
<1>2. \A x \in S : x \in Keys(2)
  <2> SUFFICES ASSUME NEW x \in S
               PROVE  x \in Keys(2)
    OBVIOUS
  <2>1. PICK a \in Int, b \in Int : x = <<a, b>>
    OBVIOUS
  <2> QED
    BY <1>1, <2>1
<1>3. \A x, y \in S : <<x, y>> \in R <=> Before(x, y)
  OBVIOUS
<1>4. /\ \A a \in Keys(2) : ~Before(a, a)
      /\ \A a, b \in Keys(2) : a # b => Before(a, b) \/ Before(b, a)
      /\ \A a, b, c \in Keys(2) : Before(a, b) /\ Before(b, c) => Before(a, c)
  BY BeforeOrder
<1> QED
  BY ONLY <1>2, <1>3, <1>4 DEF StrictOrder

\* The rows begin with one for each item of a, by f; those of the rows that are
\* in G are the ones of the items in C.
RowsFrom(rows, a, k, n, f, G, C) ==
  /\ ListOfItems(a, k) /\ ListOfItems(rows, k + n) /\ n \in Nat
  /\ \A i \in 1..k : rows[i] = f[a[i]] /\ (rows[i] \in G <=> a[i] \in C)
  /\ \A i \in 1..n : rows[k + i] \notin G

LEMMA PickedRows ==
  ASSUME NEW rows, NEW a, NEW k, NEW n, NEW f, NEW G, NEW C, RowsFrom(rows, a, k, n, f, G, C)
  PROVE  Picked(rows, G) = [i \in DOMAIN Picked(a, C) |-> f[Picked(a, C)[i]]]
<1> DEFINE J == Where(a, C)
           place == InOrder(J, Rising(J))
           c == Cardinality(J)
<1>1. k \in Nat /\ n \in Nat /\ DOMAIN a = 1..k /\ DOMAIN rows = 1..(k + n)
  BY DEF RowsFrom, ListOfItems
<1>2. Where(rows, G) = J
  <2>1. ASSUME NEW i \in 1..(k + n), rows[i] \in G
        PROVE  i \in 1..k
    <3>1. CASE ~(i \in 1..k)
      <4>1. i - k \in 1..n /\ k + (i - k) = i
        BY <1>1, <3>1
      <4>2. rows[k + (i - k)] \notin G
        BY <4>1 DEF RowsFrom
      <4> QED
        BY <2>1, <4>1, <4>2
    <3> QED
      BY <3>1
  <2>2. \A i \in 1..k : i \in 1..(k + n) /\ (rows[i] \in G <=> a[i] \in C)
    BY <1>1 DEF RowsFrom
  <2> QED
    BY <1>1, <2>1, <2>2 DEF Where
<1>3. J \subseteq 1..k /\ ListOfItems(a, k)
  BY <1>1 DEF Where, RowsFrom
<1>4. Picked(rows, G) = [j \in 1..c |-> rows[place[j]]]
  BY <1>2 DEF Picked, ItemsAt, Arranged
<1>5. Picked(a, C) = [j \in 1..c |-> a[place[j]]]
  BY DEF Picked, ItemsAt, Arranged
<1> HIDE DEF J
<1>6. IsFiniteSet(J) /\ StrictOrder(J, Rising(J))
  BY <1>3, Places
<1>7. \A j \in 1..c : place[j] \in J
  <2>1. Lists(place, J, Rising(J))
    BY <1>6, InOrderLists
  <2> HIDE DEF place
  <2> QED
    BY <2>1 DEF Lists
<1>8. \A j \in 1..c : rows[place[j]] = f[a[place[j]]]
  BY <1>3, <1>7 DEF RowsFrom
<1> HIDE DEF place, c
<1> QED
  BY <1>4, <1>5, <1>8

\* Sorting the rows of some items alone gives their part of the sorted list.
LEMMA SortedPart ==
  ASSUME NEW rows, NEW a, NEW k, NEW n, NEW f, NEW G, NEW C, RowsFrom(rows, a, k, n, f, G, C),
         NEW N \in Nat, NEW keyOf, \A i \in 1..(k + n) : keyOf[rows[i]] \in Keys(N),
         NEW part, part = [i \in DOMAIN Picked(a, C) |-> f[Picked(a, C)[i]]]
  PROVE  /\ Picked(Sorted(rows, keyOf), G) = Sorted(part, keyOf)
         /\ ToSet(part) \subseteq ToSet(rows)
<1>1. Picked(rows, G) = part
  BY PickedRows
<1> DEFINE m == k + n
<1>2. ListOfItems(rows, m) /\ \A i \in 1..m : keyOf[rows[i]] \in Keys(N)
  BY DEF RowsFrom
<1> HIDE DEF m
<1>3. Picked(Sorted(rows, keyOf), G) = Sorted(Picked(rows, G), keyOf)
  BY ONLY <1>2, PickedSorted, N \in Nat
<1>4. ToSet(Picked(rows, G)) = ToSet(rows) \cap G
  BY ONLY <1>2, PickedItems
<1> QED
  BY <1>1, <1>3, <1>4

-----------------------------------------------------------------------------
(* Counting the items of a list by their status. *)

Bad(items) == {i \in DOMAIN items : items[i].status \in Abnormal}
Good(items) == {i \in DOMAIN items : items[i].status = "normal"}
AllItems(items) == FilterErrorItems(items, FALSE)
BadItems(items) == FilterErrorItems(items, TRUE)

LEMMA ErrorItems ==
  ASSUME NEW items, NEW onlyError \in BOOLEAN
  PROVE  FilterErrorItems(items, onlyError) = IF onlyError THEN BadItems(items) ELSE AllItems(items)
BY DEF FilterErrorItems, Filtered, BadItems, AllItems

LEMMA BadFinite ==
  ASSUME NEW items, NEW m, ListOfItems(items, m)
  PROVE  IsFiniteSet(Bad(items)) /\ Cardinality(Bad(items)) \in Nat
<1>1. Bad(items) \subseteq 1..m
  BY DEF Bad, ListOfItems
<1>2. IsFiniteSet(Bad(items))
  BY <1>1, Places
<1> QED
  BY <1>2, FS_CardinalityType

\* "Only errors" keeps the abnormal items, and its absence all of them.
LEMMA AllCounts ==
  ASSUME NEW items, NEW m, ListOfItems(items, m)
  PROVE  /\ Len(AllItems(items)) = m
         /\ Cardinality(Bad(AllItems(items))) = Cardinality(Bad(items))
         /\ Cardinality(Good(AllItems(items))) = Cardinality(Good(items))
<1> DEFINE E == ToSet(items)
           L == Picked(items, E)
           B == {x \in E : x.status \in Abnormal}
           N == {x \in E : x.status = "normal"}
<1>1. \A i \in DOMAIN items : items[i] \in E
  BY DEF ToSet
<1>2. {i \in DOMAIN items : FALSE => items[i].status \in Abnormal} = Where(items, E)
  BY <1>1 DEF Where
<1>3. AllItems(items) = L
  BY <1>2 DEF AllItems, FilterErrorItems, Filtered, Picked
<1>4. /\ Where(items, E) = 1..m
      /\ Where(items, E \cap B) = Bad(items)
      /\ Where(items, E \cap N) = Good(items)
  BY <1>1 DEF Where, Bad, Good, ListOfItems
<1> HIDE DEF E, B, N
<1>5. /\ Len(Picked(items, E)) = Cardinality(Where(items, E))
      /\ ToSet(Picked(items, E)) = ToSet(items) \cap E
      /\ \A H : Cardinality(Where(Picked(items, E), H)) = Cardinality(Where(items, E \cap H))
  BY PickedItems
<1>6. ToSet(L) = E
  BY <1>5 DEF E
<1> HIDE DEF L
<1>7. \A i \in DOMAIN L : L[i] \in E
  BY <1>6 DEF ToSet
<1>8. Where(L, B) = Bad(L) /\ Where(L, N) = Good(L)
  BY <1>7 DEF Where, Bad, Good, B, N
<1>9. Cardinality(1..m) = m
  BY {}  \subseteq 1..m, Places
<1> QED
  BY <1>3, <1>4, <1>5, <1>8, <1>9 DEF L

LEMMA BadCounts ==
  ASSUME NEW items, NEW m, ListOfItems(items, m)
  PROVE  /\ Len(BadItems(items)) = Cardinality(Bad(items))
         /\ Cardinality(Bad(BadItems(items))) = Cardinality(Bad(items))
         /\ Cardinality(Good(BadItems(items))) = 0
<1> DEFINE E == ToSet(items)
           B == {x \in E : x.status \in Abnormal}
           N == {x \in E : x.status = "normal"}
           L == Picked(items, B)
<1>1. \A i \in DOMAIN items : items[i] \in E
  BY DEF ToSet
<1>2. {i \in DOMAIN items : TRUE => items[i].status \in Abnormal} = Where(items, B)
  BY <1>1 DEF Where
<1>3. BadItems(items) = L
  BY <1>2 DEF BadItems, FilterErrorItems, Filtered, Picked
<1>4. B \cap N = {} /\ B \cap B = B /\ E \cap B = B
  BY DEF Abnormal
<1>5. Where(items, B) = Bad(items) /\ Where(items, {}) = {}
  BY <1>1 DEF Where, Bad
<1> HIDE DEF E, B, N
<1>6. /\ Len(Picked(items, B)) = Cardinality(Where(items, B))
      /\ ToSet(Picked(items, B)) = ToSet(items) \cap B
      /\ \A H : Cardinality(Where(Picked(items, B), H)) = Cardinality(Where(items, B \cap H))
  BY PickedItems
<1>7. ToSet(L) = B
  BY <1>4, <1>6 DEF E
<1> HIDE DEF L
<1>8. \A i \in DOMAIN L : L[i] \in B
  BY <1>7 DEF ToSet
<1>9. Where(L, B) = Bad(L) /\ Where(L, N) = Good(L)
  BY <1>8 DEF Where, Bad, Good, B, N
<1>10. Cardinality(Where(L, B)) = Cardinality(Where(items, B))
  BY <1>4, <1>6 DEF L
<1>11. Cardinality(Where(L, N)) = Cardinality(Where(items, {}))
  BY <1>4, <1>6 DEF L
<1> QED
  BY <1>3, <1>5, <1>6, <1>9, <1>10, <1>11, FS_EmptySet DEF L

\* Whatever is not abnormal is normal.
LEMMA GoodCount ==
  ASSUME NEW items, NEW m, ListOfItems(items, m),
         \A i \in 1..m : items[i].status \in Abnormal \cup {"normal"}
  PROVE  Cardinality(Good(items)) = m - Cardinality(Bad(items))
<1> DEFINE I == 1..m
           B == Bad(items)
<1>1. B \subseteq I /\ Good(items) = I \ B /\ I \cap B = B
  BY DEF Bad, Good, ListOfItems, Abnormal
<1>2. IsFiniteSet(I) /\ Cardinality(I) = m
  BY {} \subseteq 1..m, Places, FS_Interval DEF ListOfItems
<1>3. IsFiniteSet(B)
  BY BadFinite
<1> HIDE DEF I, B
<1>4. Cardinality(I \ B) = Cardinality(I) - Cardinality(I \cap B)
  BY <1>2, <1>3, FS_Difference
<1> QED
  BY <1>1, <1>2, <1>4 DEF B

\* Sorting and picking count the alarms of the rows they keep.
Alarmed(rows) == {i \in DOMAIN rows : rows[i].alarm = 1}

LEMMA AlarmsWhere ==
  ASSUME NEW L, NEW E, ToSet(L) \subseteq E, NEW A, A = {r \in E : r.alarm = 1}
  PROVE  Where(L, A) = Alarmed(L)
BY DEF Where, Alarmed, ToSet

LEMMA SortedAlarms ==
  ASSUME NEW rows, NEW m, ListOfItems(rows, m), NEW N \in Nat, NEW keyOf,
         \A i \in 1..m : keyOf[rows[i]] \in Keys(N), NEW L, L = Sorted(rows, keyOf)
  PROVE  /\ ListOfItems(L, m) /\ Len(L) = m /\ ToSet(L) = ToSet(rows)
         /\ Cardinality(Alarmed(L)) = Cardinality(Alarmed(rows))
<1> DEFINE E == ToSet(rows)
           A == {r \in E : r.alarm = 1}
<1>1. /\ ListOfItems(L, m) /\ Len(L) = m /\ ToSet(L) = E
      /\ \A G : Cardinality(Where(L, G)) = Cardinality(Where(rows, G))
  BY SortedItems
<1>2. A = {r \in E : r.alarm = 1} /\ ToSet(rows) \subseteq E /\ ToSet(L) \subseteq E
  BY <1>1
<1> HIDE DEF E, A
<1>3. Where(L, A) = Alarmed(L) /\ Where(rows, A) = Alarmed(rows)
  BY <1>2, AlarmsWhere
<1> QED
  BY <1>1, <1>3 DEF E

\* L has as many items, and as many alarms, as rows have in G.
CountsThose(L, rows, G) ==
  /\ Len(L) = Cardinality(Where(rows, G))
  /\ Cardinality(Alarmed(L)) = Cardinality(Alarmed(rows) \cap Where(rows, G))

LEMMA PickedAlarms ==
  ASSUME NEW rows, NEW m, ListOfItems(rows, m), NEW N \in Nat, NEW keyOf,
         \A i \in 1..m : keyOf[rows[i]] \in Keys(N), NEW G,
         NEW L, L = Picked(Sorted(rows, keyOf), G)
  PROVE  CountsThose(L, rows, G)
<1> DEFINE E == ToSet(rows)
           A == {r \in E : r.alarm = 1}
           all == Sorted(rows, keyOf)
<1>1. /\ ListOfItems(all, m) /\ ToSet(all) = E
      /\ \A H : Cardinality(Where(all, H)) = Cardinality(Where(rows, H))
  BY SortedItems
<1> HIDE DEF all
<1>2. /\ Len(Picked(all, G)) = Cardinality(Where(all, G))
      /\ ToSet(Picked(all, G)) = ToSet(all) \cap G
      /\ \A H : Cardinality(Where(Picked(all, G), H)) = Cardinality(Where(all, G \cap H))
  BY <1>1, PickedItems
<1>3. L = Picked(all, G)
  BY DEF all
<1>4. A = {r \in E : r.alarm = 1} /\ ToSet(rows) \subseteq E /\ ToSet(L) \subseteq E
  BY <1>1, <1>2, <1>3
<1>5. Where(rows, G \cap A) = Alarmed(rows) \cap Where(rows, G)
  BY DEF Where, Alarmed, ToSet
<1> HIDE DEF E, A
<1>6. Where(L, A) = Alarmed(L)
  BY <1>4, AlarmsWhere
<1>7. Cardinality(Where(L, A)) = Cardinality(Where(all, G \cap A))
  BY <1>2, <1>3
<1>8. Cardinality(Where(all, G \cap A)) = Cardinality(Where(rows, G \cap A))
  BY <1>1
<1>9. Cardinality(Where(all, G)) = Cardinality(Where(rows, G))
  BY <1>1
<1> QED
  BY <1>2, <1>3, <1>5, <1>6, <1>7, <1>8, <1>9 DEF CountsThose

\* What either setting of "only errors" counts.
LEMMA ItemCounts ==
  ASSUME NEW items, NEW m, ListOfItems(items, m), NEW onlyError \in BOOLEAN,
         NEW L, L = FilterErrorItems(items, onlyError)
  PROVE  /\ onlyError => Len(L) = Cardinality(Bad(items)) /\ Cardinality(Good(L)) = 0
         /\ ~onlyError => Len(L) = m /\ Cardinality(Good(L)) = Cardinality(Good(items))
         /\ Cardinality(Bad(L)) = Cardinality(Bad(items))
<1>1. CASE onlyError
  <2>1. L = BadItems(items)
    BY <1>1, ErrorItems
  <2>2. /\ Len(BadItems(items)) = Cardinality(Bad(items))
        /\ Cardinality(Bad(BadItems(items))) = Cardinality(Bad(items))
        /\ Cardinality(Good(BadItems(items))) = 0
    BY BadCounts
  <2> QED
    BY <1>1, <2>1, <2>2
<1>2. CASE ~onlyError
  <2>1. L = AllItems(items)
    BY <1>2, ErrorItems
  <2>2. /\ Len(AllItems(items)) = m
        /\ Cardinality(Bad(AllItems(items))) = Cardinality(Bad(items))
        /\ Cardinality(Good(AllItems(items))) = Cardinality(Good(items))
    BY AllCounts
  <2> QED
    BY <1>2, <2>1, <2>2
<1> QED
  BY <1>1, <1>2

-----------------------------------------------------------------------------
(* Lists without repetition. *)

\* A list has as many different items as places exactly if none is repeated.
LEMMA DifferentItems ==
  ASSUME NEW L, NEW m, ListOfItems(L, m)
  PROVE  NoRepeats(L) <=> Cardinality(ToSet(L)) = m
<1> DEFINE T == ToSet(L)
<1>1. m \in Nat /\ DOMAIN L = 1..m /\ L = [i \in 1..m |-> L[i]]
  BY DEF ListOfItems
<1>2. IsFiniteSet(1..m) /\ Cardinality(1..m) = m
  BY <1>1, FS_Interval
<1>3. L \in Surjection(1..m, T)
  BY <1>1 DEF Surjection, ToSet
<1>4. L \in Injection(1..m, T) <=> NoRepeats(L)
  <2>1. L \in [1..m -> T]
    BY <1>3 DEF Surjection
  <2> HIDE DEF T
  <2> QED
    BY <1>1, <2>1 DEF Injection, IsInjective, NoRepeats
<1> HIDE DEF T
<1>5. Cardinality(T) = Cardinality(1..m) <=> L \in Injection(1..m, T)
  BY <1>2, <1>3, FS_Surjection
<1> QED
  BY <1>2, <1>4, <1>5 DEF T

\* Sorting does not repeat an item.
LEMMA SortedNoRepeats ==
  ASSUME NEW items, NEW m, ListOfItems(items, m), NEW n \in Nat, NEW keyOf,
         \A i \in 1..m : keyOf[items[i]] \in Keys(n), NoRepeats(items)
  PROVE  NoRepeats(Sorted(items, keyOf))
<1>1. ListOfItems(Sorted(items, keyOf), m) /\ ToSet(Sorted(items, keyOf)) = ToSet(items)
  BY SortedItems
<1> QED
  BY <1>1, DifferentItems

\* Nor does listing a set.
LEMMA ListedNoRepeats ==
  ASSUME NEW f, NEW S, NEW R, Lists(f, S, R), StrictOrder(S, R), IsFiniteSet(S)
  PROVE  NoRepeats(f)
<1>1. Cardinality(S) \in Nat
  BY FS_CardinalityType
<1>2. ASSUME NEW i \in 1..Cardinality(S), NEW j \in 1..Cardinality(S), f[i] = f[j]
      PROVE  i = j
  <2>1. ~(i < j) /\ ~(j < i)
    BY <1>2 DEF Lists, StrictOrder
  <2> QED
    BY <1>1, <2>1
<1> QED
  BY <1>2 DEF Lists, NoRepeats

=============================================================================
