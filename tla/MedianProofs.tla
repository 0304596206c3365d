---------------------------- MODULE MedianProofs ----------------------------
(***************************************************************************)
(* Proofs about Median for any finite set of sources and any values: the   *)
(* sort always succeeds, what median returns is the lower middle value by  *)
(* rank, that rank determines it, and no minority of the sources can pull  *)
(* it out of the range of the others.                                      *)
(*                                                                         *)
(* Arguments by induction on a finite set are put as a minimal             *)
(* counterexample under strict inclusion (MinimalIn).                      *)
(***************************************************************************)
EXTENDS Median, FiniteSetTheorems, FunctionTheorems, TLAPS

(***************************************************************************)
(* Among the subsets of a finite set that fail a condition there is one    *)
(* none of whose strict subsets fails it.                                  *)
(***************************************************************************)
LEMMA MinimalIn ==
    ASSUME NEW S, IsFiniteSet(S), NEW Bad \in SUBSET (SUBSET S), Bad # {}
    PROVE  \E T \in Bad : \A U \in Bad : U \subseteq T => U = T
<1>1. Bad \subseteq FiniteSubsetsOf(S)
  BY FS_FiniteSubsetsOfFinite
<1>2. IsWellFoundedOn(StrictSubsetOrdering(S), FiniteSubsetsOf(S))
  BY FS_StrictSubsetOrderingWellFounded
<1>3. PICK T \in Bad : \A U \in Bad : ~(<<U, T>> \in StrictSubsetOrdering(S))
  BY <1>1, <1>2, WFMin
<1>4. ASSUME NEW U \in Bad, U \subseteq T
      PROVE  U = T
  BY <1>3, <1>4 DEF StrictSubsetOrdering
<1> QED
  BY <1>4

(***************************************************************************)
(* One of finitely many sources quotes the greatest value.                 *)
(***************************************************************************)
LEMMA GreatestQuote ==
    ASSUME NEW S, IsFiniteSet(S), NEW q \in [S -> Int], NEW D \in SUBSET S, D # {}
    PROVE  \E m \in D : \A s \in D : q[s] <= q[m]
<1> DEFINE HasMax(T) == \E m \in T : \A s \in T : q[s] <= q[m]
           Bad == {T \in SUBSET S : T # {} /\ ~HasMax(T)}
<1>1. SUFFICES ASSUME Bad # {} PROVE FALSE
  OBVIOUS
<1>2. PICK T \in Bad : \A U \in Bad : U \subseteq T => U = T
  <2>1. Bad \in SUBSET (SUBSET S)
    OBVIOUS
  <2> HIDE DEF Bad
  <2> QED
    BY <1>1, <2>1, MinimalIn
<1>3. PICK x \in T : TRUE
  OBVIOUS
<1>4. CASE T = {x}
  <2>1. HasMax(T)
    BY <1>4
  <2> QED
    BY <2>1
<1>5. CASE T # {x}
  <2>1. T \ {x} # {} /\ T \ {x} \subseteq S /\ T \ {x} # T
    BY <1>3, <1>5
  <2>2. T \ {x} \notin Bad
    BY <1>2, <2>1
  <2>3. PICK m \in T \ {x} : \A s \in T \ {x} : q[s] <= q[m]
    BY <2>1, <2>2
  <2>4. m \in S /\ x \in S /\ \A s \in T : q[s] \in Int
    BY <1>3, <2>3
  <2>5. HasMax(T)
    <3>1. CASE q[x] <= q[m]
      BY <2>3, <2>4, <3>1
    <3>2. CASE q[m] <= q[x]
      <4>1. \A s \in T : q[s] <= q[x]
        BY <2>3, <2>4, <3>2
      <4> QED
        BY <4>1, <1>3
    <3> QED
      BY <2>4, <3>1, <3>2
  <2> QED
    BY <2>5
<1> QED
  BY <1>4, <1>5

(***************************************************************************)
(* An ascending order of some of the sources, followed by a source that    *)
(* quotes no less than any of them, is ascending.                          *)
(***************************************************************************)
LEMMA AppendGreatest ==
    ASSUME NEW S, IsFiniteSet(S), NEW q \in [S -> Int],
           NEW T \in SUBSET S, NEW m \in T, \A s \in T : q[s] <= q[m],
           NEW o \in Orders(T \ {m}), Ascending(q, o)
    PROVE  \E order \in Orders(T) : Ascending(q, order)
<1> DEFINE n == Cardinality(T)
           order == [i \in 1..n |-> IF i = n THEN m ELSE o[i]]
<1>1. IsFiniteSet(T) /\ n \in Nat
  BY FS_Subset, FS_CardinalityType
<1>2. Cardinality(T \ {m}) = n - 1 /\ n - 1 \in Nat
  <2>1. Cardinality(T \ {m}) = n - 1
    BY <1>1, FS_RemoveElement
  <2>2. Cardinality(T \ {m}) \in Nat
    BY <1>1, FS_RemoveElement, FS_CardinalityType
  <2> QED
    BY <2>1, <2>2
<1>3. /\ o \in [1..(n-1) -> T \ {m}]
      /\ \A i, j \in 1..(n-1) : o[i] = o[j] => i = j
      /\ \A t \in T \ {m} : \E i \in 1..(n-1) : o[i] = t
  <2>1. o \in Bijection(1..(n-1), T \ {m})
    BY <1>2 DEF Orders
  <2> HIDE DEF n, order
  <2> QED
    BY <2>1 DEF Bijection, Injection, Surjection, IsInjective
<1> HIDE DEF n
<1>4. order \in [1..n -> T]
  BY <1>1, <1>3
<1>5. \A i, j \in 1..n : order[i] = order[j] => i = j
  <2> TAKE i, j \in 1..n
  <2>1. \A k \in 1..n : k # n => k \in 1..(n-1) /\ order[k] = o[k] /\ o[k] # m
    BY <1>1, <1>3
  <2>2. order[n] = m
    BY <1>1, <1>2
  <2> QED
    BY <1>1, <1>3, <2>1, <2>2
<1>6. \A t \in T : \E i \in 1..n : order[i] = t
  <2> TAKE t \in T
  <2>1. CASE t = m
    <3>1. n \in 1..n /\ order[n] = m
      BY <1>1, <1>2
    <3> QED
      BY <2>1, <3>1
  <2>2. CASE t # m
    <3>1. PICK i \in 1..(n-1) : o[i] = t
      BY <1>3, <2>2
    <3>2. i \in 1..n /\ order[i] = t
      BY <1>1, <3>1
    <3> QED
      BY <3>2
  <2> QED
    BY <2>1, <2>2
<1>7. order \in Orders(T)
  BY <1>4, <1>5, <1>6, Fun_IsBij DEF Orders, n
<1>8. Ascending(q, order)
  <2>1. SUFFICES ASSUME NEW i \in 1..n, NEW j \in 1..n, i < j
                 PROVE  q[order[i]] <= q[order[j]]
    BY <1>4 DEF Ascending
  <2>2. i \in 1..(n-1) /\ order[i] = o[i] /\ o[i] \in T
    BY <1>1, <1>3, <2>1
  <2>3. CASE j = n
    BY <2>2, <2>3
  <2>4. CASE j # n
    <3>1. j \in 1..(n-1) /\ order[j] = o[j]
      BY <1>1, <2>4
    <3> QED
      BY <1>3, <2>1, <2>2, <3>1 DEF Ascending
  <2> QED
    BY <2>3, <2>4
<1> QED
  BY <1>7, <1>8

(***************************************************************************)
(* sort.Slice has something to return: the quotes of finitely many sources *)
(* can be put in ascending order.                                          *)
(***************************************************************************)
THEOREM SortedExists ==
    ASSUME NEW S, IsFiniteSet(S), NEW q \in [S -> Int]
    PROVE  Sorted(q) \in Orders(S) /\ Ascending(q, Sorted(q))
<1> DEFINE Sortable(T) == \E order \in Orders(T) : Ascending(q, order)
           Bad == {T \in SUBSET S : ~Sortable(T)}
<1>1. Bad = {}
  <2>1. SUFFICES ASSUME Bad # {} PROVE FALSE
    OBVIOUS
  <2>2. PICK T \in Bad : \A U \in Bad : U \subseteq T => U = T
    <3>1. Bad \in SUBSET (SUBSET S)
      OBVIOUS
    <3> HIDE DEF Bad
    <3> QED
      BY <2>1, <3>1, MinimalIn
  <2>3. CASE T = {}
    <3>1. Cardinality(T) = 0 /\ ExistsBijection(1..0, T)
      BY <2>3, FS_EmptySet, FS_CardinalityType
    <3>2. PICK order : order \in Bijection(1..0, T)
      BY <3>1 DEF ExistsBijection
    <3>3. DOMAIN order = {}
      BY <3>2, Fun_BijectionProperties
    <3>4. Sortable(T)
      BY <3>1, <3>2, <3>3 DEF Orders, Ascending
    <3> QED
      BY <3>4
  <2>4. CASE T # {}
    <3>1. PICK m \in T : \A s \in T : q[s] <= q[m]
      BY <2>4, GreatestQuote
    <3>2. T \ {m} \notin Bad
      BY <2>2, <3>1
    <3>3. Sortable(T \ {m})
      BY <3>2
    <3>4. Sortable(T)
      BY <3>1, <3>3, AppendGreatest
    <3> QED
      BY <3>4
  <2> QED
    BY <2>3, <2>4
<1>2. Sortable(S)
  BY <1>1
<1>3. DOMAIN q = S
  OBVIOUS
<1> QED
  BY <1>2, <1>3 DEF Sorted

-----------------------------------------------------------------------------
(***************************************************************************)
(* The first k sources of an order are k sources.                          *)
(***************************************************************************)
First(o, k) == {o[i] : i \in 1..k}

LEMMA FirstOfOrder ==
    ASSUME NEW S, NEW n \in Nat, NEW o \in Bijection(1..n, S), NEW k \in 0..n
    PROVE  IsFiniteSet(First(o, k)) /\ Cardinality(First(o, k)) = k
<1> DEFINE F == {o[i] : i \in 1..k}
           p == [i \in 1..k |-> o[i]]
<1>1. o \in [1..n -> S] /\ \A i, j \in 1..n : o[i] = o[j] => i = j
  BY DEF Bijection, Injection, IsInjective
<1>2. p \in [1..k -> F] /\ \A i, j \in 1..k : p[i] = p[j] => i = j
  BY <1>1
<1>3. \A t \in F : \E i \in 1..k : p[i] = t
  OBVIOUS
<1>4. p \in Bijection(1..k, F)
  BY <1>2, <1>3, Fun_IsBij
<1>5. IsFiniteSet(1..k) /\ Cardinality(1..k) = k
  BY FS_Interval
<1>6. ExistsBijection(1..k, F)
  BY <1>4 DEF ExistsBijection
<1> HIDE DEF F, p
<1>7. IsFiniteSet(F) /\ Cardinality(F) = k
  BY <1>5, <1>6, FS_Bijection
<1> QED
  BY <1>7 DEF F, First

(***************************************************************************)
(* The k-th value of an ascending order is the k-th smallest by counting.  *)
(***************************************************************************)
LEMMA SortedIsRanked ==
    ASSUME NEW S, IsFiniteSet(S), NEW q \in [S -> Int],
           NEW o \in Orders(S), Ascending(q, o),
           NEW k \in 1..Cardinality(S)
    PROVE  IsRanked(q, k, q[o[k]])
<1> DEFINE n == Cardinality(S)
           v == q[o[k]]
<1>1. n \in Nat
  BY FS_CardinalityType
<1>2. o \in Bijection(1..n, S)
  BY DEF Orders
<1>3. /\ o \in [1..n -> S]
      /\ \A t \in S : \E i \in 1..n : o[i] = t
  BY <1>2 DEF Bijection, Injection, Surjection
<1>4. k \in 1..n /\ k - 1 \in 0..n /\ k \in 0..n
  BY <1>1
<1> HIDE DEF n
<1>5. \A i, j \in 1..n : i <= j => q[o[i]] <= q[o[j]]
  BY <1>1, <1>3 DEF Ascending
<1>6. IsFiniteSet(First(o, k-1)) /\ Cardinality(First(o, k-1)) = k - 1
  BY <1>1, <1>2, <1>4, FirstOfOrder
<1>7. IsFiniteSet(First(o, k)) /\ Cardinality(First(o, k)) = k
  BY <1>1, <1>2, <1>4, FirstOfOrder
<1>8. Below(q, v) \subseteq First(o, k-1)
  <2>1. SUFFICES ASSUME NEW s \in S, q[s] < v
                 PROVE  s \in First(o, k-1)
    BY DEF Below
  <2>2. PICK i \in 1..n : o[i] = s
    BY <1>3
  <2>3. q[o[i]] \in Int /\ v \in Int
    BY <1>3, <1>4
  <2>4. ~(k <= i)
    BY <1>4, <1>5, <2>1, <2>2, <2>3
  <2>5. i \in 1..(k-1)
    BY <1>1, <1>4, <2>4
  <2> QED
    BY <2>2, <2>5 DEF First
<1>9. First(o, k) \subseteq AtMost(q, v)
  <2>1. SUFFICES ASSUME NEW i \in 1..k
                 PROVE  o[i] \in AtMost(q, v)
    BY DEF First
  <2>2. i \in 1..n /\ i <= k
    BY <1>1, <1>4
  <2>3. o[i] \in S /\ q[o[i]] <= v
    BY <1>3, <1>4, <1>5, <2>2
  <2> QED
    BY <2>3 DEF AtMost
<1>10. Cardinality(Below(q, v)) < k
  <2>1. Cardinality(Below(q, v)) <= k - 1
    BY <1>6, <1>8, FS_Subset
  <2>2. Cardinality(Below(q, v)) \in Nat
    BY <1>6, <1>8, FS_Subset, FS_CardinalityType
  <2> QED
    BY <1>1, <1>4, <2>1, <2>2
<1>11. k <= Cardinality(AtMost(q, v))
  <2>1. AtMost(q, v) \subseteq S
    BY DEF AtMost
  <2>2. IsFiniteSet(AtMost(q, v))
    BY <2>1, FS_Subset
  <2> QED
    BY <1>7, <1>9, <2>2, FS_Subset
<1>12. \E s \in DOMAIN q : q[s] = v
  BY <1>3, <1>4
<1> QED
  BY <1>10, <1>11, <1>12 DEF IsRanked

(***************************************************************************)
(* Go's index of the median, len/2 or len/2 - 1 from 0, is the lower       *)
(* middle rank counted from 1.                                             *)
(***************************************************************************)
LEMMA MedianIndexIsLowerMiddle ==
    ASSUME NEW n \in Nat \ {0}
    PROVE  /\ MedianIndex(n) = LowerMiddle(n)
           /\ LowerMiddle(n) \in 1..n
BY DEF MedianIndex, LowerMiddle

(***************************************************************************)
(* median returns the lower middle value, whatever the sources quote and   *)
(* however the sort orders equal values (median.go:12-34).                 *)
(***************************************************************************)
THEOREM MedianIsLowerMiddle ==
    ASSUME NEW S, IsFiniteSet(S), S # {}, NEW q \in [S -> Int]
    PROVE  IsRanked(q, LowerMiddle(Cardinality(S)), median(q))
<1> DEFINE n == Cardinality(S)
<1>1. n \in Nat \ {0}
  BY FS_CardinalityType, FS_EmptySet
<1>2. DOMAIN q = S
  OBVIOUS
<1>3. median(q) = q[Sorted(q)[LowerMiddle(n)]]
  BY <1>1, <1>2, MedianIndexIsLowerMiddle DEF median
<1>4. LowerMiddle(n) \in 1..n
  BY <1>1, MedianIndexIsLowerMiddle
<1>5. Sorted(q) \in Orders(S) /\ Ascending(q, Sorted(q))
  BY SortedExists
<1> QED
  BY <1>3, <1>4, <1>5, SortedIsRanked

(***************************************************************************)
(* A rank determines its value: whatever way the middle is found, it is    *)
(* the same price.                                                         *)
(***************************************************************************)
THEOREM RankedIsUnique ==
    ASSUME NEW S, IsFiniteSet(S), NEW q \in [S -> Int], NEW k \in Nat,
           NEW v \in Int, NEW w \in Int, IsRanked(q, k, v), IsRanked(q, k, w)
    PROVE  v = w
<1>1. ASSUME NEW a \in Int, NEW b \in Int, IsRanked(q, k, a), IsRanked(q, k, b),
             a < b
      PROVE  FALSE
  <2>1. AtMost(q, a) \subseteq Below(q, b) /\ Below(q, b) \subseteq S
    BY <1>1 DEF AtMost, Below
  <2>2. IsFiniteSet(Below(q, b)) /\ IsFiniteSet(AtMost(q, a))
    BY <2>1, FS_Subset
  <2>3. Cardinality(AtMost(q, a)) <= Cardinality(Below(q, b))
    BY <2>1, <2>2, FS_Subset
  <2>4. Cardinality(AtMost(q, a)) \in Nat /\ Cardinality(Below(q, b)) \in Nat
    BY <2>2, FS_CardinalityType
  <2> QED
    BY <1>1, <2>3, <2>4 DEF IsRanked
<1>2. v < w \/ w < v \/ v = w
  OBVIOUS
<1> QED
  BY <1>1, <1>2

(***************************************************************************)
(* Robustness of the aggregate (README.md:21, "resistant to                *)
(* single-exchange outliers or manipulation"): sources that are less than  *)
(* half of those that answered cannot move the median out of the range of  *)
(* the others.                                                             *)
(***************************************************************************)
THEOREM MedianResistsMinority ==
    ASSUME NEW S, IsFiniteSet(S), S # {}, NEW q \in [S -> Int]
    PROVE  ResistsMinority(q, median(q))
<1> DEFINE n == Cardinality(S)
           k == LowerMiddle(n)
           v == median(q)
<1>1. SUFFICES ASSUME NEW O \in SUBSET S, 2 * Cardinality(O) < n
               PROVE  WithinQuotes(q, S \ O, v)
  BY DEF ResistsMinority
<1>2. IsRanked(q, k, v)
  BY MedianIsLowerMiddle
<1>3. n \in Nat \ {0} /\ k \in 1..n
  BY FS_CardinalityType, FS_EmptySet, MedianIndexIsLowerMiddle
<1>4. IsFiniteSet(O) /\ Cardinality(O) \in Nat
  BY FS_Subset, FS_CardinalityType
<1>5. Cardinality(O) < k /\ Cardinality(O) + k <= n
  <2> HIDE DEF n
  <2> QED
    BY <1>1, <1>3, <1>4 DEF LowerMiddle
<1>6. v \in Int
  BY <1>2 DEF IsRanked
<1> HIDE DEF k, v
<1>7. AtMost(q, v) \subseteq S /\ Below(q, v) \subseteq S
  BY DEF AtMost, Below
<1>8. /\ IsFiniteSet(AtMost(q, v)) /\ Cardinality(AtMost(q, v)) \in Nat
      /\ IsFiniteSet(Below(q, v)) /\ Cardinality(Below(q, v)) \in Nat
  BY <1>7, FS_Subset, FS_CardinalityType
<1>9. \E s \in S \ O : q[s] <= v
  <2>1. SUFFICES ASSUME AtMost(q, v) \subseteq O PROVE FALSE
    BY <1>7 DEF AtMost
  <2>2. Cardinality(AtMost(q, v)) <= Cardinality(O)
    BY <1>4, <2>1, FS_Subset
  <2> QED
    BY <1>2, <1>3, <1>4, <1>5, <1>8, <2>2 DEF IsRanked
<1>10. \E s \in S \ O : v <= q[s]
  <2>1. SUFFICES ASSUME S \ O \subseteq Below(q, v) PROVE FALSE
    BY <1>6 DEF Below
  <2>2. IsFiniteSet(S \ O) /\ Cardinality(S \ O) = n - Cardinality(O)
    <3>1. S \cap O = O
      OBVIOUS
    <3> QED
      BY <3>1, FS_Difference
  <2>3. n - Cardinality(O) <= Cardinality(Below(q, v))
    BY <1>8, <2>1, <2>2, FS_Subset
  <2> QED
    BY <1>2, <1>3, <1>4, <1>5, <1>8, <2>3 DEF IsRanked
<1> QED
  BY <1>9, <1>10 DEF WithinQuotes
=============================================================================
