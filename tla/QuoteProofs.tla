---------------------------- MODULE QuoteProofs ----------------------------
(***************************************************************************)
(* Proofs about the way of a price, for any texts the exchanges may send,  *)
(* any number of quotes, any width of the word, any number of decimal      *)
(* places, any markups and any decimal displays: what counts as a quote,   *)
(* what the aggregate of the quotes is, what is shown of a price and what  *)
(* rate is made of it.                                                     *)
(***************************************************************************)
EXTENDS MCMedian, MedianProofs, SequenceTheorems

-----------------------------------------------------------------------------
(***************************************************************************)
(* Powers of ten.  Pow10 is defined by recursion; that there is a function *)
(* that satisfies its definition is shown from its restrictions to 0..k.   *)
(***************************************************************************)

\* A set of naturals has a least element.
LEMMA LeastExists ==
    ASSUME NEW Bad \in SUBSET Nat, Bad # {}
    PROVE  \E k \in Bad : \A j \in Bad : k <= j
<1>1. PICK b \in Bad : TRUE
  OBVIOUS
<1> DEFINE T == {k \in Bad : k <= b}
           q == [i \in 0 .. b |-> -i]
<1>2. b \in Nat /\ b \in T /\ \A k \in T : k \in Nat /\ k <= b
  BY <1>1
<1>3. T \in SUBSET (0 .. b)
  <2> HIDE DEF T
  <2>1. \A k \in T : k \in 0 .. b
    BY <1>2
  <2> QED
    BY <2>1
<1>4. PICK m \in T : \A s \in T : q[s] <= q[m]
  <2>1. IsFiniteSet(0 .. b) /\ q \in [0 .. b -> Int]
    BY <1>2, FS_Interval
  <2> HIDE DEF T, q
  <2> QED
    BY <1>2, <1>3, <2>1, GreatestQuote
<1>5. \A s \in T : m <= s
  <2> TAKE s \in T
  <2>1. m \in 0 .. b /\ s \in 0 .. b /\ q[s] <= q[m]
    BY <1>3, <1>4
  <2>2. q[s] = -s /\ q[m] = -m /\ s \in Int /\ m \in Int
    BY <2>1
  <2> HIDE DEF q
  <2> QED
    BY <2>1, <2>2
<1>6. ASSUME NEW j \in Bad PROVE m <= j
  <2>1. j \in T \/ b < j
    BY <1>2
  <2>2. m \in Nat /\ m <= b /\ j \in Nat
    BY <1>2
  <2> HIDE DEF T
  <2> QED
    BY <1>2, <1>5, <2>1, <2>2
<1>7. m \in Bad
  OBVIOUS
<1> QED
  BY <1>6, <1>7

\* f holds the powers up to the k-th.
PowersUpTo(f, k) ==
    /\ f \in [0 .. k -> Nat]
    /\ f[0] = 1
    /\ \A i \in 1 .. k : f[i] = 10 * f[i - 1]

\* There are tables of any length.
LEMMA PowersExist == \A k \in Nat : \E f : PowersUpTo(f, k)
<1> DEFINE Bad == {k \in Nat : ~ \E f : PowersUpTo(f, k)}
<1> SUFFICES ASSUME Bad # {} PROVE FALSE
  OBVIOUS
<1>1. PICK k \in Bad : \A j \in Bad : k <= j
  <2>1. Bad \in SUBSET Nat
    OBVIOUS
  <2> HIDE DEF Bad
  <2> QED
    BY <2>1, LeastExists
<1>2. CASE k = 0
  <2>1. PowersUpTo([i \in 0 .. 0 |-> 1], 0)
    BY DEF PowersUpTo
  <2> QED
    BY <1>2, <2>1
<1>3. CASE k # 0
  <2>1. k - 1 \in Nat /\ k - 1 \notin Bad
    BY <1>1, <1>3
  <2>2. PICK f : PowersUpTo(f, k - 1)
    BY <2>1
  <2> DEFINE g == [i \in 0 .. k |-> IF i = k THEN 10 * f[k - 1] ELSE f[i]]
  <2>3. \A i \in 0 .. k - 1 : i \in 0 .. k /\ i # k /\ g[i] = f[i] /\ f[i] \in Nat
    BY <2>1, <2>2 DEF PowersUpTo
  <2>4. k \in 0 .. k /\ k - 1 \in 0 .. k - 1 /\ 0 \in 0 .. k - 1
    BY <2>1
  <2>5. g[k] = 10 * f[k - 1] /\ g[k] \in Nat
    <3>1. g[k] = 10 * f[k - 1]
      BY <2>4
    <3>2. f[k - 1] \in Nat
      BY <2>3, <2>4
    <3> QED
      BY <3>1, <3>2
  <2>6. \A i \in 0 .. k : i = k \/ i \in 0 .. k - 1
    BY <2>1
  <2>7. g \in [0 .. k -> Nat]
    BY <2>3, <2>5, <2>6
  <2>8. g[0] = 1
    BY <2>2, <2>3, <2>4 DEF PowersUpTo
  <2>9. ASSUME NEW i \in 1 .. k PROVE g[i] = 10 * g[i - 1]
    <3>1. i - 1 \in 0 .. k - 1 /\ g[i - 1] = f[i - 1]
      BY <2>1, <2>3
    <3>2. CASE i = k
      BY <2>5, <3>1, <3>2
    <3>3. CASE i # k
      <4>1. i \in 1 .. k - 1 /\ i \in 0 .. k - 1
        BY <2>1, <3>3
      <4>2. f[i] = 10 * f[i - 1]
        BY <2>2, <4>1 DEF PowersUpTo
      <4> QED
        BY <2>3, <3>1, <4>1, <4>2
    <3> QED
      BY <3>2, <3>3
  <2> HIDE DEF g
  <2>10. PowersUpTo(g, k)
    BY <2>7, <2>8, <2>9 DEF PowersUpTo
  <2> QED
    BY <2>10
<1> QED
  BY <1>2, <1>3

\* Two tables agree where both are defined.
LEMMA PowersAgree ==
    ASSUME NEW k \in Nat, NEW l \in Nat, NEW f, NEW g,
           PowersUpTo(f, k), PowersUpTo(g, l)
    PROVE  \A i \in Nat : i <= k /\ i <= l => f[i] = g[i]
<1> DEFINE Bad == {i \in Nat : i <= k /\ i <= l /\ f[i] # g[i]}
<1> SUFFICES ASSUME Bad # {} PROVE FALSE
  OBVIOUS
<1>1. PICK i \in Bad : \A j \in Bad : i <= j
  <2>1. Bad \in SUBSET Nat
    OBVIOUS
  <2> HIDE DEF Bad
  <2> QED
    BY <2>1, LeastExists
<1>2. i # 0
  BY <1>1 DEF PowersUpTo
<1>3. i - 1 \in Nat /\ i - 1 \notin Bad /\ i - 1 <= k /\ i - 1 <= l
  BY <1>1, <1>2
<1>4. f[i - 1] = g[i - 1]
  BY <1>3
<1>5. f[i] = 10 * f[i - 1] /\ g[i] = 10 * g[i - 1]
  BY <1>1, <1>2 DEF PowersUpTo
<1> QED
  BY <1>1, <1>4, <1>5

\* Pow10 is the function its definition describes: the union of the tables.
LEMMA Pow10Recursion ==
    Pow10 = [n \in Nat |-> IF n = 0 THEN 1 ELSE 10 * Pow10[n - 1]]
<1> DEFINE T(n) == CHOOSE f : PowersUpTo(f, n)
           F == [n \in Nat |-> T(n)[n]]
<1>1. \A n \in Nat : PowersUpTo(T(n), n)
  BY PowersExist
<1> HIDE DEF T
<1>2. ASSUME NEW n \in Nat
      PROVE  F[n] = IF n = 0 THEN 1 ELSE 10 * F[n - 1]
  <2>1. CASE n = 0
    BY <1>1, <2>1 DEF PowersUpTo
  <2>2. CASE n # 0
    <3>1. n - 1 \in Nat /\ n \in 1 .. n /\ n - 1 <= n
      BY <2>2
    <3>2. PowersUpTo(T(n), n) /\ PowersUpTo(T(n - 1), n - 1)
      BY <1>1, <3>1
    <3>3. T(n)[n] = 10 * T(n)[n - 1]
      BY <3>1, <3>2 DEF PowersUpTo
    <3>4. T(n)[n - 1] = T(n - 1)[n - 1]
      BY <3>1, <3>2, PowersAgree
    <3> QED
      BY <2>2, <3>1, <3>3, <3>4
  <2> QED
    BY <2>1, <2>2
<1>3. F = [n \in Nat |-> IF n = 0 THEN 1 ELSE 10 * F[n - 1]]
  <2>1. F = [n \in Nat |-> F[n]]
    OBVIOUS
  <2> HIDE DEF F
  <2> QED
    BY <1>2, <2>1
<1> HIDE DEF F
<1>4. \E f : f = [n \in Nat |-> IF n = 0 THEN 1 ELSE 10 * f[n - 1]]
  BY <1>3
<1> QED
  BY <1>4 DEF Pow10

\* The recursion, and that no power is 0.
LEMMA Pow10Facts ==
    /\ Pow10[0] = 1
    /\ \A n \in Nat : Pow10[n] \in Nat \ {0} /\ Pow10[n + 1] = 10 * Pow10[n]
<1>1. Pow10[0] = 1
  BY Pow10Recursion
<1>2. \A n \in Nat : n # 0 => Pow10[n] = 10 * Pow10[n - 1]
  BY Pow10Recursion
<1> DEFINE Bad == {n \in Nat : Pow10[n] \notin Nat \ {0}}
<1>3. Bad = {}
  <2> SUFFICES ASSUME Bad # {} PROVE FALSE
    OBVIOUS
  <2>1. PICK k \in Bad : \A j \in Bad : k <= j
    <3>1. Bad \in SUBSET Nat
      OBVIOUS
    <3> HIDE DEF Bad
    <3> QED
      BY <3>1, LeastExists
  <2>2. k # 0
    BY <1>1, <2>1
  <2>3. k - 1 \in Nat /\ Pow10[k - 1] \in Nat \ {0}
    BY <2>1, <2>2
  <2>4. Pow10[k] = 10 * Pow10[k - 1]
    BY <1>2, <2>2
  <2> QED
    BY <2>1, <2>3, <2>4
<1>4. ASSUME NEW n \in Nat PROVE Pow10[n + 1] = 10 * Pow10[n]
  <2>1. n + 1 \in Nat /\ n + 1 # 0 /\ n + 1 - 1 = n
    OBVIOUS
  <2> QED
    BY <1>2, <2>1
<1> QED
  BY <1>1, <1>3, <1>4

\* Powers multiply.
LEMMA Pow10Sum ==
    ASSUME NEW a \in Nat, NEW b \in Nat
    PROVE  Pow10[a + b] = Pow10[a] * Pow10[b]
<1> DEFINE Bad == {n \in Nat : Pow10[a + n] # Pow10[a] * Pow10[n]}
<1> SUFFICES ASSUME Bad # {} PROVE FALSE
  OBVIOUS
<1>1. PICK k \in Bad : \A j \in Bad : k <= j
  <2>1. Bad \in SUBSET Nat
    OBVIOUS
  <2> HIDE DEF Bad
  <2> QED
    BY <2>1, LeastExists
<1>2. k # 0
  <2>1. Pow10[a + 0] = Pow10[a] * Pow10[0]
    BY Pow10Facts
  <2> QED
    BY <1>1, <2>1
<1>3. k - 1 \in Nat /\ Pow10[a + (k - 1)] = Pow10[a] * Pow10[k - 1]
  BY <1>1, <1>2
<1> DEFINE x == Pow10[a]
           y == Pow10[k - 1]
<1>4. /\ Pow10[k] = 10 * y /\ x \in Nat /\ y \in Nat
      /\ Pow10[a + k] = 10 * (x * y)
  <2>1. k = (k - 1) + 1 /\ a + k = (a + (k - 1)) + 1 /\ a + (k - 1) \in Nat
    BY <1>3
  <2>2. /\ Pow10[(k - 1) + 1] = 10 * y
        /\ Pow10[(a + (k - 1)) + 1] = 10 * Pow10[a + (k - 1)]
    BY <1>3, <2>1, Pow10Facts
  <2> QED
    BY <1>3, <2>1, <2>2, Pow10Facts
<1>5. Pow10[a + k] # x * Pow10[k]
  BY <1>1
<1> HIDE DEF x, y
<1>6. 10 * (x * y) = x * (10 * y)
  BY <1>4
<1> QED
  BY <1>4, <1>5, <1>6
-----------------------------------------------------------------------------
(***************************************************************************)
(* Integer division.                                                       *)
(***************************************************************************)

\* Quotient and remainder.
LEMMA Division ==
    ASSUME NEW a \in Nat, NEW m \in Nat \ {0}
    PROVE  /\ a \div m \in Nat /\ a % m \in Nat /\ a % m < m
           /\ a = (a \div m) * m + (a % m)
           /\ (a \div m) * m <= a /\ a < (a \div m + 1) * m
<1>1. a \div m \in Int /\ a % m \in 0 .. m - 1 /\ a = (a \div m) * m + (a % m)
  OBVIOUS
<1> DEFINE q == a \div m
           r == a % m
<1>2. q \in Int /\ r \in Nat /\ r < m /\ a = q * m + r
  BY <1>1
<1> HIDE DEF q, r
<1>3. (q + 1) * m = q * m + m
  BY <1>2
<1>4. q <= -1 => q * m <= -m
  BY <1>2
<1>5. q \in Nat
  BY <1>2, <1>4
<1> QED
  BY <1>2, <1>3, <1>5 DEF q, r

\* They are determined by a = q m + r.
LEMMA DivisionUnique ==
    ASSUME NEW q \in Int, NEW r \in Nat, NEW m \in Nat \ {0}, r < m
    PROVE  (q * m + r) \div m = q /\ (q * m + r) % m = r
<1> DEFINE a == q * m + r
           d == a \div m
           e == a % m
<1>1. a \in Int /\ d \in Int /\ e \in 0 .. m - 1 /\ a = d * m + e
  OBVIOUS
<1>2. q * m + r = d * m + e
  BY <1>1
<1> HIDE DEF a, d, e
<1>3. (q - d) * m = e - r
  BY <1>1, <1>2
<1>4. q - d >= 1 => (q - d) * m >= m
  BY <1>1
<1>5. q - d <= -1 => (q - d) * m <= -m
  BY <1>1
<1>6. d = q
  BY <1>1, <1>3, <1>4, <1>5
<1>7. e = r
  BY <1>1, <1>2, <1>6
<1> QED
  BY <1>6, <1>7 DEF a, d, e

\* So it is whatever a number of this form is called.
LEMMA DivisionOf ==
    ASSUME NEW a \in Int, NEW q \in Int, NEW r \in Nat, NEW m \in Nat \ {0},
           r < m, a = q * m + r
    PROVE  a \div m = q /\ a % m = r
BY DivisionUnique

\* Wrapping twice is wrapping once.
LEMMA WrapTwice ==
    ASSUME NEW a \in Nat, NEW b \in Nat, NEW m \in Nat \ {0}
    PROVE  ((a % m) + b) % m = (a + b) % m
<1> DEFINE q == a \div m
           r == a % m
           d == (r + b) \div m
           e == (r + b) % m
<1>1. q \in Nat /\ r \in Nat /\ a = q * m + r
  BY Division
<1> HIDE DEF q, r
<1>2. d \in Nat /\ e \in Nat /\ e < m /\ r + b = d * m + e
  BY <1>1, Division
<1> HIDE DEF d, e
<1>3. a + b = (q + d) * m + e /\ q + d \in Int
  BY <1>1, <1>2
<1>4. ((q + d) * m + e) % m = e
  BY <1>2, <1>3, DivisionUnique
<1>5. (a + b) % m = e
  BY <1>3, <1>4
<1> QED
  BY <1>5 DEF e, r

-----------------------------------------------------------------------------
(***************************************************************************)
(* From the text of an exchange to a uint64.                               *)
(***************************************************************************)

\* The scale and the word.
LEMMA ScaleFacts ==
    /\ PriceScale \in Nat \ {0} /\ Word \in Nat \ {0} /\ Million \in Nat \ {0}
    /\ PriceScale <= Word /\ Million <= Word
BY ArithAssumption, Pow10Facts DEF PriceScale

\* The fraction is the digits that follow the point, cut to the scale.
LEMMA FractionCuts ==
    ASSUME NEW f \in Nat, NEW n \in Nat, f < Pow10[n]
    PROVE  LET g == Fraction(f, n)
           IN  /\ g \in Nat /\ g < PriceScale
               /\ g * Pow10[n] <= f * PriceScale
               /\ f * PriceScale < (g + 1) * Pow10[n]
<1> DEFINE g == Fraction(f, n)
           p == Pow10[n]
           w == PriceScale
<1>1. p \in Nat \ {0} /\ w \in Nat \ {0} /\ f < p /\ Decimals \in Nat
  BY Pow10Facts, ScaleFacts, ArithAssumption
<1>2. CASE n > Decimals
  <2> DEFINE k == Pow10[n - Decimals]
  <2>1. n - Decimals \in Nat /\ n = (n - Decimals) + Decimals
    BY <1>1, <1>2
  <2>2. k \in Nat \ {0} /\ p = k * w
    <3>1. Pow10[(n - Decimals) + Decimals] = Pow10[n - Decimals] * Pow10[Decimals]
      BY <1>1, <2>1, Pow10Sum
    <3> QED
      BY <2>1, <3>1, Pow10Facts DEF PriceScale
  <2>3. g = f \div k
    BY <1>2 DEF Fraction
  <2> HIDE DEF k, g, p, w
  <2>4. g \in Nat /\ g * k <= f /\ f < (g + 1) * k
    BY <2>2, <2>3, Division
  <2>5. g * p <= f * w
    <3>1. (g * k) * w <= f * w /\ (g * k) * w = g * (k * w)
      BY <1>1, <2>2, <2>4
    <3> QED
      BY <2>2, <3>1
  <2>6. f * w < (g + 1) * p
    <3>1. f * w < ((g + 1) * k) * w /\ ((g + 1) * k) * w = (g + 1) * (k * w)
      BY <1>1, <2>2, <2>4
    <3> QED
      BY <2>2, <3>1
  <2>7. g < w
    <3>1. g * k < w * k
      BY <1>1, <2>2, <2>4
    <3>2. w <= g => w * k <= g * k
      BY <1>1, <2>2, <2>4
    <3>3. g * k \in Nat /\ w * k \in Nat
      BY <1>1, <2>2, <2>4
    <3> QED
      BY <1>1, <2>4, <3>1, <3>2, <3>3
  <2> QED
    BY <2>4, <2>5, <2>6, <2>7 DEF g, p, w
<1>3. CASE ~(n > Decimals)
  <2> DEFINE k == Pow10[Decimals - n]
  <2>1. Decimals - n \in Nat /\ Decimals = n + (Decimals - n)
    BY <1>1, <1>3
  <2>2. k \in Nat \ {0} /\ w = p * k
    <3>1. Pow10[n + (Decimals - n)] = Pow10[n] * Pow10[Decimals - n]
      BY <2>1, Pow10Sum
    <3> QED
      BY <2>1, <3>1, Pow10Facts DEF PriceScale
  <2>3. g = f * k
    BY <1>3 DEF Fraction
  <2> HIDE DEF k, g, p, w
  <2>4. g \in Nat
    BY <2>2, <2>3
  <2>5. g * p = f * w
    <3>1. (f * k) * p = f * (p * k)
      BY <1>1, <2>2
    <3> QED
      BY <2>2, <2>3, <3>1
  <2>6. (g + 1) * p = g * p + p /\ g * p \in Nat
    BY <1>1, <2>4
  <2>7. g < w
    BY <1>1, <2>2, <2>3
  <2> QED
    BY <1>1, <2>4, <2>5, <2>6, <2>7 DEF g, p, w
<1> QED
  BY <1>2, <1>3

\* A text that parses is cut to the scale, and then to the word.
LEMMA ParseCuts ==
    ASSUME NEW t \in Texts, t.numeric, t.int \in Uint
    PROVE  \E x \in Nat :
              /\ TruncatesTo(t, x)
              /\ x < (t.int + 1) * PriceScale
              /\ parsePriceString(t) = [ok |-> TRUE, Value |-> x % Word]
<1> DEFINE i == t.int
           f == t.frac
           p == Pow10[t.places]
           w == PriceScale
           g == Fraction(f, t.places)
           x == i * w + g
<1>1. /\ i \in Nat /\ f \in Nat /\ t.places \in Nat /\ f < p
      /\ p \in Nat \ {0} /\ w \in Nat \ {0} /\ Word \in Nat \ {0}
  BY QuotesAssumption, Pow10Facts, ScaleFacts
<1>2. g \in Nat /\ g < w /\ g * p <= f * w /\ f * w < (g + 1) * p
  BY <1>1, FractionCuts
<1>3. parsePriceString(t) = [ok |-> TRUE, Value |-> (((i * w) % Word) + g) % Word]
  BY DEF parsePriceString, Wrap
<1>4. TruncatesTo(t, x) <=>
          x * p <= (i * p + f) * w /\ (i * p + f) * w < (x + 1) * p
  BY DEF TruncatesTo, Digits
<1> HIDE DEF i, f, p, w, g
<1>5. i * w \in Nat /\ x \in Nat
  BY <1>1, <1>2
<1>6. (((i * w) % Word) + g) % Word = x % Word
  <2> DEFINE a == i * w
  <2>1. a \in Nat /\ g \in Nat /\ Word \in Nat \ {0} /\ x = a + g
    BY <1>1, <1>2, <1>5
  <2> HIDE DEF a, x
  <2>2. ((a % Word) + g) % Word = (a + g) % Word
    BY <2>1, WrapTwice
  <2> QED
    BY <2>1, <2>2 DEF a
<1>7. /\ x * p = (i * w) * p + g * p /\ (x + 1) * p = (i * w) * p + (g + 1) * p
      /\ (i * p + f) * w = (i * p) * w + f * w
      /\ (i * w) * p = (i * p) * w /\ (i * p) * w \in Nat
      /\ g * p \in Nat /\ f * w \in Nat /\ (g + 1) * p \in Nat
  BY <1>1, <1>2, <1>5
<1>8. x * p <= (i * p + f) * w /\ (i * p + f) * w < (x + 1) * p
  <2> DEFINE A == (i * p) * w
             B == g * p
             C == f * w
             D == (g + 1) * p
  <2>1. A \in Nat /\ B \in Nat /\ C \in Nat /\ D \in Nat /\ B <= C /\ C < D
        /\ x * p = A + B /\ (x + 1) * p = A + D /\ (i * p + f) * w = A + C
    BY <1>2, <1>7
  <2> HIDE DEF A, B, C, D, x
  <2> QED
    BY <2>1
<1>9. x < (i + 1) * w
  <2>1. (i + 1) * w = i * w + w
    BY <1>1
  <2> QED
    BY <1>1, <1>2, <1>5, <2>1
<1> HIDE DEF x
<1> QED
  BY <1>3, <1>4, <1>5, <1>6, <1>8, <1>9 DEF i, w

\* What does not parse is an error.
LEMMA ParseFails ==
    ASSUME NEW t \in Texts, ~(t.numeric /\ t.int \in Uint)
    PROVE  parsePriceString(t) = ParseError
BY DEF parsePriceString

(***************************************************************************)
(* The adapter of an exchange returns a price just if the exchange reports *)
(* one whose integer part fits a uint64.                                   *)
(***************************************************************************)
LEMMA FetchedIsReported ==
    ASSUME NEW e \in Exchange, NEW a \in Answers
    PROVE  /\ FetchPrice(e, a).is = "price" <=> Reports(e, a) /\ a.price.int \in Uint
           /\ FetchPrice(e, a).is = "price" =>
                 FetchPrice(e, a).Value = parsePriceString(a.price).Value
<1> DEFINE t == a.price
           q == Quoted(t)
<1>1. t \in Texts
  BY DEF Answers
<1>2. /\ q.is = "price" <=> t.numeric /\ t.int \in Uint
      /\ q.is = "price" => q.Value = parsePriceString(t).Value
  <2>1. CASE t.numeric /\ t.int \in Uint
    <3>1. parsePriceString(t).ok = TRUE
      BY <1>1, <2>1, ParseCuts
    <3>2. q = [is |-> "price", Value |-> parsePriceString(t).Value]
      BY <3>1 DEF Quoted
    <3> QED
      BY <2>1, <3>2
  <2>2. CASE ~(t.numeric /\ t.int \in Uint)
    <3>1. parsePriceString(t).ok = FALSE
      BY <1>1, <2>2, ParseFails DEF ParseError
    <3>2. q = FetchError
      BY <3>1 DEF Quoted
    <3> QED
      BY <2>2, <3>2 DEF FetchError
  <2> QED
    BY <2>1, <2>2
<1>3. ErrCurrencyNotSupported.is # "price" /\ FetchError.is # "price"
  BY DEF ErrCurrencyNotSupported, FetchError
<1>4. Reports(e, a) <=> /\ a.status = 200 /\ a.decodes /\ t.numeric
                        /\ e = "kraken" => ~a.errors /\ a.result = "last trade"
  BY DEF Reports, OK
<1> HIDE DEF q, t
<1>5. ASSUME NEW u \in {400, 404}
      PROVE  /\ SpotPrice(a, u).is = "price" <=>
                    a.status = 200 /\ a.decodes /\ q.is = "price"
             /\ SpotPrice(a, u).is = "price" => SpotPrice(a, u).Value = q.Value
  BY <1>3 DEF SpotPrice, OK, q, t
<1>6. CASE e = "kraken"
  <2>1. FetchPrice(e, a) = krakenFetchPrice(a)
    BY <1>6 DEF FetchPrice
  <2> DEFINE k == krakenFetchPrice(a)
  <2>2. CASE a.status = 200 /\ a.decodes /\ ~a.errors /\ a.result = "last trade"
    <3>1. k = q
      BY <2>2 DEF krakenFetchPrice, OK, q, t
    <3>2. Reports(e, a) <=> t.numeric
      BY <1>4, <2>2, Zenon
    <3> QED
      BY <1>2, <2>1, <3>1, <3>2 DEF t
  <2>3. CASE ~ (a.status = 200 /\ a.decodes /\ ~a.errors /\ a.result = "last trade")
    <3>1. /\ a.decodes \in BOOLEAN /\ a.errors \in BOOLEAN
          /\ a.result \in {"empty", "no last trade", "last trade"}
      BY DEF Answers, KrakenResults
    <3>2. k = FetchError \/ k = ErrCurrencyNotSupported
      BY <2>3, <3>1 DEF krakenFetchPrice, OK
    <3>3. ~ Reports(e, a)
      BY <1>4, <1>6, <2>3, Zenon
    <3> QED
      BY <1>3, <2>1, <3>2, <3>3
  <2> QED
    BY <2>2, <2>3
<1>7. CASE e # "kraken"
  <2>1. \/ FetchPrice(e, a) = SpotPrice(a, 400)
        \/ FetchPrice(e, a) = SpotPrice(a, 404)
    BY <1>7 DEF FetchPrice, Exchange, binanceFetchPrice, coinbaseFetchPrice,
                bitstampFetchPrice, BadRequest, NotFound
  <2>2. PICK u \in {400, 404} : FetchPrice(e, a) = SpotPrice(a, u)
    BY <2>1
  <2> DEFINE r == SpotPrice(a, u)
  <2>3. /\ r.is = "price" <=> a.status = 200 /\ a.decodes /\ q.is = "price"
        /\ r.is = "price" => r.Value = q.Value
    BY <1>5
  <2>4. Reports(e, a) <=> a.status = 200 /\ a.decodes /\ t.numeric
    BY <1>4, <1>7, Zenon
  <2>5. FetchPrice(e, a) = r
    BY <2>2
  <2> HIDE DEF r
  <2>6. FetchPrice(e, a).is = "price" <=> Reports(e, a) /\ t.int \in Uint
    BY <1>2, <2>3, <2>4, <2>5
  <2>7. FetchPrice(e, a).is = "price" =>
           FetchPrice(e, a).Value = parsePriceString(t).Value
    BY <1>2, <2>3, <2>5
  <2> QED
    BY <2>6, <2>7 DEF t
<1> QED
  BY <1>6, <1>7

-----------------------------------------------------------------------------
(***************************************************************************)
(* The invariant: what counts as a quote is a uint64.                      *)
(***************************************************************************)
QuotesOK == quotes \in Seq(Uint)

\* The prices the adapters return are uint64s.
LEMMA FetchedIsUint ==
    ASSUME NEW e \in Exchange, NEW a \in Answers, FetchPrice(e, a).is = "price"
    PROVE  FetchPrice(e, a).Value \in Uint
<1>1. /\ Reports(e, a) /\ a.price.int \in Uint
      /\ FetchPrice(e, a).Value = parsePriceString(a.price).Value
  BY FetchedIsReported
<1>2. PICK x \in Nat :
          parsePriceString(a.price) = [ok |-> TRUE, Value |-> x % Word]
  <2>1. a.price \in Texts /\ a.price.numeric
    BY <1>1 DEF Answers, Reports
  <2> QED
    BY <1>1, <2>1, ParseCuts
<1>3. x % Word \in Uint
  BY ScaleFacts DEF Uint
<1> QED
  BY <1>1, <1>2, <1>3

(***************************************************************************)
(* One step of the loop: the quotes stay as they are, or the price the     *)
(* exchange heard last reported is appended.                               *)
(***************************************************************************)
LEMMA QuoteStep ==
    ASSUME QuotesOK, [HeardNext]_heardVars, quotes' # quotes
    PROVE  \E v \in Uint : quotes' = Append(quotes, v)
<1>1. PICK e \in Exchange, a \in Answers : Arrive(e, a)
  BY DEF HeardNext, heardVars
<1>2. /\ FetchPrice(e, a).is = "price"
      /\ quotes' = Append(quotes, FetchPrice(e, a).Value)
  BY <1>1 DEF Arrive
<1> QED
  BY <1>2, FetchedIsUint

\* Every value that counts as a quote is a uint64 (pricefeed/interface.go:57).
THEOREM HeardInvariant == HeardSpec => []QuotesOK
<1>1. HeardInit => QuotesOK
  BY DEF HeardInit, QuotesOK
<1>2. QuotesOK /\ [HeardNext]_heardVars => QuotesOK'
  <2> SUFFICES ASSUME QuotesOK, [HeardNext]_heardVars PROVE QuotesOK'
    OBVIOUS
  <2>1. CASE quotes' = quotes
    BY <2>1 DEF QuotesOK
  <2>2. CASE quotes' # quotes
    BY <2>2, QuoteStep DEF QuotesOK
  <2> QED
    BY <2>1, <2>2
<1> QED
  BY <1>1, <1>2, PTL DEF HeardSpec

-----------------------------------------------------------------------------
(***************************************************************************)
(* The aggregate of the quotes.                                            *)
(***************************************************************************)

\* What is known of the median of any sources holds of a sequence of quotes.
LEMMA MedianOfSequence ==
    ASSUME NEW q \in Seq(Int), q # <<>>
    PROVE  /\ IsRanked(q, LowerMiddle(Len(q)), median(q))
           /\ ResistsMinority(q, median(q))
           /\ median(q) \in Int
           /\ Len(q) \in Nat \ {0}
<1> DEFINE S == 1 .. Len(q)
<1>1. Len(q) \in Nat \ {0} /\ q \in [S -> Int]
  BY EmptySeq
<1>2. IsFiniteSet(S) /\ Cardinality(S) = Len(q) /\ S # {}
  <2>1. 1 \in Int /\ Len(q) \in Int /\ Len(q) - 1 + 1 = Len(q) /\ 1 <= Len(q)
    BY <1>1
  <2>2. Cardinality(S) = Len(q) - 1 + 1 /\ IsFiniteSet(S)
    BY <2>1, FS_Interval
  <2> QED
    BY <2>1, <2>2
<1> HIDE DEF S
<1>3. IsRanked(q, LowerMiddle(Cardinality(S)), median(q))
  BY <1>1, <1>2, MedianIsLowerMiddle
<1>4. ResistsMinority(q, median(q))
  BY <1>1, <1>2, MedianResistsMinority
<1>5. \E s \in DOMAIN q : q[s] = median(q)
  BY <1>3 DEF IsRanked
<1> QED
  BY <1>1, <1>2, <1>3, <1>4, <1>5

\* Every quote is a uint64.
LEMMA QuoteIsUint ==
    ASSUME QuotesOK, NEW i \in DOMAIN quotes
    PROVE  quotes[i] \in Uint /\ quotes[i] \in Nat
<1>1. i \in 1 .. Len(quotes)
  BY DEF QuotesOK
<1>2. quotes[i] \in Uint
  BY <1>1, ElementOfSeq DEF QuotesOK
<1> QED
  BY <1>2 DEF Uint

\* The quotes are integers, and so are the values that join them.
LEMMA QuotesAreIntegers ==
    ASSUME QuotesOK
    PROVE  quotes \in Seq(Int) /\ \A v \in Uint : v \in Int
<1>1. \A v \in Uint : v \in Int
  BY DEF Uint
<1> QED
  BY <1>1, SeqMonotonic DEF QuotesOK

(***************************************************************************)
(* pollCurrency's aggregate is the lower middle of the quotes received, by *)
(* rank, in any order of arrival and with any ties (median.go:12-34).      *)
(***************************************************************************)
THEOREM AggregateIsLowerMiddle == HeardSpec => []IsLowerMiddle
<1>1. QuotesOK => IsLowerMiddle
  BY QuotesAreIntegers, MedianOfSequence DEF IsLowerMiddle
<1> QED
  BY <1>1, HeardInvariant, PTL

(***************************************************************************)
(* No minority of the exchanges that answered pulls the aggregate out of   *)
(* the range of the others (README.md:21), whatever texts they send.       *)
(***************************************************************************)
THEOREM AggregateResistsOutliers == HeardSpec => []OutlierResisted
<1>1. QuotesOK => OutlierResisted
  BY QuotesAreIntegers, MedianOfSequence DEF OutlierResisted
<1> QED
  BY <1>1, HeardInvariant, PTL

(***************************************************************************)
(* One more quote moves the aggregate past none of the others: their rank  *)
(* in between would count one too many below the new aggregate, or one too *)
(* many up to it.                                                          *)
(***************************************************************************)
LEMMA OneMoreQuote ==
    ASSUME NEW q \in Seq(Int), q # <<>>, NEW v \in Int, NEW i \in DOMAIN q
    PROVE  LET a == median(q)
               b == median(Append(q, v))
           IN  ~ (a < q[i] /\ q[i] < b) /\ ~ (b < q[i] /\ q[i] < a)
<1> DEFINE q2 == Append(q, v)
           a == median(q)
           b == median(q2)
           n == Len(q)
           k == LowerMiddle(n)
           k2 == LowerMiddle(n + 1)
<1>1. /\ q2 \in Seq(Int) /\ q2 # <<>> /\ Len(q2) = n + 1 /\ n \in Nat \ {0}
      /\ DOMAIN q = 1 .. n /\ DOMAIN q2 = 1 .. n + 1
      /\ \A s \in 1 .. n : q2[s] = q[s] /\ q[s] \in Int
      /\ q2[n + 1] = v
  BY MedianOfSequence, AppendProperties
<1>2. /\ IsRanked(q, k, a) /\ a \in Int
      /\ IsRanked(q2, k2, b) /\ b \in Int
  BY <1>1, MedianOfSequence
<1> HIDE DEF q2, a, b, n
<1>3. k \in Nat /\ (k2 = k \/ k2 = k + 1)
  BY <1>1 DEF LowerMiddle
<1> HIDE DEF k, k2
<1>4. /\ IsFiniteSet(Below(q, a)) /\ IsFiniteSet(AtMost(q, a))
      /\ IsFiniteSet(Below(q2, b)) /\ IsFiniteSet(AtMost(q2, b))
  <2>1. IsFiniteSet(1 .. n) /\ IsFiniteSet(1 .. n + 1)
    BY <1>1, FS_Interval
  <2>2. /\ Below(q, a) \subseteq 1 .. n /\ AtMost(q, a) \subseteq 1 .. n
        /\ Below(q2, b) \subseteq 1 .. n + 1 /\ AtMost(q2, b) \subseteq 1 .. n + 1
    BY <1>1 DEF Below, AtMost
  <2> QED
    BY <2>1, <2>2, FS_Subset
<1>5. /\ Cardinality(Below(q, a)) \in Nat /\ Cardinality(AtMost(q, a)) \in Nat
      /\ Cardinality(Below(q2, b)) \in Nat /\ Cardinality(AtMost(q2, b)) \in Nat
      /\ Cardinality(Below(q, a)) < k /\ k <= Cardinality(AtMost(q, a))
      /\ Cardinality(Below(q2, b)) < k2 /\ k2 <= Cardinality(AtMost(q2, b))
  BY <1>2, <1>4, FS_CardinalityType DEF IsRanked
<1>6. ASSUME a < q[i], q[i] < b PROVE FALSE
  <2>1. AtMost(q, a) \cup {i} \subseteq Below(q2, b) /\ i \notin AtMost(q, a)
    BY <1>1, <1>2, <1>6 DEF Below, AtMost
  <2>2. Cardinality(AtMost(q, a) \cup {i}) = Cardinality(AtMost(q, a)) + 1
    BY <1>4, <2>1, FS_AddElement
  <2>3. Cardinality(AtMost(q, a) \cup {i}) <= Cardinality(Below(q2, b))
    BY <1>4, <2>1, FS_Subset
  <2> QED
    BY <1>3, <1>5, <2>2, <2>3
<1>7. ASSUME b < q[i], q[i] < a PROVE FALSE
  <2> DEFINE R == Below(q, a) \ {i}
  <2>1. /\ AtMost(q2, b) \subseteq R \cup {n + 1}
        /\ i \in Below(q, a) /\ n + 1 \notin R
    BY <1>1, <1>2, <1>7 DEF Below, AtMost
  <2>2. IsFiniteSet(R) /\ Cardinality(R) = Cardinality(Below(q, a)) - 1
    BY <1>4, <2>1, FS_RemoveElement
  <2> HIDE DEF R
  <2>3. /\ IsFiniteSet(R \cup {n + 1})
        /\ Cardinality(R \cup {n + 1}) = Cardinality(R) + 1
    BY <2>1, <2>2, FS_AddElement
  <2>4. Cardinality(AtMost(q2, b)) <= Cardinality(R \cup {n + 1})
    BY <2>1, <2>3, FS_Subset
  <2> QED
    BY <1>3, <1>5, <2>2, <2>3, <2>4
<1> QED
  BY <1>6, <1>7 DEF a, b, q2

(***************************************************************************)
(* A feed that drops out of a cycle or comes back moves the aggregate by   *)
(* one rank at most (oracle.go:211-224 with median.go:12-34).              *)
(***************************************************************************)
THEOREM AggregateMovesOneRank == HeardSpec => MovesOneRank
<1> DEFINE Step ==
        quotes # <<>> /\ quotes' # quotes =>
          LET before == median(quotes)
              after  == median(quotes')
          IN  \A i \in DOMAIN quotes :
                 ~ \/ before < quotes[i] /\ quotes[i] < after
                   \/ after < quotes[i] /\ quotes[i] < before
<1>1. QuotesOK /\ [HeardNext]_heardVars => [Step]_quotes
  <2> SUFFICES ASSUME QuotesOK, [HeardNext]_heardVars, quotes # <<>>,
                      quotes' # quotes, NEW i \in DOMAIN quotes
               PROVE  LET before == median(quotes)
                          after  == median(quotes')
                      IN  ~ \/ before < quotes[i] /\ quotes[i] < after
                            \/ after < quotes[i] /\ quotes[i] < before
    OBVIOUS
  <2>1. PICK v \in Uint : quotes' = Append(quotes, v)
    BY QuoteStep
  <2>2. quotes \in Seq(Int) /\ v \in Int
    BY QuotesAreIntegers
  <2>3. LET a == median(quotes)
            b == median(Append(quotes, v))
        IN  ~ (a < quotes[i] /\ quotes[i] < b) /\ ~ (b < quotes[i] /\ quotes[i] < a)
    BY <2>2, OneMoreQuote
  <2> QED
    BY <2>1, <2>3
<1> QED
  BY <1>1, HeardInvariant, PTL DEF HeardSpec, MovesOneRank

-----------------------------------------------------------------------------
(***************************************************************************)
(* What counts as a quote.                                                 *)
(***************************************************************************)

(***************************************************************************)
(* What a price is parsed to, if it is not cut from the text, is what is   *)
(* left of it after some multiple of Word is lost, and then the integer    *)
(* part is past Word / PriceScale.                                         *)
(***************************************************************************)
LEMMA ParsedOrWrapped ==
    ASSUME NEW t \in Texts, t.numeric, t.int \in Uint
    PROVE  LET v == parsePriceString(t).Value
           IN  \/ TruncatesTo(t, v)
               \/ /\ (t.int + 1) * PriceScale > Word
                  /\ \E n \in 1 .. Word : TruncatesTo(t, v + n * Word)
<1>1. PICK x \in Nat :
          /\ TruncatesTo(t, x)
          /\ x < (t.int + 1) * PriceScale
          /\ parsePriceString(t) = [ok |-> TRUE, Value |-> x % Word]
  BY ParseCuts
<1> DEFINE n == x \div Word
           v == x % Word
           i == t.int
           w == PriceScale
<1>2. /\ w \in Nat \ {0} /\ Word \in Nat \ {0} /\ w <= Word
      /\ i \in Nat /\ i + 1 <= Word
  BY ScaleFacts DEF Uint
<1>3. n \in Nat /\ v \in Nat /\ x = n * Word + v
  BY <1>2, Division
<1>4. x < (i + 1) * w /\ TruncatesTo(t, x)
  BY <1>1
<1>5. parsePriceString(t).Value = v
  BY <1>1
<1> HIDE DEF n, v, i, w
<1>6. (i + 1) * w <= Word * Word
  <2>1. (i + 1) * w <= Word * w
    BY <1>2
  <2>2. Word * w <= Word * Word
    BY <1>2
  <2> QED
    BY <1>2, <2>1, <2>2
<1>7. CASE n = 0
  <2>1. 0 * Word = 0
    BY <1>2
  <2>2. x = v
    BY <1>3, <1>7, <2>1
  <2> QED
    BY <1>4, <1>5, <2>2
<1>8. CASE n # 0
  <2>1. n * Word >= Word
    BY <1>2, <1>3, <1>8
  <2>2. n > Word => n * Word >= Word * Word
    BY <1>2, <1>3
  <2>3. (i + 1) * w > Word
    BY <1>2, <1>3, <1>4, <2>1
  <2>4. n \in 1 .. Word
    BY <1>2, <1>3, <1>4, <1>6, <1>8, <2>2
  <2>5. x = v + n * Word
    BY <1>2, <1>3
  <2> QED
    BY <1>4, <1>5, <2>3, <2>4, <2>5 DEF i, w
<1> QED
  BY <1>7, <1>8

(***************************************************************************)
(* Each quote is the price that an exchange reported, cut to the stored    *)
(* places, but for the integer parts that wrap (pricefeed/interface.go:75) *)
(* and every price reported becomes a quote (oracle.go:196-224).           *)
(***************************************************************************)
THEOREM NothingSmuggledIn == HeardSpec => QuotesAreReported
<1> DEFINE Step ==
        LET a == heard'.reply
        IN  /\ quotes' # quotes <=>
                  Reports(heard'.from, a) /\ a.price.int \in Uint
            /\ quotes' # quotes =>
                  LET v == quotes'[Len(quotes')]
                  IN  \/ TruncatesTo(a.price, v)
                      \/ /\ (a.price.int + 1) * PriceScale > Word
                         /\ \E n \in 1..Word : TruncatesTo(a.price, v + n * Word)
<1>1. QuotesOK /\ [HeardNext]_heardVars => [Step]_heardVars
  <2> SUFFICES ASSUME QuotesOK, HeardNext PROVE Step
    BY DEF heardVars
  <2>1. PICK e \in Exchange, a \in Answers : Arrive(e, a)
    BY DEF HeardNext
  <2> DEFINE r == FetchPrice(e, a)
  <2>2. /\ heard'.from = e /\ heard'.reply = a
        /\ quotes' = IF r.is = "price" THEN Append(quotes, r.Value) ELSE quotes
    BY <2>1 DEF Arrive
  <2>3. /\ r.is = "price" <=> Reports(e, a) /\ a.price.int \in Uint
        /\ r.is = "price" => r.Value = parsePriceString(a.price).Value
    BY FetchedIsReported
  <2>4. a.price \in Texts
    BY DEF Answers
  <2>5. Reports(e, a) => a.price.numeric
    BY DEF Reports
  <2> HIDE DEF r
  <2>6. CASE r.is = "price"
    <3>1. quotes' = Append(quotes, r.Value)
      BY <2>2, <2>6
    <3>2. quotes' # quotes /\ quotes'[Len(quotes')] = r.Value
      BY <3>1 DEF QuotesOK
    <3>3. LET v == r.Value
          IN  \/ TruncatesTo(a.price, v)
              \/ /\ (a.price.int + 1) * PriceScale > Word
                 /\ \E n \in 1..Word : TruncatesTo(a.price, v + n * Word)
      BY <2>3, <2>4, <2>5, <2>6, ParsedOrWrapped
    <3> QED
      BY <2>2, <2>3, <2>6, <3>2, <3>3
  <2>7. CASE r.is # "price"
    <3>1. quotes' = quotes
      BY <2>2, <2>7
    <3> QED
      BY <2>2, <2>3, <2>7, <3>1
  <2> QED
    BY <2>6, <2>7
<1> QED
  BY <1>1, HeardInvariant, PTL DEF HeardSpec, QuotesAreReported

-----------------------------------------------------------------------------
(***************************************************************************)
(* What is shown of a price.                                               *)
(***************************************************************************)

\* What fits the word does not wrap.
LEMMA NoWrap ==
    ASSUME NEW v \in Nat, v < Word
    PROVE  v % Word = v
<1>1. Word \in Nat \ {0} /\ 0 * Word + v = v
  BY ScaleFacts
<1>2. (0 * Word + v) % Word = v
  BY <1>1, DivisionUnique
<1> QED
  BY <1>1, <1>2

\* Formatting keeps every digit of a uint64: parsing gets it back.
LEMMA FormatThenParse ==
    ASSUME NEW v \in Uint
    PROVE  parsePriceString(FormatPrice(v)) = [ok |-> TRUE, Value |-> v]
<1> DEFINE w == PriceScale
           i == v \div w
           f == v % w
           t == FormatPrice(v)
<1>1. w \in Nat \ {0} /\ Word \in Nat \ {0} /\ v \in Nat /\ v < Word
  BY ScaleFacts DEF Uint
<1>2. i \in Nat /\ f \in Nat /\ v = i * w + f /\ i * w \in Nat
  BY <1>1, Division
<1>3. t = [numeric |-> TRUE, int |-> i, frac |-> f, places |-> Decimals]
  BY DEF FormatPrice, Text
<1>4. Fraction(f, Decimals) = f
  <2>1. ~(Decimals > Decimals) /\ Decimals - Decimals = 0
    BY ArithAssumption
  <2>2. Fraction(f, Decimals) = f * Pow10[0]
    BY <2>1 DEF Fraction
  <2> HIDE DEF f
  <2> QED
    BY <1>2, <2>2, Pow10Facts
<1> HIDE DEF w, i, f, t
<1>5. i \in Uint
  <2>1. i <= i * w
    BY <1>1, <1>2
  <2> QED
    BY <1>1, <1>2, <2>1 DEF Uint
<1>6. (((i * w) % Word) + f) % Word = v % Word
  <2> DEFINE a == i * w
  <2>1. a \in Nat /\ f \in Nat /\ v = a + f
    BY <1>2
  <2> HIDE DEF a
  <2>2. ((a % Word) + f) % Word = (a + f) % Word
    BY <1>1, <2>1, WrapTwice
  <2> QED
    BY <2>1, <2>2 DEF a
<1>7. v % Word = v
  BY <1>1, NoWrap
<1>8. parsePriceString(t) =
          [ok |-> TRUE, Value |-> (((i * w) % Word) + f) % Word]
  BY <1>3, <1>4, <1>5 DEF parsePriceString, Wrap, w
<1> QED
  BY <1>6, <1>7, <1>8 DEF t

\* fixedPointToDecimal keeps every digit of a coefficient, at any scale.
LEMMA DecimalKeepsDigits ==
    ASSUME NEW c \in Nat, NEW scale \in Nat
    PROVE  LET shown == fixedPointToDecimal(c, scale)
           IN  Digits(shown) = c /\ shown.frac < Pow10[shown.places]
<1> DEFINE p == Pow10[scale]
           shown == fixedPointToDecimal(c, scale)
<1>1. p \in Nat \ {0}
  BY Pow10Facts
<1>2. c = (c \div p) * p + (c % p) /\ c % p < p
  BY <1>1, Division
<1>3. shown.int = c \div p /\ shown.frac = c % p /\ shown.places = scale
  BY DEF fixedPointToDecimal, Text
<1> HIDE DEF shown
<1> QED
  BY <1>2, <1>3 DEF Digits, shown

(***************************************************************************)
(* Whatever price is stored, the HTTP server shows it so that it parses to *)
(* itself (httpserver.go:232), and tassandra-cli shows every digit of it   *)
(* (tassandra-cli/main.go:325).                                            *)
(***************************************************************************)
THEOREM ShownExactly == HeardSpec => []PricesShownExactly
<1>1. QuotesOK => PricesShownExactly
  <2> SUFFICES ASSUME QuotesOK, NEW i \in DOMAIN quotes
               PROVE  /\ parsePriceString(FormatPrice(quotes[i])) =
                            [ok |-> TRUE, Value |-> quotes[i]]
                      /\ \A scale \in {0, Decimals} :
                            LET shown == fixedPointToDecimal(quotes[i], scale)
                            IN  /\ Digits(shown) = quotes[i]
                                /\ shown.frac < Pow10[shown.places]
    BY DEF PricesShownExactly
  <2>1. quotes[i] \in Uint /\ quotes[i] \in Nat
    BY QuoteIsUint
  <2>2. 0 \in Nat /\ Decimals \in Nat
    BY ArithAssumption
  <2> QED
    BY <2>1, <2>2, FormatThenParse, DecimalKeepsDigits
<1> QED
  BY <1>1, HeardInvariant, PTL

-----------------------------------------------------------------------------
(***************************************************************************)
(* The rate made of a price.                                               *)
(***************************************************************************)

\* A markup whose factor fits the word raises the price by it, cut off.
LEMMA MarkedIsRaised ==
    ASSUME NEW v \in Uint, NEW ppm \in Uint, Million + ppm < Word
    PROVE  /\ Marked(v, ppm) \in Nat
           /\ RaisedTo(v, ppm, Marked(v, ppm))
           /\ v <= Marked(v, ppm)
<1> DEFINE m == Million
           F == m + ppm
           a == v * F
           r == Marked(v, ppm)
<1>1. m \in Nat \ {0} /\ v \in Nat /\ ppm \in Nat /\ F \in Nat /\ F < Word
  BY ScaleFacts DEF Uint
<1>2. r \in Nat /\ r * m <= a /\ a < (r + 1) * m
  <2>1. CASE ppm = 0
    <3>1. r = v
      BY <2>1 DEF Marked
    <3>2. a = v * m /\ (v + 1) * m = v * m + m /\ v * m \in Nat
      BY <1>1, <2>1
    <3> HIDE DEF r, a
    <3> QED
      BY <1>1, <3>1, <3>2
  <2>2. CASE ppm # 0
    <3>1. MarkupFactor(ppm) = F
      BY <1>1, NoWrap DEF MarkupFactor, Wrap
    <3>2. r = a \div m
      BY <2>2, <3>1 DEF Marked
    <3>3. a \in Nat
      BY <1>1
    <3> HIDE DEF a, r, m
    <3> QED
      BY <1>1, <3>2, <3>3, Division
  <2> QED
    BY <2>1, <2>2
<1>3. RaisedTo(v, ppm, r)
  BY <1>2 DEF RaisedTo
<1>4. v <= r
  <2>1. a = v * m + v * ppm /\ v * ppm >= 0 /\ v * m \in Nat
    BY <1>1
  <2> HIDE DEF a, r, F, m
  <2>2. v * m < (r + 1) * m
    BY <1>1, <1>2, <2>1
  <2>3. v >= r + 1 => v * m >= (r + 1) * m
    BY <1>1, <1>2
  <2> QED
    BY <1>1, <1>2, <2>2, <2>3
<1> QED
  BY <1>2, <1>3, <1>4

\* Of two prices the greater is not raised to the lower.
LEMMA RaisedInOrder ==
    ASSUME NEW v \in Nat, NEW u \in Nat, v <= u, NEW ppm \in Nat,
           NEW r \in Nat, NEW s \in Nat,
           RaisedTo(v, ppm, r), RaisedTo(u, ppm, s)
    PROVE  r <= s
<1> DEFINE m == Million
           F == m + ppm
<1>1. m \in Nat \ {0} /\ F \in Nat
  BY ScaleFacts
<1>2. r * m <= v * F /\ u * F < (s + 1) * m
  BY DEF RaisedTo
<1> HIDE DEF m, F
<1>3. v * F <= u * F
  BY <1>1
<1>4. r >= s + 1 => r * m >= (s + 1) * m
  BY <1>1
<1>5. /\ r * m \in Nat /\ v * F \in Nat /\ u * F \in Nat /\ (s + 1) * m \in Nat
  BY <1>1
<1> QED
  BY <1>2, <1>3, <1>4, <1>5

\* A markup whose factor wraps lowers the price, or leaves it.
LEMMA WrappedIsLowered ==
    ASSUME NEW v \in Uint, NEW ppm \in Uint, ~(Million + ppm < Word)
    PROVE  Marked(v, ppm) \in Nat /\ Marked(v, ppm) <= v
<1> DEFINE m == Million
           F == MarkupFactor(ppm)
           a == v * F
           r == Marked(v, ppm)
<1>1. /\ m \in Nat \ {0} /\ v \in Nat /\ ppm \in Nat /\ ppm < Word
      /\ Word \in Nat \ {0} /\ m <= Word
  BY ScaleFacts DEF Uint
<1>2. F = m + ppm - Word /\ F \in Nat /\ F <= m
  <2> DEFINE d == m + ppm - Word
  <2>1. d \in Nat /\ d < Word /\ d <= m /\ m + ppm = 1 * Word + d
    BY <1>1
  <2>2. (1 * Word + d) % Word = d
    <3> HIDE DEF d
    <3> QED
      BY <1>1, <2>1, DivisionUnique
  <2> QED
    BY <2>1, <2>2 DEF MarkupFactor, Wrap
<1>3. CASE ppm = 0
  BY <1>1, <1>3 DEF Marked
<1>4. CASE ppm # 0
  <2>1. r = a \div m
    BY <1>4 DEF Marked
  <2> HIDE DEF F
  <2>2. a \in Nat /\ a <= v * m
    BY <1>1, <1>2
  <2> HIDE DEF a, r, m
  <2>3. r \in Nat /\ r * m <= a
    BY <1>1, <2>1, <2>2, Division
  <2>4. r >= v + 1 => r * m >= (v + 1) * m
    BY <1>1, <2>3
  <2>5. (v + 1) * m = v * m + m /\ v * m \in Nat /\ r * m \in Nat
    BY <1>1, <2>3
  <2>6. r <= v
    BY <1>1, <2>2, <2>3, <2>4, <2>5
  <2> QED
    BY <2>3, <2>6 DEF r
<1> QED
  BY <1>3, <1>4

\* The coefficient of a rate is the price with its markup at a finer unit.
LEMMA RateIsMarked ==
    ASSUME NEW v, NEW ppm, NEW dd \in Nat, Marked(v, ppm) \in Nat
    PROVE  LET rate == applyMarkup(v, ppm, dd)
               unit == Pow10[dd]
           IN  /\ rate = Marked(v, ppm) * unit
               /\ rate \div unit = Marked(v, ppm)
               /\ rate % unit = 0
<1> DEFINE r == Marked(v, ppm)
           unit == Pow10[dd]
<1>1. r \in Nat /\ unit \in Nat \ {0} /\ applyMarkup(v, ppm, dd) = r * unit
  BY Pow10Facts DEF applyMarkup
<1> HIDE DEF r, unit
<1> DEFINE a == r * unit
<1>2. a \in Nat /\ a = r * unit + 0
  BY <1>1
<1> HIDE DEF a
<1>3. a \div unit = r /\ a % unit = 0
  BY <1>1, <1>2, DivisionOf
<1> QED
  BY <1>1, <1>3 DEF r, unit, a

\* A common factor keeps the order.
LEMMA ScaledInOrder ==
    ASSUME NEW a \in Nat, NEW b \in Nat, NEW unit \in Nat, a <= b
    PROVE  a * unit <= b * unit
OBVIOUS

(***************************************************************************)
(* A rate is the price raised by the markup and cut, never below the price *)
(* and in the order of the prices, unless the factor wraps: then it is     *)
(* never above the price (rpcserver.go:187-205).                           *)
(***************************************************************************)
THEOREM RatesCoverPrices == HeardSpec => []MarkupCoversPrice
<1>1. QuotesOK => MarkupCoversPrice
  <2> SUFFICES ASSUME QuotesOK, NEW i \in DOMAIN quotes, NEW j \in DOMAIN quotes,
                      NEW ppm \in MarkupsPPM, NEW dd \in DecimalDisplays
               PROVE  LET rate(v) == applyMarkup(v, ppm, dd)
                          unit    == Pow10[dd]
                      IN  IF Million + ppm < Word
                          THEN /\ RaisedTo(quotes[i], ppm, rate(quotes[i]) \div unit)
                               /\ rate(quotes[i]) % unit = 0
                               /\ quotes[i] * unit <= rate(quotes[i])
                               /\ quotes[i] <= quotes[j] =>
                                     rate(quotes[i]) <= rate(quotes[j])
                          ELSE rate(quotes[i]) <= quotes[i] * unit
    BY DEF MarkupCoversPrice
  <2> DEFINE v == quotes[i]
             u == quotes[j]
             r == Marked(v, ppm)
             s == Marked(u, ppm)
             unit == Pow10[dd]
             rate(x) == applyMarkup(x, ppm, dd)
  <2>1. /\ v \in Uint /\ u \in Uint /\ ppm \in Uint
        /\ v \in Nat /\ u \in Nat /\ ppm \in Nat /\ dd \in Nat
    <3>1. ppm \in Uint /\ ppm \in Nat /\ dd \in Nat
      BY QuotesAssumption DEF Uint
    <3> QED
      BY <3>1, QuoteIsUint
  <2>2. unit \in Nat
    BY <2>1, Pow10Facts
  <2> HIDE DEF v, u, unit
  <2>3. CASE Million + ppm < Word
    <3>1. /\ r \in Nat /\ RaisedTo(v, ppm, r) /\ v <= r
          /\ s \in Nat /\ RaisedTo(u, ppm, s)
      BY <2>1, <2>3, MarkedIsRaised
    <3>2. /\ rate(v) = r * unit /\ rate(v) \div unit = r /\ rate(v) % unit = 0
          /\ rate(u) = s * unit
      BY <2>1, <3>1, RateIsMarked DEF unit
    <3>3. v <= u => r <= s
      BY <2>1, <3>1, RaisedInOrder
    <3> HIDE DEF r, s, rate
    <3>4. v * unit <= rate(v)
      BY <2>1, <2>2, <3>1, <3>2, ScaledInOrder
    <3>5. v <= u => rate(v) <= rate(u)
      BY <2>2, <3>1, <3>2, <3>3, ScaledInOrder
    <3>6. RaisedTo(v, ppm, rate(v) \div unit) /\ rate(v) % unit = 0
      BY <3>1, <3>2
    <3> QED
      BY <2>3, <3>4, <3>5, <3>6 DEF v, u, unit, rate
  <2>4. CASE ~(Million + ppm < Word)
    <3>1. r \in Nat /\ r <= v
      BY <2>1, <2>4, WrappedIsLowered
    <3>2. rate(v) = r * unit
      BY <2>1, <3>1, RateIsMarked DEF unit
    <3> HIDE DEF r, rate
    <3>3. rate(v) <= v * unit
      BY <2>1, <2>2, <3>1, <3>2, ScaledInOrder
    <3> QED
      BY <2>4, <3>3 DEF v, unit, rate
  <2> QED
    BY <2>3, <2>4
<1> QED
  BY <1>1, HeardInvariant, PTL
=============================================================================
