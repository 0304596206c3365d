------------------------------- MODULE Median -------------------------------
(***************************************************************************)
(* oracle/median.go: the aggregation of one cycle's quotes into one price. *)
(*                                                                         *)
(* The slice of prices is a function q from the sources that answered to   *)
(* the values they quoted: the order in which the answers arrived, which   *)
(* the sort erases, is not part of it.  A sequence of values is such a     *)
(* function too.                                                           *)
(***************************************************************************)
EXTENDS Integers, FiniteSets, Functions

(***************************************************************************)
(* sort.Slice: an order of the sources in which the values are ascending.  *)
(* Go's sort is not stable, so any such order will do.                     *)
(***************************************************************************)
Ascending(q, order) ==
    \A i, j \in DOMAIN order : i < j => q[order[i]] <= q[order[j]]

Orders(S) == Bijection(1..Cardinality(S), S)

\* Mutant: the values are not sorted.
Unsorted(q) == CHOOSE order \in Orders(DOMAIN q) : TRUE

Sorted(q) == CHOOSE order \in Orders(DOMAIN q) : Ascending(q, order)

\* Mutant: the upper of the two middle values.
UpperIndex(n) == n \div 2 + 1

(***************************************************************************)
(* The 1-based position, in the sorted slice of n values, of the value     *)
(* median returns: vals[mid-1] of a Go slice of even length, vals[mid] of  *)
(* one of odd length.                                                      *)
(***************************************************************************)
MedianIndex(n) ==
    LET mid == n \div 2
    IN  IF n % 2 = 0 THEN mid ELSE mid + 1

median(q) ==
    LET n == Cardinality(DOMAIN q)
    IN  IF n = 0 THEN 0 ELSE q[Sorted(q)[MedianIndex(n)]]

-----------------------------------------------------------------------------
(***************************************************************************)
(* The reference: the k-th smallest value of q by counting, with no order. *)
(* v has fewer than k values below it and at least k values up to it.      *)
(***************************************************************************)
Below(q, v)  == {s \in DOMAIN q : q[s] < v}
AtMost(q, v) == {s \in DOMAIN q : q[s] <= v}

IsRanked(q, k, v) ==
    /\ \E s \in DOMAIN q : q[s] = v
    /\ Cardinality(Below(q, v)) < k
    /\ k <= Cardinality(AtMost(q, v))

\* The lower of the two middle ranks: 1 of 1, 1 of 2, 2 of 3, 2 of 4, ...
LowerMiddle(n) == (n + 1) \div 2

(***************************************************************************)
(* v lies between the least and the greatest value quoted by the sources   *)
(* of T.                                                                   *)
(***************************************************************************)
WithinQuotes(q, T, v) ==
    /\ \E s \in T : q[s] <= v
    /\ \E s \in T : v <= q[s]

(***************************************************************************)
(* Whatever a minority O of the sources says, the value v lies between     *)
(* quotes of the others: with three or four quotes one source cannot pull  *)
(* it away, with five two cannot.                                          *)
(***************************************************************************)
ResistsMinority(q, v) ==
    \A O \in SUBSET DOMAIN q :
        2 * Cardinality(O) < Cardinality(DOMAIN q) =>
            WithinQuotes(q, DOMAIN q \ O, v)
=============================================================================
