----------------------------- MODULE PriceStats -----------------------------
(***************************************************************************)
(* The numbers GET /auctions shows for an item, from the sorted list of    *)
(* its prices: calculateMedian, calculateArithmeticMean, ItemInfo.         *)
(***************************************************************************)
EXTENDS Integers, Sequences, Functions

\* Division as in Go: towards zero.
Quotient(a, b) ==
  LET magnitude == (IF a < 0 THEN -a ELSE a) \div (IF b < 0 THEN -b ELSE b)
  IN IF (a < 0) = (b < 0) THEN magnitude ELSE -magnitude

Sorted(list) == \A i, j \in DOMAIN list : i <= j => list[i] <= list[j]

\* slices.Sort: a rearrangement that is sorted.  Mutant: the list as it came.
SortNot(cost) == cost
Sort(cost) ==
  LET At(place) == [i \in DOMAIN cost |-> cost[place[i]]]
  IN At(CHOOSE place \in Bijection(DOMAIN cost, DOMAIN cost) : Sorted(At(place)))

\* Go's list[i] is list[i + 1] here.  For an even number of prices above two the
\* two after the middle are averaged, of two prices the lower is taken.  Mutant: of an
\* odd number the one before the middle.
calculateMedianBefore(list) ==
  LET n == Len(list) IN
  IF n = 0 THEN 0
  ELSE IF n <= 2 THEN list[1]
  ELSE IF n % 2 = 0 THEN Quotient(list[n \div 2 + 1] + list[n \div 2 + 2], 2)
  ELSE list[n \div 2]
calculateMedian(list) ==
  LET n == Len(list) IN
  IF n = 0 THEN 0
  ELSE IF n <= 2 THEN list[1]
  ELSE IF n % 2 = 0 THEN Quotient(list[n \div 2 + 1] + list[n \div 2 + 2], 2)
  ELSE list[n \div 2 + 1]

\* The sum of the first n prices.
Sum(list) ==
  LET sum[n \in 0 .. Len(list)] == IF n = 0 THEN 0 ELSE sum[n - 1] + list[n]
  IN sum[Len(list)]

\* Mean is a float64 in the code, here the pair of what is divided.
ItemInfo(cost) ==
  [ Lowest |-> cost[1],
    Highest |-> cost[Len(cost)],
    Median |-> calculateMedian(cost),
    Mean |-> <<Sum(cost), Len(cost)>> ]

-----------------------------------------------------------------------------
\* What the median promises: it is within the range of the prices, the lower half
\* of them is not above it, and at most one price after the middle is below it.
Splits(median, list) ==
  LET n == Len(list) IN
  /\ list[1] <= median /\ median <= list[n]
  /\ \A i \in 1 .. n : 2 * i <= n + 1 => list[i] <= median
  /\ \A i \in 1 .. n : 2 * i >= n + 3 => median <= list[i]
=============================================================================
