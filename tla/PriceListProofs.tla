--------------------------- MODULE PriceListProofs ---------------------------
(***************************************************************************)
(* Proofs about calculateAverage, for any number of auctions in any order, *)
(* whatever is decoded of each: what it makes of the offers its loop finds.*)
(***************************************************************************)
EXTENDS PriceList, PriceStatsProofs

\* A list one longer, of one item more.
LEMMA ListsAppend ==
  ASSUME NEW S, NEW P, NEW list, NEW at, Lists(list, at, P, S),
         NEW x, x \notin S, P[x] \in Int
  PROVE  \E to : Lists(Append(list, P[x]), to, P, S \cup {x})
<1> DEFINE n == Len(list)
           new == Append(list, P[x])
           to == [i \in 1 .. n + 1 |-> IF i = n + 1 THEN x ELSE at[i]]
<1>1. /\ list \in Seq(Int) /\ n \in Nat
      /\ \A i \in 1 .. n : list[i] = P[at[i]]
  BY LenProperties DEF Lists
<1>2. Enumerates(at, n, S)
  BY BijectionIs DEF Lists
<1>3. /\ at \in [1 .. n -> S]
      /\ \A i, j \in 1 .. n : at[i] = at[j] => i = j
      /\ \A y \in S : \E i \in 1 .. n : at[i] = y
  BY <1>2 DEF Enumerates
<1>4. /\ new \in Seq(Int) /\ Len(new) = n + 1 /\ new[n + 1] = P[x]
      /\ \A i \in 1 .. n : new[i] = list[i]
  BY <1>1, AppendProperties
<1> HIDE DEF n, new
<1>5. \A i \in 1 .. n + 1 : i \in 1 .. n \/ i = n + 1
  BY <1>1
<1>6. to \in [1 .. n + 1 -> S \cup {x}]
  BY <1>3, <1>5
<1>7. to[n + 1] = x /\ \A i \in 1 .. n : to[i] = at[i] /\ to[i] # x /\ i # n + 1
  BY <1>1, <1>3
<1> HIDE DEF to
<1>8. \A i, j \in 1 .. n + 1 : to[i] = to[j] => i = j
  BY <1>3, <1>5, <1>7
<1>9. \A y \in S \cup {x} : \E i \in 1 .. n + 1 : to[i] = y
  <2>1. n + 1 \in 1 .. n + 1 /\ 1 .. n \subseteq 1 .. n + 1
    BY <1>1
  <2> QED
    BY <1>3, <1>7, <2>1
<1>10. Enumerates(to, n + 1, S \cup {x})
  BY <1>6, <1>8, <1>9 DEF Enumerates
<1>11. to \in Bijection(1 .. n + 1, S \cup {x})
  BY <1>10, BijectionIs
<1>12. \A i \in 1 .. n + 1 : new[i] = P[to[i]]
  BY <1>1, <1>4, <1>5, <1>7
<1>13. Lists(new, to, P, S \cup {x})
  BY <1>4, <1>11, <1>12 DEF Lists
<1> QED
  BY <1>13 DEF new

\* An empty list is of nothing.
LEMMA ListsNothing ==
  ASSUME NEW P
  PROVE  \E at : Lists(<<>>, at, P, {})
<1>1. \A i \in 1 .. 0 : FALSE
  OBVIOUS
<1>2. Enumerates([i \in 1 .. 0 |-> 0], 0, {})
  BY <1>1 DEF Enumerates
<1>3. [i \in 1 .. 0 |-> 0] \in Bijection(1 .. 0, {})
  BY <1>2, BijectionIs
<1>4. <<>> \in Seq(Int) /\ Len(<<>>) = 0
  OBVIOUS
<1>5. Lists(<<>>, [i \in 1 .. 0 |-> 0], P, {})
  BY <1>1, <1>3, <1>4 DEF Lists
<1> QED
  BY <1>5

-----------------------------------------------------------------------------
\* The loop of calculateAverage.

\* The rounds among the first n that found an offer, and those that found one for key.
Found(offers, n) == {m \in 1 .. n : offers[m].res = "ok"}
For(offers, n, key) == {m \in Found(offers, n) : offers[m].value.key = key}
Price(offers) == [m \in 1 .. Len(offers) |-> offers[m].value.price]

\* One round, and all of them.
Round(offers, before, n) ==
  IF before.res = "ok" THEN AddPrice(before.value, offers[n]) ELSE before

Rounds(offers, items) ==
  /\ items[0] = Id(<<>>)
  /\ \A n \in 1 .. Len(offers) : items[n] = Round(offers, items[n - 1], n)

\* One round after the other: PriceLists is what the last leaves.
LEMMA RoundsExist ==
  ASSUME NEW offers, Len(offers) \in Nat
  PROVE  \E items : Rounds(offers, items) /\ PriceLists(offers) = items[Len(offers)]
<1> DEFINE N == Len(offers)
           Step(h) == [n \in 0 .. N |-> IF n = 0 THEN Id(<<>>) ELSE Round(offers, h[n - 1], n)]
           Good(f, k) == /\ f[0] = Id(<<>>)
                         /\ \A n \in 1 .. k : f[n] = Round(offers, f[n - 1], n)
           K == {k \in Nat : \E f : Good(f, k)}
<1>0. N \in Nat
  OBVIOUS
<1> HIDE DEF N
<1>1. 0 \in K
  <2>1. Good([n \in 0 .. 0 |-> Id(<<>>)], 0)
    OBVIOUS
  <2> HIDE DEF Good
  <2> QED
    BY <2>1
<1>2. ASSUME NEW k \in Nat, k \in K PROVE k + 1 \in K
  <2>1. PICK f : Good(f, k)
    BY <1>2
  <2> DEFINE g == [n \in 0 .. k + 1 |-> IF n = k + 1 THEN Round(offers, f[k], k + 1) ELSE f[n]]
  <2>2. g[k + 1] = Round(offers, f[k], k + 1) /\ \A n \in 0 .. k : g[n] = f[n]
    OBVIOUS
  <2> HIDE DEF g
  <2>3. g[0] = Id(<<>>)
    BY <2>1, <2>2
  <2>4. ASSUME NEW n \in 1 .. k + 1 PROVE g[n] = Round(offers, g[n - 1], n)
    <3>1. CASE n = k + 1
      <4>1. k \in 0 .. k /\ n - 1 = k
        BY <3>1
      <4> QED
        BY <2>2, <3>1, <4>1
    <3>2. CASE n \in 1 .. k
      <4>1. n \in 0 .. k /\ n - 1 \in 0 .. k
        BY <3>2
      <4> QED
        BY <2>1, <2>2, <3>2, <4>1
    <3> QED
      BY <3>1, <3>2
  <2>5. Good(g, k + 1)
    BY <2>3, <2>4
  <2> HIDE DEF Good
  <2> QED
    BY <2>5
<1>3. N \in K
  <2>1. K \in SUBSET Nat
    OBVIOUS
  <2> HIDE DEF K
  <2> QED
    BY <1>0, <1>1, <1>2, <2>1, StepByStep
<1>4. PICK f : Good(f, N)
  BY <1>3
<1>5. \E h : h = Step(h)
  <2> DEFINE h == [n \in 0 .. N |-> f[n]]
  <2>1. \A n \in 0 .. N : h[n] = IF n = 0 THEN Id(<<>>) ELSE Round(offers, h[n - 1], n)
    <3>1. ASSUME NEW n \in 0 .. N, n # 0 PROVE h[n] = Round(offers, h[n - 1], n)
      <4>1. n \in 1 .. N /\ n - 1 \in 0 .. N
        BY <1>0, <3>1
      <4> QED
        BY <1>4, <4>1
    <3> QED
      BY <1>0, <1>4, <3>1
  <2>2. h = Step(h)
    BY <2>1
  <2> QED
    BY <2>2
<1> DEFINE items == CHOOSE h : h = Step(h)
<1>6. items = Step(items)
  <2> HIDE DEF Step
  <2> QED
    BY <1>5
<1>7. PriceLists(offers) = items[N]
  BY DEF PriceLists, Round, N
<1> HIDE DEF items
<1>8. items[0] = Id(<<>>) /\ \A n \in 1 .. N : items[n] = Round(offers, items[n - 1], n)
  BY <1>0, <1>6
<1>9. Rounds(offers, items)
  BY <1>8 DEF Rounds, N
<1> QED
  BY <1>7, <1>9 DEF N

\* After n rounds without a panic: there is a list for each item found, of the prices
\* it was found at.
Collects(items, offers, n) ==
  /\ \A m \in 1 .. n : offers[m].res \in {"ok", "nil"}
  /\ DOMAIN items = {offers[m].value.key : m \in Found(offers, n)}
  /\ \A key \in DOMAIN items : \E at : Lists(items[key], at, Price(offers), For(offers, n, key))

\* It holds before the first round.
LEMMA CollectsNothing ==
  ASSUME NEW offers
  PROVE  Collects(<<>>, offers, 0)
<1>1. Found(offers, 0) = {} /\ DOMAIN <<>> = {}
  BY DEF Found
<1> QED
  BY <1>1 DEF Collects

\* The lists with one price more.
WithOffer(items, key, price) ==
  [k \in DOMAIN items \cup {key} |->
     IF k = key THEN Append(IF key \in DOMAIN items THEN items[key] ELSE <<>>, price)
     ELSE items[k]]

\* That is what an offer does to them.
LEMMA AddPriceOk ==
  ASSUME NEW items, NEW offer, offer.res = "ok"
  PROVE  AddPrice(items, offer).value = WithOffer(items, offer.value.key, offer.value.price)
<1>1. AddPrice(items, offer) = Id(WithOffer(items, offer.value.key, offer.value.price))
  BY Zenon DEF AddPrice, WithOffer
<1> QED
  BY <1>1 DEF Id

\* Each round keeps it.
LEMMA CollectsRound ==
  ASSUME NEW offers, Len(offers) \in Nat,
         \A m \in 1 .. Len(offers) : offers[m].res = "ok" => offers[m].value.price \in Int,
         NEW n \in 1 .. Len(offers), NEW before, before.res = "ok" => Collects(before.value, offers, n - 1),
         Round(offers, before, n).res = "ok"
  PROVE  Collects(Round(offers, before, n).value, offers, n)
<1> DEFINE N == Len(offers)
           items == before.value
           offer == offers[n]
           P == Price(offers)
<1>1. before.res = "ok" /\ Round(offers, before, n) = AddPrice(items, offer)
  BY DEF Round
<1>2. Collects(items, offers, n - 1)
  BY <1>1
<1>3. offer.res \in {"ok", "nil"}
  BY <1>1 DEF AddPrice
<1>4. \A m : m \in 1 .. n <=> m \in 1 .. n - 1 \/ m = n
  OBVIOUS
<1>5. \A m \in 1 .. n : offers[m].res \in {"ok", "nil"}
  BY <1>2, <1>3, <1>4 DEF Collects
<1>6. CASE offer.res = "nil"
  <2>1. AddPrice(items, offer) = Id(items)
    BY <1>6 DEF AddPrice
  <2>2. Round(offers, before, n).value = items
    BY <1>1, <2>1 DEF Id
  <2>3. Found(offers, n) = Found(offers, n - 1)
    BY <1>4, <1>6 DEF Found
  <2>4. \A key : For(offers, n, key) = For(offers, n - 1, key)
    BY <2>3 DEF For
  <2> QED
    BY <1>2, <1>5, <2>2, <2>3, <2>4 DEF Collects
<1>7. CASE offer.res = "ok"
  <2> DEFINE new == offer.value.key
             old == IF new \in DOMAIN items THEN items[new] ELSE <<>>
             after == WithOffer(items, new, offer.value.price)
  <2>1. /\ DOMAIN after = DOMAIN items \cup {new}
        /\ after[new] = Append(old, offer.value.price)
        /\ \A k \in DOMAIN items \ {new} : after[k] = items[k]
    BY DEF WithOffer
  <2>2. Round(offers, before, n).value = after
    BY <1>1, <1>7, AddPriceOk
  <2> HIDE DEF after
  <2>3. Found(offers, n) = Found(offers, n - 1) \cup {n}
    BY <1>4, <1>7 DEF Found
  <2>4. DOMAIN after = {offers[m].value.key : m \in Found(offers, n)}
    BY <1>2, <2>1, <2>3 DEF Collects
  <2>5. ASSUME NEW key \in DOMAIN after
        PROVE  \E at : Lists(after[key], at, P, For(offers, n, key))
    <3>1. CASE key # new
      <4>1. key \in DOMAIN items /\ after[key] = items[key]
        BY <2>1, <2>5, <3>1
      <4>2. For(offers, n, key) = For(offers, n - 1, key)
        BY <2>3, <3>1 DEF For
      <4> QED
        BY <1>2, <4>1, <4>2 DEF Collects
    <3>2. CASE key = new
      <4>1. after[key] = Append(old, offer.value.price)
        BY <2>1, <3>2
      <4>2. For(offers, n, new) = For(offers, n - 1, new) \cup {n}
        BY <2>3 DEF For
      <4>3. n \notin For(offers, n - 1, new)
        BY DEF For, Found
      <4>4. P[n] = offer.value.price /\ P[n] \in Int
        BY <1>7 DEF Price
      <4>5. \E at : Lists(old, at, P, For(offers, n - 1, new))
        <5>1. CASE new \in DOMAIN items
          BY <1>2, <5>1 DEF Collects
        <5>2. CASE new \notin DOMAIN items
          <6>1. For(offers, n - 1, new) = {}
            BY <1>2, <5>2 DEF For, Collects
          <6> QED
            BY <5>2, <6>1, ListsNothing
        <5> QED
          BY <5>1, <5>2
      <4> HIDE DEF P, old, offer
      <4>6. PICK at : Lists(old, at, P, For(offers, n - 1, new))
        BY <4>5
      <4>7. \E to : Lists(Append(old, P[n]), to, P, For(offers, n - 1, new) \cup {n})
        BY <4>3, <4>4, <4>6, ListsAppend
      <4> QED
        BY <3>2, <4>1, <4>2, <4>4, <4>7
    <3> QED
      BY <3>1, <3>2
  <2> HIDE DEF after
  <2> QED
    BY <1>5, <2>2, <2>4, <2>5 DEF Collects
<1> QED
  BY <1>3, <1>6, <1>7

\* The loop over any auctions.
LEMMA PriceListsCollects ==
  ASSUME NEW offers, Len(offers) \in Nat,
         \A m \in 1 .. Len(offers) : offers[m].res = "ok" => offers[m].value.price \in Int,
         PriceLists(offers).res = "ok"
  PROVE  Collects(PriceLists(offers).value, offers, Len(offers))
<1> DEFINE N == Len(offers)
<1>1. PICK items : Rounds(offers, items) /\ PriceLists(offers) = items[N]
  BY RoundsExist
<1> DEFINE K == {k \in Nat : k <= N => (items[k].res = "ok" => Collects(items[k].value, offers, k))}
<1>2. 0 \in K
  <2>1. items[0].value = <<>>
    BY <1>1 DEF Rounds, Id
  <2> QED
    BY <2>1, CollectsNothing
<1>3. ASSUME NEW k \in Nat, k \in K PROVE k + 1 \in K
  <2> SUFFICES ASSUME k + 1 <= N, items[k + 1].res = "ok"
               PROVE  Collects(items[k + 1].value, offers, k + 1)
    OBVIOUS
  <2>1. k + 1 \in 1 .. N /\ (k + 1) - 1 = k /\ k <= N
    OBVIOUS
  <2>2. items[k + 1] = Round(offers, items[k], k + 1)
    BY <1>1, <2>1 DEF Rounds
  <2>3. items[k].res = "ok" => Collects(items[k].value, offers, (k + 1) - 1)
    BY <1>3, <2>1
  <2> QED
    BY <2>1, <2>2, <2>3, CollectsRound
<1>4. N \in K
  <2>1. K \in SUBSET Nat
    OBVIOUS
  <2> HIDE DEF K
  <2> QED
    BY <1>2, <1>3, <2>1, StepByStep
<1>5. items[N].res = "ok" => Collects(items[N].value, offers, N)
  BY <1>4
<1> QED
  BY <1>1, <1>5

\* What the loop finds in the auctions.
OffersOf(auctions, got) == [m \in 1 .. Len(auctions) |-> Offer(auctions[m], got[auctions[m]])]

\* What each published line tells: the prices of the offers for its item.
THEOREM AverageTells ==
  ASSUME NEW A, NEW auctions \in Seq(A), NEW got,
         \A m \in 1 .. Len(auctions) :
           OffersOf(auctions, got)[m].res = "ok" => OffersOf(auctions, got)[m].value.price \in Int,
         calculateAverage(auctions, got).res = "ok"
  PROVE  LET offers == OffersOf(auctions, got)
             prices == calculateAverage(auctions, got).value
             Lines(key) == For(offers, Len(auctions), key)
         IN /\ \A m \in 1 .. Len(auctions) : offers[m].res \in {"ok", "nil"}
            /\ DOMAIN prices = {offers[m].value.key : m \in Found(offers, Len(auctions))}
            /\ \A key \in DOMAIN prices :
                 Tells(prices[key], [m \in Lines(key) |-> offers[m].value.price], Lines(key))
<1> DEFINE N == Len(auctions)
           offers == OffersOf(auctions, got)
           all == PriceLists(offers)
           prices == calculateAverage(auctions, got).value
           Lines(key) == For(offers, N, key)
<1>1. N \in Nat /\ DOMAIN auctions = 1 .. N
  BY LenProperties
<1>2. Len(offers) = N
  BY <1>1 DEF OffersOf
<1>3. \A m \in 1 .. N : offers[m].res = "ok" => offers[m].value.price \in Int
  OBVIOUS
<1>4. calculateAverage(auctions, got) =
        IF all.res = "ok" THEN Id([key \in DOMAIN all.value |-> ItemInfo(Sort(all.value[key]))])
        ELSE all
  BY <1>1 DEF calculateAverage, OffersOf
<1>5. all.res = "ok" /\ prices = [key \in DOMAIN all.value |-> ItemInfo(Sort(all.value[key]))]
  BY <1>4 DEF Id
<1> HIDE DEF offers, all, prices, N
<1>6. Collects(all.value, offers, N)
  BY <1>1, <1>2, <1>3, <1>5, PriceListsCollects DEF all
<1>7. ASSUME NEW key \in DOMAIN prices
      PROVE  Tells(prices[key], [m \in Lines(key) |-> offers[m].value.price], Lines(key))
  <2> DEFINE S == Lines(key)
             P == [m \in S |-> offers[m].value.price]
             list == all.value[key]
  <2>1. key \in DOMAIN all.value /\ prices[key] = ItemInfo(Sort(list))
    BY <1>5, <1>7
  <2>2. PICK at : Lists(list, at, Price(offers), S)
    BY <1>6, <2>1 DEF Collects
  <2>3. S \subseteq 1 .. N /\ \A m \in S : P[m] \in Int /\ P[m] = Price(offers)[m]
    BY <1>2, <1>3 DEF For, Found, Price
  <2>4. S # {}
    BY <1>6, <2>1 DEF Collects, For
  <2>5. P \in [S -> Int]
    BY <2>3
  <2>6. Lists(list, at, P, S)
    <3> HIDE DEF P, S
    <3>1. \A i \in 1 .. Len(list) : at[i] \in S
      <4>1. Enumerates(at, Len(list), S)
        BY <2>2, BijectionIs DEF Lists
      <4> QED
        BY <4>1 DEF Enumerates
    <3> QED
      BY <2>2, <2>3, <3>1 DEF Lists
  <2>7. Tells(ItemInfo(Sort(list)), P, S)
    <3> HIDE DEF P, S, list
    <3> QED
      BY <2>4, <2>5, <2>6, ItemInfoTells
  <2> QED
    BY <2>1, <2>7
<1>8. DOMAIN prices = {offers[m].value.key : m \in Found(offers, N)}
  BY <1>5, <1>6 DEF Collects
<1>9. \A m \in 1 .. N : offers[m].res \in {"ok", "nil"}
  BY <1>6 DEF Collects
<1> QED
  BY <1>7, <1>8, <1>9 DEF offers, prices, N

-----------------------------------------------------------------------------
\* The price of a piece.

\* Division as in Go does not leave the range of what is divided, and keeps its sign
\* if the divisor is positive.
LEMMA QuotientWithin ==
  ASSUME NEW a \in Nat, NEW b \in Int, b # 0
  PROVE  /\ Quotient(a, b) \in -a .. a
         /\ b > 0 => Quotient(a, b) >= 0
<1>1. ASSUME NEW d \in Nat, d # 0 PROVE a \div d \in 0 .. a
  BY <1>1
<1>2. CASE b > 0
  <2>1. Quotient(a, b) = a \div b
    BY <1>2 DEF Quotient
  <2>2. a \div b \in 0 .. a
    BY <1>1, <1>2
  <2> QED
    BY <2>1, <2>2
<1>3. CASE b < 0
  <2>1. Quotient(a, b) = -(a \div (-b))
    BY <1>3 DEF Quotient
  <2>2. -b \in Nat /\ -b # 0
    BY <1>3
  <2>3. a \div (-b) \in 0 .. a
    BY <1>1, <2>2
  <2> HIDE DEF Quotient
  <2> QED
    BY <1>3, <2>1, <2>3
<1> QED
  BY <1>2, <1>3

\* An offer's price per piece is never above the price of the stack.  It is below zero
\* only where the count is, which the code takes from a signed byte.
THEOREM PieceCostsNoMore ==
  ASSUME NEW a, NEW item, Listing[a].starting_bid \in Nat, Count(item.value) \in Int,
         Offer(a, item).res = "ok"
  PROVE  LET price == Offer(a, item).value.price
             bid == Listing[a].starting_bid
         IN /\ price \in -bid .. bid
            /\ Count(item.value) > 0 => price >= 0
<1> DEFINE bid == Listing[a].starting_bid
           count == Count(item.value)
           sbId == GetSbId(item.value)
<1>1. Offer(a, item).res # "nil" /\ Offer(a, item).res # "panic"
  OBVIOUS
<1>2. sbId.res = "ok" /\ count # 0
      /\ Offer(a, item) = Id([key |-> sbId.value, price |-> Quotient(bid, count)])
  BY <1>1 DEF Offer, Nil, Panicked
<1>3. Offer(a, item).value.price = Quotient(bid, count)
  BY <1>2 DEF Id
<1> HIDE DEF bid, count
<1>4. /\ Quotient(bid, count) \in -bid .. bid
      /\ count > 0 => Quotient(bid, count) >= 0
  BY <1>2, QuotientWithin DEF bid, count
<1> QED
  BY <1>3, <1>4 DEF bid, count
==============================================================================
