------------------------- MODULE PriceRefreshProofs --------------------------
(***************************************************************************)
(* Proofs about PriceRefresh, for any instances, durations and bounds: its *)
(* type invariant, that a refresh from the index is complete, and that the *)
(* prices published are those of the items on sale.                        *)
(***************************************************************************)
EXTENDS PriceRefresh, PriceListProofs

\* Flags of the goroutine.
Flags == initial \in BOOLEAN /\ due \in BOOLEAN

\* Redis' entry; prices in it have time left.
EntryType ==
  /\ entry \in [kind : {"none", "<3", "prices"}, ttl : 0 .. EntryLifetime]
  /\ entry.kind = "prices" => entry.ttl > 0

\* Who reads the index reads keys of it, who asks Hypixel was given none, and who
\* does neither holds nothing.
Reading ==
  /\ pc \in {"down", "begin", "keys", "wait"} => auctions = <<>> /\ keys = {}
  /\ pc = "fetch" => keys = {}
  /\ pc = "read" => keys # {}
  /\ keys # {} => Collected \subseteq keys

\* The type invariant, with what each point of the code knows of the others.
TypeInv ==
  /\ scene \in Scene
  /\ pc \in {"down", "begin", "fetch", "keys", "read", "average", "publish", "wait"}
  /\ auctions \in Seq(scene.offered)
  /\ keys \subseteq scene.offered
  /\ index \in [scene.offered -> 0 .. IndexLifetime]
  /\ EntryType /\ Flags /\ Reading
  /\ kills \in 0 .. MaxKills

\* It is as strong as the type invariant.
LEMMA TypeInvSuffices == TypeInv => TypeOK
<1> SUFFICES ASSUME TypeInv PROVE TypeOK
  OBVIOUS
<1>1. initial \in BOOLEAN /\ due \in BOOLEAN
  BY DEF TypeInv, Flags
<1> QED
  BY <1>1 DEF TypeInv, TypeOK, EntryType, Reading

\* One auction more is collected, whether it was there before or not.
LEMMA AppendCollects ==
  ASSUME auctions \in Seq(scene.offered), NEW a \in scene.offered,
         scene' = scene, auctions' = Append(auctions, a)
  PROVE  auctions' \in Seq(scene'.offered) /\ Collected' = Collected \cup {a}
<1>1. Len(auctions) \in Nat
  BY LenProperties
<1>2. /\ auctions' \in Seq(scene.offered) /\ Len(auctions') = Len(auctions) + 1
      /\ auctions'[Len(auctions) + 1] = a
      /\ \A n \in 1 .. Len(auctions) : auctions'[n] = auctions[n]
  BY AppendProperties
<1>3. DOMAIN auctions = 1 .. Len(auctions) /\ DOMAIN auctions' = 1 .. Len(auctions) + 1
  BY <1>1, <1>2
<1>4. Collected' = Collected \cup {a}
  BY <1>1, <1>2, <1>3 DEF Collected
<1> QED
  BY <1>2, <1>4

\* Any instance is a possible start.
LEMMA TypeInit == Init => TypeInv
<1> SUFFICES ASSUME Init PROVE TypeInv
  OBVIOUS
<1>1. auctions \in Seq(scene.offered)
  BY DEF Init
<1>2. Flags
  BY DEF Init, Flags
<1>3. EntryType
  BY LifetimeAssumption DEF Init, EntryType, NoEntry
<1>4. Reading
  BY DEF Init, Reading
<1>5. index \in [scene.offered -> 0 .. IndexLifetime]
  BY LifetimeAssumption DEF Init
<1> QED
  BY <1>1, <1>2, <1>3, <1>4, <1>5, KillAssumption DEF Init, TypeInv

\* No action sets a flag to anything else.
LEMMA FlagsStep == Flags /\ [Next]_vars => Flags'
<1> SUFFICES ASSUME Flags, [Next]_vars PROVE Flags'
  OBVIOUS
<1> USE DEF Flags, GiveUp
<1>1. CASE FetchAll
  <2>1. CASE GetAuctions \/ Finish \/ Keys
    BY <2>1 DEF GetAuctions, Finish, Keys
  <2>2. CASE \E a \in scene.offered : Add(a) \/ GetAll(a)
    BY <2>2 DEF Add, GetAll
  <2>3. CASE Publish
    BY <2>3, Zenon DEF Publish
  <2>4. CASE CalculateAverage
    BY <2>4 DEF CalculateAverage
  <2> QED
    BY <1>1, <2>1, <2>2, <2>3, <2>4 DEF FetchAll, Steps
<1>2. CASE FetchFails \/ NextRefresh \/ Crash \/ Start
  BY <1>2 DEF FetchFails, NextRefresh, Crash, Start
<1>3. CASE Tick
  <2>1. initial' = initial
    BY <1>3 DEF Tick
  <2>2. due' \in BOOLEAN
    BY <1>3, Zenon DEF Tick
  <2> QED
    BY <2>1, <2>2
<1>4. CASE UNCHANGED vars
  BY <1>4 DEF vars
<1> QED
  BY <1>1, <1>2, <1>3, <1>4 DEF Next

\* Who is done with a refresh holds nothing.
LEMMA Ended ==
  ASSUME EndRefresh, pc' \in {"down", "wait"}
  PROVE  auctions' = <<>> /\ Reading' /\ keys' = {}
<1>1. auctions' = <<>> /\ keys' = {}
  BY DEF EndRefresh
<1> QED
  BY <1>1 DEF Reading

\* Each action keeps it.
LEMMA TypeStep == TypeInv /\ [Next]_vars => TypeInv'
<1> SUFFICES ASSUME TypeInv, [Next]_vars PROVE TypeInv'
  OBVIOUS
<1>0. /\ Flags' /\ Reading /\ EntryType
      /\ UNCHANGED auctions => Collected' = Collected
      /\ UNCHANGED entry => EntryType'
  BY FlagsStep DEF TypeInv, Collected, EntryType
<1> USE DEF TypeInv
<1>1. ASSUME GiveUp PROVE TypeInv'
  BY <1>0, <1>1, Ended DEF GiveUp
<1>2. CASE GetAuctions
  <2>1. Reading'
    BY <1>0, <1>2 DEF GetAuctions, Reading, refresh
  <2> QED
    BY <1>0, <1>2, <2>1 DEF GetAuctions, refresh
<1>3. ASSUME NEW a \in scene.offered, Add(a) PROVE TypeInv'
  <2>1. auctions' \in Seq(scene'.offered)
    BY <1>3, AppendCollects DEF Add
  <2>2. Reading'
    BY <1>0, <1>3 DEF Add, Reading
  <2>3. index' \in [scene.offered -> 0 .. IndexLifetime]
    BY <1>3, LifetimeAssumption DEF Add
  <2> QED
    BY <1>0, <1>3, <2>1, <2>2, <2>3 DEF Add
<1>4. CASE FetchFails
  BY <1>1, <1>4 DEF FetchFails
<1>5. CASE Finish
  <2>1. EntryType'
    BY <1>0, <1>5, LifetimeAssumption DEF Finish, EntryType
  <2>2. Reading'
    BY <1>0, <1>5 DEF Finish, Reading, refresh
  <2> QED
    BY <1>0, <1>5, <2>1, <2>2 DEF Finish, refresh
<1>6. CASE Keys
  <2>1. Indexed \subseteq scene.offered
    BY DEF Indexed
  <2>2. Reading'
    BY <1>0, <1>6 DEF Keys, Reading, Collected
  <2> QED
    BY <1>0, <1>6, <2>1, <2>2 DEF Keys
<1>7. ASSUME NEW a \in scene.offered, GetAll(a) PROVE TypeInv'
  <2>1. CASE GiveUp
    BY <1>1, <2>1
  <2>2. CASE ~GiveUp
    <3>1. /\ pc = "read" /\ a \in keys \ Collected /\ auctions' = Append(auctions, a)
          /\ pc' \in {"average", "read"}
          /\ UNCHANGED <<scene, keys, prices, index, entry, initial, due, kills>>
      BY <1>7, <2>2 DEF GetAll
    <3>2. auctions' \in Seq(scene'.offered) /\ Collected' = Collected \cup {a}
      BY <3>1, AppendCollects
    <3>3. Reading'
      BY <1>0, <3>1, <3>2 DEF Reading
    <3> QED
      BY <1>0, <3>1, <3>2, <3>3
  <2> QED
    BY <2>1, <2>2
<1>8. CASE CalculateAverage
  <2>1. CASE pc' = "publish" /\ UNCHANGED <<scene, auctions, keys, index, entry, kills>>
    BY <1>0, <2>1, Zenon DEF Reading
  <2>2. CASE pc' = "down" /\ EndRefresh /\ UNCHANGED <<scene, index, entry, kills>>
    BY <1>0, <2>2, Ended
  <2> QED
    BY <1>8, <2>1, <2>2 DEF CalculateAverage
<1>9. CASE Publish
  <2>1. EntryType'
    BY <1>9, LifetimeAssumption DEF Publish, EntryType
  <2> QED
    BY <1>0, <1>9, <2>1, Ended DEF Publish
<1>10. CASE NextRefresh \/ Start
  <2>1. Reading'
    BY <1>0, <1>10 DEF NextRefresh, Start, Reading, refresh
  <2> QED
    BY <1>0, <1>10, <2>1 DEF NextRefresh, Start, refresh
<1>11. CASE Crash
  BY <1>0, <1>11, Ended, KillAssumption DEF Crash
<1>12. CASE Tick
  <2>1. UNCHANGED <<scene, pc, auctions, keys, kills>>
    BY <1>12 DEF Tick, refresh
  <2>2. Reading'
    BY <1>0, <2>1 DEF Reading
  <2>3. EntryType'
    BY <1>0, <1>12, LifetimeAssumption DEF Tick, EntryType, NoEntry
  <2>4. index' \in [scene.offered -> 0 .. IndexLifetime]
    BY <1>12, LifetimeAssumption DEF Tick
  <2> QED
    BY <1>0, <2>1, <2>2, <2>3, <2>4
<1>13. CASE UNCHANGED vars
  <2>1. UNCHANGED <<scene, pc, auctions, keys, index, entry, kills>>
    BY <1>13 DEF vars
  <2> QED
    BY <1>0, <2>1 DEF Reading
<1> QED
  BY <1>2, <1>3, <1>4, <1>5, <1>6, <1>7, <1>8, <1>9, <1>10, <1>11, <1>12, <1>13
  DEF Next, FetchAll, Steps

\* TypeOK: a refresh holds auctions that were offered, as often as it met them, and of
\* an index it reads only keys it was given.
THEOREM TypeCorrect == Spec => []TypeOK
BY TypeInit, TypeStep, TypeInvSuffices, PTL DEF Spec

\* So it holds always.
LEMMA TypeHolds == Spec => []TypeInv
BY TypeInit, TypeStep, PTL DEF Spec

-----------------------------------------------------------------------------
\* A refresh from the index.

\* While keys are read the index only loses auctions, so that what it still has is
\* among them; who has read them all has all of it.
Complete ==
  /\ pc = "read" => Indexed \subseteq keys
  /\ CachedReadComplete

\* A tick adds nothing to the index.
LEMMA TickLoses ==
  ASSUME TypeInv, Tick
  PROVE  Indexed' \subseteq Indexed
<1>1. /\ scene' = scene /\ index \in [scene.offered -> 0 .. IndexLifetime]
      /\ index' = [a \in scene.offered |-> IF index[a] = 0 THEN 0 ELSE index[a] - 1]
  BY DEF TypeInv, Tick
<1>2. ASSUME NEW a \in scene.offered, index'[a] > 0 PROVE index[a] > 0
  BY <1>1, <1>2, LifetimeAssumption
<1> QED
  BY <1>1, <1>2 DEF Indexed

\* Each action keeps it.
LEMMA CompleteStep ==
  ASSUME TypeInv, Complete, [Next]_vars
  PROVE  Complete'
<1>0. /\ Reading
      /\ UNCHANGED <<scene, index>> => Indexed' = Indexed
      /\ UNCHANGED auctions => Collected' = Collected
  BY DEF TypeInv, Indexed, Collected
<1> USE DEF Complete, CachedReadComplete
<1>1. ASSUME GiveUp PROVE Complete'
  BY <1>1 DEF GiveUp
<1>2. CASE GetAuctions \/ NextRefresh \/ Start \/ Crash \/ Publish
  <2>1. pc' \notin {"read", "average"}
    BY <1>2 DEF GetAuctions, NextRefresh, Start, Crash, Publish
  <2> QED
    BY <2>1
<1>3. CASE FetchFails
  BY <1>1, <1>3 DEF FetchFails
<1>4. ASSUME NEW a \in scene.offered, Add(a) PROVE Complete'
  BY <1>4 DEF Add
<1>5. CASE Finish
  BY <1>0, <1>5 DEF Finish, Reading, refresh
<1>6. CASE Keys
  BY <1>0, <1>6 DEF Keys
<1>7. ASSUME NEW a \in scene.offered, GetAll(a) PROVE Complete'
  <2>1. CASE GiveUp
    BY <1>1, <2>1
  <2>2. CASE ~GiveUp
    <3>1. /\ pc = "read" /\ pc' = IF Collected' = keys THEN "average" ELSE "read"
          /\ UNCHANGED <<scene, keys, index>>
      BY <1>7, <2>2 DEF GetAll
    <3> QED
      BY <1>0, <3>1
  <2> QED
    BY <2>1, <2>2
<1>8. CASE CalculateAverage
  BY <1>8 DEF CalculateAverage
<1>9. CASE Tick
  BY <1>0, <1>9, TickLoses DEF Tick, refresh
<1>10. CASE UNCHANGED vars
  BY <1>0, <1>10 DEF vars
<1> QED
  BY <1>2, <1>3, <1>4, <1>5, <1>6, <1>7, <1>8, <1>9, <1>10 DEF Next, FetchAll, Steps

\* CachedReadComplete: a refresh from the index has every auction that is still in it
\* when the prices are made, or it has failed.
THEOREM IndexIsReadWhole == Spec => []CachedReadComplete
<1>1. Init => Complete
  BY DEF Init, Complete, CachedReadComplete
<1>2. TypeInv /\ Complete /\ [Next]_vars => Complete'
  BY CompleteStep
<1>3. Complete => CachedReadComplete
  BY DEF Complete
<1> QED
  BY <1>1, <1>2, <1>3, TypeHolds, PTL DEF Spec

-----------------------------------------------------------------------------
\* The prices.

\* The sum of the prices, as the property has it, is a sum over the offers.
LEMMA TotalOfPrices ==
  ASSUME NEW S
  PROVE  MapThenSumSet(LAMBDA n : Sells(n).price, S) = Total([n \in S |-> Sells(n).price], S)
<1> DEFINE P == [n \in S |-> Sells(n).price]
           Step(it) == [T \in SUBSET S |-> IF T = {} THEN 0 ELSE Sells(First(T)).price + it[T \ {First(T)}]]
<1>1. ASSUME NEW it PROVE TotalStep(P, S, it) = Step(it)
  <2>1. \A T \in SUBSET S : T # {} => P[First(T)] = Sells(First(T)).price
    BY FirstIn
  <2> HIDE DEF P
  <2> QED BY <2>1 DEF TotalStep
<1>2. (CHOOSE it : it = TotalStep(P, S, it)) = (CHOOSE it : it = Step(it))
  <2> HIDE DEF P, Step
  <2> QED  BY <1>1, Zenon
<1>3. MapThenSumSet(LAMBDA n : Sells(n).price, S) = (CHOOSE it : it = Step(it))[S]
  BY DEF MapThenSumSet, MapThenFoldSet, First
<1>4. Total(P, S) = (CHOOSE it : it = TotalStep(P, S, it))[S]
  BY TotalIs
<1> HIDE DEF P, Step
<1>5. QED BY <1>2, <1>3, <1>4 DEF P

\* The prices are made of what was collected, of an instance that stays as it is.
Made ==
  pc = "publish" => /\ calculateAverage(auctions, Items[scene]).res = "ok"
                    /\ prices = calculateAverage(auctions, Items[scene]).value

\* No step makes prices of anything else, and none changes the instance.
LEMMA MadeStep ==
  ASSUME Made, [Next]_vars
  PROVE  Made' /\ scene' = scene
<1> USE DEF Made
<1>1. CASE GetAuctions \/ Finish \/ Keys
  <2>1. pc' # "publish" /\ scene' = scene
    BY <1>1 DEF GetAuctions, Finish, Keys
  <2> QED
    BY <2>1
<1>2. ASSUME NEW a \in scene.offered, Add(a) \/ GetAll(a) PROVE Made' /\ scene' = scene
  <2>1. pc' # "publish" /\ scene' = scene
    BY <1>2 DEF Add, GetAll, GiveUp
  <2> QED
    BY <2>1
<1>3. CASE CalculateAverage
  <2>1. CASE calculateAverage(auctions, Items[scene]).res = "ok"
    <3>1. /\ scene' = scene /\ auctions' = auctions
          /\ prices' = calculateAverage(auctions, Items[scene]).value
      BY <1>3, <2>1 DEF CalculateAverage
    <3> QED
      BY <2>1, <3>1
  <2>2. CASE calculateAverage(auctions, Items[scene]).res # "ok"
    <3>1. pc' = "down" /\ scene' = scene
      BY <1>3, <2>2 DEF CalculateAverage
    <3> QED
      BY <3>1
  <2> QED
    BY <2>1, <2>2
<1>4. CASE Publish \/ FetchFails \/ NextRefresh \/ Crash \/ Start
  <2>1. pc' # "publish" /\ scene' = scene
    BY <1>4 DEF Publish, FetchFails, GiveUp, NextRefresh, Crash, Start
  <2> QED
    BY <2>1
<1>5. CASE Tick \/ UNCHANGED vars
  <2>1. UNCHANGED <<scene, pc, auctions, prices>>
    BY <1>5 DEF Tick, refresh, vars
  <2> QED
    BY <2>1
<1> QED
  BY <1>1, <1>2, <1>3, <1>4, <1>5 DEF Next, FetchAll, Steps

\* What a round of the loop found in each auction, when the prices are published.
Offered == OffersOf(auctions, Items[scene])

\* A round finds what the auction sells, unless it panics.
LEMMA OfferedAsSold ==
  ASSUME TypeInv, DecodesAsSold, NeverCut, NEW m \in 1 .. Len(auctions),
         Offered[m].res # "panic"
  PROVE  /\ m \in Sold => Offered[m].res = "ok" /\ Offered[m].value = Sells(m)
         /\ m \notin Sold => Offered[m].res = "nil"
         /\ Offered[m].res = "ok" => Offered[m].value.price \in Int
<1> DEFINE a == auctions[m]
           item == Items[scene][a]
           offer == Offer(a, item)
           sells == IF a = scene.wire.damaged THEN {} ELSE Listing[a].sells
<1>1. a \in scene.offered /\ a \in Collected /\ DOMAIN auctions = 1 .. Len(auctions)
  <2>1. auctions \in Seq(scene.offered)
    BY DEF TypeInv
  <2> QED
    BY <2>1 DEF Collected
<1>2. Offered[m] = offer
  BY DEF Offered, OffersOf
<1>3. \/ offer.res = "panic"
      \/ a # scene.wire.damaged /\ item.res # "panic" /\ item.reader.short
      \/ offer = IF sells = {} THEN Nil ELSE Id(CHOOSE sold \in sells : TRUE)
  BY <1>1 DEF DecodesAsSold
<1>4. a # scene.wire.damaged /\ item.res # "panic" => ~item.reader.short
  BY <1>1 DEF NeverCut
<1>5. offer = IF sells = {} THEN Nil ELSE Id(CHOOSE sold \in sells : TRUE)
  <2> HIDE DEF a, item, offer, sells
  <2> QED
    BY <1>2, <1>3, <1>4, Zenon
<1>6. a \in DOMAIN Listing
  BY <1>1, SceneAssumption DEF TypeInv
<1>7. m \in Sold <=> sells # {}
  BY <1>1 DEF Sold
<1>8. m \in Sold => sells = Listing[a].sells /\ Sells(m) \in sells
                    /\ Sells(m) = (CHOOSE sold \in sells : TRUE)
  BY <1>1 DEF Sold, Sells
<1>9. m \in Sold => Sells(m).price \in Int
  BY <1>6, <1>8, SellsAssumption
<1> HIDE DEF sells, offer
<1>10. m \in Sold => offer = Id(Sells(m))
  BY <1>5, <1>7, <1>8
<1>11. m \notin Sold => offer = Nil
  BY <1>5, <1>7
<1> QED
  BY <1>2, <1>9, <1>10, <1>11 DEF Id, Nil

\* The prices of the items sold are numbers.
LEMMA OffersAreInt ==
  ASSUME TypeInv, NEW key, NEW n \in Offers(key)
  PROVE  Sells(n).price \in Int
<1>1. n \in DOMAIN auctions /\ Listing[auctions[n]].sells # {}
  BY DEF Offers, Sold
<1>2. auctions[n] \in scene.offered
  BY <1>1 DEF TypeInv
<1>3. auctions[n] \in DOMAIN Listing
  BY <1>2, SceneAssumption DEF TypeInv
<1>4. Sells(n) \in Listing[auctions[n]].sells
  BY <1>1 DEF Sells
<1> QED
  BY <1>3, <1>4, SellsAssumption

\* What is published tells the prices of the items sold.
LEMMA PublishedTells ==
  ASSUME TypeInv, DecodesAsSold, NeverCut, Made, pc = "publish"
  PROVE  /\ DOMAIN prices = {Sells(n).key : n \in Sold}
         /\ \A key \in DOMAIN prices :
              Tells(prices[key], [n \in Offers(key) |-> Sells(n).price], Offers(key))
<1> DEFINE N == Len(auctions)
<1>1. auctions \in Seq(scene.offered) /\ DOMAIN auctions = 1 .. N
  BY DEF TypeInv
<1>2. \A m \in 1 .. N : Offered[m].res = "ok" => Offered[m].value.price \in Int
  BY OfferedAsSold
<1>3. /\ \A m \in 1 .. N : Offered[m].res \in {"ok", "nil"}
      /\ DOMAIN prices = {Offered[m].value.key : m \in Found(Offered, N)}
      /\ \A key \in DOMAIN prices :
           Tells(prices[key], [m \in For(Offered, N, key) |-> Offered[m].value.price],
                 For(Offered, N, key))
  <2>1. /\ calculateAverage(auctions, Items[scene]).res = "ok"
        /\ prices = calculateAverage(auctions, Items[scene]).value
    BY DEF Made
  <2> QED
    BY <1>1, <1>2, <2>1, AverageTells DEF Offered
<1>4. \A m \in 1 .. N : /\ m \in Sold => Offered[m].res = "ok" /\ Offered[m].value = Sells(m)
                        /\ m \notin Sold => Offered[m].res = "nil"
  BY <1>3, OfferedAsSold
<1>5. Sold \subseteq 1 .. N
  BY <1>1 DEF Sold
<1>6. Found(Offered, N) = Sold
  BY <1>4, <1>5 DEF Found
<1>7. DOMAIN prices = {Sells(n).key : n \in Sold}
  <2>1. \A n \in Sold : Offered[n].value.key = Sells(n).key
    BY <1>4, <1>5
  <2> QED
    BY <1>3, <1>6, <2>1
<1>8. ASSUME NEW key
      PROVE  /\ For(Offered, N, key) = Offers(key)
             /\ [m \in For(Offered, N, key) |-> Offered[m].value.price]
                  = [n \in Offers(key) |-> Sells(n).price]
  <2>1. For(Offered, N, key) = Offers(key)
    BY <1>4, <1>5, <1>6 DEF For, Offers
  <2>2. \A n \in Offers(key) : Offered[n].value.price = Sells(n).price
    BY <1>4, <1>5 DEF Offers
  <2> QED
    BY <2>1, <2>2
<1> QED
  BY <1>3, <1>7, <1>8

\* Prices that were made of what was collected are right.
LEMMA PricesMatchWhenMade == TypeInv /\ DecodesAsSold /\ Made => PricesMatch
<1> SUFFICES ASSUME TypeInv, DecodesAsSold, Made, pc = "publish", NeverCut
             PROVE  /\ DOMAIN prices = {Sells(n).key : n \in Sold}
                    /\ \A key \in DOMAIN prices :
                         /\ \A n \in Offers(key) : Sells(n).price \in prices[key].Lowest .. prices[key].Highest
                         /\ {prices[key].Lowest, prices[key].Highest} \subseteq {Sells(n).price : n \in Offers(key)}
                         /\ prices[key].Mean = <<MapThenSumSet(LAMBDA n : Sells(n).price, Offers(key)),
                                                 Cardinality(Offers(key))>>
  BY DEF PricesMatch
<1>1. DOMAIN prices = {Sells(n).key : n \in Sold}
  BY PublishedTells
<1>2. ASSUME NEW key \in DOMAIN prices
      PROVE  /\ \A n \in Offers(key) : Sells(n).price \in prices[key].Lowest .. prices[key].Highest
             /\ {prices[key].Lowest, prices[key].Highest} \subseteq {Sells(n).price : n \in Offers(key)}
             /\ prices[key].Mean = <<MapThenSumSet(LAMBDA n : Sells(n).price, Offers(key)),
                                     Cardinality(Offers(key))>>
  <2> DEFINE S == Offers(key)
             P == [n \in S |-> Sells(n).price]
             info == prices[key]
  <2>1. Tells(info, P, S)
    BY PublishedTells
  <2>2. \A n \in S : P[n] = Sells(n).price /\ P[n] \in Int
    BY OffersAreInt
  <2>3. info.Mean = <<Total(P, S), Cardinality(S)>> /\ Low(info, P, S) /\ High(info, P, S)
    BY <2>1 DEF Tells
  <2>4. Total(P, S) = MapThenSumSet(LAMBDA n : Sells(n).price, S)
    BY TotalOfPrices
  <2> HIDE DEF P, S, info
  <2>5. /\ info.Lowest \in Int /\ info.Highest \in Int
        /\ info.Lowest \in {Sells(n).price : n \in S} /\ info.Highest \in {Sells(n).price : n \in S}
    BY <2>2, <2>3 DEF Low, High
  <2>6. \A n \in S : Sells(n).price \in info.Lowest .. info.Highest
    BY <2>2, <2>3, <2>5 DEF Low, High
  <2> QED
    BY <2>3, <2>4, <2>5, <2>6 DEF S, info
<1> QED
  BY <1>1, <1>2

\* And so is the median among them.
LEMMA MedianSplitsWhenMade == TypeInv /\ DecodesAsSold /\ Made => MedianSplits
<1> SUFFICES ASSUME TypeInv, DecodesAsSold, Made, pc = "publish", NeverCut,
                    NEW key \in DOMAIN prices
             PROVE  LET below == {n \in Offers(key) : Sells(n).price <= prices[key].Median}
                        above == {n \in Offers(key) : Sells(n).price >= prices[key].Median}
                        all == Cardinality(Offers(key))
                    IN 2 * Cardinality(below) >= all /\ 2 * Cardinality(above) >= all - 2
  BY DEF MedianSplits
<1> DEFINE S == Offers(key)
           P == [n \in S |-> Sells(n).price]
           info == prices[key]
<1>1. Middle(info, P, S)
  BY PublishedTells DEF Tells
<1>2. \A n \in S : P[n] = Sells(n).price
  OBVIOUS
<1> HIDE DEF P, S, info
<1>3. /\ {n \in S : P[n] <= info.Median} = {n \in S : Sells(n).price <= info.Median}
      /\ {n \in S : P[n] >= info.Median} = {n \in S : Sells(n).price >= info.Median}
  BY <1>2
<1> QED
  BY <1>1, <1>3 DEF Middle, S, info

\* What the decoder makes of the auctions is settled with the instance.
LEMMA DecodesStill == DecodesAsSold /\ scene' = scene => DecodesAsSold'
BY DEF DecodesAsSold

\* The invariant behind both theorems.
LEMMA MadeHolds == Spec /\ DecodesAsSold => [](TypeInv /\ DecodesAsSold /\ Made)
<1>1. Init => TypeInv /\ Made
  BY TypeInit DEF Init, Made
<1>2. TypeInv /\ DecodesAsSold /\ Made /\ [Next]_vars => (TypeInv /\ DecodesAsSold /\ Made)'
  BY TypeStep, MadeStep, DecodesStill
<1> QED
  BY <1>1, <1>2, PTL DEF Spec

\* PricesMatch: with any number of auctions in any order, the prices published are one
\* line for each item on sale, from the cheapest to the dearest of its offers, if what
\* is decoded of an auction is what it sells (DecodesAsSold, which TLC checks: it
\* speaks of the instance alone, so that the first state says it for all).
THEOREM PricesAreOfWhatIsSold == Spec /\ DecodesAsSold => []PricesMatch
BY MadeHolds, PricesMatchWhenMade, PTL

\* MedianSplits: at least half of the offers are not above the median published, and
\* all but one of the other half are not below it, under the same condition.
THEOREM MedianIsInTheMiddle == Spec /\ DecodesAsSold => []MedianSplits
BY MadeHolds, MedianSplitsWhenMade, PTL
===============================================================================
