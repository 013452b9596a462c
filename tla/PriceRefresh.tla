---------------------------- MODULE PriceRefresh ----------------------------
(***************************************************************************)
(* auctions.FetchAll: what it collects, and in development mode the index  *)
(* of auctions in Redis that later refreshes read instead of asking        *)
(* Hypixel; and what the prices it publishes promise whoever asks          *)
(* GET /auctions.                                                          *)
(*                                                                         *)
(* One refresh is modelled in production, where AuctionCycle has pages and *)
(* the cycle, and the whole cycle in development.  Redis answers here.     *)
(* Time is counted in intervals of the ticker (one hour).                  *)
(***************************************************************************)
EXTENDS PriceList, FiniteSetsExt

CONSTANTS
  Scene,          \* [debug, offered, wire, most]: instances to look at
  IndexLifetime,  \* ticks an auction stays in the index (time.Hour * 7)
  EntryLifetime,  \* ticks the published entry stays (time.Hour * 2)
  MaxKills        \* bound: how often the process is ended from outside

ASSUME SceneAssumption ==
  \A s \in Scene : s.debug \in BOOLEAN /\ s.offered \subseteq DOMAIN Listing
ASSUME SellsAssumption ==
  \A a \in DOMAIN Listing : \A offer \in Listing[a].sells : offer.price \in Int
ASSUME LifetimeAssumption ==
  /\ IndexLifetime \in Nat \ {0}
  /\ EntryLifetime \in Nat \ {0}
ASSUME KillAssumption == MaxKills \in Nat

VARIABLES
  scene,     \* utils.Debug, the auctions Hypixel has, how their bytes arrive, and
             \* a bound: how many a refresh reads from its pages at most
  pc,        \* where fetchData is
  auctions,  \* the auctions this refresh has so far
  keys,      \* the keys of the index as KEYS listed them, {} if not asked
  prices,    \* what calculateAverage made of the auctions
  index,     \* index[a]: ticks until a's key in the index expires, 0 if unset
  entry,     \* Redis' entry "cached": [kind, ttl], kind "none", "<3" or "prices"
  initial,   \* the first refresh of the process
  due,       \* a tick waits in the ticker's channel
  kills      \* history: how often the process was ended from outside

vars == <<scene, pc, auctions, keys, prices, index, entry, initial, due, kills>>
refresh == <<auctions, keys, prices>>

Indexed == {a \in scene.offered : index[a] > 0}
Collected == {auctions[n] : n \in DOMAIN auctions}

\* What GetItem returns for each auction: a constant, so that TLC decodes once.
Items == [s \in Scene |-> [a \in s.offered |-> GetItem(a, s.wire)]]

NoEntry == [kind |-> "none", ttl |-> 0]

-----------------------------------------------------------------------------
Init ==
  /\ scene \in Scene
  /\ pc = "begin"
  /\ auctions = <<>> /\ keys = {} /\ prices = <<>>
  /\ index = [a \in scene.offered |-> 0]
  /\ entry = NoEntry
  /\ initial = TRUE /\ due = FALSE /\ kills = 0

\* FetchAll returns, or the process is gone.  Mutant: the next refresh goes on with
\* what this one collected.
EndRefreshKeeps == UNCHANGED auctions /\ keys' = {} /\ prices' = <<>>
EndRefresh == auctions' = <<>> /\ keys' = {} /\ prices' = <<>>

\* An error: the first refresh panics, a later one is given up.
GiveUp ==
  /\ pc' = IF initial THEN "down" ELSE "wait"
  /\ EndRefresh
  /\ UNCHANGED <<scene, index, entry, initial, due, kills>>

\* dev.GetAuctions: whatever is under "cached" counts.
GetAuctions ==
  /\ pc = "begin"
  /\ pc' = IF scene.debug /\ entry.kind # "none" THEN "keys" ELSE "fetch"
  /\ UNCHANGED <<scene, refresh, index, entry, initial, due, kills>>

\* One of Hypixel's auctions arrives; dev.Add also puts it in the index.  Pages are read
\* one after the other, so that an auction may be on two of them: it is appended again.
Add(a) ==
  /\ pc = "fetch" /\ Len(auctions) < scene.most
  /\ auctions' = Append(auctions, a)
  /\ index' = IF scene.debug THEN [index EXCEPT ![a] = IndexLifetime] ELSE index
  /\ UNCHANGED <<scene, pc, keys, prices, entry, initial, due, kills>>

FetchFails == pc = "fetch" /\ GiveUp

\* dev.Finish leaves a mark whose Duration nobody set: it does not expire.
Finish ==
  /\ pc = "fetch"
  /\ pc' = "average"
  /\ entry' = IF scene.debug THEN [kind |-> "<3", ttl |-> 0] ELSE entry
  /\ UNCHANGED <<scene, refresh, index, initial, due, kills>>

\* GetAll: KEYS, which lists a key once, then GET for one key after the other.
Keys ==
  /\ pc = "keys"
  /\ keys' = Indexed
  /\ pc' = IF Indexed = {} THEN "average" ELSE "read"
  /\ UNCHANGED <<scene, auctions, prices, index, entry, initial, due, kills>>

\* A key that is gone ends GetAll with an error.  Mutants: it is passed over
\* with all that follow; reading a key renews it.
GetAllLenient(a) ==
  /\ pc = "read" /\ a \in keys \ Collected
  /\ auctions' = IF index[a] > 0 THEN Append(auctions, a) ELSE auctions
  /\ pc' = IF Collected' = keys \/ index[a] = 0 THEN "average" ELSE "read"
  /\ UNCHANGED <<scene, keys, prices, index, entry, initial, due, kills>>
GetAllRenews(a) ==
  /\ pc = "read" /\ a \in keys \ Collected
  /\ \/ /\ index[a] > 0
        /\ auctions' = Append(auctions, a)
        /\ index' = [index EXCEPT ![a] = IndexLifetime]
        /\ pc' = IF Collected' = keys THEN "average" ELSE "read"
        /\ UNCHANGED <<scene, keys, prices, entry, initial, due, kills>>
     \/ index[a] = 0 /\ GiveUp
GetAll(a) ==
  /\ pc = "read" /\ a \in keys \ Collected
  /\ \/ /\ index[a] > 0
        /\ auctions' = Append(auctions, a)
        /\ pc' = IF Collected' = keys THEN "average" ELSE "read"
        /\ UNCHANGED <<scene, keys, prices, index, entry, initial, due, kills>>
     \/ index[a] = 0 /\ GiveUp

\* calculateAverage: a panic in it ends the process.
CalculateAverage ==
  /\ pc = "average"
  /\ LET items == calculateAverage(auctions, Items[scene]) IN
     \/ /\ items.res = "ok"
        /\ prices' = items.value
        /\ pc' = "publish"
        /\ UNCHANGED <<scene, auctions, keys, index, entry, initial, due, kills>>
     \/ /\ items.res = "panic"
        /\ pc' = "down"
        /\ EndRefresh
        /\ UNCHANGED <<scene, index, entry, initial, due, kills>>

Publish ==
  /\ pc = "publish"
  /\ entry' = [kind |-> "prices", ttl |-> EntryLifetime]
  /\ pc' = "wait"
  /\ initial' = FALSE
  /\ due' = IF initial THEN FALSE ELSE due
  /\ EndRefresh
  /\ UNCHANGED <<scene, index, kills>>

\* The cycle: in development mode only.
NextRefresh ==
  /\ pc = "wait" /\ due /\ scene.debug
  /\ pc' = "begin"
  /\ due' = FALSE
  /\ UNCHANGED <<scene, refresh, index, entry, initial, kills>>

Crash ==
  /\ pc # "down" /\ scene.debug /\ kills < MaxKills
  /\ pc' = "down"
  /\ kills' = kills + 1
  /\ EndRefresh
  /\ UNCHANGED <<scene, index, entry, initial, due>>

Start ==
  /\ pc = "down" /\ scene.debug
  /\ pc' = "begin"
  /\ initial' = TRUE /\ due' = FALSE
  /\ UNCHANGED <<scene, refresh, index, entry, kills>>

Tick ==
  /\ due' = (due \/ (pc # "down" /\ ~initial))
  /\ index' = [a \in scene.offered |-> IF index[a] = 0 THEN 0 ELSE index[a] - 1]
  /\ entry' = IF entry.kind # "prices" THEN entry
              ELSE IF entry.ttl = 1 THEN NoEntry ELSE [entry EXCEPT !.ttl = @ - 1]
  /\ UNCHANGED <<scene, pc, refresh, initial, kills>>

Steps ==
  \/ GetAuctions \/ Finish \/ Keys \/ Publish
  \/ \E a \in scene.offered : Add(a) \/ GetAll(a)

FetchAll == Steps \/ CalculateAverage

Next == FetchAll \/ FetchFails \/ NextRefresh \/ Crash \/ Start \/ Tick

Spec == Init /\ [][Next]_vars

\* The goroutine is scheduled, time passes, a process that went down is started
\* again.  CalculateAverage is always enabled at its point of the code, so that its weak
\* fairness says that the refresh does not stay there.
Fairness ==
  /\ WF_vars(Steps) /\ []<>(pc # "average")
  /\ WF_vars(NextRefresh \/ Start)
  /\ WF_vars(Tick)

FairSpec == Spec /\ Fairness

-----------------------------------------------------------------------------
\* Properties.

\* Every variable stays in its set: a refresh holds auctions that were offered, and
\* what it has read from Redis is among the keys it was given.
TypeOK ==
  /\ scene \in Scene
  /\ pc \in {"down", "begin", "fetch", "keys", "read", "average", "publish", "wait"}
  /\ auctions \in Seq(scene.offered)
  /\ keys \subseteq scene.offered /\ keys # {} => Collected \subseteq keys
  /\ index \in [scene.offered -> 0 .. IndexLifetime]
  /\ entry.kind \in {"none", "<3", "prices"} /\ entry.ttl \in 0 .. EntryLifetime
  /\ initial \in BOOLEAN /\ due \in BOOLEAN /\ kills \in 0 .. MaxKills

\* A refresh from the index has every auction that is still there: one that expires
\* while the index is read fails the refresh and never cuts it short.
CachedReadComplete == pc = "average" /\ keys # {} => Indexed \subseteq Collected

\* Who decodes an auction that arrived whole gets what it sells, or nothing if it
\* sells nothing; of an auction that was cut off he gets nothing.  The exceptions: it
\* ends the process, or a read of the decoder was short, which none notices.
DecodesAsSold ==
  \A a \in scene.offered :
    LET item == Items[scene][a]
        offer == Offer(a, item)
        sells == IF a = scene.wire.damaged THEN {} ELSE Listing[a].sells
    IN \/ offer.res = "panic"
       \/ a # scene.wire.damaged /\ item.res # "panic" /\ item.reader.short
       \/ offer = IF sells = {} THEN Nil ELSE Id(CHOOSE sold \in sells : TRUE)

\* Of the auctions whose bytes arrived whole, the items for sale; nothing of an
\* auction that was cut off.
Sold == {n \in DOMAIN auctions :
           auctions[n] # scene.wire.damaged /\ Listing[auctions[n]].sells # {}}
Sells(n) == CHOOSE offer \in Listing[auctions[n]].sells : TRUE
Offers(key) == {n \in Sold : Sells(n).key = key}

\* No read of the decoder met the end of a buffer.
NeverCut ==
  \A a \in Collected \ {scene.wire.damaged} :
    LET item == Items[scene][a] IN item.res # "panic" => ~item.reader.short

\* In whatever order the auctions come, the prices published are those of the items
\* they sell: one line per item, pets and runes by their own ids, from the cheapest
\* to the dearest, an auction met on two pages counted twice.  What cannot be decoded, is no offer at a fixed price or has no
\* id changes nothing, wherever a document was cut off.
PricesMatch ==
  pc = "publish" /\ NeverCut =>
    /\ DOMAIN prices = {Sells(n).key : n \in Sold}
    /\ \A key \in DOMAIN prices :
         /\ \A n \in Offers(key) : Sells(n).price \in prices[key].Lowest .. prices[key].Highest
         /\ {prices[key].Lowest, prices[key].Highest} \subseteq {Sells(n).price : n \in Offers(key)}
         /\ prices[key].Mean = <<MapThenSumSet(LAMBDA n : Sells(n).price, Offers(key)),
                                 Cardinality(Offers(key))>>

\* The median splits the offers: at least half of them are not above it, and all but
\* one of the other half are not below it.
MedianSplits ==
  pc = "publish" /\ NeverCut =>
    \A key \in DOMAIN prices :
      LET below == {n \in Offers(key) : Sells(n).price <= prices[key].Median}
          above == {n \in Offers(key) : Sells(n).price >= prices[key].Median}
          all == Cardinality(Offers(key))
      IN 2 * Cardinality(below) >= all /\ 2 * Cardinality(above) >= all - 2

\* The mark a development refresh leaves, which does not expire and is no answer to
\* GET /auctions, is replaced by prices at last: also when an auction that panics
\* is in the index, and the process that dies of it finds it there again.
MarkReplaced == entry.kind = "<3" ~> entry.kind # "<3"
=============================================================================
