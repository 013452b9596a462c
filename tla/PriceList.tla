----------------------------- MODULE PriceList ------------------------------
(***************************************************************************)
(* From the auctions a refresh has collected to the prices it publishes:   *)
(* calculateAverage with GetItem, GetSbId and Count.  All of it is local   *)
(* to the goroutine fetchData and takes no time; a panic in it ends the    *)
(* process.                                                                *)
(***************************************************************************)
EXTENDS NbtValues, PriceStats, FiniteSets

CONSTANTS
  Decoded(_, _),  \* what base64 and nbt.Decode make of an auction whose bytes arrive in
                  \* a given way: a tree, an error or a panic
  Listing,  \* Listing[a]: an auction: [bin, starting_bid, form, bytes], and in sells
            \* what it is: its id and its price per piece, or nothing that has one
  PetInfo   \* PetInfo[s]: type and tier in the string s; others are not JSON

\* The names and ids the code compares with, as strings of one byte.
Name == [i |-> <<1>>, tag |-> <<2>>, ExtraAttributes |-> <<3>>, id |-> <<4>>,
         petInfo |-> <<5>>, runes |-> <<6>>, Count |-> <<7>>]
PET == <<8>>
RUNE == {<<9>>, <<10>>}

\* GetItem: the first element of the list "i".  A tree of another shape makes an
\* accessor return nil, and using that panics.
GetItem(a, wire) ==
  Then(Decoded(a, wire), LAMBDA root, reader :
    LET list == Get(As(TAG_COMPOUND, root, <<>>), Name.i)
        values == IF list.type = TAG_LIST THEN list.value.values ELSE <<>>
    IN IF values # <<>> /\ list.value.type = TAG_COMPOUND
         THEN Got(values[1], reader) ELSE Panicked)

\* Mutant: the price of the stack is taken for that of a piece.
CountIgnored(item) == 1
Count(item) ==
  LET n == As(TAG_BYTE, Get(item, Name.Count), 1) IN IF n >= 8 THEN n - 16 ELSE n

\* GetSbId: no id, the id, or a panic; an item that says nothing has the id "".
Nil == [res |-> "nil"]
Id(key) == [res |-> "ok", value |-> key]

PetId(attributes) ==
  LET json == As(TAG_STRING, Get(attributes, Name.petInfo), <<>>)
  IN IF json \in DOMAIN PetInfo THEN Id(<<"pet", PetInfo[json]>>) ELSE Nil

RuneId(attributes) ==
  LET held == Get(attributes, Name.runes) IN
  IF held.type # TAG_COMPOUND THEN Panicked
  ELSE IF Cardinality(DOMAIN held.value) # 1 THEN Nil
  ELSE LET kind == CHOOSE r \in DOMAIN held.value : TRUE
       IN Id(<<"rune", kind, As(TAG_INT, held.value[kind], 0)>>)

GetSbId(item) ==
  IF Name.tag \notin DOMAIN item THEN Nil
  ELSE IF item[Name.tag].type # TAG_COMPOUND THEN Panicked
  ELSE LET attributes == Get(item[Name.tag].value, Name.ExtraAttributes)
           name == As(TAG_STRING, Get(attributes.value, Name.id), <<>>)
       IN IF attributes.type # TAG_COMPOUND THEN Nil
          ELSE IF name = PET THEN PetId(attributes.value)
          ELSE IF name \in RUNE THEN RuneId(attributes.value)
          ELSE Id(<<"item", name>>)

\* What one round of the loop finds in auction a, where item is what GetItem returned
\* for it: no offer, an item and its price per piece, or a panic.
Offer(a, item) ==
  IF ~Listing[a].bin \/ item.res = "error" THEN Nil
  ELSE IF item.res = "panic" THEN Panicked
  ELSE LET sbId == GetSbId(item.value)
           count == Count(item.value)
       IN IF sbId.res # "ok" THEN sbId
          ELSE IF count = 0 THEN Panicked
          ELSE Id([key |-> sbId.value, price |-> Quotient(Listing[a].starting_bid, count)])

\* The rest of the round: the price is appended to the list of the item.
AddPrice(items, offer) ==
  IF offer.res = "ok"
    THEN LET key == offer.value.key
             priceList == IF key \in DOMAIN items THEN items[key] ELSE <<>>
         IN Id([k \in DOMAIN items \cup {key} |->
                  IF k = key THEN Append(priceList, offer.value.price) ELSE items[k]])
    ELSE IF offer.res = "nil" THEN Id(items) ELSE offer

\* The loop: the price lists after n rounds, or the panic that ended it.
PriceLists(offers) ==
  LET items[n \in 0 .. Len(offers)] ==
        IF n = 0 THEN Id(<<>>)
        ELSE LET before == items[n - 1]
             IN IF before.res = "ok" THEN AddPrice(before.value, offers[n]) ELSE before
  IN items[Len(offers)]

calculateAverage(auctions, got) ==
  LET items == PriceLists([n \in DOMAIN auctions |-> Offer(auctions[n], got[auctions[n]])])
  IN IF items.res = "ok"
       THEN Id([key \in DOMAIN items.value |-> ItemInfo(Sort(items.value[key]))])
       ELSE items
=============================================================================
