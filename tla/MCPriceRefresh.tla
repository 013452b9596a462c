--------------------------- MODULE MCPriceRefresh ---------------------------
(* Instances of PriceRefresh for TLC: auctions made of small encoded trees.   *)
EXTENDS PriceRefresh, AuctionBytes

CONSTANTS a1, a2, a3, a4, pet, badpet, rune, runes0, stack, none, notag, garbled,
          bid, badgzip, norunes, nolist, noone

\* Tags in the wire format, as Hypixel writes it: a type and the bytes of the value.
Int4(n) == <<0, 0, n \div 16, n % 16>>
Str(s) == <<0, Len(s)>> \o s
Each(Bytes(_), seq) == FlattenSeq([n \in DOMAIN seq |-> Bytes(seq[n])])

B(n) == [type |-> TAG_BYTE, bytes |-> <<n>>]
I(n) == [type |-> TAG_INT, bytes |-> Int4(n)]
S(s) == [type |-> TAG_STRING, bytes |-> Str(s)]
Ints(type, ns) == [type |-> type, bytes |-> Int4(Len(ns)) \o Each(Int4, ns)]
Raw(type, bytes) == [type |-> type, bytes |-> bytes]
C(entries) ==
  LET Entry(e) == <<e[2].type>> \o Str(e[1]) \o e[2].bytes
  IN [type |-> TAG_COMPOUND, bytes |-> Each(Entry, entries) \o <<TAG_END>>]
L(compounds) ==
  LET Element(c) == c.bytes
  IN [type |-> TAG_LIST,
      bytes |-> <<TAG_COMPOUND>> \o Int4(Len(compounds)) \o Each(Element, compounds)]

Document(items) == <<TAG_COMPOUND>> \o Str(<<>>) \o C(<< <<Name.i, L(items)>> >>).bytes
Item(count, attributes) ==
  C(count \o << <<Name.tag, C(<< <<Name.ExtraAttributes, C(attributes)>> >>)>> >>)
Named(s) == << <<Name.id, S(s)>> >>
CountIs(n) == << <<Name.Count, B(n)>> >>

\* Every type of tag once, before what is looked for.
Extras ==
  << << <<15>>, Raw(TAG_SHORT, <<1, 2>>)>>,
     << <<15>>, Raw(TAG_LONG, <<0, 0, 0, 0, 0, 0, 1, 2>>)>>,
     << <<15>>, Raw(TAG_FLOAT, <<0, 0, 1, 2>>)>>,
     << <<15>>, Raw(TAG_DOUBLE, <<0, 0, 0, 0, 0, 0, 1, 2>>)>>,
     << <<15>>, Raw(TAG_BYTE_ARRAY, Int4(2) \o <<5, 6>>)>>,
     << <<15>>, Ints(TAG_INT_ARRAY, <<5, 6>>)>>,
     << <<15>>, Raw(TAG_LONG_ARRAY, <<0, 0, 0, 1, 0, 0, 0, 0, 0, 0, 1, 2>>)>>,
     << <<15>>, S(<<>>)>> >>

A == <<11>>
Rune == <<9>>
Auc(isBin, price, form, bytes, sells) ==
  [bin |-> isBin, starting_bid |-> price, form |-> form, bytes |-> bytes, sells |-> sells]
Sell(key, price) == {[key |-> key, price |-> price]}

MCPetInfo == << 13 >> :> "wolf:rare"

Kinds ==
     (a1 :> Auc(TRUE, 5, "plain", Document(<<Item(<<>>, Named(A))>>), Sell(<<"item", A>>, 5)))
  @@ (a2 :> Auc(TRUE, 7, "gzip", Document(<<Item(CountIs(2), Extras \o Named(A))>>), Sell(<<"item", A>>, 3)))
  @@ (a3 :> Auc(TRUE, 9, "gzip", Document(<<Item(CountIs(1), Named(A))>>), Sell(<<"item", A>>, 9)))
  @@ (a4 :> Auc(TRUE, 4, "plain", Document(<<Item(CountIs(15), Named(A))>>), Sell(<<"item", A>>, -4)))
  @@ (pet :> Auc(TRUE, 6, "gzip", Document(<<Item(<<>>, Named(PET) \o << <<Name.petInfo, S(<<13>>)>> >>)>>), Sell(<<"pet", "wolf:rare">>, 6)))
  @@ (badpet :> Auc(TRUE, 6, "gzip", Document(<<Item(<<>>, Named(PET) \o << <<Name.petInfo, S(<<14>>)>> >>)>>), {}))
  @@ (rune :> Auc(TRUE, 6, "gzip", Document(<<Item(<<>>, Named(Rune) \o << <<Name.runes, C(<< << <<12>>, I(3)>> >>)>> >>)>>), Sell(<<"rune", <<12>>, 3>>, 6)))
  @@ (runes0 :> Auc(TRUE, 6, "gzip", Document(<<Item(<<>>, Named(Rune) \o << <<Name.runes, C(<<>>)>> >>)>>), {}))
  @@ (norunes :> Auc(TRUE, 6, "gzip", Document(<<Item(<<>>, Named(Rune))>>), {}))
  @@ (stack :> Auc(TRUE, 6, "gzip", Document(<<Item(CountIs(0), Named(A))>>), {}))
  @@ (none :> Auc(TRUE, 6, "gzip", Document(<<C(<< <<Name.tag, C(<<>>)>> >>)>>), {}))
  @@ (notag :> Auc(TRUE, 6, "gzip", Document(<<C(CountIs(1))>>), {}))
  @@ (nolist :> Auc(TRUE, 6, "gzip", Document(<<>>), {}))
  @@ (garbled :> Auc(TRUE, 6, "no base64", <<>>, {}))
  @@ (badgzip :> Auc(TRUE, 6, "bad gzip", <<>>, {}))
  @@ (bid :> Auc(FALSE, 6, "plain", Document(<<Item(<<>>, Named(A))>>), {}))

\* The same as a function, which TLC evaluates once: a term with @@ it evaluates at
\* every use.
MCListing == [a \in DOMAIN Kinds |-> Kinds[a]]

Whole == [damaged |-> noone, kept |-> 0, chunk |-> 1000]
Size(a) == Len(MCListing[a].bytes)

\* Bound: with the four-bit numbers a smaller buffer turns a length into thousands,
\* which TLC would read one by one.
MinChunk == 6

MCScene ==
       {[debug |-> FALSE, offered |-> DOMAIN MCListing, wire |-> Whole, most |-> 2],
        [debug |-> FALSE, offered |-> {a1, a2, a3, a4, pet, rune, badpet, bid},
         wire |-> Whole, most |-> 4]}
  \cup UNION {{[debug |-> FALSE, offered |-> {a, a3},
                wire |-> [damaged |-> a, kept |-> n, chunk |-> 1000], most |-> 2] :
                 n \in 0 .. Size(a) - 1} : a \in {a1, a2, rune}}
  \cup {[debug |-> FALSE, offered |-> {a1, a2, pet},
         wire |-> [damaged |-> noone, kept |-> 0, chunk |-> n], most |-> 2] : n \in MinChunk .. Size(a2)}
  \cup {[debug |-> TRUE, offered |-> {a1, a3, stack}, wire |-> Whole, most |-> 3]}
=============================================================================
