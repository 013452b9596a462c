---------------------------- MODULE AuctionBytes ----------------------------
(***************************************************************************)
(* The bytes of the auctions, and what the decoder makes of them: the      *)
(* parameter Decoded of PriceList.                                         *)
(***************************************************************************)
EXTENDS NbtReader, PriceList

\* How the bytes of the auctions arrive: those of damaged end after kept bytes,
\* and the buffer they are read through holds chunk.
Arriving(a, wire) ==
  IF a = wire.damaged THEN SubSeq(Listing[a].bytes, 1, wire.kept) ELSE Listing[a].bytes

\* The bytes come as base64, which may not be any.
DecodedBytes(a, wire) ==
  IF Listing[a].form = "no base64"
    THEN Failed(Reader(<<>>, wire.chunk, FALSE))
    ELSE Decode(Listing[a].form, Arriving(a, wire), wire.chunk)
=============================================================================
