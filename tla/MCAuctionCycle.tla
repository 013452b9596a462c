--------------------------- MODULE MCAuctionCycle ---------------------------
(* Instances of AuctionCycle for TLC.  A tick stands for twenty minutes.       *)
EXTENDS AuctionCycle
=============================================================================
