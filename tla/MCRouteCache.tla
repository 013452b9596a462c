---------------------------- MODULE MCRouteCache ----------------------------
(* Instances of RouteCache for TLC.  A tick stands for two to three minutes,   *)
(* so that 5, 3 and 15 minutes become 2 or 3, 2 or 1 and 4 ticks: the error    *)
(* marker is shorter than the entry and both outlive a tick.                   *)
EXTENDS RouteCache, TLC

CONSTANTS k1, k2

MCProfiles == (k1 :> "profiles")
MCProfilesAndPlayer == (k1 :> "profiles") @@ (k2 :> "player")
MCGardenAndAuctions == (k1 :> "garden") @@ (k2 :> "player_auctions")
MCAuctions == (k1 :> "player_auctions")

MCTtl == [r \in Route |-> 3]
MCHighTtl == [r \in Route |-> 4]
MCErrorTtl == [r \in Route |-> 2]
MCShort == [r \in Route |-> 2]
MCShortError == [r \in Route |-> 1]
MCShortHigh == [r \in Route |-> 3]

Symmetry == Permutations(Request)
=============================================================================
