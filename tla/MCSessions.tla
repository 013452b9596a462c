----------------------------- MODULE MCSessions -----------------------------
(* Instances of Sessions for TLC: requests at the same time, and restarts.    *)
EXTENDS Sessions, TLC

CONSTANTS r1, r2, p1, p2

\* p2 leaves, and joins again.
MCRoster == <<{p1, p2}, {p1}, {p1, p2}>>

Guests == [Enabled |-> FALSE, Admin |-> FALSE, Banned |-> FALSE, RateLimit |-> FALSE]

MCScene ==
  { [atOnce |-> 2, replies |-> 3, restarts |-> 0, faulty |-> TRUE, configs |-> {Guests}],
    [atOnce |-> 1, replies |-> 2, restarts |-> 2, faulty |-> FALSE,
     configs |-> {c \in Config : c.RateLimit /\ (c.Admin => c.Enabled /\ ~c.Banned)}] }

RequestSymmetry == Permutations(Request)
=============================================================================
