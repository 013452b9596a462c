---------------------------- MODULE SnapshotFeed ----------------------------
(***************************************************************************)
(* What GET /profiles promises to the rest of the backend, with Redis,     *)
(* markers and time left out: a goroutine CheckData works on a list of     *)
(* profiles that Hypixel gave out while the request that started it was    *)
(* running.  Goroutines may be slow and overtake each other, so the list   *)
(* may be old by the time it is used.                                      *)
(*                                                                         *)
(* RouteCache implements this (RouteCache!FeedsSnapshots); ProfileSync     *)
(* composes it with the table the goroutines clean up.                     *)
(***************************************************************************)
EXTENDS Integers

CONSTANTS
  Viewer,      \* slots of concurrently served requests
  Player,      \* players whose profiles are asked for
  MaxVersion   \* bound: versions of one player's list of profiles

VARIABLES
  latest,    \* latest[p]: version of p's list Hypixel now holds
  inflight,  \* inflight[r]: the reply r holds, as {<<player, version>>}, or {}
  chores     \* chores[p]: the versions of p's list some CheckData holds

vars == <<latest, inflight, chores>>

Version == 0 .. MaxVersion

TypeOK ==
  /\ latest \in [Player -> Version]
  /\ inflight \in [Viewer -> SUBSET (Player \X Version)]
  /\ chores \in [Player -> SUBSET Version]

Init ==
  /\ latest = [p \in Player |-> 0]
  /\ inflight = [r \in Viewer |-> {}]
  /\ chores = [p \in Player |-> {}]

Fetch(r, p) ==
  /\ inflight[r] = {}
  /\ inflight' = [inflight EXCEPT ![r] = {<<p, latest[p]>>}]
  /\ UNCHANGED <<latest, chores>>

\* The request hands its reply to a goroutine of its own.
Spawn(r, p, v) ==
  /\ <<p, v>> \in inflight[r]
  /\ inflight' = [inflight EXCEPT ![r] = {}]
  /\ chores' = [chores EXCEPT ![p] = @ \cup {v}]
  /\ UNCHANGED latest

\* The reply was a failure or no document.
Drop(r) ==
  /\ inflight[r] # {}
  /\ inflight' = [inflight EXCEPT ![r] = {}]
  /\ UNCHANGED <<latest, chores>>

\* One goroutine is done; others with the same list may remain.
Check(p, v) ==
  /\ v \in chores[p]
  /\ chores' \in {chores, [chores EXCEPT ![p] = @ \ {v}]}
  /\ UNCHANGED <<latest, inflight>>

UpstreamChanges(p) ==
  /\ latest[p] < MaxVersion
  /\ latest' = [latest EXCEPT ![p] = @ + 1]
  /\ UNCHANGED <<inflight, chores>>

Restart ==
  /\ inflight' = [r \in Viewer |-> {}]
  /\ chores' = [p \in Player |-> {}]
  /\ UNCHANGED latest

Next ==
  \/ \E r \in Viewer, p \in Player : Fetch(r, p)
  \/ \E r \in Viewer, p \in Player, v \in Version : Spawn(r, p, v)
  \/ \E r \in Viewer : Drop(r)
  \/ \E p \in Player, v \in Version : Check(p, v)
  \/ \E p \in Player : UpstreamChanges(p)
  \/ Restart

Spec == Init /\ [][Next]_vars
=============================================================================
