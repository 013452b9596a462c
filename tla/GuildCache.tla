----------------------------- MODULE GuildCache -----------------------------
(***************************************************************************)
(* GET /guild/{id}: one reply of Hypixel is stored under every member of   *)
(* the guild, one call to Redis after the other.  On the way each reply    *)
(* updates two globals, the rate limit that administrators can look at.    *)
(*                                                                         *)
(* Replies are numbered in the order Hypixel gives them.  What they are    *)
(* stored as is that number.  Entries expire at any time here.             *)
(***************************************************************************)
EXTENDS Naturals

CONSTANTS
  Request, Player,
  MaxReplies,  \* bound: replies of Hypixel
  Roster       \* Roster[n]: the guild's members when Hypixel gives reply n

ASSUME RosterAssumption ==
  MaxReplies \in Nat /\ Roster \in [1 .. MaxReplies -> SUBSET Player]

VARIABLES
  pc,         \* what a request does next, "idle" if it is not running
  player,     \* the player it was asked for
  keyed,      \* the player's id is spelled as in the keys, with dashes
  reply,      \* the reply it holds, 0 if none
  headers,    \* the headers of the rate limit in the reply that are numbers
  todo,       \* members it has yet to store the reply under
  overlapped, \* history: another request wrote while this one held its reply
  cache,      \* cache[p]: the reply stored under guild:p, 0 if none
  replies,    \* how many replies Hypixel has given
  remaining, reset  \* RateLimitRemaining and RateLimitReset: the replies they are of

requests == <<pc, player, keyed, reply, headers, todo, overlapped>>
limits == <<remaining, reset>>
guild == <<requests, cache, replies, limits>>

Header == {"remaining", "reset"}

\* Requests between Hypixel's reply and their end.
Holding == {r \in Request : pc[r] \in {"remaining", "reset", "store"}}

\* Response.Guild.Members: a player who has no guild gets an empty reply.  Mutant: the
\* player asked for is taken for one.
MembersWithPlayer(n, p) == Roster[n] \cup {p}
Members(n, p) == IF p \in Roster[n] THEN Roster[n] ELSE {}

-----------------------------------------------------------------------------
GuildInit ==
  /\ pc = [r \in Request |-> "idle"]
  /\ player \in [Request -> Player]
  /\ keyed = [r \in Request |-> TRUE]
  /\ reply = [r \in Request |-> 0]
  /\ headers = [r \in Request |-> {}]
  /\ todo = [r \in Request |-> {}]
  /\ overlapped = [r \in Request |-> FALSE]
  /\ cache = [p \in Player |-> 0]
  /\ replies = 0
  /\ remaining = 0 /\ reset = 0

\* What else r does when it writes, and when it ends.
Overlaps(r) == overlapped' = [q \in Request |-> overlapped[q] \/ (q \in Holding \ {r})]
Ends(r) ==
  /\ pc' = [pc EXCEPT ![r] = "idle"]
  /\ keyed' = [keyed EXCEPT ![r] = TRUE]
  /\ reply' = [reply EXCEPT ![r] = 0]
  /\ headers' = [headers EXCEPT ![r] = {}]
  /\ todo' = [todo EXCEPT ![r] = {}]
  /\ UNCHANGED player

\* A lookup that misses; one that hits answers and changes nothing.
Ask(r, p, asKeys) ==
  /\ pc[r] = "idle"
  /\ pc' = [pc EXCEPT ![r] = "fetch"]
  /\ player' = [player EXCEPT ![r] = p]
  /\ keyed' = [keyed EXCEPT ![r] = asKeys]
  /\ UNCHANGED <<reply, headers, todo, overlapped, cache, replies, limits>>

\* GetFromHypixel: a reply, in which either header of the rate limit may be missing or
\* not be a number.
GetFromHypixel(r) ==
  /\ pc[r] = "fetch" /\ replies < MaxReplies
  /\ replies' = replies + 1
  /\ reply' = [reply EXCEPT ![r] = replies']
  /\ todo' = [todo EXCEPT ![r] = Members(replies', player[r])]
  /\ overlapped' = [overlapped EXCEPT ![r] = FALSE]
  /\ \E usable \in SUBSET Header : headers' = [headers EXCEPT ![r] = usable]
  /\ pc' = [pc EXCEPT ![r] = "remaining"]
  /\ UNCHANGED <<player, keyed, cache, limits>>

\* No reply, a 404, or any other status.
FetchFails(r) ==
  /\ pc[r] = "fetch"
  /\ Ends(r)
  /\ UNCHANGED <<overlapped, cache, replies, limits>>

\* updateRateLimit: two writes that nothing orders with those of other goroutines, each
\* made only if its own header is a number.  Mutant: the second statement is a copy of
\* the first.
UpdateRemaining(r) ==
  /\ pc[r] = "remaining"
  /\ pc' = [pc EXCEPT ![r] = "reset"]
  /\ \/ "remaining" \in headers[r] /\ remaining' = reply[r] /\ Overlaps(r)
     \/ "remaining" \notin headers[r] /\ UNCHANGED <<remaining, overlapped>>
  /\ UNCHANGED <<player, keyed, reply, headers, todo, cache, replies, reset>>

UpdateResetCopied(r) ==
  /\ pc[r] = "reset"
  /\ pc' = [pc EXCEPT ![r] = "store"]
  /\ headers' = [headers EXCEPT ![r] = {}]
  /\ \/ "reset" \in headers[r] /\ remaining' = reply[r] /\ Overlaps(r)
     \/ "reset" \notin headers[r] /\ UNCHANGED <<remaining, overlapped>>
  /\ UNCHANGED <<player, keyed, reply, todo, cache, replies, reset>>
UpdateReset(r) ==
  /\ pc[r] = "reset"
  /\ pc' = [pc EXCEPT ![r] = "store"]
  /\ headers' = [headers EXCEPT ![r] = {}]
  /\ \/ "reset" \in headers[r] /\ reset' = reply[r] /\ Overlaps(r)
     \/ "reset" \notin headers[r] /\ UNCHANGED <<reset, overlapped>>
  /\ UNCHANGED <<player, keyed, reply, todo, cache, replies, remaining>>

\* The body cannot be read or decoded, or says that Hypixel failed: nothing is stored.
Unreadable(r) ==
  /\ pc[r] = "store" /\ todo[r] = Members(reply[r], player[r])
  /\ Ends(r)
  /\ UNCHANGED <<overlapped, cache, replies, limits>>

\* One round of cacheGuild's loop.  A failing call, which has been applied by then or
\* never is, ends it and the answer is 500.  Mutant: the error is ignored.
Store(r, m) ==
  /\ pc[r] = "store" /\ m \in todo[r]
  /\ cache' = [cache EXCEPT ![m] = reply[r]]
  /\ todo' = [todo EXCEPT ![r] = @ \ {m}]
  /\ Overlaps(r)
  /\ UNCHANGED <<pc, player, keyed, reply, headers, replies, limits>>

StoreFailsUnseen(r, m) ==
  /\ pc[r] = "store" /\ m \in todo[r]
  /\ cache' \in {cache, [cache EXCEPT ![m] = reply[r]]}
  /\ todo' = [todo EXCEPT ![r] = @ \ {m}]
  /\ Overlaps(r)
  /\ UNCHANGED <<pc, player, keyed, reply, headers, replies, limits>>
StoreFails(r, m) ==
  /\ pc[r] = "store" /\ m \in todo[r]
  /\ cache' \in {cache, [cache EXCEPT ![m] = reply[r]]}
  /\ Ends(r)
  /\ Overlaps(r)
  /\ UNCHANGED <<replies, limits>>

\* The reply is under every member: 200.
Answer(r) ==
  /\ pc[r] = "store" /\ todo[r] = {}
  /\ Ends(r)
  /\ UNCHANGED <<overlapped, cache, replies, limits>>

Expire(p) ==
  /\ cache[p] # 0
  /\ cache' = [cache EXCEPT ![p] = 0]
  /\ UNCHANGED <<requests, replies, limits>>

\* The process ends with its requests and its globals; Redis stays.
Vanish ==
  /\ pc' = [r \in Request |-> "idle"]
  /\ keyed' = [r \in Request |-> TRUE]
  /\ reply' = [r \in Request |-> 0]
  /\ headers' = [r \in Request |-> {}]
  /\ todo' = [r \in Request |-> {}]
  /\ remaining' = 0 /\ reset' = 0
  /\ UNCHANGED <<player, overlapped, cache, replies>>

GuildStep(r) ==
  \/ GetFromHypixel(r) \/ FetchFails(r) \/ UpdateRemaining(r) \/ UpdateReset(r)
  \/ Unreadable(r) \/ Answer(r)
  \/ \E m \in Player : Store(r, m)
=============================================================================
