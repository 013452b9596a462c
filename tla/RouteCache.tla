----------------------------- MODULE RouteCache -----------------------------
(***************************************************************************)
(* The cached proxy routes of the backend: GET /profiles, /status,         *)
(* /player, /museum, /garden and /auctions/{profile}.  Each answers from   *)
(* Redis when it can, otherwise asks the Hypixel API, stores what it got   *)
(* and answers; most also store a short-lived marker when Hypixel failed.  *)
(*                                                                         *)
(* net/http runs every request in a goroutine of its own and nothing       *)
(* coordinates them, so each call to Redis or to Hypixel is one step here  *)
(* and the steps of different requests interleave freely.                  *)
(*                                                                         *)
(* A document is abstracted to the version of the upstream data it shows,  *)
(* time to ticks: Redis' expiry is a countdown held with the entry.        *)
(***************************************************************************)
EXTENDS Integers

CONSTANTS
  Request,         \* slots of concurrently served requests
  Key,             \* "<path>:<id>" cache keys; the error key of k is marker[k]
  RouteOf,         \* the route whose path prefixes a key
  HighProfile,     \* keys of the players listed in high_profile_accounts
  Ttl,             \* per route, the duration AddToCache is called with
  HighTtl,         \* per route, the duration for high profile accounts
  ErrorTtl,        \* per route, the duration AddToErrorCache is called with
  RedisConfigured, \* redis_address is set, so ctx.redis # nil
  RedisMayFail,    \* a call to Redis may return an error
  PlayersEnabled,  \* endpoints.players
  MaxLatency,      \* bound: ticks a request lasts (the code has no timeout)
  MaxVersion       \* bound: versions of the upstream data

Route == {"profiles", "status", "player", "museum", "garden", "player_auctions"}

\* Routes whose handler calls HasErrorCached and AddToErrorCache.
MarkingRoutes == {"profiles", "status", "player", "museum", "garden"}

\* Routes whose handler consults IsHighProfileAccount.
TieredRoutes == {"profiles", "status"}

ASSUME KeyAssumption ==
  /\ RouteOf \in [Key -> Route]
  /\ HighProfile \subseteq Key
ASSUME DurationAssumption ==
  /\ Ttl \in [Route -> Nat \ {0}]
  /\ HighTtl \in [Route -> Nat \ {0}]
  /\ ErrorTtl \in [Route -> Nat \ {0}]
ASSUME ConfigAssumption ==
  /\ RedisConfigured \in BOOLEAN
  /\ RedisMayFail \in BOOLEAN
  /\ PlayersEnabled \in BOOLEAN
ASSUME BoundAssumption ==
  /\ MaxLatency \in Nat \ {0}
  /\ MaxVersion \in Nat

VARIABLES
  latest,    \* latest[k]: version of the document Hypixel now holds for k
  cache,     \* cache[k]: the entry of Redis under k
  marker,    \* marker[k]: ticks until the error key of k expires, 0 if unset
  chores,    \* chores[k]: the versions of k some CheckData goroutine holds
  pc,        \* pc[r]: the call request r is about to make
  key,       \* key[r]: the key r works on
  bypass,    \* bypass[r]: BypassCache of r's AuthenticationContext
  age,       \* age[r]: ticks since r arrived
  body,      \* body[r]: what r holds: Hypixel's reply, or what it will answer
  expireIn   \* expireIn[r]: the value of r's X-Backend-Expire-In header

vars == <<latest, cache, marker, chores, pc, key, bypass, age, body, expireIn>>
request == <<pc, key, bypass, age, body, expireIn>>

-----------------------------------------------------------------------------
\* Documents and entries.

Kind == {"none", "document", "missing", "failed", "placeholder", "empty", "stub"}
Body == [kind : Kind, ver : Nat, age : Nat]
NoBody == [kind |-> "none", ver |-> 0, age |-> 0]
NoEntry == [body |-> NoBody, ttl |-> 0]

Live(k) == cache[k].ttl > 0

Marks(k) == RouteOf[k] \in MarkingRoutes

CacheDuration(k) ==
  IF k \in HighProfile /\ RouteOf[k] \in TieredRoutes
    THEN HighTtl[RouteOf[k]]
    ELSE Ttl[RouteOf[k]]

ErrorDuration(k) == ErrorTtl[RouteOf[k]]

\* What AddToCache puts under k.  Mutant: the high profile duration for all.
NewEntryUntiered(k, b) == [body |-> b, ttl |-> HighTtl[RouteOf[k]]]
NewEntry(k, b) == [body |-> b, ttl |-> CacheDuration(k)]

\* The outcomes of AddToCache and AddToErrorCache.  A nil client stores nothing
\* and reports success; a call that fails may have been applied before the
\* connection was lost, but is not applied later.
Stored(old, new) ==
  IF RedisConfigured
    THEN {[failed |-> FALSE, content |-> new]}
           \cup [failed : IF RedisMayFail THEN {TRUE} ELSE {}, content : {old, new}]
    ELSE {[failed |-> FALSE, content |-> old]}

\* After the body is known: GetProfiles still asks for the remaining TTL.
Serve(k) == IF RouteOf[k] = "profiles" THEN "ttl" ELSE "ok"

\* What Hypixel may reply about k now.  Mutant: a reply kept from earlier.
ReplyReused(k) == [kind : {"document", "missing", "failed"}, ver : 0 .. latest[k], age : {0}]
Reply(k) == [kind : {"document", "missing", "failed"}, ver : {latest[k]}, age : {0}]

\* Whether HasErrorCached can see a marker for r.  Mutant: administrators who
\* bypass the cache bypass the marker too.
MarkerSeenUnlessBypass(r) == RedisConfigured /\ ~bypass[r] /\ marker[key[r]] > 0
MarkerSeen(r) == RedisConfigured /\ marker[key[r]] > 0

\* Where a request goes once its failure was recorded.  Mutant: it tries again.
AfterFailureRetry == "fetch"
AfterFailure == "err"

\* What GetTtlMilli reports.  Mutant: the TTL of the error key.
RemainingOfMarker(k) == IF RedisConfigured THEN marker[k] ELSE -1
Remaining(k) == IF RedisConfigured THEN cache[k].ttl ELSE -1

-----------------------------------------------------------------------------
Init ==
  /\ latest = [k \in Key |-> 0]
  /\ cache = [k \in Key |-> NoEntry]
  /\ marker = [k \in Key |-> 0]
  /\ chores = [k \in Key |-> {}]
  /\ pc = [r \in Request |-> "idle"]
  /\ key \in [Request -> Key]
  /\ bypass = [r \in Request |-> FALSE]
  /\ age = [r \in Request |-> 0]
  /\ body = [r \in Request |-> NoBody]
  /\ expireIn = [r \in Request |-> 0]

\* A request whose token was accepted reaches the handler of its route.
Arrive(r, k, b) ==
  /\ pc[r] = "idle"
  /\ key' = [key EXCEPT ![r] = k]
  /\ bypass' = [bypass EXCEPT ![r] = b]
  /\ \/ /\ RouteOf[k] = "player" /\ ~PlayersEnabled
        /\ pc' = [pc EXCEPT ![r] = "ok"]
        /\ body' = [body EXCEPT ![r].kind = "stub"]
     \/ /\ RouteOf[k] # "player" \/ PlayersEnabled
        /\ pc' = [pc EXCEPT ![r] = "lookup"]
        /\ UNCHANGED body
  /\ UNCHANGED <<latest, cache, marker, chores, age, expireIn>>

\* An error of Redis is a miss, exactly like an absent key.
GetFromCache(r) ==
  /\ pc[r] = "lookup"
  /\ \/ /\ RedisConfigured /\ ~bypass[r] /\ Live(key[r])
        /\ body' = [body EXCEPT ![r] = cache[key[r]].body]
        /\ pc' = [pc EXCEPT ![r] = Serve(key[r])]
     \/ /\ ~RedisConfigured \/ RedisMayFail \/ bypass[r] \/ ~Live(key[r])
        /\ pc' = [pc EXCEPT ![r] = IF Marks(key[r]) THEN "check" ELSE "fetch"]
        /\ UNCHANGED body
  /\ UNCHANGED <<latest, cache, marker, chores, key, bypass, age, expireIn>>

\* Mutant: a request that meets the marker renews it.
HasErrorCachedRenewing(r) ==
  /\ pc[r] = "check"
  /\ \/ /\ MarkerSeen(r)
        /\ pc' = [pc EXCEPT ![r] = "err"]
        /\ marker' = [marker EXCEPT ![key[r]] = ErrorDuration(key[r])]
     \/ /\ ~MarkerSeen(r) \/ RedisMayFail
        /\ pc' = [pc EXCEPT ![r] = "fetch"]
        /\ UNCHANGED marker
  /\ UNCHANGED <<latest, cache, chores, key, bypass, age, body, expireIn>>

\* An error of Redis counts as "no marker", so the request goes upstream.
HasErrorCached(r) ==
  /\ pc[r] = "check"
  /\ \/ /\ MarkerSeen(r)
        /\ pc' = [pc EXCEPT ![r] = "err"]
     \/ /\ ~MarkerSeen(r) \/ RedisMayFail
        /\ pc' = [pc EXCEPT ![r] = "fetch"]
  /\ UNCHANGED <<latest, cache, marker, chores, key, bypass, age, body, expireIn>>

\* Hypixel serves the request at some moment between the call and its return.
GetFromHypixel(r) ==
  /\ pc[r] = "fetch"
  /\ body' \in {[body EXCEPT ![r] = b] : b \in Reply(key[r])}
  /\ pc' = [pc EXCEPT ![r] = "store"]
  /\ UNCHANGED <<latest, cache, marker, chores, key, bypass, age, expireIn>>

\* GetProfiles starts CheckData with the reply, whether or not it was stored.
\* Mutant: with what the cache held.
SpawnCheckDataFromCache(k, v) ==
  IF RouteOf[k] = "profiles"
    THEN chores' = [chores EXCEPT ![k] = @ \cup {cache[k].body.ver}]
    ELSE UNCHANGED chores
SpawnCheckData(k, v) ==
  IF RouteOf[k] = "profiles"
    THEN chores' = [chores EXCEPT ![k] = @ \cup {v}]
    ELSE UNCHANGED chores

\* A document arrived: store it; an error of Redis fails the request.
StoreDocument(r) ==
  /\ pc[r] = "store" /\ Marks(key[r]) /\ body[r].kind = "document"
  /\ \E s \in Stored(cache[key[r]], NewEntry(key[r], body[r])) :
        /\ cache' = [cache EXCEPT ![key[r]] = s.content]
        /\ pc' = [pc EXCEPT ![r] = IF s.failed THEN "err" ELSE Serve(key[r])]
  /\ SpawnCheckData(key[r], body[r].ver)
  /\ UNCHANGED <<latest, marker, key, bypass, age, body, expireIn>>

\* GetGarden answers a 404 with a placeholder it caches like a document; an
\* error of Redis is ignored here.
StorePlaceholder(r) ==
  /\ pc[r] = "store" /\ RouteOf[key[r]] = "garden" /\ body[r].kind = "missing"
  /\ body' = [body EXCEPT ![r].kind = "placeholder"]
  /\ \E s \in Stored(cache[key[r]], NewEntry(key[r], body'[r])) :
        cache' = [cache EXCEPT ![key[r]] = s.content]
  /\ pc' = [pc EXCEPT ![r] = "ok"]
  /\ UNCHANGED <<latest, marker, chores, key, bypass, age, expireIn>>

\* Hypixel failed, or had no document and the route is not the garden.  Ids are those of
\* players and profiles, so that no id ends in ":error" and no marker is an entry's key.
MarkError(r) ==
  /\ pc[r] = "store" /\ Marks(key[r])
  /\ \/ body[r].kind = "failed"
     \/ body[r].kind = "missing" /\ RouteOf[key[r]] # "garden"
  /\ \E s \in Stored(marker[key[r]], ErrorDuration(key[r])) :
        marker' = [marker EXCEPT ![key[r]] = s.content]
  /\ pc' = [pc EXCEPT ![r] = AfterFailure]
  /\ body' = [body EXCEPT ![r] = NoBody]
  /\ UNCHANGED <<latest, cache, chores, key, bypass, age, expireIn>>

\* GetActiveProfileAuctions: the err of transformAuctions and of AddToCache is
\* a shadowing variable the check below it does not see, so a reply that cannot
\* be decoded becomes an empty body and is answered like any other.
StoreAuctions(r) ==
  /\ pc[r] = "store" /\ ~Marks(key[r]) /\ body[r].kind = "document"
  /\ \/ /\ \E s \in Stored(cache[key[r]], NewEntry(key[r], body[r])) :
              cache' = [cache EXCEPT ![key[r]] = s.content]
        /\ UNCHANGED body
     \/ /\ body' = [body EXCEPT ![r].kind = "empty"]
        /\ UNCHANGED cache
  /\ pc' = [pc EXCEPT ![r] = "ok"]
  /\ UNCHANGED <<latest, marker, chores, key, bypass, age, expireIn>>

\* GetActiveProfileAuctions keeps no marker: the next request tries again.  A
\* document that says success without a list of auctions panics in
\* transformAuctions, and net/http ends the request without an answer.
FailAuctions(r) ==
  /\ pc[r] = "store" /\ ~Marks(key[r])
  /\ pc' = [pc EXCEPT ![r] = "err"]
  /\ body' = [body EXCEPT ![r] = NoBody]
  /\ UNCHANGED <<latest, cache, marker, chores, key, bypass, age, expireIn>>

\* GetProfiles reads the TTL of whatever entry is under its key by now.
GetTtlMilli(r) ==
  /\ pc[r] = "ttl"
  /\ \/ /\ expireIn' = [expireIn EXCEPT ![r] = Remaining(key[r])]
        /\ pc' = [pc EXCEPT ![r] = "ok"]
     \/ /\ RedisConfigured /\ RedisMayFail
        /\ pc' = [pc EXCEPT ![r] = "err"]
        /\ UNCHANGED expireIn
  /\ UNCHANGED <<latest, cache, marker, chores, key, bypass, age, body>>

\* The handler returned: pc "ok" answered 200 with body[r], "err" answered 500.
Finish(r) ==
  /\ pc[r] \in {"ok", "err"}
  /\ pc' = [pc EXCEPT ![r] = "idle"]
  /\ bypass' = [bypass EXCEPT ![r] = FALSE]
  /\ age' = [age EXCEPT ![r] = 0]
  /\ body' = [body EXCEPT ![r] = NoBody]
  /\ expireIn' = [expireIn EXCEPT ![r] = 0]
  /\ UNCHANGED <<latest, cache, marker, chores, key>>

\* A CheckData goroutine runs; what it does to the table is in ProfileSync.
\* Others that hold the same version may remain.
CheckData(k, v) ==
  /\ v \in chores[k]
  /\ chores' \in {chores, [chores EXCEPT ![k] = @ \ {v}]}
  /\ UNCHANGED <<latest, cache, marker, request>>

-----------------------------------------------------------------------------
\* The environment.

UpstreamChanges(k) ==
  /\ latest[k] < MaxVersion
  /\ latest' = [latest EXCEPT ![k] = @ + 1]
  /\ UNCHANGED <<cache, marker, chores, request>>

Older(b) == [b EXCEPT !.age = @ + 1]

\* One tick less for every entry and marker; Redis drops what reaches zero.
\* A request being answered holds a body whose age no longer matters.
InHandler(r) == pc[r] \notin {"idle", "ok", "err"}

Tick ==
  /\ \A r \in Request : InHandler(r) => age[r] < MaxLatency
  /\ cache' = [k \in Key |->
                 IF cache[k].ttl <= 1
                   THEN NoEntry
                   ELSE [body |-> Older(cache[k].body), ttl |-> cache[k].ttl - 1]]
  /\ marker' = [k \in Key |-> IF marker[k] = 0 THEN 0 ELSE marker[k] - 1]
  /\ age' = [r \in Request |-> IF InHandler(r) THEN age[r] + 1 ELSE age[r]]
  /\ body' = [r \in Request |->
                IF pc[r] \in {"store", "ttl"} THEN Older(body[r]) ELSE body[r]]
  /\ UNCHANGED <<latest, chores, pc, key, bypass, expireIn>>

\* The process dies (a panic in fetchData's goroutine, a new deployment): its
\* goroutines are gone, Redis keeps what it has.
Restart ==
  /\ pc' = [r \in Request |-> "idle"]
  /\ bypass' = [r \in Request |-> FALSE]
  /\ age' = [r \in Request |-> 0]
  /\ body' = [r \in Request |-> NoBody]
  /\ expireIn' = [r \in Request |-> 0]
  /\ chores' = [k \in Key |-> {}]
  /\ UNCHANGED <<latest, cache, marker, key>>

Handle(r) ==
  \/ GetFromCache(r) \/ HasErrorCached(r) \/ GetFromHypixel(r)
  \/ StoreDocument(r) \/ StorePlaceholder(r) \/ MarkError(r)
  \/ StoreAuctions(r) \/ FailAuctions(r)
  \/ GetTtlMilli(r) \/ Finish(r)

Next ==
  \/ \E r \in Request, k \in Key, b \in BOOLEAN : Arrive(r, k, b)
  \/ \E r \in Request : Handle(r)
  \/ \E k \in Key, v \in 0 .. MaxVersion : CheckData(k, v)
  \/ \E k \in Key : UpstreamChanges(k)
  \/ Tick
  \/ Restart

Spec == Init /\ [][Next]_vars

\* Goroutines are scheduled and calls return: Redis' client has timeouts, the
\* HTTP client does not, so for GetFromHypixel this assumes Hypixel answers.
Fairness ==
  /\ \A r \in Request : WF_vars(Handle(r))
  /\ \A k \in Key, v \in 0 .. MaxVersion : WF_vars(CheckData(k, v))
  /\ WF_vars(Tick)

FairSpec == Spec /\ Fairness

-----------------------------------------------------------------------------
\* Properties.

\* Every variable stays in its set; in particular no entry and no marker ever
\* has more time left than its route gives it, and no version comes from the
\* future.
TypeOK ==
  /\ latest \in [Key -> 0 .. MaxVersion]
  /\ cache \in [Key -> [body : Body, ttl : Nat]]
  /\ marker \in [Key -> Nat]
  /\ chores \in [Key -> SUBSET (0 .. MaxVersion)]
  /\ pc \in [Request -> {"idle", "lookup", "check", "fetch", "store", "ttl", "ok", "err"}]
  /\ key \in [Request -> Key]
  /\ bypass \in [Request -> BOOLEAN]
  /\ age \in [Request -> Nat]
  /\ body \in [Request -> Body]
  /\ expireIn \in [Request -> Int]
  /\ \A k \in Key : cache[k].ttl <= CacheDuration(k) /\ cache[k].body.ver <= latest[k]
  /\ \A k \in Key : marker[k] <= ErrorDuration(k)
  /\ \A r \in Request : body[r].ver <= latest[key[r]]

\* However requests interleave, a 200 answer shows what Hypixel served less than
\* one cache duration and one request duration ago: the request that filled the
\* entry may have stored its reply late.  GetProfiles adds its own duration,
\* because it makes another call after it has the body.
ReadersDelay(k, delay) == IF RouteOf[k] = "profiles" THEN delay ELSE 0
FreshnessBound ==
  \A r \in Request :
    pc[r] = "ok" =>
      body[r].age < CacheDuration(key[r]) + MaxLatency + ReadersDelay(key[r], MaxLatency)

\* The marker protects Hypixel: while it is set, the only requests past the
\* check are those that had arrived when it was set.  An administrator's
\* BypassCache does not change that.  (With Redis answering.)
MarkerShieldsUpstream ==
  RedisConfigured /\ ~RedisMayFail =>
    \A r \in Request :
      pc[r] \in {"fetch", "store"} /\ marker[key[r]] > 0
        => age[r] >= ErrorDuration(key[r]) - marker[key[r]]

\* Two requests that missed together may store their replies in either order, so
\* an entry can be replaced by older data; but only by a request that was already
\* running when the newer entry was stored, never by one that arrived later.
NoLateRegress ==
  [][\A k \in Key :
       Live(k) /\ Live(k)' /\ cache'[k].body.ver < cache[k].body.ver
         => \E r \in Request :
              /\ pc[r] = "store" /\ pc'[r] # "store" /\ key[r] = k
              /\ age[r] >= CacheDuration(k) - cache[k].ttl]_vars

\* X-Backend-Expire-In is read after the body, in a second call.  It never says
\* less than the time the answered body had left, and it says more only if the
\* entry it measures was stored after the request arrived.
ExpireInBounds ==
  \A r \in Request :
    RedisConfigured /\ pc[r] = "ok" /\ RouteOf[key[r]] = "profiles" =>
      LET promised == body[r].age + expireIn[r] IN
      /\ promised >= CacheDuration(key[r])
      /\ expireIn[r] > 0 /\ promised > CacheDuration(key[r]) + MaxLatency
           => CacheDuration(key[r]) - expireIn[r] <= age[r]

\* To the table of shared data, GET /profiles is a feed of snapshots, each taken
\* from Hypixel during the request that starts the chore: no entry of Redis, no
\* reply of another request and no reply of another player ever reaches a chore.
ProfileKey == {k \in Key : RouteOf[k] = "profiles"}
Feed == INSTANCE SnapshotFeed WITH
  Viewer <- Request,
  Player <- ProfileKey,
  latest <- [k \in ProfileKey |-> latest[k]],
  inflight <- [r \in Request |->
                 IF pc[r] = "store" /\ key[r] \in ProfileKey
                   THEN {<<key[r], body[r].ver>>} ELSE {}],
  chores <- [k \in ProfileKey |-> chores[k]]
FeedsSnapshots == Feed!Spec

\* A 200 answer carries a document (or the garden's placeholder, or the fixed
\* reply of a disabled endpoint): a handler that could not obtain one reports a
\* failure instead.
OkCarriesBody ==
  \A r \in Request : pc[r] = "ok" => body[r].kind \in {"document", "placeholder", "stub"}

\* Every request ends, whatever fails and whatever the others do.
RequestsEnd == \A r \in Request : pc[r] # "idle" ~> pc[r] = "idle"

\* Once Hypixel keeps answering, every marker goes away for good, however many
\* requests keep running into it.
ErrorsHeal ==
  <>[][\A r \in Request : GetFromHypixel(r) => body'[r].kind = "document"]_vars
    => \A k \in Key : <>[](marker[k] = 0)
=============================================================================
