-------------------------- MODULE RouteCacheProofs --------------------------
(***************************************************************************)
(* Proofs about RouteCache, for any number of requests and keys, any       *)
(* durations and with or without failures of Redis.                        *)
(***************************************************************************)
EXTENDS RouteCache, TLAPS

-----------------------------------------------------------------------------
\* Facts about the definitions.

\* The assumption on the duration tables, for the duration a key really gets.
LEMMA DurationsArePositive ==
  ASSUME NEW k \in Key
  PROVE  CacheDuration(k) \in Nat \ {0} /\ ErrorDuration(k) \in Nat \ {0}
BY KeyAssumption, DurationAssumption DEF CacheDuration, ErrorDuration

\* AddToCache and AddToErrorCache leave either what was there or what was given.
LEMMA StoredIsOldOrNew ==
  ASSUME NEW old, NEW new, NEW s \in Stored(old, new)
  PROVE  s.content \in {old, new}
<1>1. CASE RedisConfigured /\ s = [failed |-> FALSE, content |-> new]
  BY <1>1
<1>2. CASE RedisConfigured /\ s \in [failed : IF RedisMayFail THEN {TRUE} ELSE {}, content : {old, new}]
  BY <1>2
<1>3. CASE ~RedisConfigured
  BY <1>3 DEF Stored
<1> QED
  BY <1>1, <1>2, <1>3 DEF Stored

\* A call that reports success has stored what it was given.
LEMMA SuccessfulStore ==
  ASSUME NEW old, NEW new, NEW s \in Stored(old, new), RedisConfigured, ~s.failed
  PROVE  s.content = new
<1>1. CASE s = [failed |-> FALSE, content |-> new]
  BY <1>1
<1>2. CASE s \in [failed : IF RedisMayFail THEN {TRUE} ELSE {}, content : {old, new}]
  BY <1>2
<1> QED
  BY <1>1, <1>2 DEF Stored

\* What AddToCache writes is an entry with the full duration of its key.
LEMMA NewEntryType ==
  ASSUME NEW k \in Key, NEW b \in Body
  PROVE  /\ NewEntry(k, b) \in [body : Body, ttl : Nat]
         /\ NewEntry(k, b).body = b /\ NewEntry(k, b).ttl = CacheDuration(k)
BY DurationsArePositive DEF NewEntry

\* An empty request holds a body like any other, of version and age 0.
LEMMA NoBodyType == NoBody \in Body /\ NoBody.ver = 0 /\ NoBody.age = 0 /\ NoBody.kind = "none"
BY DEF NoBody, Body, Kind

\* A body that is answered as something else keeps its version and age.
LEMMA RelabelledType ==
  ASSUME NEW b \in Body, NEW kind \in Kind
  PROVE  LET c == [b EXCEPT !.kind = kind] IN c \in Body /\ c.ver = b.ver /\ c.age = b.age
BY DEF Body

\* Hypixel's reply is a body of the latest version, just fetched.
LEMMA ReplyType ==
  ASSUME NEW k \in Key, latest[k] \in Nat, NEW b \in Reply(k)
  PROVE  b \in Body /\ b.ver = latest[k] /\ b.age = 0 /\ b # NoBody
BY DEF Reply, Body, Kind, NoBody

\* A body that ages stays a body of the same version.
LEMMA OlderType ==
  ASSUME NEW b \in Body
  PROVE  /\ Older(b) \in Body
         /\ Older(b).age = b.age + 1 /\ Older(b).ver = b.ver /\ Older(b).kind = b.kind
BY DEF Older, Body

-----------------------------------------------------------------------------
\* Type correctness.  That a body is never newer than upstream survives Arrive,
\* which gives the request another key, only because an idle request holds none.

HoldsNothingYet ==
  \A r \in Request : pc[r] \in {"idle", "lookup", "check", "fetch"} => body[r] = NoBody

TypeInv == TypeOK /\ HoldsNothingYet

\* The type invariant and its strengthening hold at the start.
LEMMA TypeInit == Init => TypeInv
BY KeyAssumption, BoundAssumption, NoBodyType, DurationsArePositive
   DEF Init, TypeInv, TypeOK, HoldsNothingYet, NoEntry

\* Every action keeps the type invariant, one case per action.
LEMMA TypeStep == TypeInv /\ [Next]_vars => TypeInv'
<1> SUFFICES ASSUME TypeInv, [Next]_vars PROVE TypeInv'
  OBVIOUS
<1> USE DEF TypeInv, TypeOK, HoldsNothingYet
<1>1. ASSUME NEW r \in Request, NEW k \in Key, NEW b \in BOOLEAN, Arrive(r, k, b)
      PROVE  TypeInv'
  <2>1. /\ body' \in [Request -> Body] /\ body'[r].ver = 0
        /\ \A q \in Request : q # r => body'[q] = body[q]
    <3>1. CASE body' = [body EXCEPT ![r].kind = "stub"]
      BY <1>1, <3>1, NoBodyType DEF Arrive, Body, Kind
    <3>2. CASE UNCHANGED body
      BY <1>1, <3>2, NoBodyType DEF Arrive
    <3> QED
      BY <1>1, <3>1, <3>2 DEF Arrive
  <2>2. /\ pc'[r] \in {"ok", "lookup"} /\ (pc'[r] = "lookup" => body'[r] = NoBody)
        /\ pc' = [pc EXCEPT ![r] = pc'[r]]
    <3>1. CASE pc' = [pc EXCEPT ![r] = "ok"]
      BY <3>1
    <3>2. CASE pc' = [pc EXCEPT ![r] = "lookup"] /\ UNCHANGED body
      BY <1>1, <3>2 DEF Arrive
    <3> QED
      BY <1>1, <3>1, <3>2 DEF Arrive
  <2>3. key' \in [Request -> Key] /\ \A q \in Request : q # r => key'[q] = key[q]
    BY <1>1 DEF Arrive
  <2>4. bypass' \in [Request -> BOOLEAN]
    BY <1>1 DEF Arrive
  <2>5. \A q \in Request : body'[q].ver <= latest[key'[q]]
    BY <2>1, <2>3
  <2>6. HoldsNothingYet'
    BY <2>1, <2>2
  <2> QED
    BY <1>1, <2>1, <2>2, <2>3, <2>4, <2>5, <2>6 DEF Arrive
<1>2. ASSUME NEW r \in Request, GetFromCache(r)
      PROVE  TypeInv'
  <2>1. /\ pc'[r] \in {"ttl", "ok", "check", "fetch"} /\ pc' = [pc EXCEPT ![r] = pc'[r]]
        /\ body' = [body EXCEPT ![r] = body'[r]]
    BY <1>2 DEF GetFromCache, Serve
  <2>2. body'[r] \in Body /\ body'[r].ver <= latest[key[r]]
    BY <1>2 DEF GetFromCache
  <2>3. pc'[r] \in {"check", "fetch"} => body'[r] = NoBody
    BY <1>2 DEF GetFromCache, Serve
  <2>4. UNCHANGED <<latest, cache, marker, chores, key, bypass, age, expireIn>>
    BY <1>2 DEF GetFromCache
  <2>5. body' \in [Request -> Body] /\ \A q \in Request : body'[q].ver <= latest[key[q]]
    BY <2>1, <2>2
  <2>6. /\ pc' \in [Request -> {"idle", "lookup", "check", "fetch", "store", "ttl", "ok", "err"}]
        /\ HoldsNothingYet'
    BY <2>1, <2>3
  <2> QED
    BY <2>4, <2>5, <2>6
<1>3. ASSUME NEW r \in Request, HasErrorCached(r)
      PROVE  TypeInv'
  BY <1>3 DEF HasErrorCached
<1>4. ASSUME NEW r \in Request, GetFromHypixel(r)
      PROVE  TypeInv'
  <2>1. PICK b \in Reply(key[r]) : body' = [body EXCEPT ![r] = b]
    BY <1>4 DEF GetFromHypixel
  <2>2. b \in Body /\ b.ver = latest[key[r]]
    BY ReplyType
  <2> QED
    BY <1>4, <2>1, <2>2 DEF GetFromHypixel
<1>5. ASSUME NEW r \in Request, StoreDocument(r)
      PROVE  TypeInv'
  <2>1. PICK s \in Stored(cache[key[r]], NewEntry(key[r], body[r])) :
             /\ cache' = [cache EXCEPT ![key[r]] = s.content]
             /\ pc' = [pc EXCEPT ![r] = IF s.failed THEN "err" ELSE Serve(key[r])]
    BY <1>5 DEF StoreDocument
  <2>2. s.content \in {cache[key[r]], NewEntry(key[r], body[r])}
    BY StoredIsOldOrNew
  <2>3. /\ cache' \in [Key -> [body : Body, ttl : Nat]]
        /\ \A k \in Key : cache'[k].ttl <= CacheDuration(k) /\ cache'[k].body.ver <= latest[k]
    BY <2>1, <2>2, NewEntryType, DurationsArePositive
  <2>4. pc'[r] \in {"err", "ttl", "ok"} /\ pc' = [pc EXCEPT ![r] = pc'[r]]
    BY <2>1 DEF Serve
  <2>5. chores' \in [Key -> SUBSET (0 .. MaxVersion)]
    <3>1. body[r].ver \in 0 .. MaxVersion
      BY BoundAssumption DEF Body
    <3> QED
      BY <1>5, <3>1 DEF StoreDocument, SpawnCheckData
  <2> QED
    BY <1>5, <2>3, <2>4, <2>5 DEF StoreDocument
<1>6. ASSUME NEW r \in Request, StorePlaceholder(r)
      PROVE  TypeInv'
  <2>1. body'[r] \in Body /\ body'[r].ver = body[r].ver /\ body' = [body EXCEPT ![r] = body'[r]]
    <3>1. body[r] \in Body /\ body' = [body EXCEPT ![r] = [body[r] EXCEPT !.kind = "placeholder"]]
      BY <1>6 DEF StorePlaceholder
    <3>2. body'[r] = [body[r] EXCEPT !.kind = "placeholder"]
      BY <3>1
    <3>3. \A b \in Body : LET new == [b EXCEPT !.kind = "placeholder"]
                         IN  new \in Body /\ new.ver = b.ver
      BY DEF Body, Kind
    <3> QED
      BY <3>1, <3>2, <3>3
  <2>2. PICK s \in Stored(cache[key[r]], NewEntry(key[r], body'[r])) :
             cache' = [cache EXCEPT ![key[r]] = s.content]
    BY <1>6 DEF StorePlaceholder
  <2>3. s.content \in {cache[key[r]], NewEntry(key[r], body'[r])}
    BY StoredIsOldOrNew
  <2>4. /\ cache' \in [Key -> [body : Body, ttl : Nat]]
        /\ \A k \in Key : cache'[k].ttl <= CacheDuration(k) /\ cache'[k].body.ver <= latest[k]
    BY <2>1, <2>2, <2>3, NewEntryType, DurationsArePositive
  <2> QED
    BY <1>6, <2>1, <2>4 DEF StorePlaceholder
<1>7. ASSUME NEW r \in Request, MarkError(r)
      PROVE  TypeInv'
  <2>1. PICK s \in Stored(marker[key[r]], ErrorDuration(key[r])) :
             marker' = [marker EXCEPT ![key[r]] = s.content]
    BY <1>7 DEF MarkError
  <2>2. s.content \in {marker[key[r]], ErrorDuration(key[r])}
    BY StoredIsOldOrNew
  <2>3. marker' \in [Key -> Nat] /\ \A k \in Key : marker'[k] <= ErrorDuration(k)
    BY <2>1, <2>2, DurationsArePositive
  <2> QED
    BY <1>7, <2>3, NoBodyType DEF MarkError, AfterFailure
<1>8. ASSUME NEW r \in Request, StoreAuctions(r)
      PROVE  TypeInv'
  <2>1. CASE UNCHANGED cache /\ body' = [body EXCEPT ![r] = [body[r] EXCEPT !.kind = "empty"]]
    <3>1. body'[r] \in Body /\ body'[r].ver = body[r].ver /\ body' = [body EXCEPT ![r] = body'[r]]
      <4>1. body[r] \in Body /\ "empty" \in Kind
        BY DEF Kind
      <4> QED
        BY <2>1, <4>1, RelabelledType
    <3>2. /\ body' \in [Request -> Body]
          /\ \A q \in Request : body'[q].ver <= latest[key[q]]
      BY <3>1
    <3>3. pc' = [pc EXCEPT ![r] = "ok"]
      BY <1>8 DEF StoreAuctions
    <3>4. UNCHANGED <<latest, marker, chores, key, bypass, age, expireIn>>
      BY <1>8 DEF StoreAuctions
    <3> QED
      BY <1>8, <2>1, <3>2, <3>3, <3>4
  <2>2. CASE UNCHANGED body /\ \E s \in Stored(cache[key[r]], NewEntry(key[r], body[r])) :
                                  cache' = [cache EXCEPT ![key[r]] = s.content]
    <3>1. PICK s \in Stored(cache[key[r]], NewEntry(key[r], body[r])) :
               cache' = [cache EXCEPT ![key[r]] = s.content]
      BY <2>2
    <3>2. s.content \in {cache[key[r]], NewEntry(key[r], body[r])}
      BY StoredIsOldOrNew
    <3>3. /\ cache' \in [Key -> [body : Body, ttl : Nat]]
          /\ \A k \in Key : cache'[k].ttl <= CacheDuration(k) /\ cache'[k].body.ver <= latest[k]
      BY <3>1, <3>2, NewEntryType, DurationsArePositive
    <3> QED
      BY <1>8, <2>2, <3>3 DEF StoreAuctions
  <2> QED
    BY <1>8, <2>1, <2>2 DEF StoreAuctions
<1>9. ASSUME NEW r \in Request, FailAuctions(r)
      PROVE  TypeInv'
  BY <1>9, NoBodyType DEF FailAuctions
<1>10. ASSUME NEW r \in Request, GetTtlMilli(r)
      PROVE  TypeInv'
  <2>1. expireIn' \in [Request -> Int]
    BY <1>10 DEF GetTtlMilli, Remaining
  <2>2. pc'[r] \in {"ok", "err"} /\ pc' = [pc EXCEPT ![r] = pc'[r]]
    BY <1>10 DEF GetTtlMilli
  <2> QED
    BY <1>10, <2>1, <2>2 DEF GetTtlMilli
<1>11. ASSUME NEW r \in Request, Finish(r)
      PROVE  TypeInv'
  BY <1>11, NoBodyType DEF Finish
<1>12. ASSUME NEW k \in Key, NEW v \in 0 .. MaxVersion, CheckData(k, v)
      PROVE  TypeInv'
  <2>1. chores' \in [Key -> SUBSET (0 .. MaxVersion)]
    BY <1>12 DEF CheckData
  <2>2. UNCHANGED <<latest, cache, marker, request>>
    BY <1>12 DEF CheckData
  <2> QED
    BY <2>1, <2>2 DEF request
<1>13. ASSUME NEW k \in Key, UpstreamChanges(k)
      PROVE  TypeInv'
  <2>1. latest' \in [Key -> 0 .. MaxVersion] /\ \A q \in Key : latest[q] <= latest'[q]
    BY <1>13, BoundAssumption DEF UpstreamChanges
  <2>2. UNCHANGED <<cache, marker, chores, request>>
    BY <1>13 DEF UpstreamChanges
  <2>3. /\ \A q \in Key : cache[q].body.ver \in Nat /\ cache[q].body.ver <= latest'[q]
        /\ \A q \in Request : body[q].ver \in Nat /\ body[q].ver <= latest'[key[q]]
    BY <2>1, BoundAssumption DEF Body
  <2> QED
    BY <2>1, <2>2, <2>3 DEF request
<1>14. CASE Tick
  <2>1. \A k \in Key : /\ cache'[k] \in [body : Body, ttl : Nat]
                       /\ cache'[k].ttl <= cache[k].ttl
                       /\ cache'[k].body.ver \in {0, cache[k].body.ver}
    BY <1>14, OlderType, NoBodyType DEF Tick, NoEntry
  <2>2. cache' \in [Key -> [body : Body, ttl : Nat]]
    BY <1>14, <2>1 DEF Tick
  <2>3. \A k \in Key : cache'[k].ttl <= CacheDuration(k) /\ cache'[k].body.ver <= latest[k]
    <3> SUFFICES ASSUME NEW k \in Key
        PROVE  cache'[k].ttl <= CacheDuration(k) /\ cache'[k].body.ver <= latest[k]
      OBVIOUS
    <3> DEFINE old == cache[k]
               new == cache'[k]
               duration == CacheDuration(k)
               version == latest[k]
    <3>1. /\ old.ttl \in Nat /\ new.ttl \in Nat /\ duration \in Nat /\ version \in Nat
          /\ old.ttl <= duration /\ old.body.ver <= version
      BY <2>1, DurationsArePositive, BoundAssumption
    <3>2. new.ttl <= old.ttl /\ new.body.ver \in {0, old.body.ver}
      BY <2>1
    <3> HIDE DEF old, new, duration, version
    <3>3. new.ttl <= duration /\ new.body.ver <= version
      BY <3>1, <3>2
    <3> QED
      BY <3>3 DEF new, duration, version
  <2>4. marker' \in [Key -> Nat] /\ \A k \in Key : marker'[k] <= ErrorDuration(k)
    <3>1. ASSUME NEW k \in Key PROVE marker'[k] \in Nat /\ marker'[k] <= ErrorDuration(k)
      <4> DEFINE m == marker[k]
                 d == ErrorDuration(k)
      <4>1. m \in Nat /\ m <= d /\ d \in Nat
        BY DurationsArePositive
      <4>2. marker'[k] = IF m = 0 THEN 0 ELSE m - 1
        BY <1>14 DEF Tick
      <4> HIDE DEF m, d
      <4>3. marker'[k] \in Nat /\ marker'[k] <= d
        BY <4>1, <4>2
      <4> QED
        BY <4>3 DEF d
    <3>2. marker' \in [Key -> Nat]
      BY <1>14, <3>1 DEF Tick
    <3> QED
      BY <3>1, <3>2
  <2>5. \A r \in Request : /\ body'[r] \in Body /\ body'[r].ver = body[r].ver
                           /\ pc[r] \notin {"store", "ttl"} => body'[r] = body[r]
    BY <1>14, OlderType DEF Tick
  <2>6. body' \in [Request -> Body] /\ age' \in [Request -> Nat]
    BY <1>14, <2>5 DEF Tick
  <2> QED
    BY <1>14, <2>2, <2>3, <2>4, <2>5, <2>6 DEF Tick
<1>15. CASE Restart
  BY <1>15, NoBodyType DEF Restart
<1>16. CASE UNCHANGED vars
  BY <1>16 DEF vars
<1> QED
  BY <1>1, <1>2, <1>3, <1>4, <1>5, <1>6, <1>7, <1>8, <1>9, <1>10, <1>11, <1>12,
     <1>13, <1>14, <1>15, <1>16 DEF Next, Handle

\* The type invariant of the cached routes, with the bounds on what Redis holds:
\* no entry or marker outlives its route's duration, no version is from the future.
THEOREM TypeCorrect == Spec => []TypeOK
<1>1. Spec => []TypeInv
  BY TypeInit, TypeStep, PTL DEF Spec
<1> QED
  BY <1>1, PTL DEF TypeInv

-----------------------------------------------------------------------------
(***************************************************************************)
(* What one step other than Tick can do to one entry, one marker and one   *)
(* request.  The invariants below are relations between a request, the     *)
(* entry and the marker of its key, so these three facts are all that is   *)
(* needed of the actions.                                                  *)
(***************************************************************************)

\* Request r puts what it fetched into the entry of k and leaves the store step.
Fills(r, k) ==
  /\ pc[r] = "store" /\ pc'[r] # "store" /\ key[r] = k
  /\ cache'[k].ttl = CacheDuration(k)
  /\ cache'[k].body.ver = body[r].ver /\ cache'[k].body.age = body[r].age

EntryMoves(k) == cache'[k] = cache[k] \/ \E r \in Request : Fills(r, k)

MarkerMoves(k) == marker'[k] = marker[k] \/ (marker'[k] = ErrorDuration(k) /\ Marks(k))

Stays(r) ==
  /\ pc'[r] = pc[r] /\ key'[r] = key[r] /\ age'[r] = age[r]
  /\ body'[r] = body[r] /\ expireIn'[r] = expireIn[r]

\* Leaving the handler's steps, or entering the first ones.
Leaves(r) == pc'[r] \in {"idle", "err"} /\ age'[r] \in {0, age[r]}
Starts(r) == pc'[r] \in {"lookup", "check"} /\ age'[r] = age[r]
AnswersStub(r) ==
  /\ pc'[r] = "ok" /\ age'[r] = age[r] /\ body'[r].age = 0
  /\ RouteOf[key'[r]] = "player"

\* Steps within the handler, which keep the request's key and age.
Hits(r) ==
  /\ pc[r] = "lookup" /\ pc'[r] = Serve(key[r]) /\ RedisConfigured
  /\ Live(key[r]) /\ body'[r] = cache[key[r]].body
GoesUpstream(r) ==
  /\ pc[r] \in {"lookup", "check"} /\ pc'[r] = "fetch"
  /\ Marks(key[r]) => ~MarkerSeen(r) \/ RedisMayFail
Receives(r) ==
  /\ pc[r] = "fetch" /\ pc'[r] = "store"
  /\ body'[r].age = 0 /\ body'[r].ver = latest[key[r]]
Stores(r) ==
  /\ pc[r] = "store" /\ pc'[r] = Serve(key[r]) /\ body'[r].age = body[r].age
  /\ pc'[r] = "ttl" /\ RedisConfigured => cache'[key[r]].ttl = CacheDuration(key[r])
Measures(r) ==
  /\ pc[r] = "ttl" /\ pc'[r] = "ok" /\ body'[r] = body[r]
  /\ expireIn'[r] = Remaining(key[r])

RequestMoves(r) ==
  \/ Stays(r) \/ Leaves(r) \/ Starts(r) \/ AnswersStub(r)
  \/ /\ key'[r] = key[r] /\ age'[r] = age[r]
     /\ Hits(r) \/ GoesUpstream(r) \/ Receives(r) \/ Stores(r) \/ Measures(r)

Arrives(r) == \E k \in Key, b \in BOOLEAN : Arrive(r, k, b)

\* A request's own step leaves the others alone.
LEMMA OthersStay ==
  ASSUME TypeInv, NEW q \in Request, NEW r \in Request, q # r, Arrives(q) \/ Handle(q)
  PROVE  Stays(r)
<1> USE DEF TypeInv, TypeOK, Stays
<1>1. CASE Arrives(q)
  BY <1>1 DEF Arrives, Arrive
<1>2. CASE GetFromCache(q)
  BY <1>2 DEF GetFromCache
<1>3. CASE HasErrorCached(q)
  BY <1>3 DEF HasErrorCached
<1>4. CASE GetFromHypixel(q)
  BY <1>4 DEF GetFromHypixel
<1>5. CASE StoreDocument(q)
  BY <1>5 DEF StoreDocument
<1>6. CASE StorePlaceholder(q)
  BY <1>6 DEF StorePlaceholder
<1>7. CASE MarkError(q)
  BY <1>7 DEF MarkError
<1>8. CASE StoreAuctions(q)
  BY <1>8 DEF StoreAuctions
<1>9. CASE FailAuctions(q)
  BY <1>9 DEF FailAuctions
<1>10. CASE GetTtlMilli(q)
  BY <1>10 DEF GetTtlMilli
<1>11. CASE Finish(q)
  BY <1>11 DEF Finish
<1> QED
  BY <1>1, <1>2, <1>3, <1>4, <1>5, <1>6, <1>7, <1>8, <1>9, <1>10, <1>11 DEF Handle

\* Who may have written an entry that changed, and with what.
LEMMA EntryWritten ==
  ASSUME TypeInv, NEW r \in Request, NEW b \in Body,
         b.ver = body[r].ver, b.age = body[r].age,
         pc[r] = "store", pc'[r] # "store",
         NEW e \in {cache[key[r]], NewEntry(key[r], b)},
         cache' = [cache EXCEPT ![key[r]] = e],
         NEW k \in Key
  PROVE  EntryMoves(k)
<1>1. cache \in [Key -> [body : Body, ttl : Nat]] /\ key[r] \in Key
  BY DEF TypeInv, TypeOK
<1>2. CASE k # key[r]
  BY <1>1, <1>2 DEF EntryMoves
<1>3. CASE k = key[r] /\ e = cache[k]
  BY <1>1, <1>3 DEF EntryMoves
<1>4. CASE k = key[r] /\ e = NewEntry(k, b)
  <2>1. cache'[k] = NewEntry(k, b)
    BY <1>1, <1>4
  <2>2. Fills(r, k)
    BY <1>4, <2>1, NewEntryType DEF Fills
  <2> QED
    BY <2>2 DEF EntryMoves
<1> QED
  BY <1>2, <1>3, <1>4

\* What a request's own step does to it, and to the entry and marker of its key.
LEMMA OwnStep ==
  ASSUME TypeInv, NEW r \in Request, Arrives(r) \/ Handle(r)
  PROVE  /\ RequestMoves(r)
         /\ \A k \in Key : EntryMoves(k) /\ MarkerMoves(k)
<1> USE DEF TypeInv, TypeOK, RequestMoves
<1>1. ASSUME NEW k \in Key, NEW b \in BOOLEAN, Arrive(r, k, b)
      PROVE  /\ RequestMoves(r)
             /\ UNCHANGED <<cache, marker>>
  <2>1. age' = age /\ key'[r] = k /\ UNCHANGED <<cache, marker>>
    BY <1>1 DEF Arrive
  <2>2. CASE RouteOf[k] = "player" /\ pc' = [pc EXCEPT ![r] = "ok"] /\ body' = [body EXCEPT ![r].kind = "stub"]
    <3>1. body'[r].age = 0
      BY <1>1, <2>2, NoBodyType DEF Arrive, HoldsNothingYet, Body
    <3> QED
      BY <2>1, <2>2, <3>1 DEF AnswersStub
  <2>3. CASE pc' = [pc EXCEPT ![r] = "lookup"]
    BY <2>1, <2>3 DEF Starts
  <2> QED
    BY <1>1, <2>2, <2>3 DEF Arrive
<1>2. CASE GetFromCache(r)
  <2>1. key' = key /\ age' = age /\ UNCHANGED <<cache, marker>>
    BY <1>2 DEF GetFromCache
  <2>2. Hits(r) \/ GoesUpstream(r) \/ pc'[r] = "check"
    BY <1>2 DEF GetFromCache, Hits, GoesUpstream
  <2> QED
    BY <2>1, <2>2 DEF Starts, EntryMoves, MarkerMoves
<1>3. CASE HasErrorCached(r)
  <2>1. key' = key /\ age' = age /\ UNCHANGED <<cache, marker>>
    BY <1>3 DEF HasErrorCached
  <2>2. GoesUpstream(r) \/ pc'[r] = "err"
    BY <1>3 DEF HasErrorCached, GoesUpstream
  <2> QED
    BY <2>1, <2>2 DEF Leaves, EntryMoves, MarkerMoves
<1>4. CASE GetFromHypixel(r)
  <2>1. PICK b \in Reply(key[r]) : body' = [body EXCEPT ![r] = b]
    BY <1>4 DEF GetFromHypixel
  <2>2. Receives(r)
    BY <1>4, <2>1, ReplyType DEF GetFromHypixel, Receives
  <2> QED
    BY <1>4, <2>2 DEF GetFromHypixel, EntryMoves, MarkerMoves
<1>5. CASE StoreDocument(r)
  <2>1. PICK s \in Stored(cache[key[r]], NewEntry(key[r], body[r])) :
             /\ cache' = [cache EXCEPT ![key[r]] = s.content]
             /\ pc' = [pc EXCEPT ![r] = IF s.failed THEN "err" ELSE Serve(key[r])]
    BY <1>5 DEF StoreDocument
  <2>2. s.content \in {cache[key[r]], NewEntry(key[r], body[r])}
    BY StoredIsOldOrNew
  <2>3. RedisConfigured /\ ~s.failed => s.content = NewEntry(key[r], body[r])
    BY <2>1, SuccessfulStore
  <2>4. pc[r] = "store" /\ UNCHANGED <<marker, key, age, body>>
    BY <1>5 DEF StoreDocument
  <2>5. \A k \in Key : EntryMoves(k)
    <3>1. pc'[r] # "store"
      BY <2>1 DEF Serve
    <3> QED
      BY <2>1, <2>2, <2>4, <3>1, EntryWritten
  <2>6. Leaves(r) \/ Stores(r)
    BY <2>1, <2>3, <2>4, NewEntryType DEF Leaves, Stores, Serve
  <2> QED
    BY <2>4, <2>5, <2>6 DEF MarkerMoves
<1>6. CASE StorePlaceholder(r)
  <2>1. /\ body'[r] \in Body
        /\ body'[r].ver = body[r].ver /\ body'[r].age = body[r].age
    <3>1. body[r] \in Body /\ body'[r] = [body[r] EXCEPT !.kind = "placeholder"]
      BY <1>6 DEF StorePlaceholder
    <3> QED
      BY <3>1 DEF Body, Kind
  <2> DEFINE b == body'[r]
  <2>2. PICK s \in Stored(cache[key[r]], NewEntry(key[r], b)) :
             cache' = [cache EXCEPT ![key[r]] = s.content]
    BY <1>6 DEF StorePlaceholder
  <2>3. s.content \in {cache[key[r]], NewEntry(key[r], b)}
    BY StoredIsOldOrNew
  <2>4. pc[r] = "store" /\ pc'[r] = "ok" /\ RouteOf[key[r]] = "garden" /\ UNCHANGED <<marker, key, age>>
    BY <1>6 DEF StorePlaceholder
  <2>5. \A k \in Key : EntryMoves(k)
    <3> HIDE DEF b
    <3> SUFFICES ASSUME b \in Body, b.ver = body[r].ver, b.age = body[r].age
                 PROVE  \A k \in Key : EntryMoves(k)
      BY <2>1 DEF b
    <3> QED
      BY <2>2, <2>3, <2>4, EntryWritten
  <2>6. Stores(r)
    BY <2>1, <2>4 DEF Stores, Serve
  <2> QED
    BY <2>4, <2>5, <2>6 DEF MarkerMoves
<1>7. CASE MarkError(r)
  <2>1. PICK s \in Stored(marker[key[r]], ErrorDuration(key[r])) :
             marker' = [marker EXCEPT ![key[r]] = s.content]
    BY <1>7 DEF MarkError
  <2>2. s.content \in {marker[key[r]], ErrorDuration(key[r])}
    BY StoredIsOldOrNew
  <2>3. \A k \in Key : MarkerMoves(k)
    BY <1>7, <2>1, <2>2 DEF MarkError, MarkerMoves
  <2> QED
    BY <1>7, <2>3 DEF MarkError, AfterFailure, Leaves, EntryMoves
<1>8. CASE StoreAuctions(r)
  <2>1. /\ pc[r] = "store" /\ pc'[r] = "ok" /\ ~Marks(key[r])
        /\ UNCHANGED <<marker, key, age>>
    BY <1>8 DEF StoreAuctions
  <2>2. Serve(key[r]) = "ok"
    BY <2>1 DEF Marks, MarkingRoutes, Serve
  <2>3. body'[r].age = body[r].age
    BY <1>8 DEF StoreAuctions, Body
  <2>4. CASE UNCHANGED cache
    BY <2>1, <2>2, <2>3, <2>4 DEF Stores, EntryMoves, MarkerMoves
  <2>5. ASSUME NEW s \in Stored(cache[key[r]], NewEntry(key[r], body[r])),
               cache' = [cache EXCEPT ![key[r]] = s.content]
        PROVE  \A k \in Key : EntryMoves(k)
    <3>1. s.content \in {cache[key[r]], NewEntry(key[r], body[r])}
      BY StoredIsOldOrNew
    <3> QED
      BY <2>1, <2>5, <3>1, EntryWritten
  <2> QED
    BY <1>8, <2>1, <2>2, <2>3, <2>4, <2>5 DEF StoreAuctions, Stores, MarkerMoves
<1>9. CASE FailAuctions(r)
  BY <1>9 DEF FailAuctions, Leaves, EntryMoves, MarkerMoves
<1>10. CASE GetTtlMilli(r)
  <2>1. Measures(r) \/ Leaves(r)
    BY <1>10 DEF GetTtlMilli, Measures, Leaves
  <2> QED
    BY <1>10, <2>1 DEF GetTtlMilli, EntryMoves, MarkerMoves
<1>11. CASE Finish(r)
  BY <1>11 DEF Finish, Leaves, EntryMoves, MarkerMoves
<1> QED
  BY <1>1, <1>2, <1>3, <1>4, <1>5, <1>6, <1>7, <1>8, <1>9, <1>10, <1>11
     DEF Arrives, Handle, EntryMoves, MarkerMoves

\* What any step but a tick does to entries, markers and requests.
LEMMA StepMoves ==
  ASSUME TypeInv, [Next]_vars, ~Tick
  PROVE  /\ \A r \in Request : RequestMoves(r)
         /\ \A k \in Key : EntryMoves(k) /\ MarkerMoves(k)
<1>1. ASSUME NEW q \in Request, Arrives(q) \/ Handle(q)
      PROVE  /\ \A r \in Request : RequestMoves(r)
             /\ \A k \in Key : EntryMoves(k) /\ MarkerMoves(k)
  BY <1>1, OthersStay, OwnStep DEF RequestMoves
<1>2. CASE Restart
  BY <1>2 DEF Restart, RequestMoves, Leaves, EntryMoves, MarkerMoves, TypeInv, TypeOK
<1>3. CASE UNCHANGED <<cache, marker, request>>
  BY <1>3 DEF request, RequestMoves, Stays, EntryMoves, MarkerMoves
<1> QED
  BY <1>1, <1>2, <1>3 DEF Next, Arrives, CheckData, UpstreamChanges, vars, request

\* What a tick does to an entry and to a request.
LEMMA TickMoves ==
  ASSUME TypeInv, Tick
  PROVE  /\ \A k \in Key : /\ marker'[k] > 0 => marker'[k] = marker[k] - 1
                           /\ Live(k)' => /\ Live(k) /\ cache'[k].ttl = cache[k].ttl - 1
                                          /\ cache'[k].body.ver = cache[k].body.ver
                                          /\ cache'[k].body.age = cache[k].body.age + 1
                           /\ ~Live(k)' => cache'[k].ttl = 0 /\ cache[k].ttl <= 1
         /\ \A r \in Request : /\ pc'[r] = pc[r] /\ key'[r] = key[r] /\ expireIn'[r] = expireIn[r]
                               /\ InHandler(r) => age[r] < MaxLatency /\ age'[r] = age[r] + 1
                               /\ ~InHandler(r) => age'[r] = age[r] /\ body'[r] = body[r]
                               /\ body'[r].ver = body[r].ver
                               /\ pc[r] \in {"store", "ttl"} => body'[r].age = body[r].age + 1
<1> USE DEF TypeInv, TypeOK
<1>1. ASSUME NEW k \in Key
      PROVE  marker'[k] > 0 => marker'[k] = marker[k] - 1
  <2>1. marker'[k] = IF marker[k] = 0 THEN 0 ELSE marker[k] - 1
    BY DEF Tick
  <2> QED
    BY <2>1
<1>2. ASSUME NEW k \in Key
      PROVE  /\ Live(k)' => /\ Live(k) /\ cache'[k].ttl = cache[k].ttl - 1
                            /\ cache'[k].body.ver = cache[k].body.ver
                            /\ cache'[k].body.age = cache[k].body.age + 1
             /\ ~Live(k)' => cache'[k].ttl = 0 /\ cache[k].ttl <= 1
  <2>1. cache[k].ttl \in Nat /\ cache[k].body \in Body
    OBVIOUS
  <2>2. CASE cache[k].ttl <= 1
    <3>1. cache'[k].ttl = 0
      BY <2>1, <2>2 DEF Tick, NoEntry
    <3>2. ~Live(k)'
      BY <3>1 DEF Live
    <3> QED
      BY <2>2, <3>1, <3>2
  <2>3. CASE cache[k].ttl > 1
    <3>1. cache'[k] = [body |-> Older(cache[k].body), ttl |-> cache[k].ttl - 1]
      BY <2>1, <2>3 DEF Tick
    <3> QED
      BY <2>1, <2>3, <3>1, OlderType DEF Live
  <2> QED
    BY <2>1, <2>2, <2>3
<1>3. ASSUME NEW r \in Request
      PROVE  /\ pc'[r] = pc[r] /\ key'[r] = key[r] /\ expireIn'[r] = expireIn[r]
             /\ InHandler(r) => age[r] < MaxLatency /\ age'[r] = age[r] + 1
             /\ ~InHandler(r) => age'[r] = age[r] /\ body'[r] = body[r]
             /\ body'[r].ver = body[r].ver
             /\ pc[r] \in {"store", "ttl"} => body'[r].age = body[r].age + 1
  BY OlderType DEF Tick, InHandler
<1> QED
  BY <1>1, <1>2, <1>3

-----------------------------------------------------------------------------
(***************************************************************************)
(* Freshness.  An entry's age and remaining time add up to at most one     *)
(* duration and one latency, because the reply it holds waited at most a   *)
(* latency before it was stored, and both change together.                 *)
(***************************************************************************)

EntryBound == \A k \in Key : Live(k) => cache[k].body.age + cache[k].ttl <= CacheDuration(k) + MaxLatency
LatencyBound == \A r \in Request : age[r] <= MaxLatency
ReplyBound == \A r \in Request : pc[r] = "store" => body[r].age <= age[r]
AnswerBound ==
  \A r \in Request :
    pc[r] \in {"ttl", "ok"} =>
      body[r].age < CacheDuration(key[r]) + MaxLatency + ReadersDelay(key[r], age[r])
OnlyProfilesMeasure == \A r \in Request : pc[r] = "ttl" => RouteOf[key[r]] = "profiles"

FreshInv == EntryBound /\ LatencyBound /\ ReplyBound /\ AnswerBound /\ OnlyProfilesMeasure

\* Every step keeps the bounds on the age of entries, replies and answers.
LEMMA FreshStep == TypeInv /\ TypeInv' /\ FreshInv /\ [Next]_vars => FreshInv'
<1> SUFFICES ASSUME TypeInv, TypeInv', FreshInv, [Next]_vars PROVE FreshInv'
  OBVIOUS
<1>0. /\ \A k \in Key : /\ CacheDuration(k) \in Nat \ {0}
                        /\ cache[k].ttl \in Nat /\ cache[k].body.age \in Nat
                        /\ cache'[k].ttl \in Nat /\ cache'[k].body.age \in Nat
      /\ \A r \in Request : /\ key[r] \in Key /\ key'[r] \in Key
                            /\ age[r] \in Nat /\ age'[r] \in Nat
                            /\ body[r].age \in Nat /\ body'[r].age \in Nat
      /\ MaxLatency \in Nat
  BY DurationsArePositive, BoundAssumption DEF TypeInv, TypeOK, Body
<1>1. CASE ~Tick
  <2>1. /\ \A r \in Request : RequestMoves(r)
        /\ \A k \in Key : EntryMoves(k) /\ MarkerMoves(k)
    BY <1>1, StepMoves
  <2>2. EntryBound'
    BY <1>0, <2>1 DEF EntryMoves, Fills, EntryBound, ReplyBound, LatencyBound, FreshInv, Live
  <2>3. LatencyBound'
    BY <1>0, <2>1 DEF RequestMoves, Stays, Leaves, Starts, AnswersStub, LatencyBound, FreshInv
  <2>4. ReplyBound'
    BY <1>0, <2>1 DEF RequestMoves, Stays, Leaves, Starts, AnswersStub, Hits, GoesUpstream,
                      Receives, Stores, Measures, Serve, ReplyBound, FreshInv
  <2>5. AnswerBound'
    BY <1>0, <2>1 DEF RequestMoves, Stays, Leaves, Starts, AnswersStub, Hits, GoesUpstream,
                      Receives, Stores, Measures, Live, AnswerBound, ReplyBound, LatencyBound,
                      EntryBound, ReadersDelay, FreshInv
  <2>6. OnlyProfilesMeasure'
    BY <1>0, <2>1 DEF RequestMoves, Stays, Leaves, Starts, AnswersStub, Hits, GoesUpstream,
                      Receives, Stores, Measures, Serve, OnlyProfilesMeasure, FreshInv
  <2> QED
    BY <2>2, <2>3, <2>4, <2>5, <2>6 DEF FreshInv
<1>2. CASE Tick
  <2>1. EntryBound'
    BY <1>0, <1>2, TickMoves DEF EntryBound, FreshInv
  <2>2. LatencyBound' /\ ReplyBound' /\ OnlyProfilesMeasure'
    BY <1>0, <1>2, TickMoves DEF LatencyBound, ReplyBound, OnlyProfilesMeasure, FreshInv, InHandler
  <2>3. AnswerBound'
    BY <1>0, <1>2, TickMoves DEF AnswerBound, OnlyProfilesMeasure, ReadersDelay, FreshInv, InHandler
  <2> QED
    BY <2>1, <2>2, <2>3 DEF FreshInv
<1> QED
  BY <1>1, <1>2

\* The bounds hold at the start.
LEMMA FreshInit == Init => FreshInv
BY BoundAssumption, DurationsArePositive
   DEF Init, FreshInv, EntryBound, LatencyBound, ReplyBound, AnswerBound, OnlyProfilesMeasure,
       Live, NoEntry

\* The bounds hold in every reachable state.
LEMMA FreshAlways == Spec => [](TypeInv /\ FreshInv)
BY TypeInit, TypeStep, FreshInit, FreshStep, PTL DEF Spec

\* However requests interleave and whatever Redis does, a 200 answer is less than
\* one cache duration and one request duration old, two for GetProfiles.
THEOREM Fresh == Spec => []FreshnessBound
<1>1. TypeInv /\ FreshInv => FreshnessBound
  BY DurationsArePositive, BoundAssumption
     DEF TypeInv, TypeOK, FreshInv, LatencyBound, AnswerBound, FreshnessBound, ReadersDelay, Body
<1> QED
  BY <1>1, FreshAlways, PTL

-----------------------------------------------------------------------------
\* The marker.  Only marking routes ever set one, so a request that did not look
\* for a marker has none to look for; the marker and the ages of the requests
\* that were already past the check move together with the ticks.

OnlyMarkingRoutes == \A k \in Key : marker[k] > 0 => Marks(k)

ShieldInv == OnlyMarkingRoutes /\ MarkerShieldsUpstream

\* Every step keeps: who is past the check of a set marker was there before it.
LEMMA ShieldStep == TypeInv /\ TypeInv' /\ ShieldInv /\ [Next]_vars => ShieldInv'
<1> SUFFICES ASSUME TypeInv, TypeInv', ShieldInv, [Next]_vars PROVE ShieldInv'
  OBVIOUS
<1>0. /\ \A k \in Key : ErrorDuration(k) \in Nat \ {0} /\ marker[k] \in Nat /\ marker'[k] \in Nat
      /\ \A r \in Request : key[r] \in Key /\ age[r] \in Nat /\ age'[r] \in Nat
  BY DurationsArePositive DEF TypeInv, TypeOK
<1>1. CASE ~Tick
  <2>1. /\ \A r \in Request : RequestMoves(r)
        /\ \A k \in Key : EntryMoves(k) /\ MarkerMoves(k)
    BY <1>1, StepMoves
  <2>2. OnlyMarkingRoutes'
    BY <2>1 DEF MarkerMoves, OnlyMarkingRoutes, ShieldInv, Marks
  <2>3. MarkerShieldsUpstream'
    BY <1>0, <2>1 DEF RequestMoves, Stays, Leaves, Starts, AnswersStub, Hits, GoesUpstream,
                      Receives, Stores, Measures, Serve, MarkerMoves, MarkerSeen,
                      OnlyMarkingRoutes, MarkerShieldsUpstream, ShieldInv
  <2> QED
    BY <2>2, <2>3 DEF ShieldInv
<1>2. CASE Tick
  BY <1>0, <1>2, TickMoves DEF OnlyMarkingRoutes, MarkerShieldsUpstream, ShieldInv, InHandler, Marks
<1> QED
  BY <1>1, <1>2

\* While the marker of a key is set and Redis answers, a request for that key is
\* past the check only if it had arrived when the marker was set.
THEOREM MarkerShields == Spec => []MarkerShieldsUpstream
<1>1. Init => ShieldInv
  BY DEF Init, ShieldInv, OnlyMarkingRoutes, MarkerShieldsUpstream
<1>2. Spec => [](TypeInv /\ ShieldInv)
  BY <1>1, TypeInit, TypeStep, ShieldStep, PTL DEF Spec
<1> QED
  BY <1>2, PTL DEF ShieldInv

-----------------------------------------------------------------------------
\* Overwriting newer data.  A request about to store an older reply than the
\* entry shows has been running for as long as that entry has existed.

Overtaken ==
  \A r \in Request :
    LET k == key[r] IN
    pc[r] = "store" /\ Live(k) /\ body[r].ver < cache[k].body.ver
      => age[r] >= CacheDuration(k) - cache[k].ttl

\* Every step keeps: a request holding older data than an entry was overtaken.
LEMMA OvertakenStep == TypeInv /\ TypeInv' /\ Overtaken /\ [Next]_vars => Overtaken'
<1> SUFFICES ASSUME TypeInv, TypeInv', Overtaken, [Next]_vars,
                    NEW r \in Request, pc'[r] = "store", cache'[key'[r]].ttl > 0,
                    body'[r].ver < cache'[key'[r]].body.ver
             PROVE  age'[r] >= CacheDuration(key'[r]) - cache'[key'[r]].ttl
  BY DEF Overtaken, Live
<1>0. /\ \A k \in Key : /\ CacheDuration(k) \in Nat \ {0}
                        /\ cache[k].ttl \in Nat /\ cache'[k].ttl \in Nat
                        /\ cache[k].body.ver \in Nat /\ cache'[k].body.ver \in Nat
                        /\ cache[k].body.ver <= latest[k] /\ latest[k] \in Nat
      /\ key[r] \in Key /\ age[r] \in Nat /\ age'[r] \in Nat
      /\ body[r].ver \in Nat /\ body'[r].ver \in Nat
  BY DurationsArePositive DEF TypeInv, TypeOK, Body
<1>1. CASE ~Tick
  <2>1. /\ RequestMoves(r)
        /\ \A k \in Key : EntryMoves(k)
    BY <1>1, StepMoves
  <2>2. /\ key'[r] = key[r] /\ age'[r] = age[r]
        /\ \/ pc[r] = "store" /\ body'[r] = body[r]
           \/ body'[r].ver = latest[key[r]]
    BY <2>1 DEF RequestMoves, Stays, Leaves, Starts, AnswersStub, Hits, GoesUpstream,
                Receives, Stores, Measures, Serve
  <2>3. CASE cache'[key[r]].ttl = CacheDuration(key[r])
    BY <1>0, <2>2, <2>3
  <2>4. CASE cache'[key[r]] = cache[key[r]]
    BY <1>0, <2>2, <2>4 DEF Overtaken, Live
  <2> QED
    BY <1>0, <2>1, <2>3, <2>4 DEF EntryMoves, Fills
<1>2. CASE Tick
  BY <1>0, <1>2, TickMoves DEF Overtaken, InHandler
<1> QED
  BY <1>1, <1>2

\* An entry is replaced by older data only by a request that was already running
\* when the entry was stored.
THEOREM NoLateOverwrite == Spec => NoLateRegress
<1> DEFINE Regress ==
      \A k \in Key :
        Live(k) /\ Live(k)' /\ cache'[k].body.ver < cache[k].body.ver
          => \E r \in Request :
               /\ pc[r] = "store" /\ pc'[r] # "store" /\ key[r] = k
               /\ age[r] >= CacheDuration(k) - cache[k].ttl
<1>1. Init => Overtaken
  BY DEF Init, Overtaken
<1>2. Spec => [](TypeInv /\ Overtaken)
  BY <1>1, TypeInit, TypeStep, OvertakenStep, PTL DEF Spec
<1>3. TypeInv /\ Overtaken /\ [Next]_vars => [Regress]_vars
  <2> SUFFICES ASSUME TypeInv, Overtaken, [Next]_vars, NEW k \in Key,
                      Live(k), Live(k)', cache'[k].body.ver < cache[k].body.ver
               PROVE  \E r \in Request :
                        /\ pc[r] = "store" /\ pc'[r] # "store" /\ key[r] = k
                        /\ age[r] >= CacheDuration(k) - cache[k].ttl
    OBVIOUS
  <2>0. cache[k].body.ver \in Nat
    BY DEF TypeInv, TypeOK, Body
  <2>1. cache'[k].body.ver # cache[k].body.ver
    BY <2>0
  <2>2. ~Tick
    BY <2>1, TickMoves
  <2>3. PICK r \in Request : Fills(r, k)
    BY <2>1, <2>2, StepMoves DEF EntryMoves
  <2> QED
    BY <2>3 DEF Fills, Overtaken
<1> QED
  BY <1>2, <1>3, PTL DEF Spec, NoLateRegress

-----------------------------------------------------------------------------
\* The advertised expiry.  While a request is between its body and GetTtlMilli,
\* the body's age and the entry's remaining time add up to at least a duration;
\* they add up to more than a duration and a latency only if the entry was
\* replaced meanwhile, so that it is younger than the request.

EntryFloor == \A k \in Key : Live(k) => cache[k].body.age + cache[k].ttl >= CacheDuration(k)

Measuring ==
  \A r \in Request :
    LET k == key[r]
        promise == body[r].age + cache[k].ttl
    IN
    RedisConfigured /\ pc[r] = "ttl" =>
      /\ promise >= CacheDuration(k)
      /\ Live(k) /\ promise > CacheDuration(k) + MaxLatency
           => CacheDuration(k) - cache[k].ttl <= age[r]

ExpireInv == EntryFloor /\ Measuring /\ ExpireInBounds

\* Every step keeps the bounds on what a request measures and will report.
LEMMA ExpireStep == TypeInv /\ TypeInv' /\ FreshInv /\ ExpireInv /\ [Next]_vars => ExpireInv'
<1> SUFFICES ASSUME TypeInv, TypeInv', FreshInv, ExpireInv, [Next]_vars PROVE ExpireInv'
  OBVIOUS
<1>0. /\ \A k \in Key : /\ CacheDuration(k) \in Nat \ {0}
                        /\ cache[k].ttl \in Nat /\ cache[k].body.age \in Nat
                        /\ cache'[k].ttl \in Nat /\ cache'[k].body.age \in Nat
      /\ \A r \in Request : /\ key[r] \in Key /\ key'[r] \in Key
                            /\ age[r] \in Nat /\ age'[r] \in Nat
                            /\ body[r].age \in Nat /\ body'[r].age \in Nat
                            /\ expireIn[r] \in Int /\ expireIn'[r] \in Int
      /\ MaxLatency \in Nat
  BY DurationsArePositive, BoundAssumption DEF TypeInv, TypeOK, Body
<1>1. CASE ~Tick
  <2>1. /\ \A r \in Request : RequestMoves(r)
        /\ \A k \in Key : EntryMoves(k)
    BY <1>1, StepMoves
  <2>2. EntryFloor'
    BY <1>0, <2>1 DEF EntryMoves, Fills, EntryFloor, ExpireInv, Live
  <2>3. Measuring'
    <3> SUFFICES ASSUME NEW r \in Request, RedisConfigured, pc'[r] = "ttl"
                 PROVE  LET k == key'[r]
                            promise == body'[r].age + cache'[k].ttl
                        IN  /\ promise >= CacheDuration(k)
                            /\ cache'[k].ttl > 0 /\ promise > CacheDuration(k) + MaxLatency
                                 => CacheDuration(k) - cache'[k].ttl <= age'[r]
      BY DEF Measuring, Live
    <3>1. /\ key'[r] = key[r] /\ age'[r] = age[r]
          /\ \/ pc[r] = "ttl" /\ body'[r] = body[r]
             \/ Live(key[r]) /\ body'[r] = cache[key[r]].body
             \/ cache'[key[r]].ttl = CacheDuration(key[r])
      BY <2>1 DEF RequestMoves, Stays, Leaves, Starts, AnswersStub, Hits, GoesUpstream,
                  Receives, Stores, Measures
    <3>2. CASE cache'[key[r]].ttl = CacheDuration(key[r])
      BY <1>0, <3>1, <3>2
    <3>3. CASE cache'[key[r]] = cache[key[r]]
      BY <1>0, <3>1, <3>2, <3>3 DEF Measuring, EntryFloor, ExpireInv, EntryBound, FreshInv, Live
    <3> QED
      BY <1>0, <2>1, <3>2, <3>3 DEF EntryMoves, Fills
  <2>4. ExpireInBounds'
    <3> SUFFICES ASSUME NEW r \in Request, RedisConfigured, pc'[r] = "ok",
                        RouteOf[key'[r]] = "profiles"
                 PROVE  LET promised == body'[r].age + expireIn'[r] IN
                        /\ promised >= CacheDuration(key'[r])
                        /\ expireIn'[r] > 0 /\ promised > CacheDuration(key'[r]) + MaxLatency
                             => CacheDuration(key'[r]) - expireIn'[r] <= age'[r]
      BY DEF ExpireInBounds
    <3>1. Stays(r) \/ (key'[r] = key[r] /\ age'[r] = age[r] /\ Measures(r))
      BY <2>1 DEF RequestMoves, Leaves, Starts, AnswersStub, Hits, GoesUpstream,
                  Receives, Stores, Serve
    <3>2. CASE Stays(r)
      BY <3>2 DEF Stays, ExpireInBounds, ExpireInv
    <3>3. CASE key'[r] = key[r] /\ age'[r] = age[r] /\ Measures(r)
      BY <1>0, <3>3 DEF Measures, Remaining, Measuring, ExpireInv, Live
    <3> QED
      BY <3>1, <3>2, <3>3
  <2> QED
    BY <2>2, <2>3, <2>4 DEF ExpireInv
<1>2. CASE Tick
  <2>1. EntryFloor'
    BY <1>0, <1>2, TickMoves DEF EntryFloor, ExpireInv
  <2>2. Measuring'
    BY <1>0, <1>2, TickMoves DEF Measuring, ExpireInv, InHandler
  <2>3. ExpireInBounds'
    BY <1>2, TickMoves DEF ExpireInBounds, ExpireInv, InHandler
  <2> QED
    BY <2>1, <2>2, <2>3 DEF ExpireInv
<1> QED
  BY <1>1, <1>2

\* X-Backend-Expire-In never says less than the time the answered body had left,
\* and more only when the entry it measures was stored after the request arrived.
THEOREM ExpireInSound == Spec => []ExpireInBounds
<1>1. Init => ExpireInv
  BY DEF Init, ExpireInv, EntryFloor, Measuring, ExpireInBounds, Live, NoEntry
<1>2. Spec => []ExpireInv
  BY <1>1, FreshAlways, ExpireStep, PTL DEF Spec
<1> QED
  BY <1>2, PTL DEF ExpireInv

-----------------------------------------------------------------------------
\* Implementation of SnapshotFeed.  What the refinement mapping gives each variable;
\* Held(r) is the reply about profiles that r is about to store.

Held(r) ==
  IF pc[r] = "store" /\ key[r] \in ProfileKey THEN {<<key[r], body[r].ver>>} ELSE {}
FeedInflight == [r \in Request |-> Held(r)]
FeedLatest == [k \in ProfileKey |-> latest[k]]
FeedChores == [k \in ProfileKey |-> chores[k]]

\* A step of one request changes what that request holds at most.
LEMMA HeldMoves ==
  ASSUME NEW r \in Request,
         \A q \in Request \ {r} : pc'[q] = pc[q] /\ key'[q] = key[q] /\ body'[q] = body[q]
  PROVE  FeedInflight' = [FeedInflight EXCEPT ![r] = Held(r)']
BY DEF FeedInflight, Held

\* A step that changes neither what is held nor the other two is none of the feed.
LEMMA FeedStutters ==
  ASSUME FeedInflight' = FeedInflight, FeedLatest' = FeedLatest, FeedChores' = FeedChores
  PROVE  UNCHANGED Feed!vars
BY DEF Feed!vars, FeedInflight, Held, FeedLatest, FeedChores

\* A request that holds no reply before and after its step is invisible to the feed.
LEMMA NothingHeld ==
  ASSUME NEW r \in Request, Held(r) = {}, Held(r)' = {},
         \A q \in Request \ {r} : pc'[q] = pc[q] /\ key'[q] = key[q] /\ body'[q] = body[q],
         UNCHANGED <<latest, chores>>
  PROVE  UNCHANGED Feed!vars
<1>1. FeedInflight' = FeedInflight
  BY HeldMoves DEF FeedInflight
<1>2. FeedLatest' = FeedLatest /\ FeedChores' = FeedChores
  BY DEF FeedLatest, FeedChores
<1> QED
  BY <1>1, <1>2, FeedStutters

\* Hypixel's reply is of the moment it was given.
LEMMA ReplyFetches ==
  ASSUME TypeInv, NEW r \in Request, GetFromHypixel(r)
  PROVE  [Feed!Next]_(Feed!vars)
<1>1. /\ pc[r] = "fetch" /\ pc'[r] = "store" /\ key' = key /\ UNCHANGED <<latest, chores>>
      /\ body'[r].ver = latest[key[r]]
      /\ \A q \in Request \ {r} : pc'[q] = pc[q] /\ key'[q] = key[q] /\ body'[q] = body[q]
  BY DEF GetFromHypixel, TypeInv, TypeOK, Reply
<1>2. ASSUME NEW k \in ProfileKey, key[r] = k
      PROVE  [Feed!Next]_(Feed!vars)
  <2>1. FeedInflight[r] = {}
    BY <1>1 DEF FeedInflight, Held
  <2>2. FeedInflight' = [FeedInflight EXCEPT ![r] = {<<k, FeedLatest[k]>>}]
    BY <1>1, <1>2, HeldMoves DEF Held, FeedLatest
  <2>3. FeedLatest' = FeedLatest /\ FeedChores' = FeedChores
    BY <1>1 DEF FeedLatest, FeedChores
  <2>4. Feed!Fetch(r, k)
    BY <2>1, <2>2, <2>3 DEF Feed!Fetch, FeedInflight, Held, FeedLatest, FeedChores
  <2> QED
    BY <2>4 DEF Feed!Next
<1>3. CASE key[r] \notin ProfileKey
  BY <1>1, <1>3, NothingHeld DEF Held
<1> QED
  BY <1>2, <1>3

\* The goroutine is started with the reply its own request holds.
LEMMA DocumentSpawns ==
  ASSUME TypeInv, NEW r \in Request, StoreDocument(r)
  PROVE  [Feed!Next]_(Feed!vars)
<1>1. /\ pc[r] = "store" /\ pc'[r] # "store" /\ UNCHANGED <<latest, key, body>>
      /\ \A q \in Request \ {r} : pc'[q] = pc[q] /\ key'[q] = key[q] /\ body'[q] = body[q]
      /\ SpawnCheckData(key[r], body[r].ver)
  BY DEF StoreDocument, TypeInv, TypeOK, Serve
<1>2. ASSUME NEW k \in ProfileKey, key[r] = k
      PROVE  [Feed!Next]_(Feed!vars)
  <2>1. <<k, body[r].ver>> \in FeedInflight[r] /\ body[r].ver \in Feed!Version
    BY <1>1, <1>2, BoundAssumption DEF FeedInflight, Held, Feed!Version, TypeInv, TypeOK, Body
  <2>2. FeedInflight' = [FeedInflight EXCEPT ![r] = {}]
    BY <1>1, HeldMoves DEF Held
  <2>3. FeedChores' = [FeedChores EXCEPT ![k] = @ \cup {body[r].ver}]
    BY <1>1, <1>2 DEF FeedChores, SpawnCheckData, ProfileKey, TypeInv, TypeOK
  <2>4. FeedLatest' = FeedLatest
    BY <1>1 DEF FeedLatest
  <2>5. ASSUME NEW v \in Feed!Version, body[r].ver = v PROVE Feed!Spawn(r, k, v)
    BY <2>5, <2>1, <2>2, <2>3, <2>4 DEF Feed!Spawn, FeedInflight, Held, FeedLatest, FeedChores
  <2> QED
    BY <2>1, <2>5 DEF Feed!Next
<1>3. CASE key[r] \notin ProfileKey
  <2>1. UNCHANGED chores
    BY <1>1, <1>3 DEF SpawnCheckData, ProfileKey, TypeInv, TypeOK
  <2> QED
    BY <1>1, <1>3, <2>1, NothingHeld DEF Held
<1> QED
  BY <1>2, <1>3

\* A failure is dropped.
LEMMA ErrorDrops ==
  ASSUME TypeInv, NEW r \in Request, MarkError(r)
  PROVE  [Feed!Next]_(Feed!vars)
<1>1. /\ pc[r] = "store" /\ pc'[r] = "err" /\ UNCHANGED <<latest, chores, key>>
      /\ \A q \in Request \ {r} : pc'[q] = pc[q] /\ key'[q] = key[q] /\ body'[q] = body[q]
  BY DEF MarkError, TypeInv, TypeOK, AfterFailure
<1>2. CASE key[r] \in ProfileKey
  <2>1. FeedInflight[r] # {} /\ FeedInflight' = [FeedInflight EXCEPT ![r] = {}]
    BY <1>1, <1>2, HeldMoves DEF FeedInflight, Held
  <2>2. FeedLatest' = FeedLatest /\ FeedChores' = FeedChores
    BY <1>1 DEF FeedLatest, FeedChores
  <2>3. Feed!Drop(r)
    BY <2>1, <2>2 DEF Feed!Drop, FeedInflight, Held, FeedLatest, FeedChores
  <2> QED
    BY <2>3 DEF Feed!Next
<1>3. CASE key[r] \notin ProfileKey
  BY <1>1, <1>3, NothingHeld DEF Held
<1> QED
  BY <1>2, <1>3

\* No other step of a request holds, takes or gives a reply about profiles.
LEMMA OthersInvisible ==
  ASSUME TypeInv, NEW r \in Request,
         \/ \E k \in Key, b \in BOOLEAN : Arrive(r, k, b)
         \/ GetFromCache(r) \/ HasErrorCached(r) \/ StorePlaceholder(r) \/ StoreAuctions(r)
         \/ FailAuctions(r) \/ GetTtlMilli(r) \/ Finish(r)
  PROVE  UNCHANGED Feed!vars
<1> USE DEF TypeInv, TypeOK, Held
<1>1. ASSUME NEW k \in Key, NEW b \in BOOLEAN, Arrive(r, k, b)
      PROVE  UNCHANGED Feed!vars
  BY <1>1, NothingHeld DEF Arrive
<1>2. CASE GetFromCache(r)
  BY <1>2, NothingHeld DEF GetFromCache, Serve
<1>3. CASE HasErrorCached(r)
  BY <1>3, NothingHeld DEF HasErrorCached
<1>4. CASE StorePlaceholder(r)
  BY <1>4, NothingHeld DEF StorePlaceholder, ProfileKey
<1>5. CASE StoreAuctions(r) \/ FailAuctions(r)
  BY <1>5, NothingHeld DEF StoreAuctions, FailAuctions, ProfileKey, Marks, MarkingRoutes
<1>6. CASE GetTtlMilli(r)
  BY <1>6, NothingHeld DEF GetTtlMilli
<1>7. CASE Finish(r)
  BY <1>7, NothingHeld DEF Finish
<1> QED
  BY <1>1, <1>2, <1>3, <1>4, <1>5, <1>6, <1>7

\* Goroutines, Hypixel's changes, time and the end of the process.
LEMMA SurroundingsFeed ==
  ASSUME TypeInv,
         \/ \E k \in Key, v \in 0 .. MaxVersion : CheckData(k, v)
         \/ \E k \in Key : UpstreamChanges(k)
         \/ Tick
         \/ Restart
         \/ UNCHANGED vars
  PROVE  [Feed!Next]_(Feed!vars)
<1>1. ASSUME NEW k \in Key, NEW v \in 0 .. MaxVersion, CheckData(k, v)
      PROVE  [Feed!Next]_(Feed!vars)
  <2>1. FeedInflight' = FeedInflight /\ FeedLatest' = FeedLatest
    BY <1>1 DEF CheckData, request, FeedInflight, Held, FeedLatest
  <2>2. CASE k \in ProfileKey
    <3>1. v \in FeedChores[k] /\ FeedChores' \in {FeedChores, [FeedChores EXCEPT ![k] = @ \ {v}]}
      <4>1. v \in FeedChores[k]
        BY <1>1, <2>2 DEF CheckData, FeedChores
      <4>2. CASE UNCHANGED chores
        BY <4>1, <4>2 DEF FeedChores
      <4>3. CASE chores' = [chores EXCEPT ![k] = @ \ {v}]
        <5>1. FeedChores' = [FeedChores EXCEPT ![k] = @ \ {v}]
          BY <2>2, <4>3 DEF FeedChores, TypeInv, TypeOK, ProfileKey
        <5> QED
          BY <4>1, <5>1
      <4> QED
        BY <1>1, <4>2, <4>3 DEF CheckData
    <3>2. Feed!Check(k, v)
      BY <2>1, <3>1 DEF Feed!Check, FeedInflight, Held, FeedLatest, FeedChores
    <3>3. v \in Feed!Version
      BY DEF Feed!Version
    <3> QED
      BY <2>2, <3>2, <3>3 DEF Feed!Next
  <2>3. CASE k \notin ProfileKey
    <3>1. FeedChores' = FeedChores
      BY <1>1, <2>3 DEF CheckData, FeedChores, TypeInv, TypeOK, ProfileKey
    <3> QED
      BY <2>1, <3>1, FeedStutters
  <2> QED
    BY <2>2, <2>3
<1>2. ASSUME NEW k \in Key, UpstreamChanges(k)
      PROVE  [Feed!Next]_(Feed!vars)
  <2>1. FeedInflight' = FeedInflight /\ FeedChores' = FeedChores
    BY <1>2 DEF UpstreamChanges, request, FeedInflight, Held, FeedChores
  <2>2. CASE k \in ProfileKey
    <3>1. FeedLatest[k] < MaxVersion /\ FeedLatest' = [FeedLatest EXCEPT ![k] = @ + 1]
      BY <1>2, <2>2 DEF UpstreamChanges, FeedLatest, ProfileKey, TypeInv, TypeOK
    <3>2. Feed!UpstreamChanges(k)
      BY <2>1, <3>1 DEF Feed!UpstreamChanges, FeedInflight, Held, FeedLatest, FeedChores
    <3> QED
      BY <2>2, <3>2 DEF Feed!Next
  <2>3. CASE k \notin ProfileKey
    <3>1. FeedLatest' = FeedLatest
      BY <1>2, <2>3 DEF UpstreamChanges, FeedLatest, ProfileKey, TypeInv, TypeOK
    <3> QED
      BY <2>1, <3>1, FeedStutters
  <2> QED
    BY <2>2, <2>3
<1>3. CASE Tick
  <2>1. \A r \in Request : body'[r].ver = body[r].ver
    BY <1>3, OlderType DEF Tick, TypeInv, TypeOK
  <2>2. FeedInflight' = FeedInflight /\ FeedLatest' = FeedLatest /\ FeedChores' = FeedChores
    BY <1>3, <2>1 DEF Tick, FeedInflight, Held, FeedLatest, FeedChores
  <2> QED
    BY <2>2, FeedStutters
<1>4. CASE Restart
  <2>1. /\ FeedInflight' = [r \in Request |-> {}]
        /\ FeedChores' = [k \in ProfileKey |-> {}]
        /\ FeedLatest' = FeedLatest
    BY <1>4 DEF Restart, FeedInflight, Held, FeedLatest, FeedChores, ProfileKey
  <2>2. Feed!Restart
    BY <2>1 DEF Feed!Restart, FeedInflight, Held, FeedLatest, FeedChores
  <2> QED
    BY <2>2 DEF Feed!Next
<1>5. CASE UNCHANGED vars
  BY <1>5, FeedStutters DEF vars, FeedInflight, Held, FeedLatest, FeedChores
<1> QED
  BY <1>1, <1>2, <1>3, <1>4, <1>5

\* FeedsSnapshots: every list of profiles a chore works on was given out by Hypixel
\* during the request that started the chore; no entry of Redis, no reply of another
\* request and no reply of another player ever reaches one.
THEOREM FeedImplemented == Spec => FeedsSnapshots
<1>1. Init => Feed!Init
  BY DEF Init, Feed!Init, ProfileKey
<1>2. TypeInv /\ [Next]_vars => [Feed!Next]_(Feed!vars)
  BY ReplyFetches, DocumentSpawns, ErrorDrops, OthersInvisible, SurroundingsFeed
     DEF Next, Handle
<1>3. Spec => []TypeInv
  BY TypeInit, TypeStep, PTL DEF Spec
<1> QED
  BY <1>1, <1>2, <1>3, PTL DEF Spec, FeedsSnapshots, Feed!Spec
=============================================================================
