------------------------------ MODULE Sessions ------------------------------
(***************************************************************************)
(* Access and GuildCache together: requests for guilds that their token    *)
(* lets in and, for an administrator's, past the cache, while tokens       *)
(* expire and the process is restarted with other configurations.          *)
(***************************************************************************)
EXTENDS Access, GuildCache, FiniteSets

CONSTANT
  Scene  \* [atOnce, replies, restarts, faulty, configs]: bounds on the requests at the
         \* same time, on the replies before the last of them and on the restarts, whether
         \* a call to Redis may fail, and the configurations

ASSUME SceneAssumption ==
  Scene \subseteq [atOnce : Nat, replies : Nat, restarts : Nat, faulty : BOOLEAN,
                   configs : SUBSET Config]

VARIABLES
  scene,
  restarts  \* history: how often the process was restarted

vars == <<access, guild, scene, restarts>>
bounds == <<scene, restarts>>

Init ==
  /\ AccessInit /\ GuildInit
  /\ scene \in Scene /\ config \in scene.configs
  /\ restarts = 0

SignIn(name, bypassCache) == Authenticate(name, bypassCache) /\ UNCHANGED <<guild, bounds>>

\* GetGuild, admitted by PrivateRequestHandler.  GetFromCache misses for a token that
\* bypasses, for an id that is spelled otherwise than the keys, where nothing is
\* stored, and when Redis fails.  Mutant: a guild that is found is treated like a reply,
\* with headers and stored again.
Begin(r) ==
  /\ PrivateRequestHandler
  /\ Cardinality({q \in Request : pc[q] # "idle"}) < scene.atOnce
  /\ replies < scene.replies
  /\ UNCHANGED <<access, bounds>>

GetGuildRenewing(r, p, asKeys) ==
  /\ Begin(r)
  /\ \/ /\ Context.BypassCache \/ ~asKeys \/ cache[p] = 0 \/ scene.faulty
        /\ Ask(r, p, asKeys)
     \/ /\ pc[r] = "idle" /\ asKeys /\ cache[p] # 0
        /\ pc' = [pc EXCEPT ![r] = "remaining"]
        /\ player' = [player EXCEPT ![r] = p]
        /\ reply' = [reply EXCEPT ![r] = cache[p]]
        /\ headers' = [headers EXCEPT ![r] = Header]
        /\ todo' = [todo EXCEPT ![r] = Members(cache[p], p)]
        /\ overlapped' = [overlapped EXCEPT ![r] = FALSE]
        /\ UNCHANGED <<keyed, cache, replies, limits>>
GetGuild(r, p, asKeys) ==
  /\ Begin(r)
  /\ Context.BypassCache \/ ~asKeys \/ cache[p] = 0 \/ scene.faulty
  /\ Ask(r, p, asKeys)

Step(r) ==
  /\ GuildStep(r) \/ (scene.faulty /\ \E m \in Player : StoreFails(r, m))
  /\ UNCHANGED <<access, bounds>>

Forget(p) == Expire(p) /\ UNCHANGED <<access, bounds>>

Restart(c) ==
  /\ restarts < scene.restarts /\ c \in scene.configs
  /\ restarts' = restarts + 1
  /\ Configure(c) /\ Vanish
  /\ UNCHANGED scene

Tick == Elapse /\ UNCHANGED <<guild, bounds>>

Next ==
  \/ \E name \in Name, bypassCache \in BOOLEAN : SignIn(name, bypassCache)
  \/ \E r \in Request : Step(r) \/ \E p \in Player, asKeys \in BOOLEAN : GetGuild(r, p, asKeys)
  \/ \E p \in Player : Forget(p)
  \/ \E c \in Config : Restart(c)
  \/ Tick

Spec == Init /\ [][Next]_vars

-----------------------------------------------------------------------------
\* Properties.

\* Every variable stays in its set; a request that is not running holds nothing.
TypeOK ==
  /\ config \in Config /\ token \in Token /\ asListed \in BOOLEAN
  /\ since \in [Right -> 0 .. Lapsed]
  /\ pc \in [Request -> {"idle", "fetch", "remaining", "reset", "store"}]
  /\ player \in [Request -> Player] /\ keyed \in [Request -> BOOLEAN]
  /\ reply \in [Request -> 0 .. replies] /\ headers \in [Request -> SUBSET Header]
  /\ todo \in [Request -> SUBSET Player]
  /\ overlapped \in [Request -> BOOLEAN]
  /\ cache \in [Player -> 0 .. replies]
  /\ replies \in 0 .. MaxReplies
  /\ remaining \in 0 .. replies /\ reset \in 0 .. replies
  /\ scene \in Scene /\ restarts \in Nat
  /\ \A r \in Request : (reply[r] # 0) <=> r \in Holding
  /\ \A r \in Request : r \notin Holding => todo[r] = {} /\ headers[r] = {}

\* A right taken away, by removal from the administrators or by closing the service to
\* guests or to accounts, ends one token's life later at the latest: after that the
\* account is not let in, cannot upload, does not pass the cache, sees no rate limit.  A
\* ban ends only what was given to the name as it is listed.
RightsLapse ==
  /\ PrivateRequestHandler => since["own"] < Lapsed \/ since["guest"] < Lapsed
  /\ PrivateRequestHandler /\ asListed => since["name"] < Lapsed
  /\ AuthenticatedRequestHandler => since["own"] < Lapsed
  /\ Context.BypassCache \/ GetRateLimit => since["bypass"] < Lapsed

\* While Redis answers, Hypixel is asked for a guild that is cached only by a request
\* whose account was an administrator one token's life ago or later, or whose id is not
\* spelled as the keys are: such an id passes the cache by anybody's token.
CacheShields ==
  [][\A r \in Request :
       pc[r] = "idle" /\ pc'[r] # "idle" /\ ~scene.faulty /\ cache[player'[r]] # 0
         => since["bypass"] < Lapsed \/ ~keyed'[r]]_vars

\* What is stored under a player is a guild with that player in it, so that an answer
\* from the cache is never another guild, nor one for a player who had none.
OwnGuild == \A p \in Player : cache[p] # 0 => p \in Roster[cache[p]]

\* The entry of a player goes back to an older reply only by a request that another
\* one's writes overlapped while it held its reply.
OrderedUnlessOverlapped ==
  [][\A p \in Player :
       cache'[p] # 0 /\ cache'[p] < cache[p]
         => \E r \in Holding : overlapped[r] /\ cache'[p] = reply[r]]_vars

\* A request about to answer 200 has left its reply under every member, unless the entry has
\* expired or another request overlapped: a failing call is never passed over.
AnswerIsStored ==
  \A r \in Request :
    pc[r] = "store" /\ todo[r] = {} /\ ~overlapped[r]
      => \A m \in Members(reply[r], player[r]) : cache[m] \in {0, reply[r]}

\* After an update that no other request overlapped, each of the two globals is of the
\* request's reply if that has a header for it, and of no newer reply if it has none: the
\* pair is of two replies only where a header is missing or requests overlap.
LimitsOfOneReply ==
  [][\A r \in Request :
       pc[r] = "reset" /\ pc'[r] = "store" /\ ~overlapped[r] =>
         /\ headers[r] = Header => remaining' = reset'
         /\ "remaining" \in headers[r] => remaining' = reply[r]
         /\ "reset" \in headers[r] => reset' = reply[r]
         /\ remaining' <= reply[r] /\ reset' <= reply[r]]_vars

\* The replies of requests that were overlapped.
Overtaken == {reply[r] : r \in {q \in Holding : overlapped[q]}}

\* Neither global goes back to an older reply, unless by a request that another one's
\* writes overlapped while it held that reply, or in a new process.
LimitsInOrder ==
  [][/\ remaining' < remaining => remaining' \in Overtaken \cup {0}
     /\ reset' < reset => reset' \in Overtaken \cup {0}]_vars
=============================================================================
