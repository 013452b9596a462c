--------------------------- MODULE SessionsProofs ---------------------------
(***************************************************************************)
(* Proofs about Sessions, for any requests, players, replies of Hypixel,   *)
(* configurations and life of a token.                                     *)
(***************************************************************************)
EXTENDS Sessions, TLAPS

-----------------------------------------------------------------------------
\* What a step does to either half.

\* A step signs in, restarts, lets time pass, or leaves the tokens alone.
LEMMA AccessMoves ==
  ASSUME [Next]_vars
  PROVE  \/ \E name \in Name, bypassCache \in BOOLEAN : Authenticate(name, bypassCache)
         \/ \E c \in Config : Configure(c)
         \/ Elapse
         \/ UNCHANGED access
BY DEF Next, SignIn, Step, GetGuild, Begin, Forget, Restart, Tick, vars, access, bounds

\* A step is one of a single request, an expiry, the end of the process, or leaves
\* the requests and what they write alone.
LEMMA GuildMoves ==
  ASSUME [Next]_vars
  PROVE  \/ \E r \in Request : \E p \in Player, asKeys \in BOOLEAN : GetGuild(r, p, asKeys)
         \/ \E r \in Request : GuildStep(r)
         \/ \E r \in Request : \E m \in Player : StoreFails(r, m)
         \/ \E p \in Player : Expire(p)
         \/ Vanish
         \/ UNCHANGED guild
BY DEF Next, SignIn, Step, Forget, Restart, Tick, vars, guild, bounds, Begin

-----------------------------------------------------------------------------
\* Tokens.  A right that is gone was still there when the token was issued, so that
\* the time since then and the token's remaining life are together at most a life.  That
\* its name was not refused is such a right only of a token issued to the name as listed.

AccessType ==
  /\ config \in Config /\ token \in Token /\ asListed \in BOOLEAN
  /\ since \in [Right -> 0 .. Lapsed]

TokenBudget ==
  /\ token.sub = "none" => token.life = 0
  /\ token.life > 0 => /\ since[token.sub] + token.life <= TokenLife
                       /\ token.bypass => since["bypass"] + token.life <= TokenLife
                       /\ asListed => since["name"] + token.life <= TokenLife

\* The configuration's rights are those of the last moment.
Current == \A right \in Rights(config) : since[right] = 0

AccessInv == AccessType /\ TokenBudget /\ Current

\* A fresh process has issued nothing.
LEMMA AccessStarts ==
  ASSUME Init
  PROVE  AccessInv
<1> USE TokenAssumption DEF Init, AccessInit, Lapsed
<1>1. AccessType
  <2>1. token \in Token
    BY DEF Token, NoToken
  <2>2. since \in [Right -> 0 .. TokenLife]
    OBVIOUS
  <2> QED
    BY <2>1, <2>2 DEF AccessType
<1>2. TokenBudget
  BY DEF TokenBudget, NoToken
<1>3. Current
  BY DEF Current, Rights
<1> QED
  BY <1>1, <1>2, <1>3 DEF AccessInv

\* Signing in: the claims of the new token are rights of the configuration.
LEMMA AuthenticateKeeps ==
  ASSUME AccessInv, NEW name \in Name, NEW bypassCache \in BOOLEAN,
         Authenticate(name, bypassCache)
  PROVE  AccessInv'
<1> USE TokenAssumption DEF AccessInv, AccessType, Authenticate, CreateAuthenticationKey, Token, Lapsed
<1>1. AccessType'
  <2>1. \A b \in BOOLEAN, s \in {"own", "guest"} : [sub |-> s, bypass |-> b, life |-> TokenLife] \in Token
    OBVIOUS
  <2>2. (bypassCache /\ config.Admin) \in BOOLEAN
    OBVIOUS
  <2>3. token' \in Token
    BY <2>1, <2>2, Zenon
  <2> QED
    BY <2>3
<1>2. CASE token' = [sub |-> "own", bypass |-> bypassCache /\ config.Admin, life |-> TokenLife]
          /\ config.Enabled
  <2>1. "own" \in Rights(config) /\ (asListed' => "name" \in Rights(config))
    BY <1>2 DEF Rights, Right
  <2>2. token'.bypass => "bypass" \in Rights(config)
    BY <1>2 DEF Rights, Right
  <2> QED
    BY <1>1, <1>2, <2>1, <2>2 DEF TokenBudget, Current, Rights, Right
<1>3. CASE token' = [sub |-> "guest", bypass |-> FALSE, life |-> TokenLife] /\ ~config.Enabled
  <2>1. "guest" \in Rights(config) /\ (asListed' => "name" \in Rights(config))
    BY <1>3 DEF Rights, Right
  <2> QED
    BY <1>1, <1>3, <2>1 DEF TokenBudget, Current, Rights, Right
<1> QED
  BY <1>2, <1>3

\* A restart only makes rights younger.
LEMMA ConfigureKeeps ==
  ASSUME AccessInv, NEW c \in Config, Configure(c)
  PROVE  AccessInv'
BY TokenAssumption
   DEF AccessInv, AccessType, TokenBudget, Current, Configure, Rights, Right, Token, Lapsed

\* Time: a lapsing right is one tick older, the token has one tick less.
LEMMA ElapseKeeps ==
  ASSUME AccessInv, Elapse
  PROVE  AccessInv'
BY TokenAssumption
   DEF AccessInv, AccessType, TokenBudget, Current, Elapse, Rights, Right, Token, Lapsed

\* All together, and the steps that do not concern the account.
LEMMA AccessStep ==
  ASSUME AccessInv, [Next]_vars
  PROVE  AccessInv'
<1>1. CASE UNCHANGED access
  BY <1>1 DEF access, AccessInv, AccessType, TokenBudget, Current, Rights
<1> QED
  BY <1>1, AccessMoves, AuthenticateKeeps, ConfigureKeeps, ElapseKeeps

\* What a token that is still accepted says of the rights.
LEMMA BudgetBoundsRights ==
  ASSUME AccessInv
  PROVE  RightsLapse
<1> USE TokenAssumption DEF AccessInv, AccessType, TokenBudget, Token, Lapsed
<1>1. CASE token.life = 0
  BY <1>1 DEF RightsLapse, PrivateRequestHandler, AuthenticatedRequestHandler, GetRateLimit,
              AdminRequestHandler, Context, GetAuthenticatedContext, Nobody
<1>2. CASE token.life > 0
  <2>1. token.sub \in {"guest", "own"} /\ since[token.sub] < TokenLife
    BY <1>2 DEF Right
  <2>2. token.bypass => since["bypass"] < TokenLife
    BY <1>2 DEF Right
  <2>3. asListed => since["name"] < TokenLife
    BY <1>2 DEF Right
  <2>4. Context = Caller(token)
    BY <1>2 DEF Context, GetAuthenticatedContext
  <2> QED
    BY <2>1, <2>2, <2>3, <2>4 DEF RightsLapse, PrivateRequestHandler, AuthenticatedRequestHandler,
       GetRateLimit, AdminRequestHandler, Caller
<1> QED
  BY <1>1, <1>2

\* For any life of a token, however the configuration changes: a right that was taken
\* away is exercised for less than one token's life; a ban takes away what was given to
\* the name as it is listed.
THEOREM RightsEnd == Spec => []RightsLapse
<1>1. Init => AccessInv
  BY AccessStarts
<1>2. AccessInv /\ [Next]_vars => AccessInv'
  BY AccessStep
<1>3. AccessInv => RightsLapse
  BY BudgetBoundsRights
<1> QED
  BY <1>1, <1>2, <1>3, PTL DEF Spec

-----------------------------------------------------------------------------
\* Requests.  A request that nobody overlapped holds the newest of all replies that
\* were stored or written to the globals, and has left it wherever it has been.

GuildType ==
  /\ pc \in [Request -> {"idle", "fetch", "remaining", "reset", "store"}]
  /\ player \in [Request -> Player] /\ keyed \in [Request -> BOOLEAN]
  /\ headers \in [Request -> SUBSET Header]
  /\ reply \in [Request -> 0 .. replies]
  /\ todo \in [Request -> SUBSET Player]
  /\ overlapped \in [Request -> BOOLEAN]
  /\ cache \in [Player -> 0 .. replies]
  /\ replies \in 0 .. MaxReplies
  /\ remaining \in 0 .. replies /\ reset \in 0 .. replies
  /\ \A r \in Request : (reply[r] # 0) <=> r \in Holding
  /\ \A r \in Request : r \notin Holding => todo[r] = {} /\ headers[r] = {}

\* What r has yet to do is part of its reply.
Pending(r) == todo[r] \subseteq Members(reply[r], player[r])

Newest(r) ==
  /\ \A p \in Player : cache[p] <= reply[r]
  /\ remaining <= reply[r] /\ reset <= reply[r]

Done(r) ==
  /\ pc[r] = "reset" /\ "remaining" \in headers[r] => remaining = reply[r]
  /\ \A m \in Members(reply[r], player[r]) \ todo[r] : cache[m] \in {0, reply[r]}

Order == \A r \in Holding : Pending(r) /\ (~overlapped[r] => Newest(r) /\ Done(r))

GuildInv == GuildType /\ OwnGuild /\ Order

\* Members are players, and whoever is in a reply is in its guild.
LEMMA MembersType ==
  ASSUME NEW n \in 1 .. MaxReplies, NEW p
  PROVE  Members(n, p) \in SUBSET Player /\ Members(n, p) \subseteq Roster[n]
BY RosterAssumption DEF Members

\* At the start no request holds anything and nothing is stored.
LEMMA GuildStarts ==
  ASSUME Init
  PROVE  GuildInv
BY RosterAssumption
   DEF Init, GuildInit, GuildInv, GuildType, OwnGuild, Order, Holding

\* Asking: the request holds nothing yet.
LEMMA AskKeeps ==
  ASSUME GuildInv, NEW r \in Request, NEW p \in Player, NEW asKeys \in BOOLEAN, Ask(r, p, asKeys)
  PROVE  GuildInv'
<1> USE DEF GuildInv, Ask, limits
<1>1. Holding' = Holding
  BY DEF Holding, GuildType
<1>2. \A q \in Holding : q # r
  BY DEF Holding, GuildType
<1>3. GuildType'
  BY <1>1, <1>2 DEF GuildType
<1>4. Order'
  BY <1>1, <1>2 DEF Order, Pending, Newest, Done, GuildType, Holding
<1> QED
  BY <1>3, <1>4 DEF OwnGuild

\* A reply is newer than everything.
LEMMA GetFromHypixelKeeps ==
  ASSUME GuildInv, NEW r \in Request, GetFromHypixel(r)
  PROVE  GuildInv'
<1> USE DEF GuildInv, GetFromHypixel, limits
<1>1. Holding' = Holding \cup {r} /\ r \notin Holding
  BY DEF Holding, GuildType
<1>2. replies' \in 1 .. MaxReplies /\ replies' = replies + 1
  BY RosterAssumption DEF GuildType
<1>3. Members(replies', player[r]) \in SUBSET Player
  BY <1>2, MembersType
<1>4. GuildType'
  BY <1>1, <1>2, <1>3, RosterAssumption DEF GuildType
<1>5. ASSUME NEW q \in Holding'
      PROVE  (Pending(q) /\ (~overlapped[q] => Newest(q) /\ Done(q)))'
  <2>1. CASE q = r
    <3>1. /\ todo'[r] = Members(reply'[r], player'[r]) /\ reply'[r] = replies + 1
          /\ pc'[r] # "reset"
      BY DEF GuildType
    <3>2. Newest(r)'
      BY <3>1, <1>2, RosterAssumption DEF GuildType, Newest
    <3> QED
      BY <2>1, <3>1, <3>2 DEF Pending, Done
  <2>2. CASE q # r
    BY <2>2, <1>1 DEF Order, Pending, Newest, Done, GuildType
  <2> QED
    BY <2>1, <2>2
<1> QED
  BY <1>4, <1>5 DEF OwnGuild, Order

\* A request that ends holds nothing any more; the others are not concerned.
LEMMA EndsKeeps ==
  ASSUME GuildInv, NEW r \in Request, Ends(r), UNCHANGED <<overlapped, cache, replies, limits>>
  PROVE  GuildInv'
<1> USE DEF GuildInv, Ends, limits
<1>1. Holding' = Holding \ {r}
  BY DEF Holding, GuildType
<1>2. GuildType'
  BY <1>1 DEF GuildType
<1>3. Order'
  BY <1>1 DEF Order, Pending, Newest, Done, GuildType, Holding
<1> QED
  BY <1>2, <1>3 DEF OwnGuild

\* A write to either global with what r's reply says of it: it overlaps all others that
\* hold a reply.
LEMMA WriteKeepsOrder ==
  ASSUME GuildInv, NEW r \in Holding, Overlaps(r), Holding' = Holding,
         UNCHANGED <<player, reply, todo, cache, replies>>,
         remaining' \in {remaining, reply[r]}, reset' \in {reset, reply[r]},
         pc'[r] = "reset" /\ "remaining" \in headers'[r] /\ ~overlapped[r]
           => remaining' = reply[r]
  PROVE  Order'
<1> USE DEF GuildInv, Overlaps
<1>1. r \in Request /\ reply[r] \in Nat
  BY RosterAssumption DEF GuildType, Holding
<1>2. ASSUME NEW q \in Holding PROVE Pending(q)'
  BY <1>2 DEF Order, Pending
<1>3. ASSUME NEW q \in Holding, ~overlapped'[q] PROVE q = r /\ ~overlapped[r]
  BY <1>1, <1>3 DEF GuildType, Holding
<1>4. ~overlapped[r] => Newest(r)'
  BY <1>1, RosterAssumption DEF Order, Newest, GuildType
<1>5. ~overlapped[r] => Done(r)'
  BY DEF Order, Done
<1> QED
  BY <1>2, <1>3, <1>4, <1>5 DEF Order

\* The first of the two updates, with its header and without.
LEMMA UpdateRemainingKeeps ==
  ASSUME GuildInv, NEW r \in Request, UpdateRemaining(r)
  PROVE  GuildInv'
<1> USE DEF GuildInv, UpdateRemaining
<1>1. Holding' = Holding /\ r \in Holding /\ pc'[r] = "reset"
  BY DEF Holding, GuildType
<1>2. GuildType'
  <2>1. overlapped' \in [Request -> BOOLEAN] /\ pc' \in [Request -> {"idle", "fetch", "remaining", "reset", "store"}]
    BY DEF GuildType, Overlaps
  <2> QED
    BY <1>1, <2>1, RosterAssumption DEF GuildType
<1>3. CASE "remaining" \in headers[r]
  BY <1>1, <1>2, <1>3, WriteKeepsOrder DEF OwnGuild
<1>4. CASE "remaining" \notin headers[r]
  <2>1. Order'
    BY <1>1, <1>4 DEF Order, Pending, Newest, Done, GuildType, Holding
  <2> QED
    BY <1>2, <2>1 DEF OwnGuild
<1> QED
  BY <1>3, <1>4

\* The second update.
LEMMA UpdateResetKeeps ==
  ASSUME GuildInv, NEW r \in Request, UpdateReset(r)
  PROVE  GuildInv'
<1> USE DEF GuildInv, UpdateReset
<1>1. Holding' = Holding /\ r \in Holding /\ pc'[r] = "store"
  BY DEF Holding, GuildType
<1>2. GuildType'
  <2>1. /\ overlapped' \in [Request -> BOOLEAN]
        /\ pc' \in [Request -> {"idle", "fetch", "remaining", "reset", "store"}]
        /\ headers' \in [Request -> SUBSET Header]
    BY DEF GuildType, Overlaps
  <2>2. \A q \in Request : q \notin Holding => headers'[q] = {}
    BY <1>1 DEF GuildType
  <2> QED
    BY <1>1, <2>1, <2>2, RosterAssumption DEF GuildType
<1>3. CASE "reset" \in headers[r]
  BY <1>1, <1>2, <1>3, WriteKeepsOrder DEF OwnGuild
<1>4. CASE "reset" \notin headers[r]
  <2>1. Order'
    BY <1>1, <1>4 DEF Order, Pending, Newest, Done, GuildType, Holding
  <2> QED
    BY <1>2, <2>1 DEF OwnGuild
<1> QED
  BY <1>3, <1>4

\* A member who has the reply: one less to do.
LEMMA StoreKeeps ==
  ASSUME GuildInv, NEW r \in Request, NEW m \in Player, Store(r, m)
  PROVE  GuildInv'
<1> USE DEF GuildInv, Store, Overlaps, limits
<1>1. Holding' = Holding /\ r \in Holding
  BY DEF Holding, GuildType
<1>2. GuildType'
  BY <1>1, RosterAssumption DEF GuildType
<1>3. Order'
  <2>1. ASSUME NEW q \in Holding PROVE Pending(q)'
    BY <2>1, <1>1 DEF Order, Pending, GuildType
  <2>2. ASSUME NEW q \in Holding, ~overlapped'[q] PROVE q = r /\ ~overlapped[r]
    BY <2>2, <1>1 DEF GuildType, Holding
  <2>3. ~overlapped[r] => (Newest(r) /\ Done(r))'
    BY <1>1, RosterAssumption DEF Order, Newest, Done, GuildType, Holding
  <2> QED
    BY <2>1, <2>2, <2>3, <1>1 DEF Order
<1>4. OwnGuild'
  <2>1. reply[r] \in 1 .. MaxReplies /\ m \in Members(reply[r], player[r])
    BY <1>1, RosterAssumption DEF Order, Pending, GuildType
  <2>2. m \in Roster[reply[r]]
    BY <2>1, MembersType
  <2> QED
    BY <2>2 DEF OwnGuild, GuildType
<1> QED
  BY <1>2, <1>3, <1>4

\* A failing call may have stored the reply as well; the request is over.
LEMMA StoreFailsKeeps ==
  ASSUME GuildInv, NEW r \in Request, NEW m \in Player, StoreFails(r, m)
  PROVE  GuildInv'
<1> USE DEF GuildInv, StoreFails, Ends, Overlaps, limits
<1>1. Holding' = Holding \ {r} /\ r \in Holding
  BY DEF Holding, GuildType
<1>2. GuildType'
  <2>1. cache' \in [Player -> 0 .. replies]
    BY <1>1 DEF GuildType
  <2>2. overlapped' \in [Request -> BOOLEAN]
    BY DEF GuildType
  <2> QED
    BY <1>1, <2>1, <2>2 DEF GuildType
<1>3. Order'
  <2>1. ASSUME NEW q \in Holding \ {r} PROVE Pending(q)'
    <3>1. q \in Request /\ reply'[q] = reply[q] /\ todo'[q] = todo[q] /\ player' = player
      BY <2>1 DEF GuildType, Holding
    <3> QED
      BY <2>1, <3>1 DEF Order, Pending
  <2>2. ASSUME NEW q \in Holding \ {r} PROVE overlapped'[q]
    BY <2>2 DEF Holding
  <2> QED
    BY <2>1, <2>2, <1>1 DEF Order
<1>4. OwnGuild'
  <2>1. reply[r] \in 1 .. MaxReplies /\ m \in Members(reply[r], player[r])
    BY <1>1, RosterAssumption DEF Order, Pending, GuildType
  <2>2. m \in Roster[reply[r]]
    BY <2>1, MembersType
  <2> QED
    BY <2>2 DEF OwnGuild, GuildType
<1> QED
  BY <1>2, <1>3, <1>4

\* An entry that is gone is below every reply and belongs to nobody.
LEMMA ExpireKeeps ==
  ASSUME GuildInv, NEW p \in Player, Expire(p)
  PROVE  GuildInv'
<1> USE DEF GuildInv, Expire, requests, limits
<1>1. Holding' = Holding
  BY DEF Holding
<1>2. GuildType'
  BY <1>1, RosterAssumption DEF GuildType
<1>3. ASSUME NEW r \in Holding
      PROVE  (Pending(r) /\ (~overlapped[r] => Newest(r) /\ Done(r)))'
  <2>1. Pending(r)'
    BY DEF Order, Pending
  <2>2. r \in Request /\ reply[r] \in Nat
    BY RosterAssumption DEF GuildType, Holding
  <2>3. \A q \in Player : cache'[q] \in {0, cache[q]}
    BY DEF GuildType
  <2>4. ~overlapped[r] => (Newest(r) /\ Done(r))'
    BY <2>2, <2>3, MembersType DEF Order, Newest, Done, GuildType, Members
  <2> QED
    BY <2>1, <2>4
<1> QED
  BY <1>1, <1>2, <1>3 DEF OwnGuild, GuildType, Order

\* Nobody holds anything in a new process.
LEMMA VanishKeeps ==
  ASSUME GuildInv, Vanish
  PROVE  GuildInv'
<1>1. Holding' = {}
  BY DEF Vanish, Holding
<1> QED
  BY <1>1, RosterAssumption DEF GuildInv, GuildType, OwnGuild, Order, Vanish

\* Every step.
LEMMA GuildKeeps ==
  ASSUME GuildInv, [Next]_vars
  PROVE  GuildInv'
<1>1. CASE UNCHANGED guild
  BY <1>1 DEF guild, requests, limits, GuildInv, GuildType, OwnGuild, Order, Pending, Newest,
              Done, Holding
<1>2. ASSUME NEW r \in Request, GuildStep(r)
      PROVE  GuildInv'
  <2>1. CASE FetchFails(r) \/ Unreadable(r) \/ Answer(r)
    BY <2>1, EndsKeeps DEF FetchFails, Unreadable, Answer
  <2> QED
    BY <1>2, <2>1, GetFromHypixelKeeps, UpdateRemainingKeeps, UpdateResetKeeps, StoreKeeps
       DEF GuildStep
<1>3. ASSUME NEW r \in Request, NEW p \in Player, NEW asKeys \in BOOLEAN, GetGuild(r, p, asKeys)
      PROVE  GuildInv'
  BY <1>3, AskKeeps DEF GetGuild
<1> QED
  BY <1>1, <1>2, <1>3, GuildMoves, StoreFailsKeeps, ExpireKeeps, VanishKeeps

-----------------------------------------------------------------------------
\* The theorems.

Inv == AccessInv /\ GuildInv /\ scene \in Scene /\ restarts \in Nat

\* The conjunction of both halves is inductive.
LEMMA Invariance == Spec => []Inv
<1>1. Init => Inv
  BY AccessStarts, GuildStarts DEF Init, Inv
<1>2. Inv /\ [Next]_vars => Inv'
  <2> SUFFICES ASSUME Inv, [Next]_vars PROVE Inv'
    OBVIOUS
  <2>1. AccessInv' /\ GuildInv'
    BY AccessStep, GuildKeeps DEF Inv
  <2>2. scene' = scene /\ restarts' \in {restarts, restarts + 1}
    BY DEF Next, SignIn, Step, GetGuild, Begin, Forget, Restart, Tick, vars, bounds
  <2> QED
    BY <2>1, <2>2 DEF Inv
<1> QED
  BY <1>1, <1>2, PTL DEF Spec

\* All variables of access and guild cache keep their types, for any constants.
THEOREM TypeCorrect == Spec => []TypeOK
<1>1. Inv => TypeOK
  BY DEF Inv, AccessInv, AccessType, GuildInv, GuildType, TypeOK
<1> QED
  BY <1>1, Invariance, PTL

\* A player's entry is a guild with that player in it, whatever expires, fails or overlaps.
THEOREM EntriesAreOwn == Spec => []OwnGuild
<1>1. Inv => OwnGuild
  BY DEF Inv, GuildInv
<1> QED
  BY <1>1, Invariance, PTL

\* A request that nobody overlapped answers only when its reply is under every member.
THEOREM AnswersAreStored == Spec => []AnswerIsStored
<1>1. Inv => AnswerIsStored
  BY DEF Inv, GuildInv, GuildType, Order, Done, AnswerIsStored, Holding
<1> QED
  BY <1>1, Invariance, PTL

\* Entries go back in time only by requests that were overlapped, however many there are.
THEOREM EntriesAreOrdered == Spec => OrderedUnlessOverlapped
<1> DEFINE Back(p) == cache'[p] # 0 /\ cache'[p] < cache[p]
<1>1. ASSUME Inv, [Next]_vars, NEW p \in Player, Back(p)
      PROVE  \E r \in Holding : overlapped[r] /\ cache'[p] = reply[r]
  <2>1. PICK r \in Request : \E m \in Player : Store(r, m) \/ StoreFails(r, m)
    <3>1. cache' # cache /\ cache'[p] # 0
      BY <1>1, RosterAssumption DEF Inv, GuildInv, GuildType
    <3>2. ASSUME NEW q \in Player, Expire(q) PROVE FALSE
      BY <1>1, <3>2 DEF Expire, Inv, GuildInv, GuildType
    <3> QED
      BY <1>1, <3>1, <3>2, GuildMoves DEF GetGuild, Ask, GuildStep, GetFromHypixel, FetchFails,
         UpdateRemaining, UpdateReset, Unreadable, Answer, Vanish, guild
  <2>2. r \in Holding /\ cache'[p] = reply[r]
    BY <1>1, <2>1 DEF Store, StoreFails, Holding, Inv, GuildInv, GuildType
  <2>3. overlapped[r]
    BY <1>1, <2>2 DEF Inv, GuildInv, Order, Newest, GuildType
  <2> QED
    BY <2>2, <2>3
<1>2. Inv /\ [Next]_vars => [\A p \in Player : Back(p)
                              => \E r \in Holding : overlapped[r] /\ cache'[p] = reply[r]]_vars
  BY <1>1
<1> QED
  BY <1>2, Invariance, PTL DEF Spec, OrderedUnlessOverlapped

\* After an update of the rate limit that nobody overlapped, each of the globals is of the
\* request's reply where that has a header for it, and of none newer where it has none.
THEOREM LimitsAreOfOneReply == Spec => LimitsOfOneReply
<1> DEFINE Pair(r) == /\ headers[r] = Header => remaining' = reset'
                      /\ "remaining" \in headers[r] => remaining' = reply[r]
                      /\ "reset" \in headers[r] => reset' = reply[r]
                      /\ remaining' <= reply[r] /\ reset' <= reply[r]
<1>1. Inv /\ [Next]_vars
      => [\A r \in Request : pc[r] = "reset" /\ pc'[r] = "store" /\ ~overlapped[r] => Pair(r)]_vars
  <2> SUFFICES ASSUME Inv, [Next]_vars, NEW r \in Request,
                      pc[r] = "reset", pc'[r] = "store", ~overlapped[r]
               PROVE  Pair(r)
    OBVIOUS
  <2>1. UpdateReset(r)
    BY GuildMoves
       DEF GetGuild, Ask, GuildStep, GetFromHypixel, FetchFails, UpdateRemaining, UpdateReset,
           Unreadable, Answer, Store, StoreFails, Ends, Expire, Vanish, guild, requests,
           Inv, GuildInv, GuildType
  <2>2. Newest(r) /\ Done(r) /\ reply[r] \in Nat
    BY RosterAssumption DEF Inv, GuildInv, GuildType, Order, Holding
  <2>3. remaining' = remaining /\ reset' \in {reset, reply[r]}
        /\ ("reset" \in headers[r] => reset' = reply[r])
    BY <2>1 DEF UpdateReset
  <2> QED
    BY <2>2, <2>3 DEF Newest, Done, Header
<1> QED
  BY <1>1, Invariance, PTL DEF Spec, LimitsOfOneReply

\* The globals go back to an older reply only by requests that were overlapped, however
\* many there are, or with the process.
THEOREM LimitsAreOrdered == Spec => LimitsInOrder
<1> DEFINE Kept == /\ remaining' < remaining => remaining' \in Overtaken \cup {0}
                   /\ reset' < reset => reset' \in Overtaken \cup {0}
<1>1. ASSUME Inv, [Next]_vars
      PROVE  Kept
  <2>1. remaining \in Nat /\ reset \in Nat
    BY <1>1, RosterAssumption DEF Inv, GuildInv, GuildType
  <2>2. ASSUME NEW r \in Request, UpdateRemaining(r) \/ UpdateReset(r)
        PROVE  Kept
    <3>1. r \in Holding
      BY <2>2 DEF UpdateRemaining, UpdateReset, Holding
    <3>2. CASE overlapped[r]
      BY <2>1, <2>2, <3>1, <3>2 DEF UpdateRemaining, UpdateReset, Overtaken
    <3>3. CASE ~overlapped[r]
      <4>1. remaining <= reply[r] /\ reset <= reply[r] /\ reply[r] \in Nat
        BY <1>1, <3>1, <3>3, RosterAssumption DEF Inv, GuildInv, GuildType, Order, Newest
      <4>2. remaining' \in {remaining, reply[r]} /\ reset' \in {reset, reply[r]}
        BY <2>2 DEF UpdateRemaining, UpdateReset
      <4> QED
        BY <2>1, <4>1, <4>2
    <3> QED
      BY <1>1, <3>1, <3>2, <3>3 DEF Inv, GuildInv, GuildType
  <2>3. CASE UNCHANGED <<remaining, reset>>
    BY <2>1, <2>3
  <2>4. CASE Vanish
    BY <2>4 DEF Vanish
  <2> QED
    BY <1>1, <2>2, <2>3, <2>4, GuildMoves
       DEF GetGuild, Ask, GuildStep, GetFromHypixel, FetchFails, Unreadable, Answer, Store,
           StoreFails, Ends, Expire, guild, limits
<1>2. Inv /\ [Next]_vars => [Kept]_vars
  BY <1>1
<1> QED
  BY <1>2, Invariance, PTL DEF Spec, LimitsInOrder

\* The cache shields Hypixel from every request that spells the id as the keys do and
\* whose rights to pass it have lapsed.
THEOREM CacheIsShield == Spec => CacheShields
<1>1. Inv /\ [Next]_vars
      => [\A r \in Request :
            pc[r] = "idle" /\ pc'[r] # "idle" /\ ~scene.faulty /\ cache[player'[r]] # 0
              => since["bypass"] < Lapsed \/ ~keyed'[r]]_vars
  <2> SUFFICES ASSUME Inv, [Next]_vars, NEW r \in Request,
                      pc[r] = "idle", pc'[r] # "idle", ~scene.faulty, cache[player'[r]] # 0
               PROVE  since["bypass"] < Lapsed \/ ~keyed'[r]
    OBVIOUS
  <2>1. PICK p \in Player, asKeys \in BOOLEAN : GetGuild(r, p, asKeys)
    BY GuildMoves
       DEF GetGuild, Ask, GuildStep, GetFromHypixel, FetchFails, UpdateRemaining, UpdateReset,
           Unreadable, Answer, Store, StoreFails, Ends, Expire, Vanish, guild, requests,
           Inv, GuildInv, GuildType
  <2>2. player'[r] = p /\ keyed'[r] = asKeys
    BY <2>1 DEF GetGuild, Ask, Inv, GuildInv, GuildType
  <2>3. Context.BypassCache \/ ~keyed'[r]
    BY <2>1, <2>2 DEF GetGuild
  <2> QED
    BY <2>3, BudgetBoundsRights DEF Inv, RightsLapse
<1> QED
  BY <1>1, Invariance, PTL DEF Spec, CacheShields
=============================================================================
