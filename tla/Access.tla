------------------------------- MODULE Access -------------------------------
(***************************************************************************)
(* Who is let in: the tokens of GET /authenticate, how every other request *)
(* is admitted by its token, and the configuration both look into.  One    *)
(* Minecraft account is modelled, which holds one token: using several in  *)
(* turn is using each of them.                                             *)
(*                                                                         *)
(* The configuration is read when the process starts.  Tokens are signed   *)
(* and kept by the client, so that they outlive a restart.                 *)
(***************************************************************************)
EXTENDS Naturals

CONSTANT TokenLife  \* ticks a token is valid (24 * time.Hour)

ASSUME TokenAssumption == TokenLife \in Nat \ {0}

VARIABLES
  config,  \* what ctx.Config says of the account, and two switches
  token,   \* the token it holds: its claims, and ticks until it expires
  asListed,\* history: the token was issued to the name as the list of bans spells it
  since    \* history: ticks since the configuration last gave it a right

access == <<config, token, asListed, since>>

Config == [Enabled : BOOLEAN, Admin : BOOLEAN, Banned : BOOLEAN, RateLimit : BOOLEAN]

\* Names the account may give: its own as the list of bans spells it, another string
\* for which Mojang vouches for it all the same, and a name that is not its own.
Name == {"own", "alike", "other"}

\* What a configuration gives the account: a token as anybody, as itself, or as an
\* administrator, which passes over the cache; and that its name is not refused.
Right == {"guest", "own", "bypass", "name"}
Rights(c) ==
  {right \in Right :
     \/ right = "guest" /\ ~c.Enabled
     \/ right = "own" /\ c.Enabled
     \/ right = "bypass" /\ c.Enabled /\ c.Admin
     \/ right = "name" /\ ~c.Banned}

\* The right was never given, or so long ago that no token is left of it.
Lapsed == TokenLife

Token == [sub : {"none", "guest", "own"}, bypass : BOOLEAN, life : 0 .. TokenLife]
NoToken == [sub |-> "none", bypass |-> FALSE, life |-> 0]

-----------------------------------------------------------------------------
AccessInit ==
  /\ config \in Config
  /\ token = NoToken /\ asListed = FALSE
  /\ since = [right \in Right |-> IF right \in Rights(config) THEN 0 ELSE Lapsed]

\* Mutant: valid for a tick too long.
CreateAuthenticationKeyLonger(subject, bypass) ==
  [sub |-> subject, bypass |-> bypass, life |-> TokenLife + 1]
CreateAuthenticationKey(subject, bypass) ==
  [sub |-> subject, bypass |-> bypass, life |-> TokenLife]

\* GET /authenticate?bypassCache.  The ban compares the name as it was given, which then
\* is a part of the query to Mojang; Mojang says whose it is.  All other outcomes leave
\* the account with what it had.  Mutants: bypassCache is granted to whoever asks; the
\* ban is asked only where Mojang is not.
AuthenticateUnchecked(name, bypassCache) ==
  /\ ~(config.Banned /\ name = "own")
  /\ \/ /\ config.Enabled /\ name \in {"own", "alike"}
        /\ token' = CreateAuthenticationKey("own", bypassCache)
     \/ /\ ~config.Enabled
        /\ token' = CreateAuthenticationKey("guest", FALSE)
  /\ asListed' = (name = "own")
  /\ UNCHANGED <<config, since>>
AuthenticateUnbanned(name, bypassCache) ==
  /\ \/ /\ config.Enabled /\ name \in {"own", "alike"}
        /\ token' = CreateAuthenticationKey("own", bypassCache /\ config.Admin)
     \/ /\ ~config.Enabled /\ ~(config.Banned /\ name = "own")
        /\ token' = CreateAuthenticationKey("guest", FALSE)
  /\ asListed' = (name = "own")
  /\ UNCHANGED <<config, since>>
Authenticate(name, bypassCache) ==
  /\ ~(config.Banned /\ name = "own")
  /\ \/ /\ config.Enabled /\ name \in {"own", "alike"}
        /\ token' = CreateAuthenticationKey("own", bypassCache /\ config.Admin)
     \/ /\ ~config.Enabled
        /\ token' = CreateAuthenticationKey("guest", FALSE)
  /\ asListed' = (name = "own")
  /\ UNCHANGED <<config, since>>

\* The process starts with another configuration.
Configure(c) ==
  /\ config' = c
  /\ since' = [right \in Right |-> IF right \in Rights(c) THEN 0 ELSE since[right]]
  /\ UNCHANGED <<token, asListed>>

Elapse ==
  /\ token' = [token EXCEPT !.life = IF @ = 0 THEN 0 ELSE @ - 1]
  /\ since' = [right \in Right |->
                 IF right \in Rights(config) \/ since[right] = Lapsed
                   THEN since[right] ELSE since[right] + 1]
  /\ UNCHANGED <<config, asListed>>

-----------------------------------------------------------------------------
\* What a request with the token is.  Mutant: the claims are read, exp is not.
Nobody == [Requester |-> "none", BypassCache |-> FALSE, IsGuest |-> FALSE]
Caller(t) == [Requester |-> t.sub, BypassCache |-> t.bypass, IsGuest |-> t.sub = "guest"]

ContextIgnoringExp(t) == Caller(t)
GetAuthenticatedContext(t) == IF t.life = 0 THEN Nobody ELSE Caller(t)

Context == GetAuthenticatedContext(token)

\* The handlers: which requests reach the route.
PrivateRequestHandler == Context # Nobody
AuthenticatedRequestHandler == Context # Nobody /\ ~Context.IsGuest
AdminRequestHandler == AuthenticatedRequestHandler /\ config.Admin

\* GET /_ratelimit shows the two globals.
GetRateLimit == AdminRequestHandler /\ Context.BypassCache /\ config.RateLimit
=============================================================================
