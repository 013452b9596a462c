# Verification of skyblock-pv-backend

TLA+ modules, TLC runs and TLAPS proofs about the backend in `src/`. The
backend sits between a Minecraft mod and the Hypixel API: it authenticates
players, answers requests about profiles from Redis or from Hypixel, keeps data
the mod uploads in Postgres, and once an hour turns Hypixel's auctions into a
price list.

## 1. The system

One Go process. `main` starts the goroutine `fetchData` and then serves HTTP;
net/http runs every request in a goroutine of its own. All of them share one
Redis client (or none, if no address is configured), one Postgres pool, one
read-only configuration and two global integers. There is no lock, no
singleflight and no transaction anywhere: every guarantee comes from single
calls to Redis and single SQL statements.

| Component | State | Operations | Talks to |
|---|---|---|---|
| Cached proxy routes (`routes/profiles.go`, `status.go`, `player.go`, `museum.go`, `garden.go`, `profileauctions.go`, `internal/context.go`, `internal/hypixel_api.go`) | Redis entries `<path>:<id>` and error markers `<path>:<id>:error`, each with an expiry | look up, check marker, ask Hypixel, store, mark, read remaining time | Redis, Hypixel; `/profiles` starts a chore |
| Shared data (`routes/shared_data.go`) | table `shared_data`, one jsonb document per (player, profile) | PUT of ten kinds of data, GET of a player's rows, DELETE, chore `CheckData` | Postgres |
| Profile chore (`routes/profiles.go`) | goroutines holding a list of profile ids | delete rows of profiles not in the list | connects the two above |
| Auction cycle (`main.go`, `auctions/auction_explorer.go`, `routes/auctionhouse.go`) | collector of one refresh, ticker, Redis entry `auctions_1:cached` | read pages, publish, wait, answer `GET /auctions` | Hypixel, Redis |
| Development mode (`auctions/auction_explorer.go`, `internal/context.go`) | Redis entries `auctions.index_1:<id>`, a mark `<3` under `auctions_1:cached` | index what is fetched, list and read the index | Redis |
| Price statistics (`auctions/auction_explorer.go`, `utils/item_utils.go`) | none (pure) | group, sort, lowest, highest, median, mean | NBT decoding |
| Guild cache (`routes/guild.go`) | Redis entries, one per member | fetch once, store under every member | Redis, Hypixel |
| Authentication (`internal/authentication.go`, `routes/authenticate.go`, `routes/handler`) | none (signed tokens) | issue a token for 24 hours, check it, gate routes | Mojang |
| Rate limit report (`internal/hypixel_api.go`, `routes/ratelimit.go`) | two globals | write on every reply, read by administrators | |
| NBT decoding (`utils/nbt`, `utils/item_utils.go`) | a reader | decode a compressed item | |
| Configuration, migrations, build | read or run once before serving | | |

### What is hard here

* **Interleaving.** Two requests that miss together both go to Hypixel, and
  store what they got in either order; the body, the marker and the remaining
  time of one answer come from different calls.
* **Failure in the middle.** Each call to Redis or Postgres may fail before or
  after it took effect, and handlers differ in what they do then: most fail the
  request, the garden and the auction cycle ignore it.
* **Stale work.** A chore deletes by a list that may be older than the rows it
  deletes; a refresh reads pages of a listing that moves.
* **Time.** Expiries of entries, markers and the price list run against
  requests without timeout and a ticker that drops ticks.
* **Restarts.** A panic in `fetchData` takes everything in memory down, Redis
  and Postgres stay. So do the tokens clients hold: they carry rights of a
  configuration that is gone.
* **Bytes from elsewhere.** The decoder looks at the error of a read and not at the
  number of bytes, and any tree of an unexpected shape is a panic.

### What makes each part correct

* Proxy routes: answers of bounded age; a marker that shields Hypixel and goes
  away; bounded disorder between concurrent fills; an honest
  `X-Backend-Expire-In`; an answer to every request.
* Shared data: a register per (player, profile, kind), however statements
  interleave or fail.
* Chore: never deletes data of a profile that everybody knows, eventually
  deletes data of one that is gone.
* Auction cycle: a refresh collects what is listed up to the drift during the
  refresh, publishes nothing from elsewhere, and `GET /auctions` has no gap while
  refreshes succeed.
* Prices: whatever order the auctions come in and wherever one is cut off, the
  published numbers are those of the items sold; the median splits the prices. In
  development mode a refresh from the index is complete or fails.
* Guild cache: an entry is a guild with that player in it; an answer is stored under
  every member; disorder only where requests overlap.
* Access: a right that is taken away ends with the last token that carries it.

`PROJECT.json` lists all hazards with their lines.

## 2. Modules

| Module | Role |
|---|---|
| `RouteCache` | the six proxy routes against Redis, Hypixel and time |
| `RouteCacheProofs` | theorems about `RouteCache` |
| `SnapshotFeed` | abstract: what `/profiles` promises to the chore |
| `FieldStore` | abstract: what `/shared_data` promises to its users |
| `SharedData` | the table and its handlers; implements `FieldStore` |
| `SharedDataProofs` | theorems about `SharedData`, the refinement among them |
| `ProfileSync` | composes `SnapshotFeed` and `SharedData` by their one common step |
| `ProfileSyncProofs` | theorems about `ProfileSync`, from those about the table |
| `AuctionCycle` | `fetchData`, the pages, the ticker, the published entry |
| `AuctionCycleProofs` | theorems about `AuctionCycle` |
| `NbtValues` | what the decoder returns: outcomes, tags and their accessors |
| `NbtReader` | the decoder and the reader below it |
| `PriceStats` | the numbers of one list of prices |
| `PriceStatsProofs` | theorems about `PriceStats` |
| `PriceList` | from decoded auctions to prices: `calculateAverage` and what it calls |
| `PriceListProofs` | theorems about `PriceList` |
| `AuctionBytes` | the bytes of the auctions; gives `PriceList` the decoder |
| `PriceRefresh` | refreshes, and what the prices they publish promise; the development mode and its index in Redis |
| `PriceRefreshProofs` | theorems about `PriceRefresh` |
| `Access` | tokens, handlers, configuration |
| `GuildCache` | `GET /guild/{id}` and the globals its replies update |
| `Sessions` | composes `Access` and `GuildCache` |
| `SessionsProofs` | theorems about `Sessions` |
| `MC...` | instances for TLC |

### RouteCache

One action per call a handler makes to Redis or Hypixel, because that is where
goroutines interleave; `pc[r]` names the call request `r` makes next.

| State | Code |
|---|---|
| `cache[k]`, `marker[k]` | Redis under `k` and `k:error`, with the time left |
| `pc`, `key`, `bypass`, `body`, `expireIn` | locals of a handler and its answer |
| `chores[k]` | goroutines of `GetProfiles` between their start and `CheckData` |
| `latest[k]` | version of the document Hypixel holds |
| `age[r]`, `body.age` | history: ticks since the request arrived, since Hypixel served the body |

The handlers share one shape (`GetFromCache`, `HasErrorCached`,
`GetFromHypixel`, then `StoreDocument` or `MarkError`). What differs is kept:
`/profiles` starts the chore and reads the remaining time, `/garden` caches a
placeholder for a missing document and ignores a failing store, `/auctions`
keeps no marker and loses the error of its transformation, `/player` may be
switched off, `/profiles` and `/status` keep high profile accounts longer.
Bodies are versions: nothing in these handlers looks into a document except
the chore and the transformation of auctions, whose possible failure is an
outcome of `StoreAuctions`.

Times are ratios. `MCRouteCache` takes two or three ticks for an entry, one or
two for a marker, one or two for a request; the proofs are for any values.

### SharedData, FieldStore

Every handler makes one call to Postgres with one statement, so a request is
two steps: what it decides before the call (`PutData`, `GetSharedData`,
`DeleteData`, `RejectPut`) and the call (`ExecAddData`, `QuerySharedData`,
`ExecDelete`). A failed call may have been applied. `Decoded` keeps what
decoding loses: the foraging route decodes into a type without its fields, and
a time pocket of more than nine items keeps eight. `ActsAsRegisters` is the
refinement: row and key of the document together name a register; a call
takes effect at one moment; nothing else moves, except that the chore empties
whole profiles.

### ProfileSync

`SnapshotFeed` says how old a goroutine's list may be: it is some version
Hypixel served during the request that started the goroutine. That
`RouteCache` keeps this promise is the property `FeedsSnapshots`. `history[p][v]`
is the set of profiles in version `v`; profiles are created and deleted, and a
deleted id is not reused (assumed of Hypixel, in `Histories`).

### AuctionCycle

`fetchData` as a loop of page reads, publication and waiting; `List` and `End`
change the listing at any place between two reads. `stayed`, `offered`,
`changes` and `missed` are history variables that no action of the code reads.
`TotalPages` of page 0 alone decides how many pages are read. `fetchPage` decodes whatever
comes with status 200 and does not look at `success`, so a reply that is no page counts as one
without auctions (`FetchHollowPage`): as page 0 it makes an empty price list, later it leaves out what
was on its page, which `stayed` then no longer has. The first refresh
of a process panics when it fails; a panic in a later one (for instance on a
stack of zero items) is `Crash`. `GET /auctions` only looks up the entry, so it
is the predicate `Served` and not an action. Redis is assumed to be configured: without
it nothing is ever published.

### NbtReader, AuctionBytes, PriceStats, PriceList

Pure operators. The reader below the decoder is a record with a position, a buffer
size (`chunk`) and how it reports the end (`early`: gzip's with the last bytes, bufio's at the next
call); an outcome is a value, an error or a panic, and `Then` is the `if err != nil { return }` of
the code. The methods are translated with their differences: `readByte` keeps a byte that comes
with an error, the others throw theirs away; what was asked for and did not come is zero. Bytes have
four bits, which keeps lengths at their number of bytes and their sign. `GetItem`, `GetSbId` and
`Count` keep every place where a tree of another shape panics. `slices.Sort` is some rearrangement that is sorted,
and the loop of `calculateAverage` is the function `PriceLists`, a round (`Offer`, then `AddPrice`) at a time. `PriceList` has
the decoder as a parameter, `Decoded`: the decoder has recursive operators, which no theorem may reach. `AuctionBytes` gives
the parameter its value, `DecodedBytes`, and every run uses that. Names and ids are one byte long; `int64`
and `float64` do not overflow or round at these sizes, and the mean is kept as a pair.

### PriceRefresh

| State | Code |
|---|---|
| `pc`, `auctions`, `keys`, `prices` | `FetchAll` and its locals |
| `index`, `entry` | Redis: `auctions.index_1:<id>` and `auctions_1:cached`, with their expiry |
| `initial`, `due` | `fetchData`: before its loop; a tick in the ticker's channel |
| `scene` | an instance: production or development, which auctions are offered, how their bytes arrive |

`Items` is what `GetItem` returns for each auction of an instance; it is a constant, so that TLC decodes once. In
`Listing` an auction has its bytes and, in `sells`, what it is: an item and a price per piece, or nothing. The
two meet in `DecodesAsSold`, and `PricesMatch` compares what is published with `sells`.

A refresh appends what it reads, so an auction that moved to a page read later is collected twice:
`auctions` is a sequence, and prices are compared by place. In production one refresh is looked at (`AuctionCycle` has the rest), in development the whole
cycle. `Crash` ends the process from outside; `CalculateAverage` and a failing first refresh end it from
inside. Two behaviours of the development mode are modelled as they are and worth knowing: when the
index has expired and the entry has not, an empty price list is published, and renewed by every
refresh; and an auction that panics ends every new process until it leaves the index.

### Access, GuildCache, Sessions

`Access` has one account and one token: a client that uses several tokens is covered by the
behaviours in which it holds each. `since[right]` is history: how long ago the configuration last
gave the account a right. The ban compares the name of the request, letter by letter, and Mojang is asked
about the same text as a part of a query, so whom Mojang vouches for and whom the ban knows are different
questions. `Name` has the three cases that matter: the account's name as the list has it (`own`), another text
for which Mojang vouches for the account all the same (`alike`), and a name that is not the account's (`other`).
What Mojang takes for the same is Mojang's, so `alike` is always possible here. `asListed` is history: the token was issued
for `own`. Where authentication is switched off nobody asks Mojang, and everybody gets a guest's token. `GET /_ratelimit` changes nothing and is the predicate `GetRateLimit`.

`GuildCache` numbers Hypixel's replies. The entry of a player, a request and both globals hold such
a number, so that "older" and "of the same reply" are comparisons; `Roster[n]` says who is in the
guild in reply `n`. Each write is a step: the two globals, then one `SET` per member, any of
which may fail before or after it took effect. `overlapped[r]` is history: another request
wrote while `r` held its reply. `headers[r]` says which of the two rate limit headers of the reply are
numbers: each global is written only with its own. `keyed[r]` says whether the id is spelled as in the keys,
with dashes; any other spelling never finds an entry, although what Hypixel replies to it is stored under
the keys. Replies to the other routes update the globals too: for these they are like a request whose reply has no
members. Redis is configured. A member id that is too short to be sliced is not among Hypixel's replies.

`Sessions` lets requests in through `PrivateRequestHandler` and past the cache with
`Context.BypassCache`. A restart changes the configuration, ends all requests and clears the globals; Redis and tokens stay.

## 3. Runs

| Run | Instance | Shows |
|---|---|---|
| `cache_reliable` | 2 requests, a `/profiles` key and a key of the disabled `/player`, Redis answers | types, `FreshnessBound`, `MarkerShieldsUpstream`, `ExpireInBounds`, `NoLateRegress`, `FeedsSnapshots` |
| `cache_faulty` | 2 requests, a `/garden` key of a high profile account and an `/auctions` key, any Redis call may fail | `FreshnessBound` and `NoLateRegress` do not need a reliable Redis |
| `cache_liveness` | 2 requests on one `/profiles` key, Redis may fail, fairness | `RequestsEnd`, `ErrorsHeal` |
| `cache_auctions` | 2 requests on one `/auctions` key | violated: `OkCarriesBody` |
| `shared_registers` | 2 editors, 2 players, 1 profile, 3 kinds, Postgres may fail | types, `ActsAsRegisters` |
| `shared_delete` | 1 editor | violated: `DeleteRemovesRows` |
| `sync_settled` | 1 viewer, 1 editor, 1 player, 2 profiles, 3 versions of the list, fairness | types, `SettledProfilesKeepData`, `GoneProfilesForgotten` |
| `sync_race` | the same | violated: `KnownProfilesKeepData` |
| `auction_refreshes` | 3 auctions, pages of 1, 2 changes per refresh, refreshes of up to 2 ticks every 3, entry for 6, all failures, fairness | types, `DriftBounded`, `NoGap`, `PublishesOnlyOffered`, `Recovers` |
| `auction_gap` | 1 auction, no changes | violated: `SurvivesOneFailure` |
| `prices` | all kinds of auctions, up to 4 of 8 and 2 of 16 at once, also one more than once; three documents cut off at every byte; every buffer size from 6 bytes up; development mode with 3 auctions, one of which panics, index for 3 ticks, entry for 2, one crash; fairness | types, `DecodesAsSold`, `PricesMatch`, `MedianSplits`, `CachedReadComplete`, `MarkReplaced` |
| `sessions_rights` | 2 requests at once with Redis failing and no restart; 1 at once with Redis answering, 2 restarts and 5 configurations; 2 players, 3 replies (2 in the second), tokens of 2 ticks | types, `RightsLapse`, `CacheShields`, `OwnGuild`, `AnswerIsStored`, `OrderedUnlessOverlapped`, `LimitsOfOneReply`, `LimitsInOrder` |

Every property of a passing run has a mutant in `PROJECT.json`: a named wrong
variant of a definition (`NewEntryUntiered`, `ReplyReused`, `UpsertedWhole`,
`LastPageShort`, ...) under which TLC finds the property violated.

### The bounds and why they are enough

Requests of different keys meet only in Redis, where keys are independent, so
two requests on one key are the smallest case of every race; two keys show that
nothing leaks from one to the other. What a third request could add (a chain of
overwrites) is covered by the proofs, which do not bound the requests. One change
of a document distinguishes old from new. Entries live longer than markers and
both longer than a tick, as in the code. Table: two writers and two players with
three kinds cover a write against a write on the same row, on the same key, and
on another player's row; `time_pocket` and `foraging` are there for their
decoding. Chores: three versions of the list let a profile be created, be missed
by an old list, and disappear. Auctions: three pages and two changes let an
auction move to a page that was read and back.

Prices: each kind of auction is one branch of `GetItem`, `GetSbId` or `Count`; four auctions of one
item reach both cases of the median above two. Documents of `MCPriceRefresh` have every type of tag
the decoder knows before what is looked for. Instances are members of `Scene`, so that each multiplies
only what it is about. Buffers below `MinChunk` are left out: a cut length can become thousands, which TLC
would read one by one. Guilds: a player leaves and joins again, which three replies show; two requests are the
smallest overlap and the proofs do not bound them. Requests at once and restarts are in different
scenes because neither reaches the other's state: a restart leaves no request. The scene with requests at once has a
service open to guests; the one with restarts has five configurations, which between them give and take every right
and ban the account or do not.

`MaxLatency`, `MaxFetch`, `MaxVersion`, `MaxChanges` bound what the code does not:
the HTTP client has no timeout, and Hypixel changes as it likes. `MaxLatency` and
`MaxFetch` are part of what the freshness and gap properties say. `MaxFetch` is below
`Interval`: a refresh reads some dozens of pages and takes minutes.

### Fairness

* `RouteCache!Fairness`: goroutines are scheduled and every call returns. Redis'
  client has timeouts; `http.Client{}` has none, so for the call to Hypixel this
  is an assumption about Hypixel. Time passes (`Tick`), and chores run.
* `ProfileSync!Fairness`: chores run. `GoneProfilesForgotten` takes as premises what
  nothing in the code guarantees: that the player is looked up again, that
  uploads for the profile stop, that restarts stop, that some profile remains
  (an empty list may be written as `null`, on which the chore gives up).
* `AuctionCycle!Fairness`: the goroutine is scheduled, time passes, and whoever runs
  the process starts it again. Failures and crashes are never fair and never
  excluded; `Recovers` has their end as its premise.
* `PriceRefresh!Fairness`: the same; that `calculateAverage` returns is written out (`pc` does not
  stay at `average`), since its weak fairness means just that and TLC would evaluate it at each state.
  `Crash` is bounded by `MaxKills`: a process killed for ever publishes nothing. Crashes by
  the program's own panics are not bounded.

No liveness run uses symmetry.

### Disagreements between code and text

1. `cache_auctions`: `profileauctions.go:23` declares a second `err`; a reply that
   cannot be decoded is answered 200 with an empty body and the check at line 31
   never fires.
2. `shared_delete`: `shared_data.go:91` gives two arguments to a statement with one
   parameter; DELETE always answers 500 and removes nothing.
3. `sync_race`: the "deletion of unknown profiles" deletes data of a known profile when
   a request that fetched before its creation runs its chore after the first upload.
   `SettledProfilesKeepData` says when this cannot happen.
4. `auction_gap`: "Trying again later, using current data" (`main.go:83`) holds for less
   than an hour: the entry lives exactly two intervals, so the next attempt starts
   when it expires and `GET /auctions` answers 500 until that attempt ends.

## 4. Proofs

`RouteCacheProofs` proves for any sets of requests and keys, any positive durations, any
latency, and with or without Redis and its failures:

| Theorem | Property |
|---|---|
| `TypeCorrect` | `Spec => []TypeOK` |
| `Fresh` | `Spec => []FreshnessBound` |
| `MarkerShields` | `Spec => []MarkerShieldsUpstream` |
| `NoLateOverwrite` | `Spec => NoLateRegress` |
| `ExpireInSound` | `Spec => []ExpireInBounds` |

The assumptions are those of `RouteCache` (`KeyAssumption`, `DurationAssumption`,
`ConfigAssumption`, `BoundAssumption`), which TLC evaluates in every run.

*Type invariant.* `TypeOK` alone is not inductive: that no answer carries a version from the
future needs that an idle request holds nothing (`HoldsNothingYet`). `TypeStep` has a case per
action.

*Step summaries.* The timed invariants look only at what a step does to one entry, one marker
and one request. `EntryMoves`, `MarkerMoves` and `RequestMoves` say so once, `StepMoves` and
`TickMoves` prove it from the actions, and the invariants below are proved from these.

*Freshness* needs the budget of an entry: age and remaining time together never exceed one
duration plus one latency (`EntryBound`), because both change together and the reply was at most one
latency old when stored (`ReplyBound`). Only `GetProfiles` adds its own latency, because only it makes a call after it has
the body (`AnswerBound`, `OnlyProfilesMeasure`).

*Shielding* needs only that routes without markers never set one (`OnlyMarkingRoutes`).

*Order of overwrites* needs `Overtaken`: a request holding a reply older than the entry has been
running since before the entry was stored. It is a statement about requests that have not stored
yet, which is why the action property alone says too little to be inductive.

*The expiry header* needs a floor for an entry's budget (`EntryFloor`) and the same relation
for a request between its body and its second call (`Measuring`).

`SessionsProofs` proves every property of `sessions_rights`, for any requests, players, replies,
rosters, configurations, bounds in `Scene` and life of a token:

| Theorem | Property |
|---|---|
| `TypeCorrect` | `Spec => []TypeOK` |
| `RightsEnd` | `Spec => []RightsLapse` |
| `EntriesAreOwn` | `Spec => []OwnGuild` |
| `AnswersAreStored` | `Spec => []AnswerIsStored` |
| `EntriesAreOrdered` | `Spec => OrderedUnlessOverlapped` |
| `LimitsAreOfOneReply` | `Spec => LimitsOfOneReply` |
| `LimitsAreOrdered` | `Spec => LimitsInOrder` |
| `CacheIsShield` | `Spec => CacheShields` |

Assumptions: `TokenAssumption`, `RosterAssumption`, `SceneAssumption`. *Rights* need a budget
(`TokenBudget`): the time since a right was last given and the remaining life of a token that
carries it are together at most one life. At sign in it holds because the rights of the present
configuration are of age zero (`Current`). That the name is not refused is a right like the others, but only a token issued to
the name as listed carries it: of another spelling `RightsLapse` says nothing about the ban. *Order* needs to say what a request knows that nobody
overlapped (`Newest`, `Done`): its reply is the newest of all that is stored, and wherever it has been
its reply is still there or has expired; the first global is of its reply if that has the header. Another request's write ends that knowledge by setting
`overlapped` (`WriteKeepsOrder`). `Pending` keeps what is left to store within the reply's own guild.

`RouteCacheProofs` ends with the refinement `FeedImplemented`: `Spec => FeedsSnapshots`. The mapping
gives `SnapshotFeed` the keys of `/profiles` only; a reply is in flight while its request is about to store
it (`Held`). Each step of `RouteCache` is one of the feed (`ReplyFetches`, `DocumentSpawns`, `ErrorDrops`,
`SurroundingsFeed`) or leaves it alone (`OthersInvisible`): what a request finds in Redis never reaches a chore.

`SharedDataProofs`, for any editors, players, profiles, documents and routes, with or without failures:

| Theorem | Property |
|---|---|
| `TypeCorrect` | `Spec => []TypeOK` |
| `ImplementsRegisters` | `Spec => ActsAsRegisters` |

Assumptions: those of `SharedData`. The heart is `KeysDiffer`: no two routes write under the same key of a
document, so that an upsert which merges by key writes one register (`UpsertWritesOne`) whatever else is
in the row. A failed call is one of the register's failing calls, applied or not.

`ProfileSyncProofs`, for any viewers, editors, players, profiles, versions and histories of the lists:

| Theorem | Property |
|---|---|
| `TypeCorrect` | `Spec => []TypeOK` |
| `SettledDataIsSafe` | `Spec => SettledProfilesKeepData` |
| `PartsKeepPromises` | `Spec => Feed!Spec /\ Table!ActsAsRegisters` |

Assumptions: `FeedAssumption`, `TableAssumption` (those of `SharedData`, repeated because `INSTANCE` does not
bring them). The proof is compositional: `FeedMoves` and `TableMoves` say that each step of the composition is a
step of each part or leaves it alone, and what was proved of the table alone (`CheckDataKeepsKnown`,
`ServeKeepsKeys`) is cited from `SharedDataProofs`. `SettledProfilesKeepData` carries its own induction: `Settled` is
kept by every step as long as Hypixel lists the profile (`SettledStays`).

`AuctionCycleProofs`, for any finite set of auctions, any size of a page, any durations and bounds:

| Theorem | Property |
|---|---|
| `TypeCorrect` | `Spec => []TypeOK` |
| `NeverAGap` | `Interval + MaxFetch < Lifetime`, then `Spec => []NoGap` |
| `PricesAreOfThisRefresh` | `Spec => PublishesOnlyOffered` |
| `DriftIsBounded` | `Spec => []DriftBounded` |

Assumptions: `PagingAssumption`, `TimingAssumption`, `LimitAssumption`. The premise of `NeverAGap` is a premise of the
theorem and not of the module: the code has one hour, minutes, and two hours, the run 3, 2 and 6.

*Paging.* `PagePosition`, `PagesGrow` and `PagesSuffice` are the arithmetic of pages; `ListMoves` and `EndMoves` say
what an auction that appears or ends does to the list, place by place.

*No gap* needs a budget (`Budget`): while nothing was missed, the entry outlives the refresh under way, or the
wait for the ticker and a whole refresh.

*Prices of this refresh* needs that the collector is empty before page 0 and holds only what was listed
since (`Provenance`).

*Drift.* `DriftBounded` speaks of the end of a refresh only. What holds before is `Cost`: the auctions that stayed
but were passed over or pushed past the last page (`Lost`), and those counted twice or counted and still to
come (`Again`), are each no more than the changes so far. Reading a page adds to neither
(`NextPageCost`), and a page without auctions only takes from what stayed (`HollowPageCost`); an auction that appears pushes at most one over the edge of what was read and one over the end
(`ListCost`); one that ends pulls at most one past the page that would have had it (`EndCost`). When all pages are
read, `Lost` is what was missed (`CostAtTheEnd`).

`PriceStatsProofs`, `PriceListProofs` and `PriceRefreshProofs` go from the numbers of one list to what is published, for any
auctions, instances, lifetimes and number of crashes:

| Theorem | What it says |
|---|---|
| `MedianSplitsSorted` | the result of `calculateMedian` splits every sorted list as `Splits` says |
| `ItemInfoTells` | `ItemInfo(Sort(list))` tells (`Tells`) of prices in any order the lowest, the highest, sum and number, and a median |
| `AverageTells` | `calculateAverage` makes one line per item offered, which tells the prices of its offers |
| `PieceCostsNoMore` | a price per piece is never above the price of the stack, and negative only for a negative count |
| `TypeCorrect` | `Spec => []TypeOK` |
| `IndexIsReadWhole` | `Spec => []CachedReadComplete` |
| `PricesAreOfWhatIsSold` | `Spec /\ DecodesAsSold => []PricesMatch` |
| `MedianIsInTheMiddle` | `Spec /\ DecodesAsSold => []MedianSplits` |

Assumptions: `SceneAssumption`, `SellsAssumption`, `LifetimeAssumption`, `KillAssumption`. `DecodesAsSold` is a premise and
not an assumption: it says of each auction offered that the decoder, `GetSbId` and `Count` together find in its bytes
what it sells, and the run `prices` checks it as an invariant for each kind of auction, each place where a document is cut off
and each size of a buffer. It speaks of `scene` alone, which no step changes, so that the first state says it for all.

*Induction with sets.* What a recursive function computes takes induction over its argument. The library's induction
theorems take an operator, which the prover cannot instantiate; `WFMin` takes a set. `LeastNatural` follows from it, from that
`StepByStep` (a set with 0 that has with a number the next has all) and `ElementByElement` (the same for the subsets
of a finite set, one element at a time). Every induction below is an application of these two to a set defined for it.

*One list.* `Sum` is a function whose existence has to be shown before its equation may be used (`SumBySteps`); the same holds
for `MapThenSumSet` of the community modules (`TotalExists`), of which `TotalRemove` says that it does not matter which element
is taken first. `SumIsTotal` brings both together: the code's sum along a list is the sum over what the list is of, where `Lists` is
the relation between a list of prices and the things it lists. `OrderExists` says that a sorted rearrangement exists, so
that `Sort` returns one (`SortLists`). Of the median, `AverageBetween` has to hold for negative sums too, because the
division rounds towards zero; `Counted` turns positions in the sorted list into numbers of offers.

*The loop* has the invariant `Collects`: after n rounds there is a list for exactly the items found so far, and each lists the
offers for that item. `CollectsRound` keeps it through `Offer` and `AddPrice`; `PriceListsCollects` is the end of the loop.

*The refresh.* *Type correctness* needs what each point of the code knows of the keys (`Reading`). *The index* needs
`Complete`: while keys are read, what is in the index is among them, because only a refresh that asks Hypixel adds to it and
there is one refresh at a time. *The prices* need `Made`: until they are published they are those of the auctions
collected. `OfferedAsSold` brings in `DecodesAsSold`, and `PublishedTells` is `AverageTells` in terms of what is sold.

Only model-checked:

* All liveness: `RequestsEnd`, `ErrorsHeal`, `GoneProfilesForgotten`, `Recovers`, `MarkReplaced`. They rest on fairness.
* `DecodesAsSold`: the decoder is written with recursive operators, with which the prover loses its SMT solver, and is about
  bytes that `MCPriceRefresh` encodes for it.

## 5. Plan

Done: the modules of section 2 and the proofs of section 4, which state every safety property of a passing run but
`DecodesAsSold`. Next, in this order:

1. `NbtReader` with recursive functions over the bytes that are left instead of recursive operators: then the induction of
   `PriceStatsProofs` reaches it, and `DecodesAsSold` could be proved of an encoding.
2. `AuctionCycleProofs`: how long `GET /auctions` can be without an answer after a number of missed refreshes.
3. `SessionsProofs`: `Access` and `GuildCache` alone, as parts that keep their promises in the composition.

## 6. Not modelled

The `String` methods of `utils/nbt`, which print a tree for a log. Parsing the configuration. Migrations run
before the server listens and are a library's. The signature of a token is taken to be unforgeable. Headers
of answers other than `X-Backend-Expire-In`, log lines and the layout of documents have no bearing on the
properties. Dispatch by method and path (`create`, `setDefaults`) is net/http's.

Left out by assumption, where the code allows more:

* *Ids.* A key of `RouteCache` is the id of a player or a profile. Markers and entries share one space of keys in
  Redis (`<path>:<id>:error` and `<path>:<id>`), so an id ending in `:error` would find a marker as its entry, and
  the answer would be 200 with an empty body. Other malformed ids are refused by Hypixel or by Postgres and take the failure
  branches that are modelled.
* *Calls under way.* A call to Redis or Postgres that fails, or whose process ends, has taken effect by then or never
  does. The server could in truth still execute what it has received after the client has given up; then an
  old write could land after a newer one. This concerns `Stored` of `RouteCache`, `StoreFails` of `GuildCache` and
  `ExecAddData` and `Restart` of `SharedData`, and the properties about order that rest on them (`NoLateRegress`,
  `ActsAsRegisters`, `OrderedUnlessOverlapped`).

Modelled, but without a property, because nothing says what should happen instead:

* A read of the decoder that meets the end of bufio's buffer (4096 bytes) or of gzip's window (32K) gets
  fewer bytes than it asked for; the rest is zero and no error is reported. `PricesMatch` has the
  premise `NeverCut`.
* For an even number of prices above two, the two after the middle are averaged: `{1, 2, 9, 10}`
  has the median 9. `Splits` and `MedianSplits` say what holds: at most one price after the middle is below it.

## 7. Running

    tlc -config RouteCache_reliable.cfg MCRouteCache.tla
    tlapm RouteCacheProofs.tla

Configurations are named `<module>_<run>.cfg` and belong to the module `MC<module>`.
