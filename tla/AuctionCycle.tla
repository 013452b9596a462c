---------------------------- MODULE AuctionCycle ----------------------------
(***************************************************************************)
(* The refresh of the auction prices: main's goroutine fetchData, the      *)
(* loop over Hypixel's pages in auctions.fetch, the entry that FetchAll    *)
(* publishes for GET /auctions, and the ticker that starts the next        *)
(* refresh.  Production mode.                                              *)
(*                                                                         *)
(* Every page is a request of its own and the auctions listed change in    *)
(* between.  An auction is an identity, what a refresh collects says how   *)
(* often it met each one; turning that into prices is local to the refresh *)
(* and takes no time.  Time is counted in ticks, as in RouteCache.         *)
(***************************************************************************)
EXTENDS Naturals, Sequences, FiniteSets

CONSTANTS
  Auction,      \* auctions that may ever be listed
  PageSize,     \* auctions on one of Hypixel's pages
  Interval,     \* ticks between two ticks of the ticker (time.Hour)
  Lifetime,     \* duration of the published entry (time.Hour * 2)
  MaxFetch,     \* bound: ticks a refresh takes (the code has no timeout)
  MaxChanges,   \* bound: changes of the listing during one refresh
  RedisMayFail  \* a call to Redis may return an error

ASSUME PagingAssumption == PageSize \in Nat \ {0} /\ IsFiniteSet(Auction)
ASSUME TimingAssumption ==
  /\ Interval \in Nat \ {0}
  /\ Lifetime \in Nat \ {0}
  /\ MaxFetch \in Nat \ {0}
ASSUME LimitAssumption ==
  /\ MaxChanges \in Nat
  /\ RedisMayFail \in BOOLEAN

VARIABLES
  listing,    \* the auctions Hypixel lists, in its order
  pc,         \* where fetchData is: "fetch", "publish", "wait", or "down"
  page,       \* the page it asks for next
  totalPages, \* TotalPages as page 0 said
  auctions,   \* auctions[a]: how often a was on a page of this refresh
  initial,    \* the first refresh of the process: there is no ticker yet
  elapsed,    \* ticks since this refresh started
  timer,      \* ticks until the ticker fires
  buffered,   \* a tick waits in the ticker's channel of capacity one
  published,  \* Redis' entry: what was collected, or nothing
  ttl,        \* ticks until the entry expires, 0 if there is none
  stayed,     \* history: auctions listed ever since page 0 was read, but those on a
              \* page that came without any
  offered,    \* history: auctions listed at some time since then
  changes,    \* history: changes of the listing since then
  missed      \* history: refreshes without effect since the entry was stored; 2
              \* for more, for a crash, and before there was one

refresh == <<page, totalPages, auctions, elapsed>>
ticker == <<timer, buffered>>
entry == <<published, ttl>>
history == <<stayed, offered, changes>>
vars == <<listing, pc, refresh, initial, ticker, entry, history, missed>>

-----------------------------------------------------------------------------
\* Hypixel's pages.

Listed == {listing[i] : i \in DOMAIN listing}

Pages == (Len(listing) + PageSize - 1) \div PageSize

\* Auctions at the positions of page n.
OnPage(n) ==
  {listing[i] : i \in {j \in DOMAIN listing : (j - 1) \div PageSize = n}}

Nothing == [a \in Auction |-> 0]

\* append(prod.auctions, response.Auctions...)
Add(collected, n) ==
  [a \in Auction |-> IF a \in OnPage(n) THEN collected[a] + 1 ELSE collected[a]]

\* The loop over the remaining pages is over.  Mutants: it stops one page early,
\* or one page late.
LastPageShort(n, total) == n + 1 >= total
LastPageLate(n, total) == n > total
LastPage(n, total) == n >= total

\* What is left when a FetchAll has returned: the next one makes a collector of
\* its own.  Mutant: the collector outlives the refresh.
CollectorKept == auctions
Collector == Nothing

\* Where fetchData goes when a refresh failed.  Mutant: it returns.
AfterErrorReturn == "returned"
AfterError == "wait"

\* How long the entry is kept.  Mutant: for one hour.
EntryDurationShort == Interval
EntryDuration == Lifetime

OneMore(n) == IF n < 2 THEN n + 1 ELSE n

-----------------------------------------------------------------------------
Init ==
  /\ listing \in {s \in UNION {[1 .. n -> Auction] : n \in 0 .. Cardinality(Auction)} :
                    \A i, j \in DOMAIN s : i # j => s[i] # s[j]}
  /\ pc = "down"
  /\ page = 0 /\ totalPages = 0 /\ auctions = Nothing /\ elapsed = 0
  /\ initial = TRUE
  /\ timer = Interval /\ buffered = FALSE
  /\ published = Nothing /\ ttl = 0
  /\ stayed = {} /\ offered = {} /\ changes = 0
  /\ missed = 2

\* FetchAll returns, or is cut off.
EndFetch ==
  /\ page' = 0 /\ totalPages' = 0 /\ auctions' = Collector /\ elapsed' = 0
  /\ stayed' = {} /\ offered' = {} /\ changes' = 0

\* The process starts: main's first goroutine is fetchData.
Start ==
  /\ pc = "down"
  /\ pc' = "fetch"
  /\ initial' = TRUE
  /\ timer' = Interval /\ buffered' = FALSE
  /\ UNCHANGED <<listing, refresh, entry, history, missed>>

FetchFirstPage ==
  /\ pc = "fetch" /\ page = 0
  /\ auctions' = Add(auctions, 0)
  /\ totalPages' = Pages
  /\ page' = 1
  /\ pc' = IF LastPage(1, Pages) THEN "publish" ELSE "fetch"
  /\ stayed' = Listed /\ offered' = Listed /\ changes' = 0
  /\ UNCHANGED <<listing, elapsed, initial, ticker, entry, missed>>

\* TotalPages of later replies is not looked at.
FetchNextPage ==
  /\ pc = "fetch" /\ page > 0
  /\ auctions' = Add(auctions, page)
  /\ page' = page + 1
  /\ pc' = IF LastPage(page + 1, totalPages) THEN "publish" ELSE "fetch"
  /\ UNCHANGED <<listing, totalPages, elapsed, initial, ticker, entry, history, missed>>

\* A reply that decodes but is no page, such as one that says Hypixel failed: success
\* is not looked at, and it counts as a page without auctions.  In place of page 0 it
\* is the last page, too, and page 0 is never read.
FetchHollowPage ==
  /\ pc = "fetch"
  /\ page' = page + 1
  /\ \/ /\ page = 0
        /\ totalPages' = 0 /\ pc' = "publish"
        /\ stayed' = {} /\ offered' = {} /\ changes' = 0
     \/ /\ page > 0
        /\ pc' = IF LastPage(page + 1, totalPages) THEN "publish" ELSE "fetch"
        /\ stayed' = stayed \ OnPage(page)
        /\ UNCHANGED <<totalPages, offered, changes>>
  /\ UNCHANGED <<listing, auctions, elapsed, initial, ticker, entry, missed>>

\* Hypixel does not answer, has no such page, or its reply cannot be decoded.  The
\* first refresh of the process panics, a later one is given up.
FetchFails ==
  /\ pc = "fetch"
  /\ \/ initial /\ pc' = "down" /\ missed' = 2
     \/ ~initial /\ pc' = AfterError /\ missed' = OneMore(missed)
  /\ EndFetch
  /\ UNCHANGED <<listing, initial, ticker, entry>>

\* FetchAll stores the prices and ignores the outcome; after the first refresh
\* fetchData makes the ticker.  Redis is configured here (without it there is
\* never an entry); a call that fails after it took effect stores like any other.
Publish ==
  /\ pc = "publish"
  /\ \/ published' = auctions /\ ttl' = EntryDuration /\ missed' = 0
     \/ RedisMayFail /\ UNCHANGED entry /\ missed' = OneMore(missed)
  /\ pc' = "wait"
  /\ initial' = FALSE
  /\ IF initial THEN timer' = Interval /\ buffered' = FALSE ELSE UNCHANGED ticker
  /\ EndFetch
  /\ UNCHANGED listing

\* fetchData receives from updateData.C.
NextRefresh ==
  /\ pc = "wait" /\ buffered
  /\ pc' = "fetch"
  /\ buffered' = FALSE
  /\ UNCHANGED <<listing, refresh, initial, timer, entry, history, missed>>

\* A panic anywhere in the goroutine (a stack of zero items, an item without
\* data) or a deployment takes the process down.
Crash ==
  /\ pc # "down"
  /\ pc' = "down"
  /\ missed' = 2
  /\ EndFetch
  /\ UNCHANGED <<listing, initial, ticker, entry>>

-----------------------------------------------------------------------------
\* The environment.

Changing == pc = "fetch" /\ page > 0
Changes ==
  IF Changing
    THEN changes < MaxChanges /\ changes' = changes + 1
    ELSE UNCHANGED changes

\* An auction appears at any place of Hypixel's order.
List(a) ==
  /\ a \notin Listed /\ Changes
  /\ \E n \in 0 .. Len(listing) :
        listing' = SubSeq(listing, 1, n) \o <<a>> \o SubSeq(listing, n + 1, Len(listing))
  /\ offered' = IF Changing THEN offered \cup {a} ELSE offered
  /\ UNCHANGED <<pc, refresh, initial, ticker, entry, stayed, missed>>

\* An auction ends or is bought.
End(a) ==
  /\ Changes
  /\ \E n \in DOMAIN listing :
        /\ listing[n] = a
        /\ listing' = SubSeq(listing, 1, n - 1) \o SubSeq(listing, n + 1, Len(listing))
  /\ stayed' = stayed \ {a}
  /\ UNCHANGED <<pc, refresh, initial, ticker, entry, offered, missed>>

\* A waiting goroutine takes a buffered tick at once; a tick that finds the
\* channel full is dropped.
Tick ==
  /\ pc \in {"fetch", "publish"} => elapsed < MaxFetch
  /\ ~(pc = "wait" /\ buffered)
  /\ elapsed' = IF pc \in {"fetch", "publish"} THEN elapsed + 1 ELSE elapsed
  /\ IF pc = "down" \/ initial
       THEN UNCHANGED ticker
       ELSE /\ timer' = IF timer = 1 THEN Interval ELSE timer - 1
            /\ buffered' = (buffered \/ timer = 1)
  /\ ttl' = IF ttl = 0 THEN 0 ELSE ttl - 1
  /\ published' = IF ttl <= 1 THEN Nothing ELSE published
  /\ UNCHANGED <<listing, pc, page, totalPages, auctions, initial, history, missed>>

Next ==
  \/ Start \/ FetchFirstPage \/ FetchNextPage \/ FetchHollowPage \/ FetchFails \/ Publish
  \/ NextRefresh \/ Crash
  \/ \E a \in Auction : List(a) \/ End(a)
  \/ Tick

Spec == Init /\ [][Next]_vars

\* The goroutine is scheduled, its calls return, time passes and a process that
\* went down is started again.
FetchData ==
  Start \/ FetchFirstPage \/ FetchNextPage \/ FetchHollowPage \/ Publish \/ NextRefresh
Fairness == WF_vars(FetchData) /\ WF_vars(Tick)

FairSpec == Spec /\ Fairness

-----------------------------------------------------------------------------
\* Properties.

\* GET /auctions finds the entry; without it, it answers 500.
Served == ttl > 0

\* Every variable stays in its set: auctions are listed once, a refresh never asks
\* for a page past the last, ticker and entry stay below their periods.
TypeOK ==
  /\ Listed \subseteq Auction /\ Cardinality(Listed) = Len(listing)
  /\ pc \in {"down", "fetch", "publish", "wait"}
  /\ page \in Nat /\ totalPages \in 0 .. Cardinality(Auction)
  /\ page > 1 => page <= totalPages
  /\ auctions \in [Auction -> Nat] /\ published \in [Auction -> Nat]
  /\ initial \in BOOLEAN /\ buffered \in BOOLEAN
  /\ elapsed \in 0 .. MaxFetch /\ timer \in 1 .. Interval /\ ttl \in 0 .. Lifetime
  /\ stayed \subseteq offered /\ offered \subseteq Auction
  /\ changes \in 0 .. MaxChanges /\ missed \in 0 .. 2

Collected == {a \in Auction : auctions[a] > 0}

\* Pages are read one after the other from a list that moves.  What that costs is
\* bounded by how much it moved: each change makes a refresh miss at most one auction
\* that was there all the time, and count at most one twice.  Besides, a refresh only
\* misses what was on a page that came without auctions.
DriftBounded ==
  pc = "publish" =>
    /\ Cardinality(stayed \ Collected) <= changes
    /\ \A a \in Auction : auctions[a] <= 1 + changes
    /\ Cardinality({a \in Auction : auctions[a] > 1}) <= changes

\* A price comes from an auction that Hypixel listed during the refresh that
\* published it, never from an earlier refresh or one that was given up.
PublishesOnlyOffered ==
  [][published' # published => \A a \in Auction : published'[a] > 0 => a \in offered]_vars

\* Once there is an entry, GET /auctions is answered without a gap as long as no
\* refresh is missed, however their durations vary below one interval.
NoGap == missed = 0 => Served

\* Whatever failed before: once Hypixel and Redis keep answering and the process
\* stays up, GET /auctions is answered for good.
Undisturbed == ~FetchFails /\ ~Crash /\ (Publish => ttl' = EntryDuration)
Recovers == <>[][Undisturbed]_vars => <>[]Served

\* After a failed refresh fetchData goes on "using current data": a single failure
\* does not leave GET /auctions without an answer.
SurvivesOneFailure == missed <= 1 => Served
=============================================================================
