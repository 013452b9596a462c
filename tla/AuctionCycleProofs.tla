------------------------- MODULE AuctionCycleProofs --------------------------
(***************************************************************************)
(* Proofs about AuctionCycle, for any finite set of auctions, any size of  *)
(* a page, any durations and any bounds: its type invariant, what a list   *)
(* that moves while it is read costs, where a price comes from, and that   *)
(* GET /auctions is answered without a gap.                                *)
(***************************************************************************)
EXTENDS AuctionCycle, FiniteSetTheorems, SequenceTheorems, TLAPS

-----------------------------------------------------------------------------
\* Facts about Hypixel's pages.

\* A position is on page n if it is one of the PageSize after n pages.
LEMMA PagePosition ==
  ASSUME NEW j \in Nat \ {0}, NEW n \in Nat
  PROVE  (j - 1) \div PageSize = n <=> n * PageSize < j /\ j <= n * PageSize + PageSize
<1>1. ASSUME NEW k \in Nat, NEW d \in Nat \ {0}
      PROVE  k \div d = n <=> n * d <= k /\ k < n * d + d
  OBVIOUS
<1>2. n * PageSize \in Nat /\ j - 1 \in Nat
  BY PagingAssumption
<1> QED
  BY <1>1, <1>2, PagingAssumption

\* One more page is PageSize more positions, and pages are counted in order.
LEMMA PagesGrow ==
  ASSUME NEW n \in Nat
  PROVE  /\ n * PageSize \in Nat
         /\ (n + 1) * PageSize = n * PageSize + PageSize
         /\ \A total \in Nat : n < total => n * PageSize + PageSize <= total * PageSize
<1> USE PagingAssumption
<1>1. n * PageSize \in Nat
  OBVIOUS
<1>2. ASSUME NEW total \in Nat, n < total
      PROVE  n * PageSize + PageSize <= total * PageSize
  <2>1. ASSUME NEW d \in Nat, NEW k \in Nat
        PROVE  n * d + d <= (n + 1 + k) * d
    OBVIOUS
  <2>2. total - n - 1 \in Nat /\ n + 1 + (total - n - 1) = total
    BY <1>2
  <2> QED
    BY <2>1, <2>2
<1>3. (n + 1) * PageSize = n * PageSize + PageSize
  OBVIOUS
<1> QED
  BY <1>1, <1>2, <1>3

\* There are enough pages for the whole listing, and never more than auctions.
LEMMA PagesSuffice ==
  ASSUME NEW n \in Nat
  PROVE  LET total == (n + PageSize - 1) \div PageSize
         IN  total \in Nat /\ n <= total * PageSize /\ total <= n
<1>1. ASSUME NEW d \in Nat \ {0}, NEW k \in Nat, k = n + d - 1
      PROVE  k \div d \in Nat /\ n <= (k \div d) * d /\ k \div d <= n
  <2>1. k \div d \in Nat
    BY <1>1
  <2>2. n <= (k \div d) * d
    BY <1>1
  <2>3. k \div d <= n
    BY <1>1
  <2> QED
    BY <2>1, <2>2, <2>3
<1> QED
  BY <1>1, PagingAssumption

\* An auction that appears moves those behind it by one place.
LEMMA Inserted ==
  ASSUME NEW s \in Seq(Auction), NEW a \in Auction, NEW n \in 0 .. Len(s)
  PROVE  LET t == SubSeq(s, 1, n) \o <<a>> \o SubSeq(s, n + 1, Len(s)) IN
         /\ t \in Seq(Auction) /\ Len(t) = Len(s) + 1
         /\ \A i \in 1 .. Len(s) + 1 :
              t[i] = IF i <= n THEN s[i] ELSE IF i = n + 1 THEN a ELSE s[i - 1]
<1> DEFINE front == SubSeq(s, 1, n)
           back == SubSeq(s, n + 1, Len(s))
           middle == front \o <<a>>
           t == middle \o back
<1>1. Len(s) \in Nat
  BY LenProperties
<1>2. /\ front \in Seq(Auction) /\ Len(front) = n
      /\ \A i \in 1 .. n : front[i] = s[i]
  BY SubSeqProperties
<1>3. /\ back \in Seq(Auction) /\ Len(back) = Len(s) - n
      /\ \A i \in 1 .. Len(s) - n : back[i] = s[n + i]
  BY SubSeqProperties
<1> HIDE DEF front, back
<1>4. /\ middle \in Seq(Auction) /\ Len(middle) = n + 1
      /\ \A i \in 1 .. n + 1 : middle[i] = IF i <= n THEN s[i] ELSE a
  BY <1>2
<1> HIDE DEF middle
<1>5. /\ t \in Seq(Auction) /\ Len(t) = Len(middle) + Len(back)
      /\ \A i \in 1 .. Len(middle) + Len(back) :
           t[i] = IF i <= Len(middle) THEN middle[i] ELSE back[i - Len(middle)]
  BY <1>3, <1>4, ConcatProperties
<1> HIDE DEF t
<1>6. Len(t) = Len(s) + 1
  BY <1>1, <1>3, <1>4, <1>5
<1>7. ASSUME NEW i \in 1 .. Len(s) + 1
      PROVE  t[i] = IF i <= n THEN s[i] ELSE IF i = n + 1 THEN a ELSE s[i - 1]
  <2>1. t[i] = IF i <= n + 1 THEN middle[i] ELSE back[i - (n + 1)]
    BY <1>1, <1>3, <1>4, <1>5
  <2>2. CASE i > n + 1
    <3>1. i - (n + 1) \in 1 .. Len(s) - n /\ n + (i - (n + 1)) = i - 1
      BY <1>1, <2>2
    <3>2. t[i] = s[i - 1]
      BY <1>1, <1>3, <2>1, <2>2, <3>1
    <3> QED
      BY <1>1, <2>2, <3>2
  <2>3. CASE i <= n + 1
    BY <1>1, <1>4, <2>1, <2>3
  <2> QED
    BY <1>1, <2>2, <2>3
<1> QED
  BY <1>5, <1>6, <1>7, Zenon DEF t, middle, front, back

\* An auction that ends too.
LEMMA Removed ==
  ASSUME NEW s \in Seq(Auction), NEW n \in 1 .. Len(s)
  PROVE  LET t == SubSeq(s, 1, n - 1) \o SubSeq(s, n + 1, Len(s)) IN
         /\ t \in Seq(Auction) /\ Len(t) = Len(s) - 1
         /\ \A i \in 1 .. Len(s) - 1 : t[i] = IF i < n THEN s[i] ELSE s[i + 1]
<1> DEFINE front == SubSeq(s, 1, n - 1)
           back == SubSeq(s, n + 1, Len(s))
           t == front \o back
<1>1. Len(s) \in Nat
  BY LenProperties
<1>2. /\ front \in Seq(Auction) /\ Len(front) = n - 1
      /\ \A i \in 1 .. n - 1 : front[i] = s[i]
  BY SubSeqProperties
<1>3. /\ back \in Seq(Auction) /\ Len(back) = Len(s) - n
      /\ \A i \in 1 .. Len(s) - n : back[i] = s[n + i]
  BY SubSeqProperties
<1> HIDE DEF front, back
<1>4. /\ t \in Seq(Auction) /\ Len(t) = Len(front) + Len(back)
      /\ \A i \in 1 .. Len(front) + Len(back) :
           t[i] = IF i <= Len(front) THEN front[i] ELSE back[i - Len(front)]
  BY <1>2, <1>3, ConcatProperties
<1> HIDE DEF t
<1>5. Len(t) = Len(s) - 1
  BY <1>1, <1>2, <1>3, <1>4
<1>6. ASSUME NEW i \in 1 .. Len(s) - 1
      PROVE  t[i] = IF i < n THEN s[i] ELSE s[i + 1]
  <2>1. t[i] = IF i <= n - 1 THEN front[i] ELSE back[i - (n - 1)]
    BY <1>1, <1>2, <1>3, <1>4
  <2>2. CASE i > n - 1
    <3>1. i - (n - 1) \in 1 .. Len(s) - n /\ n + (i - (n - 1)) = i + 1
      BY <1>1, <2>2
    <3>2. t[i] = s[i + 1]
      BY <1>1, <1>3, <2>1, <2>2, <3>1
    <3> QED
      BY <1>1, <2>2, <3>2
  <2>3. CASE i <= n - 1
    BY <1>1, <1>2, <2>1, <2>3
  <2> QED
    BY <1>1, <2>2, <2>3
<1> QED
  BY <1>4, <1>5, <1>6, Zenon DEF t, front, back

\* A list without repetitions is as long as the set of its members.
LEMMA DistinctLength ==
  ASSUME NEW s \in Seq(Auction), \A i, j \in 1 .. Len(s) : s[i] = s[j] => i = j
  PROVE  LET members == {s[i] : i \in DOMAIN s}
         IN  Cardinality(members) = Len(s) /\ Len(s) <= Cardinality(Auction)
<1> DEFINE members == {s[i] : i \in DOMAIN s}
<1>1. DOMAIN s = 1 .. Len(s) /\ Len(s) \in Nat
  OBVIOUS
<1>2. s \in Bijection(1 .. Len(s), members)
  <2>1. s \in [1 .. Len(s) -> members]
    BY <1>1
  <2>2. \A a, b \in 1 .. Len(s) : s[a] = s[b] => a = b
    OBVIOUS
  <2>3. \A m \in members : \E a \in 1 .. Len(s) : s[a] = m
    BY <1>1
  <2> QED
    BY <2>1, <2>2, <2>3 DEF Bijection, Injection, Surjection, IsInjective
<1>3. IsFiniteSet(1 .. Len(s)) /\ Cardinality(1 .. Len(s)) = Len(s)
  BY <1>1, FS_Interval
<1>4. Cardinality(members) = Len(s)
  BY <1>2, <1>3, FS_Bijection DEF ExistsBijection
<1>5. Cardinality(members) <= Cardinality(Auction)
  BY <1>1, PagingAssumption, FS_Subset
<1> QED
  BY <1>4, <1>5

-----------------------------------------------------------------------------
\* Type correctness.

\* Hypixel's list has every auction at one place at most.
Distinct ==
  /\ listing \in Seq(Auction)
  /\ \A i, j \in 1 .. Len(listing) : listing[i] = listing[j] => i = j

\* What an auction that appears does to the list, place by place.
LEMMA ListMoves ==
  ASSUME Distinct, NEW a \in Auction, List(a)
  PROVE  /\ Distinct'
         /\ \E n \in 0 .. Len(listing) :
              /\ Len(listing') = Len(listing) + 1
              /\ \A i \in 1 .. Len(listing) + 1 :
                   listing'[i] = IF i <= n THEN listing[i]
                                 ELSE IF i = n + 1 THEN a ELSE listing[i - 1]
<1>1. PICK n \in 0 .. Len(listing) :
        listing' = SubSeq(listing, 1, n) \o <<a>> \o SubSeq(listing, n + 1, Len(listing))
  BY DEF List
<1>2. /\ listing' \in Seq(Auction) /\ Len(listing') = Len(listing) + 1
      /\ \A i \in 1 .. Len(listing) + 1 :
           listing'[i] = IF i <= n THEN listing[i]
                         ELSE IF i = n + 1 THEN a ELSE listing[i - 1]
  <2> DEFINE t == SubSeq(listing, 1, n) \o <<a>> \o SubSeq(listing, n + 1, Len(listing))
  <2>1. /\ t \in Seq(Auction) /\ Len(t) = Len(listing) + 1
        /\ \A i \in 1 .. Len(listing) + 1 :
             t[i] = IF i <= n THEN listing[i]
                    ELSE IF i = n + 1 THEN a ELSE listing[i - 1]
    <3>1. listing \in Seq(Auction)
      BY DEF Distinct
    <3> QED
      BY <3>1, Inserted, Zenon
  <2>2. listing' = t
    BY <1>1
  <2> HIDE DEF t
  <2> QED
    BY <2>1, <2>2
<1>3. Len(listing) \in Nat /\ \A i \in 1 .. Len(listing) : listing[i] # a
  <2>1. Len(listing) \in Nat /\ DOMAIN listing = 1 .. Len(listing)
    BY LenProperties DEF Distinct
  <2> QED
    BY <2>1 DEF List, Listed
<1>4. ASSUME NEW i \in 1 .. Len(listing'), NEW j \in 1 .. Len(listing'), listing'[i] = listing'[j]
      PROVE  i = j
  <2> DEFINE old(k) == IF k <= n THEN k ELSE k - 1
  <2>1. ASSUME NEW k \in 1 .. Len(listing) + 1, k # n + 1
        PROVE  old(k) \in 1 .. Len(listing) /\ listing'[k] = listing[old(k)]
    <3>1. listing'[k] = IF k <= n THEN listing[k] ELSE listing[k - 1]
      BY <1>2, <2>1
    <3>2. old(k) \in 1 .. Len(listing)
      BY <1>3, <2>1
    <3> QED
      BY <3>1, <3>2
  <2>2. CASE i = n + 1 \/ j = n + 1
    <3>1. listing'[n + 1] = a
      BY <1>2, <1>3
    <3>2. \A k \in 1 .. Len(listing) + 1 : k # n + 1 => listing'[k] # a
      BY <1>3, <2>1
    <3> QED
      BY <1>2, <1>4, <2>2, <3>1, <3>2
  <2>3. CASE i # n + 1 /\ j # n + 1
    <3>1. old(i) = old(j)
      <4>1. /\ old(i) \in 1 .. Len(listing) /\ listing'[i] = listing[old(i)]
            /\ old(j) \in 1 .. Len(listing) /\ listing'[j] = listing[old(j)]
        BY <1>2, <2>1, <2>3
      <4> HIDE DEF old
      <4> QED
        BY <1>4, <4>1 DEF Distinct
    <3> QED
      BY <1>2, <1>3, <2>3, <3>1
  <2> QED
    BY <2>2, <2>3
<1> QED
  BY <1>2, <1>4 DEF Distinct

\* What an auction that ends does to it.
LEMMA EndMoves ==
  ASSUME Distinct, NEW a \in Auction, End(a)
  PROVE  /\ Distinct'
         /\ \E n \in 1 .. Len(listing) :
              /\ listing[n] = a /\ Len(listing') = Len(listing) - 1
              /\ \A i \in 1 .. Len(listing) - 1 :
                   listing'[i] = IF i < n THEN listing[i] ELSE listing[i + 1]
<1>1. PICK n \in 1 .. Len(listing) :
        /\ listing[n] = a
        /\ listing' = SubSeq(listing, 1, n - 1) \o SubSeq(listing, n + 1, Len(listing))
  BY LenProperties DEF End, Distinct
<1>2. /\ listing' \in Seq(Auction) /\ Len(listing') = Len(listing) - 1
      /\ \A i \in 1 .. Len(listing) - 1 :
           listing'[i] = IF i < n THEN listing[i] ELSE listing[i + 1]
  BY <1>1, Removed, Zenon DEF Distinct
<1>3. Len(listing) \in Nat
  BY LenProperties DEF Distinct
<1>4. ASSUME NEW i \in 1 .. Len(listing'), NEW j \in 1 .. Len(listing'), listing'[i] = listing'[j]
      PROVE  i = j
  <2> DEFINE old(k) == IF k < n THEN k ELSE k + 1
  <2>1. ASSUME NEW k \in 1 .. Len(listing) - 1
        PROVE  old(k) \in 1 .. Len(listing) /\ listing'[k] = listing[old(k)]
    BY <1>2, <1>3
  <2>2. old(i) = old(j)
    BY <1>2, <1>4, <2>1 DEF Distinct
  <2> QED
    BY <1>2, <1>3, <2>2
<1> QED
  BY <1>1, <1>2, <1>4 DEF Distinct

\* A process has a ticker or not, the channel a tick or not.
Flags == initial \in BOOLEAN /\ buffered \in BOOLEAN

\* The type invariant, with what a refresh that is not over knows of its pages.
TypeInv ==
  /\ Distinct
  /\ pc \in {"down", "fetch", "publish", "wait"}
  /\ page \in Nat /\ totalPages \in 0 .. Cardinality(Auction)
  /\ page > 1 => page <= totalPages
  /\ Changing => page < totalPages
  /\ pc \in {"down", "wait"} => page = 0 /\ elapsed = 0
  /\ auctions \in [Auction -> Nat] /\ published \in [Auction -> Nat]
  /\ Flags
  /\ elapsed \in 0 .. MaxFetch /\ timer \in 1 .. Interval /\ ttl \in 0 .. Lifetime
  /\ stayed \subseteq offered /\ offered \subseteq Auction
  /\ changes \in 0 .. MaxChanges /\ missed \in 0 .. 2

\* The auctions listed are as many as the list is long.
LEMMA ListedType ==
  ASSUME Distinct
  PROVE  /\ Len(listing) \in Nat /\ DOMAIN listing = 1 .. Len(listing)
         /\ Listed \subseteq Auction
         /\ Cardinality(Listed) = Len(listing) /\ Len(listing) <= Cardinality(Auction)
         /\ Cardinality(Auction) \in Nat
<1>1. Len(listing) \in Nat /\ DOMAIN listing = 1 .. Len(listing)
  BY LenProperties DEF Distinct
<1>2. Listed \subseteq Auction
  BY <1>1 DEF Distinct, Listed
<1>3. Cardinality(Listed) = Len(listing) /\ Len(listing) <= Cardinality(Auction)
  BY DistinctLength DEF Distinct, Listed
<1>4. Cardinality(Auction) \in Nat
  BY PagingAssumption, FS_CardinalityType
<1> QED
  BY <1>1, <1>2, <1>3, <1>4

\* It is as strong as the type invariant.
LEMMA TypeInvSuffices == TypeInv => TypeOK
BY ListedType DEF TypeInv, TypeOK, Flags

\* A page adds to what was collected.
LEMMA AddType ==
  ASSUME NEW collected \in [Auction -> Nat], NEW n
  PROVE  Add(collected, n) \in [Auction -> Nat]
BY DEF Add

\* No auctions yet.
LEMMA NothingType == Nothing \in [Auction -> Nat] /\ \A a \in Auction : Nothing[a] = 0
BY DEF Nothing

\* Any list without repetitions is a possible start.
LEMMA TypeInit == Init => TypeInv
<1> SUFFICES ASSUME Init PROVE TypeInv
  OBVIOUS
<1>1. PICK n \in 0 .. Cardinality(Auction) :
        listing \in [1 .. n -> Auction] /\ \A i, j \in DOMAIN listing : i # j => listing[i] # listing[j]
  BY DEF Init
<1>2. Cardinality(Auction) \in Nat
  BY PagingAssumption, FS_CardinalityType
<1>3. listing \in Seq(Auction) /\ DOMAIN listing = 1 .. Len(listing)
  BY <1>1, <1>2
<1>4. Distinct
  BY <1>1, <1>3 DEF Distinct
<1>5. /\ pc = "down" /\ page = 0 /\ totalPages = 0 /\ auctions = Nothing /\ elapsed = 0
      /\ timer = Interval /\ published = Nothing /\ ttl = 0
      /\ stayed = {} /\ offered = {} /\ changes = 0 /\ missed = 2
  BY DEF Init
<1>6. Flags
  BY DEF Init, Flags
<1> QED
  BY <1>2, <1>4, <1>5, <1>6, NothingType, TimingAssumption, LimitAssumption DEF TypeInv, Changing

\* The environment keeps to its bound.
LEMMA ChangesType ==
  ASSUME Changes, changes \in 0 .. MaxChanges
  PROVE  changes' \in 0 .. MaxChanges
BY LimitAssumption DEF Changes

\* No action sets a flag to anything else.
LEMMA FlagsStep == Flags /\ [Next]_vars => Flags'
<1> SUFFICES ASSUME Flags, [Next]_vars PROVE Flags'
  OBVIOUS
<1> USE DEF Flags, ticker
<1>1. CASE Start \/ FetchFirstPage \/ FetchNextPage \/ FetchHollowPage \/ FetchFails
  BY <1>1 DEF Start, FetchFirstPage, FetchNextPage, FetchHollowPage, FetchFails
<1>2. CASE Publish
  BY <1>2, Zenon DEF Publish
<1>3. CASE NextRefresh \/ Crash
  BY <1>3 DEF NextRefresh, Crash
<1>4. CASE \E a \in Auction : List(a) \/ End(a)
  BY <1>4 DEF List, End
<1>5. CASE Tick
  <2>1. initial' = initial
    BY <1>5 DEF Tick
  <2>2. buffered' \in BOOLEAN
    BY <1>5, Zenon DEF Tick
  <2> QED
    BY <2>1, <2>2
<1>6. CASE UNCHANGED vars
  BY <1>6 DEF vars
<1> QED
  BY <1>1, <1>2, <1>3, <1>4, <1>5, <1>6 DEF Next

\* Every action keeps the type invariant.
LEMMA TypeStep == TypeInv /\ [Next]_vars => TypeInv'
<1> SUFFICES ASSUME TypeInv, [Next]_vars PROVE TypeInv'
  OBVIOUS
<1>0. Distinct /\ (UNCHANGED listing => Distinct') /\ Flags'
  BY FlagsStep DEF TypeInv, Distinct
<1> USE TimingAssumption, LimitAssumption, NothingType
    DEF TypeInv, Changing, EndFetch, Collector, history, refresh, ticker, entry, OneMore
<1>1. CASE Start
  BY <1>0, <1>1 DEF Start
<1>2. CASE FetchFirstPage
  <2>1. Pages \in 0 .. Cardinality(Auction)
    BY <1>0, ListedType, PagesSuffice DEF Pages
  <2>2. auctions' \in [Auction -> Nat]
    BY <1>2, AddType DEF FetchFirstPage
  <2> QED
    BY <1>0, <1>2, <2>1, <2>2, ListedType DEF FetchFirstPage, LastPage
<1>3. CASE FetchNextPage
  <2>1. auctions' \in [Auction -> Nat]
    BY <1>3, AddType DEF FetchNextPage
  <2>2. Cardinality(Auction) \in Nat
    BY <1>0, ListedType
  <2> QED
    BY <1>0, <1>3, <2>1, <2>2 DEF FetchNextPage, LastPage
<1>4. CASE FetchFails
  BY <1>0, <1>4, ListedType DEF FetchFails, AfterError
<1>5. CASE Publish
  BY <1>0, <1>5, ListedType DEF Publish, EntryDuration
<1>6. CASE NextRefresh
  BY <1>0, <1>6 DEF NextRefresh
<1>7. CASE Crash
  BY <1>0, <1>7, ListedType DEF Crash
<1>8. ASSUME NEW a \in Auction, List(a) PROVE TypeInv'
  <2>1. Distinct' /\ changes' \in 0 .. MaxChanges
    BY <1>0, <1>8, ListMoves, ChangesType DEF List
  <2>2. stayed' \subseteq offered' /\ offered' \subseteq Auction
    BY <1>8 DEF List
  <2>3. /\ pc' = pc /\ page' = page /\ totalPages' = totalPages /\ auctions' = auctions
        /\ elapsed' = elapsed /\ timer' = timer /\ published' = published
        /\ ttl' = ttl /\ missed' = missed
    BY <1>8 DEF List
  <2> QED
    BY <1>0, <2>1, <2>2, <2>3
<1>9. ASSUME NEW a \in Auction, End(a) PROVE TypeInv'
  <2>1. Distinct' /\ changes' \in 0 .. MaxChanges
    BY <1>0, <1>9, EndMoves, ChangesType DEF End
  <2>2. stayed' \subseteq offered' /\ offered' \subseteq Auction
    BY <1>9 DEF End
  <2>3. /\ pc' = pc /\ page' = page /\ totalPages' = totalPages /\ auctions' = auctions
        /\ elapsed' = elapsed /\ timer' = timer /\ published' = published
        /\ ttl' = ttl /\ missed' = missed
    BY <1>9 DEF End
  <2> QED
    BY <1>0, <2>1, <2>2, <2>3
<1>10. CASE Tick
  BY <1>0, <1>10 DEF Tick
<1>11. CASE UNCHANGED vars
  BY <1>0, <1>11 DEF vars
<1>12. CASE FetchHollowPage
  <2>1. Cardinality(Auction) \in Nat
    BY <1>0, ListedType
  <2> QED
    BY <1>0, <1>12, <2>1 DEF FetchHollowPage, LastPage
<1> QED
  BY <1>1, <1>2, <1>3, <1>4, <1>5, <1>6, <1>7, <1>8, <1>9, <1>10, <1>11, <1>12 DEF Next

\* TypeOK: a refresh never asks for a page past the last, a listed auction is listed
\* once, ticker and entry stay below their periods.
THEOREM TypeCorrect == Spec => []TypeOK
BY TypeInit, TypeStep, TypeInvSuffices, PTL DEF Spec

\* The same of the inductive invariant, for the theorems below.
LEMMA TypeHolds == Spec => []TypeInv
BY TypeInit, TypeStep, PTL DEF Spec

-----------------------------------------------------------------------------
\* GET /auctions without a gap.

\* Ticks until a goroutine that waits goes on.
UntilTick == IF buffered THEN 0 ELSE timer

\* As long as no refresh is missed, what is left of the entry covers the refresh
\* that is under way, or the ticks until the next one and all of that.
Budget ==
  missed = 0 =>
    /\ initial = FALSE /\ pc # "down"
    /\ pc \in {"fetch", "publish"} => ttl + elapsed > MaxFetch
    /\ pc = "wait" => ttl > MaxFetch + UntilTick

\* A waiting goroutine has to wait for the timer at most.
LEMMA UntilTickType == TypeInv => UntilTick \in 0 .. Interval
<1> SUFFICES ASSUME TypeInv PROVE UntilTick \in 0 .. Interval
  OBVIOUS
<1>1. timer \in 1 .. Interval /\ Interval \in Nat
  BY TimingAssumption DEF TypeInv
<1>2. UntilTick = 0 \/ UntilTick = timer
  BY DEF UntilTick
<1> QED
  BY <1>1, <1>2

LEMMA BudgetStep ==
  ASSUME Interval + MaxFetch < Lifetime, TypeInv, TypeInv', Budget, [Next]_vars
  PROVE  Budget'
<1> SUFFICES ASSUME missed' = 0
    PROVE  /\ initial' = FALSE /\ pc' # "down"
           /\ pc' \in {"fetch", "publish"} => ttl' + elapsed' > MaxFetch
           /\ pc' = "wait" => ttl' > MaxFetch + UntilTick'
  BY DEF Budget
<1>0. /\ pc \in {"down", "fetch", "publish", "wait"} /\ missed \in 0 .. 2
      /\ elapsed \in 0 .. MaxFetch /\ timer \in 1 .. Interval /\ ttl \in 0 .. Lifetime
      /\ pc \in {"down", "wait"} => elapsed = 0
  BY DEF TypeInv
<1>a. UntilTick \in 0 .. Interval /\ UntilTick' \in 0 .. Interval
  <2>1. (TypeInv => UntilTick \in 0 .. Interval)'
    BY UntilTickType, PTL
  <2> QED
    BY <2>1, UntilTickType
<1>b. UNCHANGED ticker => UntilTick' = UntilTick
  BY DEF UntilTick, ticker
<1> USE TimingAssumption DEF Budget
<1>1. CASE Start
  BY <1>1 DEF Start
<1>2. CASE FetchFirstPage \/ FetchNextPage \/ FetchHollowPage
  <2>1. /\ pc = "fetch" /\ pc' \in {"fetch", "publish"} /\ initial' = initial
        /\ ttl' = ttl /\ elapsed' = elapsed /\ missed' = missed
    BY <1>2 DEF FetchFirstPage, FetchNextPage, FetchHollowPage, entry
  <2> QED
    BY <1>0, <2>1
<1>3. CASE FetchFails \/ Crash
  <2>1. missed' = 2 \/ missed' = OneMore(missed)
    BY <1>3 DEF FetchFails, Crash
  <2> QED
    BY <1>0, <2>1 DEF OneMore
<1>4. CASE Publish
  <2>1. pc' = "wait" /\ initial' = FALSE
    BY <1>4 DEF Publish
  <2>2. ttl' = Lifetime
    BY <1>0, <1>4 DEF Publish, EntryDuration, OneMore
  <2>3. \A n \in 0 .. Interval : Lifetime > MaxFetch + n
    OBVIOUS
  <2> QED
    BY <1>a, <2>1, <2>2, <2>3
<1>5. CASE NextRefresh
  <2>1. /\ pc = "wait" /\ pc' = "fetch" /\ initial' = initial /\ elapsed' = elapsed
        /\ ttl' = ttl /\ missed' = missed
    BY <1>5 DEF NextRefresh, refresh, entry
  <2> QED
    BY <1>0, <1>a, <2>1
<1>6. CASE \E a \in Auction : List(a) \/ End(a)
  <2>1. /\ pc' = pc /\ initial' = initial /\ elapsed' = elapsed /\ UNCHANGED ticker
        /\ ttl' = ttl /\ missed' = missed
    BY <1>6 DEF List, End, refresh, entry
  <2> QED
    BY <1>b, <2>1
<1>7. CASE Tick
  <2>1. /\ pc' = pc /\ initial' = initial /\ missed' = missed
        /\ ttl' = IF ttl = 0 THEN 0 ELSE ttl - 1
        /\ elapsed' = IF pc \in {"fetch", "publish"} THEN elapsed + 1 ELSE elapsed
        /\ pc \in {"fetch", "publish"} => elapsed < MaxFetch
    BY <1>7 DEF Tick
  <2>2. CASE pc \in {"fetch", "publish"}
    BY <1>0, <2>1, <2>2
  <2>3. CASE pc = "wait"
    <3>1. buffered = FALSE /\ UntilTick = timer
      BY <1>7, <2>3, Zenon DEF Tick, UntilTick, TypeInv, Flags
    <3>2. UntilTick' = timer - 1
      <4>1. CASE timer = 1
        <5>1. UntilTick' = 0
          BY <1>7, <2>1, <2>3, <4>1, Zenon DEF Tick, UntilTick
        <5> QED
          BY <4>1, <5>1
      <4>2. CASE timer # 1
        BY <1>7, <2>1, <2>3, <3>1, <4>2, Zenon DEF Tick, UntilTick
      <4> QED
        BY <4>1, <4>2
    <3> QED
      BY <1>0, <2>1, <2>3, <3>1, <3>2
  <2> QED
    BY <1>0, <2>1, <2>2, <2>3
<1>8. CASE UNCHANGED vars
  BY <1>8, <1>b DEF vars, refresh, entry
<1> QED
  BY <1>1, <1>2, <1>3, <1>4, <1>5, <1>6, <1>7, <1>8 DEF Next

\* NoGap: if a refresh takes less than what the lifetime of an entry leaves of the
\* interval, GET /auctions always finds one, as long as no refresh is missed.
THEOREM NeverAGap ==
  ASSUME Interval + MaxFetch < Lifetime
  PROVE  Spec => []NoGap
<1>1. Init => Budget
  BY DEF Init, Budget
<1>2. TypeInv /\ TypeInv' /\ Budget /\ [Next]_vars => Budget'
  BY BudgetStep
<1>3. TypeInv /\ Budget => NoGap
  <2> SUFFICES ASSUME TypeInv, Budget, missed = 0 PROVE ttl > 0
    BY DEF NoGap, Served
  <2> QED
    BY UntilTickType, TimingAssumption DEF TypeInv, Budget
<1> QED
  BY <1>1, <1>2, <1>3, TypeHolds, PTL DEF Spec

-----------------------------------------------------------------------------
\* Where a price comes from.

\* What a refresh collected was listed since it read its first page, and a refresh
\* that has read none has collected nothing.
Provenance ==
  /\ page = 0 => auctions = Nothing
  /\ Changing => Listed \subseteq offered
  /\ \A a \in Auction : auctions[a] > 0 => a \in offered

\* A page only counts auctions that are listed.
LEMMA AddCounts ==
  ASSUME NEW collected \in [Auction -> Nat], NEW n, NEW a \in Auction
  PROVE  /\ Add(collected, n)[a] = IF a \in OnPage(n) THEN collected[a] + 1 ELSE collected[a]
         /\ OnPage(n) \subseteq Listed
BY DEF Add, OnPage, Listed

LEMMA ProvenanceStep ==
  ASSUME TypeInv, TypeInv', Provenance, [Next]_vars
  PROVE  Provenance'
<1>0. auctions \in [Auction -> Nat] /\ Distinct
  BY DEF TypeInv
<1>a. UNCHANGED listing => Listed' = Listed
  BY DEF Listed
<1>b. auctions' = Nothing => \A a \in Auction : ~(auctions'[a] > 0)
  BY NothingType
<1> USE DEF Provenance, Changing, refresh, history
<1>1. CASE Start \/ NextRefresh
  <2>1. page = 0 /\ UNCHANGED <<page, auctions, offered>>
    BY <1>1 DEF Start, NextRefresh, TypeInv
  <2> QED
    BY <2>1
<1>2. CASE FetchFirstPage
  <2>1. /\ page' = 1 /\ offered' = Listed /\ Listed' = Listed
        /\ auctions' = Add(auctions, 0) /\ auctions = Nothing
    BY <1>2, <1>a DEF FetchFirstPage
  <2>2. ASSUME NEW a \in Auction, auctions'[a] > 0 PROVE a \in offered'
    BY <1>0, <2>1, <2>2, AddCounts, NothingType
  <2> QED
    BY <2>1, <2>2
<1>3. CASE FetchNextPage
  <2>1. /\ page' = page + 1 /\ offered' = offered /\ Listed' = Listed
        /\ auctions' = Add(auctions, page) /\ Changing
    BY <1>3, <1>a DEF FetchNextPage
  <2>2. ASSUME NEW a \in Auction, auctions'[a] > 0 PROVE a \in offered'
    BY <1>0, <2>1, <2>2, AddCounts
  <2>3. page' # 0
    BY <2>1 DEF TypeInv
  <2> QED
    BY <2>1, <2>2, <2>3
<1>4. CASE FetchFails \/ Crash \/ Publish
  <2>1. page' = 0 /\ auctions' = Nothing
    BY <1>4 DEF FetchFails, Crash, Publish, EndFetch, Collector
  <2> QED
    BY <1>b, <2>1
<1>5. ASSUME NEW a \in Auction, List(a) PROVE Provenance'
  <2>1. /\ pc' = pc /\ page' = page /\ auctions' = auctions
        /\ offered' = IF Changing THEN offered \cup {a} ELSE offered
    BY <1>5 DEF List
  <2>2. Listed' \subseteq Listed \cup {a}
    <3>1. PICK n \in 0 .. Len(listing) :
            /\ Len(listing') = Len(listing) + 1
            /\ \A i \in 1 .. Len(listing) + 1 :
                 listing'[i] = IF i <= n THEN listing[i]
                               ELSE IF i = n + 1 THEN a ELSE listing[i - 1]
      BY <1>0, <1>5, ListMoves
    <3>2. DOMAIN listing = 1 .. Len(listing) /\ Len(listing) \in Nat
      BY <1>0, ListedType
    <3>3. DOMAIN listing' = 1 .. Len(listing) + 1
      BY <3>1 DEF TypeInv, Distinct
    <3> QED
      BY <3>1, <3>2, <3>3 DEF Listed
  <2> QED
    BY <2>1, <2>2
<1>6. ASSUME NEW a \in Auction, End(a) PROVE Provenance'
  <2>1. /\ pc' = pc /\ page' = page /\ auctions' = auctions /\ offered' = offered
    BY <1>6 DEF End
  <2>2. Listed' \subseteq Listed
    <3>1. PICK n \in 1 .. Len(listing) :
            /\ Len(listing') = Len(listing) - 1
            /\ \A i \in 1 .. Len(listing) - 1 :
                 listing'[i] = IF i < n THEN listing[i] ELSE listing[i + 1]
      BY <1>0, <1>6, EndMoves
    <3>2. DOMAIN listing = 1 .. Len(listing) /\ Len(listing) \in Nat
      BY <1>0, ListedType
    <3>3. DOMAIN listing' = 1 .. Len(listing) - 1
      BY <3>1 DEF TypeInv, Distinct
    <3>4. ASSUME NEW i \in 1 .. Len(listing) - 1 PROVE listing'[i] \in Listed
      <4>1. i \in DOMAIN listing /\ i + 1 \in DOMAIN listing
        BY <3>2
      <4> QED
        BY <3>1, <4>1 DEF Listed
    <3> QED
      BY <3>3, <3>4 DEF Listed
  <2> QED
    BY <2>1, <2>2
<1>7. CASE Tick
  BY <1>7, <1>a DEF Tick
<1>8. CASE UNCHANGED vars
  BY <1>8, <1>a DEF vars
<1>9. CASE FetchHollowPage
  <2>1. Listed' = Listed /\ auctions' = auctions
    BY <1>9, <1>a DEF FetchHollowPage
  <2>2. CASE page = 0
    <3>1. auctions' = Nothing /\ pc' = "publish"
      BY <1>9, <2>1, <2>2 DEF FetchHollowPage, TypeInv
    <3>2. page' # 0
      BY <1>9, <2>2 DEF FetchHollowPage
    <3> QED
      BY <1>b, <3>1, <3>2
  <2>3. CASE page > 0
    <3>1. offered' = offered /\ page' = page + 1 /\ Changing
      BY <1>9, <2>3 DEF FetchHollowPage, TypeInv
    <3>2. page' # 0
      BY <3>1 DEF TypeInv
    <3> QED
      BY <2>1, <3>1, <3>2
  <2> QED
    BY <2>2, <2>3 DEF TypeInv
<1> QED
  BY <1>1, <1>2, <1>3, <1>4, <1>5, <1>6, <1>7, <1>8, <1>9 DEF Next

\* PublishesOnlyOffered: a published price comes from an auction that was listed
\* during the refresh that published it.
THEOREM PricesAreOfThisRefresh == Spec => PublishesOnlyOffered
<1>1. Init => Provenance
  BY NothingType DEF Init, Provenance, Changing
<1>2. TypeInv /\ TypeInv' /\ Provenance /\ [Next]_vars => Provenance'
  BY ProvenanceStep
<1>3. ASSUME Provenance, [Next]_vars
      PROVE  [published' # published => \A a \in Auction : published'[a] > 0 => a \in offered]_vars
  <2> SUFFICES ASSUME published' # published, NEW a \in Auction, published'[a] > 0
      PROVE  a \in offered
    OBVIOUS
  <2>1. published' = auctions \/ published' = Nothing
    <3>1. CASE Publish
      BY <3>1 DEF Publish, entry
    <3>2. CASE Tick
      BY <3>2 DEF Tick
    <3>3. CASE \/ Start \/ FetchFirstPage \/ FetchNextPage \/ FetchHollowPage
               \/ FetchFails \/ NextRefresh \/ Crash
      BY <3>3 DEF Start, FetchFirstPage, FetchNextPage, FetchHollowPage, FetchFails,
                  NextRefresh, Crash, entry
    <3>4. CASE \E b \in Auction : List(b) \/ End(b)
      BY <3>4 DEF List, End, entry
    <3>5. CASE UNCHANGED vars
      BY <3>5 DEF vars, entry
    <3> QED
      BY <1>3, <3>1, <3>2, <3>3, <3>4, <3>5 DEF Next
  <2> QED
    BY <1>3, <2>1, NothingType DEF Provenance
<1> QED
  BY <1>1, <1>2, <1>3, TypeHolds, PTL DEF Spec, PublishesOnlyOffered

-----------------------------------------------------------------------------
\* What a list that moves while it is read costs.

\* Positions the refresh has read, and those it is going to read at all.
Passed == page * PageSize
Final == totalPages * PageSize

\* The refresh has not come to a yet.
Ahead(a) == \E i \in 1 .. Len(listing) : listing[i] = a /\ i > Passed

\* Auctions that stay but that the refresh has missed or is not going to reach.
Lost ==
  {a \in stayed \ Collected :
     \E i \in 1 .. Len(listing) : listing[i] = a /\ (i <= Passed \/ i > Final)}

\* Auctions counted twice, or counted and still to come.
Again == {a \in Auction : auctions[a] > 1 \/ (auctions[a] > 0 /\ Ahead(a))}

\* Each change of the listing costs one auction at most.
Cost ==
  /\ stayed \subseteq Listed
  /\ Cardinality(Lost) <= changes
  /\ Cardinality(Again) <= changes
  /\ \A a \in Auction : auctions[a] <= changes + (IF Ahead(a) THEN 0 ELSE 1)

\* The inductive invariant: the bound holds while pages are read, and what it says
\* of a refresh that has read them all.
Drift == (Changing => Cost) /\ DriftBounded

\* Whoever is among some auctions and one more is one more at most.
LEMMA AtMostOneMore ==
  ASSUME NEW S \in SUBSET Auction, NEW T, NEW x, T \subseteq S \cup {x}
  PROVE  /\ Cardinality(S) \in Nat /\ Cardinality(T) \in Nat
         /\ Cardinality(T) <= Cardinality(S) + 1
<1>1. IsFiniteSet(S)
  BY PagingAssumption, FS_Subset
<1>2. /\ IsFiniteSet(S \cup {x})
      /\ Cardinality(S \cup {x}) = Cardinality(S) \/ Cardinality(S \cup {x}) = Cardinality(S) + 1
  BY <1>1, FS_AddElement
<1>3. Cardinality(S) \in Nat /\ Cardinality(S \cup {x}) \in Nat
  BY <1>1, <1>2, FS_CardinalityType
<1>4. IsFiniteSet(T) /\ Cardinality(T) <= Cardinality(S \cup {x})
  BY <1>2, FS_Subset
<1>5. Cardinality(T) \in Nat
  BY <1>4, FS_CardinalityType
<1> QED
  BY <1>2, <1>3, <1>4, <1>5

\* Whoever is among some auctions is no more than those.
LEMMA NoMore ==
  ASSUME NEW S \in SUBSET Auction, NEW T, T \subseteq S
  PROVE  /\ Cardinality(S) \in Nat /\ Cardinality(T) \in Nat
         /\ Cardinality(T) <= Cardinality(S)
<1>1. IsFiniteSet(S) /\ IsFiniteSet(T)
  BY PagingAssumption, FS_Subset
<1> QED
  BY <1>1, FS_Subset, FS_CardinalityType

\* Both sets are sets of auctions.
LEMMA LostAgain ==
  ASSUME TypeInv
  PROVE  Lost \in SUBSET Auction /\ Again \in SUBSET Auction
BY DEF TypeInv, Lost, Again

\* The auction at a position is on the page of that position and on no other.
LEMMA OnPagePlace ==
  ASSUME Distinct, NEW n \in Nat, NEW i \in 1 .. Len(listing)
  PROVE  listing[i] \in OnPage(n) <=> n * PageSize < i /\ i <= n * PageSize + PageSize
<1>1. Len(listing) \in Nat /\ DOMAIN listing = 1 .. Len(listing)
  BY ListedType
<1>2. listing[i] \in OnPage(n) <=> (i - 1) \div PageSize = n
  BY <1>1 DEF Distinct, OnPage
<1>3. i \in Nat \ {0}
  BY <1>1
<1> QED
  BY <1>2, <1>3, PagePosition

\* How far a refresh is, and how far it is going, are positions.
LEMMA PositionType ==
  ASSUME TypeInv
  PROVE  /\ Distinct /\ Len(listing) \in Nat /\ DOMAIN listing = 1 .. Len(listing)
         /\ Passed \in Nat /\ Final \in Nat
<1>1. Distinct /\ page \in Nat /\ totalPages \in 0 .. Cardinality(Auction)
  BY DEF TypeInv
<1>2. Len(listing) \in Nat /\ DOMAIN listing = 1 .. Len(listing) /\ Cardinality(Auction) \in Nat
  BY <1>1, ListedType
<1>3. totalPages \in Nat
  BY <1>1, <1>2
<1> QED
  BY <1>1, <1>2, <1>3, PagesGrow DEF Passed, Final

\* A refresh that has read all its pages has nothing ahead of it.
LEMMA CostAtTheEnd == TypeInv /\ Cost /\ page >= totalPages => DriftBounded
<1> SUFFICES ASSUME TypeInv, Cost, page >= totalPages
    PROVE  /\ Cardinality(stayed \ Collected) <= changes
           /\ \A a \in Auction : auctions[a] <= 1 + changes
           /\ Cardinality({a \in Auction : auctions[a] > 1}) <= changes
  BY DEF DriftBounded
<1>0. Distinct /\ page \in Nat /\ totalPages \in Nat /\ changes \in Nat /\ auctions \in [Auction -> Nat]
  BY LimitAssumption, ListedType DEF TypeInv
<1>1. Passed \in Nat /\ Final \in Nat /\ Final <= Passed
  <2>1. page = totalPages \/ totalPages < page
    BY <1>0
  <2> QED
    BY <1>0, <2>1, PagesGrow, PagingAssumption DEF Passed, Final
<1>2. stayed \ Collected \subseteq Lost
  <2> SUFFICES ASSUME NEW a \in stayed \ Collected PROVE a \in Lost
    OBVIOUS
  <2>1. PICK i \in 1 .. Len(listing) : listing[i] = a
    BY <1>0, ListedType DEF Cost, Listed
  <2>2. i <= Passed \/ i > Final
    BY <1>0, <1>1, ListedType
  <2> QED
    BY <2>1, <2>2 DEF Lost
<1>3. {a \in Auction : auctions[a] > 1} \subseteq Again
  BY DEF Again
<1>4. \A a \in Auction : auctions[a] <= 1 + changes
  BY <1>0 DEF Cost
<1>5. Cardinality(stayed \ Collected) <= changes
  BY <1>0, <1>2, LostAgain, NoMore DEF Cost
<1>6. Cardinality({a \in Auction : auctions[a] > 1}) <= changes
  BY <1>0, <1>3, LostAgain, NoMore DEF Cost
<1> QED
  BY <1>4, <1>5, <1>6

\* The first page starts without cost.
LEMMA FirstPageCost ==
  ASSUME TypeInv, TypeInv', Provenance, FetchFirstPage
  PROVE  Cost'
<1>1. /\ auctions = Nothing /\ auctions' = Add(auctions, 0) /\ page' = 1
      /\ totalPages' = Pages /\ stayed' = Listed /\ changes' = 0
      /\ listing' = listing /\ Listed' = Listed
  BY DEF FetchFirstPage, Provenance, Listed
<1>2. /\ Distinct /\ Len(listing) \in Nat /\ auctions \in [Auction -> Nat]
      /\ Listed \subseteq Auction
  BY ListedType DEF TypeInv
<1>3. Passed' = PageSize /\ Final' \in Nat /\ Len(listing) <= Final'
  <2>1. Pages \in Nat /\ Len(listing) <= Pages * PageSize
    BY <1>2, PagesSuffice DEF Pages
  <2> QED
    BY <1>1, <2>1, PagingAssumption, PagesGrow DEF Passed, Final
<1>4. ASSUME NEW i \in 1 .. Len(listing)
      PROVE  listing[i] \in OnPage(0) <=> i <= PageSize
  BY <1>2, OnPagePlace, PagingAssumption
<1>5. \A a \in Auction : auctions'[a] = IF a \in OnPage(0) THEN 1 ELSE 0
  BY <1>1, <1>2, AddCounts, NothingType
<1>6. ASSUME NEW a \in Auction, Ahead(a)' PROVE auctions'[a] = 0
  <2>1. PICK i \in 1 .. Len(listing) : listing[i] = a /\ i > PageSize
    BY <1>1, <1>3, <1>6 DEF Ahead
  <2>2. a \notin OnPage(0)
    BY <1>2, <1>4, <2>1, PagingAssumption
  <2> QED
    BY <1>5, <2>2
<1>7. Lost' = {}
  <2> SUFFICES ASSUME NEW a \in Lost' PROVE FALSE
    OBVIOUS
  <2>1. PICK i \in 1 .. Len(listing) : listing[i] = a /\ (i <= PageSize \/ i > Final')
    BY <1>1, <1>3 DEF Lost
  <2>2. i <= PageSize
    BY <1>2, <1>3, <2>1
  <2>3. a \in Auction /\ auctions'[a] = 1
    BY <1>2, <1>4, <1>5, <2>1, <2>2 DEF Distinct
  <2> QED
    BY <2>3 DEF Lost, Collected
<1>8. Again' = {}
  BY <1>5, <1>6 DEF Again
<1>9. \A a \in Auction : auctions'[a] <= changes' + (IF Ahead(a)' THEN 0 ELSE 1)
  BY <1>1, <1>5, <1>6
<1> QED
  BY <1>1, <1>7, <1>8, <1>9, FS_EmptySet DEF Cost

\* A further page adds no cost: whoever it misses was missed already, and whoever it
\* counts again was counted and still to come.
LEMMA NextPageCost ==
  ASSUME TypeInv, TypeInv', Cost, FetchNextPage
  PROVE  Cost'
<1>1. /\ auctions' = Add(auctions, page) /\ page' = page + 1
      /\ totalPages' = totalPages /\ stayed' = stayed /\ changes' = changes
      /\ listing' = listing /\ Listed' = Listed /\ Final' = Final
  BY DEF FetchNextPage, Listed, Final, history
<1>2. /\ Distinct /\ Len(listing) \in Nat /\ auctions \in [Auction -> Nat]
      /\ page \in Nat /\ changes \in Nat /\ stayed \subseteq Auction
  <2>1. Distinct /\ Len(listing) \in Nat
    BY PositionType
  <2>2. auctions \in [Auction -> Nat] /\ page \in Nat /\ stayed \subseteq Auction
    BY DEF TypeInv
  <2>3. changes \in Nat
    BY LimitAssumption DEF TypeInv
  <2> QED
    BY <2>1, <2>2, <2>3
<1>3. Passed \in Nat /\ Passed' = Passed + PageSize /\ PageSize \in Nat \ {0}
  BY <1>1, <1>2, PagesGrow, PagingAssumption DEF Passed
<1>4. ASSUME NEW i \in 1 .. Len(listing)
      PROVE  listing[i] \in OnPage(page) <=> Passed < i /\ i <= Passed'
  BY <1>2, <1>3, OnPagePlace DEF Passed
<1>5. \A a \in Auction :
        auctions'[a] = IF a \in OnPage(page) THEN auctions[a] + 1 ELSE auctions[a]
  BY <1>1, <1>2, AddCounts
<1>6. ASSUME NEW a \in Auction, Ahead(a)' PROVE Ahead(a) /\ auctions'[a] = auctions[a]
  <2>1. PICK i \in 1 .. Len(listing) : listing[i] = a /\ i > Passed'
    BY <1>1, <1>6 DEF Ahead
  <2>2. i > Passed /\ ~(i <= Passed')
    BY <1>2, <1>3, <2>1
  <2>3. a \notin OnPage(page)
    BY <1>4, <2>1, <2>2
  <2> QED
    BY <1>5, <2>1, <2>2, <2>3 DEF Ahead
<1>7. ASSUME NEW a \in Auction, a \in OnPage(page) PROVE Ahead(a) /\ ~Ahead(a)'
  <2>1. PICK i \in 1 .. Len(listing) : listing[i] = a
    BY <1>2, <1>7, ListedType DEF OnPage
  <2>2. Ahead(a)
    BY <1>4, <1>7, <2>1 DEF Ahead
  <2>3. auctions'[a] # auctions[a]
    BY <1>2, <1>5, <1>7
  <2> QED
    BY <1>6, <2>2, <2>3
<1>8. Lost' \subseteq Lost
  <2> SUFFICES ASSUME NEW a \in Lost' PROVE a \in Lost
    OBVIOUS
  <2>1. PICK i \in 1 .. Len(listing) : listing[i] = a /\ (i <= Passed' \/ i > Final)
    BY <1>1 DEF Lost
  <2>2. a \in stayed /\ a \in Auction /\ ~(auctions'[a] > 0)
    BY <1>1, <1>2 DEF Lost, Collected
  <2>3. a \notin OnPage(page) /\ ~(auctions[a] > 0)
    BY <1>2, <1>5, <2>2
  <2>4. i <= Passed \/ i > Final
    BY <1>2, <1>3, <1>4, <2>1, <2>3
  <2> QED
    BY <2>1, <2>2, <2>3, <2>4 DEF Lost, Collected
<1>9. Again' \subseteq Again
  <2> SUFFICES ASSUME NEW a \in Again' PROVE a \in Again
    OBVIOUS
  <2>1. a \in Auction /\ (auctions'[a] > 1 \/ (auctions'[a] > 0 /\ Ahead(a)'))
    BY DEF Again
  <2>2. CASE a \in OnPage(page)
    BY <1>2, <1>5, <1>7, <2>1, <2>2 DEF Again
  <2>3. CASE a \notin OnPage(page)
    BY <1>5, <1>6, <2>1, <2>3 DEF Again
  <2> QED
    BY <2>2, <2>3
<1>10. ASSUME NEW a \in Auction
       PROVE  auctions'[a] <= changes' + (IF Ahead(a)' THEN 0 ELSE 1)
  <2>1. auctions[a] \in Nat /\ auctions[a] <= changes + (IF Ahead(a) THEN 0 ELSE 1)
    BY <1>2 DEF Cost
  <2>2. CASE a \in OnPage(page)
    BY <1>1, <1>2, <1>5, <1>7, <2>1, <2>2
  <2>3. CASE a \notin OnPage(page)
    BY <1>1, <1>2, <1>5, <1>6, <2>1, <2>3
  <2> QED
    BY <2>2, <2>3
<1>11. Cardinality(Lost') <= changes' /\ Cardinality(Again') <= changes'
  <2>1. Cardinality(Lost') <= Cardinality(Lost) /\ Cardinality(Lost) \in Nat /\ Cardinality(Lost') \in Nat
    BY <1>8, LostAgain, NoMore
  <2>2. Cardinality(Again') <= Cardinality(Again) /\ Cardinality(Again) \in Nat /\ Cardinality(Again') \in Nat
    BY <1>9, LostAgain, NoMore
  <2> QED
    BY <1>1, <1>2, <2>1, <2>2 DEF Cost
<1> QED
  BY <1>1, <1>10, <1>11 DEF Cost

\* A page that came without auctions adds no cost either: what was on it no longer
\* counts as there all the time.
LEMMA HollowPageCost ==
  ASSUME TypeInv, TypeInv', Cost, FetchHollowPage, page > 0
  PROVE  Cost'
<1>1. /\ auctions' = auctions /\ page' = page + 1
      /\ totalPages' = totalPages /\ stayed' = stayed \ OnPage(page) /\ changes' = changes
      /\ listing' = listing /\ Listed' = Listed /\ Final' = Final /\ Collected' = Collected
  BY DEF FetchHollowPage, Listed, Final, Collected, TypeInv
<1>2. /\ Distinct /\ Len(listing) \in Nat /\ auctions \in [Auction -> Nat]
      /\ page \in Nat /\ changes \in Nat
  BY PositionType, LimitAssumption DEF TypeInv
<1>3. Passed \in Nat /\ Passed' = Passed + PageSize /\ PageSize \in Nat \ {0}
  BY <1>1, <1>2, PagesGrow, PagingAssumption DEF Passed
<1>4. ASSUME NEW i \in 1 .. Len(listing)
      PROVE  listing[i] \in OnPage(page) <=> Passed < i /\ i <= Passed'
  BY <1>2, <1>3, OnPagePlace DEF Passed
<1>5. ASSUME NEW a \in Auction, Ahead(a)' PROVE Ahead(a)
  <2>1. PICK i \in 1 .. Len(listing) : listing[i] = a /\ i > Passed'
    BY <1>1, <1>5 DEF Ahead
  <2> QED
    BY <1>2, <1>3, <2>1 DEF Ahead
<1>6. Lost' \subseteq Lost
  <2> SUFFICES ASSUME NEW a \in Lost' PROVE a \in Lost
    OBVIOUS
  <2>1. PICK i \in 1 .. Len(listing) : listing[i] = a /\ (i <= Passed' \/ i > Final)
    BY <1>1 DEF Lost
  <2>2. a \in stayed \ Collected /\ a \notin OnPage(page)
    BY <1>1 DEF Lost
  <2>3. i <= Passed \/ i > Final
    BY <1>2, <1>3, <1>4, <2>1, <2>2
  <2> QED
    BY <2>1, <2>2, <2>3 DEF Lost
<1>7. Again' \subseteq Again
  BY <1>1, <1>5 DEF Again
<1>8. ASSUME NEW a \in Auction
      PROVE  auctions'[a] <= changes' + (IF Ahead(a)' THEN 0 ELSE 1)
  BY <1>1, <1>2, <1>5 DEF Cost
<1>9. Cardinality(Lost') <= changes' /\ Cardinality(Again') <= changes'
  <2>1. Cardinality(Lost') <= Cardinality(Lost) /\ Cardinality(Lost) \in Nat /\ Cardinality(Lost') \in Nat
    BY <1>6, LostAgain, NoMore
  <2>2. Cardinality(Again') <= Cardinality(Again) /\ Cardinality(Again) \in Nat /\ Cardinality(Again') \in Nat
    BY <1>7, LostAgain, NoMore
  <2> QED
    BY <1>1, <1>2, <2>1, <2>2 DEF Cost
<1> QED
  BY <1>1, <1>8, <1>9 DEF Cost

\* One change more pays for one auction more.
LEMMA ChangePays ==
  ASSUME TypeInv, TypeInv', Cost, NEW x, NEW y,
         changes' = changes + 1, auctions' = auctions, stayed' \subseteq Listed',
         Lost' \subseteq Lost \cup {x}, Again' \subseteq Again \cup {y}
  PROVE  Cost'
<1>1. changes \in Nat /\ auctions \in [Auction -> Nat]
  BY LimitAssumption DEF TypeInv
<1>2. /\ Cardinality(Lost) \in Nat /\ Cardinality(Lost') \in Nat
      /\ Cardinality(Lost') <= Cardinality(Lost) + 1
  BY LostAgain, AtMostOneMore
<1>3. /\ Cardinality(Again) \in Nat /\ Cardinality(Again') \in Nat
      /\ Cardinality(Again') <= Cardinality(Again) + 1
  BY LostAgain, AtMostOneMore
<1>4. ASSUME NEW a \in Auction
      PROVE  auctions'[a] <= changes' + (IF Ahead(a)' THEN 0 ELSE 1)
  BY <1>1 DEF Cost
<1>5. Cardinality(Lost') <= changes' /\ Cardinality(Again') <= changes'
  BY <1>1, <1>2, <1>3 DEF Cost
<1> QED
  BY <1>4, <1>5 DEF Cost

\* An auction that appears pushes one auction over the edge of what was read, or is
\* itself before it, and one over the end of what is going to be read.
LEMMA ListCost ==
  ASSUME TypeInv, TypeInv', Cost, Changing, NEW a \in Auction, List(a)
  PROVE  Cost'
<1>1. /\ changes' = changes + 1 /\ auctions' = auctions /\ stayed' = stayed
      /\ a \notin Listed /\ Passed' = Passed /\ Final' = Final
  BY DEF List, Changes, refresh, Passed, Final
<1>2. /\ Distinct /\ Len(listing) \in Nat /\ DOMAIN listing = 1 .. Len(listing)
      /\ Passed \in Nat /\ Final \in Nat
  BY PositionType
<1>3. PICK n \in 0 .. Len(listing) :
        /\ Len(listing') = Len(listing) + 1
        /\ \A i \in 1 .. Len(listing) + 1 :
             listing'[i] = IF i <= n THEN listing[i]
                           ELSE IF i = n + 1 THEN a ELSE listing[i - 1]
  BY <1>2, ListMoves
<1>4. DOMAIN listing' = 1 .. Len(listing')
  BY DEF TypeInv, Distinct
\* Where an auction at position j of the new list was before.
<1>5. ASSUME NEW j \in 1 .. Len(listing'), listing'[j] # a
      PROVE  \E i \in 1 .. Len(listing) :
               listing[i] = listing'[j] /\ (i = j \/ i + 1 = j)
  <2>1. CASE j <= n
    BY <1>2, <1>3, <2>1
  <2>2. CASE j > n
    <3>1. j - 1 \in 1 .. Len(listing) /\ listing'[j] = listing[j - 1]
      BY <1>2, <1>3, <1>5, <2>2
    <3> QED
      BY <1>2, <1>3, <3>1
  <2> QED
    BY <1>2, <1>3, <2>1, <2>2
<1>6. stayed' \subseteq Listed'
  <2> SUFFICES ASSUME NEW b \in stayed PROVE b \in Listed'
    BY <1>1
  <2>1. PICK i \in 1 .. Len(listing) : listing[i] = b
    BY <1>2 DEF Cost, Listed
  <2>2. \E j \in 1 .. Len(listing') : listing'[j] = b
    <3>1. CASE i <= n
      BY <1>2, <1>3, <2>1, <3>1
    <3>2. CASE i > n
      <4>1. i + 1 \in 1 .. Len(listing) + 1 /\ listing'[i + 1] = listing[i]
        BY <1>2, <1>3, <3>2
      <4> QED
        BY <1>3, <2>1, <4>1
    <3> QED
      BY <1>2, <1>3, <3>1, <3>2
  <2> QED
    BY <1>4, <2>2 DEF Listed
<1>7. Lost' \subseteq Lost \cup {listing[Final]}
  <2> SUFFICES ASSUME NEW b \in Lost', b # listing[Final] PROVE b \in Lost
    OBVIOUS
  <2>1. PICK j \in 1 .. Len(listing') : listing'[j] = b /\ (j <= Passed \/ j > Final)
    BY <1>1 DEF Lost
  <2>2. b \in stayed \ Collected
    BY <1>1 DEF Lost, Collected
  <2>3. b # a
    BY <1>1, <2>2 DEF Cost
  <2>4. PICK i \in 1 .. Len(listing) : listing[i] = b /\ (i = j \/ i + 1 = j)
    BY <1>5, <2>1, <2>3
  <2>5. i # Final
    BY <2>4
  <2>6. i <= Passed \/ i > Final
    BY <1>2, <1>3, <2>1, <2>4, <2>5
  <2> QED
    BY <2>2, <2>4, <2>6 DEF Lost
<1> DEFINE pushed == IF n < Passed THEN listing[Passed] ELSE a
<1>8. Again' \subseteq Again \cup {pushed}
  <2> SUFFICES ASSUME NEW b \in Again', b # pushed PROVE b \in Again
    OBVIOUS
  <2>1. b \in Auction /\ (auctions[b] > 1 \/ (auctions[b] > 0 /\ Ahead(b)'))
    BY <1>1 DEF Again
  <2>2. CASE auctions[b] > 1
    BY <2>1, <2>2 DEF Again
  <2>3. CASE auctions[b] > 0 /\ Ahead(b)'
    <3>1. PICK j \in 1 .. Len(listing') : listing'[j] = b /\ j > Passed
      BY <1>1, <2>3 DEF Ahead
    <3>2. Ahead(b)
      <4>1. CASE b = a
        <5>1. n < Passed
          BY <4>1
        <5>2. j = n + 1
          <6>1. n + 1 \in 1 .. Len(listing') /\ listing'[n + 1] = a
            BY <1>2, <1>3
          <6> QED
            BY <3>1, <4>1, <6>1 DEF TypeInv, Distinct
        <5> QED
          BY <1>2, <3>1, <5>1, <5>2
      <4>2. CASE b # a
        <5>1. PICK i \in 1 .. Len(listing) : listing[i] = b /\ (i = j \/ i + 1 = j)
          BY <1>5, <3>1, <4>2
        <5>2. i # Passed
          <6> SUFFICES ASSUME i = Passed PROVE FALSE
            OBVIOUS
          <6>1. j = i + 1
            BY <1>2, <1>3, <3>1, <5>1
          <6>2. ~(j <= n)
            <7> SUFFICES ASSUME j <= n PROVE FALSE
              OBVIOUS
            <7>1. listing[j] = b /\ j \in 1 .. Len(listing)
              BY <1>2, <1>3, <3>1
            <7>2. j = i
              BY <1>2, <5>1, <7>1 DEF Distinct
            <7> QED
              BY <1>2, <6>1, <7>2
          <6>3. j # n + 1
            BY <1>2, <1>3, <3>1, <4>2
          <6>4. n < Passed
            BY <1>2, <1>3, <6>1, <6>2, <6>3
          <6> QED
            BY <5>1, <6>4
        <5> QED
          BY <1>2, <1>3, <3>1, <5>1, <5>2 DEF Ahead
      <4> QED
        BY <4>1, <4>2
    <3> QED
      BY <2>1, <2>3, <3>2 DEF Again
  <2> QED
    BY <2>1, <2>2, <2>3
<1> HIDE DEF pushed
<1> QED
  BY <1>1, <1>6, <1>7, <1>8, ChangePays

\* An auction that ends pulls one auction past the page that would have had it.
LEMMA EndCost ==
  ASSUME TypeInv, TypeInv', Cost, Changing, NEW a \in Auction, End(a)
  PROVE  Cost'
<1>1. /\ changes' = changes + 1 /\ auctions' = auctions /\ stayed' = stayed \ {a}
      /\ Passed' = Passed /\ Final' = Final
  BY DEF End, Changes, refresh, Passed, Final
<1>2. /\ Distinct /\ Len(listing) \in Nat /\ DOMAIN listing = 1 .. Len(listing)
      /\ Passed \in Nat /\ Final \in Nat
  BY PositionType
<1>3. PICK n \in 1 .. Len(listing) :
        /\ listing[n] = a /\ Len(listing') = Len(listing) - 1
        /\ \A i \in 1 .. Len(listing) - 1 :
             listing'[i] = IF i < n THEN listing[i] ELSE listing[i + 1]
  BY <1>2, EndMoves
<1>4. DOMAIN listing' = 1 .. Len(listing')
  BY DEF TypeInv, Distinct
<1>5. ASSUME NEW j \in 1 .. Len(listing')
      PROVE  \E i \in 1 .. Len(listing) :
               listing[i] = listing'[j] /\ (i = j \/ i = j + 1)
  <2>1. CASE j < n
    BY <1>2, <1>3, <2>1
  <2>2. CASE j >= n
    BY <1>2, <1>3, <2>2
  <2> QED
    BY <1>2, <1>3, <2>1, <2>2
<1>6. stayed' \subseteq Listed'
  <2> SUFFICES ASSUME NEW b \in stayed \ {a} PROVE b \in Listed'
    BY <1>1
  <2>1. PICK i \in 1 .. Len(listing) : listing[i] = b /\ i # n
    BY <1>2, <1>3 DEF Cost, Listed
  <2>2. \E j \in 1 .. Len(listing') : listing'[j] = b
    <3>1. CASE i < n
      BY <1>2, <1>3, <2>1, <3>1
    <3>2. CASE i > n
      <4>1. i - 1 \in 1 .. Len(listing) - 1 /\ listing'[i - 1] = listing[i]
        BY <1>2, <1>3, <3>2
      <4> QED
        BY <1>3, <2>1, <4>1
    <3> QED
      BY <1>2, <1>3, <2>1, <3>1, <3>2
  <2> QED
    BY <1>4, <2>2 DEF Listed
<1>7. Lost' \subseteq Lost \cup {listing[Passed + 1]}
  <2> SUFFICES ASSUME NEW b \in Lost', b # listing[Passed + 1] PROVE b \in Lost
    OBVIOUS
  <2>1. PICK j \in 1 .. Len(listing') : listing'[j] = b /\ (j <= Passed \/ j > Final)
    BY <1>1 DEF Lost
  <2>2. b \in stayed \ Collected
    BY <1>1 DEF Lost, Collected
  <2>3. PICK i \in 1 .. Len(listing) : listing[i] = b /\ (i = j \/ i = j + 1)
    BY <1>5, <2>1
  <2>4. i # Passed + 1
    BY <2>3
  <2>5. i <= Passed \/ i > Final
    BY <1>2, <1>3, <2>1, <2>3, <2>4
  <2> QED
    BY <2>2, <2>3, <2>5 DEF Lost
<1>8. Again' \subseteq Again \cup {a}
  <2> SUFFICES ASSUME NEW b \in Again' PROVE b \in Again
    OBVIOUS
  <2>1. b \in Auction /\ (auctions[b] > 1 \/ (auctions[b] > 0 /\ Ahead(b)'))
    BY <1>1 DEF Again
  <2>2. CASE auctions[b] > 1
    BY <2>1, <2>2 DEF Again
  <2>3. CASE auctions[b] > 0 /\ Ahead(b)'
    <3>1. PICK j \in 1 .. Len(listing') : listing'[j] = b /\ j > Passed
      BY <1>1, <2>3 DEF Ahead
    <3>2. PICK i \in 1 .. Len(listing) : listing[i] = b /\ (i = j \/ i = j + 1)
      BY <1>5, <3>1
    <3>3. i > Passed
      BY <1>2, <1>3, <3>1, <3>2
    <3> QED
      BY <2>1, <2>3, <3>2, <3>3 DEF Again, Ahead
  <2> QED
    BY <2>1, <2>2, <2>3
<1> QED
  BY <1>1, <1>6, <1>7, <1>8, ChangePays

\* Every action keeps the bound.
LEMMA DriftStep ==
  ASSUME TypeInv, TypeInv', Provenance, Drift, [Next]_vars
  PROVE  Drift'
<1>0. (TypeInv /\ Cost /\ page >= totalPages => DriftBounded)'
  BY CostAtTheEnd, PTL
<1>1. CASE Start \/ NextRefresh
  <2>1. pc' = "fetch" /\ page' = 0
    BY <1>1 DEF Start, NextRefresh, TypeInv, refresh
  <2> QED
    BY <2>1 DEF Drift, Changing, DriftBounded
<1>2. CASE FetchFirstPage
  <2>1. Cost'
    BY <1>2, FirstPageCost
  <2>2. pc' = "publish" => page' >= totalPages'
    BY <1>2 DEF FetchFirstPage, LastPage
  <2>3. pc' = "publish" => DriftBounded'
    BY <1>0, <2>1, <2>2
  <2> QED
    BY <2>1, <2>3 DEF Drift, DriftBounded
<1>3. CASE FetchNextPage
  <2>1. Cost'
    BY <1>3, NextPageCost DEF Drift, Changing, FetchNextPage
  <2>2. pc' = "publish" => page' >= totalPages'
    BY <1>3 DEF FetchNextPage, LastPage
  <2>3. pc' = "publish" => DriftBounded'
    BY <1>0, <2>1, <2>2
  <2> QED
    BY <2>1, <2>3 DEF Drift, DriftBounded
<1>4. CASE FetchFails \/ Crash \/ Publish
  <2>1. pc' # "fetch" /\ pc' # "publish"
    BY <1>4 DEF FetchFails, Crash, Publish, AfterError
  <2> QED
    BY <2>1 DEF Drift, Changing, DriftBounded
<1>5. ASSUME NEW a \in Auction, List(a) \/ End(a) PROVE Drift'
  <2>1. pc' = pc /\ page' = page /\ auctions' = auctions /\ Collected' = Collected
    BY <1>5 DEF List, End, refresh, Collected
  <2>2. CASE Changing
    <3>1. Cost'
      BY <1>5, <2>2, ListCost, EndCost DEF Drift
    <3> QED
      BY <2>1, <2>2, <3>1 DEF Drift, Changing, DriftBounded
  <2>3. CASE ~Changing
    <3>1. changes' = changes /\ stayed' \subseteq stayed
      BY <1>5, <2>3 DEF List, End, Changes
    <3>2. changes \in Nat /\ stayed \subseteq Auction
      BY LimitAssumption DEF TypeInv
    <3>3. /\ Cardinality(stayed' \ Collected) <= Cardinality(stayed \ Collected)
          /\ Cardinality(stayed' \ Collected) \in Nat /\ Cardinality(stayed \ Collected) \in Nat
      <4>1. stayed \ Collected \in SUBSET Auction /\ stayed' \ Collected \subseteq stayed \ Collected
        BY <3>1, <3>2
      <4> QED
        BY <4>1, NoMore
    <3>4. DriftBounded'
      BY <2>1, <3>1, <3>2, <3>3 DEF Drift, DriftBounded
    <3> QED
      BY <2>1, <2>3, <3>4 DEF Drift, Changing
  <2> QED
    BY <2>2, <2>3
<1>6. CASE Tick \/ UNCHANGED vars
  <2>1. UNCHANGED <<listing, pc, page, totalPages, auctions, stayed, changes>>
    BY <1>6 DEF Tick, vars, refresh, history
  <2> QED
    BY <2>1 DEF Drift, Changing, Cost, DriftBounded, Lost, Again, Ahead, Collected, Listed, Passed, Final
<1>7. CASE FetchHollowPage
  <2>1. CASE page = 0
    <3>1. /\ pc' = "publish" /\ stayed' = {} /\ changes' = 0 /\ auctions' = Nothing
      BY <1>7, <2>1 DEF FetchHollowPage, Provenance, TypeInv
    <3>2. {} \ Collected' = {} /\ {a \in Auction : auctions'[a] > 1} = {}
      BY <3>1, NothingType
    <3>3. \A a \in Auction : auctions'[a] <= 1 + changes'
      BY <3>1, NothingType
    <3>4. DriftBounded'
      BY <3>1, <3>2, <3>3, FS_EmptySet DEF DriftBounded
    <3> QED
      BY <3>1, <3>4 DEF Drift, Changing
  <2>2. CASE page > 0
    <3>1. Cost'
      BY <1>7, <2>2, HollowPageCost DEF Drift, Changing, FetchHollowPage
    <3>2. pc' = "publish" => page' >= totalPages'
      BY <1>7, <2>2 DEF FetchHollowPage, LastPage, TypeInv
    <3>3. pc' = "publish" => DriftBounded'
      BY <1>0, <3>1, <3>2
    <3> QED
      BY <3>1, <3>3 DEF Drift, DriftBounded
  <2> QED
    BY <2>1, <2>2 DEF TypeInv
<1> QED
  BY <1>1, <1>2, <1>3, <1>4, <1>5, <1>6, <1>7 DEF Next

\* DriftBounded: what a refresh misses or counts twice because the listing moves while
\* it reads is bounded by how often it moved, leaving aside what was on pages that came
\* without auctions.
THEOREM DriftIsBounded == Spec => []DriftBounded
<1>1. Init => Drift
  BY DEF Init, Drift, Changing, DriftBounded
<1>2. Init => Provenance
  BY NothingType DEF Init, Provenance, Changing
<1>3. TypeInv /\ TypeInv' /\ Provenance /\ [Next]_vars => Provenance'
  BY ProvenanceStep
<1>4. TypeInv /\ TypeInv' /\ Provenance /\ Drift /\ [Next]_vars => Drift'
  BY DriftStep
<1>5. Drift => DriftBounded
  BY DEF Drift
<1> QED
  BY <1>1, <1>2, <1>3, <1>4, <1>5, TypeHolds, PTL DEF Spec
===============================================================================
