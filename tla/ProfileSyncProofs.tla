-------------------------- MODULE ProfileSyncProofs --------------------------
(***************************************************************************)
(* Proofs about ProfileSync, for any players, profiles, versions and       *)
(* concurrent requests: its type invariant, and that the chore never       *)
(* deletes data of a profile that everybody knows.                         *)
(***************************************************************************)
EXTENDS ProfileSync, TLAPS

\* What is proved of the table alone.
Table == INSTANCE SharedDataProofs

-----------------------------------------------------------------------------
\* The steps of the composition are steps of its parts.

\* A handler of the table is the same in both instances of SharedData.
LEMMA SameServe ==
  ASSUME NEW e \in Editor, Data!Serve(e)
  PROVE  Table!Serve(e)
BY DEF Data!Serve, Data!PutData, Data!Receive, Data!GetSharedData, Data!DeleteData,
       Data!RejectPut, Data!ExecAddData, Data!QuerySharedData, Data!ExecDelete, Data!Finish,
       Data!Upload, Data!Decoded, Data!Upserted, Data!DbKey, Data!Applied, Data!NoRow,
       Data!NoRows, Data!Column,
       Table!Serve, Table!PutData, Table!Receive, Table!GetSharedData, Table!DeleteData,
       Table!RejectPut, Table!ExecAddData, Table!QuerySharedData, Table!ExecDelete,
       Table!Finish, Table!Upload, Table!Decoded, Table!Upserted, Table!DbKey, Table!Applied,
       Table!NoRow, Table!NoRows, Table!Column

\* So is the chore, ...
LEMMA SameCheckData ==
  ASSUME NEW p \in Player, NEW ids \in SUBSET Profile, Data!CheckData(p, ids)
  PROVE  Table!CheckData(p, ids)
BY DEF Data!CheckData, Data!WithoutUnknown, Data!NoRow, Data!Column, Data!DbKey, Data!handler,
       Table!CheckData, Table!WithoutUnknown, Table!NoRow, Table!Column, Table!DbKey,
       Table!handler

\* ... the restart and the initial state.
LEMMA SameRestart == Data!Restart => Table!Restart
BY DEF Data!Restart, Data!NoRows, Data!NoRow, Data!Column, Data!DbKey,
       Table!Restart, Table!NoRows, Table!NoRow, Table!Column, Table!DbKey

LEMMA SameInit == Data!Init => Table!Init
BY DEF Data!Init, Data!NoRows, Data!NoRow, Data!Column, Data!DbKey, Data!Delete,
       Table!Init, Table!NoRows, Table!NoRow, Table!Column, Table!DbKey, Table!Delete

\* The composition touches the table only by steps of the table.
LEMMA TableMoves ==
  ASSUME history \in [Player -> Histories], [Next]_vars
  PROVE  [Table!Next]_(Table!vars)
<1>1. ASSUME NEW p \in Player, NEW v \in Feed!Version, RunChore(p, v)
      PROVE  [Table!Next]_(Table!vars)
  <2>1. history[p][v] \in SUBSET Profile
    BY DEF Histories, Feed!Version
  <2> QED
    BY <1>1, <2>1, SameCheckData DEF RunChore, table, Table!vars, Table!Next
<1>2. ASSUME NEW e \in Editor, ServeEditor(e)
      PROVE  [Table!Next]_(Table!vars)
  BY <1>2, SameServe DEF ServeEditor, Table!Next
<1>3. CASE Restart
  BY <1>3, SameRestart DEF Restart, Table!Next
<1> QED
  BY <1>1, <1>2, <1>3 DEF Next, ServeViewer, UpstreamChanges, vars, table, Table!vars

\* The composition touches the feed only by steps of the feed.
LEMMA FeedMoves ==
  ASSUME [Next]_vars
  PROVE  [Feed!Next]_(Feed!vars)
BY DEF Next, ServeViewer, RunChore, UpstreamChanges, ServeEditor, Restart, vars, feed,
       Feed!Next, Feed!vars

-----------------------------------------------------------------------------
\* Type correctness.

\* The feed alone: no reply and no goroutine holds a version that does not exist.
LEMMA FeedTypeStep ==
  ASSUME Feed!TypeOK, [Feed!Next]_(Feed!vars)
  PROVE  Feed!TypeOK'
<1> USE FeedAssumption DEF Feed!TypeOK, Feed!Version
<1>1. ASSUME NEW r \in Viewer, NEW p \in Player, Feed!Fetch(r, p) PROVE Feed!TypeOK'
  BY <1>1 DEF Feed!Fetch
<1>2. ASSUME NEW r \in Viewer, NEW p \in Player, NEW v \in Feed!Version, Feed!Spawn(r, p, v)
      PROVE  Feed!TypeOK'
  BY <1>2 DEF Feed!Spawn
<1>3. ASSUME NEW r \in Viewer, Feed!Drop(r) PROVE Feed!TypeOK'
  BY <1>3 DEF Feed!Drop
<1>4. ASSUME NEW p \in Player, NEW v \in Feed!Version, Feed!Check(p, v) PROVE Feed!TypeOK'
  BY <1>4 DEF Feed!Check
<1>5. ASSUME NEW p \in Player, Feed!UpstreamChanges(p) PROVE Feed!TypeOK'
  BY <1>5 DEF Feed!UpstreamChanges
<1>6. CASE Feed!Restart
  BY <1>6 DEF Feed!Restart
<1>7. CASE UNCHANGED Feed!vars
  BY <1>7 DEF Feed!vars
<1> QED
  BY <1>1, <1>2, <1>3, <1>4, <1>5, <1>6, <1>7 DEF Feed!Next

\* What both parts' proofs need, together.
TypeInv ==
  /\ Feed!TypeOK
  /\ Table!TypeInv
  /\ history \in [Player -> Histories]

\* It is as strong as the type invariant.
LEMMA TypeInvSuffices == TypeInv => TypeOK
<1>1. Table!TypeInv => Table!TypeOK
  BY TableAssumption, Table!TypeInvSuffices DEF Table!UserData, Data!UserData
<1>2. Table!TypeOK => Data!TypeOK
  BY DEF Table!TypeOK, Table!Column, Table!DbKey, Table!Stored, Table!Put, Table!Get,
         Table!Delete,
         Data!TypeOK, Data!Column, Data!DbKey, Data!Stored, Data!Put, Data!Get, Data!Delete
<1> QED
  BY <1>1, <1>2 DEF TypeInv, TypeOK

LEMMA TypeInit == Init => TypeInv
<1> SUFFICES ASSUME Init PROVE TypeInv
  OBVIOUS
<1>1. Feed!TypeOK
  BY FeedAssumption DEF Init, Feed!Init, Feed!TypeOK, Feed!Version
<1>2. Table!TypeInv
  BY TableAssumption, SameInit, Table!TypeInit DEF Init, Table!UserData, Data!UserData
<1> QED
  BY <1>1, <1>2 DEF Init, TypeInv

LEMMA TypeStep == TypeInv /\ [Next]_vars => TypeInv'
<1> SUFFICES ASSUME TypeInv, [Next]_vars PROVE TypeInv'
  OBVIOUS
<1>1. Feed!TypeOK'
  BY FeedMoves, FeedTypeStep DEF TypeInv
<1>2. Table!TypeInv'
  BY TableMoves, TableAssumption, Table!TypeStep DEF TypeInv, Table!UserData, Data!UserData
<1>3. UNCHANGED history
  BY DEF Next, ServeViewer, RunChore, UpstreamChanges, ServeEditor, Restart, vars
<1> QED
  BY <1>1, <1>2, <1>3 DEF TypeInv

LEMMA TypeAlways == Spec => []TypeInv
BY TypeInit, TypeStep, PTL DEF Spec

\* TypeOK: the types of feed and table hold when they run together.
THEOREM TypeCorrect == Spec => []TypeOK
BY TypeAlways, TypeInvSuffices, PTL

-----------------------------------------------------------------------------
\* Settled profiles.

\* What everybody who holds a reply knows, everybody knows a step later, as long as
\* Hypixel lists it: a new reply is of the present list, a new goroutine has its
\* list from a reply.
LEMMA SettledStays ==
  ASSUME TypeInv, [Next]_vars, NEW p \in Player, NEW f \in Profile,
         Settled(p, f), f \in history[p][latest'[p]]
  PROVE  Settled(p, f)'
<1>0. UNCHANGED history /\ history[p] \in [0 .. MaxVersion -> SUBSET Profile]
  BY DEF TypeInv, Histories, Next, ServeViewer, RunChore, UpstreamChanges, ServeEditor, Restart, vars
<1> USE DEF TypeInv, Feed!TypeOK, Settled, Known
<1>1. ASSUME NEW r \in Viewer, NEW q \in Player, Feed!Fetch(r, q) PROVE Settled(p, f)'
  BY <1>0, <1>1 DEF Feed!Fetch
<1>2. ASSUME NEW r \in Viewer, NEW q \in Player, NEW v \in Feed!Version, Feed!Spawn(r, q, v)
      PROVE  Settled(p, f)'
  BY <1>0, <1>2 DEF Feed!Spawn
<1>3. ASSUME NEW r \in Viewer, Feed!Drop(r) PROVE Settled(p, f)'
  BY <1>0, <1>3 DEF Feed!Drop
<1>4. ASSUME NEW q \in Player, NEW v \in Feed!Version, Feed!Check(q, v) PROVE Settled(p, f)'
  BY <1>0, <1>4 DEF Feed!Check
<1>5. ASSUME NEW q \in Player, Feed!UpstreamChanges(q) PROVE Settled(p, f)'
  BY <1>0, <1>5 DEF Feed!UpstreamChanges
<1>6. CASE Feed!Restart
  BY <1>0, <1>6 DEF Feed!Restart
<1>7. CASE UNCHANGED Feed!vars
  BY <1>0, <1>7 DEF Feed!vars
<1> QED
  BY <1>1, <1>2, <1>3, <1>4, <1>5, <1>6, <1>7, FeedMoves DEF Feed!Next

\* No step removes a key of such a profile's row: of the steps that remove rows,
\* every goroutine that may take one was given a list with the profile in it.
LEMMA SettledRowStays ==
  ASSUME TypeInv, [Next]_vars, NEW p \in Player, NEW f \in Profile, Settled(p, f),
         NEW c \in Data!Column, data[p][f][c] # Absent
  PROVE  data'[p][f][c] # Absent
<1>1. ASSUME NEW q \in Player, NEW v \in Feed!Version, RunChore(q, v)
      PROVE  data'[p][f][c] # Absent
  <2>1. history[q][v] \in SUBSET Profile /\ v \in chores[q]
    BY <1>1 DEF TypeInv, Histories, Feed!Version, RunChore, Feed!Check
  <2>2. CASE Data!CheckData(q, history[q][v])
    <3>1. q # p \/ f \in history[q][v]
      BY <2>1 DEF Settled
    <3>2. data'[p][f] = data[p][f]
      BY <2>1, <2>2, <3>1, SameCheckData, TableAssumption, Table!CheckDataKeepsKnown
         DEF TypeInv, Table!UserData, Data!UserData
    <3> QED
      BY <3>2
  <2> QED
    BY <1>1, <2>2 DEF RunChore, table
<1>2. ASSUME NEW e \in Editor, ServeEditor(e)
      PROVE  data'[p][f][c] # Absent
  <2>1. c \in Table!Column
    BY DEF Data!Column, Data!DbKey, Table!Column, Table!DbKey
  <2> QED
    BY <1>2, <2>1, SameServe, TableAssumption, Table!ServeKeepsKeys
       DEF ServeEditor, TypeInv, Table!UserData, Data!UserData
<1>3. CASE UNCHANGED data
  BY <1>3
<1> QED
  BY <1>1, <1>2, <1>3 DEF Next, ServeViewer, UpstreamChanges, Restart, Data!Restart, vars, table

\* SettledProfilesKeepData: once the requests and goroutines from before a profile was
\* created are gone, its data is safe as long as it exists, whatever the order in
\* which the goroutines run and whatever is uploaded meanwhile.
THEOREM SettledDataIsSafe == Spec => SettledProfilesKeepData
<1>1. TypeInv /\ [Next]_vars =>
        [\A p \in Player, f \in Profile :
           Settled(p, f) /\ f \in history[p][latest'[p]] =>
             /\ Settled(p, f)'
             /\ \A c \in Data!Column : data[p][f][c] # Absent => data'[p][f][c] # Absent]_vars
  BY SettledStays, SettledRowStays
<1> QED
  BY <1>1, TypeAlways, PTL DEF Spec, SettledProfilesKeepData

-----------------------------------------------------------------------------
\* Composition.  Together the parts still do what each promises alone: the feed gives
\* out snapshots, and to its users the table the chore cleans up is one register per
\* player, profile and kind of data.
THEOREM PartsKeepPromises == Spec => Feed!Spec /\ Table!ActsAsRegisters
<1>1. Init => Feed!Init /\ Table!Init
  BY SameInit DEF Init
<1>2. TypeInv /\ [Next]_vars => [Feed!Next]_(Feed!vars) /\ [Table!Next]_(Table!vars)
  BY FeedMoves, TableMoves DEF TypeInv
<1>3. Spec => Feed!Spec /\ Table!Spec
  BY <1>1, <1>2, TypeAlways, PTL DEF Spec, Feed!Spec, Table!Spec
<1>4. Table!Spec => Table!ActsAsRegisters
  BY TableAssumption, Table!ImplementsRegisters DEF Table!UserData, Data!UserData
<1> QED
  BY <1>3, <1>4, PTL
===============================================================================
