---------------------------- MODULE ProfileSync -----------------------------
(***************************************************************************)
(* The chore against the table: GET /profiles starts goroutines that       *)
(* delete a player's rows for the profiles missing from the reply they     *)
(* hold, while the mod keeps uploading rows and Hypixel's list changes.    *)
(* Replies come as SnapshotFeed promises, the table behaves as SharedData; *)
(* the only step they share is a goroutine's call of CheckData.            *)
(***************************************************************************)
EXTENDS Integers

CONSTANTS
  Viewer, Editor, Player, Profile,
  Registered, Document, PocketSize, Zero, Absent, DbMayFail, MaxVersion

VARIABLES
  latest, inflight, chores,  \* the feed
  data, pc, op, rows,        \* the table and its handlers
  history                    \* history[p][v]: the profiles in version v of p's list

Feed == INSTANCE SnapshotFeed
Data == INSTANCE SharedData

ASSUME FeedAssumption == MaxVersion \in Nat

\* The assumptions of SharedData.
ASSUME TableAssumption ==
  /\ Registered \subseteq Data!UserData
  /\ PocketSize \subseteq Nat
  /\ Zero \notin Document
  /\ Absent \notin Document \cup {Zero} \cup Nat
  /\ DbMayFail \in BOOLEAN

vars == <<latest, inflight, chores, data, pc, op, rows, history>>
feed == <<latest, inflight, chores>>
table == <<data, pc, op, rows>>

\* A profile that left a player's list never comes back: its id is not reused.
Histories ==
  {h \in [0 .. MaxVersion -> SUBSET Profile] :
     \A u, v, w \in 0 .. MaxVersion :
       u < v /\ v < w => h[u] \cap h[w] \subseteq h[v]}

Known(p) == history[p][latest[p]]

-----------------------------------------------------------------------------
Init ==
  /\ Feed!Init
  /\ Data!Init
  /\ history \in [Player -> Histories]

\* The goroutine of GetProfiles with version v of p's list.  Hypixel may write an
\* empty list as null, and the goroutine gives up on that.
RunChore(p, v) ==
  /\ Feed!Check(p, v)
  /\ \/ Data!CheckData(p, history[p][v])
     \/ history[p][v] = {} /\ UNCHANGED table
  /\ UNCHANGED history

ServeViewer ==
  /\ \/ \E r \in Viewer, p \in Player : Feed!Fetch(r, p)
     \/ \E r \in Viewer, p \in Player, v \in Feed!Version : Feed!Spawn(r, p, v)
     \/ \E r \in Viewer : Feed!Drop(r)
  /\ UNCHANGED <<table, history>>

UpstreamChanges(p) == Feed!UpstreamChanges(p) /\ UNCHANGED <<table, history>>

ServeEditor(e) == Data!Serve(e) /\ UNCHANGED <<feed, history>>

Restart == Feed!Restart /\ Data!Restart /\ UNCHANGED history

Next ==
  \/ ServeViewer
  \/ \E p \in Player, v \in Feed!Version : RunChore(p, v)
  \/ \E p \in Player : UpstreamChanges(p)
  \/ \E e \in Editor : ServeEditor(e)
  \/ Restart

Spec == Init /\ [][Next]_vars

\* Goroutines run and statements return.
Fairness == \A p \in Player, v \in Feed!Version : WF_vars(RunChore(p, v))

FairSpec == Spec /\ Fairness

-----------------------------------------------------------------------------
\* Properties.

\* Feed, table and history stay in their sets when composed.
TypeOK ==
  /\ Feed!TypeOK
  /\ Data!TypeOK
  /\ history \in [Player -> Histories]

\* Everybody who holds a reply about p knows f.
Settled(p, f) ==
  /\ f \in Known(p)
  /\ \A v \in chores[p] : f \in history[p][v]
  /\ \A r \in Viewer : \A x \in inflight[r] : x[1] = p => f \in history[p][x[2]]

\* Once the requests and goroutines from before a profile was created are gone,
\* its data is safe as long as it exists: later replies show it, in whatever order
\* the goroutines holding them run.
SettledProfilesKeepData ==
  [][\A p \in Player, f \in Profile :
       Settled(p, f) /\ f \in history[p][latest'[p]] =>
         /\ Settled(p, f)'
         /\ \A c \in Data!Column : data[p][f][c] # Absent => data'[p][f][c] # Absent]_vars

\* The rows of a profile that is gone for good are removed and stay away, provided
\* its player is looked up again and again, uploads for it stop, other profiles
\* remain and the process stops being restarted.
Uploads(p, f) ==
  \E e \in Editor : Data!ExecAddData(e) /\ op[e].player = p /\ op[e].profile = f
GoneProfilesForgotten ==
  \A p \in Player, f \in Profile :
    /\ <>[](f \notin Known(p) /\ Known(p) # {})
    /\ []<><<\E r \in Viewer : Feed!Spawn(r, p, latest[p])>>_vars
    /\ <>[][~Uploads(p, f)]_vars
    /\ <>[][~Restart]_vars
    => <>[](data[p][f] = Data!NoRow)

\* The chore deletes the rows of unknown profiles (deleteUnknownProfiles, "deletion
\* of unknown profiles"): the row of a profile Hypixel lists stays.
KnownProfilesKeepData ==
  [][\A p \in Player, f \in Profile :
       f \in Known(p) /\ data[p][f] # Data!NoRow => data'[p][f] # Data!NoRow]_vars
=============================================================================
