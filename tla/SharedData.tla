----------------------------- MODULE SharedData -----------------------------
(***************************************************************************)
(* The table shared_data and the handlers on it: PUT                       *)
(* /shared_data/{profile_id}/<kind>, GET /shared_data/{player_id}, DELETE  *)
(* /shared_data, and the chore CheckData.                                  *)
(*                                                                         *)
(* Every handler makes one call to Postgres, a single statement, which is  *)
(* one step here; what a handler does before it depends on its own request *)
(* only.  A row is a function from the keys of its jsonb document to their *)
(* values; a row that holds nothing is a row that does not exist, because  *)
(* every insert sets a key and no statement removes one.                   *)
(***************************************************************************)
EXTENDS Integers

CONSTANTS
  Editor,      \* slots of concurrently served requests
  Player,      \* authenticated accounts, the first half of a row's key
  Profile,     \* profile ids, the second half
  Registered,  \* bound: the routes /shared_data/{profile_id}/<name> exercised
  Document,    \* documents a client may upload
  PocketSize,  \* bound: lengths of uploaded time pockets
  Zero,        \* the document a struct marshals to when nothing was decoded
  Absent,      \* no such key
  DbMayFail    \* a call to Postgres may return an error

\* Names registerUserData is called with.
UserData == {"hotf", "hotm", "consumeables", "hunting_box", "hunting_toolkit",
             "melody", "foraging", "garden", "time_pocket", "garden_chips"}

\* The key of the jsonb document each name's putData writes.  Mutant: the two
\* garden routes share one.
DbKeyShared(u) ==
  CASE u = "melody" -> "melody_data"
    [] u = "foraging" -> "foraging_data"
    [] u \in {"garden", "garden_chips"} -> "garden_data"
    [] OTHER -> u
DbKey(u) ==
  CASE u = "melody" -> "melody_data"
    [] u = "foraging" -> "foraging_data"
    [] u = "garden" -> "garden_data"
    [] u = "garden_chips" -> "chips"
    [] OTHER -> u

Column == {DbKey(u) : u \in Registered}

ASSUME RouteAssumption == Registered \subseteq UserData
ASSUME DocumentAssumption ==
  /\ PocketSize \subseteq Nat
  /\ Zero \notin Document
  /\ Absent \notin Document \cup {Zero} \cup Nat
ASSUME DbAssumption == DbMayFail \in BOOLEAN

Upload(u) == IF u = "time_pocket" THEN PocketSize ELSE Document

\* What putData stores for an uploaded document: decoded into what createData
\* made, then setupDefaults.  PutMiscForagingData makes a GardenChips, which has
\* none of the fields of MiscForagingData; a time pocket of more than nine
\* items keeps eight.  Mutant: however many there are.
DecodedUntruncated(u, d) == IF u = "foraging" THEN Zero ELSE d
Decoded(u, d) ==
  CASE u = "foraging" -> Zero
    [] u = "time_pocket" -> IF d > 9 THEN 8 ELSE d
    [] OTHER -> d

\* What a key of a row may hold.
Stored == Document \cup {Zero} \cup 0 .. 9

VARIABLES
  data,   \* data[p][f][c]: key c of the row (p, f)
  pc,     \* pc[e]: "idle", "exec" before the call to Postgres, or the outcome
  op,     \* op[e]: the request e serves
  rows    \* rows[e]: what GET has read: the rows it answers with, by profile

vars == <<data, pc, op, rows>>
handler == <<pc, op, rows>>

Put == [method : {"PUT"}, player : Player, profile : Profile, name : Registered,
        body : Stored]
Get == [method : {"GET"}, player : Player]
Delete == [method : {"DELETE"}, player : Player]

NoRow == [c \in Column |-> Absent]
NoRows == [f \in {} |-> NoRow]

\* insert ... on conflict do update set data = jsonb_set(...).  Mutant: on
\* conflict the row is replaced.
UpsertedWhole(row, c, d) == [NoRow EXCEPT ![c] = d]
Upserted(row, c, d) == [row EXCEPT ![c] = d]

\* A failed call may still have been applied by the server.
Applied(old, new) == IF DbMayFail THEN {old, new} ELSE {}

\* delete ... where player_id = $1 and profile_id <> all($2).  Mutants: the first
\* condition dropped; any instead of all; a comparison that is never true.
WithoutUnknownOfAnyone(p, ids) ==
  [q \in Player |-> [f \in Profile |-> IF f \in ids THEN data[q][f] ELSE NoRow]]
WithoutUnknownByAny(p, ids) ==
  [data EXCEPT ![p] = [f \in Profile |-> IF ids \subseteq {f} THEN data[p][f] ELSE NoRow]]
WithoutUnknownByNull(p, ids) == [data EXCEPT ![p] = [f \in Profile |-> data[p][f]]]
WithoutUnknown(p, ids) ==
  [data EXCEPT ![p] = [f \in Profile |-> IF f \in ids THEN data[p][f] ELSE NoRow]]

-----------------------------------------------------------------------------
Init ==
  /\ data = [p \in Player |-> [f \in Profile |-> NoRow]]
  /\ pc = [e \in Editor |-> "idle"]
  /\ op \in [Editor -> Delete]
  /\ rows = [e \in Editor |-> NoRows]

Receive(e, request) ==
  /\ pc[e] = "idle"
  /\ pc' = [pc EXCEPT ![e] = "exec"]
  /\ op' = [op EXCEPT ![e] = request]
  /\ UNCHANGED <<data, rows>>

\* putData up to its call: the row is the requester's own.
PutData(e, p, f, u, d) ==
  Receive(e, [method |-> "PUT", player |-> p, profile |-> f, name |-> u, body |-> Decoded(u, d)])

GetSharedData(e, p) == Receive(e, [method |-> "GET", player |-> p])

DeleteData(e, p) == Receive(e, [method |-> "DELETE", player |-> p])

\* putData gives up: the body cannot be read (500) or decoded (400), or it is
\* the JSON null, which leaves no document to call setupDefaults on: the panic
\* ends the request without an answer.
RejectPut(e) ==
  /\ pc[e] = "idle"
  /\ pc' = [pc EXCEPT ![e] = "failed"]
  /\ UNCHANGED <<data, op, rows>>

ExecAddData(e) ==
  LET o == op[e]
      new == [data EXCEPT ![o.player][o.profile] = Upserted(@, DbKey(o.name), o.body)]
  IN
  /\ pc[e] = "exec" /\ o.method = "PUT"
  /\ \/ data' = new /\ pc' = [pc EXCEPT ![e] = "ok"]
     \/ data' \in Applied(data, new) /\ pc' = [pc EXCEPT ![e] = "failed"]
  /\ UNCHANGED <<op, rows>>

\* The rows come from the snapshot of one statement.  When the connection breaks
\* while they are read, Next returns false and the rest is left out unnoticed.
QuerySharedData(e) ==
  /\ pc[e] = "exec" /\ op[e].method = "GET"
  /\ LET mine == data[op[e].player]
         found == {f \in Profile : mine[f] # NoRow}
     IN  \/ /\ \E read \in IF DbMayFail THEN SUBSET found ELSE {found} :
                 rows' = [rows EXCEPT ![e] = [f \in read |-> mine[f]]]
            /\ pc' = [pc EXCEPT ![e] = "ok"]
         \/ /\ DbMayFail
            /\ pc' = [pc EXCEPT ![e] = "failed"]
            /\ UNCHANGED rows
  /\ UNCHANGED <<data, op>>

\* DeleteData passes two arguments to a statement with one parameter: the driver
\* refuses the call before it reaches the server.
ExecDelete(e) ==
  /\ pc[e] = "exec" /\ op[e].method = "DELETE"
  /\ pc' = [pc EXCEPT ![e] = "failed"]
  /\ UNCHANGED <<data, op, rows>>

Finish(e) ==
  /\ pc[e] \in {"ok", "failed"}
  /\ pc' = [pc EXCEPT ![e] = "idle"]
  /\ rows' = [rows EXCEPT ![e] = NoRows]
  /\ UNCHANGED <<data, op>>

\* The chore for player p, given the profiles in one reply of Hypixel; an error
\* is only logged.
CheckData(p, ids) ==
  /\ \/ data' = WithoutUnknown(p, ids)
     \/ DbMayFail /\ UNCHANGED data
  /\ UNCHANGED handler

\* A statement under way has been applied by then, as ExecAddData, or never is.
Restart ==
  /\ pc' = [e \in Editor |-> "idle"]
  /\ rows' = [e \in Editor |-> NoRows]
  /\ UNCHANGED <<data, op>>

Serve(e) ==
  \/ \E p \in Player, f \in Profile, u \in Registered : \E d \in Upload(u) : PutData(e, p, f, u, d)
  \/ \E p \in Player : GetSharedData(e, p) \/ DeleteData(e, p)
  \/ RejectPut(e)
  \/ ExecAddData(e) \/ QuerySharedData(e) \/ ExecDelete(e) \/ Finish(e)

Next ==
  \/ \E e \in Editor : Serve(e)
  \/ \E p \in Player, ids \in SUBSET Profile : CheckData(p, ids)
  \/ Restart

Spec == Init /\ [][Next]_vars

-----------------------------------------------------------------------------
\* Properties.

\* Every variable stays in its set: a row holds only what some route may store in
\* each of its keys, a time pocket never more than nine items, and an answer holds
\* whole rows.
TypeOK ==
  /\ data \in [Player -> [Profile -> [Column -> Stored \cup {Absent}]]]
  /\ pc \in [Editor -> {"idle", "exec", "ok", "failed"}]
  /\ op \in [Editor -> Put \cup Get \cup Delete]
  /\ \A e \in Editor : \A f \in DOMAIN rows[e] : f \in Profile /\ rows[e][f] \in [Column -> Stored \cup {Absent}]

\* To its users the table is a set of registers, one per player, profile and
\* kind of data: statements of concurrent requests on one row never lose each
\* other's keys, two routes never share one, nobody reaches another's rows.
AsCall(o) ==
  CASE o.method = "GET" -> [kind |-> "read", player |-> o.player]
    [] o.method = "DELETE" -> [kind |-> "erase", player |-> o.player]
    [] o.method = "PUT" -> [kind |-> "write", player |-> o.player, profile |-> o.profile,
                            field |-> o.name, content |-> o.body]

Registers == INSTANCE FieldStore WITH
  UserData <- Registered,
  Content <- Stored,
  value <- [x \in Player \X Profile \X Registered |-> data[x[1]][x[2]][DbKey(x[3])]],
  stage <- [e \in Editor |-> IF pc[e] = "exec" THEN "called" ELSE pc[e]],
  call <- [e \in Editor |-> AsCall(op[e])],
  reply <- [e \in Editor |-> [x \in (DOMAIN rows[e]) \X Registered |-> rows[e][x[1]][DbKey(x[2])]]]

ActsAsRegisters == Registers!Spec

\* DELETE /shared_data removes the caller's rows (deleteSharedData: "delete from
\* shared_data where player_id = $1"): with Postgres answering, no row of the
\* caller survives the statement.
DeleteRemovesRows ==
  [][\A e \in Editor :
       ExecDelete(e) /\ ~DbMayFail => \A f \in Profile : data'[op[e].player][f] = NoRow]_vars
=============================================================================
