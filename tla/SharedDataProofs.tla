-------------------------- MODULE SharedDataProofs ---------------------------
(***************************************************************************)
(* Proofs about SharedData, for any players, profiles, routes, documents   *)
(* and number of concurrent requests, with or without failures of          *)
(* Postgres: its type invariant, and that it implements FieldStore.        *)
(***************************************************************************)
EXTENDS SharedData, TLAPS

-----------------------------------------------------------------------------
\* Facts about the definitions.

\* No two routes write the same key of a row.
LEMMA KeysDiffer ==
  ASSUME NEW u \in Registered, NEW w \in Registered, DbKey(u) = DbKey(w)
  PROVE  u = w
BY RouteAssumption DEF UserData, DbKey

\* A route's key is a column of every row.
LEMMA KeyIsColumn ==
  ASSUME NEW u \in Registered
  PROVE  DbKey(u) \in Column
BY DEF Column

\* Whatever a client uploads, what is stored of it can be stored, and is not nothing.
LEMMA DecodedType ==
  ASSUME NEW u \in Registered, NEW d \in Upload(u)
  PROVE  Decoded(u, d) \in Stored
<1>1. CASE u = "foraging"
  BY <1>1 DEF Decoded, Stored
<1>2. CASE u = "time_pocket"
  BY <1>2, DocumentAssumption DEF Decoded, Stored, Upload
<1>3. CASE u \notin {"foraging", "time_pocket"}
  BY <1>3 DEF Decoded, Stored, Upload
<1> QED
  BY <1>1, <1>2, <1>3

\* What is stored is not Absent.
LEMMA StoredIsPresent == Absent \notin Stored
BY DocumentAssumption DEF Stored

-----------------------------------------------------------------------------
\* Type correctness.  TypeOK says of what GET has read what it says of the rows; for
\* the steps it matters too that it is a function on some profiles, one per request.

Row == [Column -> Stored \cup {Absent}]
ReadRows == UNION {[F -> Row] : F \in SUBSET Profile}

TypeInv ==
  /\ data \in [Player -> [Profile -> Row]]
  /\ pc \in [Editor -> {"idle", "exec", "ok", "failed"}]
  /\ op \in [Editor -> Put \cup Get \cup Delete]
  /\ rows \in [Editor -> ReadRows]

\* The row that does not exist is a row, and no rows are rows.
LEMMA NoRowType == NoRow \in Row /\ NoRows \in ReadRows /\ DOMAIN NoRows = {}
<1>1. NoRow \in Row
  BY DEF NoRow, Row
<1>2. NoRows \in [{} -> Row]
  BY DEF NoRows
<1> QED
  BY <1>1, <1>2 DEF ReadRows, NoRows

\* It is as strong as the type invariant.
LEMMA TypeInvSuffices == TypeInv => TypeOK
BY DEF TypeInv, TypeOK, Row, ReadRows

\* It holds at the start.
LEMMA TypeInit == Init => TypeInv
BY NoRowType DEF Init, TypeInv, Row, Delete

\* A request that is received is a PUT, a GET or a DELETE.
LEMMA ReceivedType ==
  /\ \A p \in Player, f \in Profile, u \in Registered : \A d \in Upload(u) :
       [method |-> "PUT", player |-> p, profile |-> f, name |-> u, body |-> Decoded(u, d)] \in Put
  /\ \A p \in Player : [method |-> "GET", player |-> p] \in Get
  /\ \A p \in Player : [method |-> "DELETE", player |-> p] \in Delete
BY DecodedType DEF Put, Get, Delete

\* A statement of putData leaves rows.
LEMMA UpsertType ==
  ASSUME data \in [Player -> [Profile -> Row]], NEW o \in Put
  PROVE  [data EXCEPT ![o.player][o.profile] = Upserted(@, DbKey(o.name), o.body)]
           \in [Player -> [Profile -> Row]]
<1>1. /\ o.player \in Player /\ o.profile \in Profile
      /\ DbKey(o.name) \in Column /\ o.body \in Stored
  BY KeyIsColumn DEF Put
<1>2. [data[o.player][o.profile] EXCEPT ![DbKey(o.name)] = o.body] \in Row
  BY <1>1 DEF Row
<1> QED
  BY <1>1, <1>2 DEF Upserted

\* The chore leaves rows.
LEMMA WithoutUnknownType ==
  ASSUME data \in [Player -> [Profile -> Row]], NEW p \in Player, NEW ids \in SUBSET Profile
  PROVE  WithoutUnknown(p, ids) \in [Player -> [Profile -> Row]]
BY NoRowType DEF WithoutUnknown

\* Every action keeps the type invariant.
LEMMA TypeStep == TypeInv /\ [Next]_vars => TypeInv'
<1> SUFFICES ASSUME TypeInv, [Next]_vars PROVE TypeInv'
  OBVIOUS
<1> USE DEF TypeInv
<1>1. ASSUME NEW e \in Editor, NEW o \in Put \cup Get \cup Delete, Receive(e, o)
      PROVE  TypeInv'
  BY <1>1 DEF Receive
<1>2. ASSUME NEW e \in Editor, NEW p \in Player, NEW f \in Profile, NEW u \in Registered,
             NEW d \in Upload(u), PutData(e, p, f, u, d)
      PROVE  TypeInv'
  BY <1>1, <1>2, ReceivedType DEF PutData
<1>3. ASSUME NEW e \in Editor, NEW p \in Player, GetSharedData(e, p) \/ DeleteData(e, p)
      PROVE  TypeInv'
  BY <1>1, <1>3, ReceivedType DEF GetSharedData, DeleteData
<1>4. ASSUME NEW e \in Editor, RejectPut(e) PROVE TypeInv'
  BY <1>4 DEF RejectPut
<1>5. ASSUME NEW e \in Editor, ExecAddData(e) PROVE TypeInv'
  <2> DEFINE new == [data EXCEPT ![op[e].player][op[e].profile]
                                   = Upserted(@, DbKey(op[e].name), op[e].body)]
  <2>1. op[e] \in Put
    BY <1>5 DEF ExecAddData, Get, Delete
  <2>2. new \in [Player -> [Profile -> Row]]
    BY <2>1, UpsertType
  <2>3. data' \in {data, new}
    BY <1>5 DEF ExecAddData, Applied
  <2>4. pc' = [pc EXCEPT ![e] = "ok"] \/ pc' = [pc EXCEPT ![e] = "failed"]
    BY <1>5 DEF ExecAddData
  <2> QED
    BY <1>5, <2>2, <2>3, <2>4 DEF ExecAddData
<1>6. ASSUME NEW e \in Editor, QuerySharedData(e) PROVE TypeInv'
  <2>1. op[e].player \in Player
    BY DEF Put, Get, Delete
  <2>2. \A F \in SUBSET Profile : [f \in F |-> data[op[e].player][f]] \in ReadRows
    BY <2>1 DEF ReadRows
  <2>3. rows' = rows \/ \E F \in SUBSET Profile :
                          rows' = [rows EXCEPT ![e] = [f \in F |-> data[op[e].player][f]]]
    BY <1>6 DEF QuerySharedData
  <2>4. rows' \in [Editor -> ReadRows]
    BY <2>2, <2>3
  <2>5. pc' = [pc EXCEPT ![e] = "ok"] \/ pc' = [pc EXCEPT ![e] = "failed"]
    BY <1>6 DEF QuerySharedData
  <2> QED
    BY <1>6, <2>4, <2>5 DEF QuerySharedData
<1>7. ASSUME NEW e \in Editor, ExecDelete(e) PROVE TypeInv'
  BY <1>7 DEF ExecDelete
<1>8. ASSUME NEW e \in Editor, Finish(e) PROVE TypeInv'
  BY <1>8, NoRowType DEF Finish
<1>9. ASSUME NEW p \in Player, NEW ids \in SUBSET Profile, CheckData(p, ids) PROVE TypeInv'
  BY <1>9, WithoutUnknownType DEF CheckData, handler
<1>10. CASE Restart
  BY <1>10, NoRowType DEF Restart
<1>11. CASE UNCHANGED vars
  BY <1>11 DEF vars
<1> QED
  BY <1>2, <1>3, <1>4, <1>5, <1>6, <1>7, <1>8, <1>9, <1>10, <1>11 DEF Next, Serve

\* The strengthened type invariant, for the theorems below.
LEMMA TypeAlways == Spec => []TypeInv
BY TypeInit, TypeStep, PTL DEF Spec

\* TypeOK: a row holds only what some route may store in each of its keys, a time
\* pocket never more than nine items, and an answer holds whole rows.
THEOREM TypeCorrect == Spec => []TypeOK
BY TypeAlways, TypeInvSuffices, PTL

-----------------------------------------------------------------------------
\* Implementation of FieldStore.  What the refinement mapping gives each variable.

Value == [x \in Player \X Profile \X Registered |-> data[x[1]][x[2]][DbKey(x[3])]]
Stage == [e \in Editor |-> IF pc[e] = "exec" THEN "called" ELSE pc[e]]
Called == [e \in Editor |-> AsCall(op[e])]
Reply == [e \in Editor |-> [x \in (DOMAIN rows[e]) \X Registered |-> rows[e][x[1]][DbKey(x[2])]]]

\* A request is a call of the abstract specification.
LEMMA RequestIsCall ==
  ASSUME NEW o \in Put \cup Get \cup Delete
  PROVE  /\ AsCall(o) \in Registers!Call
         /\ o.method = "PUT" <=> o \in Put
         /\ o.method = "GET" => AsCall(o) = [kind |-> "read", player |-> o.player]
         /\ o.method = "DELETE" => AsCall(o) = [kind |-> "erase", player |-> o.player]
         /\ o.method = "PUT" => AsCall(o) = [kind |-> "write", player |-> o.player,
                                   profile |-> o.profile, field |-> o.name, content |-> o.body]
BY DEF Put, Get, Delete, AsCall, Registers!Call

\* How stage and call of one request change, as functions.
LEMMA StageMoves ==
  ASSUME TypeInv, NEW e \in Editor, NEW s \in {"idle", "exec", "ok", "failed"},
         pc' = [pc EXCEPT ![e] = s]
  PROVE  Stage' = [Stage EXCEPT ![e] = IF s = "exec" THEN "called" ELSE s]
BY DEF TypeInv, Stage

\* What a statement of putData changes is one register: the key it writes is of no
\* other route, the row of no other player or profile.
LEMMA UpsertWritesOne ==
  ASSUME TypeInv, NEW o \in Put,
         data' = [data EXCEPT ![o.player][o.profile] = Upserted(@, DbKey(o.name), o.body)]
  PROVE  Value' = [Value EXCEPT ![<<o.player, o.profile, o.name>>] = o.body]
<1>1. /\ o.player \in Player /\ o.profile \in Profile /\ o.name \in Registered
      /\ DbKey(o.name) \in Column
  BY KeyIsColumn DEF Put
<1>2. ASSUME NEW p \in Player, NEW f \in Profile, NEW u \in Registered
      PROVE  data'[p][f][DbKey(u)] =
               IF p = o.player /\ f = o.profile /\ u = o.name
                 THEN o.body ELSE data[p][f][DbKey(u)]
  <2>1. data'[p][f] = IF p = o.player /\ f = o.profile
                        THEN [data[p][f] EXCEPT ![DbKey(o.name)] = o.body] ELSE data[p][f]
    BY <1>1 DEF TypeInv, Upserted
  <2>2. data[p][f] \in Row
    BY DEF TypeInv
  <2>3. DbKey(u) = DbKey(o.name) <=> u = o.name
    BY <1>1, KeysDiffer
  <2> QED
    BY <2>1, <2>2, <2>3, KeyIsColumn DEF Row
<1>3. ASSUME NEW x \in Player \X Profile \X Registered
      PROVE  Value'[x] = IF x = <<o.player, o.profile, o.name>> THEN o.body ELSE Value[x]
  <2>1. PICK p \in Player, f \in Profile, u \in Registered : x = <<p, f, u>>
    OBVIOUS
  <2>2. Value[x] = data[p][f][DbKey(u)] /\ Value'[x] = data'[p][f][DbKey(u)]
    BY <2>1 DEF Value
  <2> QED
    BY <1>2, <2>1, <2>2
<1> QED
  BY <1>1, <1>3 DEF Value

\* The initial states are initial states of the registers.
LEMMA RegistersInit == Init => Registers!Init
<1> SUFFICES ASSUME Init PROVE Registers!Init
  OBVIOUS
<1>1. Value = [x \in Player \X Profile \X Registered |-> Absent]
  BY KeyIsColumn DEF Init, Value, NoRow
<1>2. Stage = [e \in Editor |-> "idle"]
  BY DEF Init, Stage
<1>3. Called \in [Editor -> Registers!Call]
  BY RequestIsCall DEF Init, Called
<1>4. Reply = [e \in Editor |-> [x \in {} |-> Absent]]
  BY NoRowType DEF Init, Reply
<1> QED
  BY <1>1, <1>2, <1>3, <1>4 DEF Registers!Init, Registers!Register, Value, Stage, Called, Reply

\* A handler's step is one of its call.
LEMMA ReceiveBegins ==
  ASSUME TypeInv, NEW e \in Editor, NEW o \in Put \cup Get \cup Delete, Receive(e, o)
  PROVE  Registers!Next
<1>1. Stage[e] = "idle" /\ Stage' = [Stage EXCEPT ![e] = "called"]
  BY StageMoves DEF Receive, Stage, TypeInv
<1>2. Called' = [Called EXCEPT ![e] = AsCall(o)]
  BY DEF Receive, Called, TypeInv
<1>3. Value' = Value /\ Reply' = Reply
  BY DEF Receive, Value, Reply
<1>4. Registers!Begin(e, AsCall(o))
  BY <1>1, <1>2, <1>3 DEF Registers!Begin, Value, Stage, Called, Reply
<1> QED
  BY <1>4, RequestIsCall DEF Registers!Next

\* A PUT that is given up before its statement is refused.
LEMMA RejectRefuses ==
  ASSUME TypeInv, NEW e \in Editor, RejectPut(e)
  PROVE  Registers!Next
<1>1. Stage[e] = "idle" /\ Stage' = [Stage EXCEPT ![e] = "failed"]
  BY StageMoves DEF RejectPut, Stage, TypeInv
<1>2. Value' = Value /\ Reply' = Reply /\ Called' = Called
  BY DEF RejectPut, Value, Reply, Called
<1>3. Registers!Refuse(e)
  BY <1>1, <1>2 DEF Registers!Refuse, Value, Stage, Called, Reply
<1> QED
  BY <1>3 DEF Registers!Next

\* A statement that fails without effect is a call that fails without effect.
LEMMA NoEffectFails ==
  ASSUME TypeInv, NEW e \in Editor, pc[e] = "exec", pc' = [pc EXCEPT ![e] = "failed"],
         UNCHANGED <<data, op, rows>>
  PROVE  Registers!Next
<1>1. Stage[e] = "called" /\ Stage' = [Stage EXCEPT ![e] = "failed"]
  BY StageMoves DEF Stage
<1>2. Value' = Value /\ Reply' = Reply /\ Called' = Called
  BY DEF Value, Reply, Called
<1>3. Registers!Fail(e)
  BY <1>1, <1>2 DEF Registers!Fail, Value, Stage, Called, Reply
<1> QED
  BY <1>3 DEF Registers!Next

\* The statement of putData writes the register the request names, whether the answer
\* says so or not, or fails without effect.
LEMMA AddDataWrites ==
  ASSUME TypeInv, NEW e \in Editor, ExecAddData(e)
  PROVE  Registers!Next
<1> DEFINE new == [data EXCEPT ![op[e].player][op[e].profile]
                                 = Upserted(@, DbKey(op[e].name), op[e].body)]
<1>1. op[e] \in Put /\ pc[e] = "exec" /\ UNCHANGED <<op, rows>>
  BY RequestIsCall DEF ExecAddData, TypeInv
<1>2. CASE data' = new /\ \E outcome \in {"ok", "failed"} : pc' = [pc EXCEPT ![e] = outcome]
  <2>1. PICK outcome \in {"ok", "failed"} : pc' = [pc EXCEPT ![e] = outcome]
    BY <1>2
  <2>2. Stage[e] = "called" /\ Stage' = [Stage EXCEPT ![e] = outcome]
    BY <1>1, <2>1, StageMoves DEF Stage
  <2>3. Called' = Called /\ Reply' = Reply
    BY <1>1 DEF Called, Reply
  <2>4. /\ Called[e].kind = "write" /\ Called[e].content = op[e].body
        /\ Registers!Target(Called[e]) = <<op[e].player, op[e].profile, op[e].name>>
    BY <1>1, RequestIsCall DEF Called, Registers!Target
  <2>5. Value' = [Value EXCEPT ![Registers!Target(Called[e])] = Called[e].content]
    BY <1>1, <1>2, <2>4, UpsertWritesOne
  <2>6. Registers!Write(e)
    BY <2>2, <2>3, <2>4, <2>5 DEF Registers!Write, Value, Stage, Called, Reply
  <2> QED
    BY <2>6 DEF Registers!Next
<1>3. CASE data' = data /\ pc' = [pc EXCEPT ![e] = "failed"]
  BY <1>1, <1>3, NoEffectFails
<1> QED
  BY <1>2, <1>3 DEF ExecAddData, Applied

\* The rows GET has read are registers as one moment shows them, whole profiles at a
\* time.
LEMMA QueryReads ==
  ASSUME TypeInv, NEW e \in Editor, QuerySharedData(e)
  PROVE  Registers!Next
<1>1. /\ op[e] \in Get /\ op[e].player \in Player /\ op[e].method = "GET"
      /\ pc[e] = "exec" /\ UNCHANGED <<data, op>>
  BY DEF QuerySharedData, TypeInv, Put, Get, Delete
<1>2. ASSUME NEW F \in SUBSET Profile,
             rows' = [rows EXCEPT ![e] = [f \in F |-> data[op[e].player][f]]],
             pc' = [pc EXCEPT ![e] = "ok"]
      PROVE  Registers!Next
  <2>1. Stage[e] = "called" /\ Stage' = [Stage EXCEPT ![e] = "ok"]
    BY <1>1, <1>2, StageMoves DEF Stage
  <2>2. Called[e].kind = "read" /\ Called[e].player = op[e].player
    BY <1>1, RequestIsCall DEF Called, TypeInv
  <2>3. Value' = Value /\ Called' = Called
    BY <1>1 DEF Value, Called
  <2>4. rows'[e] = [f \in F |-> data[op[e].player][f]]
        /\ \A other \in Editor \ {e} : rows'[other] = rows[other]
    BY <1>2 DEF TypeInv
  <2>5. Reply'[e] = [x \in F \X Registered |-> Value[<<op[e].player, x[1], x[2]>>]]
    <3>1. Reply'[e] = [x \in F \X Registered |-> data[op[e].player][x[1]][DbKey(x[2])]]
      BY <2>4 DEF Reply
    <3>2. \A x \in F \X Registered :
            Value[<<op[e].player, x[1], x[2]>>] = data[op[e].player][x[1]][DbKey(x[2])]
      BY <1>1 DEF Value
    <3> QED
      BY <3>1, <3>2
  <2>6. Reply' = [Reply EXCEPT ![e] = [x \in F \X Registered |-> Value[<<op[e].player, x[1], x[2]>>]]]
    <3>1. \A other \in Editor \ {e} : Reply'[other] = Reply[other]
      BY <2>4 DEF Reply
    <3> QED
      BY <2>5, <3>1 DEF Reply
  <2>7. Reply' = [Reply EXCEPT ![e] = Registers!Shown(Called[e].player, F)]
    BY <2>2, <2>6 DEF Registers!Shown, Value
  <2>8. Registers!Read(e)
    BY <2>1, <2>2, <2>3, <2>7
       DEF Registers!Read, Value, Stage, Called, Reply
  <2> QED
    BY <2>8 DEF Registers!Next
<1>3. CASE UNCHANGED rows /\ pc' = [pc EXCEPT ![e] = "failed"]
  BY <1>1, <1>3, NoEffectFails
<1> QED
  <2>1. CASE \E F \in SUBSET Profile :
               /\ rows' = [rows EXCEPT ![e] = [f \in F |-> data[op[e].player][f]]]
               /\ pc' = [pc EXCEPT ![e] = "ok"]
    BY <1>2, <2>1
  <2> QED
    BY <1>3, <2>1 DEF QuerySharedData

\* The answer is sent and the slot is free again.
LEMMA FinishFinishes ==
  ASSUME TypeInv, NEW e \in Editor, Finish(e)
  PROVE  Registers!Next
<1>1. Stage[e] \in {"ok", "failed"} /\ Stage' = [Stage EXCEPT ![e] = "idle"]
  BY StageMoves DEF Finish, Stage, TypeInv
<1>2. Value' = Value /\ Called' = Called
  BY DEF Finish, Value, Called
<1>3. Reply' = [Reply EXCEPT ![e] = [x \in {} |-> Absent]]
  <2>1. DOMAIN rows'[e] = {} /\ \A other \in Editor \ {e} : rows'[other] = rows[other]
    BY NoRowType DEF Finish, TypeInv
  <2> QED
    BY <2>1 DEF Reply
<1>4. Registers!Finish(e)
  BY <1>1, <1>2, <1>3 DEF Registers!Finish, Value, Stage, Called, Reply
<1> QED
  BY <1>4 DEF Registers!Next

\* The chore empties registers of one player, a whole profile at a time.
LEMMA CheckDataForgets ==
  ASSUME TypeInv, NEW p \in Player, NEW ids \in SUBSET Profile, CheckData(p, ids)
  PROVE  [Registers!Next]_(Registers!vars)
<1>1. UNCHANGED <<Stage, Called, Reply>>
  BY DEF CheckData, handler, Stage, Called, Reply
<1>2. CASE data' = WithoutUnknown(p, ids)
  <2>1. ASSUME NEW x \in Player \X Profile \X Registered
        PROVE  Value'[x] = IF x[1] = p /\ x[2] \in Profile \ ids THEN Absent ELSE Value[x]
    BY <1>2, KeyIsColumn DEF Value, WithoutUnknown, NoRow, TypeInv
  <2>2. Value' = [x \in Player \X Profile \X Registered |->
                    IF x[1] = p /\ x[2] \in Profile \ ids THEN Absent ELSE Value[x]]
    BY <2>1 DEF Value
  <2>3. Registers!Forget(p, Profile \ ids)
    BY <1>1, <2>2 DEF Registers!Forget, Registers!Register, Value, Stage, Called, Reply
  <2> QED
    BY <2>3 DEF Registers!Next
<1>3. CASE UNCHANGED data
  BY <1>1, <1>3 DEF Registers!vars, Value, Stage, Called, Reply
<1> QED
  BY <1>2, <1>3 DEF CheckData

\* A restart is a crash of the registers' clients; the registers keep their values.
LEMMA RestartCrashes ==
  ASSUME TypeInv, Restart
  PROVE  Registers!Next
<1>1. Stage' = [e \in Editor |-> "idle"]
  BY DEF Restart, Stage
<1>2. Reply' = [e \in Editor |-> [x \in {} |-> Absent]]
  BY NoRowType DEF Restart, Reply
<1>3. Value' = Value /\ Called' = Called
  BY DEF Restart, Value, Called
<1>4. Registers!Crash
  BY <1>1, <1>2, <1>3 DEF Registers!Crash, Value, Stage, Called, Reply
<1> QED
  BY <1>4 DEF Registers!Next

\* Every step of the table and its handlers is a step of the registers or none.
LEMMA RegistersStep == TypeInv /\ [Next]_vars => [Registers!Next]_(Registers!vars)
<1> SUFFICES ASSUME TypeInv, [Next]_vars PROVE [Registers!Next]_(Registers!vars)
  OBVIOUS
<1>1. ASSUME NEW e \in Editor, NEW p \in Player, NEW f \in Profile, NEW u \in Registered,
             NEW d \in Upload(u), PutData(e, p, f, u, d)
      PROVE  Registers!Next
  BY <1>1, ReceivedType, ReceiveBegins DEF PutData
<1>2. ASSUME NEW e \in Editor, NEW p \in Player, GetSharedData(e, p) \/ DeleteData(e, p)
      PROVE  Registers!Next
  BY <1>2, ReceivedType, ReceiveBegins DEF GetSharedData, DeleteData
<1>3. ASSUME NEW e \in Editor, ExecDelete(e)
      PROVE  Registers!Next
  BY <1>3, NoEffectFails DEF ExecDelete
<1>4. CASE UNCHANGED vars
  BY <1>4 DEF vars, Registers!vars
<1> QED
  BY <1>1, <1>2, <1>3, <1>4, RejectRefuses, AddDataWrites, QueryReads, FinishFinishes,
     CheckDataForgets, RestartCrashes DEF Next, Serve

\* ActsAsRegisters: statements of concurrent requests on one row never lose each
\* other's keys, two routes never share one, nobody reaches another's rows, and a
\* failure or a restart leaves each register as it was or as it was to become.
THEOREM ImplementsRegisters == Spec => ActsAsRegisters
BY TypeAlways, RegistersInit, RegistersStep, PTL DEF Spec, ActsAsRegisters, Registers!Spec

-----------------------------------------------------------------------------
\* Who removes what, for those who compose the table with other parts.

\* No handler removes a key of any row.
LEMMA ServeKeepsKeys ==
  ASSUME TypeInv, NEW e \in Editor, Serve(e),
         NEW p \in Player, NEW f \in Profile, NEW c \in Column, data[p][f][c] # Absent
  PROVE  data'[p][f][c] # Absent
<1>1. CASE ExecAddData(e)
  <2>1. op[e] \in Put
    BY <1>1, RequestIsCall DEF ExecAddData, TypeInv
  <2>2. /\ op[e].player \in Player /\ op[e].profile \in Profile
        /\ DbKey(op[e].name) \in Column /\ op[e].body \in Stored
    BY <2>1, KeyIsColumn DEF Put
  <2>3. CASE data' = [data EXCEPT ![op[e].player][op[e].profile]
                                    = Upserted(@, DbKey(op[e].name), op[e].body)]
    <3>1. data'[p][f] = IF p = op[e].player /\ f = op[e].profile
                          THEN [data[p][f] EXCEPT ![DbKey(op[e].name)] = op[e].body]
                          ELSE data[p][f]
      BY <2>2, <2>3 DEF TypeInv, Upserted
    <3>2. data[p][f] \in Row
      BY DEF TypeInv
    <3> QED
      BY <2>2, <3>1, <3>2, StoredIsPresent DEF Row
  <2> QED
    BY <1>1, <2>3 DEF ExecAddData, Applied
<1>2. CASE UNCHANGED data
  BY <1>2
<1> QED
  BY <1>1, <1>2 DEF Serve, PutData, GetSharedData, DeleteData, Receive, RejectPut,
                    QuerySharedData, ExecDelete, Finish

\* The chore leaves the rows of other players and of the profiles it was given alone.
LEMMA CheckDataKeepsKnown ==
  ASSUME TypeInv, NEW q \in Player, NEW ids \in SUBSET Profile, CheckData(q, ids),
         NEW p \in Player, NEW f \in Profile, p # q \/ f \in ids
  PROVE  data'[p][f] = data[p][f]
BY DEF CheckData, WithoutUnknown, TypeInv
===============================================================================
