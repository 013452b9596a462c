----------------------------- MODULE FieldStore -----------------------------
(***************************************************************************)
(* What /shared_data promises to its users: every (player, profile, kind   *)
(* of data) is a register of its own.  An accepted write replaces exactly  *)
(* the register it names, at one moment between the call and the answer;   *)
(* a read shows registers of one player as they were at one such moment;   *)
(* a call that failed may have had its effect or not, never half of it.    *)
(* Registers are emptied only a whole profile at a time.                   *)
(*                                                                         *)
(* There are no rows, columns or statements here: SharedData has those and *)
(* implements this (SharedData!ActsAsRegisters).                           *)
(***************************************************************************)
CONSTANTS
  Editor,    \* slots of concurrently served requests
  Player, Profile,
  UserData,  \* kinds of data
  Content,   \* what a register may hold, besides Absent
  Absent

VARIABLES
  value,     \* value[<<p, f, u>>]: the register of kind u, profile f, player p
  stage,     \* stage[e]: how far call e is
  call,      \* call[e]: what e asks for
  reply      \* reply[e]: what e read: value by <<profile, kind>>

vars == <<value, stage, call, reply>>

Register == Player \X Profile \X UserData
Call == [kind : {"read"}, player : Player]
          \cup [kind : {"write"}, player : Player, profile : Profile, field : UserData, content : Content]
          \cup [kind : {"erase"}, player : Player]

Target(c) == <<c.player, c.profile, c.field>>

\* The registers of profiles in F of player p as they are now.
Shown(p, F) == [x \in F \X UserData |-> value[<<p, x[1], x[2]>>]]

TypeOK ==
  /\ value \in [Register -> Content \cup {Absent}]
  /\ stage \in [Editor -> {"idle", "called", "ok", "failed"}]
  /\ call \in [Editor -> Call]

Init ==
  /\ value = [x \in Register |-> Absent]
  /\ stage = [e \in Editor |-> "idle"]
  /\ call \in [Editor -> Call]
  /\ reply = [e \in Editor |-> [x \in {} |-> Absent]]

Begin(e, c) ==
  /\ stage[e] = "idle"
  /\ stage' = [stage EXCEPT ![e] = "called"]
  /\ call' = [call EXCEPT ![e] = c]
  /\ UNCHANGED <<value, reply>>

\* The call is refused before anything happened.
Refuse(e) ==
  /\ stage[e] = "idle"
  /\ stage' = [stage EXCEPT ![e] = "failed"]
  /\ UNCHANGED <<value, call, reply>>

Write(e) ==
  /\ stage[e] = "called" /\ call[e].kind = "write"
  /\ value' = [value EXCEPT ![Target(call[e])] = call[e].content]
  /\ \E outcome \in {"ok", "failed"} : stage' = [stage EXCEPT ![e] = outcome]
  /\ UNCHANGED <<call, reply>>

\* A read may leave out whole profiles when the connection breaks under it.
Read(e) ==
  /\ stage[e] = "called" /\ call[e].kind = "read"
  /\ stage' = [stage EXCEPT ![e] = "ok"]
  /\ \E F \in SUBSET Profile : reply' = [reply EXCEPT ![e] = Shown(call[e].player, F)]
  /\ UNCHANGED <<value, call>>

Fail(e) ==
  /\ stage[e] = "called"
  /\ stage' = [stage EXCEPT ![e] = "failed"]
  /\ UNCHANGED <<value, call, reply>>

Finish(e) ==
  /\ stage[e] \in {"ok", "failed"}
  /\ stage' = [stage EXCEPT ![e] = "idle"]
  /\ reply' = [reply EXCEPT ![e] = [x \in {} |-> Absent]]
  /\ UNCHANGED <<value, call>>

Forget(p, F) ==
  /\ value' = [x \in Register |-> IF x[1] = p /\ x[2] \in F THEN Absent ELSE value[x]]
  /\ UNCHANGED <<stage, call, reply>>

Crash ==
  /\ stage' = [e \in Editor |-> "idle"]
  /\ reply' = [e \in Editor |-> [x \in {} |-> Absent]]
  /\ UNCHANGED <<value, call>>

Next ==
  \/ \E e \in Editor :
       \/ \E c \in Call : Begin(e, c)
       \/ Refuse(e) \/ Write(e) \/ Read(e) \/ Fail(e) \/ Finish(e)
  \/ \E p \in Player, F \in SUBSET Profile : Forget(p, F)
  \/ Crash

Spec == Init /\ [][Next]_vars
=============================================================================
