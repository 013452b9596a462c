----------------------------- MODULE NbtValues ------------------------------
(***************************************************************************)
(* What nbt.Decode returns: an outcome, in it a tree of tags, and the      *)
(* accessors its users call.                                               *)
(***************************************************************************)
EXTENDS Integers

TAG_END == 0
TAG_BYTE == 1
TAG_SHORT == 2
TAG_INT == 3
TAG_LONG == 4
TAG_FLOAT == 5
TAG_DOUBLE == 6
TAG_BYTE_ARRAY == 7
TAG_STRING == 8
TAG_LIST == 9
TAG_COMPOUND == 10
TAG_INT_ARRAY == 11
TAG_LONG_ARRAY == 12

-----------------------------------------------------------------------------
\* Outcomes: a value and the reader after it, an error, or a panic.

Got(v, reader) == [res |-> "ok", value |-> v, reader |-> reader]
Failed(reader) == [res |-> "error", reader |-> reader]
Panicked == [res |-> "panic"]

Then(outcome, Next(_, _)) ==
  IF outcome.res = "ok" THEN Next(outcome.value, outcome.reader) ELSE outcome

-----------------------------------------------------------------------------
\* The zero WrappedTag: Get of a name that is not there, a document of one TAG_END.
NoTag == [type |-> TAG_END, value |-> 0]

Get(compound, name) == IF name \in DOMAIN compound THEN compound[name] ELSE NoTag

\* The accessors AsByte, AsString, ...: the value, or a zero value of the type.
As(type, tag, default) == IF tag.type = type THEN tag.value ELSE default
=============================================================================
