----------------------------- MODULE NbtReader ------------------------------
(***************************************************************************)
(* The NBT decoder: nbt.Decode and the methods of NbtReaderImpl.           *)
(*                                                                         *)
(* Each method asks the reader below once for a number of bytes and looks  *)
(* at its error only, not at how many bytes it got.  Reader and decoder    *)
(* are therefore modelled together: an operator takes the reader and       *)
(* returns an outcome, the value and the reader after it.                  *)
(*                                                                         *)
(* A byte has four bits here instead of eight.  Tag types and the counts   *)
(* and lengths of small items fit, lengths keep their number of bytes and  *)
(* their sign.  Floats, doubles and longs stay bytes.                      *)
(***************************************************************************)
EXTENDS NbtValues, SequencesExt

\* Types read knows; for any other it reads nothing and returns a nil tag.
KnownType == TAG_BYTE .. TAG_LONG_ARRAY

Byte == 0 .. 15

\* BigEndian.Uint16 and Uint32, and the conversion to a signed integer.
Unsigned(bytes) == FoldLeft(LAMBDA n, b : 16 * n + b, 0, bytes)
Signed(bytes) ==
  IF Head(bytes) >= 8 THEN Unsigned(bytes) - 16 ^ Len(bytes) ELSE Unsigned(bytes)

-----------------------------------------------------------------------------
\* The reader below: bufio's over the bytes, or gzip's, whose buffer or window is
\* emptied every chunk bytes.  gzip's reports the end with the last bytes (early),
\* bufio's at the next call.  Strings are shorter than a chunk here; bufio reads
\* longer ones past its buffer.  The field short records whether a Read returned
\* fewer bytes than asked for.
Reader(data, chunk, early) ==
  [data |-> data, chunk |-> chunk, early |-> early, at |-> 0, short |-> FALSE]

Read(reader, n) ==
  LET left == Len(reader.data) - reader.at
      got == Min({n, left, reader.chunk - (reader.at % reader.chunk)})
  IN [ bytes |-> [i \in 1 .. n |-> IF i <= got THEN reader.data[reader.at + i] ELSE 0],
       got |-> got,
       err |-> (got = 0 /\ n > 0) \/ (reader.early /\ got = left),
       reader |-> [reader EXCEPT !.at = @ + got, !.short = @ \/ got < n] ]

\* An error that comes with the byte is not one.  Mutant: it is.
readByteStrict(reader) ==
  LET r == Read(reader, 1) IN IF r.err THEN Failed(r.reader) ELSE Got(r.bytes[1], r.reader)
readByte(reader) ==
  LET r == Read(reader, 1) IN
  IF r.err /\ r.got = 0 THEN Failed(r.reader) ELSE Got(r.bytes[1], r.reader)

\* The common part of all other methods: an error that comes with bytes is one,
\* bytes that did not come are zero.
readBytes(reader, n) ==
  LET r == Read(reader, n) IN IF r.err THEN Failed(r.reader) ELSE Got(r.bytes, r.reader)

readShort(reader) == Then(readBytes(reader, 2), LAMBDA b, r : Got(Signed(b), r))
readInt(reader) == Then(readBytes(reader, 4), LAMBDA b, r : Got(Signed(b), r))
readLong(reader) == readBytes(reader, 8)
readFloat(reader) == readBytes(reader, 4)
readDouble(reader) == readBytes(reader, 8)

\* make panics on a negative length.
WithLength(reader, Next(_, _)) ==
  Then(readInt(reader), LAMBDA n, r : IF n < 0 THEN Panicked ELSE Next(n, r))

readByteArray(reader) == WithLength(reader, LAMBDA n, r : readBytes(r, n))

\* The length is made unsigned.
readString(reader) == Then(readShort(reader), LAMBDA n, r : readBytes(r, n % (16 ^ 2)))

RECURSIVE read(_, _), readElements(_, _, _), readEntries(_, _)

\* The loops of readList, readIntArray and readLongArray.
readElements(reader, type, n) ==
  IF type \notin KnownType
    THEN Got([i \in 1 .. n |-> 0], reader)
    ELSE IF n = 0
      THEN Got(<<>>, reader)
      ELSE Then(read(reader, type), LAMBDA v, r :
             Then(readElements(r, type, n - 1), LAMBDA vs, last : Got(<<v>> \o vs, last)))

readList(reader) ==
  Then(readByte(reader), LAMBDA type, afterType :
    WithLength(afterType, LAMBDA n, afterLength :
      Then(readElements(afterLength, type, n), LAMBDA vs, r :
        Got([type |-> type, values |-> vs], r))))

readIntArray(reader) == WithLength(reader, LAMBDA n, r : readElements(r, TAG_INT, n))
readLongArray(reader) == WithLength(reader, LAMBDA n, r : readElements(r, TAG_LONG, n))

\* The loop of readCompound.  A later entry of the same name replaces an earlier.
readEntries(reader, backing) ==
  Then(readByte(reader), LAMBDA type, afterType :
    IF type = TAG_END
      THEN Got(backing, afterType)
      ELSE Then(readString(afterType), LAMBDA name, afterName :
             Then(read(afterName, type), LAMBDA v, r :
               readEntries(r, (name :> [type |-> type, value |-> v]) @@ backing))))

readCompound(reader) == readEntries(reader, <<>>)

read(reader, type) ==
  CASE type = TAG_BYTE -> readByte(reader)
    [] type = TAG_SHORT -> readShort(reader)
    [] type = TAG_INT -> readInt(reader)
    [] type = TAG_LONG -> readLong(reader)
    [] type = TAG_FLOAT -> readFloat(reader)
    [] type = TAG_DOUBLE -> readDouble(reader)
    [] type = TAG_BYTE_ARRAY -> readByteArray(reader)
    [] type = TAG_STRING -> readString(reader)
    [] type = TAG_LIST -> readList(reader)
    [] type = TAG_COMPOUND -> readCompound(reader)
    [] type = TAG_INT_ARRAY -> readIntArray(reader)
    [] type = TAG_LONG_ARRAY -> readLongArray(reader)
    [] OTHER -> Got(0, reader)

readUnnamed(reader) ==
  Then(readByte(reader), LAMBDA type, afterType :
    IF type = TAG_END
      THEN Got(NoTag, afterType)
      ELSE Then(readString(afterType), LAMBDA name, afterName :
             Then(read(afterName, type), LAMBDA v, r : Got([type |-> type, value |-> v], r))))

\* A gzip header that is not one leaves a nil reader, which the deferred Close is
\* called on.
Decode(form, data, chunk) ==
  CASE form = "bad gzip" -> Panicked
    [] form = "gzip" -> readUnnamed(Reader(data, chunk, TRUE))
    [] form = "plain" ->
         IF Len(data) < 2
           THEN Failed(Reader(data, chunk, FALSE))
           ELSE readUnnamed(Reader(data, chunk, FALSE))

=============================================================================
