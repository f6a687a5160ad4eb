-------------------------------- MODULE Codec --------------------------------
(***************************************************************************)
(* The binary encoding of metadata operations and records                  *)
(* (tartine-meta/codec.rs): WAL payloads, and values of the INODES table.  *)
(*                                                                         *)
(* A layout says which fields a type has, in which order and how wide.     *)
(* Every encode_x and every decode_x of the source has a layout of its     *)
(* own; Write interprets the former and Read the latter.  A byte is a      *)
(* number; an integer below 256 is that byte and zeros, little endian.  No *)
(* larger integer is ever written; one that is read is Large.              *)
(* A Uuid is the pair of its 64-bit halves, low one first.                 *)
(***************************************************************************)
EXTENDS Integers, Sequences, SequencesExt

U(width)        == [kind |-> "int", width |-> width]
UuidLayout      == [kind |-> "uuid"]
Vec(layout)     == [kind |-> "vec", of |-> layout]
Struct(fields)  == [kind |-> "struct", fields |-> fields]    \* <<name, layout>> pairs
OneOf(variants) == [kind |-> "enum", variants |-> variants]  \* <<tag, fields>> pairs, from 0
Optional(layout) == [kind |-> "option", of |-> layout]
MapOf(layout)   == [kind |-> "map", of |-> layout]           \* a HashMap<Uuid, _>
Roles           == [kind |-> "roles"]

None  == [tag |-> "None"]
Large == -1

Units(tags) == OneOf([i \in 1 .. Len(tags) |-> <<tags[i], <<>>>>])

Zeros(n)   == [i \in 1 .. n |-> 0]
Num(w, v)  == <<v>> \o Zeros(w - 1)
Bool(b)    == IF b THEN 1 ELSE 0

-----------------------------------------------------------------------------
(* Encoder and what the encode functions share.  order is the order in      *)
(* which a HashMap iterates over its keys.                                  *)
RECURSIVE Write(_, _, _)
Write(layout, v, order) ==
    LET Fields(fields) == FlattenSeq([i \in 1 .. Len(fields) |->
                              Write(fields[i][2], v[fields[i][1]], order)])
        Keys == SelectSeq(order, LAMBDA k : k \in DOMAIN v)
    IN CASE layout.kind = "int"    -> Num(layout.width, v)
         [] layout.kind = "uuid"   -> Num(8, v[1]) \o Num(8, v[2])
         [] layout.kind = "vec"    -> Num(4, Len(v)) \o FlattenSeq([i \in 1 .. Len(v) |->
                                          Write(layout.of, v[i], order)])
         [] layout.kind = "struct" -> Fields(layout.fields)
         [] layout.kind = "enum"   ->
                LET i == SelectInSeq(layout.variants, LAMBDA x : x[1] = v.tag)
                IN <<i - 1>> \o Fields(layout.variants[i][2])
         [] layout.kind = "option" ->
                IF v = None THEN <<0>> ELSE <<1>> \o Write(layout.of, v.some, order)
         [] layout.kind = "map"    -> Num(4, Len(Keys)) \o FlattenSeq([i \in 1 .. Len(Keys) |->
                                          Write(UuidLayout, Keys[i], order)
                                              \o Write(layout.of, v[Keys[i]], order)])
         [] layout.kind = "roles"  -> <<Bool(v.data) + 2 * Bool(v.metadata)>>

-----------------------------------------------------------------------------
(* What a read returns: a value and the position behind it.  A read beyond  *)
(* the end of the slice, or of an unknown tag, panics.                      *)
Got(v, pos) == [ok |-> TRUE, val |-> v, pos |-> pos]
Panic       == [ok |-> FALSE]

(* Mutant of ReadInt: what lies beyond the end reads as zeros.              *)
ReadIntPadded(w, buf, pos) ==
    LET padded == buf \o Zeros(w)
        bytes  == SubSeq(padded, pos, pos + w - 1)
    IN IF pos > Len(buf) + 1 THEN Panic
       ELSE Got(IF \A i \in 2 .. w : bytes[i] = 0 THEN bytes[1] ELSE Large, pos + w)

(* Decoder::u8, u32, u64 and f64.                                           *)
ReadInt(w, buf, pos) ==
    LET bytes == SubSeq(buf, pos, pos + w - 1)
    IN IF pos + w - 1 > Len(buf) THEN Panic
       ELSE Got(IF \A i \in 2 .. w : bytes[i] = 0 THEN bytes[1] ELSE Large, pos + w)

Then(r, Use(_, _)) == IF r.ok THEN Use(r.val, r.pos) ELSE Panic

RECURSIVE Read(_, _, _), ReadFields(_, _, _, _), ReadMany(_, _, _, _, _)

ReadFields(fields, acc, buf, pos) ==
    IF fields = <<>> THEN Got(acc, pos)
    ELSE Then(Read(fields[1][2], buf, pos),
              LAMBDA v, p : ReadFields(Tail(fields), acc @@ (fields[1][1] :> v), buf, p))

(* n values one after the other.  There are never more of them than bytes.  *)
ReadMany(layout, n, acc, buf, pos) ==
    IF n \notin 0 .. Len(buf) THEN Panic
    ELSE IF n = 0 THEN Got(acc, pos)
    ELSE Then(Read(layout, buf, pos),
              LAMBDA v, p : ReadMany(layout, n - 1, Append(acc, v), buf, p))

(* Decoder and what the decode functions share.                             *)
Read(layout, buf, pos) ==
    CASE layout.kind = "int"    -> ReadInt(layout.width, buf, pos)
      [] layout.kind = "uuid"   ->
             Then(ReadInt(8, buf, pos), LAMBDA lo, p :
             Then(ReadInt(8, buf, p), LAMBDA hi, q : Got(<<lo, hi>>, q)))
      [] layout.kind = "vec"    ->
             Then(ReadInt(4, buf, pos), LAMBDA n, p : ReadMany(layout.of, n, <<>>, buf, p))
      [] layout.kind = "struct" -> ReadFields(layout.fields, <<>>, buf, pos)
      [] layout.kind = "enum"   ->
             Then(ReadInt(1, buf, pos), LAMBDA t, p :
                 IF t \notin 0 .. Len(layout.variants) - 1 THEN Panic
                 ELSE LET x == layout.variants[t + 1]
                      IN ReadFields(x[2], "tag" :> x[1], buf, p))
      [] layout.kind = "option" ->
             Then(ReadInt(1, buf, pos), LAMBDA b, p :
                 IF b = 0 THEN Got(None, p)
                 ELSE Then(Read(layout.of, buf, p), LAMBDA v, q : Got([some |-> v], q)))
      [] layout.kind = "map"    ->
             Then(ReadInt(4, buf, pos), LAMBDA n, p :
             Then(ReadMany(Struct(<<<<"key", UuidLayout>>, <<"value", layout.of>>>>), n, <<>>, buf, p),
                  LAMBDA v, q : Got([k \in {v[i].key : i \in DOMAIN v} |->
                                        v[SelectLastInSeq(v, LAMBDA x : x.key = k)].value], q)))
      [] layout.kind = "roles"  ->
             Then(ReadInt(1, buf, pos), LAMBDA b, p :
                 Got([data |-> b % 2 = 1, metadata |-> (b \div 2) % 2 = 1], p))
=============================================================================
