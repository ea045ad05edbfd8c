-------------------------------- MODULE Codec --------------------------------
(***************************************************************************)
(* What the generated code does with a message: <T>_size, <T>_encode,      *)
(* <T>_reader_init and the getters, over the primitives of Wire.           *)
(*                                                                         *)
(* Types gives every message type its fields.  A field has a number, a     *)
(* label (one, repeated, map), a kind (a scalar kind, enum, bytes or       *)
(* message), the type of a message, the packing of a repeated scalar, the  *)
(* default of a singular one and the key kind of a map.  A message is the  *)
(* sequence of its fields' values.  Types do not contain themselves: a     *)
(* getter of an absent child yields an empty child, which has getters.     *)
(***************************************************************************)
EXTENDS Wire

CONSTANTS Types,        \* the fields of each message type
          Null,         \* the NULL pointer to a child message
          Written,      \* the messages one run of the program writes, by type
          Foreign       \* records other programs write, by type read

VARIABLES root,         \* the type written and read
          msgs, k,      \* the messages written to one buffer, and the current one
          phase, f,     \* where the program is, and at which field
          size, start,  \* what <T>_size returned, and where the message starts
          buf,          \* the bytes written so far
          tags, ends,   \* the tags written at top level, and where fields end
          foreign, cut, \* has a foreign field been written, a tail been lost
          r, got        \* the reader, and what its getters returned

vars == <<root, msgs, k, phase, f, size, start, buf, tags, ends, foreign, cut, r, got>>

Varint32Kinds == {"uint32", "sint32", "bool"}
Fixed32Kinds == {"fixed32", "sfixed32", "float"}
Fixed64Kinds == {"fixed64", "sfixed64", "double"}
ScalarKinds == {"int32", "int64", "uint64", "sint64", "enum"}
                 \cup Varint32Kinds \cup Fixed32Kinds \cup Fixed64Kinds

WireType(kind) == CASE kind \in Fixed32Kinds -> Wt.FIXED32
                    [] kind \in Fixed64Kinds -> Wt.FIXED64
                    [] kind \in {"bytes", "message"} -> Wt.LEN
                    [] OTHER -> Wt.VARINT

Tag(number, wt) == number * 8 + wt
Total(n(_), s) == FoldLeft(LAMBDA a, x : a + n(x), 0, s)

(***************************************************************************)
(* Scalars.  A float is its bit pattern.                                   *)
(***************************************************************************)
Unsigned(kind, v) ==
  CASE kind = "sint32" -> ZigZag(v, W32)
    [] kind = "sint64" -> ZigZag(v, W64)
    [] kind = "enum"   -> EnumWire(v)
    [] kind \in Fixed32Kinds \cup {"uint32"} -> v % 2 ^ W32
    [] OTHER           -> v % 2 ^ W64

Typed(kind, u) ==
  CASE kind \in {"int32", "enum", "sfixed32"} -> Signed(u % 2 ^ W32, W32)
    [] kind \in {"int64", "sfixed64"}         -> Signed(u, W64)
    [] kind = "sint32"                        -> UnZigZag(u % 2 ^ W32, W32)
    [] kind = "sint64"                        -> UnZigZag(u, W64)
    [] kind = "uint32"                        -> u % 2 ^ W32
    [] kind = "bool"                          -> IF u = 0 THEN 0 ELSE 1
    [] OTHER                                  -> u

ScalarSize(kind, v) ==
  CASE kind \in Fixed32Kinds        -> Bytes32
    [] kind \in Fixed64Kinds        -> Bytes64
    [] kind = "bool"                -> 1
    [] kind \in {"uint32", "sint32"} -> Varint32Size(Unsigned(kind, v))
    [] OTHER                        -> VarintSize(Unsigned(kind, v))

ScalarEncode(kind, v) ==
  CASE kind \in Fixed32Kinds -> FixedEncode(Unsigned(kind, v), Bytes32)
    [] kind \in Fixed64Kinds -> FixedEncode(Unsigned(kind, v), Bytes64)
    [] OTHER                 -> VarintEncode[Unsigned(kind, v)]

(* Elements of lists and slots of maps go through the 64-bit decoder, a     *)
(* singular uint32, sint32 or bool through the 32-bit one.  What is neither *)
(* is a slice.                                                              *)
ElementDecode(kind, src) ==
  CASE kind \in Fixed32Kinds -> FixedDecode(src, Bytes32)
    [] kind \in Fixed64Kinds -> FixedDecode(src, Bytes64)
    [] kind \in ScalarKinds \ (Fixed32Kinds \cup Fixed64Kinds) -> VarintDecode(src)
    [] OTHER                 -> BytesDecode(src)

SingularDecode(kind, src) ==
  IF kind \in Varint32Kinds THEN Varint32Decode(src) ELSE ElementDecode(kind, src)

(* The == of C on floats: a NaN equals nothing, the two zeros each other.   *)
FloatEqual(a, b, w) ==
  LET magnitude(x) == x % 2 ^ (w - 1)
      nan == 2 ^ (w - 1) - 1
  IN  /\ magnitude(a) # nan /\ magnitude(b) # nan
      /\ a = b \/ (magnitude(a) = 0 /\ magnitude(b) = 0)

(* The guard around a singular field: its default is not written.           *)
Present(fld, v) ==
  CASE fld.kind = "message" -> v # Null
    [] fld.kind = "float"   -> ~FloatEqual(v, fld.default, W32)
    [] fld.kind = "double"  -> ~FloatEqual(v, fld.default, W64)
    [] OTHER                -> v # fld.default

(***************************************************************************)
(* <T>_size: one sum over the fields, from the values alone.               *)
(***************************************************************************)
RECURSIVE MessageSize(_, _)

LenPrefixed(n) == VarintSize(n) + n

BodySize(kind, type, v) ==
  CASE kind = "bytes"   -> LenPrefixed(Len(v))
    [] kind = "message" -> LenPrefixed(IF v = Null THEN 0 ELSE MessageSize(type, v))
    [] OTHER            -> ScalarSize(kind, v)

SlotSize(number, kind, type, v) ==
  VarintSize(Tag(number, WireType(kind))) + BodySize(kind, type, v)

EntrySize(fld, e) == SlotSize(1, fld.key, "", e.key) + SlotSize(2, fld.kind, fld.type, e.value)

Packs(fld, vs) ==
  /\ fld.label = "repeated" /\ fld.kind \in ScalarKinds
  /\ \/ fld.packing = "packed" /\ Len(vs) > 0
     \/ fld.packing = "auto" /\ Len(vs) > 1

Payload(fld, vs) == LET Of(v) == ScalarSize(fld.kind, v) IN Total(Of, vs)

FieldSize(fld, v) ==
  LET tag(wt)    == VarintSize(Tag(fld.number, wt))
      Entry(e)   == tag(Wt.LEN) + LenPrefixed(EntrySize(fld, e))
      Element(x) == tag(WireType(fld.kind)) + BodySize(fld.kind, fld.type, x)
  IN  CASE fld.label = "map" -> Total(Entry, v)
        [] Packs(fld, v)     -> tag(Wt.LEN) + LenPrefixed(Payload(fld, v))
        [] fld.label = "repeated" -> Total(Element, v)
        [] fld.label = "one" -> IF Present(fld, v) THEN Element(v) ELSE 0

MessageSize(type, m) ==
  LET Of(i) == FieldSize(Types[type][i], m[i]) IN Total(Of, [i \in DOMAIN m |-> i])

(***************************************************************************)
(* <T>_encode_at.  A field is a sequence of records, a tag and a body.     *)
(* The length of a child is the size its <T>_size cached, that of an       *)
(* entry or a packed block is summed again: neither is measured.           *)
(***************************************************************************)
RECURSIVE Encode(_, _)

Body(kind, type, v) ==
  CASE kind = "bytes"   -> VarintEncode[Len(v)] \o v
    [] kind = "message" -> IF v = Null THEN VarintEncode[0]
                           ELSE VarintEncode[MessageSize(type, v)] \o Encode(type, v)
    [] OTHER            -> ScalarEncode(kind, v)

Record(number, wt, body) == [tag |-> Tag(number, wt), body |-> body]
RecordBytes(rec) == VarintEncode[rec.tag] \o rec.body

Slot(number, kind, type, v) == RecordBytes(Record(number, WireType(kind), Body(kind, type, v)))

Records(fld, v) ==
  LET Entry(e)   == Record(fld.number, Wt.LEN,
                      VarintEncode[EntrySize(fld, e)]
                        \o Slot(1, fld.key, "", e.key) \o Slot(2, fld.kind, fld.type, e.value))
      Element(x) == Record(fld.number, WireType(fld.kind), Body(fld.kind, fld.type, x))
      Block      == Record(fld.number, Wt.LEN,
                      VarintEncode[Payload(fld, v)]
                        \o FlattenSeq([j \in DOMAIN v |-> ScalarEncode(fld.kind, v[j])]))
  IN  CASE fld.label = "map" -> [j \in DOMAIN v |-> Entry(v[j])]
        [] Packs(fld, v)     -> <<Block>>
        [] fld.label = "repeated" -> [j \in DOMAIN v |-> Element(v[j])]
        [] fld.label = "one" -> IF Present(fld, v) THEN <<Element(v)>> ELSE <<>>

Bytes(records) == FlattenSeq([j \in DOMAIN records |-> RecordBytes(records[j])])

Encode(type, m) == FlattenSeq([i \in DOMAIN m |-> Bytes(Records(Types[type][i], m[i]))])

(***************************************************************************)
(* <T>_reader_init: one tag after another, an arm for each tag the type    *)
(* knows, anything else skipped.  The cache of a field keeps the last      *)
(* value, or how many elements there are and where the first one is.       *)
(***************************************************************************)
Reader(type, src) ==
  [src |-> src, offset |-> 0, error |-> "OK",
   cache |-> [i \in DOMAIN Types[type] |->
     [has |-> FALSE, value |-> <<>>, count |-> 0, first |-> 0, packed |-> FALSE]]]

Rest(rd) == From(rd.src, rd.offset)

UnpackedTag(fld) == Tag(fld.number, IF fld.label = "map" THEN Wt.LEN ELSE WireType(fld.kind))
PackedTag(fld) == Tag(fld.number, Wt.LEN)
IsPackable(fld) == fld.label = "repeated" /\ fld.kind \in ScalarKinds
TagsOf(fld) == {UnpackedTag(fld)} \cup (IF IsPackable(fld) THEN {PackedTag(fld)} ELSE {})

Advance(rd, i, d, c) ==
  IF d.error = "OK" THEN [Moved(rd, d) EXCEPT !.cache[i] = c] ELSE Moved(rd, d)

\* a singular field: the last value is kept, of a child its slice
Keep(fld, i, rd, d) ==
  Advance(rd, i, d, [rd.cache[i] EXCEPT !.has = TRUE, !.value = Typed(fld.kind, d.value)])

\* for mutation: the last element is kept instead of the first
CountedLast(c, n, at) == [c EXCEPT !.has = TRUE, !.count = @ + n, !.first = at]

\* one more of a list: `first` is where its first element was met
Counted(c, n, at) ==
  [c EXCEPT !.has = TRUE, !.count = @ + n, !.first = IF c.count = 0 THEN at ELSE @]

Conflict(rd) == [rd EXCEPT !.error = "INVALID_WIRE_TYPE"]

Elements(kind, block) ==
  CASE kind \in Fixed32Kinds -> Len(block) \div Bytes32
    [] kind \in Fixed64Kinds -> Len(block) \div Bytes64
    [] OTHER -> Cardinality({j \in DOMAIN block : block[j] < Half})

PackedArm(fld, i, at, rd, d) ==
  LET c == rd.cache[i]
  IN  IF c.count > 0 /\ ~c.packed THEN Conflict(rd)
      ELSE Advance(rd, i, d,
             [Counted(c, Elements(fld.kind, d.value), at) EXCEPT !.packed = @ \/ c.count = 0])

UnpackedArm(fld, i, at, rd) ==
  LET c == rd.cache[i]
  IN  IF c.count > 0 /\ c.packed THEN Conflict(rd)
      ELSE Advance(rd, i, ElementDecode(fld.kind, Rest(rd)), Counted(c, 1, at))

\* a list of slices counts from past the tag, one of scalars from the tag
Arm(fld, i, tag, at, rd) ==
  CASE fld.label = "one" -> Keep(fld, i, rd, SingularDecode(fld.kind, Rest(rd)))
    [] IsPackable(fld) /\ tag = PackedTag(fld) -> PackedArm(fld, i, at, rd, BytesDecode(Rest(rd)))
    [] IsPackable(fld) /\ tag # PackedTag(fld) -> UnpackedArm(fld, i, at, rd)
    [] OTHER -> Advance(rd, i, BytesDecode(Rest(rd)), Counted(rd.cache[i], 1, rd.offset))

(* An unknown field, or a known number with a wire type of its own.         *)
Miss(tag, rd) ==
  CASE tag % 8 \in {6, 7} -> Conflict(rd)
    [] tag \div 8 = 0     -> [rd EXCEPT !.error = "INVALID_FIELD_NUM"]
    [] OTHER -> Moved(rd, SkipData(Rest(rd), tag % 8))

\* the field at rd, whose tag is t
ReadField(type, rd, t) ==
  LET arms == {i \in DOMAIN Types[type] : t.value \in TagsOf(Types[type][i])}
      i    == Min(arms)
  IN  CASE t.error # "OK" -> Moved(rd, t)
        [] arms # {}      -> Arm(Types[type][i], i, t.value, rd.offset, Moved(rd, t))
        [] OTHER          -> Miss(t.value, Moved(rd, t))

Reading(rd) == rd.error = "OK" /\ rd.offset < Len(rd.src)

NextField(type, rd) == ReadField(type, rd, Varint32Decode(Rest(rd)))

RECURSIVE ReadAll(_, _)
ReadAll(type, rd) == IF Reading(rd) THEN ReadAll(type, NextField(type, rd)) ELSE rd

ReaderInit(type, src) == ReadAll(type, Reader(type, src))

(***************************************************************************)
(* Iterators.  next() reads the tags again from the first element on, so   *)
(* that fields of other numbers may lie between the elements.              *)
(***************************************************************************)
Iterator(c) ==
  [offset |-> c.first, block_end |-> 0, remaining |-> c.count, found |-> FALSE,
   error |-> "OK", out |-> <<>>]

\* past the next field, whose tag t is or is not the one looked for
Skim(tag, src, it, t) ==
  CASE t.error # "OK"         -> Moved(it, t)
    [] t.value = tag          -> [Moved(it, t) EXCEPT !.found = TRUE]
    [] t.value % 8 \in {6, 7} -> Conflict(it)
    [] OTHER -> Moved(it, Then(t, SkipData(From(src, it.offset + t.consumed), t.value % 8)))

RECURSIVE ScanOn(_, _, _)
ScanOn(tag, src, it) ==
  IF it.found \/ it.error # "OK" \/ it.offset >= Len(src) THEN it
  ELSE ScanOn(tag, src, Skim(tag, src, it, Varint32Decode(From(src, it.offset))))
Scan(tag, src, it) == ScanOn(tag, src, [it EXCEPT !.found = FALSE])

\* one element more, x as its type reads it
Yield(it, d, x) ==
  IF d.error # "OK" THEN Moved(it, d)
  ELSE [Moved(it, d) EXCEPT !.remaining = @ - 1, !.out = Append(@, x.value), !.error = x.error]

\* into the block at t, where a length l is
Open(src, t, l) ==
  CASE l.error # "OK" -> Moved(t, l)
    [] l.value > Len(src) - (t.offset + l.consumed) ->
         [Moved(t, l) EXCEPT !.error = "TRUNCATED"]
    [] OTHER -> [Moved(t, l) EXCEPT !.block_end = t.offset + l.consumed + l.value]

Opened(src, t) ==
  IF t.found /\ t.error = "OK" THEN Open(src, t, VarintDecode(From(src, t.offset))) ELSE t

\* into the next packed block that is not empty
RECURSIVE NextBlock(_, _, _)
NextBlock(fld, src, it) ==
  CASE it.error # "OK" \/ it.block_end > it.offset -> it
    [] it.error = "OK" /\ it.block_end <= it.offset /\ it.offset >= Len(src) ->
         [it EXCEPT !.error = "TRUNCATED"]
    [] OTHER -> NextBlock(fld, src, Opened(src, Scan(PackedTag(fld), src, it)))

RECURSIVE Read(_, _)

(***************************************************************************)
(* The entry of a map: key and value by their tags, in any order, the last *)
(* one of each, or the defaults of their types.  A child that another one  *)
(* replaces is read, for its errors only.                                  *)
(***************************************************************************)
Slotted(e, slot, kind, d) ==
  IF d.error = "OK" THEN [Moved(e, d) EXCEPT ![slot] = Typed(kind, d.value)] ELSE Moved(e, d)

Replace(e, fld, old) ==
  IF e.error = "OK" /\ fld.kind = "message"
  THEN [e EXCEPT !.error = ReaderInit(fld.type, old).error] ELSE e

EntryField(fld, e, t, rest) ==
  CASE t.error # "OK" -> Moved(e, t)
    [] t.value = Tag(1, WireType(fld.key)) ->
         Slotted(e, "key", fld.key, Then(t, ElementDecode(fld.key, rest)))
    [] t.value = Tag(2, WireType(fld.kind)) ->
         Replace(Slotted(e, "value", fld.kind, Then(t, ElementDecode(fld.kind, rest))), fld, e.value)
    [] t.value % 8 \in {6, 7} -> Conflict(e)
    [] OTHER -> Moved(e, Then(t, SkipData(rest, t.value % 8)))

RECURSIVE EntryFields(_, _, _, _)
EntryFields(fld, src, e, t) ==
  IF e.error # "OK" \/ e.offset >= Len(src) THEN e
  ELSE LET past == EntryField(fld, e, t, From(src, e.offset + t.consumed))
       IN  EntryFields(fld, src, past, Varint32Decode(From(src, past.offset)))

Zero(kind) == IF kind \in ScalarKinds THEN 0 ELSE <<>>

Fields(fld, src) ==
  EntryFields(fld, src, [offset |-> 0, error |-> "OK", key |-> Zero(fld.key),
                         value |-> Zero(fld.kind)], Varint32Decode(src))

Refused(e) == [error |-> e, value |-> <<>>]
Answer(v) == [error |-> "OK", value |-> v]

EntryOf(key, x) == [error |-> x.error, value |-> [key |-> key, value |-> x.value]]

ReadEntry(fld, e) ==
  CASE e.error # "OK" -> Refused(e.error)
    [] e.error = "OK" /\ fld.kind # "message" -> EntryOf(e.key, Answer(e.value))
    [] OTHER -> EntryOf(e.key, Read(fld.type, e.value))

Element(fld, v) ==
  CASE fld.label = "map" -> ReadEntry(fld, Fields(fld, v))
    [] fld.label # "map" /\ fld.kind = "message" -> Read(fld.type, v)
    [] OTHER -> Answer(Typed(fld.kind, v))

(***************************************************************************)
(* One step of an iterator, by the form of the list.                       *)
(***************************************************************************)
\* where the next element is: in a block, past a tag, or here
Sought(fld, c, src, it) ==
  CASE ~IsPackable(fld)            -> it
    [] IsPackable(fld) /\ c.packed -> NextBlock(fld, src, it)
    [] OTHER                       -> Scan(UnpackedTag(fld), src, it)

\* the element at s
Taken(fld, c, src, s) ==
  CASE IsPackable(fld) /\ c.packed -> ElementDecode(fld.kind, SubSeq(src, s.offset + 1, s.block_end))
    [] IsPackable(fld) /\ ~c.packed -> IF s.found THEN ElementDecode(fld.kind, From(src, s.offset))
                                       ELSE Failed("TRUNCATED")
    [] OTHER -> BytesDecode(From(src, s.offset))

\* after it: the block may be at its end; the next slice is looked for at once
Settled(fld, src, y) ==
  CASE IsPackable(fld) -> IF y.offset >= y.block_end THEN [y EXCEPT !.block_end = 0] ELSE y
    [] ~IsPackable(fld) /\ y.error = "OK" /\ y.remaining > 0 -> Scan(UnpackedTag(fld), src, y)
    [] OTHER -> y

Delivered(fld, src, s, d) == Settled(fld, src, Yield(s, d, Element(fld, d.value)))

IteratorNext(fld, c, src, s) ==
  IF s.error # "OK" THEN s ELSE Delivered(fld, src, s, Taken(fld, c, src, s))

RECURSIVE Iterate(_, _, _, _)
Iterate(fld, c, src, it) ==
  IF it.remaining = 0 \/ it.error # "OK" THEN [error |-> it.error, value |-> it.out]
  ELSE Iterate(fld, c, src, IteratorNext(fld, c, src, Sought(fld, c, src, it)))

(* The value on the wire, or the default declared for the field; of a child *)
(* what reader_init and the getters of its type make of the slice.          *)
Getter(fld, c, src) ==
  CASE fld.label # "one" -> Iterate(fld, c, src, Iterator(c))
    [] fld.label = "one" /\ fld.kind = "message" -> Read(fld.type, c.value)
    [] OTHER -> Answer(IF c.has THEN c.value ELSE fld.default)

AllOf(answers) ==
  LET failed == {i \in DOMAIN answers : answers[i].error # "OK"}
  IN  IF failed # {} THEN Refused(answers[Min(failed)].error)
      ELSE Answer([i \in DOMAIN answers |-> answers[i].value])

Values(type, rd) ==
  IF rd.error # "OK" THEN Refused(rd.error)
  ELSE AllOf([i \in DOMAIN Types[type] |-> Getter(Types[type][i], rd.cache[i], rd.src)])

Read(type, src) == Values(type, ReaderInit(type, src))

(***************************************************************************)
(* A program that writes one or two messages to a buffer and reads it      *)
(* back.  Another program may have written a field of its own in between;  *)
(* the tail of the buffer may be lost on the way.                          *)
(***************************************************************************)
Init ==
  /\ root \in DOMAIN Written
  /\ msgs \in Written[root] /\ k = 1
  /\ phase = "size" /\ f = 1
  /\ size = 0 /\ start = 0
  /\ buf = <<>> /\ tags = {} /\ ends = {0}
  /\ foreign = FALSE /\ cut = FALSE
  /\ r = Reader(root, <<>>) /\ got = <<>>

Size ==
  /\ phase = "size"
  /\ size' = MessageSize(root, msgs[k]) /\ start' = Len(buf)
  /\ phase' = "encode" /\ f' = 1
  /\ UNCHANGED <<root, msgs, k, buf, tags, ends, foreign, cut, r, got>>

\* the bytes of some records, at the end of the buffer
AppendRecords(records) ==
  /\ buf' = buf \o Bytes(records)
  /\ tags' = tags \cup {records[j].tag : j \in DOMAIN records}
  /\ ends' = ends \cup {Len(buf) + Len(Bytes(SubSeq(records, 1, j))) : j \in DOMAIN records}

EncodeField ==
  /\ phase = "encode" /\ f <= Len(Types[root])
  /\ AppendRecords(Records(Types[root][f], msgs[k][f]))
  /\ f' = f + 1
  /\ UNCHANGED <<root, msgs, k, phase, size, start, foreign, cut, r, got>>

Encoded ==
  /\ phase = "encode" /\ f > Len(Types[root])
  /\ IF k < Len(msgs) THEN phase' = "size" /\ k' = k + 1 ELSE phase' = "wire" /\ UNCHANGED k
  /\ UNCHANGED <<root, msgs, f, size, start, buf, tags, ends, foreign, cut, r, got>>

OtherProgram ==
  /\ phase \in {"size", "wire"} /\ ~foreign /\ ~cut
  /\ \E rec \in Foreign[root] : AppendRecords(<<rec>>)
  /\ foreign' = TRUE
  /\ UNCHANGED <<root, msgs, k, phase, f, size, start, cut, r, got>>

LoseTail ==
  /\ phase = "wire" /\ ~cut
  /\ \E n \in 0 .. Len(buf) - 1 : buf' = SubSeq(buf, 1, n)
  /\ cut' = TRUE
  /\ UNCHANGED <<root, msgs, k, phase, f, size, start, tags, ends, foreign, r, got>>

StartReading ==
  /\ phase = "wire"
  /\ phase' = "read" /\ r' = Reader(root, buf)
  /\ UNCHANGED <<root, msgs, k, f, size, start, buf, tags, ends, foreign, cut, got>>

ReadOne ==
  /\ phase = "read" /\ Reading(r)
  /\ r' = NextField(root, r)
  /\ UNCHANGED <<root, msgs, k, phase, f, size, start, buf, tags, ends, foreign, cut, got>>

HaveRead ==
  /\ phase = "read" /\ ~Reading(r)
  /\ phase' = IF r.error = "OK" THEN "get" ELSE "done"
  /\ f' = 1
  /\ UNCHANGED <<root, msgs, k, size, start, buf, tags, ends, foreign, cut, r, got>>

Get ==
  /\ phase = "get" /\ f <= Len(Types[root])
  /\ got' = Append(got, Getter(Types[root][f], r.cache[f], r.src))
  /\ f' = f + 1
  /\ UNCHANGED <<root, msgs, k, phase, size, start, buf, tags, ends, foreign, cut, r>>

HaveGot ==
  /\ phase = "get" /\ f > Len(Types[root])
  /\ phase' = "done"
  /\ UNCHANGED <<root, msgs, k, f, size, start, buf, tags, ends, foreign, cut, r, got>>

Next == \/ Size \/ EncodeField \/ Encoded \/ OtherProgram \/ LoseTail
        \/ StartReading \/ ReadOne \/ HaveRead \/ Get \/ HaveGot

Spec == Init /\ [][Next]_vars

(***************************************************************************)
(* Properties.                                                             *)
(***************************************************************************)

(* The buffer holds bytes, and the reader's offset, first offsets and       *)
(* counts stay inside what it reads.                                        *)
TypeOK ==
  /\ phase \in {"size", "encode", "wire", "read", "get", "done"}
  /\ k \in 1 .. Len(msgs) /\ f \in 1 .. Len(Types[root]) + 1
  /\ buf \in Seq(Byte) /\ ends \subseteq Nat
  /\ r.error \in Errors /\ r.offset \in 0 .. Len(r.src)
  /\ \A i \in DOMAIN r.cache :
       LET c == r.cache[i] IN c.count <= r.offset /\ (c.count > 0 => c.first < r.offset)

(* <T>_encode writes exactly the bytes <T>_size promised, which is all the  *)
(* caller allocated: never more on the way, and none short at the end.      *)
SizeExact ==
  phase = "encode" =>
    /\ Len(buf) - start <= size
    /\ f > Len(Types[root]) => Len(buf) - start = size

(* What a reader of the messages written one after another is to find: the  *)
(* last of the singular values that were not left out, all the elements of  *)
(* the lists and maps.                                                      *)
RECURSIVE Merged(_, _)

Merged(type, ms) ==
  LET Back(fld, v) == IF fld.kind # "message" THEN v
                      ELSE Merged(fld.type, IF v = Null THEN <<>> ELSE <<v>>)
      One(fld, i) ==
        LET set == {j \in DOMAIN ms : Present(fld, ms[j][i])}
        IN  IF set # {} THEN Back(fld, ms[Max(set)][i])
            ELSE IF fld.kind = "message" THEN Back(fld, Null) ELSE fld.default
      All(fld, i) ==
        LET vs == FlattenSeq([j \in DOMAIN ms |-> ms[j][i]])
        IN  [j \in DOMAIN vs |->
              IF fld.label = "map" THEN [vs[j] EXCEPT !.value = Back(fld, @)]
              ELSE Back(fld, vs[j])]
  IN  [i \in DOMAIN Types[type] |->
        LET fld == Types[type][i] IN IF fld.label = "one" THEN One(fld, i) ELSE All(fld, i)]

(* A list of scalars is on the wire in both of its forms.                   *)
MixedForms ==
  \E i \in DOMAIN Types[root] : IsPackable(Types[root][i]) /\ TagsOf(Types[root][i]) \subseteq tags

(* The getters return what was written, whatever another program put in     *)
(* between; the reader refuses the buffer only for a list in both forms.    *)
ReadsWhatWasWritten ==
  phase = "done" /\ ~cut =>
    IF MixedForms THEN r.error = "INVALID_WIRE_TYPE"
    ELSE /\ r.error = "OK"
         /\ got = [i \in DOMAIN Types[root] |->
                    [error |-> "OK", value |-> Merged(root, msgs)[i]]]

(* A buffer that lost its tail is accepted only when it ends between fields. *)
TruncationDetected == phase = "done" /\ cut /\ r.error = "OK" => Len(buf) \in ends

(* emit_repeated_scalar.c says of a list that "mixed forms are rejected     *)
(* with INVALID_WIRE_TYPE".                                                 *)
MixedFormsRejected ==
  phase = "done" /\ ~cut /\ MixedForms => r.error = "INVALID_WIRE_TYPE"
=============================================================================
