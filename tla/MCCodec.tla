------------------------------- MODULE MCCodec -------------------------------
(***************************************************************************)
(* Codec on bytes of 4 bits, 8-bit and 16-bit integers.  One type for each *)
(* scalar kind, with a singular and a repeated field of it, one type with  *)
(* every other kind of field, one with declared defaults and packings, one *)
(* with float defaults.                                                    *)
(***************************************************************************)
EXTENDS Codec

CONSTANT null

MCNull == null
One(number, kind, default) ==
  [number |-> number, label |-> "one", kind |-> kind, type |-> "", key |-> "",
   packing |-> "auto", default |-> default]
Many(number, kind, packing) ==
  [One(number, kind, 0) EXCEPT !.label = "repeated", !.packing = packing]
Of(type, fld) == [fld EXCEPT !.type = type]
Map(number, key, kind) == [One(number, kind, 0) EXCEPT !.label = "map", !.key = key]

MCTypes ==
  [kind \in ScalarKinds |-> <<One(1, kind, 0), Many(2, kind, "auto")>>]
  @@ "Child" :> <<One(1, "int32", 0), Many(2, "sint32", "auto")>>
  @@ "Tree"  :> <<Of("Child", One(1, "message", null)), Of("Child", Many(3, "message", "auto")),
                  Many(8, "bytes", "auto"), Of("Child", Map(4, "sint32", "message")),
                  Map(31, "bytes", "uint32")>>
  @@ "Defaults" :> <<One(1, "int32", 5), One(2, "bytes", <<3>>), One(7, "bytes", <<>>),
                     Many(3, "uint32", "packed"), Many(4, "fixed64", "expanded")>>

Samples(kind) ==
  CASE kind \in {"int32", "enum", "sint32", "sfixed32"} -> {0, 1, -1, 127, -128}
    [] kind \in {"int64", "sint64", "sfixed64"}         -> {0, 4, -5, 32767, -32768}
    [] kind \in {"uint32", "fixed32"}                   -> {0, 7, 8, 64, 255}
    [] kind \in {"uint64", "fixed64"}                   -> {0, 63, 512, 4096, 65535}
    [] kind = "bool"                                    -> {0, 1}
    [] kind = "float"                                   -> {0, 5, 127, 128, 255}
    [] kind = "double"                                  -> {0, 300, 32767, 32768}

Lists(S) == {<<>>} \cup {<<x>> : x \in S} \cup {<<Min(S), x>> : x \in S}

ScalarMessages(kind) ==
  {<<x, <<>>>> : x \in Samples(kind)} \cup {<<0, xs>> : xs \in Lists(Samples(kind))}

\* a second message with none, one or two elements after the first one's
Pairs(kind) ==
  {<<m, n>> : m \in {<<Max(Samples(kind)), <<1>>>>, <<0, <<0, 1>>>>},
              n \in {<<0, <<>>>>, <<1, <<1>>>>, <<0, <<1, 0>>>>}}

c0 == <<0, <<>>>>
c1 == <<-1, <<1>>>>
c2 == <<7, <<-128, 127>>>>
Entry(key, value) == [key |-> key, value |-> value]

Tree == <<null, <<c1>>, <<<<>>, <<9, 0>>>>, <<>>, <<Entry(<<4>>, 8)>>>>

Trees ==
  {<<c1, <<>>, <<>>, <<>>, <<>>>>,
   <<c2, <<c0, null, c2>>, <<>>, <<>>, <<>>>>,
   Tree,
   <<c0, <<>>, <<<<15>>>>, <<Entry(-1, c2), Entry(0, null)>>, <<>>>>,
   <<null, <<>>, <<>>, <<Entry(5, c0)>>, <<Entry(<<>>, 0), Entry(<<4>>, 255)>>>>}

DefaultMessages ==
  {<<a, b, c, us, <<1, 65535>>>> : a \in {0, 5}, b \in {<<>>, <<3>>, <<4>>},
                                   c \in {<<>>, <<0>>}, us \in {<<>>, <<8>>}}

MCWritten ==
  [kind \in ScalarKinds |-> {<<m>> : m \in ScalarMessages(kind)} \cup Pairs(kind)]
  @@ "Tree" :> ({<<m>> : m \in Trees} \cup {<<m, Tree>> : m \in Trees})
  @@ "Defaults" :> ({<<m>> : m \in DefaultMessages}
                    \cup {<<m, <<5, <<>>, <<0>>, <<8>>, <<7>>>>>> :
                            m \in {<<a, <<4>>, <<>>, <<0, 9>>, <<>>>> : a \in {0, 5}}})

(* Numbers no type has, in every wire type, a group in a group with a field *)
(* after it; a number every type has, with a wire type of its own.          *)
Strangers ==
  {Record(9, Wt.VARINT, VarintEncode[65535]),
   Record(9, Wt.FIXED32, <<1, 2>>),
   Record(9, Wt.FIXED64, <<1, 2, 3, 4>>),
   Record(9, Wt.LEN, <<2, 9, 9>>),
   Record(9, Wt.SGROUP, RecordBytes(Record(1, Wt.VARINT, <<1>>))
                        \o RecordBytes(Record(2, Wt.SGROUP, <<>>))
                        \o RecordBytes(Record(3, Wt.LEN, <<1, 12>>))
                        \o RecordBytes(Record(2, Wt.EGROUP, <<>>))
                        \o RecordBytes(Record(4, Wt.FIXED32, <<1, 2>>))
                        \o RecordBytes(Record(9, Wt.EGROUP, <<>>))),
   Record(1, Wt.SGROUP, RecordBytes(Record(1, Wt.EGROUP, <<>>)))}

MCForeign == [t \in DOMAIN MCWritten |-> Strangers]

(* Packed blocks of no elements, as other writers may send them.            *)
EmptyBlocks == [t \in DOMAIN MCWritten |->
                 IF t \in ScalarKinds THEN {Record(2, Wt.LEN, <<0>>)} ELSE {}]
=============================================================================
