-------------------------------- MODULE Wire --------------------------------
(***************************************************************************)
(* The protobuf wire primitives of the runtime header, as pure operators   *)
(* over sequences of bytes.  The C code fixes a byte of 7 payload bits and *)
(* one continuation bit, integers of 4 and of 8 bytes; here the widths are *)
(* constants, so that TLC can walk every boundary on a small analogue: a   *)
(* byte of Group + 1 bits, integers of Bytes32 and of Bytes64 bytes.  The  *)
(* analogue keeps what the boundaries depend on: neither width is a        *)
(* multiple of Group, so the last byte of the longest varint is partial.   *)
(***************************************************************************)
EXTENDS Integers, Sequences, FiniteSetsExt, SequencesExt

CONSTANTS Group, Bytes32, Bytes64

ASSUME WidthAssumption ==
  /\ Group \in Nat \ {0, 1, 2}
  /\ Bytes32 \in Nat \ {0} /\ Bytes64 \in Nat /\ Bytes32 < Bytes64

Half == 2 ^ Group                      \* 128 in the code
Byte == 0 .. 2 * Half - 1
W32 == Bytes32 * (Group + 1)
W64 == Bytes64 * (Group + 1)

Wt == [VARINT |-> 0, FIXED64 |-> 1, LEN |-> 2, SGROUP |-> 3, EGROUP |-> 4, FIXED32 |-> 5]

Errors == {"OK", "TRUNCATED", "OVERFLOW", "INVALID_WIRE_TYPE", "INVALID_FIELD_NUM"}

Signed(u, w) == IF u < 2 ^ (w - 1) THEN u ELSE u - 2 ^ w
From(src, offset) == SubSeq(src, offset + 1, Len(src))

(***************************************************************************)
(* Varints.  The size comes from the bit width of the value, the bytes     *)
(* from a loop of its own that divides by 128: nothing but arithmetic      *)
(* makes the two agree.                                                    *)
(***************************************************************************)
\* for mutation: the bits divided by 7, and one more byte
VarintSizeRounded(v) ==
  LET bits == CHOOSE n \in 0 .. W64 : v < 2 ^ n /\ (n = 0 \/ 2 ^ (n - 1) <= v)
  IN  bits \div Group + 1

VarintSize(v) ==
  IF v = 0 THEN 1
  ELSE LET bits == CHOOSE n \in 1 .. W64 : 2 ^ (n - 1) <= v /\ v < 2 ^ n
       IN  (bits + Group - 1) \div Group

Varint32Size(v) ==
  LET bands == {k \in 1 .. W32 \div Group : v < Half ^ k}
  IN  IF bands = {} THEN W32 \div Group + 1 ELSE Min(bands)

VarintEncode[v \in Nat] ==
  IF v < Half THEN <<v>> ELSE <<Half + (v % Half)>> \o VarintEncode[v \div Half]

Failed(e) == [value |-> 0, consumed |-> 0, error |-> e]
Decoded(v, n) == [value |-> v, consumed |-> n, error |-> "OK"]

(* At most `bytes` bytes are read; the bits past the width are shifted out. *)
Leb128(buf, bytes, width) ==
  LET last == {k \in 1 .. Min({Len(buf), bytes}) : buf[k] < Half}
  IN  IF last # {}
      THEN LET n == Min(last)
           IN  Decoded(MapThenSumSet(LAMBDA k : (buf[k] % Half) * Half ^ (k - 1), 1 .. n)
                         % 2 ^ width, n)
      ELSE Failed(IF Len(buf) >= bytes THEN "OVERFLOW" ELSE "TRUNCATED")

VarintDecode(buf) == Leb128(buf, W64 \div Group + 1, W64)
Varint32Decode(buf) == Leb128(buf, W32 \div Group + 1, W32)

(***************************************************************************)
(* Fixed-width integers, little-endian.                                    *)
(***************************************************************************)
FixedEncode(v, bytes) == [k \in 1 .. bytes |-> (v \div (2 * Half) ^ (k - 1)) % (2 * Half)]

FixedDecode(buf, bytes) ==
  IF Len(buf) < bytes THEN Failed("TRUNCATED")
  ELSE Decoded(MapThenSumSet(LAMBDA k : buf[k] * (2 * Half) ^ (k - 1), 1 .. bytes), bytes)

(***************************************************************************)
(* A length and as many bytes; the value is the slice.                     *)
(***************************************************************************)
\* for mutation: a slice past the end is clipped to it
SliceClipped(buf, d) ==
  IF d.error # "OK" THEN d
  ELSE Decoded(SubSeq(buf, d.consumed + 1, Min({Len(buf), d.consumed + d.value})),
               Min({Len(buf), d.consumed + d.value}))

Slice(buf, d) ==
  CASE d.error # "OK" -> d
    [] d.value > Len(buf) - d.consumed -> Failed("TRUNCATED")
    [] OTHER -> Decoded(SubSeq(buf, d.consumed + 1, d.consumed + d.value),
                        d.consumed + d.value)

BytesDecode(buf) == Slice(buf, VarintDecode(buf))

(***************************************************************************)
(* What reads a buffer has an offset and an error.                         *)
(***************************************************************************)
\* past what was decoded, or nowhere; and two decoded after one another
Moved(x, d) ==
  IF d.error # "OK" THEN [x EXCEPT !.error = d.error]
  ELSE [x EXCEPT !.offset = @ + d.consumed]
Then(t, d) == [d EXCEPT !.consumed = t.consumed + @]

(***************************************************************************)
(* The bytes of a field nobody reads, by the wire type of its tag.  A      *)
(* group is skipped by counting: a start tag opens a level, an end tag     *)
(* closes one, whatever their field numbers.                               *)
(***************************************************************************)
Skipped(n) == Decoded(0, n)

\* for mutation: integers of a fixed width are taken to be there
SkipPayloadUnchecked(buf, wt) ==
  CASE wt = Wt.VARINT  -> VarintDecode(buf)
    [] wt = Wt.FIXED32 -> Skipped(Bytes32)
    [] wt = Wt.FIXED64 -> Skipped(Bytes64)
    [] wt = Wt.LEN     -> BytesDecode(buf)

SkipPayload(buf, wt) ==
  CASE wt = Wt.VARINT  -> VarintDecode(buf)
    [] wt = Wt.FIXED32 -> IF Len(buf) < Bytes32 THEN Failed("TRUNCATED") ELSE Skipped(Bytes32)
    [] wt = Wt.FIXED64 -> IF Len(buf) < Bytes64 THEN Failed("TRUNCATED") ELSE Skipped(Bytes64)
    [] wt = Wt.LEN     -> BytesDecode(buf)

\* The field of a group at g, with this tag.
SkipTag(buf, g, t) ==
  LET wt == t.value % 8
  IN  CASE t.error # "OK"  -> [g EXCEPT !.error = t.error]
        [] wt \in {6, 7}   -> [g EXCEPT !.error = "INVALID_WIRE_TYPE"]
        [] wt = Wt.SGROUP  -> [Moved(g, t) EXCEPT !.depth = @ + 1]
        [] wt = Wt.EGROUP  -> [Moved(g, t) EXCEPT !.depth = @ - 1]
        [] OTHER -> Moved(g, Then(t, SkipPayload(From(buf, g.offset + t.consumed), wt)))

\* A buffer that ends inside the group has no tag there.
RECURSIVE SkipGroup(_, _)
SkipGroup(buf, g) ==
  CASE g.error # "OK" -> Failed(g.error)
    [] g.error = "OK" /\ g.depth = 0 -> Skipped(g.offset)
    [] OTHER -> SkipGroup(buf, SkipTag(buf, g, VarintDecode(From(buf, g.offset))))

SkipData(buf, wt) ==
  CASE wt = Wt.SGROUP -> SkipGroup(buf, [depth |-> 1, offset |-> 0, error |-> "OK"])
    [] wt = Wt.EGROUP -> Failed("INVALID_WIRE_TYPE")
    [] OTHER          -> SkipPayload(buf, wt)

(***************************************************************************)
(* Signed integers: zigzag, (v << 1) ^ sign, and its inverse.              *)
(***************************************************************************)
Complement(u, w) == 2 ^ w - 1 - u
ZigZag(v, w) == LET u == (2 * v) % 2 ^ w IN IF v < 0 THEN Complement(u, w) ELSE u
UnZigZag(u, w) == Signed(IF u % 2 = 0 THEN u \div 2 ELSE Complement(u \div 2, w), w)

(* An enum is an int32, sign-extended.                                      *)
EnumWire(v) == Signed(v % 2 ^ W32, W32) % 2 ^ W64
=============================================================================
