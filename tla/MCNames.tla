------------------------------- MODULE MCNames -------------------------------
(***************************************************************************)
(* Sources for Names: two files whose packages and messages share names,   *)
(* the second seeing the first or not, with a field and an extend at each  *)
(* depth; and three files with an enum and a message of one name.          *)
(***************************************************************************)
EXTENDS Names

Open(n) == <<[is |-> "message", name |-> n]>>
End == <<[is |-> "end"]>>
Enum(n) == <<[is |-> "enum", name |-> n]>>
Fld(type) == <<[is |-> "field", type |-> type]>>
Extend(target, types) == <<[is |-> "extend", target |-> target, fields |-> types]>>

Ints == <<<<"int32">>>>
References == {<<"a">>, <<"b">>, <<"a", "b">>, <<"", "a", "b">>}
Packages == {<<>>, <<"a">>, <<"b", "a">>}

\* A message of two, one in the other, and an enum; "b" at three depths.
First == { Open("a") \o Open("b") \o Fld(Ints) \o End \o Fld(Ints) \o End \o Enum("b"),
           Open("b") \o Enum("a") \o End \o Open("a") \o Fld(Ints) \o End }

\* What extends or refers, at the top, in a message, or after one in another.
Second(x) ==
  { x, Open("a") \o x \o End, Open("b") \o Open("a") \o End \o x \o End,
    Open("a") \o Open("b") \o x \o Fld(Ints) \o End \o End }

\* An extend of one field of a named type and one map, or a field.
Parts ==
  {Extend(t, <<Ints, <<<<"int32">>, r>>>>) : t \in References, r \in References}
   \cup {Open("c") \o Fld(<<r>>) \o Fld(Ints) \o End : r \in References}

File(package, visible, text, packing) ==
  [package |-> package, visible |-> visible, text |-> text, packing |-> packing]

Pairs ==
  {<<File(p, v, a, "packed"), File(q, w, b, "expanded")>> :
     p \in Packages, q \in Packages, v \in {<<1>>, <<1, 2>>}, w \in {<<2>>, <<2, 1>>},
     a \in First, b \in UNION {Second(x) : x \in Parts}}

\* The third file extends, twice over, what the second declares, and is
\* extended by the first; a map has a message for its key.
Triples ==
  {<<File(<<"a">>, <<1, 3>>, Extend(<<"c">>, <<Ints>>) \o Enum("a"), "packed"),
     File(p, v, Open("a") \o Fld(<<<<"a">>, <<"int32">>>>) \o End, "packed"),
     File(q, w, Open("c") \o Extend(<<"a">>, <<Ints, Ints>>) \o End
                  \o Extend(<<"a">>, <<<<<<"c">>>>>>), "expanded")>> :
     p \in Packages, q \in Packages, v \in {<<2>>, <<2, 1>>}, w \in {<<3, 2>>, <<3, 1, 2>>}}

SmallSchemas == Pairs \cup Triples
=============================================================================
