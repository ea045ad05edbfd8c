----------------------------- MODULE MCPipeline -----------------------------
(***************************************************************************)
(* Command lines for Pipeline: two files, whose types, values and fields   *)
(* are named so as to meet the names made from others; the first sees the  *)
(* second, is seen by it or neither.                                       *)
(***************************************************************************)
EXTENDS Pipeline

Field(kind, name, of) == [kind |-> kind, name |-> name, of |-> of]
Plain(kind, name) == Field(kind, name, <<>>)
Message(name, fields) == [name |-> name, fields |-> fields]
Enum(name, values) == [name |-> name, values |-> values]

Digits == {ToString(d) : d \in 0..9}

X == <<<<"x">>>>

\* Fields of message A, in the first file, and of a message N after it.
OfA == {
  <<>>,
  <<Plain("bytes", X), Plain("scalar", <<<<"int">>>>)>>,
  <<Plain("values", X), Plain("scalar", <<<<"x", "iter", "ok">>>>)>>,
  <<Plain("values", X), Plain("values", <<<<"x">>, <<"packed">>>>), Plain("scalar", X)>>,
  <<Field("message", X, <<1, 1>>)>>,
  <<Field("map", X, <<1, 2>>)>>,
  <<Field("messages", X, <<1, 2>>)>> }

OfN == { <<>>, <<Field("message", <<<<"a">>>>, <<1, 1>>)>> }

\* The other file's enum, and its message B.
Enums2 == {
  Enum(<<<<"A">>, <<"tsize">>>>, <<<<"nonneg">>, <<"pos">>>>),
  Enum(<<<<"A", "encode", "x">>>>, <<<<"at">>>>),
  Enum(<<<<"A", "encode">>>>, <<<<"at">>, <<"x", "at">>>>),
  Enum(<<<<"A">>, <<"reader">>>>, <<<<"ok">>, <<"1", "ok">>>>),
  Enum(<<<<"A", "reader", "x", "iter">>>>, <<<<"ok">>>>),
  Enum(<<<<"gremlin">>>>, <<<<"bytes">>, <<"1">>>>) }

Names2 == { <<<<"B">>>>, <<<<"gremlin">>, <<"bytes">>>>, <<<<"int">>>>,
            <<<<"A", "reader">>>>, <<<<"A">>, <<"reader">>, <<"get">>>>, <<<<"A", "x">>, <<"entry">>>> }

Fields2(imports) ==
  {<<>>, <<Plain("scalar", <<<<"ok">>>>)>>}
    \cup (IF imports = <<1>> THEN {<<Field("message", X, <<1, 1>>)>>} ELSE {})

File(imports, enums, messages) == [imports |-> imports, enums |-> enums, messages |-> messages]

Pairs ==
  {<<File(i[1], <<>>, <<Message(<<<<"A">>>>, a \o i[3]), Message(<<<<"A">>, <<"N">>>>, n)>>),
     File(i[2], <<e>>, <<Message(b, f)>>)>> :
     a \in OfA, n \in OfN, e \in Enums2, b \in Names2, f \in Fields2(<<>>),
     i \in {<<<<>>, <<>>, <<>>>>, <<<<2>>, <<>>, <<Field("message", <<<<"b">>>>, <<2, 1>>)>>>>}}
  \cup
  {<<File(<<>>, <<>>, <<Message(<<<<"A">>>>, a), Message(<<<<"A">>, <<"N">>>>, <<>>)>>),
     File(<<1>>, <<e>>, <<Message(b, f)>>)>> :
     a \in OfA, e \in Enums2, b \in Names2, f \in Fields2(<<1>>)}

(* What gremlind_topo_sort_messages lists: each message after those of its *)
(* file it holds, other than through itself.  MessageOrder has the         *)
(* algorithm.                                                              *)
RECURSIVE Visit(_, _, _, _)
Visit(s, f, so, m) ==
  IF m \in so.seen THEN so
  ELSE LET below == FoldLeft(LAMBDA acc, fd :
                      IF fd.of # <<>> /\ fd.of[1] = f THEN Visit(s, f, acc, fd.of[2]) ELSE acc,
                      [so EXCEPT !.seen = @ \cup {m}], s[f].messages[m].fields)
       IN  [below EXCEPT !.order = Append(@, m)]

DepthFirst(s, f) ==
  FoldLeft(LAMBDA so, m : Visit(s, f, so, m), [seen |-> {}, order |-> <<>>],
           [m \in DOMAIN s[f].messages |-> m]).order
=============================================================================
