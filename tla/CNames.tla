------------------------------- MODULE CNames -------------------------------
(***************************************************************************)
(* The C names of generated headers (gremlinc/src/naming.c, emit_message.c *)
(* and emit_enum.c), as operators: which names are taken from the first,   *)
(* how a name that is taken moves on, and which names a type, an enum and  *)
(* a message claim, in their order.                                        *)
(*                                                                         *)
(* All names of a run share one scope, and a name that is taken gets the   *)
(* first free _1, _2, ...; a predicate's name must also miss the reserved  *)
(* ones.  A name is the sequence of what stands between its underscores,   *)
(* so joining is concatenation: foo_bar is <<"foo", "bar">>.               *)
(***************************************************************************)
EXTENDS Integers, SequencesExt

CONSTANTS
  MaxSuffix,  \* the last suffix gremlinc_name_scope_mangle tries
  Numbers     \* the words that begin with a digit

ASSUME NumbersAssumption ==
  /\ MaxSuffix \in Nat
  /\ \A k \in 1..MaxSuffix : ToString(k) \in Numbers

Keywords ==
  {<<w>> : w \in {"auto", "break", "case", "char", "const", "continue", "default", "do",
     "double", "else", "enum", "extern", "float", "for", "goto", "if", "inline", "int",
     "long", "register", "restrict", "return", "short", "signed", "sizeof", "static",
     "struct", "switch", "typedef", "union", "unsigned", "void", "volatile", "while",
     "boolean", "alignof"}}
  \cup {<<"", w>> : w \in {"Alignas", "Alignof", "Atomic", "Bool", "Complex", "Generic",
          "Imaginary", "Noreturn"}}
  \cup {<<"", "Static", "assert">>, <<"", "Thread", "local">>}

\* What generated contracts call their variables: taken before any type.
Logic ==
  {<<w>> : w \in {"integer", "b", "e", "ebuf", "elen", "eoff", "hi", "hi2", "i", "it",
     "j", "k", "len", "lo", "lo2", "m", "n", "offset", "out", "p", "q", "r", "s", "src",
     "t", "w"}}
  \cup {<<"", w>> : w \in {"bcnt", "bd", "bi", "buf", "el", "entry", "i", "off",
          "payload", "vspan"}}
  \cup {<<"gremlin", "span", "in">>, <<"gremlin", "span", "at">>, <<"enum", "wire">>,
        <<"out", "key">>, <<"out", "value">>, <<"", "child", "size">>}

(* The first of n, n_1, n_2, ... that is not taken, or NULL, which is <<>>.*)
Suffixed(n, k) == IF k = 0 THEN n ELSE Append(n, ToString(k))

First(n, taken, most) ==
  LET free(k) == Suffixed(n, k) \notin taken
  IN  IF \E k \in 0..most : free(k)
        THEN Suffixed(n, CHOOSE k \in 0..most : free(k) /\ \A j \in 0..(k - 1) : ~free(j))
        ELSE <<>>

CSafe(n) == IF n \in Keywords THEN Append(n, "") ELSE n

Mangle(s, n) == First(CSafe(n), s, MaxSuffix)

Refused(scope) == <<>> \in scope  \* a name was NULL

AvoidingScope(reserved, s, n) == Mangle(s, n)  \* mutant: the reserved names are not looked at

Avoiding(reserved, s, n) == Mangle(s, First(n, s \cup reserved, Cardinality(s \cup reserved)))

(* A public name is mangled, any other must miss the reserved ones as well *)
(* ("so a predicate does not take one").                                   *)
Public(n)  == [raw |-> n, public |-> TRUE, printed |-> TRUE]
Unused(n)  == [raw |-> n, public |-> TRUE, printed |-> FALSE]
Private(n) == [raw |-> n, public |-> FALSE, printed |-> FALSE]

(* Claims a sequence of names, one after another.                          *)
Nothing(s) == [scope |-> s, got |-> <<>>, public |-> <<>>, printed |-> <<>>]

ClaimOne(reserved, so, c) ==
  LET n == IF c.public THEN Mangle(so.scope, c.raw) ELSE Avoiding(reserved, so.scope, c.raw)
  IN  [scope |-> so.scope \cup {n}, got |-> Append(so.got, n),
       public |-> IF c.public THEN Append(so.public, n) ELSE so.public,
       printed |-> IF c.printed THEN Append(so.printed, n) ELSE so.printed]

Claim(reserved, s, claims) ==
  LET after[k \in 0..Len(claims)] ==
        IF k = 0 THEN Nothing(s) ELSE ClaimOne(reserved, after[k - 1], claims[k])
  IN  after[Len(claims)]

-----------------------------------------------------------------------------
(* Types.  gremlin_ and GREMLIN_ are the runtime's: such a name moves on   *)
(* to one with a number, which no name of gremlin.h has.                   *)
Runtime(n) == n[1] \in {"gremlin", "GREMLIN"}

Numbered(n) == \E k \in 2..Len(n) : n[k] \in Numbers

FlatJoin(t) == Public(FlattenSeq(t.name))

TypeClaimsOnce(s, t) == <<FlatJoin(t)>>  \* mutant: the runtime's prefix is not looked at

TypeClaims(s, t) ==
  LET n == Mangle(s, FlatJoin(t).raw)
  IN  IF n # <<>> /\ Runtime(n) /\ ~Numbered(n) THEN <<FlatJoin(t), FlatJoin(t)>> ELSE <<FlatJoin(t)>>

-----------------------------------------------------------------------------
(* Fields. *)
Counted(fd) == fd.kind \in {"values", "messages", "map"}
HasSpan(fd) == fd.kind \in {"bytes", "message"}

(* Members.  Two fields may read alike once capitals became underscores.   *)
SnakeCase(name) == FlattenSeq(name)

Housekeeping == {<<"src">>, <<"src", "len">>, <<"", "has">>, <<"", "size">>}

Member(so, fd) ==
  LET n == Mangle(so.scope, SnakeCase(fd.name))
      s == so.scope \cup {n}
  IN  [scope |-> IF fd.kind = "values" THEN s \cup {Mangle(s, Append(n, "packed"))} ELSE s,
       got |-> Append(so.got, n)]

MemberNames(fields) ==
  LET after[k \in 0..Len(fields)] ==
        IF k = 0 THEN [scope |-> Housekeeping, got |-> <<>>] ELSE Member(after[k - 1], fields[k])
  IN  after[Len(fields)]

Members(fields) == MemberNames(fields).got

(* For each field that has it, in their order, something made of it.       *)
PerField(fields, With(_), Names(_, _)) ==
  FlattenSeq([k \in DOMAIN fields |->
    IF With(fields[k]) THEN Names(fields[k], Members(fields)[k]) ELSE <<>>])

Each(fd) == TRUE
IsMap(fd) == fd.kind = "map"
HasSum(fd) == fd.kind \in {"values", "messages"}

(* The names of a message's functions and types, the reader's made from    *)
(* the name the reader got, with those of its getters and map entries.     *)
MainNames(t) == <<Public(Append(t, "size")), Public(Append(t, "encode")), Public(Append(t, "reader"))>>

OfFields(fields, t, r) ==
  PerField(fields, Each, LAMBDA fd, f :
    (IF Counted(fd) THEN <<Unused(Append(r, "get") \o f)>> ELSE <<Public(Append(r, "get") \o f)>>)
    \o (IF IsMap(fd) THEN <<Public(Append(t \o f, "entry"))>> ELSE <<>>))

Predicates(fields, r) ==
  <<Private(Append(r, "ok"))>>
    \o (IF \E fd \in Range(fields) : HasSpan(fd) THEN <<Private(Append(r, "spans"))>> ELSE <<>>)

IteratorPredicates(fields, r) ==
  PerField(fields, Counted, LAMBDA fd, f : <<Private(r \o f \o <<"iter", "ok">>)>>)

(* A message on the encode plan has names for the contracts of what it     *)
(* writes, and one more when it is the element of a repeated field.        *)
WriteSide(fields, t, planned, elem) ==
  IF ~planned THEN <<>>
  ELSE <<Private(t \o <<"tsize", "nonneg">>)>>
         \o (IF elem THEN <<Private(t \o <<"tsize", "pos">>)>> ELSE <<>>)
         \o PerField(fields, Each, LAMBDA fd, f :
              <<Private(Append(t, "encode") \o Append(f, "at"))>>
                \o (IF HasSum(fd) THEN <<Private(Append(t \o f, "mono"))>> ELSE <<>>))

ReaderName(reserved, s, t) == Claim(reserved, s, MainNames(t)).got[3]

MessageClaims(reserved, s, t, fields, planned, elem) ==
  LET r == ReaderName(reserved, s, t)
  IN  MainNames(t) \o <<Public(Append(r, "init"))>> \o Predicates(fields, r)
        \o OfFields(fields, t, r) \o IteratorPredicates(fields, r)
        \o WriteSide(fields, t, planned, elem)

ValueClaims(t, values) == [k \in DOMAIN values |-> Public(t \o values[k])]

(* gremlinc_reserve_public_names has two more, which emission writes       *)
(* without claiming them.                                                  *)
ReservedNames(t) ==
  <<Public(Append(t, "size")), Public(t \o <<"cached", "size">>),
    Public(Append(t, "encode")), Public(t \o <<"encode", "at">>), Public(Append(t, "reader"))>>

ReservedClaims(s, t, fields) ==
  LET r == Claim({}, s, ReservedNames(t)).got[5]
  IN  ReservedNames(t) \o <<Public(Append(r, "init"))>> \o OfFields(fields, t, r)

(* What a message's text defines, beside the names it claimed.             *)
Unclaimed(fields, t, r) ==
  <<t, t \o <<"cached", "size">>, t \o <<"encode", "at">>>>
    \o PerField(fields, Counted, LAMBDA fd, f :
         [k \in 1..4 |-> Append(r \o f, <<"iter", "count", "begin", "next">>[k])])
=============================================================================
