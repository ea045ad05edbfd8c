------------------------------- MODULE Entries -------------------------------
(***************************************************************************)
(* The entry parsers of gremlinp (parser/src/entries): which texts each    *)
(* accepts and where it leaves the cursor.  A text is a sequence of        *)
(* pieces: a word or part of one, a number, one white-space character, or  *)
(* a mark.  Words that touch form one identifier, so a keyword followed by *)
(* another word without a space is the beginning of an identifier, which   *)
(* the parsers do not ask about.  "optional" is two pieces, for "option"   *)
(* is the beginning of it.                                                 *)
(*                                                                         *)
(* A cursor is a position p and a limit e, the buffer's offset and         *)
(* buf_size.  A parser gives the position it ends at, or Fail, when the    *)
(* code has put the offset back; nothing is read at Fail, so a parser that *)
(* starts there fails too.  A rule is the sequence of its parts, and every *)
(* parser skips spaces between them.                                       *)
(***************************************************************************)
EXTENDS Naturals, Sequences, FiniteSetsExt, TLC

VARIABLE buf          \* the text

Fail == 0
Space == {" ", "\n"}
Digits == {"0", "7"}                     \* 7 stands for any field number
Integers == Digits \cup {"-7"}
Numbers == Integers \cup {"1.5"}
Marks == {"=", ";", ",", ".", "{", "}", "[", "]", "(", ")", "<", ">", "'",
          "/", "//", "/*", "*/"}
End == "end"                             \* what is read at the limit
IsWord(x) == x \notin Space \cup Numbers \cup Marks \cup {End}

-----------------------------------------------------------------------------
(***************************************************************************)
(* The cursor.                                                             *)
(***************************************************************************)
Char(p, e) == IF p # Fail /\ p < e THEN buf[p] ELSE End

Find(x, p, e) == Min({q \in p..(e - 1) : buf[q] = x} \cup {e})

OrElse(p, q) == IF p # Fail THEN p ELSE q

\* White space and comments.  A comment that does not end is an error that
\* leaves the offset at the limit; so is a lone slash, which it stays at.
RECURSIVE SkipSpaces(_, _), SkipFrom(_, _)
SkipSpaces(p, e) ==
  CASE Char(p, e) \in Space -> SkipSpaces(p + 1, e)
    [] Char(p, e) = "//" -> SkipSpaces(Find("\n", p, e), e)
    [] Char(p, e) = "/*" -> SkipFrom(Find("*/", p, e), e)
    [] Char(p, e) = "/" /\ p + 1 = e -> [offset |-> p, ok |-> FALSE]
    [] OTHER -> [offset |-> p, ok |-> TRUE]
SkipFrom(close, e) ==
  IF close = e THEN [offset |-> e, ok |-> FALSE] ELSE SkipSpaces(close + 1, e)

\* Spaces between two parts, the first of which ended at p.
Checked(s) == IF s.ok THEN s.offset ELSE Fail
Onward(p, e) == Checked(SkipSpaces(p, e))

\* check_str_and_shift: a prefix, whatever follows it.
Keyword(x, p, e) ==
  CASE x = "optional" -> IF Char(p, e) = "option" /\ Char(p + 1, e) = "al" THEN p + 2 ELSE Fail
    [] OTHER -> IF Char(p, e) = x THEN p + 1 ELSE Fail

-----------------------------------------------------------------------------
(***************************************************************************)
(* Lexemes.                                                                *)
(***************************************************************************)
Identifier(p, e) ==
  IF IsWord(Char(p, e))
  THEN Min({q \in p..(e - 1) : ~IsWord(buf[q]) /\ buf[q] \notin Digits} \cup {e})
  ELSE Fail

\* A dot that no identifier follows is not part of it.
RECURSIVE Dotted(_, _)
Dotted(q, e) ==
  IF Char(q, e) = "." THEN OrElse(Dotted(Identifier(q + 1, e), e), q) ELSE q
FullIdentifier(p, e) ==
  Dotted(Identifier(IF Char(p, e) = "." THEN p + 1 ELSE p, e), e)

Number(kinds, p, e) == IF Char(p, e) \in kinds THEN p + 1 ELSE Fail

StringLiteral(p, e) ==
  IF Char(p, e) = "'" /\ Find("'", p + 1, e) < Find("\n", p + 1, e)
  THEN Find("'", p + 1, e) + 1 ELSE Fail

NonEmptyString(p, e) ==
  IF Char(p + 1, e) = "'" THEN Fail ELSE StringLiteral(p, e)

Version(p, e) ==
  IF Char(p + 1, e) \in {"proto2", "proto3"} /\ StringLiteral(p, e) = p + 3
  THEN p + 3 ELSE Fail

\* A number is tried first, and "inf" and "nan" are numbers whatever follows.
ConstValue(p, e) ==
  OrElse(Number(Numbers \cup {"inf", "nan"}, p, e),
         OrElse(FullIdentifier(p, e), StringLiteral(p, e)))

\* "to" takes one white-space character with it and no other is skipped
\* before the end of the range, which is not below its beginning.
RangeFrom(p, s, e) ==
  IF Char(s, e) = "to" /\ Char(s + 1, e) \in Space
  THEN IF Char(s + 2, e) \in {"max", "7", Char(p, e)} THEN s + 3 ELSE Fail
  ELSE p + 1
NumberRange(p, e) ==
  IF Char(p, e) \in Digits THEN RangeFrom(p, SkipSpaces(p + 1, e).offset, e) ELSE Fail

OptionNamePart(p, e) ==
  IF Char(p, e) = "("
  THEN Keyword(")", FullIdentifier(IF Char(p + 1, e) = "." THEN p + 2 ELSE p + 1, e), e)
  ELSE Identifier(p, e)

RECURSIVE MoreParts(_, _)
MoreParts(q, e) ==
  IF Char(q, e) = "." THEN MoreParts(OptionNamePart(q + 1, e), e) ELSE q
OptionName(p, e) == MoreParts(OptionNamePart(p, e), e)

Optional(x, p, e) == OrElse(Keyword(x, p, e), p)

\* One label at most; and in this order, for a group, all of them.
FieldLabel(p, e) ==
  IF Char(p, e) = "option" THEN Optional("optional", p, e)
  ELSE IF Char(p, e) \in {"required", "repeated"} THEN p + 1 ELSE p

GroupLabels(p, e) ==
  Optional("repeated", Optional("required", Optional("optional", p, e), e), e)

ImportStrength(p, e) ==
  IF Char(p, e) \in {"weak", "public"} THEN p + 1 ELSE p

-----------------------------------------------------------------------------
(***************************************************************************)
(* The rules of the entries.  A part in angle brackets is a lexeme, a list *)
(* or what is in a body; the others are read as they stand.                *)
(***************************************************************************)
Syntax == <<"syntax", "=", "<version>", ";">>
Edition == <<"edition", "=", "<text>", ";">>
Package == <<"package", "<full name>", ";">>
Import == <<"import", "<strength>", "<text>", ";">>
Option == <<"option", "<option name>", "=", "<constant>", ";">>
Reserved == <<"reserved", "<reserved>", ";">>
Extensions == <<"extensions", "<ranges>", ";">>
EnumField == <<"<name>", "=", "<integer>", "<options>", ";">>
OneofField == <<"<full name>", "<name>", "=", "<field number>", "<options>", ";">>
Field == <<"<label>", "<type>", "<name>", "=", "<field number>", "<options>", ";">>
Group == <<"<labels>", "group", "<name>", "=", "<integer>", "<block>">>
Service == <<"service", "<name>", "<block>">>
Enum == <<"enum", "<name>", "{", "<enum entries>", "}">>
Oneof == <<"oneof", "<name>", "{", "<oneof entries>", "}">>
Extend == <<"extend", "<full name>", "{", "<extend entries>", "}">>
Message == <<"message", "<name>", "{", "<message entries>", "}">>

Rule == [syntax |-> Syntax, edition |-> Edition, package |-> Package,
         import |-> Import, option |-> Option, reserved |-> Reserved,
         extensions |-> Extensions, value |-> EnumField, choice |-> OneofField,
         field |-> Field, group |-> Group, service |-> Service, enum |-> Enum,
         oneof |-> Oneof, extend |-> Extend, message |-> Message,
         message_start |-> SubSeq(Message, 1, 3)]

Options == <<"[", "<items>", "]">>
OptionItem == <<"<full name>", "=", "<constant>">>
MapType == <<"map", "<", "<full name>", ",", "<full name>", ">">>

\* The kinds an iterator, or a body, tries, in this order.
EnumEntries == <<"option", "reserved", "value">>
OneofEntries == <<"option", "choice">>
ExtendEntries == <<"field">>
MessageEntries == <<"enum", "message", "oneof", "option", "extensions", "reserved",
                    "extend", "group", "field">>
FileEntries == <<"syntax", "edition", "package", "import", "option", "message",
                 "enum", "service", "extend">>

\* A message is read in one loop over the whole of its body: only the
\* beginning of a nested one is an entry, and the depth is counted.
EntriesOf(x) ==
  CASE x = "<enum entries>" -> EnumEntries
    [] x = "<oneof entries>" -> OneofEntries
    [] x = "<extend entries>" -> ExtendEntries
    [] x = "<message entries>" -> [MessageEntries EXCEPT ![2] = "message_start"]

\* The brace that closes what precedes p, by counting braces: strings are
\* stepped over, comments are not.
RECURSIVE MatchingBrace(_, _, _)
MatchingBrace(p, depth, e) ==
  CASE Char(p, e) = End -> Fail
    [] Char(p, e) = "{" -> MatchingBrace(p + 1, depth + 1, e)
    [] Char(p, e) = "}" -> IF depth = 1 THEN p ELSE MatchingBrace(p + 1, depth - 1, e)
    [] Char(p, e) = "'" -> MatchingBrace(Find("'", p + 1, e) + 1, depth, e)
    [] OTHER -> MatchingBrace(p + 1, depth, e)

RECURSIVE Part(_, _, _), Parts(_, _, _), ListOf(_, _, _), AfterItem(_, _, _),
          FirstEntry(_, _, _), Tried(_, _, _, _), ClosingBrace(_, _, _, _),
          AfterEntry(_, _, _, _)

Part(x, p, e) ==
  CASE x = "<name>" -> Identifier(p, e)
    [] x = "<full name>" -> FullIdentifier(p, e)
    [] x = "<field number>" -> Number({"7"}, p, e)
    [] x = "<integer>" -> Number(Integers, p, e)
    [] x = "<text>" -> NonEmptyString(p, e)
    [] x = "<string>" -> StringLiteral(p, e)
    [] x = "<version>" -> Version(p, e)
    [] x = "<constant>" -> ConstValue(p, e)
    [] x = "<range>" -> NumberRange(p, e)
    [] x = "<option name>" -> OptionName(p, e)
    [] x = "<label>" -> FieldLabel(p, e)
    [] x = "<labels>" -> GroupLabels(p, e)
    [] x = "<strength>" -> ImportStrength(p, e)
    [] x = "<type>" -> OrElse(IF Char(p + 1, e) = "<" THEN Parts(MapType, p, e) ELSE Fail,
                              FullIdentifier(p, e))
    [] x = "<options>" -> IF Char(p, e) = "[" THEN Parts(Options, p, e) ELSE p
    [] x = "<items>" -> IF Char(p, e) = "]" THEN p ELSE ListOf(OptionItem, p, e)
    [] x = "<ranges>" -> ListOf(<<"<range>">>, p, e)
    [] x = "<reserved>" ->
         ListOf(<<IF Char(p, e) = "'" THEN "<string>" ELSE "<range>">>, p, e)
    [] x = "<block>" ->
         IF Char(p, e) = "{" THEN Keyword("}", MatchingBrace(p + 1, 1, e), e) ELSE Fail
    [] x \in {"<enum entries>", "<oneof entries>", "<extend entries>", "<message entries>"} ->
         ClosingBrace(EntriesOf(x), 1, p, e)
    [] OTHER -> Keyword(x, p, e)

\* The parts of a rule one after the other, spaces before each.
Parts(rule, p, e) ==
  IF rule = <<>> \/ p = Fail THEN p
  ELSE Parts(Tail(rule), Part(Head(rule), Onward(p, e), e), e)

\* Items separated by commas.
ListOf(item, p, e) == AfterItem(item, Onward(Parts(item, p, e), e), e)
AfterItem(item, s, e) == IF Char(s, e) = "," THEN ListOf(item, s + 1, e) ELSE s

\* The first of the kinds that fits at p.
FirstEntry(kinds, p, e) ==
  IF kinds = <<>> THEN [kind |-> "none", start |-> p, end |-> Fail]
  ELSE Tried(Parts(Rule[Head(kinds)], p, e), kinds, p, e)
Tried(end, kinds, p, e) ==
  IF end # Fail THEN [kind |-> Head(kinds), start |-> p, end |-> end]
  ELSE FirstEntry(Tail(kinds), p, e)

\* The brace that closes a body of entries of these kinds.
ClosingBrace(kinds, depth, s, e) ==
  CASE Char(s, e) = End -> Fail
    [] Char(s, e) = ";" -> ClosingBrace(kinds, depth, Onward(s + 1, e), e)
    [] Char(s, e) = "}" ->
         IF depth = 1 THEN s ELSE ClosingBrace(kinds, depth - 1, Onward(s + 1, e), e)
    [] OTHER -> AfterEntry(kinds, depth, FirstEntry(kinds, s, e), e)
AfterEntry(kinds, depth, entry, e) ==
  ClosingBrace(kinds, IF entry.kind = "message_start" THEN depth + 1 ELSE depth,
               Onward(entry.end, e), e)

BodyStart(kind, p, e) == Parts(SubSeq(Rule[kind], 1, 3), p, e)

-----------------------------------------------------------------------------
(***************************************************************************)
(* The iterators: spaces and stray semicolons are skipped, then the kinds  *)
(* are tried in order; when none fits, the offset is put back.             *)
(***************************************************************************)
\* mutant: one semicolon is skipped.
PastOneStray(p, e) ==
  SkipSpaces(Optional(";", SkipSpaces(p, e).offset, e), e).offset

RECURSIVE PastStrays(_, _), PastStray(_, _)
PastStrays(p, e) == PastStray(SkipSpaces(p, e).offset, e)
PastStray(s, e) == IF Char(s, e) = ";" THEN PastStrays(s + 1, e) ELSE s

Iterated == [file |-> FileEntries, message |-> MessageEntries, oneof |-> OneofEntries,
             enum |-> EnumEntries]

NextEntry(where, p, e) == FirstEntry(Iterated[where], PastStrays(p, e), e)

-----------------------------------------------------------------------------
(***************************************************************************)
(* extract_option: the value of an option in an entry's list.              *)
(***************************************************************************)
RECURSIVE Search(_, _, _)
Search(name, s, e) ==
  CASE Char(s, e) \in {End, "]"} -> Fail
    [] Char(s, e) = name /\ FullIdentifier(s, e) = s + 1 ->
         Onward(Parts(<<"<full name>", "=">>, s, e), e)
    [] OTHER -> Search(name, Onward(Parts(OptionItem \o <<",">>, s, e), e), e)

\* Where the value is, or Fail.
OptionAt(name, entry, e) ==
  LET rule == Rule[entry.kind]
  IN  Search(name, Onward(Parts(SubSeq(rule, 1, Len(rule) - 2) \o <<"[">>, entry.start, e), e), e)

\* The pieces of a value.
Value(p, e) == IF p = Fail THEN <<>> ELSE SubSeq(buf, p, ConstValue(p, e) - 1)
OptionValue(name, entry, e) == Value(OptionAt(name, entry, e), e)
=============================================================================
