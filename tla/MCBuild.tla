------------------------------- MODULE MCBuild -------------------------------
(***************************************************************************)
(* Texts for Build: a file of one message with any two entries in its      *)
(* body, one of which may be a message of its own; files of three entries; *)
(* and bodies and files that end in what the iterators do not expect.      *)
(* They are read by the parsers of Entries.                                *)
(***************************************************************************)
EXTENDS Build

Parser(text) == INSTANCE Entries WITH buf <- text
ParserSkips(text, p, l) == Parser(text)!SkipSpaces(p, l).offset
ParserPasses(text, p, l) == Parser(text)!PastStrays(p, l)
ParserFinds(text, where, p, l) == Parser(text)!NextEntry(where, p, l)
ParserEnters(text, kind, p, l) == Parser(text)!BodyStart(kind, p, l)
ParserExtracts(text, name, entry, l) == Parser(text)!OptionValue(name, entry, l)

Named(keyword, name, body) == <<keyword, " ", name, "{">> \o body \o <<"}">>

Plain == <<"int32", " ", "a", "=", "7", ";">>
Choice == <<"bytes", " ", "a", "=", "7", ";">>
Packed(v) == <<"repeated", " ", "int32", " ", "a", "=", "7", " ", "[">> \o v \o <<"]", ";">>
Value == <<"A", "=", "0", ";">>

\* What may stand in a message.  A word that begins like a keyword, a comment
\* with a brace in it, and a list that ends in a comma are among them.
Entries1 ==
  { Plain, <<";">>, <<"//", "}", "\n">>, <<"/*", "'", "*/">>,
    <<"option", "al", " ", "my", ".", "T", " ", "b", "=", "7", " ", "[", "]", ";">>,
    <<"map", "<", "int32", ",", " ", "T", ">", " ", "m", "=", "7", ";">>,
    Packed(<<"packed", "=", "true">>),
    Packed(<<"default", "=", "7", ",", " ", "packed", "=", "false">>),
    <<"option", "ion", " ", "x", "=", "7", ";">>,
    <<"option", " ", "(", ".", "x", ".", "y", ")", ".", "z", "=", "1.5", ";">>,
    <<"reserved", " ", "0", " ", "to", " ", "max", ",", "7", ";">>,
    <<"reserved", " ", "'", "a", "'", ",", "'", "b", "'", ";">>,
    <<"extensions", " ", "7", " ", "to", " ", " ", "7", ";">>,
    <<"extend", " ", "T", "{">> \o Plain \o <<";", "}">>,
    <<"option", "al", " ", "group", " ", "G", "=", "7", "{", "'", "}", "'", "}">>,
    Named("oneof", "o", Choice \o <<"option", " ", "x", "=", "y", ";">> \o Choice),
    Named("oneof", "o", Choice \o <<" ", ";">>),
    Named("enum", "E", <<"option", "A", "=", "0", ";">> \o Value),
    Named("enum", "E", <<"reserved", " ", "7", ";", ";">>),
    Named("enum", "E", <<>>) }

Bodies(entries) == {<<>>} \cup entries \cup {a \o b : a, b \in entries}

Few == { Plain, <<";">>, Named("enum", "E", Value), Named("message", "N", <<>>),
         Named("message", "N", Plain \o <<";", " ">>),
         Named("message", "N", Named("message", "P", Choice) \o Plain) }

Outer == { <<"syntax", "=", "'", "proto2", "'", ";">>, <<"syntax", "=", "'", "proto3", "'", ";", "\n">>,
         <<"edition", "=", "'", "x", "'", ";">>, <<"package", " ", "a", ".", "b", ";">>,
         <<"import", " ", "public", " ", "'", "x", "'", ";">>, <<"import", "'", "'", ";">>,
         <<"option", " ", "x", "=", "inf", ";">>, <<"option", " ", "x", "=", "inf", "o", ";">>,
         <<"service", " ", "S", "{", "{", "}", "}">>, <<"extend", " ", "T", "{", "}">>,
         Named("enum", "E", Value), <<";">>, <<"//", "x">>,
         Named("message", "M", Packed(<<"default", "=", "7">>) \o Named("message", "N", Plain)) }

SmallTexts ==
  LET body == Bodies(Entries1) \cup {<<";">> \o b \o c \o a : a, b \in Few, c \in {Plain, <<" ">>}}
                               \cup {a \o b : a \in Few, b \in Entries1}
                               \cup {Named("message", "N", b) \o a : a \in Few, b \in Entries1}
  IN  {Named("message", "M", b) : b \in body}
        \cup {<<>>} \cup Outer \cup {a \o b : a \in Outer, b \in Outer \cup {<<"/">>, <<"/*">>}}
        \cup {a \o b \o c : a, c \in Outer, b \in {Named("message", "M", Packed(<<"packed", "=", "x">>))}}
=============================================================================
