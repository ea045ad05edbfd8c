-------------------------------- MODULE Build --------------------------------
(***************************************************************************)
(* gremlind_build_file (descriptors/src/build.c): a file's descriptors are *)
(* built in two passes over one text.  The first counts imports, enums and *)
(* messages at every depth; then arrays of exactly these sizes are filled, *)
(* and on the way the fields of each message and the values of each enum   *)
(* are counted and filled in the same manner.  A nested body is read with  *)
(* the same cursor, whose limit is drawn in to the body and put back after.*)
(*                                                                         *)
(* The calls and loops under way are a stack.  No array is bounds-checked: *)
(* a write past the end of one is a write outside its counted domain.      *)
(*                                                                         *)
(* The text is read through the parser's iterators alone (Entries): what   *)
(* they find between a position p and a limit l.                           *)
(***************************************************************************)
EXTENDS Naturals, Sequences

CONSTANTS
  Texts,                      \* the texts to build
  AfterSpaces(_, _, _),       \* (text, p, l): past spaces, or where they end badly
  AfterStrays(_, _, _),       \* (text, p, l): past spaces and stray semicolons
  EntryFrom(_, _, _, _),      \* (text, where, p, l): the entry an iterator finds
  BodyFrom(_, _, _, _),       \* (text, kind, p, l): past the brace of the entry at p
  ValueFrom(_, _, _, _)       \* (text, name, entry, l): the value's pieces, or none

\* Where entries are found, each with an iterator of its own.
Places == {"file", "message", "oneof", "enum"}

\* What a limit can be: the end of the text, or the brace that ends a body.
Limits(text) == {Len(text) + 1} \cup {l \in 1..Len(text) : text[l] = "}"}

\* Spaces end within the limit; an entry begins at the cursor or after it, is
\* not empty and ends within the limit; its body, if it has one, begins after
\* it does and ends before the brace that is its last character.
ASSUME ReaderAssumption ==
  \A text \in Texts :
    /\ Len(text) \in Nat
    /\ \A l \in Limits(text) : \A p \in 1..l :
         /\ AfterSpaces(text, p, l) \in p..l
         /\ \A where \in Places :
              LET e == EntryFrom(text, where, p, l)
              IN  e.kind # "none" =>
                    /\ e.start \in p..l /\ e.end \in (e.start + 1)..l
                    /\ e.kind \in {"message", "oneof", "enum"} =>
                         /\ e.end - 1 \in Limits(text)
                         /\ BodyFrom(text, e.kind, e.start, l) \in (e.start + 1)..(e.end - 1)

VARIABLES
  buf,                        \* the text
  offset, size,               \* the cursor: gremlinp_parser_buffer
  calls,                      \* loops under way, the innermost last
  counts,                     \* struct counts
  used,                       \* slots taken: fill_state and import_idx
  file,                       \* struct gremlind_file
  error_offset, result

vars == <<buf, offset, size, calls, counts, used, file, error_offset, result>>

None == 0                     \* no parent, no declaration, no limit to restore
NoFunction == [x \in {} |-> None]

\* a[i] = x, whether or not the array has room for it.
Write(a, i, x) == [j \in DOMAIN a \cup {i} |-> IF j = i THEN x ELSE a[j]]

\* Whose entries each loop iterates over.
Place == [count_entries |-> "file", count_body |-> "message", fill_file |-> "file",
          count_fields |-> "message", count_choices |-> "oneof",
          fill_message |-> "message", fill_oneof |-> "oneof",
          count_values |-> "enum", fill_enum |-> "enum"]

Top == calls[Len(calls)]
Entry == EntryFrom(buf, Place[Top.loop], offset, size)
AtEof == AfterSpaces(buf, offset, size) >= size

\* The entry that the top loop finds, when it is one of these loops and the
\* entry of one of these kinds; or the loop is at the end.
Read(loops, kinds) ==
  IF result = "none" /\ Top.loop \in loops THEN {e \in {Entry} : e.kind \in kinds}
  ELSE {}
Ends(loop) ==
  /\ result = "none"
  /\ Top.loop = loop
  /\ Entry.kind = "none"
  /\ AtEof

Init ==
  /\ buf \in Texts
  /\ offset = 1
  /\ size = Len(buf) + 1
  /\ calls = <<[loop |-> "count_entries", slot |-> None, n |-> 0,
                saved |-> [offset |-> None, size |-> None]]>>
  /\ counts = [imports |-> 0, enums |-> 0, messages |-> 0]
  /\ used = counts
  /\ file = [imports |-> NoFunction, enums |-> NoFunction, messages |-> NoFunction,
             syntax |-> "absent", edition |-> None, package |-> None]
  /\ error_offset = 0
  /\ result = "none"

-----------------------------------------------------------------------------
(***************************************************************************)
(* body_scope_enter and body_scope_leave, with the loop they surround.     *)
(***************************************************************************)
Body(e) == [start |-> BodyFrom(buf, e.kind, e.start, size), close |-> e.end - 1]

Advance(e) ==
  /\ offset' = e.end
  /\ UNCHANGED size

Enter(e, loop, slot, n) ==
  /\ calls' = Append(calls, [loop |-> loop, slot |-> slot, n |-> n,
                             saved |-> [offset |-> e.end, size |-> size]])
  /\ offset' = BodyFrom(buf, e.kind, e.start, size)
  /\ size' = e.end - 1

\* mutant: the limit is not put back.
LeaveLimit(n) ==
  /\ calls' = [SubSeq(calls, 1, Len(calls) - 1) EXCEPT ![Len(calls) - 1].n = n]
  /\ offset' = Top.saved.offset
  /\ UNCHANGED size

\* Leave, handing n back to the loop outside.
LeaveWith(n) ==
  /\ calls' = [SubSeq(calls, 1, Len(calls) - 1) EXCEPT ![Len(calls) - 1].n = n]
  /\ offset' = Top.saved.offset
  /\ size' = Top.saved.size
Leave == LeaveWith(calls[Len(calls) - 1].n)

\* The second loop over a body, after the one that counted.
Again(loop, body) ==
  /\ calls' = [calls EXCEPT ![Len(calls)].loop = loop, ![Len(calls)].n = 0]
  /\ offset' = body.start
  /\ UNCHANGED size

Tally(e) ==
  /\ calls' = [calls EXCEPT ![Len(calls)].n = @ + 1]
  /\ Advance(e)

-----------------------------------------------------------------------------
(***************************************************************************)
(* The counting pass: count_entries and count_message_body.                *)
(***************************************************************************)
CountEntry ==
  \E e \in Read({"count_entries", "count_body"}, {"import", "enum"}) :
    /\ counts' = IF e.kind = "import" THEN [counts EXCEPT !.imports = @ + 1]
                 ELSE [counts EXCEPT !.enums = @ + 1]
    /\ Advance(e)
    /\ UNCHANGED <<buf, calls, used, file, error_offset, result>>

CountMessage ==
  \E e \in Read({"count_entries", "count_body"}, {"message"}) :
    /\ counts' = [counts EXCEPT !.messages = @ + 1]
    /\ Enter(e, "count_body", None, 0)
    /\ UNCHANGED <<buf, used, file, error_offset, result>>

CountBodyDone ==
  /\ Ends("count_body")
  /\ Leave
  /\ UNCHANGED <<buf, counts, used, file, error_offset, result>>

\* The arrays are allocated, and the offset put back to the start.
CountDone ==
  /\ Ends("count_entries")
  /\ calls' = [calls EXCEPT ![1].loop = "fill_file"]
  /\ offset' = 1
  /\ UNCHANGED <<buf, size, counts, used, file, error_offset, result>>

-----------------------------------------------------------------------------
(***************************************************************************)
(* Filling the file.                                                       *)
(***************************************************************************)
\* What a declaration says: the last one of a kind wins.
ReadDeclaration ==
  \E e \in Read({"fill_file"}, {"syntax", "edition", "package"}) :
    /\ file' = [file EXCEPT ![e.kind] =
                  IF e.kind = "syntax"
                  THEN buf[CHOOSE q \in e.start..e.end : buf[q] \in {"proto2", "proto3"}]
                  ELSE e.start]
    /\ Advance(e)
    /\ UNCHANGED <<buf, calls, counts, used, error_offset, result>>

ReadImport ==
  \E e \in Read({"fill_file"}, {"import"}) :
    /\ file' = [file EXCEPT !.imports = Write(@, used.imports, e.start)]
    /\ used' = [used EXCEPT !.imports = @ + 1]
    /\ Advance(e)
    /\ UNCHANGED <<buf, calls, counts, error_offset, result>>

\* mutant: the message begun last, even if it has ended.
LastBegun == IF Top.loop = "fill_message" THEN {used.messages - 1} ELSE {}

\* At the top level, and in the message being filled.
Parent == IF Top.loop = "fill_message" THEN {Top.slot} ELSE {}

ReadEnum ==
  \E e \in Read({"fill_file", "fill_message"}, {"enum"}) :
    /\ file' = [file EXCEPT !.enums = Write(@, used.enums,
                   [start |-> e.start, body |-> Body(e), parent |-> Parent,
                    count |-> 0, values |-> NoFunction])]
    /\ Enter(e, "count_values", used.enums, 0)
    /\ used' = [used EXCEPT !.enums = @ + 1]
    /\ UNCHANGED <<buf, counts, error_offset, result>>

ReadMessage ==
  \E e \in Read({"fill_file", "fill_message"}, {"message"}) :
    /\ file' = [file EXCEPT !.messages = Write(@, used.messages,
                   [start |-> e.start, body |-> Body(e), parent |-> Parent,
                    count |-> 0, fields |-> NoFunction])]
    /\ Enter(e, "count_fields", used.messages, 0)
    /\ used' = [used EXCEPT !.messages = @ + 1]
    /\ UNCHANGED <<buf, counts, error_offset, result>>

-----------------------------------------------------------------------------
(***************************************************************************)
(* Fields of a message: those of its oneofs are ordinary fields of it.     *)
(***************************************************************************)
CountField ==
  \E e \in Read({"count_fields", "count_choices"}, {"field", "choice"}) :
    /\ Tally(e)
    /\ UNCHANGED <<buf, counts, used, file, error_offset, result>>

\* mutant: a oneof is passed over as if its fields were not the message's.
CountNoOneof ==
  \E e \in Read({"count_fields"}, {"oneof"}) :
    /\ Advance(e)
    /\ UNCHANGED <<buf, calls, counts, used, file, error_offset, result>>

CountOneof ==
  \E e \in Read({"count_fields"}, {"oneof"}) :
    /\ Enter(e, "count_choices", Top.slot, Top.n)
    /\ UNCHANGED <<buf, counts, used, file, error_offset, result>>

CountOneofDone ==
  /\ Ends("count_choices")
  /\ LeaveWith(Top.n)
  /\ UNCHANGED <<buf, counts, used, file, error_offset, result>>

CountFieldsDone ==
  /\ Ends("count_fields")
  /\ file' = [file EXCEPT !.messages[Top.slot].count = Top.n]
  /\ Again("fill_message", file.messages[Top.slot].body)
  /\ UNCHANGED <<buf, counts, used, error_offset, result>>

\* gremlind_field_packed_option: "absent" too when it is no boolean.
PackedOption(e) ==
  LET v == ValueFrom(buf, "packed", e, size)
  IN  IF v = <<"true">> THEN "true" ELSE IF v = <<"false">> THEN "false" ELSE "absent"

FieldOf(e) == [start |-> e.start, packed |-> PackedOption(e), packing |-> "unset",
               has_default |-> ValueFrom(buf, "default", e, size) # <<>>]

FillField ==
  \E e \in Read({"fill_message", "fill_oneof"}, {"field", "choice"}) :
    /\ file' = [file EXCEPT !.messages[Top.slot].fields = Write(@, Top.n, FieldOf(e))]
    /\ Tally(e)
    /\ UNCHANGED <<buf, counts, used, error_offset, result>>

FillOneof ==
  \E e \in Read({"fill_message"}, {"oneof"}) :
    /\ Enter(e, "fill_oneof", Top.slot, Top.n)
    /\ UNCHANGED <<buf, counts, used, file, error_offset, result>>

FillOneofDone ==
  /\ Ends("fill_oneof")
  /\ LeaveWith(Top.n)
  /\ UNCHANGED <<buf, counts, used, file, error_offset, result>>

FillMessageDone ==
  /\ Ends("fill_message")
  /\ Leave
  /\ UNCHANGED <<buf, counts, used, file, error_offset, result>>

-----------------------------------------------------------------------------
(***************************************************************************)
(* Values of an enum.                                                      *)
(***************************************************************************)
CountValue ==
  \E e \in Read({"count_values"}, {"value"}) :
    /\ Tally(e)
    /\ UNCHANGED <<buf, counts, used, file, error_offset, result>>

CountValuesDone ==
  /\ Ends("count_values")
  /\ IF Top.n = 0 THEN Leave /\ UNCHANGED file
     ELSE /\ file' = [file EXCEPT !.enums[Top.slot].count = Top.n]
          /\ Again("fill_enum", file.enums[Top.slot].body)
  /\ UNCHANGED <<buf, counts, used, error_offset, result>>

FillValue ==
  \E e \in Read({"fill_enum"}, {"value"}) :
    /\ file' = [file EXCEPT !.enums[Top.slot].values = Write(@, Top.n, e.start)]
    /\ Tally(e)
    /\ UNCHANGED <<buf, counts, used, error_offset, result>>

FillEnumDone ==
  /\ Ends("fill_enum")
  /\ Leave
  /\ UNCHANGED <<buf, counts, used, file, error_offset, result>>

-----------------------------------------------------------------------------
(***************************************************************************)
(* Entries a loop has no use for; the end; and failures, which leave every *)
(* body on their way out.                                                  *)
(***************************************************************************)
Passed ==
  [count_entries |-> {"option", "service", "extend", "syntax", "edition", "package"},
   fill_file |-> {"option", "service", "extend"},
   count_body |-> {"option", "extensions", "reserved", "extend", "group", "oneof", "field"},
   count_fields |-> {"option", "extensions", "reserved", "extend", "group", "enum", "message"},
   fill_message |-> {"option", "extensions", "reserved", "extend", "group"},
   count_choices |-> {"option"}, fill_oneof |-> {"option"},
   count_values |-> {"option", "reserved"}, fill_enum |-> {"option", "reserved"}]

PassOver ==
  \E e \in Read(DOMAIN Passed, Passed[Top.loop]) :
    /\ Advance(e)
    /\ UNCHANGED <<buf, calls, counts, used, file, error_offset, result>>

\* gremlind_field_packing: what the option says, or else the file.
Packing(packed) ==
  CASE packed = "true" -> "packed"
    [] packed = "false" -> "expanded"
    [] OTHER -> IF file.edition # None \/ file.syntax = "proto3" THEN "auto"
                ELSE "expanded"

ResolvePacking ==
  LET resolved(fields) ==
        [j \in DOMAIN fields |-> [fields[j] EXCEPT !.packing = Packing(fields[j].packed)]]
  IN  [i \in DOMAIN file.messages |-> [file.messages[i] EXCEPT !.fields = resolved(@)]]

FileDone ==
  /\ Ends("fill_file")
  /\ file' = [file EXCEPT !.messages = ResolvePacking]
  /\ offset' = AfterSpaces(buf, offset, size)
  /\ result' = "ok"
  /\ UNCHANGED <<buf, size, calls, counts, used, error_offset>>

\* Out of the innermost loop, and of all those around it.
GiveUp(error) ==
  /\ offset' = IF Len(calls) = 1 THEN AfterSpaces(buf, offset, size)
               ELSE calls[2].saved.offset
  /\ size' = Len(buf) + 1
  /\ calls' = SubSeq(calls, 1, 1)
  /\ error_offset' = offset'
  /\ result' = error
  /\ UNCHANGED <<buf, counts, used, file>>

Fails ==
  /\ result = "none"
  /\ Entry.kind = "none"
  /\ ~AtEof
  /\ GiveUp("parse error")

\* A message's fields or an enum's values find no memory.
OutOfMemory ==
  /\ Top.loop \in {"count_fields", "count_values"}
  /\ Ends(Top.loop)
  /\ Top.n > 0
  /\ GiveUp("out of memory")

\* The file or one of its arrays does not.
FileOutOfMemory ==
  /\ Ends("count_entries")
  /\ offset' = 1
  /\ result' = "out of memory"
  /\ UNCHANGED <<buf, size, calls, counts, used, file, error_offset>>

Next ==
  \/ CountEntry \/ CountMessage \/ CountBodyDone \/ CountDone
  \/ ReadDeclaration \/ ReadImport \/ ReadEnum \/ ReadMessage
  \/ CountField \/ CountOneof \/ CountOneofDone \/ CountFieldsDone
  \/ FillField \/ FillOneof \/ FillOneofDone \/ FillMessageDone
  \/ CountValue \/ CountValuesDone \/ FillValue \/ FillEnumDone
  \/ PassOver \/ FileDone \/ Fails
  \/ OutOfMemory \/ FileOutOfMemory

Spec == Init /\ [][Next]_vars

-----------------------------------------------------------------------------
(***************************************************************************)
(* Properties.                                                             *)
(***************************************************************************)
Slots(n) == {i \in 0..n : i < n}

\* The cursor stays in the body it was drawn in to, bodies in those around
\* them, and running indices below what was counted.
TypeOK ==
  /\ offset \in 1..size
  /\ size \in 1..(Len(buf) + 1)
  /\ calls # <<>>
  /\ \A i \in DOMAIN calls : calls[i].loop \in DOMAIN Place /\ calls[i].n \in Nat
  /\ \A i \in 2..Len(calls) : /\ size <= calls[i].saved.size
                              /\ offset < calls[i].saved.offset
  /\ result \in {"none", "ok", "parse error", "out of memory"}

\* What the first pass counts is what the second stores: no write is past
\* the end of an array, and a file that was built has no slot left unset
\* (build.c:269-314, 322-457, 488).
ArraysFilled ==
  LET fits(done, count) == IF result = "ok" THEN done = Slots(count) ELSE done \subseteq Slots(count)
  IN  /\ fits(DOMAIN file.imports, counts.imports)
      /\ fits(DOMAIN file.enums, counts.enums)
      /\ fits(DOMAIN file.messages, counts.messages)
      /\ \A m \in DOMAIN file.messages :
           fits(DOMAIN file.messages[m].fields, file.messages[m].count)
      /\ \A m \in DOMAIN file.enums :
           fits(DOMAIN file.enums[m].values, file.enums[m].count)

\* Messages lie in the order their texts begin, and the parent of a message
\* or enum is the innermost message around it: later passes walk the bodies
\* again and count on it (build.c:9-13, 322-324, 402-413).
PreOrder ==
  LET m == file.messages
      around(x) == {k \in DOMAIN m : m[k].body.start <= x.start /\ x.start < m[k].body.close}
      innermost(x) == {k \in around(x) : \A j \in around(x) : m[j].start <= m[k].start}
  IN  /\ \A i, j \in DOMAIN m : i < j => m[i].start < m[j].start
      /\ \A i \in DOMAIN m : m[i].parent = innermost(m[i])
      /\ \A i \in DOMAIN file.enums : file.enums[i].parent = innermost(file.enums[i])

\* A body that its parser accepted can be iterated over, but for stray
\* semicolons at its end; and what the first pass has read of the file's own
\* entries the second reads too (message.c:65-143 against 184-285).
BodiesReadAsAccepted ==
  [][result' = "parse error" =>
       \/ Top.loop = "count_entries"
       \/ Len(calls) > 1 /\ AfterStrays(buf, offset, size) = size]_vars
=============================================================================
