------------------------------ MODULE EmitFile ------------------------------
(***************************************************************************)
(* How gremlinc-gen writes the messages of one file, on top of their order *)
(* (gremlinc-gen/src/emit_file.c, main.c; gremlinc/src/emit_message.c).    *)
(*                                                                         *)
(*    ahead     emit_file_names_ahead   is a first pass needed?            *)
(*    forward   gremlinc_emit_message_forward  for each of predeclare      *)
(*    mark      mark_named_before       whose reader goes up front         *)
(*    messages  emit_messages_hoisted, or gremlinc_emit_message each       *)
(*    readers, rest   the copying at its end                               *)
(*                                                                         *)
(* The last three are emit_file; it runs once or twice.  The first pass    *)
(* only learns the name of each message's predicate (c_reader_ok): its     *)
(* text is thrown away, c_reader_ok and c_predeclared stay.  Sorting again *)
(* reads nothing but the fields and gives the same order, so the model     *)
(* sorts once.                                                             *)
(*                                                                         *)
(* The text is the sequence of parts written, in C's order of declaration: *)
(*    forward  typedefs of T and T_reader, prototypes                      *)
(*    writer   struct T, T_size, T_encode_at                               *)
(*    reader   struct T_reader and its predicate: the part to hoist        *)
(*    init     T_reader_init                                               *)
(*    getters  one per field, with a contract naming the child's predicate *)
(***************************************************************************)
EXTENDS MessageOrder

VARIABLES
  phase,       \* "ahead", "forward", "mark", "messages", "readers", "rest",
               \* "emitted", "done" or "failed"
  learning,    \* this is the first of two passes
  next,        \* position, from 1, in predeclare or in items
  predeclared, \* messages whose c_predeclared is set
  known,       \* messages whose c_reader_ok is set
  hoist,       \* messages whose reader goes up front
  guessed,     \* messages whose predicate this text names by the fallback
  text         \* what the writer holds

emitVars == <<phase, learning, next, predeclared, known, hoist, guessed, text>>
vars     == <<orderVars, emitVars>>

Part(p, m) == [part |-> p, of |-> m, typedef |-> FALSE]
Typed(p, m) == [part |-> p, of |-> m, typedef |-> TRUE]

(* A struct that was typedef'd by its forward declaration is only defined. *)
Struct(p, m) == IF m \in predeclared THEN Part(p, m) ELSE Typed(p, m)

Writer(m)  == <<Struct("writer", m)>>
Reader(m)  == <<Struct("reader", m)>>
Methods(m) == <<Part("init", m), Part("getters", m)>>

Init ==
  /\ OrderInit
  /\ phase = "ahead"
  /\ learning = FALSE
  /\ next = 1
  /\ predeclared = {}
  /\ known = {}
  /\ hoist = {}
  /\ guessed = {}
  /\ text = <<>>

Sort == OrderNext /\ UNCHANGED emitVars

-----------------------------------------------------------------------------
(* mark_named_before: a message earlier in the order holds this one.  A    *)
(* message holding only itself is not hoisted.                             *)
NamedBeforeDirectly ==  \* mutant: does not look at map values
  {items[j] : j \in {i \in DOMAIN items : \E h \in 1..(i - 1) :
     \E k \in DOMAIN fields[items[h]] :
       fields[items[h]][k].kind = "message" /\ fields[items[h]][k].to = items[i]}}

NamedBefore ==
  {items[j] : j \in {i \in DOMAIN items : \E h \in 1..(i - 1) : items[i] \in Held(items[h])}}

(* needs_first_pass asks for two passes when a message is named ahead, and *)
(* for the sake of other files when an import is listed later.             *)
NamesAheadOfOthers ==  \* mutant: only looks at the imports
  /\ phase = "ahead" /\ pc = "sorted"
  /\ learning' \in BOOLEAN
  /\ phase' = "forward"
  /\ UNCHANGED <<orderVars, next, predeclared, known, hoist, guessed, text>>

NamesAhead ==
  /\ phase = "ahead" /\ pc = "sorted"
  /\ \E lateImport \in BOOLEAN : learning' = (NamedBefore # {} \/ lateImport)
  /\ phase' = "forward"
  /\ UNCHANGED <<orderVars, next, predeclared, known, hoist, guessed, text>>

ForwardUnflagged ==  \* mutant: c_predeclared is not set
  /\ phase = "forward" /\ next <= Len(predeclare)
  /\ text' = Append(text, Typed("forward", predeclare[next]))
  /\ next' = next + 1
  /\ UNCHANGED <<orderVars, phase, learning, predeclared, known, hoist, guessed>>

Forward ==
  /\ phase = "forward" /\ next <= Len(predeclare)
  /\ predeclared' = predeclared \cup {predeclare[next]}
  /\ text' = Append(text, Typed("forward", predeclare[next]))
  /\ next' = next + 1
  /\ UNCHANGED <<orderVars, phase, learning, known, hoist, guessed>>

ForwardDone ==
  /\ phase = "forward" /\ next > Len(predeclare)
  /\ phase' = "mark"
  /\ UNCHANGED <<orderVars, learning, next, predeclared, known, hoist, guessed, text>>

MarkFromZero ==  \* mutant: the loop over the messages starts at 0
  /\ phase = "mark"
  /\ hoist' = NamedBefore
  /\ phase' = "messages" /\ next' = 0
  /\ UNCHANGED <<orderVars, learning, predeclared, known, guessed, text>>

Mark ==
  /\ phase = "mark"
  /\ hoist' = NamedBefore
  /\ phase' = "messages" /\ next' = 1
  /\ UNCHANGED <<orderVars, learning, predeclared, known, guessed, text>>

(* gremlinc_emit_message sets c_reader_ok before it writes any contract,   *)
(* and falls back on a guess where a child's is not set.                   *)
Learn(m) ==
  /\ known' = known \cup {m}
  /\ guessed' = guessed \cup (Held(m) \ known')

EmitMessage ==
  /\ phase = "messages" /\ next <= Len(items) /\ hoist = {}
  /\ Learn(items[next])
  /\ LET m == items[next] IN text' = text \o Writer(m) \o Reader(m) \o Methods(m)
  /\ next' = next + 1
  /\ UNCHANGED <<orderVars, phase, learning, predeclared, hoist>>

(* emit_messages_hoisted writes every message to a buffer of its own,      *)
(* noting where the reader starts and ends ...                             *)
EmitMarked ==
  /\ phase = "messages" /\ next <= Len(items) /\ hoist # {}
  /\ Learn(items[next])
  /\ next' = next + 1
  /\ UNCHANGED <<orderVars, phase, learning, predeclared, hoist, text>>

EmitDone ==
  /\ phase = "messages" /\ next > Len(items)
  /\ phase' = IF hoist = {} THEN "emitted" ELSE "readers"
  /\ next' = 1
  /\ UNCHANGED <<orderVars, learning, predeclared, known, hoist, guessed, text>>

(* ... and then copies the hoisted readers, and the rest of each message.  *)
CopyReader ==
  /\ phase = "readers" /\ next <= Len(items)
  /\ LET m == items[next] IN text' = IF m \in hoist THEN text \o Reader(m) ELSE text
  /\ next' = next + 1
  /\ UNCHANGED <<orderVars, phase, learning, predeclared, known, hoist, guessed>>

ReadersDone ==
  /\ phase = "readers" /\ next > Len(items)
  /\ phase' = "rest" /\ next' = 1
  /\ UNCHANGED <<orderVars, learning, predeclared, known, hoist, guessed, text>>

Rest(m) == IF m \in hoist THEN Writer(m) \o Methods(m)
                          ELSE Writer(m) \o Reader(m) \o Methods(m)

CopyRest ==
  /\ phase = "rest" /\ next <= Len(items)
  /\ text' = text \o Rest(items[next])
  /\ next' = next + 1
  /\ UNCHANGED <<orderVars, phase, learning, predeclared, known, hoist, guessed>>

RestDone ==
  /\ phase = "rest" /\ next > Len(items)
  /\ phase' = "emitted"
  /\ UNCHANGED <<orderVars, learning, next, predeclared, known, hoist, guessed, text>>

(* The first pass's text goes to a writer that is thrown away.             *)
LearnDone ==
  /\ phase = "emitted" /\ learning
  /\ learning' = FALSE
  /\ phase' = "forward" /\ next' = 1
  /\ text' = <<>> /\ guessed' = {} /\ hoist' = {}
  /\ UNCHANGED <<orderVars, predeclared, known>>

FileDone ==
  /\ phase = "emitted" /\ ~learning
  /\ phase' = "done"
  /\ UNCHANGED <<orderVars, learning, next, predeclared, known, hoist, guessed, text>>

(* The writer, calloc or the arena refuses to grow: run_pipeline stops.    *)
Fails ==
  /\ pc = "sorted" /\ phase \notin {"done", "failed"}
  /\ phase' = "failed"
  /\ UNCHANGED <<orderVars, learning, next, predeclared, known, hoist, guessed, text>>

Next ==
  \/ Sort \/ NamesAhead \/ Forward \/ ForwardDone \/ Mark
  \/ EmitMessage \/ EmitMarked \/ EmitDone
  \/ CopyReader \/ ReadersDone \/ CopyRest \/ RestDone
  \/ LearnDone \/ FileDone \/ Fails

Spec == Init /\ [][Next]_vars

-----------------------------------------------------------------------------
Parts == [part : {"forward", "writer", "reader", "init", "getters"},
          of : Idx, typedef : BOOLEAN]

TypeOK ==
  /\ OrderTypeOK
  /\ phase \in {"ahead", "forward", "mark", "messages", "readers", "rest", "emitted",
                "done", "failed"}
  /\ learning \in BOOLEAN
  /\ next \in 1..(N + 1)
  /\ predeclared \subseteq Idx /\ known \subseteq Idx
  /\ hoist \subseteq Idx /\ guessed \subseteq Idx
  /\ text \in Seq(Parts)

At(p, m) == {k \in DOMAIN text : text[k].part = p /\ text[k].of = m}

Above(ps, m, k) == \E p \in ps : \E j \in At(p, m) : j < k

(* The generated header compiles, contracts included: whatever a part uses *)
(* of a message it holds stands above it.  A member of type T needs its    *)
(* typedef, T's length and encoder a prototype or a body; a getter calls   *)
(* T_reader_init and names T_reader_ok, which must already be defined.     *)
DeclaredBeforeUse ==
  phase = "done" =>
    \A m \in Idx, t \in Idx : t \in Held(m) =>
      /\ \A k \in At("writer", m) : Above({"forward", "writer"}, t, k)
      /\ \A k \in At("getters", m) :
           Above({"reader"}, t, k) /\ Above({"forward", "init"}, t, k)

(* The hoisting moves text without losing or repeating any: every part of  *)
(* every message is there once, its struct above its functions, and, as    *)
(* C99 asks ("A repeated typedef is C11; C99 rejects it"), each of the two *)
(* structs has one typedef, the first place that names it.                 *)
DeclaredOnce ==
  phase = "done" =>
    \A m \in Idx :
      /\ \A p \in {"writer", "reader", "init", "getters"} : Cardinality(At(p, m)) = 1
      /\ \A k \in At("init", m) : Above({"reader"}, m, k)
      /\ \A p \in {"writer", "reader"} :
           LET places == At("forward", m) \cup At(p, m)
           IN  {k \in places : text[k].typedef} = {CHOOSE k \in places : \A j \in places : k <= j}

(* "every name a contract uses was learned by the caller's first pass"     *)
(* (emit_file.c): the header that is kept never guesses a predicate's name *)
(* for a message of its own file, though one pass may be all there is.     *)
PredicatesKnown == phase = "done" => guessed = {}
=============================================================================
