----------------------------- MODULE BuildProofs -----------------------------
(***************************************************************************)
(* Proofs about Build, for every set of texts of any length and every      *)
(* reader of which ReaderAssumption holds.                                 *)
(*                                                                         *)
(* That the two passes agree is a fact about what is still to be read.     *)
(* Starts says where the entries of some kinds begin that a walk from a    *)
(* cursor will come to: it is read off the least set of cursors closed     *)
(* under going past an entry and into its body, so a step past an entry    *)
(* takes its start away and leaves the rest.  What a pass has counted or   *)
(* stored is then what was there at first less what is ahead of the loops  *)
(* under way, in both passes (WalkInv), for the fields of each message     *)
(* being read (FieldsInv) and for the values of each enum (ValuesInv): at  *)
(* the end of a loop nothing is ahead of it, and the array is full.        *)
(*                                                                         *)
(* The rest of the invariant is what that rests on: the stack of loops is  *)
(* a stack of bodies within bodies (Stacked), and the messages with a loop *)
(* in them are those around the cursor, every other being closed before it *)
(* (OpenInv), which is also why a parent is the innermost message.         *)
(***************************************************************************)
EXTENDS Build, FiniteSetTheorems, TLAPS
-----------------------------------------------------------------------------
(* What lies ahead of a cursor.  From a cursor a loop may go on after the  *)
(* entry it finds, or into the entry's body when it is of a kind that is   *)
(* entered.  Starts is where the entries of some kinds begin that are      *)
(* found at any cursor reached so.                                         *)
Cursors(text) ==
  {c \in [where : Places, at : Nat, limit : Limits(text)] : c.at \in 1..c.limit}

Found(text, c) == EntryFrom(text, c.where, c.at, c.limit)

Beyond(text, c) == [where |-> c.where, at |-> Found(text, c).end, limit |-> c.limit]

Inside(text, c) ==
  [where |-> Found(text, c).kind, limit |-> Found(text, c).end - 1,
   at |-> BodyFrom(text, Found(text, c).kind, Found(text, c).start, c.limit)]

Closed(text, entered, S) ==
  \A c \in S : Found(text, c).kind # "none" =>
    /\ Beyond(text, c) \in S
    /\ Found(text, c).kind \in entered => Inside(text, c) \in S

Reach(text, entered, c) ==
  {x \in Cursors(text) : \A S \in SUBSET Cursors(text) :
     c \in S /\ Closed(text, entered, S) => x \in S}

Starts(text, entered, kinds, c) ==
  {Found(text, x).start : x \in {y \in Reach(text, entered, c) : Found(text, y).kind \in kinds}}

Bodied == {"message", "oneof", "enum"}

LEMMA CursorTypes ==
  ASSUME NEW text \in Texts, NEW c \in Cursors(text)
  PROVE  /\ Len(text) \in Nat /\ c.where \in Places /\ c.limit \in Limits(text)
         /\ c.at \in Nat /\ c.limit \in Nat /\ 1 <= c.at /\ c.at <= c.limit
<1>1. Len(text) \in Nat
  BY ReaderAssumption
<1>2. c \in [where : Places, at : Nat, limit : Limits(text)] /\ c.at \in 1..c.limit
  BY DEF Cursors
<1>3. c.limit \in Limits(text) /\ c.at \in Nat /\ c.where \in Places
  BY <1>2
<1>4. CASE c.limit = Len(text) + 1
  BY <1>1, <1>2, <1>3, <1>4
<1>5. CASE c.limit \in 1..Len(text)
  BY <1>1, <1>2, <1>3, <1>5
<1>6. QED
  BY <1>3, <1>4, <1>5 DEF Limits

LEMMA FoundWithin ==
  ASSUME NEW text \in Texts, NEW c \in Cursors(text), Found(text, c).kind # "none"
  PROVE  /\ Found(text, c).start \in c.at..c.limit
         /\ Found(text, c).end \in (Found(text, c).start + 1)..c.limit
         /\ Beyond(text, c) \in Cursors(text)
         /\ Found(text, c).kind \in Bodied =>
              /\ Inside(text, c) \in Cursors(text)
              /\ Inside(text, c).at > Found(text, c).start
<1> DEFINE e == Found(text, c)
<1>1. /\ Len(text) \in Nat /\ c.where \in Places /\ c.at \in 1..c.limit /\ c.at \in Nat
      /\ c.limit \in Limits(text) /\ c.limit \in Nat
  BY CursorTypes
<1>2. /\ e.start \in c.at..c.limit /\ e.end \in (e.start + 1)..c.limit
      /\ e.kind \in Bodied => /\ e.end - 1 \in Limits(text)
                              /\ BodyFrom(text, e.kind, e.start, c.limit) \in (e.start + 1)..(e.end - 1)
  BY <1>1, ReaderAssumption DEF Found, Bodied
<1>3. Beyond(text, c) \in Cursors(text)
  BY <1>1, <1>2 DEF Beyond, Cursors
<1>4. e.kind \in Bodied => Inside(text, c) \in Cursors(text) /\ Inside(text, c).at > e.start
  BY <1>1, <1>2 DEF Inside, Cursors, Bodied, Places
<1>5. QED
  BY <1>2, <1>3, <1>4

(* Reach is closed, and holds its cursor.                                  *)
LEMMA ReachClosed ==
  ASSUME NEW text \in Texts, NEW entered \in SUBSET Bodied, NEW c \in Cursors(text)
  PROVE  c \in Reach(text, entered, c) /\ Closed(text, entered, Reach(text, entered, c))
<1>1. c \in Reach(text, entered, c)
  BY DEF Reach
<1>2. SUFFICES ASSUME NEW x \in Reach(text, entered, c), Found(text, x).kind # "none"
               PROVE  /\ Beyond(text, x) \in Reach(text, entered, c)
                      /\ Found(text, x).kind \in entered => Inside(text, x) \in Reach(text, entered, c)
  BY <1>1 DEF Closed
<1>3. x \in Cursors(text)
  BY DEF Reach
<1>4. Beyond(text, x) \in Cursors(text) /\ (Found(text, x).kind \in entered => Inside(text, x) \in Cursors(text))
  BY <1>2, <1>3, FoundWithin
<1>5. QED
  BY <1>2, <1>4 DEF Reach, Closed

LEMMA ReachLeast ==
  ASSUME NEW text, NEW entered, NEW c, NEW S \in SUBSET Cursors(text),
         c \in S, Closed(text, entered, S)
  PROVE  Reach(text, entered, c) \subseteq S
BY DEF Reach

LEMMA ReachWithin ==
  ASSUME NEW text \in Texts, NEW entered \in SUBSET Bodied, NEW c \in Cursors(text),
         NEW d \in Reach(text, entered, c)
  PROVE  Reach(text, entered, d) \subseteq Reach(text, entered, c)
BY ReachClosed, ReachLeast DEF Reach

(* Nothing ahead where no entry is found.                                  *)
LEMMA StartsNone ==
  ASSUME NEW text \in Texts, NEW entered \in SUBSET Bodied, NEW kinds, "none" \notin kinds,
         NEW c \in Cursors(text), Found(text, c).kind = "none"
  PROVE  Starts(text, entered, kinds, c) = {}
<1>1. Closed(text, entered, {c})
  BY DEF Closed
<1>2. Reach(text, entered, c) \subseteq {c}
  BY <1>1, ReachLeast
<1>3. QED
  BY <1>2 DEF Starts

(* Ahead of a cursor: the entry found, what is in it, what is beyond it.   *)
LEMMA StartsStep ==
  ASSUME NEW text \in Texts, NEW entered \in SUBSET Bodied, NEW kinds,
         NEW c \in Cursors(text), Found(text, c).kind # "none"
  PROVE  Starts(text, entered, kinds, c) =
           (IF Found(text, c).kind \in kinds THEN {Found(text, c).start} ELSE {})
             \cup (IF Found(text, c).kind \in entered
                   THEN Starts(text, entered, kinds, Inside(text, c)) ELSE {})
             \cup Starts(text, entered, kinds, Beyond(text, c))
<1> DEFINE R(x) == Reach(text, entered, x)
           In == IF Found(text, c).kind \in entered THEN R(Inside(text, c)) ELSE {}
           S == {c} \cup In \cup R(Beyond(text, c))
<1>1. /\ Beyond(text, c) \in Cursors(text)
      /\ Found(text, c).kind \in entered => Inside(text, c) \in Cursors(text)
  BY FoundWithin
<1>2. Beyond(text, c) \in R(c) /\ (Found(text, c).kind \in entered => Inside(text, c) \in R(c))
  BY ReachClosed DEF Closed
<1>3. S \subseteq R(c)
  BY <1>2, ReachWithin, ReachClosed
<1>4. R(c) \subseteq S
  <2>1. S \in SUBSET Cursors(text)
    BY DEF Reach
  <2>2. Beyond(text, c) \in S /\ (Found(text, c).kind \in entered => Inside(text, c) \in S)
    BY <1>1, ReachClosed
  <2>3. ASSUME NEW d \in Cursors(text), NEW x \in R(d), Found(text, x).kind # "none"
        PROVE  Beyond(text, x) \in R(d) /\ (Found(text, x).kind \in entered => Inside(text, x) \in R(d))
    BY <2>3, ReachClosed DEF Closed
  <2>4. ASSUME NEW x \in S, Found(text, x).kind # "none"
        PROVE  Beyond(text, x) \in S /\ (Found(text, x).kind \in entered => Inside(text, x) \in S)
    <3>1. CASE x = c
      BY <2>2, <3>1
    <3>2. CASE x \in In
      BY <2>3, <2>4, <3>2, <1>1
    <3>3. CASE x \in R(Beyond(text, c))
      BY <2>3, <2>4, <3>3, <1>1
    <3>4. QED
      BY <3>1, <3>2, <3>3
  <2>5. Closed(text, entered, S)
    BY <2>4 DEF Closed
  <2>6. QED
    BY <2>1, <2>5, ReachLeast
<1>5. R(c) = S
  BY <1>3, <1>4
<1>6. QED
  BY <1>5 DEF Starts

(* What is ahead of a cursor lies between it and its limit.                *)
LEMMA StartsRange ==
  ASSUME NEW text \in Texts, NEW entered \in SUBSET Bodied, NEW kinds, "none" \notin kinds,
         NEW c \in Cursors(text)
  PROVE  /\ \A s \in Starts(text, entered, kinds, c) : s \in Nat /\ c.at <= s /\ s < c.limit
         /\ IsFiniteSet(Starts(text, entered, kinds, c))
         /\ Cardinality(Starts(text, entered, kinds, c)) \in Nat
<1> DEFINE S == {x \in Cursors(text) : c.at <= x.at /\ x.limit <= c.limit}
<1>0. \A x \in Cursors(text) : x.at \in Nat /\ x.limit \in Nat /\ x.at <= x.limit
  BY CursorTypes
<1>1. ASSUME NEW x \in S, Found(text, x).kind # "none"
      PROVE  Beyond(text, x) \in S /\ (Found(text, x).kind \in entered => Inside(text, x) \in S)
  <2>1. Found(text, x).start \in x.at..x.limit /\ Found(text, x).end \in (Found(text, x).start + 1)..x.limit
    BY <1>1, FoundWithin
  <2>2. Beyond(text, x) \in S
    BY <1>1, <2>1, <1>0, FoundWithin DEF Beyond
  <2>3. ASSUME Found(text, x).kind \in entered PROVE Inside(text, x) \in S
    <3>1. Inside(text, x) \in Cursors(text) /\ Inside(text, x).at > Found(text, x).start
      BY <1>1, <2>3, FoundWithin
    <3>2. Inside(text, x).limit = Found(text, x).end - 1
      BY DEF Inside
    <3>3. QED
      BY <3>1, <3>2, <2>1, <1>0
  <2>4. QED
    BY <2>2, <2>3
<1>2. Closed(text, entered, S)
  BY <1>1 DEF Closed
<1>3. Reach(text, entered, c) \subseteq S
  BY <1>0, <1>2, ReachLeast
<1>4. \A s \in Starts(text, entered, kinds, c) : s \in Nat /\ c.at <= s /\ s < c.limit
  <2>1. SUFFICES ASSUME NEW x \in Reach(text, entered, c), Found(text, x).kind \in kinds
                 PROVE  LET s == Found(text, x).start IN s \in Nat /\ c.at <= s /\ s < c.limit
    BY DEF Starts
  <2>2. x \in S /\ Found(text, x).kind # "none"
    BY <1>3, <2>1
  <2>3. Found(text, x).start \in x.at..x.limit /\ Found(text, x).end \in (Found(text, x).start + 1)..x.limit
    BY <2>2, FoundWithin
  <2>4. QED
    BY <2>2, <2>3, <1>0
<1>5. IsFiniteSet(c.at..c.limit)
  BY <1>0, FS_Interval
<1>6. Starts(text, entered, kinds, c) \subseteq c.at..c.limit
  BY <1>4, <1>0
<1>7. QED
  BY <1>4, <1>5, <1>6, FS_Subset, FS_CardinalityType

-----------------------------------------------------------------------------
(* The loops under way.                                                    *)
Frame == [loop : DOMAIN Place, slot : Nat, n : Nat, saved : [offset : Nat, size : Nat]]

MessageLoops == {"count_fields", "fill_message"}
OneofLoops == {"count_choices", "fill_oneof"}
EnumLoops == {"count_values", "fill_enum"}
Walks == {"count_entries", "count_body", "fill_file", "fill_message", "count_fields"}

\* The loops that may stand in one.
Under == [count_entries |-> {"count_body"}, count_body |-> {"count_body"},
          fill_file |-> MessageLoops \cup EnumLoops,
          fill_message |-> MessageLoops \cup EnumLoops \cup {"fill_oneof"},
          count_fields |-> {"count_choices"}, count_choices |-> {}, fill_oneof |-> {},
          count_values |-> {}, fill_enum |-> {}]

Depth == 1..Len(calls)

\* The cursor of a loop, as it is or as it is put back on return.
At(i) == IF i = Len(calls) THEN offset ELSE calls[i + 1].saved.offset
Limit(i) == IF i = Len(calls) THEN size ELSE calls[i + 1].saved.size
Cursor(i) == [where |-> Place[calls[i].loop], at |-> At(i), limit |-> Limit(i)]

Counting == calls[1].loop = "count_entries"

(* Bodies lie within bodies, each past what its own loop has read.         *)
Stacked ==
  /\ buf \in Texts
  /\ calls \in Seq(Frame) /\ Len(calls) >= 1
  /\ \A i \in Depth : Cursor(i) \in Cursors(buf)
  /\ Limit(1) = Len(buf) + 1
  /\ \A i, j \in Depth : i < j => Limit(j) < At(i)
  /\ calls[1].loop \in {"count_entries", "fill_file"}
  /\ \A i \in Depth : i # 1 => calls[i].loop \in Under[calls[i - 1].loop]
  /\ \A i \in Depth : calls[i].loop \in {"count_entries", "count_body"} <=> Counting

-----------------------------------------------------------------------------
(* What is still ahead of the loops that look for declarations.  While the *)
(* fields of a message are counted, all of its body is.                    *)
BodyCursor(body) == [where |-> "message", at |-> body.start, limit |-> body.close]

Walk(i) == IF calls[i].loop = "count_fields"
           THEN BodyCursor(file.messages[calls[i].slot].body) ELSE Cursor(i)

Walking == {i \in Depth : calls[i].loop \in Walks}

Of(kind, c) == Starts(buf, {"message"}, {kind}, c)
Ahead(kind) == UNION {Of(kind, Walk(i)) : i \in Walking}
Whole(kind) == Of(kind, [where |-> "file", at |-> 1, limit |-> Len(buf) + 1])

Sorts == [import |-> "imports", enum |-> "enums", message |-> "messages"]

(* What the first pass counts is what it has passed, and what the second   *)
(* has slots for what it has passed of the same.                           *)
Tallied(kind, count, taken) ==
  /\ Ahead(kind) \subseteq Whole(kind)
  /\ IF Counting
     THEN count = Cardinality(Whole(kind) \ Ahead(kind)) /\ taken = 0
     ELSE count = Cardinality(Whole(kind)) /\ taken = Cardinality(Whole(kind) \ Ahead(kind))

WalkInv ==
  \A kind \in DOMAIN Sorts : Tallied(kind, counts[Sorts[kind]], used[Sorts[kind]])

-----------------------------------------------------------------------------
(* The messages and enums stored.                                          *)
FileShape ==
  /\ file = [x \in DOMAIN file |-> file[x]]
  /\ DOMAIN file = {"imports", "enums", "messages", "syntax", "edition", "package"}
  /\ DOMAIN file.imports = Slots(used.imports)
  /\ DOMAIN file.enums = Slots(used.enums)
  /\ DOMAIN file.messages = Slots(used.messages)
  /\ used \in [imports : Nat, enums : Nat, messages : Nat]
  /\ counts \in [imports : Nat, enums : Nat, messages : Nat]

Messages == DOMAIN file.messages
Message(k) == file.messages[k]

MessageShape(text, m) ==
  /\ m = [x \in DOMAIN m |-> m[x]]
  /\ DOMAIN m = {"start", "body", "parent", "count", "fields"}
  /\ m.start \in Nat /\ m.count \in Nat
  /\ BodyCursor(m.body) \in Cursors(text)
  /\ m.start < m.body.start

EnumShape(text, m) ==
  /\ m = [x \in DOMAIN m |-> m[x]]
  /\ DOMAIN m = {"start", "body", "parent", "count", "values"}
  /\ m.start \in Nat /\ m.count \in Nat
  /\ m.body.close \in Nat
  /\ [where |-> "enum", at |-> m.body.start, limit |-> m.body.close] \in Cursors(text)

Open(k) == \E i \in Depth : calls[i].loop \in MessageLoops /\ calls[i].slot = k

(* A message is open while a loop is in it, and closed for good before     *)
(* what is read next.                                                      *)
OpenInv ==
  /\ \A k \in Messages : MessageShape(buf, Message(k))
  /\ \A k \in DOMAIN file.enums : EnumShape(buf, file.enums[k])
  /\ \A i \in Depth : calls[i].loop \in MessageLoops =>
       /\ calls[i].slot \in Messages
       /\ Message(calls[i].slot).body.start <= At(i)
       /\ Message(calls[i].slot).body.close = Limit(i)
  /\ \A i, j \in Depth :
       i < j /\ calls[i].loop \in MessageLoops /\ calls[j].loop \in MessageLoops =>
         /\ calls[i].slot < calls[j].slot
         /\ Message(calls[i].slot).body.start <= Message(calls[j].slot).start
  /\ \A k \in Messages : Open(k) \/ \A i \in Walking : Message(k).body.close < Walk(i).at
  /\ \A k \in Messages : \A i \in Walking : Message(k).start < Walk(i).at
  /\ \A k \in DOMAIN file.enums : \A i \in Walking : file.enums[k].start < Walk(i).at

-----------------------------------------------------------------------------
(* The fields of a message and the values of an enum.                      *)
FieldsOf(c) == Starts(buf, {"oneof"}, {"field", "choice"}, c)
ValuesOf(c) == Starts(buf, {}, {"value"}, c)
EnumCursor(body) == [where |-> "enum", at |-> body.start, limit |-> body.close]

\* A oneof's loop, above that of its message, has its running index.
InOneof(i) == i < Len(calls) /\ calls[i + 1].loop \in OneofLoops
Running(i) == IF InOneof(i) THEN calls[i + 1].n ELSE calls[i].n
FieldsAhead(i) ==
  FieldsOf(Cursor(i)) \cup (IF InOneof(i) THEN FieldsOf(Cursor(i + 1)) ELSE {})

\* In a loop over a message, with so much of its body ahead and n fields read:
\* n is what was passed, and while they are filled also what is filled.
FieldsShape(text, loop, m, ahead, n) ==
  LET all == Starts(text, {"oneof"}, {"field", "choice"}, BodyCursor(m.body))
  IN  /\ ahead \subseteq all /\ n = Cardinality(all \ ahead)
      /\ loop = "count_fields" => DOMAIN m.fields = {} /\ m.count = 0
      /\ loop = "fill_message" => DOMAIN m.fields = Slots(n) /\ m.count = Cardinality(all)

FieldsFilled(m) == DOMAIN m.fields = Slots(m.count)

FieldsInv ==
  /\ \A i \in Depth : calls[i].loop \in OneofLoops => calls[i].slot = calls[i - 1].slot
  /\ \A i \in Depth : calls[i].loop \in MessageLoops =>
       FieldsShape(buf, calls[i].loop, Message(calls[i].slot), FieldsAhead(i), Running(i))
  /\ \A k \in Messages : Open(k) \/ FieldsFilled(Message(k))

\* The same of a loop over an enum.
ValuesShape(text, loop, m, ahead, n) ==
  LET all == Starts(text, {}, {"value"}, EnumCursor(m.body))
  IN  /\ ahead \subseteq all /\ n = Cardinality(all \ ahead)
      /\ loop = "count_values" => DOMAIN m.values = {} /\ m.count = 0
      /\ loop = "fill_enum" => DOMAIN m.values = Slots(n) /\ m.count = Cardinality(all)

ValuesFilled(m) == DOMAIN m.values = Slots(m.count)
EnumOpen(k) == \E i \in Depth : calls[i].loop \in EnumLoops /\ calls[i].slot = k

ValuesInv ==
  /\ \A i \in Depth : calls[i].loop \in EnumLoops =>
       /\ calls[i].slot \in DOMAIN file.enums
       /\ file.enums[calls[i].slot].body.close = Limit(i)
       /\ ValuesShape(buf, calls[i].loop, file.enums[calls[i].slot], ValuesOf(Cursor(i)), calls[i].n)
  /\ \A k \in DOMAIN file.enums : EnumOpen(k) \/ ValuesFilled(file.enums[k])

Going == Stacked /\ FileShape /\ WalkInv /\ OpenInv /\ FieldsInv /\ ValuesInv
-----------------------------------------------------------------------------
LEMMA PlaceFacts ==
  /\ DOMAIN Place = {"count_entries", "count_body", "fill_file", "count_fields", "count_choices",
                     "fill_message", "fill_oneof", "count_values", "fill_enum"}
  /\ Place["count_entries"] = "file" /\ Place["fill_file"] = "file"
  /\ Place["count_body"] = "message" /\ Place["count_fields"] = "message"
  /\ Place["fill_message"] = "message"
  /\ Place["count_choices"] = "oneof" /\ Place["fill_oneof"] = "oneof"
  /\ Place["count_values"] = "enum" /\ Place["fill_enum"] = "enum"
BY DEF Place

LEMMA UnderFacts ==
  /\ Under["count_entries"] = {"count_body"} /\ Under["count_body"] = {"count_body"}
  /\ Under["fill_file"] = {"count_fields", "fill_message", "count_values", "fill_enum"}
  /\ Under["fill_message"] = {"count_fields", "fill_message", "count_values", "fill_enum", "fill_oneof"}
  /\ Under["count_fields"] = {"count_choices"}
  /\ Under["count_choices"] = {} /\ Under["fill_oneof"] = {}
  /\ Under["count_values"] = {} /\ Under["fill_enum"] = {}
BY DEF Under, MessageLoops, EnumLoops

LEMMA UnderWhat ==
  ASSUME NEW l \in DOMAIN Place, NEW m \in Under[l]
  PROVE  /\ m \in DOMAIN Place
         /\ m \notin {"count_entries", "fill_file"}
         /\ m = "count_body" <=> l \in {"count_entries", "count_body"}
         /\ m = "count_choices" => l = "count_fields"
         /\ m = "fill_oneof" => l = "fill_message"
         /\ m \in MessageLoops \cup EnumLoops => l \in {"fill_file", "fill_message"}
<1>1. l \in {"count_entries", "count_body", "fill_file", "count_fields", "count_choices",
             "fill_message", "fill_oneof", "count_values", "fill_enum"}
  BY PlaceFacts
<1>2. QED
  BY <1>1, PlaceFacts, UnderFacts DEF MessageLoops, EnumLoops

LEMMA StackTypes ==
  ASSUME Stacked, NEW k, k = Len(calls)
  PROVE  /\ k \in Nat /\ k >= 1 /\ Depth = 1..k /\ k \in Depth
         /\ \A i \in Depth : /\ calls[i] \in Frame /\ calls[i].loop \in DOMAIN Place
                             /\ calls[i].slot \in Nat /\ calls[i].n \in Nat
         /\ Top = calls[k] /\ Cursor(k) = [where |-> Place[Top.loop], at |-> offset, limit |-> size]
         /\ offset \in Nat /\ size \in Nat /\ offset <= size /\ offset >= 1
         /\ Entry = Found(buf, Cursor(k))
<1>1. k \in Nat /\ k >= 1 /\ Depth = 1..k /\ k \in Depth
  BY DEF Stacked, Depth
<1>2. \A i \in Depth : calls[i] \in Frame
  BY <1>1 DEF Stacked
<1>3. \A i \in Depth : calls[i].loop \in DOMAIN Place /\ calls[i].slot \in Nat /\ calls[i].n \in Nat
  BY <1>2 DEF Frame
<1>4. Top = calls[k] /\ Cursor(k) = [where |-> Place[Top.loop], at |-> offset, limit |-> size]
  BY <1>1 DEF Top, Cursor, At, Limit
<1>5. Entry = Found(buf, Cursor(k))
  BY <1>4 DEF Entry, Found
<1>6. Cursor(k) \in Cursors(buf) /\ buf \in Texts
  BY <1>1 DEF Stacked
<1>7. QED
  BY <1>1, <1>2, <1>3, <1>4, <1>5, <1>6, CursorTypes

LEMMA CursorAt ==
  ASSUME Stacked, NEW i \in Depth
  PROVE  /\ Cursor(i).where = Place[calls[i].loop] /\ Cursor(i).at = At(i) /\ Cursor(i).limit = Limit(i)
         /\ At(i) \in Nat /\ Limit(i) \in Nat /\ 1 <= At(i) /\ At(i) <= Limit(i)
         /\ Limit(i) \in Limits(buf)
<1>1. Cursor(i).where = Place[calls[i].loop] /\ Cursor(i).at = At(i) /\ Cursor(i).limit = Limit(i)
  BY DEF Cursor
<1>2. QED
  BY <1>1, CursorTypes DEF Stacked

(* What an entry found says of the cursor.                                 *)
LEMMA EntryTypes ==
  ASSUME Stacked, Entry.kind # "none", NEW k, k = Len(calls)
  PROVE  /\ Entry.start \in Nat /\ Entry.end \in Nat
         /\ offset <= Entry.start /\ Entry.start < Entry.end /\ Entry.end <= size
         /\ Beyond(buf, Cursor(k)) \in Cursors(buf)
         /\ Beyond(buf, Cursor(k)) = [where |-> Place[Top.loop], at |-> Entry.end, limit |-> size]
         /\ Entry.kind \in Bodied =>
              /\ Inside(buf, Cursor(k)) \in Cursors(buf)
              /\ Inside(buf, Cursor(k)) = [where |-> Entry.kind, at |-> Body(Entry).start,
                                           limit |-> Body(Entry).close]
              /\ Body(Entry).start > Entry.start /\ Body(Entry).start \in Nat
              /\ Body(Entry).close = Entry.end - 1
<1>1. Entry = Found(buf, Cursor(k)) /\ Cursor(k) \in Cursors(buf) /\ buf \in Texts
      /\ Cursor(k) = [where |-> Place[Top.loop], at |-> offset, limit |-> size]
      /\ offset \in Nat /\ size \in Nat
  BY StackTypes DEF Stacked
<1>2. /\ Entry.start \in offset..size /\ Entry.end \in (Entry.start + 1)..size
      /\ Beyond(buf, Cursor(k)) \in Cursors(buf)
      /\ Entry.kind \in Bodied => /\ Inside(buf, Cursor(k)) \in Cursors(buf)
                                  /\ Inside(buf, Cursor(k)).at > Entry.start
  BY <1>1, FoundWithin
<1>3. Beyond(buf, Cursor(k)) = [where |-> Place[Top.loop], at |-> Entry.end, limit |-> size]
  BY <1>1 DEF Beyond
<1>4. Inside(buf, Cursor(k)) = [where |-> Entry.kind, at |-> Body(Entry).start, limit |-> Body(Entry).close]
  BY <1>1 DEF Inside, Body
<1>5. Entry.kind \in Bodied => Body(Entry).start > Entry.start /\ Body(Entry).start \in Nat
  BY <1>2, <1>4, CursorTypes, <1>1
<1>6. Body(Entry).close = Entry.end - 1
  BY DEF Body
<1>7. QED
  BY <1>1, <1>2, <1>3, <1>4, <1>5, <1>6

-----------------------------------------------------------------------------
(* The four ways the stack moves.                                          *)
SameLoops ==
  /\ calls' \in Seq(Frame) /\ Len(calls') = Len(calls)
  /\ \A i \in Depth : /\ calls'[i].loop = calls[i].loop /\ calls'[i].slot = calls[i].slot
                      /\ calls'[i].saved = calls[i].saved
  /\ \A i \in Depth : i # Len(calls) => calls'[i] = calls[i]

LEMMA Tallies ==
  ASSUME Stacked, NEW k, k = Len(calls), NEW n \in Nat,
         calls' = [calls EXCEPT ![Len(calls)].n = n]
  PROVE  SameLoops /\ calls'[k].n = n
<1>1. calls \in Seq(Frame) /\ k \in Nat /\ k \in 1..Len(calls) /\ Depth = 1..k
  BY StackTypes DEF Stacked
<1>2. calls[k] \in Frame
  BY <1>1, StackTypes
<1>3. [calls[k] EXCEPT !.n = n] \in Frame
  BY <1>2 DEF Frame
<1>4. calls' = [calls EXCEPT ![k] = [calls[k] EXCEPT !.n = n]]
  BY <1>1
<1>5. calls' \in Seq(Frame) /\ Len(calls') = Len(calls) /\ calls'[k] = [calls[k] EXCEPT !.n = n]
      /\ \A i \in Depth : i # k => calls'[i] = calls[i]
  BY <1>1, <1>3, <1>4
<1>6. calls'[k].loop = calls[k].loop /\ calls'[k].slot = calls[k].slot /\ calls'[k].saved = calls[k].saved
      /\ calls'[k].n = n
  BY <1>5, <1>2 DEF Frame
<1>7. QED
  BY <1>5, <1>6, <1>1 DEF SameLoops

LEMMA GoesOn ==
  ASSUME Stacked, Entry.kind # "none", offset' = Entry.end, size' = size, buf' = buf, SameLoops,
         NEW k, k = Len(calls)
  PROVE  /\ Stacked' /\ Depth' = Depth /\ Len(calls') = k
         /\ Cursor(k)' = Beyond(buf, Cursor(k))
         /\ \A i \in Depth : i < k => Cursor(i)' = Cursor(i)
<1>1. Len(calls') = k /\ Depth' = Depth /\ Depth = 1..k /\ k \in Depth /\ k \in Nat
  BY StackTypes DEF Depth, SameLoops
<1>2. Cursor(k)' = Beyond(buf, Cursor(k))
  BY <1>1, EntryTypes, StackTypes DEF Cursor, At, Limit, SameLoops, Top
<1>3. \A i \in Depth : i < k => Cursor(i)' = Cursor(i)
  BY <1>1 DEF Cursor, At, Limit, SameLoops
<1>4. \A i \in Depth : Limit(i)' = Limit(i) /\ At(i)' >= At(i) /\ At(i)' \in Nat
  BY <1>1, EntryTypes, StackTypes, CursorAt DEF At, Limit, SameLoops
<1>5. \A i \in Depth : Cursor(i)' \in Cursors(buf)
  BY <1>1, <1>2, <1>3, EntryTypes DEF Stacked
<1>6. \A i, j \in Depth : i < j => Limit(j)' < At(i)'
  <2> SUFFICES ASSUME NEW i \in Depth, NEW j \in Depth, i < j PROVE Limit(j)' < At(i)'
    OBVIOUS
  <2>1. Limit(j) < At(i)
    BY DEF Stacked
  <2>2. QED
    BY <2>1, <1>4, CursorAt
<1>7. /\ calls'[1].loop \in {"count_entries", "fill_file"} /\ (Counting' <=> Counting)
      /\ \A i \in Depth : i # 1 => calls'[i].loop \in Under[calls'[i - 1].loop]
      /\ \A i \in Depth : calls'[i].loop \in {"count_entries", "count_body"} <=> Counting'
  BY <1>1 DEF Stacked, SameLoops, Counting
<1>8. Limit(1)' = Len(buf') + 1
  BY <1>1, <1>4 DEF Stacked
<1>9. Stacked'
  BY <1>1, <1>5, <1>6, <1>7, <1>8 DEF Stacked, SameLoops
<1>10. QED
  BY <1>1, <1>2, <1>3, <1>9

Pushes(loop, slot, n) == Enter(Entry, loop, slot, n)
Lands(k, loop, slot, n) ==
  calls'[k + 1].loop = loop /\ calls'[k + 1].slot = slot /\ calls'[k + 1].n = n

LEMMA Enters ==
  ASSUME Stacked, Entry.kind # "none", Entry.kind \in Bodied, buf' = buf,
         NEW loop \in Under[Top.loop], Place[loop] = Entry.kind, NEW slot \in Nat, NEW n \in Nat,
         Pushes(loop, slot, n), NEW k, k = Len(calls)
  PROVE  /\ Stacked' /\ Len(calls') = k + 1 /\ Depth' = 1..(k + 1)
         /\ \A i \in Depth : calls'[i] = calls[i]
         /\ Lands(k, loop, slot, n)
         /\ Cursor(k)' = Beyond(buf, Cursor(k))
         /\ Cursor(k + 1)' = Inside(buf, Cursor(k))
         /\ \A i \in Depth : i < k => Cursor(i)' = Cursor(i)
<1> DEFINE f == [loop |-> loop, slot |-> slot, n |-> n, saved |-> [offset |-> Entry.end, size |-> size]]
<1>0. calls' = Append(calls, f) /\ offset' = Body(Entry).start /\ size' = Body(Entry).close
  BY DEF Pushes, Enter, Body
<1>1. /\ k \in Nat /\ k >= 1 /\ Depth = 1..k /\ k \in Depth /\ calls \in Seq(Frame)
      /\ size \in Nat /\ Top = calls[k] /\ Top.loop \in DOMAIN Place /\ offset \in Nat
  BY StackTypes DEF Stacked
<1>2. loop \in DOMAIN Place /\ loop \notin {"count_entries", "fill_file"}
      /\ (loop = "count_body" <=> Top.loop \in {"count_entries", "count_body"})
  BY <1>1, UnderWhat
<1>3. f \in Frame
  BY <1>1, <1>2, EntryTypes DEF Frame
<1>4. calls' \in Seq(Frame) /\ Len(calls') = k + 1 /\ calls'[k + 1] = f /\ Depth' = 1..(k + 1)
      /\ \A i \in Depth : calls'[i] = calls[i]
  BY <1>0, <1>1, <1>3 DEF Depth
<1>5. Cursor(k)' = Beyond(buf, Cursor(k))
  BY <1>1, <1>4, EntryTypes DEF Cursor, At, Limit
<1>6. Cursor(k + 1)' = Inside(buf, Cursor(k))
  <2>1. At(k + 1)' = offset' /\ Limit(k + 1)' = size'
    BY <1>4 DEF At, Limit
  <2>2. Cursor(k + 1)' = [where |-> Entry.kind, at |-> Body(Entry).start, limit |-> Body(Entry).close]
    BY <1>0, <1>4, <2>1 DEF Cursor
  <2>3. QED
    BY <2>2, EntryTypes
<1>7. \A i \in Depth : i < k => Cursor(i)' = Cursor(i)
  BY <1>1, <1>4 DEF Cursor, At, Limit
<1>8. \A i \in Depth : Limit(i)' = Limit(i) /\ At(i)' >= At(i) /\ At(i)' \in Nat
  <2> SUFFICES ASSUME NEW i \in Depth PROVE Limit(i)' = Limit(i) /\ At(i)' >= At(i) /\ At(i)' \in Nat
    OBVIOUS
  <2>1. CASE i = k
    BY <2>1, <1>1, <1>4, EntryTypes DEF At, Limit
  <2>2. CASE i # k
    <3>1. At(i)' = At(i) /\ Limit(i)' = Limit(i)
      BY <2>2, <1>1, <1>4 DEF At, Limit
    <3>2. QED
      BY <3>1, CursorAt
  <2>3. QED
    BY <2>1, <2>2
<1>9. \A i \in Depth' : Cursor(i)' \in Cursors(buf)
  <2>1. Cursor(k)' \in Cursors(buf) /\ Cursor(k + 1)' \in Cursors(buf)
    BY <1>5, <1>6, EntryTypes
  <2>2. \A i \in Depth : i < k => Cursor(i)' \in Cursors(buf)
    BY <1>7 DEF Stacked
  <2>3. \A i \in Depth' : i = k + 1 \/ i = k \/ (i \in Depth /\ i < k)
    BY <1>1, <1>4
  <2>4. QED
    BY <2>1, <2>2, <2>3
<1>10. \A i, j \in Depth' : i < j => Limit(j)' < At(i)'
  <2> SUFFICES ASSUME NEW i \in Depth', NEW j \in Depth', i < j PROVE Limit(j)' < At(i)'
    OBVIOUS
  <2>1. i \in Depth
    BY <1>1, <1>4
  <2>2. CASE j \in Depth
    <3>1. Limit(j) < At(i)
      BY <2>1, <2>2 DEF Stacked
    <3>2. QED
      BY <2>1, <2>2, <3>1, <1>8, CursorAt
  <2>3. CASE j = k + 1
    <3>1. Limit(j)' = Entry.end - 1 /\ Limit(j)' < size
      BY <1>4, <1>0, <2>3, EntryTypes, <1>1 DEF Limit
    <3>2. CASE i = k
      BY <3>1, <3>2, <1>4, <1>1, EntryTypes DEF At
    <3>3. CASE i # k
      <4>1. Limit(k) < At(i) /\ Limit(k) = size
        BY <1>1, <2>1, <3>3 DEF Stacked, Limit
      <4>2. QED
        BY <4>1, <3>1, <1>8, <2>1, <1>1, CursorAt, EntryTypes
    <3>4. QED
      BY <3>2, <3>3
  <2>4. QED
    BY <2>2, <2>3, <1>4, <1>1
<1>11. /\ calls'[1].loop \in {"count_entries", "fill_file"} /\ (Counting' <=> Counting)
       /\ \A i \in Depth' : i # 1 => calls'[i].loop \in Under[calls'[i - 1].loop]
       /\ \A i \in Depth' : calls'[i].loop \in {"count_entries", "count_body"} <=> Counting'
  <2>1. calls'[1] = calls[1]
    BY <1>1, <1>4
  <2>2. Counting' <=> Counting
    BY <2>1 DEF Counting
  <2>3. \A i \in Depth' : i = k + 1 \/ (i \in Depth /\ calls'[i] = calls[i])
    BY <1>1, <1>4
  <2>4. calls'[k + 1].loop \in Under[calls'[k].loop]
    BY <1>1, <1>4
  <2>5. ASSUME NEW i \in Depth', i # 1 PROVE calls'[i].loop \in Under[calls'[i - 1].loop]
    <3>1. CASE i = k + 1
      BY <3>1, <2>4, <1>1
    <3>2. CASE i \in Depth
      BY <3>2, <2>5, <1>1, <1>4 DEF Stacked
    <3>3. QED
      BY <3>1, <3>2, <2>3
  <2>6. calls'[k + 1].loop \in {"count_entries", "count_body"} <=> Counting'
    BY <1>1, <1>2, <1>4, <2>2 DEF Stacked
  <2>7. QED
    BY <2>1, <2>2, <2>3, <2>5, <2>6 DEF Stacked
<1>12. Limit(1)' = Len(buf') + 1
  BY <1>1, <1>8 DEF Stacked
<1>13. Stacked'
  BY <1>4, <1>9, <1>10, <1>11, <1>12 DEF Stacked
<1>14. Lands(k, loop, slot, n)
  BY <1>4 DEF Lands
<1>15. QED
  BY <1>4, <1>5, <1>6, <1>7, <1>13, <1>14

LEMMA Leaves ==
  ASSUME Stacked, Len(calls) # 1, NEW n \in Nat, LeaveWith(n), buf' = buf, NEW k, k = Len(calls)
  PROVE  /\ Stacked' /\ Len(calls') = k - 1 /\ Depth' = 1..(k - 1) /\ k - 1 \in Depth
         /\ \A i \in Depth' : calls'[i].loop = calls[i].loop /\ calls'[i].slot = calls[i].slot
         /\ \A i \in Depth' : i # k - 1 => calls'[i] = calls[i]
         /\ calls'[k - 1].n = n
         /\ \A i \in Depth' : Cursor(i)' = Cursor(i)
<1>1. /\ k \in Nat /\ k >= 2 /\ Depth = 1..k /\ k \in Depth /\ calls \in Seq(Frame)
      /\ k - 1 \in Depth /\ Top = calls[k]
  BY StackTypes DEF Stacked
<1>2. calls[k] \in Frame /\ calls[k - 1] \in Frame
  BY <1>1, StackTypes
<1> DEFINE s == SubSeq(calls, 1, k - 1)
           g == [calls[k - 1] EXCEPT !.n = n]
<1>3. s \in Seq(Frame) /\ Len(s) = k - 1 /\ \A i \in 1..(k - 1) : s[i] = calls[i]
  BY <1>1
<1>4. g \in Frame /\ g.n = n /\ g.loop = calls[k - 1].loop /\ g.slot = calls[k - 1].slot
      /\ g.saved = calls[k - 1].saved
  BY <1>2 DEF Frame
<1>5. calls' = [s EXCEPT ![k - 1] = g]
  BY <1>1, <1>3 DEF LeaveWith
<1> HIDE DEF s, g
<1>6. calls' \in Seq(Frame) /\ Len(calls') = k - 1 /\ calls'[k - 1] = g
      /\ \A i \in 1..(k - 1) : i # k - 1 => calls'[i] = calls[i]
  BY <1>1, <1>3, <1>4, <1>5
<1>7. Depth' = 1..(k - 1)
  BY <1>6 DEF Depth
<1>8. \A i \in Depth' : calls'[i].loop = calls[i].loop /\ calls'[i].slot = calls[i].slot
        /\ calls'[i].saved = calls[i].saved
  BY <1>6, <1>7, <1>4
<1>9. offset' = calls[k].saved.offset /\ size' = calls[k].saved.size
  BY <1>1 DEF LeaveWith
<1>10. \A i \in Depth' : At(i)' = At(i) /\ Limit(i)' = Limit(i)
  <2> SUFFICES ASSUME NEW i \in Depth' PROVE At(i)' = At(i) /\ Limit(i)' = Limit(i)
    OBVIOUS
  <2>1. CASE i = k - 1
    BY <2>1, <1>1, <1>6, <1>9 DEF At, Limit
  <2>2. CASE i # k - 1
    <3>1. i + 1 \in Depth' /\ i # Len(calls) /\ i # Len(calls') /\ Limit(i) = calls[i + 1].saved.size
          /\ Limit(i)' = calls'[i + 1].saved.size
      BY <2>2, <1>1, <1>6, <1>7 DEF Limit
    <3>2. calls'[i + 1].saved = calls[i + 1].saved
      BY <3>1, <1>8
    <3>3. At(i) = calls[i + 1].saved.offset /\ At(i)' = calls'[i + 1].saved.offset
      BY <3>1 DEF At
    <3>4. QED
      BY <3>1, <3>2, <3>3
  <2>3. QED
    BY <2>1, <2>2
<1>11. \A i \in Depth' : Cursor(i)' = Cursor(i)
  BY <1>8, <1>10 DEF Cursor
<1>12. Depth' \subseteq Depth /\ 1 \in Depth'
  BY <1>1, <1>7
<1>13. calls'[1].loop = calls[1].loop /\ (Counting' <=> Counting)
  BY <1>8, <1>12 DEF Counting
<1>14. \A i \in Depth' : i # 1 => calls'[i].loop \in Under[calls'[i - 1].loop]
  <2> SUFFICES ASSUME NEW i \in Depth', i # 1 PROVE calls'[i].loop \in Under[calls'[i - 1].loop]
    OBVIOUS
  <2>1. i - 1 \in Depth' /\ i \in Depth
    BY <1>1, <1>7
  <2>2. QED
    BY <2>1, <1>8 DEF Stacked
<1>15. Stacked'
  <2>1. \A i \in Depth' : Cursor(i)' \in Cursors(buf)
    BY <1>11, <1>12 DEF Stacked
  <2>2. Limit(1)' = Len(buf') + 1
    BY <1>10, <1>12 DEF Stacked
  <2>3. \A i, j \in Depth' : i < j => Limit(j)' < At(i)'
    BY <1>10, <1>12 DEF Stacked
  <2>4. \A i \in Depth' : calls'[i].loop \in {"count_entries", "count_body"} <=> Counting'
    BY <1>8, <1>12, <1>13 DEF Stacked
  <2>5. calls'[1].loop \in {"count_entries", "fill_file"}
    BY <1>13 DEF Stacked
  <2>6. calls' \in Seq(Frame) /\ Len(calls') >= 1
    BY <1>1, <1>6
  <2>7. QED
    BY <2>1, <2>2, <2>3, <2>4, <2>5, <2>6, <1>14 DEF Stacked
<1>16. QED
  BY <1>1, <1>6, <1>7, <1>8, <1>11, <1>15, <1>4

LEMMA PutFrame ==
  ASSUME NEW s \in Seq(Frame), NEW k \in 1..Len(s), NEW g \in Frame
  PROVE  LET t == [s EXCEPT ![k] = g]
         IN  /\ t \in Seq(Frame) /\ Len(t) = Len(s) /\ t[k] = g
             /\ \A i \in 1..Len(s) : i # k => t[i] = s[i]
OBVIOUS

(* The same body over again, in a loop of another kind.                    *)
Loops(loop, n) == calls' = [calls EXCEPT ![Len(calls)].loop = loop, ![Len(calls)].n = n]

LEMMA Restarts ==
  ASSUME Stacked, NEW k, k = Len(calls), buf' = buf, size' = size,
         NEW loop \in DOMAIN Place, NEW n \in Nat, Place[loop] = Place[Top.loop],
         Loops(loop, n),
         k = 1 => loop = "fill_file",
         k # 1 => loop \in Under[calls[k - 1].loop],
         offset' \in 1..size
  PROVE  /\ Stacked' /\ Len(calls') = k /\ Depth' = Depth
         /\ \A i \in Depth : i # k => calls'[i] = calls[i] /\ Cursor(i)' = Cursor(i)
         /\ calls'[k].loop = loop /\ calls'[k].n = n /\ calls'[k].slot = calls[k].slot
         /\ Cursor(k)' = [where |-> Place[Top.loop], at |-> offset', limit |-> size]
<1>1. /\ k \in Nat /\ k >= 1 /\ Depth = 1..k /\ k \in Depth /\ calls \in Seq(Frame) /\ Top = calls[k]
      /\ offset \in Nat /\ size \in Nat
  BY StackTypes DEF Stacked
<1>2. calls[k] \in Frame
  BY <1>1, StackTypes
<1> DEFINE g == [calls[k] EXCEPT !.loop = loop, !.n = n]
<1>3. g \in Frame /\ g.n = n /\ g.loop = loop /\ g.slot = calls[k].slot /\ g.saved = calls[k].saved
  BY <1>2 DEF Frame
<1>4. calls' = [calls EXCEPT ![k] = g]
  BY <1>1 DEF Loops
<1> HIDE DEF g
<1>5. calls' \in Seq(Frame) /\ Len(calls') = k /\ calls'[k] = g /\ Depth' = Depth
      /\ \A i \in Depth : i # k => calls'[i] = calls[i]
  <2>1. calls' \in Seq(Frame) /\ Len(calls') = k /\ calls'[k] = g
        /\ \A i \in 1..k : i # k => calls'[i] = calls[i]
    BY <1>1, <1>3, <1>4, PutFrame
  <2>2. QED
    BY <2>1, <1>1 DEF Depth
<1>6. \A i \in Depth : calls'[i].saved = calls[i].saved
  BY <1>5, <1>3
<1>7. \A i \in Depth : Limit(i)' = Limit(i) /\ (i # k => At(i)' = At(i))
  BY <1>1, <1>5, <1>6 DEF Limit, At
<1>8. At(k)' = offset' /\ Limit(k) = size
  BY <1>1, <1>5 DEF At, Limit
<1>9. \A i \in Depth : i # k => Cursor(i)' = Cursor(i)
  BY <1>5, <1>7 DEF Cursor
<1>10. Cursor(k)' = [where |-> Place[Top.loop], at |-> offset', limit |-> size]
  BY <1>5, <1>3, <1>7, <1>8, <1>1 DEF Cursor
<1>11. Cursor(k)' \in Cursors(buf)
  <2>1. Cursor(k) \in Cursors(buf) /\ Cursor(k) = [where |-> Place[Top.loop], at |-> offset, limit |-> size]
    BY <1>1, StackTypes DEF Stacked
  <2>2. QED
    BY <2>1, <1>10, <1>1 DEF Cursors
<1>12. \A i, j \in Depth : i < j => Limit(j)' < At(i)'
  BY <1>1, <1>7 DEF Stacked
<1>13. calls'[1].loop \in {"count_entries", "fill_file"}
  BY <1>1, <1>5, <1>3 DEF Stacked
<1>14. \A i \in Depth : i # 1 => calls'[i].loop \in Under[calls'[i - 1].loop]
  <2> SUFFICES ASSUME NEW i \in Depth, i # 1 PROVE calls'[i].loop \in Under[calls'[i - 1].loop]
    OBVIOUS
  <2>1. i - 1 \in Depth /\ calls'[i - 1] = calls[i - 1]
    BY <1>1, <1>5
  <2>2. CASE i = k
    BY <2>1, <2>2, <1>5, <1>3
  <2>3. CASE i # k
    BY <2>1, <2>3, <1>5 DEF Stacked
  <2>4. QED
    BY <2>2, <2>3
<1>15. \A i \in Depth : calls'[i].loop \in {"count_entries", "count_body"} <=> Counting'
  <2>1. CASE k = 1
    BY <2>1, <1>1, <1>5, <1>3 DEF Counting
  <2>2. CASE k # 1
    <3>1. k - 1 \in Depth /\ calls[k - 1].loop \in DOMAIN Place /\ (Counting' <=> Counting)
      <4>1. 1 \in Depth /\ k - 1 \in Depth
        BY <2>2, <1>1
      <4>2. calls'[1] = calls[1]
        BY <4>1, <2>2, <1>5
      <4>3. QED
        BY <4>1, <4>2, StackTypes DEF Counting
    <3>2. loop \in {"count_entries", "count_body"} <=> Counting
      BY <2>2, <3>1, UnderWhat DEF Stacked
    <3>3. QED
      BY <3>1, <3>2, <1>1, <1>5, <1>3 DEF Stacked
  <2>3. QED
    BY <2>1, <2>2
<1>16. Stacked'
  <2>1. \A i \in Depth' : Cursor(i)' \in Cursors(buf')
    <3>1. \A i \in Depth : Cursor(i) \in Cursors(buf)
      BY DEF Stacked
    <3>2. QED
      BY <3>1, <1>5, <1>9, <1>11
  <2>2. Limit(1)' = Len(buf') + 1
    BY <1>1, <1>7 DEF Stacked
  <2>3. /\ \A i, j \in Depth' : i < j => Limit(j)' < At(i)'
        /\ \A i \in Depth' : i # 1 => calls'[i].loop \in Under[calls'[i - 1].loop]
        /\ \A i \in Depth' : calls'[i].loop \in {"count_entries", "count_body"} <=> Counting'
    BY <1>5, <1>12, <1>14, <1>15
  <2>4. buf' \in Texts /\ calls' \in Seq(Frame) /\ Len(calls') >= 1
    BY <1>1, <1>5 DEF Stacked
  <2>5. QED
    BY <2>1, <2>2, <2>3, <2>4, <1>13 DEF Stacked
<1>17. QED
  BY <1>3, <1>5, <1>9, <1>10, <1>16

-----------------------------------------------------------------------------
(* Cardinalities.                                                          *)
LEMMA OneMore ==
  ASSUME NEW F, NEW A \in SUBSET F, NEW x \in A, IsFiniteSet(F)
  PROVE  /\ Cardinality(F \ (A \ {x})) = Cardinality(F \ A) + 1
         /\ Cardinality(F \ A) \in Nat
<1>1. F \ (A \ {x}) = (F \ A) \cup {x} /\ x \notin F \ A
  OBVIOUS
<1>2. IsFiniteSet(F \ A)
  BY FS_Subset
<1>3. QED
  BY <1>1, <1>2, FS_AddElement, FS_CardinalityType

LEMMA Fewer ==
  ASSUME NEW F, NEW A \in SUBSET F, IsFiniteSet(F)
  PROVE  /\ Cardinality(F \ A) \in Nat /\ Cardinality(F) \in Nat
         /\ Cardinality(F \ A) <= Cardinality(F)
BY FS_Subset, FS_CardinalityType

-----------------------------------------------------------------------------
(* What is ahead, when the loop at the top is one that looks for           *)
(* declarations.                                                           *)
Kept == {"import", "enum", "message"}
Lower(kind) == UNION {Of(kind, Walk(i)) : i \in {j \in Walking : j < Len(calls)}}
Seeks == Top.loop \in Walks \ {"count_fields"}

LEMMA NoCountBelow ==
  ASSUME Stacked, Seeks \/ Top.loop \in {"count_values", "fill_enum"}, NEW i \in Depth, i < Len(calls)
  PROVE  calls[i].loop # "count_fields"
<1>1. PICK k \in Nat : k = Len(calls) /\ Depth = 1..k /\ Top = calls[k]
  BY StackTypes
<1>2. SUFFICES ASSUME calls[i].loop = "count_fields" PROVE FALSE
  OBVIOUS
<1>3. i + 1 \in Depth /\ calls[i + 1].loop \in Under[calls[i].loop]
  BY <1>1 DEF Stacked
<1>4. calls[i + 1].loop = "count_choices"
  BY <1>2, <1>3, UnderFacts
<1>5. i + 1 # k
  BY <1>1, <1>4 DEF Seeks, Walks
<1>6. i + 2 \in Depth /\ calls[i + 2].loop \in Under[calls[i + 1].loop]
  BY <1>1, <1>3, <1>5 DEF Stacked
<1>7. QED
  BY <1>4, <1>6, UnderFacts

LEMMA AheadTop ==
  ASSUME Stacked, Seeks, NEW kind \in Kept, NEW k, k = Len(calls)
  PROVE  /\ Ahead(kind) = Lower(kind) \cup Of(kind, Cursor(k))
         /\ \A s \in Lower(kind) : s \in Nat /\ s > size
         /\ \A i \in Walking : i < k => Walk(i) = Cursor(i)
<1>1. k \in Nat /\ Depth = 1..k /\ Top = calls[k] /\ k \in Depth /\ Limit(k) = size /\ size \in Nat
  BY StackTypes DEF Limit
<1>2. \A i \in Walking : i < k => Walk(i) = Cursor(i)
  BY NoCountBelow, <1>1 DEF Walk, Walking
<1>3. k \in Walking /\ Walk(k) = Cursor(k)
  BY <1>1 DEF Walking, Seeks, Walk
<1>4. \A i \in Walking : i < k \/ i = k
  BY <1>1 DEF Walking
<1>5. Ahead(kind) = Lower(kind) \cup Of(kind, Cursor(k))
  BY <1>3, <1>4 DEF Ahead, Lower
<1>6. ASSUME NEW i \in Walking, i < k, NEW s \in Of(kind, Walk(i)) PROVE s \in Nat /\ s > size
  <2>1. i \in Depth /\ Cursor(i) \in Cursors(buf) /\ Limit(k) < At(i) /\ buf \in Texts
    BY <1>1, <1>6 DEF Walking, Stacked
  <2>2. s \in Nat /\ At(i) <= s
    BY <2>1, <1>6, <1>2, StartsRange, CursorAt DEF Of, Kept, Bodied
  <2>3. QED
    BY <2>1, <2>2, <1>1, CursorAt
<1>7. QED
  BY <1>2, <1>5, <1>6 DEF Lower

(* Going past an entry leaves all ahead but its start.                     *)
Past(kind) ==
  /\ Entry.kind = kind => Entry.start \in Ahead(kind)
  /\ Ahead(kind)' = Ahead(kind) \ (IF Entry.kind = kind THEN {Entry.start} ELSE {})

LEMMA OfStep ==
  ASSUME Stacked, Entry.kind # "none", NEW kind \in Kept, NEW k, k = Len(calls)
  PROVE  /\ Of(kind, Cursor(k)) = (IF Entry.kind = kind THEN {Entry.start} ELSE {})
              \cup (IF Entry.kind = "message" THEN Of(kind, Inside(buf, Cursor(k))) ELSE {})
              \cup Of(kind, Beyond(buf, Cursor(k)))
         /\ \A s \in Of(kind, Beyond(buf, Cursor(k))) : s > Entry.start
         /\ Entry.kind = "message" => \A s \in Of(kind, Inside(buf, Cursor(k))) : s > Entry.start
<1>1. buf \in Texts /\ Cursor(k) \in Cursors(buf) /\ Entry = Found(buf, Cursor(k))
  BY StackTypes DEF Stacked
<1>2. {"message"} \in SUBSET Bodied /\ "none" \notin {kind}
  BY DEF Bodied, Kept
<1>3. Of(kind, Cursor(k)) = (IF Entry.kind = kind THEN {Entry.start} ELSE {})
              \cup (IF Entry.kind = "message" THEN Of(kind, Inside(buf, Cursor(k))) ELSE {})
              \cup Of(kind, Beyond(buf, Cursor(k)))
  BY <1>1, <1>2, StartsStep DEF Of
<1>4. /\ Entry.start \in Nat /\ Entry.end \in Nat /\ Entry.start < Entry.end
      /\ Beyond(buf, Cursor(k)) \in Cursors(buf) /\ Beyond(buf, Cursor(k)).at = Entry.end
      /\ Entry.kind = "message" =>
           /\ Inside(buf, Cursor(k)) \in Cursors(buf)
           /\ Inside(buf, Cursor(k)).at \in Nat /\ Inside(buf, Cursor(k)).at > Entry.start
  BY EntryTypes DEF Bodied
<1>5. \A s \in Of(kind, Beyond(buf, Cursor(k))) : s > Entry.start
  <2> SUFFICES ASSUME NEW s \in Of(kind, Beyond(buf, Cursor(k))) PROVE s > Entry.start
    OBVIOUS
  <2>1. s \in Nat /\ Entry.end <= s
    BY <1>1, <1>2, <1>4, StartsRange DEF Of
  <2>2. QED
    BY <2>1, <1>4
<1>6. ASSUME Entry.kind = "message", NEW s \in Of(kind, Inside(buf, Cursor(k))) PROVE s > Entry.start
  <2>1. s \in Nat /\ Inside(buf, Cursor(k)).at <= s
    BY <1>1, <1>2, <1>4, <1>6, StartsRange DEF Of
  <2>2. QED
    BY <2>1, <1>4, <1>6
<1>7. QED
  BY <1>3, <1>5, <1>6

LEMMA AheadOn ==
  ASSUME Stacked, Seeks, Entry.kind # "none", Entry.kind # "message", buf' = buf,
         NEW k, k = Len(calls), Depth' = Depth, Len(calls') = k,
         \A i \in Depth : calls'[i].loop = calls[i].loop,
         \A i \in Depth : i < k => Cursor(i)' = Cursor(i),
         Cursor(k)' = Beyond(buf, Cursor(k)),
         NEW kind \in Kept
  PROVE  Past(kind)
<1>1. k \in Nat /\ Depth = 1..k /\ Top = calls[k] /\ k \in Depth
  BY StackTypes
<1>2. Walking' = Walking
  BY DEF Walking
<1>3. \A i \in Walking : i < k => Walk(i) = Cursor(i) /\ Walk(i)' = Cursor(i)
  <2> SUFFICES ASSUME NEW i \in Walking, i < k PROVE Walk(i) = Cursor(i) /\ Walk(i)' = Cursor(i)
    OBVIOUS
  <2>1. i \in Depth /\ calls[i].loop # "count_fields" /\ calls'[i].loop # "count_fields"
    BY NoCountBelow DEF Walking
  <2>2. QED
    BY <2>1 DEF Walk
<1>4. k \in Walking /\ Walk(k)' = Beyond(buf, Cursor(k))
  BY <1>1 DEF Walking, Walk, Seeks
<1>5. Lower(kind)' = Lower(kind)
  <2>1. \A i \in {j \in Walking : j < k} : Of(kind, Walk(i))' = Of(kind, Walk(i))
    BY <1>3 DEF Of
  <2>2. Lower(kind) = UNION {Of(kind, Walk(i)) : i \in {j \in Walking : j < k}}
    BY DEF Lower
  <2>3. Lower(kind)' = UNION {Of(kind, Walk(i))' : i \in {j \in Walking : j < k}}
    BY <1>2 DEF Lower
  <2>4. QED
    BY <2>1, <2>2, <2>3
<1>6. Ahead(kind)' = Lower(kind) \cup Of(kind, Beyond(buf, Cursor(k)))
  <2>1. \A i \in Walking : i < k \/ i = k
    BY <1>1 DEF Walking
  <2>2. Ahead(kind)' = Lower(kind)' \cup Of(kind, Walk(k))'
    BY <2>1, <1>2, <1>4 DEF Ahead, Lower
  <2>3. Of(kind, Walk(k))' = Of(kind, Beyond(buf, Cursor(k)))
    BY <1>4 DEF Of
  <2>4. QED
    BY <2>2, <2>3, <1>5
<1>7. QED
  BY <1>6, AheadTop, OfStep, EntryTypes, StackTypes DEF Past

LEMMA AheadIn ==
  ASSUME Stacked, Seeks, Entry.kind # "none", buf' = buf,
         NEW k, k = Len(calls), Depth' = 1..(k + 1), Len(calls') = k + 1,
         \A i \in Depth : calls'[i] = calls[i],
         \A i \in Depth : i < k => Cursor(i)' = Cursor(i),
         Cursor(k)' = Beyond(buf, Cursor(k)),
         IF Entry.kind = "message"
         THEN calls'[k + 1].loop \in Walks /\ Walk(k + 1)' = Inside(buf, Cursor(k))
         ELSE calls'[k + 1].loop \notin Walks,
         NEW kind \in Kept
  PROVE  Past(kind)
<1>1. k \in Nat /\ Depth = 1..k /\ Top = calls[k] /\ k \in Depth
  BY StackTypes
<1>2. Walking' = Walking \cup (IF Entry.kind = "message" THEN {k + 1} ELSE {})
  BY <1>1 DEF Walking
<1>3. \A i \in Walking : i < k => Walk(i)' = Walk(i)
  <2> SUFFICES ASSUME NEW i \in Walking, i < k PROVE Walk(i)' = Walk(i)
    OBVIOUS
  <2>1. i \in Depth /\ calls[i].loop # "count_fields" /\ calls'[i].loop # "count_fields"
    BY NoCountBelow DEF Walking
  <2>2. QED
    BY <2>1 DEF Walk
<1>4. k \in Walking /\ Walk(k)' = Beyond(buf, Cursor(k))
  BY <1>1 DEF Walking, Walk, Seeks
<1>5. \A i \in Walking : i < k \/ i = k
  BY <1>1 DEF Walking
<1>6. Lower(kind) = UNION {Of(kind, Walk(i))' : i \in {j \in Walking : j < k}}
  BY <1>3 DEF Lower, Of
<1>7. Of(kind, Walk(k))' = Of(kind, Beyond(buf, Cursor(k)))
  BY <1>4 DEF Of
<1>8. Entry.kind = "message" => Of(kind, Walk(k + 1))' = Of(kind, Inside(buf, Cursor(k)))
  BY DEF Of
<1>9. Ahead(kind)' = UNION {Of(kind, Walk(i))' : i \in Walking'}
  BY DEF Ahead
<1>10. Ahead(kind)' = Lower(kind) \cup Of(kind, Beyond(buf, Cursor(k)))
           \cup (IF Entry.kind = "message" THEN Of(kind, Inside(buf, Cursor(k))) ELSE {})
  <2>1. CASE Entry.kind = "message"
    <3>1. Ahead(kind)' = (UNION {Of(kind, Walk(i))' : i \in {j \in Walking : j < k}})
             \cup Of(kind, Walk(k))' \cup Of(kind, Walk(k + 1))'
      BY <2>1, <1>2, <1>4, <1>5, <1>9
    <3>2. QED
      BY <3>1, <2>1, <1>6, <1>7, <1>8
  <2>2. CASE Entry.kind # "message"
    <3>1. Ahead(kind)' = (UNION {Of(kind, Walk(i))' : i \in {j \in Walking : j < k}})
             \cup Of(kind, Walk(k))'
      BY <2>2, <1>2, <1>4, <1>5, <1>9
    <3>2. QED
      BY <3>1, <2>2, <1>6, <1>7
  <2>3. QED
    BY <2>1, <2>2
<1>11. QED
  BY <1>10, AheadTop, OfStep, EntryTypes, StackTypes DEF Past

LEMMA AheadSame ==
  ASSUME buf' = buf, Walking' = Walking, \A i \in Walking : Walk(i)' = Walk(i), NEW kind
  PROVE  Ahead(kind)' = Ahead(kind)
BY DEF Ahead, Of

LEMMA AheadOut ==
  ASSUME Stacked, Seeks, Entry.kind = "none", buf' = buf,
         NEW k, k = Len(calls), Depth' = 1..(k - 1),
         \A i \in Depth' : calls'[i].loop = calls[i].loop,
         \A i \in Depth' : Cursor(i)' = Cursor(i),
         NEW kind \in Kept
  PROVE  Ahead(kind)' = Ahead(kind)
<1>1. k \in Nat /\ Depth = 1..k /\ Cursor(k) \in Cursors(buf) /\ buf \in Texts
      /\ Entry = Found(buf, Cursor(k)) /\ k >= 1
  BY StackTypes DEF Stacked
<1>2. Of(kind, Cursor(k)) = {}
  BY <1>1, StartsNone DEF Of, Bodied, Kept
<1>3. Walking' = {j \in Walking : j < k}
  BY <1>1 DEF Walking
<1>4. \A i \in Walking' : Walk(i)' = Walk(i)
  <2> SUFFICES ASSUME NEW i \in Walking' PROVE Walk(i)' = Walk(i)
    OBVIOUS
  <2>1. i \in Walking /\ i < k /\ i \in Depth /\ i \in Depth'
    BY <1>3 DEF Walking
  <2>2. calls[i].loop # "count_fields" /\ calls'[i].loop # "count_fields"
    BY <2>1, NoCountBelow
  <2>3. QED
    BY <2>1, <2>2 DEF Walk
<1>5. Ahead(kind)' = Lower(kind)
  BY <1>3, <1>4 DEF Ahead, Lower, Of
<1>6. QED
  BY <1>2, <1>5, AheadTop

-----------------------------------------------------------------------------
WholeCursor == [where |-> "file", at |-> 1, limit |-> Len(buf) + 1]

LEMMA WholeFinite ==
  ASSUME Stacked, NEW kind \in Kept
  PROVE  IsFiniteSet(Whole(kind)) /\ Cardinality(Whole(kind)) \in Nat
<1>1. WholeCursor \in Cursors(buf) /\ buf \in Texts
  <2>1. Len(buf) \in Nat /\ buf \in Texts
    BY ReaderAssumption DEF Stacked
  <2>2. QED
    BY <2>1 DEF WholeCursor, Cursors, Limits, Places
<1>2. QED
  BY <1>1, StartsRange DEF Whole, Of, WholeCursor, Bodied, Kept

\* What is counted, and what is stored, of a kind.
Counts(kind) == counts[Sorts[kind]]
Used(kind) == used[Sorts[kind]]

LEMMA SortFacts ==
  /\ DOMAIN Sorts = Kept
  /\ Sorts["import"] = "imports" /\ Sorts["enum"] = "enums" /\ Sorts["message"] = "messages"
BY DEF Sorts, Kept

LEMMA WalkSame ==
  ASSUME Stacked, WalkInv, buf' = buf, counts' = counts, used' = used, Counting' = Counting,
         \A kind \in Kept : Ahead(kind)' = Ahead(kind)
  PROVE  WalkInv'
BY SortFacts DEF WalkInv, Tallied, Whole, Of

\* Past an entry of kind x, with one more of its sort, or of none.
More(f, x) == \A kind \in Kept :
  f[Sorts[kind]]' = IF kind = x THEN f[Sorts[kind]] + 1 ELSE f[Sorts[kind]]

LEMMA WalkPast ==
  ASSUME Stacked, WalkInv, buf' = buf, Counting' = Counting, \A kind \in Kept : Past(kind),
         IF Counting THEN More(counts, Entry.kind) /\ used' = used
                     ELSE counts' = counts /\ More(used, Entry.kind)
  PROVE  WalkInv'
<1> SUFFICES ASSUME NEW kind \in Kept PROVE Tallied(kind, Counts(kind), Used(kind))'
  BY SortFacts DEF WalkInv, Counts, Used
<1>1. Tallied(kind, Counts(kind), Used(kind)) /\ Past(kind)
  BY SortFacts DEF WalkInv, Counts, Used
<1>2. Whole(kind)' = Whole(kind) /\ IsFiniteSet(Whole(kind))
  BY WholeFinite DEF Whole, Of
<1>3. CASE Entry.kind = kind
  <2>1. Entry.start \in Ahead(kind) /\ Ahead(kind)' = Ahead(kind) \ {Entry.start}
        /\ Ahead(kind) \subseteq Whole(kind)
    BY <1>1, <1>3 DEF Past, Tallied
  <2>2. Cardinality(Whole(kind) \ Ahead(kind)') = Cardinality(Whole(kind) \ Ahead(kind)) + 1
    BY <2>1, <1>2, OneMore
  <2>3. QED
    BY <1>1, <1>2, <1>3, <2>1, <2>2 DEF Tallied, Counts, Used, More
<1>4. CASE Entry.kind # kind
  <2>1. Ahead(kind)' = Ahead(kind)
    BY <1>1, <1>4 DEF Past
  <2>2. QED
    BY <1>1, <1>2, <1>4, <2>1 DEF Tallied, Counts, Used, More
<1>5. QED
  BY <1>3, <1>4

-----------------------------------------------------------------------------
LEMMA SlotsMore ==
  ASSUME NEW n \in Nat
  PROVE  /\ Slots(n + 1) = Slots(n) \cup {n} /\ n \notin Slots(n)
         /\ \A i \in Slots(n) : i \in Nat /\ i < n
         /\ Slots(0) = {}
         /\ \A m \in Nat : m <= n => Slots(m) \subseteq Slots(n)
BY DEF Slots

(* What the messages and enums are like from outside stays.                *)
SameMessages ==
  /\ DOMAIN file'.messages = DOMAIN file.messages
  /\ \A k \in Messages : /\ file'.messages[k].start = Message(k).start
                         /\ file'.messages[k].body = Message(k).body
                         /\ file'.messages[k].parent = Message(k).parent
SameEnums ==
  /\ DOMAIN file'.enums = DOMAIN file.enums
  /\ \A k \in DOMAIN file.enums : /\ file'.enums[k].start = file.enums[k].start
                                  /\ file'.enums[k].body = file.enums[k].body
                                  /\ file'.enums[k].parent = file.enums[k].parent

\* PreOrder by its parts.
Around(s) == {k \in Messages : Message(k).body.start <= s /\ s < Message(k).body.close}
Innermost(s) == {k \in Around(s) : \A j \in Around(s) : Message(j).start <= Message(k).start}
Rising == \A i, j \in Messages : i < j => Message(i).start < Message(j).start
ParentsOfMessages == \A i \in Messages : Message(i).parent = Innermost(Message(i).start)
ParentsOfEnums == \A i \in DOMAIN file.enums : file.enums[i].parent = Innermost(file.enums[i].start)

LEMMA PreOrderParts == PreOrder <=> Rising /\ ParentsOfMessages /\ ParentsOfEnums
BY DEF PreOrder, Rising, ParentsOfMessages, ParentsOfEnums, Innermost, Around, Messages, Message

LEMMA PreOrderSame ==
  ASSUME PreOrder, SameMessages, SameEnums
  PROVE  PreOrder'
<1>1. Messages' = Messages /\ \A k \in Messages : /\ Message(k)'.start = Message(k).start
                                                  /\ Message(k)'.body = Message(k).body
                                                  /\ Message(k)'.parent = Message(k).parent
  BY DEF SameMessages, Messages, Message
<1>2. ASSUME NEW s PROVE Innermost(s)' = Innermost(s)
  <2>1. Around(s)' = Around(s)
    BY <1>1 DEF Around
  <2>2. QED
    BY <1>1, <2>1 DEF Innermost, Around
<1>3. Rising'
  BY <1>1, PreOrderParts DEF Rising
<1>4. ParentsOfMessages'
  <2> SUFFICES ASSUME NEW i \in Messages PROVE Message(i)'.parent = Innermost(Message(i).start)'
    BY <1>1 DEF ParentsOfMessages
  <2>1. Message(i).parent = Innermost(Message(i).start)
    BY PreOrderParts DEF ParentsOfMessages
  <2>2. Innermost(Message(i).start)' = Innermost(Message(i).start)
    BY <1>1, <1>2
  <2>3. QED
    BY <1>1, <2>1, <2>2
<1>5. ParentsOfEnums'
  <2> SUFFICES ASSUME NEW i \in DOMAIN file.enums
               PROVE  file'.enums[i].parent = Innermost(file.enums[i].start)'
    BY DEF ParentsOfEnums, SameEnums
  <2>1. file.enums[i].parent = Innermost(file.enums[i].start)
    BY PreOrderParts DEF ParentsOfEnums
  <2>2. Innermost(file.enums[i].start)' = Innermost(file.enums[i].start)
    BY <1>2 DEF SameEnums
  <2>3. QED
    BY <2>1, <2>2 DEF SameEnums
<1>6. QED
  BY <1>3, <1>4, <1>5
     DEF PreOrder, Rising, ParentsOfMessages, ParentsOfEnums, Innermost, Around, Messages, Message

-----------------------------------------------------------------------------
LEMMA WalkTypes ==
  ASSUME Stacked, OpenInv, NEW i \in Walking
  PROVE  /\ i \in Depth /\ Walk(i).at \in Nat /\ Walk(i).at <= At(i)
         /\ calls[i].loop # "count_fields" => Walk(i).at = At(i)
<1>1. i \in Depth
  BY DEF Walking
<1>2. CASE calls[i].loop = "count_fields"
  <2>1. calls[i].slot \in Messages /\ Message(calls[i].slot).body.start <= At(i)
        /\ MessageShape(buf, Message(calls[i].slot))
    BY <1>1, <1>2 DEF OpenInv, MessageLoops
  <2>2. Walk(i) = BodyCursor(Message(calls[i].slot).body)
    BY <1>2 DEF Walk, Message
  <2>3. Walk(i) \in Cursors(buf) /\ buf \in Texts
    BY <2>1, <2>2 DEF MessageShape, Stacked
  <2>4. Walk(i).at = Message(calls[i].slot).body.start
    BY <2>2 DEF BodyCursor
  <2>5. QED
    BY <1>1, <1>2, <2>1, <2>3, <2>4, CursorTypes
<1>3. CASE calls[i].loop # "count_fields"
  BY <1>1, <1>3, CursorAt DEF Walk
<1>4. QED
  BY <1>1, <1>2, <1>3

ShapesStay ==
  /\ \A k \in Messages : MessageShape(buf, Message(k)')
  /\ \A k \in DOMAIN file.enums : EnumShape(buf, file'.enums[k])

\* A loop over a message stays in it, and the walks go on.
LoopsStay ==
  /\ \A i \in Depth' : calls'[i].loop \in MessageLoops =>
       /\ i \in Depth /\ calls[i].loop \in MessageLoops /\ calls'[i].slot = calls[i].slot
       /\ At(i)' >= At(i) \/ At(i)' = Message(calls[i].slot).body.start
       /\ At(i)' \in Nat /\ Limit(i)' = Limit(i)
  /\ \A i \in Walking' : i \in Walking /\ Walk(i)'.at \in Nat /\ Walk(i)'.at >= Walk(i).at

LEMMA OpenSame ==
  ASSUME Stacked, OpenInv, buf' = buf, SameMessages, SameEnums, ShapesStay, LoopsStay,
         \A k \in Messages : Open(k) /\ ~Open(k)' =>
           \A i \in Walking' : Message(k).body.close < Walk(i)'.at
  PROVE  OpenInv'
<1>1. /\ Messages' = Messages /\ DOMAIN file'.enums = DOMAIN file.enums
      /\ \A k \in Messages : Message(k)'.start = Message(k).start /\ Message(k)'.body = Message(k).body
      /\ \A k \in DOMAIN file.enums : file'.enums[k].start = file.enums[k].start
  BY DEF SameMessages, SameEnums, Messages, Message
<1>2. \A k \in Messages : MessageShape(buf, Message(k)) /\ Message(k).start \in Nat
        /\ Message(k).body.start \in Nat /\ Message(k).body.close \in Nat
  <2> SUFFICES ASSUME NEW k \in Messages
               PROVE  MessageShape(buf, Message(k)) /\ Message(k).start \in Nat
                      /\ Message(k).body.start \in Nat /\ Message(k).body.close \in Nat
    OBVIOUS
  <2>1. MessageShape(buf, Message(k)) /\ buf \in Texts
    BY DEF OpenInv, Stacked
  <2>2. BodyCursor(Message(k).body) \in Cursors(buf) /\ Message(k).start \in Nat
    BY <2>1 DEF MessageShape
  <2>3. BodyCursor(Message(k).body).at = Message(k).body.start
        /\ BodyCursor(Message(k).body).limit = Message(k).body.close
    BY DEF BodyCursor
  <2>4. QED
    BY <2>1, <2>2, <2>3, CursorTypes
<1>3. ASSUME NEW i \in Depth', calls'[i].loop \in MessageLoops
      PROVE  /\ calls'[i].slot \in Messages
             /\ Message(calls'[i].slot).body.start <= At(i)'
             /\ Message(calls'[i].slot).body.close = Limit(i)'
             /\ i \in Depth /\ calls[i].loop \in MessageLoops /\ calls'[i].slot = calls[i].slot
  <2>1. i \in Depth /\ calls[i].loop \in MessageLoops /\ calls'[i].slot = calls[i].slot
    BY <1>3 DEF LoopsStay
  <2>2. calls[i].slot \in Messages /\ Message(calls[i].slot).body.start <= At(i)
        /\ Message(calls[i].slot).body.close = Limit(i)
    BY <2>1 DEF OpenInv
  <2>3. QED
    BY <1>2, <1>3, <2>1, <2>2, CursorAt DEF LoopsStay
<1>4. \A i \in Depth' : calls'[i].loop \in MessageLoops =>
        /\ calls'[i].slot \in Messages'
        /\ Message(calls[i].slot)'.body.start <= At(i)'
        /\ Message(calls[i].slot)'.body.close = Limit(i)'
        /\ calls'[i].slot = calls[i].slot
  BY <1>1, <1>3
<1>5. ASSUME NEW i \in Depth', NEW j \in Depth', i < j,
             calls'[i].loop \in MessageLoops, calls'[j].loop \in MessageLoops
      PROVE  /\ calls'[i].slot < calls'[j].slot
             /\ Message(calls[i].slot)'.body.start <= Message(calls[j].slot)'.start
  <2>1. /\ i \in Depth /\ calls[i].loop \in MessageLoops /\ calls'[i].slot = calls[i].slot
        /\ j \in Depth /\ calls[j].loop \in MessageLoops /\ calls'[j].slot = calls[j].slot
        /\ calls[i].slot \in Messages /\ calls[j].slot \in Messages
    BY <1>3, <1>5
  <2>2. calls[i].slot < calls[j].slot
        /\ Message(calls[i].slot).body.start <= Message(calls[j].slot).start
    BY <1>5, <2>1 DEF OpenInv
  <2>3. QED
    BY <2>1, <2>2, <1>1
<1>6. ASSUME NEW i \in Walking'
      PROVE  i \in Walking /\ Walk(i)'.at \in Nat /\ Walk(i)'.at >= Walk(i).at /\ Walk(i).at \in Nat
  BY <1>6, WalkTypes DEF LoopsStay
<1>7. ASSUME NEW k \in Messages
      PROVE  Open(k)' \/ \A i \in Walking' : Message(k)'.body.close < Walk(i)'.at
  <2>1. CASE Open(k)
    BY <2>1, <1>1
  <2>2. CASE \A i \in Walking : Message(k).body.close < Walk(i).at
    BY <2>2, <1>1, <1>2, <1>6
  <2>3. QED
    BY <2>1, <2>2 DEF OpenInv
<1>8. \A k \in Messages : \A i \in Walking' : Message(k)'.start < Walk(i)'.at
  BY <1>1, <1>2, <1>6 DEF OpenInv
<1>9. \A k \in DOMAIN file.enums : \A i \in Walking' : file'.enums[k].start < Walk(i)'.at
  <2> SUFFICES ASSUME NEW k \in DOMAIN file.enums, NEW i \in Walking'
               PROVE  file'.enums[k].start < Walk(i)'.at
    OBVIOUS
  <2>1. file.enums[k].start \in Nat
    BY DEF OpenInv, EnumShape
  <2>2. file.enums[k].start < Walk(i).at
    BY <1>6 DEF OpenInv
  <2>3. QED
    BY <2>1, <2>2, <1>1, <1>6
<1>10. \A k \in Messages : MessageShape(buf, Message(k)')
  BY DEF ShapesStay
<1>11. \A k \in DOMAIN file.enums : EnumShape(buf, file'.enums[k])
  BY DEF ShapesStay
<1>12. QED
  BY <1>1, <1>4, <1>5, <1>7, <1>8, <1>9, <1>10, <1>11 DEF OpenInv

-----------------------------------------------------------------------------
(* A message that is begun.                                                *)
NewMessage == [start |-> Entry.start, body |-> Body(Entry), parent |-> Parent,
               count |-> 0, fields |-> NoFunction]
NewEnum == [start |-> Entry.start, body |-> Body(Entry), parent |-> Parent,
            count |-> 0, values |-> NoFunction]

LEMMA MessageTypes ==
  ASSUME Stacked, OpenInv, NEW k \in Messages
  PROVE  /\ MessageShape(buf, Message(k)) /\ Message(k).start \in Nat
         /\ Message(k).body.start \in Nat /\ Message(k).body.close \in Nat
         /\ Message(k).start < Message(k).body.start /\ Message(k).body.start <= Message(k).body.close
         /\ BodyCursor(Message(k).body) \in Cursors(buf)
<1>1. MessageShape(buf, Message(k)) /\ buf \in Texts
  BY DEF OpenInv, Stacked
<1>2. BodyCursor(Message(k).body) \in Cursors(buf) /\ Message(k).start \in Nat
      /\ Message(k).start < Message(k).body.start
  BY <1>1 DEF MessageShape
<1>3. BodyCursor(Message(k).body).at = Message(k).body.start
      /\ BodyCursor(Message(k).body).limit = Message(k).body.close
  BY DEF BodyCursor
<1>4. QED
  BY <1>1, <1>2, <1>3, CursorTypes

(* While declarations are read, the messages around the cursor are the     *)
(* open ones, and the loop at the top is in the innermost of them.         *)
Reads == Top.loop \in {"fill_file", "fill_message"}

LEMMA OpenAbove ==
  ASSUME Stacked, OpenInv, Reads, NEW i \in Depth, calls[i].loop \in MessageLoops
  PROVE  /\ Top.loop = "fill_message"
         /\ Message(calls[i].slot).start <= Message(Top.slot).start
         /\ Message(calls[i].slot).body.start <= offset
         /\ Message(calls[i].slot).body.close >= size
<1>1. PICK k \in Nat : /\ k = Len(calls) /\ Depth = 1..k /\ Top = calls[k] /\ k \in Depth
                       /\ At(k) = offset /\ Limit(k) = size /\ offset \in Nat /\ size \in Nat
                       /\ offset <= size
  BY StackTypes DEF At, Limit
<1>2. Top.loop = "fill_message"
  <2>1. SUFFICES ASSUME Top.loop = "fill_file" PROVE FALSE
    BY DEF Reads
  <2>2. k = 1
    <3>1. SUFFICES ASSUME k # 1 PROVE FALSE
      OBVIOUS
    <3>2. k - 1 \in Depth /\ calls[k].loop \in Under[calls[k - 1].loop]
      BY <1>1, <3>1 DEF Stacked
    <3>3. calls[k - 1].loop \in DOMAIN Place
      BY <1>1, <3>2, StackTypes
    <3>4. calls[k].loop # "fill_file"
      BY <3>2, <3>3, UnderWhat
    <3>5. QED
      BY <1>1, <2>1, <3>4
  <2>3. QED
    BY <1>1, <2>1, <2>2 DEF MessageLoops
<1>3. calls[i].slot \in Messages /\ Message(calls[i].slot).body.close = Limit(i)
      /\ Message(calls[i].slot).body.start <= At(i)
  BY DEF OpenInv
<1>4. Top.slot \in Messages /\ Message(Top.slot).body.start <= offset /\ Message(Top.slot).body.close = size
  BY <1>1, <1>2 DEF OpenInv, MessageLoops
<1>5. CASE i = k
  BY <1>1, <1>2, <1>4, <1>5, MessageTypes
<1>6. CASE i # k
  <2>1. i < k
    BY <1>1, <1>6
  <2>2. Message(calls[i].slot).body.start <= Message(Top.slot).start
    BY <2>1, <1>1, <1>2 DEF OpenInv, MessageLoops
  <2>3. Limit(k) < At(i)
    BY <2>1, <1>1 DEF Stacked
  <2>4. QED
    BY <1>1, <1>2, <1>3, <1>4, <2>2, <2>3, MessageTypes, CursorAt
<1>7. QED
  BY <1>5, <1>6

LEMMA AroundEntry ==
  ASSUME Stacked, OpenInv, Reads, Entry.kind # "none"
  PROVE  /\ Around(Entry.start) = {k \in Messages : Open(k)}
         /\ Innermost(Entry.start) = Parent
<1>1. PICK k \in Nat : /\ k = Len(calls) /\ Depth = 1..k /\ Top = calls[k] /\ k \in Depth
                       /\ At(k) = offset /\ Limit(k) = size /\ offset \in Nat /\ size \in Nat
  BY StackTypes DEF At, Limit
<1>2. Entry.start \in Nat /\ offset <= Entry.start /\ Entry.start < size
  BY EntryTypes, <1>1
<1>3. k \in Walking /\ Walk(k).at = offset
  BY <1>1, WalkTypes DEF Walking, Reads, Walks
<1>4. ASSUME NEW m \in Messages
      PROVE  (Message(m).body.start <= Entry.start /\ Entry.start < Message(m).body.close) <=> Open(m)
  <2>1. CASE Open(m)
    <3>1. PICK i \in Depth : calls[i].loop \in MessageLoops /\ calls[i].slot = m
      BY <2>1 DEF Open
    <3>2. Message(m).body.start <= offset /\ Message(m).body.close >= size
      BY <3>1, OpenAbove
    <3>3. QED
      BY <2>1, <3>2, <1>1, <1>2, MessageTypes
  <2>2. CASE ~Open(m)
    <3>1. Message(m).body.close < offset
      BY <2>2, <1>3 DEF OpenInv
    <3>2. QED
      BY <2>2, <3>1, <1>1, <1>2, MessageTypes
  <2>3. QED
    BY <2>1, <2>2
<1>5. Around(Entry.start) = {m \in Messages : Open(m)}
  BY <1>4 DEF Around
<1>6. CASE Top.loop = "fill_file"
  <2>1. \A i \in Depth : calls[i].loop \notin MessageLoops
    BY <1>6, OpenAbove
  <2>2. QED
    BY <1>5, <1>6, <2>1 DEF Open, Innermost, Parent
<1>7. CASE Top.loop = "fill_message"
  <2>1. Top.slot \in Messages /\ Open(Top.slot)
    BY <1>1, <1>7 DEF OpenInv, MessageLoops, Open
  <2>2. \A m \in Messages : Open(m) => Message(m).start <= Message(Top.slot).start
    BY OpenAbove DEF Open
  <2>3. \A m \in Messages : Open(m) /\ m # Top.slot => Message(m).start < Message(Top.slot).start
    <3> SUFFICES ASSUME NEW m \in Messages, Open(m), m # Top.slot
                 PROVE  Message(m).start < Message(Top.slot).start
      OBVIOUS
    <3>1. PICK i \in Depth : calls[i].loop \in MessageLoops /\ calls[i].slot = m
      BY DEF Open
    <3>2. i # k /\ i < k
      BY <1>1, <3>1
    <3>3. Message(m).body.start <= Message(Top.slot).start
      BY <3>1, <3>2, <1>1, <1>7 DEF OpenInv, MessageLoops
    <3>4. QED
      BY <3>3, <2>1, MessageTypes
  <2>4. ASSUME NEW m \in Messages, Open(m)
        PROVE  (\A j \in Around(Entry.start) : Message(j).start <= Message(m).start) <=> m = Top.slot
    <3>1. CASE m = Top.slot
      BY <3>1, <1>5, <2>2
    <3>2. CASE m # Top.slot
      <4>1. Message(m).start < Message(Top.slot).start /\ Top.slot \in Around(Entry.start)
        BY <2>4, <3>2, <2>3, <1>5, <2>1
      <4>2. QED
        BY <4>1, <3>2, <2>1, MessageTypes
    <3>3. QED
      BY <3>1, <3>2
  <2>5. Innermost(Entry.start) = {Top.slot}
    BY <1>5, <2>1, <2>4 DEF Innermost
  <2>6. QED
    BY <1>5, <1>7, <2>5 DEF Parent
<1>8. QED
  BY <1>6, <1>7 DEF Reads

\* What the steps that begin a message have in common.
MessageBegun(u) ==
  /\ u = used.messages
  /\ file'.messages = Write(file.messages, u, NewMessage)
  /\ file'.enums = file.enums
  /\ calls'[Len(calls) + 1].loop = "count_fields" /\ calls'[Len(calls) + 1].slot = u

LEMMA MessageBegins ==
  ASSUME Stacked, OpenInv, PreOrder, FileShape, Reads, Entry.kind = "message", buf' = buf,
         NEW u, MessageBegun(u)
  PROVE  /\ Messages' = Messages \cup {u} /\ u \notin Messages /\ u \in Nat
         /\ \A k \in Messages : k < u /\ Message(k)' = Message(k)
         /\ Message(u)' = NewMessage
         /\ MessageShape(buf, NewMessage)
         /\ PreOrder'
<1>1. u \in Nat /\ Messages = Slots(u) /\ u \notin Messages /\ \A k \in Messages : k \in Nat /\ k < u
  BY SlotsMore DEF MessageBegun, FileShape, Messages
<1>2. Messages' = Messages \cup {u} /\ Message(u)' = NewMessage
      /\ \A k \in Messages : Message(k)' = Message(k)
  BY <1>1 DEF MessageBegun, Messages, Message, Write
<1>3. PICK k \in Nat : /\ k = Len(calls) /\ Depth = 1..k /\ Top = calls[k] /\ k \in Depth
                       /\ At(k) = offset /\ offset \in Nat /\ size \in Nat
  BY StackTypes DEF At
<1>4. /\ Entry.start \in Nat /\ offset <= Entry.start
      /\ Body(Entry).start > Entry.start /\ Body(Entry).start \in Nat
      /\ Inside(buf, Cursor(k)) \in Cursors(buf)
      /\ Inside(buf, Cursor(k)) = BodyCursor(Body(Entry))
  BY <1>3, EntryTypes DEF Bodied, BodyCursor
<1>5. MessageShape(buf, NewMessage)
  <2>1. /\ NewMessage = [x \in DOMAIN NewMessage |-> NewMessage[x]]
        /\ DOMAIN NewMessage = {"start", "body", "parent", "count", "fields"}
        /\ NewMessage.start = Entry.start /\ NewMessage.count = 0 /\ NewMessage.body = Body(Entry)
    BY DEF NewMessage
  <2>2. QED
    BY <2>1, <1>4 DEF MessageShape
<1>6. k \in Walking /\ Walk(k).at = offset
  BY <1>3, WalkTypes DEF Walking, Reads, Walks
<1>7. \A m \in Messages : Message(m).start < Entry.start
  <2> SUFFICES ASSUME NEW m \in Messages PROVE Message(m).start < Entry.start
    OBVIOUS
  <2>1. Message(m).start < offset
    BY <1>6 DEF OpenInv
  <2>2. QED
    BY <2>1, <1>3, <1>4, MessageTypes
<1>8. \A m \in DOMAIN file.enums : file.enums[m].start < Entry.start /\ file.enums[m].start \in Nat
  <2> SUFFICES ASSUME NEW m \in DOMAIN file.enums
               PROVE  file.enums[m].start < Entry.start /\ file.enums[m].start \in Nat
    OBVIOUS
  <2>1. file.enums[m].start < offset /\ file.enums[m].start \in Nat
    BY <1>6 DEF OpenInv, EnumShape
  <2>2. QED
    BY <2>1, <1>3, <1>4
\* The new body begins after all that was stored before.
<1>9. ASSUME NEW s \in Nat, s <= Entry.start PROVE Innermost(s)' = Innermost(s)
  <2>1. ~(Message(u)'.body.start <= s)
    BY <1>2, <1>4, <1>9 DEF NewMessage
  <2>2. Around(s)' = Around(s)
    BY <1>2, <1>4, <2>1, <1>9 DEF Around
  <2>3. Around(s) \subseteq Messages
    BY DEF Around
  <2>4. QED
    BY <1>2, <2>2, <2>3 DEF Innermost
<1>10. Rising'
  <2> SUFFICES ASSUME NEW i \in Messages \cup {u}, NEW j \in Messages \cup {u}, i < j
               PROVE  Message(i)'.start < Message(j)'.start
    BY <1>2 DEF Rising
  <2>1. i \in Messages
    BY <1>1
  <2>2. CASE j \in Messages
    BY <2>1, <2>2, <1>2, PreOrderParts DEF Rising
  <2>3. CASE j = u
    BY <2>1, <2>3, <1>2, <1>7 DEF NewMessage
  <2>4. QED
    BY <2>2, <2>3
<1>11. ParentsOfMessages'
  <2> SUFFICES ASSUME NEW i \in Messages \cup {u}
               PROVE  Message(i)'.parent = Innermost(Message(i).start)'
    BY <1>2 DEF ParentsOfMessages
  <2>1. CASE i \in Messages
    <3>1. Message(i).start \in Nat /\ Message(i).start <= Entry.start
      BY <2>1, <1>7, <1>4, MessageTypes
    <3>2. Innermost(Message(i).start)' = Innermost(Message(i).start)
      BY <3>1, <2>1, <1>2, <1>9
    <3>3. QED
      BY <2>1, <3>2, <1>2, PreOrderParts DEF ParentsOfMessages
  <2>2. CASE i = u
    <3>1. Message(u)'.start = Entry.start /\ Message(u)'.parent = Parent
      BY <1>2 DEF NewMessage
    <3>2. Innermost(Message(u).start)' = Innermost(Entry.start)
      BY <3>1, <1>4, <1>9
    <3>3. QED
      BY <2>2, <3>1, <3>2, AroundEntry
  <2>3. QED
    BY <2>1, <2>2
<1>12. ParentsOfEnums'
  <2> SUFFICES ASSUME NEW i \in DOMAIN file.enums
               PROVE  file'.enums[i].parent = Innermost(file.enums[i].start)'
    BY DEF ParentsOfEnums, MessageBegun
  <2>1. Innermost(file.enums[i].start)' = Innermost(file.enums[i].start)
    BY <1>4, <1>8, <1>9 DEF MessageBegun
  <2>2. QED
    BY <2>1, PreOrderParts DEF ParentsOfEnums, MessageBegun
<1>13. PreOrder'
  BY <1>10, <1>11, <1>12
     DEF PreOrder, Rising, ParentsOfMessages, ParentsOfEnums, Innermost, Around, Messages, Message
<1>14. QED
  BY <1>1, <1>2, <1>5, <1>13

\* A body is entered: the stack is one deeper, and past the entry below.
Deeper(k) ==
  /\ k = Len(calls) /\ Len(calls') = k + 1 /\ Depth' = 1..(k + 1)
  /\ \A i \in Depth : calls'[i] = calls[i]
  /\ Cursor(k)' = Beyond(buf, Cursor(k)) /\ Cursor(k + 1)' = Inside(buf, Cursor(k))
  /\ \A i \in Depth : i < k => Cursor(i)' = Cursor(i)

LEMMA DeeperAt ==
  ASSUME Stacked, Entry.kind \in Bodied, buf' = buf, NEW k, Deeper(k)
  PROVE  /\ k \in Nat /\ Depth = 1..k /\ Top = calls[k] /\ k \in Depth /\ k >= 1
         /\ At(k) = offset /\ Limit(k) = size /\ offset \in Nat /\ size \in Nat
         /\ Entry.start \in Nat /\ Entry.end \in Nat /\ offset <= Entry.start /\ Entry.start < Entry.end
         /\ Entry.end <= size
         /\ Body(Entry).start > Entry.start /\ Body(Entry).start \in Nat /\ Body(Entry).close = Entry.end - 1
         /\ At(k)' = Entry.end /\ At(k + 1)' = Body(Entry).start /\ Limit(k + 1)' = Body(Entry).close
         /\ \A i \in Depth : i < k => At(i)' = At(i)
         /\ \A i \in Depth : Limit(i)' = Limit(i) /\ At(i)' \in Nat /\ At(i) \in Nat /\ At(i)' >= At(i)
<1>1. /\ k \in Nat /\ Depth = 1..k /\ Top = calls[k] /\ k \in Depth /\ k >= 1 /\ k = Len(calls)
      /\ At(k) = offset /\ Limit(k) = size /\ offset \in Nat /\ size \in Nat
  BY StackTypes DEF At, Limit, Deeper
<1>2. Entry.kind # "none"
  BY DEF Bodied
<1>3. /\ Entry.start \in Nat /\ Entry.end \in Nat /\ offset <= Entry.start /\ Entry.start < Entry.end
      /\ Entry.end <= size
      /\ Inside(buf, Cursor(k)).at = Body(Entry).start /\ Inside(buf, Cursor(k)).limit = Body(Entry).close
      /\ Body(Entry).start > Entry.start /\ Body(Entry).start \in Nat /\ Body(Entry).close = Entry.end - 1
      /\ Beyond(buf, Cursor(k)).at = Entry.end /\ Beyond(buf, Cursor(k)).limit = size
  BY <1>1, <1>2, EntryTypes
<1>4. At(k)' = Cursor(k)'.at /\ At(k + 1)' = Cursor(k + 1)'.at /\ Limit(k + 1)' = Cursor(k + 1)'.limit
      /\ Limit(k)' = Cursor(k)'.limit
  BY DEF Cursor
<1>5. \A i \in Depth : At(i)' = Cursor(i)'.at /\ At(i) = Cursor(i).at
        /\ Limit(i)' = Cursor(i)'.limit /\ Limit(i) = Cursor(i).limit
  BY DEF Cursor
<1>6. \A i \in Depth : i < k => At(i)' = At(i) /\ Limit(i)' = Limit(i)
  BY <1>5 DEF Deeper
<1>7. At(k)' = Entry.end /\ At(k + 1)' = Body(Entry).start /\ Limit(k + 1)' = Body(Entry).close
      /\ Limit(k)' = size
  BY <1>3, <1>4 DEF Deeper
<1>8. \A i \in Depth : Limit(i)' = Limit(i) /\ At(i)' \in Nat /\ At(i) \in Nat /\ At(i)' >= At(i)
  <2> SUFFICES ASSUME NEW i \in Depth
               PROVE  Limit(i)' = Limit(i) /\ At(i)' \in Nat /\ At(i) \in Nat /\ At(i)' >= At(i)
    OBVIOUS
  <2>1. CASE i = k
    BY <2>1, <1>1, <1>3, <1>7
  <2>2. CASE i # k
    <3>1. i < k
      BY <2>2, <1>1
    <3>2. QED
      BY <3>1, <1>6, CursorAt
  <2>3. QED
    BY <2>1, <2>2
<1>9. QED
  BY <1>1, <1>3, <1>6, <1>7, <1>8

(* The walks below are past the start of the entry.                        *)
LEMMA DeeperWalks ==
  ASSUME Stacked, OpenInv, Seeks, Entry.kind \in Bodied, buf' = buf, NEW k, Deeper(k)
  PROVE  /\ k \in Walking /\ Walk(k).at = offset
         /\ \A i \in Walking : /\ Walk(i)'.at \in Nat /\ Walk(i)'.at > Entry.start
                               /\ Walk(i).at \in Nat /\ Walk(i)'.at >= Walk(i).at
<1>1. /\ k \in Nat /\ Depth = 1..k /\ Top = calls[k] /\ k \in Depth /\ k = Len(calls) /\ At(k) = offset
      /\ Limit(k) = size /\ size \in Nat /\ Entry.start \in Nat /\ Entry.end \in Nat
      /\ Entry.start < Entry.end /\ Entry.end <= size /\ At(k)' = Entry.end
      /\ \A i \in Depth : i < k => At(i)' = At(i)
      /\ \A i \in Depth : At(i)' \in Nat /\ At(i) \in Nat /\ At(i)' >= At(i)
  BY DeeperAt DEF Deeper
<1>2. k \in Walking /\ Walk(k).at = offset
  BY <1>1, WalkTypes DEF Walking, Seeks
<1>3. ASSUME NEW i \in Walking
      PROVE  /\ Walk(i)'.at \in Nat /\ Walk(i)'.at > Entry.start
             /\ Walk(i).at \in Nat /\ Walk(i)'.at >= Walk(i).at
  <2>1. i \in Depth /\ calls[i].loop # "count_fields" /\ calls'[i] = calls[i]
    <3>1. i \in Depth
      BY DEF Walking
    <3>2. CASE i < k
      BY <3>1, <3>2, <1>1, NoCountBelow DEF Deeper
    <3>3. CASE i = k
      BY <3>3, <1>1 DEF Seeks, Deeper
    <3>4. QED
      BY <3>1, <3>2, <3>3, <1>1
  <2>2. Walk(i)'.at = At(i)' /\ Walk(i).at = At(i)
    BY <2>1 DEF Walk, Cursor
  <2>3. CASE i = k
    BY <2>2, <2>3, <1>1
  <2>4. CASE i # k
    <3>1. i < k /\ Limit(k) < At(i)
      BY <2>4, <2>1, <1>1 DEF Stacked
    <3>2. QED
      BY <3>1, <2>1, <2>2, <1>1
  <2>5. QED
    BY <2>3, <2>4
<1>4. QED
  BY <1>2, <1>3

LEMMA MessageOpens ==
  ASSUME Stacked, OpenInv, PreOrder, FileShape, Reads, Entry.kind = "message", buf' = buf,
         NEW u, MessageBegun(u), NEW k, Deeper(k)
  PROVE  /\ OpenInv' /\ Walk(k + 1)' = Inside(buf, Cursor(k))
         /\ \A m \in Messages : Open(m)' <=> Open(m)
         /\ Open(u)'
<1>1. /\ k \in Nat /\ Depth = 1..k /\ Top = calls[k] /\ k \in Depth /\ k >= 1 /\ k = Len(calls)
      /\ At(k) = offset /\ Limit(k) = size /\ offset \in Nat /\ size \in Nat
      /\ Entry.start \in Nat /\ Entry.end \in Nat /\ offset <= Entry.start /\ Entry.start < Entry.end
      /\ Entry.end <= size
      /\ Body(Entry).start > Entry.start /\ Body(Entry).start \in Nat /\ Body(Entry).close = Entry.end - 1
      /\ At(k)' = Entry.end /\ At(k + 1)' = Body(Entry).start /\ Limit(k + 1)' = Body(Entry).close
      /\ \A i \in Depth : Limit(i)' = Limit(i) /\ At(i)' \in Nat /\ At(i) \in Nat /\ At(i)' >= At(i)
      /\ Depth' = 1..(k + 1) /\ \A i \in Depth : calls'[i] = calls[i]
  BY DeeperAt DEF Deeper, Bodied
<1>2. /\ Messages' = Messages \cup {u} /\ u \notin Messages /\ u \in Nat
      /\ \A m \in Messages : m < u /\ Message(m)' = Message(m)
      /\ Message(u)' = NewMessage /\ MessageShape(buf, NewMessage)
  BY MessageBegins
<1>3. Inside(buf, Cursor(k)) = BodyCursor(Body(Entry))
  BY <1>1, EntryTypes DEF Bodied, BodyCursor
<1>5. Walk(k + 1)' = Inside(buf, Cursor(k))
  <2>1. Walk(k + 1)' = BodyCursor(file'.messages[u].body)
    BY <1>1 DEF Walk, MessageBegun
  <2>2. file'.messages[u] = NewMessage
    BY <1>2 DEF Message
  <2>3. QED
    BY <2>1, <2>2, <1>3 DEF NewMessage
<1>6. Walking' = Walking \cup {k + 1}
  BY <1>1 DEF Walking, MessageBegun, Walks
<1>7. /\ k \in Walking /\ Walk(k).at = offset
      /\ \A i \in Walking : Walk(i)'.at \in Nat /\ Walk(i)'.at > Entry.start
  BY DeeperWalks DEF Reads, Seeks, Walks, Bodied
<1>71. \A i \in Walking' : Walk(i)'.at \in Nat /\ Walk(i)'.at > Entry.start
  BY <1>1, <1>3, <1>5, <1>6, <1>7 DEF BodyCursor
<1>8. \A m \in Messages \cup {u} : Message(m)'.start <= Entry.start /\ Message(m)'.start \in Nat
  <2>2. \A m \in Messages : Message(m).start < offset
    BY <1>7 DEF OpenInv
  <2>3. ASSUME NEW m \in Messages PROVE Message(m)'.start <= Entry.start /\ Message(m)'.start \in Nat
    BY <2>2, <1>1, <1>2, MessageTypes
  <2>4. Message(u)'.start = Entry.start
    BY <1>2 DEF NewMessage
  <2>5. QED
    BY <2>3, <2>4, <1>1
<1>9. \A m \in Messages \cup {u} : \A i \in Walking' : Message(m)'.start < Walk(i)'.at
  BY <1>71, <1>8, <1>1
<1>10. \A m \in DOMAIN file'.enums : \A i \in Walking' : file'.enums[m].start < Walk(i)'.at
  <2> SUFFICES ASSUME NEW m \in DOMAIN file.enums, NEW i \in Walking'
               PROVE  file.enums[m].start < Walk(i)'.at
    BY DEF MessageBegun
  <2>2. file.enums[m].start < offset /\ file.enums[m].start \in Nat
    BY <1>7 DEF OpenInv, EnumShape
  <2>3. QED
    BY <2>2, <1>1, <1>71
<1>11. ASSUME NEW i \in Depth', calls'[i].loop \in MessageLoops
       PROVE  /\ calls'[i].slot \in Messages \cup {u}
              /\ Message(calls[i].slot)'.body.start <= At(i)'
              /\ Message(calls[i].slot)'.body.close = Limit(i)'
  <2>1. CASE i = k + 1
    <3>1. calls'[i].slot = u /\ Message(u)'.body = Body(Entry)
      BY <2>1, <1>1, <1>2 DEF MessageBegun, NewMessage
    <3>2. Message(calls[i].slot)' = Message(u)'
      BY <3>1 DEF Message
    <3>3. At(i)' = Body(Entry).start /\ Limit(i)' = Body(Entry).close
      BY <2>1, <1>1
    <3>4. QED
      BY <3>1, <3>2, <3>3, <1>1
  <2>2. CASE i # k + 1
    <3>1. i \in Depth /\ calls'[i] = calls[i]
      BY <2>2, <1>1
    <3>2. calls[i].slot \in Messages /\ Message(calls[i].slot).body.start <= At(i)
          /\ Message(calls[i].slot).body.close = Limit(i)
      BY <3>1, <1>11 DEF OpenInv
    <3>4. Message(calls[i].slot)' = Message(calls[i].slot)
      <4>1. Message(calls[i].slot)' = file'.messages[calls[i].slot]
        BY <3>1 DEF Message
      <4>2. QED
        BY <4>1, <3>2, <1>2 DEF Message
    <3>5. Message(calls[i].slot).body.start \in Nat /\ At(i) \in Nat
      BY <3>1, <3>2, CursorAt, MessageTypes
    <3>7. QED
      BY <3>1, <3>2, <3>4, <3>5, <1>1
  <2>3. QED
    BY <2>1, <2>2
<1>12. ASSUME NEW i \in Depth', NEW j \in Depth', i < j,
              calls'[i].loop \in MessageLoops, calls'[j].loop \in MessageLoops
       PROVE  /\ calls'[i].slot < calls'[j].slot
              /\ Message(calls[i].slot)'.body.start <= Message(calls[j].slot)'.start
  <2>1. i \in Depth /\ calls'[i] = calls[i]
    BY <1>1, <1>12
  <2>2. CASE j = k + 1
    <3>1. calls[i].slot \in Messages /\ Message(calls[i].slot).body.start <= offset
      BY <2>1, <1>12, OpenAbove DEF OpenInv
    <3>2. calls'[j].slot = u /\ Message(calls[j].slot)'.start = Entry.start
      BY <2>2, <1>1, <1>2 DEF MessageBegun, NewMessage
    <3>3. Message(calls[i].slot)' = Message(calls[i].slot)
      <4>1. PICK m : m = calls[i].slot
        OBVIOUS
      <4>2. file'.messages[m] = file.messages[m]
        BY <3>1, <4>1, <1>2 DEF Message
      <4>3. QED
        BY <2>1, <4>1, <4>2 DEF Message
    <3>4. calls[i].slot < u
      BY <3>1, <1>2
    <3>5. Message(calls[i].slot).body.start <= Entry.start
      BY <3>1, <1>1, MessageTypes
    <3>6. QED
      BY <2>1, <3>2, <3>3, <3>4, <3>5
  <2>3. CASE j # k + 1
    <3>1. j \in Depth /\ calls'[j] = calls[j]
      BY <2>3, <1>1
    <3>2. calls[i].slot \in Messages /\ calls[j].slot \in Messages
      BY <2>1, <3>1, <1>12 DEF OpenInv
    <3>3. QED
      BY <2>1, <3>1, <3>2, <1>2, <1>12 DEF OpenInv
  <2>4. QED
    BY <2>2, <2>3
<1>13. Open(u)'
  BY <1>1 DEF Open, MessageBegun, MessageLoops
<1>14. ASSUME NEW m \in Messages PROVE Open(m)' <=> Open(m)
  <2>1. m # u
    BY <1>2
  <2>2. \A i \in Depth' : i \in Depth \/ i = k + 1
    BY <1>1
  <2>3. Depth \subseteq Depth'
    BY <1>1
  <2>4. QED
    BY <2>1, <2>2, <2>3, <1>1 DEF Open, MessageBegun
<1>15. ASSUME NEW m \in Messages, ~Open(m) PROVE \A i \in Walking' : Message(m)'.body.close < Walk(i)'.at
  <2>2. Message(m).body.close < offset
    BY <1>7, <1>15 DEF OpenInv
  <2>3. QED
    BY <2>2, <1>1, <1>2, <1>71, MessageTypes
<1>16. \A m \in Messages' : Open(m)' \/ \A i \in Walking' : Message(m)'.body.close < Walk(i)'.at
  BY <1>2, <1>13, <1>14, <1>15
<1>17. \A m \in Messages' : MessageShape(buf', Message(m)')
  BY <1>2, MessageTypes
<1>18. \A m \in DOMAIN file'.enums : EnumShape(buf', file'.enums[m])
  BY DEF OpenInv, MessageBegun
<1>19. OpenInv'
  <2>1. \A i \in Depth' : calls'[i].loop \in MessageLoops =>
          /\ calls'[i].slot \in Messages'
          /\ Message(calls[i].slot)'.body.start <= At(i)'
          /\ Message(calls[i].slot)'.body.close = Limit(i)'
    BY <1>2, <1>11
  <2>2. \A m \in Messages' : \A i \in Walking' : Message(m)'.start < Walk(i)'.at
    BY <1>2, <1>9
  <2>3. QED
    BY <2>1, <2>2, <1>10, <1>12, <1>16, <1>17, <1>18 DEF OpenInv
<1>20. QED
  BY <1>5, <1>13, <1>14, <1>19

-----------------------------------------------------------------------------
(* An enum that is begun.                                                  *)
EnumBegun(u) ==
  /\ u = used.enums
  /\ file'.enums = Write(file.enums, u, NewEnum)
  /\ file'.messages = file.messages
  /\ calls'[Len(calls) + 1].loop = "count_values" /\ calls'[Len(calls) + 1].slot = u

LEMMA EnumBegins ==
  ASSUME Stacked, OpenInv, PreOrder, FileShape, Reads, Entry.kind = "enum", buf' = buf,
         NEW u, EnumBegun(u)
  PROVE  /\ DOMAIN file'.enums = DOMAIN file.enums \cup {u} /\ u \notin DOMAIN file.enums /\ u \in Nat
         /\ \A k \in DOMAIN file.enums : file'.enums[k] = file.enums[k]
         /\ file'.enums[u] = NewEnum
         /\ EnumShape(buf, NewEnum)
         /\ Messages' = Messages /\ \A k \in Messages : Message(k)' = Message(k)
         /\ PreOrder'
<1>1. u \in Nat /\ DOMAIN file.enums = Slots(u) /\ u \notin DOMAIN file.enums
  BY SlotsMore DEF EnumBegun, FileShape
<1>2. DOMAIN file'.enums = DOMAIN file.enums \cup {u} /\ file'.enums[u] = NewEnum
      /\ \A k \in DOMAIN file.enums : file'.enums[k] = file.enums[k]
  BY <1>1 DEF EnumBegun, Write
<1>3. Messages' = Messages /\ \A k \in Messages : Message(k)' = Message(k)
  BY DEF EnumBegun, Messages, Message
<1>4. PICK k \in Nat : k = Len(calls)
  BY StackTypes
<1>5. /\ Entry.start \in Nat /\ Body(Entry).start \in Nat /\ Body(Entry).close \in Nat
      /\ EnumCursor(Body(Entry)) \in Cursors(buf)
  <2>1. /\ Entry.start \in Nat /\ Body(Entry).start \in Nat /\ Inside(buf, Cursor(k)) \in Cursors(buf)
        /\ Inside(buf, Cursor(k)) = EnumCursor(Body(Entry))
    BY <1>4, EntryTypes DEF Bodied, EnumCursor
  <2>2. EnumCursor(Body(Entry)).limit = Body(Entry).close
    BY DEF EnumCursor
  <2>3. buf \in Texts
    BY DEF Stacked
  <2>4. QED
    BY <2>1, <2>2, <2>3, CursorTypes
<1>6. EnumShape(buf, NewEnum)
  <2>1. /\ NewEnum = [x \in DOMAIN NewEnum |-> NewEnum[x]]
        /\ DOMAIN NewEnum = {"start", "body", "parent", "count", "values"}
        /\ NewEnum.start = Entry.start /\ NewEnum.count = 0 /\ NewEnum.body = Body(Entry)
    BY DEF NewEnum
  <2>2. QED
    BY <2>1, <1>5 DEF EnumShape, EnumCursor
<1>7. ASSUME NEW s PROVE Innermost(s)' = Innermost(s)
  <2>1. Around(s)' = Around(s)
    BY <1>3 DEF Around
  <2>2. Around(s) \subseteq Messages
    BY DEF Around
  <2>3. QED
    BY <1>3, <2>1, <2>2 DEF Innermost
<1>8. Rising'
  BY <1>3, PreOrderParts DEF Rising
<1>9. ParentsOfMessages'
  <2>1. \A i \in Messages : Message(i)'.parent = Innermost(Message(i).start)'
    BY <1>3, <1>7, PreOrderParts DEF ParentsOfMessages
  <2>2. QED
    BY <1>3, <2>1 DEF ParentsOfMessages
<1>10. ParentsOfEnums'
  <2> SUFFICES ASSUME NEW i \in DOMAIN file.enums \cup {u}
               PROVE  file'.enums[i].parent = Innermost(file.enums[i].start)'
    BY <1>2 DEF ParentsOfEnums
  <2>1. CASE i \in DOMAIN file.enums
    <3>1. file'.enums[i] = file.enums[i]
      BY <2>1, <1>2
    <3>2. Innermost(file.enums[i].start)' = Innermost(file.enums[i].start)
      BY <3>1, <1>7
    <3>3. QED
      BY <2>1, <3>1, <3>2, PreOrderParts DEF ParentsOfEnums
  <2>2. CASE i = u
    <3>1. file'.enums[u].start = Entry.start /\ file'.enums[u].parent = Parent
      BY <1>2 DEF NewEnum
    <3>2. Innermost(file.enums[u].start)' = Innermost(Entry.start)
      BY <3>1, <1>7
    <3>3. QED
      BY <2>2, <3>1, <3>2, AroundEntry
  <2>3. QED
    BY <2>1, <2>2
<1>11. PreOrder'
  BY <1>8, <1>9, <1>10
     DEF PreOrder, Rising, ParentsOfMessages, ParentsOfEnums, Innermost, Around, Messages, Message
<1>12. QED
  BY <1>1, <1>2, <1>3, <1>6, <1>11

LEMMA EnumOpens ==
  ASSUME Stacked, OpenInv, PreOrder, FileShape, Reads, Entry.kind = "enum", buf' = buf,
         NEW u, EnumBegun(u), NEW k, Deeper(k)
  PROVE  /\ OpenInv' /\ Walking' = Walking
         /\ \A m \in Messages : Open(m)' <=> Open(m)
<1>1. /\ k \in Nat /\ Depth = 1..k /\ k \in Depth /\ k = Len(calls)
      /\ offset \in Nat /\ Entry.start \in Nat /\ offset <= Entry.start
      /\ \A i \in Depth : Limit(i)' = Limit(i) /\ At(i)' \in Nat /\ At(i) \in Nat /\ At(i)' >= At(i)
      /\ Depth' = 1..(k + 1) /\ \A i \in Depth : calls'[i] = calls[i]
  BY DeeperAt DEF Deeper, Bodied
<1>2. /\ DOMAIN file'.enums = DOMAIN file.enums \cup {u}
      /\ \A m \in DOMAIN file.enums : file'.enums[m] = file.enums[m]
      /\ file'.enums[u] = NewEnum /\ EnumShape(buf, NewEnum)
      /\ Messages' = Messages /\ \A m \in Messages : Message(m)' = Message(m)
  BY EnumBegins
<1>3. calls'[k + 1].loop \notin Walks /\ calls'[k + 1].loop \notin MessageLoops
  BY <1>1 DEF EnumBegun, Walks, MessageLoops
<1>4. Walking' = Walking
  <2>1. Walking' = {i \in Depth' : calls'[i].loop \in Walks}
    BY DEF Walking
  <2>2. Depth' = Depth \cup {k + 1}
    BY <1>1
  <2>3. \A i \in Depth : calls'[i].loop = calls[i].loop
    BY <1>1
  <2>4. QED
    BY <2>1, <2>2, <2>3, <1>3 DEF Walking
<1>5. /\ k \in Walking /\ Walk(k).at = offset
      /\ \A i \in Walking : /\ Walk(i)'.at \in Nat /\ Walk(i)'.at > Entry.start
                            /\ Walk(i).at \in Nat /\ Walk(i)'.at >= Walk(i).at
  BY DeeperWalks DEF Reads, Seeks, Walks, Bodied
<1>6. ASSUME NEW m \in Messages PROVE Open(m)' <=> Open(m)
  <2>1. Depth' = Depth \cup {k + 1}
    BY <1>1
  <2>2. \A i \in Depth : calls'[i] = calls[i]
    BY <1>1
  <2>3. Open(m)' <=> \E i \in Depth' : calls'[i].loop \in MessageLoops /\ calls'[i].slot = m
    BY DEF Open
  <2>4. Open(m) <=> \E i \in Depth : calls[i].loop \in MessageLoops /\ calls[i].slot = m
    BY DEF Open
  <2>5. ASSUME NEW i \in Depth', calls'[i].loop \in MessageLoops
        PROVE  i \in Depth /\ calls'[i] = calls[i]
    BY <2>1, <2>2, <2>5, <1>3
  <2>6. QED
    BY <2>1, <2>2, <2>3, <2>4, <2>5
<1>7. \A m \in Messages : \A i \in Walking : Message(m).start < Walk(i)'.at
  BY <1>5, MessageTypes DEF OpenInv
<1>8. \A m \in Messages : Open(m) \/ \A i \in Walking : Message(m).body.close < Walk(i)'.at
  BY <1>5, MessageTypes DEF OpenInv
<1>9. \A m \in DOMAIN file'.enums : \A i \in Walking : file'.enums[m].start < Walk(i)'.at
  <2> SUFFICES ASSUME NEW m \in DOMAIN file.enums \cup {u}, NEW i \in Walking
               PROVE  file'.enums[m].start < Walk(i)'.at
    BY <1>2
  <2>1. CASE m = u
    BY <2>1, <1>2, <1>5 DEF NewEnum
  <2>2. CASE m \in DOMAIN file.enums
    <3>1. file.enums[m].start < Walk(i).at /\ file.enums[m].start \in Nat
      BY <2>2 DEF OpenInv, EnumShape
    <3>2. QED
      BY <2>2, <3>1, <1>2, <1>5
  <2>3. QED
    BY <2>1, <2>2
<1>10. \A m \in DOMAIN file'.enums : EnumShape(buf, file'.enums[m])
  BY <1>2 DEF OpenInv
<1>11. ASSUME NEW i \in Depth', calls'[i].loop \in MessageLoops
       PROVE  /\ i \in Depth /\ calls'[i] = calls[i]
              /\ calls[i].slot \in Messages
              /\ Message(calls[i].slot)'.body.start <= At(i)'
              /\ Message(calls[i].slot)'.body.close = Limit(i)'
  <2>1. i \in Depth /\ calls'[i] = calls[i]
    BY <1>1, <1>3, <1>11
  <2>2. calls[i].slot \in Messages /\ Message(calls[i].slot).body.start <= At(i)
        /\ Message(calls[i].slot).body.close = Limit(i)
    BY <2>1, <1>11 DEF OpenInv
  <2>3. Message(calls[i].slot)' = Message(calls[i].slot)
    BY <2>1, <2>2, <1>2 DEF Message
  <2>4. QED
    BY <2>1, <2>2, <2>3, <1>1, MessageTypes
<1>12. ASSUME NEW i \in Depth', NEW j \in Depth', i < j,
              calls'[i].loop \in MessageLoops, calls'[j].loop \in MessageLoops
       PROVE  /\ calls'[i].slot < calls'[j].slot
              /\ Message(calls[i].slot)'.body.start <= Message(calls[j].slot)'.start
  <2>1. /\ i \in Depth /\ j \in Depth /\ calls'[i] = calls[i] /\ calls'[j] = calls[j]
        /\ calls[i].slot \in Messages /\ calls[j].slot \in Messages
    BY <1>11, <1>12
  <2>2. Message(calls[i].slot)' = Message(calls[i].slot) /\ Message(calls[j].slot)' = Message(calls[j].slot)
    BY <2>1, <1>2 DEF Message
  <2>3. QED
    BY <2>1, <2>2, <1>12 DEF OpenInv
<1>13. \A m \in Messages' : MessageShape(buf', Message(m)')
  BY <1>2, MessageTypes
<1>14. OpenInv'
  <2>1. \A i \in Depth' : calls'[i].loop \in MessageLoops =>
          /\ calls'[i].slot \in Messages'
          /\ Message(calls[i].slot)'.body.start <= At(i)'
          /\ Message(calls[i].slot)'.body.close = Limit(i)'
    BY <1>2, <1>11
  <2>2. \A m \in Messages' : Open(m)' \/ \A i \in Walking' : Message(m)'.body.close < Walk(i)'.at
    BY <1>2, <1>4, <1>6, <1>8
  <2>3. \A m \in Messages' : \A i \in Walking' : Message(m)'.start < Walk(i)'.at
    BY <1>2, <1>4, <1>7
  <2>4. \A m \in DOMAIN file'.enums : \A i \in Walking' : file'.enums[m].start < Walk(i)'.at
    BY <1>4, <1>9
  <2>5. QED
    BY <2>1, <2>2, <2>3, <2>4, <1>10, <1>12, <1>13 DEF OpenInv
<1>15. QED
  BY <1>4, <1>6, <1>14

-----------------------------------------------------------------------------
(* The fields of the message of a loop.                                    *)
FieldKinds == {"field", "choice"}

LEMMA ShapeMore ==
  ASSUME NEW text \in Texts, NEW loop, NEW m, NEW ahead, NEW n, NEW s \in ahead, NEW m2,
         FieldsShape(text, loop, m, ahead, n), BodyCursor(m.body) \in Cursors(text),
         m2.body = m.body, m2.count = m.count,
         DOMAIN m2.fields = IF loop = "fill_message" THEN DOMAIN m.fields \cup {n} ELSE DOMAIN m.fields
  PROVE  FieldsShape(text, loop, m2, ahead \ {s}, n + 1)
<1> DEFINE all == Starts(text, {"oneof"}, FieldKinds, BodyCursor(m.body))
<1>1. IsFiniteSet(all)
  BY StartsRange DEF Bodied, FieldKinds
<1>2. ahead \subseteq all /\ n = Cardinality(all \ ahead)
  BY DEF FieldsShape, FieldKinds
<1>3. Cardinality(all \ (ahead \ {s})) = n + 1 /\ n \in Nat
  BY <1>1, <1>2, OneMore
<1>4. Slots(n + 1) = Slots(n) \cup {n}
  BY <1>3, SlotsMore
<1>5. BodyCursor(m2.body) = BodyCursor(m.body)
  OBVIOUS
<1> HIDE DEF all
<1>6. FieldsShape(text, loop, m, ahead, n) <=>
        /\ ahead \subseteq all /\ n = Cardinality(all \ ahead)
        /\ loop = "count_fields" => DOMAIN m.fields = {} /\ m.count = 0
        /\ loop = "fill_message" => DOMAIN m.fields = Slots(n) /\ m.count = Cardinality(all)
  BY DEF FieldsShape, all, FieldKinds
<1>7. FieldsShape(text, loop, m2, ahead \ {s}, n + 1) <=>
        /\ ahead \ {s} \subseteq all /\ n + 1 = Cardinality(all \ (ahead \ {s}))
        /\ loop = "count_fields" => DOMAIN m2.fields = {} /\ m2.count = 0
        /\ loop = "fill_message" => DOMAIN m2.fields = Slots(n + 1) /\ m2.count = Cardinality(all)
  BY <1>5 DEF FieldsShape, all, FieldKinds
<1>8. QED
  BY <1>2, <1>3, <1>4, <1>6, <1>7

(* A oneof's loop is the innermost.                                        *)
LEMMA OneofOnTop ==
  ASSUME Stacked, NEW k, k = Len(calls), NEW i \in Depth
  PROVE  /\ InOneof(i) => i + 1 = k /\ calls[k].loop \in OneofLoops
         /\ ~InOneof(i) => Running(i) = calls[i].n /\ FieldsAhead(i) = FieldsOf(Cursor(i))
         /\ InOneof(i) => /\ Running(i) = calls[k].n
                          /\ FieldsAhead(i) = FieldsOf(Cursor(i)) \cup FieldsOf(Cursor(k))
<1>1. k \in Nat /\ Depth = 1..k
  BY StackTypes
<1>2. ASSUME InOneof(i) PROVE i + 1 = k /\ calls[k].loop \in OneofLoops
  <2>1. i \in Nat /\ i < k /\ i + 1 \in Depth /\ calls[i + 1].loop \in OneofLoops
    BY <1>1, <1>2 DEF InOneof
  <2>2. SUFFICES ASSUME i + 1 # k PROVE FALSE
    BY <2>1
  <2>3. i + 2 \in Depth /\ calls[i + 2].loop \in Under[calls[i + 1].loop]
    BY <2>1, <2>2, <1>1 DEF Stacked
  <2>4. QED
    BY <2>1, <2>3, UnderFacts DEF OneofLoops
<1>3. QED
  BY <1>2 DEF Running, FieldsAhead

(* The loop that reads a message's fields: its own, or that of a oneof.    *)
Ofs == MessageLoops \cup OneofLoops
Focus(f) == f = IF Top.loop \in OneofLoops THEN Len(calls) - 1 ELSE Len(calls)

LEMMA FocusTypes ==
  ASSUME Stacked, OpenInv, FieldsInv, Top.loop \in Ofs, NEW f, Focus(f), NEW k, k = Len(calls)
  PROVE  /\ f \in Depth /\ calls[f].loop \in MessageLoops /\ calls[f].slot = Top.slot
         /\ f \in Nat /\ k \in Nat /\ Depth = 1..k /\ Top = calls[k] /\ k \in Depth
         /\ Top.loop \in OneofLoops => f = k - 1
         /\ Top.loop \notin OneofLoops => f = k /\ ~InOneof(k)
         /\ Top.loop = "count_choices" => calls[f].loop = "count_fields"
         /\ Top.loop = "fill_oneof" => calls[f].loop = "fill_message"
         /\ InOneof(f) <=> Top.loop \in OneofLoops
         /\ Running(f) = Top.n
         /\ Top.slot \in Messages
         /\ FieldsAhead(f) = FieldsOf(Cursor(k)) \cup (IF f = k THEN {} ELSE FieldsOf(Cursor(f)))
         /\ \A i \in Depth : i # f /\ calls[i].loop \in MessageLoops =>
              ~InOneof(i) /\ i < k /\ calls[i].slot # Top.slot
<1>1. k \in Nat /\ Depth = 1..k /\ Top = calls[k] /\ k \in Depth /\ k >= 1
  BY StackTypes
<1>2. ASSUME Top.loop \in OneofLoops
      PROVE  /\ f = k - 1 /\ f \in Depth /\ calls[f].loop \in MessageLoops /\ calls[f].slot = Top.slot
             /\ InOneof(f)
             /\ Top.loop = "count_choices" => calls[f].loop = "count_fields"
             /\ Top.loop = "fill_oneof" => calls[f].loop = "fill_message"
  <2>1. k # 1
    BY <1>1, <1>2 DEF Stacked, OneofLoops
  <2>2. f = k - 1 /\ f \in Depth
    BY <2>1, <1>1, <1>2 DEF Focus
  <2>3. calls[k].loop \in Under[calls[f].loop] /\ calls[f].loop \in DOMAIN Place
    BY <2>1, <2>2, <1>1, StackTypes DEF Stacked
  <2>4. /\ Top.loop = "count_choices" => calls[f].loop = "count_fields"
        /\ Top.loop = "fill_oneof" => calls[f].loop = "fill_message"
    BY <2>3, <1>1, UnderWhat
  <2>5. calls[f].slot = Top.slot
    BY <1>1, <1>2, <2>2 DEF FieldsInv
  <2>6. InOneof(f)
    BY <1>1, <1>2, <2>2 DEF InOneof
  <2>7. QED
    BY <1>2, <2>2, <2>4, <2>5, <2>6 DEF OneofLoops, MessageLoops
<1>3. ASSUME Top.loop \notin OneofLoops
      PROVE  f = k /\ f \in Depth /\ calls[f].loop \in MessageLoops /\ calls[f].slot = Top.slot /\ ~InOneof(f)
  BY <1>1, <1>3 DEF Focus, Ofs, InOneof
<1>4. Running(f) = Top.n
  BY <1>1, <1>2, <1>3, OneofOnTop
<1>5. FieldsAhead(f) = FieldsOf(Cursor(k)) \cup (IF f = k THEN {} ELSE FieldsOf(Cursor(f)))
  BY <1>1, <1>2, <1>3, OneofOnTop
<1>6. f \in Depth /\ calls[f].loop \in MessageLoops /\ calls[f].slot = Top.slot
  BY <1>2, <1>3
<1>7. Top.slot \in Messages
  BY <1>6 DEF OpenInv
<1>8. ASSUME NEW i \in Depth, i # f, calls[i].loop \in MessageLoops
      PROVE  ~InOneof(i) /\ i < k /\ calls[i].slot # Top.slot
  <2>1. i # k
    BY <1>1, <1>3, <1>8 DEF MessageLoops, OneofLoops
  <2>2. i < k
    BY <2>1, <1>1
  <2>3. ~InOneof(i)
    <3>1. CASE Top.loop \in OneofLoops
      BY <3>1, <1>1, <1>2, <1>8, OneofOnTop
    <3>2. CASE Top.loop \notin OneofLoops
      BY <3>2, <1>1, OneofOnTop
    <3>3. QED
      BY <3>1, <3>2
  <2>4. i < f
    BY <2>2, <1>1, <1>2, <1>3, <1>8
  <2>5. calls[i].slot < calls[f].slot /\ calls[i].slot \in Nat
    BY <2>4, <1>6, <1>8, StackTypes DEF OpenInv
  <2>6. QED
    BY <2>2, <2>3, <2>5, <1>6
<1>9. /\ Top.loop \in OneofLoops => f = k - 1
      /\ Top.loop \notin OneofLoops => f = k /\ ~InOneof(k)
      /\ InOneof(f) <=> Top.loop \in OneofLoops
  BY <1>2, <1>3
<1>10. /\ Top.loop = "count_choices" => calls[f].loop = "count_fields"
       /\ Top.loop = "fill_oneof" => calls[f].loop = "fill_message"
  BY <1>2 DEF OneofLoops
<1>11. f \in Nat
  BY <1>1, <1>6
<1>12. QED
  BY <1>1, <1>4, <1>5, <1>6, <1>7, <1>8, <1>9, <1>10, <1>11

\* What a step leaves of the loops over messages, but those it moves in.
Unmoved(F) ==
  \A i \in Depth' : i \notin F /\ calls'[i].loop \in MessageLoops =>
    /\ i \in Depth /\ calls'[i].loop = calls[i].loop /\ calls'[i].slot = calls[i].slot
    /\ calls'[i].n = calls[i].n
    /\ Cursor(i)' = Cursor(i) /\ ~InOneof(i) /\ ~InOneof(i)'
    /\ Message(calls[i].slot)' = file.messages[calls[i].slot]

LEMMA FieldsStep ==
  ASSUME FieldsInv, buf' = buf, NEW F, Unmoved(F),
         \A i \in Depth' : i \in F /\ calls'[i].loop \in MessageLoops =>
           FieldsShape(buf, calls'[i].loop, Message(calls[i].slot)', FieldsAhead(i)', Running(i)'),
         \A i \in Depth' : calls'[i].loop \in OneofLoops => calls'[i].slot = calls'[i - 1].slot,
         \A m \in Messages' : Open(m)' \/ FieldsFilled(Message(m)')
  PROVE  FieldsInv'
<1>1. ASSUME NEW i \in Depth', calls'[i].loop \in MessageLoops
      PROVE  FieldsShape(buf, calls'[i].loop, Message(calls[i].slot)', FieldsAhead(i)', Running(i)')
  <2>1. CASE i \in F
    BY <1>1, <2>1
  <2>2. CASE i \notin F
    <3>1. /\ i \in Depth /\ calls'[i].loop = calls[i].loop /\ calls'[i].slot = calls[i].slot
          /\ calls'[i].n = calls[i].n
          /\ Cursor(i)' = Cursor(i) /\ ~InOneof(i) /\ ~InOneof(i)'
          /\ Message(calls[i].slot)' = Message(calls[i].slot)
      BY <1>1, <2>2 DEF Unmoved, Message
    <3>2. FieldsAhead(i)' = FieldsAhead(i) /\ Running(i)' = Running(i)
      BY <3>1 DEF FieldsAhead, Running, FieldsOf
    <3>3. QED
      BY <1>1, <3>1, <3>2 DEF FieldsInv
  <2>3. QED
    BY <2>1, <2>2
<1>2. QED
  BY <1>1 DEF FieldsInv

-----------------------------------------------------------------------------
\* Past an entry, in the same loops.
Onward(k) ==
  /\ k = Len(calls) /\ SameLoops /\ Depth' = Depth /\ Len(calls') = k
  /\ Cursor(k)' = Beyond(buf, Cursor(k))
  /\ \A i \in Depth : i < k => Cursor(i)' = Cursor(i)

LEMMA FieldsOfStep ==
  ASSUME Stacked, Entry.kind # "none", NEW k, k = Len(calls)
  PROVE  /\ FieldsOf(Cursor(k)) = (IF Entry.kind \in FieldKinds THEN {Entry.start} ELSE {})
              \cup (IF Entry.kind = "oneof" THEN FieldsOf(Inside(buf, Cursor(k))) ELSE {})
              \cup FieldsOf(Beyond(buf, Cursor(k)))
         /\ Entry.start \notin FieldsOf(Beyond(buf, Cursor(k)))
<1>1. buf \in Texts /\ Cursor(k) \in Cursors(buf) /\ Entry = Found(buf, Cursor(k))
  BY StackTypes DEF Stacked
<1>2. {"oneof"} \in SUBSET Bodied /\ "none" \notin FieldKinds
  BY DEF Bodied, FieldKinds
<1>3. FieldsOf(Cursor(k)) = (IF Entry.kind \in FieldKinds THEN {Entry.start} ELSE {})
              \cup (IF Entry.kind = "oneof" THEN FieldsOf(Inside(buf, Cursor(k))) ELSE {})
              \cup FieldsOf(Beyond(buf, Cursor(k)))
  BY <1>1, <1>2, StartsStep DEF FieldsOf, FieldKinds
<1>4. /\ Entry.start \in Nat /\ Entry.end \in Nat /\ Entry.start < Entry.end
      /\ Beyond(buf, Cursor(k)) \in Cursors(buf) /\ Beyond(buf, Cursor(k)).at = Entry.end
  BY EntryTypes
<1>5. \A s \in FieldsOf(Beyond(buf, Cursor(k))) : s \in Nat /\ Entry.end <= s
  BY <1>1, <1>2, <1>4, StartsRange DEF FieldsOf, FieldKinds
<1>6. QED
  BY <1>3, <1>4, <1>5

LEMMA OnwardOneofs ==
  ASSUME Stacked, NEW k, Onward(k)
  PROVE  \A i \in Depth : /\ InOneof(i)' <=> InOneof(i)
                          /\ calls'[i].loop = calls[i].loop /\ calls'[i].slot = calls[i].slot
                          /\ i # k => calls'[i] = calls[i] /\ Cursor(i)' = Cursor(i)
<1>1. k \in Nat /\ Depth = 1..k /\ k = Len(calls) /\ Len(calls') = k
  BY StackTypes DEF Onward
<1>2. QED
  BY <1>1 DEF Onward, SameLoops, InOneof

LEMMA OnwardAhead ==
  ASSUME Stacked, OpenInv, FieldsInv, NEW k, Onward(k), Top.loop \in Ofs, NEW f, Focus(f), buf' = buf,
         Entry.kind \notin {"none", "oneof"}
  PROVE  /\ IF Entry.kind \in FieldKinds
            THEN Entry.start \in FieldsAhead(f) /\ FieldsAhead(f)' = FieldsAhead(f) \ {Entry.start}
            ELSE FieldsAhead(f)' = FieldsAhead(f)
         /\ Running(f)' = calls'[k].n
<1>1. k = Len(calls) /\ Cursor(k)' = Beyond(buf, Cursor(k)) /\ k \in Nat /\ Depth = 1..k
      /\ k \in Depth /\ Top = calls[k]
  BY StackTypes DEF Onward
<1>2. /\ Top.loop \in OneofLoops => f = k - 1
      /\ Top.loop \notin OneofLoops => f = k
      /\ InOneof(f) <=> Top.loop \in OneofLoops
      /\ FieldsAhead(f) = FieldsOf(Cursor(k)) \cup (IF f = k THEN {} ELSE FieldsOf(Cursor(f)))
  BY <1>1, FocusTypes
<1>21. f \in Depth
  BY <1>1, FocusTypes
<1>3. InOneof(f)' <=> Top.loop \in OneofLoops
  BY <1>2, <1>21, OnwardOneofs
<1>4. Running(f)' = calls'[k].n
  BY <1>1, <1>2, <1>3, <1>21 DEF Running
<1>5. f # k => Cursor(f)' = Cursor(f)
  BY <1>21, OnwardOneofs
<1>6. FieldsAhead(f)' = FieldsOf(Beyond(buf, Cursor(k))) \cup (IF f = k THEN {} ELSE FieldsOf(Cursor(f)))
  <2>1. CASE Top.loop \in OneofLoops
    <3>1. f + 1 = k /\ f # k
      BY <2>1, <1>1, <1>2
    <3>2. FieldsAhead(f)' = FieldsOf(Cursor(f))' \cup FieldsOf(Cursor(k))'
      BY <2>1, <1>3, <3>1 DEF FieldsAhead
    <3>3. FieldsOf(Cursor(f))' = FieldsOf(Cursor(f))
      BY <3>1, <1>5 DEF FieldsOf
    <3>4. FieldsOf(Cursor(k))' = FieldsOf(Beyond(buf, Cursor(k)))
      BY <1>1 DEF FieldsOf
    <3>5. QED
      BY <3>1, <3>2, <3>3, <3>4
  <2>2. CASE Top.loop \notin OneofLoops
    <3>1. f = k
      BY <2>2, <1>2
    <3>2. FieldsAhead(f)' = FieldsOf(Cursor(k))'
      BY <2>2, <1>3, <3>1 DEF FieldsAhead
    <3>3. FieldsOf(Cursor(k))' = FieldsOf(Beyond(buf, Cursor(k)))
      BY <1>1 DEF FieldsOf
    <3>4. QED
      BY <3>1, <3>2, <3>3
  <2>3. QED
    BY <2>1, <2>2
\* What is ahead in the message lies past the oneof.
<1>7. f # k => Entry.start \notin FieldsOf(Cursor(f))
  <2> SUFFICES ASSUME f # k PROVE Entry.start \notin FieldsOf(Cursor(f))
    OBVIOUS
  <2>1. f < k /\ Limit(k) < At(f) /\ Limit(k) = size
    BY <1>1, <1>2, <1>21 DEF Stacked, Limit
  <2>2. Entry.start \in Nat /\ Entry.start < size /\ size \in Nat /\ At(f) \in Nat
        /\ Cursor(f).at = At(f) /\ Cursor(f) \in Cursors(buf) /\ buf \in Texts
    BY <1>1, <1>21, EntryTypes, StackTypes, CursorAt DEF Stacked
  <2>3. \A s \in FieldsOf(Cursor(f)) : s \in Nat /\ At(f) <= s
    BY <2>2, StartsRange DEF FieldsOf, Bodied
  <2>4. QED
    BY <2>1, <2>2, <2>3
<1>8. /\ FieldsOf(Cursor(k)) = (IF Entry.kind \in FieldKinds THEN {Entry.start} ELSE {})
            \cup FieldsOf(Beyond(buf, Cursor(k)))
      /\ Entry.start \notin FieldsOf(Beyond(buf, Cursor(k)))
  BY <1>1, FieldsOfStep
<1>9. QED
  BY <1>2, <1>4, <1>6, <1>7, <1>8

\* The messages keep their fields.
MessagesKept == Messages' = Messages /\ \A m \in Messages : Message(m)' = Message(m)

LEMMA SlotsOfLoops ==
  ASSUME OpenInv, MessagesKept, NEW i \in Depth, calls[i].loop \in MessageLoops
  PROVE  /\ calls[i].slot \in Messages
         /\ file'.messages[calls[i].slot] = file.messages[calls[i].slot]
BY DEF OpenInv, MessagesKept, Message

LEMMA FieldsPassed ==
  ASSUME Stacked, OpenInv, FieldsInv, buf' = buf, NEW k, Onward(k), MessagesKept, Entry.kind # "none",
         Top.loop \in Ofs => Entry.kind \notin FieldKinds \cup {"oneof"} /\ calls'[k].n = calls[k].n
  PROVE  FieldsInv'
<1>1. k \in Nat /\ Depth = 1..k /\ k = Len(calls) /\ Len(calls') = k /\ Depth' = Depth /\ Top = calls[k]
      /\ k \in Depth
  BY StackTypes DEF Onward
<1>2. PICK f : Focus(f)
  BY DEF Focus
<1>21. PICK g : g = IF Top.loop \in Ofs THEN f ELSE k
  OBVIOUS
<1>3. \A i \in Depth : i # g /\ calls[i].loop \in MessageLoops => i < k /\ ~InOneof(i)
  <2>1. CASE Top.loop \in Ofs
    BY <2>1, <1>1, <1>2, <1>21, FocusTypes
  <2>2. CASE Top.loop \notin Ofs
    BY <2>2, <1>1, <1>21, OneofOnTop DEF Ofs
  <2>3. QED
    BY <2>1, <2>2
<1>4. Unmoved({g})
  <2> SUFFICES ASSUME NEW i \in Depth, i # g, calls[i].loop \in MessageLoops
               PROVE  /\ calls'[i] = calls[i] /\ Cursor(i)' = Cursor(i) /\ ~InOneof(i) /\ ~InOneof(i)'
                      /\ file'.messages[calls[i].slot] = file.messages[calls[i].slot]
                      /\ calls'[i].slot = calls[i].slot
    BY <1>1, OnwardOneofs DEF Unmoved, Message
  <2>1. i < k /\ ~InOneof(i)
    BY <1>3
  <2>2. file'.messages[calls[i].slot] = file.messages[calls[i].slot]
    BY SlotsOfLoops
  <2>3. /\ InOneof(i)' <=> InOneof(i)
        /\ calls'[i] = calls[i] /\ Cursor(i)' = Cursor(i) /\ calls'[i].slot = calls[i].slot
    BY <2>1, <1>1, OnwardOneofs
  <2>4. QED
    BY <2>1, <2>2, <2>3
<1>5. ASSUME g \in Depth', calls'[g].loop \in MessageLoops
      PROVE  FieldsShape(buf, calls'[g].loop, Message(calls[g].slot)', FieldsAhead(g)', Running(g)')
  <2>1. g \in Depth /\ calls'[g].loop = calls[g].loop /\ calls'[g].slot = calls[g].slot
    BY <1>1, <1>5, OnwardOneofs
  <2>2. Top.loop \in Ofs /\ g = f
    BY <2>1, <1>1, <1>5, <1>21 DEF Ofs
  <2>3. FieldsAhead(g)' = FieldsAhead(g) /\ Running(g)' = Running(g)
    <3>1. FieldsAhead(f)' = FieldsAhead(f) /\ Running(f)' = calls'[k].n
      BY <2>2, <1>2, OnwardAhead
    <3>2. Running(f) = Top.n
      BY <2>2, <1>1, <1>2, FocusTypes
    <3>3. QED
      BY <2>2, <3>1, <3>2, <1>1
  <2>4. file'.messages[calls[g].slot] = Message(calls[g].slot)
    BY <2>1, <1>5, SlotsOfLoops DEF Message
  <2>5. Message(calls[g].slot)' = Message(calls[g].slot)
    BY <2>1, <2>4 DEF Message
  <2>6. QED
    BY <2>1, <2>3, <2>5, <1>5 DEF FieldsInv
<1>6. \A i \in Depth' : calls'[i].loop \in OneofLoops => calls'[i].slot = calls'[i - 1].slot
  <2> SUFFICES ASSUME NEW i \in Depth, calls[i].loop \in OneofLoops
               PROVE  calls'[i].slot = calls'[i - 1].slot
    BY <1>1, OnwardOneofs
  <2>1. i # 1
    BY DEF Stacked, OneofLoops
  <2>2. i - 1 \in Depth
    BY <2>1, <1>1
  <2>3. QED
    BY <2>2, OnwardOneofs DEF FieldsInv
<1>7. \A m \in Messages : Open(m)' <=> Open(m)
  BY <1>1, OnwardOneofs DEF Open
<1>8. \A m \in Messages' : Open(m)' \/ FieldsFilled(Message(m)')
  BY <1>7 DEF FieldsInv, MessagesKept
<1>9. QED
  BY <1>4, <1>5, <1>6, <1>8, FieldsStep

LEMMA FieldsCounted ==
  ASSUME Stacked, OpenInv, FieldsInv, buf' = buf, NEW k, Onward(k), Top.loop \in Ofs,
         Entry.kind \in FieldKinds, calls'[k].n = Top.n + 1,
         Messages' = Messages,
         \A m \in Messages : m # Top.slot => Message(m)' = Message(m),
         NEW m2, file'.messages[Top.slot] = m2,
         m2.body = Message(Top.slot).body, m2.count = Message(Top.slot).count,
         DOMAIN m2.fields = DOMAIN Message(Top.slot).fields
            \cup (IF Top.loop \in {"fill_message", "fill_oneof"} THEN {Top.n} ELSE {})
  PROVE  FieldsInv'
<1>1. k \in Nat /\ Depth = 1..k /\ k = Len(calls) /\ Len(calls') = k /\ Depth' = Depth /\ Top = calls[k]
      /\ k \in Depth
  BY StackTypes DEF Onward
<1>2. PICK f : Focus(f)
  BY DEF Focus
<1>3. /\ f \in Depth /\ calls[f].loop \in MessageLoops /\ calls[f].slot = Top.slot
      /\ Top.loop = "count_choices" => calls[f].loop = "count_fields"
      /\ Top.loop = "fill_oneof" => calls[f].loop = "fill_message"
      /\ Top.loop \notin OneofLoops => f = k
      /\ Running(f) = Top.n /\ Top.slot \in Messages
      /\ \A i \in Depth : i # f /\ calls[i].loop \in MessageLoops =>
              ~InOneof(i) /\ i < k /\ calls[i].slot # Top.slot
  BY <1>1, <1>2, FocusTypes
<1>4. Unmoved({f})
  <2> SUFFICES ASSUME NEW i \in Depth, i # f, calls[i].loop \in MessageLoops
               PROVE  /\ calls'[i] = calls[i] /\ Cursor(i)' = Cursor(i) /\ ~InOneof(i) /\ ~InOneof(i)'
                      /\ file'.messages[calls[i].slot] = file.messages[calls[i].slot]
                      /\ calls'[i].slot = calls[i].slot
    BY <1>1, OnwardOneofs DEF Unmoved, Message
  <2>1. i < k /\ ~InOneof(i) /\ calls[i].slot # Top.slot /\ calls[i].slot \in Messages
    BY <1>3 DEF OpenInv
  <2>2. file'.messages[calls[i].slot] = file.messages[calls[i].slot]
    BY <2>1 DEF Message
  <2>3. /\ InOneof(i)' <=> InOneof(i)
        /\ calls'[i] = calls[i] /\ Cursor(i)' = Cursor(i) /\ calls'[i].slot = calls[i].slot
    BY <2>1, <1>1, OnwardOneofs
  <2>4. QED
    BY <2>1, <2>2, <2>3
<1>5. FieldsShape(buf, calls'[f].loop, Message(calls[f].slot)', FieldsAhead(f)', Running(f)')
  <2>1. calls'[f].loop = calls[f].loop /\ calls'[f].slot = Top.slot
    BY <1>3, OnwardOneofs
  <2>2. Message(calls[f].slot)' = m2
    BY <2>1 DEF Message
  <2>3. Entry.start \in FieldsAhead(f) /\ FieldsAhead(f)' = FieldsAhead(f) \ {Entry.start}
        /\ Running(f)' = Top.n + 1
    BY <1>2, OnwardAhead DEF FieldKinds
  <2>4. FieldsShape(buf, calls[f].loop, Message(Top.slot), FieldsAhead(f), Top.n)
    BY <1>3 DEF FieldsInv
  <2>5. calls[f].loop = "fill_message" <=> Top.loop \in {"fill_message", "fill_oneof"}
    <3>1. CASE Top.loop \in OneofLoops
      BY <3>1, <1>3 DEF OneofLoops
    <3>2. CASE Top.loop \notin OneofLoops
      BY <3>2, <1>1, <1>3 DEF OneofLoops, MessageLoops
    <3>3. QED
      BY <3>1, <3>2
  <2>6. DOMAIN m2.fields = IF calls[f].loop = "fill_message" THEN DOMAIN Message(Top.slot).fields \cup {Top.n}
                           ELSE DOMAIN Message(Top.slot).fields
    BY <2>5
  <2>7. BodyCursor(Message(Top.slot).body) \in Cursors(buf) /\ buf \in Texts
    BY <1>3, MessageTypes DEF Stacked
  <2>8. FieldsShape(buf, calls[f].loop, m2, FieldsAhead(f) \ {Entry.start}, Top.n + 1)
    BY <2>3, <2>4, <2>6, <2>7, ShapeMore
  <2>9. QED
    BY <2>1, <2>2, <2>3, <2>8
<1>6. \A i \in Depth' : calls'[i].loop \in OneofLoops => calls'[i].slot = calls'[i - 1].slot
  <2> SUFFICES ASSUME NEW i \in Depth, calls[i].loop \in OneofLoops
               PROVE  calls'[i].slot = calls'[i - 1].slot
    BY <1>1, OnwardOneofs
  <2>1. i # 1
    BY DEF Stacked, OneofLoops
  <2>2. i - 1 \in Depth
    BY <2>1, <1>1
  <2>3. QED
    BY <2>2, OnwardOneofs DEF FieldsInv
<1>7. \A m \in Messages : Open(m)' <=> Open(m)
  BY <1>1, OnwardOneofs DEF Open
<1>8. Open(Top.slot)
  BY <1>3 DEF Open
<1>9. \A m \in Messages' : Open(m)' \/ FieldsFilled(Message(m)')
  BY <1>7, <1>8 DEF FieldsInv
<1>10. QED
  BY <1>4, <1>5, <1>6, <1>9, FieldsStep

-----------------------------------------------------------------------------
(* A body is entered; a oneof's fields are ahead in the message's, in two  *)
(* parts for as long as its loop lasts.                                    *)
LEMMA DeeperFields ==
  ASSUME Stacked, OpenInv, buf' = buf, Entry.kind \in Bodied, NEW k, Deeper(k),
         calls'[k + 1].loop \in Under[Top.loop]
  PROVE  /\ k \in Nat /\ Depth = 1..k /\ Depth' = Depth \cup {k + 1} /\ k + 1 \notin Depth
         /\ k \in Depth /\ Top = calls[k] /\ k = Len(calls)
         /\ Top.loop \notin OneofLoops
         /\ \A i \in Depth : i < k => ~InOneof(i) /\ ~InOneof(i)' /\ Cursor(i)' = Cursor(i)
         /\ \A i \in Depth : calls'[i] = calls[i]
         /\ ~InOneof(k) /\ ~InOneof(k + 1)'
         /\ FieldsAhead(k) = FieldsOf(Cursor(k)) /\ Running(k) = Top.n
         /\ IF calls'[k + 1].loop \in OneofLoops
            THEN /\ FieldsAhead(k)' = FieldsOf(Beyond(buf, Cursor(k))) \cup FieldsOf(Inside(buf, Cursor(k)))
                 /\ Running(k)' = calls'[k + 1].n
            ELSE /\ FieldsAhead(k)' = FieldsOf(Beyond(buf, Cursor(k))) /\ Running(k)' = Top.n
         /\ FieldsAhead(k + 1)' = FieldsOf(Inside(buf, Cursor(k))) /\ Running(k + 1)' = calls'[k + 1].n
<1>1. /\ k \in Nat /\ Depth = 1..k /\ Depth' = 1..(k + 1) /\ k \in Depth /\ Top = calls[k]
      /\ k = Len(calls) /\ Len(calls') = k + 1 /\ Top.loop \in DOMAIN Place
      /\ Cursor(k)' = Beyond(buf, Cursor(k)) /\ Cursor(k + 1)' = Inside(buf, Cursor(k))
  BY StackTypes DEF Deeper
<1>2. Top.loop \notin OneofLoops
  BY UnderFacts DEF OneofLoops
<1>3. \A i \in Depth : calls'[i] = calls[i]
  BY DEF Deeper
<1>4. ~InOneof(k) /\ ~InOneof(k + 1)' /\ (InOneof(k)' <=> calls'[k + 1].loop \in OneofLoops)
  BY <1>1 DEF InOneof
<1>5. \A i \in Depth : ~InOneof(i)
  BY <1>1, <1>2, OneofOnTop
<1>6. ASSUME NEW i \in Depth, i < k PROVE ~InOneof(i) /\ ~InOneof(i)' /\ Cursor(i)' = Cursor(i)
  <2>1. i + 1 \in Depth /\ i < Len(calls) /\ i < Len(calls')
    BY <1>1, <1>6
  <2>2. calls'[i + 1] = calls[i + 1]
    BY <2>1, <1>3
  <2>3. ~InOneof(i)
    BY <1>5
  <2>4. QED
    BY <1>6, <2>1, <2>2, <2>3 DEF InOneof, Deeper
<1>7. FieldsAhead(k) = FieldsOf(Cursor(k)) /\ Running(k) = Top.n
  BY <1>1, <1>4 DEF FieldsAhead, Running
<1>8. FieldsOf(Cursor(k))' = FieldsOf(Beyond(buf, Cursor(k)))
      /\ FieldsOf(Cursor(k + 1))' = FieldsOf(Inside(buf, Cursor(k)))
  BY <1>1 DEF FieldsOf
<1>9. FieldsAhead(k + 1)' = FieldsOf(Inside(buf, Cursor(k))) /\ Running(k + 1)' = calls'[k + 1].n
  BY <1>1, <1>4, <1>8 DEF FieldsAhead, Running
<1>10. CASE calls'[k + 1].loop \in OneofLoops
  <2>1. FieldsAhead(k)' = FieldsOf(Cursor(k))' \cup FieldsOf(Cursor(k + 1))'
    BY <1>4, <1>10 DEF FieldsAhead
  <2>2. Running(k)' = calls'[k + 1].n
    BY <1>4, <1>10 DEF Running
  <2>3. QED
    BY <1>1, <1>2, <1>3, <1>4, <1>6, <1>7, <1>8, <1>9, <1>10, <2>1, <2>2
<1>11. CASE calls'[k + 1].loop \notin OneofLoops
  <2>1. FieldsAhead(k)' = FieldsOf(Cursor(k))'
    BY <1>4, <1>11 DEF FieldsAhead
  <2>2. Running(k)' = Top.n
    BY <1>1, <1>3, <1>4, <1>11 DEF Running
  <2>3. QED
    BY <1>1, <1>2, <1>3, <1>4, <1>6, <1>7, <1>8, <1>9, <1>11, <2>1, <2>2
<1>12. QED
  BY <1>10, <1>11

\* A step in keeps the slots of the oneofs' loops.
LEMMA DeeperSlots ==
  ASSUME Stacked, OpenInv, FieldsInv, buf' = buf, Entry.kind \in Bodied, NEW k, Deeper(k),
         calls'[k + 1].loop \in Under[Top.loop],
         calls'[k + 1].loop \in OneofLoops => calls'[k + 1].slot = Top.slot
  PROVE  \A i \in Depth' : calls'[i].loop \in OneofLoops => calls'[i].slot = calls'[i - 1].slot
<1>1. /\ k \in Nat /\ Depth = 1..k /\ Depth' = Depth \cup {k + 1} /\ k \in Depth /\ Top = calls[k]
      /\ \A i \in Depth : calls'[i] = calls[i]
  BY DeeperFields
<1> SUFFICES ASSUME NEW i \in Depth', calls'[i].loop \in OneofLoops
             PROVE  calls'[i].slot = calls'[i - 1].slot
  OBVIOUS
<1>2. CASE i = k + 1
  BY <1>1, <1>2
<1>3. CASE i \in Depth
  <2>1. calls'[i] = calls[i] /\ calls[i].loop \in OneofLoops
    BY <1>1, <1>3
  <2>2. i # 1
    BY <1>3, <2>1 DEF Stacked, OneofLoops
  <2>3. i - 1 \in Depth
    BY <1>1, <1>3, <2>2
  <2>4. QED
    BY <1>1, <1>3, <2>1, <2>3 DEF FieldsInv
<1>4. QED
  BY <1>1, <1>2, <1>3

\* With the messages as they were, into a oneof or an enum.
LEMMA FieldsEntered ==
  ASSUME Stacked, OpenInv, FieldsInv, buf' = buf, Entry.kind \in {"oneof", "enum"}, NEW k, Deeper(k),
         calls'[k + 1].loop \in Under[Top.loop], MessagesKept,
         IF Entry.kind = "oneof"
         THEN /\ calls'[k + 1].loop \in OneofLoops
              /\ calls'[k + 1].slot = Top.slot /\ calls'[k + 1].n = Top.n
         ELSE calls'[k + 1].loop \in EnumLoops
  PROVE  FieldsInv'
<1>0. Entry.kind \in Bodied
  BY DEF Bodied
<1>1. /\ k \in Nat /\ Depth = 1..k /\ Depth' = Depth \cup {k + 1} /\ k + 1 \notin Depth
      /\ k \in Depth /\ Top = calls[k] /\ k = Len(calls)
      /\ \A i \in Depth : i < k => ~InOneof(i) /\ ~InOneof(i)' /\ Cursor(i)' = Cursor(i)
      /\ \A i \in Depth : calls'[i] = calls[i]
      /\ FieldsAhead(k) = FieldsOf(Cursor(k)) /\ Running(k) = Top.n
  BY <1>0, DeeperFields
<1>2. calls'[k + 1].loop \notin MessageLoops
  BY DEF OneofLoops, EnumLoops, MessageLoops
<1>3. FieldsAhead(k)' = FieldsAhead(k) /\ Running(k)' = Running(k)
  <2>1. FieldsOf(Cursor(k)) = (IF Entry.kind = "oneof" THEN FieldsOf(Inside(buf, Cursor(k))) ELSE {})
              \cup FieldsOf(Beyond(buf, Cursor(k)))
    BY <1>1, FieldsOfStep DEF FieldKinds
  <2>2. CASE Entry.kind = "oneof"
    BY <1>0, <1>1, <2>1, <2>2, DeeperFields
  <2>3. CASE Entry.kind = "enum"
    <3>1. calls'[k + 1].loop \notin OneofLoops
      BY <2>3 DEF EnumLoops, OneofLoops
    <3>2. QED
      BY <1>0, <1>1, <2>1, <2>3, <3>1, DeeperFields
  <2>4. QED
    BY <2>2, <2>3
<1>4. Unmoved({k})
  <2> SUFFICES ASSUME NEW i \in Depth', i # k, calls'[i].loop \in MessageLoops
               PROVE  /\ i \in Depth /\ calls'[i] = calls[i] /\ Cursor(i)' = Cursor(i) /\ ~InOneof(i) /\ ~InOneof(i)'
                      /\ Message(calls[i].slot)' = file.messages[calls[i].slot]
    BY DEF Unmoved
  <2>1. i \in Depth /\ i < k /\ calls'[i] = calls[i] /\ calls[i].loop \in MessageLoops
    BY <1>1, <1>2
  <2>2. file'.messages[calls[i].slot] = file.messages[calls[i].slot]
    BY <2>1, SlotsOfLoops
  <2>3. QED
    BY <1>1, <2>1, <2>2 DEF Message
<1>5. ASSUME calls'[k].loop \in MessageLoops
      PROVE  FieldsShape(buf, calls'[k].loop, Message(calls[k].slot)', FieldsAhead(k)', Running(k)')
  <2>1. calls'[k] = calls[k] /\ calls[k].loop \in MessageLoops
    BY <1>1, <1>5
  <2>2. file'.messages[calls[k].slot] = Message(calls[k].slot)
    BY <1>1, <2>1, SlotsOfLoops DEF Message
  <2>3. Message(calls[k].slot)' = Message(calls[k].slot)
    BY <2>1, <2>2 DEF Message
  <2>4. QED
    BY <1>1, <1>3, <2>1, <2>3 DEF FieldsInv
<1>6. \A m \in Messages : Open(m) => Open(m)'
  BY <1>1 DEF Open
<1>7. \A m \in Messages' : Open(m)' \/ FieldsFilled(Message(m)')
  BY <1>6 DEF FieldsInv, MessagesKept
<1>8. \A i \in Depth' : calls'[i].loop \in OneofLoops => calls'[i].slot = calls'[i - 1].slot
  <2>1. calls'[k + 1].loop \in OneofLoops => calls'[k + 1].slot = Top.slot
    BY DEF EnumLoops, OneofLoops
  <2>2. QED
    BY <1>0, <2>1, DeeperSlots
<1>9. QED
  BY <1>4, <1>5, <1>7, <1>8, FieldsStep

\* Into a message that is begun.
LEMMA FieldsBegun ==
  ASSUME Stacked, OpenInv, FieldsInv, FileShape, buf' = buf, Entry.kind = "message", Reads,
         NEW k, Deeper(k), PreOrder,
         calls'[k + 1].n = 0, NEW u, MessageBegun(u),
         \A m \in Messages : Open(m)' <=> Open(m), Open(u)'
  PROVE  FieldsInv'
<1>01. Entry.kind \in Bodied
  BY DEF Bodied
<1>02. calls'[k + 1].loop = "count_fields" /\ calls'[k + 1].slot = u
  BY DEF MessageBegun, Deeper
<1>03. calls'[k + 1].loop \in Under[Top.loop] /\ calls'[k + 1].loop \notin OneofLoops
  BY <1>02, UnderFacts DEF Reads, OneofLoops
<1>1. /\ k \in Nat /\ Depth = 1..k /\ Depth' = Depth \cup {k + 1} /\ k + 1 \notin Depth
      /\ k \in Depth /\ Top = calls[k] /\ k = Len(calls)
      /\ \A i \in Depth : i < k => ~InOneof(i) /\ ~InOneof(i)' /\ Cursor(i)' = Cursor(i)
      /\ \A i \in Depth : calls'[i] = calls[i]
      /\ FieldsAhead(k) = FieldsOf(Cursor(k)) /\ Running(k) = Top.n
      /\ FieldsAhead(k)' = FieldsOf(Beyond(buf, Cursor(k))) /\ Running(k)' = Top.n
      /\ FieldsAhead(k + 1)' = FieldsOf(Inside(buf, Cursor(k))) /\ Running(k + 1)' = 0
  BY <1>01, <1>03, DeeperFields
<1>2. /\ Messages' = Messages \cup {u} /\ u \notin Messages
      /\ \A m \in Messages : Message(m)' = Message(m)
      /\ Message(u)' = NewMessage
  BY MessageBegins
<1>3. ASSUME NEW i \in Depth, calls[i].loop \in MessageLoops
      PROVE  Message(calls[i].slot)' = Message(calls[i].slot)
             /\ file'.messages[calls[i].slot] = Message(calls[i].slot)
  <2>1. calls[i].slot \in Messages /\ calls'[i] = calls[i]
    BY <1>1, <1>3 DEF OpenInv
  <2>2. file'.messages[calls[i].slot] = Message(calls[i].slot)
    BY <2>1, <1>2 DEF Message
  <2>3. QED
    BY <2>1, <2>2 DEF Message
<1>4. Unmoved({k, k + 1})
  <2> SUFFICES ASSUME NEW i \in Depth', i \notin {k, k + 1}, calls'[i].loop \in MessageLoops
               PROVE  /\ i \in Depth /\ calls'[i] = calls[i] /\ Cursor(i)' = Cursor(i) /\ ~InOneof(i) /\ ~InOneof(i)'
                      /\ Message(calls[i].slot)' = file.messages[calls[i].slot]
    BY DEF Unmoved
  <2>1. i \in Depth /\ i < k /\ calls'[i] = calls[i] /\ calls[i].loop \in MessageLoops
    BY <1>1
  <2>2. QED
    BY <1>1, <1>3, <2>1 DEF Message
<1>5. ASSUME calls'[k].loop \in MessageLoops
      PROVE  FieldsShape(buf, calls'[k].loop, Message(calls[k].slot)', FieldsAhead(k)', Running(k)')
  <2>1. calls'[k] = calls[k] /\ calls[k].loop \in MessageLoops
    BY <1>1, <1>5
  <2>2. Message(calls[k].slot)' = Message(calls[k].slot)
    BY <1>1, <1>3, <2>1
  <2>3. FieldsOf(Cursor(k)) = FieldsOf(Beyond(buf, Cursor(k)))
    BY <1>1, FieldsOfStep DEF FieldKinds
  <2>4. QED
    BY <1>1, <2>1, <2>2, <2>3 DEF FieldsInv
<1>6. FieldsShape(buf, calls'[k + 1].loop, Message(calls[k + 1].slot)', FieldsAhead(k + 1)', Running(k + 1)')
  <2>1. Message(calls[k + 1].slot)' = NewMessage
    BY <1>02, <1>2 DEF Message
  <2>2. NewMessage.body = Body(Entry) /\ DOMAIN NewMessage.fields = {} /\ NewMessage.count = 0
    BY DEF NewMessage, NoFunction
  <2>3. Inside(buf, Cursor(k)) = BodyCursor(Body(Entry))
    BY <1>01, <1>1, EntryTypes DEF BodyCursor, Bodied
  <2>4. \A S : S \ S = {}
    OBVIOUS
  <2>5. FieldsShape(buf, "count_fields", NewMessage, FieldsOf(Inside(buf, Cursor(k))), 0)
    BY <2>2, <2>3, <2>4, FS_EmptySet DEF FieldsShape, FieldsOf
  <2>6. QED
    BY <1>1, <1>02, <2>1, <2>5
<1>7. \A m \in Messages' : Open(m)' \/ FieldsFilled(Message(m)')
  BY <1>2 DEF FieldsInv
<1>8. \A i \in Depth' : calls'[i].loop \in OneofLoops => calls'[i].slot = calls'[i - 1].slot
  BY <1>01, <1>03, DeeperSlots
<1>9. QED
  BY <1>4, <1>5, <1>6, <1>7, <1>8, FieldsStep

-----------------------------------------------------------------------------
\* A body is left, and n handed back to the loop outside.
Shallower(k, n) ==
  /\ k = Len(calls) /\ k # 1 /\ Len(calls') = k - 1 /\ Depth' = 1..(k - 1) /\ k - 1 \in Depth
  /\ \A i \in Depth' : calls'[i].loop = calls[i].loop /\ calls'[i].slot = calls[i].slot
  /\ \A i \in Depth' : i # k - 1 => calls'[i] = calls[i]
  /\ calls'[k - 1].n = n
  /\ \A i \in Depth' : Cursor(i)' = Cursor(i)

LEMMA ShallowerTypes ==
  ASSUME Stacked, NEW k, NEW n, Shallower(k, n)
  PROVE  /\ k \in Nat /\ Depth = 1..k /\ k \in Depth /\ Top = calls[k] /\ Depth = Depth' \cup {k}
         /\ k \notin Depth' /\ k - 1 \in Depth' /\ k >= 2
         /\ \A i \in Depth' : i \in Depth /\ i < k /\ ~InOneof(i)'
         /\ \A i \in Depth' : i # k - 1 => ~InOneof(i)
         /\ InOneof(k - 1) <=> Top.loop \in OneofLoops
<1>1. /\ k \in Nat /\ Depth = 1..k /\ k \in Depth /\ Top = calls[k] /\ k >= 1 /\ k = Len(calls)
      /\ k # 1 /\ Depth' = 1..(k - 1) /\ Len(calls') = k - 1
  BY StackTypes DEF Shallower
<1>2. Depth = Depth' \cup {k} /\ k \notin Depth' /\ k - 1 \in Depth' /\ k >= 2
      /\ \A i \in Depth' : i \in Depth /\ i < k
  BY <1>1
<1>3. \A i \in Depth' : i # k - 1 => ~InOneof(i)
  BY <1>1, <1>2, OneofOnTop
<1>4. InOneof(k - 1) <=> Top.loop \in OneofLoops
  BY <1>1, <1>2 DEF InOneof
<1>5. ASSUME NEW i \in Depth' PROVE ~InOneof(i)'
  <2>1. SUFFICES ASSUME i < k - 1, calls'[i + 1].loop \in OneofLoops PROVE FALSE
    BY <1>1 DEF InOneof
  <2>2. i + 1 \in Depth' /\ i \in Depth /\ calls'[i + 1].loop = calls[i + 1].loop
    BY <2>1, <1>1 DEF Shallower
  <2>3. InOneof(i)
    BY <2>1, <2>2, <1>1 DEF InOneof
  <2>4. QED
    BY <2>1, <2>3, <1>1, <1>3
<1>6. QED
  BY <1>1, <1>2, <1>3, <1>4, <1>5

LEMMA FieldsLeft ==
  ASSUME Stacked, OpenInv, FieldsInv, buf' = buf, NEW k, NEW n, Shallower(k, n), MessagesKept,
         Entry.kind = "none",
         n = IF Top.loop \in OneofLoops THEN Top.n ELSE calls[k - 1].n,
         \A m \in Messages : Open(m) => Open(m)' \/ FieldsFilled(Message(m))
  PROVE  FieldsInv'
<1>1. /\ k \in Nat /\ Depth = 1..k /\ k \in Depth /\ Top = calls[k] /\ Depth = Depth' \cup {k}
      /\ k \notin Depth' /\ k - 1 \in Depth' /\ k >= 2
      /\ \A i \in Depth' : i \in Depth /\ i < k /\ ~InOneof(i)'
      /\ \A i \in Depth' : i # k - 1 => ~InOneof(i)
      /\ InOneof(k - 1) <=> Top.loop \in OneofLoops
  BY ShallowerTypes
<1>2. /\ k = Len(calls) /\ calls'[k - 1].n = n
      /\ \A i \in Depth' : calls'[i].loop = calls[i].loop /\ calls'[i].slot = calls[i].slot
      /\ \A i \in Depth' : i # k - 1 => calls'[i] = calls[i]
      /\ \A i \in Depth' : Cursor(i)' = Cursor(i)
  BY DEF Shallower
<1>3. ASSUME NEW i \in Depth', calls[i].loop \in MessageLoops
      PROVE  /\ file'.messages[calls[i].slot] = Message(calls[i].slot)
             /\ Message(calls[i].slot)' = Message(calls[i].slot)
  <2>1. i \in Depth /\ file'.messages[calls[i].slot] = Message(calls[i].slot)
    BY <1>1, <1>3, SlotsOfLoops DEF Message
  <2>2. QED
    BY <2>1, <1>2 DEF Message
<1>4. Unmoved({k - 1})
  BY <1>1, <1>2, <1>3 DEF Unmoved, Message
<1>5. ASSUME calls'[k - 1].loop \in MessageLoops
      PROVE  FieldsShape(buf, calls'[k - 1].loop, Message(calls[k - 1].slot)',
                         FieldsAhead(k - 1)', Running(k - 1)')
  <2> DEFINE i == k - 1
  <2>1. calls[i].loop \in MessageLoops /\ i \in Depth /\ i \in Depth'
    BY <1>1, <1>2, <1>5
  <2>2. FieldsShape(buf, calls[i].loop, Message(calls[i].slot), FieldsAhead(i), Running(i))
    BY <2>1 DEF FieldsInv
  <2>3. FieldsAhead(i)' = FieldsOf(Cursor(i)) /\ Running(i)' = n
    BY <1>1, <1>2, <2>1 DEF FieldsAhead, FieldsOf, Running
  <2>4. FieldsAhead(i) = FieldsOf(Cursor(i)) /\ Running(i) = n
    <3>1. CASE Top.loop \in OneofLoops
      <4>1. FieldsAhead(i) = FieldsOf(Cursor(i)) \cup FieldsOf(Cursor(k)) /\ Running(i) = Top.n
        BY <1>1, <1>2, <2>1, <3>1, OneofOnTop
      <4>2. FieldsOf(Cursor(k)) = {}
        <5>1. buf \in Texts /\ Cursor(k) \in Cursors(buf) /\ Entry = Found(buf, Cursor(k))
          BY <1>1, <1>2, StackTypes DEF Stacked
        <5>2. QED
          BY <5>1, StartsNone DEF FieldsOf, Bodied
      <4>3. QED
        BY <3>1, <4>1, <4>2
    <3>2. CASE Top.loop \notin OneofLoops
      BY <1>1, <1>2, <2>1, <3>2, OneofOnTop
    <3>3. QED
      BY <3>1, <3>2
  <2>5. calls'[i].loop = calls[i].loop /\ Message(calls[i].slot)' = Message(calls[i].slot)
    BY <1>2, <1>3, <2>1
  <2>6. QED
    BY <2>2, <2>3, <2>4, <2>5
<1>6. \A i \in Depth' : calls'[i].loop \in OneofLoops => calls'[i].slot = calls'[i - 1].slot
  <2> SUFFICES ASSUME NEW i \in Depth', calls[i].loop \in OneofLoops
               PROVE  calls'[i].slot = calls'[i - 1].slot
    BY <1>2
  <2>1. i # 1 /\ i \in Depth
    BY <1>1 DEF Stacked, OneofLoops
  <2>2. i - 1 \in Depth'
    BY <2>1, <1>1 DEF Shallower
  <2>3. QED
    BY <2>1, <2>2, <1>2 DEF FieldsInv
<1>7. \A m \in Messages' : Open(m)' \/ FieldsFilled(Message(m)')
  BY DEF FieldsInv, MessagesKept
<1>8. QED
  BY <1>4, <1>5, <1>6, <1>7, FieldsStep

\* What ends a message's own loop: nothing is ahead, and all is counted.
LEMMA FieldsAllRead ==
  ASSUME Stacked, OpenInv, FieldsInv, Top.loop \in MessageLoops, Entry.kind = "none"
  PROVE  /\ Top.slot \in Messages
         /\ Top.n = Cardinality(FieldsOf(BodyCursor(Message(Top.slot).body)))
         /\ Top.loop = "fill_message" => FieldsFilled(Message(Top.slot))
<1>1. PICK k : k = Len(calls)
  OBVIOUS
<1>2. /\ buf \in Texts /\ Cursor(k) \in Cursors(buf) /\ Entry = Found(buf, Cursor(k)) /\ k \in Depth
      /\ Top = calls[k]
  BY <1>1, StackTypes DEF Stacked
<1>3. FieldsOf(Cursor(k)) = {}
  BY <1>2, StartsNone DEF FieldsOf, Bodied
<1>4. Focus(k) /\ Top.loop \in Ofs
  BY <1>1 DEF Focus, Ofs, MessageLoops, OneofLoops
<1>5. FieldsAhead(k) = {} /\ Running(k) = Top.n /\ Top.slot \in Messages
  BY <1>1, <1>3, <1>4, FocusTypes
<1>6. FieldsShape(buf, Top.loop, Message(Top.slot), {}, Top.n)
  BY <1>2, <1>5 DEF FieldsInv
<1>7. \A S : S \ {} = S
  OBVIOUS
<1>8. QED
  BY <1>5, <1>6, <1>7 DEF FieldsShape, FieldsFilled, FieldsOf

\* The same stack, with another loop at the top.
Replaced(k, loop, n) ==
  /\ k = Len(calls) /\ Len(calls') = k /\ Depth' = Depth
  /\ \A i \in Depth : i # k => calls'[i] = calls[i] /\ Cursor(i)' = Cursor(i)
  /\ calls'[k].loop = loop /\ calls'[k].n = n /\ calls'[k].slot = calls[k].slot

LEMMA ReplacedTypes ==
  ASSUME Stacked, Top.loop \notin OneofLoops, NEW k, NEW loop, NEW n, Replaced(k, loop, n),
         loop \notin OneofLoops
  PROVE  /\ k \in Nat /\ Depth = 1..k /\ k \in Depth /\ Top = calls[k] /\ k = Len(calls)
         /\ \A i \in Depth : ~InOneof(i) /\ ~InOneof(i)'
<1>1. /\ k \in Nat /\ Depth = 1..k /\ k \in Depth /\ Top = calls[k] /\ k = Len(calls)
      /\ Len(calls') = k
  BY StackTypes DEF Replaced
<1>2. \A i \in Depth : ~InOneof(i)
  BY <1>1, OneofOnTop
<1>3. \A i \in Depth : ~InOneof(i)'
  <2> SUFFICES ASSUME NEW i \in Depth, i < k, calls'[i + 1].loop \in OneofLoops PROVE FALSE
    BY <1>1 DEF InOneof
  <2>1. i + 1 \in Depth /\ i + 1 # k
    BY <1>1 DEF Replaced
  <2>2. calls'[i + 1] = calls[i + 1]
    BY <2>1 DEF Replaced
  <2>3. InOneof(i)
    BY <1>1, <2>2 DEF InOneof
  <2>4. QED
    BY <1>2, <2>3
<1>4. QED
  BY <1>1, <1>2, <1>3

LEMMA ReplacedSlots ==
  ASSUME Stacked, FieldsInv, Top.loop \notin OneofLoops, NEW k, NEW loop, NEW n, Replaced(k, loop, n),
         loop \notin OneofLoops
  PROVE  \A i \in Depth' : calls'[i].loop \in OneofLoops => calls'[i].slot = calls'[i - 1].slot
<1>1. k \in Nat /\ Depth = 1..k /\ k \in Depth /\ Depth' = Depth
  BY ReplacedTypes DEF Replaced
<1> SUFFICES ASSUME NEW i \in Depth, calls'[i].loop \in OneofLoops
             PROVE  calls'[i].slot = calls'[i - 1].slot
  BY <1>1
<1>2. i # k /\ calls'[i] = calls[i]
  BY DEF Replaced
<1>3. i # 1
  BY <1>2 DEF Stacked, OneofLoops
<1>4. i - 1 \in Depth /\ i - 1 # k
  BY <1>1, <1>3
<1>5. calls'[i - 1] = calls[i - 1]
  BY <1>4 DEF Replaced
<1>6. QED
  BY <1>2, <1>5 DEF FieldsInv

\* No loop over a message is replaced.
LEMMA FieldsBeside ==
  ASSUME Stacked, OpenInv, FieldsInv, buf' = buf, Top.loop \notin Ofs,
         NEW k, NEW loop, NEW n, Replaced(k, loop, n), loop \notin Ofs, MessagesKept
  PROVE  FieldsInv'
<1>1. /\ k \in Nat /\ Depth = 1..k /\ k \in Depth /\ Top = calls[k] /\ Depth' = Depth
      /\ \A i \in Depth : ~InOneof(i) /\ ~InOneof(i)'
  BY ReplacedTypes DEF Ofs, Replaced
<1>2. Unmoved({})
  <2> SUFFICES ASSUME NEW i \in Depth, calls'[i].loop \in MessageLoops
               PROVE  /\ calls'[i] = calls[i] /\ Cursor(i)' = Cursor(i)
                      /\ Message(calls[i].slot)' = file.messages[calls[i].slot]
    BY <1>1 DEF Unmoved
  <2>0. calls'[k].loop = loop /\ loop \notin MessageLoops
    BY DEF Replaced, Ofs
  <2>1. i # k
    BY <2>0
  <2>2. calls'[i] = calls[i] /\ Cursor(i)' = Cursor(i)
    BY <2>1 DEF Replaced
  <2>3. file'.messages[calls[i].slot] = file.messages[calls[i].slot]
    BY <2>2, SlotsOfLoops
  <2>4. QED
    BY <2>2, <2>3 DEF Message
<1>3. \A i \in Depth' : calls'[i].loop \in OneofLoops => calls'[i].slot = calls'[i - 1].slot
  BY ReplacedSlots DEF Ofs
<1>4. ASSUME NEW m \in Messages PROVE Open(m) => Open(m)'
  <2>1. SUFFICES ASSUME NEW i \in Depth, calls[i].loop \in MessageLoops, calls[i].slot = m
                 PROVE  Open(m)'
    BY DEF Open
  <2>2. i # k
    BY <1>1, <2>1 DEF Ofs
  <2>3. calls'[i] = calls[i]
    BY <2>2 DEF Replaced
  <2>4. QED
    BY <1>1, <2>1, <2>3 DEF Open
<1>5. \A m \in Messages' : Open(m)' \/ FieldsFilled(Message(m)')
  BY <1>4 DEF FieldsInv, MessagesKept
<1>6. QED
  BY <1>2, <1>3, <1>5, FieldsStep

\* From counting a message's fields to filling them.
LEMMA FieldsRestarted ==
  ASSUME Stacked, OpenInv, FieldsInv, buf' = buf, Top.loop = "count_fields", Entry.kind = "none",
         NEW k, Replaced(k, "fill_message", 0),
         Messages' = Messages,
         \A m \in Messages : m # Top.slot => Message(m)' = Message(m),
         NEW m2, file'.messages[Top.slot] = m2,
         m2.body = Message(Top.slot).body, m2.count = Top.n,
         DOMAIN m2.fields = DOMAIN Message(Top.slot).fields,
         Cursor(k)' = BodyCursor(m2.body)
  PROVE  FieldsInv'
<1>0. Top.loop \notin OneofLoops /\ Top.loop \in MessageLoops /\ Top.loop \in Ofs
      /\ "fill_message" \notin OneofLoops /\ "fill_message" \in MessageLoops
  BY DEF OneofLoops, MessageLoops, Ofs
<1>1. /\ k \in Nat /\ Depth = 1..k /\ k \in Depth /\ Top = calls[k] /\ Depth' = Depth /\ k = Len(calls)
      /\ \A i \in Depth : ~InOneof(i) /\ ~InOneof(i)'
  BY <1>0, ReplacedTypes DEF Replaced
<1>2. Focus(k)
  BY <1>0, <1>1 DEF Focus
<1>3. \A i \in Depth : i # k /\ calls[i].loop \in MessageLoops => calls[i].slot # Top.slot
  BY <1>0, <1>1, <1>2, FocusTypes
<1>4. Unmoved({k})
  <2> SUFFICES ASSUME NEW i \in Depth, i # k, calls'[i].loop \in MessageLoops
               PROVE  /\ calls'[i] = calls[i] /\ Cursor(i)' = Cursor(i)
                      /\ Message(calls[i].slot)' = file.messages[calls[i].slot]
    BY <1>1 DEF Unmoved
  <2>1. calls'[i] = calls[i] /\ Cursor(i)' = Cursor(i)
    BY DEF Replaced
  <2>2. calls[i].slot \in Messages /\ calls[i].slot # Top.slot
    BY <1>3, <2>1 DEF OpenInv
  <2>3. file'.messages[calls[i].slot] = file.messages[calls[i].slot]
    BY <2>2 DEF Message
  <2>4. QED
    BY <2>1, <2>3 DEF Message
<1>5. FieldsShape(buf, calls'[k].loop, Message(calls[k].slot)', FieldsAhead(k)', Running(k)')
  <2>1. calls'[k].loop = "fill_message" /\ calls'[k].n = 0 /\ calls'[k].slot = Top.slot
    BY <1>1 DEF Replaced
  <2>2. Message(calls[k].slot)' = m2
    BY <2>1 DEF Message
  <2>3. FieldsAhead(k)' = FieldsOf(BodyCursor(m2.body)) /\ Running(k)' = 0
    BY <1>1, <2>1 DEF FieldsAhead, Running, FieldsOf
  <2>4. Top.n = Cardinality(FieldsOf(BodyCursor(m2.body)))
    BY <1>0, FieldsAllRead
  <2>5. DOMAIN m2.fields = {}
    <3>1. FieldsShape(buf, "count_fields", Message(Top.slot), FieldsAhead(k), Running(k))
      BY <1>0, <1>1 DEF FieldsInv
    <3>2. QED
      BY <3>1 DEF FieldsShape
  <2>6. Slots(0) = {} /\ \A S : S \ S = {}
    BY SlotsMore
  <2>7. FieldsShape(buf, "fill_message", m2, FieldsOf(BodyCursor(m2.body)), 0)
    BY <2>4, <2>5, <2>6, FS_EmptySet DEF FieldsShape, FieldsOf
  <2>8. QED
    BY <2>1, <2>2, <2>3, <2>7
<1>6. \A i \in Depth' : calls'[i].loop \in OneofLoops => calls'[i].slot = calls'[i - 1].slot
  BY <1>0, ReplacedSlots
<1>8. ASSUME NEW m \in Messages, m # Top.slot PROVE Open(m) => Open(m)'
  <2>1. SUFFICES ASSUME NEW i \in Depth, calls[i].loop \in MessageLoops, calls[i].slot = m
                 PROVE  Open(m)'
    BY DEF Open
  <2>2. calls'[i] = calls[i]
    BY <1>1, <1>8, <2>1 DEF Replaced
  <2>3. QED
    BY <1>1, <2>1, <2>2 DEF Open
<1>9. \A m \in Messages' : Open(m)' \/ FieldsFilled(Message(m)')
  <2> SUFFICES ASSUME NEW m \in Messages PROVE Open(m)' \/ FieldsFilled(Message(m)')
    OBVIOUS
  <2>1. CASE m = Top.slot
    <3>1. Open(m)' <=> \E i \in Depth' : calls'[i].loop \in MessageLoops /\ calls'[i].slot = m
      BY DEF Open
    <3>2. QED
      BY <2>1, <3>1, <1>0, <1>1 DEF Replaced
  <2>2. CASE m # Top.slot
    BY <2>2, <1>8 DEF FieldsInv
  <2>3. QED
    BY <2>1, <2>2
<1>10. QED
  BY <1>4, <1>5, <1>6, <1>9, FieldsStep

-----------------------------------------------------------------------------
(* The values of an enum: its loop is the innermost.                       *)
LEMMA EnumOnTop ==
  ASSUME Stacked, NEW k, k = Len(calls), NEW i \in Depth, calls[i].loop \in EnumLoops
  PROVE  i = k
<1>1. k \in Nat /\ Depth = 1..k
  BY StackTypes
<1>2. SUFFICES ASSUME i # k PROVE FALSE
  OBVIOUS
<1>3. i + 1 \in Depth /\ calls[i + 1].loop \in Under[calls[i].loop]
  BY <1>1, <1>2 DEF Stacked
<1>4. QED
  BY <1>3, UnderFacts DEF EnumLoops

LEMMA ValuesOfStep ==
  ASSUME Stacked, Entry.kind # "none", NEW k, k = Len(calls)
  PROVE  /\ ValuesOf(Cursor(k)) = (IF Entry.kind = "value" THEN {Entry.start} ELSE {})
              \cup ValuesOf(Beyond(buf, Cursor(k)))
         /\ Entry.start \notin ValuesOf(Beyond(buf, Cursor(k)))
<1>1. buf \in Texts /\ Cursor(k) \in Cursors(buf) /\ Entry = Found(buf, Cursor(k))
  BY StackTypes DEF Stacked
<1>2. {} \in SUBSET Bodied /\ "none" \notin {"value"}
  BY DEF Bodied
<1>3. ValuesOf(Cursor(k)) = (IF Entry.kind = "value" THEN {Entry.start} ELSE {})
              \cup ValuesOf(Beyond(buf, Cursor(k)))
  <2>1. PICK none \in SUBSET Bodied : none = {}
    OBVIOUS
  <2>2. Cursor(k) \in Cursors(buf) /\ Found(buf, Cursor(k)).kind # "none"
    BY <1>1
  <2>3. Starts(buf, none, {"value"}, Cursor(k))
          = (IF Found(buf, Cursor(k)).kind \in {"value"} THEN {Found(buf, Cursor(k)).start} ELSE {})
              \cup (IF Found(buf, Cursor(k)).kind \in none
                    THEN Starts(buf, none, {"value"}, Inside(buf, Cursor(k))) ELSE {})
              \cup Starts(buf, none, {"value"}, Beyond(buf, Cursor(k)))
    BY <1>1, <2>2, StartsStep
  <2>4. Starts(buf, none, {"value"}, Cursor(k))
          = (IF Entry.kind = "value" THEN {Entry.start} ELSE {})
              \cup Starts(buf, none, {"value"}, Beyond(buf, Cursor(k)))
    BY <1>1, <2>1, <2>3
  <2>5. QED
    BY <2>1, <2>4 DEF ValuesOf
<1>4. /\ Entry.start \in Nat /\ Entry.end \in Nat /\ Entry.start < Entry.end
      /\ Beyond(buf, Cursor(k)) \in Cursors(buf) /\ Beyond(buf, Cursor(k)).at = Entry.end
  BY EntryTypes
<1>5. \A s \in ValuesOf(Beyond(buf, Cursor(k))) : s \in Nat /\ Entry.end <= s
  BY <1>1, <1>2, <1>4, StartsRange DEF ValuesOf
<1>6. QED
  BY <1>3, <1>4, <1>5

LEMMA ValueMore ==
  ASSUME NEW text \in Texts, NEW loop, NEW m, NEW ahead, NEW n, NEW s \in ahead, NEW m2,
         ValuesShape(text, loop, m, ahead, n), EnumCursor(m.body) \in Cursors(text),
         m2.body = m.body, m2.count = m.count,
         DOMAIN m2.values = IF loop = "fill_enum" THEN DOMAIN m.values \cup {n} ELSE DOMAIN m.values
  PROVE  ValuesShape(text, loop, m2, ahead \ {s}, n + 1)
<1> DEFINE all == Starts(text, {}, {"value"}, EnumCursor(m.body))
<1>1. IsFiniteSet(all)
  BY StartsRange DEF Bodied
<1>2. ahead \subseteq all /\ n = Cardinality(all \ ahead)
  BY DEF ValuesShape
<1>3. Cardinality(all \ (ahead \ {s})) = n + 1 /\ n \in Nat
  BY <1>1, <1>2, OneMore
<1>4. Slots(n + 1) = Slots(n) \cup {n}
  BY <1>3, SlotsMore
<1>5. EnumCursor(m2.body) = EnumCursor(m.body)
  OBVIOUS
<1> HIDE DEF all
<1>6. ValuesShape(text, loop, m, ahead, n) <=>
        /\ ahead \subseteq all /\ n = Cardinality(all \ ahead)
        /\ loop = "count_values" => DOMAIN m.values = {} /\ m.count = 0
        /\ loop = "fill_enum" => DOMAIN m.values = Slots(n) /\ m.count = Cardinality(all)
  BY DEF ValuesShape, all
<1>7. ValuesShape(text, loop, m2, ahead \ {s}, n + 1) <=>
        /\ ahead \ {s} \subseteq all /\ n + 1 = Cardinality(all \ (ahead \ {s}))
        /\ loop = "count_values" => DOMAIN m2.values = {} /\ m2.count = 0
        /\ loop = "fill_enum" => DOMAIN m2.values = Slots(n + 1) /\ m2.count = Cardinality(all)
  BY <1>5 DEF ValuesShape, all
<1>8. QED
  BY <1>2, <1>3, <1>4, <1>6, <1>7

\* No loop is over an enum.
LEMMA ValuesIdle ==
  ASSUME ValuesInv, file'.enums = file.enums, \A i \in Depth : calls[i].loop \notin EnumLoops,
         \A i \in Depth' : calls'[i].loop \notin EnumLoops
  PROVE  ValuesInv'
BY DEF ValuesInv, EnumOpen

LEMMA NoEnumLoop ==
  ASSUME Stacked, Top.loop \notin EnumLoops
  PROVE  \A i \in Depth : calls[i].loop \notin EnumLoops
BY EnumOnTop, StackTypes

\* What the loop over an enum finds.
LEMMA ValuesTop ==
  ASSUME Stacked, OpenInv, ValuesInv, Top.loop \in EnumLoops, NEW k, k = Len(calls)
  PROVE  /\ k \in Depth /\ Top = calls[k]
         /\ Top.slot \in DOMAIN file.enums /\ file.enums[Top.slot].body.close = size
         /\ ValuesShape(buf, Top.loop, file.enums[Top.slot], ValuesOf(Cursor(k)), Top.n)
         /\ EnumCursor(file.enums[Top.slot].body) \in Cursors(buf) /\ buf \in Texts
         /\ \A m \in DOMAIN file.enums : m # Top.slot => ValuesFilled(file.enums[m])
<1>1. k \in Depth /\ Top = calls[k]
  BY StackTypes
<1>2. Limit(k) = size
  BY DEF Limit
<1>3. /\ Top.slot \in DOMAIN file.enums /\ file.enums[Top.slot].body.close = size
      /\ ValuesShape(buf, Top.loop, file.enums[Top.slot], ValuesOf(Cursor(k)), Top.n)
  BY <1>1, <1>2 DEF ValuesInv
<1>4. EnumCursor(file.enums[Top.slot].body) \in Cursors(buf)
  BY <1>3 DEF OpenInv, EnumShape, EnumCursor
<1>5. \A m \in DOMAIN file.enums : m # Top.slot => ~EnumOpen(m)
  BY <1>1, EnumOnTop DEF EnumOpen
<1>6. QED
  BY <1>1, <1>3, <1>4, <1>5 DEF ValuesInv, Stacked

LEMMA ValuesPassed ==
  ASSUME Stacked, OpenInv, ValuesInv, buf' = buf, NEW k, Onward(k), Entry.kind # "none",
         file'.enums = file.enums,
         Top.loop \in EnumLoops => Entry.kind # "value" /\ calls'[k].n = calls[k].n
  PROVE  ValuesInv'
<1>1. /\ k = Len(calls) /\ k \in Depth /\ Top = calls[k] /\ Depth' = Depth
      /\ Cursor(k)' = Beyond(buf, Cursor(k)) /\ Len(calls') = k
  BY StackTypes DEF Onward
<1>2. \A i \in Depth : calls'[i].loop = calls[i].loop /\ calls'[i].slot = calls[i].slot
  BY OnwardOneofs
<1>3. CASE Top.loop \notin EnumLoops
  BY <1>1, <1>2, <1>3, NoEnumLoop, ValuesIdle
<1>4. CASE Top.loop \in EnumLoops
  <2>1. /\ Top.slot \in DOMAIN file.enums /\ file.enums[Top.slot].body.close = size
        /\ ValuesShape(buf, Top.loop, file.enums[Top.slot], ValuesOf(Cursor(k)), Top.n)
    BY <1>1, <1>4, ValuesTop
  <2>2. Limit(k)' = size
    <3>1. Limit(k)' = Cursor(k)'.limit /\ Beyond(buf, Cursor(k)).limit = Cursor(k).limit
      BY DEF Cursor, Beyond
    <3>2. Cursor(k).limit = size
      BY <1>1 DEF Cursor, Limit
    <3>3. QED
      BY <1>1, <3>1, <3>2
  <2>3. ValuesOf(Cursor(k))' = ValuesOf(Cursor(k))
    <3>1. ValuesOf(Cursor(k)) = ValuesOf(Beyond(buf, Cursor(k)))
      BY <1>1, <1>4, ValuesOfStep
    <3>2. QED
      BY <3>1, <1>1 DEF ValuesOf
  <2>4. calls'[k].loop = Top.loop /\ calls'[k].slot = Top.slot /\ calls'[k].n = Top.n
    BY <1>1, <1>2, <1>4
  <2>5. \A i \in Depth : calls[i].loop \in EnumLoops => i = k
    BY <1>1, EnumOnTop
  <2>6. \A m \in DOMAIN file.enums : EnumOpen(m)' <=> EnumOpen(m)
    BY <1>1, <1>2 DEF EnumOpen
  <2>7. ASSUME NEW i \in Depth', calls'[i].loop \in EnumLoops
        PROVE  /\ calls'[i].slot \in DOMAIN file'.enums
               /\ file'.enums[calls'[i].slot].body.close = Limit(i)'
               /\ ValuesShape(buf, calls'[i].loop, file'.enums[calls'[i].slot], ValuesOf(Cursor(i))', calls'[i].n)
    <3>1. i = k
      BY <1>1, <1>2, <2>5, <2>7
    <3>2. QED
      BY <2>1, <2>2, <2>3, <2>4, <3>1
  <2>8. QED
    BY <2>6, <2>7 DEF ValuesInv
<1>5. QED
  BY <1>3, <1>4

LEMMA ValuesCounted ==
  ASSUME Stacked, OpenInv, ValuesInv, buf' = buf, NEW k, Onward(k), Entry.kind = "value",
         Top.loop \in EnumLoops, calls'[k].n = Top.n + 1,
         DOMAIN file'.enums = DOMAIN file.enums,
         \A m \in DOMAIN file.enums : m # Top.slot => file'.enums[m] = file.enums[m],
         NEW m2, file'.enums[Top.slot] = m2,
         m2.body = file.enums[Top.slot].body, m2.count = file.enums[Top.slot].count,
         DOMAIN m2.values = DOMAIN file.enums[Top.slot].values
            \cup (IF Top.loop = "fill_enum" THEN {Top.n} ELSE {})
  PROVE  ValuesInv'
<1>1. /\ k = Len(calls) /\ k \in Depth /\ Top = calls[k] /\ Depth' = Depth
      /\ Cursor(k)' = Beyond(buf, Cursor(k)) /\ Len(calls') = k
  BY StackTypes DEF Onward
<1>2. \A i \in Depth : calls'[i].loop = calls[i].loop /\ calls'[i].slot = calls[i].slot
  BY OnwardOneofs
<1>3. /\ Top.slot \in DOMAIN file.enums /\ file.enums[Top.slot].body.close = size
      /\ ValuesShape(buf, Top.loop, file.enums[Top.slot], ValuesOf(Cursor(k)), Top.n)
      /\ EnumCursor(file.enums[Top.slot].body) \in Cursors(buf) /\ buf \in Texts
      /\ \A m \in DOMAIN file.enums : m # Top.slot => ValuesFilled(file.enums[m])
  BY <1>1, ValuesTop
<1>4. Limit(k)' = size
  <2>1. Limit(k)' = Cursor(k)'.limit /\ Beyond(buf, Cursor(k)).limit = Cursor(k).limit
    BY DEF Cursor, Beyond
  <2>2. Cursor(k).limit = size
    BY <1>1 DEF Cursor, Limit
  <2>3. QED
    BY <1>1, <2>1, <2>2
<1>5. Entry.start \in ValuesOf(Cursor(k)) /\ ValuesOf(Cursor(k))' = ValuesOf(Cursor(k)) \ {Entry.start}
  <2>1. /\ ValuesOf(Cursor(k)) = {Entry.start} \cup ValuesOf(Beyond(buf, Cursor(k)))
        /\ Entry.start \notin ValuesOf(Beyond(buf, Cursor(k)))
    BY <1>1, ValuesOfStep
  <2>2. ValuesOf(Cursor(k))' = ValuesOf(Beyond(buf, Cursor(k)))
    BY <1>1 DEF ValuesOf
  <2>3. QED
    BY <2>1, <2>2
<1>6. ValuesShape(buf, Top.loop, m2, ValuesOf(Cursor(k)) \ {Entry.start}, Top.n + 1)
  <2>1. DOMAIN m2.values = IF Top.loop = "fill_enum" THEN DOMAIN file.enums[Top.slot].values \cup {Top.n}
                           ELSE DOMAIN file.enums[Top.slot].values
    OBVIOUS
  <2>2. QED
    BY <1>3, <1>5, <2>1, ValueMore
<1>7. calls'[k].loop = Top.loop /\ calls'[k].slot = Top.slot
  BY <1>1, <1>2
<1>8. ASSUME NEW i \in Depth', calls'[i].loop \in EnumLoops
      PROVE  /\ calls'[i].slot \in DOMAIN file'.enums
             /\ file'.enums[calls'[i].slot].body.close = Limit(i)'
             /\ ValuesShape(buf, calls'[i].loop, file'.enums[calls'[i].slot], ValuesOf(Cursor(i))', calls'[i].n)
  <2>1. i = k
    BY <1>1, <1>2, <1>8, EnumOnTop
  <2>2. QED
    BY <1>3, <1>4, <1>5, <1>6, <1>7, <2>1
<1>9. \A m \in DOMAIN file'.enums : EnumOpen(m)' \/ ValuesFilled(file'.enums[m])
  <2> SUFFICES ASSUME NEW m \in DOMAIN file.enums PROVE EnumOpen(m)' \/ ValuesFilled(file'.enums[m])
    OBVIOUS
  <2>1. CASE m = Top.slot
    BY <2>1, <1>1, <1>7 DEF EnumOpen
  <2>2. CASE m # Top.slot
    BY <2>2, <1>3
  <2>3. QED
    BY <2>1, <2>2
<1>10. QED
  BY <1>8, <1>9 DEF ValuesInv

\* Into an enum that is begun.
LEMMA ValuesBegun ==
  ASSUME Stacked, OpenInv, PreOrder, FileShape, ValuesInv, Reads, Entry.kind = "enum", buf' = buf,
         NEW u, EnumBegun(u), NEW k, Deeper(k), calls'[k + 1].n = 0
  PROVE  ValuesInv'
<1>1. /\ k \in Nat /\ k = Len(calls) /\ k \in Depth /\ Top = calls[k] /\ Depth = 1..k
      /\ Depth' = 1..(k + 1) /\ Cursor(k + 1)' = Inside(buf, Cursor(k)) /\ Len(calls') = k + 1
      /\ \A i \in Depth : calls'[i] = calls[i]
  BY StackTypes DEF Deeper
<1>2. /\ DOMAIN file'.enums = DOMAIN file.enums \cup {u}
      /\ \A m \in DOMAIN file.enums : file'.enums[m] = file.enums[m]
      /\ file'.enums[u] = NewEnum /\ u \notin DOMAIN file.enums
  BY EnumBegins
<1>3. calls'[k + 1].loop = "count_values" /\ calls'[k + 1].slot = u
  BY <1>1 DEF EnumBegun
<1>4. \A i \in Depth : calls[i].loop \notin EnumLoops
  BY NoEnumLoop DEF Reads, EnumLoops
<1>5. Inside(buf, Cursor(k)) = EnumCursor(Body(Entry))
  BY <1>1, EntryTypes DEF Bodied, EnumCursor
<1>6. Limit(k + 1)' = Body(Entry).close /\ ValuesOf(Cursor(k + 1))' = ValuesOf(EnumCursor(Body(Entry)))
  <2>1. Limit(k + 1)' = Cursor(k + 1)'.limit
    BY DEF Cursor
  <2>2. QED
    BY <2>1, <1>1, <1>5 DEF EnumCursor, ValuesOf
<1>7. NewEnum.body = Body(Entry) /\ DOMAIN NewEnum.values = {} /\ NewEnum.count = 0
  BY DEF NewEnum, NoFunction
<1>8. ValuesShape(buf, "count_values", NewEnum, ValuesOf(EnumCursor(Body(Entry))), 0)
  <2>1. \A S : S \ S = {}
    OBVIOUS
  <2>2. QED
    BY <1>7, <2>1, FS_EmptySet DEF ValuesShape, ValuesOf
<1>9. ASSUME NEW i \in Depth', calls'[i].loop \in EnumLoops
      PROVE  /\ calls'[i].slot \in DOMAIN file'.enums
             /\ file'.enums[calls'[i].slot].body.close = Limit(i)'
             /\ ValuesShape(buf, calls'[i].loop, file'.enums[calls'[i].slot], ValuesOf(Cursor(i))', calls'[i].n)
  <2>1. i = k + 1
    BY <1>1, <1>4, <1>9
  <2>2. QED
    BY <1>2, <1>3, <1>6, <1>7, <1>8, <2>1
<1>10. \A m \in DOMAIN file'.enums : EnumOpen(m)' \/ ValuesFilled(file'.enums[m])
  <2> SUFFICES ASSUME NEW m \in DOMAIN file.enums \cup {u}
               PROVE  EnumOpen(m)' \/ ValuesFilled(file'.enums[m])
    BY <1>2
  <2>1. CASE m = u
    BY <2>1, <1>1, <1>3 DEF EnumOpen, EnumLoops
  <2>2. CASE m \in DOMAIN file.enums
    BY <2>2, <1>2, <1>4 DEF ValuesInv, EnumOpen
  <2>3. QED
    BY <2>1, <2>2
<1>11. QED
  BY <1>9, <1>10 DEF ValuesInv

\* The end of an enum's body: all its values are counted.
LEMMA ValuesAllRead ==
  ASSUME Stacked, OpenInv, ValuesInv, Top.loop \in EnumLoops, Entry.kind = "none"
  PROVE  /\ Top.n = Cardinality(ValuesOf(EnumCursor(file.enums[Top.slot].body)))
         /\ Top.loop = "fill_enum" \/ Top.n = 0 => ValuesFilled(file.enums[Top.slot])
<1>1. PICK k : k = Len(calls)
  OBVIOUS
<1>2. /\ buf \in Texts /\ Cursor(k) \in Cursors(buf) /\ Entry = Found(buf, Cursor(k)) /\ k \in Depth
      /\ Top = calls[k]
  BY <1>1, StackTypes DEF Stacked
<1>3. ValuesOf(Cursor(k)) = {}
  BY <1>2, StartsNone DEF ValuesOf, Bodied
<1>4. ValuesShape(buf, Top.loop, file.enums[Top.slot], {}, Top.n)
  BY <1>1, <1>3, ValuesTop
<1>5. (\A S : S \ {} = S) /\ Slots(0) = {}
  BY SlotsMore
<1>6. QED
  BY <1>4, <1>5 DEF ValuesShape, ValuesFilled, ValuesOf, EnumLoops

LEMMA ValuesLeft ==
  ASSUME Stacked, OpenInv, ValuesInv, NEW k, NEW n, Shallower(k, n), file'.enums = file.enums,
         Entry.kind = "none", Top.loop \in EnumLoops => Top.loop = "fill_enum" \/ Top.n = 0
  PROVE  ValuesInv'
<1>1. /\ k \in Nat /\ Top = calls[k] /\ k \in Depth /\ k = Len(calls)
      /\ \A i \in Depth' : i \in Depth /\ i # k /\ calls'[i].loop = calls[i].loop
  BY ShallowerTypes DEF Shallower
<1>2. \A i \in Depth' : calls'[i].loop \notin EnumLoops
  BY <1>1, EnumOnTop
<1>3. CASE Top.loop \notin EnumLoops
  BY <1>2, <1>3, NoEnumLoop, ValuesIdle
<1>4. CASE Top.loop \in EnumLoops
  <2>1. \A m \in DOMAIN file.enums : ValuesFilled(file.enums[m])
    BY <1>1, <1>4, ValuesTop, ValuesAllRead
  <2>2. QED
    BY <1>2, <2>1 DEF ValuesInv
<1>5. QED
  BY <1>3, <1>4

\* From counting an enum's values to filling them.
LEMMA ValuesRestarted ==
  ASSUME Stacked, OpenInv, ValuesInv, buf' = buf, Top.loop = "count_values", Entry.kind = "none",
         NEW k, Replaced(k, "fill_enum", 0),
         DOMAIN file'.enums = DOMAIN file.enums,
         \A m \in DOMAIN file.enums : m # Top.slot => file'.enums[m] = file.enums[m],
         NEW m2, file'.enums[Top.slot] = m2,
         m2.body = file.enums[Top.slot].body, m2.count = Top.n,
         DOMAIN m2.values = DOMAIN file.enums[Top.slot].values,
         Cursor(k)' = EnumCursor(m2.body)
  PROVE  ValuesInv'
<1>1. /\ k \in Nat /\ k \in Depth /\ Top = calls[k] /\ k = Len(calls) /\ Depth' = Depth
      /\ calls'[k].loop = "fill_enum" /\ calls'[k].n = 0 /\ calls'[k].slot = Top.slot
      /\ \A i \in Depth : i # k => calls'[i] = calls[i]
  BY StackTypes DEF Replaced
<1>2. Top.loop \in EnumLoops
  BY DEF EnumLoops
<1>3. /\ Top.slot \in DOMAIN file.enums
      /\ ValuesShape(buf, "count_values", file.enums[Top.slot], ValuesOf(Cursor(k)), Top.n)
      /\ \A m \in DOMAIN file.enums : m # Top.slot => ValuesFilled(file.enums[m])
  BY <1>1, <1>2, ValuesTop
<1>4. Limit(k)' = m2.body.close /\ ValuesOf(Cursor(k))' = ValuesOf(EnumCursor(m2.body))
  <2>1. Limit(k)' = Cursor(k)'.limit
    BY DEF Cursor
  <2>2. QED
    BY <2>1 DEF EnumCursor, ValuesOf
<1>5. ValuesShape(buf, "fill_enum", m2, ValuesOf(EnumCursor(m2.body)), 0)
  <2>1. Top.n = Cardinality(ValuesOf(EnumCursor(m2.body)))
    BY <1>2, ValuesAllRead
  <2>2. DOMAIN m2.values = {}
    BY <1>3 DEF ValuesShape
  <2>3. Slots(0) = {} /\ \A S : S \ S = {}
    BY SlotsMore
  <2>4. QED
    BY <2>1, <2>2, <2>3, FS_EmptySet DEF ValuesShape, ValuesOf
<1>6. ASSUME NEW i \in Depth', calls'[i].loop \in EnumLoops
      PROVE  /\ calls'[i].slot \in DOMAIN file'.enums
             /\ file'.enums[calls'[i].slot].body.close = Limit(i)'
             /\ ValuesShape(buf, calls'[i].loop, file'.enums[calls'[i].slot], ValuesOf(Cursor(i))', calls'[i].n)
  <2>1. i = k
    <3>1. SUFFICES ASSUME i # k PROVE FALSE
      OBVIOUS
    <3>2. i \in Depth /\ calls[i].loop \in EnumLoops
      BY <1>1, <1>6, <3>1
    <3>3. QED
      BY <1>1, <3>1, <3>2, EnumOnTop
  <2>2. QED
    BY <1>1, <1>3, <1>4, <1>5, <2>1
<1>7. \A m \in DOMAIN file'.enums : EnumOpen(m)' \/ ValuesFilled(file'.enums[m])
  <2> SUFFICES ASSUME NEW m \in DOMAIN file.enums PROVE EnumOpen(m)' \/ ValuesFilled(file'.enums[m])
    OBVIOUS
  <2>1. CASE m = Top.slot
    BY <2>1, <1>1 DEF EnumOpen, EnumLoops
  <2>2. CASE m # Top.slot
    BY <2>2, <1>3
  <2>3. QED
    BY <2>1, <2>2
<1>8. QED
  BY <1>6, <1>7 DEF ValuesInv

-----------------------------------------------------------------------------
(* What the walks and the open messages become, however the stack moves.   *)
LEMMA OnwardWalks ==
  ASSUME Stacked, OpenInv, buf' = buf, NEW k, Onward(k), Entry.kind # "none", SameMessages
  PROVE  /\ Walking' = Walking /\ k \in Nat /\ k = Len(calls) /\ Top = calls[k] /\ k \in Depth
         /\ Depth = 1..k
         /\ \A i \in Depth : At(i)' >= At(i) /\ At(i)' \in Nat /\ At(i) \in Nat /\ Limit(i)' = Limit(i)
         /\ \A i \in Walking : i < k \/ Top.loop = "count_fields" => Walk(i)' = Walk(i)
         /\ \A i \in Walking : Walk(i)'.at \in Nat /\ Walk(i)'.at >= Walk(i).at
<1>1. /\ k \in Nat /\ k = Len(calls) /\ Top = calls[k] /\ k \in Depth /\ Depth = 1..k /\ Depth' = Depth
      /\ Cursor(k)' = Beyond(buf, Cursor(k)) /\ \A i \in Depth : i < k => Cursor(i)' = Cursor(i)
  BY StackTypes DEF Onward
<1>2. \A i \in Depth : calls'[i].loop = calls[i].loop /\ calls'[i].slot = calls[i].slot
  BY OnwardOneofs
<1>3. Walking' = Walking
  BY <1>1, <1>2 DEF Walking
<1>4. \A i \in Depth : /\ At(i)' = Cursor(i)'.at /\ Limit(i)' = Cursor(i)'.limit
                       /\ At(i) = Cursor(i).at /\ Limit(i) = Cursor(i).limit
  BY DEF Cursor
<1>5. /\ Beyond(buf, Cursor(k)).at = Entry.end /\ Beyond(buf, Cursor(k)).limit = size
      /\ Entry.start \in Nat /\ Entry.end \in Nat /\ offset <= Entry.start /\ Entry.start < Entry.end
  BY <1>1, EntryTypes
<1>6. At(k) = offset /\ Limit(k) = size /\ offset \in Nat /\ size \in Nat
  BY <1>1, StackTypes DEF At, Limit
<1>7. ASSUME NEW i \in Depth
      PROVE  At(i)' >= At(i) /\ At(i)' \in Nat /\ At(i) \in Nat /\ Limit(i)' = Limit(i)
  <2>1. CASE i = k
    BY <2>1, <1>1, <1>4, <1>5, <1>6
  <2>2. CASE i # k
    <3>1. i < k
      BY <2>2, <1>1
    <3>2. QED
      BY <3>1, <1>1, <1>4, CursorAt
  <2>3. QED
    BY <2>1, <2>2
<1>8. ASSUME NEW i \in Walking, calls[i].loop = "count_fields" PROVE Walk(i)' = Walk(i)
  <2>1. i \in Depth /\ calls[i].slot \in Messages
    BY <1>8 DEF Walking, OpenInv, MessageLoops
  <2>2. file'.messages[calls[i].slot].body = file.messages[calls[i].slot].body
    BY <2>1 DEF SameMessages, Message
  <2>3. QED
    BY <1>2, <1>8, <2>1, <2>2 DEF Walk
<1>9. ASSUME NEW i \in Walking, calls[i].loop # "count_fields"
      PROVE  Walk(i)' = Cursor(i)' /\ Walk(i) = Cursor(i) /\ i \in Depth
  BY <1>2, <1>9 DEF Walk, Walking
<1>10. \A i \in Walking : i < k \/ Top.loop = "count_fields" => Walk(i)' = Walk(i)
  <2> SUFFICES ASSUME NEW i \in Walking, i < k \/ Top.loop = "count_fields" PROVE Walk(i)' = Walk(i)
    OBVIOUS
  <2>1. CASE calls[i].loop = "count_fields"
    BY <2>1, <1>8
  <2>2. CASE calls[i].loop # "count_fields"
    <3>1. Walk(i)' = Cursor(i)' /\ Walk(i) = Cursor(i) /\ i \in Depth
      BY <2>2, <1>9
    <3>2. i < k
      BY <3>1, <2>2, <1>1
    <3>3. QED
      BY <3>1, <3>2, <1>1
  <2>3. QED
    BY <2>1, <2>2
<1>11. ASSUME NEW i \in Walking PROVE Walk(i)'.at \in Nat /\ Walk(i)'.at >= Walk(i).at
  <2>1. CASE calls[i].loop = "count_fields"
    BY <2>1, <1>8, WalkTypes
  <2>2. CASE calls[i].loop # "count_fields"
    BY <2>2, <1>4, <1>7, <1>9
  <2>3. QED
    BY <2>1, <2>2
<1>12. QED
  BY <1>1, <1>3, <1>7, <1>10, <1>11

\* An entry of its kind is one more of its sort, in the pass under way.
Noted ==
  IF Counting THEN More(counts, Entry.kind) /\ used' = used
  ELSE counts' = counts /\ More(used, Entry.kind)

LEMMA OnwardGoing ==
  ASSUME Stacked, OpenInv, WalkInv, buf' = buf, NEW k, Onward(k), Entry.kind # "none",
         SameMessages, SameEnums, ShapesStay,
         IF Seeks THEN Entry.kind # "message" /\ Noted ELSE counts' = counts /\ used' = used
  PROVE  OpenInv' /\ WalkInv'
<1>1. /\ Walking' = Walking /\ k \in Nat /\ k = Len(calls) /\ Top = calls[k] /\ k \in Depth
      /\ Depth = 1..k /\ Depth' = Depth /\ Len(calls') = k
      /\ \A i \in Depth : At(i)' >= At(i) /\ At(i)' \in Nat /\ At(i) \in Nat /\ Limit(i)' = Limit(i)
      /\ \A i \in Walking : i < k \/ Top.loop = "count_fields" => Walk(i)' = Walk(i)
      /\ \A i \in Walking : Walk(i)'.at \in Nat /\ Walk(i)'.at >= Walk(i).at
  BY OnwardWalks DEF Onward
<1>2. \A i \in Depth : calls'[i].loop = calls[i].loop /\ calls'[i].slot = calls[i].slot
  BY OnwardOneofs
<1>3. LoopsStay
  BY <1>1, <1>2 DEF LoopsStay
<1>4. \A m \in Messages : Open(m)' <=> Open(m)
  BY <1>1, <1>2 DEF Open
<1>5. OpenInv'
  BY <1>3, <1>4, OpenSame
<1>6. Counting' = Counting
  <2>1. 1 \in Depth
    BY <1>1
  <2>2. QED
    BY <2>1, <1>2 DEF Counting
<1>7. CASE Seeks
  <2>1. /\ Cursor(k)' = Beyond(buf, Cursor(k)) /\ \A i \in Depth : i < k => Cursor(i)' = Cursor(i)
    BY DEF Onward
  <2>2. \A kind \in Kept : Past(kind)
    BY <1>1, <1>2, <1>7, <2>1, AheadOn
  <2>3. QED
    BY <1>5, <1>6, <1>7, <2>2, WalkPast DEF Noted
<1>8. CASE ~Seeks
  <2>1. ASSUME NEW i \in Walking PROVE Walk(i)' = Walk(i)
    <3>1. i \in Depth
      BY DEF Walking
    <3>2. CASE i = k
      <4>1. Top.loop = "count_fields"
        BY <1>1, <1>8, <3>2 DEF Walking, Seeks
      <4>2. QED
        BY <4>1, <1>1
    <3>3. CASE i # k
      BY <3>1, <3>3, <1>1
    <3>4. QED
      BY <3>2, <3>3
  <2>2. \A kind \in Kept : Ahead(kind)' = Ahead(kind)
    BY <1>1, <2>1, AheadSame
  <2>3. QED
    BY <1>5, <1>6, <1>8, <2>2, WalkSame
<1>9. QED
  BY <1>7, <1>8

LEMMA LoopFacts ==
  /\ "count_fields" \in MessageLoops /\ "fill_message" \in MessageLoops
  /\ \A l \in OneofLoops : l \notin Walks /\ l \notin MessageLoops /\ l \notin EnumLoops
  /\ \A l \in EnumLoops : l \notin Walks /\ l \notin MessageLoops /\ l \notin OneofLoops
  /\ \A l \in MessageLoops : l \in Walks /\ l \notin EnumLoops /\ l \notin OneofLoops
  /\ \A l \in Walks : l \in MessageLoops \/ l \in {"count_entries", "count_body", "fill_file"}
BY DEF MessageLoops, OneofLoops, EnumLoops, Walks

\* Into a oneof.
LEMMA OneofEntered ==
  ASSUME Stacked, OpenInv, WalkInv, buf' = buf, NEW k, Deeper(k), Entry.kind = "oneof",
         calls'[k + 1].loop \in OneofLoops, file' = file, counts' = counts, used' = used,
         Top.loop \in MessageLoops
  PROVE  OpenInv' /\ WalkInv' /\ MessagesKept
<1>0. Entry.kind \in Bodied
  BY DEF Bodied
<1>1. /\ k \in Nat /\ Depth = 1..k /\ Top = calls[k] /\ k \in Depth /\ k >= 1 /\ k = Len(calls)
      /\ Len(calls') = k + 1 /\ Depth' = 1..(k + 1)
      /\ \A i \in Depth : calls'[i] = calls[i]
      /\ \A i \in Depth : i < k => Cursor(i)' = Cursor(i)
      /\ \A i \in Depth : Limit(i)' = Limit(i) /\ At(i)' \in Nat /\ At(i) \in Nat /\ At(i)' >= At(i)
      /\ Cursor(k)' = Beyond(buf, Cursor(k))
  BY <1>0, DeeperAt DEF Deeper
<1>2. calls'[k + 1].loop \notin Walks /\ calls'[k + 1].loop \notin MessageLoops
  BY LoopFacts
<1>3. Walking' = Walking
  <2>1. Walking' = {i \in Depth' : calls'[i].loop \in Walks}
    BY DEF Walking
  <2>2. Depth' = Depth \cup {k + 1}
    BY <1>1
  <2>3. \A i \in Depth : calls'[i].loop = calls[i].loop
    BY <1>1
  <2>4. QED
    BY <2>1, <2>2, <2>3, <1>2 DEF Walking
<1>4. \A i \in Walking : calls[i].loop = "count_fields" => Walk(i)' = Walk(i)
  BY <1>1 DEF Walk, Walking
<1>5. \A i \in Walking : calls[i].loop # "count_fields" => Walk(i)' = Cursor(i)' /\ Walk(i) = Cursor(i)
  BY <1>1 DEF Walk, Walking
<1>6. \A i \in Depth : At(i)' = Cursor(i)'.at /\ At(i) = Cursor(i).at
  BY DEF Cursor
<1>7. \A i \in Walking : Walk(i)'.at \in Nat /\ Walk(i)'.at >= Walk(i).at
  <2> SUFFICES ASSUME NEW i \in Walking PROVE Walk(i)'.at \in Nat /\ Walk(i)'.at >= Walk(i).at
    OBVIOUS
  <2>1. i \in Depth /\ Walk(i).at \in Nat
    BY WalkTypes
  <2>2. CASE calls[i].loop = "count_fields"
    BY <2>1, <2>2, <1>4
  <2>3. CASE calls[i].loop # "count_fields"
    BY <2>1, <2>3, <1>1, <1>5, <1>6
  <2>4. QED
    BY <2>2, <2>3
<1>8. MessagesKept /\ SameMessages /\ SameEnums
  BY DEF MessagesKept, SameMessages, SameEnums, Messages, Message
<1>9. ShapesStay
  BY <1>8 DEF ShapesStay, OpenInv, MessagesKept
<1>10. LoopsStay
  <2>1. \A i \in Depth' : calls'[i].loop \in MessageLoops => i \in Depth
    BY <1>1, <1>2
  <2>2. QED
    BY <2>1, <1>1, <1>3, <1>7 DEF LoopsStay
<1>11. \A m \in Messages : Open(m) => Open(m)'
  BY <1>1 DEF Open
<1>12. OpenInv'
  BY <1>8, <1>9, <1>10, <1>11, OpenSame
<1>13. Counting' = Counting
  BY <1>1 DEF Counting
\* No declaration is in a oneof.
<1>14. \A kind \in Kept : Ahead(kind)' = Ahead(kind)
  <2> SUFFICES ASSUME NEW kind \in Kept PROVE Ahead(kind)' = Ahead(kind)
    OBVIOUS
  <2>1. CASE Top.loop = "count_fields"
    <3>1. \A i \in Walking : Walk(i)' = Walk(i)
      <4> SUFFICES ASSUME NEW i \in Walking, calls[i].loop # "count_fields" PROVE Walk(i)' = Walk(i)
        BY <1>4
      <4>1. i \in Depth /\ i < k
        BY <2>1, <1>1 DEF Walking
      <4>2. QED
        BY <4>1, <1>1, <1>5
    <3>2. QED
      BY <1>3, <3>1, AheadSame
  <2>2. CASE Top.loop # "count_fields"
    <3>1. Seeks
      BY <2>2, LoopFacts DEF Seeks
    <3>2. Past(kind)
      BY <1>1, <1>2, <3>1, AheadIn
    <3>3. QED
      BY <3>2 DEF Past, Kept
  <2>3. QED
    BY <2>1, <2>2
<1>15. WalkInv'
  BY <1>13, <1>14, WalkSame
<1>16. QED
  BY <1>8, <1>12, <1>15

-----------------------------------------------------------------------------
(* While the file's entries are counted nothing is stored.                 *)
LEMMA NothingStored ==
  ASSUME Stacked, FileShape, WalkInv, Counting
  PROVE  /\ Messages = {} /\ DOMAIN file.enums = {} /\ DOMAIN file.imports = {}
         /\ used = [imports |-> 0, enums |-> 0, messages |-> 0]
         /\ \A i \in Depth : calls[i].loop \in {"count_entries", "count_body"}
<1>1. \A kind \in Kept : used[Sorts[kind]] = 0
  BY SortFacts DEF WalkInv, Tallied
<1>2. used.imports = 0 /\ used.enums = 0 /\ used.messages = 0
  BY <1>1, SortFacts DEF Kept
<1>3. used = [imports |-> 0, enums |-> 0, messages |-> 0]
  BY <1>2 DEF FileShape
<1>4. QED
  BY <1>2, <1>3, SlotsMore DEF FileShape, Messages, Stacked

LEMMA OpenWithNone ==
  ASSUME Messages' = {}, DOMAIN file'.enums = {}, \A i \in Depth' : calls'[i].loop \notin MessageLoops
  PROVE  OpenInv'
BY DEF OpenInv

LEMMA FieldsWithNone ==
  ASSUME Messages' = {}, \A i \in Depth' : calls'[i].loop \notin MessageLoops \cup OneofLoops
  PROVE  FieldsInv'
BY DEF FieldsInv

LEMMA ValuesWithNone ==
  ASSUME DOMAIN file'.enums = {}, \A i \in Depth' : calls'[i].loop \notin EnumLoops
  PROVE  ValuesInv'
BY DEF ValuesInv

LEMMA CountLoops ==
  ASSUME NEW l \in {"count_entries", "count_body", "fill_file"}
  PROVE  l \notin MessageLoops /\ l \notin OneofLoops /\ l \notin EnumLoops /\ l \in Walks
BY DEF MessageLoops, OneofLoops, EnumLoops, Walks

\* Into a message whose declarations are counted.
LEMMA CountEntered ==
  ASSUME Stacked, OpenInv, WalkInv, buf' = buf, NEW k, Deeper(k), Entry.kind = "message",
         calls'[k + 1].loop = "count_body", Top.loop \in {"count_entries", "count_body"}, Noted
  PROVE  WalkInv'
<1>0. Entry.kind \in Bodied /\ Seeks
  BY DEF Bodied, Seeks, Walks
<1>1. /\ k \in Nat /\ Depth = 1..k /\ Top = calls[k] /\ k \in Depth /\ k >= 1 /\ k = Len(calls)
      /\ Len(calls') = k + 1 /\ Depth' = 1..(k + 1)
      /\ \A i \in Depth : calls'[i] = calls[i]
      /\ \A i \in Depth : i < k => Cursor(i)' = Cursor(i)
      /\ Cursor(k)' = Beyond(buf, Cursor(k)) /\ Cursor(k + 1)' = Inside(buf, Cursor(k))
  BY <1>0, DeeperAt DEF Deeper
<1>2. calls'[k + 1].loop \in Walks /\ Walk(k + 1)' = Inside(buf, Cursor(k))
  BY <1>1, CountLoops DEF Walk
<1>3. \A kind \in Kept : Past(kind)
  BY <1>0, <1>1, <1>2, AheadIn
<1>4. Counting' = Counting
  BY <1>1 DEF Counting
<1>5. QED
  BY <1>3, <1>4, WalkPast DEF Noted

\* Into a message or an enum that is stored.
LEMMA StoreEntered ==
  ASSUME Stacked, OpenInv, WalkInv, buf' = buf, NEW k, Deeper(k), Entry.kind \in {"message", "enum"}, Reads,
         IF Entry.kind = "message"
         THEN calls'[k + 1].loop \in Walks /\ Walk(k + 1)' = Inside(buf, Cursor(k))
         ELSE calls'[k + 1].loop \notin Walks,
         Noted
  PROVE  WalkInv'
<1>0. Entry.kind \in Bodied /\ Seeks
  BY DEF Bodied, Seeks, Walks, Reads
<1>1. /\ k \in Nat /\ Depth = 1..k /\ k >= 1 /\ k = Len(calls)
      /\ Len(calls') = k + 1 /\ Depth' = 1..(k + 1)
      /\ \A i \in Depth : calls'[i] = calls[i]
      /\ \A i \in Depth : i < k => Cursor(i)' = Cursor(i)
      /\ Cursor(k)' = Beyond(buf, Cursor(k))
  BY <1>0, DeeperAt DEF Deeper
<1>2. \A kind \in Kept : Past(kind)
  BY <1>0, <1>1, AheadIn DEF Bodied
<1>3. Counting' = Counting
  BY <1>1 DEF Counting
<1>4. QED
  BY <1>2, <1>3, WalkPast DEF Noted

\* Out of a body.
LEMMA ShallowerGoing ==
  ASSUME Stacked, OpenInv, FieldsInv, WalkInv, buf' = buf, NEW k, NEW n, Shallower(k, n),
         Entry.kind = "none", file' = file, counts' = counts, used' = used,
         Top.loop # "count_fields"
  PROVE  /\ OpenInv' /\ WalkInv' /\ MessagesKept
         /\ \A m \in Messages : Open(m) => Open(m)' \/ FieldsFilled(Message(m))
<1>1. /\ k \in Nat /\ Depth = 1..k /\ k \in Depth /\ Top = calls[k] /\ Depth = Depth' \cup {k}
      /\ k \notin Depth' /\ k - 1 \in Depth' /\ k >= 2 /\ k = Len(calls)
      /\ \A i \in Depth' : i \in Depth /\ i < k
      /\ \A i \in Depth' : calls'[i].loop = calls[i].loop /\ calls'[i].slot = calls[i].slot
      /\ \A i \in Depth' : Cursor(i)' = Cursor(i)
      /\ Depth' = 1..(k - 1)
  BY ShallowerTypes DEF Shallower
<1>2. MessagesKept /\ SameMessages /\ SameEnums
  BY DEF MessagesKept, SameMessages, SameEnums, Messages, Message
<1>3. ShapesStay
  BY <1>2 DEF ShapesStay, OpenInv, MessagesKept
<1>4. Walking' = {i \in Walking : i # k}
  BY <1>1 DEF Walking
<1>5. ASSUME NEW i \in Walking' PROVE i \in Walking /\ Walk(i)' = Walk(i)
  <2>1. i \in Depth' /\ i \in Walking
    BY <1>4 DEF Walking
  <2>2. calls'[i].loop = calls[i].loop /\ calls'[i].slot = calls[i].slot /\ Cursor(i)' = Cursor(i)
    BY <1>1, <2>1
  <2>3. QED
    BY <2>1, <2>2 DEF Walk
<1>6. ASSUME NEW i \in Depth' PROVE At(i)' = At(i) /\ Limit(i)' = Limit(i) /\ At(i) \in Nat
  <2>1. /\ At(i)' = Cursor(i)'.at /\ Limit(i)' = Cursor(i)'.limit
        /\ At(i) = Cursor(i).at /\ Limit(i) = Cursor(i).limit
    BY DEF Cursor
  <2>2. i \in Depth /\ Cursor(i)' = Cursor(i)
    BY <1>1
  <2>3. QED
    BY <2>1, <2>2, CursorAt
<1>7. LoopsStay
  <2>1. \A i \in Walking' : i \in Walking /\ Walk(i)'.at \in Nat /\ Walk(i)'.at >= Walk(i).at
    BY <1>5, WalkTypes
  <2>2. QED
    BY <1>1, <1>6, <2>1 DEF LoopsStay
\* A message that is closed ends before the cursors outside it.
<1>8. ASSUME NEW m \in Messages, Open(m), ~Open(m)'
      PROVE  /\ Top.loop = "fill_message" /\ Top.slot = m
             /\ \A i \in Walking' : Message(m).body.close < Walk(i)'.at
  <2>1. PICK i \in Depth : calls[i].loop \in MessageLoops /\ calls[i].slot = m
    BY <1>8 DEF Open
  <2>2. i = k
    BY <1>1, <1>8, <2>1 DEF Open
  <2>3. Top.loop = "fill_message" /\ Top.slot = m
    BY <1>1, <2>1, <2>2 DEF MessageLoops
  <2>4. Message(m).body.close = Limit(k)
    BY <2>1, <2>2 DEF OpenInv
  <2>5. Seeks
    BY <2>3 DEF Seeks, Walks
  <2>6. ASSUME NEW j \in Walking' PROVE Message(m).body.close < Walk(j)'.at
    <3>1. j \in Depth /\ j < k /\ Walk(j)' = Walk(j) /\ j \in Walking
      BY <1>1, <1>5 DEF Walking
    <3>2. calls[j].loop # "count_fields"
      BY <1>1, <2>5, <3>1, NoCountBelow
    <3>3. Walk(j).at = At(j)
      BY <3>1, <3>2, WalkTypes
    <3>4. Limit(k) < At(j)
      BY <1>1, <3>1 DEF Stacked
    <3>5. QED
      BY <2>4, <3>1, <3>3, <3>4
  <2>7. QED
    BY <2>3, <2>6
<1>9. OpenInv'
  BY <1>2, <1>3, <1>7, <1>8, OpenSame
<1>10. \A m \in Messages : Open(m) => Open(m)' \/ FieldsFilled(Message(m))
  BY <1>8, FieldsAllRead, LoopFacts
<1>11. Counting' = Counting
  <2>1. 1 \in Depth'
    BY <1>1
  <2>2. QED
    BY <2>1, <1>1 DEF Counting
<1>12. \A kind \in Kept : Ahead(kind)' = Ahead(kind)
  <2> SUFFICES ASSUME NEW kind \in Kept PROVE Ahead(kind)' = Ahead(kind)
    OBVIOUS
  <2>1. CASE Seeks
    BY <1>1, <2>1, AheadOut
  <2>2. CASE ~Seeks
    <3>1. k \notin Walking
      BY <1>1, <2>2 DEF Walking, Seeks
    <3>2. Walking' = Walking
      BY <1>4, <3>1
    <3>3. QED
      BY <1>5, <3>2, AheadSame
  <2>3. QED
    BY <2>1, <2>2
<1>13. WalkInv'
  BY <1>11, <1>12, WalkSame
<1>14. QED
  BY <1>2, <1>9, <1>10, <1>13

\* The same body over again.
LEMMA ReplacedGoing ==
  ASSUME Stacked, OpenInv, WalkInv, buf' = buf, NEW k, NEW loop, Replaced(k, loop, 0),
         SameMessages, SameEnums, ShapesStay, counts' = counts, used' = used, k # 1,
         \/ Top.loop = "count_values" /\ loop = "fill_enum"
         \/ /\ Top.loop = "count_fields" /\ loop = "fill_message"
            /\ Cursor(k)' = BodyCursor(file.messages[Top.slot].body)
  PROVE  OpenInv' /\ WalkInv'
<1>1. /\ k \in Nat /\ Depth = 1..k /\ k \in Depth /\ Top = calls[k] /\ k = Len(calls) /\ Depth' = Depth
      /\ calls'[k].loop = loop /\ calls'[k].slot = calls[k].slot
      /\ \A i \in Depth : i # k => calls'[i] = calls[i] /\ Cursor(i)' = Cursor(i)
      /\ Len(calls') = k
  BY StackTypes DEF Replaced
<1>2. loop \in Walks <=> Top.loop \in Walks
  BY DEF Walks
<1>21. loop \in MessageLoops <=> Top.loop \in MessageLoops
  BY DEF MessageLoops
<1>3. Walking' = Walking
  <2>1. \A i \in Depth : calls'[i].loop \in Walks <=> calls[i].loop \in Walks
    BY <1>1, <1>2
  <2>2. QED
    BY <1>1, <2>1 DEF Walking
<1>4. ASSUME NEW i \in Walking PROVE Walk(i)' = Walk(i)
  <2>1. CASE i = k
    <3>1. Top.loop = "count_fields" /\ loop = "fill_message"
      BY <1>1, <2>1 DEF Walking, Walks
    <3>2. Walk(k)' = Cursor(k)'
      BY <1>1, <3>1 DEF Walk
    <3>3. QED
      BY <1>1, <2>1, <3>1, <3>2 DEF Walk
  <2>2. CASE i # k
    <3>1. i \in Depth /\ calls'[i] = calls[i] /\ Cursor(i)' = Cursor(i)
      BY <1>1, <2>2 DEF Walking
    <3>2. CASE calls[i].loop = "count_fields"
      <4>1. calls[i].slot \in Messages
        BY <3>1, <3>2, LoopFacts DEF OpenInv
      <4>2. file'.messages[calls[i].slot].body = file.messages[calls[i].slot].body
        BY <4>1 DEF SameMessages, Message
      <4>3. QED
        BY <3>1, <3>2, <4>2 DEF Walk
    <3>3. CASE calls[i].loop # "count_fields"
      BY <3>1, <3>3 DEF Walk
    <3>4. QED
      BY <3>2, <3>3
  <2>3. QED
    BY <2>1, <2>2
<1>5. \A i \in Depth : calls'[i].loop \in MessageLoops => calls[i].loop \in MessageLoops /\ calls'[i].slot = calls[i].slot
  BY <1>1, <1>21
<1>6. ASSUME NEW i \in Depth, calls[i].loop \in MessageLoops
      PROVE  /\ At(i)' >= At(i) \/ At(i)' = Message(calls[i].slot).body.start
             /\ At(i)' \in Nat /\ Limit(i)' = Limit(i)
  <2>1. /\ At(i)' = Cursor(i)'.at /\ Limit(i)' = Cursor(i)'.limit
        /\ At(i) = Cursor(i).at /\ Limit(i) = Cursor(i).limit
    BY DEF Cursor
  <2>2. CASE i = k
    <3>1. Cursor(k)' = BodyCursor(Message(Top.slot).body) /\ Top.slot \in Messages
          /\ Message(Top.slot).body.close = Limit(k)
      BY <1>1, <1>6, <2>2 DEF OpenInv, Message, MessageLoops
    <3>2. QED
      BY <1>1, <2>1, <2>2, <3>1, MessageTypes DEF BodyCursor
  <2>3. CASE i # k
    BY <1>1, <2>1, <2>3, CursorAt
  <2>4. QED
    BY <2>2, <2>3
<1>7. LoopsStay
  <2>1. \A i \in Walking' : i \in Walking /\ Walk(i)'.at \in Nat /\ Walk(i)'.at >= Walk(i).at
    BY <1>3, <1>4, WalkTypes
  <2>2. QED
    BY <1>1, <1>5, <1>6, <2>1 DEF LoopsStay
<1>8. ASSUME NEW m \in Messages PROVE Open(m) => Open(m)'
  <2>1. \A i \in Depth : calls[i].loop \in MessageLoops => calls'[i].loop \in MessageLoops /\ calls'[i].slot = calls[i].slot
    BY <1>1, <1>21
  <2>2. QED
    BY <1>1, <2>1 DEF Open
<1>9. OpenInv'
  BY <1>7, <1>8, OpenSame
<1>10. Counting' = Counting
  <2>1. 1 \in Depth /\ 1 # k
    BY <1>1
  <2>2. QED
    BY <2>1, <1>1 DEF Counting
<1>11. \A kind \in Kept : Ahead(kind)' = Ahead(kind)
  BY <1>3, <1>4, AheadSame
<1>12. WalkInv'
  BY <1>10, <1>11, WalkSame
<1>13. QED
  BY <1>9, <1>12

-----------------------------------------------------------------------------
(* Steps.                                                                  *)
Keeps == Going' /\ PreOrder'

LEMMA ReadOne ==
  ASSUME NEW loops, NEW kinds, NEW e \in Read(loops, kinds)
  PROVE  e = Entry /\ e.kind \in kinds /\ Top.loop \in loops
BY DEF Read

LEMMA FilePut ==
  ASSUME FileShape, NEW x \in DOMAIN file, NEW v, file' = [file EXCEPT ![x] = v]
  PROVE  /\ DOMAIN file' = {"imports", "enums", "messages", "syntax", "edition", "package"}
         /\ file' = [y \in DOMAIN file' |-> file'[y]]
         /\ file'[x] = v
         /\ \A y \in DOMAIN file : y # x => file'[y] = file[y]
BY DEF FileShape

LEMMA FileShapeStays ==
  ASSUME FileShape, file' = file, used' = used, counts' \in [imports : Nat, enums : Nat, messages : Nat]
  PROVE  FileShape'
BY DEF FileShape

\* What is not touched is the same.
LEMMA Untouched ==
  ASSUME OpenInv, buf' = buf, MessagesKept, file'.enums = file.enums
  PROVE  SameMessages /\ SameEnums /\ ShapesStay
<1>1. Messages' = DOMAIN file'.messages /\ Messages = DOMAIN file.messages
      /\ \A m \in Messages : file'.messages[m] = Message(m)
  BY DEF MessagesKept, Messages, Message
<1>2. SameMessages
  BY <1>1 DEF SameMessages, MessagesKept
<1>3. SameEnums
  BY DEF SameEnums
<1>4. ShapesStay
  BY <1>1 DEF OpenInv, ShapesStay, Message
<1>5. QED
  BY <1>2, <1>3, <1>4

LEMMA KeptSame ==
  ASSUME file'.messages = file.messages
  PROVE  MessagesKept
BY DEF MessagesKept, Messages, Message

LEMMA SameCalls ==
  ASSUME Stacked, calls' = calls
  PROVE  SameLoops
BY DEF Stacked, SameLoops

LEMMA GoingOnward ==
  ASSUME Stacked, Entry.kind # "none", offset' = Entry.end, size' = size, buf' = buf, SameLoops,
         NEW k, k = Len(calls)
  PROVE  Stacked' /\ Onward(k)
BY GoesOn DEF Onward

\* A step past an entry that is neither a field nor a value of the loop's.
LEMMA StepOn ==
  ASSUME Going, PreOrder, buf' = buf, offset' = Entry.end, size' = size, calls' = calls,
         Entry.kind # "none", file'.messages = file.messages, file'.enums = file.enums, FileShape',
         IF Seeks THEN Entry.kind # "message" /\ Noted ELSE counts' = counts /\ used' = used,
         Top.loop \in Ofs => Entry.kind \notin FieldKinds \cup {"oneof"},
         Top.loop \in EnumLoops => Entry.kind # "value"
  PROVE  Keeps
<1>0. Stacked /\ FileShape /\ WalkInv /\ OpenInv /\ FieldsInv /\ ValuesInv
  BY DEF Going
<1>1. PICK k : k = Len(calls)
  OBVIOUS
<1>2. Stacked' /\ Onward(k)
  BY <1>0, <1>1, SameCalls, GoingOnward
<1>3. MessagesKept /\ SameMessages /\ SameEnums /\ ShapesStay
  BY <1>0, KeptSame, Untouched
<1>4. OpenInv' /\ WalkInv'
  BY <1>0, <1>2, <1>3, OnwardGoing
<1>5. FieldsInv'
  BY <1>0, <1>2, <1>3, FieldsPassed
<1>6. ValuesInv'
  BY <1>0, <1>2, <1>3, ValuesPassed
<1>7. PreOrder'
  BY <1>3, PreOrderSame
<1>8. QED
  BY <1>2, <1>4, <1>5, <1>6, <1>7 DEF Keeps, Going

LEMMA StepCountEntry ==
  ASSUME Going, PreOrder, CountEntry
  PROVE  Keeps
<1>1. /\ Entry.kind \in {"import", "enum"} /\ Top.loop \in {"count_entries", "count_body"}
      /\ counts' = IF Entry.kind = "import" THEN [counts EXCEPT !.imports = @ + 1]
                   ELSE [counts EXCEPT !.enums = @ + 1]
      /\ offset' = Entry.end /\ size' = size
      /\ buf' = buf /\ calls' = calls /\ used' = used /\ file' = file
  BY ReadOne DEF CountEntry, Advance
<1>2. Stacked /\ FileShape
  BY DEF Going
<1>3. Counting
  BY <1>1, <1>2, StackTypes DEF Stacked
<1>4. Top.loop \notin Ofs /\ Top.loop \notin EnumLoops /\ Seeks
  BY <1>1, CountLoops DEF Ofs, Seeks
<1>5. counts \in [imports : Nat, enums : Nat, messages : Nat]
  BY <1>2 DEF FileShape
<1>6. counts' \in [imports : Nat, enums : Nat, messages : Nat]
  BY <1>1, <1>5
<1>7. More(counts, Entry.kind)
  BY <1>1, <1>5, SortFacts DEF More, Kept
<1>8. FileShape'
  BY <1>1, <1>2, <1>6, FileShapeStays
<1>9. QED
  BY <1>1, <1>3, <1>4, <1>7, <1>8, StepOn DEF Noted

LEMMA EnteredDeeper ==
  ASSUME Stacked, Entry.kind # "none", Entry.kind \in Bodied, buf' = buf,
         NEW loop \in Under[Top.loop], Place[loop] = Entry.kind, NEW slot \in Nat, NEW n \in Nat,
         Pushes(loop, slot, n), NEW k, k = Len(calls)
  PROVE  /\ Stacked' /\ Deeper(k)
         /\ calls'[k + 1].loop = loop /\ calls'[k + 1].slot = slot /\ calls'[k + 1].n = n
<1>1. Stacked' /\ Len(calls') = k + 1 /\ Depth' = 1..(k + 1)
  BY Enters
<1>2. \A i \in Depth : calls'[i] = calls[i]
  BY Enters
<1>3. Cursor(k)' = Beyond(buf, Cursor(k)) /\ Cursor(k + 1)' = Inside(buf, Cursor(k))
  BY Enters
<1>4. \A i \in Depth : i < k => Cursor(i)' = Cursor(i)
  BY Enters
<1>5. Lands(k, loop, slot, n)
  BY Enters
<1>6. QED
  BY <1>1, <1>2, <1>3, <1>4, <1>5 DEF Deeper, Lands

LEMMA StepCountMessage ==
  ASSUME Going, PreOrder, CountMessage
  PROVE  Keeps
<1>0. Stacked /\ FileShape /\ WalkInv /\ OpenInv /\ FieldsInv /\ ValuesInv
  BY DEF Going
<1>1. /\ Entry.kind = "message" /\ Top.loop \in {"count_entries", "count_body"}
      /\ counts' = [counts EXCEPT !.messages = @ + 1]
      /\ Pushes("count_body", 0, 0)
      /\ buf' = buf /\ used' = used /\ file' = file
  BY ReadOne DEF CountMessage, None, Pushes
<1>2. PICK k : k = Len(calls)
  OBVIOUS
<1>3. "count_body" \in Under[Top.loop] /\ Place["count_body"] = "message"
  BY <1>1, UnderFacts, PlaceFacts
<1>4. Stacked' /\ Deeper(k) /\ calls'[k + 1].loop = "count_body"
  BY <1>0, <1>1, <1>2, <1>3, EnteredDeeper DEF Bodied
<1>5. Counting
  BY <1>0, <1>1, StackTypes DEF Stacked
<1>6. counts \in [imports : Nat, enums : Nat, messages : Nat]
  BY <1>0 DEF FileShape
<1>7. counts' \in [imports : Nat, enums : Nat, messages : Nat] /\ More(counts, Entry.kind)
  BY <1>1, <1>6, SortFacts DEF More, Kept
<1>8. WalkInv'
  BY <1>0, <1>1, <1>4, <1>5, <1>7, CountEntered DEF Noted
<1>9. FileShape'
  BY <1>0, <1>1, <1>7, FileShapeStays
<1>10. Messages' = {} /\ DOMAIN file'.enums = {}
  BY <1>0, <1>1, <1>5, NothingStored DEF Messages
<1>11. \A i \in Depth' : calls'[i].loop \in {"count_entries", "count_body"}
  <2>1. \A i \in Depth : calls[i].loop \in {"count_entries", "count_body"}
    BY <1>0, <1>5, NothingStored
  <2>2. k \in Nat /\ Depth = 1..k /\ Depth' = 1..(k + 1) /\ \A i \in Depth : calls'[i] = calls[i]
    BY <1>0, <1>2, <1>4, StackTypes DEF Deeper
  <2>3. QED
    BY <2>1, <2>2, <1>4
<1>12. \A i \in Depth' : calls'[i].loop \notin MessageLoops \cup OneofLoops /\ calls'[i].loop \notin EnumLoops
  BY <1>11, CountLoops
<1>13. OpenInv' /\ FieldsInv' /\ ValuesInv'
  BY <1>10, <1>12, OpenWithNone, FieldsWithNone, ValuesWithNone
<1>14. PreOrder'
  BY <1>1 DEF PreOrder
<1>15. QED
  BY <1>4, <1>8, <1>9, <1>13, <1>14 DEF Keeps, Going

\* A step out of a body.
LEMMA StepOut ==
  ASSUME Going, PreOrder, buf' = buf, file' = file, counts' = counts, used' = used,
         Entry.kind = "none", Top.loop \notin {"count_entries", "fill_file", "count_fields"},
         LeaveWith(IF Top.loop \in OneofLoops THEN Top.n ELSE calls[Len(calls) - 1].n),
         Top.loop = "count_values" => Top.n = 0
  PROVE  Keeps
<1>0. Stacked /\ FileShape /\ WalkInv /\ OpenInv /\ FieldsInv /\ ValuesInv
  BY DEF Going
<1>1. PICK k : k = Len(calls)
  OBVIOUS
<1>2. PICK n : n = IF Top.loop \in OneofLoops THEN Top.n ELSE calls[k - 1].n
  OBVIOUS
<1>3. k \in Nat /\ k >= 1 /\ Depth = 1..k /\ Top = calls[k] /\ k \in Depth
  BY <1>0, <1>1, StackTypes
<1>4. k # 1
  BY <1>0, <1>3 DEF Stacked
<1>5. n \in Nat
  BY <1>0, <1>2, <1>3, <1>4, StackTypes
<1>6. Stacked' /\ Shallower(k, n)
  <2>1. LeaveWith(n)
    BY <1>1, <1>2
  <2>2. QED
    BY <1>0, <1>1, <1>4, <1>5, <2>1, Leaves DEF Shallower
<1>7. /\ OpenInv' /\ WalkInv' /\ MessagesKept
      /\ \A m \in Messages : Open(m) => Open(m)' \/ FieldsFilled(Message(m))
  BY <1>0, <1>6, ShallowerGoing
<1>8. FieldsInv'
  BY <1>0, <1>2, <1>6, <1>7, FieldsLeft
<1>9. ValuesInv'
  BY <1>0, <1>6, ValuesLeft DEF EnumLoops
<1>10. FileShape' /\ PreOrder'
  BY <1>0 DEF FileShape, PreOrder
<1>11. QED
  BY <1>6, <1>7, <1>8, <1>9, <1>10 DEF Keeps, Going

LEMMA StepOuts ==
  ASSUME Going, PreOrder,
         \/ CountBodyDone \/ CountOneofDone \/ FillOneofDone \/ FillMessageDone \/ FillEnumDone
  PROVE  Keeps
<1>1. \A l \in {"count_body", "fill_message", "fill_enum"} : l \notin OneofLoops
  BY DEF OneofLoops
<1>2. "count_choices" \in OneofLoops /\ "fill_oneof" \in OneofLoops
  BY DEF OneofLoops
<1>3. CASE CountBodyDone \/ FillMessageDone \/ FillEnumDone
  BY <1>1, <1>3, StepOut DEF CountBodyDone, FillMessageDone, FillEnumDone, Ends, Leave
<1>4. CASE CountOneofDone \/ FillOneofDone
  BY <1>2, <1>4, StepOut DEF CountOneofDone, FillOneofDone, Ends
<1>5. QED
  BY <1>3, <1>4

\* The file's entries are counted, and read again from the start.
LEMMA StepCountDone ==
  ASSUME Going, PreOrder, CountDone
  PROVE  Keeps
<1>0. Stacked /\ FileShape /\ WalkInv /\ OpenInv /\ FieldsInv /\ ValuesInv
  BY DEF Going
<1>1. /\ Top.loop = "count_entries" /\ Entry.kind = "none"
      /\ calls' = [calls EXCEPT ![1].loop = "fill_file"] /\ offset' = 1 /\ size' = size
      /\ buf' = buf /\ counts' = counts /\ used' = used /\ file' = file
  BY DEF CountDone, Ends
<1>2. PICK k : k = Len(calls)
  OBVIOUS
<1>3. /\ k \in Nat /\ k >= 1 /\ Depth = 1..k /\ Top = calls[k] /\ k \in Depth /\ calls[k] \in Frame
      /\ size \in Nat /\ offset <= size /\ offset >= 1 /\ offset \in Nat /\ calls \in Seq(Frame)
      /\ Cursor(k) = [where |-> Place[Top.loop], at |-> offset, limit |-> size]
  BY <1>0, <1>2, StackTypes DEF Stacked
<1>4. k = 1
  <2>1. SUFFICES ASSUME k # 1 PROVE FALSE
    OBVIOUS
  <2>2. k - 1 \in Depth /\ calls[k].loop \in Under[calls[k - 1].loop] /\ calls[k - 1].loop \in DOMAIN Place
    BY <2>1, <1>0, <1>3, StackTypes DEF Stacked
  <2>3. QED
    BY <2>2, <1>1, <1>3, UnderWhat
<1>5. Loops("fill_file", Top.n)
  <2>1. [calls[k] EXCEPT !.loop = "fill_file"] = [calls[k] EXCEPT !.loop = "fill_file", !.n = calls[k].n]
    BY <1>3 DEF Frame
  <2>2. calls' = [calls EXCEPT ![k] = [calls[k] EXCEPT !.loop = "fill_file"]]
    BY <1>1, <1>4
  <2>3. [calls EXCEPT ![k].loop = "fill_file", ![k].n = Top.n]
          = [calls EXCEPT ![k] = [calls[k] EXCEPT !.loop = "fill_file", !.n = calls[k].n]]
    BY <1>3
  <2>4. calls' = [calls EXCEPT ![k].loop = "fill_file", ![k].n = Top.n]
    BY <2>1, <2>2, <2>3
  <2>5. QED
    BY <1>2, <2>4 DEF Loops
<1>6. /\ Stacked' /\ Len(calls') = 1 /\ Depth' = Depth /\ calls'[1].loop = "fill_file"
      /\ Cursor(1)' = [where |-> "file", at |-> 1, limit |-> size]
  <2>1. "fill_file" \in DOMAIN Place /\ Place["fill_file"] = Place[Top.loop] /\ Place[Top.loop] = "file"
    BY <1>1, PlaceFacts
  <2>2. offset' \in 1..size /\ Top.n \in Nat
    BY <1>0, <1>1, <1>3, StackTypes
  <2>3. QED
    BY <1>0, <1>1, <1>2, <1>4, <1>5, <2>1, <2>2, Restarts
<1>7. Counting /\ ~Counting'
  BY <1>1, <1>3, <1>4, <1>6 DEF Counting
<1>8. Messages' = {} /\ DOMAIN file'.enums = {} /\ used = [imports |-> 0, enums |-> 0, messages |-> 0]
  BY <1>0, <1>1, <1>7, NothingStored DEF Messages
<1>9. \A i \in Depth' : i = 1 /\ calls'[i].loop = "fill_file"
  BY <1>3, <1>4, <1>6
<1>10. OpenInv' /\ FieldsInv' /\ ValuesInv'
  <2>1. \A i \in Depth' : calls'[i].loop \notin MessageLoops \cup OneofLoops /\ calls'[i].loop \notin EnumLoops
    BY <1>9, CountLoops
  <2>2. QED
    BY <1>8, <2>1, OpenWithNone, FieldsWithNone, ValuesWithNone
<1>11. ASSUME NEW kind \in Kept
       PROVE  /\ Ahead(kind) = {} /\ Whole(kind)' = Whole(kind) /\ Ahead(kind)' = Whole(kind)
  <2>1. Seeks
    BY <1>1 DEF Seeks, Walks
  <2>2. Lower(kind) = {}
    BY <1>2, <1>3, <1>4 DEF Lower, Walking
  <2>3. Of(kind, Cursor(k)) = {}
    <3>1. buf \in Texts /\ Cursor(k) \in Cursors(buf) /\ Entry = Found(buf, Cursor(k))
      BY <1>0, <1>2, <1>3, StackTypes DEF Stacked
    <3>2. QED
      BY <1>1, <3>1, StartsNone DEF Of, Bodied, Kept
  <2>4. Ahead(kind) = {}
    BY <1>0, <1>2, <2>1, <2>2, <2>3, AheadTop
  <2>5. Walking' = {1}
    BY <1>3, <1>4, <1>6 DEF Walking, Walks
  <2>6. Walk(1)' = Cursor(1)'
    BY <1>6 DEF Walk
  <2>7. size = Len(buf) + 1
    <3>1. Limit(1) = Len(buf) + 1 /\ Limit(1) = size
      BY <1>0, <1>2, <1>4 DEF Stacked, Limit
    <3>2. QED
      BY <3>1
  <2>8. Whole(kind)' = Whole(kind)
    BY <1>1 DEF Whole, Of
  <2>9. Ahead(kind)' = Of(kind, Walk(1))'
    BY <2>5 DEF Ahead
  <2>10. Of(kind, Walk(1))' = Whole(kind)
    BY <1>1, <1>6, <2>6, <2>7 DEF Of, Whole
  <2>11. QED
    BY <2>4, <2>8, <2>9, <2>10
<1>12. WalkInv'
  <2> SUFFICES ASSUME NEW kind \in Kept PROVE Tallied(kind, Counts(kind), Used(kind))'
    BY SortFacts DEF WalkInv, Counts, Used
  <2>1. Tallied(kind, Counts(kind), Used(kind)) /\ Used(kind)' = 0 /\ Counts(kind)' = Counts(kind)
    BY <1>0, <1>1, <1>8, SortFacts DEF WalkInv, Counts, Used, Kept
  <2>2. Ahead(kind) = {} /\ Whole(kind)' = Whole(kind) /\ Ahead(kind)' = Whole(kind)
    BY <1>11
  <2>3. Whole(kind) \ {} = Whole(kind) /\ Whole(kind) \ Whole(kind) = {}
    OBVIOUS
  <2>4. Counts(kind) = Cardinality(Whole(kind))
    BY <1>7, <2>1, <2>2, <2>3 DEF Tallied
  <2>5. QED
    BY <1>7, <2>1, <2>2, <2>3, <2>4, FS_EmptySet DEF Tallied
<1>13. FileShape' /\ PreOrder'
  BY <1>0, <1>1 DEF FileShape, PreOrder
<1>14. QED
  BY <1>6, <1>10, <1>12, <1>13 DEF Keeps, Going

-----------------------------------------------------------------------------
LEMMA PassedFacts ==
  ASSUME NEW loop \in DOMAIN Passed, NEW kind \in Passed[loop]
  PROVE  /\ kind # "none"
         /\ loop \in Walks \ {"count_fields"} => kind \notin Kept
         /\ loop \in Ofs => kind \notin FieldKinds \cup {"oneof"}
         /\ loop \in EnumLoops => kind # "value"
<1>1. loop \in {"count_entries", "fill_file", "count_body", "count_fields", "fill_message",
                "count_choices", "fill_oneof", "count_values", "fill_enum"}
  BY DEF Passed
<1>2. CASE loop \in {"count_entries", "fill_file", "count_body"}
  <2>1. kind \in {"option", "service", "extend", "syntax", "edition", "package", "extensions", "reserved",
                  "group", "oneof", "field"}
    BY <1>2 DEF Passed
  <2>2. loop \notin Ofs /\ loop \notin EnumLoops
    BY <1>2, CountLoops DEF Ofs
  <2>3. QED
    BY <2>1, <2>2 DEF Kept
<1>3. CASE loop = "count_fields"
  <2>1. kind \in {"option", "extensions", "reserved", "extend", "group", "enum", "message"}
    BY <1>3 DEF Passed
  <2>2. QED
    BY <1>3, <2>1 DEF FieldKinds, EnumLoops
<1>4. CASE loop = "fill_message"
  <2>1. kind \in {"option", "extensions", "reserved", "extend", "group"}
    BY <1>4 DEF Passed
  <2>2. QED
    BY <1>4, <2>1 DEF FieldKinds, EnumLoops, Kept
<1>5. CASE loop \in {"count_choices", "fill_oneof", "count_values", "fill_enum"}
  <2>1. kind \in {"option", "reserved"}
    BY <1>5 DEF Passed
  <2>2. QED
    BY <1>5, <2>1 DEF FieldKinds, Kept
<1>6. QED
  BY <1>1, <1>2, <1>3, <1>4, <1>5

LEMMA StepPassOver ==
  ASSUME Going, PreOrder, PassOver
  PROVE  Keeps
<1>1. /\ Entry.kind \in Passed[Top.loop] /\ Top.loop \in DOMAIN Passed
      /\ offset' = Entry.end /\ size' = size
      /\ buf' = buf /\ calls' = calls /\ counts' = counts /\ used' = used /\ file' = file
  BY ReadOne DEF PassOver, Advance
<1>2. /\ Entry.kind # "none"
      /\ Seeks => Entry.kind \notin Kept
      /\ Top.loop \in Ofs => Entry.kind \notin FieldKinds \cup {"oneof"}
      /\ Top.loop \in EnumLoops => Entry.kind # "value"
  BY <1>1, PassedFacts DEF Seeks
<1>3. Seeks => Noted /\ Entry.kind # "message"
  BY <1>1, <1>2 DEF Noted, More, Kept
<1>4. FileShape'
  BY <1>1 DEF Going, FileShape
<1>5. QED
  BY <1>1, <1>2, <1>3, <1>4, StepOn

LEMMA FillFileFacts ==
  ASSUME Stacked, Top.loop \in {"fill_file", "fill_message"}
  PROVE  /\ ~Counting /\ Seeks /\ Reads
         /\ Top.loop = "fill_file" => Top.loop \notin Ofs /\ Top.loop \notin EnumLoops
<1>1. ~Counting
  BY StackTypes DEF Stacked
<1>2. QED
  BY <1>1, CountLoops DEF Seeks, Walks, Reads, Ofs

Said(e) == IF e.kind = "syntax"
           THEN buf[CHOOSE q \in e.start..e.end : buf[q] \in {"proto2", "proto3"}]
           ELSE e.start

LEMMA StepReadDeclaration ==
  ASSUME Going, PreOrder, ReadDeclaration
  PROVE  Keeps
<1>0. Stacked /\ FileShape
  BY DEF Going
<1>1. /\ Entry.kind \in {"syntax", "edition", "package"} /\ Top.loop = "fill_file"
      /\ offset' = Entry.end /\ size' = size
      /\ buf' = buf /\ calls' = calls /\ counts' = counts /\ used' = used
  BY ReadOne DEF ReadDeclaration, Advance
<1>2. PICK e \in Read({"fill_file"}, {"syntax", "edition", "package"}) :
        file' = [file EXCEPT ![e.kind] = Said(e)]
  BY Zenon DEF ReadDeclaration, Said
<1>20. e = Entry
  BY <1>2, ReadOne
<1>21. PICK v : v = Said(e)
  OBVIOUS
<1>3. file' = [file EXCEPT ![Entry.kind] = v]
  BY <1>2, <1>20, <1>21
<1>4. Entry.kind \in DOMAIN file
  BY <1>0, <1>1 DEF FileShape
<1>5. /\ DOMAIN file' = {"imports", "enums", "messages", "syntax", "edition", "package"}
      /\ file' = [y \in DOMAIN file' |-> file'[y]]
      /\ \A y \in DOMAIN file : y # Entry.kind => file'[y] = file[y]
  BY <1>0, <1>3, <1>4, FilePut
<1>6. file'.imports = file.imports /\ file'.enums = file.enums /\ file'.messages = file.messages
  BY <1>0, <1>1, <1>5 DEF FileShape
<1>7. FileShape'
  BY <1>0, <1>1, <1>5, <1>6 DEF FileShape
<1>8. Noted
  BY <1>0, <1>1, FillFileFacts DEF Noted, More, Kept
<1>9. QED
  BY <1>0, <1>1, <1>6, <1>7, <1>8, FillFileFacts, StepOn

LEMMA StepReadImport ==
  ASSUME Going, PreOrder, ReadImport
  PROVE  Keeps
<1>0. Stacked /\ FileShape
  BY DEF Going
<1>1. /\ Entry.kind = "import" /\ Top.loop = "fill_file"
      /\ file' = [file EXCEPT !.imports = Write(@, used.imports, Entry.start)]
      /\ used' = [used EXCEPT !.imports = @ + 1]
      /\ offset' = Entry.end /\ size' = size
      /\ buf' = buf /\ calls' = calls /\ counts' = counts
  BY ReadOne DEF ReadImport, Advance
<1>2. "imports" \in DOMAIN file
  BY <1>0 DEF FileShape
<1>3. PICK v : v = Write(file.imports, used.imports, Entry.start)
  OBVIOUS
<1>4. file' = [file EXCEPT !["imports"] = v]
  BY <1>1, <1>3
<1>5. /\ DOMAIN file' = {"imports", "enums", "messages", "syntax", "edition", "package"}
      /\ file' = [y \in DOMAIN file' |-> file'[y]] /\ file'.imports = v
      /\ \A y \in DOMAIN file : y # "imports" => file'[y] = file[y]
  BY <1>0, <1>2, <1>4, FilePut
<1>6. file'.enums = file.enums /\ file'.messages = file.messages
  BY <1>0, <1>5 DEF FileShape
<1>7. DOMAIN v = DOMAIN file.imports \cup {used.imports}
  BY <1>3 DEF Write
<1>8. used \in [imports : Nat, enums : Nat, messages : Nat] /\ DOMAIN file.imports = Slots(used.imports)
  BY <1>0 DEF FileShape
<1>9. /\ used' \in [imports : Nat, enums : Nat, messages : Nat] /\ used'.imports = used.imports + 1
      /\ used'.enums = used.enums /\ used'.messages = used.messages
  BY <1>1, <1>8
<1>10. DOMAIN v = Slots(used'.imports)
  BY <1>7, <1>8, <1>9, SlotsMore
<1>11. FileShape'
  BY <1>0, <1>1, <1>5, <1>6, <1>9, <1>10 DEF FileShape
<1>12. Noted
  BY <1>0, <1>1, <1>9, FillFileFacts, SortFacts DEF Noted, More, Kept
<1>13. QED
  BY <1>0, <1>1, <1>6, <1>11, <1>12, FillFileFacts, StepOn

\* One more message or enum.
LEMMA StoreShape ==
  ASSUME FileShape, NEW x \in {"enums", "messages"}, NEW r,
         file' = [file EXCEPT ![x] = Write(@, used[x], r)],
         used' = [used EXCEPT ![x] = @ + 1], counts' = counts
  PROVE  /\ FileShape'
         /\ file'[x] = Write(file[x], used[x], r)
         /\ \A y \in {"enums", "messages"} : y # x => file'[y] = file[y]
         /\ used'[x] = used[x] + 1
         /\ \A y \in {"imports", "enums", "messages"} : y # x => used'[y] = used[y]
<1>1. x \in DOMAIN file
  BY DEF FileShape
<1>2. PICK v : v = Write(file[x], used[x], r)
  OBVIOUS
<1>3. file' = [file EXCEPT ![x] = v]
  BY <1>2
<1>4. /\ DOMAIN file' = {"imports", "enums", "messages", "syntax", "edition", "package"}
      /\ file' = [y \in DOMAIN file' |-> file'[y]] /\ file'[x] = v
      /\ \A y \in DOMAIN file : y # x => file'[y] = file[y]
  BY <1>1, <1>3, FilePut
<1>5. \A y \in {"imports", "enums", "messages"} : y # x => file'[y] = file[y]
  BY <1>4 DEF FileShape
<1>6. DOMAIN v = DOMAIN file[x] \cup {used[x]}
  BY <1>2 DEF Write
<1>7. used \in [imports : Nat, enums : Nat, messages : Nat] /\ DOMAIN file[x] = Slots(used[x])
      /\ used[x] \in Nat
  BY DEF FileShape
<1>8. /\ used' \in [imports : Nat, enums : Nat, messages : Nat] /\ used'[x] = used[x] + 1
      /\ \A y \in {"imports", "enums", "messages"} : y # x => used'[y] = used[y]
  BY <1>7
<1>9. DOMAIN file'[x] = Slots(used'[x])
  BY <1>4, <1>6, <1>7, <1>8, SlotsMore
<1>10. FileShape'
  BY <1>4, <1>5, <1>8, <1>9 DEF FileShape
<1>11. QED
  BY <1>2, <1>4, <1>5, <1>8, <1>10

LEMMA StepReadMessage ==
  ASSUME Going, PreOrder, ReadMessage
  PROVE  Keeps
<1>0. Stacked /\ FileShape /\ WalkInv /\ OpenInv /\ FieldsInv /\ ValuesInv
  BY DEF Going
<1>1. /\ Entry.kind = "message" /\ Top.loop \in {"fill_file", "fill_message"}
      /\ file' = [file EXCEPT !.messages = Write(@, used.messages, NewMessage)]
      /\ Pushes("count_fields", used.messages, 0)
      /\ used' = [used EXCEPT !.messages = @ + 1]
      /\ buf' = buf /\ counts' = counts
  BY ReadOne DEF ReadMessage, NewMessage, Pushes
<1>2. PICK u : u = used.messages
  OBVIOUS
<1>3. PICK k : k = Len(calls)
  OBVIOUS
<1>4. /\ FileShape' /\ file'.messages = Write(file.messages, u, NewMessage) /\ file'.enums = file.enums
      /\ used'.messages = used.messages + 1 /\ used'.imports = used.imports /\ used'.enums = used.enums
  BY <1>0, <1>1, <1>2, StoreShape
<1>5. u \in Nat
  BY <1>0, <1>2 DEF FileShape
<1>6. "count_fields" \in Under[Top.loop] /\ Place["count_fields"] = "message" /\ Entry.kind \in Bodied
  BY <1>1, UnderFacts, PlaceFacts DEF Bodied
<1>7. /\ Stacked' /\ Deeper(k) /\ calls'[k + 1].loop = "count_fields" /\ calls'[k + 1].slot = u
      /\ calls'[k + 1].n = 0
  <2>1. Pushes("count_fields", u, 0) /\ Place["count_fields"] = Entry.kind /\ Entry.kind # "none"
    BY <1>1, <1>2, <1>6
  <2>2. QED
    BY <1>0, <1>1, <1>3, <1>5, <1>6, <2>1, EnteredDeeper
<1>8. MessageBegun(u) /\ Reads /\ ~Counting
  BY <1>0, <1>1, <1>2, <1>3, <1>4, <1>7, FillFileFacts DEF MessageBegun
<1>9. /\ OpenInv' /\ Walk(k + 1)' = Inside(buf, Cursor(k))
      /\ \A m \in Messages : Open(m)' <=> Open(m)
      /\ Open(u)'
  BY <1>0, <1>1, <1>7, <1>8, MessageOpens
<1>10. PreOrder'
  BY <1>0, <1>1, <1>8, MessageBegins
<1>11. FieldsInv'
  BY <1>0, <1>1, <1>7, <1>8, <1>9, FieldsBegun
<1>12. ValuesInv'
  <2>1. \A i \in Depth : calls[i].loop \notin EnumLoops
    BY <1>0, <1>1, NoEnumLoop DEF EnumLoops
  <2>2. \A i \in Depth' : calls'[i].loop \notin EnumLoops
    <3>1. k \in Nat /\ Depth = 1..k /\ Depth' = 1..(k + 1) /\ \A i \in Depth : calls'[i] = calls[i]
      BY <1>0, <1>3, <1>7, StackTypes DEF Deeper
    <3>2. QED
      BY <2>1, <3>1, <1>7 DEF EnumLoops
  <2>3. QED
    BY <1>0, <1>4, <2>1, <2>2, ValuesIdle
<1>13. Noted
  BY <1>1, <1>4, <1>8, SortFacts DEF Noted, More, Kept
<1>14. WalkInv'
  <2>1. calls'[k + 1].loop \in Walks
    BY <1>7, LoopFacts
  <2>2. QED
    BY <1>0, <1>1, <1>7, <1>8, <1>9, <1>13, <2>1, StoreEntered
<1>15. QED
  BY <1>4, <1>7, <1>9, <1>10, <1>11, <1>12, <1>14 DEF Keeps, Going

LEMMA StepReadEnum ==
  ASSUME Going, PreOrder, ReadEnum
  PROVE  Keeps
<1>0. Stacked /\ FileShape /\ WalkInv /\ OpenInv /\ FieldsInv /\ ValuesInv
  BY DEF Going
<1>1. /\ Entry.kind = "enum" /\ Top.loop \in {"fill_file", "fill_message"}
      /\ file' = [file EXCEPT !.enums = Write(@, used.enums, NewEnum)]
      /\ Pushes("count_values", used.enums, 0)
      /\ used' = [used EXCEPT !.enums = @ + 1]
      /\ buf' = buf /\ counts' = counts
  BY ReadOne DEF ReadEnum, NewEnum, Pushes
<1>2. PICK u : u = used.enums
  OBVIOUS
<1>3. PICK k : k = Len(calls)
  OBVIOUS
<1>4. /\ FileShape' /\ file'.enums = Write(file.enums, u, NewEnum) /\ file'.messages = file.messages
      /\ used'.enums = used.enums + 1 /\ used'.imports = used.imports /\ used'.messages = used.messages
  BY <1>0, <1>1, <1>2, StoreShape
<1>5. u \in Nat
  BY <1>0, <1>2 DEF FileShape
<1>6. "count_values" \in Under[Top.loop] /\ Place["count_values"] = "enum" /\ Entry.kind \in Bodied
  BY <1>1, UnderFacts, PlaceFacts DEF Bodied
<1>7. /\ Stacked' /\ Deeper(k) /\ calls'[k + 1].loop = "count_values" /\ calls'[k + 1].slot = u
      /\ calls'[k + 1].n = 0
  <2>1. Pushes("count_values", u, 0) /\ Place["count_values"] = Entry.kind /\ Entry.kind # "none"
    BY <1>1, <1>2, <1>6
  <2>2. QED
    BY <1>0, <1>1, <1>3, <1>5, <1>6, <2>1, EnteredDeeper
<1>8. EnumBegun(u) /\ Reads /\ ~Counting /\ MessagesKept
  BY <1>0, <1>1, <1>2, <1>3, <1>4, <1>7, FillFileFacts, KeptSame DEF EnumBegun
<1>9. OpenInv'
  BY <1>0, <1>1, <1>7, <1>8, EnumOpens
<1>10. PreOrder'
  BY <1>0, <1>1, <1>8, EnumBegins
<1>11. FieldsInv'
  <2>1. calls'[k + 1].loop \in EnumLoops /\ calls'[k + 1].loop \in Under[Top.loop]
    BY <1>6, <1>7 DEF EnumLoops
  <2>2. QED
    BY <1>0, <1>1, <1>7, <1>8, <2>1, FieldsEntered
<1>12. ValuesInv'
  BY <1>0, <1>1, <1>7, <1>8, ValuesBegun
<1>13. Noted
  BY <1>1, <1>4, <1>8, SortFacts DEF Noted, More, Kept
<1>14. WalkInv'
  <2>1. calls'[k + 1].loop \notin Walks
    BY <1>7 DEF Walks
  <2>2. QED
    BY <1>0, <1>1, <1>7, <1>8, <1>13, <2>1, StoreEntered
<1>15. QED
  BY <1>4, <1>7, <1>9, <1>10, <1>11, <1>12, <1>14 DEF Keeps, Going

-----------------------------------------------------------------------------
\* One part of a message or enum is set.
Altered(m, x, v, m2) == m2 = [m EXCEPT ![x] = v]

LEMMA MessagePart ==
  ASSUME NEW text, NEW m, MessageShape(text, m), NEW x \in {"count", "fields"}, NEW v,
         x = "count" => v \in Nat, NEW m2, Altered(m, x, v, m2)
  PROVE  /\ MessageShape(text, m2) /\ m2[x] = v
         /\ m2.start = m.start /\ m2.body = m.body /\ m2.parent = m.parent
         /\ x # "count" => m2.count = m.count
         /\ x # "fields" => m2.fields = m.fields
<1>1. DOMAIN m2 = DOMAIN m /\ DOMAIN m = {"start", "body", "parent", "count", "fields"}
      /\ m2 = [y \in DOMAIN m |-> IF y = x THEN v ELSE m[y]]
  BY DEF MessageShape, Altered
<1>2. \A y \in DOMAIN m : m2[y] = IF y = x THEN v ELSE m[y]
  BY <1>1
<1>3. /\ m2[x] = v
      /\ m2.start = m.start /\ m2.body = m.body /\ m2.parent = m.parent
      /\ x # "count" => m2.count = m.count
      /\ x # "fields" => m2.fields = m.fields
  BY <1>1, <1>2
<1>4. m2.count \in Nat
  BY <1>1, <1>3 DEF MessageShape
<1>5. m2 = [y \in DOMAIN m2 |-> m2[y]]
  BY <1>1
<1>6. QED
  BY <1>1, <1>3, <1>4, <1>5 DEF MessageShape

LEMMA EnumPart ==
  ASSUME NEW text, NEW m, EnumShape(text, m), NEW x \in {"count", "values"}, NEW v,
         x = "count" => v \in Nat, NEW m2, Altered(m, x, v, m2)
  PROVE  /\ EnumShape(text, m2) /\ m2[x] = v
         /\ m2.start = m.start /\ m2.body = m.body /\ m2.parent = m.parent
         /\ x # "count" => m2.count = m.count
         /\ x # "values" => m2.values = m.values
<1>1. DOMAIN m2 = DOMAIN m /\ DOMAIN m = {"start", "body", "parent", "count", "values"}
      /\ m2 = [y \in DOMAIN m |-> IF y = x THEN v ELSE m[y]]
  BY DEF EnumShape, Altered
<1>2. \A y \in DOMAIN m : m2[y] = IF y = x THEN v ELSE m[y]
  BY <1>1
<1>3. /\ m2[x] = v
      /\ m2.start = m.start /\ m2.body = m.body /\ m2.parent = m.parent
      /\ x # "count" => m2.count = m.count
      /\ x # "values" => m2.values = m.values
  BY <1>1, <1>2
<1>4. m2.count \in Nat
  BY <1>1, <1>3 DEF EnumShape
<1>5. m2 = [y \in DOMAIN m2 |-> m2[y]]
  BY <1>1
<1>6. QED
  BY <1>1, <1>3, <1>4, <1>5 DEF EnumShape

\* A message or an enum of the file is replaced by one that differs in a part.
PutsInMessage(s, x, v) == file' = [file EXCEPT !.messages[s][x] = v]
PutsInEnum(s, x, v) == file' = [file EXCEPT !.enums[s][x] = v]

LEMMA MessagePut ==
  ASSUME FileShape, OpenInv, buf' = buf, used' = used, counts' = counts,
         NEW s \in Messages, NEW x \in {"count", "fields"}, NEW v, x = "count" => v \in Nat,
         PutsInMessage(s, x, v)
  PROVE  /\ FileShape' /\ Messages' = Messages /\ file'.enums = file.enums
         /\ \A m \in Messages : m # s => Message(m)' = Message(m)
         /\ SameMessages /\ SameEnums /\ ShapesStay
         /\ file'.messages[s][x] = v /\ file'.messages[s].body = Message(s).body
         /\ x # "count" => file'.messages[s].count = Message(s).count
         /\ x # "fields" => file'.messages[s].fields = Message(s).fields
<1>1. PICK m2 : m2 = [file.messages[s] EXCEPT ![x] = v]
  OBVIOUS
<1>2. MessageShape(buf, file.messages[s])
  BY DEF OpenInv, Message
<1>3. /\ MessageShape(buf, m2) /\ m2[x] = v
      /\ m2.start = file.messages[s].start /\ m2.body = file.messages[s].body
      /\ m2.parent = file.messages[s].parent
      /\ x # "count" => m2.count = file.messages[s].count
      /\ x # "fields" => m2.fields = file.messages[s].fields
  <2>1. PICK text, m : text = buf /\ m = file.messages[s]
    OBVIOUS
  <2>2. MessageShape(text, m) /\ Altered(m, x, v, m2)
    BY <1>1, <1>2, <2>1 DEF Altered
  <2>3. /\ MessageShape(text, m2) /\ m2[x] = v
        /\ m2.start = m.start /\ m2.body = m.body /\ m2.parent = m.parent
        /\ x # "count" => m2.count = m.count
        /\ x # "fields" => m2.fields = m.fields
    BY <2>2, MessagePart
  <2>4. QED
    BY <2>1, <2>3
<1>4. PICK t : t = [file.messages EXCEPT ![s] = m2]
  OBVIOUS
<1>5. file' = [file EXCEPT !["messages"] = t]
  BY <1>1, <1>4 DEF PutsInMessage
<1>6. "messages" \in DOMAIN file
  BY DEF FileShape
<1>7. /\ DOMAIN file' = {"imports", "enums", "messages", "syntax", "edition", "package"}
      /\ file' = [y \in DOMAIN file' |-> file'[y]] /\ file'.messages = t
      /\ \A y \in DOMAIN file : y # "messages" => file'[y] = file[y]
  BY <1>5, <1>6, FilePut
<1>8. file'.enums = file.enums /\ file'.imports = file.imports
  BY <1>7 DEF FileShape
<1>9. DOMAIN t = Messages /\ t[s] = m2 /\ \A m \in Messages : m # s => t[m] = file.messages[m]
  BY <1>4 DEF Messages
<1>10. FileShape'
  BY <1>7, <1>8, <1>9 DEF FileShape, Messages
<1>11. Messages' = Messages /\ \A m \in Messages : m # s => Message(m)' = Message(m)
  BY <1>7, <1>9 DEF Messages, Message
<1>12. /\ file'.messages[s][x] = v /\ file'.messages[s].body = Message(s).body
       /\ x # "count" => file'.messages[s].count = Message(s).count
       /\ x # "fields" => file'.messages[s].fields = Message(s).fields
  BY <1>3, <1>7, <1>9 DEF Message
<1>13. SameMessages
  <2>1. ASSUME NEW m \in Messages
        PROVE  /\ file'.messages[m].start = Message(m).start /\ file'.messages[m].body = Message(m).body
               /\ file'.messages[m].parent = Message(m).parent
    <3>1. CASE m = s
      BY <3>1, <1>3, <1>7, <1>9 DEF Message
    <3>2. CASE m # s
      BY <3>2, <1>7, <1>9 DEF Message
    <3>3. QED
      BY <3>1, <3>2
  <2>2. QED
    BY <2>1, <1>7, <1>9 DEF SameMessages, Messages
<1>14. SameEnums
  BY <1>8 DEF SameEnums
<1>15. ShapesStay
  <2>1. ASSUME NEW m \in Messages PROVE MessageShape(buf, Message(m)')
    <3>1. CASE m = s
      BY <3>1, <1>3, <1>7, <1>9 DEF Message
    <3>2. CASE m # s
      <4>1. Message(m)' = Message(m)
        BY <3>2, <1>11
      <4>2. QED
        BY <4>1 DEF OpenInv
    <3>3. QED
      BY <3>1, <3>2
  <2>2. \A m \in DOMAIN file.enums : EnumShape(buf, file'.enums[m])
    BY <1>8 DEF OpenInv
  <2>3. QED
    BY <2>1, <2>2 DEF ShapesStay
<1>16. QED
  BY <1>8, <1>10, <1>11, <1>12, <1>13, <1>14, <1>15

LEMMA EnumPut ==
  ASSUME FileShape, OpenInv, buf' = buf, used' = used, counts' = counts,
         NEW s \in DOMAIN file.enums, NEW x \in {"count", "values"}, NEW v, x = "count" => v \in Nat,
         PutsInEnum(s, x, v)
  PROVE  /\ FileShape' /\ MessagesKept /\ DOMAIN file'.enums = DOMAIN file.enums
         /\ \A m \in DOMAIN file.enums : m # s => file'.enums[m] = file.enums[m]
         /\ SameMessages /\ SameEnums /\ ShapesStay
         /\ file'.enums[s][x] = v /\ file'.enums[s].body = file.enums[s].body
         /\ x # "count" => file'.enums[s].count = file.enums[s].count
         /\ x # "values" => file'.enums[s].values = file.enums[s].values
<1>1. PICK m2 : m2 = [file.enums[s] EXCEPT ![x] = v]
  OBVIOUS
<1>2. EnumShape(buf, file.enums[s])
  BY DEF OpenInv
<1>3. /\ EnumShape(buf, m2) /\ m2[x] = v
      /\ m2.start = file.enums[s].start /\ m2.body = file.enums[s].body
      /\ m2.parent = file.enums[s].parent
      /\ x # "count" => m2.count = file.enums[s].count
      /\ x # "values" => m2.values = file.enums[s].values
  <2>1. PICK text, m : text = buf /\ m = file.enums[s]
    OBVIOUS
  <2>2. EnumShape(text, m) /\ Altered(m, x, v, m2)
    BY <1>1, <1>2, <2>1 DEF Altered
  <2>3. /\ EnumShape(text, m2) /\ m2[x] = v
        /\ m2.start = m.start /\ m2.body = m.body /\ m2.parent = m.parent
        /\ x # "count" => m2.count = m.count
        /\ x # "values" => m2.values = m.values
    BY <2>2, EnumPart
  <2>4. QED
    BY <2>1, <2>3
<1>4. PICK t : t = [file.enums EXCEPT ![s] = m2]
  OBVIOUS
<1>5. file' = [file EXCEPT !["enums"] = t]
  BY <1>1, <1>4 DEF PutsInEnum
<1>6. "enums" \in DOMAIN file
  BY DEF FileShape
<1>7. /\ DOMAIN file' = {"imports", "enums", "messages", "syntax", "edition", "package"}
      /\ file' = [y \in DOMAIN file' |-> file'[y]] /\ file'.enums = t
      /\ \A y \in DOMAIN file : y # "enums" => file'[y] = file[y]
  BY <1>5, <1>6, FilePut
<1>8. file'.messages = file.messages /\ file'.imports = file.imports
  BY <1>7 DEF FileShape
<1>9. DOMAIN t = DOMAIN file.enums /\ t[s] = m2
      /\ \A m \in DOMAIN file.enums : m # s => t[m] = file.enums[m]
  BY <1>4
<1>10. FileShape'
  BY <1>7, <1>8, <1>9 DEF FileShape
<1>11. DOMAIN file'.enums = DOMAIN file.enums
       /\ \A m \in DOMAIN file.enums : m # s => file'.enums[m] = file.enums[m]
  BY <1>7, <1>9
<1>12. /\ file'.enums[s][x] = v /\ file'.enums[s].body = file.enums[s].body
       /\ x # "count" => file'.enums[s].count = file.enums[s].count
       /\ x # "values" => file'.enums[s].values = file.enums[s].values
  BY <1>3, <1>7, <1>9
<1>13. MessagesKept /\ SameMessages
  BY <1>8, KeptSame DEF SameMessages, Messages, Message
<1>14. SameEnums
  <2>1. ASSUME NEW m \in DOMAIN file.enums
        PROVE  /\ file'.enums[m].start = file.enums[m].start /\ file'.enums[m].body = file.enums[m].body
               /\ file'.enums[m].parent = file.enums[m].parent
    <3>1. CASE m = s
      BY <3>1, <1>3, <1>7, <1>9
    <3>2. CASE m # s
      BY <3>2, <1>11
    <3>3. QED
      BY <3>1, <3>2
  <2>2. QED
    BY <2>1, <1>11 DEF SameEnums
<1>15. ShapesStay
  <2>1. ASSUME NEW m \in DOMAIN file.enums PROVE EnumShape(buf, file'.enums[m])
    <3>1. CASE m = s
      BY <3>1, <1>3, <1>7, <1>9
    <3>2. CASE m # s
      BY <3>2, <1>11 DEF OpenInv
    <3>3. QED
      BY <3>1, <3>2
  <2>2. \A m \in Messages : MessageShape(buf, Message(m)')
    BY <1>13 DEF OpenInv, MessagesKept
  <2>3. QED
    BY <2>1, <2>2 DEF ShapesStay
<1>16. QED
  BY <1>10, <1>11, <1>12, <1>13, <1>14, <1>15

-----------------------------------------------------------------------------
\* One more field or value, in the same loop.
Ticks == Tally(Entry)

LEMMA TicksOnward ==
  ASSUME Stacked, Entry.kind # "none", Ticks, buf' = buf, NEW k, k = Len(calls)
  PROVE  Stacked' /\ Onward(k) /\ calls'[k].n = Top.n + 1
<1>1. k \in Depth /\ Top = calls[k] /\ Top.n \in Nat
  BY StackTypes
<1>2. PICK n : n = Top.n + 1
  OBVIOUS
<1>3. n \in Nat
  BY <1>1, <1>2
<1>4. calls' = [calls EXCEPT ![Len(calls)].n = n]
  BY <1>2 DEF Ticks, Tally, Top
<1>5. SameLoops /\ calls'[k].n = n
  BY <1>3, <1>4, Tallies
<1>6. offset' = Entry.end /\ size' = size
  BY DEF Ticks, Tally, Advance
<1>7. Stacked' /\ Onward(k)
  BY <1>5, <1>6, GoingOnward
<1>8. QED
  BY <1>2, <1>5, <1>7

LEMMA StepCountField ==
  ASSUME Going, PreOrder, CountField
  PROVE  Keeps
<1>0. Stacked /\ FileShape /\ WalkInv /\ OpenInv /\ FieldsInv /\ ValuesInv
  BY DEF Going
<1>1. /\ Entry.kind \in {"field", "choice"} /\ Top.loop \in {"count_fields", "count_choices"} /\ Ticks
      /\ buf' = buf /\ counts' = counts /\ used' = used /\ file' = file
  BY ReadOne DEF CountField, Ticks
<1>2. PICK k : k = Len(calls)
  OBVIOUS
<1>3. Stacked' /\ Onward(k) /\ calls'[k].n = Top.n + 1 /\ Entry.kind # "none"
  BY <1>0, <1>1, <1>2, TicksOnward
<1>4. MessagesKept
  BY <1>1, KeptSame
<1>5. SameMessages /\ SameEnums /\ ShapesStay
  BY <1>0, <1>1, <1>4, Untouched
<1>6. OpenInv' /\ WalkInv'
  <2>1. ~Seeks
    BY <1>1 DEF Seeks, Walks
  <2>2. QED
    BY <1>0, <1>1, <1>3, <1>5, <2>1, OnwardGoing
<1>7. FileShape'
  BY <1>0, <1>1 DEF FileShape
<1>8. FieldsInv'
  <2>1. PICK m2 : m2 = file.messages[Top.slot]
    OBVIOUS
  <2>2. Top.loop \in Ofs /\ Entry.kind \in FieldKinds /\ Top.loop \notin {"fill_message", "fill_oneof"}
    BY <1>1 DEF Ofs, MessageLoops, OneofLoops, FieldKinds
  <2>3. /\ file'.messages[Top.slot] = m2 /\ m2.body = Message(Top.slot).body
        /\ m2.count = Message(Top.slot).count
        /\ DOMAIN m2.fields = DOMAIN Message(Top.slot).fields
             \cup (IF Top.loop \in {"fill_message", "fill_oneof"} THEN {Top.n} ELSE {})
    BY <1>1, <2>1, <2>2 DEF Message
  <2>4. Messages' = Messages /\ \A m \in Messages : m # Top.slot => Message(m)' = Message(m)
    BY <1>4 DEF MessagesKept
  <2>5. QED
    BY <1>0, <1>1, <1>3, <2>2, <2>3, <2>4, FieldsCounted
<1>9. ValuesInv'
  <2>1. Top.loop \notin EnumLoops
    BY <1>1 DEF EnumLoops
  <2>2. QED
    BY <1>0, <1>1, <1>3, <2>1, ValuesPassed
<1>10. PreOrder'
  BY <1>1 DEF PreOrder
<1>11. QED
  BY <1>3, <1>6, <1>7, <1>8, <1>9, <1>10 DEF Keeps, Going

LEMMA StepFillField ==
  ASSUME Going, PreOrder, FillField
  PROVE  Keeps
<1>0. Stacked /\ FileShape /\ WalkInv /\ OpenInv /\ FieldsInv /\ ValuesInv
  BY DEF Going
<1>1. /\ Entry.kind \in {"field", "choice"} /\ Top.loop \in {"fill_message", "fill_oneof"} /\ Ticks
      /\ buf' = buf /\ counts' = counts /\ used' = used
  BY ReadOne DEF FillField, Ticks
<1>2. PICK k : k = Len(calls)
  OBVIOUS
<1>3. Stacked' /\ Onward(k) /\ calls'[k].n = Top.n + 1 /\ Entry.kind # "none"
  BY <1>0, <1>1, <1>2, TicksOnward
<1>4. PICK s : s = Top.slot
  OBVIOUS
<1>5. Top.loop \in Ofs /\ Entry.kind \in FieldKinds
  BY <1>1 DEF Ofs, MessageLoops, OneofLoops, FieldKinds
<1>6. s \in Messages
  <2>1. PICK f : Focus(f)
    BY DEF Focus
  <2>2. QED
    BY <1>0, <1>2, <1>4, <1>5, <2>1, FocusTypes
<1>7. PICK v : v = Write(file.messages[s].fields, Top.n, FieldOf(Entry))
  OBVIOUS
<1>8. PutsInMessage(s, "fields", v)
  <2>1. file' = [file EXCEPT !.messages[Top.slot].fields = Write(@, Top.n, FieldOf(Entry))]
    BY ReadOne DEF FillField
  <2>2. QED
    BY <2>1, <1>4, <1>7 DEF PutsInMessage
<1>9. /\ FileShape' /\ Messages' = Messages /\ file'.enums = file.enums
      /\ \A m \in Messages : m # s => Message(m)' = Message(m)
      /\ SameMessages /\ SameEnums /\ ShapesStay
      /\ file'.messages[s].fields = v /\ file'.messages[s].body = Message(s).body
      /\ file'.messages[s].count = Message(s).count
  BY <1>0, <1>1, <1>6, <1>8, MessagePut
<1>10. OpenInv' /\ WalkInv'
  <2>1. Noted /\ Entry.kind # "message"
    BY <1>1, SortFacts DEF Noted, More, Kept
  <2>2. QED
    BY <1>0, <1>1, <1>3, <1>9, <2>1, OnwardGoing
<1>11. FieldsInv'
  <2>1. PICK m2 : m2 = file'.messages[s]
    OBVIOUS
  <2>2. DOMAIN v = DOMAIN Message(s).fields \cup {Top.n}
    BY <1>7 DEF Write, Message
  <2>3. /\ file'.messages[Top.slot] = m2 /\ m2.body = Message(Top.slot).body
        /\ m2.count = Message(Top.slot).count
        /\ DOMAIN m2.fields = DOMAIN Message(Top.slot).fields
             \cup (IF Top.loop \in {"fill_message", "fill_oneof"} THEN {Top.n} ELSE {})
    BY <1>1, <1>4, <1>9, <2>1, <2>2
  <2>4. QED
    BY <1>0, <1>1, <1>3, <1>4, <1>5, <1>9, <2>3, FieldsCounted
<1>12. ValuesInv'
  <2>1. Top.loop \notin EnumLoops
    BY <1>1 DEF EnumLoops
  <2>2. QED
    BY <1>0, <1>1, <1>3, <1>9, <2>1, ValuesPassed
<1>13. PreOrder'
  BY <1>9, PreOrderSame
<1>14. QED
  BY <1>3, <1>9, <1>10, <1>11, <1>12, <1>13 DEF Keeps, Going

LEMMA StepCountValue ==
  ASSUME Going, PreOrder, CountValue
  PROVE  Keeps
<1>0. Stacked /\ FileShape /\ WalkInv /\ OpenInv /\ FieldsInv /\ ValuesInv
  BY DEF Going
<1>1. /\ Entry.kind = "value" /\ Top.loop = "count_values" /\ Ticks
      /\ buf' = buf /\ counts' = counts /\ used' = used /\ file' = file
  BY ReadOne DEF CountValue, Ticks
<1>2. PICK k : k = Len(calls)
  OBVIOUS
<1>3. Stacked' /\ Onward(k) /\ calls'[k].n = Top.n + 1 /\ Entry.kind # "none"
  BY <1>0, <1>1, <1>2, TicksOnward
<1>4. MessagesKept
  BY <1>1, KeptSame
<1>5. SameMessages /\ SameEnums /\ ShapesStay
  BY <1>0, <1>1, <1>4, Untouched
<1>6. Top.loop \in EnumLoops /\ Top.loop \notin Ofs /\ ~Seeks
  BY <1>1 DEF EnumLoops, Ofs, MessageLoops, OneofLoops, Seeks, Walks
<1>7. OpenInv' /\ WalkInv'
  BY <1>0, <1>1, <1>3, <1>5, <1>6, OnwardGoing
<1>8. FileShape'
  BY <1>0, <1>1 DEF FileShape
<1>9. FieldsInv'
  BY <1>0, <1>1, <1>3, <1>4, <1>6, FieldsPassed
<1>10. ValuesInv'
  <2>1. PICK m2 : m2 = file.enums[Top.slot]
    OBVIOUS
  <2>2. /\ file'.enums[Top.slot] = m2 /\ m2.body = file.enums[Top.slot].body
        /\ m2.count = file.enums[Top.slot].count
        /\ DOMAIN m2.values = DOMAIN file.enums[Top.slot].values
             \cup (IF Top.loop = "fill_enum" THEN {Top.n} ELSE {})
    BY <1>1, <2>1
  <2>3. DOMAIN file'.enums = DOMAIN file.enums
        /\ \A m \in DOMAIN file.enums : m # Top.slot => file'.enums[m] = file.enums[m]
    BY <1>1
  <2>4. QED
    BY <1>0, <1>1, <1>3, <1>6, <2>2, <2>3, ValuesCounted
<1>11. PreOrder'
  BY <1>1 DEF PreOrder
<1>12. QED
  BY <1>3, <1>7, <1>8, <1>9, <1>10, <1>11 DEF Keeps, Going

LEMMA StepFillValue ==
  ASSUME Going, PreOrder, FillValue
  PROVE  Keeps
<1>0. Stacked /\ FileShape /\ WalkInv /\ OpenInv /\ FieldsInv /\ ValuesInv
  BY DEF Going
<1>1. /\ Entry.kind = "value" /\ Top.loop = "fill_enum" /\ Ticks
      /\ buf' = buf /\ counts' = counts /\ used' = used
  BY ReadOne DEF FillValue, Ticks
<1>2. PICK k : k = Len(calls)
  OBVIOUS
<1>3. Stacked' /\ Onward(k) /\ calls'[k].n = Top.n + 1 /\ Entry.kind # "none"
  BY <1>0, <1>1, <1>2, TicksOnward
<1>4. PICK s : s = Top.slot
  OBVIOUS
<1>5. Top.loop \in EnumLoops /\ Top.loop \notin Ofs /\ ~Seeks
  BY <1>1 DEF EnumLoops, Ofs, MessageLoops, OneofLoops, Seeks, Walks
<1>6. s \in DOMAIN file.enums
  BY <1>0, <1>2, <1>4, <1>5, ValuesTop
<1>7. PICK v : v = Write(file.enums[s].values, Top.n, Entry.start)
  OBVIOUS
<1>8. PutsInEnum(s, "values", v)
  <2>1. file' = [file EXCEPT !.enums[Top.slot].values = Write(@, Top.n, Entry.start)]
    BY ReadOne DEF FillValue
  <2>2. QED
    BY <2>1, <1>4, <1>7 DEF PutsInEnum
<1>9. /\ FileShape' /\ MessagesKept /\ DOMAIN file'.enums = DOMAIN file.enums
      /\ \A m \in DOMAIN file.enums : m # s => file'.enums[m] = file.enums[m]
      /\ SameMessages /\ SameEnums /\ ShapesStay
      /\ file'.enums[s].values = v /\ file'.enums[s].body = file.enums[s].body
      /\ file'.enums[s].count = file.enums[s].count
  BY <1>0, <1>1, <1>6, <1>8, EnumPut
<1>10. OpenInv' /\ WalkInv'
  BY <1>0, <1>1, <1>3, <1>5, <1>9, OnwardGoing
<1>11. FieldsInv'
  BY <1>0, <1>1, <1>3, <1>5, <1>9, FieldsPassed
<1>12. ValuesInv'
  <2>1. PICK m2 : m2 = file'.enums[s]
    OBVIOUS
  <2>2. DOMAIN v = DOMAIN file.enums[s].values \cup {Top.n}
    BY <1>7 DEF Write
  <2>3. /\ file'.enums[Top.slot] = m2 /\ m2.body = file.enums[Top.slot].body
        /\ m2.count = file.enums[Top.slot].count
        /\ DOMAIN m2.values = DOMAIN file.enums[Top.slot].values
             \cup (IF Top.loop = "fill_enum" THEN {Top.n} ELSE {})
    BY <1>1, <1>4, <1>9, <2>1, <2>2
  <2>4. QED
    BY <1>0, <1>1, <1>3, <1>4, <1>5, <1>9, <2>3, ValuesCounted
<1>13. PreOrder'
  BY <1>9, PreOrderSame
<1>14. QED
  BY <1>3, <1>9, <1>10, <1>11, <1>12, <1>13 DEF Keeps, Going

-----------------------------------------------------------------------------
\* Into a oneof, with the running index of its message.
LEMMA StepIntoOneof ==
  ASSUME Going, PreOrder, Entry.kind = "oneof", NEW loop, Pushes(loop, Top.slot, Top.n),
         \/ Top.loop = "count_fields" /\ loop = "count_choices"
         \/ Top.loop = "fill_message" /\ loop = "fill_oneof",
         buf' = buf, counts' = counts, used' = used, file' = file
  PROVE  Keeps
<1>0. Stacked /\ FileShape /\ WalkInv /\ OpenInv /\ FieldsInv /\ ValuesInv
  BY DEF Going
<1>1. PICK k : k = Len(calls)
  OBVIOUS
<1>2. PICK s, n : s = Top.slot /\ n = Top.n
  OBVIOUS
<1>3. s \in Nat /\ n \in Nat
  BY <1>0, <1>1, <1>2, StackTypes
<1>4. /\ loop \in Under[Top.loop] /\ Place[loop] = Entry.kind /\ Entry.kind \in Bodied
      /\ Entry.kind # "none"
  BY UnderFacts, PlaceFacts DEF Bodied
<1>5. loop \in OneofLoops /\ Top.loop \in MessageLoops
  BY DEF OneofLoops, MessageLoops
<1>6. Pushes(loop, s, n)
  BY <1>2
<1>7. /\ Stacked' /\ Deeper(k) /\ calls'[k + 1].loop = loop /\ calls'[k + 1].slot = s
      /\ calls'[k + 1].n = n
  BY <1>0, <1>1, <1>3, <1>4, <1>6, EnteredDeeper
<1>8. OpenInv' /\ WalkInv' /\ MessagesKept
  BY <1>0, <1>5, <1>7, OneofEntered
<1>9. FieldsInv'
  BY <1>0, <1>2, <1>4, <1>5, <1>7, <1>8, FieldsEntered
<1>10. ValuesInv'
  <2>1. \A i \in Depth : calls[i].loop \notin EnumLoops
    BY <1>0, <1>5, LoopFacts, NoEnumLoop
  <2>2. \A i \in Depth' : calls'[i].loop \notin EnumLoops
    <3>1. k \in Nat /\ Depth = 1..k /\ Depth' = 1..(k + 1) /\ \A i \in Depth : calls'[i] = calls[i]
      BY <1>0, <1>1, <1>7, StackTypes DEF Deeper
    <3>2. calls'[k + 1].loop \notin EnumLoops
      BY <1>5, <1>7, LoopFacts
    <3>3. QED
      BY <2>1, <3>1, <3>2
  <2>3. QED
    BY <1>0, <2>1, <2>2, ValuesIdle
<1>11. FileShape'
  BY <1>0 DEF FileShape
<1>12. PreOrder'
  BY DEF PreOrder
<1>13. QED
  BY <1>7, <1>8, <1>9, <1>10, <1>11, <1>12 DEF Keeps, Going

LEMMA StepOneofs ==
  ASSUME Going, PreOrder, CountOneof \/ FillOneof
  PROVE  Keeps
<1>1. CASE CountOneof
  <2>1. /\ Entry.kind = "oneof" /\ Top.loop = "count_fields" /\ Pushes("count_choices", Top.slot, Top.n)
        /\ buf' = buf /\ counts' = counts /\ used' = used /\ file' = file
    BY <1>1, ReadOne DEF CountOneof, Pushes
  <2>2. QED
    BY <2>1, StepIntoOneof
<1>2. CASE FillOneof
  <2>1. /\ Entry.kind = "oneof" /\ Top.loop = "fill_message" /\ Pushes("fill_oneof", Top.slot, Top.n)
        /\ buf' = buf /\ counts' = counts /\ used' = used /\ file' = file
    BY <1>2, ReadOne DEF FillOneof, Pushes
  <2>2. QED
    BY <2>1, StepIntoOneof
<1>3. QED
  BY <1>1, <1>2

-----------------------------------------------------------------------------
\* The body at the top over again, in the loop that fills.
LEMMA RestartsBody ==
  ASSUME Stacked, NEW k, k = Len(calls), buf' = buf, size' = size, NEW loop,
         \/ Top.loop = "count_fields" /\ loop = "fill_message"
         \/ Top.loop = "count_values" /\ loop = "fill_enum",
         Loops(loop, 0), offset' \in 1..size
  PROVE  /\ Stacked' /\ k # 1 /\ Replaced(k, loop, 0)
         /\ Cursor(k)' = [where |-> Place[Top.loop], at |-> offset', limit |-> size]
<1>1. k \in Nat /\ k >= 1 /\ Depth = 1..k /\ k \in Depth /\ Top = calls[k]
      /\ \A i \in Depth : calls[i].loop \in DOMAIN Place
  BY StackTypes
<1>2. k # 1
  BY <1>1 DEF Stacked
<1>3. k - 1 \in Depth /\ calls[k].loop \in Under[calls[k - 1].loop]
  BY <1>1, <1>2 DEF Stacked
<1>4. calls[k].loop \in MessageLoops \cup EnumLoops
  BY <1>1 DEF MessageLoops, EnumLoops
<1>5. calls[k - 1].loop \in {"fill_file", "fill_message"}
  BY <1>1, <1>3, <1>4, UnderWhat
<1>6. loop \in Under[calls[k - 1].loop] /\ loop \in DOMAIN Place /\ Place[loop] = Place[Top.loop]
  BY <1>5, UnderFacts, PlaceFacts
<1>7. 0 \in Nat
  OBVIOUS
<1>8. /\ Stacked' /\ Len(calls') = k /\ Depth' = Depth
      /\ \A i \in Depth : i # k => calls'[i] = calls[i] /\ Cursor(i)' = Cursor(i)
      /\ calls'[k].loop = loop /\ calls'[k].n = 0 /\ calls'[k].slot = calls[k].slot
      /\ Cursor(k)' = [where |-> Place[Top.loop], at |-> offset', limit |-> size]
  BY <1>2, <1>6, <1>7, Restarts
<1>9. QED
  BY <1>2, <1>8 DEF Replaced

LEMMA StepCountFieldsDone ==
  ASSUME Going, PreOrder, CountFieldsDone
  PROVE  Keeps
<1>0. Stacked /\ FileShape /\ WalkInv /\ OpenInv /\ FieldsInv /\ ValuesInv
  BY DEF Going
<1>1. /\ Entry.kind = "none" /\ Top.loop = "count_fields"
      /\ Loops("fill_message", 0) /\ offset' = file.messages[Top.slot].body.start /\ size' = size
      /\ buf' = buf /\ counts' = counts /\ used' = used
  BY DEF CountFieldsDone, Ends, Again, Loops
<1>2. PICK k : k = Len(calls)
  OBVIOUS
<1>3. PICK s, n : s = Top.slot /\ n = Top.n
  OBVIOUS
<1>4. /\ k \in Depth /\ Top = calls[k] /\ n \in Nat /\ Limit(k) = size /\ size \in Nat
      /\ Place[Top.loop] = "message"
  BY <1>0, <1>1, <1>2, <1>3, StackTypes, PlaceFacts DEF Limit
<1>5. s \in Messages /\ Message(s).body.close = size
  BY <1>0, <1>1, <1>3, <1>4 DEF OpenInv, MessageLoops
<1>6. BodyCursor(Message(s).body) \in Cursors(buf)
  BY <1>0, <1>5 DEF OpenInv, MessageShape
<1>7. Message(s).body.start \in 1..size
  BY <1>5, <1>6 DEF BodyCursor, Cursors
<1>8. PutsInMessage(s, "count", n)
  <2>1. file' = [file EXCEPT !.messages[Top.slot].count = Top.n]
    BY DEF CountFieldsDone
  <2>2. QED
    BY <2>1, <1>3 DEF PutsInMessage
<1>9. /\ FileShape' /\ Messages' = Messages /\ file'.enums = file.enums
      /\ \A m \in Messages : m # s => Message(m)' = Message(m)
      /\ SameMessages /\ SameEnums /\ ShapesStay
      /\ file'.messages[s].count = n /\ file'.messages[s].body = Message(s).body
      /\ file'.messages[s].fields = Message(s).fields
  BY <1>0, <1>1, <1>4, <1>5, <1>8, MessagePut
<1>10. offset' \in 1..size /\ offset' = Message(s).body.start
  BY <1>1, <1>3, <1>7 DEF Message
<1>11. /\ Stacked' /\ k # 1 /\ Replaced(k, "fill_message", 0)
       /\ Cursor(k)' = [where |-> Place[Top.loop], at |-> offset', limit |-> size]
  BY <1>0, <1>1, <1>2, <1>10, RestartsBody
<1>12. Cursor(k)' = BodyCursor(Message(s).body)
  BY <1>4, <1>5, <1>10, <1>11 DEF BodyCursor
<1>13. OpenInv' /\ WalkInv'
  <2>1. Cursor(k)' = BodyCursor(file.messages[Top.slot].body)
    BY <1>3, <1>12 DEF Message
  <2>2. QED
    BY <1>0, <1>1, <1>9, <1>11, <2>1, ReplacedGoing
<1>14. FieldsInv'
  <2>1. PICK m2 : m2 = file'.messages[s]
    OBVIOUS
  <2>2. /\ file'.messages[Top.slot] = m2 /\ m2.body = Message(Top.slot).body /\ m2.count = Top.n
        /\ DOMAIN m2.fields = DOMAIN Message(Top.slot).fields
    BY <1>3, <1>9, <2>1
  <2>3. Cursor(k)' = BodyCursor(m2.body)
    BY <1>9, <1>12, <2>1
  <2>4. QED
    BY <1>0, <1>1, <1>3, <1>9, <1>11, <2>2, <2>3, FieldsRestarted
<1>15. ValuesInv'
  <2>1. \A i \in Depth : calls[i].loop \notin EnumLoops
    BY <1>0, <1>1, NoEnumLoop DEF EnumLoops
  <2>2. \A i \in Depth' : calls'[i].loop \notin EnumLoops
    BY <2>1, <1>11 DEF Replaced, EnumLoops
  <2>3. QED
    BY <1>0, <1>9, <2>1, <2>2, ValuesIdle
<1>16. PreOrder'
  BY <1>9, PreOrderSame
<1>17. QED
  BY <1>9, <1>11, <1>13, <1>14, <1>15, <1>16 DEF Keeps, Going

LEMMA StepCountValuesDone ==
  ASSUME Going, PreOrder, CountValuesDone
  PROVE  Keeps
<1>0. Stacked /\ FileShape /\ WalkInv /\ OpenInv /\ FieldsInv /\ ValuesInv
  BY DEF Going
<1>1. /\ Entry.kind = "none" /\ Top.loop = "count_values"
      /\ buf' = buf /\ counts' = counts /\ used' = used
  BY DEF CountValuesDone, Ends
<1>2. CASE Top.n = 0
  <2>1. Top.loop \notin OneofLoops
    BY <1>1 DEF OneofLoops
  <2>2. file' = file /\ LeaveWith(IF Top.loop \in OneofLoops THEN Top.n ELSE calls[Len(calls) - 1].n)
    BY <1>2, <2>1 DEF CountValuesDone, Leave
  <2>3. QED
    BY <1>1, <1>2, <2>2, StepOut
<1>3. CASE Top.n # 0
  <2>1. /\ Loops("fill_enum", 0) /\ offset' = file.enums[Top.slot].body.start /\ size' = size
    BY <1>3 DEF CountValuesDone, Again, Loops
  <2>2. PICK k : k = Len(calls)
    OBVIOUS
  <2>3. PICK s, n : s = Top.slot /\ n = Top.n
    OBVIOUS
  <2>4. /\ k \in Depth /\ Top = calls[k] /\ n \in Nat /\ Limit(k) = size /\ size \in Nat
        /\ Place[Top.loop] = "enum"
    BY <1>0, <1>1, <2>2, <2>3, StackTypes, PlaceFacts DEF Limit
  <2>5. Top.loop \in EnumLoops /\ Top.loop \notin Ofs /\ "fill_enum" \notin Ofs
    BY <1>1 DEF EnumLoops, Ofs, MessageLoops, OneofLoops
  <2>6. /\ s \in DOMAIN file.enums /\ file.enums[s].body.close = size
        /\ EnumCursor(file.enums[s].body) \in Cursors(buf)
    BY <1>0, <2>2, <2>3, <2>5, ValuesTop
  <2>7. file.enums[s].body.start \in 1..size
    BY <2>6 DEF EnumCursor, Cursors
  <2>8. PutsInEnum(s, "count", n)
    <3>1. file' = [file EXCEPT !.enums[Top.slot].count = Top.n]
      BY <1>3 DEF CountValuesDone
    <3>2. QED
      BY <3>1, <2>3 DEF PutsInEnum
  <2>9. /\ FileShape' /\ MessagesKept /\ DOMAIN file'.enums = DOMAIN file.enums
        /\ \A m \in DOMAIN file.enums : m # s => file'.enums[m] = file.enums[m]
        /\ SameMessages /\ SameEnums /\ ShapesStay
        /\ file'.enums[s].count = n /\ file'.enums[s].body = file.enums[s].body
        /\ file'.enums[s].values = file.enums[s].values
    BY <1>0, <1>1, <2>4, <2>6, <2>8, EnumPut
  <2>10. offset' \in 1..size /\ offset' = file.enums[s].body.start
    BY <2>1, <2>3, <2>7
  <2>11. /\ Stacked' /\ k # 1 /\ Replaced(k, "fill_enum", 0)
         /\ Cursor(k)' = [where |-> Place[Top.loop], at |-> offset', limit |-> size]
    BY <1>0, <1>1, <2>1, <2>2, <2>10, RestartsBody
  <2>12. Cursor(k)' = EnumCursor(file.enums[s].body)
    BY <2>4, <2>6, <2>10, <2>11 DEF EnumCursor
  <2>13. OpenInv' /\ WalkInv'
    BY <1>0, <1>1, <2>9, <2>11, ReplacedGoing
  <2>14. FieldsInv'
    BY <1>0, <1>1, <2>5, <2>9, <2>11, FieldsBeside
  <2>15. ValuesInv'
    <3>1. PICK m2 : m2 = file'.enums[s]
      OBVIOUS
    <3>2. /\ file'.enums[Top.slot] = m2 /\ m2.body = file.enums[Top.slot].body /\ m2.count = Top.n
          /\ DOMAIN m2.values = DOMAIN file.enums[Top.slot].values
      BY <2>3, <2>9, <3>1
    <3>3. Cursor(k)' = EnumCursor(m2.body)
      BY <2>9, <2>12, <3>1
    <3>4. QED
      BY <1>0, <1>1, <2>3, <2>9, <2>11, <3>2, <3>3, ValuesRestarted
  <2>16. PreOrder'
    BY <2>9, PreOrderSame
  <2>17. QED
    BY <2>9, <2>11, <2>13, <2>14, <2>15, <2>16 DEF Keeps, Going
<1>4. QED
  BY <1>2, <1>3

-----------------------------------------------------------------------------
(* What is declared of the cursor and the arrays follows.                  *)
LEMMA GoingTypes ==
  ASSUME Stacked, result = "none"
  PROVE  TypeOK
<1>1. PICK k : k = Len(calls)
  OBVIOUS
<1>2. /\ k \in Nat /\ k >= 1 /\ Depth = 1..k /\ k \in Depth
      /\ offset \in Nat /\ size \in Nat /\ offset <= size /\ offset >= 1
      /\ \A i \in Depth : calls[i].loop \in DOMAIN Place /\ calls[i].n \in Nat
  BY <1>1, StackTypes
<1>3. calls \in Seq(Frame) /\ calls # <<>> /\ DOMAIN calls = 1..k
  BY <1>1, <1>2 DEF Stacked
<1>4. Limit(k) = size
  BY <1>1 DEF Limit
<1>5. \A i \in Depth : i < k => size < At(i)
  BY <1>2, <1>4 DEF Stacked
<1>6. size <= Len(buf) + 1 /\ Len(buf) + 1 \in Nat
  <2>1. Limit(1) = Len(buf) + 1 /\ Limit(1) \in Nat /\ At(1) <= Limit(1) /\ At(1) \in Nat
    BY <1>2, CursorAt DEF Stacked
  <2>2. CASE k = 1
    BY <2>1, <2>2, <1>4, <1>2
  <2>3. CASE k # 1
    <3>1. size < At(1)
      BY <2>3, <1>2, <1>5
    <3>2. QED
      BY <3>1, <2>1, <1>2
  <2>4. QED
    BY <2>2, <2>3
<1>7. \A i \in 2..Len(calls) : size <= calls[i].saved.size /\ offset < calls[i].saved.offset
  <2> SUFFICES ASSUME NEW i \in 2..k PROVE size <= calls[i].saved.size /\ offset < calls[i].saved.offset
    BY <1>1
  <2>1. i - 1 \in Depth /\ i - 1 < k /\ i - 1 # k /\ (i - 1) + 1 = i
    BY <1>2
  <2>2. At(i - 1) = calls[i].saved.offset /\ Limit(i - 1) = calls[i].saved.size
    BY <1>1, <2>1 DEF At, Limit
  <2>3. size < At(i - 1) /\ At(i - 1) <= Limit(i - 1) /\ At(i - 1) \in Nat /\ Limit(i - 1) \in Nat
    BY <1>5, <2>1, CursorAt
  <2>4. QED
    BY <2>2, <2>3, <1>2
<1>8. offset \in 1..size /\ size \in 1..(Len(buf) + 1)
  BY <1>2, <1>6
<1>9. QED
  BY <1>2, <1>3, <1>7, <1>8 DEF TypeOK

\* No write is past the end.
Fits ==
  /\ DOMAIN file.imports \subseteq Slots(counts.imports)
  /\ DOMAIN file.enums \subseteq Slots(counts.enums)
  /\ Messages \subseteq Slots(counts.messages)
  /\ \A m \in Messages : DOMAIN Message(m).fields \subseteq Slots(Message(m).count)
  /\ \A m \in DOMAIN file.enums : DOMAIN file.enums[m].values \subseteq Slots(file.enums[m].count)

LEMMA TalliedFits ==
  ASSUME Stacked, NEW kind \in Kept, NEW c, NEW t, Tallied(kind, c, t)
  PROVE  Slots(t) \subseteq Slots(c)
<1>1. Ahead(kind) \in SUBSET Whole(kind) /\ IsFiniteSet(Whole(kind))
  BY WholeFinite DEF Tallied
<1>2. PICK w, a : w = Whole(kind) /\ a = Ahead(kind)
  OBVIOUS
<1>3. Cardinality(w \ a) \in Nat /\ Cardinality(w) \in Nat /\ Cardinality(w \ a) <= Cardinality(w)
  BY <1>1, <1>2, Fewer
<1>4. CASE Counting
  <2>1. t = 0 /\ c = Cardinality(w \ a)
    BY <1>2, <1>4 DEF Tallied
  <2>2. QED
    BY <2>1, <1>3, SlotsMore
<1>5. CASE ~Counting
  <2>1. t = Cardinality(w \ a) /\ c = Cardinality(w)
    BY <1>2, <1>5 DEF Tallied
  <2>2. QED
    BY <2>1, <1>3, SlotsMore
<1>6. QED
  BY <1>4, <1>5

LEMMA FieldsFit ==
  ASSUME Stacked, OpenInv, FieldsInv, NEW m \in Messages
  PROVE  DOMAIN Message(m).fields \subseteq Slots(Message(m).count)
<1>1. CASE FieldsFilled(Message(m))
  BY <1>1 DEF FieldsFilled
<1>2. CASE Open(m)
  <2>1. PICK i \in Depth : calls[i].loop \in MessageLoops /\ calls[i].slot = m
    BY <1>2 DEF Open
  <2>2. PICK ahead, n : ahead = FieldsAhead(i) /\ n = Running(i)
    OBVIOUS
  <2>3. FieldsShape(buf, calls[i].loop, Message(m), ahead, n)
    BY <2>1, <2>2 DEF FieldsInv
  <2>4. PICK all : all = Starts(buf, {"oneof"}, {"field", "choice"}, BodyCursor(Message(m).body))
    OBVIOUS
  <2>5. IsFiniteSet(all)
    BY <2>4, StartsRange DEF OpenInv, MessageShape, Stacked, Bodied
  <2>6. /\ ahead \in SUBSET all /\ n = Cardinality(all \ ahead)
        /\ calls[i].loop = "count_fields" => DOMAIN Message(m).fields = {}
        /\ calls[i].loop = "fill_message" => /\ DOMAIN Message(m).fields = Slots(n)
                                             /\ Message(m).count = Cardinality(all)
    BY <2>3, <2>4 DEF FieldsShape
  <2>7. n \in Nat /\ Cardinality(all) \in Nat /\ n <= Cardinality(all)
    BY <2>5, <2>6, Fewer
  <2>8. QED
    BY <2>1, <2>6, <2>7, SlotsMore DEF MessageLoops
<1>3. QED
  BY <1>1, <1>2 DEF FieldsInv

LEMMA ValuesFit ==
  ASSUME Stacked, OpenInv, ValuesInv, NEW m \in DOMAIN file.enums
  PROVE  DOMAIN file.enums[m].values \subseteq Slots(file.enums[m].count)
<1>1. CASE ValuesFilled(file.enums[m])
  BY <1>1 DEF ValuesFilled
<1>2. CASE EnumOpen(m)
  <2>1. PICK i \in Depth : calls[i].loop \in EnumLoops /\ calls[i].slot = m
    BY <1>2 DEF EnumOpen
  <2>2. PICK ahead, n : ahead = ValuesOf(Cursor(i)) /\ n = calls[i].n
    OBVIOUS
  <2>3. ValuesShape(buf, calls[i].loop, file.enums[m], ahead, n)
    BY <2>1, <2>2 DEF ValuesInv
  <2>4. PICK all : all = Starts(buf, {}, {"value"}, EnumCursor(file.enums[m].body))
    OBVIOUS
  <2>5. IsFiniteSet(all)
    <3>1. EnumCursor(file.enums[m].body) \in Cursors(buf) /\ buf \in Texts
      BY DEF OpenInv, EnumShape, EnumCursor, Stacked
    <3>2. PICK none : none = {}
      OBVIOUS
    <3>3. none \in SUBSET Bodied /\ "none" \notin {"value"}
      BY <3>2
    <3>4. QED
      BY <2>4, <3>1, <3>2, <3>3, StartsRange
  <2>6. /\ ahead \in SUBSET all /\ n = Cardinality(all \ ahead)
        /\ calls[i].loop = "count_values" => DOMAIN file.enums[m].values = {}
        /\ calls[i].loop = "fill_enum" => /\ DOMAIN file.enums[m].values = Slots(n)
                                          /\ file.enums[m].count = Cardinality(all)
    BY <2>3, <2>4 DEF ValuesShape
  <2>7. n \in Nat /\ Cardinality(all) \in Nat /\ n <= Cardinality(all)
    BY <2>5, <2>6, Fewer
  <2>8. QED
    BY <2>1, <2>6, <2>7, SlotsMore DEF EnumLoops
<1>3. QED
  BY <1>1, <1>2 DEF ValuesInv

LEMMA GoingFits ==
  ASSUME Going
  PROVE  Fits
<1>0. Stacked /\ FileShape /\ WalkInv /\ OpenInv /\ FieldsInv /\ ValuesInv
  BY DEF Going
<1>1. /\ Tallied("import", counts.imports, used.imports) /\ Tallied("enum", counts.enums, used.enums)
      /\ Tallied("message", counts.messages, used.messages)
      /\ "import" \in Kept /\ "enum" \in Kept /\ "message" \in Kept
  BY <1>0, SortFacts DEF WalkInv, Kept
<1>2. /\ Slots(used.imports) \subseteq Slots(counts.imports)
      /\ Slots(used.enums) \subseteq Slots(counts.enums)
      /\ Slots(used.messages) \subseteq Slots(counts.messages)
  BY <1>0, <1>1, TalliedFits
<1>3. QED
  BY <1>0, <1>2, FieldsFit, ValuesFit DEF Fits, FileShape, Messages

-----------------------------------------------------------------------------
(* How the building ends.                                                  *)
Ended == TypeOK /\ ArraysFilled /\ PreOrder

LEMMA SpacesEnd ==
  ASSUME Stacked
  PROVE  AfterSpaces(buf, offset, size) \in offset..size /\ offset \in 1..size
<1>1. PICK k : k = Len(calls)
  OBVIOUS
<1>2. k \in Depth /\ Cursor(k) \in Cursors(buf) /\ Cursor(k).at = offset /\ Cursor(k).limit = size
  BY <1>1, StackTypes DEF Stacked, Cursor, At, Limit
<1>3. buf \in Texts /\ size \in Limits(buf) /\ offset \in 1..size
  BY <1>2 DEF Stacked, Cursors
<1>4. QED
  BY <1>3, ReaderAssumption

LEMMA AllRead ==
  ASSUME Going, Ends("fill_file")
  PROVE  /\ Len(calls) = 1
         /\ DOMAIN file.imports = Slots(counts.imports)
         /\ DOMAIN file.enums = Slots(counts.enums)
         /\ Messages = Slots(counts.messages)
         /\ \A m \in Messages : FieldsFilled(Message(m))
         /\ \A m \in DOMAIN file.enums : ValuesFilled(file.enums[m])
<1>0. Stacked /\ FileShape /\ WalkInv /\ OpenInv /\ FieldsInv /\ ValuesInv
  BY DEF Going
<1>1. Top.loop = "fill_file" /\ Entry.kind = "none"
  BY DEF Ends
<1>2. PICK k : k = Len(calls)
  OBVIOUS
<1>3. k \in Nat /\ k >= 1 /\ Depth = 1..k /\ k \in Depth /\ Top = calls[k]
      /\ \A i \in Depth : calls[i].loop \in DOMAIN Place
  BY <1>0, <1>2, StackTypes
<1>4. k = 1
  <2>1. SUFFICES ASSUME k # 1 PROVE FALSE
    OBVIOUS
  <2>2. k - 1 \in Depth /\ calls[k].loop \in Under[calls[k - 1].loop]
    BY <1>0, <1>3, <2>1 DEF Stacked
  <2>3. calls[k].loop # "fill_file"
    BY <1>3, <2>2, UnderWhat
  <2>4. QED
    BY <1>1, <1>3, <2>3
<1>5. Seeks /\ ~Counting
  BY <1>0, <1>1, FillFileFacts
<1>6. ASSUME NEW kind \in Kept PROVE Ahead(kind) = {}
  <2>1. Ahead(kind) = Lower(kind) \cup Of(kind, Cursor(k))
    BY <1>0, <1>2, <1>5, AheadTop
  <2>2. Lower(kind) = {}
    BY <1>2, <1>3, <1>4 DEF Lower, Walking
  <2>3. Of(kind, Cursor(k)) = {}
    <3>1. Cursor(k) \in Cursors(buf) /\ buf \in Texts /\ Found(buf, Cursor(k)).kind = "none"
      BY <1>0, <1>1, <1>2, <1>3, StackTypes DEF Stacked
    <3>2. "none" \notin {kind} /\ {"message"} \in SUBSET Bodied
      BY DEF Kept, Bodied
    <3>3. QED
      BY <3>1, <3>2, StartsNone DEF Of
  <2>4. QED
    BY <2>1, <2>2, <2>3
<1>7. \A kind \in Kept : used[Sorts[kind]] = counts[Sorts[kind]]
  <2> SUFFICES ASSUME NEW kind \in Kept PROVE used[Sorts[kind]] = counts[Sorts[kind]]
    OBVIOUS
  <2>1. Tallied(kind, counts[Sorts[kind]], used[Sorts[kind]])
    BY <1>0, SortFacts DEF WalkInv
  <2>2. Whole(kind) \ Ahead(kind) = Whole(kind)
    BY <1>6
  <2>3. QED
    BY <1>5, <2>1, <2>2 DEF Tallied
<1>8. used.imports = counts.imports /\ used.enums = counts.enums /\ used.messages = counts.messages
  BY <1>7, SortFacts DEF Kept
<1>9. \A i \in Depth : calls[i].loop \notin MessageLoops /\ calls[i].loop \notin EnumLoops
  BY <1>1, <1>3, <1>4, CountLoops
<1>10. /\ \A m \in Messages : FieldsFilled(Message(m))
       /\ \A m \in DOMAIN file.enums : ValuesFilled(file.enums[m])
  BY <1>0, <1>9 DEF FieldsInv, ValuesInv, Open, EnumOpen
<1>11. QED
  BY <1>0, <1>2, <1>4, <1>8, <1>10 DEF FileShape, Messages

\* Only how each field is packed is settled at the end.
LEMMA PackingResolved ==
  ASSUME OpenInv, NEW m \in Messages
  PROVE  /\ DOMAIN ResolvePacking = Messages
         /\ ResolvePacking[m].start = Message(m).start /\ ResolvePacking[m].body = Message(m).body
         /\ ResolvePacking[m].parent = Message(m).parent /\ ResolvePacking[m].count = Message(m).count
         /\ DOMAIN ResolvePacking[m].fields = DOMAIN Message(m).fields
<1> DEFINE resolved(fields) ==
      [j \in DOMAIN fields |-> [fields[j] EXCEPT !.packing = Packing(fields[j].packed)]]
<1>1. PICK v : v = resolved(Message(m).fields)
  OBVIOUS
<1>2. PICK m2 : m2 = [Message(m) EXCEPT !["fields"] = v]
  OBVIOUS
<1>3. DOMAIN ResolvePacking = Messages /\ ResolvePacking[m] = m2
  BY <1>1, <1>2 DEF ResolvePacking, Messages, Message
<1>4. DOMAIN v = DOMAIN Message(m).fields
  BY <1>1
<1>5. MessageShape(buf, Message(m))
  BY DEF OpenInv
<1>6. /\ m2["fields"] = v /\ m2.start = Message(m).start /\ m2.body = Message(m).body
      /\ m2.parent = Message(m).parent /\ m2.count = Message(m).count
  <2>1. Altered(Message(m), "fields", v, m2)
    BY <1>2 DEF Altered
  <2>2. QED
    BY <1>5, <2>1, MessagePart
<1>7. QED
  BY <1>3, <1>4, <1>6

LEMMA StepFileDone ==
  ASSUME Going, PreOrder, FileDone
  PROVE  Ended'
<1>0. Stacked /\ FileShape /\ OpenInv
  BY DEF Going
<1>1. /\ Ends("fill_file")
      /\ file' = [file EXCEPT !.messages = ResolvePacking]
      /\ offset' = AfterSpaces(buf, offset, size) /\ result' = "ok"
      /\ buf' = buf /\ size' = size /\ calls' = calls /\ counts' = counts
  BY DEF FileDone
<1>2. /\ Len(calls) = 1
      /\ DOMAIN file.imports = Slots(counts.imports)
      /\ DOMAIN file.enums = Slots(counts.enums)
      /\ Messages = Slots(counts.messages)
      /\ \A m \in Messages : FieldsFilled(Message(m))
      /\ \A m \in DOMAIN file.enums : ValuesFilled(file.enums[m])
  BY <1>1, AllRead
<1>3. PICK t : t = ResolvePacking
  OBVIOUS
<1>4. DOMAIN t = Messages
  BY <1>3 DEF ResolvePacking, Messages
<1>5. \A m \in Messages :
        /\ t[m].start = Message(m).start /\ t[m].body = Message(m).body
        /\ t[m].parent = Message(m).parent /\ t[m].count = Message(m).count
        /\ DOMAIN t[m].fields = DOMAIN Message(m).fields
  BY <1>0, <1>3, PackingResolved
<1>6. /\ file'.messages = t /\ \A y \in DOMAIN file : y # "messages" => file'[y] = file[y]
  <2>1. "messages" \in DOMAIN file
    BY <1>0 DEF FileShape
  <2>2. file' = [file EXCEPT !["messages"] = t]
    BY <1>1, <1>3
  <2>3. QED
    BY <1>0, <2>1, <2>2, FilePut
<1>7. file'.imports = file.imports /\ file'.enums = file.enums
  BY <1>0, <1>6 DEF FileShape
<1>8. SameMessages /\ SameEnums
  BY <1>4, <1>5, <1>6, <1>7 DEF SameMessages, SameEnums, Messages
<1>9. PreOrder'
  BY <1>8, PreOrderSame
<1>10. ArraysFilled'
  <2>1. /\ DOMAIN file'.imports = Slots(counts'.imports)
        /\ DOMAIN file'.enums = Slots(counts'.enums)
        /\ DOMAIN file'.messages = Slots(counts'.messages)
    BY <1>1, <1>2, <1>4, <1>6, <1>7
  <2>2. \A m \in DOMAIN file'.messages :
          DOMAIN file'.messages[m].fields = Slots(file'.messages[m].count)
    BY <1>2, <1>4, <1>5, <1>6 DEF FieldsFilled
  <2>3. \A m \in DOMAIN file'.enums : DOMAIN file'.enums[m].values = Slots(file'.enums[m].count)
    BY <1>2, <1>7 DEF ValuesFilled
  <2>4. QED
    BY <1>1, <2>1, <2>2, <2>3 DEF ArraysFilled
<1>11. TypeOK'
  <2>0. size \in Nat /\ offset \in Nat
    <3>1. PICK k : k = Len(calls)
      OBVIOUS
    <3>2. QED
      BY <1>0, <3>1, StackTypes
  <2>1. offset' \in 1..size /\ size \in Nat /\ offset \in Nat
    BY <1>0, <1>1, <2>0, SpacesEnd
  <2>2. TypeOK
    BY <1>0, <1>1, GoingTypes DEF Ends
  <2>3. \A i \in 2..Len(calls) : FALSE
    BY <1>2
  <2>4. QED
    BY <1>1, <2>1, <2>2, <2>3 DEF TypeOK
<1>12. QED
  BY <1>9, <1>10, <1>11 DEF Ended

\* A failure leaves what was stored.
LEMMA FitsKept ==
  ASSUME Fits, file' = file, counts' = counts, result' # "ok"
  PROVE  ArraysFilled'
BY DEF Fits, ArraysFilled, Messages, Message

GivesUp == GiveUp("parse error") \/ GiveUp("out of memory")

LEMMA StepGiveUp ==
  ASSUME Going, PreOrder, GivesUp
  PROVE  Ended'
<1>0. Stacked
  BY DEF Going
<1>1. offset' = IF Len(calls) = 1 THEN AfterSpaces(buf, offset, size) ELSE calls[2].saved.offset
  BY DEF GivesUp, GiveUp
<1>2. calls' = SubSeq(calls, 1, 1)
  BY DEF GivesUp, GiveUp
<1>3. size' = Len(buf) + 1 /\ result' \in {"parse error", "out of memory"} /\ buf' = buf /\ counts' = counts /\ file' = file
  BY DEF GivesUp, GiveUp
<1>4. PICK k : k = Len(calls)
  OBVIOUS
<1>5. k \in Nat /\ k >= 1 /\ Depth = 1..k /\ k \in Depth /\ offset \in Nat /\ size \in Nat
      /\ \A i \in Depth : calls[i].loop \in DOMAIN Place /\ calls[i].n \in Nat
  BY <1>0, <1>4, StackTypes
<1>6. 1 \in Depth /\ calls \in Seq(Frame)
  BY <1>0, <1>5 DEF Stacked
<1>7. Limit(1) = Len(buf) + 1 /\ At(1) \in Nat /\ Limit(1) \in Nat /\ 1 <= At(1) /\ At(1) <= Limit(1)
  <2>1. Limit(1) = Len(buf) + 1
    BY <1>0 DEF Stacked
  <2>2. QED
    BY <1>0, <1>6, <2>1, CursorAt
<1>8. size' \in Nat /\ size' = Limit(1)
  BY <1>3, <1>7
<1>9. offset' \in 1..size'
  <2>1. CASE k = 1
    <3>1. size = Limit(1)
      BY <1>4, <2>1 DEF Limit
    <3>2. AfterSpaces(buf, offset, size) \in offset..size /\ offset \in 1..size
      BY <1>0, SpacesEnd
    <3>3. offset' = AfterSpaces(buf, offset, size)
      BY <1>1, <1>4, <2>1
    <3>4. QED
      BY <1>5, <1>8, <3>1, <3>2, <3>3
  <2>2. CASE k # 1
    <3>1. At(1) = calls[1 + 1].saved.offset
      BY <1>4, <2>2 DEF At
    <3>2. offset' = At(1)
      BY <1>1, <1>4, <2>2, <3>1
    <3>3. QED
      BY <1>7, <1>8, <3>2
  <2>3. QED
    BY <2>1, <2>2
<1>10. Len(calls') = 1 /\ calls'[1] = calls[1]
  BY <1>2, <1>4, <1>5, <1>6
<1>11. calls' \in Seq(Frame)
  BY <1>2, <1>4, <1>5, <1>6
<1>12. calls' # <<>> /\ DOMAIN calls' = {1} /\ \A i \in 2..Len(calls') : FALSE
  BY <1>10, <1>11
<1>13. size' \in 1..(Len(buf') + 1)
  <2>1. size' = Len(buf') + 1
    BY <1>3
  <2>2. size' >= 1 /\ size' \in Nat
    BY <1>7, <1>8
  <2>3. QED
    BY <2>1, <2>2
<1>14. \A i \in DOMAIN calls' : calls'[i].loop \in DOMAIN Place /\ calls'[i].n \in Nat
  BY <1>5, <1>6, <1>10, <1>12
<1>15. result' \in {"none", "ok", "parse error", "out of memory"} /\ result' # "ok"
  BY <1>3
<1>16. TypeOK'
  BY <1>9, <1>12, <1>13, <1>14, <1>15 DEF TypeOK
<1>17. ArraysFilled'
  BY <1>3, <1>15, GoingFits, FitsKept
<1>18. PreOrder'
  BY <1>3 DEF PreOrder
<1>19. QED
  BY <1>16, <1>17, <1>18 DEF Ended

LEMMA StepFailures ==
  ASSUME Going, PreOrder, Fails \/ OutOfMemory \/ FileOutOfMemory
  PROVE  Ended'
<1>1. CASE Fails
  BY <1>1, StepGiveUp DEF Fails, GivesUp
<1>2. CASE OutOfMemory
  BY <1>2, StepGiveUp DEF OutOfMemory, GivesUp
<1>3. CASE FileOutOfMemory
  <2>0. Stacked
    BY DEF Going
  <2>1. /\ Ends("count_entries") /\ offset' = 1 /\ result' = "out of memory"
        /\ buf' = buf /\ size' = size /\ calls' = calls /\ counts' = counts /\ file' = file
    BY <1>3 DEF FileOutOfMemory
  <2>2. TypeOK
    BY <2>0, <2>1, GoingTypes DEF Ends
  <2>3. 1 \in 1..size /\ offset >= 1 /\ offset \in Nat
    <3>1. PICK k : k = Len(calls)
      OBVIOUS
    <3>2. offset \in Nat /\ size \in Nat /\ offset <= size /\ offset >= 1
      BY <2>0, <3>1, StackTypes
    <3>3. QED
      BY <3>2
  <2>4. \A i \in 2..Len(calls) : 1 < calls[i].saved.offset
    <3>1. PICK k : k = Len(calls)
      OBVIOUS
    <3>2. k \in Nat /\ k >= 1 /\ Depth = 1..k /\ k \in Depth /\ Top = calls[k]
          /\ \A i \in Depth : calls[i].loop \in DOMAIN Place
      BY <2>0, <3>1, StackTypes
    <3>3. k = 1
      <4>1. SUFFICES ASSUME k # 1 PROVE FALSE
        OBVIOUS
      <4>2. k - 1 \in Depth /\ calls[k].loop \in Under[calls[k - 1].loop]
        BY <2>0, <3>2, <4>1 DEF Stacked
      <4>3. calls[k].loop # "count_entries"
        BY <3>2, <4>2, UnderWhat
      <4>4. QED
        BY <2>1, <3>2, <4>3 DEF Ends
    <3>4. QED
      BY <3>1, <3>3
  <2>5. TypeOK'
    BY <2>1, <2>2, <2>3, <2>4 DEF TypeOK
  <2>6. ArraysFilled'
    BY <2>1, GoingFits, FitsKept
  <2>7. PreOrder'
    BY <2>1 DEF PreOrder
  <2>8. QED
    BY <2>5, <2>6, <2>7 DEF Ended
<1>4. QED
  BY <1>1, <1>2, <1>3

-----------------------------------------------------------------------------
(* The inductive invariant.                                                *)
BuildInv == PreOrder /\ IF result = "none" THEN Going ELSE Ended

LEMMA InvGives ==
  BuildInv => TypeOK /\ ArraysFilled /\ PreOrder
<1> SUFFICES ASSUME BuildInv PROVE TypeOK /\ ArraysFilled /\ PreOrder
  OBVIOUS
<1>1. CASE result = "none"
  <2>1. Going /\ PreOrder
    BY <1>1 DEF BuildInv
  <2>2. TypeOK
    BY <1>1, <2>1, GoingTypes DEF Going
  <2>3. ArraysFilled
    BY <1>1, <2>1, GoingFits DEF Fits, ArraysFilled, Messages, Message
  <2>4. QED
    BY <2>1, <2>2, <2>3
<1>2. CASE result # "none"
  BY <1>2 DEF BuildInv, Ended
<1>3. QED
  BY <1>1, <1>2

LEMMA InvInit ==
  ASSUME Init
  PROVE  BuildInv
<1> DEFINE f == [loop |-> "count_entries", slot |-> 0, n |-> 0, saved |-> [offset |-> 0, size |-> 0]]
<1>1. /\ buf \in Texts /\ offset = 1 /\ size = Len(buf) + 1 /\ calls = <<f>>
      /\ result = "none"
  BY DEF Init, None
<1>2. /\ counts = [imports |-> 0, enums |-> 0, messages |-> 0] /\ used = counts
      /\ file = [imports |-> NoFunction, enums |-> NoFunction, messages |-> NoFunction,
                 syntax |-> "absent", edition |-> None, package |-> None]
  BY DEF Init
<1>3. DOMAIN NoFunction = {}
  BY DEF NoFunction
<1>4. f \in Frame /\ f.loop = "count_entries"
  BY PlaceFacts DEF Frame
<1>5. calls \in Seq(Frame) /\ Len(calls) = 1 /\ calls[1] = f /\ Depth = {1}
  BY <1>1, <1>4 DEF Depth
<1> HIDE DEF f
<1>6. Counting
  BY <1>4, <1>5 DEF Counting
<1>7. Len(buf) \in Nat /\ size \in Limits(buf) /\ size \in Nat /\ 1 <= size
  <2>1. Len(buf) \in Nat
    BY <1>1, ReaderAssumption
  <2>2. QED
    BY <1>1, <2>1 DEF Limits
<1>8. At(1) = 1 /\ Limit(1) = size /\ Place[calls[1].loop] = "file"
  BY <1>1, <1>4, <1>5, PlaceFacts DEF At, Limit
<1>9. Cursor(1) = WholeCursor /\ Cursor(1) \in Cursors(buf)
  BY <1>1, <1>7, <1>8 DEF Cursor, WholeCursor, Cursors, Places
<1>10. Stacked
  <2>1. \A i \in Depth : Cursor(i) \in Cursors(buf)
    BY <1>5, <1>9
  <2>2. \A i, j \in Depth : i < j => Limit(j) < At(i)
    BY <1>5
  <2>3. \A i \in Depth : i # 1 => calls[i].loop \in Under[calls[i - 1].loop]
    BY <1>5
  <2>4. \A i \in Depth : calls[i].loop \in {"count_entries", "count_body"} <=> Counting
    BY <1>4, <1>5, <1>6
  <2>5. QED
    BY <1>1, <1>4, <1>5, <1>8, <2>1, <2>2, <2>3, <2>4 DEF Stacked
<1>11. FileShape
  <2>1. DOMAIN file = {"imports", "enums", "messages", "syntax", "edition", "package"}
        /\ file = [x \in DOMAIN file |-> file[x]]
    BY <1>2
  <2>2. /\ DOMAIN file.imports = {} /\ DOMAIN file.enums = {} /\ DOMAIN file.messages = {}
    BY <1>2, <1>3
  <2>3. used.imports = 0 /\ used.enums = 0 /\ used.messages = 0 /\ Slots(0) = {}
    BY <1>2, SlotsMore
  <2>4. /\ used \in [imports : Nat, enums : Nat, messages : Nat]
        /\ counts \in [imports : Nat, enums : Nat, messages : Nat]
    BY <1>2
  <2>5. QED
    BY <2>1, <2>2, <2>3, <2>4 DEF FileShape
<1>12. Messages = {} /\ DOMAIN file.enums = {}
  BY <1>2, <1>3 DEF Messages
<1>13. calls[1].loop = "count_entries"
  BY <1>4, <1>5
<1>14. WalkInv
  <2>1. Walking = {1} /\ Walk(1) = Cursor(1)
    BY <1>5, <1>13 DEF Walking, Walks, Walk
  <2>2. ASSUME NEW kind \in Kept PROVE Tallied(kind, counts[Sorts[kind]], used[Sorts[kind]])
    <3>1. Ahead(kind) = Of(kind, Walk(1))
      BY <2>1 DEF Ahead
    <3>2. Ahead(kind) = Whole(kind)
      BY <3>1, <2>1, <1>9 DEF Whole, WholeCursor
    <3>3. Whole(kind) \ Ahead(kind) = {}
      BY <3>2
    <3>4. counts[Sorts[kind]] = 0 /\ used[Sorts[kind]] = 0
      BY <1>2, SortFacts DEF Kept
    <3>5. QED
      BY <1>6, <3>2, <3>3, <3>4, FS_EmptySet DEF Tallied
  <2>3. QED
    BY <2>2, SortFacts DEF WalkInv
<1>15. /\ \A i \in Depth : calls[i].loop \notin MessageLoops
       /\ \A i \in Depth : calls[i].loop \notin OneofLoops
       /\ \A i \in Depth : calls[i].loop \notin EnumLoops
  BY <1>5, <1>13 DEF MessageLoops, OneofLoops, EnumLoops
<1>16. OpenInv
  BY <1>12, <1>15 DEF OpenInv
<1>17. FieldsInv
  BY <1>12, <1>15 DEF FieldsInv
<1>18. ValuesInv
  BY <1>12, <1>15 DEF ValuesInv
<1>19. PreOrder
  BY <1>12 DEF PreOrder, Messages
<1>20. QED
  BY <1>1, <1>10, <1>11, <1>14, <1>16, <1>17, <1>18, <1>19 DEF BuildInv, Going

-----------------------------------------------------------------------------
LEMMA NextGoes ==
  ASSUME Next
  PROVE  result = "none"
<1>1. CASE \/ CountEntry \/ CountMessage \/ ReadDeclaration \/ ReadImport \/ ReadEnum \/ ReadMessage
           \/ CountField \/ CountOneof \/ FillField \/ FillOneof \/ CountValue \/ FillValue \/ PassOver
  BY <1>1 DEF CountEntry, CountMessage, ReadDeclaration, ReadImport, ReadEnum, ReadMessage,
              CountField, CountOneof, FillField, FillOneof, CountValue, FillValue, PassOver, Read
<1>2. CASE \/ CountBodyDone \/ CountDone \/ CountOneofDone \/ CountFieldsDone \/ FillOneofDone
           \/ FillMessageDone \/ CountValuesDone \/ FillEnumDone \/ FileDone \/ OutOfMemory
           \/ FileOutOfMemory
  BY <1>2 DEF CountBodyDone, CountDone, CountOneofDone, CountFieldsDone, FillOneofDone, FillMessageDone,
              CountValuesDone, FillEnumDone, FileDone, OutOfMemory, FileOutOfMemory, Ends
<1>3. CASE Fails
  BY <1>3 DEF Fails
<1>4. QED
  BY <1>1, <1>2, <1>3 DEF Next

\* The steps that do not end the building.
Proceeds ==
  \/ CountEntry \/ CountMessage \/ CountBodyDone \/ CountDone
  \/ ReadDeclaration \/ ReadImport \/ ReadEnum \/ ReadMessage
  \/ CountField \/ CountOneof \/ CountOneofDone \/ CountFieldsDone
  \/ FillField \/ FillOneof \/ FillOneofDone \/ FillMessageDone
  \/ CountValue \/ CountValuesDone \/ FillValue \/ FillEnumDone
  \/ PassOver

LEMMA ProceedsGoing ==
  ASSUME Going, PreOrder, Proceeds
  PROVE  Keeps
<1>1. CASE CountEntry
  BY <1>1, StepCountEntry
<1>2. CASE CountMessage
  BY <1>2, StepCountMessage
<1>3. CASE CountBodyDone \/ CountOneofDone \/ FillOneofDone \/ FillMessageDone \/ FillEnumDone
  BY <1>3, StepOuts
<1>4. CASE CountDone
  BY <1>4, StepCountDone
<1>5. CASE ReadDeclaration
  BY <1>5, StepReadDeclaration
<1>6. CASE ReadImport
  BY <1>6, StepReadImport
<1>7. CASE ReadEnum
  BY <1>7, StepReadEnum
<1>8. CASE ReadMessage
  BY <1>8, StepReadMessage
<1>9. CASE CountField
  BY <1>9, StepCountField
<1>10. CASE FillField
  BY <1>10, StepFillField
<1>11. CASE CountOneof \/ FillOneof
  BY <1>11, StepOneofs
<1>12. CASE CountFieldsDone
  BY <1>12, StepCountFieldsDone
<1>13. CASE CountValue
  BY <1>13, StepCountValue
<1>14. CASE CountValuesDone
  BY <1>14, StepCountValuesDone
<1>15. CASE FillValue
  BY <1>15, StepFillValue
<1>16. CASE PassOver
  BY <1>16, StepPassOver
<1>17. QED
  BY <1>1, <1>2, <1>3, <1>4, <1>5, <1>6, <1>7, <1>8, <1>9, <1>10, <1>11, <1>12, <1>13, <1>14, <1>15,
     <1>16 DEF Proceeds

LEMMA ProceedsOn ==
  ASSUME Proceeds
  PROVE  result' = result
BY DEF Proceeds, CountEntry, CountMessage, CountBodyDone, CountDone, ReadDeclaration, ReadImport,
       ReadEnum, ReadMessage, CountField, CountOneof, CountOneofDone, CountFieldsDone, FillField,
       FillOneof, FillOneofDone, FillMessageDone, CountValue, CountValuesDone, FillValue, FillEnumDone,
       PassOver

LEMMA InvStutters ==
  ASSUME BuildInv, UNCHANGED vars
  PROVE  BuildInv'
<1>1. /\ buf' = buf /\ offset' = offset /\ size' = size /\ calls' = calls /\ counts' = counts
      /\ used' = used /\ file' = file /\ result' = result
  BY DEF vars
<1>2. Depth' = Depth /\ (Counting' <=> Counting)
  BY <1>1 DEF Depth, Counting
<1>3. \A i \in Depth : At(i)' = At(i) /\ Limit(i)' = Limit(i) /\ Cursor(i)' = Cursor(i) /\ Walk(i)' = Walk(i)
  BY <1>1 DEF At, Limit, Cursor, Walk
<1>4. PreOrder'
  BY <1>1 DEF BuildInv, PreOrder
<1>5. CASE result = "none"
  <2>0. Stacked /\ FileShape /\ WalkInv /\ OpenInv /\ FieldsInv /\ ValuesInv
    BY <1>5 DEF BuildInv, Going
  <2>1. Stacked'
    <3>1. 1 \in Depth /\ Limit(1)' = Limit(1)
      <4>1. PICK k : k = Len(calls)
        OBVIOUS
      <4>2. k \in Nat /\ k >= 1 /\ Depth = 1..k
        BY <2>0, <4>1, StackTypes
      <4>3. QED
        BY <1>3, <4>2
    <3>2. \A i \in Depth' : Cursor(i)' \in Cursors(buf')
      BY <2>0, <1>1, <1>2, <1>3 DEF Stacked
    <3>3. Limit(1)' = Len(buf') + 1
      BY <2>0, <1>1, <3>1 DEF Stacked
    <3>4. \A i, j \in Depth' : i < j => Limit(j)' < At(i)'
      BY <2>0, <1>2, <1>3 DEF Stacked
    <3>5. \A i \in Depth' : i # 1 => calls'[i].loop \in Under[calls'[i - 1].loop]
      BY <2>0, <1>1, <1>2 DEF Stacked
    <3>6. \A i \in Depth' : calls'[i].loop \in {"count_entries", "count_body"} <=> Counting'
      BY <2>0, <1>1, <1>2 DEF Stacked
    <3>7. /\ buf' \in Texts /\ calls' \in Seq(Frame) /\ Len(calls') >= 1
          /\ calls'[1].loop \in {"count_entries", "fill_file"}
      BY <2>0, <1>1 DEF Stacked
    <3>8. QED
      BY <3>2, <3>3, <3>4, <3>5, <3>6, <3>7 DEF Stacked
  <2>2. FileShape'
    BY <2>0, <1>1 DEF FileShape
  <2>3. Walking' = Walking
    BY <1>1, <1>2 DEF Walking
  <2>4. WalkInv'
    <3>1. \A i \in Walking : Walk(i)' = Walk(i)
      BY <1>3 DEF Walking
    <3>2. \A kind \in Kept : Ahead(kind)' = Ahead(kind)
      BY <1>1, <2>3, <3>1, AheadSame
    <3>3. QED
      BY <2>0, <1>1, <1>2, <3>2, WalkSame
  <2>5. Messages' = Messages /\ \A m : Message(m)' = Message(m) /\ (Open(m)' <=> Open(m))
    BY <1>1, <1>2 DEF Messages, Message, Open
  <2>6. OpenInv'
    BY <2>0, <1>1, <1>2, <1>3, <2>3, <2>5 DEF OpenInv, Walking
  <2>7. FieldsInv'
    <3>1. ASSUME NEW i \in Depth PROVE FieldsAhead(i)' = FieldsAhead(i) /\ Running(i)' = Running(i)
      <4>1. InOneof(i)' <=> InOneof(i)
        BY <1>1 DEF InOneof
      <4>2. FieldsOf(Cursor(i))' = FieldsOf(Cursor(i))
        BY <1>1, <1>3 DEF FieldsOf
      <4>3. InOneof(i) => FieldsOf(Cursor(i + 1))' = FieldsOf(Cursor(i + 1))
        <5>1. InOneof(i) => i + 1 \in Depth
          BY DEF InOneof, Depth
        <5>2. QED
          BY <1>1, <1>3, <5>1 DEF FieldsOf
      <4>4. FieldsAhead(i)' = FieldsAhead(i)
        BY <4>1, <4>2, <4>3 DEF FieldsAhead
      <4>5. Running(i)' = Running(i)
        BY <1>1, <4>1 DEF Running
      <4>6. QED
        BY <4>4, <4>5
    <3>2. \A i \in Depth' : calls'[i].loop \in OneofLoops => calls'[i].slot = calls'[i - 1].slot
      BY <2>0, <1>1, <1>2 DEF FieldsInv
    <3>3. ASSUME NEW i \in Depth', calls'[i].loop \in MessageLoops
          PROVE  FieldsShape(buf', calls'[i].loop, file'.messages[calls'[i].slot], FieldsAhead(i)', Running(i)')
      <4>1. i \in Depth /\ calls[i].loop \in MessageLoops
        BY <3>3, <1>1, <1>2
      <4>2. FieldsShape(buf, calls[i].loop, file.messages[calls[i].slot], FieldsAhead(i), Running(i))
        BY <2>0, <4>1 DEF FieldsInv, Message
      <4>3. QED
        BY <1>1, <3>1, <4>1, <4>2
    <3>4. \A m \in Messages' : Open(m)' \/ FieldsFilled(Message(m))'
      BY <2>0, <1>1, <2>5 DEF FieldsInv, Message
    <3>5. QED
      BY <3>2, <3>3, <3>4 DEF FieldsInv, Message
  <2>8. ValuesInv'
    <3>1. ASSUME NEW i \in Depth', calls'[i].loop \in EnumLoops
          PROVE  /\ calls'[i].slot \in DOMAIN file'.enums
                 /\ file'.enums[calls'[i].slot].body.close = Limit(i)'
                 /\ ValuesShape(buf', calls'[i].loop, file'.enums[calls'[i].slot], ValuesOf(Cursor(i))',
                                calls'[i].n)
      <4>1. i \in Depth /\ calls[i].loop \in EnumLoops
        BY <3>1, <1>1, <1>2
      <4>2. /\ calls[i].slot \in DOMAIN file.enums
            /\ file.enums[calls[i].slot].body.close = Limit(i)
            /\ ValuesShape(buf, calls[i].loop, file.enums[calls[i].slot], ValuesOf(Cursor(i)), calls[i].n)
        BY <2>0, <4>1 DEF ValuesInv
      <4>3. ValuesOf(Cursor(i))' = ValuesOf(Cursor(i))
        BY <1>1, <1>3, <4>1 DEF ValuesOf
      <4>4. QED
        BY <1>1, <1>3, <4>1, <4>2, <4>3
    <3>2. \A m \in DOMAIN file'.enums : EnumOpen(m)' \/ ValuesFilled(file'.enums[m])
      <4>1. \A m : EnumOpen(m)' <=> EnumOpen(m)
        BY <1>1, <1>2 DEF EnumOpen
      <4>2. QED
        BY <2>0, <1>1, <4>1 DEF ValuesInv
    <3>3. QED
      BY <3>1, <3>2 DEF ValuesInv
  <2>9. QED
    BY <1>1, <1>4, <1>5, <2>1, <2>2, <2>4, <2>6, <2>7, <2>8 DEF BuildInv, Going
<1>6. CASE result # "none"
  <2>1. TypeOK /\ ArraysFilled
    BY <1>6 DEF BuildInv, Ended
  <2>2. TypeOK' /\ ArraysFilled'
    BY <1>1, <2>1 DEF TypeOK, ArraysFilled
  <2>3. QED
    BY <1>1, <1>4, <1>6, <2>2 DEF BuildInv, Ended
<1>7. QED
  BY <1>5, <1>6

LEMMA InvStep ==
  ASSUME BuildInv, [Next]_vars
  PROVE  BuildInv'
<1>1. CASE UNCHANGED vars
  BY <1>1, InvStutters
<1>2. CASE Next
  <2>1. result = "none" /\ Going /\ PreOrder
    BY <1>2, NextGoes DEF BuildInv
  <2>2. CASE Proceeds
    BY <2>1, <2>2, ProceedsGoing, ProceedsOn DEF Keeps, BuildInv
  <2>3. CASE FileDone
    <3>1. result' = "ok" /\ Ended'
      BY <2>1, <2>3, StepFileDone DEF FileDone
    <3>2. QED
      BY <3>1 DEF BuildInv, Ended
  <2>4. CASE Fails \/ OutOfMemory \/ FileOutOfMemory
    <3>1. result' # "none"
      BY <2>4 DEF Fails, OutOfMemory, FileOutOfMemory, GiveUp
    <3>2. Ended'
      BY <2>1, <2>4, StepFailures
    <3>3. QED
      BY <3>1, <3>2 DEF BuildInv, Ended
  <2>5. QED
    BY <1>2, <2>2, <2>3, <2>4 DEF Next, Proceeds
<1>3. QED
  BY <1>1, <1>2

\* While a file is built, the stack of loops, what each of them has ahead and
\* what is stored agree; when the building has ended, in any way, the types
\* hold and the arrays and the order of the messages are right
\* (build.c:188-582).
THEOREM BuildInvariant == Spec => []BuildInv
<1>1. Init => BuildInv
  BY InvInit
<1>2. BuildInv /\ [Next]_vars => BuildInv'
  BY InvStep
<1>3. QED
  BY <1>1, <1>2, PTL DEF Spec

\* The cursor stays in the text and in the body it was drawn in to, and every
\* limit that is to be put back lies beyond it, whatever the depth of the
\* bodies (body_scope_enter and body_scope_leave, build.c:67-88).
THEOREM CursorAndStack == Spec => []TypeOK
<1>1. BuildInv => TypeOK
  BY InvGives
<1>2. QED
  BY <1>1, BuildInvariant, PTL

\* Whatever the text, what the first pass counts is what the second stores: no
\* write is past the end of an array, and none of a file that was built has a
\* slot left unset (build.c:269-314, 322-457, 488).
THEOREM ArraysAreFilled == Spec => []ArraysFilled
<1>1. BuildInv => ArraysFilled
  BY InvGives
<1>2. QED
  BY <1>1, BuildInvariant, PTL

\* The messages of a file lie in the order in which their texts begin, and the
\* parent of a message or an enum is the innermost message around it, also
\* where reading failed midway (build.c:9-13, 322-324, 402-413).
THEOREM MessagesInPreOrder == Spec => []PreOrder
<1>1. BuildInv => PreOrder
  BY InvGives
<1>2. QED
  BY <1>1, BuildInvariant, PTL
=============================================================================
