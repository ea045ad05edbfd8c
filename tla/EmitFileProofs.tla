---------------------------- MODULE EmitFileProofs ----------------------------
(***************************************************************************)
(* Proofs about EmitFile, for every file: the header that is kept calls    *)
(* every predicate of the file by the name it was given, and each part of  *)
(* it is there once, and above whatever uses it.                           *)
(*                                                                         *)
(* A kept header is written in the second of two passes, or in the only    *)
(* one.  In the second every message has been learned by the first; a      *)
(* single pass is made only when no message is held by one listed before   *)
(* it, and then what a message holds was written before, or is itself.     *)
(* Both need that the order lists every message, which is                  *)
(* MessageOrderProofs'.                                                    *)
(*                                                                         *)
(* For the text, every part gets a place, an integer that depends only on  *)
(* the order of messages and on which are named before: forward            *)
(* declarations have negative ones, hoisted readers the positions of their *)
(* messages, the rest the numbers above.  TextInv says that in every phase *)
(* the text is made of known parts in the order of their places; two parts *)
(* are then compared by comparing places.                                  *)
(***************************************************************************)
EXTENDS EmitFile, MessageOrderProofs

(* Emission runs on an order that is complete, and ends in a pass that is  *)
(* kept.                                                                   *)
SortedInv ==
  /\ phase # "ahead" => pc = "sorted"
  /\ phase = "ahead" => ~learning /\ guessed = {}
  /\ phase = "done" => ~learning

(* Where a kept header is being written, nothing has been guessed, and     *)
(* nothing will be.                                                        *)
KeptInv ==
  ~learning /\ phase \notin {"ahead", "failed"} =>
    /\ guessed = {}
    /\ NamedBefore = {} \/ Idx \subseteq known

(* The messages written so far are known.                                  *)
WrittenInv ==
  /\ next \in Nat \ {0}
  /\ phase = "messages" => \A k \in Positions : k < next => items[k] \in known
  /\ phase \in {"readers", "rest", "emitted"} => Idx \subseteq known

EmitInv == Inv /\ SortedInv /\ KeptInv /\ WrittenInv

-----------------------------------------------------------------------------
LEMMA SortedListsAll ==
  ASSUME Inv, pc = "sorted"
  PROVE  \A m \in Idx : \E k \in Positions : items[k] = m
<1>1. \A m \in Idx : color[m] = "black"
  BY OrderAssumption DEF Inv, PhaseInv, RootInv, Idx
<1>2. QED
  BY <1>1 DEF Inv, ListInv

(* A message of the list that names nothing ahead finds all it holds       *)
(* learned.                                                                *)
LEMMA HeldIsKnown ==
  ASSUME EmitInv, phase = "messages", NamedBefore = {}, next \in Positions,
         NEW t \in Held(items[next])
  PROVE  t \in known \cup {items[next]}
<1>1. pc = "sorted" /\ items \in Seq(Idx) /\ DOMAIN items = Positions /\ Len(items) \in Nat
  BY LenProperties DEF EmitInv, SortedInv, Inv, SortTypes, Positions
<1>2. items[next] \in Idx
  BY <1>1, ElementOfSeq DEF Positions
<1>3. t \in Idx
  BY <1>2, HeldInFile DEF EmitInv, Inv
<1>4. PICK k \in Positions : items[k] = t
  BY <1>1, <1>3, SortedListsAll DEF EmitInv
<1>5. k <= next
  BY <1>1, <1>4 DEF NamedBefore, Positions
<1>6. QED
  BY <1>1, <1>4, <1>5 DEF EmitInv, WrittenInv, Positions

LEMMA LearnGuessesNothing ==
  ASSUME EmitInv, phase = "messages", ~learning, next <= Len(items), Learn(items[next])
  PROVE  /\ guessed' = {}
         /\ Idx \subseteq known => Idx \subseteq known'
<1>1. next \in Positions /\ items[next] \in Idx
  BY ElementOfSeq DEF EmitInv, WrittenInv, Inv, SortTypes, Positions
<1>2. guessed = {} /\ (NamedBefore = {} \/ Idx \subseteq known)
  BY DEF EmitInv, KeptInv
<1>3. known' = known \cup {items[next]} /\ guessed' = guessed \cup (Held(items[next]) \ known')
  BY DEF Learn
<1>4. Held(items[next]) \subseteq known'
  <2>1. CASE NamedBefore = {}
    BY <1>1, <1>3, <2>1, HeldIsKnown
  <2>2. CASE Idx \subseteq known
    BY <1>1, <1>3, <2>2, HeldInFile DEF EmitInv, Inv
  <2>3. QED
    BY <1>2, <2>1, <2>2
<1>5. QED
  BY <1>2, <1>3, <1>4

-----------------------------------------------------------------------------
LEMMA EmitInit == Init => EmitInv
BY InitInv DEF Init, EmitInv, SortedInv, KeptInv, WrittenInv

LEMMA EmitStep == EmitInv /\ [Next]_vars => EmitInv'
<1> SUFFICES ASSUME EmitInv, [Next]_vars PROVE EmitInv'
  OBVIOUS
<1>1. CASE Sort
  <2>1. phase = "ahead"
    BY <1>1 DEF Sort, OrderNext, Alloc, SkipRoot, StartTree, Retire, PassOver, BackEdge, Push,
       SortDone, EmitInv, SortedInv
  <2>2. Inv'
    BY <1>1, InvKept DEF Sort, EmitInv
  <2>3. QED
    BY <1>1, <2>1, <2>2 DEF Sort, emitVars, EmitInv, SortedInv, KeptInv, WrittenInv
<1>2. ASSUME UNCHANGED orderVars
      PROVE  /\ Inv' /\ pc' = pc /\ items' = items
             /\ NamedBefore' = NamedBefore
  BY <1>2, InvKept DEF EmitInv, orderVars, NamedBefore, Held
<1>3. CASE NamesAhead
  BY <1>2, <1>3 DEF NamesAhead, EmitInv, SortedInv, KeptInv, WrittenInv
<1>4. CASE Forward \/ ForwardDone \/ Fails
  BY <1>2, <1>4 DEF Forward, ForwardDone, Fails, EmitInv, SortedInv, KeptInv, WrittenInv
<1>5. CASE Mark
  BY <1>2, <1>5 DEF Mark, EmitInv, SortedInv, KeptInv, WrittenInv, Positions
<1>6. CASE EmitMessage \/ EmitMarked
  <2>1. /\ phase = "messages" /\ phase' = phase /\ next <= Len(items) /\ next' = next + 1
        /\ Learn(items[next]) /\ UNCHANGED <<orderVars, learning>>
    BY <1>6 DEF EmitMessage, EmitMarked
  <2>2. KeptInv'
    BY <1>2, <2>1, LearnGuessesNothing DEF EmitInv, KeptInv
  <2>3. WrittenInv'
    BY <1>2, <2>1 DEF Learn, EmitInv, WrittenInv, Positions
  <2>4. QED
    BY <1>2, <2>1, <2>2, <2>3 DEF EmitInv, SortedInv
<1>7. CASE EmitDone
  <2>1. Idx \subseteq known
    BY <1>7, SortedListsAll DEF EmitDone, EmitInv, SortedInv, WrittenInv, Positions
  <2>2. QED
    BY <1>2, <1>7, <2>1 DEF EmitDone, EmitInv, SortedInv, KeptInv, WrittenInv
<1>8. CASE CopyReader \/ ReadersDone \/ CopyRest \/ RestDone
  BY <1>2, <1>8 DEF CopyReader, ReadersDone, CopyRest, RestDone,
     EmitInv, SortedInv, KeptInv, WrittenInv
<1>9. CASE LearnDone \/ FileDone
  BY <1>2, <1>9 DEF LearnDone, FileDone, EmitInv, SortedInv, KeptInv, WrittenInv
<1>10. CASE UNCHANGED vars
  BY <1>2, <1>10 DEF vars, emitVars, EmitInv, SortedInv, KeptInv, WrittenInv, Positions
<1>11. QED
  BY <1>1, <1>3, <1>4, <1>5, <1>6, <1>7, <1>8, <1>9, <1>10 DEF Next

(* "every name a contract uses was learned by the caller's first pass"     *)
(* (emit_file.c), or there was no need of a first pass: no header that is  *)
(* kept guesses a predicate of its own file, whatever its messages hold.   *)
THEOREM KeptHeaderGuessesNothing == Spec => []PredicatesKnown
<1>1. EmitInv => PredicatesKnown
  BY DEF EmitInv, KeptInv, PredicatesKnown, SortedInv
<1>2. QED
  BY <1>1, EmitInit, EmitStep, PTL DEF Spec

-----------------------------------------------------------------------------
(* Texts.  Every part has a place, an integer, that grows along the text:  *)
(* forward declarations come first, in the order of the file, then the     *)
(* readers of messages named before, then the messages as they are listed. *)

Base(k) == N + 4 * k

Offset(p) == IF p = "writer" THEN 0 ELSE IF p = "reader" THEN 1
             ELSE IF p = "init" THEN 2 ELSE 3

Place == [q \in Parts |->
  IF q.part = "forward" THEN q.of - N
  ELSE IF q.part = "reader" /\ q.of \in NamedBefore THEN Position(q.of)
  ELSE Base(Position(q.of)) + Offset(q.part)]

(* t consists of the parts in E, each once, in the order of their places,  *)
(* which lie in lo..hi-1.                                                  *)
Stretch(place, t, lo, hi, E) ==
  /\ t \in Seq(Parts)
  /\ {t[k] : k \in 1..Len(t)} = E
  /\ \A k \in 1..Len(t) : place[t[k]] \in lo..(hi - 1)
  /\ \A j, k \in 1..Len(t) : j < k => place[t[j]] < place[t[k]]

LEMMA Empty ==
  ASSUME NEW place, NEW lo, NEW hi
  PROVE  Stretch(place, <<>>, lo, hi, {})
BY EmptySeq DEF Stretch

LEMMA One ==
  ASSUME NEW place, NEW q \in Parts, NEW lo \in Int, place[q] = lo
  PROVE  Stretch(place, <<q>>, lo, lo + 1, {q})
<1>1. <<q>> \in Seq(Parts) /\ Len(<<q>>) = 1 /\ <<q>>[1] = q
  OBVIOUS
<1>2. QED
  BY <1>1 DEF Stretch

LEMMA Join ==
  ASSUME NEW place, NEW a \in Int, NEW b \in Int, NEW c \in Int, NEW d \in Int,
         a <= c, b <= c, b <= d,
         NEW t, NEW E, Stretch(place, t, a, b, E),
         NEW u, NEW F, Stretch(place, u, c, d, F)
  PROVE  Stretch(place, t \o u, a, d, E \cup F)
<1>1. /\ t \in Seq(Parts) /\ u \in Seq(Parts) /\ Len(t) \in Nat /\ Len(u) \in Nat
      /\ t \o u \in Seq(Parts) /\ Len(t \o u) = Len(t) + Len(u)
      /\ \A k \in 1..(Len(t) + Len(u)) :
           (t \o u)[k] = IF k <= Len(t) THEN t[k] ELSE u[k - Len(t)]
  BY ConcatProperties, LenProperties DEF Stretch
<1> DEFINE w == t \o u
<1>2. \A k \in 1..Len(t) : k \in 1..Len(w) /\ w[k] = t[k]
  BY <1>1
<1>3. \A k \in 1..Len(u) : Len(t) + k \in 1..Len(w) /\ w[Len(t) + k] = u[k]
  BY <1>1
<1>4. ASSUME NEW k \in 1..Len(w), ~(k <= Len(t))
      PROVE  k - Len(t) \in 1..Len(u) /\ w[k] = u[k - Len(t)]
  BY <1>1, <1>4
<1>5. \A k \in 1..Len(w) : k <= Len(t) => k \in 1..Len(t)
  BY <1>1
<1>6. Len(w) \in Nat /\ Len(t) \in Nat
  BY <1>1
<1>7. w \in Seq(Parts)
  BY <1>1
<1> HIDE DEF w
<1>8. {w[k] : k \in 1..Len(w)} = E \cup F
  <2>1. ASSUME NEW k \in 1..Len(w) PROVE w[k] \in E \cup F
    <3>1. CASE k <= Len(t)
      BY <1>2, <1>5, <3>1 DEF Stretch
    <3>2. CASE ~(k <= Len(t))
      BY <1>4, <3>2 DEF Stretch
    <3>3. QED
      BY <3>1, <3>2
  <2>2. ASSUME NEW q \in E PROVE \E k \in 1..Len(w) : w[k] = q
    <3>1. PICK k \in 1..Len(t) : t[k] = q
      BY DEF Stretch
    <3>2. QED
      BY <1>2, <3>1
  <2>3. ASSUME NEW q \in F PROVE \E k \in 1..Len(w) : w[k] = q
    <3>1. PICK k \in 1..Len(u) : u[k] = q
      BY DEF Stretch
    <3>2. QED
      BY <1>3, <3>1
  <2>4. QED
    BY <2>1, <2>2, <2>3
<1>9. \A k \in 1..Len(t) : place[w[k]] \in a..(b - 1)
  BY <1>2 DEF Stretch
<1>10. \A k \in 1..Len(w) : ~(k <= Len(t)) => place[w[k]] \in c..(d - 1)
  BY <1>4 DEF Stretch
<1>11. ASSUME NEW j \in 1..Len(w), NEW k \in 1..Len(w), j < k
       PROVE  place[w[j]] < place[w[k]]
  <2>1. CASE k <= Len(t)
    <3>1. j \in 1..Len(t) /\ k \in 1..Len(t)
      BY <1>5, <1>6, <1>11, <2>1
    <3>2. QED
      BY <1>2, <1>11, <3>1 DEF Stretch
  <2>2. CASE ~(j <= Len(t))
    <3>1. ~(k <= Len(t)) /\ j - Len(t) < k - Len(t)
      BY <1>6, <1>11, <2>2
    <3>2. QED
      BY <1>4, <2>2, <3>1 DEF Stretch
  <2>3. CASE j <= Len(t) /\ ~(k <= Len(t))
    BY <1>5, <1>9, <1>10, <2>3
  <2>4. QED
    BY <2>1, <2>2, <2>3
<1>12. \A k \in 1..Len(w) : place[w[k]] \in a..(d - 1)
  BY <1>5, <1>9, <1>10
<1>13. QED
  BY <1>7, <1>8, <1>11, <1>12 DEF Stretch, w

LEMMA Widen ==
  ASSUME NEW place, NEW a \in Int, NEW b \in Int, NEW c \in Int, NEW d \in Int,
         c <= a, b <= d,
         NEW t, NEW E, Stretch(place, t, a, b, E)
  PROVE  Stretch(place, t, c, d, E)
BY DEF Stretch

-----------------------------------------------------------------------------
(* What each part of the emission writes.                                  *)

StructOf(p, m, pre) == IF m \in pre THEN Part(p, m) ELSE Typed(p, m)

Forwards(S)     == {Typed("forward", m) : m \in S}
Readers(S, pre) == {StructOf("reader", m, pre) : m \in S}
Bodies(S, pre)  == {StructOf("writer", m, pre) : m \in S}
                     \cup {Part("init", m) : m \in S} \cup {Part("getters", m) : m \in S}

(* What a loop over s has been through when it is at n.                    *)
FirstOf(s, n) == {s[k] : k \in 1..(n - 1)}

LEMMA FirstOfNext ==
  ASSUME NEW s, NEW n \in Nat \ {0}
  PROVE  FirstOf(s, n + 1) = FirstOf(s, n) \cup {s[n]}
<1>1. \A k : k \in 1..(n + 1 - 1) <=> k \in 1..(n - 1) \/ k = n
  OBVIOUS
<1>2. QED
  BY <1>1 DEF FirstOf

LEMMA FirstOfNone ==
  ASSUME NEW s
  PROVE  FirstOf(s, 1) = {}
BY DEF FirstOf

(* The whole order, once it is complete: every message at its position.    *)
LEMMA Listed ==
  ASSUME Inv, pc = "sorted"
  PROVE  /\ items \in Seq(Idx) /\ Len(items) = N /\ DOMAIN items = 1..N
         /\ Positions = 1..N
         /\ \A k \in 1..N : items[k] \in Idx /\ Position(items[k]) = k
         /\ \A m \in Idx : Position(m) \in 1..N /\ items[Position(m)] = m
<1>1. \A m \in Idx : \E k \in Positions : items[k] = m
  BY SortedListsAll
<1>2. Len(items) = N
  <2>1. Black = Idx
    BY OrderAssumption DEF Inv, PhaseInv, RootInv, Black, Idx
  <2>2. QED
    BY <2>1, IdxFinite DEF Inv, ListInv
<1>3. items \in Seq(Idx) /\ DOMAIN items = 1..N
  BY <1>2, LenProperties DEF Inv, SortTypes
<1>4. Positions = 1..N
  BY <1>2 DEF Positions
<1>5. \A k \in 1..N : items[k] \in Idx /\ Position(items[k]) = k
  BY <1>2, <1>3, <1>4, ElementOfSeq, PositionOf
<1>6. \A m \in Idx : Position(m) \in 1..N /\ items[Position(m)] = m
  BY <1>1, <1>4, <1>5
<1>7. QED
  BY <1>2, <1>3, <1>4, <1>5, <1>6

LEMMA PartsOfMessage ==
  ASSUME NEW m \in Idx, NEW pre
  PROVE  /\ Typed("forward", m) \in Parts
         /\ StructOf("writer", m, pre) \in Parts /\ StructOf("reader", m, pre) \in Parts
         /\ Part("init", m) \in Parts /\ Part("getters", m) \in Parts
BY DEF Parts, Part, Typed, StructOf

LEMMA PlaceOf ==
  ASSUME Inv, pc = "sorted", NEW m \in Idx, NEW pre
  PROVE  /\ Place[Typed("forward", m)] = m - N
         /\ Place[StructOf("writer", m, pre)] = Base(Position(m))
         /\ Place[StructOf("reader", m, pre)] =
              IF m \in NamedBefore THEN Position(m) ELSE Base(Position(m)) + 1
         /\ Place[Part("init", m)] = Base(Position(m)) + 2
         /\ Place[Part("getters", m)] = Base(Position(m)) + 3
<1>1. Place[Typed("forward", m)] = m - N
  BY PartsOfMessage DEF Place, Typed
<1>2. Base(Position(m)) \in Int
  BY Listed, OrderAssumption DEF Base
<1>3. Place[StructOf("writer", m, pre)] = Base(Position(m))
  <2>1. Place[StructOf("writer", m, pre)] = Base(Position(m)) + Offset("writer")
    BY PartsOfMessage DEF Place, StructOf, Part, Typed
  <2>2. QED
    BY <1>2, <2>1 DEF Offset
<1>4. Place[StructOf("reader", m, pre)] =
              IF m \in NamedBefore THEN Position(m) ELSE Base(Position(m)) + 1
  BY PartsOfMessage DEF Place, StructOf, Part, Typed, Offset
<1>5. Place[Part("init", m)] = Base(Position(m)) + 2
  BY PartsOfMessage DEF Place, Part, Offset
<1>6. Place[Part("getters", m)] = Base(Position(m)) + 3
  BY PartsOfMessage DEF Place, Part, Offset
<1>7. QED
  BY <1>1, <1>3, <1>4, <1>5, <1>6

(* The stretches a message is written in.                                  *)
LEMMA PiecesOf ==
  ASSUME Inv, pc = "sorted", predeclared = needs_pre, NEW k \in 1..N, NEW m, m = items[k]
  PROVE  /\ Stretch(Place, Writer(m), Base(k), Base(k) + 1, {StructOf("writer", m, needs_pre)})
         /\ m \notin NamedBefore =>
              Stretch(Place, Reader(m), Base(k) + 1, Base(k) + 2, Readers({m}, needs_pre))
         /\ m \in NamedBefore =>
              Stretch(Place, Reader(m), k, k + 1, Readers({m}, needs_pre))
         /\ Stretch(Place, Methods(m), Base(k) + 2, Base(k) + 4,
                    {Part("init", m), Part("getters", m)})
<1> DEFINE w == StructOf("writer", m, needs_pre)
           r == StructOf("reader", m, needs_pre)
           i == Part("init", m)
           g == Part("getters", m)
<1>1. m \in Idx /\ Position(m) = k
  BY Listed
<1>2. Base(k) \in Int
  BY OrderAssumption DEF Base
<1>3. w \in Parts /\ r \in Parts /\ i \in Parts /\ g \in Parts
  BY <1>1, PartsOfMessage
<1>4. /\ Place[w] = Base(k) /\ Place[i] = Base(k) + 2 /\ Place[g] = Base(k) + 3
      /\ Place[r] = IF m \in NamedBefore THEN k ELSE Base(k) + 1
  BY <1>1, PlaceOf
<1>5. Writer(m) = <<w>> /\ Reader(m) = <<r>> /\ Methods(m) = <<i>> \o <<g>>
  BY DEF Writer, Reader, Methods, Struct, StructOf
<1>6. Readers({m}, needs_pre) = {r}
  BY DEF Readers
<1> HIDE DEF w, r, i, g
<1>7. Stretch(Place, <<w>>, Base(k), Base(k) + 1, {w})
  BY <1>2, <1>3, <1>4, One
<1>8. ASSUME m \notin NamedBefore
      PROVE  Stretch(Place, <<r>>, Base(k) + 1, Base(k) + 2, {r})
  <2>1. Place[r] = Base(k) + 1 /\ Base(k) + 1 \in Int /\ (Base(k) + 1) + 1 = Base(k) + 2
    BY <1>2, <1>4, <1>8
  <2>2. Stretch(Place, <<r>>, Base(k) + 1, (Base(k) + 1) + 1, {r})
    BY <1>3, <2>1, One
  <2>3. QED
    BY <2>1, <2>2
<1>9. ASSUME m \in NamedBefore
      PROVE  Stretch(Place, <<r>>, k, k + 1, {r})
  BY <1>3, <1>4, <1>9, One
<1>10. Stretch(Place, <<i>> \o <<g>>, Base(k) + 2, Base(k) + 4, {i, g})
  <2>1. /\ Place[i] = Base(k) + 2 /\ Base(k) + 2 \in Int /\ (Base(k) + 2) + 1 = Base(k) + 3
        /\ Place[g] = Base(k) + 3 /\ Base(k) + 3 \in Int /\ (Base(k) + 3) + 1 = Base(k) + 4
        /\ Base(k) + 4 \in Int /\ Base(k) + 2 <= Base(k) + 3 /\ Base(k) + 3 <= Base(k) + 4
    BY <1>2, <1>4
  <2>2. Stretch(Place, <<i>>, Base(k) + 2, (Base(k) + 2) + 1, {i})
    BY <1>3, <2>1, One
  <2>3. Stretch(Place, <<g>>, Base(k) + 3, (Base(k) + 3) + 1, {g})
    BY <1>3, <2>1, One
  <2>4. Stretch(Place, <<i>> \o <<g>>, Base(k) + 2, Base(k) + 4, {i} \cup {g})
    BY <2>1, <2>2, <2>3, Join
  <2>5. {i} \cup {g} = {i, g}
    OBVIOUS
  <2>6. QED
    BY <2>4, <2>5
<1>11. QED
  BY <1>5, <1>6, <1>7, <1>8, <1>9, <1>10 DEF w, r, i, g

(* What is copied of a message behind the hoisted readers.                 *)
LEMMA RestStretch ==
  ASSUME Inv, pc = "sorted", predeclared = needs_pre, hoist = NamedBefore,
         NEW k \in 1..N, NEW m, m = items[k]
  PROVE  Stretch(Place, Rest(m), Base(k), Base(k + 1),
                 Bodies({m}, needs_pre) \cup Readers({m} \ hoist, needs_pre))
<1> DEFINE w == {StructOf("writer", m, needs_pre)}
           x == {Part("init", m), Part("getters", m)}
<1>1. Base(k) \in Int /\ Base(k + 1) = Base(k) + 4
  BY OrderAssumption DEF Base
<1>2. Bodies({m}, needs_pre) = w \cup x
  BY DEF Bodies
<1>3. /\ Stretch(Place, Writer(m), Base(k), Base(k) + 1, w)
      /\ Stretch(Place, Methods(m), Base(k) + 2, Base(k) + 4, x)
  BY PiecesOf
<1> HIDE DEF w, x
<1>4. CASE m \in hoist
  <2>1. Rest(m) = Writer(m) \o Methods(m) /\ {m} \ hoist = {}
    BY <1>4 DEF Rest
  <2>2. Stretch(Place, Writer(m) \o Methods(m), Base(k), Base(k) + 4, w \cup x)
    BY <1>1, <1>3, Join
  <2>3. Readers({}, needs_pre) = {}
    BY DEF Readers
  <2>4. QED
    BY <1>1, <1>2, <2>1, <2>2, <2>3
<1>5. CASE m \notin hoist
  <2>1. Rest(m) = Writer(m) \o Reader(m) \o Methods(m) /\ {m} \ hoist = {m}
    BY <1>5 DEF Rest
  <2> DEFINE r == Readers({m}, needs_pre)
  <2>2. Stretch(Place, Reader(m), Base(k) + 1, Base(k) + 2, r)
    BY <1>5, PiecesOf
  <2> HIDE DEF r
  <2>3. Stretch(Place, Writer(m) \o Reader(m), Base(k), Base(k) + 2, w \cup r)
    BY <1>1, <1>3, <2>2, Join
  <2>4. Stretch(Place, Writer(m) \o Reader(m) \o Methods(m), Base(k), Base(k) + 4,
                (w \cup r) \cup x)
    BY <1>1, <1>3, <2>3, Join
  <2>5. (w \cup r) \cup x = (w \cup x) \cup r
    OBVIOUS
  <2>6. QED
    BY <1>1, <1>2, <2>1, <2>4, <2>5 DEF r
<1>6. QED
  BY <1>4, <1>5

-----------------------------------------------------------------------------
(* What the text holds in every phase.                                     *)

ForwardEnd(n) == IF n <= Len(predeclare) THEN predeclare[n] - N ELSE 0

Holds(hi, body, reader) ==
  Stretch(Place, text, -N, hi,
          Forwards(needs_pre) \cup Bodies(body, needs_pre) \cup Readers(reader, needs_pre))

ForwardInv ==
  /\ phase = "ahead" => text = <<>> /\ predeclared = {} /\ hoist = {} /\ next = 1
  /\ phase = "forward" =>
       /\ next \in 1..(Len(predeclare) + 1)
       /\ hoist = {}
       /\ predeclared \subseteq needs_pre
       /\ FirstOf(predeclare, next) \subseteq predeclared
       /\ Stretch(Place, text, -N, ForwardEnd(next), Forwards(FirstOf(predeclare, next)))
  /\ phase \notin {"ahead", "forward", "failed"} => predeclared = needs_pre

BodyInv ==
  /\ phase \in {"messages", "readers", "rest", "emitted", "done"} => hoist = NamedBefore
  /\ phase \in {"messages", "readers", "rest"} => next \in 1..(N + 1)
  /\ phase = "mark" => Holds(1, {}, {})
  /\ phase = "messages" /\ hoist # {} => Holds(1, {}, {})
  /\ phase = "messages" /\ hoist = {} =>
       Holds(Base(next), FirstOf(items, next), FirstOf(items, next))
  /\ phase = "readers" => Holds(next, {}, hoist \cap FirstOf(items, next))
  /\ phase = "rest" => Holds(Base(next), FirstOf(items, next), hoist \cup FirstOf(items, next))
  /\ phase \in {"emitted", "done"} => Holds(Base(N + 1), Idx, Idx)

TextInv == EmitInv /\ ForwardInv /\ BodyInv

LEMMA TextInit == Init => ForwardInv /\ BodyInv
BY DEF Init, ForwardInv, BodyInv

(* Nothing but the sort moves the places.                                  *)
LEMMA SamePlaces ==
  ASSUME UNCHANGED orderVars
  PROVE  /\ Place' = Place /\ NamedBefore' = NamedBefore
         /\ pc' = pc /\ needs_pre' = needs_pre /\ items' = items /\ predeclare' = predeclare
BY DEF orderVars, search, Place, NamedBefore, Held, Position

LEMMA ForwardText ==
  ASSUME TextInv, Forward
  PROVE  ForwardInv'
<1> DEFINE m == predeclare[next]
           q == Typed("forward", m)
           E == Forwards(FirstOf(predeclare, next))
<1>0. Inv /\ pc = "sorted" /\ N \in Nat
  BY OrderAssumption DEF TextInv, EmitInv, SortedInv, Forward
<1>1. /\ next \in 1..Len(predeclare) /\ next + 1 \in 1..(Len(predeclare) + 1)
      /\ m \in Idx /\ m \in needs_pre /\ m \in Int /\ m < N
  <2>1. /\ predeclare \in Seq(Idx) /\ Len(predeclare) \in 0..N
        /\ \A k \in 1..Len(predeclare) : predeclare[k] \in needs_pre
    BY <1>0, PredeclareLists
  <2>2. needs_pre \subseteq Idx
    BY <1>0 DEF Inv, SortTypes
  <2>3. next \in 1..(Len(predeclare) + 1) /\ next <= Len(predeclare)
    BY DEF TextInv, ForwardInv, Forward
  <2>4. Len(predeclare) \in Nat
    BY <1>0, <2>1
  <2>5. next \in 1..Len(predeclare) /\ next + 1 \in 1..(Len(predeclare) + 1)
    BY <2>3, <2>4
  <2>6. m \in needs_pre /\ m \in Idx
    BY <2>1, <2>2, <2>5
  <2>7. \A x \in Idx : x \in Int /\ x < N
    BY <1>0 DEF Idx
  <2>8. QED
    BY <2>5, <2>6, <2>7
<1>2. q \in Parts /\ Place[q] = m - N
  BY <1>0, <1>1, PartsOfMessage, PlaceOf
<1>3. Stretch(Place, text, -N, m - N, E)
  BY <1>1 DEF Forward, TextInv, ForwardInv, ForwardEnd
<1>4. text' = text \o <<q>>
  BY <1>3 DEF Forward, Stretch
<1> HIDE DEF q, m, E
<1>5. Stretch(Place, <<q>>, m - N, (m - N) + 1, {q})
  <2>1. m - N \in Int
    BY <1>0, <1>1
  <2>2. QED
    BY <1>2, <2>1, One
<1>6. -N <= m - N
  BY <1>0, <1>1 DEF Idx
<1>7. Stretch(Place, text', -N, (m - N) + 1, E \cup {q})
  BY <1>0, <1>1, <1>3, <1>4, <1>5, <1>6, Join
<1>8. ForwardEnd(next + 1) \in Int /\ (m - N) + 1 <= ForwardEnd(next + 1)
  <2>1. CASE next + 1 <= Len(predeclare)
    <3>1. /\ \A k \in 1..Len(predeclare) : predeclare[k] \in needs_pre
          /\ \A j, k \in 1..Len(predeclare) : j < k => predeclare[j] < predeclare[k]
          /\ needs_pre \subseteq Idx
      BY <1>0, PredeclareLists DEF Inv, SortTypes
    <3>2. \A x \in Idx : x \in Int
      BY DEF Idx
    <3>3. next + 1 \in 1..Len(predeclare) /\ next < next + 1
      BY <1>1, <2>1
    <3>4. predeclare[next + 1] \in Int
      BY <3>1, <3>2, <3>3
    <3>5. m < predeclare[next + 1]
      BY <1>1, <3>1, <3>3 DEF m
    <3>6. QED
      BY <1>0, <1>1, <2>1, <3>4, <3>5 DEF ForwardEnd
  <2>2. CASE ~(next + 1 <= Len(predeclare))
    BY <1>0, <1>1, <2>2 DEF ForwardEnd
  <2>3. QED
    BY <2>1, <2>2
<1>9. Stretch(Place, text', -N, ForwardEnd(next + 1), E \cup {q})
  BY <1>0, <1>1, <1>7, <1>8, Widen
<1>10. FirstOf(predeclare, next + 1) = FirstOf(predeclare, next) \cup {m}
  BY <1>1, FirstOfNext DEF m
<1>11. E \cup {q} = Forwards(FirstOf(predeclare, next + 1))
  BY <1>10 DEF E, q, Forwards
<1>12. /\ phase = "forward" /\ phase' = "forward" /\ next' = next + 1 /\ hoist' = hoist
       /\ predeclared' = predeclared \cup {m} /\ UNCHANGED orderVars
  BY DEF Forward, m
<1>13. /\ Place' = Place /\ predeclare' = predeclare /\ needs_pre' = needs_pre
       /\ ForwardEnd(next)' = ForwardEnd(next + 1)
  BY <1>12, SamePlaces DEF ForwardEnd
<1>14. QED
  BY <1>1, <1>9, <1>10, <1>11, <1>12, <1>13 DEF TextInv, ForwardInv
(* A text with bodies and readers, continued with more.                    *)
LEMMA Grow ==
  ASSUME NEW place, NEW pre, NEW t, NEW u, NEW B, NEW R, NEW C, NEW S,
         NEW lo \in Int, NEW hi \in Int, -N <= lo, lo <= hi,
         Stretch(place, t, -N, lo, Forwards(pre) \cup Bodies(B, pre) \cup Readers(R, pre)),
         Stretch(place, u, lo, hi, Bodies(C, pre) \cup Readers(S, pre))
  PROVE  Stretch(place, t \o u, -N, hi,
                 Forwards(pre) \cup Bodies(B \cup C, pre) \cup Readers(R \cup S, pre))
<1> DEFINE E == Forwards(pre) \cup Bodies(B, pre) \cup Readers(R, pre)
           F == Bodies(C, pre) \cup Readers(S, pre)
<1>1. Bodies(B \cup C, pre) = Bodies(B, pre) \cup Bodies(C, pre)
  BY DEF Bodies
<1>2. Readers(R \cup S, pre) = Readers(R, pre) \cup Readers(S, pre)
  BY DEF Readers
<1>3. E \cup F = Forwards(pre) \cup Bodies(B \cup C, pre) \cup Readers(R \cup S, pre)
  BY <1>1, <1>2
<1>4. -N \in Int
  BY OrderAssumption
<1> HIDE DEF E, F
<1>5. Stretch(place, t, -N, lo, E) /\ Stretch(place, u, lo, hi, F)
  BY DEF E, F
<1>6. Stretch(place, t \o u, -N, hi, E \cup F)
  BY <1>4, <1>5, Join
<1>7. QED
  BY <1>3, <1>6

LEMMA NoParts ==
  ASSUME NEW pre
  PROVE  Bodies({}, pre) = {} /\ Readers({}, pre) = {}
BY DEF Bodies, Readers

LEMMA AllListed ==
  ASSUME Inv, pc = "sorted"
  PROVE  FirstOf(items, N + 1) = Idx
<1>1. \A k : k \in 1..(N + 1 - 1) <=> k \in 1..N
  BY OrderAssumption
<1>2. QED
  BY <1>1, Listed DEF FirstOf

LEMMA ForwardDoneText ==
  ASSUME TextInv, ForwardDone
  PROVE  ForwardInv' /\ BodyInv'
<1>0. Inv /\ pc = "sorted" /\ N \in Nat
  BY OrderAssumption DEF TextInv, EmitInv, SortedInv, ForwardDone
<1>1. next = Len(predeclare) + 1 /\ ForwardEnd(next) = 0
  BY <1>0, PredeclareLists DEF TextInv, ForwardInv, ForwardDone, ForwardEnd
<1>2. FirstOf(predeclare, next) = needs_pre
  <2>1. \A k : k \in 1..(next - 1) <=> k \in 1..Len(predeclare)
    BY <1>0, <1>1, PredeclareLists
  <2>2. QED
    BY <1>0, <2>1, PredeclareLists DEF FirstOf
<1>3. predeclared = needs_pre
  BY <1>2 DEF TextInv, ForwardInv, ForwardDone
<1>4. Holds(1, {}, {})
  <2>1. Stretch(Place, text, -N, 0, Forwards(needs_pre))
    BY <1>1, <1>2 DEF TextInv, ForwardInv, ForwardDone
  <2>2. Stretch(Place, text, -N, 1, Forwards(needs_pre))
    BY <1>0, <2>1, Widen
  <2>3. Forwards(needs_pre) \cup {} \cup {} = Forwards(needs_pre)
    OBVIOUS
  <2>4. QED
    BY <2>2, <2>3, NoParts DEF Holds
<1>5. /\ phase' = "mark" /\ text' = text /\ predeclared' = predeclared /\ UNCHANGED orderVars
  BY DEF ForwardDone
<1>6. Holds(1, {}, {})' /\ needs_pre' = needs_pre
  BY <1>4, <1>5, SamePlaces DEF Holds
<1>7. QED
  BY <1>3, <1>5, <1>6 DEF ForwardInv, BodyInv

LEMMA MarkText ==
  ASSUME TextInv, Mark
  PROVE  ForwardInv' /\ BodyInv'
<1>0. Inv /\ pc = "sorted" /\ N \in Nat
  BY OrderAssumption DEF TextInv, EmitInv, SortedInv, Mark
<1>1. /\ phase = "mark" /\ phase' = "messages" /\ next' = 1 /\ hoist' = NamedBefore
      /\ text' = text /\ predeclared' = predeclared /\ UNCHANGED orderVars
  BY DEF Mark
<1>2. Holds(1, {}, {}) /\ predeclared = needs_pre
  BY <1>1 DEF TextInv, BodyInv, ForwardInv
<1>3. Holds(Base(1), {}, {})
  <2>1. Base(1) \in Int /\ 1 <= Base(1) /\ -N \in Int
    BY <1>0 DEF Base
  <2>2. QED
    BY <1>2, <2>1, Widen DEF Holds
<1>4. Holds(1, {}, {})' /\ Holds(Base(next), FirstOf(items, next), FirstOf(items, next))'
  BY <1>1, <1>2, <1>3, SamePlaces, FirstOfNone DEF Holds, Base
<1>5. QED
  BY <1>0, <1>1, <1>2, <1>4, SamePlaces DEF ForwardInv, BodyInv

(* Without readers to hoist a message goes to the text in one piece.       *)
LEMMA EmitMessageText ==
  ASSUME TextInv, EmitMessage
  PROVE  ForwardInv' /\ BodyInv'
<1> DEFINE m == items[next]
           B == FirstOf(items, next)
<1>0. Inv /\ pc = "sorted" /\ N \in Nat
  BY OrderAssumption DEF TextInv, EmitInv, SortedInv, EmitMessage
<1>1. /\ phase = "messages" /\ phase' = phase /\ next' = next + 1 /\ hoist = {} /\ hoist' = hoist
      /\ predeclared' = predeclared /\ UNCHANGED orderVars
  BY DEF EmitMessage
<1>2. /\ next \in 1..N /\ next + 1 \in 1..(N + 1) /\ m \in Idx
      /\ predeclared = needs_pre /\ hoist = NamedBefore
  BY <1>0, <1>1, Listed DEF EmitMessage, TextInv, BodyInv, ForwardInv
<1>3. Holds(Base(next), B, B)
  BY <1>1 DEF TextInv, BodyInv
<1>4. Stretch(Place, Rest(m), Base(next), Base(next + 1),
              Bodies({m}, needs_pre) \cup Readers({m}, needs_pre))
  <2>1. {m} \ hoist = {m}
    BY <1>1
  <2>2. QED
    BY <1>0, <1>2, <2>1, RestStretch
<1>5. text' = text \o Rest(m)
  <2>1. Writer(m) \in Seq(Parts) /\ Reader(m) \in Seq(Parts) /\ Methods(m) \in Seq(Parts)
    BY <1>0, <1>2, PiecesOf DEF Stretch
  <2>2. text \in Seq(Parts)
    BY <1>3 DEF Holds, Stretch
  <2>3. text' = ((text \o Writer(m)) \o Reader(m)) \o Methods(m)
    BY DEF EmitMessage
  <2>4. Rest(m) = (Writer(m) \o Reader(m)) \o Methods(m)
    BY <1>1 DEF Rest
  <2>5. Writer(m) \o Reader(m) \in Seq(Parts)
    BY <2>1, ConcatProperties
  <2>6. (text \o Writer(m)) \o Reader(m) = text \o (Writer(m) \o Reader(m))
    BY <2>1, <2>2, ConcatAssociative
  <2>7. (text \o (Writer(m) \o Reader(m))) \o Methods(m)
          = text \o ((Writer(m) \o Reader(m)) \o Methods(m))
    BY <2>1, <2>2, <2>5, ConcatAssociative
  <2>8. QED
    BY <2>3, <2>4, <2>6, <2>7
<1>6. FirstOf(items, next + 1) = B \cup {m}
  BY <1>2, FirstOfNext
<1> HIDE DEF m, B
<1>7. Base(next) \in Int /\ Base(next + 1) \in Int /\ -N <= Base(next) /\ Base(next) <= Base(next + 1)
  BY <1>0, <1>2 DEF Base
<1>8. Stretch(Place, text', -N, Base(next + 1),
              Forwards(needs_pre) \cup Bodies(B \cup {m}, needs_pre)
                                  \cup Readers(B \cup {m}, needs_pre))
  <2>1. Stretch(Place, text, -N, Base(next),
                Forwards(needs_pre) \cup Bodies(B, needs_pre) \cup Readers(B, needs_pre))
    BY <1>3 DEF Holds
  <2>2. Stretch(Place, text \o Rest(m), -N, Base(next + 1),
                Forwards(needs_pre) \cup Bodies(B \cup {m}, needs_pre)
                                    \cup Readers(B \cup {m}, needs_pre))
    BY <1>4, <1>7, <2>1, Grow
  <2>3. QED
    BY <1>5, <2>2
<1>9. Holds(Base(next), FirstOf(items, next), FirstOf(items, next))'
  BY <1>1, <1>6, <1>8, SamePlaces DEF Holds, Base
<1>10. QED
  BY <1>1, <1>2, <1>9, SamePlaces DEF ForwardInv, BodyInv
LEMMA EmitDoneText ==
  ASSUME TextInv, EmitDone
  PROVE  ForwardInv' /\ BodyInv'
<1>0. Inv /\ pc = "sorted" /\ N \in Nat
  BY OrderAssumption DEF TextInv, EmitInv, SortedInv, EmitDone
<1>1. /\ phase = "messages" /\ phase' = (IF hoist = {} THEN "emitted" ELSE "readers")
      /\ next' = 1 /\ hoist' = hoist /\ text' = text
      /\ predeclared' = predeclared /\ UNCHANGED orderVars
  BY DEF EmitDone
<1>2. predeclared = needs_pre /\ hoist = NamedBefore /\ next = N + 1
  BY <1>0, <1>1, Listed DEF EmitDone, TextInv, BodyInv, ForwardInv
<1>3. CASE hoist = {}
  <2>1. Holds(Base(N + 1), Idx, Idx)
    BY <1>0, <1>1, <1>2, <1>3, AllListed DEF TextInv, BodyInv
  <2>2. Holds(Base(N + 1), Idx, Idx)'
    BY <1>1, <2>1, SamePlaces DEF Holds, Base, Idx
  <2>3. QED
    BY <1>1, <1>2, <1>3, <2>2, SamePlaces DEF ForwardInv, BodyInv
<1>4. CASE hoist # {}
  <2>1. Holds(1, {}, {})
    BY <1>1, <1>4 DEF TextInv, BodyInv
  <2>2. hoist \cap FirstOf(items, 1) = {}
    BY FirstOfNone
  <2>3. Holds(next, {}, hoist \cap FirstOf(items, next))'
    BY <1>1, <2>1, <2>2, SamePlaces DEF Holds
  <2>4. QED
    BY <1>0, <1>1, <1>2, <1>4, <2>3, SamePlaces DEF ForwardInv, BodyInv
<1>5. QED
  BY <1>3, <1>4

LEMMA CopyReaderText ==
  ASSUME TextInv, CopyReader
  PROVE  ForwardInv' /\ BodyInv'
<1> DEFINE m == items[next]
           R == hoist \cap FirstOf(items, next)
<1>0. Inv /\ pc = "sorted" /\ N \in Nat
  BY OrderAssumption DEF TextInv, EmitInv, SortedInv, CopyReader
<1>1. /\ phase = "readers" /\ phase' = phase /\ next' = next + 1 /\ hoist' = hoist
      /\ text' = (IF m \in hoist THEN text \o Reader(m) ELSE text)
      /\ predeclared' = predeclared /\ UNCHANGED orderVars
  BY DEF CopyReader
<1>2. /\ next \in 1..N /\ next + 1 \in 1..(N + 1) /\ m \in Idx
      /\ predeclared = needs_pre /\ hoist = NamedBefore
  BY <1>0, <1>1, Listed DEF CopyReader, TextInv, BodyInv, ForwardInv
<1>3. Holds(next, {}, R)
  BY <1>1 DEF TextInv, BodyInv
<1>4. m \in NamedBefore => Stretch(Place, Reader(m), next, next + 1, Readers({m}, needs_pre))
  BY <1>0, <1>2, PiecesOf
<1>5. hoist \cap FirstOf(items, next + 1) = IF m \in hoist THEN R \cup {m} ELSE R
  BY <1>2, FirstOfNext
<1> HIDE DEF m, R
<1>6. next \in Int /\ next + 1 \in Int /\ -N \in Int /\ -N <= next /\ next <= next + 1
  BY <1>0, <1>2
<1>7. Holds(next, {}, hoist \cap FirstOf(items, next))'
  <2>1. CASE m \in hoist
    <3>1. Stretch(Place, Reader(m), next, next + 1,
                  Bodies({}, needs_pre) \cup Readers({m}, needs_pre))
      BY <1>2, <1>4, <2>1, NoParts
    <3>2. Stretch(Place, text \o Reader(m), -N, next + 1,
                  Forwards(needs_pre) \cup Bodies({} \cup {}, needs_pre)
                                      \cup Readers(R \cup {m}, needs_pre))
      BY <1>3, <1>6, <3>1, Grow DEF Holds
    <3>3. {} \cup {} = {}
      OBVIOUS
    <3>4. QED
      BY <1>1, <1>5, <2>1, <3>2, <3>3, SamePlaces DEF Holds
  <2>2. CASE m \notin hoist
    <3>1. Holds(next + 1, {}, R)
      BY <1>3, <1>6, Widen DEF Holds
    <3>2. QED
      BY <1>1, <1>5, <2>2, <3>1, SamePlaces DEF Holds
  <2>3. QED
    BY <2>1, <2>2
<1>8. QED
  BY <1>1, <1>2, <1>7, SamePlaces DEF ForwardInv, BodyInv

LEMMA ReadersDoneText ==
  ASSUME TextInv, ReadersDone
  PROVE  ForwardInv' /\ BodyInv'
<1>0. Inv /\ pc = "sorted" /\ N \in Nat
  BY OrderAssumption DEF TextInv, EmitInv, SortedInv, ReadersDone
<1>1. /\ phase = "readers" /\ phase' = "rest" /\ next' = 1 /\ hoist' = hoist /\ text' = text
      /\ predeclared' = predeclared /\ UNCHANGED orderVars
  BY DEF ReadersDone
<1>2. predeclared = needs_pre /\ hoist = NamedBefore /\ next = N + 1
  BY <1>0, <1>1, Listed DEF ReadersDone, TextInv, BodyInv, ForwardInv
<1>3. hoist \cap Idx = hoist
  BY <1>0, <1>2, Listed DEF NamedBefore
<1>4. Holds(N + 1, {}, hoist)
  BY <1>0, <1>1, <1>2, <1>3, AllListed DEF TextInv, BodyInv
<1>5. Holds(Base(1), {}, hoist)
  <2>1. N + 1 \in Int /\ Base(1) \in Int /\ N + 1 <= Base(1) /\ -N \in Int
    BY <1>0 DEF Base
  <2>2. QED
    BY <1>4, <2>1, Widen DEF Holds
<1>6. Holds(Base(next), FirstOf(items, next), hoist \cup FirstOf(items, next))'
  <2>1. hoist \cup {} = hoist
    OBVIOUS
  <2>2. QED
    BY <1>1, <1>5, <2>1, FirstOfNone, SamePlaces DEF Holds, Base
<1>7. QED
  BY <1>0, <1>1, <1>2, <1>6, SamePlaces DEF ForwardInv, BodyInv

LEMMA CopyRestText ==
  ASSUME TextInv, CopyRest
  PROVE  ForwardInv' /\ BodyInv'
<1> DEFINE m == items[next]
           B == FirstOf(items, next)
<1>0. Inv /\ pc = "sorted" /\ N \in Nat
  BY OrderAssumption DEF TextInv, EmitInv, SortedInv, CopyRest
<1>1. /\ phase = "rest" /\ phase' = phase /\ next' = next + 1 /\ hoist' = hoist
      /\ text' = text \o Rest(m)
      /\ predeclared' = predeclared /\ UNCHANGED orderVars
  BY DEF CopyRest
<1>2. /\ next \in 1..N /\ next + 1 \in 1..(N + 1)
      /\ predeclared = needs_pre /\ hoist = NamedBefore
  BY <1>0, <1>1, Listed DEF CopyRest, TextInv, BodyInv, ForwardInv
<1>3. Holds(Base(next), B, hoist \cup B)
  BY <1>1 DEF TextInv, BodyInv
<1>4. Stretch(Place, Rest(m), Base(next), Base(next + 1),
              Bodies({m}, needs_pre) \cup Readers({m} \ hoist, needs_pre))
  BY <1>0, <1>2, RestStretch
<1>5. FirstOf(items, next + 1) = B \cup {m}
  BY <1>2, FirstOfNext
<1> HIDE DEF m, B
<1>6. Base(next) \in Int /\ Base(next + 1) \in Int /\ -N <= Base(next) /\ Base(next) <= Base(next + 1)
  BY <1>0, <1>2 DEF Base
<1>7. Stretch(Place, text', -N, Base(next + 1),
              Forwards(needs_pre) \cup Bodies(B \cup {m}, needs_pre)
                                  \cup Readers((hoist \cup B) \cup ({m} \ hoist), needs_pre))
  BY <1>1, <1>3, <1>4, <1>6, Grow DEF Holds
<1>8. (hoist \cup B) \cup ({m} \ hoist) = hoist \cup (B \cup {m})
  OBVIOUS
<1>9. Holds(Base(next), FirstOf(items, next), hoist \cup FirstOf(items, next))'
  BY <1>1, <1>5, <1>7, <1>8, SamePlaces DEF Holds, Base
<1>10. QED
  BY <1>1, <1>2, <1>9, SamePlaces DEF ForwardInv, BodyInv

LEMMA RestDoneText ==
  ASSUME TextInv, RestDone
  PROVE  ForwardInv' /\ BodyInv'
<1>0. Inv /\ pc = "sorted" /\ N \in Nat
  BY OrderAssumption DEF TextInv, EmitInv, SortedInv, RestDone
<1>1. /\ phase = "rest" /\ phase' = "emitted" /\ hoist' = hoist /\ text' = text
      /\ predeclared' = predeclared /\ UNCHANGED orderVars
  BY DEF RestDone
<1>2. predeclared = needs_pre /\ hoist = NamedBefore /\ next = N + 1
  BY <1>0, <1>1, Listed DEF RestDone, TextInv, BodyInv, ForwardInv
<1>3. hoist \cup Idx = Idx
  BY <1>0, <1>2, Listed DEF NamedBefore
<1>4. Holds(Base(N + 1), Idx, Idx)
  BY <1>0, <1>1, <1>2, <1>3, AllListed DEF TextInv, BodyInv
<1>5. Holds(Base(N + 1), Idx, Idx)'
  BY <1>1, <1>4, SamePlaces DEF Holds, Base, Idx
<1>6. QED
  BY <1>1, <1>2, <1>5, SamePlaces DEF ForwardInv, BodyInv

LEMMA TextStep == TextInv /\ [Next]_vars => TextInv'
<1> SUFFICES ASSUME TextInv, [Next]_vars PROVE ForwardInv' /\ BodyInv'
  BY EmitStep DEF TextInv
<1>1. CASE Sort
  <2>1. phase = "ahead"
    BY <1>1 DEF Sort, OrderNext, Alloc, SkipRoot, StartTree, Retire, PassOver, BackEdge, Push,
       SortDone, TextInv, EmitInv, SortedInv
  <2>2. QED
    BY <1>1, <2>1 DEF Sort, emitVars, TextInv, ForwardInv, BodyInv
<1>2. CASE NamesAhead
  <2>1. /\ phase = "ahead" /\ phase' = "forward" /\ pc = "sorted"
        /\ UNCHANGED <<orderVars, next, predeclared, hoist, text>>
    BY <1>2 DEF NamesAhead
  <2>2. text = <<>> /\ predeclared = {} /\ hoist = {} /\ next = 1
    BY <2>1 DEF TextInv, ForwardInv
  <2>3. 1 \in 1..(Len(predeclare) + 1)
    BY <2>1, PredeclareLists DEF TextInv, EmitInv
  <2>4. Forwards(FirstOf(predeclare, 1)) = {} /\ FirstOf(predeclare, 1) = {}
    BY FirstOfNone DEF Forwards
  <2>5. Stretch(Place, <<>>, -N, ForwardEnd(1), {})
    BY Empty
  <2>6. /\ Place' = Place /\ predeclare' = predeclare /\ needs_pre' = needs_pre
        /\ ForwardEnd(1)' = ForwardEnd(1)
    BY <2>1, SamePlaces DEF ForwardEnd
  <2>7. QED
    BY <2>1, <2>2, <2>3, <2>4, <2>5, <2>6 DEF ForwardInv, BodyInv, ForwardEnd
<1>3. CASE Forward
  BY <1>3, ForwardText DEF Forward, BodyInv
<1>4. CASE ForwardDone
  BY <1>4, ForwardDoneText
<1>5. CASE Mark
  BY <1>5, MarkText
<1>6. CASE EmitMessage
  BY <1>6, EmitMessageText
<1>7. CASE EmitMarked
  <2>1. /\ phase = "messages" /\ phase' = phase /\ next' = next + 1 /\ next <= Len(items)
        /\ hoist # {} /\ UNCHANGED <<orderVars, predeclared, hoist, text>>
    BY <1>7 DEF EmitMarked
  <2>2. next \in 1..(N + 1) /\ next <= N
    BY <2>1, Listed DEF TextInv, EmitInv, SortedInv, BodyInv
  <2>3. Holds(1, {}, {})'
    BY <2>1, SamePlaces DEF TextInv, BodyInv, Holds
  <2>4. QED
    BY <2>1, <2>2, <2>3, SamePlaces, OrderAssumption DEF TextInv, ForwardInv, BodyInv
<1>8. CASE EmitDone
  BY <1>8, EmitDoneText
<1>9. CASE CopyReader
  BY <1>9, CopyReaderText
<1>10. CASE ReadersDone
  BY <1>10, ReadersDoneText
<1>11. CASE CopyRest
  BY <1>11, CopyRestText
<1>12. CASE RestDone
  BY <1>12, RestDoneText
<1>13. CASE LearnDone
  <2>1. /\ phase = "emitted" /\ phase' = "forward" /\ pc = "sorted"
        /\ text' = <<>> /\ hoist' = {} /\ next' = 1 /\ predeclared' = predeclared
        /\ UNCHANGED orderVars
    BY <1>13 DEF LearnDone, TextInv, EmitInv, SortedInv
  <2>2. predeclared = needs_pre
    BY <2>1 DEF TextInv, ForwardInv
  <2>3. 1 \in 1..(Len(predeclare) + 1)
    BY <2>1, PredeclareLists DEF TextInv, EmitInv
  <2>4. Forwards(FirstOf(predeclare, 1)) = {} /\ FirstOf(predeclare, 1) = {}
    BY FirstOfNone DEF Forwards
  <2>5. Stretch(Place, <<>>, -N, ForwardEnd(1), {})
    BY Empty
  <2>6. /\ Place' = Place /\ predeclare' = predeclare /\ needs_pre' = needs_pre
        /\ ForwardEnd(1)' = ForwardEnd(1)
    BY <2>1, SamePlaces DEF ForwardEnd
  <2>7. QED
    BY <2>1, <2>2, <2>3, <2>4, <2>5, <2>6 DEF ForwardInv, BodyInv, ForwardEnd
<1>14. CASE FileDone
  <2>1. /\ phase = "emitted" /\ phase' = "done"
        /\ UNCHANGED <<orderVars, next, predeclared, hoist, text>>
    BY <1>14 DEF FileDone
  <2>2. Holds(Base(N + 1), Idx, Idx)'
    BY <2>1, SamePlaces DEF TextInv, BodyInv, Holds, Base, Idx
  <2>3. QED
    BY <2>1, <2>2, SamePlaces DEF TextInv, ForwardInv, BodyInv
<1>15. CASE Fails
  BY <1>15 DEF Fails, ForwardInv, BodyInv
<1>16. CASE UNCHANGED vars
  <2>1. UNCHANGED <<orderVars, phase, next, predeclared, hoist, text>>
    BY <1>16 DEF vars, emitVars
  <2>2. ForwardEnd(next)' = ForwardEnd(next)
    BY <2>1, SamePlaces DEF ForwardEnd
  <2>3. QED
    BY <2>1, <2>2, SamePlaces DEF TextInv, ForwardInv, BodyInv, Holds, Base, Idx
<1>17. QED
  BY <1>1, <1>2, <1>3, <1>4, <1>5, <1>6, <1>7, <1>8, <1>9, <1>10, <1>11, <1>12, <1>13,
     <1>14, <1>15, <1>16 DEF Next

LEMMA TextHolds == Spec => []TextInv
<1>1. Init => TextInv
  BY EmitInit, TextInit DEF TextInv
<1>2. QED
  BY <1>1, TextStep, PTL DEF Spec

-----------------------------------------------------------------------------
(* The finished text: where its parts are.                                 *)

BodyParts == {"writer", "reader", "init", "getters"}

Final(p, m) == IF p \in {"writer", "reader"} THEN StructOf(p, m, needs_pre) ELSE Part(p, m)

LEMMA Whole ==
  ASSUME TextInv, phase = "done"
  PROVE  /\ Inv /\ pc = "sorted" /\ DOMAIN text \subseteq Int
         /\ \A k \in DOMAIN text :
              \/ \E m \in needs_pre : text[k] = Typed("forward", m)
              \/ \E p \in BodyParts, m \in Idx : text[k] = Final(p, m)
         /\ \A m \in needs_pre : \E k \in DOMAIN text : text[k] = Typed("forward", m)
         /\ \A p \in BodyParts, m \in Idx : \E k \in DOMAIN text : text[k] = Final(p, m)
         /\ \A j, k \in DOMAIN text : Place[text[j]] < Place[text[k]] => j < k
         /\ \A j, k \in DOMAIN text : text[j] = text[k] => j = k
<1> DEFINE E == Forwards(needs_pre) \cup Bodies(Idx, needs_pre) \cup Readers(Idx, needs_pre)
<1>1. Inv /\ pc = "sorted"
  BY DEF TextInv, EmitInv, SortedInv
<1>2. Stretch(Place, text, -N, Base(N + 1), E)
  BY DEF TextInv, BodyInv, Holds
<1>3. DOMAIN text = 1..Len(text)
  BY <1>2, LenProperties DEF Stretch
<1>4. \A q : q \in E <=> \E k \in DOMAIN text : text[k] = q
  <2> HIDE DEF E
  <2>1. {text[k] : k \in DOMAIN text} = E
    BY <1>2, <1>3 DEF Stretch
  <2>2. QED
    BY <2>1
<1>5. \A k \in DOMAIN text : Place[text[k]] \in Int
  BY <1>2, <1>3 DEF Stretch
<1>6. \A j, k \in DOMAIN text : j < k => Place[text[j]] < Place[text[k]]
  BY <1>2, <1>3 DEF Stretch
<1>7. \A j, k \in DOMAIN text : Place[text[j]] < Place[text[k]] => j < k
  <2>1. TAKE j, k \in DOMAIN text
  <2>2. HAVE Place[text[j]] < Place[text[k]]
  <2>3. j # k /\ ~(k < j)
    BY <1>5, <1>6, <2>2
  <2>4. QED
    BY <1>3, <2>3
<1>8. \A j, k \in DOMAIN text : text[j] = text[k] => j = k
  <2>1. TAKE j, k \in DOMAIN text
  <2>2. HAVE text[j] = text[k]
  <2>3. ~(j < k) /\ ~(k < j)
    BY <1>5, <1>6, <2>2
  <2>4. QED
    BY <1>3, <2>3
<1>9. \A q \in E : \/ \E m \in needs_pre : q = Typed("forward", m)
                  \/ \E p \in BodyParts, m \in Idx : q = Final(p, m)
  BY DEF Forwards, Bodies, Readers, Final, BodyParts
<1>10. \A m \in needs_pre : Typed("forward", m) \in E
  BY DEF Forwards
<1>11. \A p \in BodyParts, m \in Idx : Final(p, m) \in E
  BY DEF Bodies, Readers, Final, BodyParts
<1> HIDE DEF E
<1>12. QED
  BY <1>1, <1>3, <1>4, <1>7, <1>8, <1>9, <1>10, <1>11

LEMMA FieldsOfParts ==
  ASSUME NEW p, NEW m
  PROVE  /\ Typed(p, m).part = p /\ Typed(p, m).of = m
         /\ Final(p, m).part = p /\ Final(p, m).of = m
BY DEF Typed, Part, Final, StructOf

LEMMA TypedefsOfParts ==
  ASSUME NEW p, NEW m
  PROVE  Typed(p, m).typedef /\ ~Part(p, m).typedef
BY DEF Typed, Part

LEMMA AtBody ==
  ASSUME TextInv, phase = "done", NEW p \in BodyParts, NEW m \in Idx
  PROVE  \E k \in DOMAIN text : At(p, m) = {k} /\ text[k] = Final(p, m)
<1>1. PICK k \in DOMAIN text : text[k] = Final(p, m)
  BY Whole
<1>2. k \in At(p, m)
  BY <1>1, FieldsOfParts DEF At
<1>3. ASSUME NEW j \in At(p, m) PROVE j = k
  <2>1. j \in DOMAIN text /\ text[j].part = p /\ text[j].of = m
    BY <1>3 DEF At
  <2>2. ~\E x \in needs_pre : text[j] = Typed("forward", x)
    BY <2>1, FieldsOfParts DEF BodyParts
  <2>3. PICK y \in BodyParts, x \in Idx : text[j] = Final(y, x)
    BY <2>1, <2>2, Whole
  <2>4. y = p /\ x = m
    BY <2>1, <2>3, FieldsOfParts
  <2>5. QED
    BY <1>1, <2>1, <2>3, <2>4, Whole
<1>4. QED
  BY <1>1, <1>2, <1>3

LEMMA AtForward ==
  ASSUME TextInv, phase = "done", NEW m \in Idx
  PROVE  /\ m \in needs_pre =>
              \E k \in DOMAIN text : At("forward", m) = {k} /\ text[k] = Typed("forward", m)
         /\ m \notin needs_pre => At("forward", m) = {}
<1>1. ASSUME NEW j \in At("forward", m) PROVE m \in needs_pre /\ text[j] = Typed("forward", m)
  <2>1. j \in DOMAIN text /\ text[j].part = "forward" /\ text[j].of = m
    BY <1>1 DEF At
  <2>2. ~\E p \in BodyParts, x \in Idx : text[j] = Final(p, x)
    BY <2>1, FieldsOfParts DEF BodyParts
  <2>3. PICK x \in needs_pre : text[j] = Typed("forward", x)
    BY <2>1, <2>2, Whole
  <2>4. x = m
    BY <2>1, <2>3, FieldsOfParts
  <2>5. QED
    BY <2>3, <2>4
<1>2. ASSUME m \in needs_pre
      PROVE  \E k \in DOMAIN text : At("forward", m) = {k} /\ text[k] = Typed("forward", m)
  <2>1. PICK k \in DOMAIN text : text[k] = Typed("forward", m)
    BY <1>2, Whole
  <2>2. k \in At("forward", m)
    BY <2>1, FieldsOfParts DEF At
  <2>3. \A j \in At("forward", m) : j = k
    BY <1>1, <2>1, Whole DEF At
  <2>4. QED
    BY <2>1, <2>2, <2>3
<1>3. QED
  BY <1>1, <1>2

(* The places of a message's parts, by their names.                        *)
LEMMA PlaceOfFinal ==
  ASSUME Inv, pc = "sorted", NEW m \in Idx
  PROVE  /\ Position(m) \in 1..N /\ Base(Position(m)) \in Int /\ N < Base(Position(m))
         /\ Place[Typed("forward", m)] < 0 /\ Place[Typed("forward", m)] \in Int
         /\ Place[Final("writer", m)] = Base(Position(m))
         /\ Place[Final("reader", m)] =
              IF m \in NamedBefore THEN Position(m) ELSE Base(Position(m)) + 1
         /\ Place[Final("init", m)] = Base(Position(m)) + 2
         /\ Place[Final("getters", m)] = Base(Position(m)) + 3
<1>1. Position(m) \in 1..N
  BY Listed
<1>2. Base(Position(m)) \in Int /\ N < Base(Position(m))
  BY <1>1, OrderAssumption DEF Base
<1>3. Place[Typed("forward", m)] < 0 /\ Place[Typed("forward", m)] \in Int
  BY PlaceOf, OrderAssumption DEF Idx
<1>4. /\ Final("writer", m) = StructOf("writer", m, needs_pre)
      /\ Final("reader", m) = StructOf("reader", m, needs_pre)
      /\ Final("init", m) = Part("init", m) /\ Final("getters", m) = Part("getters", m)
  BY DEF Final
<1>5. QED
  BY <1>1, <1>2, <1>3, <1>4, PlaceOf

-----------------------------------------------------------------------------
(* The hoisting of readers in emit_messages_hoisted neither loses nor      *)
(* repeats a part of a header, and no typedef is written twice, whatever   *)
(* the messages of the file hold.                                          *)
THEOREM EveryPartOnce == Spec => []DeclaredOnce
<1>1. ASSUME TextInv, phase = "done", NEW m \in Idx
      PROVE  /\ \A p \in BodyParts : Cardinality(At(p, m)) = 1
             /\ \A k \in At("init", m) : Above({"reader"}, m, k)
             /\ \A p \in {"writer", "reader"} :
                  LET places == At("forward", m) \cup At(p, m)
                  IN  {k \in places : text[k].typedef}
                        = {CHOOSE k \in places : \A j \in places : k <= j}
  <2>0. Inv /\ pc = "sorted" /\ DOMAIN text \subseteq Int
    BY <1>1, Whole
  <2>1. ASSUME NEW p \in BodyParts PROVE Cardinality(At(p, m)) = 1
    <3>1. PICK k : At(p, m) = {k}
      BY <1>1, AtBody
    <3>2. QED
      BY <3>1, FS_Singleton
  <2>2. ASSUME NEW k \in At("init", m) PROVE Above({"reader"}, m, k)
    <3>1. k \in DOMAIN text /\ text[k] = Final("init", m)
      BY <1>1, <2>2, AtBody DEF BodyParts
    <3>2. PICK j \in DOMAIN text : At("reader", m) = {j} /\ text[j] = Final("reader", m)
      BY <1>1, AtBody DEF BodyParts
    <3>3. Place[Final("reader", m)] < Place[Final("init", m)]
      <4>1. Position(m) \in Int /\ Position(m) < Base(Position(m)) /\ Base(Position(m)) \in Int
        BY <2>0, PlaceOfFinal, OrderAssumption
      <4>2. QED
        BY <2>0, <4>1, PlaceOfFinal
    <3>4. j < k
      BY <1>1, <3>1, <3>2, <3>3, Whole
    <3>5. QED
      BY <3>2, <3>4 DEF Above
  <2>3. ASSUME NEW p \in {"writer", "reader"}
        PROVE  LET places == At("forward", m) \cup At(p, m)
               IN  {k \in places : text[k].typedef}
                     = {CHOOSE k \in places : \A j \in places : k <= j}
    <3>1. PICK q \in DOMAIN text : At(p, m) = {q} /\ text[q] = Final(p, m)
      BY <1>1, AtBody DEF BodyParts
    <3>2. q \in Int
      BY <2>0
    <3>3. CASE m \in needs_pre
      <4>1. PICK f \in DOMAIN text : At("forward", m) = {f} /\ text[f] = Typed("forward", m)
        BY <1>1, <3>3, AtForward
      <4>2. ~text[q].typedef /\ text[f].typedef
        <5>1. Final(p, m) = Part(p, m)
          BY <3>3 DEF Final, StructOf
        <5>2. QED
          BY <3>1, <4>1, <5>1, TypedefsOfParts
      <4>3. Place[text[f]] < Place[text[q]]
        <5>1. 0 <= Place[Final("writer", m)] /\ 0 <= Place[Final("reader", m)]
          BY <2>0, PlaceOfFinal, OrderAssumption
        <5>2. 0 <= Place[text[q]]
          BY <3>1, <5>1
        <5>3. Place[text[f]] < 0 /\ Place[text[f]] \in Int /\ Place[text[q]] \in Int
          BY <2>0, <3>1, <4>1, PlaceOfFinal, OrderAssumption
        <5>4. QED
          BY <5>2, <5>3
      <4>4. f < q /\ f \in Int
        BY <1>1, <2>0, <4>3, Whole
      <4> DEFINE places == At("forward", m) \cup At(p, m)
      <4>5. places = {f, q}
        BY <3>1, <4>1
      <4>6. {k \in places : text[k].typedef} = {f}
        BY <4>2, <4>5
      <4>7. \A k \in places : (\A j \in places : k <= j) <=> k = f
        BY <3>2, <4>4, <4>5
      <4>8. (CHOOSE k \in places : \A j \in places : k <= j) = f
        BY <4>5, <4>7
      <4>9. QED
        BY <4>6, <4>8
    <3>4. CASE m \notin needs_pre
      <4>1. At("forward", m) = {}
        BY <1>1, <3>4, AtForward
      <4>2. text[q].typedef
        <5>1. Final(p, m) = Typed(p, m)
          BY <3>4 DEF Final, StructOf
        <5>2. QED
          BY <3>1, <5>1, TypedefsOfParts
      <4> DEFINE places == At("forward", m) \cup At(p, m)
      <4>3. places = {q}
        BY <3>1, <4>1
      <4>4. {k \in places : text[k].typedef} = {q}
        BY <4>2, <4>3
      <4>5. (CHOOSE k \in places : \A j \in places : k <= j) = q
        BY <3>2, <4>3
      <4>6. QED
        BY <4>4, <4>5
    <3>5. QED
      BY <3>3, <3>4
  <2>4. QED
    BY <2>1, <2>2, <2>3
<1>2. TextInv => DeclaredOnce
  BY <1>1 DEF DeclaredOnce, BodyParts
<1>3. QED
  BY <1>2, TextHolds, PTL

(* The generated header compiles whatever the messages of the file hold:   *)
(* forward declarations, hoisted readers and the order of messages put     *)
(* everything above its use.                                               *)
THEOREM HeaderInOrder == Spec => []DeclaredBeforeUse
<1>1. ASSUME TextInv, phase = "done", NEW m \in Idx, NEW t \in Idx, t \in Held(m)
      PROVE  /\ \A k \in At("writer", m) : Above({"forward", "writer"}, t, k)
             /\ \A k \in At("getters", m) :
                  Above({"reader"}, t, k) /\ Above({"forward", "init"}, t, k)
  <2>0. Inv /\ pc = "sorted" /\ DOMAIN text \subseteq Int /\ N \in Nat
    BY <1>1, Whole, OrderAssumption
  <2>1. Position(t) \in 1..N /\ Position(m) \in 1..N
    BY <2>0, Listed
  <2>2. t \notin needs_pre => Position(t) < Position(m)
    <3>1. SUFFICES ASSUME t \notin needs_pre PROVE Position(t) < Position(m)
      OBVIOUS
    <3>2. color[m] = "black"
      BY <2>0, OrderAssumption DEF Inv, PhaseInv, RootInv, Idx
    <3>3. Before(t, m)
      BY <1>1, <2>0, <3>1, <3>2 DEF Inv, FlaggedInv
    <3>4. QED
      BY <2>0, <3>3, Listed DEF Before
  <2>3. t \notin NamedBefore => Position(t) <= Position(m)
    <3>1. SUFFICES ASSUME Position(m) < Position(t) PROVE t \in NamedBefore
      BY <2>1
    <3>2. /\ Position(t) \in DOMAIN items /\ Position(m) \in 1..(Position(t) - 1)
          /\ items[Position(t)] = t /\ items[Position(m)] = m
      BY <2>0, <2>1, <3>1, Listed
    <3>3. QED
      BY <1>1, <3>2 DEF NamedBefore
  <2>4. /\ t \notin needs_pre => Base(Position(t)) + 4 <= Base(Position(m))
        /\ t \notin NamedBefore => Base(Position(t)) <= Base(Position(m))
    BY <2>0, <2>1, <2>2, <2>3 DEF Base
  <2>5. ASSUME NEW p \in BodyParts, NEW k \in At(p, m),
               NEW q \in BodyParts, Place[Final(q, t)] < Place[Final(p, m)]
        PROVE  \E j \in At(q, t) : j < k
    <3>1. k \in DOMAIN text /\ text[k] = Final(p, m)
      BY <1>1, <2>5, AtBody
    <3>2. PICK j \in DOMAIN text : At(q, t) = {j} /\ text[j] = Final(q, t)
      BY <1>1, AtBody
    <3>3. j < k
      BY <1>1, <2>5, <3>1, <3>2, Whole
    <3>4. QED
      BY <3>2, <3>3
  <2>6. ASSUME NEW p \in {"writer", "getters"}, NEW k \in At(p, m), t \in needs_pre
        PROVE  \E j \in At("forward", t) : j < k
    <3>1. k \in DOMAIN text /\ text[k] = Final(p, m)
      BY <1>1, <2>6, AtBody DEF BodyParts
    <3>2. PICK j \in DOMAIN text : At("forward", t) = {j} /\ text[j] = Typed("forward", t)
      BY <1>1, <2>6, AtForward
    <3>3. Place[text[j]] < Place[text[k]]
      BY <2>0, <3>1, <3>2, PlaceOfFinal
    <3>4. QED
      BY <1>1, <3>1, <3>2, <3>3, Whole
  <2>7. ASSUME NEW k \in At("writer", m) PROVE Above({"forward", "writer"}, t, k)
    <3>1. CASE t \in needs_pre
      BY <2>6, <2>7, <3>1 DEF Above
    <3>2. CASE t \notin needs_pre
      <4>1. Place[Final("writer", t)] < Place[Final("writer", m)]
        BY <2>0, <2>4, <3>2, PlaceOfFinal
      <4>2. QED
        BY <2>5, <2>7, <4>1 DEF Above, BodyParts
    <3>3. QED
      BY <3>1, <3>2
  <2>8. ASSUME NEW k \in At("getters", m) PROVE Above({"forward", "init"}, t, k)
    <3>1. CASE t \in needs_pre
      BY <2>6, <2>8, <3>1 DEF Above
    <3>2. CASE t \notin needs_pre
      <4>1. Place[Final("init", t)] < Place[Final("getters", m)]
        BY <2>0, <2>4, <3>2, PlaceOfFinal
      <4>2. QED
        BY <2>5, <2>8, <4>1 DEF Above, BodyParts
    <3>3. QED
      BY <3>1, <3>2
  <2>9. ASSUME NEW k \in At("getters", m) PROVE Above({"reader"}, t, k)
    <3>1. Place[Final("reader", t)] < Place[Final("getters", m)]
      <4>1. CASE t \in NamedBefore
        BY <2>0, <2>1, <4>1, PlaceOfFinal
      <4>2. CASE t \notin NamedBefore
        BY <2>0, <2>4, <4>2, PlaceOfFinal
      <4>3. QED
        BY <4>1, <4>2
    <3>2. QED
      BY <2>5, <2>9, <3>1 DEF Above, BodyParts
  <2>10. QED
    BY <2>7, <2>8, <2>9
<1>2. TextInv => DeclaredBeforeUse
  BY <1>1 DEF DeclaredBeforeUse
<1>3. QED
  BY <1>2, TextHolds, PTL

-----------------------------------------------------------------------------
EmitTypes ==
  /\ phase \in {"ahead", "forward", "mark", "messages", "readers", "rest", "emitted",
                "done", "failed"}
  /\ learning \in BOOLEAN
  /\ next \in 1..(N + 1)
  /\ predeclared \subseteq Idx /\ known \subseteq Idx
  /\ hoist \subseteq Idx /\ guessed \subseteq Idx
  /\ text \in Seq(Parts)

LEMMA OrderTypes == Inv => OrderTypeOK
<1> SUFFICES ASSUME Inv PROVE OrderTypeOK
  OBVIOUS
<1>1. predeclare \in Seq(Idx)
  <2>1. CASE pc = "sorted"
    BY <2>1, PredeclareLists
  <2>2. CASE pc # "sorted"
    BY <2>2, EmptySeq DEF Inv, PhaseInv
  <2>3. QED
    BY <2>1, <2>2
<1>2. top \in Int
  BY OrderAssumption DEF Inv, SortTypes
<1>3. QED
  BY <1>1, <1>2 DEF Inv, SortTypes, OrderTypeOK

LEMMA EmitTypesStep ==
  ASSUME EmitTypes, TextInv, [Next]_vars, TextInv'
  PROVE  EmitTypes'
<1>0. N \in Nat /\ Inv /\ NamedBefore \subseteq Idx
  <2>1. NamedBefore \subseteq Idx
    BY LenProperties, ElementOfSeq DEF NamedBefore, TextInv, EmitInv, Inv, SortTypes
  <2>2. QED
    BY <2>1, OrderAssumption DEF TextInv, EmitInv
<1>1. text' \in Seq(Parts)
  <2>1. CASE phase' \in {"forward", "mark", "messages", "readers", "rest", "emitted", "done"}
    <3>1. CASE phase' = "forward"
      BY <3>1 DEF TextInv, ForwardInv, Stretch
    <3>2. CASE phase' # "forward"
      BY <2>1, <3>2 DEF TextInv, BodyInv, Holds, Stretch
    <3>3. QED
      BY <3>1, <3>2
  <2>2. CASE phase' \in {"ahead", "failed"}
    <3>1. UNCHANGED text
      BY <2>2 DEF Next, Sort, NamesAhead, Forward, ForwardDone, Mark, EmitMessage, EmitMarked,
         EmitDone, CopyReader, ReadersDone, CopyRest, RestDone, LearnDone, FileDone, Fails,
         vars, emitVars
    <3>2. QED
      BY <3>1 DEF EmitTypes
  <2>3. phase' \in {"ahead", "forward", "mark", "messages", "readers", "rest", "emitted",
                    "done", "failed"}
    BY DEF EmitTypes, Next, Sort, NamesAhead, Forward, ForwardDone, Mark, EmitMessage, EmitMarked,
       EmitDone, CopyReader, ReadersDone, CopyRest, RestDone, LearnDone, FileDone, Fails,
       vars, emitVars
  <2>4. QED
    BY <2>1, <2>2, <2>3
<1>2. CASE Sort \/ UNCHANGED vars
  BY <1>1, <1>2 DEF Sort, vars, emitVars, EmitTypes
<1>3. CASE NamesAhead \/ ForwardDone \/ FileDone \/ Fails \/ RestDone
  BY <1>1, <1>3 DEF NamesAhead, ForwardDone, FileDone, Fails, RestDone, EmitTypes
<1>4. CASE Forward
  <2>1. /\ pc = "sorted" /\ phase = "forward" /\ next' = next + 1 /\ next <= Len(predeclare)
        /\ predeclared' = predeclared \cup {predeclare[next]}
        /\ UNCHANGED <<phase, learning, known, hoist, guessed>>
    BY <1>4 DEF Forward, TextInv, EmitInv, SortedInv
  <2>2. /\ Len(predeclare) \in 0..N /\ needs_pre \subseteq Idx
        /\ \A k \in 1..Len(predeclare) : predeclare[k] \in needs_pre
    BY <1>0, <2>1, PredeclareLists DEF Inv, SortTypes
  <2>3. next' \in 1..(N + 1) /\ predeclared' \subseteq Idx
    BY <1>0, <2>1, <2>2 DEF EmitTypes
  <2>4. QED
    BY <1>1, <2>1, <2>3 DEF EmitTypes
<1>5. CASE Mark \/ EmitDone \/ ReadersDone \/ LearnDone
  <2>1. next' \in 1..(N + 1)
    BY <1>0, <1>5 DEF Mark, EmitDone, ReadersDone, LearnDone
  <2>2. learning' \in BOOLEAN
    BY <1>5 DEF Mark, EmitDone, ReadersDone, LearnDone, EmitTypes
  <2>3. hoist' \subseteq Idx /\ guessed' \subseteq Idx
    BY <1>0, <1>5 DEF Mark, EmitDone, ReadersDone, LearnDone, EmitTypes
  <2>4. UNCHANGED <<predeclared, known>>
    BY <1>5 DEF Mark, EmitDone, ReadersDone, LearnDone
  <2>5. phase' \in {"messages", "emitted", "readers", "rest", "forward"}
    BY <1>5 DEF Mark, EmitDone, ReadersDone, LearnDone
  <2>6. QED
    BY <1>1, <2>1, <2>2, <2>3, <2>4, <2>5 DEF EmitTypes
<1>6. CASE EmitMessage \/ EmitMarked
  <2>1. /\ pc = "sorted" /\ Learn(items[next]) /\ next' = next + 1 /\ next <= Len(items)
        /\ UNCHANGED <<phase, learning, predeclared, hoist>>
    BY <1>6 DEF EmitMessage, EmitMarked, TextInv, EmitInv, SortedInv
  <2>2. next \in 1..N /\ items[next] \in Idx
    BY <1>0, <2>1, Listed DEF EmitTypes
  <2>3. Held(items[next]) \subseteq Idx
    BY <1>0, <2>2, HeldInFile DEF Inv
  <2>4. known' \subseteq Idx /\ guessed' \subseteq Idx
    BY <2>1, <2>2, <2>3 DEF Learn, EmitTypes
  <2>5. QED
    BY <1>0, <1>1, <2>1, <2>2, <2>4 DEF EmitTypes
<1>7. CASE CopyReader \/ CopyRest
  <2>1. /\ pc = "sorted" /\ next' = next + 1 /\ next <= Len(items)
        /\ UNCHANGED <<phase, learning, predeclared, known, hoist, guessed>>
    BY <1>7 DEF CopyReader, CopyRest, TextInv, EmitInv, SortedInv
  <2>2. next \in 1..N
    BY <1>0, <2>1, Listed DEF EmitTypes
  <2>3. QED
    BY <1>0, <1>1, <2>1, <2>2 DEF EmitTypes
<1>8. QED
  BY <1>2, <1>3, <1>4, <1>5, <1>6, <1>7 DEF Next

(* The loops of emit_file, mark_named_before and emit_messages_hoisted     *)
(* stay within the lists they go through, whatever the file.               *)
THEOREM TypeCorrect == Spec => []TypeOK
<1>1. Init => EmitTypes
  <2>1. 1 \in 1..(N + 1) /\ FALSE \in BOOLEAN /\ <<>> \in Seq(Parts)
    BY EmptySeq, OrderAssumption
  <2>2. QED
    BY <2>1 DEF Init, EmitTypes
<1>2. EmitTypes /\ TextInv /\ [Next]_vars /\ TextInv' => EmitTypes'
  BY EmitTypesStep
<1>3. EmitTypes /\ TextInv => TypeOK
  BY OrderTypes DEF TextInv, EmitInv, EmitTypes, TypeOK
<1>4. QED
  BY <1>1, <1>2, <1>3, TextHolds, PTL DEF Spec
===============================================================================
