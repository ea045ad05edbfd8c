---------------------------- MODULE MessageOrder ----------------------------
(***************************************************************************)
(* gremlind_topo_sort_messages (descriptors/src/resolve.c): the order in   *)
(* which the messages of one file are emitted, and the ones that need a    *)
(* forward declaration first.  A depth-first search over the fields, with  *)
(* an array of n frames for its stack, as in ImportPasses; a message may   *)
(* hold itself, so cycles are legal here and a gray target is not an error *)
(* but a message to predeclare.                                            *)
(*                                                                         *)
(* Messages are their indices in file->messages, and a field is what its   *)
(* resolved type_ref says: a message of this file, a map whose value is    *)
(* one, or anything else (a builtin, an enum, a message of another file).  *)
(***************************************************************************)
EXTENDS Integers, Sequences, FiniteSets

CONSTANTS
  N,          \* file->messages.count
  FieldLists  \* the fields a message may have

Idx == 0..(N - 1)

Field == [kind : {"message", "map"}, to : Idx] \cup {[kind |-> "other"]}

ASSUME OrderAssumption == N \in Nat /\ FieldLists \subseteq Seq(Field)

VARIABLES
  pc,         \* "start", "sort", "sorted", or "failed"
  fields,     \* messages.items[i].fields
  root,       \* the loop's root
  color,      \* white, gray or black
  needs_pre,  \* the messages flagged so far
  stack,      \* the frames, live at 0..top
  top,        \* index of the top frame, -1 between two trees
  items,      \* out->items
  predeclare  \* out->predeclare

search    == <<root, color, needs_pre, stack, top>>
orderVars == <<pc, fields, search, items, predeclare>>

Frame == [node : Idx, next : Nat]
NewFrame(m) == [node |-> m, next |-> 0]

OrderInit ==
  /\ pc = "start"
  /\ fields \in [Idx -> FieldLists]
  /\ root = 0
  /\ color = [m \in Idx |-> "white"]
  /\ needs_pre = {}
  /\ stack = [p \in Idx |-> NewFrame(p)]  \* never read before it is written
  /\ top = -1
  /\ items = <<>>
  /\ predeclare = <<>>

(* A file without messages needs no scratch; otherwise four arrays come    *)
(* from the arena, any of which may be refused.                            *)
Alloc ==
  /\ pc = "start"
  /\ \/ N = 0 /\ pc' = "sorted"
     \/ N > 0 /\ pc' \in {"sort", "failed"}
  /\ UNCHANGED <<fields, search, items, predeclare>>

-----------------------------------------------------------------------------
InFile(fd) == fd.kind # "other"      \* field_target_msg_idx(fd) != -1

Node    == stack[top].node
Pending == stack[top].next < Len(fields[Node])
Edge    == fields[Node][stack[top].next + 1]

Advanced == [stack EXCEPT ![top].next = @ + 1]

SkipRoot ==
  /\ pc = "sort" /\ top = -1 /\ root < N
  /\ color[root] # "white"
  /\ root' = root + 1
  /\ UNCHANGED <<pc, fields, color, needs_pre, stack, top, items, predeclare>>

StartTree ==
  /\ pc = "sort" /\ top = -1 /\ root < N
  /\ color[root] = "white"
  /\ top' = 0
  /\ stack' = [stack EXCEPT ![0] = NewFrame(root)]
  /\ color' = [color EXCEPT ![root] = "gray"]
  /\ UNCHANGED <<pc, fields, root, needs_pre, items, predeclare>>

Retire ==
  /\ pc = "sort" /\ top >= 0 /\ ~Pending
  /\ color' = [color EXCEPT ![Node] = "black"]
  /\ items' = Append(items, Node)
  /\ top' = top - 1
  /\ root' = IF top = 0 THEN root + 1 ELSE root   \* break leaves the tree
  /\ UNCHANGED <<pc, fields, needs_pre, stack, predeclare>>

(* A field of another file's type, or of a message already listed.         *)
PassOver ==
  /\ pc = "sort" /\ top >= 0 /\ Pending
  /\ InFile(Edge) => color[Edge.to] = "black"
  /\ stack' = Advanced
  /\ UNCHANGED <<pc, fields, root, color, needs_pre, top, items, predeclare>>

BackEdgeMarksHolder ==  \* mutant: flags the message that has the field
  /\ pc = "sort" /\ top >= 0 /\ Pending
  /\ InFile(Edge) /\ color[Edge.to] = "gray"
  /\ needs_pre' = needs_pre \cup {Node}
  /\ stack' = Advanced
  /\ UNCHANGED <<pc, fields, root, color, top, items, predeclare>>

BackEdgeOrBlack ==  \* mutant: flags a message already listed too
  /\ pc = "sort" /\ top >= 0 /\ Pending
  /\ InFile(Edge) /\ color[Edge.to] # "white"
  /\ needs_pre' = needs_pre \cup {Edge.to}
  /\ stack' = Advanced
  /\ UNCHANGED <<pc, fields, root, color, top, items, predeclare>>

BackEdge ==
  /\ pc = "sort" /\ top >= 0 /\ Pending
  /\ InFile(Edge) /\ color[Edge.to] = "gray"
  /\ needs_pre' = needs_pre \cup {Edge.to}
  /\ stack' = Advanced
  /\ UNCHANGED <<pc, fields, root, color, top, items, predeclare>>

PushUncoloured ==  \* mutant: the pushed message stays white
  /\ pc = "sort" /\ top >= 0 /\ Pending
  /\ InFile(Edge) /\ color[Edge.to] = "white"
  /\ top' = top + 1
  /\ stack' = [Advanced EXCEPT ![top + 1] = NewFrame(Edge.to)]
  /\ UNCHANGED <<pc, fields, root, color, needs_pre, items, predeclare>>

Push ==
  /\ pc = "sort" /\ top >= 0 /\ Pending
  /\ InFile(Edge) /\ color[Edge.to] = "white"
  /\ top' = top + 1
  /\ stack' = [Advanced EXCEPT ![top + 1] = NewFrame(Edge.to)]
  /\ color' = [color EXCEPT ![Edge.to] = "gray"]
  /\ UNCHANGED <<pc, fields, root, needs_pre, items, predeclare>>

-----------------------------------------------------------------------------
(* The flagged messages are listed in the order of the file.               *)
InFileOrder(S) ==
  CHOOSE s \in [1..Cardinality(S) -> S] :
    \A j, k \in 1..Cardinality(S) : j < k => s[j] < s[k]

SortDone ==
  /\ pc = "sort" /\ top = -1 /\ root = N
  /\ \/ needs_pre = {} /\ pc' = "sorted" /\ UNCHANGED predeclare
     \/ needs_pre # {} /\ pc' = "sorted" /\ predeclare' = InFileOrder(needs_pre)
     \/ needs_pre # {} /\ pc' = "failed" /\ UNCHANGED predeclare  \* no room for the list
  /\ UNCHANGED <<fields, search, items>>

OrderNext ==
  \/ Alloc \/ SkipRoot \/ StartTree \/ Retire \/ PassOver \/ BackEdge \/ Push
  \/ SortDone

OrderSpec == OrderInit /\ [][OrderNext]_orderVars /\ WF_orderVars(OrderNext)

-----------------------------------------------------------------------------
(* The messages of the file that m's fields are of.                        *)
Held(m) == {fields[m][k].to : k \in {j \in DOMAIN fields[m] : InFile(fields[m][j])}}

OrderTypeOK ==
  /\ pc \in {"start", "sort", "sorted", "failed"}
  /\ fields \in [Idx -> FieldLists]
  /\ root \in 0..N
  /\ color \in [Idx -> {"white", "gray", "black"}]
  /\ needs_pre \subseteq Idx
  /\ stack \in [Idx -> Frame]
  /\ top \in Int
  /\ items \in Seq(Idx)
  /\ predeclare \in Seq(Idx)

(* The search indexes its n frames only where they are: the gray messages  *)
(* are the nodes of the live frames, each once, and out->items has an      *)
(* entry for each black one, so no more than the n it was allocated with.  *)
ScratchFits ==
  /\ top \in -1..(N - 1)
  /\ {stack[p].node : p \in 0..top} = {m \in Idx : color[m] = "gray"}
  /\ \A p, q \in 0..top : stack[p].node = stack[q].node => p = q
  /\ Len(items) = Cardinality({m \in Idx : color[m] = "black"})

(* resolve.h, struct gremlind_message_order: every message appears exactly *)
(* once in items, and predeclare "is exactly the set of types referenced   *)
(* before their definition when items is emitted in order": m is in it iff *)
(* m itself or a message listed before m has a field of m's type.          *)
Position(m) == CHOOSE k \in DOMAIN items : items[k] = m

TooEarly == {m \in Idx : \E h \in Idx : m \in Held(h) /\ Position(h) <= Position(m)}

PredeclareExact ==
  pc = "sorted" =>
    /\ Len(items) = N /\ {items[k] : k \in DOMAIN items} = Idx
    /\ predeclare = IF TooEarly = {} THEN <<>> ELSE InFileOrder(TooEarly)

(* Only recursion costs a forward declaration: a predeclared message holds *)
(* itself, directly or through others, so a file without recursive types   *)
(* is emitted with every message after the ones it holds.                  *)
HoldsWithin(h, m) ==
  \A S \in SUBSET Idx :
    Held(h) \subseteq S /\ (\A g \in S : Held(g) \subseteq S) => m \in S

OnlyRecursionPredeclared ==
  pc = "sorted" =>
    \A k \in DOMAIN predeclare : HoldsWithin(predeclare[k], predeclare[k])
=============================================================================
