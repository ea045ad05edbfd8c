------------------------- MODULE MessageOrderProofs -------------------------
(***************************************************************************)
(* Proofs about MessageOrder, for every number of messages and every       *)
(* choice of their fields.                                                 *)
(*                                                                         *)
(* Inv is inductive: the frames hold the gray messages; out->items holds   *)
(* the black ones, each once; every field a frame has passed over leads to *)
(* a listed message, a flagged one or the frame above; and every flagged   *)
(* message has a holder that is listed no later than it will be.           *)
(***************************************************************************)
EXTENDS MessageOrder, FiniteSetTheorems, SequenceTheorems, TLAPS

NodeAt(p) == stack[p].node
Positions == 1..Len(items)
Black     == {m \in Idx : color[m] = "black"}

SortTypes ==
  /\ pc \in {"start", "sort", "sorted", "failed"}
  /\ fields \in [Idx -> FieldLists]
  /\ root \in 0..N
  /\ color \in [Idx -> {"white", "gray", "black"}]
  /\ needs_pre \subseteq Idx
  /\ stack \in [Idx -> Frame]
  /\ top \in -1..(N - 1)
  /\ items \in Seq(Idx)

FrameInv ==
  /\ \A p \in 0..top : color[NodeAt(p)] = "gray" /\ stack[p].next <= Len(fields[NodeAt(p)])
  /\ \A m \in Idx : color[m] = "gray" => \E p \in 0..top : NodeAt(p) = m
  /\ \A p, q \in 0..top : NodeAt(p) = NodeAt(q) => p = q

RootInv ==
  /\ \A m \in Idx : m < root => color[m] = "black"
  /\ top >= 0 => root < N /\ NodeAt(0) = root

ListInv ==
  /\ \A k \in Positions : color[items[k]] = "black"
  /\ \A m \in Idx : color[m] = "black" => \E k \in Positions : items[k] = m
  /\ \A j, k \in Positions : items[j] = items[k] => j = k
  /\ Len(items) = Cardinality(Black)

(* h is listed, and t no later than h / before h.                          *)
NotAfter(t, h) == \E j, k \in Positions : items[j] = t /\ items[k] = h /\ j <= k
Before(t, h)   == \E j, k \in Positions : items[j] = t /\ items[k] = h /\ j < k

(* Whatever was looked at and is not listed first has been flagged.        *)
FlaggedInv ==
  /\ \A h \in Idx : color[h] = "black" =>
       \A t \in Held(h) : t \in needs_pre \/ Before(t, h)
  /\ \A p \in 0..top : \A k \in 1..stack[p].next :
       InFile(fields[NodeAt(p)][k]) =>
         \/ color[fields[NodeAt(p)][k].to] = "black"
         \/ fields[NodeAt(p)][k].to \in needs_pre
         \/ p < top /\ fields[NodeAt(p)][k].to = NodeAt(p + 1)

(* m will be listed after its holder h, or with it: m is still on the      *)
(* stack, and h is listed or on the stack above it; or both are listed.    *)
Early(m, h) ==
  \/ color[m] = "gray" /\ color[h] = "black"
  \/ color[m] = "gray" /\ \E p, q \in 0..top : p <= q /\ NodeAt(p) = m /\ NodeAt(q) = h
  \/ NotAfter(h, m)

EarlyInv == \A m \in needs_pre : \E h \in Idx : m \in Held(h) /\ Early(m, h)

PhaseInv ==
  /\ pc # "sorted" => predeclare = <<>>
  /\ pc = "sorted" =>
       /\ root = N /\ top = -1
       /\ predeclare = IF needs_pre = {} THEN <<>> ELSE InFileOrder(needs_pre)

Inv ==
  /\ SortTypes /\ FrameInv /\ RootInv /\ ListInv
  /\ FlaggedInv /\ EarlyInv /\ PhaseInv

-----------------------------------------------------------------------------
(* Facts about the data.                                                   *)

LEMMA IdxFinite == IsFiniteSet(Idx) /\ Cardinality(Idx) = N
BY FS_Interval, OrderAssumption DEF Idx

(* Distinct messages on frames 0..t and one on none of them: one frame     *)
(* more fits in the array.                                                 *)
LEMMA StackHasRoom ==
  ASSUME NEW st \in [Idx -> Frame], NEW t \in -1..(N - 1),
         \A p, q \in 0..t : st[p].node = st[q].node => p = q,
         NEW m \in Idx, \A p \in 0..t : st[p].node # m
  PROVE  t + 1 < N
<1> DEFINE g == [p \in 0..(t + 1) |-> IF p = t + 1 THEN m ELSE st[p].node]
<1>1. g \in [0..(t + 1) -> Idx]
  BY OrderAssumption DEF Idx, Frame
<1>2. \A p, q \in 0..(t + 1) : g[p] = g[q] => p = q
  OBVIOUS
<1> HIDE DEF g
<1>3. IsFiniteSet(0..(t + 1)) /\ Cardinality(0..(t + 1)) = t + 2
  BY FS_Interval, OrderAssumption
<1>4. ASSUME N < t + 2 PROVE FALSE
  BY <1>1, <1>2, <1>3, <1>4, IdxFinite, FS_PigeonHole
<1>5. QED
  BY <1>4, OrderAssumption

LEMMA FieldsAreLists ==
  ASSUME SortTypes, NEW m \in Idx
  PROVE  /\ fields[m] \in Seq(Field)
         /\ Len(fields[m]) \in Nat /\ DOMAIN fields[m] = 1..Len(fields[m])
         /\ \A k \in 1..Len(fields[m]) : InFile(fields[m][k]) => fields[m][k].to \in Idx
<1>1. fields[m] \in Seq(Field)
  BY OrderAssumption DEF SortTypes
<1>2. Len(fields[m]) \in Nat /\ DOMAIN fields[m] = 1..Len(fields[m])
  BY <1>1, LenProperties
<1>3. \A k \in 1..Len(fields[m]) : fields[m][k] \in Field
  BY <1>1, <1>2, ElementOfSeq
<1>4. \A fd \in Field : InFile(fd) => fd.to \in Idx
  BY DEF Field, InFile
<1>5. QED
  BY <1>1, <1>2, <1>3, <1>4

(* The top frame and the field it looks at.                                *)
LEMMA TopFrame ==
  ASSUME Inv, top >= 0
  PROVE  /\ top \in Idx /\ top \in 0..top
         /\ Node \in Idx /\ Node = NodeAt(top) /\ color[Node] = "gray"
         /\ stack[top] \in Frame /\ stack[top].next \in Nat
         /\ Pending => /\ stack[top].next + 1 \in 1..Len(fields[Node])
                       /\ InFile(Edge) => Edge.to \in Idx /\ Edge.to \in Held(Node)
         /\ ~Pending => stack[top].next = Len(fields[Node])
<1>1. top \in Idx /\ top \in 0..top /\ stack[top] \in Frame
  BY OrderAssumption DEF Inv, SortTypes, Idx
<1>2. stack[top].next \in Nat /\ Node \in Idx /\ Node = NodeAt(top)
  BY <1>1 DEF Frame, Node, NodeAt
<1>3. color[Node] = "gray" /\ stack[top].next <= Len(fields[Node])
  BY <1>1, <1>2 DEF Inv, FrameInv
<1>4. /\ Len(fields[Node]) \in Nat /\ DOMAIN fields[Node] = 1..Len(fields[Node])
      /\ \A k \in 1..Len(fields[Node]) : InFile(fields[Node][k]) => fields[Node][k].to \in Idx
  BY <1>2, FieldsAreLists DEF Inv
<1>5. Pending => stack[top].next + 1 \in 1..Len(fields[Node])
  BY <1>2, <1>4 DEF Pending
<1>6. Pending /\ InFile(Edge) => Edge.to \in Idx /\ Edge.to \in Held(Node)
  BY <1>4, <1>5 DEF Edge, Held
<1>7. QED
  BY <1>1, <1>2, <1>3, <1>4, <1>5, <1>6 DEF Pending

LEMMA Appended ==
  ASSUME NEW S, NEW s \in Seq(S), NEW e \in S
  PROVE  /\ Append(s, e) \in Seq(S)
         /\ Len(s) \in Nat /\ Len(Append(s, e)) = Len(s) + 1
         /\ \A i \in 1..Len(s) : Append(s, e)[i] = s[i]
         /\ Append(s, e)[Len(s) + 1] = e
OBVIOUS

-----------------------------------------------------------------------------
(* What the steps do to the arrays.                                        *)

LEMMA LookFrames ==
  ASSUME Inv, top >= 0, Pending, stack' = Advanced
  PROVE  /\ stack' \in [Idx -> Frame]
         /\ \A p \in 0..top : NodeAt(p)' = NodeAt(p)
         /\ \A p \in 0..top :
              stack'[p].next = IF p = top THEN stack[top].next + 1 ELSE stack[p].next
<1>1. stack \in [Idx -> Frame] /\ top \in Idx /\ stack[top] \in Frame
  BY TopFrame DEF Inv, SortTypes
<1>2. \A p \in 0..top : p \in Idx
  BY <1>1, OrderAssumption DEF Idx
<1>3. [stack[top] EXCEPT !.next = @ + 1] \in Frame
  BY <1>1 DEF Frame
<1>4. QED
  BY <1>1, <1>2, <1>3 DEF Advanced, NodeAt, Frame

LEMMA PushFrames ==
  ASSUME Inv, Push
  PROVE  /\ top' \in -1..(N - 1) /\ top' = top + 1 /\ top >= 0
         /\ stack' \in [Idx -> Frame]
         /\ \A p \in 0..top : NodeAt(p)' = NodeAt(p)
         /\ \A p \in 0..top :
              stack'[p].next = IF p = top THEN stack[top].next + 1 ELSE stack[p].next
         /\ stack'[top + 1].node = Edge.to /\ stack'[top + 1].next = 0
         /\ Edge.to \in Idx /\ color[Edge.to] = "white"
         /\ \A m \in Idx : color'[m] = IF m = Edge.to THEN "gray" ELSE color[m]
<1>1. top >= 0 /\ Pending /\ InFile(Edge) /\ color[Edge.to] = "white" /\ top' = top + 1
  BY DEF Push, Inv, SortTypes
<1>2. top \in Idx /\ stack[top] \in Frame /\ Edge.to \in Idx
  BY <1>1, TopFrame
<1>3. stack \in [Idx -> Frame] /\ top \in -1..(N - 1)
      /\ color \in [Idx -> {"white", "gray", "black"}]
  BY DEF Inv, SortTypes
<1>4. \A p \in 0..top : stack[p].node # Edge.to
  BY <1>1 DEF Inv, FrameInv, NodeAt
<1>5. \A p, q \in 0..top : stack[p].node = stack[q].node => p = q
  BY DEF Inv, FrameInv, NodeAt
<1>6. top + 1 < N
  BY <1>2, <1>3, <1>4, <1>5, StackHasRoom
<1>7. top + 1 \in Idx /\ \A p \in 0..top : p \in Idx
  BY <1>2, <1>6, OrderAssumption DEF Idx
<1>8. [stack[top] EXCEPT !.next = @ + 1] \in Frame /\ NewFrame(Edge.to) \in Frame
  BY <1>2 DEF Frame, NewFrame
<1>9. stack' = [[stack EXCEPT ![top] = [stack[top] EXCEPT !.next = @ + 1]]
                  EXCEPT ![top + 1] = NewFrame(Edge.to)]
  BY <1>2, <1>3 DEF Push, Advanced
<1>10. stack' \in [Idx -> Frame]
  BY <1>2, <1>3, <1>7, <1>8, <1>9
<1>11. /\ \A p \in 0..top : stack'[p].node = stack[p].node
       /\ \A p \in 0..top :
            stack'[p].next = IF p = top THEN stack[top].next + 1 ELSE stack[p].next
       /\ stack'[top + 1].node = Edge.to /\ stack'[top + 1].next = 0
  BY <1>2, <1>3, <1>7, <1>9 DEF Frame, NewFrame
<1>12. \A m \in Idx : color'[m] = IF m = Edge.to THEN "gray" ELSE color[m]
  BY <1>3 DEF Push
<1>13. QED
  BY <1>1, <1>2, <1>3, <1>6, <1>10, <1>11, <1>12, OrderAssumption DEF NodeAt

LEMMA StartFrames ==
  ASSUME Inv, StartTree
  PROVE  /\ top' = 0 /\ top = -1 /\ 0 \in Idx /\ root \in Idx /\ color[root] = "white"
         /\ stack' \in [Idx -> Frame]
         /\ NodeAt(0)' = root /\ stack'[0].next = 0
         /\ \A m \in Idx : color'[m] = IF m = root THEN "gray" ELSE color[m]
<1>1. root \in Idx /\ 0 \in Idx
  BY OrderAssumption DEF StartTree, Inv, SortTypes, Idx
<1>2. QED
  BY <1>1 DEF StartTree, Inv, SortTypes, NewFrame, Frame, NodeAt

LEMMA RetireLists ==
  ASSUME Inv, Retire
  PROVE  /\ top \in 0..(N - 1) /\ top' = top - 1 /\ stack' = stack
         /\ Node \in Idx /\ Node = NodeAt(top) /\ color[Node] = "gray"
         /\ \A m \in Idx : color'[m] = IF m = Node THEN "black" ELSE color[m]
         /\ items' \in Seq(Idx)
         /\ Len(items) \in Nat /\ Len(items') = Len(items) + 1
         /\ \A k \in Positions : items'[k] = items[k]
         /\ items'[Len(items) + 1] = Node
<1>1. items \in Seq(Idx) /\ color \in [Idx -> {"white", "gray", "black"}] /\ top \in -1..(N - 1)
  BY DEF Inv, SortTypes
<1>2. Node \in Idx /\ Node = NodeAt(top) /\ color[Node] = "gray"
  BY TopFrame DEF Retire
<1>3. \A k \in Positions : items'[k] = items[k]
  BY <1>1, <1>2, Appended DEF Retire, Positions
<1>4. items' \in Seq(Idx) /\ Len(items) \in Nat /\ Len(items') = Len(items) + 1
      /\ items'[Len(items) + 1] = Node
  BY <1>1, <1>2, Appended DEF Retire
<1>5. \A m \in Idx : color'[m] = IF m = Node THEN "black" ELSE color[m]
  BY <1>1, <1>2 DEF Retire
<1>6. top >= 0 /\ top' = top - 1 /\ stack' = stack
  BY DEF Retire
<1>7. top \in 0..(N - 1)
  BY <1>1, <1>6, OrderAssumption
<1>8. QED
  BY <1>2, <1>3, <1>4, <1>5, <1>6, <1>7

(* What was listed before something stays so, and what is listed is before *)
(* what gets listed.                                                       *)
LEMMA RetireOrder ==
  ASSUME Inv, Retire
  PROVE  /\ \A t, h \in Idx : Before(t, h) => Before(t, h)'
         /\ \A t, h \in Idx : NotAfter(t, h) => NotAfter(t, h)'
         /\ \A t, h \in Idx : color[t] = "black" /\ h = Node =>
              Before(t, h)' /\ NotAfter(t, h)'
         /\ \A h \in Idx : h = Node => NotAfter(h, h)'
<1>1. /\ Len(items) \in Nat /\ Len(items') = Len(items) + 1
      /\ \A k \in Positions : items'[k] = items[k]
      /\ items'[Len(items) + 1] = Node
  BY RetireLists
<1>2. \A k \in Positions : k \in Positions'
  BY <1>1 DEF Positions
<1>3. Len(items) + 1 \in Positions' /\ \A k \in Positions : k < Len(items) + 1
  BY <1>1 DEF Positions
<1>4. \A t, h \in Idx : Before(t, h) => Before(t, h)'
  BY <1>1, <1>2 DEF Before
<1>5. \A t, h \in Idx : NotAfter(t, h) => NotAfter(t, h)'
  BY <1>1, <1>2 DEF NotAfter
<1>6. ASSUME NEW t \in Idx, NEW h \in Idx, color[t] = "black", h = Node
      PROVE  Before(t, h)' /\ NotAfter(t, h)'
  <2>1. PICK k \in Positions : items[k] = t
    BY <1>6 DEF Inv, ListInv
  <2>2. k \in Positions' /\ items'[k] = t /\ k < Len(items) + 1 /\ k <= Len(items) + 1
    BY <1>1, <1>2, <1>3, <2>1 DEF Positions
  <2>3. QED
    BY <1>1, <1>3, <1>6, <2>2 DEF Before, NotAfter
<1>7. ASSUME NEW h \in Idx, h = Node PROVE NotAfter(h, h)'
  BY <1>1, <1>3, <1>7 DEF NotAfter
<1>8. QED
  BY <1>4, <1>5, <1>6, <1>7

-----------------------------------------------------------------------------
(* The invariant holds initially and every step preserves it, part by part. *)

LEMMA InitInv == OrderInit => Inv
<1> SUFFICES ASSUME OrderInit PROVE Inv
  OBVIOUS
<1>1. SortTypes
  <2>1. stack \in [Idx -> Frame]
    BY OrderAssumption DEF OrderInit, Frame, NewFrame, Idx
  <2>2. top \in -1..(N - 1) /\ root \in 0..N
    BY OrderAssumption DEF OrderInit
  <2>3. items \in Seq(Idx)
    BY EmptySeq DEF OrderInit
  <2>4. QED
    BY <2>1, <2>2, <2>3 DEF OrderInit, SortTypes
<1>2. \A m \in Idx : color[m] = "white"
  BY DEF OrderInit
<1>3. top = -1 /\ root = 0 /\ needs_pre = {} /\ Positions = {} /\ Len(items) = 0
  BY DEF OrderInit, Positions
<1>4. FrameInv /\ EarlyInv
  BY <1>2, <1>3 DEF FrameInv, EarlyInv
<1>5. RootInv
  BY <1>2, <1>3, OrderAssumption DEF RootInv, Idx
<1>6. ListInv
  <2>1. Black = {}
    BY <1>2 DEF Black
  <2>2. QED
    BY <1>2, <1>3, <2>1, FS_EmptySet DEF ListInv
<1>7. FlaggedInv
  BY <1>2, <1>3 DEF FlaggedInv
<1>8. PhaseInv
  BY DEF OrderInit, PhaseInv
<1>9. QED
  BY <1>1, <1>4, <1>5, <1>6, <1>7, <1>8 DEF Inv

LEMMA TypesStep == Inv /\ [OrderNext]_orderVars => SortTypes'
<1> SUFFICES ASSUME Inv, [OrderNext]_orderVars PROVE SortTypes'
  OBVIOUS
<1>0. SortTypes
  BY DEF Inv
<1>1. CASE Alloc
  BY <1>0, <1>1 DEF Alloc, search, SortTypes
<1>2. CASE SkipRoot
  BY <1>0, <1>2, OrderAssumption DEF SkipRoot, SortTypes
<1>3. CASE StartTree
  <2>1. color' \in [Idx -> {"white", "gray", "black"}]
    BY <1>0, <1>3 DEF StartTree, SortTypes
  <2>2. top' \in -1..(N - 1)
    BY <1>3, StartFrames, OrderAssumption DEF Idx
  <2>3. QED
    BY <1>0, <1>3, <2>1, <2>2, StartFrames DEF StartTree, SortTypes
<1>4. CASE Retire
  <2>1. color' \in [Idx -> {"white", "gray", "black"}]
    BY <1>0, <1>4 DEF Retire, SortTypes
  <2>2. top' \in -1..(N - 1)
    BY <1>4, RetireLists, OrderAssumption
  <2>3. root' \in 0..N
    BY <1>0, <1>4, OrderAssumption DEF Retire, SortTypes, Inv, RootInv
  <2>4. items' \in Seq(Idx)
    BY <1>4, RetireLists
  <2>5. QED
    BY <1>0, <1>4, <2>1, <2>2, <2>3, <2>4 DEF Retire, SortTypes
<1>5. CASE PassOver
  <2>1. stack' \in [Idx -> Frame]
    BY <1>5, LookFrames DEF PassOver
  <2>2. QED
    BY <1>0, <1>5, <2>1 DEF PassOver, SortTypes
<1>6. CASE BackEdge
  <2>1. stack' \in [Idx -> Frame]
    BY <1>6, LookFrames DEF BackEdge
  <2>2. Edge.to \in Idx
    BY <1>6, TopFrame DEF BackEdge
  <2>3. QED
    BY <1>0, <1>6, <2>1, <2>2 DEF BackEdge, SortTypes
<1>7. CASE Push
  <2>1. color' \in [Idx -> {"white", "gray", "black"}]
    BY <1>0, <1>7 DEF Push, SortTypes
  <2>2. QED
    BY <1>0, <1>7, <2>1, PushFrames DEF Push, SortTypes
<1>8. CASE SortDone
  BY <1>0, <1>8 DEF SortDone, search, SortTypes
<1>9. CASE UNCHANGED orderVars
  BY <1>0, <1>9 DEF orderVars, search, SortTypes
<1>10. QED
  BY <1>1, <1>2, <1>3, <1>4, <1>5, <1>6, <1>7, <1>8, <1>9 DEF OrderNext

(* Alloc, SortDone and stuttering touch none of what the search keeps.     *)
LEMMA FrameStep == Inv /\ [OrderNext]_orderVars => FrameInv'
<1> SUFFICES ASSUME Inv, [OrderNext]_orderVars PROVE FrameInv'
  OBVIOUS
<1>0. FrameInv /\ SortTypes
  BY DEF Inv
<1>1. CASE Alloc \/ SkipRoot \/ SortDone \/ UNCHANGED orderVars
  BY <1>0, <1>1 DEF Alloc, SkipRoot, SortDone, orderVars, search, FrameInv, NodeAt
<1>2. CASE StartTree
  <2>1. /\ top' = 0 /\ top = -1 /\ root \in Idx
        /\ stack'[0].node = root /\ stack'[0].next = 0
        /\ \A m \in Idx : color'[m] = IF m = root THEN "gray" ELSE color[m]
    BY <1>2, StartFrames DEF NodeAt
  <2>2. \A m \in Idx : color[m] # "gray"
    BY <1>0, <2>1 DEF FrameInv
  <2>3. Len(fields[root]) >= 0
    BY <1>0, <2>1, FieldsAreLists
  <2>4. fields' = fields /\ 0..top' = {0}
    BY <1>2, <2>1 DEF StartTree
  <2>5. QED
    BY <2>1, <2>2, <2>3, <2>4 DEF FrameInv, NodeAt
<1>3. CASE Retire
  <2>1. /\ top \in 0..(N - 1) /\ top' = top - 1 /\ stack' = stack /\ fields' = fields
        /\ Node = NodeAt(top)
        /\ \A m \in Idx : color'[m] = IF m = Node THEN "black" ELSE color[m]
    BY <1>3, RetireLists DEF Retire
  <2>2. \A p \in 0..top' : p \in 0..top /\ p # top /\ NodeAt(p)' = NodeAt(p)
    BY <2>1 DEF NodeAt
  <2>3. \A p \in 0..top : p \in 0..top' \/ p = top
    BY <2>1
  <2>4. \A p \in 0..top : NodeAt(p) \in Idx
    <3>1. \A p \in 0..top : p \in Idx
      BY <2>1, OrderAssumption DEF Idx
    <3>2. QED
      BY <1>0, <3>1 DEF SortTypes, Frame, NodeAt
  <2>5. \A p \in 0..top' : NodeAt(p) # Node
    BY <1>0, <2>1, <2>2 DEF FrameInv
  <2>6. \A p \in 0..top' : color'[NodeAt(p)'] = "gray"
                            /\ stack'[p].next <= Len(fields'[NodeAt(p)'])
    <3>1. \A p \in 0..top' : color'[NodeAt(p)] = color[NodeAt(p)]
      BY <2>1, <2>2, <2>4, <2>5
    <3>2. \A p \in 0..top : color[NodeAt(p)] = "gray" /\ stack[p].next <= Len(fields[NodeAt(p)])
      BY <1>0 DEF FrameInv
    <3>3. QED
      BY <2>1, <2>2, <3>1, <3>2
  <2>7. \A m \in Idx : color'[m] = "gray" => \E p \in 0..top' : NodeAt(p)' = m
    BY <1>0, <2>1, <2>2, <2>3 DEF FrameInv
  <2>8. \A p, q \in 0..top' : NodeAt(p)' = NodeAt(q)' => p = q
    BY <1>0, <2>2 DEF FrameInv
  <2>9. QED
    BY <2>6, <2>7, <2>8 DEF FrameInv
<1>4. CASE PassOver \/ BackEdge
  <2>1. top >= 0 /\ Pending /\ stack' = Advanced
        /\ UNCHANGED <<fields, color, top>>
    BY <1>4 DEF PassOver, BackEdge
  <2>2. \A p \in 0..top : /\ NodeAt(p)' = NodeAt(p)
                          /\ stack'[p].next = IF p = top THEN stack[top].next + 1
                                                         ELSE stack[p].next
    BY <2>1, LookFrames
  <2>3. Node = NodeAt(top) /\ stack[top].next + 1 \in 1..Len(fields[Node])
    BY <2>1, TopFrame
  <2>4. QED
    BY <1>0, <2>1, <2>2, <2>3 DEF FrameInv
<1>5. CASE Push
  <2>1. /\ top' = top + 1 /\ top >= 0 /\ top \in Int /\ fields' = fields
        /\ \A p \in 0..top : NodeAt(p)' = NodeAt(p)
        /\ \A p \in 0..top :
             stack'[p].next = IF p = top THEN stack[top].next + 1 ELSE stack[p].next
        /\ stack'[top + 1].node = Edge.to /\ stack'[top + 1].next = 0
        /\ Edge.to \in Idx /\ color[Edge.to] = "white"
        /\ \A m \in Idx : color'[m] = IF m = Edge.to THEN "gray" ELSE color[m]
    BY <1>0, <1>5, PushFrames DEF Push, SortTypes
  <2>2. Node = NodeAt(top) /\ stack[top].next + 1 \in 1..Len(fields[Node])
    BY <1>5, <2>1, TopFrame DEF Push
  <2>3. \A p \in 0..top' : p \in 0..top \/ p = top + 1
    BY <2>1
  <2>4. \A p \in 0..top : p \in 0..top' /\ p # top + 1
    BY <2>1
  <2>5. top + 1 \in 0..top' /\ \A p \in {top + 1} : NodeAt(p)' = Edge.to
    BY <2>1 DEF NodeAt
  <2>6. \A p \in 0..top : NodeAt(p) \in Idx /\ NodeAt(p) # Edge.to
    <3>1. \A p \in 0..top : p \in Idx
      BY <1>0, OrderAssumption DEF SortTypes, Idx
    <3>2. \A p \in 0..top : NodeAt(p) \in Idx
      BY <1>0, <3>1 DEF SortTypes, Frame, NodeAt
    <3>3. \A p \in 0..top : color[NodeAt(p)] = "gray"
      BY <1>0 DEF FrameInv
    <3>4. QED
      BY <2>1, <3>2, <3>3
  <2>7. Len(fields[Edge.to]) >= 0
    BY <1>0, <2>1, FieldsAreLists
  <2>8. \A p \in 0..top' : color'[NodeAt(p)'] = "gray"
                            /\ stack'[p].next <= Len(fields'[NodeAt(p)'])
    BY <1>0, <2>1, <2>2, <2>3, <2>5, <2>6, <2>7 DEF FrameInv
  <2>9. \A m \in Idx : color'[m] = "gray" => \E p \in 0..top' : NodeAt(p)' = m
    BY <1>0, <2>1, <2>4, <2>5 DEF FrameInv
  <2>10. \A p, q \in 0..top' : NodeAt(p)' = NodeAt(q)' => p = q
    BY <1>0, <2>1, <2>3, <2>5, <2>6 DEF FrameInv
  <2>11. QED
    BY <2>8, <2>9, <2>10 DEF FrameInv
<1>6. QED
  BY <1>1, <1>2, <1>3, <1>4, <1>5 DEF OrderNext

LEMMA RootStep == Inv /\ [OrderNext]_orderVars => RootInv'
<1> SUFFICES ASSUME Inv, [OrderNext]_orderVars PROVE RootInv'
  OBVIOUS
<1>0. RootInv /\ SortTypes /\ \A m \in Idx : m \in Int
  BY OrderAssumption DEF Inv, Idx
<1>1. CASE Alloc \/ SortDone \/ UNCHANGED orderVars
  BY <1>0, <1>1 DEF Alloc, SortDone, orderVars, search, RootInv, NodeAt
<1>2. CASE SkipRoot
  <2>1. root \in Idx
    BY <1>0, <1>2, OrderAssumption DEF SkipRoot, SortTypes, Idx
  <2>2. color[root] = "black"
    <3>1. color[root] # "gray"
      BY <1>2, <2>1 DEF SkipRoot, Inv, FrameInv
    <3>2. QED
      BY <1>0, <1>2, <2>1, <3>1 DEF SkipRoot, SortTypes
  <2>3. QED
    BY <1>0, <1>2, <2>1, <2>2, OrderAssumption DEF SkipRoot, RootInv, Idx
<1>3. CASE StartTree
  <2>1. stack'[0].node = root /\ color[root] = "white" /\ top' = 0 /\ root \in Idx
        /\ \A m \in Idx : color'[m] = IF m = root THEN "gray" ELSE color[m]
    BY <1>3, StartFrames DEF NodeAt
  <2>2. root' = root /\ root < N
    BY <1>3 DEF StartTree
  <2>3. QED
    BY <1>0, <2>1, <2>2 DEF RootInv, NodeAt
<1>4. CASE Retire
  <2>1. /\ top \in 0..(N - 1) /\ top' = top - 1 /\ stack' = stack
        /\ Node \in Idx /\ Node = NodeAt(top)
        /\ \A m \in Idx : color'[m] = IF m = Node THEN "black" ELSE color[m]
        /\ root' = IF top = 0 THEN root + 1 ELSE root
    BY <1>4, RetireLists DEF Retire
  <2>2. root < N /\ NodeAt(0) = root /\ root \in Int
    BY <1>0, <2>1 DEF RootInv, SortTypes
  <2>3. CASE top = 0
    BY <1>0, <2>1, <2>2, <2>3 DEF RootInv
  <2>4. CASE top # 0
    BY <1>0, <2>1, <2>2, <2>4 DEF RootInv, NodeAt
  <2>5. QED
    BY <2>3, <2>4
<1>5. CASE PassOver \/ BackEdge
  <2>1. top >= 0 /\ Pending /\ stack' = Advanced /\ top \in Int
        /\ UNCHANGED <<color, top, root>>
    BY <1>0, <1>5 DEF PassOver, BackEdge, SortTypes
  <2>2. NodeAt(0)' = NodeAt(0)
    BY <2>1, LookFrames
  <2>3. QED
    BY <1>0, <2>1, <2>2 DEF RootInv
<1>6. CASE Push
  <2>1. /\ top' = top + 1 /\ top >= 0 /\ top \in Int /\ root' = root
        /\ NodeAt(0)' = NodeAt(0)
        /\ Edge.to \in Idx /\ color[Edge.to] = "white"
        /\ \A m \in Idx : color'[m] = IF m = Edge.to THEN "gray" ELSE color[m]
    BY <1>0, <1>6, PushFrames DEF Push, SortTypes
  <2>2. QED
    BY <1>0, <2>1 DEF RootInv
<1>7. QED
  BY <1>1, <1>2, <1>3, <1>4, <1>5, <1>6 DEF OrderNext

(* Only Retire lists a message, and it turns black then.                   *)
LEMMA ListStep == Inv /\ [OrderNext]_orderVars => ListInv'
<1> SUFFICES ASSUME Inv, [OrderNext]_orderVars PROVE ListInv'
  OBVIOUS
<1>0. ListInv /\ SortTypes
  BY DEF Inv
<1>1. CASE Alloc \/ SkipRoot \/ PassOver \/ BackEdge \/ SortDone \/ UNCHANGED orderVars
  BY <1>0, <1>1 DEF Alloc, SkipRoot, PassOver, BackEdge, SortDone, orderVars, search,
                    ListInv, Positions, Black
<1>2. CASE StartTree \/ Push
  <2>1. PICK new \in Idx : /\ color[new] = "white"
                           /\ \A m \in Idx : color'[m] = IF m = new THEN "gray" ELSE color[m]
    BY <1>2, StartFrames, PushFrames
  <2>2. items' = items
    BY <1>2 DEF StartTree, Push
  <2>3. \A k \in Positions : items[k] \in Idx
    BY <1>0, ElementOfSeq DEF SortTypes, Positions
  <2>4. Black' = Black
    BY <2>1 DEF Black
  <2>5. QED
    BY <1>0, <2>1, <2>2, <2>3, <2>4 DEF ListInv, Positions
<1>3. CASE Retire
  <2>1. /\ Node \in Idx /\ color[Node] = "gray"
        /\ \A m \in Idx : color'[m] = IF m = Node THEN "black" ELSE color[m]
        /\ Len(items) \in Nat /\ Len(items') = Len(items) + 1
        /\ \A k \in Positions : items'[k] = items[k]
        /\ items'[Len(items) + 1] = Node
    BY <1>3, RetireLists
  <2>2. \A k \in Positions : items[k] \in Idx /\ items[k] # Node
    BY <1>0, <2>1, ElementOfSeq DEF SortTypes, Positions, ListInv
  <2>3. /\ \A k \in Positions' : k \in Positions \/ k = Len(items) + 1
        /\ \A k \in Positions : k \in Positions'
        /\ Len(items) + 1 \in Positions'
    BY <2>1 DEF Positions
  <2>4. \A k \in Positions' : color'[items'[k]] = "black"
    BY <1>0, <2>1, <2>2, <2>3 DEF ListInv
  <2>5. \A m \in Idx : color'[m] = "black" => \E k \in Positions' : items'[k] = m
    BY <1>0, <2>1, <2>3 DEF ListInv
  <2>6. \A j, k \in Positions' : items'[j] = items'[k] => j = k
    BY <1>0, <2>1, <2>2, <2>3 DEF ListInv
  <2>7. Len(items') = Cardinality(Black')
    <3>1. Black' = Black \cup {Node} /\ Node \notin Black
      BY <2>1 DEF Black
    <3>2. IsFiniteSet(Black)
      BY IdxFinite, FS_Subset DEF Black
    <3>3. Cardinality(Black \cup {Node}) = Cardinality(Black) + 1
      BY <3>1, <3>2, FS_AddElement
    <3>4. QED
      BY <1>0, <2>1, <3>1, <3>3 DEF ListInv
  <2>8. QED
    BY <2>4, <2>5, <2>6, <2>7 DEF ListInv
<1>4. QED
  BY <1>1, <1>2, <1>3 DEF OrderNext

(* Steps that list nothing and turn nothing black leave the order alone.   *)
LEMMA SameOrder ==
  ASSUME items' = items
  PROVE  /\ \A t, h \in Idx : Before(t, h)' <=> Before(t, h)
         /\ \A t, h \in Idx : NotAfter(t, h)' <=> NotAfter(t, h)
BY DEF Before, NotAfter, Positions

LEMMA HeldSame ==
  ASSUME fields' = fields
  PROVE  \A m \in Idx : Held(m)' = Held(m)
BY DEF Held

LEMMA HeldInFile ==
  ASSUME SortTypes, NEW m \in Idx
  PROVE  /\ Held(m) \subseteq Idx
         /\ \A t \in Held(m) : \E k \in 1..Len(fields[m]) :
              InFile(fields[m][k]) /\ fields[m][k].to = t
BY FieldsAreLists DEF Held

(* What a frame has passed over, with the cases of FlaggedInv.             *)
Settled(p, k) ==
  InFile(fields[NodeAt(p)][k]) =>
    \/ color[fields[NodeAt(p)][k].to] = "black"
    \/ fields[NodeAt(p)][k].to \in needs_pre
    \/ p < top /\ fields[NodeAt(p)][k].to = NodeAt(p + 1)

LEMMA FlaggedStep == Inv /\ [OrderNext]_orderVars => FlaggedInv'
<1> SUFFICES ASSUME Inv, [OrderNext]_orderVars PROVE FlaggedInv'
  OBVIOUS
<1>0. /\ FlaggedInv /\ SortTypes /\ FrameInv
      /\ \A p \in 0..top : p \in Idx /\ NodeAt(p) \in Idx /\ stack[p].next \in Nat
  <2>1. \A p \in 0..top : p \in Idx
    BY OrderAssumption DEF Inv, SortTypes, Idx
  <2>2. QED
    BY <2>1 DEF Inv, SortTypes, Frame, NodeAt
<1>s. \A p \in 0..top : \A k \in 1..stack[p].next : Settled(p, k)
  BY <1>0 DEF FlaggedInv, Settled
<1>h. fields' = fields /\ \A m \in Idx : Held(m)' = Held(m) /\ Held(m) \subseteq Idx
  <2>1. fields' = fields
    BY DEF OrderNext, Alloc, SkipRoot, StartTree, Retire, PassOver, BackEdge, Push,
           SortDone, orderVars
  <2>2. QED
    BY <1>0, <2>1, HeldSame, HeldInFile
<1>f. \A p \in 0..top : \A k \in 1..stack[p].next :
        InFile(fields[NodeAt(p)][k]) => fields[NodeAt(p)][k].to \in Idx
  <2> SUFFICES ASSUME NEW p \in 0..top, NEW k \in 1..stack[p].next
               PROVE  InFile(fields[NodeAt(p)][k]) => fields[NodeAt(p)][k].to \in Idx
    OBVIOUS
  <2>1. NodeAt(p) \in Idx /\ Len(fields[NodeAt(p)]) \in Nat
        /\ stack[p].next <= Len(fields[NodeAt(p)])
    BY <1>0, FieldsAreLists DEF FrameInv
  <2>2. k \in 1..Len(fields[NodeAt(p)])
    BY <1>0, <2>1
  <2>3. QED
    BY <1>0, <2>1, <2>2, FieldsAreLists
<1>1. CASE Alloc \/ SkipRoot \/ SortDone \/ UNCHANGED orderVars
  <2>1. UNCHANGED <<fields, color, needs_pre, stack, top, items>>
    BY <1>1 DEF Alloc, SkipRoot, SortDone, orderVars, search
  <2>2. QED
    BY <1>0, <2>1 DEF FlaggedInv, NodeAt, Before, Positions, Held
<1>2. CASE StartTree
  <2>1. /\ top' = 0 /\ top = -1 /\ stack'[0].next = 0
        /\ root \in Idx /\ color[root] = "white"
        /\ \A m \in Idx : color'[m] = IF m = root THEN "gray" ELSE color[m]
        /\ items' = items /\ needs_pre' = needs_pre
    BY <1>2, StartFrames DEF StartTree
  <2>2. \A p \in 0..top' : 1..stack'[p].next = {}
    BY <2>1
  <2>3. \A h \in Idx : color'[h] = "black" =>
          \A t \in Held(h)' : t \in needs_pre' \/ Before(t, h)'
    BY <1>0, <1>h, <2>1, SameOrder DEF FlaggedInv
  <2>4. QED
    BY <2>2, <2>3 DEF FlaggedInv
<1>3. CASE Push
  <2>1. /\ top' = top + 1 /\ top >= 0 /\ top \in Int
        /\ \A p \in 0..top : NodeAt(p)' = NodeAt(p)
        /\ \A p \in 0..top :
             stack'[p].next = IF p = top THEN stack[top].next + 1 ELSE stack[p].next
        /\ stack'[top + 1].node = Edge.to /\ stack'[top + 1].next = 0
        /\ Edge.to \in Idx /\ color[Edge.to] = "white"
        /\ \A m \in Idx : color'[m] = IF m = Edge.to THEN "gray" ELSE color[m]
        /\ items' = items /\ needs_pre' = needs_pre
    BY <1>0, <1>3, PushFrames DEF Push, SortTypes
  <2>2. Edge = fields[NodeAt(top)][stack[top].next + 1]
    BY DEF Edge, Node, NodeAt
  <2>3. \A p \in {top + 1} : NodeAt(p)' = Edge.to
    BY <2>1 DEF NodeAt
  <2>4. ASSUME NEW p \in 0..top', NEW k \in 1..stack'[p].next PROVE Settled(p, k)'
    <3>1. CASE p = top + 1
      BY <2>1, <2>4, <3>1
    <3>2. CASE p = top /\ k = stack[top].next + 1
      BY <1>h, <2>1, <2>2, <2>3, <3>2 DEF Settled
    <3>3. CASE p \in 0..top /\ k \in 1..stack[p].next
      <4>1. Settled(p, k)
        BY <1>s, <3>3
      <4>2. p < top => p + 1 \in 0..top
        BY <2>1, <3>3
      <4>3. NodeAt(p)' = NodeAt(p) /\ (p < top => NodeAt(p + 1)' = NodeAt(p + 1))
        BY <2>1, <3>3, <4>2
      <4>4. QED
        BY <1>f, <1>h, <2>1, <3>3, <4>1, <4>3 DEF Settled
    <3>4. QED
      BY <1>0, <2>1, <2>4, <3>1, <3>2, <3>3
  <2>5. \A h \in Idx : color'[h] = "black" =>
          \A t \in Held(h)' : t \in needs_pre' \/ Before(t, h)'
    BY <1>0, <1>h, <2>1, SameOrder DEF FlaggedInv
  <2>6. QED
    BY <2>4, <2>5 DEF FlaggedInv, Settled
<1>4. CASE PassOver \/ BackEdge
  <2>1. top >= 0 /\ Pending /\ stack' = Advanced /\ top \in Int
        /\ UNCHANGED <<color, top, items>> /\ needs_pre \subseteq needs_pre'
    BY <1>0, <1>4 DEF PassOver, BackEdge, SortTypes
  <2>2. \A p \in 0..top : /\ NodeAt(p)' = NodeAt(p)
                          /\ stack'[p].next = IF p = top THEN stack[top].next + 1
                                                         ELSE stack[p].next
    BY <2>1, LookFrames
  <2>3. Edge = fields[NodeAt(top)][stack[top].next + 1]
    BY DEF Edge, Node, NodeAt
  <2>4. InFile(Edge) => color[Edge.to] = "black" \/ Edge.to \in needs_pre'
    BY <1>4 DEF PassOver, BackEdge
  <2>5. ASSUME NEW p \in 0..top', NEW k \in 1..stack'[p].next PROVE Settled(p, k)'
    <3>1. CASE p = top /\ k = stack[top].next + 1
      BY <1>h, <2>1, <2>2, <2>3, <2>4, <3>1 DEF Settled
    <3>2. CASE k \in 1..stack[p].next
      <4>1. Settled(p, k) /\ p \in 0..top
        BY <1>s, <2>1, <3>2
      <4>2. p < top => p + 1 \in 0..top
        BY <2>1, <4>1
      <4>3. NodeAt(p)' = NodeAt(p) /\ (p < top => NodeAt(p + 1)' = NodeAt(p + 1))
        BY <2>2, <4>1, <4>2
      <4>4. QED
        BY <1>h, <2>1, <4>1, <4>3 DEF Settled
    <3>3. QED
      BY <1>0, <2>1, <2>2, <2>5, <3>1, <3>2
  <2>6. \A h \in Idx : color'[h] = "black" =>
          \A t \in Held(h)' : t \in needs_pre' \/ Before(t, h)'
    BY <1>0, <1>h, <2>1, SameOrder DEF FlaggedInv
  <2>7. QED
    BY <2>5, <2>6 DEF FlaggedInv, Settled
<1>5. CASE Retire
  <2>1. /\ top \in 0..(N - 1) /\ top' = top - 1 /\ stack' = stack
        /\ Node \in Idx /\ Node = NodeAt(top) /\ color[Node] = "gray"
        /\ \A m \in Idx : color'[m] = IF m = Node THEN "black" ELSE color[m]
        /\ needs_pre' = needs_pre /\ stack[top].next = Len(fields[Node])
    BY <1>5, RetireLists, TopFrame DEF Retire
  <2>2. ASSUME NEW p \in 0..top', NEW k \in 1..stack'[p].next PROVE Settled(p, k)'
    <3>1. p \in 0..top /\ p # top /\ k \in 1..stack[p].next
      BY <2>1, <2>2
    <3>2. Settled(p, k)
      BY <1>s, <3>1
    <3>3. NodeAt(p)' = NodeAt(p) /\ NodeAt(p + 1)' = NodeAt(p + 1)
      BY <2>1 DEF NodeAt
    <3>4. p + 1 = top \/ p < top'
      BY <2>1, <3>1
    <3>5. QED
      BY <1>f, <1>h, <2>1, <3>1, <3>2, <3>3, <3>4 DEF Settled
  <2>3. ASSUME NEW h \in Idx, color'[h] = "black", NEW t \in Held(h)'
        PROVE  t \in needs_pre' \/ Before(t, h)'
    <3>1. t \in Held(h) /\ t \in Idx
      BY <1>h, <2>3
    <3>2. CASE h = Node
      <4>1. PICK k \in 1..stack[top].next :
              InFile(fields[NodeAt(top)][k]) /\ fields[NodeAt(top)][k].to = t
        BY <1>0, <2>1, <3>1, <3>2, HeldInFile
      <4>2. color[t] = "black" \/ t \in needs_pre
        BY <1>s, <2>1, <4>1 DEF Settled
      <4>3. QED
        BY <1>5, <2>1, <3>1, <3>2, <4>2, RetireOrder
    <3>3. CASE h # Node
      BY <1>0, <1>5, <2>1, <2>3, <3>1, <3>3, RetireOrder DEF FlaggedInv
    <3>4. QED
      BY <3>2, <3>3
  <2>4. QED
    BY <2>2, <2>3 DEF FlaggedInv, Settled
<1>6. QED
  BY <1>1, <1>2, <1>3, <1>4, <1>5 DEF OrderNext

LEMMA EarlyStep == Inv /\ [OrderNext]_orderVars => EarlyInv'
<1> SUFFICES ASSUME Inv, [OrderNext]_orderVars PROVE EarlyInv'
  OBVIOUS
<1>0. EarlyInv /\ SortTypes /\ FrameInv /\ top \in Int
  BY DEF Inv, SortTypes
<1>h. \A m \in Idx : Held(m)' = Held(m)
  <2>1. fields' = fields
    BY DEF OrderNext, Alloc, SkipRoot, StartTree, Retire, PassOver, BackEdge, Push,
           SortDone, orderVars
  <2>2. QED
    BY <2>1, HeldSame
<1>1. CASE Alloc \/ SkipRoot \/ SortDone \/ UNCHANGED orderVars
  <2>1. UNCHANGED <<fields, color, needs_pre, stack, top, items>>
    BY <1>1 DEF Alloc, SkipRoot, SortDone, orderVars, search
  <2>2. QED
    BY <1>0, <2>1 DEF EarlyInv, Early, NodeAt, NotAfter, Positions, Held
<1>2. CASE StartTree \/ Push
  <2>1. /\ top <= top' /\ items' = items /\ needs_pre' = needs_pre
        /\ \A p \in 0..top : NodeAt(p)' = NodeAt(p)
        /\ \A m \in Idx : color[m] \in {"gray", "black"} => color'[m] = color[m]
    BY <1>0, <1>2, StartFrames, PushFrames DEF StartTree, Push
  <2>2. top' \in Int /\ \A p \in 0..top : p \in 0..top'
    BY <1>0, <1>2, <2>1, StartFrames, PushFrames
  <2>3. ASSUME NEW m \in Idx, NEW h \in Idx, Early(m, h) PROVE Early(m, h)'
    BY <2>1, <2>2, <2>3, SameOrder DEF Early
  <2>4. needs_pre \subseteq Idx
    BY <1>0 DEF SortTypes
  <2>5. QED
    BY <1>0, <1>h, <2>1, <2>3, <2>4 DEF EarlyInv
<1>3. CASE PassOver \/ BackEdge
  <2>1. top >= 0 /\ Pending /\ stack' = Advanced
        /\ UNCHANGED <<color, top, items>>
    BY <1>3 DEF PassOver, BackEdge
  <2>2. \A p \in 0..top : NodeAt(p)' = NodeAt(p)
    BY <2>1, LookFrames
  <2>3. ASSUME NEW m \in Idx, NEW h \in Idx, Early(m, h) PROVE Early(m, h)'
    BY <2>1, <2>2, <2>3, SameOrder DEF Early
  <2>4. ASSUME NEW m \in needs_pre', m \notin needs_pre
        PROVE  \E h \in Idx : m \in Held(h) /\ Early(m, h)
    <3>1. m = Edge.to /\ color[m] = "gray" /\ InFile(Edge)
      BY <1>3, <2>4 DEF PassOver, BackEdge
    <3>2. Node \in Idx /\ Node = NodeAt(top) /\ top \in 0..top
          /\ m \in Held(Node) /\ m \in Idx
      BY <2>1, <3>1, TopFrame
    <3>3. \E p \in 0..top : NodeAt(p) = m
      BY <1>0, <3>1, <3>2 DEF FrameInv
    <3>4. Early(m, Node)
      BY <1>0, <3>1, <3>2, <3>3 DEF Early
    <3>5. QED
      BY <3>2, <3>4
  <2>5. \A m \in needs_pre' : \E h \in Idx : m \in Held(h) /\ Early(m, h)
    BY <1>0, <2>4 DEF EarlyInv
  <2>6. needs_pre' \subseteq Idx
    BY TypesStep DEF SortTypes
  <2>7. QED
    BY <1>h, <2>3, <2>5, <2>6 DEF EarlyInv
<1>4. CASE Retire
  <2>1. /\ top \in 0..(N - 1) /\ top' = top - 1 /\ stack' = stack
        /\ Node \in Idx /\ Node = NodeAt(top) /\ color[Node] = "gray"
        /\ \A m \in Idx : color'[m] = IF m = Node THEN "black" ELSE color[m]
        /\ needs_pre' = needs_pre
    BY <1>4, RetireLists DEF Retire
  <2>2. ASSUME NEW m \in Idx, NEW h \in Idx, Early(m, h) PROVE Early(m, h)'
    <3>1. CASE NotAfter(h, m)
      BY <1>4, <3>1, RetireOrder DEF Early
    <3>2. CASE color[m] = "gray" /\ color[h] = "black"
      <4>1. CASE m = Node
        BY <1>4, <3>2, <4>1, RetireOrder DEF Early
      <4>2. CASE m # Node
        BY <2>1, <3>2, <4>2 DEF Early
      <4>3. QED
        BY <4>1, <4>2
    <3>3. ASSUME color[m] = "gray", NEW p \in 0..top, NEW q \in 0..top, p <= q,
                 NodeAt(p) = m, NodeAt(q) = h
          PROVE  Early(m, h)'
      <4>1. CASE m = Node
        <5>1. p = top /\ q = top
          BY <1>0, <2>1, <3>3, <4>1 DEF FrameInv
        <5>2. h = Node
          BY <2>1, <3>3, <5>1
        <5>3. QED
          BY <1>4, <4>1, <5>2, RetireOrder DEF Early
      <4>2. CASE m # Node /\ h = Node
        BY <2>1, <3>3, <4>2 DEF Early
      <4>3. CASE m # Node /\ h # Node
        <5>1. p \in 0..top' /\ q \in 0..top' /\ NodeAt(p)' = m /\ NodeAt(q)' = h
          BY <2>1, <3>3, <4>3 DEF NodeAt
        <5>2. color'[m] = "gray"
          BY <2>1, <3>3, <4>3
        <5>3. QED
          BY <3>3, <5>1, <5>2 DEF Early
      <4>4. QED
        BY <4>1, <4>2, <4>3
    <3>4. QED
      BY <2>2, <3>1, <3>2, <3>3 DEF Early
  <2>3. needs_pre \subseteq Idx
    BY <1>0 DEF SortTypes
  <2>4. QED
    BY <1>0, <1>h, <2>1, <2>2, <2>3 DEF EarlyInv
<1>5. QED
  BY <1>1, <1>2, <1>3, <1>4 DEF OrderNext

LEMMA PhaseStep == Inv /\ [OrderNext]_orderVars => PhaseInv'
<1> SUFFICES ASSUME Inv, [OrderNext]_orderVars PROVE PhaseInv'
  OBVIOUS
<1>0. PhaseInv /\ SortTypes
  BY DEF Inv
<1>1. CASE Alloc
  <2>1. UNCHANGED <<root, top, needs_pre, predeclare>> /\ pc = "start"
    BY <1>1 DEF Alloc, search
  <2>2. CASE N = 0
    <3>1. root = 0 /\ top = -1 /\ needs_pre = {}
      BY <1>0, <2>2 DEF SortTypes, Idx
    <3>2. QED
      BY <1>0, <2>1, <2>2, <3>1 DEF PhaseInv
  <2>3. CASE N # 0
    BY <1>0, <1>1, <2>1, <2>3 DEF Alloc, PhaseInv
  <2>4. QED
    BY <2>2, <2>3
<1>2. CASE SkipRoot \/ StartTree \/ Retire \/ PassOver \/ BackEdge \/ Push
  BY <1>0, <1>2 DEF SkipRoot, StartTree, Retire, PassOver, BackEdge, Push, PhaseInv
<1>3. CASE SortDone
  BY <1>0, <1>3 DEF SortDone, search, PhaseInv
<1>4. CASE UNCHANGED orderVars
  BY <1>0, <1>4 DEF orderVars, search, PhaseInv
<1>5. QED
  BY <1>1, <1>2, <1>3, <1>4 DEF OrderNext

LEMMA InvKept == Inv /\ [OrderNext]_orderVars => Inv'
BY TypesStep, FrameStep, RootStep, ListStep, FlaggedStep, EarlyStep, PhaseStep DEF Inv

LEMMA InvHolds == OrderSpec => []Inv
BY InitInv, InvKept, PTL DEF OrderSpec

-----------------------------------------------------------------------------
(* The list of predeclared messages.                                       *)

(* A finite set of numbers can be listed in increasing order: the k-th is  *)
(* the one with k members up to it.                                        *)
LEMMA ListedInOrder ==
  ASSUME NEW S \in SUBSET Idx
  PROVE  LET n == Cardinality(S)
         IN  \E s \in [1..n -> S] : \A j, k \in 1..n : j < k => s[j] < s[k]
<1> DEFINE n == Cardinality(S)
           upTo(m) == {x \in S : x <= m}
           r == [m \in S |-> Cardinality(upTo(m))]
<1>0. IsFiniteSet(S) /\ n \in Nat /\ S \subseteq Int
  <2>1. IsFiniteSet(S)
    BY IdxFinite, FS_Subset
  <2>2. n \in Nat
    BY <2>1, FS_CardinalityType
  <2>3. S \subseteq Int
    BY OrderAssumption DEF Idx
  <2>4. QED
    BY <2>1, <2>2, <2>3
<1>1. ASSUME NEW m \in S
      PROVE  /\ IsFiniteSet(upTo(m)) /\ Cardinality(upTo(m)) \in 1..n
  <2>1. upTo(m) \subseteq S
    OBVIOUS
  <2>2. IsFiniteSet(upTo(m)) /\ Cardinality(upTo(m)) <= n /\ Cardinality(upTo(m)) \in Nat
    BY <1>0, <2>1, FS_Subset, FS_CardinalityType
  <2>3. upTo(m) # {}
    BY <1>0
  <2>4. Cardinality(upTo(m)) # 0
    BY <2>2, <2>3, FS_EmptySet
  <2> HIDE DEF upTo
  <2>5. QED
    BY <1>0, <2>2, <2>4
<1>2. ASSUME NEW a \in S, NEW b \in S, a < b
      PROVE  r[a] < r[b]
  <2>0. \A x \in S : x \in Int
    BY <1>0
  <2>1. upTo(a) \subseteq upTo(b) /\ b \in upTo(b) /\ b \notin upTo(a)
    BY <2>0, <1>2
  <2>2. Cardinality(upTo(a)) <= Cardinality(upTo(b)) /\ Cardinality(upTo(a)) # Cardinality(upTo(b))
    BY <1>1, <2>1, FS_Subset
  <2>3. Cardinality(upTo(a)) \in Int /\ Cardinality(upTo(b)) \in Int
    BY <1>1
  <2>4. QED
    BY <2>2, <2>3
<1>3. r \in Surjection(S, 1..n)
  <2>1. r \in [S -> 1..n]
    BY <1>1
  <2>2. ASSUME NEW a \in S, NEW b \in S, r[a] = r[b] PROVE a = b
    <3>1. ~(a < b) /\ ~(b < a)
      BY <1>2, <2>1, <2>2
    <3>2. QED
      BY <1>0, <3>1
  <2>3. r \in Injection(S, 1..n)
    BY <2>1, <2>2 DEF Injection, IsInjective
  <2>4. IsFiniteSet(1..n) /\ Cardinality(1..n) = n
    BY <1>0, FS_Interval
  <2>5. QED
    BY <2>3, <2>4, FS_Injection
<1>4. \A k \in 1..n : \E m \in S : r[m] = k
  BY <1>3 DEF Surjection
<1> HIDE DEF r
<1> DEFINE s == [k \in 1..n |-> CHOOSE m \in S : r[m] = k]
<1>5. \A k \in 1..n : s[k] \in S /\ r[s[k]] = k
  BY <1>4
<1>6. s \in [1..n -> S]
  BY <1>5
<1>7. r \in [S -> 1..n]
  BY <1>3 DEF Surjection
<1> HIDE DEF s
<1>8. ASSUME NEW j \in 1..n, NEW k \in 1..n, j < k PROVE s[j] < s[k]
  <2>1. s[j] # s[k] /\ ~(s[k] < s[j])
    <3>1. s[j] \in S /\ s[k] \in S /\ r[s[j]] = j /\ r[s[k]] = k /\ j \in Int /\ k \in Int
      BY <1>0, <1>5
    <3>2. QED
      BY <1>2, <1>8, <3>1
  <2>2. s[j] \in Int /\ s[k] \in Int
    BY <1>0, <1>5
  <2>3. QED
    BY <2>1, <2>2
<1>9. QED
  BY <1>6, <1>8

LEMMA InFileOrderLists ==
  ASSUME NEW S \in SUBSET Idx
  PROVE  LET s == InFileOrder(S)
         IN  /\ s \in Seq(Idx) /\ Len(s) = Cardinality(S) /\ Len(s) <= N
             /\ \A k \in 1..Len(s) : s[k] \in S
             /\ \A m \in S : \E k \in 1..Len(s) : s[k] = m
             /\ \A j, k \in 1..Len(s) : j < k => s[j] < s[k]
<1> DEFINE s == InFileOrder(S)
           n == Cardinality(S)
<1>1. IsFiniteSet(S) /\ n \in Nat /\ n <= N
  <2>1. IsFiniteSet(S) /\ n <= N
    BY IdxFinite, FS_Subset
  <2>2. QED
    BY <2>1, FS_CardinalityType
<1>2. s \in [1..n -> S] /\ \A j, k \in 1..n : j < k => s[j] < s[k]
  BY ListedInOrder DEF InFileOrder
<1> HIDE DEF s
<1>3. s \in Seq(Idx) /\ Len(s) = n
  <2>1. s \in [1..n -> Idx]
    BY <1>2
  <2>2. s \in Seq(Idx)
    BY <1>1, <2>1, SeqDef
  <2>3. QED
    BY <1>1, <2>1, <2>2
<1>4. s \in Surjection(1..n, S)
  <2>1. ASSUME NEW j \in 1..n, NEW k \in 1..n, s[j] = s[k] PROVE j = k
    <3>0. \A x \in S : x \in Int
      BY OrderAssumption DEF Idx
    <3>1. s[j] \in Int /\ s[k] \in Int /\ j \in Int /\ k \in Int
      BY <1>2, <3>0
    <3>2. ~(j < k) /\ ~(k < j)
      BY <1>2, <2>1, <3>1
    <3>3. QED
      BY <3>1, <3>2
  <2>2. s \in Injection(1..n, S)
    BY <1>2, <2>1 DEF Injection, IsInjective
  <2>3. IsFiniteSet(1..n) /\ Cardinality(1..n) = n
    BY <1>1, FS_Interval
  <2>4. QED
    BY <1>1, <2>2, <2>3, FS_Injection
<1>5. \A m \in S : \E k \in 1..n : s[k] = m
  BY <1>4 DEF Surjection
<1>6. QED
  BY <1>1, <1>2, <1>3, <1>5 DEF s

LEMMA PredeclareLists ==
  ASSUME Inv, pc = "sorted"
  PROVE  /\ predeclare \in Seq(Idx) /\ Len(predeclare) \in 0..N
         /\ \A k \in 1..Len(predeclare) : predeclare[k] \in needs_pre
         /\ \A m \in needs_pre : \E k \in 1..Len(predeclare) : predeclare[k] = m
         /\ \A j, k \in 1..Len(predeclare) : j < k => predeclare[j] < predeclare[k]
<1>1. needs_pre \in SUBSET Idx
  BY DEF Inv, SortTypes
<1>2. CASE needs_pre = {}
  BY <1>2, EmptySeq, OrderAssumption DEF Inv, PhaseInv
<1>3. CASE needs_pre # {}
  <2>1. predeclare = InFileOrder(needs_pre)
    BY <1>3 DEF Inv, PhaseInv
  <2>2. predeclare \in Seq(Idx) => Len(predeclare) \in Nat
    BY LenProperties
  <2>3. QED
    BY <1>1, <2>1, <2>2, InFileOrderLists, OrderAssumption
<1>4. QED
  BY <1>2, <1>3
-----------------------------------------------------------------------------
(* Recursion.  What leads to a message leads to what that message holds.   *)
LEMMA HeldLeads ==
  ASSUME NEW h \in Idx, NEW m \in Held(h)
  PROVE  HoldsWithin(h, m)
BY DEF HoldsWithin

LEMMA LeadsOn ==
  ASSUME NEW h \in Idx, NEW g \in Idx, HoldsWithin(h, g), NEW m \in Held(g)
  PROVE  HoldsWithin(h, m)
<1> SUFFICES ASSUME NEW S \in SUBSET Idx, Held(h) \subseteq S, \A x \in S : Held(x) \subseteq S
             PROVE  m \in S
  BY DEF HoldsWithin
<1>1. g \in S
  BY DEF HoldsWithin
<1>2. QED
  BY <1>1

LEMMA LeadsSame ==
  ASSUME fields' = fields
  PROVE  \A h, m \in Idx : HoldsWithin(h, m)' <=> HoldsWithin(h, m)
BY DEF HoldsWithin, Held

(* A message on the stack leads to every message above it, and a flagged   *)
(* one to itself: the back edge closed a cycle through the frames.         *)
CycleInv ==
  /\ \A p, q \in 0..top : p < q => HoldsWithin(NodeAt(p), NodeAt(q))
  /\ \A m \in needs_pre : HoldsWithin(m, m)

(* Whatever the message on top holds, every message below leads to.        *)
LEMMA TopLeads ==
  ASSUME Inv, CycleInv, top >= 0, NEW m \in Held(Node), NEW p \in 0..top
  PROVE  HoldsWithin(NodeAt(p), m)
<1>1. Node \in Idx /\ Node = NodeAt(top) /\ top \in 0..top
  BY TopFrame
<1>2. p \in Idx /\ NodeAt(p) \in Idx
  BY OrderAssumption DEF Inv, SortTypes, NodeAt, Frame, Idx
<1>3. CASE p = top
  BY <1>1, <1>3, HeldLeads
<1>4. CASE p # top
  <2>1. p < top
    BY <1>1, <1>4
  <2>2. HoldsWithin(NodeAt(p), Node)
    BY <1>1, <2>1 DEF CycleInv
  <2>3. QED
    BY <1>1, <1>2, <2>2, LeadsOn
<1>5. QED
  BY <1>3, <1>4

LEMMA CycleStep == Inv /\ CycleInv /\ [OrderNext]_orderVars => CycleInv'
<1> SUFFICES ASSUME Inv, CycleInv, [OrderNext]_orderVars PROVE CycleInv'
  OBVIOUS
<1>0. top \in Int /\ needs_pre \subseteq Idx /\ \A p \in 0..top : NodeAt(p) \in Idx
  BY OrderAssumption DEF Inv, SortTypes, NodeAt, Frame, Idx
<1>h. \A h, m \in Idx : HoldsWithin(h, m)' <=> HoldsWithin(h, m)
  <2>1. fields' = fields
    BY DEF OrderNext, Alloc, SkipRoot, StartTree, Retire, PassOver, BackEdge, Push,
           SortDone, orderVars
  <2>2. QED
    BY <2>1, LeadsSame
<1>1. CASE Alloc \/ SkipRoot \/ Retire \/ SortDone \/ UNCHANGED orderVars
  <2>1. stack' = stack /\ needs_pre' = needs_pre /\ top' \in {top, top - 1}
    BY <1>1 DEF Alloc, SkipRoot, Retire, SortDone, orderVars, search
  <2>2. \A p \in 0..top' : p \in 0..top /\ NodeAt(p)' = NodeAt(p)
    BY <1>0, <2>1 DEF NodeAt
  <2>3. QED
    BY <1>0, <1>h, <2>1, <2>2 DEF CycleInv
<1>2. CASE StartTree
  <2>1. top' = 0 /\ needs_pre' = needs_pre
    BY <1>2 DEF StartTree
  <2>2. \A p, q \in 0..top' : ~(p < q)
    BY <2>1
  <2>3. QED
    BY <1>0, <1>h, <2>1, <2>2 DEF CycleInv
<1>3. CASE PassOver
  <2>1. top >= 0 /\ Pending /\ stack' = Advanced /\ top' = top /\ needs_pre' = needs_pre
    BY <1>3 DEF PassOver
  <2>2. \A p \in 0..top : NodeAt(p)' = NodeAt(p)
    BY <2>1, LookFrames
  <2>3. QED
    BY <1>0, <1>h, <2>1, <2>2 DEF CycleInv
<1>4. CASE BackEdge
  <2>1. /\ top >= 0 /\ Pending /\ stack' = Advanced /\ top' = top
        /\ InFile(Edge) /\ color[Edge.to] = "gray" /\ needs_pre' = needs_pre \cup {Edge.to}
    BY <1>4 DEF BackEdge
  <2>2. \A p \in 0..top : NodeAt(p)' = NodeAt(p)
    BY <2>1, LookFrames
  <2>3. Edge.to \in Idx /\ Edge.to \in Held(Node)
    BY <2>1, TopFrame
  <2>4. PICK b \in 0..top : NodeAt(b) = Edge.to
    BY <2>1, <2>3 DEF Inv, FrameInv
  <2>5. HoldsWithin(Edge.to, Edge.to)
    BY <2>1, <2>3, <2>4, TopLeads
  <2>6. \A p, q \in 0..top' : p < q => HoldsWithin(NodeAt(p), NodeAt(q))'
    BY <1>0, <1>h, <2>1, <2>2 DEF CycleInv
  <2>7. \A m \in needs_pre' : HoldsWithin(m, m)'
    BY <1>0, <1>h, <2>1, <2>3, <2>5 DEF CycleInv
  <2>8. QED
    BY <2>6, <2>7 DEF CycleInv
<1>5. CASE Push
  <2>1. /\ top >= 0 /\ top' = top + 1 /\ needs_pre' = needs_pre
        /\ \A p \in 0..top : NodeAt(p)' = NodeAt(p)
        /\ stack'[top + 1].node = Edge.to
    BY <1>5, PushFrames DEF Push
  <2>2. Edge.to \in Idx /\ Edge.to \in Held(Node)
    BY <1>5, <2>1, TopFrame DEF Push
  <2>3. ASSUME NEW p \in 0..top', NEW q \in 0..top', p < q
        PROVE  HoldsWithin(NodeAt(p), NodeAt(q))'
    <3>1. p \in 0..top
      BY <1>0, <2>1, <2>3
    <3>2. CASE q = top + 1
      <4>1. HoldsWithin(NodeAt(p), Edge.to)
        BY <2>1, <2>2, <3>1, TopLeads
      <4>2. QED
        BY <1>0, <1>h, <2>1, <2>2, <3>1, <3>2, <4>1 DEF NodeAt
    <3>3. CASE q # top + 1
      <4>1. q \in 0..top
        BY <1>0, <2>1, <3>3
      <4>2. HoldsWithin(NodeAt(p), NodeAt(q))
        BY <2>3, <3>1, <4>1 DEF CycleInv
      <4>3. QED
        BY <1>0, <1>h, <2>1, <3>1, <4>1, <4>2
    <3>4. QED
      BY <3>2, <3>3
  <2>4. \A m \in needs_pre' : HoldsWithin(m, m)'
    BY <1>0, <1>h, <2>1 DEF CycleInv
  <2>5. QED
    BY <2>3, <2>4 DEF CycleInv
<1>6. QED
  BY <1>1, <1>2, <1>3, <1>4, <1>5 DEF OrderNext

-----------------------------------------------------------------------------
(* The results.                                                            *)

(* The arrays of n entries suffice for gremlind_topo_sort_messages,        *)
(* however the messages of the file hold each other and themselves.        *)
THEOREM ScratchIsLargeEnough == OrderSpec => []ScratchFits
<1>1. Inv => ScratchFits
  <2> SUFFICES ASSUME Inv PROVE ScratchFits
    OBVIOUS
  <2>1. \A p \in 0..top : p \in Idx /\ NodeAt(p) \in Idx
    BY OrderAssumption DEF Inv, SortTypes, Frame, NodeAt, Idx
  <2>2. {stack[p].node : p \in 0..top} = {m \in Idx : color[m] = "gray"}
    BY <2>1 DEF Inv, FrameInv, NodeAt
  <2>3. QED
    BY <2>2 DEF Inv, SortTypes, FrameInv, ListInv, NodeAt, Black, ScratchFits
<1>2. QED
  BY <1>1, InvHolds, PTL

(* A listed message is at one position.                                    *)
LEMMA PositionOf ==
  ASSUME Inv, NEW k \in Positions
  PROVE  Position(items[k]) = k
<1>1. DOMAIN items = Positions
  BY LenProperties DEF Inv, SortTypes, Positions
<1>2. \A j \in Positions : items[j] = items[k] => j = k
  BY DEF Inv, ListInv
<1>3. QED
  BY <1>1, <1>2 DEF Position

(* The claim of resolve.h about predeclare, for any file: every message is *)
(* in items once, and predeclare lists, in file order, exactly the types   *)
(* referenced before their definition.                                     *)
THEOREM PredeclareIsExact == OrderSpec => []PredeclareExact
<1>1. Inv => PredeclareExact
  <2> SUFFICES ASSUME Inv, pc = "sorted"
               PROVE  /\ Len(items) = N /\ {items[k] : k \in DOMAIN items} = Idx
                      /\ predeclare = IF TooEarly = {} THEN <<>> ELSE InFileOrder(TooEarly)
    BY DEF PredeclareExact
  <2>1. \A m \in Idx : color[m] = "black"
    BY OrderAssumption DEF Inv, PhaseInv, RootInv, Idx
  <2>2. DOMAIN items = Positions /\ \A k \in Positions : items[k] \in Idx
    BY LenProperties, ElementOfSeq DEF Inv, SortTypes, Positions
  <2>3. {items[k] : k \in DOMAIN items} = Idx
    BY <2>1, <2>2 DEF Inv, ListInv
  <2>4. Len(items) = N
    <3>1. Black = Idx
      BY <2>1 DEF Black
    <3>2. QED
      BY <3>1, IdxFinite DEF Inv, ListInv
  <2>5. ASSUME NEW m \in needs_pre PROVE m \in TooEarly
    <3>1. m \in Idx /\ color[m] # "gray"
      BY <2>1 DEF Inv, SortTypes
    <3>2. PICK h \in Idx : m \in Held(h) /\ NotAfter(h, m)
      BY <3>1 DEF Inv, EarlyInv, Early
    <3>3. PICK j, k \in Positions : items[j] = h /\ items[k] = m /\ j <= k
      BY <3>2 DEF NotAfter
    <3>4. Position(h) <= Position(m)
      BY <3>3, PositionOf
    <3>5. QED
      BY <3>1, <3>2, <3>4 DEF TooEarly
  <2>6. ASSUME NEW m \in TooEarly PROVE m \in needs_pre
    <3>1. PICK h \in Idx : m \in Held(h) /\ Position(h) <= Position(m)
      BY <2>6 DEF TooEarly
    <3>2. CASE Before(m, h)
      <4>1. PICK j, k \in Positions : items[j] = m /\ items[k] = h /\ j < k
        BY <3>2 DEF Before
      <4>2. Position(m) = j /\ Position(h) = k /\ j \in Int /\ k \in Int
        BY <4>1, PositionOf DEF Positions
      <4>3. QED
        BY <3>1, <4>1, <4>2
    <3>3. QED
      BY <2>1, <3>1, <3>2 DEF Inv, FlaggedInv
  <2>7. needs_pre = TooEarly
    BY <2>5, <2>6
  <2>8. QED
    BY <2>3, <2>4, <2>7 DEF Inv, PhaseInv
<1>2. QED
  BY <1>1, InvHolds, PTL

(* A file without recursive types needs no forward declaration: whatever   *)
(* the fields, each predeclared message holds itself, directly or through  *)
(* others.                                                                 *)
THEOREM OnlyRecursionIsPredeclared == OrderSpec => []OnlyRecursionPredeclared
<1>1. OrderInit => CycleInv
  <2> SUFFICES ASSUME OrderInit PROVE CycleInv
    OBVIOUS
  <2>1. top = -1 /\ needs_pre = {}
    BY DEF OrderInit
  <2>2. 0..top = {}
    BY <2>1
  <2>3. QED
    BY <2>1, <2>2 DEF CycleInv
<1>2. Inv /\ CycleInv => OnlyRecursionPredeclared
  <2> SUFFICES ASSUME Inv, CycleInv, pc = "sorted", NEW k \in DOMAIN predeclare
               PROVE  HoldsWithin(predeclare[k], predeclare[k])
    BY DEF OnlyRecursionPredeclared
  <2>1. /\ predeclare \in Seq(Idx)
        /\ \A j \in 1..Len(predeclare) : predeclare[j] \in needs_pre
    BY PredeclareLists
  <2>2. DOMAIN predeclare = 1..Len(predeclare)
    BY <2>1, LenProperties
  <2>3. QED
    BY <2>1, <2>2 DEF CycleInv
<1>3. QED
  BY <1>1, <1>2, CycleStep, InvHolds, InitInv, InvKept, PTL DEF OrderSpec
=============================================================================
