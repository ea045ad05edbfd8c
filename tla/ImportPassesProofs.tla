------------------------- MODULE ImportPassesProofs -------------------------
(***************************************************************************)
(* Proofs about ImportPasses, for every number of sources, every choice of *)
(* paths and every import graph.                                           *)
(*                                                                         *)
(* The inductive invariant Inv adds to the properties what relates the     *)
(* scratch arrays of the running pass to the graph.  For a search: the     *)
(* frames hold distinct files, exactly the gray ones, each reached from    *)
(* those below; imports a frame has passed over are settled; the roots     *)
(* before `outer` are black.  For visibility: every entry is visible, and  *)
(* what the entries already expanded ask for is present.                   *)
(***************************************************************************)
EXTENDS ImportPasses, FiniteSetTheorems, SequenceTheorems,
        WellFoundedInduction, TLAPS

FileAt(p) == stack[p].file

(* The frames hold distinct files, exactly the gray ones, along a path.    *)
StackInv ==
  Searching =>
    /\ \A p, q \in 0..top : FileAt(p) = FileAt(q) => p = q
    /\ \A f \in Idx : color[f] = "gray" <=> \E p \in 0..top : FileAt(p) = f
    /\ \A p, q \in 0..top : p <= q => Reaches(resolved, FileAt(p), FileAt(q))
    /\ \A p \in 0..top : stack[p].next <= Len(resolved[FileAt(p)])

(* Roots already handled are black, and the bottom frame is the current    *)
(* root.                                                                   *)
RootInv ==
  Searching =>
    /\ \A f \in Idx : f < outer => color[f] = "black"
    /\ top >= 0 => outer < N /\ FileAt(0) = outer

(* During the cycle check every import a frame has passed over is black,   *)
(* but for the one being explored in the frame above.                      *)
CheckInv ==
  pc = "cycles" =>
    /\ \A p \in 0..top : \A k \in 1..stack[p].next :
         \/ color[resolved[FileAt(p)][k]] = "black"
         \/ p < top /\ k = stack[p].next /\ resolved[FileAt(p)][k] = FileAt(p + 1)
    /\ \A f \in Idx : color[f] = "black" =>
         /\ \A g \in Targets(resolved, f) : color[g] = "black"
         /\ ~OnCycle(resolved, f)

(* During ordering they are not white, and the list holds the black files. *)
OrderInv ==
  /\ pc = "order" =>
       /\ \A p \in 0..top : \A k \in 1..stack[p].next :
            color[resolved[FileAt(p)][k]] # "white"
       /\ \A f \in Idx : color[f] = "black" <=> Holds(items, f)
  /\ pc \notin {"order", "done"} => items = <<>>

(* The file whose visibility is being computed: scratch holds nothing it   *)
(* does not see, and what the entries looked at so far add.                *)
SeeInv ==
  scratch # <<>> =>
    /\ Seeing
    /\ scratch[1] = outer
    /\ Distinct(scratch)
    /\ \A i \in DOMAIN scratch : scratch[i] \in VisibleFrom(imports, resolved, outer)
    /\ processing <= Len(scratch)
    /\ \A k \in DOMAIN resolved[outer] :
         processing > 0 \/ k < edge => Holds(scratch, resolved[outer][k])
    /\ \A i \in 2..Len(scratch) : \A k \in DOMAIN resolved[scratch[i]] :
         /\ i <= processing \/ (i = processing + 1 /\ k < edge)
         /\ imports[scratch[i]][k].public
         => Holds(scratch, resolved[scratch[i]][k])

(* Between the passes.                                                     *)
PhaseInv ==
  /\ pc # "failed" => error = "OK"
  /\ pc = "link" => ~checked
  /\ ~Searching /\ pc # "failed" => top = -1
  /\ pc = "link" => color = White

Inv ==
  /\ TypeOK /\ ScratchFits /\ PhaseInv
  /\ StackInv /\ RootInv /\ CheckInv /\ OrderInv /\ SeeInv
  /\ CycleVerdict /\ VisibleExact /\ FileOrder

-----------------------------------------------------------------------------
(* Facts about the import graph.                                           *)

(* A file reaches itself.                                                  *)
LEMMA ReachesItself ==
  ASSUME NEW to, NEW f
  PROVE  Reaches(to, f, f)
BY DEF Reaches

(* One import more: what reaches g reaches what g imports.                 *)
LEMMA ReachesFurther ==
  ASSUME NEW to, NEW f, NEW g, NEW h, Reaches(to, f, g), Edge(to, g, h)
  PROVE  Reaches(to, f, h)
BY DEF Reaches, Edge, ClosedUnderImports

(* The reason a file may turn black: it is on no cycle when its imports    *)
(* all lie in a closed set it is not in.                                   *)
LEMMA NoWayBack ==
  ASSUME NEW to, NEW B \in SUBSET Idx, ClosedUnderImports(to, B),
         NEW f \in Idx, f \notin B, Targets(to, f) \subseteq B
  PROVE  ~OnCycle(to, f)
<1>1. SUFFICES ASSUME NEW g \in Idx, Reaches(to, f, g), Edge(to, g, f)
               PROVE  FALSE
  BY DEF OnCycle
<1>2. ClosedUnderImports(to, B \cup {f})
  BY DEF ClosedUnderImports
<1>3. g \in B \cup {f}
  BY <1>1, <1>2 DEF Reaches
<1>4. CASE g \in B
  BY <1>1, <1>4 DEF ClosedUnderImports, Edge
<1>5. CASE g = f
  BY <1>1, <1>5 DEF Edge
<1>6. QED
  BY <1>3, <1>4, <1>5

(* A list of files without repetition is no longer than n_sources: what    *)
(* keeps the scratch arrays from overflowing.                              *)
LEMMA DistinctFits ==
  ASSUME NEW s \in Seq(Idx), Distinct(s)
  PROVE  Len(s) <= N
<1>1. Len(s) \in Nat /\ s \in [1..Len(s) -> Idx]
  BY LenProperties
<1>2. IsFiniteSet(1..Len(s)) /\ Cardinality(1..Len(s)) = Len(s)
  BY <1>1, FS_Interval
<1>3. IsFiniteSet(Idx) /\ Cardinality(Idx) = N
  BY FS_Interval, NAssumption DEF Idx
<1>4. ASSUME N < Len(s) PROVE FALSE
  <2>1. \E x, y \in 1..Len(s) : x # y /\ s[x] = s[y]
    BY <1>1, <1>2, <1>3, <1>4, FS_PigeonHole
  <2>2. QED
    BY <2>1, <1>1 DEF Distinct
<1>5. QED
  BY <1>1, <1>4, NAssumption

(* Distinct files on frames 0..t and a file on none of them: one frame     *)
(* more fits in the array.                                                 *)
LEMMA StackHasRoom ==
  ASSUME NEW st \in [Idx -> Frame], NEW t \in Int, t >= -1, t < N,
         \A p, q \in 0..t : st[p].file = st[q].file => p = q,
         NEW f \in Idx, \A p \in 0..t : st[p].file # f
  PROVE  t + 1 < N
<1> DEFINE g == [p \in 0..(t + 1) |-> IF p = t + 1 THEN f ELSE st[p].file]
<1>1. g \in [0..(t + 1) -> Idx]
  BY NAssumption DEF Idx, Frame
<1> HIDE DEF g
<1>2. IsFiniteSet(0..(t + 1)) /\ Cardinality(0..(t + 1)) = t + 2
  BY FS_Interval
<1>3. IsFiniteSet(Idx) /\ Cardinality(Idx) = N
  BY FS_Interval, NAssumption DEF Idx
<1>4. ASSUME N < t + 2 PROVE FALSE
  <2>1. PICK x, y \in 0..(t + 1) : x # y /\ g[x] = g[y]
    <3>1. Cardinality(Idx) < Cardinality(0..(t + 1))
      BY <1>2, <1>3, <1>4
    <3>2. QED
      BY <1>1, <1>2, <1>3, <3>1, FS_PigeonHole
  <2>2. QED
    BY <2>1 DEF g
<1>5. QED
  BY <1>4, NAssumption

(* Appending to a list.                                                    *)
LEMMA Appended ==
  ASSUME NEW S, NEW s \in Seq(S), NEW e \in S
  PROVE  /\ Append(s, e) \in Seq(S)
         /\ Len(Append(s, e)) = Len(s) + 1
         /\ DOMAIN Append(s, e) = 1..(Len(s) + 1)
         /\ \A i \in 1..Len(s) : Append(s, e)[i] = s[i]
         /\ Append(s, e)[Len(s) + 1] = e
         /\ Append(s, e) # <<>>
OBVIOUS

-----------------------------------------------------------------------------
(* Types.                                                                  *)

(* A path some source has is looked up to a source that has it.            *)
LEMMA LookupNamed ==
  ASSUME NEW pp, NEW p, Named(pp, p) # {}
  PROVE  Lookup(pp, p) \in Named(pp, p)
<1>1. Named(pp, p) \in SUBSET Nat
  BY NAssumption DEF Named, Idx
<1> DEFINE R == OpToRel(<, Nat)
<1>2. \A i, j \in Nat : j < i => <<j, i>> \in R
  BY DEF OpToRel
<1>3. IsWellFoundedOn(R, Nat)
  BY NatLessThanWellFounded
<1> HIDE DEF R
<1>4. \E i \in Named(pp, p) : \A j \in Named(pp, p) : ~(<<j, i>> \in R)
  BY <1>1, <1>3, WFMin
<1>5. \E i \in Named(pp, p) : \A j \in Named(pp, p) : i <= j
  <2>1. PICK i \in Named(pp, p) : \A j \in Named(pp, p) : ~(<<j, i>> \in R)
    BY <1>4
  <2>2. ASSUME NEW j \in Named(pp, p) PROVE i <= j
    <3>1. i \in Nat /\ j \in Nat
      BY <1>1, <2>1, <2>2
    <3>2. ~(j < i)
      BY <1>2, <2>1, <2>2, <3>1
    <3>3. QED
      BY <3>1, <3>2
  <2>3. QED
    BY <2>1, <2>2
<1>6. QED
  BY <1>5 DEF Lookup

LEMMA LinkedIsList ==
  ASSUME NEW n \in Nat, \A k \in 1..n : Found(k)
  PROVE  /\ Linked(n) \in Seq(Idx)
         /\ Len(Linked(n)) = n
<1>1. \A k \in 1..n : Lookup(path, imports[outer][k].path) \in Idx
  BY LookupNamed DEF Found, Named
<1>2. Linked(n) \in [1..n -> Idx]
  BY <1>1 DEF Linked
<1>3. QED
  BY <1>2, SeqDef

LEMMA ImportsAreLists ==
  ASSUME TypeOK, NEW f \in Idx
  PROVE  imports[f] \in Seq(Import) /\ Len(imports[f]) \in Nat
                                   /\ DOMAIN imports[f] = 1..Len(imports[f])
<1>1. imports[f] \in Seq(Import)
  BY InputsAssumption DEF TypeOK
<1>2. QED
  BY <1>1, LenProperties

(* What the top frame and its next import are.                             *)
LEMMA TopFrame ==
  ASSUME TypeOK, ScratchFits, top >= 0
  PROVE  /\ top \in Idx
         /\ TopFile \in Idx
         /\ stack[top] \in Frame
         /\ resolved[TopFile] \in Seq(Idx)
         /\ Len(resolved[TopFile]) \in Nat
         /\ Pending => Child \in Idx /\ stack[top].next + 1 \in 1..Len(resolved[TopFile])
                                    /\ Child = resolved[TopFile][stack[top].next + 1]
                                    /\ Child \in Targets(resolved, TopFile)
<1>1. top \in Idx /\ stack[top] \in Frame /\ TopFile \in Idx
  BY NAssumption DEF TypeOK, ScratchFits, Idx, Frame, TopFile
<1>2. resolved[TopFile] \in Seq(Idx) /\ Len(resolved[TopFile]) \in Nat
  BY <1>1 DEF TypeOK
<1>3. stack[top].next \in Nat
  BY <1>1 DEF Frame
<1>4. QED
  BY <1>1, <1>2, <1>3, ElementOfSeq DEF Pending, Child, Targets

(* Seeing a file: it is in the list afterwards, nothing else is added, and *)
(* the list stays without repetition.                                      *)
LEMMA SeenList ==
  ASSUME scratch \in Seq(Idx), NEW f \in Idx, See(f)
  PROVE  /\ scratch' \in Seq(Idx)
         /\ Len(scratch) <= Len(scratch')
         /\ \A i \in 1..Len(scratch) : scratch'[i] = scratch[i]
         /\ \A i \in 1..Len(scratch') : i > Len(scratch) => scratch'[i] = f
         /\ Holds(scratch', f)
         /\ Distinct(scratch) => Distinct(scratch')
<1>0. Len(scratch) \in Nat /\ DOMAIN scratch = 1..Len(scratch)
  BY LenProperties
<1>1. CASE Holds(scratch, f)
  <2>1. scratch' = scratch
    BY <1>1 DEF See
  <2>2. QED
    BY <1>0, <1>1, <2>1
<1>2. CASE ~Holds(scratch, f)
  <2>1. scratch' = Append(scratch, f)
    BY <1>2 DEF See
  <2>2. /\ scratch' \in Seq(Idx)
        /\ Len(scratch') = Len(scratch) + 1
        /\ DOMAIN scratch' = 1..(Len(scratch) + 1)
        /\ \A i \in 1..Len(scratch) : scratch'[i] = scratch[i]
        /\ scratch'[Len(scratch) + 1] = f
    BY <2>1, Appended
  <2>3. Holds(scratch', f)
    BY <1>0, <2>2 DEF Holds
  <2>4. Distinct(scratch) => Distinct(scratch')
    BY <1>0, <1>2, <2>2 DEF Distinct, Holds
  <2>5. QED
    BY <1>0, <2>2, <2>3, <2>4
<1>3. QED
  BY <1>1, <1>2

LEMMA TypeStep ==
  ASSUME Inv, [Next]_vars
  PROVE  TypeOK'
<1> USE NAssumption
<1>0. TypeOK /\ ScratchFits
  BY DEF Inv
<1>1. CASE LinkFile
  <2>1. outer \in Idx
    BY <1>0, <1>1 DEF LinkFile, TypeOK, Idx
  <2>2. Linked(Len(imports[outer])) \in Seq(Idx)
    BY <2>1, <1>0, <1>1, ImportsAreLists, LinkedIsList DEF LinkFile
  <2>3. QED
    BY <1>0, <1>1, <2>1, <2>2 DEF LinkFile, TypeOK, inputs, search, seeing
<1>2. CASE LinkFails
  <2>1. outer \in Idx
    BY <1>0, <1>2 DEF LinkFails, TypeOK, Idx
  <2>2. PICK k \in DOMAIN imports[outer] :
          /\ \A j \in 1..(k - 1) : Found(j)
          /\ resolved' = [resolved EXCEPT ![outer] = Linked(k - 1)]
    BY <1>2 DEF LinkFails
  <2>3. Linked(k - 1) \in Seq(Idx)
    BY <2>1, <2>2, <1>0, ImportsAreLists, LinkedIsList
  <2>4. QED
    BY <1>0, <1>2, <2>1, <2>2, <2>3 DEF LinkFails, Fail, TypeOK, inputs, search, seeing
<1>3. CASE LinkDone
  BY <1>0, <1>3 DEF LinkDone, StartPass, TypeOK, inputs, search, seeing
<1>4. CASE SkipRoot
  BY <1>0, <1>4 DEF SkipRoot, TypeOK, inputs, search, seeing
<1>5. CASE StartTree
  <2>1. outer \in Idx /\ 0 \in Idx
    BY <1>0, <1>5 DEF StartTree, TypeOK, Idx
  <2>2. NewFrame(outer) \in Frame
    BY <2>1 DEF NewFrame, Frame
  <2>3. QED
    BY <1>0, <1>5, <2>1, <2>2 DEF StartTree, TypeOK, inputs, seeing
<1>6. CASE Push
  <2>1. top \in Idx /\ Child \in Idx /\ stack[top] \in Frame
    BY <1>0, <1>6, TopFrame DEF Push
  <2>2. NewFrame(Child) \in Frame /\ [stack[top] EXCEPT !.next = @ + 1] \in Frame
    BY <2>1 DEF NewFrame, Frame
  <2>3. stack' \in [Idx -> Frame]
    <3>1. stack \in [Idx -> Frame]
      BY <1>0 DEF TypeOK
    <3>2. QED
      BY <1>6, <2>1, <2>2, <3>1 DEF Push
  <2>4. color' \in [Idx -> {"white", "gray", "black"}]
    BY <1>0, <1>6, <2>1 DEF Push, TypeOK
  <2>5. top' \in Int /\ top' >= -1
    BY <1>0, <1>6 DEF Push, TypeOK
  <2>6. QED
    BY <1>0, <1>6, <2>3, <2>4, <2>5 DEF Push, TypeOK, inputs, seeing
<1>7. ASSUME PassOver, top >= 0, pc' \in {"cycles", "order", "failed"},
             error' \in {"OK", "IMPORT_TARGET_NOT_FOUND", "CIRCULAR_IMPORT"},
             failed' \in Nat
      PROVE  TypeOK'
  <2>1. top \in Idx /\ stack[top] \in Frame
    BY <1>0, <1>7, TopFrame
  <2>2. [stack[top] EXCEPT !.next = @ + 1] \in Frame
    BY <2>1 DEF Frame
  <2>3. stack' \in [Idx -> Frame]
    BY <1>0, <1>7, <2>1, <2>2 DEF PassOver, TypeOK, Frame
  <2>4. QED
    BY <1>0, <1>7, <2>3 DEF PassOver, TypeOK, inputs, seeing
<1>8. CASE CheckSkip
  BY <1>0, <1>7, <1>8 DEF CheckSkip, TypeOK
<1>9. CASE OrderSkip
  BY <1>0, <1>7, <1>9 DEF OrderSkip, TypeOK
<1>10. CASE CheckCycle
  BY <1>0, <1>7, <1>10, TopFrame DEF CheckCycle, Fail, Idx
<1>11. ASSUME Retire, items' \in Seq(Idx) PROVE TypeOK'
  <2>1. TopFile \in Idx
    BY <1>0, <1>11, TopFrame DEF Retire
  <2>2. top = 0 => outer < N
    BY <1>0, <1>11 DEF Retire, Inv, RootInv
  <2>3. QED
    BY <1>0, <1>11, <2>1, <2>2 DEF Retire, TypeOK, inputs, seeing
<1>12. CASE CheckRetire
  BY <1>0, <1>11, <1>12 DEF CheckRetire, TypeOK
<1>13. CASE OrderRetire
  BY <1>0, <1>11, <1>13, TopFrame DEF OrderRetire, Retire, TypeOK
<1>14. CASE CheckDone
  BY <1>0, <1>14 DEF CheckDone, StartPass, TypeOK, inputs, search, seeing
<1>15. CASE OrderDone
  BY <1>0, <1>15 DEF OrderDone, TypeOK, inputs, search, seeing
<1>16. CASE SeeSelf
  BY <1>0, <1>16 DEF SeeSelf, Seeing, TypeOK, Idx, inputs, search
<1>17. CASE SeeDirect
  <2>1. outer \in Idx
    BY <1>0, <1>17 DEF SeeDirect, Seeing, TypeOK, Idx
  <2>2. resolved[outer][edge] \in Idx
    BY <1>0, <1>17, <2>1, ElementOfSeq DEF SeeDirect, TypeOK
  <2>3. scratch' \in Seq(Idx)
    BY <1>0, <1>17, <2>2, SeenList DEF SeeDirect, TypeOK
  <2>4. edge' \in Nat \ {0}
    BY <1>0, <1>17 DEF SeeDirect, TypeOK
  <2>5. UNCHANGED <<pc, path, imports, resolved, checked, error, failed, outer, color,
                    stack, top, processing, visible, items>>
    BY <1>17 DEF SeeDirect, inputs, search
  <2>6. QED
    BY <1>0, <2>3, <2>4, <2>5 DEF TypeOK
<1>18. CASE SeePublic
  <2>1. Current \in Idx
    BY <1>0, <1>18, ElementOfSeq DEF SeePublic, Current, TypeOK
  <2>2. resolved[Current][edge] \in Idx
    BY <1>0, <1>18, <2>1, ElementOfSeq DEF SeePublic, TypeOK
  <2>3. scratch' \in Seq(Idx)
    BY <1>0, <1>18, <2>2, SeenList DEF SeePublic, TypeOK
  <2>4. edge' \in Nat \ {0}
    BY <1>0, <1>18 DEF SeePublic, TypeOK
  <2>5. UNCHANGED <<pc, path, imports, resolved, checked, error, failed, outer, color,
                    stack, top, processing, visible, items>>
    BY <1>18 DEF SeePublic, inputs, search
  <2>6. QED
    BY <1>0, <2>3, <2>4, <2>5 DEF TypeOK
<1>19. CASE NextEntry
  BY <1>0, <1>19 DEF NextEntry, TypeOK, inputs, search
<1>20. CASE SeeDone
  <2>1. outer \in Idx
    BY <1>0, <1>20 DEF SeeDone, Seeing, TypeOK, Idx
  <2>2. visible' \in [Idx -> Seq(Idx)] /\ scratch' \in Seq(Idx) /\ outer' \in 0..N
    BY <1>0, <1>20, <2>1 DEF SeeDone, Seeing, TypeOK
  <2>3. QED
    BY <1>0, <1>20, <2>2 DEF SeeDone, TypeOK, inputs, search
<1>21. CASE VisibilityDone
  BY <1>0, <1>21 DEF VisibilityDone, StartPass, TypeOK, White, inputs, seeing
<1>22. CASE UNCHANGED vars
  BY <1>0, <1>22 DEF vars, TypeOK, inputs, search, seeing
<1>23. QED
  BY <1>1, <1>2, <1>3, <1>4, <1>5, <1>6, <1>8, <1>9, <1>10, <1>12, <1>13, <1>14,
     <1>15, <1>16, <1>17, <1>18, <1>19, <1>20, <1>21, <1>22 DEF Next

-----------------------------------------------------------------------------
(* What the steps of a search do to the frames.                            *)

LEMMA PushFrames ==
  ASSUME Inv, Push
  PROVE  /\ top \in Idx /\ top + 1 \in Idx /\ top' = top + 1
         /\ \A p \in 0..(top - 1) : stack'[p] = stack[p]
         /\ stack'[top].file = TopFile /\ stack'[top].next = stack[top].next + 1
         /\ stack'[top + 1].file = Child /\ stack'[top + 1].next = 0
         /\ Child \in Idx /\ color[Child] = "white"
         /\ \A f \in Idx : color'[f] = IF f = Child THEN "gray" ELSE color[f]
<1> USE NAssumption
<1>1. TypeOK /\ ScratchFits /\ StackInv /\ Searching
  BY DEF Inv, Push
<1>2. top \in Idx /\ Child \in Idx /\ stack[top] \in Frame /\ TopFile = stack[top].file
  BY <1>1, TopFrame DEF Push, TopFile
<1>3. stack \in [Idx -> Frame] /\ color \in [Idx -> {"white", "gray", "black"}]
  BY <1>1 DEF TypeOK
<1>4. top \in Int /\ top >= 0 /\ top < N /\ 0..top \subseteq Idx
  BY <1>2 DEF Idx
<1>5. \A p \in 0..top : stack[p].file # Child
  BY <1>1, <1>2, <1>4 DEF StackInv, FileAt, Push
<1>6. top + 1 < N
  BY <1>1, <1>2, <1>3, <1>4, <1>5, StackHasRoom DEF StackInv, FileAt
<1>7. top + 1 \in Idx
  BY <1>4, <1>6 DEF Idx
<1>8. stack' = [stack EXCEPT ![top].next = @ + 1, ![top + 1] = NewFrame(Child)]
      /\ color' = [color EXCEPT ![Child] = "gray"] /\ top' = top + 1
      /\ color[Child] = "white"
  BY DEF Push
<1>9. \A p \in 0..(top - 1) : stack'[p] = stack[p]
  BY <1>3, <1>4, <1>7, <1>8
<1>10. stack'[top + 1] = NewFrame(Child)
  BY <1>3, <1>7, <1>8
<1>11. stack'[top] = [stack[top] EXCEPT !.next = @ + 1]
  BY <1>2, <1>3, <1>4, <1>7, <1>8
<1>12. stack'[top].file = TopFile /\ stack'[top].next = stack[top].next + 1
  BY <1>2, <1>11 DEF Frame
<1>13. QED
  BY <1>2, <1>3, <1>7, <1>8, <1>9, <1>10, <1>12 DEF NewFrame

LEMMA PassOverFrames ==
  ASSUME TypeOK, ScratchFits, top >= 0, PassOver
  PROVE  /\ top \in Idx /\ top' = top /\ color' = color
         /\ \A p \in 0..(top - 1) : stack'[p] = stack[p]
         /\ stack'[top].file = TopFile /\ stack'[top].next = stack[top].next + 1
<1> USE NAssumption
<1>1. top \in Idx /\ stack[top] \in Frame /\ TopFile = stack[top].file
  BY TopFrame DEF TopFile
<1>2. stack \in [Idx -> Frame]
  BY DEF TypeOK
<1>3. top \in Int /\ 0..(top - 1) \subseteq Idx
  BY <1>1 DEF Idx
<1>4. stack' = [stack EXCEPT ![top].next = @ + 1] /\ top' = top /\ color' = color
  BY DEF PassOver
<1>5. \A p \in 0..(top - 1) : stack'[p] = stack[p]
  BY <1>2, <1>3, <1>4
<1>6. stack'[top] = [stack[top] EXCEPT !.next = @ + 1]
  BY <1>1, <1>2, <1>4
<1>7. QED
  BY <1>1, <1>4, <1>5, <1>6 DEF Frame

LEMMA RetireFrames ==
  ASSUME Inv, Retire
  PROVE  /\ top \in Idx /\ top' = top - 1 /\ stack' = stack
         /\ TopFile \in Idx /\ TopFile = FileAt(top) /\ color[TopFile] = "gray"
         /\ stack[top].next = Len(resolved[TopFile])
         /\ \A f \in Idx : color'[f] = IF f = TopFile THEN "black" ELSE color[f]
<1>1. TypeOK /\ ScratchFits /\ StackInv /\ Searching
  BY DEF Inv, Retire
<1>2. top \in Idx /\ TopFile \in Idx /\ stack[top] \in Frame /\ TopFile = FileAt(top)
      /\ Len(resolved[TopFile]) \in Nat
  BY <1>1, TopFrame DEF Retire, TopFile, FileAt
<1>3. top \in 0..top
  BY <1>2, NAssumption DEF Idx
<1>4. color[TopFile] = "gray"
  BY <1>1, <1>2, <1>3 DEF StackInv
<1>5. stack[top].next = Len(resolved[TopFile])
  BY <1>1, <1>2, <1>3 DEF StackInv, Retire, Pending, Frame
<1>6. \A f \in Idx : color'[f] = IF f = TopFile THEN "black" ELSE color[f]
  BY <1>1, <1>2 DEF Retire, TypeOK
<1>7. QED
  BY <1>2, <1>4, <1>5, <1>6 DEF Retire

LEMMA StartTreeFrames ==
  ASSUME Inv, StartTree
  PROVE  /\ outer \in Idx /\ top = -1 /\ top' = 0
         /\ stack'[0].file = outer /\ stack'[0].next = 0
         /\ color[outer] = "white"
         /\ \A f \in Idx : color'[f] = IF f = outer THEN "gray" ELSE color[f]
<1>1. TypeOK /\ outer < N /\ top = -1 /\ top' = 0 /\ color[outer] = "white"
  BY DEF Inv, StartTree
<1>2. outer \in Idx /\ 0 \in Idx
  BY <1>1, NAssumption DEF TypeOK, Idx
<1>3. stack'[0] = NewFrame(outer)
  BY <1>1, <1>2 DEF StartTree, TypeOK
<1>4. \A f \in Idx : color'[f] = IF f = outer THEN "gray" ELSE color[f]
  BY <1>1, <1>2 DEF StartTree, TypeOK
<1>5. QED
  BY <1>1, <1>2, <1>3, <1>4 DEF NewFrame

-----------------------------------------------------------------------------
(* The steps that are no part of a search leave its conditions vacuous, or *)
(* start it on white files with no frame.                                  *)
Quiet ==
  \/ LinkFile \/ LinkFails \/ LinkDone \/ CheckDone \/ OrderDone
  \/ SeeSelf \/ SeeDirect \/ SeePublic \/ NextEntry \/ SeeDone \/ VisibilityDone

LEMMA QuietSearch ==
  ASSUME Inv, Quiet, Searching'
  PROVE  /\ outer' = 0 /\ top' = -1 /\ color' = White /\ items' = <<>>
         /\ pc' = "order" => pc = "visibility"
<1>1. PhaseInv /\ OrderInv
  BY DEF Inv
<1>2. CASE LinkDone
  BY <1>1, <1>2 DEF LinkDone, StartPass, PhaseInv, OrderInv, Searching, search
<1>3. CASE VisibilityDone
  BY <1>1, <1>3 DEF VisibilityDone, StartPass, PhaseInv, OrderInv, Searching
<1>4. CASE LinkFile \/ LinkFails \/ CheckDone \/ OrderDone
  BY <1>4 DEF LinkFile, LinkFails, CheckDone, OrderDone, Fail, StartPass, Searching
<1>5. CASE SeeSelf \/ SeeDirect \/ SeePublic \/ NextEntry \/ SeeDone
  BY <1>5 DEF SeeSelf, SeeDirect, SeePublic, NextEntry, SeeDone, Seeing, Searching
<1>6. QED
  BY <1>2, <1>3, <1>4, <1>5 DEF Quiet

LEMMA StackStep ==
  ASSUME Inv, [Next]_vars
  PROVE  StackInv' /\ top' < N
<1> USE NAssumption
<1>0. TypeOK /\ ScratchFits /\ StackInv /\ top \in Int /\ top >= -1 /\ top < N
  BY DEF Inv, TypeOK, ScratchFits
<1>1. CASE Quiet
  <2>1. top' < N
    BY <1>0, <1>1 DEF Quiet, LinkFile, LinkFails, LinkDone, CheckDone, OrderDone, SeeSelf,
       SeeDirect, SeePublic, NextEntry, SeeDone, VisibilityDone, search
  <2>2. StackInv'
    BY <1>1, QuietSearch DEF StackInv, White
  <2>3. QED
    BY <2>1, <2>2
<1>2. CASE SkipRoot
  BY <1>0, <1>2 DEF SkipRoot, StackInv, Searching, FileAt, search
<1>3. CASE StartTree
  <2>1. resolved' = resolved /\ Searching /\ resolved \in [Idx -> Seq(Idx)]
    BY <1>0, <1>3 DEF StartTree, TypeOK
  <2>2. \A f \in Idx : color[f] # "gray"
    BY <1>0, <1>3, StartTreeFrames, <2>1 DEF StackInv
  <2>3. 0..top' = {0} /\ outer \in Idx /\ Len(resolved[outer]) \in Nat
    BY <1>3, StartTreeFrames, <2>1
  <2>4. \A p \in 0..top' : stack'[p].file = outer /\ stack'[p].next = 0 /\ p = 0
    BY <1>3, StartTreeFrames, <2>3
  <2>5. \A p, q \in 0..top' : Reaches(resolved, stack'[p].file, stack'[q].file)
    <3>1. Reaches(resolved, outer, outer)
      BY ReachesItself
    <3>2. QED
      BY <2>4, <3>1
  <2>6. \A f \in Idx : color'[f] = "gray" <=> \E p \in 0..top' : stack'[p].file = f
    BY <1>3, StartTreeFrames, <2>2, <2>3, <2>4
  <2>7. \A p \in 0..top' : stack'[p].next <= Len(resolved[stack'[p].file])
    BY <2>3, <2>4
  <2>8. StackInv'
    BY <2>1, <2>4, <2>5, <2>6, <2>7 DEF StackInv, FileAt
  <2>9. QED
    BY <1>3, <2>3, <2>8, StartTreeFrames DEF Idx
<1>4. CASE Push
  <2>1. resolved' = resolved /\ Searching
    BY <1>4 DEF Push
  <2>2. 0..top' = 0..top \cup {top + 1} /\ \A p \in 0..top : stack'[p].file = stack[p].file
    BY <1>0, <1>4, PushFrames DEF Idx, TopFile
  <2>3. \A p, q \in 0..top' : FileAt(p)' = FileAt(q)' => p = q
    BY <1>0, <1>4, <2>1, <2>2, PushFrames DEF StackInv, FileAt
  <2>4. \A f \in Idx : color'[f] = "gray" <=> \E p \in 0..top' : FileAt(p)' = f
    BY <1>0, <1>4, <2>1, <2>2, PushFrames DEF StackInv, FileAt
  <2>5. \A p, q \in 0..top' : p <= q => Reaches(resolved, FileAt(p)', FileAt(q)')
    <3>1. ASSUME NEW p \in 0..top PROVE Reaches(resolved, stack[p].file, Child)
      <4>1. Reaches(resolved, FileAt(p), FileAt(top))
        BY <1>0, <2>1, <3>1 DEF StackInv
      <4>2. Edge(resolved, FileAt(top), Child)
        BY <1>0, <1>4, TopFrame DEF Push, Edge, TopFile, FileAt
      <4>3. QED
        BY <4>1, <4>2, ReachesFurther DEF FileAt
    <3>2. Reaches(resolved, Child, Child)
      BY ReachesItself
    <3>3. SUFFICES ASSUME NEW p \in 0..top', NEW q \in 0..top', p <= q
                   PROVE  Reaches(resolved, stack'[p].file, stack'[q].file)
      BY DEF FileAt
    <3>4. CASE q \in 0..top
      <4>1. p \in 0..top
        BY <1>0, <2>2, <3>3, <3>4
      <4>2. Reaches(resolved, stack[p].file, stack[q].file)
        BY <1>0, <2>1, <3>3, <3>4, <4>1 DEF StackInv, FileAt
      <4>3. QED
        BY <2>2, <3>4, <4>1, <4>2
    <3>5. CASE q = top + 1 /\ p \in 0..top
      <4>1. stack'[q].file = Child /\ stack'[p].file = stack[p].file
        BY <1>4, <2>2, <3>5, PushFrames
      <4>2. QED
        BY <3>1, <3>5, <4>1
    <3>6. CASE q = top + 1 /\ p = top + 1
      <4>1. stack'[q].file = Child /\ stack'[p].file = Child
        BY <1>4, <3>6, PushFrames
      <4>2. QED
        BY <3>2, <4>1
    <3>7. QED
      BY <2>2, <3>3, <3>4, <3>5, <3>6
  <2>6. \A p \in 0..top' : stack'[p].next <= Len(resolved[FileAt(p)'])
    <3>0. top >= 0 /\ Pending /\ Child \in Idx /\ resolved \in [Idx -> Seq(Idx)]
      BY <1>0, <1>4, PushFrames DEF Push, TypeOK
    <3>1. stack[top].next + 1 <= Len(resolved[TopFile]) /\ Len(resolved[Child]) >= 0
      BY <1>0, <3>0, TopFrame
    <3>2. QED
      BY <1>0, <1>4, <2>1, <2>2, <3>1, PushFrames DEF StackInv, FileAt
  <2>7. top' < N
    BY <1>4, PushFrames DEF Idx
  <2>8. QED
    BY <2>1, <2>3, <2>4, <2>5, <2>6, <2>7 DEF StackInv
<1>5. CASE CheckRetire \/ OrderRetire
  <2>1. Retire /\ resolved' = resolved /\ Searching
    BY <1>5 DEF CheckRetire, OrderRetire, Retire
  <2>2. 0..top' = 0..(top - 1) /\ top \in Nat
    BY <1>0, <2>1, RetireFrames DEF Idx
  <2>3. \A f \in Idx : color'[f] = "gray" <=> \E p \in 0..top' : FileAt(p)' = f
    BY <1>0, <2>1, <2>2, RetireFrames DEF StackInv, FileAt
  <2>4. QED
    BY <1>0, <2>1, <2>2, <2>3, RetireFrames DEF StackInv, FileAt
<1>6. CASE CheckSkip \/ CheckCycle \/ OrderSkip
  <2>1. PassOver /\ top >= 0 /\ Pending /\ resolved' = resolved /\ Searching
    BY <1>6 DEF CheckSkip, CheckCycle, OrderSkip, PassOver, Searching
  <2>2. \A p \in 0..top : stack'[p].file = stack[p].file
    BY <1>0, <2>1, PassOverFrames DEF TopFile
  <2>3. \A p \in 0..top : stack'[p].next <= Len(resolved[FileAt(p)])
    <3>1. stack[top].next + 1 <= Len(resolved[FileAt(top)])
      BY <1>0, <2>1, TopFrame DEF TopFile, FileAt
    <3>2. QED
      BY <1>0, <2>1, <3>1, PassOverFrames DEF StackInv
  <2>4. QED
    BY <1>0, <2>1, <2>2, <2>3, PassOverFrames DEF StackInv, FileAt
<1>7. CASE UNCHANGED vars
  BY <1>0, <1>7 DEF vars, search, StackInv, Searching, FileAt
<1>8. QED
  BY <1>1, <1>2, <1>3, <1>4, <1>5, <1>6, <1>7 DEF Next, Quiet

LEMMA RootStep ==
  ASSUME Inv, [Next]_vars
  PROVE  RootInv'
<1> USE NAssumption
<1>0. TypeOK /\ ScratchFits /\ RootInv /\ top \in Int /\ top >= -1 /\ outer \in 0..N
  BY DEF Inv, TypeOK
<1>1. CASE Quiet
  BY <1>1, QuietSearch DEF RootInv, Idx
<1>2. CASE SkipRoot
  <2>1. TypeOK /\ StackInv /\ Searching /\ outer \in Idx /\ 0..top = {}
    BY <1>0, <1>2 DEF Inv, SkipRoot, Idx
  <2>2. color[outer] = "black"
    BY <1>2, <2>1 DEF SkipRoot, StackInv, TypeOK
  <2>3. QED
    BY <1>0, <1>2, <2>1, <2>2 DEF SkipRoot, RootInv, Searching, FileAt, search, Idx
<1>3. CASE StartTree
  <2>1. outer' = outer /\ Searching /\ outer < N
    BY <1>3 DEF StartTree
  <2>2. QED
    BY <1>0, <1>3, <2>1, StartTreeFrames DEF RootInv, FileAt, Idx
<1>4. CASE Push
  <2>1. outer' = outer /\ Searching
    BY <1>4 DEF Push
  <2>2. stack'[0].file = stack[0].file /\ top >= 0
    BY <1>4, PushFrames DEF Idx, TopFile
  <2>3. QED
    BY <1>0, <1>4, <2>1, <2>2, PushFrames DEF RootInv, FileAt
<1>5. CASE CheckRetire \/ OrderRetire
  <2>1. Retire /\ Searching /\ outer' = (IF top = 0 THEN outer + 1 ELSE outer)
    BY <1>5 DEF CheckRetire, OrderRetire, Retire
  <2>2. \A f \in Idx : f < outer => color'[f] = "black"
    BY <1>0, <2>1, RetireFrames DEF RootInv
  <2>3. top = 0 => color'[outer] = "black" /\ outer \in Idx
    BY <1>0, <2>1, RetireFrames DEF RootInv, Idx
  <2>4. QED
    BY <1>0, <2>1, <2>2, <2>3, RetireFrames DEF RootInv, FileAt, Idx
<1>6. CASE CheckSkip \/ CheckCycle \/ OrderSkip
  <2>1. PassOver /\ top >= 0 /\ outer' = outer /\ Searching
    BY <1>6 DEF CheckSkip, CheckCycle, OrderSkip, PassOver, Searching
  <2>2. top \in Nat /\ stack'[0].file = stack[0].file
    BY <1>0, <2>1, PassOverFrames DEF TopFile, Idx
  <2>3. QED
    BY <1>0, <2>1, <2>2, PassOverFrames DEF RootInv, FileAt
<1>7. CASE UNCHANGED vars
  BY <1>0, <1>7 DEF vars, search, RootInv, Searching, FileAt
<1>8. QED
  BY <1>1, <1>2, <1>3, <1>4, <1>5, <1>6, <1>7 DEF Next, Quiet

(* The imports a retiring file has are the ones its frame has passed over. *)
LEMMA RetireLooked ==
  ASSUME Inv, Retire, NEW g \in Targets(resolved, TopFile)
  PROVE  \E k \in 1..stack[top].next : resolved[TopFile][k] = g
<1>1. resolved[TopFile] \in Seq(Idx) /\ stack[top].next = Len(resolved[TopFile])
  BY RetireFrames DEF Inv, TypeOK
<1>2. DOMAIN resolved[TopFile] = 1..stack[top].next
  BY <1>1
<1>3. QED
  BY <1>2 DEF Targets

LEMMA LookedAt ==
  ASSUME Inv, Searching, NEW p \in 0..top, NEW k \in 1..stack[p].next
  PROVE  resolved[FileAt(p)][k] \in Idx /\ resolved[FileAt(p)][k] \in Targets(resolved, FileAt(p))
<1>1. TypeOK /\ StackInv /\ p \in Idx
  BY NAssumption DEF Inv, TypeOK, ScratchFits, Idx
<1>2. stack[p] \in Frame
  BY <1>1 DEF TypeOK
<1>3. FileAt(p) \in Idx /\ stack[p].next \in Nat
  BY <1>2 DEF FileAt, Frame
<1>4. resolved[FileAt(p)] \in Seq(Idx) /\ stack[p].next <= Len(resolved[FileAt(p)])
  BY <1>1, <1>3 DEF TypeOK, StackInv
<1>5. k \in 1..Len(resolved[FileAt(p)])
  BY <1>3, <1>4
<1>6. QED
  BY <1>4, <1>5, ElementOfSeq DEF Targets

LEMMA CheckStep ==
  ASSUME Inv, [Next]_vars
  PROVE  CheckInv'
<1> USE NAssumption
<1>0. TypeOK /\ ScratchFits /\ CheckInv /\ StackInv /\ top \in Int /\ top >= -1 /\ top < N
  BY DEF Inv, TypeOK, ScratchFits
<1> SUFFICES ASSUME pc' = "cycles" PROVE CheckInv'
  BY DEF CheckInv
<1> DEFINE Settled(p, k) ==
      \/ color[resolved[FileAt(p)][k]] = "black"
      \/ p < top /\ k = stack[p].next /\ resolved[FileAt(p)][k] = FileAt(p + 1)
    Explored(f) == /\ \A g \in Targets(resolved, f) : color[g] = "black"
                   /\ ~OnCycle(resolved, f)
<1>a. CheckInv <=> (pc = "cycles" => /\ \A p \in 0..top : \A k \in 1..stack[p].next : Settled(p, k)
                                     /\ \A f \in Idx : color[f] = "black" => Explored(f))
  BY DEF CheckInv
<1>1. CASE Quiet
  <2>1. 0..top' = {} /\ \A f \in Idx : color'[f] # "black"
    BY <1>1, QuietSearch DEF Searching, White
  <2>2. QED
    BY <2>1 DEF CheckInv
<1>2. CASE SkipRoot
  BY <1>0, <1>2 DEF SkipRoot, CheckInv, FileAt, search
<1>3. CASE StartTree
  <2>1. resolved' = resolved /\ pc = "cycles"
    BY <1>3 DEF StartTree
  <2>2. \A f \in Idx : color'[f] = "black" <=> color[f] = "black"
    BY <1>3, StartTreeFrames
  <2>3. ASSUME NEW f \in Idx, color'[f] = "black" PROVE Explored(f)'
    <3>1. Explored(f)
      BY <1>0, <2>1, <2>2, <2>3 DEF CheckInv
    <3>2. Targets(resolved, f) \subseteq Idx
      BY <1>0, <2>3 DEF TypeOK, Targets
    <3>3. QED
      BY <2>1, <2>2, <3>1, <3>2
  <2>4. \A p \in 0..top' : 1..stack'[p].next = {}
    BY <1>3, StartTreeFrames
  <2>5. QED
    BY <2>3, <2>4 DEF CheckInv
<1>4. CASE Push
  <2>1. resolved' = resolved /\ pc = "cycles"
    BY <1>4 DEF Push
  <2>2. \A f \in Idx : color'[f] = "black" <=> color[f] = "black"
    BY <1>4, PushFrames
  <2>3. ASSUME NEW f \in Idx, color'[f] = "black" PROVE Explored(f)'
    <3>1. Explored(f)
      BY <1>0, <2>1, <2>2, <2>3 DEF CheckInv
    <3>2. Targets(resolved, f) \subseteq Idx
      BY <1>0, <2>3 DEF TypeOK, Targets
    <3>3. QED
      BY <2>1, <2>2, <3>1, <3>2
  <2>4. ASSUME NEW p \in 0..top', NEW k \in 1..stack'[p].next PROVE Settled(p, k)'
    <3>1. CASE p < top
      <4>1. p \in 0..top /\ stack'[p] = stack[p] /\ k \in 1..stack[p].next
        BY <1>0, <1>4, <2>4, <3>1, PushFrames
      <4>2. Settled(p, k) /\ stack'[p + 1].file = stack[p + 1].file
        BY <1>0, <1>4, <2>1, <3>1, <4>1, PushFrames DEF CheckInv, TopFile
      <4>3. resolved[FileAt(p)][k] \in Idx
        BY <4>1, <2>1, LookedAt DEF Searching
      <4>4. color[resolved[FileAt(p)][k]] = "black" =>
              color'[resolved[FileAt(p)][k]] = "black"
        BY <2>2, <4>3
      <4>5. p < top' /\ stack'[p].next = stack[p].next /\ stack'[p].file = stack[p].file
        BY <1>0, <1>4, <3>1, <4>1, PushFrames
      <4>6. QED
        BY <2>1, <4>2, <4>4, <4>5 DEF FileAt
    <3>2. CASE p = top /\ k = stack[top].next + 1
      <4>1. Child = resolved[TopFile][k] /\ p < top'
        BY <1>0, <1>4, <3>2, PushFrames DEF Child
      <4>2. k = stack'[p].next /\ stack'[p].file = TopFile /\ stack'[p + 1].file = Child
        BY <1>4, <3>2, PushFrames
      <4>3. QED
        BY <2>1, <4>1, <4>2 DEF FileAt
    <3>3. CASE p = top /\ k # stack[top].next + 1
      <4>1. k \in 1..stack[top].next /\ p \in 0..top
        BY <1>0, <1>4, <2>4, <3>3, PushFrames, TopFrame DEF Push, Frame
      <4>2. color[resolved[FileAt(p)][k]] = "black"
        BY <1>0, <2>1, <3>3, <4>1 DEF CheckInv
      <4>3. resolved[FileAt(p)][k] \in Idx
        BY <2>1, <3>3, <4>1, LookedAt DEF Searching
      <4>4. color'[resolved[FileAt(p)][k]] = "black"
        BY <2>2, <4>2, <4>3
      <4>5. stack'[p].file = stack[p].file
        BY <1>4, <3>3, PushFrames DEF TopFile
      <4>6. QED
        BY <2>1, <4>4, <4>5 DEF FileAt
    <3>4. CASE p = top + 1
      BY <1>4, <2>4, <3>4, PushFrames
    <3>5. QED
      BY <1>0, <1>4, <2>4, <3>1, <3>2, <3>3, <3>4, PushFrames
  <2>5. QED
    BY <2>3, <2>4 DEF CheckInv
<1>5. CASE CheckRetire
  <2>1. resolved' = resolved /\ pc = "cycles" /\ Retire
    BY <1>5 DEF CheckRetire, Retire
  <2>2. Targets(resolved, TopFile) \subseteq {f \in Idx : color[f] = "black"}
    <3>1. ASSUME NEW g \in Targets(resolved, TopFile) PROVE g \in Idx /\ color[g] = "black"
      <4>1. PICK k \in 1..stack[top].next : resolved[TopFile][k] = g
        BY <2>1, <3>1, RetireLooked
      <4>2. color[g] = "black"
        BY <1>0, <2>1, <4>1, RetireFrames DEF CheckInv, Idx
      <4>3. g \in Idx
        BY <1>0, <2>1, <3>1, RetireFrames DEF TypeOK, Targets
      <4>4. QED
        BY <4>2, <4>3
    <3>2. QED
      BY <3>1
  <2>3. ~OnCycle(resolved, TopFile)
    <3>1. ClosedUnderImports(resolved, {f \in Idx : color[f] = "black"})
      <4>1. ASSUME NEW f \in Idx, color[f] = "black", NEW g \in Targets(resolved, f)
            PROVE  g \in Idx /\ color[g] = "black"
        BY <1>0, <2>1, <4>1 DEF CheckInv, TypeOK, Targets
      <4>2. QED
        BY <4>1 DEF ClosedUnderImports
    <3>2. QED
      BY <2>1, <2>2, <3>1, RetireFrames, NoWayBack
  <2>4. ASSUME NEW f \in Idx, color'[f] = "black" PROVE Explored(f)'
    <3>1. CASE f = TopFile
      BY <2>1, <2>2, <2>3, <3>1, RetireFrames
    <3>2. CASE f # TopFile
      <4>1. Explored(f)
        BY <1>0, <2>1, <2>4, <3>2, RetireFrames DEF CheckInv
      <4>2. Targets(resolved, f) \subseteq Idx
        BY <1>0, <2>4 DEF TypeOK, Targets
      <4>3. QED
        BY <2>1, <4>1, <4>2, RetireFrames
    <3>3. QED
      BY <3>1, <3>2
  <2>5. ASSUME NEW p \in 0..top', NEW k \in 1..stack'[p].next PROVE Settled(p, k)'
    <3>1. p \in 0..top /\ p < top /\ k \in 1..stack[p].next /\ stack' = stack
      BY <1>0, <2>1, <2>5, RetireFrames
    <3>2. Settled(p, k)
      BY <1>0, <2>1, <3>1 DEF CheckInv
    <3>3. resolved[FileAt(p)][k] \in Idx
      BY <2>1, <3>1, LookedAt DEF Searching
    <3>4. CASE color[resolved[FileAt(p)][k]] = "black"
      BY <2>1, <3>1, <3>3, <3>4, RetireFrames DEF FileAt
    <3>5. CASE k = stack[p].next /\ resolved[FileAt(p)][k] = FileAt(p + 1)
      <4>1. CASE p + 1 = top
        BY <2>1, <3>1, <3>3, <3>5, <4>1, RetireFrames DEF FileAt
      <4>2. CASE p + 1 < top
        BY <1>0, <2>1, <3>1, <3>3, <3>5, <4>2, RetireFrames DEF FileAt
      <4>3. QED
        BY <1>0, <3>1, <4>1, <4>2
    <3>6. QED
      BY <3>2, <3>4, <3>5
  <2>6. QED
    BY <2>4, <2>5 DEF CheckInv
<1>6. CASE CheckSkip
  <2>1. PassOver /\ top >= 0 /\ Pending /\ resolved' = resolved /\ pc = "cycles"
        /\ color[Child] = "black"
    BY <1>6 DEF CheckSkip, PassOver
  <2>2. ASSUME NEW p \in 0..top', NEW k \in 1..stack'[p].next PROVE Settled(p, k)'
    <3>1. CASE p < top
      <4>1. p \in 0..top /\ stack'[p] = stack[p] /\ k \in 1..stack[p].next
        BY <1>0, <2>1, <2>2, <3>1, PassOverFrames
      <4>2. Settled(p, k) /\ stack'[p + 1].file = stack[p + 1].file
        BY <1>0, <2>1, <3>1, <4>1, PassOverFrames DEF CheckInv, TopFile
      <4>3. QED
        BY <1>0, <2>1, <3>1, <4>1, <4>2, PassOverFrames DEF FileAt
    <3>2. CASE p = top /\ k = stack[top].next + 1
      BY <1>0, <2>1, <3>2, PassOverFrames, TopFrame DEF FileAt
    <3>3. CASE p = top /\ k # stack[top].next + 1
      <4>1. k \in 1..stack[top].next /\ p \in 0..top
        BY <1>0, <2>1, <2>2, <3>3, PassOverFrames, TopFrame DEF Frame
      <4>2. color[resolved[FileAt(p)][k]] = "black"
        BY <1>0, <2>1, <3>3, <4>1 DEF CheckInv
      <4>3. QED
        BY <1>0, <2>1, <3>3, <4>2, PassOverFrames DEF FileAt, TopFile
    <3>4. QED
      BY <1>0, <2>1, <2>2, <3>1, <3>2, <3>3, PassOverFrames
  <2>3. QED
    BY <1>0, <2>1, <2>2, PassOverFrames DEF CheckInv
<1>7. CASE UNCHANGED vars
  BY <1>0, <1>7 DEF vars, search, CheckInv, FileAt
<1>8. CASE CheckCycle \/ OrderRetire \/ OrderSkip
  BY <1>8 DEF CheckCycle, Fail, OrderRetire, Retire, OrderSkip
<1>9. QED
  BY <1>1, <1>2, <1>3, <1>4, <1>5, <1>6, <1>7, <1>8 DEF Next, Quiet

-----------------------------------------------------------------------------
(* What the order lists.                                                   *)

(* Retiring a file keeps the order: an import it has that is not listed    *)
(* yet is on the stack, hence leads back to it.                            *)
LEMMA RetireKeepsOrder ==
  ASSUME Inv, OrderRetire
  PROVE  /\ Distinct(items') /\ DependencyOrder(resolved, items')
         /\ \A f \in Idx : color'[f] = "black" <=> Holds(items', f)
<1>0. /\ TypeOK /\ StackInv /\ OrderInv /\ FileOrder /\ Searching
      /\ Retire /\ items' = Append(items, TopFile) /\ pc = "order"
  BY DEF Inv, OrderRetire, Searching
<1>1. items \in Seq(Idx) /\ TopFile \in Idx /\ Len(items) \in Nat /\ DOMAIN items = 1..Len(items)
  BY <1>0, RetireFrames DEF TypeOK
<1>2. /\ DOMAIN items' = 1..(Len(items) + 1) /\ items'[Len(items) + 1] = TopFile
      /\ \A i \in 1..Len(items) : items'[i] = items[i]
  BY <1>0, <1>1, Appended
<1>3. \A i \in 1..Len(items) : items[i] # TopFile
  BY <1>0, <1>1, RetireFrames DEF OrderInv, Holds
<1>4. Distinct(items')
  BY <1>0, <1>1, <1>2, <1>3 DEF Distinct, FileOrder
<1>5. ASSUME NEW g \in Targets(resolved, TopFile), ~Reaches(resolved, g, TopFile)
      PROVE  \E i \in 1..Len(items) : items[i] = g
  <2>1. g \in Idx
    BY <1>0, <1>1, <1>5 DEF TypeOK, Targets
  <2>2. PICK k \in 1..stack[top].next : resolved[TopFile][k] = g
    BY <1>0, <1>5, RetireLooked
  <2>3. color[g] # "white"
    <3>1. top \in 0..top
      BY <1>0, RetireFrames, NAssumption DEF Idx
    <3>2. QED
      BY <1>0, <2>2, <3>1, RetireFrames DEF OrderInv
  <2>4. color[g] # "gray"
    <3>1. SUFFICES ASSUME NEW p \in 0..top, FileAt(p) = g PROVE FALSE
      BY <1>0, <2>1 DEF StackInv
    <3>2. top \in 0..top /\ p <= top
      BY <1>0, RetireFrames, NAssumption DEF Idx
    <3>3. Reaches(resolved, FileAt(p), FileAt(top))
      BY <1>0, <3>2 DEF StackInv
    <3>4. QED
      BY <1>0, <1>5, <3>1, <3>3, RetireFrames
  <2>5. color[g] = "black"
    BY <1>0, <2>1, <2>3, <2>4 DEF TypeOK
  <2>6. QED
    BY <1>0, <1>1, <2>1, <2>5 DEF OrderInv, Holds
<1>6. ASSUME NEW j \in 1..(Len(items) + 1), NEW g \in Targets(resolved, items'[j]),
             ~Reaches(resolved, g, items'[j])
      PROVE  \E i \in 1..(j - 1) : items'[i] = g
  <2>1. CASE j = Len(items) + 1
    <3>1. PICK i \in 1..Len(items) : items[i] = g
      BY <1>2, <1>5, <1>6, <2>1
    <3>2. QED
      BY <1>1, <1>2, <2>1, <3>1
  <2>2. CASE j \in 1..Len(items)
    <3>1. PICK i \in 1..(j - 1) : items[i] = g
      BY <1>0, <1>1, <1>2, <1>6, <2>2 DEF FileOrder, DependencyOrder
    <3>2. i \in 1..Len(items)
      BY <1>1, <2>2, <3>1
    <3>3. QED
      BY <1>2, <3>1, <3>2
  <2>3. QED
    BY <1>1, <1>6, <2>1, <2>2
<1>7. DependencyOrder(resolved, items')
  BY <1>2, <1>6 DEF DependencyOrder
<1>8. ASSUME NEW f \in Idx PROVE Holds(items', f) <=> f = TopFile \/ Holds(items, f)
  BY <1>1, <1>2 DEF Holds
<1>9. \A f \in Idx : color'[f] = "black" <=> Holds(items', f)
  BY <1>0, <1>8, RetireFrames DEF OrderInv
<1>10. QED
  BY <1>4, <1>7, <1>9

LEMMA OrderStep ==
  ASSUME Inv, [Next]_vars
  PROVE  OrderInv' /\ FileOrder'
<1> USE NAssumption
<1>0. TypeOK /\ ScratchFits /\ OrderInv /\ FileOrder /\ top \in Int /\ top >= -1 /\ top < N
  BY DEF Inv, TypeOK, ScratchFits
<1>a. Distinct(<<>>) /\ \A to : DependencyOrder(to, <<>>)
  BY DEF Distinct, DependencyOrder
<1>b. \A f : ~Holds(<<>>, f)
  BY DEF Holds
<1>1. CASE Quiet /\ ~OrderDone
  <2>1. pc' # "done" /\ pc # "done"
    BY <1>1 DEF Quiet, LinkFile, LinkFails, LinkDone, CheckDone, OrderDone, SeeSelf, SeeDirect,
       SeePublic, NextEntry, SeeDone, VisibilityDone, Fail, StartPass, Seeing
  <2>2. items' = items /\ pc # "order"
    BY <1>1 DEF Quiet, LinkFile, LinkFails, LinkDone, CheckDone, OrderDone, SeeSelf, SeeDirect,
       SeePublic, NextEntry, SeeDone, VisibilityDone, Seeing
  <2>3. items' = <<>>
    BY <1>0, <2>1, <2>2 DEF OrderInv
  <2>4. pc' = "order" => 0..top' = {} /\ \A f \in Idx : color'[f] # "black"
    BY <1>1, QuietSearch DEF Searching, White
  <2>5. OrderInv'
    BY <1>b, <2>1, <2>3, <2>4 DEF OrderInv
  <2>6. QED
    BY <1>a, <2>1, <2>3, <2>5 DEF FileOrder
<1>2. CASE OrderDone
  <2>1. \A f \in Idx : color[f] = "black"
    <3>1. outer = N /\ Searching /\ RootInv /\ \A f \in Idx : f < N
      BY <1>2 DEF OrderDone, Searching, Inv, Idx
    <3>2. QED
      BY <3>1 DEF RootInv
  <2>2. pc = "order" /\ pc' = "done" /\ items' = items /\ resolved' = resolved
    BY <1>2 DEF OrderDone
  <2>3. \A f \in Idx : Holds(items, f)
    BY <1>0, <2>1, <2>2 DEF OrderInv
  <2>4. QED
    BY <1>0, <2>2, <2>3 DEF OrderInv, FileOrder
<1>3. CASE OrderRetire
  <2>1. resolved' = resolved /\ pc = "order" /\ pc' = "order" /\ Retire /\ Searching
    BY <1>3 DEF OrderRetire, Retire
  <2>2. ASSUME NEW p \in 0..top', NEW k \in 1..stack'[p].next
        PROVE  color'[resolved[FileAt(p)'][k]] # "white"
    <3>1. p \in 0..top /\ k \in 1..stack[p].next /\ FileAt(p)' = FileAt(p)
      BY <1>0, <2>1, <2>2, RetireFrames DEF FileAt
    <3>2. color[resolved[FileAt(p)][k]] # "white" /\ resolved[FileAt(p)][k] \in Idx
      BY <1>0, <2>1, <3>1, LookedAt DEF OrderInv
    <3>3. QED
      BY <2>1, <3>1, <3>2, RetireFrames
  <2>3. QED
    BY <1>3, <2>1, <2>2, RetireKeepsOrder DEF OrderInv, FileOrder
<1>4. CASE OrderSkip
  <2>1. PassOver /\ top >= 0 /\ Pending /\ resolved' = resolved /\ pc = "order" /\ pc' = "order"
        /\ color[Child] # "white" /\ items' = items
    BY <1>4 DEF OrderSkip, PassOver
  <2>2. ASSUME NEW p \in 0..top', NEW k \in 1..stack'[p].next
        PROVE  color'[resolved[FileAt(p)'][k]] # "white"
    <3>1. FileAt(p)' = FileAt(p) /\ p \in 0..top
      BY <1>0, <2>1, <2>2, PassOverFrames DEF FileAt, TopFile
    <3>2. CASE k \in 1..stack[p].next
      BY <1>0, <2>1, <3>1, <3>2, PassOverFrames DEF OrderInv
    <3>3. CASE p = top /\ k = stack[top].next + 1
      BY <1>0, <2>1, <3>1, <3>3, PassOverFrames DEF Child, TopFile, FileAt
    <3>4. QED
      BY <1>0, <2>1, <2>2, <3>1, <3>2, <3>3, PassOverFrames, TopFrame DEF Frame
  <2>3. QED
    BY <1>0, <2>1, <2>2, PassOverFrames DEF OrderInv, FileOrder
<1>5. CASE Push
  <2>1. resolved' = resolved /\ pc' = pc /\ Searching /\ items' = items /\ pc # "done"
    BY <1>5 DEF Push, Searching
  <2>2. ASSUME pc = "order", NEW p \in 0..top', NEW k \in 1..stack'[p].next
        PROVE  color'[resolved[FileAt(p)'][k]] # "white"
    <3>1. CASE p \in 0..top /\ k \in 1..stack[p].next
      <4>1. FileAt(p)' = FileAt(p)
        BY <1>5, <3>1, PushFrames DEF FileAt, TopFile, Idx
      <4>2. color[resolved[FileAt(p)][k]] # "white" /\ resolved[FileAt(p)][k] \in Idx
        BY <1>0, <2>1, <2>2, <3>1, LookedAt DEF OrderInv
      <4>3. QED
        BY <1>5, <4>1, <4>2, PushFrames
    <3>2. CASE p = top /\ k = stack[top].next + 1
      <4>1. resolved[FileAt(p)'][k] = Child /\ color'[Child] = "gray"
        BY <1>5, <3>2, PushFrames DEF Child, FileAt
      <4>2. QED
        BY <4>1
    <3>3. CASE p = top + 1
      BY <1>5, <2>2, <3>3, PushFrames
    <3>4. stack[top].next \in Nat
      BY <1>0, <1>5, PushFrames DEF TypeOK, Frame
    <3>5. QED
      BY <1>0, <1>5, <2>2, <3>1, <3>2, <3>3, <3>4, PushFrames
  <2>3. \A f \in Idx : color'[f] = "black" <=> color[f] = "black"
    BY <1>5, PushFrames
  <2>4. QED
    BY <1>0, <2>1, <2>2, <2>3 DEF OrderInv, FileOrder
<1>6. CASE StartTree
  <2>1. resolved' = resolved /\ pc' = pc /\ items' = items /\ pc # "done"
    BY <1>6 DEF StartTree, Searching
  <2>2. \A p \in 0..top' : 1..stack'[p].next = {}
    BY <1>6, StartTreeFrames
  <2>3. \A f \in Idx : color'[f] = "black" <=> color[f] = "black"
    BY <1>6, StartTreeFrames
  <2>4. QED
    BY <1>0, <2>1, <2>2, <2>3 DEF OrderInv, FileOrder
<1>7. CASE SkipRoot
  BY <1>0, <1>7 DEF SkipRoot, search, OrderInv, FileOrder, FileAt
<1>8. CASE CheckRetire \/ CheckSkip \/ CheckCycle
  <2>1. items' = items /\ pc = "cycles" /\ pc' \in {"cycles", "failed"}
    BY <1>8 DEF CheckRetire, CheckSkip, CheckCycle, Retire, PassOver, Fail
  <2>2. items' = <<>>
    BY <1>0, <2>1 DEF OrderInv
  <2>3. QED
    BY <1>a, <2>1, <2>2 DEF OrderInv, FileOrder
<1>9. CASE UNCHANGED vars
  BY <1>0, <1>9 DEF vars, search, OrderInv, FileOrder, FileAt
<1>10. QED
  BY <1>1, <1>2, <1>3, <1>4, <1>5, <1>6, <1>7, <1>8, <1>9 DEF Next, Quiet

-----------------------------------------------------------------------------
(* What visibility sees.                                                   *)

(* Direct imports are visible, and so are public imports of what is.       *)
LEMMA DirectVisible ==
  ASSUME TypeOK, NEW f \in Idx, NEW g \in Targets(resolved, f)
  PROVE  g \in Idx /\ g \in VisibleFrom(imports, resolved, f)
<1>1. g \in Idx
  BY DEF TypeOK, Targets
<1>2. QED
  BY <1>1 DEF VisibleFrom, SeenTogether

LEMMA PublicVisible ==
  ASSUME TypeOK, NEW f \in Idx, NEW h \in VisibleFrom(imports, resolved, f),
         NEW g \in PublicTargets(imports, resolved, h)
  PROVE  g \in Idx /\ g \in VisibleFrom(imports, resolved, f)
<1>1. h \in Idx /\ g \in Targets(resolved, h)
  BY DEF VisibleFrom, PublicTargets, Targets
<1>2. g \in Idx
  BY <1>1 DEF TypeOK, Targets
<1>3. CASE h = f
  BY <1>1, <1>3, DirectVisible
<1>4. CASE h # f
  BY <1>2, <1>4 DEF VisibleFrom, SeenTogether
<1>5. QED
  BY <1>2, <1>3, <1>4

(* A finished list holds what is visible and nothing else.                 *)
LEMMA FinishedExact ==
  ASSUME TypeOK, SeeInv, scratch # <<>>, processing = Len(scratch)
  PROVE  {scratch[i] : i \in DOMAIN scratch} = VisibleFrom(imports, resolved, outer)
<1> DEFINE S == {scratch[i] : i \in DOMAIN scratch}
<1>1. scratch \in Seq(Idx) /\ Len(scratch) \in Nat \ {0} /\ DOMAIN scratch = 1..Len(scratch)
  BY DEF TypeOK
<1>2. S \in SUBSET Idx
  BY <1>1
<1>3. outer \in S /\ outer \in Idx /\ scratch[1] = outer
  BY <1>1 DEF SeeInv
<1>4. Targets(resolved, outer) \subseteq S
  BY <1>1 DEF SeeInv, Holds, Targets
<1>5. ASSUME NEW h \in S, NEW g \in PublicTargets(imports, resolved, h) PROVE g \in S
  <2>1. PICK i \in 1..Len(scratch) : scratch[i] = h
    BY <1>1, <1>5
  <2>2. PICK k \in DOMAIN resolved[h] : imports[h][k].public /\ resolved[h][k] = g
    BY <1>5 DEF PublicTargets
  <2>3. CASE i = 1
    BY <1>3, <1>4, <2>1, <2>2, <2>3 DEF Targets
  <2>4. CASE i \in 2..Len(scratch)
    BY <1>1, <2>1, <2>2, <2>4 DEF SeeInv, Holds
  <2>5. QED
    BY <1>1, <2>1, <2>3, <2>4
<1>6. SeenTogether(imports, resolved, outer, S)
  BY <1>4, <1>5 DEF SeenTogether
<1>7. VisibleFrom(imports, resolved, outer) \subseteq S
  BY <1>2, <1>3, <1>6 DEF VisibleFrom
<1>8. S \subseteq VisibleFrom(imports, resolved, outer)
  BY DEF SeeInv
<1>9. QED
  BY <1>7, <1>8

(* A file is added: what was there stays, so what was seen is still seen.  *)
LEMMA SeeKeeps ==
  ASSUME TypeOK, SeeInv, scratch # <<>>, NEW f \in VisibleFrom(imports, resolved, outer), See(f)
  PROVE  /\ scratch' \in Seq(Idx) /\ scratch' # <<>> /\ scratch'[1] = scratch[1]
         /\ Len(scratch) <= Len(scratch')
         /\ \A i \in 1..Len(scratch) : scratch'[i] = scratch[i]
         /\ Distinct(scratch')
         /\ \A i \in DOMAIN scratch' : scratch'[i] \in VisibleFrom(imports, resolved, outer)
         /\ Holds(scratch', f)
         /\ \A g : Holds(scratch, g) => Holds(scratch', g)
<1>1. scratch \in Seq(Idx) /\ Len(scratch) \in Nat \ {0} /\ DOMAIN scratch = 1..Len(scratch)
  BY DEF TypeOK
<1>2. outer \in Idx /\ f \in Idx
  BY <1>1 DEF SeeInv, VisibleFrom
<1>3. /\ scratch' \in Seq(Idx)
      /\ Len(scratch) <= Len(scratch')
      /\ \A i \in 1..Len(scratch) : scratch'[i] = scratch[i]
      /\ \A i \in 1..Len(scratch') : i > Len(scratch) => scratch'[i] = f
      /\ Holds(scratch', f)
      /\ Distinct(scratch')
  BY <1>1, <1>2, SeenList DEF SeeInv
<1>4. Len(scratch') \in Nat /\ DOMAIN scratch' = 1..Len(scratch') /\ scratch' # <<>>
  BY <1>1, <1>3
<1>5. \A i \in DOMAIN scratch' : scratch'[i] \in VisibleFrom(imports, resolved, outer)
  BY <1>1, <1>3, <1>4 DEF SeeInv
<1>6. \A g : Holds(scratch, g) => Holds(scratch', g)
  BY <1>1, <1>3, <1>4 DEF Holds
<1>7. QED
  BY <1>1, <1>3, <1>4, <1>5, <1>6

LEMMA SeeStep ==
  ASSUME Inv, [Next]_vars
  PROVE  SeeInv'
<1> USE NAssumption
<1>0. TypeOK /\ SeeInv /\ outer \in 0..N
  BY DEF Inv, TypeOK
<1>a. scratch \in Seq(Idx) /\ Len(scratch) \in Nat /\ DOMAIN scratch = 1..Len(scratch)
      /\ resolved \in [Idx -> Seq(Idx)] /\ edge \in Nat \ {0} /\ processing \in Nat
  BY <1>0 DEF TypeOK
<1>1. CASE SeeSelf
  <2>1. outer \in Idx /\ scratch' = <<outer>> /\ Seeing' /\ outer' = outer
        /\ resolved' = resolved /\ imports' = imports /\ processing' = 0 /\ edge' = 1
    BY <1>0, <1>1 DEF SeeSelf, Seeing, Idx, inputs
  <2>2. outer \in VisibleFrom(imports, resolved, outer)
    BY DEF VisibleFrom
  <2>3. Distinct(scratch')
    BY <2>1 DEF Distinct
  <2>4. QED
    BY <1>a, <2>1, <2>2, <2>3 DEF SeeInv
<1>2. CASE SeeDirect
  <2>1. /\ scratch # <<>> /\ processing = 0 /\ edge \in 1..Len(resolved[outer])
        /\ See(resolved[outer][edge]) /\ edge' = edge + 1
        /\ UNCHANGED <<pc, imports, resolved, outer, processing>> /\ Seeing /\ Seeing'
    BY <1>a, <1>2 DEF SeeDirect, Seeing, inputs
  <2>2. outer \in Idx /\ resolved[outer] \in Seq(Idx)
    BY <1>0, <1>a, <2>1 DEF Seeing, Idx
  <2>3. resolved[outer][edge] \in Targets(resolved, outer)
    BY <2>1, <2>2 DEF Targets
  <2>4. resolved[outer][edge] \in VisibleFrom(imports, resolved, outer)
    BY <1>0, <2>2, <2>3, DirectVisible
  <2>5. \A k \in DOMAIN resolved[outer] : k < edge + 1 => Holds(scratch', resolved[outer][k])
    BY <1>0, <1>a, <2>1, <2>2, <2>4, SeeKeeps DEF SeeInv
  <2>6. /\ scratch' \in Seq(Idx) /\ scratch' # <<>> /\ scratch'[1] = outer
        /\ Len(scratch) <= Len(scratch') /\ Distinct(scratch')
        /\ \A i \in DOMAIN scratch' : scratch'[i] \in VisibleFrom(imports, resolved, outer)
    BY <1>0, <2>1, <2>4, SeeKeeps DEF SeeInv
  <2>7. /\ processing' <= Len(scratch')
        /\ \A i \in 2..Len(scratch') : ~(i <= processing' \/ i = processing' + 1)
    BY <1>a, <2>1, <2>6
  <2>8. \A k \in DOMAIN resolved[outer] :
          processing' > 0 \/ k < edge' => Holds(scratch', resolved[outer][k])
    BY <2>1, <2>5
  <2>9. \A i \in 2..Len(scratch') : \A k \in DOMAIN resolved[scratch'[i]] :
          /\ i <= processing' \/ (i = processing' + 1 /\ k < edge')
          /\ imports[scratch'[i]][k].public
          => Holds(scratch', resolved[scratch'[i]][k])
    BY <2>7
  <2>10. resolved' = resolved /\ imports' = imports /\ outer' = outer /\ Seeing'
    BY <2>1
  <2>11. QED
    BY <2>6, <2>7, <2>8, <2>9, <2>10 DEF SeeInv
<1>3. CASE SeePublic
  <2>1. /\ scratch # <<>> /\ processing \in 1..(Len(scratch) - 1) /\ edge <= Len(resolved[Current])
        /\ edge' = edge + 1 /\ UNCHANGED <<pc, imports, resolved, outer, processing>>
        /\ Seeing /\ Seeing'
    BY <1>a, <1>3 DEF SeePublic, Seeing, inputs
  <2>2. Current \in VisibleFrom(imports, resolved, outer) /\ Current \in Idx
    <3>1. processing + 1 \in DOMAIN scratch
      BY <1>a, <2>1
    <3>2. \A i \in DOMAIN scratch : scratch[i] \in VisibleFrom(imports, resolved, outer)
      BY <1>0, <2>1 DEF SeeInv
    <3>3. \A i \in DOMAIN scratch : scratch[i] \in Idx
      BY <1>a
    <3>4. QED
      BY <3>1, <3>2, <3>3 DEF Current
  <2>3. edge \in DOMAIN resolved[Current] /\ DOMAIN resolved[Current] = 1..Len(resolved[Current])
    BY <1>a, <2>1, <2>2
  <2>4. CASE imports[Current][edge].public
    <3>1. See(resolved[Current][edge])
      BY <1>3, <2>4 DEF SeePublic
    <3>2. resolved[Current][edge] \in VisibleFrom(imports, resolved, outer)
      <4>1. resolved[Current][edge] \in PublicTargets(imports, resolved, Current)
        BY <2>3, <2>4 DEF PublicTargets
      <4>2. outer \in Idx
        BY <1>0, <2>1 DEF Seeing, Idx
      <4>3. QED
        BY <1>0, <2>2, <4>1, <4>2, PublicVisible
    <3>3. /\ scratch' \in Seq(Idx) /\ scratch' # <<>> /\ scratch'[1] = outer
          /\ Len(scratch) <= Len(scratch') /\ Distinct(scratch')
          /\ \A i \in 1..Len(scratch) : scratch'[i] = scratch[i]
          /\ \A i \in DOMAIN scratch' : scratch'[i] \in VisibleFrom(imports, resolved, outer)
          /\ Holds(scratch', resolved[Current][edge])
          /\ \A g : Holds(scratch, g) => Holds(scratch', g)
      BY <1>0, <2>1, <3>1, <3>2, SeeKeeps DEF SeeInv
    <3>4. \A k \in DOMAIN resolved[outer] : Holds(scratch', resolved[outer][k])
      BY <1>0, <2>1, <3>3 DEF SeeInv
    <3>5. ASSUME NEW i \in 2..Len(scratch'), NEW k \in DOMAIN resolved[scratch'[i]],
                 i <= processing \/ (i = processing + 1 /\ k < edge + 1),
                 imports[scratch'[i]][k].public
          PROVE  Holds(scratch', resolved[scratch'[i]][k])
      <4>1. i \in 2..Len(scratch) /\ scratch'[i] = scratch[i]
        <5>1. i \in Nat /\ i >= 2 /\ i <= processing + 1 /\ processing + 1 <= Len(scratch)
          BY <1>a, <2>1, <3>5
        <5>2. i \in 2..Len(scratch) /\ i \in 1..Len(scratch)
          BY <1>a, <5>1
        <5>3. QED
          BY <3>3, <5>2
      <4>2. CASE i = processing + 1 /\ k = edge
        BY <3>3, <4>1, <4>2 DEF Current
      <4>3. CASE i <= processing \/ (i = processing + 1 /\ k < edge)
        BY <1>0, <2>1, <3>3, <3>5, <4>1, <4>3 DEF SeeInv
      <4>4. k \in Nat
        <5>1. scratch[i] \in Idx
          BY <1>a, <4>1
        <5>2. k \in 1..Len(resolved[scratch[i]])
          BY <1>a, <3>5, <4>1, <5>1
        <5>3. QED
          BY <5>2
      <4>5. QED
        BY <1>a, <3>5, <4>2, <4>3, <4>4
    <3>6. processing <= Len(scratch')
      BY <1>a, <2>1, <3>3
    <3>7. QED
      BY <2>1, <3>3, <3>4, <3>5, <3>6 DEF SeeInv
  <2>5. CASE ~imports[Current][edge].public
    <3>1. scratch' = scratch
      BY <1>3, <2>5 DEF SeePublic
    <3>2. ASSUME NEW i \in 2..Len(scratch), NEW k \in DOMAIN resolved[scratch[i]],
                 i <= processing \/ (i = processing + 1 /\ k < edge + 1),
                 imports[scratch[i]][k].public
          PROVE  i <= processing \/ (i = processing + 1 /\ k < edge)
      <4>1. k \in Nat
        BY <1>a, <3>2
      <4>2. ~(i = processing + 1 /\ k = edge)
        BY <2>5, <3>2 DEF Current
      <4>3. QED
        BY <1>a, <3>2, <4>1, <4>2
    <3>3. /\ scratch[1] = outer /\ Distinct(scratch)
          /\ \A i \in DOMAIN scratch : scratch[i] \in VisibleFrom(imports, resolved, outer)
          /\ \A k \in DOMAIN resolved[outer] : Holds(scratch, resolved[outer][k])
      BY <1>0, <2>1 DEF SeeInv
    <3>4. \A i \in 2..Len(scratch) : \A k \in DOMAIN resolved[scratch[i]] :
            /\ i <= processing \/ (i = processing + 1 /\ k < edge + 1)
            /\ imports[scratch[i]][k].public
            => Holds(scratch, resolved[scratch[i]][k])
      BY <1>0, <2>1, <3>2 DEF SeeInv
    <3>5. processing <= Len(scratch)
      BY <1>a, <2>1
    <3>6. QED
      BY <2>1, <3>1, <3>3, <3>4, <3>5 DEF SeeInv
  <2>6. QED
    BY <2>4, <2>5
<1>4. CASE NextEntry
  <2>1. /\ scratch # <<>> /\ processing < Len(scratch) /\ edge > Len(resolved[Current])
        /\ processing' = processing + 1 /\ edge' = 1 /\ Seeing /\ Seeing'
        /\ UNCHANGED <<pc, imports, resolved, outer, scratch>>
    BY <1>4 DEF NextEntry, Seeing, inputs
  <2>2. Current \in Idx /\ DOMAIN resolved[Current] = 1..Len(resolved[Current])
    BY <1>a, <2>1 DEF Current
  <2>3. \A k \in DOMAIN resolved[Current] : k < edge
    BY <1>a, <2>1, <2>2
  <2>4. \A k \in DOMAIN resolved[outer] : processing > 0 \/ k < edge
    <3>1. processing = 0 => Current = outer
      BY <1>0, <2>1 DEF SeeInv, Current
    <3>2. QED
      BY <1>a, <2>3, <3>1
  <2>5. \A i \in 2..Len(scratch) : \A k \in DOMAIN resolved[scratch[i]] :
          i <= processing + 1 => i <= processing \/ (i = processing + 1 /\ k < edge)
    BY <1>a, <2>3 DEF Current
  <2>6. \A i \in 2..Len(scratch) : \A k \in DOMAIN resolved[scratch[i]] :
          ~(i = processing + 2 /\ k < 1)
    BY <1>a
  <2>7. QED
    BY <1>0, <1>a, <2>1, <2>4, <2>5, <2>6 DEF SeeInv
<1>5. CASE SeeDone
  BY <1>5 DEF SeeDone, SeeInv
<1>6. CASE UNCHANGED vars
  BY <1>0, <1>6 DEF vars, seeing, inputs, SeeInv, Seeing
<1>7. CASE ~(SeeSelf \/ SeeDirect \/ SeePublic \/ NextEntry \/ SeeDone \/ UNCHANGED vars)
  <2>1. scratch' = scratch /\ ~Seeing
    BY <1>7 DEF Next, LinkFile, LinkFails, LinkDone, SkipRoot, StartTree, Push, CheckRetire,
       CheckSkip, CheckCycle, CheckDone, OrderRetire, OrderSkip, OrderDone, VisibilityDone,
       Retire, PassOver, Searching, Seeing, seeing
  <2>2. QED
    BY <1>0, <2>1 DEF SeeInv
<1>8. QED
  BY <1>1, <1>2, <1>3, <1>4, <1>5, <1>6, <1>7

LEMMA VisibleStep ==
  ASSUME Inv, [Next]_vars
  PROVE  VisibleExact'
<1> USE NAssumption
<1>0. TypeOK /\ SeeInv /\ VisibleExact /\ outer \in 0..N /\ \A f \in Idx : f < N /\ f \in Int
  BY DEF Inv, TypeOK, Idx
<1> DEFINE Seen(f) == pc \in {"order", "done"} \/ (pc = "visibility" /\ f < outer)
<1>1. CASE SeeDone
  <2>1. /\ visible' = [visible EXCEPT ![outer] = scratch] /\ outer' = outer + 1
        /\ scratch # <<>> /\ processing = Len(scratch) /\ pc = "visibility" /\ pc' = pc
        /\ outer \in Idx /\ UNCHANGED inputs /\ UNCHANGED resolved
    BY <1>0, <1>1 DEF SeeDone, Seeing, Idx
  <2>2. visible'[outer] = scratch /\ \A f \in Idx : f # outer => visible'[f] = visible[f]
    BY <1>0, <2>1 DEF TypeOK
  <2>3. ASSUME NEW f \in Idx, f < outer' PROVE SeesExactly(f)'
    <3>1. CASE f = outer
      <4>1. Distinct(scratch)
        BY <1>0, <2>1 DEF SeeInv
      <4>2. {scratch[i] : i \in DOMAIN scratch} = VisibleFrom(imports, resolved, outer)
        BY <1>0, <2>1, FinishedExact
      <4>3. QED
        BY <2>1, <2>2, <3>1, <4>1, <4>2 DEF SeesExactly, inputs
    <3>2. CASE f < outer
      BY <1>0, <2>1, <2>2, <3>2 DEF VisibleExact, SeesExactly, inputs
    <3>3. QED
      BY <1>0, <2>1, <2>3, <3>1, <3>2
  <2>4. QED
    BY <2>1, <2>3 DEF VisibleExact
<1>2. CASE ~SeeDone
  <2>1. \/ pc' \in {"link", "cycles", "failed"}
        \/ pc' = "visibility" /\ outer' = 0
        \/ UNCHANGED <<visible, inputs, resolved>> /\ \A f \in Idx : Seen(f)' => Seen(f)
    <3>1. CASE LinkFile \/ LinkFails \/ LinkDone \/ CheckDone
      BY <3>1 DEF LinkFile, LinkFails, LinkDone, CheckDone, Fail, StartPass
    <3>2. CASE SkipRoot \/ StartTree \/ Push
      BY <3>2 DEF SkipRoot, StartTree, Push, Searching, seeing
    <3>3. CASE CheckRetire \/ CheckSkip \/ CheckCycle
      BY <3>3 DEF CheckRetire, CheckSkip, CheckCycle, Retire, PassOver, Fail
    <3>4. CASE OrderRetire \/ OrderSkip \/ OrderDone
      BY <3>4 DEF OrderRetire, OrderSkip, OrderDone, Retire, PassOver, seeing, inputs
    <3>5. CASE SeeSelf \/ SeeDirect \/ SeePublic \/ NextEntry
      BY <3>5 DEF SeeSelf, SeeDirect, SeePublic, NextEntry, Seeing
    <3>6. CASE VisibilityDone
      BY <1>0, <3>6 DEF VisibilityDone, StartPass, seeing
    <3>7. CASE UNCHANGED vars
      BY <3>7 DEF vars, seeing
    <3>8. QED
      BY <1>2, <3>1, <3>2, <3>3, <3>4, <3>5, <3>6, <3>7 DEF Next
  <2>2. CASE pc' \in {"link", "cycles", "failed"} \/ (pc' = "visibility" /\ outer' = 0)
    BY <2>2 DEF VisibleExact, Idx
  <2>3. CASE UNCHANGED <<visible, inputs, resolved>> /\ \A f \in Idx : Seen(f)' => Seen(f)
    BY <1>0, <2>3 DEF VisibleExact, SeesExactly, inputs
  <2>4. QED
    BY <2>1, <2>2, <2>3
<1>3. QED
  BY <1>1, <1>2

-----------------------------------------------------------------------------
(* The verdict of the cycle check, and what holds between the passes.      *)

LEMMA VerdictStep ==
  ASSUME Inv, [Next]_vars
  PROVE  CycleVerdict' /\ PhaseInv'
<1> USE NAssumption
<1>0. TypeOK /\ ScratchFits /\ StackInv /\ CycleVerdict /\ PhaseInv
      /\ top \in Int /\ top >= -1 /\ outer \in 0..N
  BY DEF Inv, TypeOK
<1>1. CASE LinkFile \/ LinkFails
  BY <1>0, <1>1 DEF LinkFile, LinkFails, Fail, CycleVerdict, PhaseInv, Searching, search
<1>2. CASE LinkDone
  BY <1>0, <1>2 DEF LinkDone, StartPass, CycleVerdict, PhaseInv, Searching, search
<1>3. CASE CheckCycle
  <2>1. top >= 0 /\ Pending /\ Searching /\ color[Child] = "gray" /\ resolved' = resolved
        /\ failed' = Child /\ pc' = "failed" /\ checked' = checked
    BY <1>3 DEF CheckCycle, PassOver, Fail, Searching
  <2>2. Child \in Idx /\ Child \in Targets(resolved, TopFile) /\ top \in 0..top /\ TopFile \in Idx
    BY <1>0, <2>1, TopFrame
  <2>3. PICK p \in 0..top : FileAt(p) = Child
    BY <1>0, <2>1, <2>2 DEF StackInv
  <2>4. Reaches(resolved, FileAt(p), FileAt(top))
    BY <1>0, <2>1, <2>2, <2>3 DEF StackInv
  <2>5. OnCycle(resolved, Child)
    BY <2>2, <2>3, <2>4 DEF OnCycle, Edge, FileAt, TopFile
  <2>6. QED
    BY <1>0, <2>1, <2>2, <2>5 DEF CycleVerdict, PhaseInv, Searching
<1>4. CASE CheckDone
  <2>1. outer = N /\ Searching /\ pc = "cycles" /\ RootInv /\ CheckInv /\ \A f \in Idx : f < N
    BY <1>4 DEF CheckDone, Searching, Inv, Idx
  <2>2. Acyclic(resolved)
    BY <2>1 DEF RootInv, CheckInv, Acyclic
  <2>3. QED
    BY <1>0, <1>4, <2>2 DEF CheckDone, StartPass, CycleVerdict, PhaseInv, Searching, search
<1>5. CASE SkipRoot \/ StartTree \/ Push
  BY <1>0, <1>5 DEF SkipRoot, StartTree, Push, CycleVerdict, PhaseInv, Searching
<1>6. CASE CheckRetire \/ OrderRetire \/ CheckSkip \/ OrderSkip
  BY <1>0, <1>6 DEF CheckRetire, OrderRetire, CheckSkip, OrderSkip, Retire, PassOver,
     CycleVerdict, PhaseInv, Searching
<1>7. CASE OrderDone \/ VisibilityDone
  BY <1>0, <1>7 DEF OrderDone, VisibilityDone, StartPass, CycleVerdict, PhaseInv, Searching, search
<1>8. CASE SeeSelf \/ SeeDirect \/ SeePublic \/ NextEntry \/ SeeDone
  BY <1>0, <1>8 DEF SeeSelf, SeeDirect, SeePublic, NextEntry, SeeDone, Seeing, CycleVerdict,
     PhaseInv, Searching, search
<1>9. CASE UNCHANGED vars
  BY <1>0, <1>9 DEF vars, search, CycleVerdict, PhaseInv, Searching
<1>10. QED
  BY <1>1, <1>2, <1>3, <1>4, <1>5, <1>6, <1>7, <1>8, <1>9 DEF Next

-----------------------------------------------------------------------------
(* The invariant.                                                          *)

LEMMA InvInit == Init => Inv
<1> SUFFICES ASSUME Init PROVE Inv
  OBVIOUS
<1> USE NAssumption
<1>1. TypeOK
  <2>1. \A f \in Idx : [file |-> f, next |-> 0] \in Frame
    BY DEF Frame
  <2>2. <<>> \in Seq(Idx)
    OBVIOUS
  <2>3. resolved \in [Idx -> Seq(Idx)] /\ visible \in [Idx -> Seq(Idx)]
    BY <2>2 DEF Init
  <2>4. stack \in [Idx -> Frame] /\ color \in [Idx -> {"white", "gray", "black"}]
    BY <2>1 DEF Init, White
  <2>5. scratch \in Seq(Idx) /\ items \in Seq(Idx)
    BY <2>2 DEF Init
  <2>6. path \in SourcePaths /\ imports \in [Idx -> ImportLists] /\ outer \in 0..N
        /\ top \in Int /\ top >= -1 /\ processing \in Nat /\ edge \in Nat \ {0} /\ failed \in Nat
    BY DEF Init
  <2>7. pc = "link" /\ checked = FALSE /\ error = "OK"
    BY DEF Init
  <2>8. QED
    BY <2>3, <2>4, <2>5, <2>6, <2>7 DEF TypeOK
<1>2. ScratchFits
  BY DEF Init, ScratchFits
<1>3. PhaseInv /\ StackInv /\ RootInv /\ CheckInv /\ SeeInv /\ OrderInv
  BY DEF Init, PhaseInv, StackInv, RootInv, CheckInv, SeeInv, OrderInv, Searching
<1>4. CycleVerdict /\ VisibleExact /\ FileOrder
  BY DEF Init, CycleVerdict, VisibleExact, FileOrder, Distinct, DependencyOrder
<1>5. QED
  BY <1>1, <1>2, <1>3, <1>4 DEF Inv

LEMMA InvStep == Inv /\ [Next]_vars => Inv'
<1> SUFFICES ASSUME Inv, [Next]_vars PROVE Inv'
  OBVIOUS
<1>1. TypeOK' /\ StackInv' /\ top' < N
  BY TypeStep, StackStep
<1>2. RootInv' /\ CheckInv' /\ OrderInv' /\ FileOrder'
  BY RootStep, CheckStep, OrderStep
<1>3. SeeInv' /\ VisibleExact' /\ CycleVerdict' /\ PhaseInv'
  BY SeeStep, VisibleStep, VerdictStep
<1>4. ScratchFits'
  <2>1. Len(items') <= N
    BY <1>1, <1>2, DistinctFits DEF TypeOK, FileOrder
  <2>2. Len(scratch') <= N
    <3>1. CASE scratch' = <<>>
      BY <3>1, NAssumption
    <3>2. CASE scratch' # <<>>
      BY <1>1, <1>3, <3>2, DistinctFits DEF TypeOK, SeeInv
    <3>3. QED
      BY <3>1, <3>2
  <2>3. QED
    BY <1>1, <2>1, <2>2 DEF ScratchFits
<1>5. QED
  BY <1>1, <1>2, <1>3, <1>4 DEF Inv

LEMMA InvHolds == Spec => []Inv
BY InvInit, InvStep, PTL DEF Spec

(* Every variable keeps its type, the scratch arrays included.             *)
THEOREM TypeCorrect == Spec => []TypeOK
BY InvHolds, PTL DEF Inv

(* No pass writes past the n_sources entries of its scratch arrays.        *)
THEOREM ScratchIsLargeEnough == Spec => []ScratchFits
BY InvHolds, PTL DEF Inv

(* gremlind_check_no_cycles is right both when it names a file and when it *)
(* returns OK.                                                             *)
THEOREM CycleCheckIsExact == Spec => []CycleVerdict
BY InvHolds, PTL DEF Inv

(* gremlind_compute_visibility computes exactly what a file sees.          *)
THEOREM VisibilityIsExact == Spec => []VisibleExact
BY InvHolds, PTL DEF Inv

(* gremlind_topo_sort_files lists every file once and after its imports.   *)
THEOREM FilesAreOrdered == Spec => []FileOrder
BY InvHolds, PTL DEF Inv
=============================================================================
