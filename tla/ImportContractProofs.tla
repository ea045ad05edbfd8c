------------------------- MODULE ImportContractProofs -------------------------
(***************************************************************************)
(* The import passes implement ImportContract, for every import graph.     *)
(*                                                                         *)
(* The results of the passes are characterised in ImportPassesProofs, over *)
(* the graph that linking built; the contract speaks of the graph that the *)
(* import statements describe.  What is left to show is that the two are   *)
(* one, file by file as linking goes on, and that a file not yet looked at *)
(* sees nothing, so that each of the contract's steps is taken once.       *)
(***************************************************************************)
EXTENDS ImportPassesProofs

(* Files before `outer` are linked to what their imports name; afterwards  *)
(* all are.                                                                *)
LinkInv ==
  /\ pc = "link" => \A f \in Idx : f < outer =>
       resolved[f] = Contract!Graph[f] /\ ~Contract!Missing(f)
  /\ pc \in {"cycles", "visibility", "order", "done"} => resolved = Contract!Graph

(* What a file sees is empty until its turn.                               *)
UnseenInv ==
  /\ pc \in {"link", "cycles"} => visible = [f \in Idx |-> <<>>]
  /\ pc = "visibility" => \A f \in Idx : outer <= f => visible[f] = <<>>

(* Steps that change nothing the contract speaks of.                       *)
Hidden == UNCHANGED <<pc, path, imports, checked, error, failed, visible>>

(* Both modules look paths up in one way.                                  *)
LEMMA SameLookup ==
  /\ Contract!Idx = Idx
  /\ \A p : Contract!Named(path, p) = Named(path, p)
  /\ \A p : Contract!Lookup(path, p) = Lookup(path, p)
<1>1. Contract!Idx = Idx
  BY DEF Contract!Idx, Idx
<1>2. \A p : Contract!Named(path, p) = Named(path, p)
  BY <1>1 DEF Contract!Named, Named
<1>3. \A p : Contract!Lookup(path, p) = Lookup(path, p)
  BY <1>2 DEF Contract!Lookup, Lookup
<1>4. QED
  BY <1>1, <1>2, <1>3

(* What a file lacks, and what it is linked to, in the words of both.      *)
LEMMA OuterInContract ==
  ASSUME outer \in Idx
  PROVE  /\ Contract!Missing(outer) <=> \E k \in DOMAIN imports[outer] : ~Found(k)
         /\ Contract!Graph[outer] = Linked(Len(imports[outer]))
<1>1. Contract!Missing(outer) <=> \E k \in DOMAIN imports[outer] : ~Found(k)
  BY SameLookup DEF Contract!Missing, Found
<1>2. Contract!Graph[outer] = Linked(Len(imports[outer]))
  BY SameLookup DEF Contract!Graph, Linked
<1>3. QED
  BY <1>1, <1>2

LEMMA LinkInit == Init => LinkInv /\ UnseenInv
BY NAssumption DEF Init, LinkInv, UnseenInv, Idx

(* Linking builds the contract's graph, one file after another, and no     *)
(* later pass changes it.                                                  *)
LEMMA LinkStep ==
  ASSUME Inv, LinkInv, [Next]_vars
  PROVE  LinkInv'
<1> USE NAssumption
<1>0. TypeOK
  BY DEF Inv
<1>1. CASE LinkFile
  <2>1. outer \in Idx /\ outer' = outer + 1 /\ pc' = "link" /\ pc = "link"
    BY <1>0, <1>1 DEF LinkFile, TypeOK, Idx
  <2>2. Contract!Graph' = Contract!Graph /\ \A f \in Idx : Contract!Missing(f)' = Contract!Missing(f)
    BY <1>1 DEF LinkFile, inputs, Contract!Graph, Contract!Missing
  <2>3. resolved'[outer] = Contract!Graph[outer] /\ ~Contract!Missing(outer)
    BY <1>0, <1>1, <2>1, OuterInContract DEF LinkFile, TypeOK
  <2>4. \A f \in Idx : f < outer' => resolved'[f] = Contract!Graph[f] /\ ~Contract!Missing(f)
    <3>1. TAKE f \in Idx
    <3>2. CASE f = outer
      BY <2>3, <3>2
    <3>3. CASE f # outer
      <4>1. f < outer' => f < outer
        BY <2>1, <3>3 DEF Idx
      <4>2. resolved'[f] = resolved[f]
        BY <1>0, <1>1, <3>3 DEF LinkFile, TypeOK
      <4>3. QED
        BY <2>1, <4>1, <4>2 DEF LinkInv
    <3>4. QED
      BY <3>2, <3>3
  <2>5. QED
    BY <2>1, <2>2, <2>4 DEF LinkInv
<1>2. CASE LinkDone
  <2>1. \A f \in Idx : resolved[f] = Contract!Graph[f]
    BY <1>2 DEF LinkDone, LinkInv, Idx
  <2>2. resolved = Contract!Graph
    BY <1>0, <2>1 DEF TypeOK, Contract!Graph, Contract!Idx, Idx
  <2>3. resolved' = resolved /\ Contract!Graph' = Contract!Graph /\ pc' # "link"
    BY <1>2 DEF LinkDone, StartPass, inputs, Contract!Graph
  <2>4. QED
    BY <2>2, <2>3 DEF LinkInv
<1>3. CASE LinkFails
  BY <1>3 DEF LinkFails, Fail, LinkInv
<1>4. ASSUME UNCHANGED <<resolved, path, imports>>, pc # "link", pc' # "link", pc = "failed" => pc' = "failed"
      PROVE  LinkInv'
  <2>1. Contract!Graph' = Contract!Graph
    BY <1>4 DEF Contract!Graph
  <2>2. pc' \in {"cycles", "visibility", "order", "done"} => pc \in {"cycles", "visibility", "order", "done"}
    BY <1>0, <1>4 DEF TypeOK
  <2>3. QED
    BY <1>4, <2>1, <2>2 DEF LinkInv
<1>5. CASE SkipRoot \/ StartTree \/ Push
  BY <1>4, <1>5 DEF SkipRoot, StartTree, Push, Searching, inputs
<1>6. CASE CheckRetire \/ OrderRetire
  BY <1>4, <1>6 DEF CheckRetire, OrderRetire, Retire, inputs
<1>7. CASE CheckSkip \/ CheckCycle \/ OrderSkip
  BY <1>4, <1>7 DEF CheckSkip, CheckCycle, OrderSkip, PassOver, Fail, inputs
<1>8. CASE CheckDone \/ OrderDone \/ VisibilityDone
  BY <1>4, <1>8 DEF CheckDone, OrderDone, VisibilityDone, StartPass, inputs
<1>9. CASE SeeSelf \/ SeeDirect \/ SeePublic \/ NextEntry \/ SeeDone
  BY <1>4, <1>9 DEF SeeSelf, SeeDirect, SeePublic, NextEntry, SeeDone, Seeing, inputs
<1>10. CASE UNCHANGED vars
  BY <1>10 DEF vars, inputs, LinkInv, Contract!Graph, Contract!Missing
<1>11. QED
  BY <1>1, <1>2, <1>3, <1>5, <1>6, <1>7, <1>8, <1>9, <1>10 DEF Next

(* Only visibility writes what a file sees, and only for the file whose    *)
(* turn it is.                                                             *)
LEMMA UnseenStep ==
  ASSUME Inv, UnseenInv, [Next]_vars
  PROVE  UnseenInv'
<1> USE NAssumption
<1>0. TypeOK
  BY DEF Inv
<1>1. ASSUME visible' = visible, pc' = pc, pc = "visibility" => outer' = outer
      PROVE  UnseenInv'
  BY <1>1 DEF UnseenInv
<1>2. CASE LinkFile \/ SkipRoot \/ StartTree \/ Push
  BY <1>1, <1>2 DEF LinkFile, SkipRoot, StartTree, Push, Searching, seeing
<1>3. CASE LinkFails \/ CheckCycle
  BY <1>3 DEF LinkFails, CheckCycle, Fail, UnseenInv
<1>4. CASE LinkDone \/ CheckDone
  BY <1>4 DEF LinkDone, CheckDone, StartPass, seeing, UnseenInv, Idx
<1>5. CASE CheckRetire \/ OrderRetire
  BY <1>1, <1>5 DEF CheckRetire, OrderRetire, Retire, seeing
<1>6. CASE CheckSkip \/ OrderSkip
  BY <1>1, <1>6 DEF CheckSkip, OrderSkip, PassOver, seeing
<1>7. CASE OrderDone \/ VisibilityDone
  BY <1>7 DEF OrderDone, VisibilityDone, StartPass, UnseenInv
<1>8. CASE SeeSelf \/ SeeDirect \/ SeePublic \/ NextEntry
  BY <1>1, <1>8 DEF SeeSelf, SeeDirect, SeePublic, NextEntry
<1>9. CASE SeeDone
  <2>1. outer' = outer + 1 /\ pc = "visibility" /\ pc' = pc /\ outer \in Nat
    BY <1>0, <1>9 DEF SeeDone, Seeing, TypeOK
  <2>2. \A f \in Idx : f # outer => visible'[f] = visible[f]
    BY <1>0, <1>9 DEF SeeDone, TypeOK
  <2>3. \A f \in Idx : outer + 1 <= f => outer <= f /\ f # outer
    BY <2>1 DEF Idx
  <2>4. QED
    BY <2>1, <2>2, <2>3 DEF UnseenInv
<1>10. CASE UNCHANGED vars
  BY <1>1, <1>10 DEF vars, seeing
<1>11. QED
  BY <1>2, <1>3, <1>4, <1>5, <1>6, <1>7, <1>8, <1>9, <1>10 DEF Next

-----------------------------------------------------------------------------
(* The strengthened invariant.                                             *)
ContractInv == Inv /\ LinkInv /\ UnseenInv

LEMMA ContractInvHolds == Spec => []ContractInv
<1>1. Init => ContractInv
  BY InvInit, LinkInit DEF ContractInv
<1>2. ContractInv /\ [Next]_vars => ContractInv'
  BY InvStep, LinkStep, UnseenStep DEF ContractInv
<1>3. QED
  BY <1>1, <1>2, PTL DEF Spec

(* A step that leaves alone what the contract speaks of is none of its     *)
(* steps.                                                                  *)
LEMMA HiddenStep ==
  ASSUME ContractInv, Hidden, pc # "done"
  PROVE  UNCHANGED Contract!avars
BY DEF Hidden, Contract!avars

(* One step of the passes for each of the contract's.                      *)
LEMMA LinkFailsReports ==
  ASSUME ContractInv, LinkFails
  PROVE  Contract!ReportMissing
<1>1. TypeOK /\ LinkInv /\ pc = "link" /\ pc' = "failed" /\ outer \in Idx
  BY NAssumption DEF ContractInv, Inv, LinkFails, Fail, TypeOK, Idx
<1>2. Contract!Missing(outer)
  BY <1>1, OuterInContract DEF LinkFails
<1>3. \A g \in 0..(outer - 1) : ~Contract!Missing(g)
  <2>1. TAKE g \in 0..(outer - 1)
  <2>2. g \in Idx /\ g < outer
    BY <1>1, NAssumption DEF Idx
  <2>3. QED
    BY <1>1, <2>2 DEF LinkInv
<1>4. outer \in Contract!Idx
  BY <1>1, SameLookup
<1>5. QED
  BY <1>1, <1>2, <1>3, <1>4 DEF LinkFails, Fail, inputs, seeing, Contract!ReportMissing

LEMMA LinkDoneLinks ==
  ASSUME ContractInv, LinkDone
  PROVE  Contract!Link
<1>1. LinkInv /\ pc = "link" /\ outer = N
  BY DEF ContractInv, LinkDone
<1>2. \A f \in Contract!Idx : ~Contract!Missing(f)
  BY <1>1, SameLookup, NAssumption DEF LinkInv, Idx
<1>3. QED
  BY <1>1, <1>2 DEF LinkDone, StartPass, inputs, seeing, Contract!Link

(* The verdicts are those of ImportPassesProofs, over the same graph.      *)
LEMMA SameCycles ==
  /\ \A f \in Idx : OnCycle(Contract!Graph, f) => Contract!OnCycle(Contract!Graph, f)
  /\ Acyclic(Contract!Graph) => Contract!Acyclic(Contract!Graph)
<1>1. \A f, g : Contract!Edge(Contract!Graph, f, g) <=> Edge(Contract!Graph, f, g)
  BY DEF Edge, Targets, Contract!Edge, Contract!Targets
<1>2. \A S : ClosedUnderImports(Contract!Graph, S) <=> Contract!ClosedUnderImports(Contract!Graph, S)
  BY DEF ClosedUnderImports, Targets, Contract!ClosedUnderImports, Contract!Targets
<1>3. \A f, g : Contract!Reaches(Contract!Graph, f, g) <=> Reaches(Contract!Graph, f, g)
  BY <1>2, SameLookup DEF Reaches, Contract!Reaches
<1>4. \A f : Contract!OnCycle(Contract!Graph, f) <=> OnCycle(Contract!Graph, f)
  BY <1>1, <1>3, SameLookup DEF OnCycle, Contract!OnCycle
<1>5. QED
  BY <1>4, SameLookup DEF Acyclic, Contract!Acyclic

LEMMA CheckCycleReports ==
  ASSUME ContractInv, CheckCycle
  PROVE  Contract!ReportCycle
<1>1. Inv' /\ resolved' = resolved /\ resolved = Contract!Graph
  BY InvStep DEF Next, CheckCycle, PassOver, ContractInv, LinkInv
<1>2. error' = "CIRCULAR_IMPORT" /\ pc = "cycles" /\ pc' = "failed"
  BY DEF CheckCycle, Fail
<1>3. failed' \in Idx /\ OnCycle(Contract!Graph, failed')
  BY <1>1, <1>2 DEF Inv, CycleVerdict
<1>4. failed' \in Contract!Idx /\ Contract!OnCycle(Contract!Graph, failed')
  BY <1>3, SameLookup, SameCycles
<1>5. QED
  BY <1>2, <1>4 DEF CheckCycle, Fail, PassOver, inputs, seeing, Contract!ReportCycle

LEMMA CheckDoneAccepts ==
  ASSUME ContractInv, CheckDone
  PROVE  Contract!Accept
<1>1. Inv' /\ resolved' = resolved /\ resolved = Contract!Graph
  BY InvStep DEF Next, CheckDone, ContractInv, LinkInv
<1>2. Contract!Acyclic(Contract!Graph)
  BY <1>1, SameCycles DEF CheckDone, Inv, CycleVerdict
<1>3. QED
  BY <1>2 DEF CheckDone, StartPass, inputs, seeing, Contract!Accept

(* So is what a file sees.                                                 *)
LEMMA SameVisible ==
  ASSUME NEW f
  PROVE  Contract!VisibleFrom(imports, Contract!Graph, f) = VisibleFrom(imports, Contract!Graph, f)
BY SameLookup DEF VisibleFrom, SeenTogether, Targets, PublicTargets,
   Contract!VisibleFrom, Contract!SeenTogether, Contract!Targets, Contract!PublicTargets

LEMMA SeeDoneSees ==
  ASSUME ContractInv, SeeDone
  PROVE  Contract!See(outer) /\ outer \in Contract!Idx
<1> USE NAssumption
<1>1. TypeOK /\ pc = "visibility" /\ outer \in Idx /\ outer < outer'
  BY DEF ContractInv, Inv, SeeDone, Seeing, TypeOK, Idx
<1>2. Inv' /\ resolved' = resolved /\ resolved = Contract!Graph /\ imports' = imports /\ pc' = pc
  BY <1>1, InvStep DEF Next, SeeDone, inputs, ContractInv, LinkInv
<1>3. visible[outer] = <<>>
  BY <1>1 DEF ContractInv, UnseenInv, Idx
<1>4. /\ Distinct(visible'[outer])
      /\ {visible'[outer][k] : k \in DOMAIN visible'[outer]} = VisibleFrom(imports, Contract!Graph, outer)
  BY <1>1, <1>2 DEF Inv, VisibleExact, SeesExactly
<1>5. Contract!Lists(visible'[outer], Contract!VisibleFrom(imports, Contract!Graph, outer))
  BY <1>4, SameVisible DEF Contract!Lists, Contract!Distinct, Distinct
<1>6. visible' = [visible EXCEPT ![outer] = visible'[outer]]
  <2>1. visible'[outer] = scratch
    BY <1>1 DEF SeeDone, TypeOK
  <2>2. QED
    BY <2>1 DEF SeeDone
<1>7. QED
  BY <1>1, <1>3, <1>5, <1>6, SameLookup DEF SeeDone, inputs, Contract!See

LEMMA VisibilityDoneSeesAll ==
  ASSUME ContractInv, VisibilityDone
  PROVE  Contract!AllSeen
<1>1. pc = "visibility" /\ outer = N
  BY DEF VisibilityDone
<1>2. ASSUME NEW f \in Idx PROVE visible[f] # <<>>
  <2>1. {visible[f][k] : k \in DOMAIN visible[f]} = VisibleFrom(imports, resolved, f)
    BY <1>1, NAssumption DEF ContractInv, Inv, VisibleExact, SeesExactly, Idx
  <2>2. f \in VisibleFrom(imports, resolved, f)
    BY DEF VisibleFrom
  <2>3. QED
    BY <2>1, <2>2
<1>3. QED
  BY <1>1, <1>2, SameLookup DEF VisibilityDone, StartPass, inputs, seeing, Contract!AllSeen

(* And the order of files.                                                 *)
LEMMA OrderDoneOrders ==
  ASSUME ContractInv, OrderDone
  PROVE  Contract!Order
<1>1. pc = "order" /\ pc' = "done" /\ items' = items /\ resolved' = resolved
  BY DEF OrderDone
<1>2. Inv' /\ resolved = Contract!Graph
  BY <1>1, InvStep DEF Next, ContractInv, LinkInv
<1>3. Distinct(items) /\ DependencyOrder(Contract!Graph, items) /\ \A f \in Idx : Holds(items, f)
  BY <1>1, <1>2 DEF Inv, FileOrder
<1>4. items \in Seq(Idx)
  BY DEF ContractInv, Inv, TypeOK
<1>5. {items[k] : k \in DOMAIN items} = Idx
  BY <1>3, <1>4, ElementOfSeq DEF Holds
<1>6. Contract!Lists(items, Contract!Idx)
  BY <1>3, <1>5, SameLookup DEF Contract!Lists, Contract!Distinct, Distinct
<1>7. Contract!DependencyOrder(Contract!Graph, items)
  BY <1>3, SameLookup DEF DependencyOrder, Reaches, Targets, ClosedUnderImports,
     Contract!DependencyOrder, Contract!Reaches, Contract!Targets, Contract!ClosedUnderImports
<1>8. QED
  BY <1>1, <1>6, <1>7 DEF OrderDone, inputs, seeing, Contract!Order

(* Every other step is hidden.                                             *)
LEMMA ContractStep ==
  ASSUME ContractInv, [Next]_vars
  PROVE  [Contract!Next]_Contract!avars
<1>1. CASE LinkFails
  BY <1>1, LinkFailsReports DEF Contract!Next
<1>2. CASE LinkDone
  BY <1>2, LinkDoneLinks DEF Contract!Next
<1>3. CASE CheckCycle
  BY <1>3, CheckCycleReports DEF Contract!Next
<1>4. CASE CheckDone
  BY <1>4, CheckDoneAccepts DEF Contract!Next
<1>5. CASE SeeDone
  BY <1>5, SeeDoneSees DEF Contract!Next
<1>6. CASE VisibilityDone
  BY <1>6, VisibilityDoneSeesAll DEF Contract!Next
<1>7. CASE OrderDone
  BY <1>7, OrderDoneOrders DEF Contract!Next
<1>8. CASE LinkFile \/ SkipRoot \/ StartTree \/ Push
  BY <1>8, HiddenStep DEF LinkFile, SkipRoot, StartTree, Push, Searching, inputs, seeing, Hidden
<1>9. CASE CheckRetire \/ OrderRetire
  BY <1>9, HiddenStep DEF CheckRetire, OrderRetire, Retire, inputs, seeing, Hidden
<1>10. CASE CheckSkip \/ OrderSkip
  BY <1>10, HiddenStep DEF CheckSkip, OrderSkip, PassOver, inputs, seeing, Hidden
<1>11. CASE SeeSelf \/ SeeDirect \/ SeePublic \/ NextEntry
  BY <1>11, HiddenStep DEF SeeSelf, SeeDirect, SeePublic, NextEntry, Seeing, inputs, Hidden
<1>12. CASE UNCHANGED vars
  BY <1>12 DEF vars, inputs, seeing, Contract!avars
<1>13. QED
  BY <1>1, <1>2, <1>3, <1>4, <1>5, <1>6, <1>7, <1>8, <1>9, <1>10, <1>11, <1>12 DEF Next

(* To a caller each import pass is one step, determined by the import      *)
(* statements: an unknown path or a cycle is reported, and otherwise each  *)
(* file sees what it should and all are listed imports first.              *)
THEOREM PassesImplementContract == Spec => ImplementsContract
<1>1. Init => Contract!Init
  BY SameLookup DEF Init, Contract!Init
<1>2. ContractInv /\ [Next]_vars => [Contract!Next]_Contract!avars
  BY ContractStep
<1>3. QED
  BY <1>1, <1>2, ContractInvHolds, PTL DEF Spec, ImplementsContract, Contract!Spec
===============================================================================
