---------------------------- MODULE ImportPasses ----------------------------
(***************************************************************************)
(* The passes of descriptors/src/resolve.c over the import graph, in the   *)
(* order a caller runs them:                                               *)
(*                                                                         *)
(*    link        gremlind_link_imports       fill imports.items[k].resolved *)
(*    cycles      gremlind_check_no_cycles    optional, "strongly recommended" *)
(*    visibility  gremlind_compute_visibility fill file->visible           *)
(*    order       gremlind_topo_sort_files    list the files for codegen   *)
(*                                                                         *)
(* Both depth-first searches are iterative: an array of n_sources frames   *)
(* taken from the arena serves as the stack, so nothing but the colouring  *)
(* keeps `top` inside it.  One step of the model is one iteration of a     *)
(* loop; `outer` is the index of the outermost loop of the running pass.   *)
(***************************************************************************)
EXTENDS ImportGraph

VARIABLES
  pc,         \* the pass that runs, or "done" / "failed"
  path,       \* ctx->sources[i].path
  imports,    \* ctx->files[i]->imports, as parsed
  resolved,   \* the linked prefix of each file's imports: indices of files
  checked,    \* the caller ran gremlind_check_no_cycles and it returned OK
  error,      \* ctx->error
  failed,     \* ctx->failed_source_idx
  outer,      \* i, or root
  color,      \* scratch of a search: white, gray or black
  stack,      \* scratch of a search: its frames, live at 0..top
  top,        \* index of the top frame, -1 between two trees
  scratch,    \* scratch of visibility: the files seen so far
  processing, \* index (from 0) of the entry of scratch being expanded
  edge,       \* position (from 1) of the import of that entry to look at
  visible,    \* files[i]->visible
  items       \* the file order built so far

inputs == <<path, imports>>
search == <<color, stack, top>>
seeing == <<scratch, processing, edge, visible>>
vars   == <<pc, inputs, resolved, checked, error, failed, outer, search, seeing, items>>

Frame == [file : Idx, next : Nat]
White == [f \in Idx |-> "white"]

Init ==
  /\ pc = "link"
  /\ path \in SourcePaths
  /\ imports \in [Idx -> ImportLists]
  /\ resolved = [f \in Idx |-> <<>>]
  /\ checked = FALSE
  /\ error = "OK"
  /\ failed = 0
  /\ outer = 0
  /\ color = White
  /\ stack = [p \in Idx |-> [file |-> p, next |-> 0]]  \* never read before it is written
  /\ top = -1
  /\ scratch = <<>>
  /\ processing = 0
  /\ edge = 1
  /\ visible = [f \in Idx |-> <<>>]
  /\ items = <<>>

Fail(code, f) == pc' = "failed" /\ error' = code /\ failed' = f

-----------------------------------------------------------------------------
(* gremlind_link_imports: a file's imports are looked up in order, and the *)
(* first path no source has ends the pass with what came before it linked. *)
Found(k) == Named(path, imports[outer][k].path) # {}
Linked(n) == [k \in 1..n |-> Lookup(path, imports[outer][k].path)]

LinkFile ==
  /\ pc = "link" /\ outer < N
  /\ \A k \in DOMAIN imports[outer] : Found(k)
  /\ resolved' = [resolved EXCEPT ![outer] = Linked(Len(imports[outer]))]
  /\ outer' = outer + 1
  /\ UNCHANGED <<pc, inputs, checked, error, failed, search, seeing, items>>

LinkFailsNamingImport ==  \* mutant: reports the import's index, not the file's
  /\ pc = "link" /\ outer < N
  /\ \E k \in DOMAIN imports[outer] :
       /\ ~Found(k)
       /\ \A j \in 1..(k - 1) : Found(j)
       /\ resolved' = [resolved EXCEPT ![outer] = Linked(k - 1)]
       /\ Fail("IMPORT_TARGET_NOT_FOUND", k - 1)
  /\ UNCHANGED <<inputs, checked, outer, search, seeing, items>>

LinkFails ==
  /\ pc = "link" /\ outer < N
  /\ \E k \in DOMAIN imports[outer] :
       /\ ~Found(k)
       /\ \A j \in 1..(k - 1) : Found(j)
       /\ resolved' = [resolved EXCEPT ![outer] = Linked(k - 1)]
  /\ Fail("IMPORT_TARGET_NOT_FOUND", outer)
  /\ UNCHANGED <<inputs, checked, outer, search, seeing, items>>

StartPass(p) == pc' = p /\ outer' = 0

(* The caller may go on to visibility without the cycle check.             *)
LinkDone ==
  /\ pc = "link" /\ outer = N
  /\ \E p \in {"cycles", "visibility"} : StartPass(p)
  /\ UNCHANGED <<inputs, resolved, checked, error, failed, search, seeing, items>>

-----------------------------------------------------------------------------
(* What the two searches share: take the next white root, take the next    *)
(* import of the top frame, push a frame, retire the top frame.            *)
Searching == pc \in {"cycles", "order"}

TopFile == stack[top].file
Pending == stack[top].next < Len(resolved[TopFile])
Child   == resolved[TopFile][stack[top].next + 1]

NewFrame(f) == [file |-> f, next |-> 0]

SkipRoot ==
  /\ Searching /\ top = -1 /\ outer < N
  /\ color[outer] # "white"
  /\ outer' = outer + 1
  /\ UNCHANGED <<pc, inputs, resolved, checked, error, failed, search, seeing, items>>

StartTree ==
  /\ Searching /\ top = -1 /\ outer < N
  /\ color[outer] = "white"
  /\ top' = 0
  /\ stack' = [stack EXCEPT ![0] = NewFrame(outer)]
  /\ color' = [color EXCEPT ![outer] = "gray"]
  /\ UNCHANGED <<pc, inputs, resolved, checked, error, failed, outer, seeing, items>>

PushUncoloured ==  \* mutant: the pushed file stays white
  /\ Searching /\ top >= 0 /\ Pending
  /\ color[Child] = "white"
  /\ top' = top + 1
  /\ stack' = [stack EXCEPT ![top].next = @ + 1, ![top + 1] = NewFrame(Child)]
  /\ UNCHANGED <<pc, inputs, resolved, checked, error, failed, outer, color, seeing, items>>

Push ==
  /\ Searching /\ top >= 0 /\ Pending
  /\ color[Child] = "white"
  /\ top' = top + 1
  /\ stack' = [stack EXCEPT ![top].next = @ + 1, ![top + 1] = NewFrame(Child)]
  /\ color' = [color EXCEPT ![Child] = "gray"]
  /\ UNCHANGED <<pc, inputs, resolved, checked, error, failed, outer, seeing, items>>

PassOverInPlace ==  \* mutant: the frame's next index is not advanced
  UNCHANGED <<inputs, resolved, checked, outer, search, seeing, items>>

PassOver ==
  /\ stack' = [stack EXCEPT ![top].next = @ + 1]
  /\ UNCHANGED <<inputs, resolved, checked, outer, color, top, seeing, items>>

Retire ==
  /\ Searching /\ top >= 0 /\ ~Pending
  /\ color' = [color EXCEPT ![TopFile] = "black"]
  /\ top' = top - 1
  /\ outer' = IF top = 0 THEN outer + 1 ELSE outer   \* break leaves the tree
  /\ UNCHANGED <<pc, inputs, resolved, checked, error, failed, stack, seeing>>

(* gremlind_check_no_cycles: a gray import is on the stack, hence a cycle. *)
CheckRetire == pc = "cycles" /\ Retire /\ UNCHANGED items

CheckSkip ==
  /\ pc = "cycles" /\ top >= 0 /\ Pending
  /\ color[Child] = "black"
  /\ PassOver
  /\ UNCHANGED <<pc, error, failed>>

CheckCycleAnyVisited ==  \* mutant: takes every visited import for a cycle
  /\ pc = "cycles" /\ top >= 0 /\ Pending
  /\ color[Child] # "white"
  /\ PassOver
  /\ Fail("CIRCULAR_IMPORT", Child)

CheckCycle ==
  /\ pc = "cycles" /\ top >= 0 /\ Pending
  /\ color[Child] = "gray"
  /\ PassOver
  /\ Fail("CIRCULAR_IMPORT", Child)

CheckDone ==
  /\ pc = "cycles" /\ top = -1 /\ outer = N
  /\ checked' = TRUE
  /\ StartPass("visibility")
  /\ UNCHANGED <<inputs, resolved, error, failed, search, seeing, items>>

(* gremlind_topo_sort_files: the same walk without a verdict; a retired    *)
(* file goes to the end of the list.                                       *)
OrderRetireReversed ==  \* mutant: lists a file before what it imports
  pc = "order" /\ Retire /\ items' = <<TopFile>> \o items

OrderRetire == pc = "order" /\ Retire /\ items' = Append(items, TopFile)

OrderSkip ==
  /\ pc = "order" /\ top >= 0 /\ Pending
  /\ color[Child] # "white"
  /\ PassOver
  /\ UNCHANGED <<pc, error, failed>>

OrderDone ==
  /\ pc = "order" /\ top = -1 /\ outer = N
  /\ pc' = "done"
  /\ UNCHANGED <<inputs, resolved, checked, error, failed, outer, search, seeing, items>>

-----------------------------------------------------------------------------
(* gremlind_compute_visibility: file `outer` first, then its imports, then *)
(* breadth first the public imports of each entry but the first.           *)
Seeing == pc = "visibility" /\ outer < N

Holds(s, f) == \E i \in DOMAIN s : s[i] = f
See(f) == scratch' = IF Holds(scratch, f) THEN scratch ELSE Append(scratch, f)

Current == scratch[processing + 1]

SeeSelf ==
  /\ Seeing /\ scratch = <<>>
  /\ scratch' = <<outer>>
  /\ processing' = 0
  /\ edge' = 1
  /\ UNCHANGED <<pc, inputs, resolved, checked, error, failed, outer, search, visible, items>>

SeeDirect ==
  /\ Seeing /\ scratch # <<>> /\ processing = 0
  /\ edge <= Len(resolved[outer])
  /\ See(resolved[outer][edge])
  /\ edge' = edge + 1
  /\ UNCHANGED <<pc, inputs, resolved, checked, error, failed, outer, search, processing, visible, items>>

SeePublicAll ==  \* mutant: follows private imports as well
  /\ Seeing /\ processing > 0 /\ processing < Len(scratch)
  /\ edge <= Len(resolved[Current])
  /\ See(resolved[Current][edge])
  /\ edge' = edge + 1
  /\ UNCHANGED <<pc, inputs, resolved, checked, error, failed, outer, search, processing, visible, items>>

SeePublic ==
  /\ Seeing /\ processing > 0 /\ processing < Len(scratch)
  /\ edge <= Len(resolved[Current])
  /\ IF imports[Current][edge].public
       THEN See(resolved[Current][edge])
       ELSE UNCHANGED scratch
  /\ edge' = edge + 1
  /\ UNCHANGED <<pc, inputs, resolved, checked, error, failed, outer, search, processing, visible, items>>

NextEntryFromZero ==  \* mutant: the next entry's imports start before the first
  /\ Seeing /\ scratch # <<>> /\ processing < Len(scratch)
  /\ edge > Len(resolved[Current])
  /\ processing' = processing + 1
  /\ edge' = 0
  /\ UNCHANGED <<pc, inputs, resolved, checked, error, failed, outer, search, scratch, visible, items>>

NextEntry ==
  /\ Seeing /\ scratch # <<>> /\ processing < Len(scratch)
  /\ edge > Len(resolved[Current])
  /\ processing' = processing + 1
  /\ edge' = 1
  /\ UNCHANGED <<pc, inputs, resolved, checked, error, failed, outer, search, scratch, visible, items>>

(* The copy into an array of its own; the next file starts from nothing.   *)
SeeDone ==
  /\ Seeing /\ scratch # <<>> /\ processing = Len(scratch)
  /\ visible' = [visible EXCEPT ![outer] = scratch]
  /\ scratch' = <<>>
  /\ outer' = outer + 1
  /\ UNCHANGED <<pc, inputs, resolved, checked, error, failed, search, processing, edge, items>>

VisibilityDone ==
  /\ pc = "visibility" /\ outer = N
  /\ StartPass("order")
  /\ color' = White
  /\ UNCHANGED <<inputs, resolved, checked, error, failed, stack, top, seeing, items>>

-----------------------------------------------------------------------------
Next ==
  \/ LinkFile \/ LinkFails \/ LinkDone
  \/ SkipRoot \/ StartTree \/ Push
  \/ CheckRetire \/ CheckSkip \/ CheckCycle \/ CheckDone
  \/ OrderRetire \/ OrderSkip \/ OrderDone
  \/ SeeSelf \/ SeeDirect \/ SeePublic \/ NextEntry \/ SeeDone \/ VisibilityDone

(* A single thread runs the passes to their end: some step is taken as     *)
(* long as one can be.                                                     *)
Spec == Init /\ [][Next]_vars /\ WF_vars(Next)

-----------------------------------------------------------------------------
(* Types of the variables, scratch arrays included.                        *)
TypeOK ==
  /\ pc \in {"link", "cycles", "visibility", "order", "done", "failed"}
  /\ path \in SourcePaths
  /\ imports \in [Idx -> ImportLists]
  /\ resolved \in [Idx -> Seq(Idx)]
  /\ checked \in BOOLEAN
  /\ error \in {"OK", "IMPORT_TARGET_NOT_FOUND", "CIRCULAR_IMPORT"}
  /\ failed \in Nat
  /\ outer \in 0..N
  /\ color \in [Idx -> {"white", "gray", "black"}]
  /\ stack \in [Idx -> Frame]
  /\ top \in Int /\ top >= -1
  /\ scratch \in Seq(Idx)
  /\ processing \in Nat
  /\ edge \in Nat \ {0}
  /\ visible \in [Idx -> Seq(Idx)]
  /\ items \in Seq(Idx)

(* The searches and visibility write into arrays of n_sources entries from *)
(* the arena without a bounds check: no write may fall outside them,       *)
(* whatever the graph, cyclic ones included.                               *)
ScratchFits ==
  /\ top < N
  /\ Len(scratch) <= N
  /\ Len(items) <= N

(* gremlind_check_no_cycles says CIRCULAR_IMPORT only of a file that is on *)
(* a cycle ("sets ctx->failed_source_idx to one file on the cycle"), and   *)
(* once it has said OK no file is on one, so that the later passes may     *)
(* rely on it.                                                             *)
CycleVerdict ==
  /\ error = "CIRCULAR_IMPORT" => failed \in Idx /\ OnCycle(resolved, failed)
  /\ checked => Acyclic(resolved)

(* gremlind_compute_visibility: a file already done sees exactly itself,   *)
(* its direct imports and what those reach through public imports, each    *)
(* once, on cyclic graphs too.                                             *)
SeesExactly(f) ==
  /\ Distinct(visible[f])
  /\ {visible[f][i] : i \in DOMAIN visible[f]} = VisibleFrom(imports, resolved, f)

VisibleExact ==
  \A f \in Idx :
    pc \in {"order", "done"} \/ (pc = "visibility" /\ f < outer) => SeesExactly(f)

(* gremlind_topo_sort_files lists no file twice, in the end lists every    *)
(* file, and lists a file after each of its imports except where a cycle   *)
(* leads back from the import: after a cycle check that leaves none out.   *)
FileOrder ==
  /\ Distinct(items)
  /\ DependencyOrder(resolved, items)
  /\ pc = "done" => \A f \in Idx : Holds(items, f)

(* The passes implement their contract: seen from outside, linking, the    *)
(* verdict, each file's visibility and the order appear in one step each,  *)
(* determined by the import graph.  The refinement mapping shows the order *)
(* when it is complete and hides the searches and the linked prefixes.     *)
Contract == INSTANCE ImportContract
              WITH phase <- pc, items <- IF pc = "done" THEN items ELSE <<>>

ImplementsContract == Contract!Spec

(* Every pass ends, on cyclic graphs too.                                  *)
Termination == <>(pc \in {"done", "failed"})
=============================================================================
