--------------------------- MODULE ImportContract ---------------------------
(***************************************************************************)
(* What the import passes promise, without saying how: each pass is one    *)
(* step (visibility one per file) whose result is characterised by the     *)
(* import graph alone.  ImportPasses implements this.                      *)
(***************************************************************************)
EXTENDS ImportGraph

VARIABLES
  phase,    \* the pass to run next, or "done" / "failed"
  path, imports,
  checked, error, failed,
  visible, items

avars == <<phase, path, imports, checked, error, failed, visible, items>>

(* The graph linking builds when every path is found.                      *)
Missing(f) == \E k \in DOMAIN imports[f] : Named(path, imports[f][k].path) = {}
Graph == [f \in Idx |->
            [k \in 1..Len(imports[f]) |-> Lookup(path, imports[f][k].path)]]

Init ==
  /\ phase = "link"
  /\ path \in SourcePaths
  /\ imports \in [Idx -> ImportLists]
  /\ checked = FALSE
  /\ error = "OK"
  /\ failed = 0
  /\ visible = [f \in Idx |-> <<>>]
  /\ items = <<>>

(* The first source that imports an unknown path is reported.              *)
ReportMissing ==
  /\ phase = "link"
  /\ \E f \in Idx : /\ Missing(f)
                    /\ \A g \in 0..(f - 1) : ~Missing(g)
                    /\ failed' = f
  /\ phase' = "failed"
  /\ error' = "IMPORT_TARGET_NOT_FOUND"
  /\ UNCHANGED <<path, imports, checked, visible, items>>

Link ==
  /\ phase = "link"
  /\ \A f \in Idx : ~Missing(f)
  /\ phase' \in {"cycles", "visibility"}
  /\ UNCHANGED <<path, imports, checked, error, failed, visible, items>>

(* Some file on a cycle is reported, and only if there is one.             *)
ReportCycle ==
  /\ phase = "cycles"
  /\ \E f \in Idx : OnCycle(Graph, f) /\ failed' = f
  /\ phase' = "failed"
  /\ error' = "CIRCULAR_IMPORT"
  /\ UNCHANGED <<path, imports, checked, visible, items>>

Accept ==
  /\ phase = "cycles"
  /\ Acyclic(Graph)
  /\ checked' = TRUE
  /\ phase' = "visibility"
  /\ UNCHANGED <<path, imports, error, failed, visible, items>>

(* s lists the files of S, each once.                                      *)
Lists(s, S) == Distinct(s) /\ {s[i] : i \in DOMAIN s} = S

See(f) ==
  /\ phase = "visibility"
  /\ visible[f] = <<>>
  /\ Lists(visible'[f], VisibleFrom(imports, Graph, f))
  /\ visible' = [visible EXCEPT ![f] = visible'[f]]
  /\ UNCHANGED <<phase, path, imports, checked, error, failed, items>>

AllSeen ==
  /\ phase = "visibility"
  /\ \A f \in Idx : visible[f] # <<>>
  /\ phase' = "order"
  /\ UNCHANGED <<path, imports, checked, error, failed, visible, items>>

Order ==
  /\ phase = "order"
  /\ Lists(items', Idx)
  /\ DependencyOrder(Graph, items')
  /\ phase' = "done"
  /\ UNCHANGED <<path, imports, checked, error, failed, visible>>

Next ==
  \/ ReportMissing \/ Link
  \/ ReportCycle \/ Accept
  \/ (\E f \in Idx : See(f)) \/ AllSeen
  \/ Order

Spec == Init /\ [][Next]_avars
=============================================================================
