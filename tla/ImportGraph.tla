---------------------------- MODULE ImportGraph ----------------------------
(***************************************************************************)
(* The import graph of a set of .proto sources, as the resolver of         *)
(* descriptors/src/resolve.c sees it: what a source imports, which file an *)
(* import path names, and the notions its passes are judged by (reaching a *)
(* file, lying on a cycle, seeing a file).                                 *)
(*                                                                         *)
(* Reaching a file is defined by closed sets: g is reached from f when     *)
(* every set that holds f and is closed under imports holds g.  That is    *)
(* the reflexive transitive closure, without a recursion on path length.   *)
(***************************************************************************)
EXTENDS Integers, Sequences

CONSTANTS
  N,            \* ctx->n_sources
  Path,         \* logical paths, of sources and in import statements
  SourcePaths,  \* the assignments of a path to each source under study
  ImportLists   \* the import lists a source may have

Idx    == 0..(N - 1)                         \* indices of ctx->sources, ctx->files
Import == [path : Path, public : BOOLEAN]

ASSUME NAssumption      == N \in Nat
ASSUME InputsAssumption == /\ SourcePaths \subseteq [Idx -> Path]
                           /\ ImportLists \subseteq Seq(Import)

-----------------------------------------------------------------------------
(* lookup: a linear scan, so the first source with the path wins and a     *)
(* later source with the same path is never the target of an import.       *)
Named(paths, p)  == {i \in Idx : paths[i] = p}
Lookup(paths, p) == CHOOSE i \in Named(paths, p) : \A j \in Named(paths, p) : i <= j

(* What f imports; `to` gives, for every file, its linked imports in order *)
(* (imports.items[k].resolved).                                            *)
Targets(to, f) == {to[f][k] : k \in DOMAIN to[f]}
Edge(to, f, g) == g \in Targets(to, f)

PublicTargets(imports, to, f) ==
  {to[f][k] : k \in {j \in DOMAIN to[f] : imports[f][j].public}}

-----------------------------------------------------------------------------
ClosedUnderImports(to, S) == \A f \in S : Targets(to, f) \subseteq S

Reaches(to, f, g) ==
  \A S \in SUBSET Idx : f \in S /\ ClosedUnderImports(to, S) => g \in S

OnCycle(to, f) == \E g \in Idx : Reaches(to, f, g) /\ Edge(to, g, f)
Acyclic(to)    == \A f \in Idx : ~OnCycle(to, f)

(* The sets a file sees everything of: they hold what it imports, and with *)
(* each file what that file imports publicly.                              *)
SeenTogether(imports, to, f, S) ==
  /\ Targets(to, f) \subseteq S
  /\ \A g \in S : PublicTargets(imports, to, g) \subseteq S

(* {f}, its direct imports and the public imports reached from those.      *)
VisibleFrom(imports, to, f) ==
  {f} \cup {g \in Idx : \A S \in SUBSET Idx : SeenTogether(imports, to, f, S) => g \in S}

(* A list of files without repetition in which a file comes after each of  *)
(* its imports that does not lead back to it.                              *)
Distinct(s) == \A i, j \in DOMAIN s : s[i] = s[j] => i = j

DependencyOrder(to, s) ==
  \A j \in DOMAIN s : \A g \in Targets(to, s[j]) :
    ~Reaches(to, g, s[j]) => \E i \in 1..(j - 1) : s[i] = g
=============================================================================
