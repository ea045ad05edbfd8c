--------------------------- MODULE MCImportPasses ---------------------------
(***************************************************************************)
(* Three sources.  Import lists: none, one import of either kind, two      *)
(* imports of different paths; one list names a path no source has.  The   *)
(* second assignment of paths lets the last source repeat the first's.     *)
(***************************************************************************)
EXTENDS ImportPasses, TLC

CONSTANTS p0, p1, p2, nowhere

MCPath == {p0, p1, p2, nowhere}
Known  == MCPath \ {nowhere}

MCSourcePaths == {(0 :> p0 @@ 1 :> p1 @@ 2 :> p2), (0 :> p0 @@ 1 :> p1 @@ 2 :> p0)}

Imp(p, pub) == [path |-> p, public |-> pub]

Pairs == {l \in Known \X Known : l[1] # l[2]} \cup {<<p0, p0>>}

MCImportLists ==
  {<<>>, <<Imp(nowhere, FALSE)>>}
  \cup {<<Imp(p, b)>> : p \in Known, b \in BOOLEAN}
  \cup {<<Imp(l[1], b), Imp(l[2], ~b)>> : l \in Pairs, b \in BOOLEAN}
=============================================================================
