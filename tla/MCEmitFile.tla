----------------------------- MODULE MCEmitFile -----------------------------
(***************************************************************************)
(* Three messages with at most two fields each.  A field is of any message *)
(* of the file, a map of the last one, or none of these: every shape of    *)
(* recursion three messages can have, with the kind of reference varied.   *)
(***************************************************************************)
EXTENDS EmitFile

MCFields ==
  {[kind |-> "message", to |-> m] : m \in Idx}
  \cup {[kind |-> "map", to |-> N - 1], [kind |-> "other"]}

MCFieldLists == {<<>>} \cup {<<f>> : f \in MCFields}
                       \cup {<<f, g>> : f \in MCFields, g \in MCFields}
=============================================================================
