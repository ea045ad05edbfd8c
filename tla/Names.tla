-------------------------------- MODULE Names --------------------------------
(***************************************************************************)
(* From built files to resolved types (descriptors/src/name.c, extend.c    *)
(* and resolve.c): the scoped names of messages and enums, the fields that *)
(* `extend` adds to messages, and what every field's type refers to, in    *)
(* the order run_pipeline calls these passes.                              *)
(*                                                                         *)
(* A file is what the builder and the import passes leave: its package,    *)
(* the files visible to it in order, how it packs, and its text as a       *)
(* sequence of entries, in which "message" opens a body that "end" closes. *)
(* A name is a sequence of segments, and a reference one that begins with  *)
(* an empty segment when it is absolute.  A type is one reference, or the  *)
(* two of a map.                                                           *)
(***************************************************************************)
EXTENDS Naturals, Sequences, FiniteSetsExt, SequencesExt

CONSTANT Schemas              \* the sources of a run

Segment   == STRING
Reference == Seq(Segment) \ {<<>>}
Type      == [1..1 -> Reference] \cup [1..2 -> Reference]

Entry == [is : {"message", "enum"}, name : Segment] \cup [is : {"end"}]
           \cup [is : {"field"}, type : Type]
           \cup [is : {"extend"}, target : Reference, fields : Seq(Type)]

SourceOf(n) == [package : Seq(Segment), visible : Seq(1..n), text : Seq(Entry), packing : STRING]

ASSUME SchemasAssumption == \A s \in Schemas : s # <<>> /\ s \in Seq(SourceOf(Len(s)))

VARIABLES
  files,                      \* the sources
  names,                      \* scoped_name of the messages and enums of each file
  fields,                     \* the fields of each message
  pass, i,                    \* the pass under way and its file
  at, stack, nested,          \* the walk over a file: cursor, recursion, nested_msg_idx
  m, fi,                      \* resolve_type_refs: message and field
  error, failed_source_idx

walk == <<at, stack, nested>>
vars == <<files, names, fields, pass, i, walk, m, fi, error, failed_source_idx>>

None == 0
Builtin == {<<"int32">>, <<"string">>}
Text(f) == files[f].text

-----------------------------------------------------------------------------
(***************************************************************************)
(* What the builder leaves: messages in the order they open, enums after   *)
(* them, each with the message around it.                                  *)
(***************************************************************************)
InOrder(S) ==
  CHOOSE s \in [1..Cardinality(S) -> S] :
    \A j, k \in 1..Cardinality(S) : j < k => s[j] < s[k]

Opening(text, kind) == InOrder({p \in DOMAIN text : text[p].is = kind})

Count(text, kind, a, b) == Cardinality({q \in a..b : text[q].is = kind})

\* The messages whose bodies hold position p, by where they open.
OpenAt(text, p) ==
  {a \in 1..(p - 1) :
     /\ text[a].is = "message"
     /\ \A b \in a..(p - 1) : Count(text, "message", a, b) > Count(text, "end", a, b)}

\* The innermost of them.
Around(text, p) == Max(OpenAt(text, p) \cup {None})

Parent(text, p) ==
  IF Around(text, p) = None THEN None
  ELSE CHOOSE k \in DOMAIN Opening(text, "message") :
         Opening(text, "message")[k] = Around(text, p)

OwnFields(f, text, p) ==
  LET own == InOrder({q \in DOMAIN text : text[q].is = "field" /\ Around(text, q) = p})
  IN  [k \in DOMAIN own |->
         [type |-> text[own[k]].type, parsed |-> <<f, own[k], 1>>, refs |-> <<>>,
          origin_file |-> None, origin_scope |-> <<>>, packing |-> files[f].packing]]

-----------------------------------------------------------------------------
(***************************************************************************)
(* Names.                                                                  *)
(***************************************************************************)
Absolute(ref) == Head(ref) = ""
Segments(ref) == IF Absolute(ref) THEN Tail(ref) ELSE ref

Declared(f) ==
  [k \in DOMAIN names[f].messages |-> [kind |-> "message", file |-> f, at |-> k,
                                       name |-> names[f].messages[k]]]
    \o [k \in DOMAIN names[f].enums |-> [kind |-> "enum", file |-> f, at |-> k,
                                         name |-> names[f].enums[k]]]

NotFound == [kind |-> "none", file |-> None, at |-> None, name |-> <<>>]

Hits(name, f, kinds) ==
  {k \in DOMAIN Declared(f) : Declared(f)[k].name = name /\ Declared(f)[k].kind \in kinds}

\* The first of these kinds with this name, in the order of the visible files.
LookupInVisible(name, f, kinds) ==
  LET visible == files[f].visible
      have == {k \in DOMAIN visible : Hits(name, visible[k], kinds) # {}}
      g == visible[Min(have)]
  IN  IF have = {} THEN NotFound ELSE Declared(g)[Min(Hits(name, g, kinds))]

\* mutant: the scope itself is not tried, only those around it.
ScopeWalkOutside(ref, scope, f, kinds) ==
  LET at_depth == [k \in 0..Len(scope) |->
                     LookupInVisible(SubSeq(scope, 1, k) \o Segments(ref), f, kinds)]
      hits == {k \in DOMAIN at_depth : k < Len(scope) /\ at_depth[k] # NotFound}
  IN  IF Absolute(ref) THEN LookupInVisible(Segments(ref), f, kinds)
      ELSE IF hits = {} THEN NotFound ELSE at_depth[Max(hits)]

\* The deepest scope in which the reference names something.
ScopeWalk(ref, scope, f, kinds) ==
  LET at_depth == [k \in 0..Len(scope) |->
                     LookupInVisible(SubSeq(scope, 1, k) \o Segments(ref), f, kinds)]
      hits == {k \in DOMAIN at_depth : at_depth[k] # NotFound}
  IN  IF Absolute(ref) THEN LookupInVisible(Segments(ref), f, kinds)
      ELSE IF hits = {} THEN NotFound ELSE at_depth[Max(hits)]

ResolveNamedType(ref, scope, f) ==
  IF ref \in Builtin THEN [kind |-> "builtin", file |-> None, at |-> None, name |-> ref]
  ELSE ScopeWalk(ref, scope, f, {"message", "enum"})

Init ==
  /\ files \in Schemas
  /\ names = [f \in DOMAIN files |->
                [messages |-> [k \in DOMAIN Opening(Text(f), "message") |-> <<>>],
                 enums |-> [k \in DOMAIN Opening(Text(f), "enum") |-> <<>>]]]
  /\ fields = [f \in DOMAIN files |->
                 [k \in DOMAIN names[f].messages |->
                    OwnFields(f, Text(f), Opening(Text(f), "message")[k])]]
  /\ pass = "names" /\ i = 1
  /\ at = 1 /\ stack = <<>> /\ nested = 0
  /\ m = 1 /\ fi = 1
  /\ error = "none" /\ failed_source_idx = None

Fail(e) == error' = e
FailAt(e) == error' = e /\ failed_source_idx' = i

-----------------------------------------------------------------------------
(***************************************************************************)
(* gremlind_compute_scoped_names, file by file: messages, then enums.      *)
(***************************************************************************)
\* mutant: a nested message is named as if it were not.
InPackage(p) == files[i].package

\* The name a declaration at p is put under.
Prefix(p) ==
  IF Parent(Text(i), p) = None THEN files[i].package
  ELSE names[i].messages[Parent(Text(i), p)]

NameOf(kind) ==
  LET p == Opening(Text(i), kind)[m] IN Append(Prefix(p), Text(i)[p].name)

NameMessage ==
  /\ pass = "names" /\ m <= Len(names[i].messages)
  /\ names' = [names EXCEPT ![i].messages[m] = NameOf("message")]
  /\ m' = m + 1
  /\ UNCHANGED <<files, fields, pass, i, walk, fi, error, failed_source_idx>>

MessagesNamed ==
  /\ pass = "names" /\ m > Len(names[i].messages)
  /\ pass' = "enums" /\ m' = 1
  /\ UNCHANGED <<files, names, fields, i, walk, fi, error, failed_source_idx>>

NameEnum ==
  /\ pass = "enums" /\ m <= Len(names[i].enums)
  /\ names' = [names EXCEPT ![i].enums[m] = NameOf("enum")]
  /\ m' = m + 1
  /\ UNCHANGED <<files, fields, pass, i, walk, fi, error, failed_source_idx>>

FileNamed ==
  /\ pass = "enums" /\ m > Len(names[i].enums)
  /\ m' = 1
  /\ IF i < Len(files) THEN pass' = "names" /\ i' = i + 1
                       ELSE pass' = "extends" /\ i' = 1
  /\ UNCHANGED <<files, names, fields, walk, fi, error, failed_source_idx>>

-----------------------------------------------------------------------------
(***************************************************************************)
(* gremlind_propagate_extends: each file's text is walked again, with a    *)
(* cursor over its messages that takes one at each opening.  The build     *)
(* accepted the text, so the walk meets no parse error.                    *)
(***************************************************************************)
Here == Text(i)[at]
Walking(kinds) == pass = "extends" /\ at <= Len(Text(i)) /\ Here.is \in kinds

EnterMessage ==
  /\ Walking({"message"})
  /\ nested' = nested + 1
  /\ stack' = Append(stack, nested + 1)
  /\ at' = at + 1
  /\ UNCHANGED <<files, names, fields, pass, i, m, fi, error, failed_source_idx>>

LeaveMessage ==
  /\ Walking({"end"})
  /\ stack' = SubSeq(stack, 1, Len(stack) - 1)
  /\ at' = at + 1
  /\ UNCHANGED <<files, names, fields, pass, i, nested, m, fi, error, failed_source_idx>>

PassOver ==
  /\ Walking({"enum", "field"})
  /\ at' = at + 1
  /\ UNCHANGED <<files, names, fields, pass, i, stack, nested, m, fi, error,
                 failed_source_idx>>

\* mutant: the walk takes the message it entered last for the one it is in.
LastEntered == IF stack = <<>> THEN files[i].package ELSE names[i].messages[nested]

\* enclosing: the message around the extend, or the package.
Scope == IF stack = <<>> THEN files[i].package ELSE names[i].messages[Last(stack)]

\* resolve_extend_target
Target == ScopeWalk(Here.target, Scope, i, {"message"})

Added == [k \in DOMAIN Here.fields |->
            [type |-> Here.fields[k], parsed |-> <<i, at, k>>, refs |-> <<>>,
             origin_file |-> i, origin_scope |-> Scope, packing |-> files[i].packing]]

\* The fields of the target in a new array, then the new ones.
Merged(old) == old \o Added

ApplyExtend ==
  /\ Walking({"extend"})
  /\ Target # NotFound
  /\ fields' = [fields EXCEPT ![Target.file][Target.at] = Merged(@)]
  /\ at' = at + 1
  /\ UNCHANGED <<files, names, pass, i, stack, nested, m, fi, error, failed_source_idx>>

ExtendNothing ==
  /\ Walking({"extend"})
  /\ Target = NotFound
  /\ FailAt("extend source not found")
  /\ pass' = "failed"
  /\ UNCHANGED <<files, names, fields, i, walk, m, fi>>

\* mutant: the cursor over messages goes on from one file to the next.
RewoundText == at' = 1 /\ stack' = <<>> /\ UNCHANGED nested

Rewound == at' = 1 /\ stack' = <<>> /\ nested' = 0

WalkDone ==
  /\ pass = "extends" /\ at > Len(Text(i))
  /\ Rewound
  /\ IF i < Len(files) THEN i' = i + 1 /\ UNCHANGED pass ELSE pass' = "refs" /\ i' = 1
  /\ UNCHANGED <<files, names, fields, m, fi, error, failed_source_idx>>

-----------------------------------------------------------------------------
(***************************************************************************)
(* gremlind_resolve_type_refs: field by field, a map's key and value alike.*)
(***************************************************************************)
Field == fields[i][m][fi]
AtField == pass = "refs" /\ m <= Len(fields[i]) /\ fi <= Len(fields[i][m])

\* mutant: an extension's field is resolved from where its target is.
RefsFromTarget ==
  [k \in DOMAIN Field.type |-> ResolveNamedType(Field.type[k], names[i].messages[m], i)]

\* An extension's field is resolved from where it was written.
Refs ==
  [k \in DOMAIN Field.type |->
     IF Field.origin_file # None
     THEN ResolveNamedType(Field.type[k], Field.origin_scope, Field.origin_file)
     ELSE ResolveNamedType(Field.type[k], names[i].messages[m], i)]

ResolveField ==
  /\ AtField
  /\ NotFound \notin Range(Refs)
  /\ fields' = [fields EXCEPT ![i][m][fi].refs = Refs]
  /\ fi' = fi + 1
  /\ UNCHANGED <<files, names, pass, i, walk, m, error, failed_source_idx>>

TypeNotFound ==
  /\ AtField
  /\ NotFound \in Range(Refs)
  /\ FailAt("type not found")
  /\ pass' = "failed"
  /\ UNCHANGED <<files, names, fields, i, walk, m, fi>>

MessageResolved ==
  /\ pass = "refs" /\ m <= Len(fields[i]) /\ fi > Len(fields[i][m])
  /\ m' = m + 1 /\ fi' = 1
  /\ UNCHANGED <<files, names, fields, pass, i, walk, error, failed_source_idx>>

FileResolved ==
  /\ pass = "refs" /\ m > Len(fields[i])
  /\ m' = 1
  /\ IF i < Len(files) THEN i' = i + 1 /\ UNCHANGED pass ELSE pass' = "done" /\ i' = 1
  /\ UNCHANGED <<files, names, fields, walk, fi, error, failed_source_idx>>

Allocates ==
  \/ pass = "names" /\ m <= Len(names[i].messages)
  \/ pass = "enums" /\ m <= Len(names[i].enums)
  \/ pass = "extends" /\ at = 1
  \/ Walking({"extend"})
  \/ AtField

\* compute_scoped_names has no context to report to.
OutOfMemory ==
  /\ Allocates
  /\ IF pass \in {"names", "enums"} THEN Fail("out of memory") /\ UNCHANGED failed_source_idx
                                    ELSE FailAt("out of memory")
  /\ pass' = "failed"
  /\ UNCHANGED <<files, names, fields, i, walk, m, fi>>

Next ==
  \/ NameMessage \/ MessagesNamed \/ NameEnum \/ FileNamed
  \/ EnterMessage \/ LeaveMessage \/ PassOver \/ ApplyExtend \/ ExtendNothing \/ WalkDone
  \/ ResolveField \/ TypeNotFound \/ MessageResolved \/ FileResolved
  \/ OutOfMemory

Spec == Init /\ [][Next]_vars

-----------------------------------------------------------------------------
(***************************************************************************)
(* What the passes should leave, read from the texts alone.                *)
(***************************************************************************)
\* The full name of the scope that position p of file f is in.
ScopeAt(f, p) ==
  LET around == InOrder(OpenAt(Text(f), p))
  IN  files[f].package \o [k \in DOMAIN around |-> Text(f)[around[k]].name]

FullName(f, p) == Append(ScopeAt(f, p), Text(f)[p].name)

\* The names of these kinds that file f sees.
Seen(f, kinds) ==
  UNION {{FullName(g, p) : p \in {q \in DOMAIN Text(g) : Text(g)[q].is \in kinds}}
           : g \in Range(files[f].visible)}

\* What a reference written at p may mean, the deepest scope last.
Meanings(ref, f, p) ==
  IF Absolute(ref) THEN <<Segments(ref)>>
  ELSE [k \in 1..(Len(ScopeAt(f, p)) + 1) |-> SubSeq(ScopeAt(f, p), 1, k - 1) \o ref]

Means(ref, f, p, kinds, name) ==
  LET all == Meanings(ref, f, p)
  IN  \E k \in DOMAIN all : /\ all[k] = name
                            /\ name \in Seen(f, kinds)
                            /\ \A j \in (k + 1)..Len(all) : all[j] \notin Seen(f, kinds)

MeansNothing(ref, f, p, kinds) ==
  Range(Meanings(ref, f, p)) \cap Seen(f, kinds) = {}

\* Every field, by file, message and position.
AllFields ==
  UNION {UNION {{<<f, k, x>> : x \in DOMAIN fields[f][k]} : k \in DOMAIN fields[f]}
           : f \in DOMAIN fields}

FieldAt(a) == fields[a[1]][a[2]][a[3]]
LastField(a) == fields[a[1]][a[2]][a[3] - 1]

\* The variables keep their types; the walk never takes a message past the
\* file's last one, and stands only in messages it has taken.
TypeOK ==
  /\ pass \in {"names", "enums", "extends", "refs", "done", "failed"}
  /\ i \in DOMAIN files
  /\ nested \in 0..Len(names[i].messages)
  /\ at \in 1..(Len(Text(i)) + 1)
  /\ Range(stack) \subseteq 1..nested
  /\ failed_source_idx # None => failed_source_idx \in DOMAIN files

\* compute_scoped_names gives every message and enum the names of the messages
\* around it, outermost first, after its package (name.c:135-170).
NamesArePaths ==
  pass \in {"extends", "refs", "done"} =>
    \A f \in DOMAIN files :
      LET messages == Opening(Text(f), "message")
          enums == Opening(Text(f), "enum")
      IN  names[f] = [messages |-> [k \in DOMAIN messages |-> FullName(f, messages[k])],
                      enums |-> [k \in DOMAIN enums |-> FullName(f, enums[k])]]

Before(a, b) ==
  \/ a[1] < b[1]
  \/ a[1] = b[1] /\ a[2] < b[2]
  \/ a[1] = b[1] /\ a[2] = b[2] /\ a[3] < b[3]

\* After propagate_extends a message has its own fields, in their order, and
\* then those of every extend that means it, in the order of the sources; each
\* of these carries the file and the scope it was written in and packs as that
\* file does; and no extend's field is missing (extend.c:187-219).
ExtensionFields ==
  pass \in {"refs", "done"} =>
    /\ \A a \in AllFields :
         LET fd == FieldAt(a)
             src == Text(fd.parsed[1])[fd.parsed[2]]
         IN  /\ fd.packing = files[fd.parsed[1]].packing
             /\ fd.origin_file = None =>
                  /\ src.is = "field"
                  /\ a[3] > 1 => LastField(a).origin_file = None
                  /\ a[3] > 1 => Before(LastField(a).parsed, fd.parsed)
             /\ fd.origin_file # None =>
                  /\ fd.origin_file = fd.parsed[1]
                  /\ fd.origin_scope = ScopeAt(fd.parsed[1], fd.parsed[2])
                  /\ Means(src.target, fd.parsed[1], fd.parsed[2], {"message"},
                           names[a[1]].messages[a[2]])
                  /\ a[3] > 1 /\ LastField(a).origin_file # None =>
                       Before(LastField(a).parsed, fd.parsed)
    /\ \A f \in DOMAIN files : \A p \in DOMAIN Text(f) :
         Text(f)[p].is = "extend" =>
           \A n \in DOMAIN Text(f)[p].fields :
             \E a \in AllFields : \A b \in AllFields :
               FieldAt(b).parsed = <<f, p, n>> <=> b = a

\* Whatever the order of files and messages, a resolved reference names the
\* declaration of the deepest scope around the place it was written at, among
\* those its file sees; a scalar is never looked up (resolve.c:315-359).
ResolvedInScope ==
  pass = "done" =>
    \A a \in AllFields :
      LET fd == FieldAt(a)
      IN  /\ Len(fd.refs) = Len(fd.type)
          /\ \A t \in DOMAIN fd.type :
               IF fd.type[t] \in Builtin THEN fd.refs[t].kind = "builtin"
               ELSE /\ fd.refs[t].file \in Range(files[fd.parsed[1]].visible)
                    /\ Means(fd.type[t], fd.parsed[1], fd.parsed[2], {"message", "enum"},
                             fd.refs[t].name)

\* A failure is one: no message the file sees is meant by the extend, or no
\* declaration by one of the field's references; and the source reported is the
\* one that has the extend, or the message the field is in (extend.c:343-348,
\* resolve.c:433-437).
FailureHasCause ==
  /\ error = "extend source not found" =>
       LET extend == Text(failed_source_idx)[at]
       IN  extend.is = "extend" /\ MeansNothing(extend.target, failed_source_idx, at, {"message"})
  /\ error = "type not found" =>
       LET fd == fields[failed_source_idx][m][fi]
       IN  \E t \in DOMAIN fd.type :
             /\ fd.type[t] \notin Builtin
             /\ MeansNothing(fd.type[t], fd.parsed[1], fd.parsed[2], {"message", "enum"})

\* descriptors/include/gremlind/nodes.h:90, "key always a builtin scalar".
MapKeysScalar ==
  \A a \in AllFields :
    Len(FieldAt(a).refs) = 2 => FieldAt(a).refs[1].kind = "builtin"
=============================================================================
