------------------------------ MODULE Pipeline ------------------------------
(***************************************************************************)
(* One run of gremlinc-gen over the files of its command line              *)
(* (gremlinc-gen/src/main.c, sources.c, io.c), with the names the headers  *)
(* share, which CNames makes.                                              *)
(*                                                                         *)
(*    args, load   the command line and the sources                        *)
(*    analyse      the passes of descriptors, in modules of their own      *)
(*    name         gremlinc_assign_c_names        a name for every type    *)
(*    reserve      gremlinc_reserve_public_names  the names to come        *)
(*    first        needs_first_pass               emit once or twice?      *)
(*    emit         emit_file, first only to learn each predicate's name,   *)
(*                 then, the scope rolled back, to keep                    *)
(*    write        each kept header, as soon as it is emitted              *)
(***************************************************************************)
EXTENDS CNames

CONSTANTS
  Schemas,       \* what may be on the command line: sequences of files
  Listed(_, _)   \* the order of a file's messages, as gremlind_topo_sort_messages lists them

(* What the passes leave: a field holds a message of its own file or of    *)
(* one its file sees.  (Not so for a field that an extend in another file  *)
(* brings along; such schemas are left out.)                               *)
HeldIsSeen(s, f, of) ==
  /\ of[1] \in DOMAIN s /\ of[2] \in DOMAIN s[of[1]].messages
  /\ \A seen \in SUBSET DOMAIN s :
       f \in seen /\ (\A g \in seen : \A k \in DOMAIN s[g].imports : s[g].imports[k] \in seen)
         => of[1] \in seen

IsName(n) == n \in Seq(Seq(STRING)) /\ FlattenSeq(n) # <<>>

IsList(q) == Len(q) \in Nat /\ DOMAIN q = 1..Len(q)

ASSUME SchemasAssumption ==
  \A s \in Schemas :
    /\ IsList(s) /\ Len(s) > 0
    /\ \A f \in DOMAIN s :
         /\ IsList(s[f].imports) /\ IsList(s[f].enums) /\ IsList(s[f].messages)
         /\ \A k \in DOMAIN s[f].imports : s[f].imports[k] \in DOMAIN s
         /\ \A e \in DOMAIN s[f].enums :
              IsName(s[f].enums[e].name) /\ s[f].enums[e].values \in Seq(Seq(STRING))
         /\ \A m \in DOMAIN s[f].messages :
              LET fields == s[f].messages[m].fields
              IN  /\ IsName(s[f].messages[m].name)
                  /\ IsList(fields)
                  /\ \A k \in DOMAIN fields :
                       /\ fields[k].name \in Seq(Seq(STRING))
                       /\ fields[k].of # <<>> => HeldIsSeen(s, f, fields[k].of)

(* MessageOrderProofs proves it of the algorithm: every message once.      *)
ASSUME ListedAssumption ==
  \A s \in Schemas : \A f \in DOMAIN s :
    LET n == Len(s[f].messages)
        o == Listed(s, f)
    IN  /\ o \in [1..n -> 1..n]
        /\ \A m \in 1..n : \E k \in 1..n : o[k] = m
        /\ \A j, k \in 1..n : o[j] = o[k] => j = k

VARIABLES
  schema,    \* the files: imports, enums and messages
  pc,        \* where run_pipeline is
  at,        \* the file it is at
  item,      \* the enum or message of that file emit_file is at
  cname,     \* the C name of each type named so far
  scope,     \* names taken: global_scope
  claimed,   \* its copy, to roll back to
  reserved,  \* names a predicate must miss
  learning,  \* in the first of two passes
  ok,        \* the name of each message's predicate: c_reader_ok
  public,    \* public names this pass claimed, in order
  printed,   \* names this pass defined, in order
  contracts, \* names of predicates this pass used: [of, name]
  disk,      \* each file's header: not touched, begun, written, or lost: begun,
             \* where only the answer of fclose told that it is not complete
  status     \* exit status

vars == <<schema, pc, at, item, cname, scope, claimed, reserved, learning,
          ok, public, printed, contracts, disk, status>>

names == <<cname, scope, claimed, reserved, learning, ok, public, printed, contracts>>

-----------------------------------------------------------------------------
(* The files' types.  A type is the place it is declared at.               *)
Enums(s, f)    == [k \in DOMAIN s[f].enums |-> [kind |-> "enum", file |-> f, at |-> k]]
Messages(s, f) == [k \in DOMAIN s[f].messages |-> [kind |-> "message", file |-> f, at |-> k]]
Types(s, f)    == Enums(s, f) \o Messages(s, f)
AllTypes(s)    == UNION {Range(Types(s, f)) : f \in DOMAIN s}
Decl(s, t)     == IF t.kind = "enum" THEN s[t.file].enums[t.at] ELSE s[t.file].messages[t.at]

Fields(s, m) == Decl(s, m).fields

(* What a field's contract names: the message it holds, or a map's values. *)
Holds(fd)  == fd.of # <<>>
Child(fd)  == [kind |-> "message", file |-> fd.of[1], at |-> fd.of[2]]
Held(s, m) == {Child(fd) : fd \in {x \in Range(Fields(s, m)) : Holds(x)}}

(* The order of a file's messages: each after those of the file it holds,  *)
(* other than through itself.                                              *)
Order(s, f) == [k \in DOMAIN Listed(s, f) |-> Messages(s, f)[Listed(s, f)[k]]]

Place(s, m) == CHOOSE k \in DOMAIN Order(s, m.file) : Order(s, m.file)[k] = m

(* What emit_file writes, in its order.                                    *)
ItemsOf(s, f) == Enums(s, f) \o Order(s, f)

(* A message on the encode plan gets contracts for what it writes: a map,  *)
(* a child that is not on the plan by then, a repeated child with children *)
(* or another child beside a repeated one keep it off.  (Its limits on     *)
(* size are beyond the messages here.)                                     *)
Slots(s, m) == SelectSeq(Fields(s, m), LAMBDA fd : fd.kind \in {"message", "messages"})

Planned(s, m) ==
  LET ok_msg[k \in DOMAIN Order(s, m.file)] ==
        LET self == Order(s, m.file)[k]
            slots == Range(Slots(s, self))
        IN  /\ \A fd \in Range(Fields(s, self)) : fd.kind # "map"
            /\ \A fd \in slots :
                 /\ fd.of[1] = m.file /\ Place(s, Child(fd)) < k
                 /\ ok_msg[Place(s, Child(fd))]
                 /\ fd.kind = "messages" => Slots(s, Child(fd)) = <<>>
            /\ (\E fd \in slots : fd.kind = "messages") => Len(Slots(s, self)) = 1
  IN  ok_msg[Place(s, m)]

Element(s, m) ==
  \E p \in Range(Messages(s, m.file)) : Planned(s, p) /\ \E fd \in Range(Slots(s, p)) :
    fd.kind = "messages" /\ Child(fd) = m

(* What a type claims when it is emitted, the names of all types and the   *)
(* reserved ones being c and r, in a scope.                                *)
ItemClaims(s, c, r, taken, t) ==
  IF t.kind = "enum" THEN ValueClaims(c[t], Decl(s, t).values)
  ELSE MessageClaims(r, taken, c[t], Fields(s, t), Planned(s, t), Element(s, t))

-----------------------------------------------------------------------------
Files == DOMAIN schema

Init ==
  /\ schema \in Schemas
  /\ pc = "args" /\ at = 1 /\ item = 1
  /\ cname = <<>> /\ scope = Logic /\ claimed = {} /\ reserved = {}
  /\ learning = FALSE
  /\ ok = <<>> /\ public = <<>> /\ printed = <<>> /\ contracts = {}
  /\ disk = [f \in DOMAIN schema |-> "untouched"]
  /\ status = 0

Put(f, t, n) == [x \in {t} \cup DOMAIN f |-> IF x = t THEN n ELSE f[x]]

Exit(code) == pc' = "exited" /\ status' = code

LoopPast(then) ==  \* mutant: one file too many
  IF at <= Len(schema) THEN at' = at + 1 /\ UNCHANGED pc ELSE at' = 1 /\ pc' = then

(* One step of a loop over the files, and what follows the last.           *)
Loop(then) ==
  IF at < Len(schema) THEN at' = at + 1 /\ UNCHANGED pc ELSE at' = 1 /\ pc' = then

ParseArgs ==
  /\ pc = "args"
  /\ \/ pc' = "load"
     \/ pc' = "helped"  \* -h, or --help: status 0, and no run
  /\ UNCHANGED <<schema, at, item, names, disk, status>>

LoadSource ==
  /\ pc = "load"
  /\ Loop("analyse")
  /\ UNCHANGED <<schema, item, names, disk, status>>

Analyse ==
  /\ pc = "analyse"
  /\ pc' = "name"
  /\ UNCHANGED <<schema, at, item, names, disk, status>>

(* gremlinc_assign_c_names: a file's enums, then its messages.             *)
AssignCName ==
  /\ pc = "name" /\ item <= Len(Types(schema, at))
  /\ LET t == Types(schema, at)[item]
         c == Claim(reserved, scope, TypeClaims(scope, Decl(schema, t)))
     IN  ~Refused(c.scope) /\ scope' = c.scope /\ cname' = Put(cname, t, Last(c.got))
  /\ item' = item + 1
  /\ UNCHANGED <<schema, pc, at, claimed, reserved, learning, ok, public, printed, contracts,
                 disk, status>>

FileNamed ==
  /\ pc = "name" /\ item > Len(Types(schema, at))
  /\ Loop("reserve") /\ item' = 1
  /\ reserved' = IF pc' = "reserve" THEN scope ELSE reserved
  /\ UNCHANGED <<schema, cname, scope, claimed, learning, ok, public, printed, contracts,
                 disk, status>>

MembersNamed(m) == ~Refused(MemberNames(Fields(schema, m)).scope)

ReserveType(s, t) ==
  Claim({}, s, IF t.kind = "enum" THEN ValueClaims(cname[t], Decl(schema, t).values)
               ELSE ReservedClaims(s, cname[t], Fields(schema, t))).scope

ReservePublicNames ==
  /\ pc = "reserve"
  /\ reserved' = FoldLeft(ReserveType, reserved, ItemsOf(schema, at))
  /\ ~Refused(reserved') /\ \A m \in Range(Messages(schema, at)) : MembersNamed(m)
  /\ Loop("first")
  /\ UNCHANGED <<schema, item, cname, scope, claimed, learning, ok, public, printed, contracts,
                 disk, status>>

(* Whether a contract may name a message before it is emitted.             *)
NamesAhead(s, f) ==
  \E m \in Range(Messages(s, f)) : \E t \in Held(s, m) :
    t.file = f /\ Place(s, t) > Place(s, m)

NeedsFirstPassInFile(s) == \E f \in DOMAIN s : NamesAhead(s, f)  \* mutant: imports are not looked at

NeedsFirstPass(s) ==
  \E f \in DOMAIN s : NamesAhead(s, f) \/ \E k \in DOMAIN s[f].imports : s[f].imports[k] >= f

Prepare ==
  /\ pc = "first"
  /\ learning' = NeedsFirstPass(schema)
  /\ claimed' = scope
  /\ pc' = "emit"
  /\ UNCHANGED <<schema, at, item, cname, scope, reserved, ok, public, printed, contracts,
                 disk, status>>

-----------------------------------------------------------------------------
Items == ItemsOf(schema, at)

Claims(taken, t) == ItemClaims(schema, cname, reserved, taken, t)

Emit(m) ==
  LET c == Claim(reserved, scope, Claims(scope, m)) IN
  /\ ~Refused(c.scope)
  /\ scope' = c.scope
  /\ public' = public \o c.public
  /\ printed' = printed \o c.printed
       \o (IF m.kind = "enum" THEN <<cname[m]>>
           ELSE Unclaimed(Fields(schema, m), cname[m], c.got[3]))
  /\ item' = item + 1
  /\ UNCHANGED <<schema, pc, at, cname, claimed, reserved, learning, disk, status>>

EmitEnum ==
  /\ pc = "emit" /\ item <= Len(Items) /\ Items[item].kind = "enum"
  /\ Emit(Items[item])
  /\ UNCHANGED <<ok, contracts>>

(* c_reader_ok is set first; a getter's contract names its child's, or a   *)
(* guess where that is not set.                                            *)
Named(t) == IF t \in DOMAIN ok' THEN ok'[t] ELSE cname[t] \o <<"reader", "ok">>

EmitMessage ==
  /\ pc = "emit" /\ item <= Len(Items) /\ Items[item].kind = "message"
  /\ LET m == Items[item]
     IN  /\ MembersNamed(m)
         /\ ok' = Put(ok, m, Claim(reserved, scope, Claims(scope, m)).got[5])
         /\ contracts' = contracts \cup {[of |-> t, name |-> Named(t)] : t \in Held(schema, m)}
         /\ Emit(m)

FileLearned ==
  /\ pc = "emit" /\ item > Len(Items) /\ learning /\ at < Len(schema)
  /\ at' = at + 1 /\ item' = 1
  /\ UNCHANGED <<schema, pc, names, disk, status>>

NotRolledBack ==  \* mutant: the scope is not rolled back
  /\ learning' = FALSE /\ UNCHANGED scope

RolledBack ==
  /\ learning' = FALSE /\ scope' = claimed

AllLearned ==
  /\ pc = "emit" /\ item > Len(Items) /\ learning /\ at = Len(schema)
  /\ RolledBack
  /\ at' = 1 /\ item' = 1
  /\ public' = <<>> /\ printed' = <<>> /\ contracts' = {}  \* that text is thrown away
  /\ UNCHANGED <<schema, pc, cname, claimed, reserved, ok, disk, status>>

FileEmitted ==
  /\ pc = "emit" /\ item > Len(Items) /\ ~learning
  /\ pc' = "open"
  /\ UNCHANGED <<schema, at, item, names, disk, status>>

(* fopen empties what an earlier run left.                                 *)
OpenHeader ==
  /\ pc = "open"
  /\ disk' = [disk EXCEPT ![at] = "begun"]
  /\ pc' = "write"
  /\ UNCHANGED <<schema, at, item, names, status>>

NextFile ==
  IF at < Len(schema) THEN at' = at + 1 /\ pc' = "emit" /\ UNCHANGED status
                      ELSE Exit(0) /\ UNCHANGED at

CloseShort ==  \* mutant: how much fwrite took is not compared
  \E h \in {"written", "lost", "begun"} : disk' = [disk EXCEPT ![at] = h]

(* fclose's answer is not looked at: what it could not write is missed.    *)
CloseHeader ==
  \E h \in {"written", "lost"} : disk' = [disk EXCEPT ![at] = h]

(* fwrite takes the whole text; where it does not, the run stops (Fails).  *)
WriteHeader ==
  /\ pc = "write"
  /\ CloseHeader
  /\ NextFile /\ item' = 1
  /\ UNCHANGED <<schema, names>>

(* A source that cannot be read, an error of descriptors, memory, a        *)
(* directory, fopen or fwrite: there is no second try, and no clearing up. *)
StopsLater ==  \* mutant: a header that cannot be opened is passed over
  IF pc = "open" /\ at < Len(schema)
  THEN at' = at + 1 /\ pc' = "emit" /\ item' = 1 /\ UNCHANGED status
  ELSE Exit(1) /\ UNCHANGED <<at, item>>

Stops == Exit(1) /\ UNCHANGED <<at, item>>

Fails ==
  /\ pc \notin {"exited", "helped"}
  /\ Stops
  /\ UNCHANGED <<schema, names, disk>>

Next ==
  \/ ParseArgs \/ LoadSource \/ Analyse \/ AssignCName \/ FileNamed \/ ReservePublicNames \/ Prepare
  \/ EmitEnum \/ EmitMessage \/ FileLearned \/ AllLearned \/ FileEmitted
  \/ OpenHeader \/ WriteHeader \/ Fails

Spec == Init /\ [][Next]_vars

-----------------------------------------------------------------------------
TypeOK ==
  /\ pc \in {"args", "load", "analyse", "name", "reserve", "first", "emit", "open", "write",
             "exited", "helped"}
  /\ at \in Files
  /\ item \in 1..(Len(Items) + 1)
  /\ DOMAIN cname \subseteq AllTypes(schema)
  /\ pc \in {"first", "emit", "open", "write"} => DOMAIN cname = AllTypes(schema)
  /\ \A n \in Range(cname) : n \in scope
  /\ pc \in {"emit", "open", "write"} => Range(cname) \subseteq claimed /\ claimed \subseteq scope
  /\ learning \in BOOLEAN
  /\ DOMAIN ok \subseteq {t \in AllTypes(schema) : t.kind = "message"}
  /\ \A c \in contracts : c.of \in AllTypes(schema)
  /\ disk \in [Files -> {"untouched", "begun", "written", "lost"}]
  /\ status \in {0, 1}

(* Contracts do not change the API: "a predicate does not take [a public   *)
(* name] whichever file is emitted first" (gremlinc/emit.h), and "Imported *)
(* enum values keep the names they had before contracts" (message_test.c). *)
(* The public names a pass claims are, one by one, those it would claim if *)
(* no predicate were named at all.                                         *)
PublicOnly(s, f) ==
  FoldLeft(LAMBDA so, t :
             LET c == Claim({}, so.scope, SelectSeq(Claims(so.scope, t), LAMBDA x : x.public))
             IN  [scope |-> c.scope, got |-> so.got \o c.got],
           s, ItemsOf(schema, f))

PublicNamesStable ==
  pc = "open" /\ at = Len(schema) =>
    public = FoldLeft(PublicOnly, [scope |-> claimed, got |-> <<>>], [f \in Files |-> f]).got

(* "gremlin_ and GREMLIN_ belong to the runtime, and a type's derived      *)
(* names extend its own" (naming.c): nothing a header defines, function,   *)
(* type or constant, can be a name of gremlin.h.                           *)
NoRuntimeNames == \A k \in DOMAIN printed : Runtime(printed[k]) => Numbered(printed[k])

(* "Learn every predicate name first, then roll the scope back so the real *)
(* pass claims the same names" (main.c): in the text that is kept, every   *)
(* contract calls a message's predicate, its own file's or an imported     *)
(* one's, what its definition calls it, and no header reaches the disk     *)
(* with another name even if the run stops before the message's own file.  *)
ContractsMeetPredicates ==
  ~learning => \A c \in contracts : c.of \in DOMAIN ok /\ c.name = ok[c.of]

(* Headers are written as files are listed, after all names are learned    *)
(* (main.c).  No header is begun before those listed earlier are complete, *)
(* so a run that stops leaves those of a prefix of the files and only the  *)
(* last of them cut short; and a run that answers with status 0, other     *)
(* than by showing the help, has completed every one.  The exception is a  *)
(* header of which only fclose could tell, whose answer is not looked at.  *)
Complete(f) == disk[f] \in {"written", "lost"}

HeadersInOrder ==
  /\ \A f, g \in Files : f < g /\ disk[g] # "untouched" => Complete(f)
  /\ \A f \in Files : disk[f] # "untouched" => ~learning
  /\ pc = "exited" /\ status = 0 => \A f \in Files : Complete(f)

(* What the code promises and does not do.  "Pre-claim every derived       *)
(* identifier we will emit in the global scope" (emit_message.c), so that  *)
(* nothing is "silently clashing": no name is defined twice.               *)
PrintedOnce == IsInjective(printed)
=============================================================================
