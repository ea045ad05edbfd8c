# gremlin.c: a TLA+ model

gremlin.c turns protobuf schemas into C headers.  These modules model its
core as TLA+ specifications, check them with TLC on small instances, and prove
the central properties with TLAPS for every size of input.  Paths below are
those of the repository; `PROJECT.json` holds the line-by-line map from
definitions to code, the list of runs, and the list of hazards each property
is aimed at.

## 1. The system

`gremlinc-gen` (gremlinc-gen/src/main.c, `run_pipeline`) is one thread that
runs a sequence of passes over a set of `.proto` sources:

    parse + build -> link imports -> check cycles -> scoped names -> visibility
      -> extends -> type references -> C names -> (learning pass) -> headers

The passes share one *resolve context*: an array of sources, an array of file
descriptors with the same indices, and an arena that every descriptor is
allocated from.  Descriptors point at each other, so a pass relies on what
earlier ones filled in (`imports[].resolved`, `visible`, `scoped_name`,
`type`).  Errors are returned at once, with the failing source in the context.
What the headers contain is code of its own: with the runtime (one header)
it writes and reads messages in programs that never see the tool.  The model
has both programs.

| part | state | operations | what makes it correct |
|---|---|---|---|
| arena (descriptors/src/arena.c, arena_std.c) | chunk array, bump pointers, grow callback | init, push_chunk, alloc, init_malloc, free_malloc | blocks aligned, disjoint, never moved; growth geometric |
| import passes (resolve.c) | `resolved`, DFS colours and stack, `visible`, file order | link, cycle check, visibility, topo sort | results are what the import graph says; scratch arrays of n entries are never exceeded; all end on cyclic graphs |
| message order (resolve.c) | DFS over fields, `predeclare` | topo_sort_messages | every message once; predeclare is exact |
| file emission (gremlinc-gen/src/emit_file.c, gremlinc/src/emit_message.c) | `c_predeclared`, `c_reader_ok`, the writer, spans to hoist | emit_file, first pass and second | everything declared once, before use; no predicate name guessed |
| parser (parser/src) | a buffer, an offset and a limit | one parser per entry, tried in order; iterators over bodies | a failed entry leaves the offset where it was; a body that was accepted can be iterated over |
| build (build.c) | exact-size arrays filled in a second pass | build_file, fill_message, ... | both passes accept the same entries, so that unchecked writes stay inside |
| names, type references, extends (name.c, resolve.c, extend.c) | scoped names, field types, merged field arrays | compute_scoped_names, propagate_extends, resolve_type_refs | protobuf scoping; the cursor over messages in step with the layout |
| naming, message emitter (gremlinc/src) | scopes, claimed and reserved names | mangle, claim, reserve | both passes claim the same; a contract calls a predicate what its definition does |
| pipeline (gremlinc-gen/src/main.c) | the scope, its copy, headers on disk | run_pipeline | the second pass keeps what the first learned; what is on disk when a run stops |
| generated code and runtime (emit_*.c, runtime/include/gremlin.h) | a buffer, a reader's offset and cache | size, encode, reader_init, getters, iterators | size is exact; reading undoes writing; what is cut off is noticed |

Nothing here is concurrent and nothing is persisted between runs.  What is
hard is of other kinds: graph algorithms over inputs that may be cyclic,
writing without bounds checks into arrays whose size is only right because of
an invariant; results that must be exact, since a missing forward declaration
is a header that does not compile; state that outlives a pass
(`c_predeclared`, `c_reader_ok`, name scopes) and is read by the next; and an
allocator at its limits.  In the generated code the same quantity is computed
twice, by different means, in many places: a size and what is encoded, a length
and the bytes behind it, the wire form a reader counted and the one its
iterator walks.

## 2. The modules

| module | models |
|---|---|
| `ImportGraph` | imports, path lookup (first source wins), reachability, visibility and dependency order as mathematics: what the passes are measured against |
| `ImportPasses` | `gremlind_link_imports`, `gremlind_check_no_cycles`, `gremlind_compute_visibility`, `gremlind_topo_sort_files`, one action per branch of their loops |
| `ImportContract` | the abstract specification: each pass is one step characterised by the graph (visibility one step per file) |
| `ImportPassesProofs` | theorems about `ImportPasses` |
| `ImportContractProofs` | that `ImportPasses` implements `ImportContract` |
| `Arena` | the bump arena and its malloc backing |
| `ArenaContract` | the abstract specification: an allocator that grants disjoint aligned blocks and takes them back only all at once |
| `ArenaProofs` | theorems about `Arena` |
| `MessageOrder` | `gremlind_topo_sort_messages` |
| `MessageOrderProofs` | theorems about `MessageOrder` |
| `EmitFile` | how the messages of one file are written, composed with `MessageOrder`, whose actions and variables it extends |
| `EmitFileProofs` | theorems about `EmitFile`: predicates' names, and the text |
| `Entries` | the parser: cursor, lexemes, each entry as its rule of parts, iterators |
| `Build` | `gremlind_build_file`, over the parser's iterators, which are constants of it |
| `BuildProofs` | theorems about `Build` |
| `Names` | `gremlind_compute_scoped_names`, `gremlind_propagate_extends`, `gremlind_resolve_type_refs`, composed |
| `NamesProofs` | theorems about `Names` |
| `CNames` | the C names a type, an enum and a message claim, and how a name that is taken moves on |
| `Pipeline` | `run_pipeline` over several files, with every name it claims (by `CNames`) and every header it writes |
| `PipelineProofs` | theorems about `Pipeline` |
| `Wire` | the runtime's primitives as operators: varints, fixed widths, slices, skipping |
| `Codec` | the generated code: a program that writes messages and one that reads them, over `Wire` |
| `MCImportPasses`, `MCArena`, `MCEmitFile`, `MCBuild`, `MCNames`, `MCPipeline`, `MCCodec` | instances for TLC; `MCBuild` gives `Build` the parser of `Entries` |

A definition whose comment begins with `mutant:` or `for mutation:` is a
plausible mistake in the definition below it.  It is used by no specification;
putting it in that definition's place breaks the property `PROJECT.json` pairs
it with.

### Import passes

A source is its index; a file is a sequence of imports, each a path and
whether it is public.  `resolved` is `imports[k].resolved`, as an index.  The
variables `color`, `stack`, `top` are the arrays of the searches and `scratch`,
`processing`, `edge` those of visibility.  The stack is a function on
`0..N-1`, like the code's array of `n_sources` frames: a push beyond it is a
visible error.  One variable, `outer`, is the outer loop of whichever pass
runs.

| code | action |
|---|---|
| link one file / path unknown | `LinkFile` / `LinkFails` |
| DFS: root coloured / root white / child white / frame exhausted | `SkipRoot`, `StartTree`, `Push`, `CheckRetire` and `OrderRetire` |
| cycle check: child black / child gray | `CheckSkip`, `CheckCycle` |
| topo sort: child not white | `OrderSkip` |
| visibility: itself / direct imports / public imports of an entry / next entry / copy out | `SeeSelf`, `SeeDirect`, `SeePublic`, `NextEntry`, `SeeDone` |

After linking, the cycle check may be skipped: visibility and the file order
are public functions that must survive a cyclic graph.  The comment at
descriptors/include/gremlind/resolve.h:101-104 fears that visibility "could
blow up" on one; the model shows that it ends and stays in its array.  `gremlind_topo_sort_files` is called by users of the
library and not by `gremlinc-gen`.

Left out: returns for lack of memory, which end a run before the pass has
written anything the properties speak of, and the branches for `resolved ==
NULL`, which no context has after a successful link.

### Arena

A pointer is a chunk and an offset, so chunks are disjoint regions aligned to 8
(a caller that pushes the same buffer twice is outside the model, as is a grow
callback that calls back into the arena).  `PushChunk`, `InitArena`,
`InitMalloc`, `FreeMalloc` are the functions of these names.
`gremlind_arena_alloc` is split by outcome: `TryAlloc` serves from the last
chunk; `AllocRefused`, `AllocGrowFails`, `AllocGrowUnusable` return NULL
without a change to the arena; `AllocGrows` adds the chunk the callback gave
and serves from it, or returns NULL after all.  The callback is nondeterministic:
`gremlind_malloc_grow` with its rounding to pages and its cut-off, or any
custom one that respects the contract in axioms.h.  `refused` remembers the
last refusal and exists for `NullOnlyWhenExhausted` alone.  Calls that leave
everything as it was, such as `gremlind_arena_bytes_used`, are no steps.

### Message order and emission

A field is what its resolved type says: a message of this file, a map with one
as its value, or something else.  `Alloc` to `SortDone` follow
`gremlind_topo_sort_messages`, the failures of its allocations included.

`EmitFile` begins with `needs_first_pass` (`NamesAhead`), and then runs
`emit_file` once, or twice when a first pass is needed: `Forward` (one per
predeclared message), `Mark`, `EmitMessage` for each message, then `LearnDone`
or `FileDone`.  When some message is named before it is listed, `EmitMarked`
takes the place of `EmitMessage` and `CopyReader` and `CopyRest` then copy the
text from the buffer, as the three loops of `emit_messages_hoisted` do.  The text is a sequence of *parts* in C's order of
declaration.  What is abstracted:

* the C text within a part; header guard, includes and enums;
* sorting again: the code sorts in `emit_file_names_ahead` and in each
  `emit_file`, on fields that do not change, so the model sorts once;
* other files: `lateImport` stands for the condition on imports in
  `needs_first_pass`;
* where the writer, `calloc` or the arena fails: `Fails` may happen at any
  point of emission, and every such failure ends the run.

### Parser and build

A text is a sequence of pieces: a word or part of one, a number, one white
space, a mark.  A parser is an operator from a position and a limit to the
position it ends at, or `Fail`; that is what the C functions do to `buf->offset`,
which they put back when they fail.  `Rule` gives each entry its parts;
`Part` reads one; `ClosingBrace` reads a body as `gremlinp_message_parse` and its
siblings do, nested messages by counting depth in one loop; `FirstEntry` is the
order in which an iterator tries the kinds.  What the digits of a number or the
escapes of a string are is not modelled, only where they end.

`Build` knows the parser as the C code does, by what its functions return:
`AfterSpaces`, `AfterStrays`, `EntryFrom`, `BodyFrom` and `ValueFrom` are constants
of it.  `ReaderAssumption` is all it takes for granted of them: an entry lies between
the cursor and the limit and is not empty, and a body lies inside its entry, after its
beginning and up to its last character.  `MCBuild` instantiates `Entries` for each text
and passes its operators, so that a run of `Build` runs both, and TLC evaluates
`ReaderAssumption` for the parser at every position and limit of every text.

`Build` has a stack of the loops under way, each over one body.  Descending
draws the cursor's limit in to the body and leaving puts it back (`Enter`,
`Again`, `Leave`).  One action per kind of entry and loop: `CountEntry`,
`CountMessage` and `CountBodyDone` are the first pass; `ReadDeclaration`,
`ReadImport`, `ReadEnum`, `ReadMessage` the second; `CountField` ... `FillMessageDone`
a message's own two passes, oneofs included, and `CountValue` ... `FillEnumDone` an
enum's.  `PassOver` is an entry a loop has no use for, and `Passed` says which.
Arrays are functions, and a write adds to the domain: a write outside the array
that was allocated shows as a domain larger than the count.

### Names

A schema is what `Build` and the import passes leave: a package, the visible
files in order, and a text of entries.  `NameMessage` and `NameEnum` fill
`scoped_name`; `EnterMessage`, `LeaveMessage`, `PassOver`, `ApplyExtend`,
`ExtendNothing`, `WalkDone` are the walk of `gremlind_propagate_extends`, whose
cursor over the file's messages is `nested`; `ResolveField`, `TypeNotFound` are
`gremlind_resolve_type_refs`.  `ScopeWalk` is the lookup, deepest scope first.
`OutOfMemory` may happen wherever one of them allocates.  The properties are
stated from the texts alone (`ScopeAt`, `Meanings`), not with the lookup.

### Pipeline

One action per step of `run_pipeline`: `ParseArgs`, `LoadSource`, `Analyse` (the
passes above), `AssignCName` for each type and `FileNamed` after each file's,
`ReservePublicNames`, `Prepare`, then emission one enum or message at a time,
`AllLearned` with the rollback of the scope, `OpenHeader` and `WriteHeader`.
`Fails` ends the run anywhere, with status 1, a short `fwrite` included, which leaves
its header `begun`.  `CloseHeader` leaves it `written`, or `lost` where only the
answer of `fclose`, which the code does not look at, would have told that text is
missing.  `-h` ends in `helped`: status 0 too, but no run.  The order of a file's messages is a constant,
`Listed`, of which only is assumed what `MessageOrderProofs` proves, that it lists
each message once; `MCPipeline` gives it the depth-first order of the code.

The names are made in `CNames`.  A C name is a sequence of the words between its
underscores, so that `A_B` from a nested message and from an underscore in a name
are the same value, as they are the same string.  `Mangle` tries the name and then
`_1` to `_MaxSuffix` (999999 in the code) and gives NULL, the empty name, when all
are taken; an action that is refused a name does not happen, and the run ends by
`Fails`.  `Numbers` are the words that begin with a digit.  `MessageClaims` lists
what `gremlinc_emit_message` claims, in its order; `ReservedClaims` what
`gremlinc_reserve_public_names` foresees; `Unclaimed` what is printed without being
claimed.

### Generated code

`Codec` is a program that uses the generated functions: it sizes and encodes
one or two messages into a buffer (`Size`, one `EncodeField` per field), another
program may append a field of its own (`OtherProgram`), the tail may be lost
(`LoseTail`); then it reads (`ReadOne` is one turn of the loop of `reader_init`) and
calls the getters (`Get`).  The emitters print one arm per field and kind; the
model has these arms as operators by kind (`FieldSize`, `Records`, `NextField`,
`Getter`, `Iterate`).  As in the printed code, singular `uint32`, `sint32` and
`bool` go through the 5-byte decoder while list elements and map slots go through
the 10-byte one; floats are compared with the `==` of C; the last singular
message replaces earlier ones; end-group numbers are not compared.  A caller
that changes a child between its size and its encoding is outside the model.

## 3. The runs

| run | states | shows |
|---|---|---|
| `imports` | about 0.5 million | the four passes compute what the graph says (`CycleVerdict`, `VisibleExact`, `FileOrder`), stay in their arrays (`ScratchFits`), implement `ImportContract` and end (`Termination`) |
| `arena` | about 0.16 million | allocations are aligned and tile their chunks (`Tiled`), stay put (`Stable`), grown chunks double the capacity (`GrowthDoubles`), and `ArenaContract` is implemented |
| `emit_file` | about 2.1 million | predeclared messages are exactly those held too early (`PredeclareExact`) and are recursive (`OnlyRecursionPredeclared`); the kept header declares each thing once (`DeclaredOnce`) and before its use (`DeclaredBeforeUse`), and guesses no predicate of its own file (`PredicatesKnown`) |
| `build` | 15 511 | what the first passes count the second store, slot by slot (`ArraysFilled`); messages lie in pre-order with their parents (`PreOrder`); only a stray semicolon at its end makes an accepted body unreadable (`BodiesReadAsAccepted`) |
| `names` | 214 376 | scoped names are paths (`NamesArePaths`); every extend's fields are in the message it means, once, in order, with their origin (`ExtensionFields`); a type is what protobuf's scoping says (`ResolvedInScope`); an error names its cause and source (`FailureHasCause`) |
| `pipeline` | 166 284 | contracts move no public name (`PublicNamesStable`); nothing is named like the runtime (`NoRuntimeNames`); a contract calls a predicate by its name, over files and passes (`ContractsMeetPredicates`); a run that stops leaves the headers of a prefix of the files, complete but for the last, and a run over files that succeeds leaves all complete (`HeadersInOrder`) |
| `codec` | 567 492 | encoding writes exactly the size, never more on the way (`SizeExact`); getters return what was written, whatever stands in between (`ReadsWhatWasWritten`); a buffer cut inside a field is refused (`TruncationDetected`) |
| `arena_free`, `arena_null`, `names_map_key`, `pipeline_clash`, `codec_mixed` | violation | see Findings |

Each passing run also checks a type invariant.  Deadlock is not checked:
every one of these programs stops, and states that the program cannot leave are
its ends.

**Bounds.**  *imports*: three sources, the third possibly repeating the first
one's path; a file imports nothing, a path no source has, one file publicly or
privately, or two, one of them publicly (or the same file twice).  Three files
have self-imports, two- and three-cycles, chains, and a diamond with its
closing edge; mixed public and private imports two deep separate visibility
from reachability.  *arena*: three chunks of at most 30 bytes, where 30 is 6
modulo 8 as the real limit 0x7FFFFFFE is; pages of 16, so malloc's rounding
both happens and is cut off; sizes 0, 1, 8, 17, 24 with chunks of 5 to 32
bytes, so that a chunk is too small, exact, or too small only once the size is
rounded, and the array fills up.  *emit_file*: three messages with at most two
fields: every recursion among three messages, with maps on the last.
Two messages cannot show an order in which a hoisted reader stands between two
others; three do.  *build*: 1 128 texts.  Any two of twenty entries in one
message, any of them in and around a nested message of depth two or three, with
stray semicolons, comments that hold braces and quotes, keywords that begin
longer words; and files of up to three top-level entries, some cut short.
*names*: two files in either order, packages that repeat or reverse each other's
segments, one name at three depths, absolute and relative references, private and
mutual visibility; and three files with an extension of an extending message.
*pipeline*: two files, the first importing the second, imported by it, or neither;
recursion, lists and maps in the first; names in the second chosen to meet every
kind of derived name; `MaxSuffix` is 9, more than any of them needs.  *codec*: bytes of 4 bits with 3 of payload, integers of 2
and 4 bytes.  The widths keep what boundaries depend on: the longest varint has a
partial last byte in both widths.  Every scalar kind with the values at each
varint boundary and both ends of its range, singular and repeated; a type with
children, lists of them, maps with scalar and message values; declared defaults
and packings; two messages one after another; every cut of the buffer.

**Fairness.**  Only `Termination` uses any: weak fairness of the next-state
relation, since one thread runs the passes and nothing in them waits.
The other modules state safety only.

## 4. The proofs

Everything below is proved by tlapm for every value of the constants that
satisfies the named assumptions: `N` a natural number, import and field lists
sequences, sources' paths functions from indices to paths, sizes and limits
natural numbers; for `Names` and `Pipeline`, schemas as `Build` and the passes
leave them (`SchemasAssumption` in each), whatever the names in them; for `Build`,
any texts and any parser of which `ReaderAssumption` holds.  Recursive
functions, such as the scopes a reference is looked up in or the names claimed one
after another, are reasoned about by the smallest place where a claim would fail
(`Smallest`).

**ImportPassesProofs.**  `TypeCorrect`, `ScratchIsLargeEnough`,
`CycleCheckIsExact`, `VisibilityIsExact`, `FilesAreOrdered`.  None of the
properties is inductive.  The invariant `Inv` adds:

* `StackInv`: frames hold distinct files, exactly the gray ones, each reached
  from those below.  With the pigeonhole principle this gives that one more
  push fits, and that a gray child is on a cycle;
* `RootInv`: roots already handled are black;
* `CheckInv`: imports a frame has passed over are black, and a black file is
  on no cycle.  When a file turns black, its imports lie in a closed set it is
  not in, so no way leads back to it (`NoWayBack`);
* `OrderInv`: the list holds the black files.  For the order of files: when f
  is listed, an import that is not black is gray, below it on the stack, and so
  leads back to f;
* `SeeInv`: each entry of `scratch` is visible and what the entries expanded
  so far ask for is present; at the end the entries are closed under public
  imports, which is the definition of visibility.

**ImportContractProofs.**  `PassesImplementContract`: every step of the passes
is a step of `ImportContract` or changes nothing it speaks of.  The contract
takes its graph from the import statements and the passes theirs from what
linking stored, so `LinkInv` says that the two agree on the files linked so
far; `UnseenInv`, that a file whose turn has not come sees nothing, which makes
each of the contract's visibility steps happen once.  What the steps compute is
taken from `ImportPassesProofs`.

**ArenaProofs.**  `TypeCorrect`, `AllocationsTile`, `PointersStayValid`,
`GrowthIsGeometric`, `ArenaImplementsContract`.  `TypeOK` and `Tiled` are inductive together: an
allocation is placed at the bump pointer, and `Tiled` says that whatever was
handed out ends below it.  The same fact makes a served allocation a `Grant`
of the contract.  `GrowthIsGeometric` says that each chunk malloc gives is at least
as large as all before it together (`NewTop`): that sum, the function `CapOf`, is the
least that is asked of the callback, and rounding to pages does not make it smaller
(`PageUpCovers`).

**MessageOrderProofs.**  `ScratchIsLargeEnough`, `PredeclareIsExact` and
`OnlyRecursionIsPredeclared`.  Here
cycles are legal and the delicate half is exactness.  `FlaggedInv` says that
whatever a message holds is flagged or was listed before it; `EarlyInv` that a
flagged message has a holder that is listed, or lies above it on the stack.
A holder above on the stack is listed first, so the flag was right.  `CycleInv`
adds that each message on the stack leads to those above it and a flagged one to
itself, so a schema without recursion gets no forward declaration.

**EmitFileProofs.**  `KeptHeaderGuessesNothing`.  A kept header is written in
the second of two passes or in the only one.  In the second, the first has
learned every message; with one pass no message is named before it is listed,
so that what a message holds is itself or stands before it (`KeptInv`,
`WrittenInv`).  Both need `MessageOrderProofs`: the order lists every message.

The rest of the module, `TypeCorrect`, `EveryPartOnce` and `HeaderInOrder`, is the
shape of a finished header, for any number of messages however they hold each
other.  `Place` gives each part an integer that depends on the order of the
messages and on which are named before, and not on how far emission is: forward
declarations have negative ones, hoisted readers their messages' positions, all
else larger ones.  `TextInv` says of each phase which parts the text holds, and
that their places increase; `Join` extends such a text.  At the end two parts
are compared by their places: a type not predeclared is listed before its
holder (`FlaggedInv`), and a reader not hoisted is named by none before it.
`ListedInOrder` shows that the ordered list of predeclared messages exists,
by counting the flagged messages up to each.

**BuildProofs.**  `CursorAndStack`, `ArraysAreFilled` and `MessagesInPreOrder`, the
three invariants of `Build`, from `BuildInvariant`.  The code writes into its arrays
with no check of bounds, and what makes that right is that two passes over one text
come to the same entries.  None of the three invariants is inductive, since they
speak of what was read and the argument is about what is still to be read.  `Reach` is
the least set of cursors that holds a given one and is closed under going past an entry
and into a body; `Starts` is where the entries of some kinds begin that are found
there.  Going past an entry takes its own start away and nothing else; going into a
body splits what is ahead into what is in it and what is after it, and the two do not
meet, as every start in a body lies before its brace (`StartsStep`, `StartsRange`).  `BuildInv` is, while a
file is built:

* `Stacked`: the loops under way are cursors in bodies within bodies, each limit below
  where the loop around it goes on; without it nothing says that leaving a body puts
  back a limit beyond the cursor, nor that what is ahead of two loops is disjoint;
* `WalkInv`: what was counted, or stored in the second pass, is what the text has less
  what is ahead of the loops on the stack (`Tallied`).  While the fields of a message are
  counted its whole body is ahead, since it is read again.  At the end of the first
  pass nothing is ahead, so the counts are of the whole text, and in the second a slot
  is taken only when a start is taken from what is ahead: the array has room;
* `OpenInv`: messages with a loop in them are those whose bodies hold the cursor, in the
  order of the stack; each other one is closed before anything still ahead.  This is why
  the message begun last that is still open is the innermost around what is read next,
  as `parent` claims, and why starts increase (`PreOrder`);
* `FieldsInv` and `ValuesInv`: the same count for the fields of each message with a loop
  in it, those of its oneofs included, and for the values of each enum; a message or enum with no
  loop in it has its array full;

and once the building has ended, in any way, the invariants themselves.  The parser's
working plays no part: that what it accepts it can read again is
`BodiesReadAsAccepted`, which TLC checks.

**NamesProofs.**  `TypeCorrect`, `EveryNameIsItsPath`, `EveryExtendApplied`,
`EveryReferenceInScope` and `EveryFailureHasCause`: the five properties of `Names`, for
any sources.  `Inv` has five parts, and each needs those before it:

* `NameInv`: what is named so far is named by its path; and the walk's cursor over
  messages, `nested`, is at the number of those that opened before the place the
  walk is at, its stack holding the ones still open (`Walked`).  Without it nothing
  says that the message the walk enters is the one the layout has at that index;
* `FieldsTyped` and `FieldInv`: each field so far is from its message's body or from an
  extend that means the message (`Sourced`), own fields stand before those of extends
  and each in the order of the sources (`OrderedAll`), none is there twice (`Apart`) and
  none that the walk has passed is missing (`NoneMissing`);
* `RefInv`: the fields resolved so far refer to what their place means, where a
  field's place is its text, be it in another file than its message;
* `FailureHasCause`, which is inductive once the others are there.

The lookup goes from the deepest scope to the outermost; that it finds what
`Meanings` says, stated over all scopes at once, is the lemma behind the last two
(`ScopeWalkIs`).

**PipelineProofs.**  `TypeCorrect`, `PrefixOfHeaders`, `ContractsMeet`,
`NothingLikeRuntime`, for any files and any names in them.

* `Control` and `DiskInv` (headers of files before `at` are complete, those after it
  untouched, and the one at `at` is begun only while it is being written, or when the
  run stopped there) give `PrefixOfHeaders`.
* `NameInv` says which types have their names at each step of
  `gremlinc_assign_c_names`, namely those declared before the one it is at, and that
  their names stay taken: claiming only adds to a scope (`ClaimIs`), and the copy
  the scope is rolled back to was made when all types had theirs.
* `PassInv` is the argument of the comment in main.c.  A *trail* is the scope at
  each item of each file; a pass follows it if each item's claims lead from its
  scope to the next one's and leave the predicate's name in `ok`.  What a message
  claims depends on the scope and on nothing else the first pass changes, so the
  second, which starts from the same scope, follows the trail of the first, and the
  names it finds are those it will give.  With one pass only, a message held by
  another was emitted before it (`HeldBefore`, from `NeedsFirstPass` being false).
* `FineInv`: every name given to a type or printed is not empty and has a number if it
  begins like the runtime's.  A name the mangler finds is the one asked for, that one
  with an underscore, or has a number (`MangleIs`), so what goes on from a fine name
  is fine (`GoesOnFine`, `MangleFine`), and all derived names go on from the type's
  or the reader's (`TidyMessage`, `UnclaimedFine`); the type's own is taken a second
  time if the first is the runtime's, and the second has a number since the first
  is taken (`TypeNameFine`).

**Model-checked only.**

* `Termination`: liveness is out of the prover's reach.
* `BodiesReadAsAccepted` relates the parser's check of a body to its iterators, and the
  properties of `Codec` are about values nested in values.  Both are RECURSIVE operators
  here, which the provers do not accept, and what they compute for every input needs
  induction over data.
* `PublicNamesStable`: that predicates displace no public name rests on the reserved
  names, which are claimed in another order than the one the names are claimed
  in later.  Where many names meet, which suffix each gets depends on that order, and
  no invariant simpler than the two runs of claims themselves was found.

## 5. Findings

Each is a run whose one property quotes the code's own documents, and which TLC
finds violated.

* `arena_free`.  `gremlind_arena_free_malloc` frees the base of every chunk
  (arena_std.c:58); std.h:46-50 says it "does not touch chunks pushed in via
  gremlind_arena_push_chunk directly".
* `arena_null`.  `gremlind_arena_alloc` compares a new chunk with the size
  asked for, not rounded up to 8 (arena.c:149).  When the chunk is too small
  for the rounded size the allocation is NULL although the callback gave what
  it was asked for, and the chunk is spent; arena.h:51-55 lists the reasons
  for NULL and this is none of them.
* `names_map_key`.  A map's key is resolved like any other name (resolve.c:374),
  so a message may be a key; resolve.c:375-377 and nodes.h:90 say a key is always
  a builtin scalar because the parser validates it.  The parser's check for that
  has no caller.
* `codec_mixed`.  The reader refuses an unpacked element of a list only when the
  packed blocks before it were not empty (emit_repeated_scalar.c:408).  After an
  empty block the element is counted, and the packed iterator then looks for it
  in vain and answers TRUNCATED.  emit_repeated_scalar.c:13-18 says mixed forms
  are rejected with INVALID_WIRE_TYPE.
* `pipeline_clash`.  `<T>_encode_at`, `<T>_cached_size` and the functions of a
  reader's iterators are printed without being claimed (emit_message.c:770), so
  message `A` beside `enum A_encode { at = 0; }` gives a header that defines one
  name twice.  emit_message.c:504-506 promises to claim every derived name.

Smaller things the models made visible, with no run of their own:

* an enum value `option_a = 0;` is read as an option, and a field whose type begins
  with `optional` as a label and the rest of the type; `5 to  7` with two spaces is
  refused; an option's value that begins with `inf` or `nan` is read as a number;
* a stray semicolon at the end of a body is accepted by the parser and refused by
  the builder; an unterminated comment at the end of a file is accepted by both;
* build.c:527-530 and 574-575 report the cursor's offset after bodies were left,
  where build.h:22-24 speaks of the place the error was found;
* emit_message.c:508-511 passes `reader_ty` on to `claim_join2` and
  `gremlinc_claim_avoiding` before it is compared with NULL, so that memory running out
  there is a crash and not an error;
* `fclose` is not looked at, so a run may end with status 0 and a header cut short
  (`lost` in `Pipeline`);
* `a-b.proto` and `a_b.proto` get the same include guard.

## 6. Not modelled

* **Digits and escapes.**  Radix, range and overflow of integer and float literals
  (lexems.c) and the conversion of default values (const_convert.c): arithmetic of
  the C library on text; the models take the value as given.
* **Contracts.**  The ACSL text the field emitters and the encode plan print, and
  the plan's limits on size: the generated contracts are checked by another tool,
  and the text changes no behaviour.  Which messages are on the plan and which
  names they claim for it is in `Pipeline`; the names of bound variables in
  contracts (a scope of their own) are not.
* **The text of a header** beyond its order: guard, includes, layout, and the
  writer, a buffer that doubles.
* **Paths, the command line and reading files**: each is one step of `Pipeline` that
  succeeds or ends the run.
* **Memory**: returns for lack of it are in `MessageOrder`, `Build`, `Names`,
  `EmitFile` and `Pipeline`, and left out of `ImportPasses`, where they end the run
  before a pass has written what the properties speak of.
* **A caller that extends twice**: `gremlind_propagate_extends` appends each time
  it is called, though the documents call the passes idempotent; `gremlinc-gen`
  calls it once, and `Names` models that.
* **Extends across files in `Pipeline`**: its files hold the fields extends leave, in
  the places they are.  `SchemasAssumption` leaves out a field that an extend in
  another file brings along when the extended file does not see its message;
  `needs_first_pass` looking at imports and not at origins is
  a hazard listed in `PROJECT.json`.
* Tests, benchmarks and the example: drivers without logic of their own.

## 7. What could come next

That the parser of `Entries` satisfies `ReaderAssumption` on every text, and that
`SizeExact` holds for values of any depth, both of which need induction over what a
recursive definition reads; an argument for `PublicNamesStable`; literals over a small
radix, as `Wire` does for varints.
