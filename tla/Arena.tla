------------------------------- MODULE Arena -------------------------------
(***************************************************************************)
(* The chunked bump allocator every later pass takes its memory from:      *)
(* descriptors/src/arena.c (the core) and arena_std.c (the malloc-backed   *)
(* growth callback).                                                       *)
(*                                                                         *)
(* A pointer is a chunk's index with an offset in it: the memory regions   *)
(* given to the arena are disjoint and 8-aligned, as arena.h requires of   *)
(* them, and chunks[k].base never changes.  The arena runs in one thread   *)
(* and the growth callback does not call back into it, so each call is one *)
(* step.  A call that changes nothing (try_alloc that does not fit,        *)
(* push_chunk when full, a failed init_malloc) is no step.                 *)
(***************************************************************************)
EXTENDS Integers, Sequences, SequencesExt

CONSTANTS
  MaxChunks,   \* GREMLIND_MAX_CHUNKS
  MaxSize,     \* 0x7FFFFFFE, the bound on a chunk's capacity
  Page,        \* the 4 KiB unit of gremlind_malloc_grow
  FirstCaps,   \* capacities of chunks a caller provides
  CustomCaps,  \* capacities a caller's own growth callback may return
  Sizes        \* sizes asked for

Align == 8     \* GREMLIND_ALIGN

ASSUME ArenaAssumption ==
  /\ MaxChunks \in Nat \ {0}
  /\ MaxSize \in Nat /\ MaxSize >= Align
  /\ Page \in Nat \ {0}
  /\ FirstCaps \subseteq 1..MaxSize   \* "requires cap > 0", "cap <= 0x7FFFFFFE"
  /\ CustomCaps \subseteq Nat
  /\ Sizes \subseteq Nat

VARIABLES
  chunks,   \* chunks[0 .. n_chunks - 1]; none before init and after free
  grow,     \* the growth callback: "none", "malloc" or "custom"
  live,     \* the allocations handed out and not freed
  freed,    \* who owned the chunks the last free_malloc passed to free()
  refused   \* the last call, when it was a gremlind_arena_alloc returning NULL

vars == <<chunks, grow, live, freed, refused>>

Chunk      == [cap : 1..MaxSize, used : 0..MaxSize, from : {"caller", "malloc", "custom"}]
Allocation == [chunk : 1..MaxChunks, at : 0..MaxSize, size : 1..MaxSize]

Fresh(cap, from) == [cap |-> cap, used |-> 0, from |-> from]

Init ==
  /\ chunks = <<>>
  /\ grow = "none"
  /\ live = {}
  /\ freed = {}
  /\ refused = <<>>

-----------------------------------------------------------------------------
Unrounded(size) == size  \* mutant: sizes are taken as they come

RoundUp(size) ==
  LET rem == size % Align IN IF rem # 0 THEN size + (Align - rem) ELSE size

TooLarge(size) == size > MaxSize - (Align - 1)

(* Only the last chunk is tried: the tails of the others are given up.     *)
FitsUnrounded(cs, size) ==  \* mutant: room is checked for the size asked for
  /\ size # 0 /\ ~TooLarge(size)
  /\ size <= cs[Len(cs)].cap - cs[Len(cs)].used

Fits(cs, size) ==
  /\ size # 0 /\ ~TooLarge(size)
  /\ RoundUp(size) <= cs[Len(cs)].cap - cs[Len(cs)].used

ServeInPlace(cs, size) ==  \* mutant: the bump pointer does not move
  /\ chunks' = cs
  /\ live' = live \cup {[chunk |-> Len(cs), at |-> cs[Len(cs)].used, size |-> size]}
  /\ refused' = <<>>

Serve(cs, size) ==
  /\ chunks' = [cs EXCEPT ![Len(cs)].used = @ + RoundUp(size)]
  /\ live' = live \cup {[chunk |-> Len(cs), at |-> cs[Len(cs)].used, size |-> size]}
  /\ refused' = <<>>

Ready == chunks # <<>>
Full  == Len(chunks) >= MaxChunks

OnTopOfLast(c) == [chunks EXCEPT ![Len(chunks)] = c]  \* mutant: the chunk replaces the last
Pushed(c)      == Append(chunks, c)

(* Geometric growth: at least as much as the arena has in all.             *)
CapOf(cs, k) ==  \* the capacity of the first k chunks
  LET total[j \in 0..Len(cs)] == IF j = 0 THEN 0 ELSE total[j - 1] + cs[j].cap
  IN  total[k]

TotalCap == CapOf(chunks, Len(chunks))
AsAsked(size)   == size  \* mutant: asks for no more than the allocation needs
Requested(size) == IF size > TotalCap THEN size ELSE TotalCap

(* The capacities the callback may answer with, when it does not fail.     *)
PageUp(n) == ((n + Page - 1) \div Page) * Page

MallocCaps(n) ==
  IF n = 0 \/ n > MaxSize
    THEN {}
    ELSE {c \in 1..MaxSize : c = IF PageUp(n) > MaxSize THEN n ELSE PageUp(n)}

GrownCaps(n) ==
  IF grow = "malloc" THEN MallocCaps(n) ELSE {c \in CustomCaps : c >= n}

Usable(cap, size) == ~(cap < size \/ cap > MaxSize)

-----------------------------------------------------------------------------
InitArena(cap, g) ==
  /\ ~Ready
  /\ chunks' = <<Fresh(cap, "caller")>>
  /\ grow' = g
  /\ refused' = <<>>
  /\ UNCHANGED <<live, freed>>

InitMalloc(cap) ==
  /\ ~Ready
  /\ chunks' = <<Fresh(cap, "malloc")>>
  /\ grow' = "malloc"
  /\ refused' = <<>>
  /\ UNCHANGED <<live, freed>>

PushChunk(cap) ==
  /\ Ready /\ ~Full
  /\ chunks' = Pushed(Fresh(cap, "caller"))
  /\ refused' = <<>>
  /\ UNCHANGED <<grow, live, freed>>

(* gremlind_arena_try_alloc, and the first try of gremlind_arena_alloc.    *)
TryAlloc(size) ==
  /\ Ready
  /\ Fits(chunks, size)
  /\ Serve(chunks, size)
  /\ UNCHANGED <<grow, freed>>

(* gremlind_arena_alloc, when the last chunk has no room.                  *)
MayGrow(size) == Ready /\ ~Fits(chunks, size) /\ size # 0 /\ grow # "none" /\ ~Full

Refuse(size, answer) == refused' = <<[size |-> size, grow |-> answer, full |-> Full]>>

AllocRefused(size) ==
  /\ Ready /\ ~Fits(chunks, size)
  /\ size = 0 \/ grow = "none" \/ Full
  /\ Refuse(size, IF grow = "none" THEN "absent" ELSE "not asked")
  /\ UNCHANGED <<chunks, grow, live, freed>>

AllocGrowFails(size) ==
  /\ MayGrow(size)
  /\ Refuse(size, "null")
  /\ UNCHANGED <<chunks, grow, live, freed>>

AllocGrowUnusable(size) ==
  /\ MayGrow(size)
  /\ \E cap \in GrownCaps(Requested(size)) : ~Usable(cap, size)
  /\ Refuse(size, "unusable")
  /\ UNCHANGED <<chunks, grow, live, freed>>

AllocGrows(size) ==
  /\ MayGrow(size)
  /\ \E cap \in GrownCaps(Requested(size)) :
       /\ Usable(cap, size)
       /\ LET cs == Pushed(Fresh(cap, grow)) IN
            IF Fits(cs, size)
              THEN Serve(cs, size)
              ELSE chunks' = cs /\ live' = live /\ Refuse(size, "chunk")
  /\ UNCHANGED <<grow, freed>>

(* Paired with gremlind_arena_init_malloc.                                 *)
FreeMalloc ==
  /\ Ready /\ chunks[1].from = "malloc"
  /\ freed' = {chunks[k].from : k \in DOMAIN chunks}
  /\ chunks' = <<>>
  /\ grow' = "none"
  /\ live' = {}
  /\ refused' = <<>>

Next ==
  \/ \E cap \in FirstCaps, g \in {"none", "malloc", "custom"} : InitArena(cap, g)
  \/ \E cap \in FirstCaps : InitMalloc(cap) \/ PushChunk(cap)
  \/ \E size \in Sizes :
       \/ TryAlloc(size) \/ AllocRefused(size) \/ AllocGrowFails(size)
       \/ AllocGrowUnusable(size) \/ AllocGrows(size)
  \/ FreeMalloc

Spec == Init /\ [][Next]_vars

-----------------------------------------------------------------------------
(* Types; and valid_arena of axioms.h: never more chunks than the struct   *)
(* has room for, no chunk used beyond its capacity.                        *)
TypeOK ==
  /\ chunks \in Seq(Chunk) /\ Len(chunks) <= MaxChunks
  /\ \A k \in DOMAIN chunks : chunks[k].used <= chunks[k].cap
  /\ grow \in {"none", "malloc", "custom"}
  /\ live \subseteq Allocation
  /\ freed \subseteq {"caller", "malloc", "custom"}

(* The live allocations of a chunk, each with its padding, tile what the   *)
(* chunk has handed out: aligned, inside it, no byte in two of them, and   *)
(* none lost, which is what gremlind_arena_bytes_used adds up.             *)
Covers(a, k, byte) == a.chunk = k /\ a.at <= byte /\ byte < a.at + RoundUp(a.size)

Tiled ==
  /\ \A a \in live :
       /\ a.chunk \in DOMAIN chunks
       /\ a.at % Align = 0
       /\ a.at + RoundUp(a.size) <= chunks[a.chunk].used
  /\ \A k \in DOMAIN chunks : \A byte \in 0..(chunks[k].used - 1) :
       \E a \in live : Covers(a, k, byte) /\ \A b \in live : Covers(b, k, byte) => b = a

(* "Chunks never move once pushed, so every pointer the arena hands out    *)
(* stays valid until the arena is freed": whatever is called, refused      *)
(* allocations included, an allocation stays, and the chunks below the     *)
(* last keep capacity and use.                                             *)
Stable ==
  [][ chunks' # <<>> =>
        /\ live \subseteq live'
        /\ Len(chunks) <= Len(chunks')
        /\ \A k \in DOMAIN chunks :
             /\ chunks'[k].cap = chunks[k].cap
             /\ chunks'[k].used >= chunks[k].used
             /\ k < Len(chunks) => chunks'[k] = chunks[k] ]_vars

(* "Geometric growth ... keeps the chunk-array depth O(log total_bytes)":  *)
(* a chunk of gremlind_malloc_grow at least doubles the capacity.          *)
GrowthDoubles ==
  \A k \in DOMAIN chunks :
    k > 1 /\ chunks[k].from = "malloc" => chunks[k].cap >= CapOf(chunks, k - 1)

(* The arena implements its contract.                                      *)
Contract == INSTANCE ArenaContract

ImplementsContract == Contract!Spec

-----------------------------------------------------------------------------
(* std.h:46-50 says of gremlind_arena_free_malloc that it "does not touch  *)
(* chunks pushed in via gremlind_arena_push_chunk directly".               *)
FreesOnlyMalloc == freed \subseteq {"malloc"}

(* arena.h:50-55 says that gremlind_arena_alloc "returns NULL only on      *)
(* genuine out-of-memory (grow returned NULL), when the arena already has  *)
(* GREMLIND_MAX_CHUNKS chunks and is full, or when `size` is 0 /           *)
(* unreasonably large".  An arena without a callback is taken to be out of *)
(* memory, and a capacity above the bound on chunks to be no capacity.     *)
NullOnlyWhenExhausted ==
  \A i \in DOMAIN refused :
    \/ refused[i].size = 0 \/ TooLarge(refused[i].size)
    \/ refused[i].grow \in {"absent", "null", "unusable"}
    \/ refused[i].full
=============================================================================
