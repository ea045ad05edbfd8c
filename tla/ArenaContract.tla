--------------------------- MODULE ArenaContract ---------------------------
(***************************************************************************)
(* What the users of a gremlind arena rely on (descriptors/include/        *)
(* gremlind/arena.h): an allocation gets aligned bytes no other live       *)
(* allocation has, and keeps them until the arena is freed as a whole.     *)
(* Chunks, growth and the reasons for a refusal are not visible.           *)
(***************************************************************************)
EXTENDS Integers

CONSTANTS
  MaxChunks,  \* GREMLIND_MAX_CHUNKS
  MaxSize     \* the largest chunk

VARIABLE live   \* the allocations handed out

Align == 8      \* GREMLIND_ALIGN

(* A pointer is a chunk and an offset in it; chunks are disjoint regions.  *)
Allocation == [chunk : 1..MaxChunks, at : 0..MaxSize, size : 1..MaxSize]

Apart(a, b) ==
  \/ a.chunk # b.chunk
  \/ a.at + a.size <= b.at
  \/ b.at + b.size <= a.at

Init == live = {}

Grant ==
  \E a \in live' :
    /\ live' = live \cup {a}
    /\ a \in Allocation
    /\ a.at % Align = 0 /\ a.at + a.size <= MaxSize
    /\ \A b \in live : Apart(a, b)

FreeAll == live' = {}

Spec == Init /\ [][Grant \/ FreeAll]_live
=============================================================================
