---------------------------- MODULE ArenaProofs ----------------------------
(***************************************************************************)
(* Proofs about Arena, for every bound on chunks and sizes, every page     *)
(* size and every growth callback.                                         *)
(*                                                                         *)
(* TypeOK and Tiled are inductive together: an allocation is placed at the *)
(* bump pointer of the last chunk, and Tiled says that everything handed   *)
(* out before ends below it.  The same fact makes each step that serves an *)
(* allocation a Grant of ArenaContract.                                    *)
(***************************************************************************)
EXTENDS Arena, SequenceTheorems, WellFoundedInduction, TLAPS

Inv == TypeOK /\ Tiled

(* TypeOK and Tiled of a list of chunks and a set of allocations.          *)
Sound(cs) ==
  /\ cs \in Seq(Chunk) /\ Len(cs) <= MaxChunks
  /\ \A k \in DOMAIN cs : cs[k].used <= cs[k].cap

TiledIn(cs, as) ==
  /\ \A a \in as :
       /\ a.chunk \in DOMAIN cs
       /\ a.at % Align = 0
       /\ a.at + RoundUp(a.size) <= cs[a.chunk].used
  /\ \A k \in DOMAIN cs : \A byte \in 0..(cs[k].used - 1) :
       \E a \in as : Covers(a, k, byte) /\ \A b \in as : Covers(b, k, byte) => b = a

(* ds is cs with more used of its last chunk, or with more chunks.         *)
Extends(ds, cs) ==
  \A k \in DOMAIN cs :
    /\ ds[k].cap = cs[k].cap /\ ds[k].from = cs[k].from
    /\ ds[k].used >= cs[k].used
    /\ k < Len(cs) => ds[k] = cs[k]

(* What ArenaContract calls a Grant.                                       *)
Disjoint(a, b) ==
  a.chunk # b.chunk \/ a.at + a.size <= b.at \/ b.at + b.size <= a.at

Granted ==
  \E a \in live' :
    /\ live' = live \cup {a}
    /\ a \in Allocation
    /\ a.at % Align = 0 /\ a.at + a.size <= MaxSize
    /\ \A b \in live : Disjoint(a, b)

-----------------------------------------------------------------------------
(* Rounding: upwards, by less than a unit, to a multiple of it.            *)
LEMMA RoundUpRounds ==
  ASSUME NEW size \in Nat
  PROVE  /\ RoundUp(size) \in Nat /\ RoundUp(size) >= size
         /\ RoundUp(size) < size + Align
         /\ RoundUp(size) % Align = 0
BY DEF RoundUp, Align

LEMMA AlignedSum ==
  ASSUME NEW m \in Nat, NEW n \in Nat, m % Align = 0, n % Align = 0
  PROVE  (m + n) % Align = 0
BY DEF Align

LEMMA AllocationFields ==
  ASSUME NEW a \in Allocation
  PROVE  a.chunk \in Nat /\ a.at \in Nat /\ a.size \in Nat \ {0}
         /\ RoundUp(a.size) \in Nat /\ RoundUp(a.size) >= a.size
BY RoundUpRounds, ArenaAssumption DEF Allocation

(* The bump pointer of a chunk is aligned: it is 0 or the end of what      *)
(* covers the byte below it.                                               *)
LEMMA BumpAligned ==
  ASSUME NEW cs, Sound(cs), NEW as \in SUBSET Allocation, TiledIn(cs, as), NEW k \in DOMAIN cs
  PROVE  cs[k].used \in Nat /\ cs[k].cap \in 1..MaxSize /\ cs[k].used % Align = 0
<1>1. cs[k] \in Chunk
  BY ElementOfSeq DEF Sound
<1>2. cs[k].used \in Nat /\ cs[k].cap \in 1..MaxSize
  BY <1>1, ArenaAssumption DEF Chunk
<1>3. CASE cs[k].used = 0
  BY <1>2, <1>3 DEF Align
<1>4. CASE cs[k].used > 0
  <2>0. cs[k].used - 1 \in 0..(cs[k].used - 1)
    BY <1>2, <1>4
  <2>1. PICK a \in as : Covers(a, k, cs[k].used - 1)
    BY <2>0 DEF TiledIn
  <2>2. a.at \in Nat /\ RoundUp(a.size) \in Nat /\ a.size \in Nat /\ a.at % Align = 0
        /\ RoundUp(a.size) % Align = 0
    BY AllocationFields, RoundUpRounds DEF TiledIn
  <2>3. a.at + RoundUp(a.size) = cs[k].used
    <3>1. a.chunk = k /\ cs[k].used - 1 < a.at + RoundUp(a.size)
      BY <2>1 DEF Covers
    <3>2. a.at + RoundUp(a.size) <= cs[k].used
      BY <3>1 DEF TiledIn
    <3>3. QED
      BY <1>2, <2>2, <3>1, <3>2
  <2>4. (a.at + RoundUp(a.size)) % Align = 0
    BY <2>2, AlignedSum
  <2>5. cs[k].used % Align = 0
    BY <2>3, <2>4
  <2>6. QED
    BY <1>2, <2>5
<1>5. QED
  BY <1>2, <1>3, <1>4

(* A fresh chunk on top holds nothing.                                     *)
LEMMA PushKeeps ==
  ASSUME Inv, NEW c \in Chunk, c.used = 0, ~Full
  PROVE  /\ Sound(Pushed(c)) /\ TiledIn(Pushed(c), live)
         /\ Len(Pushed(c)) = Len(chunks) + 1
         /\ \A k \in DOMAIN chunks : Pushed(c)[k] = chunks[k]
         /\ Pushed(c) # <<>>
<1>1. chunks \in Seq(Chunk) /\ Len(chunks) \in Nat /\ DOMAIN chunks = 1..Len(chunks)
  BY DEF Inv, TypeOK
<1>2. /\ Pushed(c) \in Seq(Chunk) /\ Len(Pushed(c)) = Len(chunks) + 1
      /\ DOMAIN Pushed(c) = 1..(Len(chunks) + 1)
      /\ \A k \in 1..Len(chunks) : Pushed(c)[k] = chunks[k]
      /\ Pushed(c)[Len(chunks) + 1] = c /\ Pushed(c) # <<>>
  BY <1>1 DEF Pushed
<1>3. Sound(Pushed(c))
  <2>1. Len(Pushed(c)) <= MaxChunks
    BY <1>1, <1>2, ArenaAssumption DEF Full
  <2>2. c.used <= c.cap
    BY DEF Chunk
  <2>3. QED
    BY <1>1, <1>2, <2>1, <2>2 DEF Sound, Inv, TypeOK
<1>4. TiledIn(Pushed(c), live)
  <2>1. \A a \in live : /\ a.chunk \in DOMAIN Pushed(c) /\ a.at % Align = 0
                        /\ a.at + RoundUp(a.size) <= Pushed(c)[a.chunk].used
    BY <1>1, <1>2 DEF Inv, Tiled
  <2>2. \A k \in DOMAIN Pushed(c) : \A byte \in 0..(Pushed(c)[k].used - 1) :
          k \in DOMAIN chunks /\ byte \in 0..(chunks[k].used - 1)
    BY <1>1, <1>2
  <2>3. QED
    BY <2>1, <2>2 DEF TiledIn, Inv, Tiled
<1>5. QED
  BY <1>1, <1>2, <1>3, <1>4

(* Serving an allocation from the last chunk of cs, which is `chunks` or   *)
(* `chunks` with a fresh chunk on top.                                     *)
LEMMA ServeKeeps ==
  ASSUME TypeOK, NEW cs, Sound(cs), cs # <<>>, TiledIn(cs, live),
         NEW size \in Nat, Fits(cs, size), Serve(cs, size)
  PROVE  /\ Sound(chunks') /\ TiledIn(chunks', live')
         /\ Len(chunks') = Len(cs) /\ chunks' # <<>>
         /\ Extends(chunks', cs)
         /\ live \subseteq live' /\ live' \subseteq Allocation
         /\ Granted
<1>0. PICK n \in Nat : n = Len(cs)
  BY DEF Sound
<1> DEFINE new == [chunk |-> n, at |-> cs[n].used, size |-> size]
<1>1. cs \in Seq(Chunk) /\ n \in 1..MaxChunks /\ DOMAIN cs = 1..n
  BY <1>0, ArenaAssumption DEF Sound
<1>2. cs[n] \in Chunk /\ cs[n].used \in Nat /\ cs[n].cap \in 1..MaxSize /\ cs[n].used % Align = 0
  BY <1>1, BumpAligned, ElementOfSeq DEF TypeOK
<1>3. RoundUp(size) \in Nat /\ RoundUp(size) >= size /\ size \in Nat \ {0}
      /\ RoundUp(size) % Align = 0 /\ cs[n].used + RoundUp(size) <= cs[n].cap
  <2>1. size # 0 /\ RoundUp(size) <= cs[n].cap - cs[n].used
    BY <1>0 DEF Fits
  <2>2. RoundUp(size) \in Nat /\ RoundUp(size) >= size /\ RoundUp(size) % Align = 0
    BY RoundUpRounds
  <2>3. QED
    BY <1>2, <2>1, <2>2
<1>4. chunks' = [cs EXCEPT ![n] = [cs[n] EXCEPT !.used = @ + RoundUp(size)]]
      /\ live' = live \cup {new}
  BY <1>0 DEF Serve
<1>5. [cs[n] EXCEPT !.used = @ + RoundUp(size)] \in Chunk
  BY <1>2, <1>3, ArenaAssumption DEF Chunk
<1>6. /\ chunks' \in Seq(Chunk) /\ Len(chunks') = n /\ DOMAIN chunks' = 1..n /\ chunks' # <<>>
      /\ \A k \in 1..n : k # n => chunks'[k] = cs[k]
      /\ chunks'[n].cap = cs[n].cap /\ chunks'[n].used = cs[n].used + RoundUp(size)
      /\ chunks'[n].from = cs[n].from
  <2>1. chunks' \in Seq(Chunk) /\ Len(chunks') = n
    BY <1>0, <1>1, <1>4, <1>5, ExceptSeq
  <2>2. chunks'[n] = [cs[n] EXCEPT !.used = @ + RoundUp(size)]
    BY <1>1, <1>4
  <2>3. \A k \in 1..n : k # n => chunks'[k] = cs[k]
    BY <1>1, <1>4
  <2>4. QED
    BY <1>1, <1>2, <2>1, <2>2, <2>3 DEF Chunk
<1>7. new \in Allocation
  BY <1>1, <1>2, <1>3, ArenaAssumption DEF Allocation
<1>8. Sound(chunks')
  BY <1>0, <1>1, <1>2, <1>3, <1>6 DEF Sound
<1>9. ASSUME NEW a \in live
      PROVE  /\ a \in Allocation /\ a.chunk \in 1..n /\ a.at \in Nat /\ a.size \in Nat
             /\ RoundUp(a.size) \in Nat /\ RoundUp(a.size) >= a.size
             /\ a.at + RoundUp(a.size) <= cs[a.chunk].used /\ a.at % Align = 0
  BY <1>1, <1>9, AllocationFields DEF TiledIn, TypeOK
<1>10. TiledIn(chunks', live')
  <2>1. ASSUME NEW a \in live'
        PROVE  /\ a.chunk \in DOMAIN chunks' /\ a.at % Align = 0
               /\ a.at + RoundUp(a.size) <= chunks'[a.chunk].used
    <3>1. CASE a = new
      BY <1>1, <1>2, <1>3, <1>6, <3>1
    <3>2. CASE a \in live
      <4>1. CASE a.chunk = n
        BY <1>2, <1>3, <1>6, <1>9, <3>2, <4>1
      <4>2. CASE a.chunk # n
        BY <1>6, <1>9, <3>2, <4>2
      <4>3. QED
        BY <4>1, <4>2
    <3>3. QED
      BY <1>4, <2>1, <3>1, <3>2
  <2>2. ASSUME NEW k \in 1..n, NEW byte \in 0..(chunks'[k].used - 1)
        PROVE  \E a \in live' : Covers(a, k, byte) /\ \A b \in live' : Covers(b, k, byte) => b = a
    <3>1. CASE k = n /\ byte >= cs[n].used
      <4>1. Covers(new, k, byte)
        BY <1>2, <1>3, <1>6, <2>2, <3>1 DEF Covers
      <4>2. \A b \in live : ~Covers(b, k, byte)
        BY <1>2, <1>9, <2>2, <3>1 DEF Covers
      <4>3. QED
        BY <1>4, <4>1, <4>2
    <3>2. CASE ~(k = n /\ byte >= cs[n].used)
      <4>1. byte \in 0..(cs[k].used - 1)
        BY <1>1, <1>2, <1>6, <2>2, <3>2
      <4>2. PICK a \in live : Covers(a, k, byte) /\ \A b \in live : Covers(b, k, byte) => b = a
        BY <1>1, <2>2, <4>1 DEF TiledIn
      <4>3. ~Covers(new, k, byte)
        BY <1>2, <3>2, <4>1 DEF Covers
      <4>4. QED
        BY <1>4, <4>2, <4>3
    <3>3. QED
      BY <3>1, <3>2
  <2>3. QED
    BY <1>6, <2>1, <2>2 DEF TiledIn
<1>11. live \subseteq live' /\ live' \subseteq Allocation
  BY <1>4, <1>7 DEF TypeOK
<1>12. Granted
  <2>1. ASSUME NEW b \in live PROVE Disjoint(new, b)
    <3>1. CASE b.chunk = n
      BY <1>2, <1>9, <2>1, <3>1 DEF Disjoint
    <3>2. CASE b.chunk # n
      BY <3>2 DEF Disjoint
    <3>3. QED
      BY <3>1, <3>2
  <2>2. new.at % Align = 0 /\ new.at + new.size <= MaxSize
    BY <1>2, <1>3, ArenaAssumption
  <2>3. QED
    BY <1>4, <1>7, <2>1, <2>2 DEF Granted
<1>13. ASSUME NEW k \in DOMAIN cs
       PROVE  /\ chunks'[k].cap = cs[k].cap /\ chunks'[k].from = cs[k].from
              /\ chunks'[k].used >= cs[k].used
              /\ k < n => chunks'[k] = cs[k]
  <2>1. cs[k].used \in Nat
    BY BumpAligned DEF TypeOK
  <2>2. QED
    BY <1>1, <1>2, <1>3, <1>6, <2>1
<1>14. Len(chunks') = Len(cs) /\ chunks' # <<>>
  BY <1>0, <1>6
<1>15. Extends(chunks', cs)
  BY <1>0, <1>13 DEF Extends
<1>16. Sound(chunks') /\ TiledIn(chunks', live') /\ live \subseteq live' /\ live' \subseteq Allocation
  BY <1>8, <1>10, <1>11
<1>17. QED
  BY <1>12, <1>14, <1>15, <1>16

-----------------------------------------------------------------------------
(* What a call does, whichever it is: the invariant, what stays in place,  *)
(* and the step of ArenaContract it is.                                    *)
Effect ==
  /\ Sound(chunks') /\ TiledIn(chunks', live')
  /\ live' \subseteq Allocation
  /\ grow' \in {"none", "malloc", "custom"}
  /\ freed' \subseteq {"caller", "malloc", "custom"}
  /\ chunks' # <<>> =>
       live \subseteq live' /\ Len(chunks) <= Len(chunks') /\ Extends(chunks', chunks)
  /\ Granted \/ live' = live \/ live' = {}

LEMMA InvParts ==
  ASSUME Inv
  PROVE  /\ Sound(chunks) /\ TiledIn(chunks, live) /\ live \subseteq Allocation
         /\ chunks \in Seq(Chunk) /\ Len(chunks) \in Nat
         /\ \A k \in DOMAIN chunks : chunks[k].used \in Nat
         /\ grow \in {"none", "malloc", "custom"}
         /\ freed \subseteq {"caller", "malloc", "custom"}
         /\ Extends(chunks, chunks)
<1>1. Sound(chunks) /\ TiledIn(chunks, live) /\ live \subseteq Allocation
      /\ chunks \in Seq(Chunk) /\ Len(chunks) \in Nat
      /\ grow \in {"none", "malloc", "custom"}
      /\ freed \subseteq {"caller", "malloc", "custom"}
  BY DEF Inv, TypeOK, Tiled, Sound, TiledIn
<1>2. \A k \in DOMAIN chunks : chunks[k].used \in Nat
  BY <1>1, BumpAligned
<1>3. Extends(chunks, chunks)
  BY <1>2 DEF Extends
<1>4. QED
  BY <1>1, <1>2, <1>3

LEMMA UnchangedEffect ==
  ASSUME Inv, UNCHANGED <<chunks, live, grow, freed>>
  PROVE  Effect
BY InvParts DEF Effect

(* The arena starts on one fresh chunk.                                    *)
LEMMA InitEffect ==
  ASSUME Inv, ~Ready, NEW c \in Chunk, c.used = 0, chunks' = <<c>>,
         grow' \in {"none", "malloc", "custom"}, UNCHANGED <<live, freed>>
  PROVE  Effect
<1>1. chunks = <<>> /\ live = {}
  BY DEF Ready, Inv, Tiled
<1>2. chunks' \in Seq(Chunk) /\ Len(chunks') = 1 /\ DOMAIN chunks' = {1} /\ chunks'[1] = c
  OBVIOUS
<1>3. Sound(chunks')
  BY <1>2, ArenaAssumption DEF Sound, Chunk
<1>4. TiledIn(chunks', live')
  BY <1>1, <1>2 DEF TiledIn
<1>5. Extends(chunks', chunks) /\ Len(chunks) <= Len(chunks')
  BY <1>1, <1>2 DEF Extends
<1>6. QED
  BY <1>1, <1>3, <1>4, <1>5, InvParts DEF Effect

(* A chunk goes on top, and perhaps an allocation into it.                 *)
LEMMA PushEffect ==
  ASSUME Inv, Ready, ~Full, NEW c \in Chunk, c.used = 0, UNCHANGED <<grow, freed>>,
         NEW size \in Nat,
         \/ chunks' = Pushed(c) /\ live' = live
         \/ Fits(Pushed(c), size) /\ Serve(Pushed(c), size)
  PROVE  Effect
<1>1. /\ Sound(Pushed(c)) /\ TiledIn(Pushed(c), live) /\ Pushed(c) # <<>>
      /\ Len(Pushed(c)) = Len(chunks) + 1
      /\ \A k \in DOMAIN chunks : Pushed(c)[k] = chunks[k]
  BY PushKeeps
<1>2. DOMAIN chunks = 1..Len(chunks) /\ DOMAIN Pushed(c) = 1..(Len(chunks) + 1)
      /\ Len(chunks) \in Nat
  BY <1>1, InvParts DEF Sound
<1>3. CASE chunks' = Pushed(c) /\ live' = live
  <2>1. Extends(chunks', chunks)
    BY <1>1, <1>3, InvParts DEF Extends
  <2>2. QED
    BY <1>1, <1>2, <1>3, <2>1, InvParts DEF Effect
<1>4. CASE Fits(Pushed(c), size) /\ Serve(Pushed(c), size)
  <2>1. /\ Sound(chunks') /\ TiledIn(chunks', live') /\ Len(chunks') = Len(Pushed(c))
        /\ Extends(chunks', Pushed(c)) /\ live \subseteq live' /\ live' \subseteq Allocation
        /\ Granted
    BY <1>1, <1>4, ServeKeeps DEF Inv
  <2>2. \A k \in DOMAIN chunks : chunks'[k] = chunks[k]
    BY <1>1, <1>2, <2>1 DEF Extends
  <2>3. Extends(chunks', chunks)
    BY <2>2, InvParts DEF Extends
  <2>4. QED
    BY <1>1, <1>2, <2>1, <2>3, InvParts DEF Effect
<1>5. QED
  BY <1>3, <1>4

LEMMA StepEffect ==
  ASSUME Inv, [Next]_vars
  PROVE  Effect
<1>1. ASSUME NEW cap \in FirstCaps, NEW g \in {"none", "malloc", "custom"}, InitArena(cap, g)
      PROVE  Effect
  <2>1. Fresh(cap, "caller") \in Chunk /\ Fresh(cap, "caller").used = 0
    BY ArenaAssumption DEF Fresh, Chunk
  <2>2. QED
    BY <1>1, <2>1, InitEffect DEF InitArena
<1>2. ASSUME NEW cap \in FirstCaps, InitMalloc(cap) PROVE Effect
  <2>1. Fresh(cap, "malloc") \in Chunk /\ Fresh(cap, "malloc").used = 0
    BY ArenaAssumption DEF Fresh, Chunk
  <2>2. QED
    BY <1>2, <2>1, InitEffect DEF InitMalloc
<1>3. ASSUME NEW cap \in FirstCaps, PushChunk(cap) PROVE Effect
  <2>1. Fresh(cap, "caller") \in Chunk /\ Fresh(cap, "caller").used = 0
    BY ArenaAssumption DEF Fresh, Chunk
  <2>2. 0 \in Nat /\ Ready /\ ~Full /\ UNCHANGED <<grow, freed>>
        /\ chunks' = Pushed(Fresh(cap, "caller")) /\ live' = live
    BY <1>3 DEF PushChunk
  <2>3. QED
    BY <2>1, <2>2, PushEffect
<1>4. ASSUME NEW size \in Sizes, TryAlloc(size) PROVE Effect
  <2>1. size \in Nat /\ TypeOK
    BY ArenaAssumption DEF Inv
  <2>2. Sound(chunks) /\ TiledIn(chunks, live) /\ chunks # <<>>
        /\ Fits(chunks, size) /\ Serve(chunks, size) /\ UNCHANGED <<grow, freed>>
    BY <1>4, InvParts DEF TryAlloc, Ready
  <2>3. /\ Sound(chunks') /\ TiledIn(chunks', live') /\ Len(chunks') = Len(chunks)
        /\ Extends(chunks', chunks) /\ live \subseteq live' /\ live' \subseteq Allocation
        /\ Granted
    BY <2>1, <2>2, ServeKeeps
  <2>4. QED
    BY <2>2, <2>3, InvParts DEF Effect
<1>5. ASSUME NEW size \in Sizes,
             AllocRefused(size) \/ AllocGrowFails(size) \/ AllocGrowUnusable(size)
      PROVE  Effect
  BY <1>5, UnchangedEffect DEF AllocRefused, AllocGrowFails, AllocGrowUnusable
<1>6. ASSUME NEW size \in Sizes, AllocGrows(size) PROVE Effect
  <2>1. size \in Nat /\ Ready /\ ~Full /\ UNCHANGED <<grow, freed>> /\ size # 0 /\ grow # "none"
    BY <1>6, ArenaAssumption DEF AllocGrows, MayGrow
  <2>2. PICK cap \in GrownCaps(Requested(size)) :
          /\ Usable(cap, size)
          /\ \/ Fits(Pushed(Fresh(cap, grow)), size) /\ Serve(Pushed(Fresh(cap, grow)), size)
             \/ chunks' = Pushed(Fresh(cap, grow)) /\ live' = live
    BY <1>6 DEF AllocGrows
  <2>3. cap \in Nat
    <3>1. \A m : MallocCaps(m) \subseteq 1..MaxSize
      BY DEF MallocCaps
    <3>2. \A m : GrownCaps(m) \subseteq (1..MaxSize) \cup CustomCaps
      BY <3>1 DEF GrownCaps
    <3>3. (1..MaxSize) \cup CustomCaps \subseteq Nat
      BY ArenaAssumption
    <3>4. cap \in (1..MaxSize) \cup CustomCaps
      BY <2>2, <3>2
    <3>5. QED
      BY <3>3, <3>4
  <2>4. cap \in 1..MaxSize
    BY <2>1, <2>2, <2>3, ArenaAssumption DEF Usable
  <2>5. Fresh(cap, grow) \in Chunk /\ Fresh(cap, grow).used = 0
    BY <2>1, <2>4, InvParts, ArenaAssumption DEF Fresh, Chunk
  <2>6. QED
    BY <2>1, <2>2, <2>5, PushEffect
<1>7. CASE FreeMalloc
  <2>1. chunks' = <<>> /\ live' = {} /\ grow' = "none"
    BY <1>7 DEF FreeMalloc
  <2>2. freed' \subseteq {"caller", "malloc", "custom"}
    <3>1. \A k \in DOMAIN chunks : chunks[k] \in Chunk
      BY InvParts, ElementOfSeq
    <3>2. QED
      BY <1>7, <3>1 DEF FreeMalloc, Chunk
  <2>3. Sound(chunks') /\ TiledIn(chunks', live')
    BY <2>1, ArenaAssumption DEF Sound, TiledIn
  <2>4. QED
    BY <2>1, <2>2, <2>3 DEF Effect
<1>8. CASE UNCHANGED vars
  BY <1>8, UnchangedEffect DEF vars
<1>9. QED
  BY <1>1, <1>2, <1>3, <1>4, <1>5, <1>6, <1>7, <1>8 DEF Next

LEMMA InvHolds == Spec => []Inv
<1>1. Init => Inv
  BY ArenaAssumption DEF Init, Inv, TypeOK, Tiled
<1>2. Inv /\ [Next]_vars => Inv'
  BY StepEffect DEF Effect, Sound, TiledIn, Inv, TypeOK, Tiled
<1>3. QED
  BY <1>1, <1>2, PTL DEF Spec

(* valid_arena holds between any two calls: chunk count and use stay in    *)
(* their bounds.                                                           *)
THEOREM TypeCorrect == Spec => []TypeOK
BY InvHolds, PTL DEF Inv

(* Live allocations are aligned, inside their chunk, disjoint with their   *)
(* padding, and account for every byte handed out.                         *)
THEOREM AllocationsTile == Spec => []Tiled
BY InvHolds, PTL DEF Inv

(* No call but free moves, shrinks or drops an allocation.                 *)
THEOREM PointersStayValid == Spec => Stable
<1>1. Inv /\ [Next]_vars =>
        [ chunks' # <<>> =>
            /\ live \subseteq live'
            /\ Len(chunks) <= Len(chunks')
            /\ \A k \in DOMAIN chunks :
                 /\ chunks'[k].cap = chunks[k].cap
                 /\ chunks'[k].used >= chunks[k].used
                 /\ k < Len(chunks) => chunks'[k] = chunks[k] ]_vars
  BY StepEffect DEF Effect, Extends
<1>2. QED
  BY <1>1, InvHolds, PTL DEF Spec, Stable

(* The arena implements ArenaContract: a caller sees aligned blocks        *)
(* granted apart from each other and released together.                    *)
THEOREM ArenaImplementsContract == Spec => ImplementsContract
<1>1. Init => Contract!Init
  BY DEF Init, Contract!Init
<1>2. Inv /\ [Next]_vars => [Contract!Grant \/ Contract!FreeAll]_live
  <2>1. SUFFICES ASSUME Inv, [Next]_vars PROVE [Contract!Grant \/ Contract!FreeAll]_live
    OBVIOUS
  <2>2. Granted \/ live' = live \/ live' = {}
    BY <2>1, StepEffect DEF Effect
  <2>3. Granted => Contract!Grant
    BY DEF Granted, Disjoint, Contract!Grant, Contract!Apart, Contract!Allocation, Allocation,
       Contract!Align, Align
  <2>4. QED
    BY <2>2, <2>3 DEF Contract!FreeAll
<1>3. QED
  BY <1>1, <1>2, InvHolds, PTL DEF Spec, ImplementsContract, Contract!Spec

-----------------------------------------------------------------------------
(* Sums of capacities. *)
LEMMA Smallest ==
  ASSUME NEW S \in SUBSET Nat, S # {}
  PROVE  \E x \in S : \A y \in S : x <= y
<1>1. \E x \in S : \A y \in S : <<y, x>> \notin OpToRel(<, Nat)
  BY NatLessThanWellFounded, WFMin
<1>2. \E x \in S : \A y \in S : ~(y < x)
  BY <1>1 DEF OpToRel
<1>3. QED
  BY <1>2

LEMMA CapOfIs ==
  ASSUME NEW cs, Len(cs) \in Nat
  PROVE  /\ CapOf(cs, 0) = 0
         /\ \A k \in 1..Len(cs) : CapOf(cs, k) = CapOf(cs, k - 1) + cs[k].cap
<1> DEFINE n == Len(cs)
           Step(g, i) == IF i = 0 THEN 0 ELSE g[i - 1] + cs[i].cap
           After(g, m) == g = [i \in 0..m |-> Step(g, i)]
           Bad == {m \in Nat : m <= n /\ ~\E g : After(g, m)}
<1>1. Bad = {}
  <2> SUFFICES ASSUME Bad # {} PROVE FALSE
    OBVIOUS
  <2>1. PICK m \in Bad : \A k \in Bad : m <= k
    BY Smallest
  <2>2. CASE m = 0
    <3> DEFINE g == [i \in 0..m |-> 0]
    <3>1. \A i \in 0..m : i = 0
      BY <2>2
    <3>2. After(g, m)
      BY <3>1
    <3>3. QED
      BY <2>1, <3>2
  <2>3. CASE m # 0
    <3>1. m \in Nat /\ m - 1 \in Nat /\ m - 1 <= n /\ ~(m <= m - 1)
      BY <2>1, <2>3
    <3>2. m - 1 \notin Bad
      BY <2>1, <3>1
    <3>3. PICK g : After(g, m - 1)
      BY <3>1, <3>2
    <3> DEFINE h == [i \in 0..m |-> Step(g, i)]
    <3>4. ASSUME NEW i \in 0..m, i # 0
          PROVE  h[i - 1] = g[i - 1]
      <4>1. i - 1 \in 0..(m - 1) /\ i - 1 \in 0..m
        BY <3>1, <3>4
      <4>2. h[i - 1] = Step(g, i - 1)
        BY <4>1
      <4>3. g[i - 1] = Step(g, i - 1)
        BY <3>3, <4>1
      <4>4. QED
        BY <4>2, <4>3
    <3>5. h = [i \in 0..m |-> Step(g, i)]
      OBVIOUS
    <3> HIDE DEF h
    <3>6. \A i \in 0..m : Step(h, i) = Step(g, i)
      BY <3>4
    <3> HIDE DEF Step
    <3>7. [i \in 0..m |-> Step(h, i)] = [i \in 0..m |-> Step(g, i)]
      BY <3>6
    <3>8. After(h, m)
      BY <3>5, <3>7
    <3>9. QED
      BY <2>1, <3>8
  <2>4. QED
    BY <2>2, <2>3
<1>2. \E g : After(g, n)
  <2> HIDE DEF After
  <2>1. n \in Nat /\ n <= n /\ n \notin Bad
    <3>1. n <= n
      OBVIOUS
    <3> HIDE DEF Bad
    <3>2. n \notin Bad
      BY <1>1
    <3>3. QED
      BY <3>1, <3>2
  <2>2. QED
    BY <2>1
<1> DEFINE total == CHOOSE g : After(g, n)
<1>3. After(total, n)
  BY <1>2
<1>4. \A k : CapOf(cs, k) = total[k]
  BY DEF CapOf
<1> HIDE DEF total
<1>5. total[0] = 0
  BY <1>3
<1>6. ASSUME NEW k \in 1..n
      PROVE  total[k] = total[k - 1] + cs[k].cap
  <2>1. k \in 0..n /\ k # 0
    OBVIOUS
  <2>2. QED
    BY <1>3, <2>1
<1>7. QED
  BY <1>4, <1>5, <1>6

(* Lists of chunks with the same capacities have the same sums.            *)
LEMMA SameSums ==
  ASSUME NEW cs, NEW ds, Len(cs) \in Nat, Len(ds) \in Nat, NEW n \in Nat, n <= Len(cs), n <= Len(ds),
         \A k \in 1..n : ds[k].cap = cs[k].cap
  PROVE  \A k \in 0..n : CapOf(ds, k) = CapOf(cs, k)
<1> DEFINE Odd == {k \in 0..n : CapOf(ds, k) # CapOf(cs, k)}
<1> SUFFICES ASSUME Odd # {} PROVE FALSE
  OBVIOUS
<1>1. PICK k \in Odd : \A j \in Odd : k <= j
  <2>1. Odd \in SUBSET Nat
    OBVIOUS
  <2>2. Odd # {}
    OBVIOUS
  <2> HIDE DEF Odd
  <2>3. QED
    BY <2>1, <2>2, Smallest
<1>2. k # 0
  BY <1>1, CapOfIs
<1>3. k \in 1..n /\ k - 1 \in 0..n /\ ~(k <= k - 1) /\ k \in 1..Len(cs) /\ k \in 1..Len(ds)
  BY <1>1, <1>2
<1>4. CapOf(ds, k - 1) = CapOf(cs, k - 1)
  BY <1>1, <1>3
<1>5. CapOf(ds, k) = CapOf(ds, k - 1) + ds[k].cap /\ CapOf(cs, k) = CapOf(cs, k - 1) + cs[k].cap
  BY <1>3, CapOfIs
<1>6. QED
  BY <1>1, <1>3, <1>4, <1>5

(* A page is no less than what is rounded up to it.                        *)
LEMMA PageUpCovers ==
  ASSUME NEW n \in Nat
  PROVE  PageUp(n) >= n
<1> DEFINE p == Page
           x == n + p - 1
           q == x \div p
<1>1. p \in Nat /\ p > 0 /\ x \in Nat
  BY ArenaAssumption
<1>2. q \in Int /\ x < (q + 1) * p
  BY <1>1
<1>3. (q + 1) * p = q * p + p /\ q * p \in Int
  BY <1>1, <1>2
<1>4. PageUp(n) = q * p
  BY DEF PageUp
<1> HIDE DEF q
<1>5. QED
  BY <1>1, <1>2, <1>3, <1>4

(* GrowthDoubles of a list of chunks.                                      *)
Doubling(cs) ==
  \A k \in 1..Len(cs) : k > 1 /\ cs[k].from = "malloc" => cs[k].cap >= CapOf(cs, k - 1)

(* The lists a step makes of cs: the same chunks, and perhaps one on top,  *)
(* no smaller than their sum when gremlind_malloc_grow made it.            *)
LEMMA DoublingKept ==
  ASSUME NEW cs, NEW ds, NEW n \in Nat, NEW m \in Nat, n = Len(cs), m = Len(ds),
         n <= m, m <= n + 1, Doubling(cs),
         \A k \in 1..n : ds[k].cap = cs[k].cap /\ ds[k].from = cs[k].from,
         m = n + 1 /\ m > 1 /\ ds[m].from = "malloc" => ds[m].cap >= CapOf(cs, n)
  PROVE  Doubling(ds)
<1>1. \A k \in 0..n : CapOf(ds, k) = CapOf(cs, k)
  BY SameSums
<1> SUFFICES ASSUME NEW k \in 1..m, k > 1, ds[k].from = "malloc"
             PROVE  ds[k].cap >= CapOf(ds, k - 1)
  BY DEF Doubling
<1>2. CASE k <= n
  <2>1. k \in 1..n /\ k - 1 \in 0..n
    BY <1>2
  <2>2. ds[k].cap = cs[k].cap /\ cs[k].from = "malloc" /\ CapOf(ds, k - 1) = CapOf(cs, k - 1)
    BY <1>1, <2>1
  <2>3. cs[k].cap >= CapOf(cs, k - 1)
    BY <2>1, <2>2 DEF Doubling
  <2>4. QED
    BY <2>2, <2>3
<1>3. CASE k > n
  <2>1. k = m /\ m = n + 1 /\ k - 1 = n /\ n \in 0..n
    BY <1>3
  <2>2. CapOf(ds, k - 1) = CapOf(cs, n)
    BY <1>1, <2>1
  <2>3. QED
    BY <2>1, <2>2
<1>4. QED
  BY <1>2, <1>3

(* A step puts at most one chunk on top; one made by gremlind_malloc_grow  *)
(* is no smaller than all those below it together.                         *)
NewTop ==
  /\ Len(chunks') <= Len(chunks) + 1
  /\ Ready /\ Len(chunks') = Len(chunks) + 1 /\ chunks'[Len(chunks')].from = "malloc" =>
       chunks'[Len(chunks')].cap >= TotalCap

LEMMA SumIsNatural ==
  ASSUME Inv
  PROVE  TotalCap \in Nat
<1>1. PICK n \in Nat : n = Len(chunks)
  BY InvParts
<1> DEFINE Odd == {k \in 0..n : CapOf(chunks, k) \notin Nat}
<1>2. Odd = {}
  <2> SUFFICES ASSUME Odd # {} PROVE FALSE
    OBVIOUS
  <2>1. PICK k \in Odd : \A j \in Odd : k <= j
    <3>1. Odd \in SUBSET Nat
      OBVIOUS
    <3>2. Odd # {}
      OBVIOUS
    <3> HIDE DEF Odd
    <3>3. QED
      BY <3>1, <3>2, Smallest
  <2>2. k # 0
    BY <1>1, <2>1, CapOfIs
  <2>3. k \in 1..n /\ k - 1 \in 0..n /\ ~(k <= k - 1)
    BY <2>1, <2>2
  <2>4. CapOf(chunks, k - 1) \in Nat
    BY <2>1, <2>3
  <2>5. CapOf(chunks, k) = CapOf(chunks, k - 1) + chunks[k].cap
    BY <1>1, <2>3, CapOfIs
  <2>6. chunks[k] \in Chunk
    BY <1>1, <2>3, InvParts, ElementOfSeq
  <2>7. chunks[k].cap \in Nat
    BY <2>6, ArenaAssumption DEF Chunk
  <2>8. QED
    BY <2>1, <2>4, <2>5, <2>7
<1>3. n \in 0..n
  OBVIOUS
<1>4. QED
  BY <1>1, <1>2, <1>3 DEF TotalCap

(* What gremlind_malloc_grow answers covers what it was asked for.         *)
LEMMA MallocCovers ==
  ASSUME NEW n \in Nat, NEW cap \in MallocCaps(n)
  PROVE  cap >= n
<1>1. cap = n \/ cap = PageUp(n)
  BY DEF MallocCaps
<1>2. QED
  BY <1>1, PageUpCovers

LEMMA StepsTop ==
  ASSUME Inv, [Next]_vars
  PROVE  NewTop
<1>0. Len(chunks) \in Nat /\ chunks \in Seq(Chunk)
  BY InvParts
<1>1. ASSUME Len(chunks') <= Len(chunks), Len(chunks') \in Nat PROVE NewTop
  BY <1>0, <1>1 DEF NewTop
<1>2. ASSUME UNCHANGED chunks PROVE NewTop
  BY <1>0, <1>2 DEF NewTop
<1>3. ASSUME NEW c, ~Ready, chunks' = <<c>> PROVE NewTop
  <2>1. Len(chunks') = 1
    BY <1>3
  <2>2. QED
    BY <1>0, <1>3, <2>1 DEF NewTop
<1>4. ASSUME NEW cap \in FirstCaps, PushChunk(cap) PROVE NewTop
  <2>1. chunks' = Append(chunks, Fresh(cap, "caller"))
    BY <1>4 DEF PushChunk, Pushed
  <2>2. Len(chunks') = Len(chunks) + 1 /\ chunks'[Len(chunks) + 1] = Fresh(cap, "caller")
    BY <1>0, <2>1, ArenaAssumption DEF Fresh, Chunk
  <2>3. QED
    BY <1>0, <2>2 DEF NewTop, Fresh
<1>5. ASSUME NEW size \in Sizes, TryAlloc(size) PROVE NewTop
  <2>1. chunks' = [chunks EXCEPT ![Len(chunks)].used = @ + RoundUp(size)]
    BY <1>5 DEF TryAlloc, Serve
  <2>2. Len(chunks') = Len(chunks)
    BY <1>0, <2>1
  <2>3. QED
    BY <1>0, <2>2 DEF NewTop
<1>6. ASSUME NEW size \in Sizes, AllocGrows(size) PROVE NewTop
  <2>1. size \in Nat /\ Ready /\ ~Full /\ grow # "none" /\ TypeOK
    BY <1>6, ArenaAssumption DEF AllocGrows, MayGrow, Inv
  <2>2. PICK cap \in GrownCaps(Requested(size)) :
          /\ Usable(cap, size)
          /\ \/ Fits(Pushed(Fresh(cap, grow)), size) /\ Serve(Pushed(Fresh(cap, grow)), size)
             \/ chunks' = Pushed(Fresh(cap, grow)) /\ live' = live
    BY <1>6 DEF AllocGrows
  <2>3. Requested(size) \in Nat /\ Requested(size) >= TotalCap
    BY <2>1, SumIsNatural DEF Requested
  <2>4. grow = "malloc" => cap >= TotalCap
    <3> SUFFICES ASSUME grow = "malloc" PROVE cap >= TotalCap
      OBVIOUS
    <3>1. cap \in MallocCaps(Requested(size))
      BY <2>2 DEF GrownCaps
    <3>2. cap >= Requested(size) /\ cap \in Int
      <4>1. cap \in Int
        BY <3>1 DEF MallocCaps
      <4>2. QED
        BY <2>3, <3>1, <4>1, MallocCovers
    <3>3. QED
      BY <2>3, <3>2, SumIsNatural
  <2>5. cap \in 1..MaxSize
    <3>1. \A m : MallocCaps(m) \subseteq 1..MaxSize
      BY DEF MallocCaps
    <3>2. cap \in (1..MaxSize) \cup CustomCaps
      BY <2>2, <3>1 DEF GrownCaps
    <3>3. cap \in Nat
      BY <3>2, ArenaAssumption
    <3>4. size # 0
      BY <1>6 DEF AllocGrows, MayGrow
    <3>5. QED
      BY <2>1, <2>2, <3>3, <3>4, ArenaAssumption DEF Usable
  <2> DEFINE c == Fresh(cap, grow)
  <2>6. c \in Chunk /\ c.used = 0 /\ c.cap = cap /\ c.from = grow
    BY <2>1, <2>5, InvParts, ArenaAssumption DEF Fresh, Chunk
  <2> HIDE DEF c
  <2>7. /\ Sound(Pushed(c)) /\ TiledIn(Pushed(c), live) /\ Pushed(c) # <<>>
        /\ Len(Pushed(c)) = Len(chunks) + 1
    BY <2>1, <2>6, PushKeeps
  <2>8. Pushed(c)[Len(chunks) + 1] = c
    BY <1>0, <2>6 DEF Pushed
  <2>9. /\ Len(chunks') = Len(chunks) + 1
        /\ chunks'[Len(chunks) + 1].cap = cap /\ chunks'[Len(chunks) + 1].from = grow
    <3>1. CASE chunks' = Pushed(c)
      BY <2>6, <2>7, <2>8, <3>1
    <3>2. CASE Fits(Pushed(c), size) /\ Serve(Pushed(c), size)
      <4>1. Len(chunks') = Len(Pushed(c)) /\ Extends(chunks', Pushed(c))
        BY <2>1, <2>7, <3>2, ServeKeeps
      <4>2. Len(chunks) + 1 \in DOMAIN Pushed(c)
        <5>1. DOMAIN Pushed(c) = 1..Len(Pushed(c))
          BY <2>7 DEF Sound
        <5>2. QED
          BY <1>0, <2>7, <5>1
      <4>3. QED
        BY <2>6, <2>7, <2>8, <4>1, <4>2 DEF Extends
    <3>3. QED
      BY <2>2, <3>1, <3>2 DEF c
  <2>10. QED
    BY <1>0, <2>4, <2>9 DEF NewTop
<1>7. CASE FreeMalloc
  <2>1. Len(chunks') = 0
    BY <1>7 DEF FreeMalloc
  <2>2. QED
    BY <1>0, <1>1, <2>1
<1>8. QED
  BY <1>2, <1>3, <1>4, <1>5, <1>6, <1>7
  DEF Next, vars, InitArena, InitMalloc, AllocRefused, AllocGrowFails, AllocGrowUnusable

(* "Geometric growth": a chunk the malloc-backed callback adds is at least *)
(* as large as all the chunks below it, whatever the mix of chunks the     *)
(* caller pushed, so the capacity doubles each time.                       *)
THEOREM GrowthIsGeometric == Spec => []GrowthDoubles
<1>1. Inv /\ Doubling(chunks) => GrowthDoubles
  <2>1. Inv => DOMAIN chunks = 1..Len(chunks)
    BY InvParts
  <2>2. QED
    BY <2>1 DEF GrowthDoubles, Doubling
<1> DEFINE D == Doubling(chunks)
<1>2. Init => D
  BY DEF Init, Doubling
<1>3. Inv /\ D /\ [Next]_vars => D'
  <2> SUFFICES ASSUME Inv, Doubling(chunks), [Next]_vars PROVE Doubling(chunks')
    OBVIOUS
  <2>1. Effect /\ NewTop
    BY StepEffect, StepsTop
  <2>2. PICK n \in Nat : n = Len(chunks)
    BY InvParts
  <2>3. PICK m \in Nat : m = Len(chunks')
    BY <2>1 DEF Effect, Sound
  <2>4. CASE m <= 1
    BY <2>3, <2>4 DEF Doubling
  <2>5. CASE m > 1
    <3>1. chunks' # <<>>
      BY <2>3, <2>5
    <3>2. n <= m /\ m <= n + 1 /\ Extends(chunks', chunks)
      BY <2>1, <2>2, <2>3, <3>1 DEF Effect, NewTop
    <3>3. \A k \in 1..n : chunks'[k].cap = chunks[k].cap /\ chunks'[k].from = chunks[k].from
      BY <2>2, <3>2, InvParts DEF Extends
    <3>4. Ready
      BY <2>2, <2>5, <3>2 DEF Ready
    <3>5. m = n + 1 /\ m > 1 /\ chunks'[m].from = "malloc" => chunks'[m].cap >= CapOf(chunks, n)
      BY <2>1, <2>2, <2>3, <3>4 DEF NewTop, TotalCap
    <3>6. QED
      BY <2>2, <2>3, <3>2, <3>3, <3>5, DoublingKept
  <2>6. QED
    BY <2>4, <2>5
<1>4. Inv /\ D => GrowthDoubles
  BY <1>1
<1> HIDE DEF D
<1>5. QED
  BY <1>2, <1>3, <1>4, InvHolds, PTL DEF Spec
=============================================================================
