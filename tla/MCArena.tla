------------------------------ MODULE MCArena ------------------------------
(* Small arenas for TLC.  MaxSize is 6 mod 8, as 0x7FFFFFFE is; the sizes  *)
(* are 0, one unit, what a chunk of malloc_grow is too small for once      *)
(* rounded (17, as 32 exceeds MaxSize), and more than try_alloc serves.    *)
EXTENDS Arena

MCFirstCaps  == {5, 16}
MCCustomCaps == {17, 24, 32}
MCSizes      == {0, 1, 8, 17, 24}
=============================================================================
