----------------------------- MODULE MCAllocator -----------------------------
(* Blocks of three versions and a floor of two versions per tick: a block  *)
(* lasts longer than a tick, as 10000 versions do against 1024 per         *)
(* millisecond.                                                            *)
EXTENDS Allocator
=============================================================================
