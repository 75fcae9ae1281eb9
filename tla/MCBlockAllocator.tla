-------------------------- MODULE MCBlockAllocator --------------------------
(* Threads that share a region of three allocable blocks; what the          *)
(* application writes may look like a valid index, or overflow.             *)
EXTENDS BlockAllocator

MCData == {-1, 0, 32767}
============================================================================
