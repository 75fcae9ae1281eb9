------------------------------ MODULE FreeList ------------------------------
(***************************************************************************)
(* What a region managed by BlockAllocators promises its users: a stack of *)
(* free blocks, from which Allocate() takes the top and onto which Free()  *)
(* puts a block, each in one step.  BlockAllocator.tla, whose threads work *)
(* on the block headers without a lock, is shown to implement this module. *)
(***************************************************************************)
EXTENDS Naturals, Sequences

CONSTANTS Threads, NumBlocks

VARIABLES free,   \* the free blocks; the most recently freed one comes first
          held    \* the blocks each thread has allocated

Init ==
    /\ free = [k \in 1 .. NumBlocks - 1 |-> k]
    /\ held = [t \in Threads |-> {}]

Allocate(t) ==
    /\ free # <<>>
    /\ held' = [held EXCEPT ![t] = @ \cup {Head(free)}]
    /\ free' = Tail(free)

Free(t, b) ==
    /\ b \in held[t]
    /\ held' = [held EXCEPT ![t] = @ \ {b}]
    /\ free' = <<b>> \o free

Next == \E t \in Threads : Allocate(t) \/ \E b \in held[t] : Free(t, b)

Spec == Init /\ [][Next]_<<free, held>>
============================================================================
