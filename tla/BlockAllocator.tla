--------------------------- MODULE BlockAllocator ---------------------------
(***************************************************************************)
(* BlockAllocator: threads of two processes which allocate and free the    *)
(* blocks of one region of shared memory.  The free blocks form a list     *)
(* through their own headers, and block 0 is never allocated: its header   *)
(* points to the first free block and carries a version, so that a         *)
(* compare-exchange on it fails if the list has changed since it was read. *)
(*                                                                         *)
(* Once allocated, a block belongs to the application, header included, so *)
(* a thread which is late may read anything at all there.                  *)
(***************************************************************************)
EXTENDS Integers, Sequences, FiniteSets

CONSTANTS Threads,      \* the threads which share the region
          NumBlocks,    \* the blocks it is divided into, block 0 included
          Data,         \* what the application may leave in the header of a block it holds
          MaxUpdates    \* bound on the number of calls that may succeed

\* The constructor checks that an index fits into an int16_t, and a block besides
\* block 0 is needed for InitializeRegion().  Versions do not come round.
ASSUME AllocatorAssumption ==
    /\ IsFiniteSet(Threads)
    /\ NumBlocks \in Nat /\ 2 <= NumBlocks /\ NumBlocks <= 32767
    /\ Data \subseteq Int
    /\ MaxUpdates \in Nat /\ MaxUpdates < 65536

kFrontBlockIndex == 0

Blocks == 1 .. NumBlocks - 1

\* BlockHeader::version is a uint16_t.
VersionAfter(v) == (v + 1) % 65536

IsIndexValid(i) == i \in 0 .. NumBlocks - 1

\* Indices are of type int16_t, and overflow is ignored.
Int16(i) == ((i + 32768) % 65536) - 32768

\* ForBaseIndex: `next` is relative to the successor of the header's own block.
RelativeIndex(base, i) == Int16(i - base - 1)

AbsoluteIndex(base, rel) == Int16(base + rel + 1)

VARIABLES front,    \* the header of block 0: its version and next
          next,     \* `next` in the header of every other block
          pc,       \* where each thread is in Allocate() or Free(), or "idle"
          known,    \* its copy of the front header
          block,    \* the block it wants to claim, or to free
          second,   \* the block it believes to be the next free one
          owned     \* the blocks each thread holds

vars == <<front, next, pc, known, block, second, owned>>

\* InitializeRegion(): zeroes make every block point to its successor.
Init ==
    /\ front = [version |-> 0, next |-> 0]
    /\ next = [b \in Blocks |->
                  IF b = NumBlocks - 1 THEN RelativeIndex(b, kFrontBlockIndex) ELSE 0]
    /\ pc = [t \in Threads |-> "idle"]
    /\ known = [t \in Threads |-> front]
    /\ block = [t \in Threads |-> kFrontBlockIndex]
    /\ second = [t \in Threads |-> kFrontBlockIndex]
    /\ owned = [t \in Threads |-> {}]

\* The free blocks, in the order of the list (cut off if it went in circles).
FreeBlocks ==
    LET at[k \in 1 .. NumBlocks] ==
            IF k = 1 THEN AbsoluteIndex(kFrontBlockIndex, front.next)
            ELSE IF at[k - 1] \in Blocks THEN AbsoluteIndex(at[k - 1], next[at[k - 1]])
            ELSE kFrontBlockIndex
        onList == {k \in 1 .. NumBlocks : \A j \in 1 .. k : at[j] \in Blocks}
    IN  [k \in onList |-> at[k]]

MayBegin(t) ==
    /\ pc[t] = "idle"
    /\ front.version + Cardinality({u \in Threads : pc[u] # "idle"}) < MaxUpdates

Return(t) ==
    /\ pc' = [pc EXCEPT ![t] = "idle"]
    /\ known' = [known EXCEPT ![t] = [version |-> 0, next |-> 0]]
    /\ block' = [block EXCEPT ![t] = kFrontBlockIndex]
    /\ second' = [second EXCEPT ![t] = kFrontBlockIndex]

---------------------------------------------------------------------------
(* Allocate() *)

\* The head of the loop, with the front header just loaded.
FindFirst(t) ==
    LET first == AbsoluteIndex(kFrontBlockIndex, front.next)
    IN  IF first = kFrontBlockIndex \/ ~IsIndexValid(first)
        THEN Return(t)
        ELSE /\ pc' = [pc EXCEPT ![t] = "load"]
             /\ known' = [known EXCEPT ![t] = front]
             /\ block' = [block EXCEPT ![t] = first]
             /\ UNCHANGED second

BeginAllocate(t) ==
    /\ MayBegin(t)
    /\ FindFirst(t)
    /\ UNCHANGED <<front, next, owned>>

\* Mutant: the index found in the header is not validated.
LoadHeaderUnchecked(t) ==
    /\ pc[t] = "load"
    /\ pc' = [pc EXCEPT ![t] = "claim"]
    /\ second' = [second EXCEPT ![t] = AbsoluteIndex(block[t], next[block[t]])]
    /\ UNCHANGED <<front, next, known, block, owned>>

\* The header of a block which another thread may have claimed by now.
LoadHeader(t) ==
    LET following == AbsoluteIndex(block[t], next[block[t]])
    IN  /\ pc[t] = "load"
        /\ IF IsIndexValid(following)
           THEN /\ pc' = [pc EXCEPT ![t] = "claim"]
                /\ second' = [second EXCEPT ![t] = following]
                /\ UNCHANGED <<known, block>>
           ELSE Return(t)
        /\ UNCHANGED <<front, next, owned>>

\* Mutant: the version stays the same.
UpdateFrontHeaderUnversioned(t, first) ==
    /\ front = known[t]
    /\ front' = [version |-> known[t].version, next |-> RelativeIndex(kFrontBlockIndex, first)]

\* TryUpdateFrontHeader(), when its compare-exchange succeeds.
UpdateFrontHeader(t, first) ==
    /\ front = known[t]
    /\ front' = [version |-> VersionAfter(known[t].version),
                 next |-> RelativeIndex(kFrontBlockIndex, first)]

Claim(t) ==
    /\ pc[t] = "claim"
    /\ UpdateFrontHeader(t, second[t])
    /\ owned' = [owned EXCEPT ![t] = @ \cup {block[t]}]
    /\ Return(t)
    /\ UNCHANGED next

\* The compare-exchange fails, possibly spuriously, and reloads the header.
ClaimRetry(t) ==
    /\ pc[t] = "claim"
    /\ FindFirst(t)
    /\ UNCHANGED <<front, next, owned>>

---------------------------------------------------------------------------
(* Free(), and what the application does meanwhile *)

\* The application writes to a block it holds.
Write(t, b, data) ==
    /\ pc[t] = "idle" /\ b \in owned[t]
    /\ next' = [next EXCEPT ![b] = data]
    /\ UNCHANGED <<front, pc, known, block, second, owned>>

BeginFree(t, b) ==
    /\ MayBegin(t) /\ b \in owned[t]
    /\ pc' = [pc EXCEPT ![t] = "link"]
    /\ known' = [known EXCEPT ![t] = front]
    /\ block' = [block EXCEPT ![t] = b]
    /\ UNCHANGED <<front, next, second, owned>>

\* Mutant: the block is linked to the end of the list, whatever is free.
LinkToFront(t) ==
    /\ pc[t] = "link"
    /\ next' = [next EXCEPT ![block[t]] = RelativeIndex(block[t], kFrontBlockIndex)]
    /\ pc' = [pc EXCEPT ![t] = "release"]
    /\ UNCHANGED <<front, known, block, second, owned>>

\* SetNextFreeBlock(): the block will be followed by the present head of the list.
Link(t) ==
    LET first == AbsoluteIndex(kFrontBlockIndex, known[t].next)
    IN  /\ pc[t] = "link"
        /\ IF IsIndexValid(first)
           THEN /\ next' = [next EXCEPT ![block[t]] = RelativeIndex(block[t], first)]
                /\ pc' = [pc EXCEPT ![t] = "release"]
                /\ UNCHANGED <<known, block, second>>
           ELSE Return(t) /\ UNCHANGED next
        /\ UNCHANGED <<front, owned>>

Release(t) ==
    /\ pc[t] = "release"
    /\ UpdateFrontHeader(t, block[t])
    /\ owned' = [owned EXCEPT ![t] = @ \ {block[t]}]
    /\ Return(t)
    /\ UNCHANGED next

ReleaseRetry(t) ==
    /\ pc[t] = "release"
    /\ pc' = [pc EXCEPT ![t] = "link"]
    /\ known' = [known EXCEPT ![t] = front]
    /\ UNCHANGED <<front, next, block, second, owned>>

---------------------------------------------------------------------------

Use(t, b) == BeginFree(t, b) \/ \E data \in Data : Write(t, b, data)

Run(t) ==
    \/ LoadHeader(t) \/ Claim(t) \/ ClaimRetry(t)
    \/ Link(t) \/ Release(t) \/ ReleaseRetry(t)

Next == \E t \in Threads : BeginAllocate(t) \/ Run(t) \/ \E b \in Blocks : Use(t, b)

Spec == Init /\ [][Next]_vars

---------------------------------------------------------------------------
(* Properties *)

Headers == [version : 0 .. MaxUpdates, next : -1 .. NumBlocks - 2]

\* The state of the region and of the threads; in particular, no index that a
\* compare-exchange may store into the front header is out of range.
TypeOK ==
    /\ front \in Headers
    /\ next \in [Blocks -> Int]
    /\ pc \in [Threads -> {"idle", "load", "claim", "link", "release"}]
    /\ known \in [Threads -> Headers]
    /\ block \in [Threads -> 0 .. NumBlocks - 1]
    /\ second \in [Threads -> 0 .. NumBlocks - 1]
    /\ owned \in [Threads -> SUBSET Blocks]

\* The blocks f[1], ..., f[n], all different, form the list that starts in the
\* front header, and they are those that no thread holds.
IsFreeList(n, f) ==
    /\ AbsoluteIndex(kFrontBlockIndex, front.next) = IF n = 0 THEN kFrontBlockIndex ELSE f[1]
    /\ \A k \in 1 .. n :
          AbsoluteIndex(f[k], next[f[k]]) = IF k = n THEN kFrontBlockIndex ELSE f[k + 1]
    /\ \A j, k \in 1 .. n : f[j] = f[k] => j = k
    /\ \A b \in Blocks : (\E k \in 1 .. n : f[k] = b) <=> \A t \in Threads : b \notin owned[t]

\* No block is ever handed out twice, and none gets lost: at any time every block
\* is either held by exactly one thread or exactly once on the free list, however
\* stale the headers are which racing Allocate() and Free() calls work with.
BlocksAreAccountedFor ==
    /\ \A t, u \in Threads : t # u => owned[t] \cap owned[u] = {}
    /\ \E n \in 0 .. NumBlocks - 1 : \E f \in [1 .. n -> Blocks] : IsFreeList(n, f)

\* Every successful call takes effect in one step, at its compare-exchange, and
\* the blocks are reused last in, first out: the allocator implements FreeList.
List == INSTANCE FreeList WITH free <- FreeBlocks, held <- owned

ImplementsFreeList == List!Spec
============================================================================
