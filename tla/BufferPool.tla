----------------------------- MODULE BufferPool -----------------------------
(***************************************************************************)
(* BufferPool and BlockAllocatorPool: what one side of a NodeLink knows of *)
(* the link's buffers of shared memory.  A pool is a record: the ids of    *)
(* the buffers mapped here, for every block size the list of the buffers   *)
(* that have an allocator of that size, in the order of their addition,    *)
(* the index of the allocator used last, and the callbacks that wait for a *)
(* buffer.  The blocks themselves are shared by the two sides: which are   *)
(* free is not part of a pool.  A BlockAllocator is taken for what module  *)
(* BlockAllocator shows it to be, a set of free blocks.                    *)
(***************************************************************************)
EXTENDS Naturals, Sequences, FiniteSetsExt, Functions, TLC

EmptyMap == [x \in {} |-> x]

EmptyPool ==
  [mappings |-> {}, entries |-> EmptyMap, active |-> EmptyMap, waiting |-> EmptyMap]

\* Fragment::PendingFromDescriptor: the fragment's buffer is not mapped yet.
GetFragmentIsPending(pool, buffer) == buffer \notin pool.mappings

\* BlockAllocatorPool::Add.  The first entry becomes the active one.
Add(pool, size, buffer) ==
  IF size \in DOMAIN pool.entries
  THEN [pool EXCEPT !.entries[size] = Append(@, buffer)]
  ELSE [pool EXCEPT !.entries = @ @@ (size :> <<buffer>>),
                    !.active = @ @@ (size :> 1)]

RECURSIVE AddAll(_, _, _)
AddAll(pool, sizes, buffer) ==
  IF sizes = {} THEN pool
  ELSE LET size == Min(sizes) IN AddAll(Add(pool, size, buffer), sizes \ {size}, buffer)

\* BufferPool::AddBlockBuffer, for a buffer that is not mapped yet, and the
\* callbacks that it makes after that.
AddBlockBuffer(pool, buffer, sizes) ==
  [AddAll(pool, sizes, buffer) EXCEPT
     !.mappings = @ \cup {buffer},
     !.waiting = Restrict(@, DOMAIN @ \ {buffer})]

Waiting(pool, buffer) ==
  IF buffer \in DOMAIN pool.waiting THEN pool.waiting[buffer] ELSE <<>>

\* BufferPool::WaitForBufferAsync for a buffer that is not mapped yet.
WaitForBuffer(pool, buffer, callback) ==
  [pool EXCEPT !.waiting = (buffer :> Append(Waiting(pool, buffer), callback)) @@ @]

\* The pool that AllocateBlock takes its block from, std::map::lower_bound.
LowerBound(pool, size) == {s \in DOMAIN pool.entries : s >= size}
HasPool(pool, size) == LowerBound(pool, size) # {}
PoolFor(pool, size) == Min(LowerBound(pool, size))

\* BufferPool::GetTotalBlockCapacity, in bytes.
GetTotalBlockCapacity(pool, size, blocks) ==
  IF size \in DOMAIN pool.entries
  THEN Len(pool.entries[size]) * blocks * size ELSE 0
=============================================================================
