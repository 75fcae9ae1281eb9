------------------------ MODULE BlockAllocatorProofs ------------------------
(***************************************************************************)
(* Proofs about BlockAllocator: for any number of threads and of blocks,   *)
(* and whatever the application writes into the blocks that it holds, no   *)
(* block is handed out twice, none gets lost, and each successful call     *)
(* takes effect in one step, as FreeList promises.                         *)
(***************************************************************************)
EXTENDS BlockAllocator, FiniteSetTheorems, SequenceTheorems, DataInduction, TLAPS

Busy == {u \in Threads : pc[u] # "idle"}

\* There is a free list, of whatever length.
Chained == \E n \in Nat : \E f \in [1 .. n -> Blocks] : IsFreeList(n, f)

Disjoint == \A t, u \in Threads : t # u => owned[t] \cap owned[u] = {}

\* A thread in Allocate() wants the block that was first when it read the front
\* header, and as long as the header is the same it knows that block's successor.
Claims ==
    /\ \A t \in Threads : pc[t] \in {"load", "claim"} =>
          /\ block[t] \in Blocks
          /\ block[t] = AbsoluteIndex(kFrontBlockIndex, known[t].next)
    /\ \A t \in Threads : pc[t] = "claim" /\ known[t] = front =>
          second[t] = AbsoluteIndex(block[t], next[block[t]])

\* A thread in Free() still holds the block, and has linked it to the first free
\* block of the header that it knows.
Releases ==
    /\ \A t \in Threads : pc[t] \in {"link", "release"} => block[t] \in owned[t]
    /\ \A t \in Threads : pc[t] = "release" =>
          AbsoluteIndex(block[t], next[block[t]]) = AbsoluteIndex(kFrontBlockIndex, known[t].next)

\* Versions only grow, and there is one to spare for every call in progress.
Versions ==
    /\ \A t \in Threads : pc[t] # "idle" => known[t].version <= front.version
    /\ front.version + Cardinality(Busy) <= MaxUpdates

\* The inductive invariant.
IInv == TypeOK /\ Disjoint /\ Chained /\ Claims /\ Releases /\ Versions

Indices == 0 .. NumBlocks - 1

\* A number of 16 bits is its own remainder.
LEMMA SixteenBits ==
    ASSUME NEW x \in Nat, x < 65536
    PROVE  x % 65536 = x
BY Z3

\* Within the range of an int16_t nothing overflows.
LEMMA Int16InRange ==
    ASSUME NEW i \in Int, -32768 <= i, i <= 32767
    PROVE  Int16(i) = i
<1>1. i + 32768 \in Nat /\ i + 32768 < 65536 /\ (i + 32768) - 32768 = i
  OBVIOUS
<1>2. (i + 32768) % 65536 = i + 32768
  BY <1>1, SixteenBits
<1> QED
  BY <1>1, <1>2 DEF Int16

\* The conversion to a relative index is undone by the conversion back, and from
\* block 0 it gives a valid field of the front header.
LEMMA RelativeAndBack ==
    ASSUME NEW b \in Indices, NEW i \in Indices
    PROVE  /\ AbsoluteIndex(b, RelativeIndex(b, i)) = i
           /\ RelativeIndex(kFrontBlockIndex, i) \in -1 .. NumBlocks - 2
           /\ RelativeIndex(b, i) \in Int
<1>1. /\ i \in Int /\ -32768 <= i /\ i <= 32767
      /\ i - b - 1 \in Int /\ -32768 <= i - b - 1 /\ i - b - 1 <= 32767
      /\ b + (i - b - 1) + 1 = i
  BY AllocatorAssumption DEF Indices
<1>2. RelativeIndex(b, i) = i - b - 1
  BY <1>1, Int16InRange DEF RelativeIndex
<1>3. AbsoluteIndex(b, RelativeIndex(b, i)) = i
  BY <1>1, <1>2, Int16InRange DEF AbsoluteIndex
<1>4. i - 1 \in Int /\ -32768 <= i - 1 /\ i - 1 <= 32767 /\ i - 0 - 1 = i - 1
  BY AllocatorAssumption DEF Indices
<1>5. RelativeIndex(kFrontBlockIndex, i) = i - 1
  BY <1>4, Int16InRange DEF RelativeIndex, kFrontBlockIndex
<1> QED
  BY <1>2, <1>3, <1>5, AllocatorAssumption DEF Indices

\* The front header of the model always gives an index in range.
LEMMA FrontIndex ==
    ASSUME NEW n \in -1 .. NumBlocks - 2
    PROVE  AbsoluteIndex(kFrontBlockIndex, n) = n + 1 /\ n + 1 \in Indices
<1>1. n + 1 \in Int /\ -32768 <= n + 1 /\ n + 1 <= 32767 /\ 0 + n + 1 = n + 1
  BY AllocatorAssumption
<1> QED
  BY <1>1, Int16InRange, AllocatorAssumption DEF AbsoluteIndex, kFrontBlockIndex, Indices

\* A list without repetitions is no longer than there are blocks.
LEMMA ListFits ==
    ASSUME NEW n \in Nat, NEW f \in [1 .. n -> Blocks], IsFreeList(n, f)
    PROVE  n \in 0 .. NumBlocks - 1
<1>1. f \in Injection(1 .. n, Blocks)
  BY DEF IsFreeList, Injection, IsInjective
<1>2. IsFiniteSet(Blocks) /\ Cardinality(Blocks) = NumBlocks - 1
  BY FS_Interval, AllocatorAssumption DEF Blocks
<1>3. IsFiniteSet(1 .. n) /\ Cardinality(1 .. n) = n
  BY FS_Interval
<1>4. Cardinality(1 .. n) <= Cardinality(Blocks)
  BY <1>1, <1>2, FS_Injection
<1> QED
  BY <1>2, <1>3, <1>4, AllocatorAssumption

----------------------------------------------------------------------------
(* Calls in progress *)

\* There are finitely many threads.
LEMMA BusyIsFinite == IsFiniteSet(Busy) /\ Cardinality(Busy) \in Nat
<1>1. IsFiniteSet(Busy)
  BY FS_Subset, AllocatorAssumption DEF Busy
<1> QED
  BY <1>1, FS_CardinalityType

\* A call begins.
LEMMA BusyGrows ==
    ASSUME NEW t \in Threads, NEW x, TypeOK, pc[t] = "idle", x # "idle",
           pc' = [pc EXCEPT ![t] = x]
    PROVE  Cardinality(Busy') = Cardinality(Busy) + 1
<1>1. Busy' = Busy \cup {t} /\ t \notin Busy
  BY DEF Busy, TypeOK
<1> QED
  BY <1>1, BusyIsFinite, FS_AddElement

\* A call returns.
LEMMA BusyShrinks ==
    ASSUME NEW t \in Threads, TypeOK, pc[t] # "idle",
           pc' = [pc EXCEPT ![t] = "idle"]
    PROVE  Cardinality(Busy') = Cardinality(Busy) - 1 /\ Cardinality(Busy) >= 1
<1>1. Busy' = Busy \ {t} /\ t \in Busy
  BY DEF Busy, TypeOK
<1>2. Cardinality(Busy \ {t}) = Cardinality(Busy) - 1
  BY <1>1, BusyIsFinite, FS_RemoveElement
<1>3. IsFiniteSet(Busy \ {t}) /\ Cardinality(Busy \ {t}) \in Nat
  BY BusyIsFinite, FS_Subset, FS_CardinalityType
<1> QED
  BY <1>1, <1>2, <1>3, BusyIsFinite

\* A call goes on, or returns where it has begun.
LEMMA BusyStays ==
    ASSUME NEW t \in Threads, NEW x, TypeOK, (pc[t] = "idle") <=> (x = "idle"),
           pc' = [pc EXCEPT ![t] = x]
    PROVE  Busy' = Busy
BY DEF Busy, TypeOK

----------------------------------------------------------------------------
(* The invariant holds at first, and every step keeps it. *)

\* InitializeRegion() links the blocks in ascending order.
LEMMA InitialList ==
    ASSUME Init
    PROVE  IsFreeList(NumBlocks - 1, [k \in 1 .. NumBlocks - 1 |-> k])
<1> DEFINE n == NumBlocks - 1
           f == [k \in 1 .. n |-> k]
<1>0. NumBlocks - 1 \in Nat /\ \A b \in Blocks : b \in Indices
  BY AllocatorAssumption DEF Blocks, Indices
<1>1. n \in Nat /\ n >= 1 /\ f \in [1 .. n -> Blocks]
  BY <1>0, AllocatorAssumption DEF Blocks
<1>2. AbsoluteIndex(kFrontBlockIndex, front.next) = f[1]
  BY <1>1, FrontIndex, AllocatorAssumption DEF Init
<1>3. ASSUME NEW k \in 1 .. n
      PROVE  AbsoluteIndex(f[k], next[f[k]]) = IF k = n THEN kFrontBlockIndex ELSE f[k + 1]
  <2>1. k \in Indices /\ kFrontBlockIndex \in Indices /\ k \in Blocks
    BY <1>0, AllocatorAssumption DEF Indices, kFrontBlockIndex, Blocks
  <2>2. CASE k = n
    BY <2>1, <2>2, RelativeAndBack DEF Init
  <2>3. CASE k # n
    <3>1. k + 1 \in Int /\ -32768 <= k + 1 /\ k + 1 <= 32767 /\ k + 0 + 1 = k + 1 /\ k + 1 \in 1 .. n
      BY <2>3, AllocatorAssumption
    <3>2. next[k] = 0
      BY <2>1, <2>3 DEF Init
    <3> QED
      BY <3>1, <3>2, <2>3, Int16InRange DEF AbsoluteIndex
  <2> QED
    BY <2>2, <2>3
<1>4. \A b \in Blocks : (\E k \in 1 .. n : f[k] = b) <=> \A t \in Threads : b \notin owned[t]
  BY DEF Init, Blocks
<1> QED
  BY <1>1, <1>2, <1>3, <1>4 DEF IsFreeList

\* InitializeRegion() links all blocks in order.
LEMMA InitInv == Init => IInv
<1> SUFFICES ASSUME Init PROVE IInv
  OBVIOUS
<1>1. NumBlocks - 1 \in Nat /\ \A b \in Blocks : b \in Indices
  BY AllocatorAssumption DEF Blocks, Indices
<1>2. RelativeIndex(NumBlocks - 1, kFrontBlockIndex) \in Int
  BY <1>1, RelativeAndBack, AllocatorAssumption DEF Indices, kFrontBlockIndex
<1>3. Busy = {}
  BY DEF Init, Busy
<1>4. TypeOK
  BY <1>2, AllocatorAssumption DEF Init, TypeOK, Headers, kFrontBlockIndex, Blocks
<1>5. Chained
  <2> DEFINE f == [k \in 1 .. NumBlocks - 1 |-> k]
  <2>1. f \in [1 .. NumBlocks - 1 -> Blocks]
    BY <1>1 DEF Blocks
  <2> QED
    BY <1>1, <2>1, InitialList DEF Chained
<1>6. Disjoint /\ Claims /\ Releases
  BY DEF Init, Disjoint, Claims, Releases
<1>7. Versions
  <2>1. Cardinality(Busy) = 0
    BY <1>3, FS_EmptySet
  <2> QED
    BY <2>1, AllocatorAssumption DEF Versions, Init
<1> QED
  BY <1>4, <1>5, <1>6, <1>7 DEF IInv

\* A step that leaves the headers and the holders alone leaves the list alone.
LEMMA ListUntouched ==
    ASSUME Chained, Disjoint, UNCHANGED <<front, next, owned>>
    PROVE  Chained' /\ Disjoint'
BY DEF Chained, Disjoint, IsFreeList

\* The head of the loop in Allocate(), entered at the call or after a failure.
LEMMA FindFirstKeeps ==
    ASSUME IInv, NEW t \in Threads, FindFirst(t), UNCHANGED <<front, next, owned>>,
           pc[t] \in {"idle", "claim"},
           pc[t] = "idle" => front.version + Cardinality(Busy) < MaxUpdates
    PROVE  IInv'
<1> DEFINE first == AbsoluteIndex(kFrontBlockIndex, front.next)
<1>0. TypeOK /\ Disjoint /\ Chained /\ Claims /\ Releases /\ Versions
  BY DEF IInv
<1>1. front \in Headers /\ first \in Indices /\ front.version \in Nat
  BY <1>0, FrontIndex DEF TypeOK, Headers
<1>2. Chained' /\ Disjoint'
  BY <1>0, ListUntouched
<1>3. CASE first = kFrontBlockIndex \/ ~IsIndexValid(first)
  <2>1. Return(t)
    BY <1>3 DEF FindFirst
  <2>2. TypeOK'
    BY <1>0, <2>1, AllocatorAssumption DEF TypeOK, Return, Headers, kFrontBlockIndex
  <2>3. Claims' /\ Releases'
    BY <1>0, <2>1 DEF TypeOK, Return, Claims, Releases
  <2>4. front.version + Cardinality(Busy') <= MaxUpdates
    <3>1. CASE pc[t] = "idle"
      BY <1>0, <2>1, <3>1, BusyStays DEF Return, Versions
    <3>2. CASE pc[t] # "idle"
      <4>1. Cardinality(Busy') = Cardinality(Busy) - 1
        BY <1>0, <2>1, <3>2, BusyShrinks DEF Return
      <4> QED
        BY <1>0, <1>1, <4>1, BusyIsFinite, AllocatorAssumption DEF Versions
    <3> QED
      BY <3>1, <3>2
  <2>5. Versions'
    BY <1>0, <2>1, <2>4 DEF TypeOK, Return, Versions
  <2> QED
    BY <1>2, <2>2, <2>3, <2>5 DEF IInv
<1>4. CASE first # kFrontBlockIndex /\ IsIndexValid(first)
  <2>1. /\ pc' = [pc EXCEPT ![t] = "load"]
        /\ known' = [known EXCEPT ![t] = front]
        /\ block' = [block EXCEPT ![t] = first]
        /\ UNCHANGED second
    BY <1>4 DEF FindFirst
  <2>2. first \in Blocks
    BY <1>1, <1>4, AllocatorAssumption DEF Indices, Blocks, kFrontBlockIndex
  <2>3. TypeOK'
    BY <1>0, <1>1, <2>1 DEF TypeOK, Indices
  <2>4. Claims' /\ Releases'
    BY <1>0, <2>1, <2>2 DEF TypeOK, Claims, Releases
  <2>5. front.version + Cardinality(Busy') <= MaxUpdates
    <3>1. CASE pc[t] = "idle"
      <4>1. Cardinality(Busy') = Cardinality(Busy) + 1
        BY <1>0, <2>1, <3>1, BusyGrows
      <4> QED
        BY <1>1, <3>1, <4>1, BusyIsFinite, AllocatorAssumption
    <3>2. CASE pc[t] # "idle"
      BY <1>0, <2>1, <3>2, BusyStays DEF Versions
    <3> QED
      BY <3>1, <3>2
  <2>6. Versions'
    BY <1>0, <1>1, <2>1, <2>5 DEF TypeOK, Versions
  <2> QED
    BY <1>2, <2>3, <2>4, <2>6 DEF IInv
<1> QED
  BY <1>3, <1>4

\* Allocate() reads the header of the first free block, or of a block that was.
LEMMA LoadHeaderKeeps ==
    ASSUME IInv, NEW t \in Threads, LoadHeader(t)
    PROVE  IInv'
<1> DEFINE following == AbsoluteIndex(block[t], next[block[t]])
<1>0. TypeOK /\ Disjoint /\ Chained /\ Claims /\ Releases /\ Versions
  BY DEF IInv
<1>1. pc[t] = "load" /\ UNCHANGED <<front, next, owned>> /\ front.version \in Nat
  BY <1>0 DEF LoadHeader, TypeOK, Headers
<1>2. Chained' /\ Disjoint'
  BY <1>0, <1>1, ListUntouched
<1>3. CASE IsIndexValid(following)
  <2>1. /\ pc' = [pc EXCEPT ![t] = "claim"] /\ second' = [second EXCEPT ![t] = following]
        /\ UNCHANGED <<known, block>>
    BY <1>3 DEF LoadHeader
  <2>2. TypeOK'
    BY <1>0, <1>1, <1>3, <2>1 DEF TypeOK, IsIndexValid
  <2>3. Claims' /\ Releases'
    BY <1>0, <1>1, <2>1 DEF TypeOK, Claims, Releases
  <2>4. Busy' = Busy
    BY <1>0, <1>1, <2>1, BusyStays
  <2>5. Versions'
    BY <1>0, <1>1, <2>1, <2>4 DEF TypeOK, Versions
  <2> QED
    BY <1>2, <2>2, <2>3, <2>5 DEF IInv
<1>4. CASE ~IsIndexValid(following)
  <2>1. Return(t)
    BY <1>4 DEF LoadHeader
  <2>2. TypeOK'
    BY <1>0, <1>1, <2>1, AllocatorAssumption DEF TypeOK, Return, Headers, kFrontBlockIndex
  <2>3. Claims' /\ Releases'
    BY <1>0, <1>1, <2>1 DEF TypeOK, Return, Claims, Releases
  <2>4. Cardinality(Busy') = Cardinality(Busy) - 1
    BY <1>0, <1>1, <2>1, BusyShrinks DEF Return
  <2>5. front.version + Cardinality(Busy') <= MaxUpdates
    BY <1>0, <1>1, <2>4, BusyIsFinite, AllocatorAssumption DEF Versions
  <2>6. Versions'
    BY <1>0, <1>1, <2>1, <2>5 DEF TypeOK, Return, Versions
  <2> QED
    BY <1>2, <2>2, <2>3, <2>6 DEF IInv
<1> QED
  BY <1>3, <1>4

\* A successful compare-exchange counts the version up by one, which no thread has
\* seen before, and leaves a version for each of the other calls.
LEMMA FrontMoves ==
    ASSUME IInv, NEW t \in Threads, NEW b \in Indices, pc[t] # "idle",
           UpdateFrontHeader(t, b), Return(t)
    PROVE  /\ front' \in Headers /\ front'.version = front.version + 1
           /\ AbsoluteIndex(kFrontBlockIndex, front'.next) = b
           /\ \A u \in Threads : pc'[u] # "idle" =>
                 /\ u # t /\ pc'[u] = pc[u] /\ known'[u] = known[u]
                 /\ block'[u] = block[u] /\ second'[u] = second[u]
           /\ \A u \in Threads : pc'[u] # "idle" => known'[u] # front'
           /\ Versions'
<1>0. TypeOK /\ Versions
  BY DEF IInv
<1>1. front \in Headers /\ front.version \in Nat /\ known[t] = front
  BY <1>0 DEF TypeOK, Headers, UpdateFrontHeader
<1>2. Cardinality(Busy') = Cardinality(Busy) - 1 /\ Cardinality(Busy) >= 1
  BY <1>0, BusyShrinks DEF Return
<1>3. front.version + 1 <= MaxUpdates /\ front.version + 1 < 65536 /\ front.version + 1 \in Nat
  BY <1>0, <1>1, <1>2, BusyIsFinite, AllocatorAssumption DEF Versions
<1>4. VersionAfter(front.version) = front.version + 1
  BY <1>3, SixteenBits DEF VersionAfter
<1>5. front' = [version |-> front.version + 1, next |-> RelativeIndex(kFrontBlockIndex, b)]
  BY <1>1, <1>4 DEF UpdateFrontHeader
<1>6. kFrontBlockIndex \in Indices
  BY AllocatorAssumption DEF kFrontBlockIndex, Indices
<1>7. front' \in Headers /\ AbsoluteIndex(kFrontBlockIndex, front'.next) = b
  BY <1>3, <1>5, <1>6, RelativeAndBack DEF Headers
<1>8. \A u \in Threads : pc'[u] # "idle" =>
          /\ u # t /\ pc'[u] = pc[u] /\ known'[u] = known[u]
          /\ block'[u] = block[u] /\ second'[u] = second[u]
  BY <1>0 DEF TypeOK, Return
<1>9. \A u \in Threads : pc'[u] # "idle" => known'[u].version <= front.version /\ known'[u].version \in Nat
  BY <1>0, <1>8 DEF Versions, TypeOK, Headers
<1>10. \A u \in Threads : pc'[u] # "idle" => known'[u] # front' /\ known'[u].version <= front'.version
  BY <1>1, <1>5, <1>9
<1>11. front'.version + Cardinality(Busy') <= MaxUpdates
  BY <1>0, <1>1, <1>2, <1>5, BusyIsFinite, AllocatorAssumption DEF Versions
<1> QED
  BY <1>5, <1>7, <1>8, <1>10, <1>11 DEF Versions

\* The block that Allocate() claims is the first of the list, and the rest of it
\* is the list from then on.
LEMMA ListAfterClaim ==
    ASSUME IInv, NEW t \in Threads, Claim(t),
           NEW n \in Nat, NEW f \in [1 .. n -> Blocks], IsFreeList(n, f)
    PROVE  /\ n # 0 /\ f[1] = block[t]
           /\ IsFreeList(n - 1, [k \in 1 .. n - 1 |-> f[k + 1]])'
<1>0. TypeOK /\ Disjoint /\ Chained /\ Claims /\ Releases /\ Versions
  BY DEF IInv
<1>1. /\ pc[t] = "claim" /\ UpdateFrontHeader(t, second[t]) /\ Return(t) /\ known[t] = front
      /\ owned' = [owned EXCEPT ![t] = @ \cup {block[t]}] /\ UNCHANGED next
  BY DEF Claim, UpdateFrontHeader
<1>2. second[t] \in Indices /\ block[t] \in Blocks
  BY <1>0, <1>1 DEF TypeOK, Indices, Claims
<1>3. AbsoluteIndex(kFrontBlockIndex, front'.next) = second[t]
  BY <1>1, <1>2, FrontMoves
<1>5. IsFreeList(n, f)
  OBVIOUS
<1>6. n # 0 /\ f[1] = block[t]
  BY <1>0, <1>1, <1>2, <1>5 DEF Claims, IsFreeList, Blocks, kFrontBlockIndex
<1>7. second[t] = IF n = 1 THEN kFrontBlockIndex ELSE f[2]
  BY <1>0, <1>1, <1>5, <1>6 DEF Claims, IsFreeList
<1>8. IsFreeList(n - 1, [k \in 1 .. n - 1 |-> f[k + 1]])'
  <2> DEFINE m == n - 1
             g == [k \in 1 .. m |-> f[k + 1]]
  <2>1. m \in Nat /\ g \in [1 .. m -> Blocks]
    BY <1>6
  <2>2. AbsoluteIndex(kFrontBlockIndex, front'.next) = IF m = 0 THEN kFrontBlockIndex ELSE g[1]
    BY <1>3, <1>6, <1>7, <2>1
  <2>3. ASSUME NEW k \in 1 .. m
        PROVE  AbsoluteIndex(g[k], next'[g[k]]) = IF k = m THEN kFrontBlockIndex ELSE g[k + 1]
    <3>1. k + 1 \in 1 .. n /\ g[k] = f[k + 1] /\ (k + 1 = n <=> k = m)
      BY <1>6
    <3>2. AbsoluteIndex(f[k + 1], next[f[k + 1]]) = IF k + 1 = n THEN kFrontBlockIndex ELSE f[k + 1 + 1]
      BY <1>5, <3>1 DEF IsFreeList
    <3>3. k # m => g[k + 1] = f[k + 1 + 1]
      BY <2>1
    <3> QED
      BY <1>1, <3>1, <3>2, <3>3
  <2>4. \A j, k \in 1 .. m : g[j] = g[k] => j = k
    <3> SUFFICES ASSUME NEW j \in 1 .. m, NEW k \in 1 .. m, g[j] = g[k] PROVE j = k
      OBVIOUS
    <3>1. j + 1 \in 1 .. n /\ k + 1 \in 1 .. n /\ f[j + 1] = f[k + 1]
      BY <2>1
    <3>2. j + 1 = k + 1
      BY <1>5, <3>1 DEF IsFreeList
    <3> QED
      BY <3>2
  <2>5. ASSUME NEW b \in Blocks
        PROVE  (\E k \in 1 .. m : g[k] = b) <=> \A u \in Threads : b \notin owned'[u]
    <3>1. (\E k \in 1 .. m : g[k] = b) <=> (\E k \in 1 .. n : f[k] = b) /\ b # f[1]
      <4>1. ASSUME NEW k \in 1 .. m, g[k] = b PROVE (\E j \in 1 .. n : f[j] = b) /\ b # f[1]
        <5>1. k + 1 \in 1 .. n /\ 1 \in 1 .. n /\ f[k + 1] = b /\ k + 1 # 1
          BY <4>1, <2>1
        <5> QED
          BY <5>1, <1>5 DEF IsFreeList
      <4>2. ASSUME NEW j \in 1 .. n, f[j] = b, b # f[1] PROVE \E k \in 1 .. m : g[k] = b
        <5>1. j - 1 \in 1 .. m /\ g[j - 1] = b
          BY <4>2, <2>1
        <5> QED
          BY <5>1
      <4> QED
        BY <4>1, <4>2
    <3>2. (\A u \in Threads : b \notin owned'[u]) <=> (\A u \in Threads : b \notin owned[u]) /\ b # block[t]
      BY <1>0, <1>1 DEF TypeOK
    <3>3. (\E k \in 1 .. n : f[k] = b) <=> \A u \in Threads : b \notin owned[u]
      BY <1>5 DEF IsFreeList
    <3> QED
      BY <1>6, <3>1, <3>2, <3>3
  <2> QED
    BY <2>2, <2>3, <2>4, <2>5 DEF IsFreeList
<1> QED
  BY <1>6, <1>8

\* Allocate() succeeds: the first block leaves the list for its new holder.
LEMMA ClaimKeeps ==
    ASSUME IInv, NEW t \in Threads, Claim(t)
    PROVE  IInv'
<1>0. TypeOK /\ Disjoint /\ Chained /\ Claims /\ Releases /\ Versions
  BY DEF IInv
<1>1. /\ pc[t] = "claim" /\ UpdateFrontHeader(t, second[t]) /\ Return(t) /\ known[t] = front
      /\ owned' = [owned EXCEPT ![t] = @ \cup {block[t]}] /\ UNCHANGED next
  BY DEF Claim, UpdateFrontHeader
<1>2. second[t] \in Indices /\ block[t] \in Blocks
  BY <1>0, <1>1 DEF TypeOK, Indices, Claims
<1>3. /\ front' \in Headers /\ AbsoluteIndex(kFrontBlockIndex, front'.next) = second[t]
      /\ \A u \in Threads : pc'[u] # "idle" =>
            /\ u # t /\ pc'[u] = pc[u] /\ known'[u] = known[u]
            /\ block'[u] = block[u] /\ second'[u] = second[u]
      /\ \A u \in Threads : pc'[u] # "idle" => known'[u] # front'
      /\ Versions'
  BY <1>1, <1>2, FrontMoves
<1>4. PICK n \in Nat : \E f \in [1 .. n -> Blocks] : IsFreeList(n, f)
  BY <1>0 DEF Chained
<1>5. PICK f \in [1 .. n -> Blocks] : IsFreeList(n, f)
  BY <1>4
<1>6. n # 0 /\ f[1] = block[t] /\ IsFreeList(n - 1, [k \in 1 .. n - 1 |-> f[k + 1]])'
  BY <1>5, ListAfterClaim
<1>8. \A u \in Threads : block[t] \notin owned[u]
  BY <1>2, <1>5, <1>6 DEF IsFreeList
<1>9. TypeOK'
  BY <1>0, <1>1, <1>2, <1>3, AllocatorAssumption DEF TypeOK, Return, Headers, kFrontBlockIndex
<1>10. Disjoint'
  BY <1>0, <1>1, <1>8 DEF Disjoint, TypeOK
<1>11. Claims' /\ Releases'
  BY <1>0, <1>1, <1>3 DEF TypeOK, Claims, Releases
<1>12. Chained'
  <2>1. n - 1 \in Nat /\ [k \in 1 .. n - 1 |-> f[k + 1]] \in [1 .. n - 1 -> Blocks]
    BY <1>6
  <2> QED
    BY <1>6, <2>1 DEF Chained
<1> QED
  BY <1>3, <1>9, <1>10, <1>11, <1>12 DEF IInv

\* The list does not depend on the header of a block that is held.
LEMMA ListIgnoresHeld ==
    ASSUME TypeOK, NEW t \in Threads, NEW b \in owned[t], NEW data,
           next' = [next EXCEPT ![b] = data], UNCHANGED <<front, owned>>,
           NEW n \in Nat, NEW f \in [1 .. n -> Blocks], IsFreeList(n, f)
    PROVE  IsFreeList(n, f)' /\ \A k \in 1 .. n : f[k] # b
<1>1. b \in Blocks /\ \A c \in Blocks : c # b => next'[c] = next[c]
  BY DEF TypeOK
<1>2. \A k \in 1 .. n : f[k] \in Blocks /\ f[k] # b
  BY <1>1 DEF IsFreeList
<1>3. \A k \in 1 .. n : next'[f[k]] = next[f[k]]
  BY <1>1, <1>2
<1> QED
  BY <1>2, <1>3 DEF IsFreeList

\* A block that is held is neither on the list nor about to be claimed with the
\* present front header, so nothing depends on what its header says.
LEMMA HeldHeaderMayChange ==
    ASSUME IInv, NEW t \in Threads, NEW b \in owned[t], NEW data \in Int,
           next' = [next EXCEPT ![b] = data], UNCHANGED <<front, owned>>
    PROVE  /\ next' \in [Blocks -> Int] /\ b \in Blocks /\ Chained' /\ Disjoint'
           /\ \A u \in Threads : pc[u] = "claim" /\ known[u] = front => block[u] # b
<1>0. TypeOK /\ Disjoint /\ Chained /\ Claims
  BY DEF IInv
<1>1. b \in Blocks /\ next' \in [Blocks -> Int] /\ \A c \in Blocks : c # b => next'[c] = next[c]
  BY <1>0 DEF TypeOK
<1>2. PICK n \in Nat : \E f \in [1 .. n -> Blocks] : IsFreeList(n, f)
  BY <1>0 DEF Chained
<1>3. PICK f \in [1 .. n -> Blocks] : IsFreeList(n, f)
  BY <1>2
<1>4. IsFreeList(n, f)' /\ \A k \in 1 .. n : f[k] # b
  BY <1>0, <1>3, ListIgnoresHeld
<1>6. ASSUME NEW u \in Threads, pc[u] = "claim", known[u] = front
      PROVE  block[u] # b
  <2>1. block[u] \in Blocks /\ block[u] = AbsoluteIndex(kFrontBlockIndex, front.next)
    BY <1>0, <1>6 DEF Claims
  <2>2. n # 0 /\ block[u] = f[1]
    BY <1>3, <2>1 DEF IsFreeList, Blocks, kFrontBlockIndex
  <2> QED
    BY <1>4, <2>2
<1> QED
  BY <1>0, <1>1, <1>4, <1>6 DEF Chained, Disjoint

\* The application writes to a block.
LEMMA WriteKeeps ==
    ASSUME IInv, NEW t \in Threads, NEW b \in Blocks, NEW data \in Data, Write(t, b, data)
    PROVE  IInv'
<1>0. TypeOK /\ Disjoint /\ Claims /\ Releases /\ Versions
  BY DEF IInv
<1>1. /\ pc[t] = "idle" /\ b \in owned[t] /\ next' = [next EXCEPT ![b] = data] /\ data \in Int
      /\ UNCHANGED <<front, pc, known, block, second, owned>>
  BY AllocatorAssumption DEF Write
<1>2. /\ next' \in [Blocks -> Int] /\ Chained' /\ Disjoint'
      /\ \A u \in Threads : pc[u] = "claim" /\ known[u] = front => block[u] # b
  BY <1>1, HeldHeaderMayChange
<1>3. TypeOK'
  BY <1>0, <1>1, <1>2 DEF TypeOK
<1>4. Claims'
  BY <1>0, <1>1, <1>2 DEF TypeOK, Claims
<1>5. \A u \in Threads : pc[u] = "release" => block[u] \in Blocks /\ block[u] # b
  BY <1>0, <1>1 DEF TypeOK, Disjoint, Releases
<1>6. Releases'
  BY <1>0, <1>1, <1>5 DEF TypeOK, Releases
<1>7. Versions'
  BY <1>0, <1>1 DEF Versions, Busy
<1> QED
  BY <1>2, <1>3, <1>4, <1>6, <1>7 DEF IInv

\* Free() reads the front header.
LEMMA BeginFreeKeeps ==
    ASSUME IInv, NEW t \in Threads, NEW b \in Blocks, BeginFree(t, b)
    PROVE  IInv'
<1>0. TypeOK /\ Disjoint /\ Chained /\ Claims /\ Releases /\ Versions
  BY DEF IInv
<1>1. /\ pc[t] = "idle" /\ front.version + Cardinality(Busy) < MaxUpdates /\ b \in owned[t]
      /\ pc' = [pc EXCEPT ![t] = "link"] /\ known' = [known EXCEPT ![t] = front]
      /\ block' = [block EXCEPT ![t] = b] /\ UNCHANGED <<front, next, second, owned>>
  BY DEF BeginFree, MayBegin, Busy
<1>2. Chained' /\ Disjoint'
  BY <1>0, <1>1, ListUntouched
<1>3. TypeOK'
  BY <1>0, <1>1, AllocatorAssumption DEF TypeOK, Blocks
<1>4. Claims' /\ Releases'
  BY <1>0, <1>1 DEF TypeOK, Claims, Releases
<1>5. Cardinality(Busy') = Cardinality(Busy) + 1
  BY <1>0, <1>1, BusyGrows
<1>6. front.version + Cardinality(Busy') <= MaxUpdates
  BY <1>0, <1>1, <1>5, BusyIsFinite, AllocatorAssumption DEF TypeOK, Headers
<1>7. Versions'
  BY <1>0, <1>1, <1>6 DEF TypeOK, Headers, Versions
<1> QED
  BY <1>2, <1>3, <1>4, <1>7 DEF IInv

\* Free() links the block to the rest of the list.
LEMMA LinkKeeps ==
    ASSUME IInv, NEW t \in Threads, Link(t)
    PROVE  IInv'
<1> DEFINE first == AbsoluteIndex(kFrontBlockIndex, known[t].next)
           data == RelativeIndex(block[t], first)
<1>0. TypeOK /\ Disjoint /\ Chained /\ Claims /\ Releases /\ Versions
  BY DEF IInv
<1>1. pc[t] = "link" /\ block[t] \in owned[t] /\ block[t] \in Indices
  BY <1>0 DEF Link, Releases, TypeOK, Indices
<1>2. first \in Indices
  BY <1>0, FrontIndex DEF TypeOK, Headers
<1>3. /\ next' = [next EXCEPT ![block[t]] = data] /\ pc' = [pc EXCEPT ![t] = "release"]
      /\ UNCHANGED <<front, known, block, second, owned>>
  BY <1>2 DEF Link, IsIndexValid, Indices
<1>4. data \in Int /\ AbsoluteIndex(block[t], data) = first
  BY <1>1, <1>2, RelativeAndBack
<1>5. /\ next' \in [Blocks -> Int] /\ block[t] \in Blocks /\ Chained' /\ Disjoint'
      /\ \A u \in Threads : pc[u] = "claim" /\ known[u] = front => block[u] # block[t]
  BY <1>1, <1>3, <1>4, HeldHeaderMayChange
<1>6. TypeOK'
  BY <1>0, <1>3, <1>5 DEF TypeOK
<1>7. Claims'
  BY <1>0, <1>3, <1>5 DEF TypeOK, Claims
<1>8. Releases'
  <2>1. next'[block[t]] = data
    BY <1>0, <1>3, <1>5 DEF TypeOK
  <2>2. \A u \in Threads : u # t /\ pc[u] = "release" => next'[block[u]] = next[block[u]]
    BY <1>0, <1>1, <1>3 DEF TypeOK, Disjoint, Releases
  <2> QED
    BY <1>0, <1>1, <1>3, <1>4, <2>1, <2>2 DEF TypeOK, Releases
<1>9. Versions'
  <2>1. Busy' = Busy
    BY <1>0, <1>1, <1>3, BusyStays
  <2> QED
    BY <1>0, <1>1, <1>3, <2>1 DEF TypeOK, Versions
<1> QED
  BY <1>5, <1>6, <1>7, <1>8, <1>9 DEF IInv

\* Free() fails to put the block back, and starts over with the new header.
LEMMA ReleaseRetryKeeps ==
    ASSUME IInv, NEW t \in Threads, ReleaseRetry(t)
    PROVE  IInv'
<1>0. TypeOK /\ Disjoint /\ Chained /\ Claims /\ Releases /\ Versions
  BY DEF IInv
<1>1. /\ pc[t] = "release" /\ pc' = [pc EXCEPT ![t] = "link"]
      /\ known' = [known EXCEPT ![t] = front] /\ UNCHANGED <<front, next, block, second, owned>>
  BY DEF ReleaseRetry
<1>2. Chained' /\ Disjoint'
  BY <1>0, <1>1, ListUntouched
<1>3. TypeOK'
  BY <1>0, <1>1 DEF TypeOK
<1>4. Claims' /\ Releases'
  BY <1>0, <1>1 DEF TypeOK, Claims, Releases
<1>5. Busy' = Busy
  BY <1>0, <1>1, BusyStays
<1>6. Versions'
  BY <1>0, <1>1, <1>5 DEF TypeOK, Headers, Versions
<1> QED
  BY <1>2, <1>3, <1>4, <1>6 DEF IInv

\* The block that Free() puts back becomes the first of the list.
LEMMA ListAfterRelease ==
    ASSUME IInv, NEW t \in Threads, Release(t),
           NEW n \in Nat, NEW f \in [1 .. n -> Blocks], IsFreeList(n, f),
           NEW freed \in Blocks, freed = block[t]
    PROVE  IsFreeList(n + 1, [k \in 1 .. n + 1 |-> IF k = 1 THEN freed ELSE f[k - 1]])'
<1>0. TypeOK /\ Disjoint /\ Chained /\ Claims /\ Releases /\ Versions
  BY DEF IInv
<1>1. /\ pc[t] = "release" /\ UpdateFrontHeader(t, block[t]) /\ Return(t) /\ known[t] = front
      /\ owned' = [owned EXCEPT ![t] = @ \ {block[t]}] /\ UNCHANGED next
  BY DEF Release, UpdateFrontHeader
<1>2. block[t] \in owned[t] /\ block[t] \in Blocks /\ block[t] \in Indices
  BY <1>0, <1>1 DEF TypeOK, Indices, Releases
<1>3. AbsoluteIndex(kFrontBlockIndex, front'.next) = block[t]
  BY <1>1, <1>2, FrontMoves
<1>5. IsFreeList(n, f)
  OBVIOUS
<1>6. AbsoluteIndex(block[t], next[block[t]]) = IF n = 0 THEN kFrontBlockIndex ELSE f[1]
  BY <1>0, <1>1, <1>5 DEF Releases, IsFreeList
<1>7. \A k \in 1 .. n : f[k] # block[t]
  BY <1>2, <1>5 DEF IsFreeList
<1>8. IsFreeList(n + 1, [k \in 1 .. n + 1 |-> IF k = 1 THEN freed ELSE f[k - 1]])'
  <2>0. freed = block[t]
    OBVIOUS
  <2> DEFINE m == n + 1
             g == [k \in 1 .. m |-> IF k = 1 THEN freed ELSE f[k - 1]]
  <2>1. m \in Nat /\ m # 0 /\ 1 \in 1 .. m /\ g[1] = freed /\ g \in [1 .. m -> Blocks]
    BY <2>0
  <2>2. AbsoluteIndex(kFrontBlockIndex, front'.next) = IF m = 0 THEN kFrontBlockIndex ELSE g[1]
    BY <1>3, <2>0, <2>1
  <2>3. ASSUME NEW k \in 1 .. m
        PROVE  AbsoluteIndex(g[k], next'[g[k]]) = IF k = m THEN kFrontBlockIndex ELSE g[k + 1]
    <3>1. CASE k = 1
      <4>1. (n = 0 <=> k = m) /\ (n # 0 => g[k + 1] = f[1])
        BY <3>1
      <4> QED
        BY <1>1, <1>6, <2>0, <2>1, <3>1, <4>1
    <3>2. CASE k # 1
      <4>1. k - 1 \in 1 .. n /\ g[k] = f[k - 1] /\ (k - 1 = n <=> k = m) /\ k - 1 + 1 = k
        BY <3>2
      <4>2. AbsoluteIndex(f[k - 1], next[f[k - 1]]) =
              IF k - 1 = n THEN kFrontBlockIndex ELSE f[k - 1 + 1]
        BY <1>5, <4>1 DEF IsFreeList
      <4>3. k # m => g[k + 1] = f[k]
        BY <3>2
      <4> QED
        BY <1>1, <4>1, <4>2, <4>3
    <3> QED
      BY <3>1, <3>2
  <2>4. \A j, k \in 1 .. m : g[j] = g[k] => j = k
    <3> SUFFICES ASSUME NEW j \in 1 .. m, NEW k \in 1 .. m, g[j] = g[k] PROVE j = k
      OBVIOUS
    <3>1. \A i \in 1 .. m : i # 1 => i - 1 \in 1 .. n /\ g[i] = f[i - 1] /\ g[i] # freed
      BY <1>7, <2>0
    <3>2. CASE j = 1 \/ k = 1
      BY <2>1, <3>1, <3>2
    <3>3. CASE j # 1 /\ k # 1
      <4>1. j - 1 \in 1 .. n /\ k - 1 \in 1 .. n /\ f[j - 1] = f[k - 1]
        BY <3>1, <3>3
      <4>2. j - 1 = k - 1
        BY <1>5, <4>1 DEF IsFreeList
      <4> QED
        BY <4>2
    <3> QED
      BY <3>2, <3>3
  <2>5. ASSUME NEW b \in Blocks
        PROVE  (\E k \in 1 .. m : g[k] = b) <=> \A u \in Threads : b \notin owned'[u]
    <3>1. (\E k \in 1 .. m : g[k] = b) <=> (\E k \in 1 .. n : f[k] = b) \/ b = freed
      <4>1. ASSUME NEW k \in 1 .. m, g[k] = b
            PROVE  (\E j \in 1 .. n : f[j] = b) \/ b = freed
        <5>1. k = 1 \/ (k - 1 \in 1 .. n /\ f[k - 1] = b)
          BY <4>1
        <5> QED
          BY <4>1, <5>1, <2>1
      <4>2. ASSUME NEW j \in 1 .. n, f[j] = b PROVE \E k \in 1 .. m : g[k] = b
        <5>1. j + 1 \in 1 .. m /\ g[j + 1] = b
          BY <4>2
        <5> QED
          BY <5>1
      <4> QED
        BY <4>1, <4>2, <2>1
    <3>2. (\A u \in Threads : b \notin owned'[u]) <=> (\A u \in Threads : b \notin owned[u]) \/ b = freed
      BY <1>0, <1>1, <1>2, <2>0 DEF TypeOK, Disjoint
    <3>3. (\E k \in 1 .. n : f[k] = b) <=> \A u \in Threads : b \notin owned[u]
      BY <1>5 DEF IsFreeList
    <3> QED
      BY <3>1, <3>2, <3>3
  <2> QED
    BY <2>2, <2>3, <2>4, <2>5 DEF IsFreeList
<1> QED
  BY <1>8

\* Free() succeeds: the block is put back as the first one of the list.
LEMMA ReleaseKeeps ==
    ASSUME IInv, NEW t \in Threads, Release(t)
    PROVE  IInv'
<1>0. TypeOK /\ Disjoint /\ Chained /\ Claims /\ Releases /\ Versions
  BY DEF IInv
<1>1. /\ pc[t] = "release" /\ UpdateFrontHeader(t, block[t]) /\ Return(t) /\ known[t] = front
      /\ owned' = [owned EXCEPT ![t] = @ \ {block[t]}] /\ UNCHANGED next
  BY DEF Release, UpdateFrontHeader
<1>2. block[t] \in owned[t] /\ block[t] \in Blocks /\ block[t] \in Indices
  BY <1>0, <1>1 DEF TypeOK, Indices, Releases
<1>3. /\ front' \in Headers /\ AbsoluteIndex(kFrontBlockIndex, front'.next) = block[t]
      /\ \A u \in Threads : pc'[u] # "idle" =>
            /\ u # t /\ pc'[u] = pc[u] /\ known'[u] = known[u]
            /\ block'[u] = block[u] /\ second'[u] = second[u]
      /\ \A u \in Threads : pc'[u] # "idle" => known'[u] # front'
      /\ Versions'
  BY <1>1, <1>2, FrontMoves
<1>4. PICK n \in Nat : \E f \in [1 .. n -> Blocks] : IsFreeList(n, f)
  BY <1>0 DEF Chained
<1>5. PICK f \in [1 .. n -> Blocks] : IsFreeList(n, f)
  BY <1>4
<1>8. TypeOK'
  BY <1>0, <1>1, <1>3, AllocatorAssumption DEF TypeOK, Return, Headers, kFrontBlockIndex
<1>9. Disjoint'
  BY <1>0, <1>1 DEF Disjoint, TypeOK
<1>10. Claims' /\ Releases'
  BY <1>0, <1>1, <1>3 DEF TypeOK, Claims, Releases
<1>11. Chained'
  <2>0. PICK freed \in Blocks : freed = block[t]
    BY <1>2
  <2> DEFINE g == [k \in 1 .. n + 1 |-> IF k = 1 THEN freed ELSE f[k - 1]]
  <2>1. n + 1 \in Nat /\ g \in [1 .. n + 1 -> Blocks]
    OBVIOUS
  <2>2. IsFreeList(n + 1, g)'
    BY <1>5, <2>0, ListAfterRelease
  <2> QED
    BY <2>1, <2>2 DEF Chained
<1> QED
  BY <1>3, <1>8, <1>9, <1>10, <1>11 DEF IInv

\* Every step keeps the invariant.
LEMMA NextInv == IInv /\ [Next]_vars => IInv'
<1> SUFFICES ASSUME IInv, [Next]_vars PROVE IInv'
  OBVIOUS
<1>1. ASSUME NEW t \in Threads, BeginAllocate(t) PROVE IInv'
  BY <1>1, FindFirstKeeps DEF BeginAllocate, MayBegin, Busy
<1>2. ASSUME NEW t \in Threads, Run(t) PROVE IInv'
  <2>1. ASSUME ClaimRetry(t) PROVE IInv'
    BY <2>1, FindFirstKeeps DEF ClaimRetry
  <2> QED
    BY <1>2, <2>1, LoadHeaderKeeps, ClaimKeeps, LinkKeeps, ReleaseKeeps, ReleaseRetryKeeps DEF Run
<1>3. ASSUME NEW t \in Threads, NEW b \in Blocks, Use(t, b) PROVE IInv'
  BY <1>3, BeginFreeKeeps, WriteKeeps DEF Use
<1>4. CASE UNCHANGED vars
  <2>1. TypeOK' /\ Claims' /\ Releases'
    BY <1>4 DEF vars, IInv, TypeOK, Claims, Releases
  <2>2. Chained' /\ Disjoint'
    BY <1>4, ListUntouched DEF vars, IInv
  <2>3. Versions'
    BY <1>4 DEF vars, IInv, Versions, Busy
  <2> QED
    BY <2>1, <2>2, <2>3 DEF IInv
<1> QED
  BY <1>1, <1>2, <1>3, <1>4 DEF Next

\* The invariant holds throughout.
LEMMA Invariant == Spec => []IInv
BY InitInv, NextInv, PTL DEF Spec

----------------------------------------------------------------------------

\* No index out of range is ever stored into the front header, or used to address
\* a header, in a region of any size and whatever the application has written into
\* its blocks.
THEOREM IndicesStayInRange == Spec => []TypeOK
<1>1. IInv => TypeOK
  BY DEF IInv
<1> QED
  BY <1>1, Invariant, PTL

\* However many threads race, every block is held by exactly one of them or is
\* exactly once on the free list, as long as fewer than 65536 calls succeed.
THEOREM BlocksStayAccountedFor == Spec => []BlocksAreAccountedFor
<1>1. IInv => BlocksAreAccountedFor
  <2> SUFFICES ASSUME Disjoint, Chained PROVE BlocksAreAccountedFor
    BY DEF IInv
  <2>1. PICK n \in Nat : \E f \in [1 .. n -> Blocks] : IsFreeList(n, f)
    BY DEF Chained
  <2>2. n \in 0 .. NumBlocks - 1
    BY <2>1, ListFits
  <2> QED
    BY <2>1, <2>2 DEF BlocksAreAccountedFor, Disjoint
<1> QED
  BY <1>1, Invariant, PTL

----------------------------------------------------------------------------
(* The list as it is read off the headers *)

\* What FreeBlocks follows: g[1] is the first block of the list, and every other
\* the successor of the one before, as long as these are blocks.
Walks(g, first, links) ==
    g = [k \in 1 .. NumBlocks |->
            IF k = 1 THEN AbsoluteIndex(kFrontBlockIndex, first)
            ELSE IF g[k - 1] \in Blocks THEN AbsoluteIndex(g[k - 1], links[g[k - 1]])
            ELSE kFrontBlockIndex]

ListOf(first, links) ==
    LET at == CHOOSE g : Walks(g, first, links)
        onList == {k \in 1 .. NumBlocks : \A j \in 1 .. k : at[j] \in Blocks}
    IN  [k \in onList |-> at[k]]

\* FreeBlocks, before and after a step.
LEMMA FreeBlocksUnfolded ==
    /\ FreeBlocks = ListOf(front.next, next)
    /\ FreeBlocks' = ListOf(front'.next, next')
BY DEF FreeBlocks, ListOf, Walks

\* The blocks f[1], ..., f[n] are linked one to the next.
Linked(n, f, first, links) ==
    /\ AbsoluteIndex(kFrontBlockIndex, first) = IF n = 0 THEN kFrontBlockIndex ELSE f[1]
    /\ \A k \in 1 .. n :
          AbsoluteIndex(f[k], links[f[k]]) = IF k = n THEN kFrontBlockIndex ELSE f[k + 1]

\* So they are what the walk finds.
LEMMA ListIs ==
    ASSUME NEW n \in 0 .. NumBlocks - 1, NEW f \in [1 .. n -> Blocks], NEW first, NEW links,
           Linked(n, f, first, links)
    PROVE  ListOf(first, links) = f
<1> DEFINE w == [k \in 1 .. NumBlocks |-> IF k <= n THEN f[k] ELSE kFrontBlockIndex]
           at == CHOOSE g : Walks(g, first, links)
           onList == {k \in 1 .. NumBlocks : \A j \in 1 .. k : at[j] \in Blocks}
<1>1. n \in Nat /\ n + 1 <= NumBlocks /\ NumBlocks \in Nat /\ kFrontBlockIndex \notin Blocks
  BY AllocatorAssumption DEF Blocks, kFrontBlockIndex
<1>2. Walks(w, first, links)
  <2>1. ASSUME NEW k \in 1 .. NumBlocks
        PROVE  w[k] = IF k = 1 THEN AbsoluteIndex(kFrontBlockIndex, first)
                      ELSE IF w[k - 1] \in Blocks THEN AbsoluteIndex(w[k - 1], links[w[k - 1]])
                      ELSE kFrontBlockIndex
    <3>1. CASE k = 1
      BY <1>1, <3>1 DEF Linked
    <3>2. CASE k # 1 /\ k - 1 <= n
      <4>1. k - 1 \in 1 .. n /\ k - 1 \in 1 .. NumBlocks /\ w[k - 1] = f[k - 1] /\ f[k - 1] \in Blocks
        BY <1>1, <3>2
      <4>2. AbsoluteIndex(f[k - 1], links[f[k - 1]]) =
               IF k - 1 = n THEN kFrontBlockIndex ELSE f[(k - 1) + 1]
        BY <4>1 DEF Linked
      <4>3. w[k] = IF k - 1 = n THEN kFrontBlockIndex ELSE f[k]
        BY <1>1, <3>2
      <4>4. (k - 1) + 1 = k
        OBVIOUS
      <4> QED
        BY <3>2, <4>1, <4>2, <4>3, <4>4
    <3>3. CASE k # 1 /\ ~(k - 1 <= n)
      BY <1>1, <3>3
    <3> QED
      BY <3>1, <3>2, <3>3
  <2> HIDE DEF w
  <2>2. w = [k \in 1 .. NumBlocks |-> w[k]]
    BY DEF w
  <2> QED
    BY <2>1, <2>2 DEF Walks
<1>3. Walks(at, first, links)
  BY <1>2
<1> HIDE DEF at
<1>4. \A k \in 1 .. NumBlocks : at[k] = w[k]
  <2> DEFINE S == {k \in 1 .. NumBlocks : at[k] # w[k]}
  <2> SUFFICES ASSUME S # {} PROVE FALSE
    OBVIOUS
  <2>1. S \in SUBSET Nat
    OBVIOUS
  <2>2. PICK x \in S : \A y \in S : x <= y
    BY <2>1, LeastNatural
  <2> HIDE DEF w
  <2>3. x \in 1 .. NumBlocks /\ at[x] # w[x]
    BY <2>2
  <2>4. at[x] = IF x = 1 THEN AbsoluteIndex(kFrontBlockIndex, first)
                ELSE IF at[x - 1] \in Blocks THEN AbsoluteIndex(at[x - 1], links[at[x - 1]])
                ELSE kFrontBlockIndex
    BY <1>3, <2>3 DEF Walks
  <2>5. w[x] = IF x = 1 THEN AbsoluteIndex(kFrontBlockIndex, first)
               ELSE IF w[x - 1] \in Blocks THEN AbsoluteIndex(w[x - 1], links[w[x - 1]])
               ELSE kFrontBlockIndex
    BY <1>2, <2>3 DEF Walks
  <2>6. x # 1 => at[x - 1] = w[x - 1]
    <3>1. x # 1 => x - 1 \in 1 .. NumBlocks /\ ~(x <= x - 1)
      BY <1>1, <2>3
    <3> QED
      BY <2>2, <3>1
  <2> QED
    BY <2>3, <2>4, <2>5, <2>6
<1>5. onList = 1 .. n
  <2>1. ASSUME NEW k \in 1 .. NumBlocks
        PROVE  (\A j \in 1 .. k : at[j] \in Blocks) <=> k <= n
    <3>1. CASE k <= n
      BY <1>1, <1>4, <3>1
    <3>2. CASE ~(k <= n)
      <4>1. n + 1 \in 1 .. k /\ n + 1 \in 1 .. NumBlocks /\ w[n + 1] = kFrontBlockIndex
        BY <1>1, <3>2
      <4> QED
        BY <1>1, <1>4, <3>2, <4>1
    <3> QED
      BY <3>1, <3>2
  <2> QED
    BY <1>1, <2>1
<1>6. \A k \in 1 .. n : at[k] = f[k]
  BY <1>1, <1>4
<1>7. ListOf(first, links) = [k \in onList |-> at[k]]
  BY DEF ListOf, at
<1> HIDE DEF onList
<1>8. f = [k \in 1 .. n |-> f[k]]
  OBVIOUS
<1> QED
  BY <1>5, <1>6, <1>7, <1>8

\* The list of the invariant is what FreeBlocks reads off the headers.
LEMMA FreeBlocksIs ==
    ASSUME NEW n \in Nat, NEW f \in [1 .. n -> Blocks], IsFreeList(n, f)
    PROVE  FreeBlocks = f
<1>1. Linked(n, f, front.next, next)
  BY DEF IsFreeList, Linked
<1>2. n \in 0 .. NumBlocks - 1
  BY ListFits
<1> QED
  BY <1>1, <1>2, ListIs, FreeBlocksUnfolded

\* And so is the list that Allocate() or Free() leaves behind.
LEMMA FreeBlocksWillBe ==
    ASSUME NEW n \in 0 .. NumBlocks - 1, NEW f \in [1 .. n -> Blocks], IsFreeList(n, f)'
    PROVE  FreeBlocks' = f
<1>1. Linked(n, f, front'.next, next')
  BY DEF IsFreeList, Linked
<1> QED
  BY <1>1, ListIs, FreeBlocksUnfolded

----------------------------------------------------------------------------
(* Every step is one of FreeList, or leaves the list and the holders alone. *)

\* InitializeRegion() leaves all blocks free, in ascending order.
LEMMA InitRefines == Init => List!Init
<1> SUFFICES ASSUME Init PROVE List!Init
  OBVIOUS
<1> DEFINE n == NumBlocks - 1
           f == [k \in 1 .. n |-> k]
<1>1. n \in Nat /\ f \in [1 .. n -> Blocks]
  BY AllocatorAssumption DEF Blocks
<1>2. IsFreeList(n, f)
  BY InitialList
<1> HIDE DEF f, n
<1>3. FreeBlocks = f
  BY <1>1, <1>2, FreeBlocksIs
<1>4. owned = [t \in Threads |-> {}]
  BY DEF Init
<1> QED
  BY <1>3, <1>4 DEF List!Init, f, n

\* The compare-exchange of Allocate() takes the top of the stack.
LEMMA ClaimRefines ==
    ASSUME IInv, NEW t \in Threads, Claim(t)
    PROVE  List!Allocate(t)
<1>1. PICK n \in Nat : \E f \in [1 .. n -> Blocks] : IsFreeList(n, f)
  BY DEF IInv, Chained
<1>2. PICK f \in [1 .. n -> Blocks] : IsFreeList(n, f)
  BY <1>1
<1> DEFINE g == [k \in 1 .. n - 1 |-> f[k + 1]]
<1>3. n # 0 /\ f[1] = block[t] /\ IsFreeList(n - 1, g)'
  BY <1>2, ListAfterClaim
<1>4. n \in 0 .. NumBlocks - 1
  BY <1>2, ListFits
<1>5. n - 1 \in 0 .. NumBlocks - 1 /\ g \in [1 .. n - 1 -> Blocks]
  BY <1>3, <1>4, AllocatorAssumption
<1>6. f \in Seq(Blocks) /\ Len(f) = n /\ f # <<>> /\ Head(f) = f[1] /\ Tail(f) = g
  <2>1. f \in Seq(Blocks) /\ Len(f) = n
    OBVIOUS
  <2>2. f # <<>> /\ Head(f) = f[1]
    BY <1>3, <2>1
  <2>3. /\ Tail(f) \in Seq(Blocks) /\ Len(Tail(f)) = n - 1
        /\ \A k \in 1 .. n - 1 : Tail(f)[k] = f[k + 1]
    BY <2>1, <2>2, HeadTailProperties
  <2>4. g \in Seq(Blocks) /\ Len(g) = n - 1 /\ \A k \in 1 .. n - 1 : g[k] = f[k + 1]
    BY <1>5
  <2> HIDE DEF g
  <2>5. Tail(f) = g
    BY <2>3, <2>4, SeqEqual
  <2> QED
    BY <2>1, <2>2, <2>5
<1> HIDE DEF g
<1>7. FreeBlocks = f /\ FreeBlocks' = g
  BY <1>2, <1>3, <1>5, FreeBlocksIs, FreeBlocksWillBe
<1>8. owned' = [owned EXCEPT ![t] = @ \cup {block[t]}]
  BY DEF Claim
<1> QED
  BY <1>3, <1>6, <1>7, <1>8 DEF List!Allocate

\* The compare-exchange of Free() puts the block on top of the stack.
LEMMA ReleaseRefines ==
    ASSUME IInv, NEW t \in Threads, Release(t)
    PROVE  \E b \in owned[t] : List!Free(t, b)
<1>1. PICK n \in Nat : \E f \in [1 .. n -> Blocks] : IsFreeList(n, f)
  BY DEF IInv, Chained
<1>2. PICK f \in [1 .. n -> Blocks] : IsFreeList(n, f)
  BY <1>1
<1>3. block[t] \in owned[t] /\ block[t] \in Blocks
  BY DEF IInv, TypeOK, Releases, Release
<1>4. PICK b \in Blocks : b = block[t]
  BY <1>3
<1> DEFINE g == [k \in 1 .. n + 1 |-> IF k = 1 THEN b ELSE f[k - 1]]
<1>5. IsFreeList(n + 1, g)'
  BY <1>2, <1>4, ListAfterRelease
<1>6. n \in 0 .. NumBlocks - 1 /\ \A k \in 1 .. n : f[k] # b
  BY <1>2, <1>3, <1>4, ListFits DEF IsFreeList
<1>7. n + 1 \in 0 .. NumBlocks - 1 /\ g \in [1 .. n + 1 -> Blocks]
  <2>1. g \in [1 .. n + 1 -> Blocks]
    BY <1>6
  <2>2. \A j, k \in 1 .. n : f[j] = f[k] => j = k
    BY <1>2 DEF IsFreeList
  <2>3. f \in Injection(1 .. n, Blocks \ {b})
    BY <1>6, <2>2 DEF Injection, IsInjective
  <2>4. /\ IsFiniteSet(Blocks) /\ Cardinality(Blocks) = NumBlocks - 1
        /\ Cardinality(1 .. n) = n
    BY FS_Interval, AllocatorAssumption DEF Blocks
  <2>5. IsFiniteSet(Blocks \ {b}) /\ Cardinality(Blocks \ {b}) = NumBlocks - 2
    BY <2>4, FS_RemoveElement, AllocatorAssumption
  <2>6. n <= NumBlocks - 2
    BY <2>3, <2>4, <2>5, FS_Injection
  <2> QED
    BY <1>6, <2>1, <2>6, AllocatorAssumption
<1>8. f \in Seq(Blocks) /\ Len(f) = n /\ <<b>> \o f = g
  OBVIOUS
<1> HIDE DEF g
<1>9. FreeBlocks = f /\ FreeBlocks' = g
  BY <1>2, <1>5, <1>7, FreeBlocksIs, FreeBlocksWillBe
<1>10. owned' = [owned EXCEPT ![t] = @ \ {b}]
  BY <1>4 DEF Release
<1> QED
  BY <1>3, <1>4, <1>8, <1>9, <1>10 DEF List!Free

\* Whatever is done to the header of a block that is held, the list is the same.
LEMMA HeldHeaderIsNoStep ==
    ASSUME IInv, NEW t \in Threads, NEW b \in owned[t], NEW data,
           next' = [next EXCEPT ![b] = data], UNCHANGED <<front, owned>>
    PROVE  UNCHANGED <<FreeBlocks, owned>>
<1>1. PICK n \in Nat : \E f \in [1 .. n -> Blocks] : IsFreeList(n, f)
  BY DEF IInv, Chained
<1>2. PICK f \in [1 .. n -> Blocks] : IsFreeList(n, f)
  BY <1>1
<1>3. IsFreeList(n, f)'
  BY <1>2, ListIgnoresHeld DEF IInv
<1>4. n \in 0 .. NumBlocks - 1
  BY <1>2, ListFits
<1>5. FreeBlocks = f /\ FreeBlocks' = f
  BY <1>2, <1>3, <1>4, FreeBlocksIs, FreeBlocksWillBe
<1> QED
  BY <1>5

\* Neither has a step that leaves the headers alone any effect.
LEMMA HeadersStay ==
    ASSUME UNCHANGED <<front, next, owned>>
    PROVE  UNCHANGED <<FreeBlocks, owned>>
BY FreeBlocksUnfolded

\* Each step of the threads and of the application.
LEMMA NextRefines ==
    ASSUME IInv, [Next]_vars
    PROVE  [List!Next]_<<FreeBlocks, owned>>
<1>1. ASSUME NEW t \in Threads, BeginAllocate(t) PROVE UNCHANGED <<FreeBlocks, owned>>
  BY <1>1, HeadersStay DEF BeginAllocate
<1>2. ASSUME NEW t \in Threads, Run(t) PROVE [List!Next]_<<FreeBlocks, owned>>
  <2>1. ASSUME LoadHeader(t) \/ ClaimRetry(t) \/ ReleaseRetry(t)
        PROVE  UNCHANGED <<FreeBlocks, owned>>
    BY <2>1, HeadersStay DEF LoadHeader, ClaimRetry, ReleaseRetry
  <2>2. ASSUME Link(t) PROVE UNCHANGED <<FreeBlocks, owned>>
    <3>1. block[t] \in owned[t] /\ UNCHANGED <<front, owned>>
      BY <2>2 DEF IInv, Releases, Link
    <3>2. \/ UNCHANGED next
          \/ \E data : next' = [next EXCEPT ![block[t]] = data]
      BY <2>2 DEF Link
    <3> QED
      BY <3>1, <3>2, HeldHeaderIsNoStep, HeadersStay
  <2> QED
    BY <1>2, <2>1, <2>2, ClaimRefines, ReleaseRefines DEF Run, List!Next
<1>3. ASSUME NEW t \in Threads, NEW b \in Blocks, Use(t, b) PROVE UNCHANGED <<FreeBlocks, owned>>
  <2>1. ASSUME BeginFree(t, b) PROVE UNCHANGED <<FreeBlocks, owned>>
    BY <2>1, HeadersStay DEF BeginFree
  <2>2. ASSUME NEW data \in Data, Write(t, b, data) PROVE UNCHANGED <<FreeBlocks, owned>>
    BY <2>2, HeldHeaderIsNoStep DEF Write
  <2> QED
    BY <1>3, <2>1, <2>2 DEF Use
<1>4. ASSUME UNCHANGED vars PROVE UNCHANGED <<FreeBlocks, owned>>
  BY <1>4, HeadersStay DEF vars
<1> QED
  BY <1>1, <1>2, <1>3, <1>4 DEF Next

\* The lock-free allocator is a stack of free blocks: every successful Allocate()
\* or Free() takes effect in one step, at its compare-exchange, and no other step
\* of a thread, nor what the application writes to a block, has any effect.
THEOREM AllocatorIsAStack == Spec => ImplementsFreeList
BY InitRefines, NextRefines, Invariant, PTL DEF Spec, ImplementsFreeList, List!Spec
=============================================================================
