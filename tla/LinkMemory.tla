----------------------------- MODULE LinkMemory -----------------------------
(***************************************************************************)
(* The two ends of a NodeLink as users of the memory they share: blocks    *)
(* are allocated by both, a side that runs out of them allocates a new     *)
(* buffer and shares it, and messages name blocks in buffers that their    *)
(* receiver may not know yet.  What is carried in blocks is the data of    *)
(* parcels, which moves with the parcel, and RouterLinkStates, which both  *)
(* ends of a central link refer to and which are counted.                  *)
(*                                                                         *)
(* Parcels may have driver objects and subparcels.  Between two nodes that *)
(* are not brokers driver objects are relayed by a broker, past the other  *)
(* messages of the link, so that a parcel arrives in pieces, in any order. *)
(*                                                                         *)
(* Every thread has a stack of frames, a frame being a call that is still  *)
(* to be made, and a step makes the call on top up to the next one that    *)
(* another thread can see.  Threads 1 and 2 dispatch the messages of the   *)
(* link at its two sides, 3 and 4 those that arrive by the broker, and -c  *)
(* makes the application's call c.                                         *)
(***************************************************************************)
EXTENDS BufferPool, Integers, FiniteSets, SequencesExt

CONSTANTS
  Scenarios,    \* what the applications do, see Init
  MaxCalls,     \* bound on the calls of a scenario
  PrimaryBlocks,\* block size -> number of blocks in the primary buffer
  NewBlocks,    \* number of blocks in a new buffer
  MinFallback,  \* kMinBestEffortFallbackBlockSize
  MaxSize,      \* kMaxFragmentSizeForBlockAllocation
  MaxCapacity   \* kMaxBlockAllocatorCapacityPerFragmentSize

ASSUME LinkMemoryAssumption ==
  /\ MaxCalls \in Nat /\ NewBlocks \in Nat \ {0}
  /\ MinFallback \in Nat \ {0} /\ MaxSize \in Nat /\ MaxCapacity \in Nat
  /\ \A size \in DOMAIN PrimaryBlocks :
       size \in Nat \ {0} /\ PrimaryBlocks[size] \in Nat

VARIABLES
  scenario,   \* the scenario played
  started,    \* the calls made so far
  attached,   \* side -> node_link_ is set
  next_id,    \* side -> next_buffer_id
  pool,       \* side -> buffer_pool_
  capacity,   \* side -> capacity_callbacks_
  asked,      \* side -> sizes asked of the node's allocation delegate
  free,       \* the free blocks of all buffers
  refs,       \* block of a RouterLinkState -> its reference count
  stable,     \* block of a RouterLinkState -> sides marked stable in it
  rlink,      \* side -> link -> RemoteRouterLink
  direct,     \* side -> messages on their way to it over the link
  relayed,    \* side -> messages on their way to it by the broker
  partial,    \* side -> partial_parcels_
  trackers,   \* side -> subparcel_trackers_
  inbox,      \* side -> parcels accepted, not yet read
  stack,      \* thread -> frames
  seen        \* results and failures

vars == <<scenario, started, attached, next_id, pool, capacity, asked, free,
          refs, stable, rlink, direct, relayed, partial, trackers, inbox,
          stack, seen>>
memory == <<attached, next_id, pool, capacity, asked>>
parcels == <<partial, trackers, inbox>>
queues == <<direct, relayed>>
script == <<scenario, started>>

Side == 1..2
Other(s) == 3 - s
CallIds == 1..Len(scenario.calls)
Calls == scenario.calls
Thread == (-MaxCalls..-1) \cup 1..4
SideOf(t) == IF t < 0 THEN Calls[-t].s ELSE ((t - 1) % 2) + 1

PrimaryBuffer == <<0, 0>>
NoBlock == <<>>
RouterLinkStateSize == 1

BlocksOf(buffer, size, n) == {<<buffer, size, i>> : i \in 1..n}
BufferOf(block) == block[1]
SizeOf(block) == block[2]
FreeIn(buffer, size) == {b \in free : BufferOf(b) = buffer /\ SizeOf(b) = size}

(***************************************************************************)
(* Threads and messages.                                                   *)
(***************************************************************************)
Top(t) == Head(stack[t])
At(t, op) == stack[t] # <<>> /\ Top(t).op = op
Return(t, frames) == stack' = [stack EXCEPT ![t] = frames \o Tail(@)]
Call(t, frames) == stack' = [stack EXCEPT ![t] = frames]

Quiet ==
  /\ \A t \in Thread : stack[t] = <<>>
  /\ \A s \in Side : direct[s] = <<>> /\ relayed[s] = <<>> /\ asked[s] = <<>>

Fail(what) == seen' = [seen EXCEPT !.failed = @ \cup {what}]

\* Messages with driver objects go by the broker when neither side is one.
Transmit(s, m, has_objects) ==
  IF has_objects /\ scenario.relay
  THEN relayed' = [relayed EXCEPT ![Other(s)] = Append(@, m)] /\ UNCHANGED direct
  ELSE direct' = [direct EXCEPT ![Other(s)] = Append(@, m)] /\ UNCHANGED relayed

(***************************************************************************)
(* Allocation.  A frame "Allocate" goes through the entries of a pool; what *)
(* becomes of the block, or of the lack of one, is in its field then.       *)
(***************************************************************************)
ForPut(c, size) == [kind |-> "put", call |-> c, size |-> size]
ForBestEffort(c, size) == [kind |-> "best", call |-> c, size |-> size]
ForTry(c) == [kind |-> "try", call |-> c, size |-> RouterLinkStateSize]
ForState(c) == [kind |-> "state", call |-> c, size |-> RouterLinkStateSize]

\* BufferPool::AllocateBlock, and BlockAllocatorPool::Allocate up to its loop.
AllocateBlock(s, then) ==
  IF HasPool(pool[s], then.size)
  THEN LET size == PoolFor(pool[s], then.size) IN
       <<[op |-> "Allocate", size |-> size, entry |-> pool[s].active[size],
          start |-> pool[s].active[size], then |-> then]>>
  ELSE <<[op |-> "Allocated", block |-> NoBlock, then |-> then]>>

\* NodeLinkMemory::AllocateFragment up to the allocation.
AllocateFragment(s, then) ==
  IF then.size = 0 \/ then.size > MaxSize
  THEN <<[op |-> "Send", call |-> then.call, block |-> NoBlock]>>
  ELSE AllocateBlock(s, then)

\* A step of the loop in BlockAllocatorPool::Allocate.  The new active entry is
\* set by a weak compare and swap, which may fail.
Allocate(t) ==
  /\ At(t, "Allocate")
  /\ LET f == Top(t)
         s == SideOf(t)
         entries == pool[s].entries[f.size]
         blocks == FreeIn(entries[f.entry], f.size)
     IN
     \/ /\ blocks # {}
        /\ LET b == CHOOSE x \in blocks : TRUE IN
           /\ free' = free \ {b}
           /\ Return(t, <<[op |-> "Allocated", block |-> b, then |-> f.then]>>)
        /\ \/ UNCHANGED pool
           \/ /\ f.entry # f.start /\ pool[s].active[f.size] = f.start
              /\ pool' = [pool EXCEPT ![s].active[f.size] = f.entry]
     \/ /\ blocks = {}
        /\ Return(t, IF f.entry < Len(entries)
                     THEN <<[f EXCEPT !.entry = @ + 1]>>
                     ELSE <<[op |-> "Allocated", block |-> NoBlock, then |-> f.then]>>)
        /\ UNCHANGED <<free, pool>>
  /\ UNCHANGED <<script, attached, next_id, capacity, asked, refs, stable, rlink,
                 queues, parcels, seen>>

\* RouterLinkState::Initialize: one reference, and neither side is stable.
Initialize(block) ==
  /\ refs' = (block :> 1) @@ refs
  /\ stable' = (block :> {}) @@ stable

\* The end of AllocateFragment, AllocateFragmentBestEffort,
\* TryAllocateRouterLinkState and AllocateRouterLinkState.  The router that
\* tries to allocate a link state and fails goes on asynchronously.
Allocated(t) ==
  /\ At(t, "Allocated")
  /\ LET f == Top(t)
         then == f.then
         request == [op |-> "RequestBlockCapacity", size |-> then.size]
     IN
     \/ /\ then.kind \in {"put", "best"} /\ f.block # NoBlock
        /\ Return(t, <<[op |-> "Send", call |-> then.call, block |-> f.block]>>)
        /\ UNCHANGED <<refs, stable>>
     \/ /\ then.kind = "put" /\ f.block = NoBlock
        /\ Return(t, <<[op |-> "CanExpandBlockCapacity", size |-> then.size],
                       [op |-> "Send", call |-> then.call, block |-> NoBlock]>>)
        /\ UNCHANGED <<refs, stable>>
     \/ /\ then.kind = "best" /\ f.block = NoBlock
        /\ Return(t, <<[op |-> "CanExpandBlockCapacity", size |-> then.size],
                       [op |-> "AllocateFragmentBestEffort", call |-> then.call,
                        size |-> then.size \div 2]>>)
        /\ UNCHANGED <<refs, stable>>
     \/ /\ then.kind \in {"try", "state"} /\ f.block # NoBlock
        /\ Initialize(f.block)
        /\ Return(t, <<[op |-> "AddLink", call |-> then.call, block |-> f.block]>>)
     \/ /\ then.kind = "try" /\ f.block = NoBlock
        /\ Return(t, <<request @@ [callback |-> NoBlock],
                       [op |-> "AllocateRouterLinkState", call |-> then.call]>>)
        /\ UNCHANGED <<refs, stable>>
     \/ /\ then.kind = "state" /\ f.block = NoBlock
        /\ Return(t, <<request @@ [callback |-> <<then.call>>]>>)
        /\ UNCHANGED <<refs, stable>>
  /\ UNCHANGED <<script, memory, free, rlink, queues, parcels, seen>>

\* The loop of NodeLinkMemory::AllocateFragmentBestEffort.
AllocateFragmentBestEffort(t) ==
  /\ At(t, "AllocateFragmentBestEffort")
  /\ LET f == Top(t) IN
     Return(t, IF f.size >= MinFallback
               THEN AllocateFragment(SideOf(t), ForBestEffort(f.call, f.size))
               ELSE <<[op |-> "Send", call |-> f.call, block |-> NoBlock]>>)
  /\ UNCHANGED <<script, memory, free, refs, stable, rlink, queues, parcels, seen>>

AllocateRouterLinkState(t) ==
  /\ At(t, "AllocateRouterLinkState")
  /\ Return(t, AllocateBlock(SideOf(t), ForState(Top(t).call)))
  /\ UNCHANGED <<script, memory, free, refs, stable, rlink, queues, parcels, seen>>

(***************************************************************************)
(* Capacity.                                                               *)
(***************************************************************************)
CanExpandBlockCapacity(t) ==
  /\ At(t, "CanExpandBlockCapacity")
  /\ LET f == Top(t)
         can == scenario.expand
                /\ GetTotalBlockCapacity(pool[SideOf(t)], f.size, NewBlocks) < MaxCapacity
     IN Return(t, IF can THEN <<[op |-> "RequestBlockCapacity", size |-> f.size,
                                 callback |-> NoBlock]>> ELSE <<>>)
  /\ UNCHANGED <<script, memory, free, refs, stable, rlink, queues, parcels, seen>>

\* NodeLinkMemory::RequestBlockCapacity.  Memory is allocated here, or by the
\* node's allocation delegate, which answers on another thread.
RequestBlockCapacity(t) ==
  /\ At(t, "RequestBlockCapacity")
  /\ LET f == Top(t)
         s == SideOf(t)
         pending == f.size \in DOMAIN capacity[s]
         callbacks == IF pending THEN capacity[s][f.size] ELSE <<>>
     IN
     /\ capacity' = [capacity EXCEPT ![s] = (f.size :> Append(callbacks, f.callback)) @@ @]
     /\ \/ /\ pending \/ ~attached[s]
           /\ Return(t, <<>>)
           /\ UNCHANGED asked
        \/ /\ ~pending /\ attached[s] /\ scenario.delegate
           /\ asked' = [asked EXCEPT ![s] = Append(@, f.size)]
           /\ Return(t, <<>>)
        \/ /\ ~pending /\ attached[s] /\ ~scenario.delegate
           /\ Return(t, <<[op |-> "ShareBuffer", size |-> f.size]>>)
           /\ UNCHANGED asked
  /\ UNCHANGED <<script, attached, next_id, pool, free, refs, stable, rlink,
                 queues, parcels, seen>>

\* The delegate's answer, see module Network.
AnswerAllocation(s) ==
  /\ stack[s + 2] = <<>>
  /\ asked[s] # <<>>
  /\ asked' = [asked EXCEPT ![s] = Tail(@)]
  /\ Call(s + 2, <<[op |-> "ShareBuffer", size |-> Head(asked[s])]>>)
  /\ UNCHANGED <<script, attached, next_id, pool, capacity, free, refs, stable,
                 rlink, queues, parcels, seen>>

\* Mutant: the id has no bit for the side.
AllocateNewBufferIdUnsided(s) ==
  IF scenario.mem_v2 THEN <<0, next_id[s]>> ELSE <<0, next_id[1]>>

\* Without features in common the ids of buffers come from a counter in the
\* primary buffer, otherwise from one of this side's and a bit for the side.
AllocateNewBufferId(s) ==
  IF scenario.mem_v2 THEN <<s - 1, next_id[s]>> ELSE <<0, next_id[1]>>

Counted(s) ==
  next_id' = [next_id EXCEPT ![IF scenario.mem_v2 THEN s ELSE 1] = @ + 1]

\* Mutant: the buffer is registered here before it is shared.
ShareBufferLate(t) ==
  /\ At(t, "ShareBuffer")
  /\ LET s == SideOf(t)
         size == Top(t).size
         id == AllocateNewBufferId(s)
     IN
     /\ Counted(s)
     /\ free' = free \cup BlocksOf(id, size, NewBlocks)
     /\ seen' = [seen EXCEPT !.blocks = @ \cup BlocksOf(id, size, NewBlocks)]
     /\ Return(t, <<[op |-> "AddBlockBuffer", id |-> id, size |-> size],
                    [op |-> "Transmit", has_objects |-> TRUE,
                     m |-> [type |-> "AddBlockBuffer", id |-> id, size |-> size]],
                    [op |-> "OnCapacityRequestComplete", size |-> size, success |-> TRUE]>>)
  /\ UNCHANGED <<script, attached, pool, capacity, asked, refs, stable, rlink,
                 queues, parcels>>

\* The callback that RequestBlockCapacity gives to AllocateSharedMemory.
ShareBuffer(t) ==
  /\ At(t, "ShareBuffer")
  /\ LET s == SideOf(t)
         size == Top(t).size
         id == AllocateNewBufferId(s)
         complete(ok) ==
           [op |-> "OnCapacityRequestComplete", size |-> size, success |-> ok]
     IN
     \/ /\ scenario.scarce
        /\ Return(t, <<complete(FALSE)>>)
        /\ UNCHANGED <<next_id, free, seen>>
     \/ /\ Counted(s)
        /\ free' = free \cup BlocksOf(id, size, NewBlocks)
        /\ seen' = [seen EXCEPT !.blocks = @ \cup BlocksOf(id, size, NewBlocks)]
        /\ Return(t, <<[op |-> "Transmit", has_objects |-> TRUE,
                        m |-> [type |-> "AddBlockBuffer", id |-> id, size |-> size]],
                       [op |-> "AddBlockBuffer", id |-> id, size |-> size],
                       complete(TRUE)>>)
  /\ UNCHANGED <<script, attached, pool, capacity, asked, refs, stable, rlink,
                 queues, parcels>>

TransmitStep(t) ==
  /\ At(t, "Transmit")
  /\ Transmit(SideOf(t), Top(t).m, Top(t).has_objects)
  /\ Return(t, <<>>)
  /\ UNCHANGED <<script, memory, free, refs, stable, rlink, parcels, seen>>

\* Mutant: the callbacks that wait for the buffer are forgotten.
AddBufferQuietly(t) ==
  /\ At(t, "AddBlockBuffer")
  /\ pool' = [pool EXCEPT ![SideOf(t)] = AddBlockBuffer(@, Top(t).id, {Top(t).size})]
  /\ Return(t, <<>>)
  /\ UNCHANGED <<script, attached, next_id, capacity, asked, free, refs, stable,
                 rlink, queues, parcels, seen>>

\* NodeLinkMemory::AddBlockBuffer, for this side's new buffer or for the
\* other's.
AddBuffer(t) ==
  /\ At(t, "AddBlockBuffer")
  /\ LET s == SideOf(t)
         id == Top(t).id
     IN
     IF GetFragmentIsPending(pool[s], id)
     THEN /\ pool' = [pool EXCEPT ![s] = AddBlockBuffer(@, id, {Top(t).size})]
          /\ Return(t, Waiting(pool[s], id))
          /\ UNCHANGED seen
     ELSE /\ Fail("buffer added twice")
          /\ Return(t, <<>>)
          /\ UNCHANGED pool
  /\ UNCHANGED <<script, attached, next_id, capacity, asked, free, refs, stable,
                 rlink, queues, parcels>>

\* Mutant: only the callback that made the request is run.
OnCapacityRequestCompleteFirst(t) ==
  /\ At(t, "OnCapacityRequestComplete")
  /\ LET s == SideOf(t)
         f == Top(t)
         calls == Head(capacity[s][f.size])
     IN
     /\ capacity' = [capacity EXCEPT ![s] = Restrict(@, DOMAIN @ \ {f.size})]
     /\ Return(t, [i \in DOMAIN calls |->
          [op |-> "AllocateRouterLinkState", call |-> calls[i]]])
  /\ UNCHANGED <<script, attached, next_id, pool, asked, free, refs, stable,
                 rlink, queues, parcels, seen>>

\* Mutant: allocation is tried again after a request that failed.
OnCapacityRequestCompleteAnyway(t) ==
  /\ At(t, "OnCapacityRequestComplete")
  /\ LET s == SideOf(t)
         f == Top(t)
         calls == FlattenSeq(capacity[s][f.size])
     IN
     /\ capacity' = [capacity EXCEPT ![s] = Restrict(@, DOMAIN @ \ {f.size})]
     /\ Return(t, [i \in DOMAIN calls |->
          [op |-> "AllocateRouterLinkState", call |-> calls[i]]])
  /\ UNCHANGED <<script, attached, next_id, pool, asked, free, refs, stable,
                 rlink, queues, parcels, seen>>

\* NodeLinkMemory::OnCapacityRequestComplete
OnCapacityRequestComplete(t) ==
  /\ At(t, "OnCapacityRequestComplete")
  /\ LET s == SideOf(t)
         f == Top(t)
         calls == FlattenSeq(capacity[s][f.size])
     IN
     /\ capacity' = [capacity EXCEPT ![s] = Restrict(@, DOMAIN @ \ {f.size})]
     /\ IF f.success
        THEN /\ Return(t, [i \in DOMAIN calls |->
                  [op |-> "AllocateRouterLinkState", call |-> calls[i]]])
             /\ UNCHANGED seen
        ELSE /\ Return(t, <<>>)
             /\ seen' = [seen EXCEPT !.answered = @ \o calls]
  /\ UNCHANGED <<script, attached, next_id, pool, asked, free, refs, stable,
                 rlink, queues, parcels>>

\* NodeLinkMemory::SetNodeLink, when the link is activated.
SetNodeLink(t) ==
  /\ At(t, "SetNodeLink")
  /\ LET s == SideOf(t)
         sizes == SetToSeq(DOMAIN capacity[s])
     IN
     /\ attached' = [attached EXCEPT ![s] = TRUE]
     /\ Return(t, [i \in DOMAIN sizes |->
          [op |-> "RequestBlockCapacity", size |-> sizes[i], callback |-> NoBlock]])
  /\ UNCHANGED <<script, next_id, pool, capacity, asked, free, refs, stable, rlink,
                 queues, parcels, seen>>

(***************************************************************************)
(* Central links.  The side that made the link state adds its end of the   *)
(* link with a second reference, and sends the first one away.             *)
(***************************************************************************)
NoLink == [status |-> "none", state |-> NoBlock, stable |-> FALSE]

\* NodeLink::AddRemoteRouterLink at the side that allocated the state, as in
\* Router::BypassPeerWithNewRemoteLink.
AddLink(t) ==
  /\ At(t, "AddLink")
  /\ LET s == SideOf(t)
         f == Top(t)
         l == Calls[f.call].link
     IN
     /\ refs' = [refs EXCEPT ![f.block] = @ + 1]
     /\ rlink' = [rlink EXCEPT ![s][l] =
                    [status |-> "live", state |-> f.block, stable |-> FALSE]]
     /\ Return(t, <<[op |-> "Transmit", has_objects |-> FALSE,
                     m |-> [type |-> "AcceptBypassLink", link |-> l, block |-> f.block]]>>)
     /\ seen' = [seen EXCEPT !.answered = Append(@, f.call)]
  /\ UNCHANGED <<script, memory, free, stable, queues, parcels>>

\* RemoteRouterLink::SetLinkState, with a fragment that is addressable.  Nothing
\* is ever in link_state_callbacks_, as no code calls WaitForLinkStateAsync(),
\* and the router's Flush() at the end changes nothing that is modelled here.
SetLinkState(t) ==
  /\ At(t, "SetLinkState")
  /\ LET s == SideOf(t)
         f == Top(t)
     IN
     /\ IF rlink[s][f.link].state = NoBlock THEN UNCHANGED seen ELSE Fail("set twice")
     /\ rlink' = [rlink EXCEPT ![s][f.link].state = f.block]
     /\ Return(t, <<[op |-> "PassStableOn", link |-> f.link]>>)
  /\ UNCHANGED <<script, memory, free, refs, stable, queues, parcels>>

\* The rest of SetLinkState: the side may have been marked stable before.
PassStableOn(t) ==
  /\ At(t, "PassStableOn")
  /\ LET s == SideOf(t)
         l == rlink[s][Top(t).link]
     IN stable' = IF l.stable THEN [stable EXCEPT ![l.state] = @ \cup {s}] ELSE stable
  /\ Return(t, <<>>)
  /\ UNCHANGED <<script, memory, free, refs, rlink, queues, parcels, seen>>

\* RemoteRouterLink::MarkSideStable, in two steps.
MarkSideStable(t) ==
  /\ At(t, "MarkSideStable")
  /\ rlink' = [rlink EXCEPT ![SideOf(t)][Top(t).link].stable = TRUE]
  /\ Return(t, <<[op |-> "SetSideStable", link |-> Top(t).link]>>)
  /\ UNCHANGED <<script, memory, free, refs, stable, queues, parcels, seen>>

SetSideStable(t) ==
  /\ At(t, "SetSideStable")
  /\ LET s == SideOf(t)
         state == rlink[s][Top(t).link].state
     IN stable' = IF state = NoBlock THEN stable
                  ELSE [stable EXCEPT ![state] = @ \cup {s}]
  /\ Return(t, <<>>)
  /\ UNCHANGED <<script, memory, free, refs, rlink, queues, parcels, seen>>

\* A thread that has a call to make on the link, or a callback that waits for
\* its link state, keeps the RemoteRouterLink alive.
UsesLink(f, l) ==
  \/ f.op \in {"SetLinkState", "PassStableOn", "MarkSideStable", "SetSideStable"}
     /\ f.link = l
  \/ f.op = "WaitForBufferAsync" /\ f.then.op = "SetLinkState" /\ f.then.link = l

InUse(s, l) ==
  \/ \E t \in Thread : \E i \in DOMAIN stack[t] : SideOf(t) = s /\ UsesLink(stack[t][i], l)
  \/ \E b \in DOMAIN pool[s].waiting : \E i \in DOMAIN pool[s].waiting[b] :
       UsesLink(pool[s].waiting[b][i], l)

\* Mutant: the first of the two ends frees the link state.
DestroyLinkFreely(s, l) ==
  /\ rlink[s][l].status = "dropped"
  /\ ~InUse(s, l)
  /\ rlink' = [rlink EXCEPT ![s][l] = [NoLink EXCEPT !.status = "destroyed"]]
  /\ refs' = [refs EXCEPT ![rlink[s][l].state] = @ - 1]
  /\ free' = free \cup {rlink[s][l].state}
  /\ UNCHANGED <<script, memory, stable, queues, parcels, stack, seen>>

\* GenericFragmentRef::reset, when the RemoteRouterLink is destroyed.
DestroyLink(s, l) ==
  /\ rlink[s][l].status = "dropped"
  /\ ~InUse(s, l)
  /\ rlink' = [rlink EXCEPT ![s][l] = [NoLink EXCEPT !.status = "destroyed"]]
  /\ LET b == rlink[s][l].state IN
     /\ refs' = IF b = NoBlock THEN refs ELSE [refs EXCEPT ![b] = @ - 1]
     /\ free' = IF b = NoBlock \/ refs[b] > 1 THEN free ELSE free \cup {b}
  /\ UNCHANGED <<script, memory, stable, queues, parcels, stack, seen>>

(***************************************************************************)
(* Parcels.  A call puts a parcel with "objects" driver objects and one    *)
(* subparcel for every member of "subparcels", with as many driver objects *)
(* as the member says.  Piece 0 is the parcel itself.                      *)
(***************************************************************************)
ObjectsIn(c, i) == IF i = 0 THEN Calls[c].objects ELSE Calls[c].subparcels[i]

\* A message of RemoteRouterLink::AcceptParcel.  A piece whose driver objects
\* are relayed is split in two.
Piece(c, i, half, block) ==
  [type |-> "AcceptParcel", sequence_number |-> c, index |-> i, half |-> half,
   num |-> Len(Calls[c].subparcels) + 1, objects |-> ObjectsIn(c, i),
   block |-> block]

PieceMessages(c, i, block) ==
  LET send(half, b, objects) ==
        [op |-> "Transmit", has_objects |-> objects, m |-> Piece(c, i, half, b)]
  IN IF scenario.relay /\ ObjectsIn(c, i) > 0
     THEN <<send("objects", NoBlock, TRUE), send("data", block, FALSE)>>
     ELSE <<send("whole", block, ObjectsIn(c, i) > 0)>>

\* RemoteRouterLink::AcceptParcel.  Subparcels are sent first.  Data that lies
\* in the memory of another link is copied into the message, and its fragment
\* freed with the parcel.
Send(t) ==
  /\ At(t, "Send")
  /\ LET c == Top(t).call
         block == Top(t).block
         n == Len(Calls[c].subparcels)
     IN Return(t,
          IF Calls[c].elsewhere
          THEN <<[op |-> "FreeFragment", block |-> block]>>
          ELSE FlattenSeq([i \in 1..n |-> PieceMessages(c, i, NoBlock)])
               \o PieceMessages(c, 0, block))
  /\ UNCHANGED <<script, memory, free, refs, stable, rlink, queues, parcels, seen>>

\* Parcel::DataFragment::reset
FreeFragment(t) ==
  /\ At(t, "FreeFragment")
  /\ free' = free \cup ({Top(t).block} \ {NoBlock})
  /\ Return(t, <<>>)
  /\ UNCHANGED <<script, memory, refs, stable, rlink, queues, parcels, seen>>

\* NodeLink::AcceptParcelWithoutDriverObjects and AcceptParcelDriverObjects:
\* the half that comes first waits for the other.
AcceptSplitParcel(without, with) ==
  [without EXCEPT !.half = "whole", !.objects = with.objects]

AcceptPiece(t) ==
  /\ At(t, "AcceptPiece")
  /\ LET s == SideOf(t)
         m == Top(t).m
         key == m.sequence_number
         first == partial[s][key]
     IN
     \/ /\ m.half = "whole"
        /\ Return(t, <<[op |-> "AcceptCompleteParcel", m |-> m]>>)
        /\ UNCHANGED <<partial, seen>>
     \/ /\ m.half # "whole" /\ key \notin DOMAIN partial[s]
        /\ partial' = [partial EXCEPT ![s] = (key :> m) @@ @]
        /\ Return(t, <<>>)
        /\ UNCHANGED seen
     \/ /\ m.half # "whole" /\ key \in DOMAIN partial[s]
        /\ partial' = [partial EXCEPT ![s] = Restrict(@, DOMAIN @ \ {key})]
        /\ IF m.objects = first.objects
           THEN /\ Return(t, <<[op |-> "AcceptCompleteParcel",
                                m |-> IF m.half = "data" THEN AcceptSplitParcel(m, first)
                                                         ELSE AcceptSplitParcel(first, m)]>>)
                /\ UNCHANGED seen
           ELSE Return(t, <<>>) /\ Fail("parcel refused")
  /\ UNCHANGED <<script, memory, free, refs, stable, rlink, queues, trackers, inbox>>

\* NodeLink::AcceptCompleteParcel.  The last of the subparcels completes the
\* parcel.
AcceptCompleteParcel(t) ==
  /\ At(t, "AcceptCompleteParcel")
  /\ LET s == SideOf(t)
         m == Top(t).m
         key == m.sequence_number
         received == IF key \in DOMAIN trackers[s] THEN trackers[s][key] ELSE EmptyMap
         all == (m.index :> m) @@ received
         last == Cardinality(DOMAIN all) = m.num
     IN
     IF m.index \in DOMAIN received
     THEN Fail("parcel refused") /\ UNCHANGED <<trackers, inbox>>
     ELSE /\ trackers' = [trackers EXCEPT ![s] =
               IF last THEN Restrict(@, DOMAIN @ \ {key}) ELSE (key :> all) @@ @]
          /\ inbox' = IF last THEN [inbox EXCEPT ![s] = Append(@, all)] ELSE inbox
          /\ UNCHANGED seen
  /\ Return(t, <<>>)
  /\ UNCHANGED <<script, memory, free, refs, stable, rlink, queues, partial>>

\* The application reads a parcel, and the parcel is destroyed.
Read(s) ==
  /\ inbox[s] # <<>>
  /\ inbox' = [inbox EXCEPT ![s] = Tail(@)]
  /\ free' = free \cup ({Head(inbox[s])[0].block} \ {NoBlock})
  /\ seen' = [seen EXCEPT !.read = Append(@, Head(inbox[s])[0].sequence_number)]
  /\ UNCHANGED <<script, memory, refs, stable, rlink, queues, partial, trackers, stack>>

(***************************************************************************)
(* Dispatch of messages.                                                   *)
(***************************************************************************)
\* OnAcceptParcel and OnAcceptBypassLink look the fragment up before they wait
\* for its buffer, with the callback then.
Resolve(s, block, then) ==
  IF block # NoBlock /\ GetFragmentIsPending(pool[s], BufferOf(block))
  THEN [op |-> "WaitForBufferAsync", buffer |-> BufferOf(block), then |-> then]
  ELSE then

WaitForBufferAsync(t) ==
  /\ At(t, "WaitForBufferAsync")
  /\ LET s == SideOf(t)
         f == Top(t)
     IN
     \/ /\ ~GetFragmentIsPending(pool[s], f.buffer)
        /\ Return(t, <<f.then>>)
        /\ UNCHANGED pool
     \/ /\ GetFragmentIsPending(pool[s], f.buffer)
        /\ pool' = [pool EXCEPT ![s] = WaitForBuffer(@, f.buffer, f.then)]
        /\ Return(t, <<>>)
  /\ UNCHANGED <<script, attached, next_id, capacity, asked, free, refs, stable,
                 rlink, queues, parcels, seen>>

\* OnAddBlockBuffer, OnAcceptParcel, OnAcceptParcelDriverObjects and
\* OnAcceptBypassLink, on the thread of the link or of the broker's.
Dispatch(t, m) ==
  LET s == SideOf(t) IN
  /\ \/ /\ m.type = "AddBlockBuffer"
        /\ Call(t, <<[op |-> "AddBlockBuffer", id |-> m.id, size |-> m.size]>>)
        /\ UNCHANGED rlink
     \/ /\ m.type = "AcceptParcel"
        /\ Call(t, <<Resolve(s, m.block, [op |-> "AcceptPiece", m |-> m])>>)
        /\ UNCHANGED rlink
     \/ /\ m.type = "AcceptBypassLink"
        /\ rlink' = [rlink EXCEPT ![s][m.link].status = "live"]
        /\ Call(t, <<Resolve(s, m.block, [op |-> "SetLinkState", link |-> m.link,
                                          block |-> m.block])>>)
  /\ UNCHANGED <<script, memory, free, refs, stable, parcels, seen>>

DeliverDirect(s) ==
  /\ stack[s] = <<>> /\ direct[s] # <<>>
  /\ direct' = [direct EXCEPT ![s] = Tail(@)]
  /\ Dispatch(s, Head(direct[s]))
  /\ UNCHANGED relayed

DeliverRelayed(s) ==
  /\ stack[s + 2] = <<>> /\ relayed[s] # <<>>
  /\ relayed' = [relayed EXCEPT ![s] = Tail(@)]
  /\ Dispatch(s + 2, Head(relayed[s]))
  /\ UNCHANGED direct

(***************************************************************************)
(* The applications and the specification.                                 *)
(***************************************************************************)
Frames(c) ==
  LET call == Calls[c] IN
  CASE call.kind = "Put" ->
         AllocateFragment(call.s, ForPut(c, call.size))
    [] call.kind = "PutBestEffort" ->
         <<[op |-> "AllocateFragmentBestEffort", call |-> c,
            size |-> Min({call.size, MaxSize})]>>
    [] call.kind = "Link" ->
         AllocateBlock(call.s, ForTry(c))
    [] call.kind = "MarkSideStable" ->
         <<[op |-> "MarkSideStable", link |-> call.link]>>
    [] call.kind = "SetNodeLink" ->
         <<[op |-> "SetNodeLink"]>>

\* A side marks its end of a link stable, or drops it, once it has the end.
CanStart(c) ==
  Calls[c].kind \in {"MarkSideStable", "Drop"} =>
    rlink[Calls[c].s][Calls[c].link].status = "live"

StartCall(c) ==
  /\ c \in CallIds \ started
  /\ CanStart(c)
  /\ c <= scenario.setup => started = 1..(c - 1) /\ Quiet
  /\ c > scenario.setup => 1..scenario.setup \subseteq started
                           /\ (started = 1..scenario.setup => Quiet)
  /\ started' = started \cup {c}
  /\ \/ /\ Calls[c].kind # "Drop"
        /\ Call(-c, Frames(c))
        /\ UNCHANGED rlink
     \/ /\ Calls[c].kind = "Drop"
        /\ rlink' = [rlink EXCEPT ![Calls[c].s][Calls[c].link].status = "dropped"]
        /\ UNCHANGED stack
  /\ UNCHANGED <<scenario, memory, free, refs, stable, queues, parcels, seen>>

Links == {Calls[c].link : c \in {d \in CallIds : Calls[d].kind = "Link"}}

Init ==
  /\ scenario \in Scenarios
  /\ started = {}
  /\ attached = [s \in Side |-> scenario.attached]
  /\ next_id = [s \in Side |-> 1]
  /\ pool = [s \in Side |-> AddBlockBuffer(EmptyPool, PrimaryBuffer, DOMAIN PrimaryBlocks)]
  /\ capacity = [s \in Side |-> EmptyMap]
  /\ asked = [s \in Side |-> <<>>]
  /\ free = UNION {BlocksOf(PrimaryBuffer, size, PrimaryBlocks[size])
                     : size \in DOMAIN PrimaryBlocks}
  /\ refs = EmptyMap
  /\ stable = EmptyMap
  /\ rlink = [s \in Side |-> [l \in Links |-> NoLink]]
  /\ direct = [s \in Side |-> <<>>]
  /\ relayed = [s \in Side |-> <<>>]
  /\ partial = [s \in Side |-> EmptyMap]
  /\ trackers = [s \in Side |-> EmptyMap]
  /\ inbox = [s \in Side |-> <<>>]
  /\ stack = [t \in Thread |-> <<>>]
  /\ seen = [failed |-> {}, answered |-> <<>>, read |-> <<>>, blocks |-> free]

Done ==
  /\ Quiet
  /\ \A c \in CallIds \ started : ~CanStart(c)
  /\ \A s \in Side : inbox[s] = <<>>
  /\ UNCHANGED vars

ThreadStep(t) ==
  \/ Allocate(t) \/ Allocated(t)
  \/ AllocateFragmentBestEffort(t) \/ AllocateRouterLinkState(t)
  \/ CanExpandBlockCapacity(t) \/ RequestBlockCapacity(t)
  \/ ShareBuffer(t) \/ TransmitStep(t) \/ AddBuffer(t)
  \/ OnCapacityRequestComplete(t) \/ SetNodeLink(t)
  \/ AddLink(t) \/ SetLinkState(t) \/ PassStableOn(t)
  \/ MarkSideStable(t) \/ SetSideStable(t)
  \/ Send(t) \/ FreeFragment(t)
  \/ AcceptPiece(t) \/ AcceptCompleteParcel(t) \/ WaitForBufferAsync(t)

Next ==
  \/ \E c \in 1..MaxCalls : StartCall(c)
  \/ \E t \in Thread : ThreadStep(t)
  \/ \E s \in Side : AnswerAllocation(s) \/ DeliverDirect(s) \/ DeliverRelayed(s)
  \/ \E s \in Side : Read(s) \/ \E l \in Links : DestroyLink(s, l)
  \/ Done

Spec == Init /\ [][Next]_vars

\* Threads run, and messages and memory that was asked for arrive.
Internal ==
  \/ \E t \in Thread : ThreadStep(t)
  \/ \E s \in Side : AnswerAllocation(s) \/ DeliverDirect(s) \/ DeliverRelayed(s)

FairSpec == Spec /\ WF_vars(Internal)

(***************************************************************************)
(* Properties.                                                             *)
(***************************************************************************)
\* The blocks that a message or a frame carries.
MessageBlock(m) == IF m.type = "AddBlockBuffer" THEN NoBlock ELSE m.block

FrameBlock(f) ==
  CASE f.op \in {"Allocated", "Send", "FreeFragment", "AddLink", "SetLinkState"} -> f.block
    [] f.op = "Transmit" -> MessageBlock(f.m)
    [] f.op \in {"AcceptPiece", "AcceptCompleteParcel"} -> f.m.block
    [] f.op = "WaitForBufferAsync" ->
         IF f.then.op = "SetLinkState" THEN f.then.block ELSE f.then.m.block
    [] OTHER -> NoBlock

\* The places that hold blocks, each with its block.
Places ==
  UNION {{<<FrameBlock(stack[t][i]), "frame", t, i>> : i \in DOMAIN stack[t]} : t \in Thread}
  \cup UNION {
    UNION {{<<FrameBlock(pool[s].waiting[b][i]), "waiting", s, i>>
              : i \in DOMAIN pool[s].waiting[b]} : b \in DOMAIN pool[s].waiting}
    \cup {<<MessageBlock(direct[s][i]), "direct", s, i>> : i \in DOMAIN direct[s]}
    \cup {<<partial[s][k].block, "partial", s, k>> : k \in DOMAIN partial[s]}
    \cup {<<trackers[s][k][0].block, "tracker", s, k>>
            : k \in {j \in DOMAIN trackers[s] : 0 \in DOMAIN trackers[s][j]}}
    \cup {<<inbox[s][i][0].block, "inbox", s, i>> : i \in DOMAIN inbox[s]}
    \cup {<<rlink[s][l].state, "link", s, l>> : l \in Links}
    : s \in Side}

\* Every variable has its type; counts and stable marks are kept for the same
\* blocks, and the allocator that a pool uses first is one of its own.
TypeOK ==
  /\ started \subseteq CallIds
  /\ attached \in [Side -> BOOLEAN]
  /\ next_id \in [Side -> Nat \ {0}]
  /\ free \subseteq seen.blocks
  /\ DOMAIN refs \subseteq seen.blocks /\ \A b \in DOMAIN refs : refs[b] \in Nat
  /\ DOMAIN stable = DOMAIN refs /\ \A b \in DOMAIN stable : stable[b] \subseteq Side
  /\ \A s \in Side : \A size \in DOMAIN pool[s].entries :
       pool[s].active[size] \in DOMAIN pool[s].entries[size]

\* The state is well formed, no ABSL_ASSERT fails, no buffer is added twice and
\* no piece of a parcel is refused: buffer ids are unique (AllocateNewBufferId),
\* a link state is set once, and the halves of a split parcel fit.
AssertionsHold == TypeOK /\ seen.failed = {}

\* A block that is not free belongs to one parcel, wherever the parcel is, or
\* is a link state with as many references as there are ends of links and
\* messages that refer to it; nothing else holds a block, and none is lost.
BlocksAreOwned ==
  LET places == Places IN
  \A b \in seen.blocks :
    Cardinality({p \in places : p[1] = b}) =
      IF b \in free THEN 0
      ELSE IF b \in DOMAIN refs /\ refs[b] > 0 THEN refs[b] ELSE 1

\* A message that names a block does not overtake the message that shares its
\* buffer, unless the latter is relayed: its receiver has the buffer, or is the
\* side that made it and is about to register it (the SUBTLE order of
\* RequestBlockCapacity).
SharedBeforeUsed ==
  ~scenario.relay =>
    \A s \in Side : \A i \in DOMAIN direct[s] :
      LET b == MessageBlock(direct[s][i]) IN
      \/ b = NoBlock
      \/ BufferOf(b) \in pool[s].mappings
      \/ \E j \in 1..(i - 1) :
           direct[s][j].type = "AddBlockBuffer" /\ direct[s][j].id = BufferOf(b)
      \/ \E t \in Thread : \E j \in DOMAIN stack[t] :
           /\ stack[t][j].op = "AddBlockBuffer" /\ stack[t][j].id = BufferOf(b)
           /\ SideOf(t) = s

\* Once nothing moves, both sides have the same buffers, whoever made them.
BuffersAgree ==
  Quiet => /\ pool[1].mappings = pool[2].mappings
           /\ \A size \in DOMAIN pool[1].entries :
                ToSet(pool[1].entries[size]) = ToSet(pool[2].entries[size])

\* Every request for capacity completes, whichever request for the same size it
\* joined, and the callback of AllocateRouterLinkState is run once.
RequestsComplete ==
  /\ IsInjective(seen.answered)
  /\ Quiet => /\ \A s \in Side : DOMAIN capacity[s] = {}
              /\ \A c \in started : Calls[c].kind = "Link" => c \in ToSet(seen.answered)

Puts(s) == {c \in started : Calls[c].kind \in {"Put", "PutBestEffort"}
                             /\ Calls[c].s = s /\ ~Calls[c].elsewhere}

\* Once nothing moves, every parcel that was sent has arrived, once and with
\* all its pieces: none waits for a buffer, for its other half or for a
\* subparcel.  No parcel of the scenarios has two pieces with relayed objects,
\* whose halves the code may pair wrongly (node_link.cc:898).
ParcelsArrive ==
  /\ IsInjective(seen.read)
  /\ Quiet => \A s \in Side :
       /\ DOMAIN pool[s].waiting = {} /\ DOMAIN partial[s] = {} /\ DOMAIN trackers[s] = {}
       /\ Puts(Other(s)) \subseteq
            ToSet(seen.read) \cup {inbox[s][i][0].sequence_number : i \in DOMAIN inbox[s]}

\* Once nothing moves, a side that marked its end of a link stable is stable in
\* the link's state, even if it did so before the state was known to it.
StableIsPassedOn ==
  Quiet => \A s \in Side : \A l \in Links :
    (rlink[s][l].stable /\ rlink[s][l].state # NoBlock) =>
      s \in stable[rlink[s][l].state]

\* What was shared, asked for and marked on one side is known to both once
\* nothing moves.
SidesAgree == BuffersAgree /\ RequestsComplete /\ StableIsPassedOn

\* The work that a call starts ends: a request for capacity that fails, or that
\* yields blocks to others, does not keep the sides busy for ever.
WorkEnds == []<>Quiet
=============================================================================
