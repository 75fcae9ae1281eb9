# A verification project for ipcz

ipcz connects *portals* on the nodes of a system. A portal is one end of a
*route*; whatever is put into one portal comes out of the other, in order, and
a portal may itself be sent over another route to any node. This directory
models ipcz from its transports up to the calls of the application, checks the
models with TLC on small instances, and proves with TLAPS what can be proved
for all instances.

## The system

| Part | State | Operations that change it |
|---|---|---|
| Drivers (socket_transport.cc, async_reference_driver.cc), `DriverTransport` | sockets, queues and tasks, a thread per transport | activation, transmission, notification, deactivation |
| `Node`, `NodeConnector` | connections, brokers, pending introductions, connectors | connecting, referring, introducing, relaying, dropping connections |
| `NodeLinkMemory`, `BufferPool`, `BlockAllocatorPool` | shared buffers, pools of blocks, requests and callbacks | allocation, registration of buffers, capacity requests |
| `BlockAllocator` (block_allocator.cc) | free list in the headers of the blocks of a shared region | `Allocate`, `Free`, `InitializeRegion` |
| `RouterLinkState` (router_link_state.cc) | one status word per central link, shared by two nodes: stable, waiting and locked bits of both sides | `SetSideStable`, `TryLock`, `Unlock`, `ResetWaitingBit`, each a compare-exchange loop |
| `NodeLink` (node_link.cc) | sublinks, the transport, parcels of which a piece is missing | binding and removing sublinks, dispatch of messages, split parcels, loss of the transport |
| `LocalRouterLink`, `RemoteRouterLink` | the routers on both sides, the link state | the messages between routers |
| `SequencedQueue` (sequenced_queue.h) | sparse vector of entries, front index, final length | `Push`, `Pop`, `SkipElement`, `SetFinalSequenceLength`, `ForceTerminateSequence`, `ResetSequence` |
| `RouteEdge` (route_edge.cc) | primary link, decaying link, two lengths | adopting, releasing and decaying links |
| `Router` (router.cc) | edges, bridge, two queues, status flags, closure and disconnection | `Put`, `Get`, close, acceptance of parcels, closures and disconnections, `Flush`, serialization, bypass, merging |
| `TrapSet`, `PendingTransactionSet`, `ParcelWrapper` | traps, two-phase operations and parcels of a portal | installing and firing traps, begin and end of a transaction |

How they interact. Every operation of the application and every message ends in
`Router::Flush`, which moves parcels from the router's queues to its links,
finishes decaying links, and tries to shorten the route. When a portal moves,
its router stays behind as a proxy. The proxy locks the central link next to it
(`RouterLinkState`), lets its two links decay, and has its neighbours joined by
a new link; the parcels below an agreed sequence number still take the old
links, the others the new one, and the `SequencedQueue` at the end puts them
back in order. Routers call each other only with no mutex held, so a router may
have changed whenever a call returns to it. The new link needs a NodeLink, which
the nodes may first have to be given by a broker, and a `RouterLinkState` in the
memory which the two nodes share, which may have to be extended first.

The hard behaviours are: the two ends of a route moving at the same time; a
link locked, replaced, closed or lost while a message about it is in flight;
parcels, closures and the messages that end a bypass overtaking each other;
messages that refer to memory which is still on its way by another path;
introductions asked for twice, or while a broker goes away; trap handlers that
run after the state they report has changed; and lock-free updates of shared
memory. `PROJECT.json` lists them line by line as hazards.

## Modules

**The link state.** `LinkStatus` has the status word and what each operation
makes of it. `AtomicLinkState` is the promise: every operation is one step.
`RouterLinkState` has the loops of the code, with `expected`, `desired_bit` and
spurious failures, called as the routers call them: `Flush` marks a side stable,
may lock the link for the closure of the route, for the bypass of a bridge or for
that of a proxy, and ends by waking the other side if it was forced to look for
bypasses (`forced`); a bridge whose other link cannot be locked gives the lock
back; serialization locks and may unlock. `owner`, `notified` and `stranded` are
history variables; `stranded` has the sides that were waiting when a bridge gave
its lock back and that its `Flush` does not wake.

**The queue.** `ParcelQueue` defines the queue as the routers need it: a
function from sequence numbers to elements. `SequencedQueue` is the queue as it
is stored; the operator `Queue` maps one to the other.

**The allocator.** `FreeList` is the promise, a stack of blocks;
`BlockAllocator` is the code, one atomic access per step, with 16-bit indices
and versions. What the application writes into a block it holds overwrites the
header (`Write`), so a late reader finds arbitrary data there.

**The route.** `RouteEdge` has the edges; `PortalPair` is the promise, a pair
of connected portals; `Route` composes everything between nodes. Its state:

| Variable | Code |
|---|---|
| `routers` | each `Router`: edges `out` and `inn`, queues `inq` and `outq`, `peerClosed`, `disconnected`, status `flags` |
| `links` | each `RouterLink` pair: whether it is central, the node and the bound router of both sides (null when deactivated), its link state |
| `chan`, `down` | the transports, ordered in each direction, and how far each node has got with the loss of a NodeLink |
| `stack` | what every thread has still to do |
| `portal`, `sent`, `got`, `moved`, `closed` | the application's view |
| `scenario` | what may happen to the route, fixed from the start |
| `broken` | assertions that failed and messages rejected as invalid |

A thread is the application's use of one end, or the transport thread of one
NodeLink at one node. It works on a stack of *frames*. A frame stands for one
critical section of a router, or one call into a link; a step takes the top
frame, does all that the code does under the mutex, and pushes the frames for
what the code does after unlocking, in the code's order. So each action of
`Route` is named after the function it models (`Flush`, `BypassPeer`,
`StopProxying` ...), and the threads interleave exactly where the code holds no
router's mutex. `Portal`, `Network`, `LinkMemory` and the transports are built
in the same way.

In a serial scenario a new event begins only when no thread is busy. Messages
on different channels are still reordered freely; this allows longer histories
than full interleaving; the questions are asked in both ways.

**The portals of one node.** `TrapSet` has the conditions of traps and what an
update of a portal's status does to them. `Portal` has routers whose links are
all local, as in `Route`, with what `Route` leaves out: `Get` and `Put` with
their limits, `BeginPut`, `EndPut`, `BeginGet`, `EndGet`, the handles to parcels
that `EndGet` returns, `Trap` and the dispatch of events after the mutex is
released, portals attached to parcels, `MergeRoute`, and the bypass of the
bridge it makes. A handler of the application may drain its portal and set its
trap again (`Handler`, `Drain`, `Rearm`). A router that nothing refers to is
destroyed (`Destroy`): references are those of handles, parcels, frames and, as
in the code, of links to each other. `mutex` names the thread that keeps a
router locked over several steps: `EndGet` does, which destroys a parcel with the
mutex held, and so does the bypass of a bridge, which locks the two outward links
one after the other, and unlocks the first if the second fails, with the mutexes
of both routers held.

**Nodes.** `NodeMessages` has the messages between nodes. `Network` has the
nodes (`node`: `connections_`, `broker_link_`, `other_brokers_`,
`pending_introductions_`, `in_progress_introductions_`, ...), the ends of
transports with their queues and listeners (`io`), the NodeLinks (`link`), and
the six kinds of `NodeConnector`. The calls of the API are `ConnectNode`, the
call of `EstablishLink` that a received router descriptor makes,
`AllocateSharedMemory` and the closing of a node. A transport may break, and
closing an end posts an error to the other one, as the drivers do.

**Shared memory.** `BufferPool` has the buffers known to one side, the pool of
allocators for each block size, and the callbacks that wait for a buffer;
`LinkMemory` has both sides of a NodeLink: allocation with its fallbacks,
capacity requests, link states that are set late and counted, and parcels whose
data is in a block, with driver objects and subparcels, sent over a link which
either takes driver objects or has them relayed.

**Transports.** `DriverTransport` is ipcz's half: `Activate`, `Transmit`,
`Deactivate` and the notifications that a NodeLink gets. `SocketTransport` is
the multiprocess driver's: `Send`, the queue, `TrySend` which may take a part of
a message, the I/O thread with its poll, read and flush, and `Deactivate`, which
joins the thread; the kernel's buffers are in `wire`. `AsyncTransport` is the
asynchronous driver's, with its tasks and notifications. `Transport` puts ipcz
on either of them and states what a driver has to guarantee; `Route`, `Network`
and `LinkMemory` take that guarantee for granted.

The modules `MC...` list the scenarios of the runs. The modules `...Proofs`,
`SequencedQueueSpans`, `SequencedQueueEdits`, `TransportSteps` and
`DataInduction` have the theorems and lemmas.

## What the runs check

| Run | Question | Distinct states |
|---|---|---|
| `link_state` | the lock is exclusive and truthful, which wakeups may be lost, waiting bits are answered, loops implement `AtomicLinkState` | 212,386 |
| `sequenced_queue` | storage stays well formed, every answer is right, implements `ParcelQueue` | 19,945 |
| `block_allocator` | no block is lost or handed out twice, implements `FreeList` | 62,466 |
| `route_serial` | local and initial pairs put, move both ends, close or lose a NodeLink, one event at a time; two portals sent across each other | 504,639 |
| `route_concurrent` | one end moves meanwhile, or a NodeLink is lost, fully interleaved | 315,623 |
| `route_settles` | two moves meet, fully interleaved; everything comes to rest | 72,607 |
| `network` | connections, referrals, introductions, relays and delegated memory, with losses | 116,413 |
| `memory` | blocks, buffers, link states and parcels over one NodeLink | 143,487 |
| `portal` | the calls on the portals of one node, with traps, transactions and merges | 32,319 |
| `transport` | ipcz on two drivers | 89,358 |
| `portal_merge_closed`, `transport_partial_flush` | expected to fail, see below | |

Each run starts in any of the scenarios which its `MC` module lists, each a
record of what the applications and the environment may do.

The properties of `RouterLinkState`:

* `LockOwnership`: at most one `TryLock` has returned true without an `Unlock`,
  and the bit of its side is the one that is set, on a stable link.
* `NoLostWakeup`: when all calls have returned, a side that waits on a stable and
  unlocked link is in `stranded`. That is the one way in which a wakeup is lost.
* `WaitersAreNotForgotten`: a waiting bit disappears only with a message to the
  side that set it. With `NoLostWakeup`, which a lost bit would satisfy, it says
  that every waiter is woken unless a bridge came between.
* `ImplementsAtomicLinkState`: every operation is atomic.

Of `Route`:

* `ImplementsPortalPair`: parcels come out in order and at most once, and the
  flags PEER_CLOSED and DEAD are raised truly and not early.
* `NothingBroken`: no debug assertion fails, and no router rejects a message.
  The routers of a route never disagree about the state of a bypass.
* `LeavesNothingBehind`: once nothing is in progress, two open portals share one
  central link, which is stable and unlocked, and every proxy is gone (`Reduced`);
  after a closure no router has a link, no sublink is bound, and the other end
  has all parcels and the news (`TornDown`).
* `LossIsObserved`: after the loss of a NodeLink a portal is linked to its peer
  or knows that it is gone.
* `Settles`: under fairness, something is in progress only for a finite time, and
  then nothing is broken and every proxy is gone.

Of `Network`:

* `AssertionsHold`: the state is well formed, and a node's first connection is the
  one to its broker.
* `MessagesAreAccepted`: no correct node is ever accused by another.
* `NodesAgree`: at rest two nodes have the two ends of one transport as their
  link, whatever was introduced twice, replaced or lost (`ConnectionsAgree`); a
  callback was run once (`CallbacksRunOnce`); initial portals are bound in pairs
  or closed (`PortalsAgree`).
* `CallsAreAnswered`: a promised callback is run in the end. `Promised` leaves out
  brokers that ask for brokers and, across networks, transports that break and
  nodes that are closed.
* `ObjectsArrive`: driver objects relayed by the broker find a destination that
  already knows their source.

Of `LinkMemory`, besides `AssertionsHold`:

* `BlocksAreOwned`: every block is free or has exactly the owners it should have.
* `SharedBeforeUsed`: a message does not overtake the buffer it refers to.
* `SidesAgree`: at rest both sides have the same buffers (`BuffersAgree`), every
  request for capacity has completed (`RequestsComplete`), and a mark made before
  the link state was known is not lost (`StableIsPassedOn`).
* `ParcelsArrive`: parcels arrive once and whole.
* `WorkEnds`: requests do not keep the sides busy for ever.

Of `Portal`:

* `AssertionsHold`: no router is destroyed with a trap, no decaying edge is
  bypassed, and an exclusive get finds its parcel again. No scenario merges a
  portal during an exclusive get, see below.
* `TrapsFire`: no installed trap waits for what is already so
  (`TrapsAreNotMissed`), each fires once (`EveryTrapFiresOnce`), and a consumer
  that drains and re-arms misses nothing (`PortalsAreDrained`).
* `StatusIsTrue`, `ParcelsArriveInOrder`: through merges and moves too.
* `RoutesReduce`: bridges disappear (`MergesReduce`), and cycles of references are
  broken (`NoRouterLeaks`).
* `CallsEnd`: all calls return.

Of `Transport`:

* `MessagesArriveInOrder`: whole, in order and with their own descriptors.
* `NotificationsAreOrderly`: handlers are exclusive (`HandlersAreExclusive`), and
  told of the end of a transport once and last (`DeactivatedIsLast`).
* `NothingIsLeft`: at rest no message is stranded in a queue
  (`NothingIsStranded`), ends are released (`EndsAreReleased`), and a lost peer was
  noticed (`LossIsNoticed`).
* `CallsEnd`: no thread joins one that waits for it, and none spins.

### Runs that are expected to fail

Each fails on a statement that the repository makes.

* `portal_merge_closed`. `MergeRoute` flushes only the router it is called on.
  If the peer of the *other* router has put parcels and was closed before, they
  stay there, and the remaining portal learns neither of them nor of the
  closure. ipcz.h:1126 says that there are "no restrictions on what can be done
  to the portal's peer prior to merging".
* `transport_partial_flush`. A queued message of which the socket takes a part
  is put back whole (socket_transport.cc:459), and its first bytes are sent
  twice. socket_transport.h:105 says that "the remainder will be queued". The
  scenarios of `transport` queue no message whole that is longer than the room
  in the socket.

### Other disagreements met while modelling

These have no run; the scenarios of the passing runs avoid them.

* A bridge that cannot lock its second link gives the lock of the first back
  (router.cc:1827) and, if its `Flush` was not forced, returns without waking
  anyone. A `ResetWaitingBit` of the same side that was attempted meanwhile has
  failed on the locked link, and nobody repeats it, although the waiting bit is
  to inform the side "that they should send a flush notification back"
  (router_link_state.h:47-51). A forced `Flush` wakes the other side only, so
  that a waiter on the bridge's own side may be left. In the same way a closure
  that finds the link locked by such a bridge is left to the next `Flush`. The
  case is in the run and the proof as `stranded`.
* `StopProxying` (router.cc:1229) regards a request as invalid when an edge is
  stable. A proxy disconnected by the loss of one NodeLink has stable edges too,
  and rejects a correct request that arrives over another NodeLink. It takes two
  moves and a loss, fully interleaved, which is too large for a run of its own.
* A portal with a local peer is serialized onto a NodeLink that fails at this
  moment: the peer has given up its link, and nobody tells it (router.cc:1012,
  against remote_portal_test.cc:407). `LossIsObserved` is therefore checked with
  losses between events only.
* `BlockAllocator::Allocate` checks the index in a header it loaded racily before
  it knows that the header is still one (block_allocator.cc:119-127), and may
  return null although other blocks are free.
* Two brokers that are both asked for a name that neither knows ask each other
  and wait for each other: no callback is run, although node.h:115 promises one
  with a null link. A broker that asks for another broker gets no answer
  (node.cc:336). The answer to an indirect introduction that fails goes to the
  other broker only (node.cc:588). `Promised` says which calls are left.
* Referral callbacks and requests for memory are dropped when the broker's link
  is lost.
* A NodeLink is deactivated by `ShutDown` between its creation and its
  activation, and then activated (node.cc:423); its peer then has a link that
  nobody answers. A client that loses its broker during an introduction across
  networks gets there, so no scenario has that. `ConnectNode` activates its
  transport before it sends its greeting (node_connector.cc:582).
* "Any capacity requests accumulated before NodeLink activation" are not carried
  out by `SetNodeLink`; the next request of the same size waits behind them.
  Pools do not go back to an earlier allocator (block_allocator_pool.h says that
  they cycle).
* The key under which halves of a split parcel wait has no subparcel index
  (node_link.cc:898), so the halves of two subparcels of one parcel may be
  paired wrongly. `ParcelsArrive` is checked with at most one piece of a parcel
  that has relayed objects.
* `Put` and `EndPut` destroy the attached objects when they fail because the
  peer was closed meanwhile (router.cc:168); ipcz.h says that they remain the
  caller's. `BeginGet` on a dead portal answers UNAVAILABLE where ipcz.h says
  NOT_FOUND. `MergeRoute` does not remove traps. `EndGet` destroys a parcel with
  its mutex held, so that trap handlers run under it. A portal that is sent or
  merged during an exclusive get has a null parcel in its queue.
* A part of a message shorter than its header is accounted for wrongly by
  `Send`, and an error during a flush does not end the I/O loop.

### Bounds

Routes: two or three nodes, which is all a bypass involves (the proxy's, the
predecessor's and the successor's); at most two moves in all, enough for two
proxies next to each other; at most two parcels from one end, enough for one on
the old and one on the new link. `MaxSequenceGap` is not reached by these.

The link state has two threads on one side and one on the other, so that calls of
the same side interleave too (two on both sides hold as well, with 6.7 million
states). The queue has six sequence numbers, a gap limit of four, and
elements of two sizes: spans on both sides of a new element, each of more than
one element, do occur. The allocator has two threads, three blocks and six
updates; the ABA case takes four.

Networks: up to two clients and three brokers, which give every path that an
introduction may take (same network, across two, and a broker between brokers);
up to four concurrent calls, on nodes that are connected or are being connected;
at most one transport breaks. `MaxTransports` (8) and `MaxCalls` (8)
are not reached by the scenarios.

Memory: one block of each of two sizes in the primary buffer and one in each new
buffer, so that the second allocation runs out; up to five calls. Portals: two
threads, up to six portals and nine calls per thread. Transports: two buffers of
three bytes in the socket and messages of up to five, so that a message is read in
pieces, a write is cut in the middle of a message, and later ones are queued.

Deadlock is not checked in the route and allocator runs, as the application may
stop using its portals (or reach a bound) at any time; `Reduced` and `TornDown`
say what a state with nothing left to do must look like. In `network`, `memory`,
`portal` and `transport` it is checked: a state in which nothing is left to do
has a step that changes nothing, any other must have a real one.

### Fairness

All liveness properties assume weak fairness of one action only: that some
thread with a step left takes it, or that some message in flight is delivered.
This is less than what an operating system's scheduler and a reliable transport
give; in particular it assumes nothing of single threads, and of the application
it assumes at most (in `portal` and `transport`) that it goes on with the calls
of its scenario.

### Assumptions

* Atomic accesses are sequentially consistent. The code uses weaker orders, and
  its argument for them is not examined here; `MarkSideStable` and
  `SetLinkState` in particular each write one variable and read the other's.
* The version in the allocator's front header has 16 bits. A thread delayed for
  exactly 65536 updates would be deceived; the model and the proof assume fewer.
* In `Route`, all NodeLinks a route needs are established before it, and link
  states can always be allocated at once; `Network` and `LinkMemory` look at how
  that comes about.
* The route over which a portal is sent is represented by the message which
  carries it.
* Several operations on a link state in one critical section are one step, and
  so are locking for a bypass and storing the bypass source.
* Sublinks of a lost NodeLink are dropped in any order, as they are kept in a
  hash map.
* A non-broker is connected to one broker, once; names are numbers.
* In `Transport`, activation of a NodeLink and of its transport is one step
  (the code sets kActive first), and links are used only once they are active. A
  handler deactivates its own end. Handlers that deactivate the ends of other
  links, and wait for their threads, are in `Network` (`StopTransport`,
  `JoinThread`), where deadlock is checked too.
* Transports are activated and take messages without failure, as on both
  drivers: the error paths of `ConnectNode` (node_connector.cc:582-591, 648-653)
  are left out.
* Of `SetLinkState` the callbacks are left out, as nothing calls
  `WaitForLinkStateAsync`, and so is the router's `Flush` at the end, which
  `Route` has where a link state comes with its link.
* The refusal of an indirect introduction by a broker that has just lost its own
  node (node.cc:588) is in `Network`, but its scenarios do not get there; those
  that do are too large.

## What is proved

| Module | Theorem | Statement |
|---|---|---|
| `RouterLinkStateProofs` | `LockIsExclusive` | `Spec => []LockOwnership` |
| | `NoWaiterIsForgotten` | `Spec => WaitersAreNotForgotten` |
| | `WakeupIsLostOnlyToABridge` | `Spec => []NoLostWakeup` |
| | `LoopsAreAtomic` | `Spec => ImplementsAtomicLinkState` |
| `BlockAllocatorProofs` | `IndicesStayInRange` | `Spec => []TypeOK` |
| | `BlocksStayAccountedFor` | `Spec => []BlocksAreAccountedFor` |
| | `AllocatorIsAStack` | `Spec => ImplementsFreeList` |
| `SequencedQueueProofs` | `StorageStaysInOrder` | `Spec => []IInv` |
| | `QuestionsAreAnswered` | `Spec => []AnswersAgree` |
| | `StorageIsAQueue` | `Spec => ImplementsParcelQueue` |
| `TransportProofs` | `Invariant` | `Spec => []IInv` |
| | `HandlersAreOrderly` | `Spec => []NotificationsAreOrderly` |

Each holds for every value of the constants that satisfies the named
assumptions; the runs check the same properties on their instances. In each of
these modules `IInv` is the inductive invariant.

### The link state

`RouterLinkStateProofs` is about any set of threads and any assignment of sides
to them. The only assumption is `SideAssumption`, that every thread has a side.
Mutual exclusion, wakeups and refinement are not inductive as they stand. `IInv`
adds

* `HolderOwns`: a thread that is past a successful `TryLock` still owns the lock,
  so that its `Unlock` clears the bit of the owner;
* `LoopKnows`: what a loop has established about `expected` before it attempts
  the exchange; without it, a successful exchange could set any bit;
* `WaitersAreStable`: a side sets its waiting bit only after its stable bit;
* `WakeupOwed`: whenever a waiting side could be woken and is not in `stranded`,
  some thread is in a loop after which it will either hold the lock or wake that
  side. This is the reason why no other wakeup is lost: when all threads are idle
  nobody owes anything.

The proof that a step preserves `IInv` has one lemma per conjunct and one step
per action. Refinement follows from `LoopKnows` and `LockOwnership`: each
successful exchange is an atomic operation, everything else a stutter.

### The allocator

`BlockAllocatorProofs` is about any finite set of threads, any region of at
least one usable block that 16-bit indices can name, any data the application
may leave in a block, and fewer than 65536 updates (`AllocatorAssumption`).

`BlocksAreAccountedFor` says that the free list, which is a chain of relative
16-bit indices through the headers of the free blocks, visits each free block
once and returns to block 0, and that every block is either on that list or held
by exactly one thread. The inductive invariant is the conjunction of

* `TypeOK`, `Disjoint` (no block has two holders);
* `Chained`: there is a sequence of distinct blocks that the headers link, made
  of exactly the blocks that nobody holds;
* `Claims`: a thread in `Allocate` wants the block that its copy of the front
  header calls the first, and if that copy is still equal to the header when the
  thread is about to claim the block, it knows the block's true successor;
* `Releases`: a thread in `Free` still holds the block, and when it is about to
  release it has linked it to what its copy of the front header calls the first
  free block;
* `Versions`: no copy of the header is newer than the header, and the updates
  that calls in progress may still make stay within the bound. As every update
  raises the version, and the bound keeps it from wrapping around, a copy equal
  to the header means that there was no update since. This rules out the ABA case.

The lemmas go from 16-bit arithmetic (an index made relative and absolute again
is itself) over the chain (its first index, its bound, what leaves it untouched)
to one lemma per action.

`AllocatorIsAStack`: the refinement mapping `FreeBlocks` follows the chain with a
recursive function. `ListIs` shows by induction that it yields exactly the
sequence of `Chained`. With that, a successful exchange in `Allocate` takes the
first block of the stack, one in `Free` puts a block on it, and no other step
changes it: what `Write` and `Link` do to headers happens to blocks off the list.

### The queue

`SequencedQueueProofs` is about sequences of any length, any limit on gaps and
any sizes of elements (`QueueAssumption`, `GapAssumption`). A span is an
unbroken run of stored elements that cannot be extended, and only its two ends
are kept up to date. `IInv` says that the storage is well formed (`Shape`), that
both ends of every span agree on where it ends, on how many elements it has and
on their total size, and on where it begins unless some of it was popped
(`Spans`), that a queue whose final length is unknown has no room behind its
last element, and that no element is numbered beyond the bound (`Bounded`).

`SequencedQueueSpans` has the facts about spans: they are disjoint, each element
is in one, and a new element joins those next to it and leaves the others.
`SequencedQueueEdits` shows what `PlaceNewEntry` and `Pop` do to them: the record
written at both ends is right even though the records in the middle are stale.
`SequencedQueueProofs` has one lemma for each operation, which shows that it
preserves `IInv` and is the step of `ParcelQueue` that it should be.

### Transports

`TransportProofs` is about any scenario, that is, any number of threads which
transmit any messages and deactivate either end whenever they like, on either
driver. `ScenarioAssumption` says that an end is activated by one call only, as
node_link.cc:125 asserts. Nothing is assumed of the capacity of sockets or the
size of messages.

That handlers are exclusive and that the last call is the last follows from who
may call a handler at all, so most of `IInv` is about the stacks of threads:

* `Stacks`: a thread of a driver is in its loop, or within one handler, or in one
  call that a handler made; all its frames are about its own end. An application
  thread is in one call, and possibly about to make the last call of a handler.
* `Activation`: an end is activated by the one call that the scenario has for it,
  and until then its thread has not been started.
* `Finality`: when an end was told of its deactivation, nobody is about to tell it
  again, and its thread has ended or is about to return from that very call; an
  application thread enters a handler only when the thread of the end has ended.
* `OneCallback` (sockets): the callback that `Deactivate` passes on is with the
  thread that deactivates, or in `shutdown_callback_`, or with the one thread
  that has taken it out, or it has been called: never two of these. Once
  `is_io_thread_done_` is set, the I/O thread calls no handler any more, other
  than for that.
* `OneTaskThread` (tasks): only the task thread calls handlers, and it leaves its
  loop only for an end that is deactivated or is just about to be, because of an
  error.

`TransportSteps` has the invariant and the steps that neither enter a handler nor
start a thread, `TransportProofs` the others and the theorems. There is one lemma
per action or per group of actions that move through the stack in the same way
(`DullStep`, `ReplaceStep`, `LoopStep`, `CalledStep`). Stacks are handled as lists
with a few laws (`Push`, `Pop`, `Replace`, `GoOn`, `EnterHandler`).

### Induction

The provers cannot instantiate a theorem that has an operator as parameter, which
the induction theorems of the library are. `DataInduction` states induction with
sets instead: a set of numbers that has 0 and the successor of each member is
`Nat` (`SetInduction`), and a set of subsets of a finite set that has every
subset of which it has all smaller ones is complete (`SubsetInduction`). It is
used for `FreeBlocks` and for the sums of sizes which the queue's records hold
(`SumOfAdded`, `SumOfUnion`).

### What is only model-checked

* Liveness (`Settles`, `CallsAreAnswered`, `WorkEnds`, both `CallsEnd`), which is
  out of reach of the proof system.
* Routes, networks, memory and portals. `Network`, `Portal` and `BufferPool`
  use recursive operators, which the proof system does not take; an inductive
  invariant of `Route` has not been worked out.
* The other properties of `Transport`. `MessagesArriveInOrder` is not true of
  every scenario (see `transport_partial_flush`), so there is no theorem for all
  of them; `NothingIsLeft` is about states of rest, and would need an invariant
  about every byte in queues and sockets; its `TypeOK` has the capacity of the
  socket, which depends on how messages are cut.

## Not modelled

* The bypass of a bridge with a peer on another node (router.cc:1831-1876 and
  `StartBridgeBypassFromLocalPeer`). It needs routers with bridges in `Route`,
  whose instances are already as large as can be checked.
* The encoding, versions and validation of messages, features, and the
  serialization of driver objects: no state lasts beyond one message.
* Boxes and application objects: each holds one object and has no state of its
  own. The handles of portals and parcels are in `Portal`.
* The synchronous driver, memory objects, random names and logging: no
  concurrency, or pure input and output.
* `AllocateBlockBestEffort`, which only a test calls.
* Weak memory, see the assumptions.
