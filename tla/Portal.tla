------------------------------- MODULE Portal -------------------------------
(***************************************************************************)
(* The portals of one node as the application uses them: puts and gets, in *)
(* one phase and in two, traps and their handlers, portals sent through    *)
(* portals, and portals that are merged.  All routers are on this node, so *)
(* that every link is local and calls the other router directly; routes    *)
(* between nodes are the subject of Route.tla.                             *)
(*                                                                         *)
(* As there, a thread has a stack of frames, a frame stands for one        *)
(* critical section or one call into a link, and a step runs the top one.  *)
(***************************************************************************)
EXTENDS LinkStatus, RouteEdge, TrapSet

CONSTANTS
    Portals,     \* the portals there may be, each named as its router
    Threads,     \* the application's threads
    Scenarios    \* what the application does: a set of records

(***************************************************************************)
(* A scenario:                                                             *)
(*   pairs     the pairs of portals that OpenPortals() has made            *)
(*   calls     the API calls that each thread makes, in order              *)
(*   drained   the portals which some handler drains                       *)
(* A thread leaves out a call on a portal it does not have anymore.        *)
(***************************************************************************)
ASSUME PortalAssumption ==
    /\ Threads \cap Portals = {}
    /\ \A x \in Scenarios :
           DOMAIN x.calls = Threads /\ UNION {{p[1], p[2]} : p \in x.pairs} \subseteq Portals

VARIABLES
    scenario,   \* the scenario, chosen once and for all
    routers,    \* the Router of each portal
    links,      \* all LocalRouterLinks ever created, both sides in one record
    mutex,      \* the thread that keeps a router's mutex_ beyond one step, or Null
    stack,      \* what each thread has still to do
    next,       \* the index of each thread's next call
    held,       \* the portals to which the application has a handle
    reg,        \* each thread's transaction, and the parcel it has a handle to
    merged,     \* the pairs of portals that were merged
    gone,       \* the routers that were destroyed
    got,        \* the parcels retrieved from each portal, in order
    owed,       \* the traps on each portal whose handler was not called yet
    broken      \* the assertions that have failed so far

vars == <<scenario, routers, links, mutex, stack, next, held, reg, merged, gone, got, owed, broken>>

app == <<scenario, next, held, reg, merged, gone, got, owed>>

\* A router that is destroyed by the drop of its last reference closes the
\* portals in its parcels on the thread which dropped it, here one of its own.
AllThreads == Threads \cup Portals

Ref(l, s) == [link |-> l, side |-> s]

NewLink(type, a, b, status) ==
    [type |-> type, router |-> [A |-> a, B |-> b], status |-> status]

\* The Router at the other side of ref, Null if it was deactivated.
GetLocalPeer(ref) ==
    IF ref = Null THEN Null ELSE links[ref.link].router[Opposite(ref.side)]

NewRouter ==
    [inq |-> NewQueue(0), outq |-> NewQueue(0), out |-> NewEdge, bridge |-> Null,
     peer_closed |-> FALSE, flags |-> {}, traps |-> <<>>,
     gets |-> {}, exclusive |-> FALSE, puts |-> {}]

\* `here' is false for the null pointer that an exclusive get leaves behind.
NewParcel(id, size, objects) ==
    [id |-> id, from |-> Null, n |-> Unknown, size |-> size, objects |-> objects, here |-> TRUE]

---------------------------------------------------------------------------
(* Threads and frames *)

Frame(op, r, arg) == [op |-> op, r |-> r, arg |-> arg]

FlushFrame(r, force) == Frame("Flush", r, force)

Top(t) == Head(stack[t])

At(t, op) == stack[t] # <<>> /\ Top(t).op = op

\* The mutexes of these routers can be acquired.
Unlocked(rs) == \A r \in rs : mutex[r] = Null

Runs(t, op) == At(t, op) /\ Unlocked({Top(t).r} \ {Null})

Proceed(t, frames) == stack' = [stack EXCEPT ![t] = frames \o Tail(@)]

Broken(cond, what) == IF cond THEN {what} ELSE {}

\* ~TrapEventDispatcher(): the handlers run one after the other.
DispatchAll(r, events) == [i \in DOMAIN events |-> Frame("Handler", r, events[i])]

\* ~Parcel() closes what is still attached to the parcel.
DestroyParcel(parcel) ==
    [i \in DOMAIN parcel.objects |-> Frame("CloseRoute", parcel.objects[i], Null)]

DeadFlags(inq) == IF IsFullyConsumed(inq) THEN {"PEER_CLOSED", "DEAD"} ELSE {}

\* The router r with queue inq and the flags that go with it, and the events of
\* the traps that this satisfies.
Notified(r, inq, flags, reason) ==
    LET updated == UpdatePortalStatus(r.traps, r.flags \cup flags, inq, reason)
    IN  [router |-> [r EXCEPT !.inq = inq, !.flags = @ \cup flags, !.traps = updated.traps],
         events |-> updated.events]

---------------------------------------------------------------------------
(* Links between two routers of the node *)

\* LocalRouterLink::AcceptParcel(): the parcel is lost if no router is there.
AcceptParcel(t) ==
    /\ At(t, "AcceptParcel")
    /\ LET ref == Top(t).arg.ref
           parcel == Top(t).arg.parcel
           peer == GetLocalPeer(ref)
       IN  Proceed(t, CASE peer = Null -> DestroyParcel(parcel)
                        [] links[ref.link].type = "central" -> <<Frame("AcceptInboundParcel", peer, parcel)>>
                        [] OTHER -> <<Frame("AcceptOutboundParcel", peer, parcel)>>)
    /\ UNCHANGED <<routers, links, mutex, app, broken>>

AcceptRouteClosure(t) ==
    /\ At(t, "AcceptRouteClosure")
    /\ LET ref == Top(t).arg.ref
           peer == GetLocalPeer(ref)
       IN  Proceed(t, IF peer = Null THEN <<>>
                      ELSE <<Frame("AcceptRouteClosureFrom", peer,
                                   [type |-> links[ref.link].type, length |-> Top(t).arg.length])>>)
    /\ UNCHANGED <<routers, links, mutex, app, broken>>

Deactivate(t) ==
    /\ At(t, "Deactivate")
    /\ LET ref == Top(t).arg
       IN  links' = [links EXCEPT ![ref.link].router[ref.side] = Null]
    /\ Proceed(t, <<>>)
    /\ UNCHANGED <<routers, mutex, app, broken>>

FlushOtherSideIfWaiting(t) ==
    /\ At(t, "FlushOtherSideIfWaiting")
    /\ LET ref == Top(t).arg
           other == Opposite(ref.side)
           peer == GetLocalPeer(ref)
       IN  /\ links' = [links EXCEPT ![ref.link].status = AfterReset(@, other)]
           /\ Proceed(t, IF CanReset(links[ref.link].status, other) /\ peer # Null
                         THEN <<FlushFrame(peer, TRUE)>> ELSE <<>>)
    /\ UNCHANGED <<routers, mutex, app, broken>>

---------------------------------------------------------------------------
(* Router: parcels and closure *)

SendFrame(ref, parcel) == Frame("AcceptParcel", Null, [ref |-> ref, parcel |-> parcel])

SendOutboundParcel(t) ==
    /\ Runs(t, "SendOutboundParcel")
    /\ LET r == Top(t).r
           R == routers[r]
           n == CurrentLength(R.outq)
           parcel == [Top(t).arg EXCEPT !.n = n, !.from = r]
           direct == R.out.primary # Null /\ CanSkip(R.outq, n)
       IN  IF IsFinalKnown(R.inq)
           THEN /\ held' = held \cup Range(parcel.objects)
                /\ Proceed(t, DestroyParcel(parcel))
                /\ UNCHANGED routers
           ELSE /\ routers' = [routers EXCEPT ![r].outq = IF direct THEN Skip(@) ELSE Push(@, n, parcel)]
                /\ Proceed(t, IF direct THEN <<SendFrame(R.out.primary, parcel)>>
                                        ELSE <<FlushFrame(r, FALSE)>>)
                /\ UNCHANGED held
    /\ UNCHANGED <<scenario, links, mutex, next, reg, merged, gone, got, owed, broken>>

\* Mutant: traps are notified only when the parcel is the last one available.
AcceptInboundParcelInOrder(t) ==
    /\ Runs(t, "AcceptInboundParcel")
    /\ LET r == Top(t).r
           parcel == Top(t).arg
           inq == Push(routers[r].inq, parcel.n, parcel)
       IN  \E notified \in {IF parcel.n = CurrentLength(inq) - 1
                            THEN Notified(routers[r], inq, {}, "kNewLocalParcel")
                            ELSE [router |-> [routers[r] EXCEPT !.inq = inq], events |-> <<>>]} :
               /\ routers' = [routers EXCEPT ![r] = notified.router]
               /\ Proceed(t, <<FlushFrame(r, FALSE)>> \o DispatchAll(r, notified.events))
    /\ UNCHANGED <<links, mutex, app, broken>>

\* Traps learn of a parcel once it can be retrieved, or not at all.
AcceptInboundParcel(t) ==
    /\ Runs(t, "AcceptInboundParcel")
    /\ LET r == Top(t).r
           parcel == Top(t).arg
           inq == Push(routers[r].inq, parcel.n, parcel)
       IN  IF CanPush(routers[r].inq, parcel.n)
           THEN \E notified \in {IF parcel.n < CurrentLength(inq)
                                 THEN Notified(routers[r], inq, {}, "kNewLocalParcel")
                                 ELSE [router |-> [routers[r] EXCEPT !.inq = inq], events |-> <<>>]} :
                    /\ routers' = [routers EXCEPT ![r] = notified.router]
                    /\ Proceed(t, <<FlushFrame(r, FALSE)>> \o DispatchAll(r, notified.events))
           ELSE Proceed(t, DestroyParcel(parcel)) /\ UNCHANGED routers
    /\ UNCHANGED <<links, mutex, app, broken>>

\* The parcels that cross a bridge.
AcceptOutboundParcel(t) ==
    /\ Runs(t, "AcceptOutboundParcel")
    /\ LET r == Top(t).r
           parcel == Top(t).arg
       IN  IF CanPush(routers[r].outq, parcel.n)
           THEN /\ routers' = [routers EXCEPT ![r].outq = Push(@, parcel.n, parcel)]
                /\ Proceed(t, <<FlushFrame(r, FALSE)>>)
           ELSE Proceed(t, DestroyParcel(parcel)) /\ UNCHANGED routers
    /\ UNCHANGED <<links, mutex, app, broken>>

\* The router after a closure came across its bridge.
ClosedRouter(R, length) == [R EXCEPT !.outq = SetFinal(@, length), !.bridge = Null]

\* A router with a bridge is not the end of its route, and tells nobody.
AcceptRouteClosureFrom(t) ==
    /\ Runs(t, "AcceptRouteClosureFrom")
    /\ LET r == Top(t).r
           R == routers[r]
           length == Top(t).arg.length
           inq == SetFinal(R.inq, length)
           outward == Top(t).arg.type = "central"
       IN  IF ~CanSetFinal(IF outward THEN R.inq ELSE R.outq, length)
           THEN Proceed(t, <<>>) /\ UNCHANGED routers
           ELSE \E notified \in
                    {CASE ~outward -> [router |-> ClosedRouter(R, length), events |-> <<>>]
                       [] outward /\ R.bridge # Null -> [router |-> [R EXCEPT !.inq = inq], events |-> <<>>]
                       [] OTHER -> Notified([R EXCEPT !.peer_closed = TRUE], inq, DeadFlags(inq), "kPeerClosed")} :
                    /\ routers' = [routers EXCEPT ![r] = notified.router]
                    /\ Proceed(t, <<FlushFrame(r, FALSE)>> \o DispatchAll(r, notified.events))
    /\ UNCHANGED <<links, mutex, app, broken>>

\* Mutant: the traps stay where they are.
CloseRouteKeepingTraps(t) ==
    /\ Runs(t, "CloseRoute")
    /\ LET r == Top(t).r
       IN  /\ routers' = [routers EXCEPT
                   ![r].outq = IF IsFinalKnown(@) THEN @ ELSE SetFinal(@, CurrentLength(@))]
           /\ Proceed(t, <<FlushFrame(r, FALSE)>>)
    /\ UNCHANGED <<links, mutex, app, broken>>

CloseRoute(t) ==
    /\ Runs(t, "CloseRoute")
    /\ LET r == Top(t).r
       IN  /\ routers' = [routers EXCEPT
                   ![r].outq = IF IsFinalKnown(@) THEN @ ELSE SetFinal(@, CurrentLength(@)),
                   ![r].traps = <<>>]
           /\ Proceed(t, <<FlushFrame(r, FALSE)>> \o DispatchAll(r, RemoveAll(routers[r].traps)))
    /\ UNCHANGED <<links, mutex, app, broken>>

---------------------------------------------------------------------------
(* Router::Flush *)

\* CollectParcelsToFlush(): the first parcel that must stay in the queue.
FlushedTo(q, edge) ==
    Min({n \in q.base .. CurrentLength(q) : n = CurrentLength(q) \/ LinkFor(edge, n) = Null})

SendFrames(q, edge) ==
    [i \in 1 .. FlushedTo(q, edge) - q.base |->
        SendFrame(LinkFor(edge, q.base + i - 1), q.elems[q.base + i - 1])]

\* Mutant: a bridge that decays has no link.
BridgeLinkUnlessDecaying(bridge) == IF bridge = Null THEN Null ELSE bridge.primary

\* The primary link of a bridge or, once it decays, the decaying one.
BridgeLink(bridge) ==
    CASE bridge = Null          -> Null
      [] bridge.primary # Null  -> bridge.primary
      [] OTHER                  -> DecayingLink(bridge)

ClosureFrame(ref, length) == Frame("AcceptRouteClosure", Null, [ref |-> ref, length |-> length])

\* The critical section of Flush(), and the calls that follow it.
Flushed(r, force) ==
    LET R == routers[r]
        outward == R.out.primary
        bridge == IF R.bridge = Null THEN NewEdge ELSE R.bridge
        bridgeLink == BridgeLink(R.bridge)
        outq == PopTo(R.outq, FlushedTo(R.outq, R.out))
        outDecayed == DecayIsFinished(R.out, outq.base, CurrentLength(R.inq))
        inq == IF bridgeLink = Null THEN R.inq ELSE PopTo(R.inq, FlushedTo(R.inq, bridge))
        inParcels == IF bridgeLink = Null THEN <<>> ELSE SendFrames(R.inq, bridge)
        bridgeDecayed == DecayIsFinished(bridge, inq.base, outq.base)
        closedNow == R.peer_closed /\ "PEER_CLOSED" \notin R.flags /\ ~ExpectsMoreElements(inq)
        notified == IF closedNow THEN Notified(R, inq, {"PEER_CLOSED"}, "kPeerClosed")
                                 ELSE [router |-> [R EXCEPT !.inq = inq], events |-> <<>>]
        stable == outward # Null /\ (DecayingLink(R.out) = Null \/ outDecayed)
        dropped == stable /\ outDecayed
        marked == IF dropped THEN [links EXCEPT ![outward.link].status = SetStable(@, outward.side)]
                             ELSE links
        closing == outward # Null /\ IsFullyConsumed(outq)
        locked == closing /\ CanLock(marked[outward.link].status, outward.side)
        deadOut == outward # Null /\ (locked \/ ~ExpectsMoreElements(inq))
        deadBridge == IsFullyConsumed(inq)
        edge == IF outDecayed THEN DropDecayingLink(R.out) ELSE R.out
    IN  [router |-> [notified.router EXCEPT
                         !.outq = outq,
                         !.out = IF deadOut THEN ReleasePrimaryLink(edge) ELSE edge,
                         !.bridge = IF bridgeDecayed \/ deadBridge THEN Null ELSE @],
         links |-> IF closing
                   THEN [marked EXCEPT ![outward.link].status = AfterTryLock(@, outward.side)]
                   ELSE marked,
         lost |-> \E i \in DOMAIN inParcels : ~inParcels[i].arg.parcel.here,
         calls |-> SendFrames(R.outq, R.out) \o inParcels
             \o (IF outDecayed THEN <<Frame("Deactivate", Null, DecayingLink(R.out))>> ELSE <<>>)
             \o (IF bridgeLink # Null /\ ~deadBridge /\ stable
                 THEN <<Frame("MaybeStartBridgeBypass", r, Null)>> ELSE <<>>)
             \o (IF locked THEN <<ClosureFrame(outward, outq.final)>> ELSE <<>>)
             \o (IF deadOut THEN <<Frame("Deactivate", Null, outward)>> ELSE <<>>)
             \o (IF deadBridge /\ bridgeLink # Null THEN <<ClosureFrame(bridgeLink, inq.final)>> ELSE <<>>)
             \o (IF ~deadOut /\ outward # Null /\ (dropped \/ force)
                 THEN <<Frame("FlushOtherSideIfWaiting", Null, outward)>> ELSE <<>>)
             \o DispatchAll(r, notified.events)]

\* Popping the null pointer of an exclusive get would be a crash.
Flush(t) ==
    /\ Runs(t, "Flush")
    /\ \E flushed \in {Flushed(Top(t).r, Top(t).arg)} :
           /\ routers' = [routers EXCEPT ![Top(t).r] = flushed.router]
           /\ links' = flushed.links
           /\ broken' = broken \cup Broken(flushed.lost, "null parcel flushed")
           /\ Proceed(t, flushed.calls)
    /\ UNCHANGED <<mutex, app>>

---------------------------------------------------------------------------
(* Merged routes: the bypass of both routers of a bridge *)

MaybeStartBridgeBypass(t) ==
    /\ Runs(t, "MaybeStartBridgeBypass")
    /\ LET r == Top(t).r
           bridge == routers[r].bridge
           second == IF bridge = Null THEN Null ELSE GetLocalPeer(bridge.primary)
       IN  Proceed(t, IF bridge = Null \/ ~EdgeIsStable(bridge) \/ second = Null THEN <<>>
                      ELSE <<Frame("TryLockForBridgeBypass", r, second)>>)
    /\ UNCHANGED <<routers, links, mutex, app, broken>>

\* The mutexes of both routers of the bridge are kept from here until both outward
\* links are locked or the first is unlocked again.
TryLockForBridgeBypass(t) ==
    /\ Runs(t, "TryLockForBridgeBypass") /\ Unlocked({Top(t).arg})
    /\ LET r == Top(t).r
           second == Top(t).arg
           a == routers[r].out.primary
       IN  IF a = Null \/ routers[second].out.primary = Null
           THEN Proceed(t, <<>>) /\ UNCHANGED <<links, mutex>>
           ELSE /\ links' = [links EXCEPT ![a.link].status = AfterTryLock(@, a.side)]
                /\ IF CanLock(links[a.link].status, a.side)
                     THEN /\ Proceed(t, <<Frame("TryLockSecondLink", r, second)>>)
                          /\ mutex' = [mutex EXCEPT ![r] = t, ![second] = t]
                     ELSE Proceed(t, <<>>) /\ UNCHANGED mutex
    /\ UNCHANGED <<routers, app, broken>>

TryLockSecondLink(t) ==
    /\ At(t, "TryLockSecondLink")
    /\ LET r == Top(t).r
           second == Top(t).arg
           b == routers[second].out.primary
       IN  /\ links' = [links EXCEPT ![b.link].status = AfterTryLock(@, b.side)]
           /\ IF CanLock(links[b.link].status, b.side)
                THEN /\ Proceed(t, <<Frame("BypassBridge", r,
                                           [second |-> second, first_peer |-> GetLocalPeer(routers[r].out.primary),
                                            second_peer |-> GetLocalPeer(b)])>>)
                     /\ mutex' = [mutex EXCEPT ![r] = Null, ![second] = Null]
                ELSE Proceed(t, <<Frame("CancelBridgeBypass", r, second)>>) /\ UNCHANGED mutex
    /\ UNCHANGED <<routers, app, broken>>

\* Mutant: the first link stays locked.
CancelBridgeBypassOrKeep(t) ==
    /\ At(t, "CancelBridgeBypass")
    /\ mutex' = [mutex EXCEPT ![Top(t).r] = Null, ![Top(t).arg] = Null]
    /\ Proceed(t, <<>>)
    /\ UNCHANGED <<routers, links, app, broken>>

\* The second link could not be locked: link_to_first_peer->Unlock().
CancelBridgeBypass(t) ==
    /\ At(t, "CancelBridgeBypass")
    /\ LET a == routers[Top(t).r].out.primary
       IN  links' = [links EXCEPT ![a.link].status = ClearLocked(@, a.side)]
    /\ mutex' = [mutex EXCEPT ![Top(t).r] = Null, ![Top(t).arg] = Null]
    /\ Proceed(t, <<>>)
    /\ UNCHANGED <<routers, app, broken>>

Decayed(edge, to, from) == SetLengthFrom(SetLengthTo(BeginDecay(edge), to), from)

\* The case of two local peers, which get a new link to each other.
BypassBridge(t) ==
    /\ Runs(t, "BypassBridge")
    /\ Unlocked({Top(t).arg.second, Top(t).arg.first_peer, Top(t).arg.second_peer})
    /\ LET r == Top(t).r
           second == Top(t).arg.second
           p == Top(t).arg.first_peer
           q == Top(t).arg.second_peer
           from_first == routers[p].outq.base
           from_second == routers[q].outq.base
           new == Len(links) + 1
       IN  IF routers[r].bridge = Null \/ routers[second].bridge = Null
           THEN Proceed(t, <<>>) /\ UNCHANGED <<routers, links, broken>>
           ELSE /\ broken' = broken \cup
                      Broken(\E e \in {routers[x].out : x \in {r, second, p, q}}
                                      \cup {routers[r].bridge, routers[second].bridge} :
                                 ~EdgeIsStable(e), "bridge bypass of an unstable edge")
                /\ routers' = [routers EXCEPT
                       ![p].out = SetPrimaryLink(Decayed(@, from_first, from_second), Ref(new, "A")),
                       ![q].out = SetPrimaryLink(Decayed(@, from_second, from_first), Ref(new, "B")),
                       ![r].out = Decayed(@, from_second, from_first),
                       ![second].out = Decayed(@, from_first, from_second),
                       ![r].bridge = Decayed(@, from_first, from_second),
                       ![second].bridge = Decayed(@, from_second, from_first)]
                /\ links' = Append(links, NewLink("central", p, q, kUnstable))
                /\ Proceed(t, <<FlushFrame(r, FALSE), FlushFrame(second, FALSE),
                                FlushFrame(p, FALSE), FlushFrame(q, FALSE)>>)
    /\ UNCHANGED <<mutex, app>>

---------------------------------------------------------------------------
(* Puts *)

\* ValidateAndAcquireObjectsForTransitFrom()
CanSendFrom(sender, objects) ==
    \A x \in Range(objects) : x # sender /\ GetLocalPeer(routers[x].out.primary) # sender

\* The caller keeps the handles it passed to a call that fails.
Retain(objects) == held' = held \cup Range(objects)

Put(t) ==
    /\ At(t, "Put") /\ Unlocked(Range(Top(t).arg.objects))
    /\ IF CanSendFrom(Top(t).r, Top(t).arg.objects)
       THEN Proceed(t, <<Frame("PutUnlessClosed", Top(t).r, Top(t).arg)>>) /\ UNCHANGED held
       ELSE Proceed(t, <<>>) /\ Retain(Top(t).arg.objects)
    /\ UNCHANGED <<routers, links, mutex, scenario, next, reg, merged, gone, got, owed, broken>>

PutUnlessClosed(t) ==
    /\ Runs(t, "PutUnlessClosed")
    /\ LET call == Top(t).arg
       IN  IF "PEER_CLOSED" \in routers[Top(t).r].flags
           THEN Proceed(t, <<>>) /\ Retain(call.objects)
           ELSE /\ Proceed(t, <<Frame("SendOutboundParcel", Top(t).r,
                                      NewParcel(call.id, call.size, call.objects))>>)
                /\ UNCHANGED held
    /\ UNCHANGED <<routers, links, mutex, scenario, next, reg, merged, gone, got, owed, broken>>

BeginPut(t) ==
    /\ Runs(t, "BeginPut")
    /\ LET r == Top(t).r
           call == Top(t).arg
           closed == "PEER_CLOSED" \in routers[r].flags
       IN  /\ routers' = IF closed THEN routers
                         ELSE [routers EXCEPT ![r].puts = @ \cup {NewParcel(call.id, call.size, <<>>)}]
           /\ reg' = IF closed THEN reg ELSE [reg EXCEPT ![t].txn = call.id]
    /\ Proceed(t, <<>>)
    /\ UNCHANGED <<links, mutex, scenario, next, held, merged, gone, got, owed, broken>>

\* A transaction that is refused stays open.
EndPut(t) ==
    /\ At(t, "EndPut") /\ Unlocked(Range(Top(t).arg.objects))
    /\ LET r == Top(t).r
           call == Top(t).arg
           found == {parcel \in routers[r].puts :
                         parcel.id = reg[t].txn /\ (call.abort \/ parcel.size >= call.size)}
       IN  IF found = {} \/ (~call.abort /\ ~CanSendFrom(r, call.objects))
           THEN Proceed(t, <<>>) /\ Retain(call.objects) /\ UNCHANGED <<routers, reg>>
           ELSE /\ routers' = [routers EXCEPT ![r].puts = @ \ found]
                /\ reg' = [reg EXCEPT ![t].txn = Null]
                /\ Proceed(t, IF call.abort THEN <<>>
                              ELSE <<Frame("SendOutboundParcel", r,
                                           NewParcel(reg[t].txn, call.size, call.objects))>>)
                /\ IF call.abort THEN Retain(call.objects) ELSE UNCHANGED held
    /\ UNCHANGED <<links, mutex, scenario, next, merged, gone, got, owed, broken>>

---------------------------------------------------------------------------
(* Gets *)

\* Parcel::ConsumeHandles() takes the first objects, which leaves the others.
ConsumeHandles(parcel, k) == [parcel EXCEPT !.objects = SubSeq(@, k + 1, Len(@))]

Consumed(parcel, k) == Range(SubSeq(parcel.objects, 1, k))

Smaller(a, b) == IF a < b THEN a ELSE b

\* Get(), of a parcel with the room and the flags of the call.
FitsGet(parcel, call) ==
    call.partial \/ (call.bytes >= parcel.size /\ call.handles >= Len(parcel.objects))

\* Mutant: the last parcel of all is taken without further notice.
TakeNextInboundParcelAlive(R) == Notified(R, Pop(R.inq), {}, "kLocalParcelConsumed")

\* TakeNextInboundParcel(): the head of the queue is popped, and traps are told.
TakeNextInboundParcel(R) ==
    Notified(R, Pop(R.inq), DeadFlags(Pop(R.inq)), "kLocalParcelConsumed")

NextElement(R) == R.inq.elems[R.inq.base]

\* Get() of the next parcel; `more' is what the thread does after the call.
GetParcel(t, r, call, more) ==
    LET R == routers[r]
        parcel == NextElement(R)
        k == Smaller(call.handles, Len(parcel.objects))
        rest == ConsumeHandles(parcel, k)
    IN  \E taken \in {TakeNextInboundParcel(R)} :
            /\ routers' = [routers EXCEPT ![r] = taken.router]
            /\ held' = held \cup Consumed(parcel, k)
            /\ got' = [got EXCEPT ![r] = Append(@, <<parcel.from, parcel.n>>)]
            /\ reg' = IF call.keep THEN [reg EXCEPT ![t].parcel = rest] ELSE reg
            /\ Proceed(t, (IF call.keep THEN <<>> ELSE DestroyParcel(rest))
                              \o DispatchAll(r, taken.events) \o more)

Get(t) ==
    /\ Runs(t, "Get")
    /\ LET R == routers[Top(t).r]
       IN  IF HasNextElement(R.inq) /\ ~R.exclusive /\ FitsGet(NextElement(R), Top(t).arg)
           THEN GetParcel(t, Top(t).r, Top(t).arg, <<>>)
           ELSE Proceed(t, <<>>) /\ UNCHANGED <<routers, held, got, reg>>
    /\ UNCHANGED <<links, mutex, scenario, next, merged, gone, owed, broken>>

\* An overlapped get takes the parcel out of the queue; an exclusive one keeps
\* the place of the parcel with a null pointer.
BeginGet(t) ==
    /\ Runs(t, "BeginGet")
    /\ LET r == Top(t).r
           R == routers[r]
           call == Top(t).arg
           parcel == NextElement(R)
           k == Smaller(call.handles, Len(parcel.objects))
           pending == ConsumeHandles(parcel, k)
           moved == [R EXCEPT !.inq.elems[R.inq.base] = [pending EXCEPT !.here = FALSE, !.objects = <<>>],
                              !.exclusive = TRUE]
       IN  IF \/ R.gets # {} /\ (R.exclusive \/ ~call.overlapped)
              \/ ~HasNextElement(R.inq)
              \/ k < Len(parcel.objects) /\ ~call.partial
           THEN Proceed(t, <<>>) /\ UNCHANGED <<routers, held, reg, got>>
           ELSE \E taken \in {IF call.overlapped THEN TakeNextInboundParcel(R)
                              ELSE [router |-> moved, events |-> <<>>]} :
                    /\ routers' = [routers EXCEPT ![r] = [taken.router EXCEPT !.gets = @ \cup {pending}]]
                    /\ held' = held \cup Consumed(parcel, k)
                    /\ reg' = [reg EXCEPT ![t].txn = parcel.id]
                    /\ got' = IF call.overlapped
                              THEN [got EXCEPT ![r] = Append(@, <<parcel.from, parcel.n>>)] ELSE got
                    /\ Proceed(t, DispatchAll(r, taken.events))
    /\ UNCHANGED <<links, mutex, scenario, next, merged, gone, owed, broken>>

\* An exclusive get ends: the parcel is back at the head of the queue.
ReturnParcel(R, parcel) == [R EXCEPT !.inq.elems[R.inq.base] = parcel, !.exclusive = FALSE]

\* The parcel, if it is not given to the caller, is destroyed before the mutex
\* is released; so the mutex is kept while what it still holds is closed.
EndGet(t) ==
    /\ Runs(t, "EndGet")
    /\ LET r == Top(t).r
           R == routers[r]
           call == Top(t).arg
           found == {parcel \in R.gets : parcel.id = reg[t].txn}
           parcel == CHOOSE x \in found : TRUE
           popped == R.exclusive /\ ~call.abort
           kept == call.keep /\ ~call.abort
           doomed == IF kept \/ (R.exclusive /\ call.abort) THEN <<>> ELSE DestroyParcel(parcel)
       IN  IF found = {}
           THEN Proceed(t, <<>>) /\ UNCHANGED <<routers, mutex, reg, got, broken>>
           ELSE \E taken \in {CASE popped      -> TakeNextInboundParcel(ReturnParcel(R, parcel))
                               [] R.exclusive -> [router |-> ReturnParcel(R, parcel), events |-> <<>>]
                               [] OTHER       -> [router |-> R, events |-> <<>>]} :
                    /\ broken' = broken \cup
                          Broken(R.exclusive /\ (~HasNextElement(R.inq) \/ R.inq.base # parcel.n),
                                 "exclusive get of another parcel")
                    /\ routers' = [routers EXCEPT ![r] = [taken.router EXCEPT !.gets = @ \ found]]
                    /\ got' = IF popped THEN [got EXCEPT ![r] = Append(@, <<parcel.from, parcel.n>>)]
                                        ELSE got
                    /\ reg' = [reg EXCEPT ![t].txn = Null, ![t].parcel = IF kept THEN parcel ELSE @]
                    /\ mutex' = IF doomed = <<>> THEN mutex ELSE [mutex EXCEPT ![r] = t]
                    /\ Proceed(t, doomed
                                    \o (IF doomed = <<>> THEN <<>> ELSE <<Frame("Unlock", r, Null)>>)
                                    \o DispatchAll(r, taken.events))
    /\ UNCHANGED <<links, scenario, next, held, merged, gone, owed>>

Unlock(t) ==
    /\ At(t, "Unlock")
    /\ mutex' = [mutex EXCEPT ![Top(t).r] = Null]
    /\ Proceed(t, <<>>)
    /\ UNCHANGED <<routers, links, app, broken>>

(***************************************************************************)
(* The same calls on the handle of a parcel, which a get has returned.     *)
(***************************************************************************)
ParcelGet(t) ==
    /\ At(t, "ParcelGet")
    /\ LET parcel == reg[t].parcel
           call == Top(t).arg
           k == Smaller(call.handles, Len(parcel.objects))
       IN  IF parcel = Null \/ reg[t].in_two_phase_get \/ ~FitsGet(parcel, call)
           THEN UNCHANGED <<held, reg>>
           ELSE /\ held' = held \cup Consumed(parcel, k)
                /\ reg' = [reg EXCEPT ![t].parcel = ConsumeHandles(@, k)]
    /\ Proceed(t, <<>>)
    /\ UNCHANGED <<routers, links, mutex, scenario, next, merged, gone, got, owed, broken>>

ParcelBeginGet(t) ==
    /\ At(t, "ParcelBeginGet")
    /\ LET parcel == reg[t].parcel
           call == Top(t).arg
           k == Smaller(call.handles, Len(parcel.objects))
       IN  IF parcel = Null \/ reg[t].in_two_phase_get \/ (k < Len(parcel.objects) /\ ~call.partial)
           THEN UNCHANGED <<held, reg>>
           ELSE /\ held' = held \cup Consumed(parcel, k)
                /\ reg' = [reg EXCEPT ![t].parcel = ConsumeHandles(@, k), ![t].in_two_phase_get = TRUE]
    /\ Proceed(t, <<>>)
    /\ UNCHANGED <<routers, links, mutex, scenario, next, merged, gone, got, owed, broken>>

ParcelEndGet(t) ==
    /\ At(t, "ParcelEndGet")
    /\ reg' = [reg EXCEPT ![t].in_two_phase_get = FALSE]
    /\ Proceed(t, <<>>)
    /\ UNCHANGED <<routers, links, mutex, scenario, next, held, merged, gone, got, owed, broken>>

\* Close() does nothing, but the last reference to the parcel is dropped.
ParcelClose(t) ==
    /\ At(t, "ParcelClose")
    /\ reg' = [reg EXCEPT ![t].parcel = Null, ![t].in_two_phase_get = FALSE]
    /\ Proceed(t, IF reg[t].parcel = Null THEN <<>> ELSE DestroyParcel(reg[t].parcel))
    /\ UNCHANGED <<routers, links, mutex, scenario, next, held, merged, gone, got, owed, broken>>

---------------------------------------------------------------------------
(* Traps *)

\* The conditions that would make TrapSet::Add() refuse the trap.
Satisfied(R, trap) == GetSatisfiedConditionsForUpdate(trap, R.flags, R.inq, "kInstallTrap")

Trap(t) ==
    /\ Runs(t, "Trap")
    /\ LET r == Top(t).r
       IN  IF Satisfied(routers[r], Top(t).arg.trap) # {}
           THEN UNCHANGED <<routers, owed>>
           ELSE /\ routers' = [routers EXCEPT ![r].traps = Append(@, Top(t).arg.trap)]
                /\ owed' = [owed EXCEPT ![r] = @ + 1]
    /\ Proceed(t, <<>>)
    /\ UNCHANGED <<links, mutex, scenario, next, held, reg, merged, gone, got, broken>>

(***************************************************************************)
(* The handlers of the application.  One that drains its portal retrieves  *)
(* all there is, and then sets the trap again; as Trap() fails if its      *)
(* conditions are met already, it starts over in that case.                *)
(***************************************************************************)
Handler(t) ==
    /\ At(t, "Handler")
    /\ LET r == Top(t).r
           event == Top(t).arg
       IN  /\ owed' = [owed EXCEPT ![r] = @ - 1]
           /\ Proceed(t, IF event.trap.drain /\ r \in held /\ "REMOVED" \notin event.flags
                         THEN <<Frame("Drain", r, event.trap)>> ELSE <<>>)
    /\ UNCHANGED <<routers, links, mutex, scenario, next, held, reg, merged, gone, got, broken>>

GetAll == [bytes |-> MaxSequenceGap, handles |-> MaxSequenceGap, partial |-> TRUE, keep |-> FALSE]

Drain(t) ==
    /\ Runs(t, "Drain")
    /\ LET r == Top(t).r
           R == routers[r]
       IN  IF HasNextElement(R.inq) /\ ~R.exclusive
           THEN GetParcel(t, r, GetAll, <<Top(t)>>)
           ELSE /\ Proceed(t, IF IsFullyConsumed(R.inq) \/ R.exclusive THEN <<>>
                              ELSE <<Frame("Rearm", r, Top(t).arg)>>)
                /\ UNCHANGED <<routers, held, reg, got>>
    /\ UNCHANGED <<links, mutex, scenario, next, merged, gone, owed, broken>>

Rearm(t) ==
    /\ Runs(t, "Rearm")
    /\ LET r == Top(t).r
       IN  IF Satisfied(routers[r], Top(t).arg) # {}
           THEN Proceed(t, <<Frame("Drain", r, Top(t).arg)>>) /\ UNCHANGED <<routers, owed>>
           ELSE /\ routers' = [routers EXCEPT ![r].traps = Append(@, Top(t).arg)]
                /\ owed' = [owed EXCEPT ![r] = @ + 1]
                /\ Proceed(t, <<>>)
    /\ UNCHANGED <<links, mutex, scenario, next, held, reg, merged, gone, got, broken>>

---------------------------------------------------------------------------
(* MergePortals() *)

Merge(t) ==
    /\ Runs(t, "Merge")
    /\ LET r == Top(t).r
           other == Top(t).arg.other
       IN  IF other = r \/ GetLocalPeer(routers[r].out.primary) = other
           THEN Proceed(t, <<>>) /\ held' = held \cup {r, other}
           ELSE Proceed(t, <<Frame("MergeRoute", r, other)>>) /\ UNCHANGED held
    /\ UNCHANGED <<routers, links, mutex, scenario, next, reg, merged, gone, got, owed, broken>>

\* Portals that were used before, or merged before, cannot be merged.
MergeRoute(t) ==
    /\ Runs(t, "MergeRoute") /\ Unlocked({Top(t).arg})
    /\ LET r == Top(t).r
           other == Top(t).arg
           new == Len(links) + 1
           Unused(R) == R.inq.base = 0 /\ CurrentLength(R.outq) = 0 /\ R.bridge = Null
       IN  IF Unused(routers[r]) /\ Unused(routers[other])
           THEN /\ routers' = [routers EXCEPT ![r].bridge = SetPrimaryLink(NewEdge, Ref(new, "A")),
                                             ![other].bridge = SetPrimaryLink(NewEdge, Ref(new, "B"))]
                /\ links' = Append(links, NewLink("bridge", r, other, kUnstable))
                /\ merged' = merged \cup {<<r, other>>}
                /\ Proceed(t, <<FlushFrame(r, FALSE)>>)
                /\ UNCHANGED held
           ELSE /\ Proceed(t, <<>>)
                /\ held' = held \cup {r, other}
                /\ UNCHANGED <<routers, links, merged>>
    /\ UNCHANGED <<mutex, scenario, next, reg, gone, got, owed, broken>>

---------------------------------------------------------------------------
(* What keeps a Router alive *)

ParcelsOf(r) ==
    Range(routers[r].inq.elems) \cup Range(routers[r].outq.elems) \cup routers[r].gets \cup routers[r].puts

ObjectsOf(parcels) == UNION {Range(parcel.objects) : parcel \in parcels}

LinksOf(r) ==
    LET edges == {routers[r].out} \cup ({routers[r].bridge} \ {Null})
    IN  {ref.link : ref \in (UNION {{e.primary, DecayingLink(e)} : e \in edges}) \ {Null}}

Frames == UNION {Range(stack[t]) : t \in AllThreads}

\* The links and the routers to which a frame has a reference.
FrameLinks(f) ==
    CASE f.op \in {"AcceptParcel", "AcceptRouteClosure"}     -> {f.arg.ref.link}
      [] f.op \in {"Deactivate", "FlushOtherSideIfWaiting"}  -> {f.arg.link}
      [] OTHER                                               -> {}

FrameRouters(f) ==
    ({f.r} \ {Null}) \cup
    CASE f.op = "AcceptParcel"                                -> Range(f.arg.parcel.objects)
      [] f.op \in {"AcceptInboundParcel", "AcceptOutboundParcel", "SendOutboundParcel",
                   "Put", "PutUnlessClosed", "EndPut"}        -> Range(f.arg.objects)
      [] f.op \in {"TryLockForBridgeBypass", "TryLockSecondLink", "CancelBridgeBypass",
                   "MergeRoute"}                              -> {f.arg}
      [] f.op = "Merge"                                       -> {f.arg.other}
      [] f.op = "BypassBridge"                                -> Range(f.arg)
      [] OTHER                                                -> {}

\* The parcels of the routers rs and of the handles to parcels.
ParcelsHeld(rs) ==
    UNION {ParcelsOf(r) : r \in rs} \cup ({reg[t].parcel : t \in Threads} \ {Null})

Alive == Portals \ gone

LiveLinks == UNION {LinksOf(r) : r \in Alive} \cup UNION {FrameLinks(f) : f \in Frames}

Referenced ==
    held \cup ObjectsOf(ParcelsHeld(Alive)) \cup UNION {FrameRouters(x) : x \in Frames}
         \cup UNION {Range(links[l].router) : l \in LiveLinks}

\* ~Router(), of a router nobody refers to: its parcels are destroyed with it.
Destroy(r) ==
    /\ gone' = gone \cup {r}
    /\ broken' = broken \cup Broken(routers[r].traps # <<>>, "router destroyed with traps")
    /\ stack' = [stack EXCEPT ![r] = SetToSeq({Frame("CloseRoute", x, Null) : x \in ObjectsOf(ParcelsOf(r))})]
    /\ routers' = [routers EXCEPT ![r].inq = NewQueue(@.base), ![r].gets = {}, ![r].puts = {}]
    /\ UNCHANGED <<links, mutex, scenario, next, held, reg, merged, got, owed>>

---------------------------------------------------------------------------
(* The application *)

PortalsOf(call) ==
    ({call.p} \ {Null}) \cup
    CASE call.op \in {"Put", "EndPut"} -> Range(call.objects)
      [] call.op = "Merge"             -> {call.other}
      [] OTHER                         -> {}

\* The portals to which a call takes the caller's handle.
Taken(call) ==
    CASE call.op \in {"Put", "EndPut"}       -> Range(call.objects)
      [] call.op \in {"CloseRoute", "Merge"} -> PortalsOf(call)
      [] OTHER                               -> {}

\* A handle must not be given away while another thread makes a call with it.
InUse(t, p) ==
    \E u \in Threads \ {t} :
        /\ stack[u] # <<>>
        /\ \/ p \in PortalsOf(scenario.calls[u][next[u] - 1])
           \/ \E i \in DOMAIN stack[u] : stack[u][i].op \in {"Drain", "Rearm"} /\ stack[u][i].r = p

CallFrame(t, call) ==
    IF call.op \in {"Put", "BeginPut"} THEN Frame(call.op, call.p, [id |-> <<t, next[t]>>] @@ call)
    ELSE IF call.op = "CloseRoute" THEN Frame(call.op, call.p, Null)
    ELSE IF call.op = "Drain" THEN Frame(call.op, call.p, call.trap)
    ELSE Frame(call.op, call.p, call)

StartCall(t) ==
    /\ stack[t] = <<>> /\ next[t] <= Len(scenario.calls[t])
    /\ LET call == scenario.calls[t][next[t]]
           possible == PortalsOf(call) \subseteq held
       IN  /\ possible => \A p \in Taken(call) : ~InUse(t, p)
           /\ held' = IF possible THEN held \ Taken(call) ELSE held
           /\ stack' = [stack EXCEPT ![t] = IF possible THEN <<CallFrame(t, call)>> ELSE <<>>]
           /\ next' = [next EXCEPT ![t] = @ + 1]
    /\ UNCHANGED <<scenario, routers, links, mutex, reg, merged, gone, got, owed, broken>>

---------------------------------------------------------------------------

\* Router::CreatePair(): two routers with a stable link.
Paired(x) == SetToSeq(x.pairs)

Init ==
    /\ scenario \in Scenarios
    /\ links = [i \in DOMAIN Paired(scenario) |->
                   NewLink("central", Paired(scenario)[i][1], Paired(scenario)[i][2], kStable)]
    /\ routers = [p \in Portals |->
           IF \E i \in DOMAIN links, s \in Sides : links[i].router[s] = p
           THEN LET ref == CHOOSE ref \in {Ref(i, s) : i \in DOMAIN links, s \in Sides} :
                               links[ref.link].router[ref.side] = p
                IN  [NewRouter EXCEPT !.out = SetPrimaryLink(@, ref)]
           ELSE NewRouter]
    /\ mutex = [p \in Portals |-> Null]
    /\ stack = [t \in AllThreads |-> <<>>]
    /\ next = [t \in Threads |-> 1]
    /\ held = UNION {Range(pair) : pair \in scenario.pairs}
    /\ reg = [t \in Threads |-> [txn |-> Null, parcel |-> Null, in_two_phase_get |-> FALSE]]
    /\ merged = {}
    /\ gone = Portals \ held
    /\ got = [p \in Portals |-> <<>>]
    /\ owed = [p \in Portals |-> 0]
    /\ broken = {}

RouterStep(t) ==
    \/ AcceptParcel(t) \/ AcceptRouteClosure(t) \/ Deactivate(t) \/ FlushOtherSideIfWaiting(t)
    \/ SendOutboundParcel(t) \/ AcceptInboundParcel(t) \/ AcceptOutboundParcel(t)
    \/ AcceptRouteClosureFrom(t) \/ CloseRoute(t) \/ Flush(t)
    \/ MaybeStartBridgeBypass(t) \/ TryLockForBridgeBypass(t) \/ TryLockSecondLink(t)
    \/ CancelBridgeBypass(t) \/ BypassBridge(t)

CallStep(t) ==
    \/ Put(t) \/ PutUnlessClosed(t) \/ BeginPut(t) \/ EndPut(t)
    \/ Get(t) \/ BeginGet(t) \/ EndGet(t) \/ Unlock(t)
    \/ ParcelGet(t) \/ ParcelBeginGet(t) \/ ParcelEndGet(t) \/ ParcelClose(t)
    \/ Trap(t) \/ Merge(t) \/ MergeRoute(t)
    \/ Handler(t) \/ Drain(t) \/ Rearm(t)

Quiet ==
    /\ \A t \in AllThreads : stack[t] = <<>>
    /\ \A t \in Threads : next[t] > Len(scenario.calls[t])
    /\ Alive \subseteq Referenced

Done == Quiet /\ UNCHANGED vars

Next ==
    \/ \E t \in AllThreads : RouterStep(t) \/ CallStep(t)
    \/ \E t \in Threads : StartCall(t)
    \/ \E r \in Alive \ Referenced : Destroy(r)
    \/ Done

Spec == Init /\ [][Next]_vars

\* Some thread that is able to run does.  The operating system promises as much
\* of every single thread; no more than this is needed here.
FairSpec == Spec /\ WF_vars(Next)

---------------------------------------------------------------------------
(* Properties *)

\* The portal at the other end of the route that begins at p.
Partner(p) ==
    LET pair == CHOOSE pair \in scenario.pairs : p \in Range(pair)
    IN  IF pair[1] = p THEN pair[2] ELSE pair[1]

RECURSIVE OtherEnd(_)
OtherEnd(p) ==
    LET q == Partner(p)
        bridges == {pair \in merged : q \in Range(pair)}
    IN  IF bridges = {} THEN q
        ELSE LET pair == CHOOSE pair \in bridges : TRUE
             IN  OtherEnd(IF pair[1] = q THEN pair[2] ELSE pair[1])

IsMerged(p) == \E pair \in merged : p \in Range(pair)

IsClosed(p) == IsFinalKnown(routers[p].outq) /\ ~IsMerged(p)

\* Both ends of a route, wherever the application has moved them.
Ends == Alive \ UNION {Range(pair) : pair \in merged}

\* The state is well formed: edges refer to links that exist and know the
\* router at their side, and queues hold parcels under their own number.
TypeOK ==
    /\ held \subseteq Alive
    /\ \A r \in Alive : routers[r].out.primary # Null =>
           LET ref == routers[r].out.primary IN links[ref.link].router[ref.side] \in {r, Null}
    /\ \A r \in Alive, q \in {"inq", "outq"} : \A n \in Present(routers[r][q]) :
           routers[r][q].elems[n].n = n
    /\ \A r \in Alive : routers[r].exclusive => Cardinality(routers[r].gets) = 1

\* The state is well formed and no assertion of the routers fails: no router is
\* destroyed with a trap, no edge is bypassed while it decays, and an exclusive
\* get finds its parcel at the head of the queue, whatever was got or put
\* meanwhile.  (A portal merged during an exclusive get would send a null parcel
\* on, which Flush() would record here; no scenario does that.)
AssertionsHold == TypeOK /\ broken = {}

\* A trap that is installed waits for something that is not yet so: whenever
\* a queue or a flag changes, all traps that this satisfies are removed in the
\* same critical section.
TrapsAreNotMissed ==
    \A r \in Alive : \A i \in DOMAIN routers[r].traps : Satisfied(routers[r], routers[r].traps[i]) = {}

\* Every trap that was installed has its handler called exactly once: it is in
\* the router's set, or its event is about to be dispatched by some thread.
EveryTrapFiresOnce ==
    \A r \in Portals :
        owed[r] = Len(routers[r].traps)
                  + Cardinality({x \in UNION {{t} \X DOMAIN stack[t] : t \in AllThreads} :
                                    stack[x[1]][x[2]].op = "Handler" /\ stack[x[1]][x[2]].r = r})

\* What a portal's status says is so: it is dead exactly when there is nothing
\* left to retrieve and there never will be, and its peer is reported closed
\* only once all the peer's parcels are here.  At rest the closure of the other
\* end has been reported.
StatusIsTrue ==
    \A r \in Ends :
        LET R == routers[r]
        IN  /\ "DEAD" \in R.flags <=> IsFullyConsumed(R.inq)
            /\ "PEER_CLOSED" \in R.flags => ~ExpectsMoreElements(R.inq) /\ IsClosed(OtherEnd(r))
            /\ Quiet /\ IsClosed(OtherEnd(r)) => "PEER_CLOSED" \in R.flags

\* Parcels are retrieved in the order in which they were put at the other end
\* of the route, no matter how it was merged or who retrieves them; and once
\* all threads are at rest none is missing.
ParcelsArriveInOrder ==
    /\ \A p \in Portals : \A i \in DOMAIN got[p] : got[p][i] = <<OtherEnd(p), i - 1>>
    /\ Quiet => \A r \in Ends :
           CurrentLength(routers[r].inq) = CurrentLength(routers[OtherEnd(r)].outq)

\* No wakeup is lost: when all threads are at rest, a portal whose handler
\* drains it has nothing to retrieve, and either its trap is set or the
\* portal is dead.
PortalsAreDrained ==
    Quiet => \A r \in held : r \in scenario.drained =>
        ~HasNextElement(routers[r].inq) /\ (routers[r].traps # <<>> \/ "DEAD" \in routers[r].flags)

\* Once all threads are at rest, the two ends of a merged route have a central
\* link to each other, with nothing left of the bridge between them.
MergesReduce ==
    Quiet => \A r \in Ends :
        ~IsClosed(r) /\ ~IsClosed(OtherEnd(r)) =>
            /\ EdgeIsStable(routers[r].out)
            /\ GetLocalPeer(routers[r].out.primary) = OtherEnd(r)

\* Routers refer to each other through their links, in cycles; yet at rest
\* every router is gone that the application cannot get hold of anymore.
NoRouterLeaks ==
    Quiet => Alive \subseteq held \cup ObjectsOf(ParcelsHeld(Alive))

\* The application can rely on its traps: none is missed, each fires once, and
\* handlers that drain their portals and set their traps again get everything.
TrapsFire == TrapsAreNotMissed /\ EveryTrapFiresOnce /\ PortalsAreDrained

\* Merges, moves and closures leave no router behind.
RoutesReduce == MergesReduce /\ NoRouterLeaks

\* All calls come to an end, and all that they set off.
CallsEnd == []<>Quiet
=============================================================================
