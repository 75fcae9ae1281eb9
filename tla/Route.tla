------------------------------- MODULE Route -------------------------------
(***************************************************************************)
(* One route: the chain of Routers between two portals, and the protocol   *)
(* that shortens it again each time one of the portals has moved to        *)
(* another node.                                                           *)
(*                                                                         *)
(* A Router keeps its state under a mutex, and calls its links and other   *)
(* routers only after releasing it.  The model follows that structure.     *)
(* Each thread has a stack of frames, a frame stands for one critical      *)
(* section or one call into a link, and a step pops the top frame, does    *)
(* what it says, and pushes what the code does next.  Frames of different  *)
(* threads interleave freely, unless the scenario is serial.               *)
(***************************************************************************)
EXTENDS LinkStatus, ParcelQueue, RouteEdge, Sequences, SequencesExt

CONSTANTS
    Nodes,       \* the nodes, any two of them joined by a NodeLink
    X, Y,        \* the two ends of the route
    Scenarios    \* what the environment of the route may do: a set of records

Ends == {X, Y}

Other(e) == IF e = X THEN Y ELSE X

(***************************************************************************)
(* A scenario:                                                             *)
(*   home         the node on which each end is created                    *)
(*   established  whether these nodes are connected from the start         *)
(*   targets      the nodes to which an end may be sent                    *)
(*   puts         how many parcels each end may put                        *)
(*   transfers    how many times each end may be sent to another node      *)
(*   closers      the ends which the application may close                 *)
(*   fragile      the pairs of nodes whose NodeLink may fail               *)
(*   serial       whether an event begins only when no thread is busy      *)
(***************************************************************************)
AllScenarios ==
    [home : [Ends -> Nodes], established : BOOLEAN, targets : SUBSET Nodes,
     puts : [Ends -> Nat], transfers : [Ends -> Nat], closers : SUBSET Ends,
     fragile : SUBSET SUBSET Nodes, serial : BOOLEAN]

ASSUME RouteAssumption == X # Y /\ Scenarios \subseteq AllScenarios

\* The application uses each portal from one thread; every NodeLink is served
\* by one transport thread at each of its two nodes.
AppThread(e) == <<e, e>>

TransportThread(node, from) == <<node, from>>

NodePairs == {p \in Nodes \X Nodes : p[1] # p[2]}

Threads == {AppThread(e) : e \in Ends} \cup NodePairs

VARIABLES
    scenario,  \* the scenario, chosen once and for all
    routers,   \* all Routers ever created: a sequence of records
    links,     \* all RouterLinks ever created, both sides of each in one record
    chan,      \* chan[<<m, n>>]: the messages in flight from m to n, in order
    down,      \* how far each node has got with the loss of each NodeLink
    stack,     \* what each thread has still to do
    portal,    \* the terminal Router of each end; Null when moving, or closed
    sent,      \* how many parcels each end has put
    got,       \* the parcels each end has retrieved, in order
    moved,     \* how many times each end has been sent away
    closed,    \* the ends the application has closed
    broken     \* the assertions and validations that have failed so far

vars == <<scenario, routers, links, chan, down, stack, portal, sent, got, moved, closed, broken>>

appVars == <<scenario, portal, sent, got, moved, closed>>

netVars == <<scenario, chan, down>>

---------------------------------------------------------------------------
(* Routers and links *)

\* A reference to a RouterLink: a link and the side it is seen from.
Ref(l, s) == [link |-> l, side |-> s]

NewRouter(node, inq, outq, out) ==
    [node |-> node, out |-> out, inn |-> Null, inq |-> inq, outq |-> outq,
     peerClosed |-> FALSE, disconnected |-> FALSE, flags |-> {}]

NewLink(central, nodeA, nodeB, routerA, routerB, status) ==
    [central |-> central, node |-> [A |-> nodeA, B |-> nodeB],
     router |-> [A |-> routerA, B |-> routerB], status |-> status, source |-> Null]

IsLocal(l) == l.node.A = l.node.B

IsRemote(ref) == ~IsLocal(links[ref.link])

IsCentral(ref) == links[ref.link].central

\* By convention the router that extends a route has side A of the new link.
LinkType(ref) ==
    IF IsCentral(ref) THEN "central"
    ELSE IF ref.side = "A" THEN "peripheral inward" ELSE "peripheral outward"

PeerNode(ref) == links[ref.link].node[Opposite(ref.side)]

\* GetLocalPeer(): Null when the link is remote or its other side inactive.
LocalPeer(ref) ==
    IF ref = Null \/ IsRemote(ref) THEN Null ELSE links[ref.link].router[Opposite(ref.side)]

\* The side of remote link l which belongs to node.
SideAt(l, node) == IF links[l].node.A = node THEN "A" ELSE "B"

\* Only central links have a RouterLinkState.
MarkSideStable(ls, ref) ==
    IF ls[ref.link].central
    THEN [ls EXCEPT ![ref.link].status = SetStable(@, ref.side)] ELSE ls

CanTryLock(ls, ref) == ls[ref.link].central /\ CanLock(ls[ref.link].status, ref.side)

\* TryLockForClosure(), whether or not it obtains the lock.
TryLock(ls, ref) ==
    IF ls[ref.link].central
    THEN [ls EXCEPT ![ref.link].status = AfterTryLock(@, ref.side)] ELSE ls

\* Mutant: the node which shall bypass the locker is not recorded.
TryLockForBypassUnnamed(ls, ref, node) == TryLock(ls, ref)

TryLockForBypass(ls, ref, node) ==
    IF CanTryLock(ls, ref)
    THEN [TryLock(ls, ref) EXCEPT ![ref.link].source = node] ELSE TryLock(ls, ref)

CanNodeRequestBypass(ref, node) ==
    /\ IsCentral(ref)
    /\ Opposite(ref.side) \in links[ref.link].status.locked
    /\ links[ref.link].source = node

\* Mutant: DEAD does not wait for the application to read what has arrived.
DeadFlagsEarly(inq) == IF ~ExpectsMoreElements(inq) THEN {"PEER_CLOSED", "DEAD"} ELSE {}

\* The status bits set once a terminal router has nothing left to receive or read.
DeadFlags(inq) == IF IsFullyConsumed(inq) THEN {"PEER_CLOSED", "DEAD"} ELSE {}

---------------------------------------------------------------------------
(* Threads, frames and messages *)

Frame(op, r, via, arg) == [op |-> op, r |-> r, via |-> via, arg |-> arg]

FlushFrame(r, force) == Frame("Flush", r, Null, force)

TransmitFrame(ref, op, arg) == Frame("Transmit", Null, ref, [op |-> op, arg |-> arg])

DeactivateFrame(ref) == Frame("Deactivate", Null, ref, Null)

\* The two calls by which a router lets go of a link that is of no use anymore.
DisconnectFrames(ref) ==
    <<TransmitFrame(ref, "RouteDisconnected", Null), DeactivateFrame(ref)>>

DisconnectedFrame(r, from) == Frame("AcceptRouteDisconnectedFrom", r, Null, from)

\* The call made at the far end of ref for a message sent to it, if any router
\* is still (or already) bound to that end.
Dispatch(ref, msg) ==
    LET r == links[ref.link].router[ref.side]
    IN  IF r = Null THEN <<>> ELSE <<Frame(msg.op, r, ref, msg.arg)>>

Top(t) == Head(stack[t])

\* Only asked of a thread that is busy (see Run).
Runs(t, op) == Top(t).op = op

\* Thread t is done with its top frame, and runs frames next.
Proceed(t, frames) == stack' = [stack EXCEPT ![t] = frames \o Tail(@)]

\* t is ready for an API call or for the next message of its transport.
Ready(t) == stack[t] = <<>> /\ (scenario.serial => \A u \in Threads : stack[u] = <<>>)

Begin(t, frames) == stack' = [stack EXCEPT ![t] = frames]

Broken(cond, what) == IF cond THEN {what} ELSE {}

---------------------------------------------------------------------------
(* The application *)

(***************************************************************************)
(* Either OpenPortals(), whose two routers share a stable local link, or   *)
(* ConnectNode(): both ends wait, without a link, for the Connect message  *)
(* from the other node.  Link 1 is the first sublink of that NodeLink; its *)
(* RouterLinkState is preallocated.  `established` skips that exchange.      *)
(***************************************************************************)
StartsLinked == scenario.home[X] = scenario.home[Y] \/ scenario.established

Init ==
    /\ scenario \in Scenarios
    /\ routers = [i \in 1 .. 2 |->
           NewRouter(scenario.home[IF i = 1 THEN X ELSE Y], NewQueue(0), NewQueue(0),
                     IF StartsLinked THEN SetPrimaryLink(NewEdge, Ref(1, IF i = 1 THEN "A" ELSE "B"))
                                     ELSE NewEdge)]
    /\ links = IF StartsLinked
               THEN <<NewLink(TRUE, scenario.home[X], scenario.home[Y], 1, 2, kStable)>>
               ELSE <<NewLink(TRUE, scenario.home[X], scenario.home[Y], Null, Null, kUnstable)>>
    /\ chan = [p \in NodePairs |->
           IF ~StartsLinked /\ {p[1], p[2]} = {scenario.home[X], scenario.home[Y]}
           THEN <<[to |-> Ref(1, IF p[2] = scenario.home[X] THEN "A" ELSE "B"), op |-> "Connect", arg |-> Null]>>
           ELSE <<>>]
    /\ down = [p \in NodePairs |-> "active"]
    /\ stack = [t \in Threads |-> <<>>]
    /\ portal = [e \in Ends |-> IF e = X THEN 1 ELSE 2]
    /\ sent = [e \in Ends |-> 0]
    /\ got = [e \in Ends |-> <<>>]
    /\ moved = [e \in Ends |-> 0]
    /\ closed = {}
    /\ broken = {}

\* Router::SendOutboundParcel().
Put(e) ==
    LET i == portal[e]
        r == routers[i]
        n == CurrentLength(r.outq)
        p == <<e, sent[e] + 1>>
        direct == r.out.primary # Null /\ CanSkip(r.outq, n)
    IN  /\ sent[e] < scenario.puts[e]
        /\ i # Null /\ Ready(AppThread(e))
        /\ ~IsFinalKnown(r.inq)
        /\ routers' = [routers EXCEPT ![i].outq = IF direct THEN Skip(@) ELSE Push(@, n, p)]
        /\ Begin(AppThread(e),
                 IF direct THEN <<TransmitFrame(r.out.primary, "AcceptParcel", [n |-> n, p |-> p])>>
                           ELSE <<FlushFrame(i, FALSE)>>)
        /\ sent' = [sent EXCEPT ![e] = @ + 1]
        /\ UNCHANGED <<links, netVars, portal, got, moved, closed, broken>>

\* Router::Get().
Get(e) ==
    LET i == portal[e]
        q == Pop(routers[i].inq)
    IN  /\ i # Null /\ Ready(AppThread(e))
        /\ HasNextElement(routers[i].inq)
        /\ routers' = [routers EXCEPT ![i].inq = q, ![i].flags = @ \cup DeadFlags(q)]
        /\ got' = [got EXCEPT ![e] = Append(@, routers[i].inq.elems[routers[i].inq.base])]
        /\ UNCHANGED <<links, netVars, stack, portal, sent, moved, closed, broken>>

\* Router::CloseRoute().
Close(e) ==
    LET i == portal[e]
    IN  /\ e \in scenario.closers
        /\ i # Null /\ Ready(AppThread(e))
        /\ routers' = [routers EXCEPT ![i].outq = SetFinal(@, CurrentLength(@))]
        /\ Begin(AppThread(e), <<FlushFrame(i, FALSE)>>)
        /\ portal' = [portal EXCEPT ![e] = Null]
        /\ closed' = closed \cup {e}
        /\ UNCHANGED <<links, netVars, sent, got, moved, broken>>

(***************************************************************************)
(* The portal is attached to a parcel that travels to node, over some      *)
(* other route which is not modelled: RemoteRouterLink::AcceptParcel()     *)
(* serializes the router, transmits the parcel, and then lets the router   *)
(* proxy to its successor.                                                 *)
(***************************************************************************)
Transfer(e, node) ==
    /\ moved[e] < scenario.transfers[e]
    /\ portal[e] # Null /\ Ready(AppThread(e))
    /\ node \in scenario.targets /\ node # routers[portal[e]].node
    /\ down[<<routers[portal[e]].node, node>>] = "active"
    /\ Begin(AppThread(e), <<Frame("SerializeNewRouter", portal[e], Null, [end |-> e, node |-> node])>>)
    /\ portal' = [portal EXCEPT ![e] = Null]
    /\ moved' = [moved EXCEPT ![e] = @ + 1]
    /\ UNCHANGED <<routers, links, netVars, sent, got, closed, broken>>

---------------------------------------------------------------------------
(* Calls into links, and the arrival of messages *)

\* NodeLink::Transmit(), from node m to node n; to is the sublink addressed.
Post(m, n, to, op, arg) ==
    chan' = IF down[<<m, n>>] = "active" /\ down[<<n, m>>] = "active"
            THEN [chan EXCEPT ![<<m, n>>] = Append(@, [to |-> to, op |-> op, arg |-> arg])]
            ELSE chan

\* A local link calls the other router right away; a remote one sends a message.
Transmit(t) ==
    LET f == Top(t)
        far == Ref(f.via.link, Opposite(f.via.side))
    IN  /\ Runs(t, "Transmit")
        /\ IF IsRemote(f.via)
           THEN /\ Post(PeerNode(far), PeerNode(f.via), far, f.arg.op, f.arg.arg)
                /\ Proceed(t, <<>>)
           ELSE Proceed(t, Dispatch(far, f.arg)) /\ UNCHANGED chan
        /\ UNCHANGED <<routers, links, down, appVars, broken>>

Deactivate(t) ==
    LET ref == Top(t).via
    IN  /\ Runs(t, "Deactivate")
        /\ links' = [links EXCEPT ![ref.link].router[ref.side] = Null]
        /\ Proceed(t, <<>>)
        /\ UNCHANGED <<routers, netVars, appVars, broken>>

\* Mutant: the other side is flushed whether or not it waits.
FlushOtherSideAlways(t) ==
    /\ Runs(t, "FlushOtherSideIfWaiting")
    /\ Proceed(t, <<TransmitFrame(Top(t).via, "Flush", TRUE)>>)
    /\ UNCHANGED <<routers, links, netVars, appVars, broken>>

\* FlushOtherSideIfWaiting().
FlushOtherSideIfWaiting(t) ==
    LET ref == Top(t).via
        other == Opposite(ref.side)
        st == links[ref.link].status
    IN  /\ Runs(t, "FlushOtherSideIfWaiting")
        /\ links' = [links EXCEPT ![ref.link].status = AfterReset(@, other)]
        /\ Proceed(t, IF CanReset(st, other)
                      THEN <<TransmitFrame(ref, "Flush", TRUE)>> ELSE <<>>)
        /\ UNCHANGED <<routers, netVars, appVars, broken>>

(***************************************************************************)
(* The next message from m is taken off the transport at node n.  A        *)
(* message for a sublink with no router is dropped.  AcceptBypassLink      *)
(* names its receiver by a sublink of another NodeLink, that to the proxy. *)
(***************************************************************************)
Deliver(m, n) ==
    LET msg == Head(chan[<<m, n>>])
        t == TransportThread(n, m)
    IN  /\ chan[<<m, n>>] # <<>> /\ down[<<n, m>>] = "active" /\ Ready(t)
        /\ chan' = [chan EXCEPT ![<<m, n>>] = Tail(@)]
        /\ Begin(t, IF msg.op \in {"Connect", "NewRouter"}
                    THEN <<Frame(msg.op, n, msg.to, msg.arg)>> ELSE Dispatch(msg.to, msg))
        /\ UNCHANGED <<routers, links, down, appVars, broken>>

\* NodeConnector::EstablishWaitingRouters(), for the one initial portal.
Connect(t) ==
    LET ref == Top(t).via
        i == IF ref.side = "A" THEN 1 ELSE 2
    IN  /\ Runs(t, "Connect")
        /\ links' = [links EXCEPT ![1].router[ref.side] = i]
        /\ Proceed(t, <<Frame("SetOutwardLink", i, ref, Null)>>)
        /\ UNCHANGED <<routers, netVars, appVars, broken>>

---------------------------------------------------------------------------
(* The loss of a NodeLink *)

\* AddRemoteRouterLink() binds no router to a link that is deactivated.
IfActive(n, m, router) == IF down[<<n, m>>] = "deactivated" THEN Null ELSE router

\* The sublinks of node n's link to node m: the sides there which have a router.
BoundSides(n, m) ==
    {ref \in [link : 1 .. Len(links), side : Sides] :
        /\ links[ref.link].node[ref.side] = n /\ PeerNode(ref) = m
        /\ links[ref.link].router[ref.side] # Null}

\* HandleTransportError(): the sublinks are taken away and their routers told,
\* in the order of a hash map.
DropSublinks(n, m) ==
    /\ links' = [l \in 1 .. Len(links) |->
           [links[l] EXCEPT !.router = [s \in Sides |->
               IF Ref(l, s) \in BoundSides(n, m) THEN Null ELSE @[s]]]]
    /\ \E refs \in SetToSeqs(BoundSides(n, m)) :
           stack' = [stack EXCEPT ![TransportThread(n, m)] =
               [k \in DOMAIN refs |-> Frame("NotifyLinkDisconnected",
                    links[refs[k].link].router[refs[k].side], refs[k], Null)]
               \o (IF down[<<n, m>>] = "active" THEN <<Frame("DropConnection", n, Null, m)>> ELSE <<>>)]
    /\ chan' = [chan EXCEPT ![<<m, n>>] = <<>>]

\* OnTransportError(): a link that fails is sooner or later lost on both sides.
LoseNodeLink(n, m) ==
    /\ {n, m} \in scenario.fragile
    /\ down[<<n, m>>] = "active" /\ Ready(TransportThread(n, m))
    /\ chan[<<m, n>>] # <<>> => Head(chan[<<m, n>>]).op # "Connect"
    /\ down' = [down EXCEPT ![<<n, m>>] = "failed"]
    /\ DropSublinks(n, m)
    /\ UNCHANGED <<routers, appVars, broken>>

\* Node::DropConnection() and NodeLink::Deactivate(), which handles the sublinks
\* added in the meantime.
DropConnection(t) ==
    LET f == Top(t)
    IN  /\ Runs(t, "DropConnection")
        /\ down' = [down EXCEPT ![<<f.r, f.arg>>] = "deactivated"]
        /\ DropSublinks(f.r, f.arg)
        /\ UNCHANGED <<routers, appVars, broken>>

Without(e, ref) ==
    IF e.primary = ref THEN ReleasePrimaryLink(e) ELSE DropDecayingLink(e)

NotifyLinkDisconnected(t) ==
    LET f == Top(t)
        r == routers[f.r]
    IN  /\ Runs(t, "NotifyLinkDisconnected")
        /\ routers' = CASE f.via \in {r.out.primary, DecayingLink(r.out)} ->
                               [routers EXCEPT ![f.r].out = Without(@, f.via)]
                        [] r.inn # Null /\ f.via \in {r.inn.primary, DecayingLink(r.inn)} ->
                               [routers EXCEPT ![f.r].inn = Without(@, f.via)]
                        [] OTHER -> routers
        /\ Proceed(t, <<DisconnectedFrame(f.r, IF LinkType(f.via) = "peripheral inward"
                                               THEN "peripheral inward" ELSE "peripheral outward")>>)
        /\ UNCHANGED <<links, netVars, appVars, broken>>

---------------------------------------------------------------------------
(* Router: links, parcels and closure *)

\* Router::SetOutwardLink().
SetOutwardLink(t) ==
    LET i == Top(t).r
        r == routers[i]
        ref == Top(t).via
        stable == EdgeIsStable(r.out) /\ (r.inn # Null => EdgeIsStable(r.inn))
    IN  /\ Runs(t, "SetOutwardLink")
        /\ links' = IF IsCentral(ref) /\ stable THEN MarkSideStable(links, ref) ELSE links
        /\ IF r.disconnected
           THEN Proceed(t, DisconnectFrames(ref)) /\ UNCHANGED <<routers, broken>>
           ELSE /\ routers' = [routers EXCEPT ![i].out = SetPrimaryLink(@, ref)]
                /\ broken' = broken \cup Broken(~AssertNoPrimary(r.out), "SetOutwardLink")
                /\ Proceed(t, <<FlushFrame(i, TRUE)>>)
        /\ UNCHANGED <<netVars, appVars>>

\* AcceptInboundParcel() and AcceptOutboundParcel(), as AcceptCompleteParcel()
\* chooses.  A parcel that does not fit into the sequence is discarded.
AcceptParcel(t) ==
    LET f == Top(t)
        inbound == LinkType(f.via) # "peripheral inward"
        q == IF inbound THEN routers[f.r].inq ELSE routers[f.r].outq
        fits == CanPush(q, f.arg.n)
        q1 == Push(q, f.arg.n, f.arg.p)
    IN  /\ Runs(t, "AcceptParcel")
        /\ routers' = CASE ~fits   -> routers
                        [] inbound -> [routers EXCEPT ![f.r].inq = q1]
                        [] OTHER   -> [routers EXCEPT ![f.r].outq = q1]
        /\ Proceed(t, IF fits THEN <<FlushFrame(f.r, FALSE)>> ELSE <<>>)
        /\ UNCHANGED <<links, netVars, appVars, broken>>

\* The router once its peer is known to be closed; only a terminal router tells.
PeerIsClosed(r) ==
    IF r.inn # Null THEN r
    ELSE [r EXCEPT !.peerClosed = TRUE, !.flags = @ \cup DeadFlags(r.inq)]

\* AcceptRouteClosureFrom().
RouteClosed(t) ==
    LET f == Top(t)
        r == routers[f.r]
        inbound == LinkType(f.via) # "peripheral inward"
        q == IF inbound THEN r.inq ELSE r.outq
        ok == CanSetFinal(q, f.arg)
    IN  /\ Runs(t, "RouteClosed")
        /\ routers' = CASE ~ok     -> routers
                        [] inbound -> [routers EXCEPT ![f.r] =
                                          PeerIsClosed([r EXCEPT !.inq = SetFinal(q, f.arg)])]
                        [] OTHER   -> [routers EXCEPT ![f.r].outq = SetFinal(q, f.arg)]
        /\ broken' = broken \cup
               Broken(~ok /\ ~(IsFinalKnown(q) /\ q.final <= f.arg), "AcceptRouteClosureFrom")
        /\ Proceed(t, IF ok THEN <<FlushFrame(f.r, FALSE)>> ELSE <<>>)
        /\ UNCHANGED <<links, netVars, appVars>>

\* The links of a router, in the order in which it drops them.
LinksOf(r) ==
    LET edges == IF r.inn = Null THEN <<r.out>> ELSE <<r.out, r.inn>>
        refs == FlattenSeq([k \in DOMAIN edges |-> <<edges[k].primary, DecayingLink(edges[k])>>])
    IN  SelectSeq(refs, LAMBDA ref : ref # Null)

\* AcceptRouteDisconnectedFrom(): from is the type of the link that was lost.
Disconnected(r, from) ==
    LET q == [r EXCEPT !.disconnected = TRUE,
                       !.inq = IF from = "peripheral inward" THEN @ ELSE ForceTerminate(@),
                       !.outq = IF from = "peripheral inward" THEN ForceTerminate(@) ELSE @,
                       !.out = NewEdge]
    IN  IF r.inn # Null THEN [q EXCEPT !.inn = NewEdge] ELSE PeerIsClosed(q)

DisconnectFrom(t, i, from) ==
    /\ routers' = [routers EXCEPT ![i] = Disconnected(@, from)]
    /\ Proceed(t, FlattenSeq([k \in DOMAIN LinksOf(routers[i]) |->
                                  DisconnectFrames(LinksOf(routers[i])[k])])
                  \o <<FlushFrame(i, FALSE)>>)

AcceptRouteDisconnectedFrom(t) ==
    /\ \/ /\ Runs(t, "RouteDisconnected")
          /\ DisconnectFrom(t, Top(t).r, LinkType(Top(t).via))
       \/ /\ Runs(t, "AcceptRouteDisconnectedFrom")
          /\ DisconnectFrom(t, Top(t).r, Top(t).arg)
    /\ UNCHANGED <<links, netVars, appVars, broken>>

---------------------------------------------------------------------------
(* Router::Flush() *)

\* CollectParcelsToFlush(): the parcels at the front of q which edge can take.
Flushable(q, edge) ==
    LET n == CHOOSE m \in q.base .. CurrentLength(q) :
                 /\ \A k \in q.base .. m - 1 : LinkFor(edge, k) # Null
                 /\ m = CurrentLength(q) \/ LinkFor(edge, m) = Null
    IN  [k \in 1 .. n - q.base |->
            TransmitFrame(LinkFor(edge, q.base + k - 1), "AcceptParcel",
                          [n |-> q.base + k - 1, p |-> q.elems[q.base + k - 1]])]

\* Mutant: the router at the far end is not told of the closure.
DropFramesSilently(ref, final) == IF ref = Null THEN <<>> ELSE <<DeactivateFrame(ref)>>

\* A primary link is dropped, with a last word to the router at its far end.
DropFrames(ref, final) ==
    IF ref = Null THEN <<>>
    ELSE (IF final = Unknown THEN <<>> ELSE <<TransmitFrame(ref, "RouteClosed", final)>>)
         \o <<DeactivateFrame(ref)>>

\* The router, the links, and the calls made once the lock is released.
Flushed(i, force) ==
    LET r == routers[i]
        inn == IF r.inn = Null THEN NewEdge ELSE r.inn
        outward == r.out.primary
        onCentral == outward # Null /\ IsCentral(outward)
        outParcels == Flushable(r.outq, r.out)
        outq == PopTo(r.outq, r.outq.base + Len(outParcels))
        outDecayed == DecayIsFinished(r.out, outq.base, CurrentLength(r.inq))
        inParcels == Flushable(r.inq, inn)
        inq == PopTo(r.inq, r.inq.base + Len(inParcels))
        inDecayed == DecayIsFinished(inn, inq.base, CurrentLength(outq))
        bothStable == /\ outward # Null
                      /\ DecayingLink(r.out) = Null \/ outDecayed
                      /\ DecayingLink(inn) = Null \/ inDecayed
        dropped == onCentral /\ (outDecayed \/ inDecayed) /\ bothStable
        marked == IF dropped THEN MarkSideStable(links, outward) ELSE links
        closing == onCentral /\ IsFullyConsumed(outq)
        locked == closing /\ CanTryLock(marked, outward)
        deadOut == locked \/ ~ExpectsMoreElements(inq)
        deadIn == IsFullyConsumed(inq)
        outEdge == IF outDecayed THEN DropDecayingLink(r.out) ELSE r.out
        inEdge == IF inDecayed THEN DropDecayingLink(inn) ELSE inn
    IN  [router |->
             [r EXCEPT !.inq = inq, !.outq = outq,
                       !.out = IF deadOut THEN ReleasePrimaryLink(outEdge) ELSE outEdge,
                       !.inn = CASE r.inn = Null -> Null
                                 [] deadIn       -> ReleasePrimaryLink(inEdge)
                                 [] OTHER        -> inEdge,
                       !.flags = @ \cup (IF r.peerClosed /\ ~ExpectsMoreElements(inq)
                                         THEN {"PEER_CLOSED"} ELSE {})],
         links |-> IF closing THEN TryLock(marked, outward) ELSE marked,
         calls |-> outParcels \o inParcels
             \o (IF outDecayed THEN <<DeactivateFrame(DecayingLink(r.out))>> ELSE <<>>)
             \o (IF inDecayed THEN <<DeactivateFrame(DecayingLink(inn))>> ELSE <<>>)
             \o (IF deadOut THEN DropFrames(outward, IF locked THEN outq.final ELSE Unknown) ELSE <<>>)
             \o (IF deadIn THEN DropFrames(inn.primary, inq.final) ELSE <<>>)
             \o (CASE deadOut \/ ~onCentral \/ ~(dropped \/ force) -> <<>>
                   [] inn.primary # Null -> <<Frame("MaybeStartSelfBypass", i, outward, Null)>>
                   [] OTHER -> <<Frame("FlushOtherSideIfWaiting", i, outward, Null)>>)]

Flush(t) ==
    /\ Runs(t, "Flush")
    /\ \E flushed \in {Flushed(Top(t).r, Top(t).arg)} :
           /\ routers' = [routers EXCEPT ![Top(t).r] = flushed.router]
           /\ links' = flushed.links
           /\ Proceed(t, flushed.calls)
    /\ UNCHANGED <<netVars, appVars, broken>>

---------------------------------------------------------------------------
(* Extending a route to another node *)

(***************************************************************************)
(* The fields of a RouterDescriptor; end is the portal it stands for.      *)
(* decayingLink is Null unless proxy_already_bypassed, proxyNode is Null   *)
(* unless the receiver shall bypass the sender at once, and closedLength   *)
(* is Unknown unless peer_closed.                                          *)
(***************************************************************************)
Descriptor(end, link, decayingLink, r, decayingLength, closedLength, proxyNode, proxyLink) ==
    [end |-> end, link |-> link, decayingLink |-> decayingLink,
     nextOut |-> CurrentLength(r.outq), nextIn |-> r.inq.base,
     decayingLength |-> decayingLength, closedLength |-> closedLength,
     proxyNode |-> proxyNode, proxyLink |-> proxyLink]

TransmitNewRouter(from, node, d) ==
    Frame("TransmitNewRouter", Null, Null, [from |-> from, node |-> node, d |-> d])

SerializeNewRouter(t) ==
    LET f == Top(t)
        outward == routers[f.r].out.primary
        peer == LocalPeer(outward)
        bypass == outward # Null /\ CanTryLock(links, outward)
        arg == [end |-> f.arg.end, node |-> f.arg.node, bypass |-> bypass, peer |-> peer]
    IN  /\ Runs(t, "SerializeNewRouter")
        /\ links' = IF outward = Null THEN links ELSE TryLockForBypass(links, outward, f.arg.node)
        /\ Proceed(t, <<Frame(IF peer # Null /\ bypass THEN "SerializeWithLocalPeer"
                                                     ELSE "SerializeAndConfigureProxy",
                              f.r, Null, arg)>>)
        /\ UNCHANGED <<routers, netVars, appVars, broken>>

(***************************************************************************)
(* SerializeNewRouterWithLocalPeer(): the local peer will have a new       *)
(* central link to the new router, and this router a decaying link for the *)
(* parcels it still holds.  Falls back to a plain proxy if the peer no     *)
(* longer links back to this router.                                       *)
(***************************************************************************)
SerializeWithLocalPeer(t) ==
    LET f == Top(t)
        r == routers[f.r]
        peer == routers[f.arg.peer]
        len == peer.outq.base
        new == Len(links) + 1
        edge == SetLengthFrom(SetLengthTo(BeginDecay(NewEdge), len), CurrentLength(r.outq))
        d == Descriptor(f.arg.end, new, new + 1, r, len, r.inq.final, Null, Null)
    IN  /\ Runs(t, "SerializeWithLocalPeer")
        /\ IF LocalPeer(peer.out.primary) # f.r
           THEN /\ Proceed(t, <<[f EXCEPT !.op = "SerializeAndConfigureProxy"]>>)
                /\ UNCHANGED <<routers, links>>
           ELSE /\ routers' = [routers EXCEPT ![f.arg.peer].out = ReleasePrimaryLink(@), ![f.r].inn = edge]
                /\ links' = links \o
                       <<NewLink(TRUE, r.node, f.arg.node,
                                 IfActive(r.node, f.arg.node, f.arg.peer), Null, kUnstable),
                         NewLink(FALSE, r.node, f.arg.node,
                                 IfActive(r.node, f.arg.node, f.r), Null, kUnstable)>>
                /\ Proceed(t, <<TransmitNewRouter(r.node, f.arg.node, d),
                                Frame("BeginProxying", f.r, Null, d)>>)
        /\ UNCHANGED <<netVars, appVars, broken>>

\* SerializeNewRouterAndConfigureProxy().
SerializeAndConfigureProxy(t) ==
    LET f == Top(t)
        r == routers[f.r]
        outward == r.out.primary
        new == Len(links) + 1
        initiate == ~r.peerClosed /\ f.arg.bypass /\ outward # Null
        remote == initiate /\ IsRemote(outward)
        edge == CASE r.peerClosed -> SetLengthFrom(SetLengthTo(BeginDecay(NewEdge), r.inq.final), r.outq.base)
                  [] remote       -> BeginDecay(NewEdge)
                  [] OTHER        -> NewEdge
        d == Descriptor(f.arg.end, new, Null, r, 0, IF r.peerClosed THEN r.inq.final ELSE Unknown,
                        IF remote THEN PeerNode(outward) ELSE Null,
                        IF remote THEN outward.link ELSE Null)
        unlocked == IF initiate /\ ~remote
                    THEN [links EXCEPT ![outward.link].status = ClearLocked(@, outward.side)] ELSE links
    IN  /\ Runs(t, "SerializeAndConfigureProxy")
        /\ routers' = [routers EXCEPT ![f.r].inn = edge,
                                      ![f.r].out = IF remote THEN BeginDecay(@) ELSE @]
        /\ links' = Append(unlocked, NewLink(FALSE, r.node, f.arg.node,
                                             IfActive(r.node, f.arg.node, f.r), Null, kUnstable))
        /\ Proceed(t, <<TransmitNewRouter(r.node, f.arg.node, d),
                        Frame("BeginProxying", f.r, Null, d)>>)
        /\ UNCHANGED <<netVars, appVars, broken>>

TransmitParcelWithRouter(t) ==
    LET a == Top(t).arg
    IN  /\ Runs(t, "TransmitNewRouter")
        /\ Post(a.from, a.node, Ref(a.d.link, "B"), "NewRouter", a.d)
        /\ Proceed(t, <<>>)
        /\ UNCHANGED <<routers, links, down, appVars, broken>>

(***************************************************************************)
(* BeginProxyingToNewRouter(): the new links may be used from now on.  The *)
(* link the local peer shall have is adopted by the router only if there   *)
(* is no local peer; links that nobody adopts are disconnected.            *)
(***************************************************************************)
BeginProxying(t) ==
    LET f == Top(t)
        d == f.arg
        r == routers[f.r]
        bypassed == d.decayingLink # Null
        peer == IF bypassed THEN LocalPeer(r.out.primary) ELSE Null
        out == IF bypassed THEN ReleasePrimaryLink(r.out) ELSE r.out
        primary == Ref(d.link, "A")
        decaying == IF bypassed /\ links[d.decayingLink].router.A # Null
                    THEN Ref(d.decayingLink, "A") ELSE Null
        split == peer # Null /\ decaying # Null /\ ~r.disconnected
        proxy == ~split /\ ~IsFinalKnown(r.outq) /\ decaying = Null /\ ~r.disconnected
        inn == CASE split -> SetPrimaryLink(r.inn, decaying)
                 [] proxy -> SetPrimaryLink(r.inn, primary)
                 [] OTHER -> r.inn
        toPeer == peer # Null /\ ~proxy /\ (split \/ decaying = Null)
    IN  /\ Runs(t, "BeginProxying")
        /\ IF links[d.link].router.A = Null
           THEN Proceed(t, <<FlushFrame(f.r, TRUE)>>) /\ UNCHANGED <<routers, links, broken>>
           ELSE /\ routers' = [routers EXCEPT ![f.r].out = out, ![f.r].inn = inn]
                /\ links' = IF proxy /\ out.primary # Null /\ EdgeIsStable(out) /\ EdgeIsStable(inn)
                            THEN MarkSideStable(links, out.primary) ELSE links
                /\ broken' = broken \cup Broken((split \/ proxy) /\ ~AssertNoPrimary(r.inn), "BeginProxying")
                /\ Proceed(t,
                      (IF toPeer THEN <<Frame("SetOutwardLink", peer, primary, Null)>> ELSE <<>>)
                      \o (IF proxy \/ toPeer THEN <<>> ELSE DisconnectFrames(primary))
                      \o (IF decaying = Null \/ split THEN <<>> ELSE DisconnectFrames(decaying))
                      \o <<FlushFrame(f.r, TRUE)>>
                      \o (IF peer = Null THEN <<>> ELSE <<FlushFrame(peer, TRUE)>>))
        /\ UNCHANGED <<netVars, appVars>>

\* Deserialize(), at the node where the parcel with the portal arrives.
Deserialize(t) ==
    LET node == Top(t).r
        d == Top(t).arg
        i == Len(routers) + 1
        primary == Ref(d.link, "B")
        inq == IF d.closedLength = Unknown THEN NewQueue(d.nextIn)
               ELSE SetFinal(NewQueue(d.nextIn), d.closedLength)
        split == SetLengthFrom(SetLengthTo(
                     BeginDecay(SetPrimaryLink(NewEdge, Ref(d.decayingLink, "B"))), d.nextOut),
                     IF d.decayingLength > 0 THEN d.decayingLength ELSE d.nextIn)
        r == NewRouter(node, inq, NewQueue(d.nextOut),
                       SetPrimaryLink(IF d.decayingLink = Null THEN NewEdge ELSE split, primary))
        bound == [links EXCEPT ![d.link].router.B = i]
    IN  /\ Runs(t, "NewRouter")
        /\ routers' = Append(routers,
               IF d.closedLength = Unknown THEN r
               ELSE [r EXCEPT !.peerClosed = TRUE, !.flags = DeadFlags(inq)])
        /\ links' = IF d.decayingLink = Null THEN bound
                    ELSE [bound EXCEPT ![d.decayingLink].router.B = i]
        /\ Proceed(t, (IF d.proxyNode = Null THEN <<>>
                       ELSE <<Frame("BypassPeer", i, primary, [node |-> d.proxyNode, link |-> d.proxyLink])>>)
                      \o <<FlushFrame(i, TRUE), Frame("Arrive", i, Null, d.end)>>)
        /\ broken' = broken \cup
               Broken(d.closedLength # Unknown /\ d.closedLength < d.nextIn, "Deserialize")
        /\ UNCHANGED <<netVars, appVars>>

\* The parcel is handed on to the application, which may use the portal again.
Arrive(t) ==
    /\ Runs(t, "Arrive")
    /\ portal' = [portal EXCEPT ![Top(t).arg] = Top(t).r]
    /\ Proceed(t, <<>>)
    /\ UNCHANGED <<routers, links, netVars, sent, got, moved, closed, broken>>

---------------------------------------------------------------------------
(* Bypassing a proxy *)

(***************************************************************************)
(* MaybeStartSelfBypass(): the proxy locks its outward link.  On failure   *)
(* the Flush() that called it goes on to FlushOtherSideIfWaiting().        *)
(***************************************************************************)
MaybeStartSelfBypass(t) ==
    LET f == Top(t)
        r == routers[f.r]
        outward == r.out.primary
        eligible == /\ r.inn # Null /\ r.inn.primary # Null /\ EdgeIsStable(r.inn)
                    /\ outward # Null
        peer == LocalPeer(outward)
        locked == eligible /\ CanTryLock(links, outward)
    IN  /\ Runs(t, "MaybeStartSelfBypass")
        /\ links' = IF eligible THEN TryLockForBypass(links, outward, PeerNode(r.inn.primary)) ELSE links
        /\ Proceed(t, <<CASE ~locked -> Frame("FlushOtherSideIfWaiting", f.r, f.via, Null)
                          [] peer # Null -> Frame("StartSelfBypassToLocalPeer", f.r, f.via,
                                                  [peer |-> peer, inward |-> r.inn.primary])
                          [] OTHER -> Frame("StartSelfBypass", f.r, f.via,
                                            [inward |-> r.inn.primary, outward |-> outward])>>)
        /\ broken' = broken \cup Broken(locked /\ peer = Null /\ ~IsRemote(outward), "MaybeStartSelfBypass")
        /\ UNCHANGED <<routers, netVars, appVars>>

\* The second critical section of MaybeStartSelfBypass(), the mutex having been
\* released in between.
StartSelfBypass(t) ==
    LET f == Top(t)
        r == routers[f.r]
        a == f.arg
    IN  /\ Runs(t, "StartSelfBypass")
        /\ IF r.inn = Null \/ r.inn.primary = Null \/ r.out.primary = Null
           THEN /\ Proceed(t, <<Frame("FlushOtherSideIfWaiting", f.r, f.via, Null)>>)
                /\ UNCHANGED routers
           ELSE /\ routers' = [routers EXCEPT ![f.r].out = BeginDecay(@), ![f.r].inn = BeginDecay(@)]
                /\ Proceed(t, <<TransmitFrame(a.inward, "BypassPeer",
                                   [node |-> PeerNode(a.outward), link |-> a.outward.link])>>)
        /\ UNCHANGED <<links, netVars, appVars, broken>>

\* The bypass target is on the proxy's own node, so the proxy creates the link.
StartSelfBypassToLocalPeer(t) ==
    LET f == Top(t)
        i == f.r
        j == f.arg.peer
        r == routers[i]
        peer == routers[j]
        len == peer.outq.base
        new == Len(links) + 1
        bound == IfActive(r.node, PeerNode(f.arg.inward), j)
    IN  /\ Runs(t, "StartSelfBypassToLocalPeer")
        /\ IF \/ r.out.primary = Null \/ peer.out.primary = Null
              \/ r.disconnected \/ peer.disconnected
           THEN /\ Proceed(t, <<Frame("FlushOtherSideIfWaiting", i, f.via, Null)>>)
                /\ UNCHANGED <<routers, links, broken>>
           ELSE /\ routers' = [routers EXCEPT
                       ![j].out = SetLengthTo(BeginDecay(@), len),
                       ![i].out = SetLengthFrom(BeginDecay(@), len),
                       ![i].inn = SetLengthTo(BeginDecay(@), len)]
                /\ links' = Append(links, NewLink(TRUE, r.node, PeerNode(f.arg.inward), bound, Null, kUnstable))
                /\ broken' = broken \cup
                       Broken(\/ LocalPeer(r.out.primary) # j \/ LocalPeer(peer.out.primary) # i
                              \/ ~EdgeIsStable(peer.out) \/ ~EdgeIsStable(r.out) \/ ~EdgeIsStable(r.inn),
                              "StartSelfBypassToLocalPeer")
                /\ Proceed(t, IF bound = Null
                       THEN <<DisconnectedFrame(i, "central"), Frame("FlushOtherSideIfWaiting", i, f.via, Null)>>
                       ELSE <<TransmitFrame(f.arg.inward, "BypassPeerWithLink", [link |-> new, len |-> len]),
                              Frame("SetOutwardLink", j, Ref(new, "A"), Null)>>)
        /\ UNCHANGED <<netVars, appVars>>

\* BypassPeer(): requestor is the link over which the proxy asks to be bypassed.
BypassPeer(t) ==
    LET f == Top(t)
        r == routers[f.r]
        target == Ref(f.arg.link, SideAt(f.arg.link, f.arg.node))
    IN  /\ Runs(t, "BypassPeer")
        /\ Proceed(t,
              CASE r.out.primary # f.via -> <<>>
                [] f.arg.node # r.node   ->
                       <<IF down[<<r.node, f.arg.node>>] = "deactivated"
                         THEN DisconnectedFrame(f.r, "peripheral outward")
                         ELSE Frame("BypassPeerWithNewRemoteLink", f.r, f.via, f.arg)>>
                [] OTHER -> <<Frame("BypassPeerWithNewLocalLink", f.r, f.via,
                                    links[f.arg.link].router[target.side])>>)
        /\ broken' = broken \cup Broken(r.out.primary \notin {Null, f.via}, "BypassPeer")
        /\ UNCHANGED <<routers, links, netVars, appVars>>

(***************************************************************************)
(* BypassPeerWithNewRemoteLink(): AcceptBypassLink is sent to the target   *)
(* node; it names the target by its sublink to the proxy.  The new link is *)
(* used only after that.                                                   *)
(***************************************************************************)
BypassPeerWithNewRemoteLink(t) ==
    LET f == Top(t)
        r == routers[f.r]
        new == Len(links) + 1
        bound == IfActive(r.node, f.arg.node, f.r)
    IN  /\ Runs(t, "BypassPeerWithNewRemoteLink")
        /\ IF r.out.primary = Null \/ r.disconnected \/ ~EdgeIsStable(r.out)
           THEN /\ Proceed(t, <<>>)
                /\ broken' = broken \cup Broken(/\ r.out.primary # Null /\ ~r.disconnected,
                                                "BypassPeerWithNewRemoteLink")
                /\ UNCHANGED <<routers, links>>
           ELSE /\ routers' = [routers EXCEPT ![f.r].out = SetLengthTo(BeginDecay(@), r.outq.base)]
                /\ links' = Append(links, NewLink(TRUE, r.node, f.arg.node, bound, Null, kUnstable))
                /\ Proceed(t, IF bound = Null THEN <<DisconnectedFrame(f.r, "central")>>
                       ELSE <<Frame("TransmitAcceptBypassLink", Null, Null,
                                    [from |-> r.node, node |-> f.arg.node,
                                     to |-> Ref(f.arg.link, SideAt(f.arg.link, f.arg.node)),
                                     arg |-> [link |-> new, len |-> r.outq.base]]),
                              Frame("SetOutwardLink", f.r, Ref(new, "A"), Null)>>)
                /\ UNCHANGED broken
        /\ UNCHANGED <<netVars, appVars>>

\* NodeLink::AcceptBypassLink().
TransmitAcceptBypassLink(t) ==
    LET a == Top(t).arg
    IN  /\ Runs(t, "TransmitAcceptBypassLink")
        /\ Post(a.from, a.node, a.to, "AcceptBypassLink", a.arg)
        /\ Proceed(t, <<>>)
        /\ UNCHANGED <<routers, links, down, appVars, broken>>

\* BypassPeerWithNewLocalLink(): the target is on this node, so both routers can
\* be moved to a new local link at once.
BypassPeerWithNewLocalLink(t) ==
    LET f == Top(t)
        i == f.r
        j == f.arg
        r == routers[i]
        peer == routers[j]
        to == r.outq.base
        from == peer.outq.base
        new == Len(links) + 1
        Replace(e, len, peerLen, side) ==
            SetPrimaryLink(SetLengthFrom(SetLengthTo(BeginDecay(e), len), peerLen), Ref(new, side))
    IN  /\ Runs(t, "BypassPeerWithNewLocalLink")
        /\ IF j = Null
           THEN DisconnectFrom(t, i, "peripheral outward") /\ UNCHANGED <<links, broken>>
           ELSE IF \/ r.out.primary = Null \/ peer.out.primary = Null
                   \/ r.disconnected \/ peer.disconnected
           THEN Proceed(t, <<>>) /\ UNCHANGED <<routers, links, broken>>
           ELSE IF ~EdgeIsStable(r.out) \/ ~EdgeIsStable(peer.out)
           THEN /\ Proceed(t, <<>>)
                /\ broken' = broken \cup {"BypassPeerWithNewLocalLink"}
                /\ UNCHANGED <<routers, links>>
           ELSE /\ routers' = [routers EXCEPT ![i].out = Replace(@, to, from, "A"),
                                              ![j].out = Replace(@, from, to, "B")]
                /\ links' = Append(links, NewLink(TRUE, r.node, r.node, i, j, kUnstable))
                /\ Proceed(t, <<TransmitFrame(peer.out.primary, "StopProxying", [inn |-> from, out |-> to]),
                                FlushFrame(i, FALSE), FlushFrame(j, FALSE)>>)
                /\ UNCHANGED broken
        /\ UNCHANGED <<netVars, appVars>>

(***************************************************************************)
(* AcceptBypassLink(), for the messages AcceptBypassLink (from the proxy's *)
(* inward peer) and BypassPeerWithLink (from the proxy itself).            *)
(***************************************************************************)
AcceptBypassLink(t) ==
    LET f == Top(t)
        r == routers[f.r]
        old == r.out.primary
        from == links[f.arg.link].node.A
        sameNode == PeerNode(old) = from
        new == Ref(f.arg.link, "B")
        len == r.outq.base
        edge == SetLengthFrom(SetLengthTo(BeginDecay(r.out), len), f.arg.len)
    IN  /\ Runs(t, "AcceptBypassLink") \/ Runs(t, "BypassPeerWithLink")
        /\ IF r.disconnected \/ old = Null
           THEN Proceed(t, <<>>) /\ UNCHANGED <<routers, links, broken>>
           ELSE IF \/ ~IsRemote(old) \/ ~EdgeIsStable(r.out)
                   \/ ~sameNode /\ ~CanNodeRequestBypass(old, from)
           THEN /\ Proceed(t, <<>>)
                /\ broken' = broken \cup {"AcceptBypassLink"}
                /\ UNCHANGED <<routers, links>>
           ELSE /\ routers' = [routers EXCEPT ![f.r].out = SetPrimaryLink(edge, new)]
                /\ links' = [links EXCEPT ![f.arg.link].router.B = f.r]
                /\ Proceed(t,
                      (IF sameNode
                       THEN <<TransmitFrame(old, "StopProxyingToLocalPeer", len)>>
                       ELSE <<TransmitFrame(old, "StopProxying", [inn |-> len, out |-> f.arg.len]),
                              TransmitFrame(new, "ProxyWillStop", len)>>)
                      \o <<FlushFrame(f.r, FALSE)>>)
                /\ UNCHANGED broken
        /\ UNCHANGED <<netVars, appVars>>

\* StopProxying(): the proxy learns how much it has still to forward.
StopProxying(t) ==
    LET f == Top(t)
        r == routers[f.r]
        a == f.arg
        valid == ~EdgeIsStable(r.out) /\ r.inn # Null /\ ~EdgeIsStable(r.inn)
    IN  /\ Runs(t, "StopProxying")
        /\ routers' = IF ~valid THEN routers
                      ELSE [routers EXCEPT
                               ![f.r].inn = SetLengthFrom(SetLengthTo(@, a.inn), a.out),
                               ![f.r].out = SetLengthFrom(SetLengthTo(@, a.out), a.inn)]
        /\ broken' = broken \cup
               Broken(~valid \/ ~AssertLengthToUnset(r.inn) \/ ~AssertLengthFromUnset(r.inn)
                            \/ ~AssertLengthToUnset(r.out) \/ ~AssertLengthFromUnset(r.out), "StopProxying")
        /\ Proceed(t, IF valid THEN <<FlushFrame(f.r, FALSE)>> ELSE <<>>)
        /\ UNCHANGED <<links, netVars, appVars>>

\* NotifyProxyWillStop().
ProxyWillStop(t) ==
    LET f == Top(t)
        r == routers[f.r]
        valid == ~EdgeIsStable(r.out)
    IN  /\ Runs(t, "ProxyWillStop")
        /\ routers' = IF valid THEN [routers EXCEPT ![f.r].out = SetLengthFrom(@, f.arg)] ELSE routers
        /\ broken' = broken \cup
               Broken(IF valid THEN ~AssertLengthFromUnset(r.out) ELSE ~r.disconnected, "NotifyProxyWillStop")
        /\ Proceed(t, IF valid THEN <<FlushFrame(f.r, FALSE)>> ELSE <<>>)
        /\ UNCHANGED <<links, netVars, appVars>>

\* StopProxyingToLocalPeer(): first the local peer is looked up ...
StopProxyingToLocalPeer(t) ==
    LET f == Top(t)
        r == routers[f.r]
        peer == LocalPeer(DecayingLink(r.out))
    IN  /\ Runs(t, "StopProxyingToLocalPeer")
        /\ Proceed(t, IF peer = Null THEN <<>>
                      ELSE <<Frame("StopProxyingWithPeer", f.r, Null, [peer |-> peer, len |-> f.arg])>>)
        /\ broken' = broken \cup
               Broken(peer = Null /\ (DecayingLink(r.out) = Null => ~r.disconnected), "StopProxyingToLocalPeer")
        /\ UNCHANGED <<routers, links, netVars, appVars>>

\* ... and then both routers are updated.
StopProxyingWithPeer(t) ==
    LET f == Top(t)
        i == f.r
        j == f.arg.peer
        ours == DecayingLink(routers[i].out)
        theirs == DecayingLink(routers[j].out)
        valid == routers[i].inn # Null /\ LocalPeer(ours) = j /\ LocalPeer(theirs) = i
    IN  /\ Runs(t, "StopProxyingWithPeer")
        /\ IF ours = Null \/ theirs = Null \/ ~valid
           THEN /\ Proceed(t, <<>>)
                /\ broken' = broken \cup Broken(ours # Null /\ theirs # Null, "StopProxyingToLocalPeer")
                /\ UNCHANGED routers
           ELSE /\ routers' = [routers EXCEPT ![j].out = SetLengthFrom(@, f.arg.len),
                                              ![i].out = SetLengthTo(@, f.arg.len),
                                              ![i].inn = SetLengthFrom(@, f.arg.len)]
                /\ broken' = broken \cup
                       Broken(\/ ~AssertLengthFromUnset(routers[j].out)
                              \/ ~AssertLengthToUnset(routers[i].out)
                              \/ ~AssertLengthFromUnset(routers[i].inn), "StopProxyingToLocalPeer")
                /\ Proceed(t, <<FlushFrame(i, FALSE), FlushFrame(j, FALSE)>>)
        /\ UNCHANGED <<links, netVars, appVars>>

---------------------------------------------------------------------------
(* The specification *)

App(e) == Put(e) \/ Get(e) \/ Close(e) \/ \E node \in Nodes : Transfer(e, node)

LinkOps ==
    {"Transmit", "Deactivate", "FlushOtherSideIfWaiting", "Connect", "DropConnection", "NotifyLinkDisconnected"}

RunLink(t) ==
    /\ Top(t).op \in LinkOps
    /\ \/ Transmit(t) \/ Deactivate(t) \/ FlushOtherSideIfWaiting(t) \/ Connect(t)
       \/ DropConnection(t) \/ NotifyLinkDisconnected(t)

RouterOps ==
    {"SetOutwardLink", "AcceptParcel", "RouteClosed", "RouteDisconnected", "AcceptRouteDisconnectedFrom", "Flush"}

RunRouter(t) ==
    /\ Top(t).op \in RouterOps
    /\ \/ SetOutwardLink(t) \/ AcceptParcel(t) \/ RouteClosed(t) \/ AcceptRouteDisconnectedFrom(t)
       \/ Flush(t)

TransferOps ==
    {"SerializeNewRouter", "SerializeWithLocalPeer", "SerializeAndConfigureProxy", "TransmitNewRouter",
     "BeginProxying", "NewRouter", "Arrive"}

RunTransfer(t) ==
    /\ Top(t).op \in TransferOps
    /\ \/ SerializeNewRouter(t) \/ SerializeWithLocalPeer(t) \/ SerializeAndConfigureProxy(t)
       \/ TransmitParcelWithRouter(t) \/ BeginProxying(t) \/ Deserialize(t) \/ Arrive(t)

BypassOps ==
    {"MaybeStartSelfBypass", "StartSelfBypass", "StartSelfBypassToLocalPeer", "BypassPeer",
     "BypassPeerWithNewRemoteLink", "TransmitAcceptBypassLink", "BypassPeerWithNewLocalLink"}

RunBypass(t) ==
    /\ Top(t).op \in BypassOps
    /\ \/ MaybeStartSelfBypass(t) \/ StartSelfBypass(t) \/ StartSelfBypassToLocalPeer(t)
       \/ BypassPeer(t) \/ BypassPeerWithNewRemoteLink(t) \/ TransmitAcceptBypassLink(t)
       \/ BypassPeerWithNewLocalLink(t)

BypassedOps ==
    {"AcceptBypassLink", "BypassPeerWithLink", "StopProxying", "ProxyWillStop",
     "StopProxyingToLocalPeer", "StopProxyingWithPeer"}

RunBypassed(t) ==
    /\ Top(t).op \in BypassedOps
    /\ \/ AcceptBypassLink(t) \/ StopProxying(t) \/ ProxyWillStop(t)
       \/ StopProxyingToLocalPeer(t) \/ StopProxyingWithPeer(t)

Run(t) ==
    /\ stack[t] # <<>>
    /\ RunLink(t) \/ RunRouter(t) \/ RunTransfer(t) \/ RunBypass(t) \/ RunBypassed(t)

Next ==
    \/ \E e \in Ends : App(e)
    \/ \E p \in NodePairs : Deliver(p[1], p[2]) \/ LoseNodeLink(p[1], p[2])
    \/ \E t \in Threads : Run(t)

Spec == Init /\ [][Next]_vars

\* As long as some thread is in the middle of a call, or some message can be
\* delivered, the nodes' threads are not all suspended for ever.
FairSpec ==
    Spec /\ WF_vars((\E t \in Threads : Run(t)) \/ \E p \in NodePairs : Deliver(p[1], p[2]))

---------------------------------------------------------------------------
(* Properties *)

Refs == [link : 1 .. Len(links), side : Sides]

Lengths == Nat \cup {Unknown}

Edges == [primary : Refs \cup {Null},
          decaying : {Null} \cup [link : Refs \cup {Null}, to : Nat \cup {Null}, from : Nat \cup {Null}]]

IsQueue(q) ==
    /\ DOMAIN q = {"base", "elems", "final"}
    /\ q.base \in Nat /\ q.final \in Lengths
    /\ Present(q) \subseteq Nat /\ \A n \in Present(q) : n >= q.base /\ q.elems[n] \in Ends \X (Nat \ {0})

\* Every router, link, message and pending step refers only to what exists, and
\* no queue holds an element below the one its router expects next.
TypeOK ==
    /\ \A i \in DOMAIN routers :
           LET r == routers[i]
           IN  /\ r.node \in Nodes /\ r.out \in Edges /\ r.inn \in Edges \cup {Null}
               /\ IsQueue(r.inq) /\ IsQueue(r.outq)
               /\ r.peerClosed \in BOOLEAN /\ r.disconnected \in BOOLEAN
               /\ r.flags \subseteq {"PEER_CLOSED", "DEAD"}
    /\ \A l \in DOMAIN links :
           /\ links[l].central \in BOOLEAN /\ links[l].status \in Status
           /\ links[l].node \in [Sides -> Nodes] /\ links[l].source \in Nodes \cup {Null}
           /\ links[l].router \in [Sides -> DOMAIN routers \cup {Null}]
    /\ down \in [NodePairs -> {"active", "failed", "deactivated"}]
    /\ DOMAIN chan = NodePairs /\ \A p \in NodePairs : \A k \in DOMAIN chan[p] : chan[p][k].to \in Refs
    /\ DOMAIN stack = Threads
    /\ \A t \in Threads : \A k \in DOMAIN stack[t] :
           /\ stack[t][k].op \in LinkOps \cup RouterOps \cup TransferOps \cup BypassOps \cup BypassedOps
           /\ stack[t][k].via \in Refs \cup {Null}
    /\ portal \in [Ends -> DOMAIN routers \cup {Null}]
    /\ sent \in [Ends -> Nat] /\ moved \in [Ends -> Nat] /\ closed \subseteq Ends

(***************************************************************************)
(* The whole machinery of routers, proxies, decaying links and sequence    *)
(* numbers implements a pair of portals (module PortalPair): parcels       *)
(* arrive in order and at most once however they were split over old and   *)
(* new links, and PEER_CLOSED and DEAD are raised truly, and never early.  *)
(***************************************************************************)
WithFlag(f) == {e \in Ends : portal[e] # Null /\ f \in routers[portal[e]].flags}

Pair == INSTANCE PortalPair WITH
    MayLoseLink <- \E sc \in Scenarios : sc.fragile # {},
    state <- [e \in Ends |-> IF e \in closed THEN "closed"
                             ELSE IF portal[e] = Null THEN "moving" ELSE "held"],
    told <- WithFlag("PEER_CLOSED"),
    dead <- WithFlag("DEAD"),
    lost <- \E p \in NodePairs : down[p] # "active"

ImplementsPortalPair == Pair!Spec

\* No assertion of the code fails and no router rejects a message as invalid:
\* the routers of one route never disagree about the state of a bypass, whatever
\* the order in which their threads run and their messages arrive.
NothingBroken == broken = {}

\* Nothing is in progress or in flight, and no lost NodeLink is still unnoticed.
Quiescent ==
    /\ \A t \in Threads : stack[t] = <<>>
    /\ \A p \in NodePairs : chan[p] = <<>> /\ down[p] = down[<<p[2], p[1]>>]

\* The two portals are directly linked by l, and could move again.
JoinedBy(l) ==
    /\ links[l].central /\ IsStable(links[l].status) /\ ~IsLocked(links[l].status)
    /\ \A e \in Ends :
           /\ portal[e] # Null
           /\ EdgeIsStable(routers[portal[e]].out)
           /\ LinksOf(routers[portal[e]]) \in {<<Ref(l, s)>> : s \in Sides}
    /\ {links[l].router.A, links[l].router.B} = {portal[X], portal[Y]}

\* No NodeLink was lost.
Intact == \A p \in NodePairs : down[p] = "active"

\* Every proxy is bypassed in the end.  Once nothing is in progress on a route
\* with both ends open and no NodeLink lost, its two portals share one stable,
\* unlocked central link, all other routers are free of links, and no parcel is
\* left in a proxy.
Reduced ==
    Quiescent /\ Intact /\ closed = {} =>
        /\ \E l \in DOMAIN links : JoinedBy(l)
        /\ \A i \in DOMAIN routers \ {portal[X], portal[Y]} : LinksOf(routers[i]) = <<>>
        /\ \A e \in Ends : CurrentLength(routers[portal[e]].inq) = sent[Other(e)]

\* Closure reaches the far end however many bypasses it overtakes on its way, and
\* frees the whole route: once nothing is in progress on a route with a closed
\* end, no router has a link, no sublink is bound, and an end still open has all
\* parcels and knows that its peer is closed.
TornDown ==
    Quiescent /\ Intact /\ closed # {} =>
        /\ \A i \in DOMAIN routers : LinksOf(routers[i]) = <<>>
        /\ \A l \in DOMAIN links : IsLocal(links[l]) \/ links[l].router = [s \in Sides |-> Null]
        /\ \A e \in Ends \ closed :
               /\ "PEER_CLOSED" \in routers[portal[e]].flags
               /\ CurrentLength(routers[portal[e]].inq) = sent[Other(e)]

\* Moves, bypasses, closures and their messages leave nothing behind on a route
\* that has come to rest, whether it is open or closed.
LeavesNothingBehind == Reduced /\ TornDown

\* Flushes, wakeups and bypasses do not go round in circles: whatever the
\* application starts comes to rest, with no assertion failed on the way and
\* with every proxy bypassed.
Settles == []<>(Quiescent /\ NothingBroken /\ Reduced)

\* Node loss is never silent (remote_portal_test.cc:407-409): when all is quiet
\* after a NodeLink was lost, either the route survived and its ends are directly
\* linked, or each portal still held has observed the closure of its peer.
LossIsObserved ==
    Quiescent => \/ \E l \in DOMAIN links : JoinedBy(l)
                 \/ \A e \in Ends : portal[e] # Null => "PEER_CLOSED" \in routers[portal[e]].flags
============================================================================
