------------------------------ MODULE Network ------------------------------
(***************************************************************************)
(* Nodes, the links between them and the connectors that create the links. *)
(*                                                                         *)
(* A driver transport has two ends.  An end that is active belongs to one  *)
(* thread, which delivers the end's messages, and at last its error, to    *)
(* the listener: a NodeConnector until its handshake is complete and a     *)
(* NodeLink afterwards.  A NodeLink is therefore named by its end.  Each   *)
(* call of the API runs on a thread of its own.  A thread has a stack of   *)
(* frames, one for each call that the code still has to make; a step is    *)
(* what the code does inside one critical section of a node or of a link,  *)
(* or one transmission.                                                    *)
(*                                                                         *)
(* Names: a node is named by its number.  The code draws a name for each   *)
(* connection of a non-broker, so scenarios connect a non-broker once.     *)
(***************************************************************************)
EXTENDS NodeMessages, Integers, Sequences, FiniteSets, Functions, TLC

CONSTANTS
  Nodes,          \* the nodes, numbered; the order of numbers is that of names
  Brokers,        \* the nodes created with IPCZ_CREATE_NODE_AS_BROKER
  MaxTransports,  \* bound on the pairs of transports ever created
  MaxCalls,       \* bound on the API calls of a scenario
  Scenarios       \* what the applications do; see MCNetwork

ASSUME NetworkAssumption ==
  /\ Nodes \subseteq Nat \ {0}
  /\ Brokers \subseteq Nodes
  /\ MaxTransports \in Nat
  /\ MaxCalls \in Nat

VARIABLES
  scenario,  \* the applications' calls, and what may go wrong meanwhile
  started,   \* calls of the API made so far
  io,        \* driver transports, by end
  link,      \* NodeLinks, by end
  node,      \* Nodes
  portal,    \* initial portals of each ConnectNode call
  result,    \* how often, and with what, each call's callback has been run
  stack,     \* frames of each thread
  used,      \* pairs of transports created
  seen       \* what happened: assertions that failed, objects lost or received

vars == <<scenario, started, io, link, node, portal, result, stack, used, seen>>

Ends == 1..2 * MaxTransports
Peer(e) == IF e % 2 = 1 THEN e + 1 ELSE e - 1
Calls == scenario.setup \o scenario.calls
CallIds == 1..Len(scenario.setup) + Len(scenario.calls)
Thread == Ends \cup {-c : c \in 1..MaxCalls}
IsBroker(n) == n \in Brokers
NoEnd == 0
EmptyMap == <<>>

\* States of an initial portal, besides the end of the link it is bound to.
Waiting == 0
PeerClosed == -1
Disconnected == -2

\* The node that connects the application's transport end e.
Owner(e) == (CHOOSE c \in {Calls[i] : i \in CallIds} :
               c.kind = "ConnectNode" /\ c.end = e).n

(***************************************************************************)
(* Driver transports.                                                      *)
(***************************************************************************)
Carried(queue) == UNION {queue[i].ends : i \in DOMAIN queue}

\* Closing an end destroys what is queued for it, and with a destroyed message
\* the transports that it carries.
RECURSIVE Doomed(_, _)
Doomed(i, S) ==
  LET more == UNION {Carried(i[e].queue) : e \in S} \ S
  IN IF more = {} THEN S ELSE Doomed(i, S \cup more)

CloseEnds(i, S) ==
  LET D == Doomed(i, S)
  IN [e \in Ends |-> IF e \in D THEN [i[e] EXCEPT !.closed = TRUE, !.queue = <<>>]
                                ELSE i[e]]

Post(i, e, m) ==
  IF i[e].closed \/ i[Peer(e)].closed \/ i[e].broken
  THEN CloseEnds(i, m.ends)
  ELSE [i EXCEPT ![Peer(e)].queue = Append(@, m)]

\* The same message to the peers of several ends.
RECURSIVE PostAll(_, _, _)
PostAll(i, S, m) ==
  IF S = {} THEN i
  ELSE LET e == CHOOSE x \in S : TRUE IN PostAll(Post(i, e, m), S \ {e}, m)

Listen(i, e, who) == [i EXCEPT ![e].listener = who]
Activated(i, e) == [i EXCEPT ![e].active = TRUE]

CanDeliver(e) == io[e].active /\ ~io[e].closed /\ ~io[e].told /\ stack[e] = <<>>
MessageReady(e) == CanDeliver(e) /\ io[e].queue # <<>>
ErrorReady(e) ==
  CanDeliver(e) /\ io[e].queue = <<>> /\ (io[Peer(e)].closed \/ io[e].broken)

(***************************************************************************)
(* Threads.                                                                *)
(***************************************************************************)
Top(t) == Head(stack[t])
At(t, op) == stack[t] # <<>> /\ Top(t).op = op

\* The frame on top of t's stack returns after it has made these calls.
Return(t, frames) == stack' = [stack EXCEPT ![t] = frames \o Tail(@)]

Quiet ==
  /\ \A t \in Thread : stack[t] = <<>>
  /\ \A e \in Ends : ~MessageReady(e) /\ ~ErrorReady(e)

Fail(assertion) == seen' = [seen EXCEPT !.failed = @ \cup {assertion}]
Asserts(condition, assertion) ==
  IF condition THEN UNCHANGED seen ELSE Fail(assertion)

(***************************************************************************)
(* NodeLink.                                                               *)
(***************************************************************************)
NewLink(n, side, remote, rtype, state) ==
  [n |-> n, side |-> side, remote |-> remote, rtype |-> rtype, state |-> state,
   sublinks |-> {}, referrals |-> EmptyMap, next_referral |-> 1,
   memory_requests |-> EmptyMap]

CreateActive(e, n, side, remote, rtype) ==
  link' = [link EXCEPT ![e] = NewLink(n, side, remote, rtype, "active")]

CreateInactive(e, n, side, remote, rtype) ==
  link' = [link EXCEPT ![e] = NewLink(n, side, remote, rtype, "never")]

TypeOf(n) == IF IsBroker(n) THEN "broker" ELSE "normal"

\* NodeLink::Activate
Activate(t) ==
  /\ At(t, "Activate")
  /\ LET e == Top(t).e IN
     /\ Asserts(link[e].state = "never", "activated once")
     /\ link' = [link EXCEPT ![e].state = "active"]
     /\ io' = Activated(Listen(io, e, "link"), e)
  /\ Return(t, <<>>)
  /\ UNCHANGED <<scenario, started, node, portal, result, used>>

\* NodeLink::Deactivate up to HandleTransportError
Deactivate(t) ==
  /\ At(t, "Deactivate")
  /\ LET e == Top(t).e IN
     \/ /\ link[e].state # "active"
        /\ Return(t, <<>>)
        /\ UNCHANGED link
     \/ /\ link[e].state = "active"
        /\ link' = [link EXCEPT ![e].state = "deactivated"]
        /\ Return(t, <<[op |-> "HandleTransportError", e |-> e],
                       [op |-> "StopTransport", e |-> e]>>)
  /\ UNCHANGED <<scenario, started, io, node, portal, result, used, seen>>

\* NodeLink::HandleTransportError.  The routers bound to the link's sublinks
\* are told of its loss before the node drops the connection.
HandleTransportError(t) ==
  /\ At(t, "HandleTransportError")
  /\ LET e == Top(t).e IN
     /\ link' = [link EXCEPT ![e].sublinks = {}]
     /\ portal' = [c \in DOMAIN portal |-> [i \in DOMAIN portal[c] |->
                     IF <<c, i>> \in link[e].sublinks
                     THEN Disconnected ELSE portal[c][i]]]
     /\ Return(t, <<[op |-> "DropConnection", n |-> link[e].n, e |-> e]>>)
  /\ UNCHANGED <<scenario, started, io, node, result, used, seen>>

\* DriverTransport::Deactivate.  The driver stops delivery, and waits for the
\* transport's thread unless it is the calling one.
StopTransport(t) ==
  /\ At(t, "StopTransport")
  /\ LET e == Top(t).e IN
     /\ io' = CloseEnds(io, {e})
     /\ Return(t, IF t = e THEN <<>> ELSE <<[op |-> "JoinThread", e |-> e]>>)
  /\ UNCHANGED <<scenario, started, link, node, portal, result, used, seen>>

JoinThread(t) ==
  /\ At(t, "JoinThread")
  /\ stack[Top(t).e] = <<>>
  /\ Return(t, <<>>)
  /\ UNCHANGED <<scenario, started, io, link, node, portal, result, used, seen>>

LinkSteps(t) ==
  \/ Activate(t)
  \/ Deactivate(t)
  \/ HandleTransportError(t)
  \/ StopTransport(t)
  \/ JoinThread(t)

(***************************************************************************)
(* Node: connections.                                                      *)
(***************************************************************************)
Known(n, name) == name \in DOMAIN node[n].connections
LinkTo(n, name) == IF Known(n, name) THEN node[n].connections[name].link ELSE NoEnd

\* Node::AddConnection.  An earlier connection to the same node is dropped
\* outside of the lock, and the lookup is repeated.
AddConnection(t) ==
  /\ At(t, "AddConnection")
  /\ LET f == Top(t)
         n == f.n
         e == f.e
         name == link[e].remote
         remote_is_broker == link[e].rtype = "broker"
         added == (name :> [link |-> e, broker |-> f.broker]) @@ node[n].connections
     IN
     \/ /\ Known(n, name)
        /\ stack' = [stack EXCEPT ![t] =
             <<[op |-> "DropConnection", n |-> n, e |-> LinkTo(n, name)]>> \o @]
        /\ UNCHANGED <<node, seen>>
     \/ /\ ~Known(n, name) /\ IsBroker(n)
        /\ node' = [node EXCEPT ![n].connections = added,
                                ![n].other_brokers =
                                  IF remote_is_broker THEN @ \cup {e} ELSE @]
        /\ Return(t, <<>>)
        /\ UNCHANGED seen
     \/ /\ ~Known(n, name) /\ ~IsBroker(n) /\ ~remote_is_broker
        /\ node' = [node EXCEPT ![n].connections = added]
        /\ Return(t, <<>>)
        /\ UNCHANGED seen
     \/ /\ ~Known(n, name) /\ ~IsBroker(n) /\ remote_is_broker
        /\ Asserts(Cardinality(DOMAIN added) = 1 /\ node[n].broker_link = NoEnd,
                   "first connection is the broker")
        /\ node' = [node EXCEPT ![n].connections = added,
                                ![n].broker_link = e,
                                ![n].broker_link_callbacks = <<>>]
        /\ Return(t, [i \in DOMAIN node[n].broker_link_callbacks |->
                        [op |-> "Refer", e |-> e,
                         call |-> node[n].broker_link_callbacks[i]]])
  /\ UNCHANGED <<scenario, started, io, link, portal, result, used>>

\* Node::DropConnection
DropConnection(t) ==
  /\ At(t, "DropConnection")
  /\ LET n == Top(t).n
         e == Top(t).e
         targets == DOMAIN node[n].pending
     IN
     \/ /\ LinkTo(n, link[e].remote) # e
        /\ Return(t, <<>>)
        /\ UNCHANGED node
     \/ /\ LinkTo(n, link[e].remote) = e
        /\ node' = [node EXCEPT
             ![n].connections = Restrict(@, DOMAIN @ \ {link[e].remote}),
             ![n].broker_link = IF @ = e THEN NoEnd ELSE @,
             ![n].other_brokers = @ \ {e},
             ![n].delegate = IF @ = e THEN NoEnd ELSE @]
        /\ Return(t, <<[op |-> "Deactivate", e |-> e]>> \o
             (IF node[n].broker_link = e
              THEN <<[op |-> "ShutDown", n |-> n]>>
              ELSE <<[op |-> "FailAll", n |-> n, from |-> e, names |-> targets]>>))
  /\ UNCHANGED <<scenario, started, io, link, portal, result, used, seen>>

\* Node::ShutDown up to CancelAllIntroductions, and Node::Close
ShutDown(t) ==
  /\ At(t, "ShutDown")
  /\ LET n == Top(t).n IN
     /\ node' = [node EXCEPT ![n].connections = EmptyMap,
                             ![n].broker_link = NoEnd,
                             ![n].delegate = NoEnd,
                             ![n].other_brokers = {}]
     /\ Return(t, <<[op |-> "DeactivateAll", n |-> n,
                     ends |-> {node[n].connections[m].link :
                               m \in DOMAIN node[n].connections}]>>)
  /\ UNCHANGED <<scenario, started, io, link, portal, result, used, seen>>

\* The loop of Node::ShutDown over the links, in no particular order
DeactivateAll(t) ==
  /\ At(t, "DeactivateAll")
  /\ LET f == Top(t) IN
     \/ /\ f.ends = {}
        /\ Return(t, <<[op |-> "CancelAllIntroductions", n |-> f.n]>>)
     \/ \E e \in f.ends :
          Return(t, <<[op |-> "Deactivate", e |-> e],
                      [f EXCEPT !.ends = @ \ {e}]>>)
  /\ UNCHANGED <<scenario, started, io, link, node, portal, result, used, seen>>

\* PendingIntroduction::Finish
Finish(n, name, intro, e) ==
  [i \in DOMAIN intro.callbacks |->
     [op |-> "Callback", n |-> n, name |-> name, link |-> e,
      cb |-> intro.callbacks[i]]]

RECURSIVE FinishAll(_, _, _)
FinishAll(n, pending, names) ==
  IF names = {} THEN <<>>
  ELSE LET name == CHOOSE x \in names : TRUE
       IN Finish(n, name, pending[name], NoEnd)
            \o FinishAll(n, pending, names \ {name})

\* Node::CancelAllIntroductions
CancelAllIntroductions(t) ==
  /\ At(t, "CancelAllIntroductions")
  /\ LET n == Top(t).n IN
     /\ node' = [node EXCEPT ![n].pending = EmptyMap]
     /\ Return(t, FinishAll(n, node[n].pending, DOMAIN node[n].pending))
  /\ UNCHANGED <<scenario, started, io, link, portal, result, used, seen>>

\* The loop of Node::DropConnection over the introductions pending at the time
FailAll(t) ==
  /\ At(t, "FailAll")
  /\ LET f == Top(t) IN
     \/ /\ f.names = {}
        /\ Return(t, <<>>)
     \/ \E name \in f.names :
          Return(t, <<[op |-> "NotifyIntroductionFailed", n |-> f.n,
                       from |-> f.from, name |-> name],
                      [f EXCEPT !.names = @ \ {name}]>>)
  /\ UNCHANGED <<scenario, started, io, link, node, portal, result, used, seen>>

\* Mutant: the last broker's refusal does not end the introduction.
NotifyIntroductionFailedUnnoticed(t) ==
  /\ At(t, "NotifyIntroductionFailed")
  /\ Return(t, <<>>)
  /\ UNCHANGED <<scenario, started, io, link, node, portal, result, used, seen>>

\* Node::NotifyIntroductionFailed
NotifyIntroductionFailed(t) ==
  /\ At(t, "NotifyIntroductionFailed")
  /\ LET f == Top(t)
         n == f.n
         pending == node[n].pending
         left == pending[f.name].replies \ {link[f.from].remote}
     IN
     \/ /\ f.name \notin DOMAIN pending
        /\ Return(t, <<>>)
        /\ UNCHANGED node
     \/ /\ f.name \in DOMAIN pending /\ left # {}
        /\ node' = [node EXCEPT ![n].pending[f.name].replies = left]
        /\ Return(t, <<>>)
     \/ /\ f.name \in DOMAIN pending /\ left = {}
        /\ node' = [node EXCEPT ![n].pending = Restrict(@, DOMAIN @ \ {f.name})]
        /\ Return(t, Finish(n, f.name, pending[f.name], NoEnd))
  /\ UNCHANGED <<scenario, started, io, link, portal, result, used, seen>>

ConnectionSteps(t) ==
  \/ AddConnection(t)
  \/ DropConnection(t)
  \/ ShutDown(t)
  \/ DeactivateAll(t)
  \/ CancelAllIntroductions(t)
  \/ FailAll(t)
  \/ NotifyIntroductionFailed(t)

(***************************************************************************)
(* Node: introductions.                                                    *)
(***************************************************************************)
\* The links that EstablishLink asks for an introduction
BrokersToQuery(n) ==
  IF ~IsBroker(n) /\ node[n].broker_link # NoEnd
  THEN {node[n].broker_link} ELSE node[n].other_brokers

\* Node::EstablishLink, the critical section
EstablishLink(t) ==
  /\ At(t, "EstablishLink")
  /\ LET f == Top(t)
         n == f.n
         brokers == BrokersToQuery(n)
     IN
     \/ /\ Known(n, f.name) \/ brokers = {}
        /\ Return(t, <<[op |-> "Callback", n |-> n, name |-> f.name,
                        link |-> LinkTo(n, f.name), cb |-> f.cb]>>)
        /\ UNCHANGED node
     \/ /\ ~Known(n, f.name) /\ brokers # {} /\ f.name \in DOMAIN node[n].pending
        /\ node' = [node EXCEPT ![n].pending[f.name].callbacks = Append(@, f.cb)]
        /\ Return(t, <<>>)
     \/ /\ ~Known(n, f.name) /\ brokers # {} /\ f.name \notin DOMAIN node[n].pending
        /\ node' = [node EXCEPT ![n].pending =
             (f.name :> [replies |-> {link[e].remote : e \in brokers},
                         callbacks |-> <<f.cb>>]) @@ @]
        /\ Return(t, <<[op |-> "QueryBrokers", ends |-> brokers,
                        name |-> f.name]>>)
  /\ UNCHANGED <<scenario, started, io, link, portal, result, used, seen>>

\* Node::EstablishLink after the unlock: NodeLink::RequestIntroduction
QueryBrokers(t) ==
  /\ At(t, "QueryBrokers")
  /\ io' = PostAll(io, Top(t).ends, RequestIntroduction(Top(t).name))
  /\ Return(t, <<>>)
  /\ UNCHANGED <<scenario, started, link, node, portal, result, used, seen>>

\* Mutant: the request goes to the target's broker from either side.
HandleIntroductionRequestAnySide(t) ==
  /\ At(t, "HandleIntroductionRequest")
  /\ LET f == Top(t)
         target == node[f.n].connections[f.name]
     IN
     \/ /\ ~Known(f.n, f.name)
        /\ Return(t, <<[op |-> "EstablishLink", n |-> f.n, name |-> f.name,
                        cb |-> [kind |-> "request", e |-> f.e]]>>)
        /\ UNCHANGED io
     \/ /\ Known(f.n, f.name) /\ (link[f.e].rtype = "broker" \/ target.broker = NoEnd)
        /\ Return(t, <<[op |-> "IntroduceRemoteNodes", n |-> f.n,
                        first |-> f.e, second |-> target.link]>>)
        /\ UNCHANGED io
     \/ /\ Known(f.n, f.name) /\ link[f.e].rtype # "broker" /\ target.broker # NoEnd
        /\ io' = Post(io, target.broker,
                      RequestIndirectIntroduction(link[f.e].remote, f.name))
        /\ Return(t, <<>>)
  /\ UNCHANGED <<scenario, started, link, node, portal, result, used, seen>>

\* Node::HandleIntroductionRequest.  There is no answer to a broker that asks
\* for an introduction to a broker.
HandleIntroductionRequest(t) ==
  /\ At(t, "HandleIntroductionRequest")
  /\ LET f == Top(t)
         n == f.n
         target == node[n].connections[f.name]
         target_is_broker == target.link = target.broker
         requestor_is_broker == link[f.e].rtype = "broker"
         ours ==
           \/ target_is_broker
           \/ requestor_is_broker
           \/ target.broker = NoEnd
           \/ target.broker # NoEnd /\ link[target.broker].side = "A"
     IN
     \/ /\ ~Known(n, f.name)
        /\ Return(t, <<[op |-> "EstablishLink", n |-> n, name |-> f.name,
                        cb |-> [kind |-> "request", e |-> f.e]]>>)
        /\ UNCHANGED io
     \/ /\ Known(n, f.name) /\ requestor_is_broker /\ target_is_broker
        /\ Return(t, <<>>)
        /\ UNCHANGED io
     \/ /\ Known(n, f.name) /\ ~(requestor_is_broker /\ target_is_broker) /\ ours
        /\ Return(t, <<[op |-> "IntroduceRemoteNodes", n |-> n,
                        first |-> f.e, second |-> target.link]>>)
        /\ UNCHANGED io
     \/ /\ Known(n, f.name) /\ ~ours
        /\ io' = Post(io, target.broker,
                      RequestIndirectIntroduction(link[f.e].remote, f.name))
        /\ Return(t, <<>>)
  /\ UNCHANGED <<scenario, started, link, node, portal, result, used, seen>>

\* Node::HandleIndirectIntroductionRequest: the node of the other network is
\* looked up first, and the connection found is used after our own node is.
HandleIndirectIntroductionRequest(t) ==
  /\ At(t, "HandleIndirectIntroductionRequest")
  /\ LET f == Top(t) IN
     Return(t, IF Known(f.n, f.theirs)
               THEN <<[op |-> "IntroduceOurNode", n |-> f.n, ours |-> f.ours,
                       second |-> LinkTo(f.n, f.theirs)]>>
               ELSE <<[op |-> "EstablishLink", n |-> f.n, name |-> f.theirs,
                       cb |-> [kind |-> "indirect", ours |-> f.ours]]>>)
  /\ UNCHANGED <<scenario, started, io, link, node, portal, result, used, seen>>

IntroduceOurNode(t) ==
  /\ At(t, "IntroduceOurNode")
  /\ LET f == Top(t) IN
     IF Known(f.n, f.ours)
     THEN /\ Return(t, <<[op |-> "IntroduceRemoteNodes", n |-> f.n,
                          first |-> LinkTo(f.n, f.ours), second |-> f.second]>>)
          /\ UNCHANGED io
     ELSE /\ io' = Post(io, f.second, RejectIntroduction(f.ours))
          /\ Return(t, <<>>)
  /\ UNCHANGED <<scenario, started, link, node, portal, result, used, seen>>

\* Mutant: an introduction of the same nodes may be in progress.
IntroduceRemoteNodesAlways(t) ==
  /\ At(t, "IntroduceRemoteNodes")
  /\ Return(t, <<[Top(t) EXCEPT !.op = "IntroduceFirst"]>>)
  /\ UNCHANGED <<scenario, started, io, link, node, portal, result, used, seen>>

\* Node::IntroduceRemoteNodes, in the order of its effects: the key is taken,
\* a pair of transports is created and its ends are sent to the two nodes, and
\* the key is given back.
IntroduceRemoteNodes(t) ==
  /\ At(t, "IntroduceRemoteNodes")
  /\ LET f == Top(t)
         key == {link[f.first].remote, link[f.second].remote}
     IN
     \/ /\ key \in node[f.n].in_progress
        /\ Return(t, <<>>)
        /\ UNCHANGED node
     \/ /\ key \notin node[f.n].in_progress
        /\ node' = [node EXCEPT ![f.n].in_progress = @ \cup {key}]
        /\ Return(t, <<[f EXCEPT !.op = "IntroduceFirst"]>>)
  /\ UNCHANGED <<scenario, started, io, link, portal, result, used, seen>>

\* Mutant: the node that did not ask is the first to be told.
IntroduceFirstLast(t) ==
  /\ At(t, "IntroduceFirst")
  /\ used < MaxTransports
  /\ used' = used + 1
  /\ LET f == Top(t) IN
     /\ io' = Post(io, f.second,
                   AcceptIntroduction(link[f.first].remote, "A",
                                      link[f.first].rtype, 2 * used + 1))
     /\ Return(t, <<[op |-> "IntroduceSecond", n |-> f.n, first |-> f.second,
                     second |-> f.first, end |-> 2 * used + 2]>>)
  /\ UNCHANGED <<scenario, started, link, node, portal, result, seen>>

IntroduceFirst(t) ==
  /\ At(t, "IntroduceFirst")
  /\ used < MaxTransports
  /\ used' = used + 1
  /\ LET f == Top(t) IN
     /\ io' = Post(io, f.first,
                   AcceptIntroduction(link[f.second].remote, "A",
                                      link[f.second].rtype, 2 * used + 1))
     /\ Return(t, <<[op |-> "IntroduceSecond", n |-> f.n, first |-> f.first,
                     second |-> f.second, end |-> 2 * used + 2]>>)
  /\ UNCHANGED <<scenario, started, link, node, portal, result, seen>>

IntroduceSecond(t) ==
  /\ At(t, "IntroduceSecond")
  /\ LET f == Top(t) IN
     /\ io' = Post(io, f.second,
                   AcceptIntroduction(link[f.first].remote, "B",
                                      link[f.first].rtype, f.end))
     /\ Return(t, <<[f EXCEPT !.op = "IntroduceDone"]>>)
  /\ UNCHANGED <<scenario, started, link, node, portal, result, used, seen>>

IntroduceDone(t) ==
  /\ At(t, "IntroduceDone")
  /\ LET f == Top(t) IN
     node' = [node EXCEPT ![f.n].in_progress =
                @ \ {{link[f.first].remote, link[f.second].remote}}]
  /\ Return(t, <<>>)
  /\ UNCHANGED <<scenario, started, io, link, portal, result, used, seen>>

\* Node::AcceptIntroduction.  A link that is not kept is destroyed, and its
\* transport with it.
HandleAcceptIntroduction(t) ==
  /\ At(t, "AcceptIntroduction")
  /\ LET f == Top(t)
         n == f.n
         m == f.m
         x == m.transport
         pending == node[n].pending
         ignored == (~IsBroker(n) /\ node[n].broker_link = NoEnd) \/ Known(n, m.name)
     IN
     \/ /\ ignored
        /\ io' = CloseEnds(io, {x})
        /\ Return(t, <<>>)
        /\ UNCHANGED <<link, node>>
     \/ /\ ~ignored
        /\ CreateInactive(x, n, m.link_side, m.name, m.remote_node_type)
        /\ node' = [node EXCEPT
             ![n].connections = (m.name :> [link |-> x, broker |-> f.e]) @@ @,
             ![n].pending = Restrict(@, DOMAIN @ \ {m.name})]
        /\ Return(t, <<[op |-> "Activate", e |-> x]>> \o
             (IF m.name \in DOMAIN pending
              THEN Finish(n, m.name, pending[m.name], x) ELSE <<>>))
        /\ UNCHANGED io
  /\ UNCHANGED <<scenario, started, portal, result, used, seen>>

\* The callbacks given to EstablishLink: the application's, that of
\* HandleIntroductionRequest and that of HandleIndirectIntroductionRequest.
Callback(t) ==
  /\ At(t, "Callback")
  /\ LET f == Top(t)
         cb == f.cb
     IN
     \/ /\ cb.kind = "api"
        /\ result' = [result EXCEPT ![cb.call] =
             Append(@, IF f.link = NoEnd THEN "failed" ELSE "linked")]
        /\ Return(t, IF f.link # NoEnd /\ scenario.relay
                     THEN <<[op |-> "SendObjects", e |-> f.link]>> ELSE <<>>)
        /\ UNCHANGED io
     \/ /\ cb.kind = "request" /\ f.link = NoEnd
        /\ io' = Post(io, cb.e, RejectIntroduction(f.name))
        /\ Return(t, <<>>)
        /\ UNCHANGED result
     \/ /\ cb.kind = "request" /\ f.link # NoEnd
        /\ Return(t, <<[op |-> "HandleIntroductionRequest", n |-> f.n,
                        e |-> cb.e, name |-> f.name]>>)
        /\ UNCHANGED <<io, result>>
     \/ /\ cb.kind = "indirect" /\ f.link = NoEnd
        /\ io' = IF Known(f.n, cb.ours)
                 THEN Post(io, LinkTo(f.n, cb.ours), RejectIntroduction(f.name))
                 ELSE io
        /\ Return(t, <<>>)
        /\ UNCHANGED result
     \/ /\ cb.kind = "indirect" /\ f.link # NoEnd
        /\ Return(t, <<[op |-> "HandleIndirectIntroductionRequest", n |-> f.n,
                        ours |-> cb.ours, theirs |-> f.name]>>)
        /\ UNCHANGED <<io, result>>
  /\ UNCHANGED <<scenario, started, link, node, portal, used, seen>>

IntroductionSteps(t) ==
  \/ EstablishLink(t)
  \/ QueryBrokers(t)
  \/ HandleIntroductionRequest(t)
  \/ HandleIndirectIntroductionRequest(t)
  \/ IntroduceOurNode(t)
  \/ IntroduceRemoteNodes(t)
  \/ IntroduceFirst(t)
  \/ IntroduceSecond(t)
  \/ IntroduceDone(t)
  \/ HandleAcceptIntroduction(t)
  \/ Callback(t)

(***************************************************************************)
(* Relayed messages and delegated allocation.                              *)
(***************************************************************************)
Lose(object) == seen' = [seen EXCEPT !.lost = @ \cup {object}]
Receive(object) == seen' = [seen EXCEPT !.received = @ \cup {object}]

\* NodeLink::Transmit of a message with driver objects.  The driver does not
\* carry them between two nodes that are not brokers: they go by the broker.
SendObjects(t) ==
  /\ At(t, "SendObjects")
  /\ LET e == Top(t).e
         n == link[e].n
         broker == node[n].broker_link
         object == <<n, link[e].remote>>
     IN
     \/ /\ IsBroker(n) \/ link[e].rtype = "broker"
        /\ io' = Post(io, e, DriverObjects(object))
        /\ UNCHANGED seen
     \/ /\ ~IsBroker(n) /\ link[e].rtype # "broker" /\ broker = NoEnd
        /\ Lose(object)
        /\ UNCHANGED io
     \/ /\ ~IsBroker(n) /\ link[e].rtype # "broker" /\ broker # NoEnd
        /\ io' = Post(io, broker, RelayMessage(link[e].remote, DriverObjects(object)))
        /\ UNCHANGED seen
  /\ Return(t, <<>>)
  /\ UNCHANGED <<scenario, started, link, node, portal, result, used>>

\* NodeLink::Transmit, after the critical section that prepared the message
Transmit(t) ==
  /\ At(t, "Transmit")
  /\ io' = Post(io, Top(t).e, Top(t).m)
  /\ Return(t, <<>>)
  /\ UNCHANGED <<scenario, started, link, node, portal, result, used, seen>>

\* Node::AllocateSharedMemory
AllocateSharedMemory(t) ==
  /\ At(t, "AllocateSharedMemory")
  /\ LET f == Top(t)
         e == node[f.n].delegate
     IN
     \/ /\ e = NoEnd
        /\ result' = [result EXCEPT ![f.call] = Append(@, "allocated")]
        /\ Return(t, <<>>)
     \/ /\ e # NoEnd
        /\ Return(t, <<[op |-> "AskForMemory", e |-> e, size |-> f.size, call |-> f.call]>>)
        /\ UNCHANGED result
  /\ UNCHANGED <<scenario, started, io, link, node, portal, used, seen>>

\* NodeLink::RequestMemory, the critical section
AskForMemory(t) ==
  /\ At(t, "AskForMemory")
  /\ LET f == Top(t) IN
     /\ link' = [link EXCEPT ![f.e].memory_requests =
          (f.size :> Append(IF f.size \in DOMAIN @ THEN @[f.size] ELSE <<>>,
                            f.call)) @@ @]
     /\ Return(t, <<[op |-> "Transmit", e |-> f.e, m |-> RequestMemory(f.size)]>>)
  /\ UNCHANGED <<scenario, started, io, node, portal, result, used, seen>>

MessagingSteps(t) ==
  \/ SendObjects(t)
  \/ Transmit(t)
  \/ AllocateSharedMemory(t)
  \/ AskForMemory(t)

(***************************************************************************)
(* NodeConnector.                                                          *)
(***************************************************************************)
ConnectorKind(n, flags) ==
  CASE IsBroker(n) /\ "to_broker" \in flags -> "BrokerToBroker"
    [] IsBroker(n) /\ "to_broker" \notin flags -> "BrokerToNonBroker"
    [] ~IsBroker(n) /\ "to_broker" \in flags -> "NonBrokerToBroker"
    [] ~IsBroker(n) /\ "to_broker" \notin flags /\ "share" \in flags -> "Referrer"
    [] ~IsBroker(n) /\ "to_broker" \notin flags /\ "share" \notin flags
         /\ "inherit" \in flags -> "ReferredNonBroker"
    [] OTHER -> "invalid"

FlagsConflict(n, flags) ==
  LET to_or_from_broker == IsBroker(n) \/ "to_broker" \in flags
  IN \/ "share" \in flags /\ (to_or_from_broker \/ "inherit" \in flags)
     \/ to_or_from_broker /\ ("inherit" \in flags \/ "share" \in flags)

NewConnector(kind, n, call, flags) ==
  [kind |-> kind, n |-> n, call |-> call, flags |-> flags,
   referral_id |-> 0, num_initial_portals |-> 0, referrer |-> NoEnd]

\* NodeConnector::ConnectNode, up to and with ActivateTransport
ConnectNode(t) ==
  /\ At(t, "ConnectNode")
  /\ LET c == Top(t).call
         call == Calls[c]
         n == call.n
         kind == ConnectorKind(n, call.flags)
         broker == node[n].broker_link
     IN
     \/ /\ FlagsConflict(n, call.flags) \/ kind = "invalid"
        /\ result' = [result EXCEPT ![c] = Append(@, "invalid")]
        /\ Return(t, <<>>)
        /\ UNCHANGED <<io, portal>>
     \/ /\ ~FlagsConflict(n, call.flags) /\ kind = "Referrer"
        /\ portal' = [portal EXCEPT ![c] = [i \in 1..call.portals |-> Waiting]]
        /\ Return(t, IF broker = NoEnd
                     THEN <<[op |-> "WaitForBrokerLinkAsync", n |-> n, call |-> c]>>
                     ELSE <<[op |-> "Refer", e |-> broker, call |-> c]>>)
        /\ UNCHANGED <<io, result>>
     \/ /\ ~FlagsConflict(n, call.flags) /\ kind \notin {"Referrer", "invalid"}
        /\ portal' = [portal EXCEPT ![c] = [i \in 1..call.portals |-> Waiting]]
        /\ io' = [Activated(Listen(io, call.end, "connector"), call.end)
                    EXCEPT ![call.end].connector =
                             NewConnector(kind, n, c, call.flags)]
        /\ Return(t, <<[op |-> "Connect", e |-> call.end]>>)
        /\ UNCHANGED result
  /\ UNCHANGED <<scenario, started, link, node, used, seen>>

\* Connect() of the connectors that open with a message of their own
Greeting(e) ==
  LET c == io[e].connector
      portals == Calls[c.call].portals
  IN CASE c.kind = "BrokerToNonBroker" ->
            ConnectFromBrokerToNonBroker(c.n, Owner(Peer(e)), portals)
       [] c.kind = "NonBrokerToBroker" -> ConnectFromNonBrokerToBroker(portals)
       [] c.kind = "ReferredNonBroker" -> ConnectToReferredBroker(portals)
       [] c.kind = "BrokerToBroker" -> ConnectFromBrokerToBroker(c.n, portals)

\* Neither driver ever fails to activate a transport or to take a message, so
\* the failures of ActivateTransport() and Connect() in ConnectNode() do not occur.
Connect(t) ==
  /\ At(t, "Connect")
  /\ io' = Post(io, Top(t).e, Greeting(Top(t).e))
  /\ Return(t, <<>>)
  /\ UNCHANGED <<scenario, started, link, node, portal, result, used, seen>>

\* Node::WaitForBrokerLinkAsync, for NodeConnectorForReferrer::Connect
WaitForBrokerLinkAsync(t) ==
  /\ At(t, "WaitForBrokerLinkAsync")
  /\ LET n == Top(t).n
         c == Top(t).call
         broker == node[n].broker_link
     IN
     \/ /\ broker = NoEnd
        /\ node' = [node EXCEPT ![n].broker_link_callbacks = Append(@, c)]
        /\ Return(t, <<>>)
     \/ /\ broker # NoEnd
        /\ Return(t, <<[op |-> "Refer", e |-> broker, call |-> c]>>)
        /\ UNCHANGED node
  /\ UNCHANGED <<scenario, started, io, link, portal, result, used, seen>>

\* NodeLink::ReferNonBroker, for NodeConnectorForReferrer::Connect
Refer(t) ==
  /\ At(t, "Refer")
  /\ LET e == Top(t).e
         c == Top(t).call
         id == link[e].next_referral
     IN
     /\ link' = [link EXCEPT ![e].next_referral = id + 1,
                             ![e].referrals = (id :> c) @@ @]
     /\ Return(t, <<[op |-> "Transmit", e |-> e,
                     m |-> ReferNonBroker(id, Calls[c].portals, Calls[c].end)]>>)
  /\ UNCHANGED <<scenario, started, io, node, portal, result, used, seen>>

\* The rest of OnConnectToReferredBroker at the broker: an answer to the
\* referred node, and only then one to the referrer.
ReplyToReferred(t) ==
  /\ At(t, "ReplyToReferred")
  /\ used < MaxTransports
  /\ used' = used + 1
  /\ LET f == Top(t)
         c == io[f.e].connector
     IN
     /\ io' = Post(io, f.e, ConnectToReferredNonBroker(
                link[f.e].remote, c.n, link[c.referrer].remote,
                c.num_initial_portals, 2 * used + 2))
     /\ Return(t, <<[op |-> "ReplyToReferrer", e |-> f.e, portals |-> f.portals,
                     end |-> 2 * used + 1]>>)
  /\ UNCHANGED <<scenario, started, link, node, portal, result, seen>>

ReplyToReferrer(t) ==
  /\ At(t, "ReplyToReferrer")
  /\ LET f == Top(t)
         c == io[f.e].connector
     IN io' = Post(io, c.referrer, NonBrokerReferralAccepted(
                c.referral_id, f.portals, link[f.e].remote, f.end))
  /\ Return(t, <<>>)
  /\ UNCHANGED <<scenario, started, link, node, portal, result, used, seen>>

\* NodeConnector::EstablishWaitingRouters: the portals that both sides have
\* are bound to the link, and the surplus ones see their peer closed.  What an
\* application has put into a portal by then is sent at once.
EstablishWaitingRouters(t) ==
  /\ At(t, "EstablishWaitingRouters")
  /\ LET f == Top(t)
         e == f.e
         valid == {i \in DOMAIN portal[f.call] : i <= f.portals}
         alive == e # NoEnd /\ link[e].state # "deactivated"
     IN
     /\ portal' = [portal EXCEPT ![f.call] = [i \in DOMAIN @ |->
          CASE i \notin valid -> PeerClosed
            [] i \in valid /\ alive -> e
            [] i \in valid /\ ~alive -> Disconnected]]
     /\ link' = IF alive
                THEN [link EXCEPT ![e].sublinks = @ \cup ({f.call} \X valid)]
                ELSE link
     /\ Return(t, IF alive /\ valid # {} /\ scenario.relay
                  THEN <<[op |-> "SendObjects", e |-> e]>> ELSE <<>>)
  /\ UNCHANGED <<scenario, started, io, node, result, used, seen>>

\* OnTransportError of a connector: RejectConnection, and at a broker that
\* waits for a referred node also a message to the referrer.
RejectConnection(t) ==
  /\ At(t, "RejectConnection")
  /\ LET e == Top(t).e
         c == io[e].connector
         stop == [op |-> "StopTransport", e |-> e]
     IN
     \/ /\ c.kind = "BrokerReferral"
        /\ io' = Post(io, c.referrer, NonBrokerReferralRejected(c.referral_id))
        /\ Return(t, <<stop>>)
     \/ /\ c.kind # "BrokerReferral"
        /\ Return(t, <<[op |-> "EstablishWaitingRouters", call |-> c.call,
                        e |-> NoEnd, portals |-> 0], stop>>)
        /\ UNCHANGED io
  /\ UNCHANGED <<scenario, started, link, node, portal, result, used, seen>>

ConnectorSteps(t) ==
  \/ ConnectNode(t)
  \/ Connect(t)
  \/ WaitForBrokerLinkAsync(t)
  \/ Refer(t)
  \/ ReplyToReferred(t)
  \/ ReplyToReferrer(t)
  \/ EstablishWaitingRouters(t)
  \/ RejectConnection(t)

(***************************************************************************)
(* Delivery.  Each handler below takes the end e, the message m and the    *)
(* transports i once m is taken from e's queue.                            *)
(***************************************************************************)
Call(e, frames) == stack' = [stack EXCEPT ![e] = frames]

\* NodeConnector::AcceptConnection
AcceptConnection(n, e, broker, call, portals) ==
  <<[op |-> "AddConnection", n |-> n, e |-> e, broker |-> broker],
    [op |-> "EstablishWaitingRouters", call |-> call, e |-> e, portals |-> portals]>>

\* What the driver does when the listener's handler returns false, and when
\* the transport fails: OnTransportError.
TransportError(e, i) ==
  /\ io' = [i EXCEPT ![e].told = TRUE]
  /\ Call(e, <<[op |-> IF i[e].listener = "link" THEN "HandleTransportError"
                                                 ELSE "RejectConnection",
                e |-> e]>>)

ConnectorExpects(kind) ==
  CASE kind = "BrokerToNonBroker" -> "ConnectFromNonBrokerToBroker"
    [] kind = "NonBrokerToBroker" -> "ConnectFromBrokerToNonBroker"
    [] kind = "ReferredNonBroker" -> "ConnectToReferredNonBroker"
    [] kind = "BrokerReferral" -> "ConnectToReferredBroker"
    [] kind = "BrokerToBroker" -> "ConnectFromBrokerToBroker"

SetAllocationDelegate(c, e) ==
  node' = IF "delegate" \in c.flags
          THEN [node EXCEPT ![c.n].delegate = e] ELSE node

\* OnConnectFromNonBrokerToBroker, OnConnectFromBrokerToNonBroker and
\* OnConnectFromBrokerToBroker: the link takes the transport over.
AcceptDirectConnection(e, m, i) ==
  LET c == i[e].connector
      remote == CASE c.kind = "BrokerToNonBroker" -> Owner(Peer(e))
                  [] c.kind = "NonBrokerToBroker" -> m.broker_name
                  [] c.kind = "BrokerToBroker" -> m.name
      side == CASE c.kind = "BrokerToNonBroker" -> "A"
                [] c.kind = "NonBrokerToBroker" -> "B"
                [] c.kind = "BrokerToBroker" -> IF remote < c.n THEN "A" ELSE "B"
      rtype == IF c.kind = "BrokerToNonBroker" THEN "normal" ELSE "broker"
      broker == IF c.kind = "BrokerToNonBroker" THEN NoEnd ELSE e
  IN
  /\ c.kind \in {"BrokerToNonBroker", "NonBrokerToBroker", "BrokerToBroker"}
  /\ CreateActive(e, c.n, side, remote, rtype)
  /\ io' = Listen(i, e, "link")
  /\ IF c.kind = "NonBrokerToBroker" THEN SetAllocationDelegate(c, e)
                                     ELSE UNCHANGED node
  /\ Call(e, AcceptConnection(c.n, e, broker, c.call, m.num_initial_portals))

\* Mutant: the connection to the referrer is added before that to the broker.
AcceptReferralReferrerFirst(e, m, i) ==
  LET c == i[e].connector
      x == m.transport
  IN
  /\ c.kind = "ReferredNonBroker"
  /\ link' = [link EXCEPT
       ![e] = NewLink(c.n, "B", m.broker_name, "broker", "active"),
       ![x] = NewLink(c.n, "B", m.referrer_name, "normal", "never")]
  /\ io' = Listen(i, e, "link")
  /\ SetAllocationDelegate(c, e)
  /\ Call(e, AcceptConnection(c.n, x, e, c.call, m.num_initial_portals)
               \o <<[op |-> "AddConnection", n |-> c.n, e |-> e, broker |-> e],
                    [op |-> "Activate", e |-> x]>>)

\* OnConnectToReferredNonBroker: links to the broker and to the referrer
AcceptReferral(e, m, i) ==
  LET c == i[e].connector
      x == m.transport
  IN
  /\ c.kind = "ReferredNonBroker"
  /\ link' = [link EXCEPT
       ![e] = NewLink(c.n, "B", m.broker_name, "broker", "active"),
       ![x] = NewLink(c.n, "B", m.referrer_name, "normal", "never")]
  /\ io' = Listen(i, e, "link")
  /\ SetAllocationDelegate(c, e)
  /\ Call(e, <<[op |-> "AddConnection", n |-> c.n, e |-> e, broker |-> e]>>
               \o AcceptConnection(c.n, x, e, c.call, m.num_initial_portals)
               \o <<[op |-> "Activate", e |-> x]>>)

\* OnConnectToReferredBroker, as far as the link to the referred node
AcceptReferred(e, m, i) ==
  LET c == i[e].connector IN
  /\ c.kind = "BrokerReferral"
  /\ CreateActive(e, c.n, "A", Owner(Peer(e)), "normal")
  /\ io' = Listen(i, e, "link")
  /\ Call(e, <<[op |-> "AddConnection", n |-> c.n, e |-> e, broker |-> NoEnd],
               [op |-> "ReplyToReferred", e |-> e,
                portals |-> m.num_initial_portals]>>)
  /\ UNCHANGED node

ConnectorMessage(e, m, i) ==
  /\ i[e].listener = "connector"
  /\ LET expected == m.type = ConnectorExpects(i[e].connector.kind) IN
     \/ ~expected /\ TransportError(e, i) /\ UNCHANGED <<link, node>>
     \/ expected /\ AcceptDirectConnection(e, m, i)
     \/ expected /\ AcceptReferral(e, m, i)
     \/ expected /\ AcceptReferred(e, m, i)
  /\ UNCHANGED <<scenario, started, portal, result, used, seen>>

\* The guards of the handlers of NodeLink: who may send what to whom
LinkAccepts(e, m) ==
  LET to_broker == IsBroker(link[e].n)
      from_broker == link[e].rtype = "broker"
  IN CASE m.type = "ReferNonBroker" -> to_broker /\ ~from_broker
       [] m.type \in {"NonBrokerReferralAccepted", "NonBrokerReferralRejected"} ->
            from_broker /\ m.referral_id \in DOMAIN link[e].referrals
       [] m.type \in {"RequestIntroduction", "RelayMessage"} -> to_broker
       [] m.type \in {"AcceptIntroduction", "RejectIntroduction",
                      "AcceptRelayedMessage"} -> from_broker
       [] m.type = "RequestIndirectIntroduction" ->
            to_broker /\ from_broker /\ link[e].side = "A"
       [] m.type = "ProvideMemory" -> m.size \in DOMAIN link[e].memory_requests
       [] m.type \in {"RequestMemory", "DriverObjects"} -> TRUE
       [] OTHER -> FALSE

\* OnReferNonBroker: a connector listens for the referred node
OnReferNonBroker(e, m, i) ==
  /\ m.type = "ReferNonBroker"
  /\ io' = [Activated(Listen(i, m.transport, "connector"), m.transport) EXCEPT
       ![m.transport].connector =
          [NewConnector("BrokerReferral", link[e].n, 0, {}) EXCEPT
             !.referral_id = m.referral_id,
             !.num_initial_portals = m.num_initial_portals,
             !.referrer = e]]
  /\ UNCHANGED <<link, result, stack, seen>>

\* OnNonBrokerReferralAccepted and OnNonBrokerReferralRejected
OnReferralAnswered(e, m, i) ==
  LET call == link[e].referrals[m.referral_id]
      n == link[e].n
      rest == [link EXCEPT ![e].referrals = Restrict(@, DOMAIN @ \ {m.referral_id})]
  IN
  /\ \/ /\ m.type = "NonBrokerReferralAccepted"
        /\ link' = [rest EXCEPT ![m.transport] =
                      NewLink(n, "A", m.name, "normal", "never")]
        /\ Call(e, AcceptConnection(n, m.transport, e, call, m.num_initial_portals)
                     \o <<[op |-> "Activate", e |-> m.transport]>>)
     \/ /\ m.type = "NonBrokerReferralRejected"
        /\ link' = rest
        /\ Call(e, <<[op |-> "EstablishWaitingRouters", call |-> call,
                      e |-> NoEnd, portals |-> 0]>>)
  /\ io' = i
  /\ UNCHANGED <<result, seen>>

\* OnRequestIntroduction, OnAcceptIntroduction, OnRejectIntroduction and
\* OnRequestIndirectIntroduction hand the message to the node.
OnIntroductionMessage(e, m, i) ==
  LET n == link[e].n IN
  /\ \/ /\ m.type = "RequestIntroduction"
        /\ Call(e, <<[op |-> "HandleIntroductionRequest", n |-> n, e |-> e,
                      name |-> m.name]>>)
     \/ /\ m.type = "AcceptIntroduction"
        /\ Call(e, <<[op |-> "AcceptIntroduction", n |-> n, e |-> e, m |-> m]>>)
     \/ /\ m.type = "RejectIntroduction"
        /\ Call(e, <<[op |-> "NotifyIntroductionFailed", n |-> n, from |-> e,
                      name |-> m.name]>>)
     \/ /\ m.type = "RequestIndirectIntroduction"
        /\ Call(e, <<[op |-> "HandleIndirectIntroductionRequest", n |-> n,
                      ours |-> m.target_node, theirs |-> m.source_node]>>)
  /\ io' = i
  /\ UNCHANGED <<link, result, seen>>

\* OnRequestMemory and OnProvideMemory: the first of the callbacks that wait
\* for a buffer of this size is run.
OnMemoryMessage(e, m, i) ==
  /\ \/ /\ m.type = "RequestMemory"
        /\ io' = Post(i, e, ProvideMemory(m.size))
        /\ UNCHANGED <<link, result>>
     \/ /\ m.type = "ProvideMemory"
        /\ LET waiting == link[e].memory_requests[m.size] IN
           /\ result' = [result EXCEPT ![Head(waiting)] = Append(@, "allocated")]
           /\ link' = [link EXCEPT ![e].memory_requests =
                IF Len(waiting) = 1 THEN Restrict(@, DOMAIN @ \ {m.size})
                                    ELSE [@ EXCEPT ![m.size] = Tail(@)]]
        /\ io' = i
  /\ UNCHANGED <<stack, seen>>

\* OnRelayMessage at the broker, OnAcceptRelayedMessage at the destination,
\* and the same objects sent directly.  Without a link they are dropped.
OnObjectsMessage(e, m, i) ==
  LET n == link[e].n IN
  /\ \/ /\ m.type = "RelayMessage" /\ Known(n, m.destination)
        /\ io' = Post(i, LinkTo(n, m.destination),
                      AcceptRelayedMessage(link[e].remote, m.data))
        /\ UNCHANGED seen
     \/ /\ m.type = "RelayMessage" /\ ~Known(n, m.destination)
        /\ io' = i
        /\ Lose(m.data.id)
     \/ /\ m.type = "AcceptRelayedMessage"
        /\ io' = i
        /\ IF Known(n, m.source) THEN Receive(m.data.id) ELSE Lose(m.data.id)
     \/ /\ m.type = "DriverObjects"
        /\ io' = i
        /\ Receive(m.id)
  /\ UNCHANGED <<link, result, stack>>

LinkMessage(e, m, i) ==
  /\ i[e].listener = "link"
  /\ IF LinkAccepts(e, m)
     THEN \/ OnReferNonBroker(e, m, i)
          \/ OnReferralAnswered(e, m, i)
          \/ OnIntroductionMessage(e, m, i)
          \/ OnMemoryMessage(e, m, i)
          \/ OnObjectsMessage(e, m, i)
     ELSE TransportError(e, i) /\ UNCHANGED <<link, result, seen>>
  /\ UNCHANGED <<scenario, started, node, portal, used>>

DeliverMessage(e) ==
  /\ MessageReady(e)
  /\ \E m \in {Head(io[e].queue)}, i \in {[io EXCEPT ![e].queue = Tail(@)]} :
       ConnectorMessage(e, m, i) \/ LinkMessage(e, m, i)

DeliverError(e) ==
  /\ ErrorReady(e)
  /\ TransportError(e, io)
  /\ UNCHANGED <<scenario, started, link, node, portal, result, used, seen>>

(***************************************************************************)
(* The applications, the environment and the specification.                *)
(***************************************************************************)
\* Setup calls are made one after the other, each when nothing moves; then the
\* other calls are made, concurrently.
MayStart(c) ==
  LET setup == Len(scenario.setup) IN
  /\ c \notin started
  /\ \A d \in 1..setup : d < c => d \in started
  /\ started \subseteq 1..setup => Quiet

StartCall(c) ==
  /\ c \in CallIds
  /\ MayStart(c)
  /\ started' = started \cup {c}
  /\ LET call == Calls[c] IN
     stack' = [stack EXCEPT ![-c] = <<
       CASE call.kind = "ConnectNode" -> [op |-> "ConnectNode", call |-> c]
         [] call.kind = "EstablishLink" ->
              [op |-> "EstablishLink", n |-> call.n, name |-> call.name,
               cb |-> [kind |-> "api", call |-> c]]
         [] call.kind = "AllocateSharedMemory" ->
              [op |-> "AllocateSharedMemory", n |-> call.n, size |-> call.size,
               call |-> c]
         [] call.kind = "Close" -> [op |-> "ShutDown", n |-> call.n] >>]
  /\ UNCHANGED <<scenario, io, link, node, portal, result, used, seen>>

\* The driver loses a transport: what is in transit is lost, and both ends are
\* told.
BreakTransport(k) ==
  /\ k \in scenario.fragile
  /\ ~io[2 * k].broken
  /\ ~(started \subseteq 1..Len(scenario.setup))
  /\ LET both == {2 * k - 1, 2 * k}
         lost == UNION {Carried(io[e].queue) : e \in both}
         broken == [e \in Ends |-> IF e \in both
                      THEN [io[e] EXCEPT !.broken = TRUE, !.queue = <<>>] ELSE io[e]]
     IN io' = CloseEnds(broken, lost)
  /\ UNCHANGED <<scenario, started, link, node, portal, result, stack, used, seen>>

NewEnd ==
  [listener |-> "none", active |-> FALSE, closed |-> FALSE, broken |-> FALSE,
   told |-> FALSE, queue |-> <<>>, connector |-> NewConnector("none", 0, 0, {})]

NewNode ==
  [connections |-> EmptyMap, broker_link |-> NoEnd, delegate |-> NoEnd,
   other_brokers |-> {}, pending |-> EmptyMap, in_progress |-> {},
   broker_link_callbacks |-> <<>>]

Init ==
  /\ scenario \in Scenarios
  /\ started = {}
  /\ io = [e \in Ends |-> NewEnd]
  /\ link = [e \in Ends |-> NewLink(0, "A", 0, "normal", "none")]
  /\ node = [n \in Nodes |-> NewNode]
  /\ portal = [c \in CallIds |-> <<>>]
  /\ result = [c \in CallIds |-> <<>>]
  /\ stack = [t \in Thread |-> <<>>]
  /\ used = scenario.transports
  /\ seen = [failed |-> {}, lost |-> {}, received |-> {}]

Done ==
  /\ Quiet
  /\ started = CallIds
  /\ UNCHANGED vars

ThreadStep(t) ==
  /\ stack[t] # <<>>
  /\ \/ LinkSteps(t)
     \/ ConnectionSteps(t)
     \/ IntroductionSteps(t)
     \/ MessagingSteps(t)
     \/ ConnectorSteps(t)

Next ==
  \/ \E t \in Thread : ThreadStep(t)
  \/ \E e \in Ends : DeliverMessage(e) \/ DeliverError(e)
  \/ \E c \in CallIds : StartCall(c)
  \/ \E k \in 1..MaxTransports : BreakTransport(k)
  \/ Done

Spec == Init /\ [][Next]_vars

(***************************************************************************)
(* Properties.                                                             *)
(***************************************************************************)
\* The driver schedules its threads, and delivers what was sent.
Internal ==
  \/ \E t \in Thread : ThreadStep(t)
  \/ \E e \in Ends : DeliverMessage(e) \/ DeliverError(e)

FairSpec == Spec /\ WF_vars(Internal)

\* Every variable has its type; a transport that is active has a listener
\* (DriverTransport::Notify), and connections_ is keyed by the name of the
\* node at the other end of the link.
TypeOK ==
  /\ started \subseteq CallIds
  /\ used \in 0..MaxTransports
  /\ \A e \in Ends :
       /\ io[e].listener \in {"none", "connector", "link"}
       /\ link[e].state \in {"none", "never", "active", "deactivated"}
       /\ io[e].active => io[e].listener # "none"
  /\ \A n \in Nodes :
       /\ node[n].broker_link \in Ends \cup {NoEnd}
       /\ node[n].delegate \in Ends \cup {NoEnd}
       /\ node[n].other_brokers \subseteq Ends
       /\ \A m \in DOMAIN node[n].connections :
            link[node[n].connections[m].link].remote = m

\* The state is well formed and no ABSL_ASSERT of AddConnection or
\* NodeLink::Activate fails: the first connection of a non-broker is the one to
\* its broker, however handshakes, referrals and losses interleave, and a link
\* is activated once.
AssertionsHold == TypeOK /\ seen.failed = {}

\* No link refuses what a correct node sends it, which would cost the link:
\* introductions come from brokers only, an indirect request goes to the
\* broker on side A, and an answer to a referral or to a request for memory
\* finds what it answers.
MessagesAreAccepted ==
  \A e \in Ends :
    (MessageReady(e) /\ io[e].listener = "link") => LinkAccepts(e, Head(io[e].queue))

Closed == {Calls[c].n : c \in {d \in started : Calls[d].kind = "Close"}}

\* The applications close no node, and no transport breaks.
Undisturbed ==
  scenario.fragile = {} /\ \A c \in CallIds : Calls[c].kind # "Close"

\* Once nothing moves, two nodes that are not closed agree on the link between
\* them: each is in the other's connections_, over the two ends of one
\* transport and as opposite sides.  Redundant introductions
\* (in_progress_introductions_), replaced connections and lost transports may
\* not leave a node with half a link, and the first may not cost it the link
\* that its callback was given.
ConnectionsAgree ==
  Quiet =>
    /\ \A n \in Nodes \ Closed : \A m \in DOMAIN node[n].connections \ Closed :
         LET e == LinkTo(n, m) IN
         /\ LinkTo(m, n) = Peer(e)
         /\ link[e].side # link[Peer(e)].side
         /\ link[e].state = "active"
    /\ Undisturbed => \A c \in CallIds :
         result[c] = <<"linked">> => Known(Calls[c].n, Calls[c].name)

Asynchronous == {"EstablishLink", "AllocateSharedMemory"}

\* What the code answers: a broker does not answer a broker that asks for an
\* introduction to a broker, and loses track of introductions between networks
\* when a transport is lost.
Promised(c) ==
  /\ Calls[c].kind \in Asynchronous
  /\ Calls[c].kind = "EstablishLink" =>
       ~(IsBroker(Calls[c].n) /\ IsBroker(Calls[c].name))
  /\ scenario.networks = 1 \/ Undisturbed

\* The callback given to EstablishLink or to AllocateSharedMemory is run once,
\* and never twice; once nothing moves and every call is answered, no
\* introduction is pending at any node and none is in progress.
CallbacksRunOnce ==
  /\ \A c \in CallIds : Len(result[c]) <= 1
  /\ (Quiet /\ \A c \in CallIds : Calls[c].kind \in Asynchronous => Promised(c)) =>
       /\ \A c \in started : Calls[c].kind \in Asynchronous => result[c] # <<>>
       /\ \A n \in Nodes : DOMAIN node[n].pending = {} /\ node[n].in_progress = {}

Accepted(c) == Calls[c].kind = "ConnectNode" /\ result[c] = <<>>

\* Once two nodes have connected over a transport, directly or by referral, and
\* nothing moves, no initial portal is left waiting, and portals are bound in
\* pairs, to the two ends of one link (EstablishWaitingRouters).
PortalsAgree ==
  (Quiet /\ started = CallIds) => \A c, d \in CallIds :
    (Accepted(c) /\ Accepted(d) /\ Calls[c].end = Peer(Calls[d].end)) =>
      \A i \in DOMAIN portal[c] :
        /\ portal[c][i] # Waiting
        /\ portal[c][i] > 0 =>
             i \in DOMAIN portal[d] /\ portal[d][i] = Peer(portal[c][i])

\* Driver objects that a node sends as soon as it has its link to another are
\* relayed to it: the broker knows the destination, and the destination has
\* been told of the source before (the SUBTLE order of the broker's messages).
ObjectsArrive ==
  (scenario.relay /\ Undisturbed) =>
    /\ seen.lost = {}
    /\ (Quiet /\ started = CallIds) =>
         \A c \in CallIds : result[c] = <<"linked">> =>
           <<Calls[c].n, Calls[c].name>> \in seen.received

\* Nodes that have come to rest agree with each other and with themselves about
\* links, callbacks and portals.
NodesAgree == ConnectionsAgree /\ CallbacksRunOnce /\ PortalsAgree

\* An asynchronous call is answered in the end, with a link or without one, if
\* Promised() demands it: not of a broker that asks for another broker, and
\* across networks only while no transport breaks and no node is closed.  Within
\* one network transports may break and nodes be closed.
CallsAreAnswered ==
  []<>(\A c \in started : Promised(c) => result[c] # <<>>)
============================================================================
