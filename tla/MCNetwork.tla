----------------------------- MODULE MCNetwork -----------------------------
(***************************************************************************)
(* What the applications of up to five nodes do.  Nodes 1, 2 and 5 are     *)
(* brokers, 3 and 4 are not, and 9 is a name that no node has.             *)
(***************************************************************************)
EXTENDS Network

MCNodes == 1..5
MCBrokers == {1, 2, 5}

ConnectCall(n, end, flags, portals) ==
  [kind |-> "ConnectNode", n |-> n, end |-> end, flags |-> flags,
   portals |-> portals]
EstablishCall(n, name) == [kind |-> "EstablishLink", n |-> n, name |-> name]
MemoryCall(n, size) == [kind |-> "AllocateSharedMemory", n |-> n, size |-> size]
CloseCall(n) == [kind |-> "Close", n |-> n]

\* Calls to be made in turn, calls to be made concurrently, the transports that
\* the applications create, those that may break, and whether applications send
\* driver objects.
Script(setup, calls, transports, fragile, relay) ==
  [setup |-> setup, calls |-> calls, transports |-> transports,
   fragile |-> fragile, relay |-> relay,
   networks |-> Cardinality({c.n : c \in Range(setup \o calls)} \cap MCBrokers)]

\* Broker b and client n meet over the transport with ends 2k - 1 and 2k.
Join(b, n, k) ==
  <<ConnectCall(b, 2 * k - 1, {}, 0), ConnectCall(n, 2 * k, {"to_broker"}, 0)>>

\* Brokers a and b meet over transport k.
Brokerage(a, b, k, portals) ==
  <<ConnectCall(a, 2 * k - 1, {"to_broker"}, portals),
    ConnectCall(b, 2 * k, {"to_broker"}, portals)>>

Clients == Join(1, 3, 1) \o Join(1, 4, 2)
Networks == Brokerage(1, 2, 1, 0) \o Join(1, 3, 2) \o Join(2, 4, 3)

\* One network: introductions asked for from both sides, twice from one side,
\* while a transport is lost, of nobody, and while the broker goes away.
IntroductionScripts ==
  { Script(Clients, <<EstablishCall(3, 4), EstablishCall(4, 3)>>, 2, {}, TRUE),
    Script(Clients, <<EstablishCall(3, 4), EstablishCall(3, 4)>>, 2, {}, FALSE),
    Script(Clients, <<EstablishCall(3, 4)>>, 2, {1}, FALSE),
    Script(Clients, <<EstablishCall(3, 4)>>, 2, {2}, TRUE),
    Script(Clients, <<EstablishCall(3, 4)>>, 2, {3}, FALSE),
    Script(Clients, <<EstablishCall(3, 9), EstablishCall(4, 9)>>, 2, {}, FALSE),
    Script(Clients, <<EstablishCall(3, 4), CloseCall(1)>>, 2, {}, FALSE),
    Script(Clients, <<EstablishCall(3, 4), CloseCall(3)>>, 2, {}, TRUE),
    Script(Clients, <<EstablishCall(1, 3), EstablishCall(4, 1)>>, 2, {}, TRUE) }

\* Two networks: an introduction is asked for from both of them, or while the
\* brokers lose each other.  Three networks: a broker asks for a broker, and
\* loses one of the two brokers that it has asked.
NetworkScripts ==
  { Script(Networks, <<EstablishCall(3, 4), EstablishCall(4, 3)>>, 3, {}, FALSE),
    Script(Networks, <<EstablishCall(3, 4)>>, 3, {1}, FALSE),
    Script(Brokerage(1, 2, 1, 0) \o Brokerage(2, 5, 2, 0),
           <<EstablishCall(1, 5)>>, 2, {}, FALSE),
    Script(Brokerage(1, 2, 1, 0) \o Brokerage(1, 5, 2, 0),
           <<EstablishCall(1, 9)>>, 2, {1}, FALSE) }

\* Handshakes: flags that do not match or are not allowed, portals that the
\* other side does not have, a node closed or a transport lost on the way, and
\* two connections between the same brokers.
HandshakeScripts ==
  { Script(<<>>, <<ConnectCall(1, 1, {"to_broker"}, 1),
                   ConnectCall(3, 2, {"to_broker"}, 1)>>, 1, {}, FALSE),
    Script(<<>>, <<ConnectCall(3, 1, {"share", "inherit"}, 1),
                   ConnectCall(3, 2, {}, 1)>>, 1, {}, FALSE),
    Script(<<>>, <<ConnectCall(1, 1, {}, 1),
                   ConnectCall(3, 2, {"to_broker"}, 2)>>, 1, {1}, FALSE),
    Script(<<>>, <<ConnectCall(1, 1, {}, 2), ConnectCall(3, 2, {"to_broker"}, 1),
                   CloseCall(1)>>, 1, {}, FALSE),
    Script(<<>>, <<ConnectCall(1, 1, {}, 1), ConnectCall(3, 2, {"to_broker"}, 1),
                   CloseCall(3)>>, 1, {}, FALSE),
    Script(<<>>, Brokerage(1, 2, 1, 1) \o Brokerage(1, 2, 2, 1), 2, {}, FALSE) }

\* Referrals: by a node that has its broker, with a transport that may be lost,
\* by one that is still waiting for it, and by one that gets it meanwhile.
ReferralScripts ==
  { Script(Join(1, 3, 1), <<ConnectCall(3, 3, {"share"}, 2),
                            ConnectCall(4, 4, {"inherit", "delegate"}, 1)>>,
           2, fragile, fragile = {}) : fragile \in {{}, {2}, {3}} }
  \cup
  { Script(<<ConnectCall(3, 3, {"share"}, 1), ConnectCall(4, 4, {"inherit"}, 1),
             ConnectCall(3, 2, {"to_broker"}, 0)>>,
           <<ConnectCall(1, 1, {}, 0)>>, 2, {}, FALSE),
    Script(<<ConnectCall(4, 4, {"inherit"}, 1), ConnectCall(3, 2, {"to_broker"}, 0)>>,
           <<ConnectCall(1, 1, {}, 0), ConnectCall(3, 3, {"share"}, 1)>>, 2, {}, FALSE) }

\* Memory: two requests of one size and one of another, by a node that
\* delegates allocation and by one that does not.
MemoryScripts ==
  { Script(<<ConnectCall(1, 1, {}, 0),
             ConnectCall(3, 2, {"to_broker"} \cup delegate, 0)>>,
           <<MemoryCall(3, 1), MemoryCall(3, 1), MemoryCall(3, 2)>>, 1, {}, FALSE)
      : delegate \in {{}, {"delegate"}} }

MCScenarios ==
  IntroductionScripts \cup NetworkScripts \cup HandshakeScripts
    \cup ReferralScripts \cup MemoryScripts
============================================================================
