------------------------------ MODULE MCRoute ------------------------------
(***************************************************************************)
(* Small instances of Route: three nodes, and what the environment of the  *)
(* route may do in each run.                                               *)
(***************************************************************************)
EXTENDS Route, TLC

CONSTANTS n1, n2, n3

MCNodes == {n1, n2, n3}

\* How many parcels, or transfers, each end is allowed.
Only(x, y) == X :> x @@ Y :> y

\* OpenPortals() on node 1, and nothing happens to the pair ...
LocalPair ==
    [home |-> X :> n1 @@ Y :> n1, established |-> FALSE, targets |-> MCNodes,
     puts |-> Only(0, 0), transfers |-> Only(0, 0), closers |-> {}, fragile |-> {}, serial |-> FALSE]

\* ... or ConnectNode() between nodes 1 and 2.
Connected == [LocalPair EXCEPT !.home = X :> n1 @@ Y :> n2]

\* The life of a pair, one event at a time.
PairSerial ==
    [LocalPair EXCEPT !.puts = Only(1, 1), !.transfers = Only(1, 1), !.closers = {X}, !.serial = TRUE]

\* Initial portals, which may move before and after the nodes are connected.
ConnectedSerial ==
    [Connected EXCEPT !.puts = Only(1, 0), !.transfers = Only(1, 1), !.closers = {X}, !.serial = TRUE,
                      !.targets = {n1, n3}]

\* Two parcels and a closure travel while the end they are for moves.
OrderSerial ==
    [ConnectedSerial EXCEPT !.established = TRUE, !.puts = Only(2, 0), !.transfers = Only(0, 1),
                            !.targets = MCNodes]

\* The link between nodes 1 and 2 may fail between two events.
LossSerial == [PairSerial EXCEPT !.closers = {}, !.targets = {n1, n2}, !.fragile = {{n1, n2}}]

\* The same with a third node, and parcels from one end.
LossWithThird == [LossSerial EXCEPT !.puts = Only(1, 0), !.targets = MCNodes]

\* Two portals are sent across each other, their messages in any order.
Swap ==
    [Connected EXCEPT !.established = TRUE, !.transfers = Only(1, 1), !.targets = {n1, n2}]

SerialScenarios == {PairSerial, ConnectedSerial, OrderSerial, LossSerial, LossWithThird, Swap}

\* One end moves while both put parcels and close.
PairConcurrent ==
    [LocalPair EXCEPT !.puts = Only(1, 1), !.transfers = Only(1, 0), !.closers = {X, Y}, !.targets = {n1, n2}]

\* An initial portal moves to a third node while the connection is made.
ConnectedConcurrent == [Connected EXCEPT !.transfers = Only(1, 0), !.targets = {n3}]

\* The sender of two parcels moves while they are on their way.
OrderConcurrent == [ConnectedConcurrent EXCEPT !.established = TRUE, !.puts = Only(2, 0)]

\* The link between nodes 1 and 2 may fail at any time, a parcel and a portal
\* being in flight.
LossConcurrent ==
    [PairConcurrent EXCEPT !.puts = Only(1, 0), !.closers = {}, !.targets = MCNodes, !.fragile = {{n1, n2}}]

ConcurrentScenarios == {PairConcurrent, ConnectedConcurrent, OrderConcurrent, LossConcurrent}

\* One end moves twice, so that the second move meets the first bypass.
MovesTwice == [LocalPair EXCEPT !.transfers = Only(2, 0)]

\* Both ends move to the other node at once, and two proxies compete.
BothMove == [LocalPair EXCEPT !.transfers = Only(1, 1), !.targets = {n1, n2}]

SettleScenarios == {MovesTwice, BothMove}
============================================================================
