---------------------------- MODULE MCTransport ----------------------------
(***************************************************************************)
(* Scenarios for model checking.  A buffer of the kernel holds three bytes *)
(* and two such buffers fit into a socket; a header has one byte.          *)
(***************************************************************************)
EXTENDS Transport

Msg(id, size, fds, then) == [id |-> id, size |-> size, fds |-> fds, then |-> then, whole |-> TRUE]
Activate(s) == [op |-> "Activate", s |-> s, m |-> Msg(0, 0, 0, "accept")]
Stop(s) == [op |-> "Deactivate", s |-> s, m |-> Msg(0, 0, 0, "accept")]
Tx(s, m) == [op |-> "Transmit", s |-> s, m |-> m]
Small(id) == Msg(id, 1, 0, "accept")
On(driver, threads) == [driver |-> driver, threads |-> threads]
Drivers == {"multiprocess", "async"}

\* A long message of which the socket takes a part, between short ones.
LongMessage(d) ==
    On(d, << <<Activate(1), Tx(1, Small(1)), Tx(1, Msg(2, 4, 1, "accept")),
               Tx(1, Msg(3, 2, 1, "accept")), Tx(1, Small(4))>>,
             <<Activate(2)>> >>)

\* Two threads send at once, and the receiver answers from its handler.
TwoSenders(d) ==
    On(d, << <<Activate(1), Tx(1, Msg(1, 2, 1, "reply")), Tx(1, Small(2))>>,
             <<Activate(2), Tx(1, Msg(3, 2, 1, "accept")), Tx(1, Small(4))>> >>)

\* An application thread deactivates an end at any time.
StopOne(d) ==
    On(d, << <<Activate(1), Tx(1, Msg(1, 2, 0, "reply")), Tx(1, Small(2))>>,
             <<Activate(2), Stop(2)>> >>)

\* A message makes its receiver deactivate the end it came by.
StopInHandler(d) ==
    On(d, << <<Activate(1), Tx(1, Msg(1, 1, 1, "deactivate")), Tx(1, Small(2)), Tx(1, Small(3))>>,
             <<Activate(2), Tx(2, Small(4))>> >>)

\* Both ends go at once, from threads of their own and from within handlers.
StopBoth(d) ==
    On(d, << <<Activate(1), Tx(1, Msg(1, 1, 0, "deactivate")), Stop(1)>>,
             <<Activate(2), Tx(2, Small(2)), Stop(2)>> >>)

\* A message is refused while another thread deactivates the end.
Refusal(d) ==
    On(d, << <<Activate(1), Tx(1, Msg(1, 2, 0, "reject")), Tx(1, Small(2))>>,
             <<Activate(2), Tx(2, Small(3)), Stop(2)>> >>)

All ==
    UNION {{LongMessage(d), TwoSenders(d), StopOne(d), StopInHandler(d), StopBoth(d), Refusal(d)} : d \in Drivers}

\* A long message that is queued whole because others fill the socket.
LongQueued ==
    {On("multiprocess", << <<Activate(1), Tx(1, Msg(1, 1, 1, "accept")), Tx(1, Small(2)), Tx(1, Msg(3, 4, 0, "accept"))>>,
                           <<Activate(2)>> >>)}
============================================================================
