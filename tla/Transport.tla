----------------------------- MODULE Transport -----------------------------
(***************************************************************************)
(* ipcz on the two drivers with threads of their own, under one set of     *)
(* properties: what ipcz.h demands of a driver.                            *)
(*                                                                         *)
(* A scenario is [driver, threads]: the driver and, for each thread of the *)
(* application, the calls it makes one after the other, each a record      *)
(* [op, s, m].  A message m is [id, size, fds, then, whole]: its bytes and *)
(* descriptors, what the receiver does with it, and whether it is whole.   *)
(***************************************************************************)
EXTENDS SocketTransport, AsyncTransport

vars == <<scenario, next, stack, link, sent, log, sock, wire, async>>

Init == InitIpcz /\ InitSocket /\ InitAsync

OnSocket ==
    /\ scenario.driver = "multiprocess"
    /\ UNCHANGED async
    /\ \/ \E t \in Thread : SocketStep(t) \/ (IpczStep(t) /\ UNCHANGED socketvars)
       \/ \E t \in Caller : StartCall(t) /\ UNCHANGED socketvars
       \/ \E s \in End : SocketThread(s) \/ CloseSocket(s) \/ (CloseEnd(s) /\ UNCHANGED socketvars)

OnAsync ==
    /\ scenario.driver = "async"
    /\ UNCHANGED socketvars
    /\ \/ \E t \in Thread : AsyncStep(t) \/ (IpczStep(t) /\ UNCHANGED async)
       \/ \E t \in Caller : StartCall(t) /\ UNCHANGED async
       \/ \E s \in End : AsyncThread(s) \/ AsyncClose(s)

(***************************************************************************)
(* A state of rest: all calls have returned, both threads of the driver    *)
(* have ended or wait for something that has not happened, and nothing is  *)
(* left to be closed.                                                      *)
(***************************************************************************)
Waits(s) ==
    \/ stack[s] = <<>>
    \/ At(s, "Poll") /\ ~PollReturns(s)
    \/ At(s, "WaitForTask") /\ ~async[s].notified

AtRest ==
    /\ \A t \in Caller : stack[t] = <<>> /\ next[t] > Len(Script(t))
    /\ \A s \in End :
          /\ Waits(s)
          /\ link[s].state # "kDeactivated" \/ link[s].handle \/ link[s].closed
          /\ ~sock[s].open \/ sock[s].transport \/ stack[s] # <<>>

Rest == AtRest /\ UNCHANGED vars

Next == OnSocket \/ OnAsync \/ Rest

\* The operating system lets threads run that can.
Spec == Init /\ [][Next]_vars /\ WF_vars(OnSocket \/ OnAsync)

----------------------------------------------------------------------------
Received(s) == SelectSeq(log[s], LAMBDA e : e.kind = "message")
Arrival(m) == [kind |-> "message", m |-> m, fds |-> Fds(m)]
Expected(s) == [i \in DOMAIN sent[Peer(s)] |-> Arrival(sent[Peer(s)][i])]

\* The types of the variables; a thread is joinable only before it is given up,
\* and only an end that was activated has one.
TypeOK ==
    /\ scenario \in Scenarios
    /\ DOMAIN stack = Thread
    /\ \A s \in End :
          /\ link[s].state \in {"kNeverActivated", "kActive", "kDeactivated"}
          /\ link[s].state = "kNeverActivated" =>
                stack[s] = <<>> /\ ~link[s].handle /\ ~sock[s].joinable /\ ~async[s].joinable
          /\ Len(wire[s]) <= Capacity
          /\ sock[s].shutdown => link[s].state = "kDeactivated" /\ ~sock[s].done
          /\ ~sock[s].open => ~sock[s].joinable

\* What an end receives is what the other end sent: every message whole, with its
\* own descriptors, in the order of the calls of Transmit(), none twice and none
\* left out before another, however the socket cut it up and whatever was queued.
MessagesArriveInOrder ==
    \A s \in End : \E n \in 0 .. Len(Expected(s)) : Received(s) = SubSeq(Expected(s), 1, n)

\* The activity handler of an end is never entered by two threads at once, nor
\* again by a thread that is within it.
HandlersAreExclusive ==
    \A s \in End :
        \A t, u \in Thread : \A i \in DOMAIN stack[t], j \in DOMAIN stack[u] :
            (/\ stack[t][i].op = "Returned" /\ stack[t][i].s = s
             /\ stack[u][j].op = "Returned" /\ stack[u][j].s = s) => t = u /\ i = j

\* An end is told once that it is deactivated, after it was, and of nothing later:
\* the handle that the driver passes to the handler is gone then.
DeactivatedIsLast ==
    \A s \in End : \A i \in DOMAIN log[s] :
        log[s][i].kind = "deactivated" => i = Len(log[s]) /\ link[s].state = "kDeactivated"

\* While both ends are active nothing that was sent remains in a queue, in the
\* socket or in a list of tasks: no wakeup of a thread of the driver is lost.
NothingIsStranded ==
    AtRest /\ (\A s \in End : link[s].state = "kActive")
        => \A s \in End : Received(s) = Expected(s)

\* An end that was deactivated is released: the driver has told so, its thread is
\* gone, and its descriptor or driver object is closed.
EndsAreReleased ==
    AtRest => \A s \in End :
        link[s].state = "kDeactivated" =>
            /\ ~link[s].handle /\ link[s].closed /\ stack[s] = <<>>
            /\ scenario.driver = "multiprocess" => ~sock[s].open

\* An end does not stay active when the other one is gone: its NodeLink is told.
LossIsNoticed ==
    AtRest => \A s \in End :
        link[s].state = "kDeactivated" => link[Peer(s)].state # "kActive"

\* A NodeLink may rely on the calls of its handlers: one at a time, and nothing
\* after the last.
NotificationsAreOrderly == HandlersAreExclusive /\ DeactivatedIsLast

\* Once the threads of the driver have nothing to do, nothing is left for them
\* to do: every message, loss and deactivation has got to where it was due.
NothingIsLeft == NothingIsStranded /\ EndsAreReleased /\ LossIsNoticed

\* All calls return and the threads of the driver come to rest: no thread waits
\* in join() for one that waits itself, and none runs around its loop for ever.
CallsEnd == []<>AtRest
============================================================================
