-------------------------- MODULE DriverTransport --------------------------
(***************************************************************************)
(* The two ends of a driver transport as ipcz sees them.  ipcz transmits   *)
(* messages from any thread and deactivates an end once; the driver calls  *)
(* the activity handler of an end (NotifyTransport) for every message, for *)
(* an error and, last of all, once the end is deactivated.  Modules        *)
(* SocketTransport and AsyncTransport model two drivers.                   *)
(*                                                                         *)
(* Every thread has a stack of frames, as in the other modules.  Threads 1 *)
(* and 2 are those that the driver starts for the two ends, the others     *)
(* make the calls of the scenario.                                         *)
(***************************************************************************)
EXTENDS Naturals, Sequences

CONSTANTS
    Scenarios,    \* see module Transport
    MaxThreads    \* bound on the threads of a scenario

\* NodeLink::Activate() is called once for a NodeLink, and its transport is used
\* by nothing else.
ASSUME ScenarioAssumption ==
    /\ MaxThreads \in Nat
    /\ \A x \in Scenarios :
          /\ \A t \in DOMAIN x.threads :
                /\ Len(x.threads[t]) \in Nat /\ DOMAIN x.threads[t] = 1 .. Len(x.threads[t])
                /\ \A i \in DOMAIN x.threads[t] :
                      /\ x.threads[t][i].op \in {"Activate", "Transmit", "Deactivate"}
                      /\ x.threads[t][i].s \in 1 .. 2
          /\ \A t, u \in DOMAIN x.threads :
                \A i \in DOMAIN x.threads[t], j \in DOMAIN x.threads[u] :
                   (/\ x.threads[t][i].op = "Activate" /\ x.threads[u][j].op = "Activate"
                    /\ x.threads[t][i].s = x.threads[u][j].s) => t = u /\ i = j

VARIABLES
    scenario,     \* the scenario played
    next,         \* the next call of each of its threads
    stack,        \* thread -> frames
    link,         \* end -> what ipcz holds of it
    sent,         \* end -> messages that were transmitted from it, in order
    log           \* end -> notifications of its activity handler

calls == <<scenario, next>>

End == 1 .. 2
Peer(s) == 3 - s
Caller == 3 .. 2 + MaxThreads
Thread == End \cup Caller

Frame(op, s, arg) == [op |-> op, s |-> s, arg |-> arg]
Top(t) == Head(stack[t])
At(t, op) == stack[t] # <<>> /\ Top(t).op = op
Proceed(t, frames) == stack' = [stack EXCEPT ![t] = frames \o Tail(@)]

\* Some thread other than t is within the call op on s.
Within(t, op, s) ==
    \E u \in Thread \ {t} : \E i \in DOMAIN stack[u] : stack[u][i].op = op /\ stack[u][i].s = s

(***************************************************************************)
(* What ipcz holds of an end: the state of the NodeLink that listens to    *)
(* it, the reference to itself that the driver's handle stands for, and    *)
(* whether the driver object is closed.                                    *)
(***************************************************************************)
NewEnd == [state |-> "kNeverActivated", handle |-> FALSE, closed |-> FALSE]

\* DriverTransport::Activate() takes the reference, and the driver starts the
\* thread of the end with the frame `loop'.
ActivateWith(t, loop) ==
    /\ At(t, "Activate")
    /\ LET s == Top(t).s
       IN  /\ link' = [link EXCEPT ![s].state = "kActive", ![s].handle = TRUE]
           /\ stack' = [stack EXCEPT ![t] = Tail(@), ![s] = <<loop>>]
    /\ UNCHANGED <<calls, sent, log>>

\* NodeLink::Deactivate() deactivates its transport once.
Deactivate(t) ==
    /\ At(t, "Deactivate")
    /\ LET s == Top(t).s
       IN  IF link[s].state = "kActive"
           THEN /\ link' = [link EXCEPT ![s].state = "kDeactivated"]
                /\ Proceed(t, <<Frame("DeactivateTransport", s, FALSE)>>)
           ELSE Proceed(t, <<>>) /\ UNCHANGED link
    /\ UNCHANGED <<calls, sent, log>>

\* What a NodeLink does with a message of the model: nothing, an answer, or its
\* own deactivation.
Answer(m) == [m EXCEPT !.id = @ + 10, !.then = "accept"]
Reaction(s, m) ==
    CASE m.then = "reply"      -> <<Frame("Transmit", s, Answer(m))>>
      [] m.then = "deactivate" -> <<Frame("Deactivate", s, FALSE)>>
      [] OTHER                 -> <<>>

\* NotifyTransport() with a message; `more' is what the driver does after it.
\* A frame "Returned" marks that the handler has not returned yet.
NotifyMessage(t, s, m, fds, more) ==
    /\ log' = [log EXCEPT ![s] = Append(@, [kind |-> "message", m |-> m, fds |-> fds])]
    /\ Proceed(t, Reaction(s, m) \o <<Frame("Returned", s, FALSE)>> \o more)
    /\ UNCHANGED link

\* A notification without message.
Notice(kind) == [kind |-> kind, m |-> <<>>, fds |-> <<>>]

\* The error is passed on to NodeLink::HandleTransportError().
NotifyError(t) ==
    /\ At(t, "NotifyError")
    /\ LET s == Top(t).s
       IN  /\ log' = [log EXCEPT ![s] = Append(@, Notice("error"))]
           /\ Proceed(t, <<Frame("Deactivate", s, FALSE), Frame("Returned", s, FALSE)>>)
    /\ UNCHANGED <<calls, link, sent>>

\* The driver's reference comes to an end with its last call.
NotifyDeactivated(t) ==
    /\ At(t, "NotifyDeactivated")
    /\ LET s == Top(t).s
       IN  /\ log' = [log EXCEPT ![s] = Append(@, Notice("deactivated"))]
           /\ link' = [link EXCEPT ![s].handle = FALSE]
           /\ Proceed(t, <<Frame("Returned", s, FALSE)>>)
    /\ UNCHANGED <<calls, sent>>

\* join() returns once the thread of the end has ended.
Join(t) ==
    /\ At(t, "Join")
    /\ stack[Top(t).s] = <<>>
    /\ Proceed(t, <<>>)
    /\ UNCHANGED <<calls, link, sent, log>>

\* The handler returns to the driver.
Returned(t) ==
    /\ At(t, "Returned")
    /\ Proceed(t, <<>>)
    /\ UNCHANGED <<calls, link, sent, log>>

\* The last reference to an end that was deactivated is dropped, and with it
\* the DriverObject.
CloseEnd(s) ==
    /\ link[s].state = "kDeactivated" /\ ~link[s].handle /\ ~link[s].closed
    /\ \A t \in Thread : \A i \in DOMAIN stack[t] : stack[t][i].s # s
    /\ link' = [link EXCEPT ![s].closed = TRUE]
    /\ UNCHANGED <<calls, stack, sent, log>>

Script(t) == IF t - 2 \in DOMAIN scenario.threads THEN scenario.threads[t - 2] ELSE <<>>

\* A thread of the scenario makes its next call.  A NodeLink is used once it is
\* activated.
StartCall(t) ==
    /\ stack[t] = <<>> /\ next[t] <= Len(Script(t))
    /\ LET call == Script(t)[next[t]]
       IN  /\ call.op = "Activate" \/ link[call.s].state # "kNeverActivated"
           /\ stack' = [stack EXCEPT ![t] = <<Frame(call.op, call.s, call.m)>>]
    /\ next' = [next EXCEPT ![t] = @ + 1]
    /\ UNCHANGED <<scenario, link, sent, log>>

IpczStep(t) == Deactivate(t) \/ NotifyError(t) \/ NotifyDeactivated(t) \/ Join(t) \/ Returned(t)

InitIpcz ==
    /\ scenario \in Scenarios
    /\ next = [t \in Caller |-> 1]
    /\ stack = [t \in Thread |-> <<>>]
    /\ link = [s \in End |-> NewEnd]
    /\ sent = [s \in End |-> <<>>]
    /\ log = [s \in End |-> <<>>]
=============================================================================
