-------------------------- MODULE SocketTransport --------------------------
(***************************************************************************)
(* The transport of the multiprocess reference driver: a stream socket     *)
(* with an I/O thread at each end, a queue of messages that the socket did *)
(* not take, and a pair of sockets to wake the I/O thread.  A critical     *)
(* section of the code is one step.                                        *)
(*                                                                         *)
(* A byte is <<m, k>>, the k-th of message m with its header of HeaderSize *)
(* bytes, so that bytes that were lost, repeated or reordered show.  A     *)
(* file descriptor is <<m, j>>.                                            *)
(***************************************************************************)
EXTENDS DriverTransport, Folds

CONSTANTS
    HeaderSize,   \* sizeof(Header)
    BufferSize,   \* bytes in one buffer of the kernel
    Capacity,     \* such buffers on their way to an end
    ReadSize      \* kDefaultReadSize

ASSUME KernelAssumption ==
    /\ HeaderSize \in Nat /\ HeaderSize > 0
    /\ BufferSize \in Nat /\ BufferSize > HeaderSize
    /\ Capacity \in Nat /\ Capacity > 0
    /\ ReadSize \in Nat /\ ReadSize > 0

VARIABLES
    sock,         \* end -> SocketTransport
    wire          \* end -> buffers of the kernel that it can read

socketvars == <<sock, wire>>

NewSocket ==
    [transport |-> TRUE,       \* MultiprocessTransport::transport_
     joinable |-> FALSE,       \* io_thread_
     shutdown |-> FALSE,       \* shutdown_callback_
     done |-> FALSE,           \* is_io_thread_done_
     signal |-> FALSE,         \* a byte in signal_receiver_
     queue |-> <<>>,           \* outgoing_queue_
     data |-> <<>>,            \* occupied_data_
     descriptors |-> <<>>,     \* occupied_descriptors_
     open |-> TRUE,            \* socket_
     reset |-> FALSE]          \* the error that poll() reports

Least(S) == CHOOSE x \in S : \A y \in S : x <= y
Greatest(S) == CHOOSE x \in S : \A y \in S : y <= x

Bytes(m) == [k \in 1 .. HeaderSize + m.size |-> <<m, k>>]
Fds(m) == [j \in 1 .. m.fds |-> <<m, j>>]
Unsent(bytes, fds) == [bytes |-> bytes, fds |-> fds]

(***************************************************************************)
(* The kernel.  A write is cut into buffers; as many as fit are taken, the *)
(* first with all descriptors.  A read stops behind descriptors.           *)
(***************************************************************************)
Buffers(bytes, fds) ==
    [i \in 1 .. (Len(bytes) + BufferSize - 1) \div BufferSize |->
        Unsent(SubSeq(bytes, (i - 1) * BufferSize + 1, Least({i * BufferSize, Len(bytes)})),
               IF i = 1 THEN fds ELSE <<>>)]

\* The bytes of the first buffer, of the second, and so on.
BytesIn(buffers) ==
    MapThenFoldSet(LAMBDA first, others : first \o others, <<>>,
                   LAMBDA i : buffers[i].bytes, Least, DOMAIN buffers)

\* sendmsg() on the socket of s: whether the peer is still there, how many bytes
\* were taken, and what the peer can read then.
TrySend(s, bytes, fds) ==
    LET all == Buffers(bytes, fds)
        taken == SubSeq(all, 1, Least({Len(all), Capacity - Len(wire[Peer(s)])}))
    IN  IF sock[Peer(s)].open
        THEN [ok |-> TRUE, bytes |-> Len(BytesIn(taken)), wire |-> wire[Peer(s)] \o taken]
        ELSE [ok |-> FALSE, bytes |-> 0, wire |-> wire[Peer(s)]]

\* recvmsg() on the socket of s.
Recvmsg(s) ==
    LET w == wire[s]
        last == Least({Len(w)} \cup {i \in DOMAIN w : w[i].fds # <<>>})
        Upto(i) == BytesIn(SubSeq(w, 1, i))
        n == Least({ReadSize, Len(Upto(last))})
        whole == Greatest({i \in 0 .. last : Len(Upto(i)) <= n})
        part == n - Len(Upto(whole))
        rest == SubSeq(w, whole + 1, Len(w))
    IN  [bytes |-> SubSeq(Upto(last), 1, n),
         fds |-> IF n > Len(Upto(last - 1)) THEN w[last].fds ELSE <<>>,
         wire |-> IF part = 0 THEN rest
                  ELSE <<Unsent(SubSeq(rest[1].bytes, part + 1, Len(rest[1].bytes)), <<>>)>> \o Tail(rest)]

\* What poll() reports of the socket of s.
Readable(s) == wire[s] # <<>> \/ ~sock[Peer(s)].open
Writable(s) == Len(wire[Peer(s)]) < Capacity \/ ~sock[Peer(s)].open

(***************************************************************************)
(* Sending, which MultiprocessTransport::Transmit() does with              *)
(* transport_mutex_ held: Busy says that another thread holds it.          *)
(***************************************************************************)
Busy(t, s) == Within(t, "WakeIOThread", s)

\* What is left of a message after a first attempt that moved n bytes.
Remainder(m, n) ==
    LET header == SubSeq(Bytes(m), 1, HeaderSize)
        data == SubSeq(Bytes(m), HeaderSize + 1, HeaderSize + m.size)
        sent_data == IF n < HeaderSize THEN n ELSE n - HeaderSize
    IN  Unsent((IF n < HeaderSize THEN SubSeq(header, n + 1, HeaderSize) ELSE <<>>)
                   \o SubSeq(data, sent_data + 1, m.size),
               IF sent_data # 0 THEN <<>> ELSE Fds(m))

\* Mutant: a message does not wait for those in the queue.
SendAtOnce(t, s, m) ==
    \E r \in {TrySend(s, Bytes(m), Fds(m))} :
        /\ wire' = [wire EXCEPT ![Peer(s)] = r.wire]
        /\ sent' = IF r.ok THEN [sent EXCEPT ![s] = Append(@, m)] ELSE sent
        /\ IF r.ok /\ r.bytes < HeaderSize + m.size
           THEN /\ sock' = [sock EXCEPT ![s].queue = Append(@, Remainder(m, r.bytes))]
                /\ Proceed(t, <<Frame("WakeIOThread", s, FALSE)>>)
           ELSE Proceed(t, <<>>) /\ UNCHANGED sock

\* Mutant: what was queued is left to the next time the I/O thread is woken.
SendUnwoken(t, s, m) ==
    IF sock[s].queue # <<>>
    THEN /\ sock' = [sock EXCEPT ![s].queue = Append(@, Unsent(Bytes(m), Fds(m)))]
         /\ sent' = [sent EXCEPT ![s] = Append(@, m)]
         /\ Proceed(t, <<>>)
         /\ UNCHANGED wire
    ELSE \E r \in {TrySend(s, Bytes(m), Fds(m))} :
            /\ wire' = [wire EXCEPT ![Peer(s)] = r.wire]
            /\ sent' = IF r.ok THEN [sent EXCEPT ![s] = Append(@, m)] ELSE sent
            /\ sock' = IF r.ok /\ r.bytes < HeaderSize + m.size
                       THEN [sock EXCEPT ![s].queue = <<Remainder(m, r.bytes)>>] ELSE sock
            /\ Proceed(t, <<>>)

\* SocketTransport::Send(): messages go through the queue while it is not empty.
Send(t, s, m) ==
    IF sock[s].queue # <<>>
    THEN /\ sock' = [sock EXCEPT ![s].queue = Append(@, Unsent(Bytes(m), Fds(m)))]
         /\ sent' = [sent EXCEPT ![s] = Append(@, m)]
         /\ Proceed(t, <<>>)
         /\ UNCHANGED wire
    ELSE \E r \in {TrySend(s, Bytes(m), Fds(m))} :
            /\ wire' = [wire EXCEPT ![Peer(s)] = r.wire]
            /\ sent' = IF r.ok THEN [sent EXCEPT ![s] = Append(@, m)] ELSE sent
            /\ IF r.ok /\ r.bytes < HeaderSize + m.size
               THEN /\ sock' = [sock EXCEPT ![s].queue = <<Remainder(m, r.bytes)>>]
                    /\ Proceed(t, <<Frame("WakeIOThread", s, FALSE)>>)
               ELSE Proceed(t, <<>>) /\ UNCHANGED sock

\* Transmit() is silent about a transport that was deactivated.
SocketTransmit(t) ==
    /\ At(t, "Transmit")
    /\ ~Busy(t, Top(t).s)
    /\ IF sock[Top(t).s].transport THEN Send(t, Top(t).s, Top(t).arg)
       ELSE Proceed(t, <<>>) /\ UNCHANGED <<sent, socketvars>>
    /\ UNCHANGED <<calls, link, log>>

WakeIOThread(t) ==
    /\ At(t, "WakeIOThread")
    /\ sock' = [sock EXCEPT ![Top(t).s].signal = TRUE]
    /\ Proceed(t, <<>>)
    /\ UNCHANGED <<calls, link, sent, log, wire>>

(***************************************************************************)
(* Activation and deactivation.                                            *)
(***************************************************************************)
SocketActivate(t) ==
    /\ ActivateWith(t, Frame("Loop", Top(t).s, FALSE))
    /\ sock' = [sock EXCEPT ![Top(t).s].joinable = TRUE]
    /\ UNCHANGED wire

\* MultiprocessTransport::Deactivate() gives its SocketTransport up.
TakeTransport(t) ==
    /\ At(t, "DeactivateTransport")
    /\ ~Busy(t, Top(t).s)
    /\ sock' = [sock EXCEPT ![Top(t).s].transport = FALSE]
    /\ Proceed(t, <<Frame("Shutdown", Top(t).s, FALSE)>>)
    /\ UNCHANGED <<calls, link, sent, log, wire>>

\* Mutant: the callback runs at once, while the I/O thread may be in the handler.
ShutdownAtOnce(t) ==
    /\ At(t, "Shutdown")
    /\ LET s == Top(t).s
       IN  /\ sock' = IF sock[s].done THEN sock ELSE [sock EXCEPT ![s].signal = TRUE, ![s].shutdown = TRUE]
           /\ Proceed(t, <<Frame("NotifyDeactivated", s, FALSE), Frame("TakeThread", s, FALSE)>>)
    /\ UNCHANGED <<calls, link, sent, log, wire>>

\* SocketTransport::Deactivate(), first section: the I/O thread is left to run
\* the callback unless it is through with its loop.
Shutdown(t) ==
    /\ At(t, "Shutdown")
    /\ LET s == Top(t).s
       IN  /\ sock' = IF sock[s].done THEN sock
                      ELSE [sock EXCEPT ![s].shutdown = TRUE, ![s].signal = TRUE]
           /\ Proceed(t, <<Frame("TakeThread", s, FALSE)>>
                             \o IF sock[s].done THEN <<Frame("NotifyDeactivated", s, FALSE)>> ELSE <<>>)
    /\ UNCHANGED <<calls, link, sent, log, wire>>

\* Second section, and the choice between detach() and join().
TakeThread(t) ==
    /\ At(t, "TakeThread")
    /\ LET s == Top(t).s
       IN  /\ sock' = [sock EXCEPT ![s].joinable = FALSE]
           /\ Proceed(t, IF sock[s].joinable /\ t # s THEN <<Frame("Join", s, FALSE)>> ELSE <<>>)
    /\ UNCHANGED <<calls, link, sent, log, wire>>

\* The last reference to the SocketTransport goes with the I/O thread and the
\* calls of Deactivate(): the socket is closed.
CloseSocket(s) ==
    /\ sock[s].open /\ ~sock[s].transport /\ stack[s] = <<>>
    /\ \A op \in {"Shutdown", "TakeThread", "Join", "NotifyDeactivated"} : ~Within(s, op, s)
    /\ sock' = [sock EXCEPT ![s].open = FALSE, ![Peer(s)].reset = wire[s] # <<>>]
    /\ wire' = [wire EXCEPT ![s] = <<>>]
    /\ UNCHANGED <<calls, stack, link, sent, log>>

(***************************************************************************)
(* The I/O thread.                                                         *)
(***************************************************************************)
Exit(s) == <<Frame("ThreadDone", s, FALSE)>>
Failed(s) == <<Frame("NotifyError", s, FALSE)>> \o Exit(s)

\* RunIOThread() looks at the queue to decide what to wait for.
Loop(s) ==
    /\ At(s, "Loop")
    /\ Proceed(s, <<Frame("Poll", s, sock[s].queue # <<>>)>>)
    /\ UNCHANGED <<calls, link, sent, log, socketvars>>

PollReturns(s) ==
    sock[s].reset \/ Readable(s) \/ sock[s].signal \/ (Top(s).arg /\ Writable(s))

\* poll() returns, and the thread acts on what it reported.
Poll(s) ==
    /\ At(s, "Poll")
    /\ PollReturns(s)
    /\ Proceed(s, IF sock[s].reset THEN Failed(s)
                  ELSE (IF Top(s).arg /\ Writable(s) THEN <<Frame("Flush", s, 0)>> ELSE <<>>)
                       \o <<Frame(CASE sock[s].signal -> "ClearSignal"
                                    [] ~sock[s].signal /\ Readable(s) -> "Receive"
                                    [] OTHER -> "Loop", s, FALSE)>>)
    /\ UNCHANGED <<calls, link, sent, log, socketvars>>

\* TryFlushingOutgoingQueue(): one attempt, with the message at index i.  What
\* was not moved whole is stored again.
Flush(s) ==
    /\ At(s, "Flush")
    /\ LET i == Top(s).arg + 1
       IN  IF i > Len(sock[s].queue)
           THEN /\ Proceed(s, <<Frame("Flushed", s, Top(s).arg)>>)
                /\ UNCHANGED socketvars
           ELSE \E r \in {TrySend(s, sock[s].queue[i].bytes, sock[s].queue[i].fds)} :
                   /\ wire' = [wire EXCEPT ![Peer(s)] = r.wire]
                   /\ sock' = sock
                   /\ Proceed(s, CASE ~r.ok -> <<Frame("NotifyError", s, FALSE)>>
                                   [] r.ok /\ r.bytes < Len(sock[s].queue[i].bytes) -> <<Frame("Flushed", s, i - 1)>>
                                   [] OTHER -> <<Frame("Flush", s, i)>>)
    /\ UNCHANGED <<calls, link, sent, log>>

\* Its last section: i messages went out.
Flushed(s) ==
    /\ At(s, "Flushed")
    /\ LET i == Top(s).arg
           q == sock[s].queue
       IN  /\ sock' = [sock EXCEPT ![s].queue = SubSeq(q, i + 1, Len(q))]
           /\ Proceed(s, IF i = 0 \/ i = Len(q) THEN <<>> ELSE <<Frame("Flush", s, 0)>>)
    /\ UNCHANGED <<calls, link, sent, log, wire>>

ClearIOThreadSignal(s) ==
    /\ At(s, "ClearSignal")
    /\ sock' = [sock EXCEPT ![s].signal = FALSE]
    /\ Proceed(s, IF sock[s].shutdown THEN Exit(s) ELSE <<Frame("Loop", s, FALSE)>>)
    /\ UNCHANGED <<calls, link, sent, log, wire>>

\* Mutant: the end of the stream is taken for a read of nothing.
ReceiveAnyway(s) ==
    /\ At(s, "Receive")
    /\ IF wire[s] = <<>>
       THEN Proceed(s, <<Frame("Loop", s, FALSE)>>) /\ UNCHANGED socketvars
       ELSE \E r \in {Recvmsg(s)} :
              /\ wire' = [wire EXCEPT ![s] = r.wire]
              /\ sock' = [sock EXCEPT ![s].data = @ \o r.bytes, ![s].descriptors = @ \o r.fds]
              /\ Proceed(s, <<Frame("Dispatch", s, FALSE)>>)
    /\ UNCHANGED <<calls, link, sent, log>>

\* recvmsg() and CommitRead().  Nothing to read means that the peer is gone.
Receive(s) ==
    /\ At(s, "Receive")
    /\ IF wire[s] = <<>>
       THEN Proceed(s, Failed(s)) /\ UNCHANGED socketvars
       ELSE \E r \in {Recvmsg(s)} :
              /\ wire' = [wire EXCEPT ![s] = r.wire]
              /\ sock' = [sock EXCEPT ![s].data = @ \o r.bytes, ![s].descriptors = @ \o r.fds]
              /\ Proceed(s, <<Frame("Dispatch", s, FALSE)>>)
    /\ UNCHANGED <<calls, link, sent, log>>

\* The message that the bytes at the front claim to be, and its whole extent.
NextMessage(s) == sock[s].data[1][1]
Complete(s) ==
    /\ Len(sock[s].data) >= HeaderSize
    /\ Len(sock[s].data) >= HeaderSize + NextMessage(s).size
    /\ Len(sock[s].descriptors) >= NextMessage(s).fds

\* TryDispatchMessages(): one message, or back to the loop.  The handler refuses
\* a message that NodeLink rejects.
Dispatch(s) ==
    /\ At(s, "Dispatch")
    /\ IF Complete(s)
       THEN LET m == NextMessage(s)
                n == HeaderSize + m.size
            IN  /\ sock' = [sock EXCEPT ![s].data = SubSeq(@, n + 1, Len(@)),
                                        ![s].descriptors = SubSeq(@, m.fds + 1, Len(@))]
                /\ NotifyMessage(s, s, [m EXCEPT !.whole = SubSeq(sock[s].data, 1, n) = Bytes(m)],
                                 SubSeq(sock[s].descriptors, 1, m.fds),
                                 IF m.then = "reject" THEN Failed(s) ELSE <<Frame("Dispatch", s, FALSE)>>)
       ELSE Proceed(s, <<Frame("Loop", s, FALSE)>>) /\ UNCHANGED <<sock, link, log>>
    /\ UNCHANGED <<calls, sent, wire>>

\* Mutant: the callback is copied out and stays.
ThreadDoneKeepingCallback(s) ==
    /\ At(s, "ThreadDone")
    /\ sock' = [sock EXCEPT ![s].done = TRUE]
    /\ Proceed(s, IF sock[s].shutdown THEN <<Frame("NotifyDeactivated", s, FALSE)>> ELSE <<>>)
    /\ UNCHANGED <<calls, link, sent, log, wire>>

\* RunIOThreadForTransport() once the loop has ended.
ThreadDone(s) ==
    /\ At(s, "ThreadDone")
    /\ sock' = [sock EXCEPT ![s].shutdown = FALSE, ![s].done = TRUE]
    /\ Proceed(s, IF sock[s].shutdown THEN <<Frame("NotifyDeactivated", s, FALSE)>> ELSE <<>>)
    /\ UNCHANGED <<calls, link, sent, log, wire>>

SocketStep(t) ==
    \/ SocketTransmit(t) \/ WakeIOThread(t)
    \/ SocketActivate(t) \/ TakeTransport(t) \/ Shutdown(t) \/ TakeThread(t)

SocketThread(s) ==
    \/ Loop(s) \/ Poll(s) \/ Flush(s) \/ Flushed(s)
    \/ ClearIOThreadSignal(s) \/ Receive(s) \/ Dispatch(s) \/ ThreadDone(s)

InitSocket ==
    /\ sock = [s \in End |-> NewSocket]
    /\ wire = [s \in End |-> <<>>]
============================================================================
