--------------------------- MODULE AsyncTransport --------------------------
(***************************************************************************)
(* The transport of the asynchronous reference driver, which connects two  *)
(* nodes of one process: each end has a thread that runs the tasks posted  *)
(* by the other end, and a one-shot notification that wakes it.            *)
(***************************************************************************)
EXTENDS DriverTransport

VARIABLE async    \* end -> AsyncTransport

NewAsync ==
    [active |-> FALSE,         \* active_
     joinable |-> FALSE,       \* task_thread_
     tasks |-> <<>>,           \* tasks_
     notified |-> FALSE]       \* wait_for_task_->HasBeenNotified()

MessageTask(m) == [error |-> FALSE, m |-> m]
ErrorTask == [error |-> TRUE, m |-> <<>>]

\* PostTask() on the end s, with the task thread notified.
PostTask(s, task) ==
    async' = [async EXCEPT ![s].tasks = Append(@, task), ![s].notified = TRUE]

AsyncActivate(t) ==
    /\ ActivateWith(t, Frame("RunTasks", Top(t).s, FALSE))
    /\ async' = [async EXCEPT ![Top(t).s].active = TRUE, ![Top(t).s].joinable = TRUE]

AsyncTransmit(t) ==
    /\ At(t, "Transmit")
    /\ PostTask(Peer(Top(t).s), MessageTask(Top(t).arg))
    /\ sent' = [sent EXCEPT ![Top(t).s] = Append(@, Top(t).arg)]
    /\ Proceed(t, <<>>)
    /\ UNCHANGED <<calls, link, log>>

\* The calling thread joins the task thread unless it is the task thread.
AsyncDeactivate(t) ==
    /\ At(t, "DeactivateTransport")
    /\ LET s == Top(t).s
       IN  /\ async' = [async EXCEPT ![s].active = FALSE, ![s].joinable = FALSE, ![s].notified = TRUE]
           /\ Proceed(t, IF t # s THEN <<Frame("Join", s, FALSE)>> ELSE <<>>)
    /\ UNCHANGED <<calls, link, sent, log>>

\* Close() of the driver object tells the peer.
AsyncClose(s) ==
    /\ CloseEnd(s)
    /\ PostTask(Peer(s), ErrorTask)

(***************************************************************************)
(* The task thread.                                                        *)
(***************************************************************************)
\* RunTasksUntilDeactivation(): the section at the head of its loop.
RunTasks(s) ==
    /\ At(s, "RunTasks")
    /\ IF ~async[s].active
       THEN Proceed(s, <<Frame("NotifyDeactivated", s, FALSE)>>) /\ UNCHANGED async
       ELSE /\ async' = [async EXCEPT ![s].tasks = <<>>]
            /\ Proceed(s, <<IF async[s].tasks = <<>> THEN Frame("WaitForTask", s, FALSE)
                            ELSE Frame("Run", s, async[s].tasks)>>)
    /\ UNCHANGED <<calls, link, sent, log>>

WaitForTask(s) ==
    /\ At(s, "WaitForTask")
    /\ async[s].notified
    /\ Proceed(s, <<Frame("Rearm", s, FALSE)>>)
    /\ UNCHANGED <<calls, link, sent, log, async>>

\* A new notification replaces the one that was used.
Rearm(s) ==
    /\ At(s, "Rearm")
    /\ async' = [async EXCEPT ![s].notified = FALSE]
    /\ Proceed(s, <<Frame("RunTasks", s, FALSE)>>)
    /\ UNCHANGED <<calls, link, sent, log>>

\* One task of the batch.  A message that is refused ends the thread.
Run(s) ==
    /\ At(s, "Run")
    /\ LET tasks == Top(s).arg
           task == Head(tasks)
           more == IF Len(tasks) = 1 THEN <<Frame("RunTasks", s, FALSE)>>
                   ELSE <<Frame("Run", s, Tail(tasks))>>
       IN  IF task.error
           THEN Proceed(s, <<Frame("NotifyError", s, FALSE)>> \o more) /\ UNCHANGED <<link, log>>
           ELSE NotifyMessage(s, s, task.m, [j \in 1 .. task.m.fds |-> <<task.m, j>>],
                    IF task.m.then = "reject"
                    THEN <<Frame("NotifyError", s, FALSE), Frame("NotifyDeactivated", s, FALSE)>>
                    ELSE more)
    /\ UNCHANGED <<calls, sent, async>>

AsyncStep(t) == AsyncActivate(t) \/ AsyncTransmit(t) \/ AsyncDeactivate(t)
AsyncThread(s) == RunTasks(s) \/ WaitForTask(s) \/ Rearm(s) \/ Run(s)

InitAsync == async = [s \in End |-> NewAsync]
=============================================================================
