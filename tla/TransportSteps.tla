--------------------------- MODULE TransportSteps --------------------------
(***************************************************************************)
(* The invariant of Transport, and the steps that keep it and neither      *)
(* enter a handler nor start a thread: what they do to the stack of a      *)
(* thread, to an end and to the callback that is called when the end is    *)
(* deactivated.                                                            *)
(***************************************************************************)
EXTENDS Transport, TLAPS

----------------------------------------------------------------------------
(* The shape of the stacks. *)

\* The calls that a handler makes, and the frames that stand for them.
Reacts == {"Transmit", "WakeIOThread", "Deactivate", "DeactivateTransport", "Shutdown", "TakeThread"}

\* Where a thread of a driver is in its loop, and what it does before it goes on.
Bottom == {"Loop", "Poll", "ClearSignal", "Receive", "Dispatch", "ThreadDone",
           "RunTasks", "WaitForTask", "Rearm", "Run", "NotifyDeactivated"}
Upper == {"Flush", "Flushed", "NotifyError"}

Base(q) == q # <<>> /\ Head(q).op \in Bottom /\ Tail(q) = <<>>
Quiet(q) == q = <<>> \/ Base(q) \/ (q # <<>> /\ Head(q).op \in Upper /\ Base(Tail(q)))
Handling(q) == q # <<>> /\ Head(q).op = "Returned" /\ Quiet(Tail(q))
Reacting(q) == q # <<>> /\ Head(q).op \in Reacts /\ Handling(Tail(q))
DriverShape(q) == Quiet(q) \/ Handling(q) \/ Reacting(q)

\* What a thread of the application has to do still.
Calls == Reacts \cup {"Activate", "Join", "NotifyDeactivated", "Returned"}
CallerShape(q) ==
    \/ q = <<>>
    \/ q # <<>> /\ Head(q).op \in Calls /\ Tail(q) = <<>>
    \/ /\ q # <<>> /\ Head(q).op \in {"TakeThread", "Join"} /\ Tail(q) # <<>>
       /\ Head(Tail(q)).op = "NotifyDeactivated" /\ Tail(Tail(q)) = <<>>

Elements(q) == {q[i] : i \in DOMAIN q}
Ops(q) == {q[i].op : i \in DOMAIN q}
Ends(q) == {q[i].s : i \in DOMAIN q}
IsStack(q) == q \in Seq(Elements(q))
Over(a, q) == <<a>> \o q

\* The stack of the thread t, all of whose frames are about one end.
Fits(t, q) ==
    /\ IsStack(q)
    /\ t \in End => DriverShape(q) /\ Ends(q) \subseteq {t}
    /\ t \in Caller => CallerShape(q) /\ Ends(q) \subseteq End
    /\ q # <<>> => Ends(q) = {Head(q).s}

Stacks ==
    /\ stack = [t \in Thread |-> stack[t]]
    /\ \A t \in Thread : Fits(t, stack[t])

----------------------------------------------------------------------------
(* Who may do what to an end. *)

Concerns(q, s) == q # <<>> /\ Head(q).s = s

\* A thread with the stack q has set out to deactivate s and not given the driver
\* its callback yet, will make the last call of the handler of s, is within a
\* handler of s, or is to activate s.
Stopping(q, s) == Concerns(q, s) /\ Head(q).op \in {"DeactivateTransport", "Shutdown"}
Telling(q, s) == Concerns(q, s) /\ "NotifyDeactivated" \in Ops(q)
Inside(q, s) == Concerns(q, s) /\ "Returned" \in Ops(q)
Activating(q, s) == Concerns(q, s) /\ Head(q).op = "Activate"

\* Only op is left to be done.
Ending(q, op) == q # <<>> /\ Head(q).op = op /\ Tail(q) = <<>>

Told(s) == \E i \in DOMAIN log[s] : log[s][i].kind = "deactivated"

Held == [state : {"kNeverActivated", "kActive", "kDeactivated"}, handle : BOOLEAN, closed : BOOLEAN]
SocketFields ==
    {"transport", "joinable", "shutdown", "done", "signal", "queue", "data", "descriptors",
     "open", "reset"}
Sockets(x) == x = [s \in End |-> [f \in SocketFields |-> x[s][f]]]
AsyncFields == {"active", "joinable", "tasks", "notified"}
Asyncs(x) == x = [s \in End |-> [f \in AsyncFields |-> x[s][f]]]

Variables ==
    /\ scenario \in Scenarios
    /\ next \in [Caller -> Nat] /\ \A t \in Caller : next[t] >= 1
    /\ link \in [End -> Held]
    /\ log = [s \in End |-> log[s]] /\ \A s \in End : IsStack(log[s])
    /\ Sockets(sock) /\ Asyncs(async)

\* An end is activated by the one call that the scenario has for that.
ActivationOf(s) ==
    \A t \in Caller :
        /\ Activating(stack[t], s) => link[s].state = "kNeverActivated"
        /\ \A i \in DOMAIN Script(t) :
              (i >= next[t] /\ Script(t)[i].op = "Activate" /\ Script(t)[i].s = s) =>
                 link[s].state = "kNeverActivated" /\ \A u \in Caller : ~Activating(stack[u], s)
        /\ \A u \in Caller : Activating(stack[t], s) /\ Activating(stack[u], s) => t = u

\* The last call of a handler is the last.
FinalityOf(s) ==
    /\ link[s].state = "kNeverActivated" => stack[s] = <<>>
    /\ \A i \in DOMAIN log[s] : log[s][i].kind = "deactivated" => i = Len(log[s])
    /\ Told(s) => /\ link[s].state = "kDeactivated"
                  /\ stack[s] = <<>> \/ Ending(stack[s], "Returned")
                  /\ \A t \in Thread : ~Telling(stack[t], s)
    /\ \A t \in Thread : Stopping(stack[t], s) => link[s].state = "kDeactivated"
    /\ \A t \in Caller : Inside(stack[t], s) => Told(s) /\ stack[s] = <<>>
    /\ \A t \in Caller : Telling(stack[t], s) => stack[s] = <<>>
    /\ \A t, u \in Caller : Inside(stack[t], s) /\ Inside(stack[u], s) => t = u

\* On a socket the callback is either with the thread that deactivates the end, or
\* in shutdown_callback_, or about to be called by a thread that has taken it out.
CallbackOf(s) ==
    /\ \A t, u \in Thread : Stopping(stack[t], s) /\ Stopping(stack[u], s) => t = u
    /\ \A t, u \in Thread : Telling(stack[t], s) /\ Telling(stack[u], s) => t = u
    /\ \A t \in Thread : Stopping(stack[t], s) =>
          ~sock[s].shutdown /\ ~Told(s) /\ \A u \in Thread : ~Telling(stack[u], s)
    /\ sock[s].shutdown =>
          /\ link[s].state = "kDeactivated" /\ ~sock[s].done /\ ~Told(s)
          /\ \A t \in Thread : ~Telling(stack[t], s)
    /\ \A t \in Thread : Telling(stack[t], s) => link[s].state = "kDeactivated" /\ sock[s].done
    /\ sock[s].done =>
          /\ link[s].state # "kNeverActivated"
          /\ \/ stack[s] = <<>> \/ Ending(stack[s], "NotifyDeactivated")
             \/ Ending(stack[s], "Returned") /\ Told(s)
    /\ Told(s) => sock[s].done

\* Otherwise the task thread alone calls the handler, for the last time when the
\* end is deactivated or just about to be.
TaskThreadOf(s) ==
    /\ link[s].state # "kDeactivated" /\ stack[s] # <<>> => async[s].active
    /\ \A t \in Caller : ~Telling(stack[t], s) /\ ~Inside(stack[t], s)
    /\ Telling(stack[s], s) =>
          \/ link[s].state = "kDeactivated"
          \/ "NotifyError" \in Ops(stack[s])
          \/ Head(stack[s]).op = "Deactivate"

Activation == \A s \in End : ActivationOf(s)
Finality == \A s \in End : FinalityOf(s)
OneCallback == \A s \in End : CallbackOf(s)
OneTaskThread == \A s \in End : TaskThreadOf(s)

IInv ==
    /\ Stacks /\ Variables /\ Activation /\ Finality
    /\ scenario.driver = "multiprocess" => OneCallback
    /\ scenario.driver = "async" => OneTaskThread

----------------------------------------------------------------------------
(* Stacks as lists. *)

\* Sequences with the same elements in the same places are the same.
LEMMA SameElements ==
    ASSUME NEW S, NEW q \in Seq(S), NEW r \in Seq(S), Len(q) = Len(r),
           \A i \in 1 .. Len(q) : q[i] = r[i]
    PROVE  q = r
<1>1. q = [i \in 1 .. Len(q) |-> q[i]] /\ r = [i \in 1 .. Len(r) |-> r[i]]
  OBVIOUS
<1> QED
  BY <1>1

\* The top frame and those below it.
LEMMA HeadAndTail ==
    ASSUME NEW S, NEW q \in Seq(S), q # <<>>
    PROVE  /\ Head(q) = q[1] /\ Tail(q) \in Seq(S) /\ Len(Tail(q)) = Len(q) - 1
           /\ \A i \in 1 .. Len(Tail(q)) : Tail(q)[i] = q[i + 1]
  OBVIOUS

\* Nothing put before or behind a stack, as by a call that leaves nothing to do.
LEMMA NothingAdded ==
    ASSUME NEW S, NEW q \in Seq(S)
    PROVE  <<>> \o q = q /\ q \o <<>> = q
  OBVIOUS

\* Frames pushed at once or one after the other.
LEMMA Regrouped ==
    ASSUME NEW S, NEW q \in Seq(S), NEW r \in Seq(S), NEW f \in Seq(S)
    PROVE  (q \o r) \o f = q \o (r \o f)
<1> DEFINE one == (q \o r) \o f
           two == q \o (r \o f)
<1>1. q \o r \in Seq(S) /\ r \o f \in Seq(S)
  OBVIOUS
<1>2. one \in Seq(S) /\ two \in Seq(S) /\ Len(one) = Len(two)
  BY <1>1
<1>3. ASSUME NEW i \in 1 .. Len(one) PROVE one[i] = two[i]
  BY <1>1, <1>2
<1> HIDE DEF one, two
<1>4. one = two
  BY <1>2, <1>3, SameElements
<1> QED
  BY <1>4 DEF one, two

\* A sequence over any set is a stack.
LEMMA StackIs ==
    ASSUME NEW S, NEW q \in Seq(S)
    PROVE  IsStack(q)
<1>1. Len(q) \in Nat /\ DOMAIN q = 1 .. Len(q) /\ q = [i \in 1 .. Len(q) |-> q[i]]
  OBVIOUS
<1>2. q \in [1 .. Len(q) -> Elements(q)]
  BY <1>1 DEF Elements
<1> QED
  BY <1>1, <1>2 DEF IsStack

\* The stack of a thread that has nothing to do.
LEMMA NoFrames == IsStack(<<>>) /\ Ops(<<>>) = {} /\ Ends(<<>>) = {}
<1>1. <<>> \in Seq({})
  OBVIOUS
<1>2. IsStack(<<>>)
  BY Zenon, <1>1, StackIs
<1>3. DOMAIN <<>> = {}
  OBVIOUS
<1> QED
  BY <1>2, <1>3 DEF Ops, Ends

\* A frame on top of a stack.
LEMMA PushedFrame ==
    ASSUME NEW r, IsStack(r), NEW a
    PROVE  /\ IsStack(Over(a, r)) /\ Over(a, r) # <<>>
           /\ Head(Over(a, r)) = a /\ Tail(Over(a, r)) = r
           /\ Ops(Over(a, r)) = {a.op} \cup Ops(r) /\ Ends(Over(a, r)) = {a.s} \cup Ends(r)
<1> DEFINE S == Elements(r) \cup {a}
           q == <<a>> \o r
<1>1. r \in Seq(Elements(r)) /\ Elements(r) \subseteq S
  BY DEF IsStack
<1>2. r \in Seq(S) /\ <<a>> \in Seq(S)
  BY <1>1
<1> HIDE DEF S
<1>3. q \in Seq(S) /\ q # <<>> /\ Len(q) = Len(r) + 1 /\ Len(r) \in Nat
  BY <1>2
<1>4. q[1] = a /\ \A i \in 1 .. Len(r) : q[i + 1] = r[i]
  BY <1>2
<1> HIDE DEF q
<1>5. IsStack(q)
  BY <1>3, StackIs
<1>6. Head(q) = a
  BY <1>3, <1>4
<1>7. Tail(q) = r
  <2>1. Tail(q) \in Seq(S) /\ Len(Tail(q)) = Len(r)
    BY <1>3, HeadAndTail
  <2>2. \A i \in 1 .. Len(r) : Tail(q)[i] = r[i]
    BY <1>3, <1>4, <2>1, HeadAndTail
  <2> QED
    BY <1>2, <2>1, <2>2, SameElements
<1>8. DOMAIN q = 1 .. Len(r) + 1 /\ DOMAIN r = 1 .. Len(r)
  BY <1>2, <1>3
<1>9. /\ \A i \in DOMAIN q : q[i] = a \/ \E j \in DOMAIN r : q[i] = r[j]
      /\ \E i \in DOMAIN q : q[i] = a
      /\ \A j \in DOMAIN r : \E i \in DOMAIN q : q[i] = r[j]
  <2>1. ASSUME NEW i \in DOMAIN q, i # 1 PROVE i - 1 \in DOMAIN r /\ q[i] = r[i - 1]
    BY <1>3, <1>4, <1>8, <2>1
  <2>2. ASSUME NEW i \in DOMAIN r PROVE i + 1 \in DOMAIN q /\ q[i + 1] = r[i]
    BY <1>3, <1>4, <1>8
  <2>3. 1 \in DOMAIN q
    BY <1>3, <1>8
  <2> QED
    BY <1>4, <2>1, <2>2, <2>3
<1>10. Ops(q) = {a.op} \cup Ops(r) /\ Ends(q) = {a.s} \cup Ends(r)
  BY <1>9 DEF Ops, Ends
<1> QED
  BY <1>3, <1>5, <1>6, <1>7, <1>10 DEF q, Over

\* What is below the top.
LEMMA PoppedFrame ==
    ASSUME NEW q, IsStack(q), q # <<>>
    PROVE  IsStack(Tail(q)) /\ q = <<Head(q)>> \o Tail(q)
           /\ Ops(q) = {Head(q).op} \cup Ops(Tail(q)) /\ Ends(q) = {Head(q).s} \cup Ends(Tail(q))
<1>1. q \in Seq(Elements(q))
  BY DEF IsStack
<1>2. Tail(q) \in Seq(Elements(q))
  BY <1>1, HeadAndTail
<1>3. IsStack(Tail(q))
  BY Zenon, <1>2, StackIs
<1>4. q = <<Head(q)>> \o Tail(q)
  BY <1>1
<1> QED
  BY Zenon, <1>3, <1>4, PushedFrame DEF Over

\* Two frames, one after the other.
LEMMA TwoFrames ==
    ASSUME NEW a, NEW b
    PROVE  <<a, b>> = <<a>> \o <<b>>
<1>1. <<a>> \in Seq({a, b}) /\ <<b>> \in Seq({a, b}) /\ <<a, b>> \in Seq({a, b})
  OBVIOUS
<1>2. /\ <<a>> \o <<b>> \in Seq({a, b}) /\ Len(<<a>> \o <<b>>) = 2
      /\ (<<a>> \o <<b>>)[1] = a /\ (<<a>> \o <<b>>)[2] = b
  BY <1>1
<1>3. Len(<<a, b>>) = 2 /\ <<a, b>>[1] = a /\ <<a, b>>[2] = b
  OBVIOUS
<1>4. \A i \in 1 .. 2 : i = 1 \/ i = 2
  OBVIOUS
<1> QED
  BY Zenon, <1>1, <1>2, <1>3, <1>4, SameElements

\* Nothing, one frame and two, in front of a stack.
LEMMA Frames ==
    ASSUME NEW r, IsStack(r), NEW a, NEW b
    PROVE  /\ <<>> \o r = r
           /\ <<a>> \o r = Over(a, r)
           /\ <<a, b>> \o r = Over(a, Over(b, r))
<1> DEFINE S == Elements(r) \cup {a, b}
<1>1. r \in Seq(S) /\ <<a>> \in Seq(S) /\ <<b>> \in Seq(S)
  BY DEF IsStack
<1> HIDE DEF S
<1>2. <<a, b>> = <<a>> \o <<b>>
  BY TwoFrames
<1>3. <<>> \o r = r
  BY <1>1, NothingAdded
<1>4. (<<a>> \o <<b>>) \o r = <<a>> \o (<<b>> \o r)
  BY <1>1, Regrouped
<1> QED
  BY <1>2, <1>3, <1>4 DEF Over

\* A frame in front of others.
LEMMA MoreFrames ==
    ASSUME NEW r, IsStack(r), NEW f, IsStack(f), NEW a
    PROVE  (<<a>> \o f) \o r = Over(a, f \o r)
<1> DEFINE S == Elements(r) \cup Elements(f) \cup {a}
<1>1. r \in Seq(S) /\ f \in Seq(S) /\ <<a>> \in Seq(S)
  BY DEF IsStack
<1> HIDE DEF S
<1>2. (<<a>> \o f) \o r = <<a>> \o (f \o r)
  BY <1>1, Regrouped
<1> QED
  BY <1>2 DEF Over

----------------------------------------------------------------------------
(* The shapes of stacks. *)

\* The threads of the drivers are not those of the application.
LEMMA ThreadsDiffer == End \cap Caller = {} /\ Thread = End \cup Caller
<1>1. MaxThreads \in Nat
  BY ScenarioAssumption
<1> QED
  BY <1>1 DEF End, Caller, Thread

\* What is below the top frame of a stack.
LEMMA Below ==
    ASSUME NEW t, NEW q, Fits(t, q), q # <<>>
    PROVE  /\ IsStack(Tail(q)) /\ Ends(Tail(q)) \subseteq {Head(q).s}
           /\ Ops(q) = {Head(q).op} \cup Ops(Tail(q))
           /\ Tail(q) # <<>> => Head(Tail(q)).s = Head(q).s /\ Ends(Tail(q)) = {Head(q).s}
           /\ \A x : Telling(Tail(q), x) => Telling(q, x)
           /\ \A x : Inside(Tail(q), x) => Inside(q, x)
           /\ t \in End => Head(q).s = t
           /\ t \in Caller => Head(q).s \in End
<1>1. IsStack(q) /\ Ends(q) = {Head(q).s}
  BY DEF Fits
<1>2. /\ IsStack(Tail(q)) /\ Ops(q) = {Head(q).op} \cup Ops(Tail(q))
      /\ Ends(q) = {Head(q).s} \cup Ends(Tail(q))
  BY Zenon, <1>1, PoppedFrame
<1>3. Tail(q) # <<>> => Ends(Tail(q)) = {Head(Tail(q)).s} \cup Ends(Tail(Tail(q)))
  BY Zenon, <1>2, PoppedFrame
<1>4. Ends(Tail(q)) \subseteq {Head(q).s}
  BY <1>1, <1>2
<1>5. Tail(q) # <<>> => Head(Tail(q)).s = Head(q).s /\ Ends(Tail(q)) = {Head(q).s}
  BY Zenon, <1>3, <1>4
<1>6. t \in End => Head(q).s = t
  BY <1>1 DEF Fits
<1>7. t \in Caller => Head(q).s \in End
  BY <1>1 DEF Fits
<1> QED
  BY <1>2, <1>4, <1>5, <1>6, <1>7 DEF Telling, Inside, Concerns

\* The top frame is done with.
LEMMA Pop ==
    ASSUME NEW t \in Thread, NEW q, Fits(t, q), q # <<>>,
           Head(q).op \in Reacts \cup {"Returned", "Join"}
    PROVE  /\ Fits(t, Tail(q))
           /\ \A x : ~Stopping(Tail(q), x) /\ ~Activating(Tail(q), x)
<1>1. /\ IsStack(Tail(q)) /\ Ends(Tail(q)) \subseteq {Head(q).s}
      /\ Tail(q) # <<>> => Head(Tail(q)).s = Head(q).s /\ Ends(Tail(q)) = {Head(q).s}
      /\ t \in End => Head(q).s = t
      /\ t \in Caller => Head(q).s \in End
  BY Below
<1>2. ASSUME t \in End PROVE (Handling(Tail(q)) \/ Quiet(Tail(q)))
  BY Zenon, <1>2 DEF Fits, DriverShape, Reacting, Handling, Quiet, Base, Reacts, Bottom, Upper
<1>3. ASSUME t \in Caller
      PROVE  Tail(q) = <<>> \/ Ending(Tail(q), "NotifyDeactivated")
  BY <1>3 DEF Fits, CallerShape, Ending
<1>4. t \in End \/ t \in Caller
  BY ThreadsDiffer
<1>5. Fits(t, Tail(q))
  BY Zenon, <1>1, <1>2, <1>3 DEF Fits, DriverShape, CallerShape, Ending, Calls
<1>6. Tail(q) # <<>> => Head(Tail(q)).op \in {"Returned"} \cup Bottom \cup Upper
  BY <1>2, <1>3, <1>4 DEF Handling, Quiet, Base, Ending, Bottom
<1> QED
  BY ZenonT(40), <1>5, <1>6 DEF Stopping, Activating, Concerns, Bottom, Upper

\* A frame on top.
LEMMA Push ==
    ASSUME NEW q, IsStack(q), NEW a
    PROVE  /\ IsStack(Over(a, q)) /\ Over(a, q) # <<>>
           /\ Head(Over(a, q)) = a /\ Tail(Over(a, q)) = q
           /\ Ops(Over(a, q)) = {a.op} \cup Ops(q) /\ Ends(Over(a, q)) = {a.s} \cup Ends(q)
           /\ \A x : Stopping(Over(a, q), x) <=> a.s = x /\ a.op \in {"DeactivateTransport", "Shutdown"}
           /\ \A x : Activating(Over(a, q), x) <=> a.s = x /\ a.op = "Activate"
           /\ \A x : Telling(Over(a, q), x) <=>
                 a.s = x /\ (a.op = "NotifyDeactivated" \/ "NotifyDeactivated" \in Ops(q))
           /\ \A x : Inside(Over(a, q), x) <=> a.s = x /\ (a.op = "Returned" \/ "Returned" \in Ops(q))
BY ZenonT(40), PushedFrame DEF Stopping, Activating, Telling, Inside, Concerns

\* One frame in the place of another.
LEMMA Replace ==
    ASSUME NEW t \in Thread, NEW q, Fits(t, q), q # <<>>, NEW a, a.s = Head(q).s,
           \/ Head(q).op \in Reacts \ {"TakeThread"} /\ a.op \in Reacts
           \/ t \in Caller /\ Head(q).op \in {"TakeThread", "DeactivateTransport"} /\ a.op = "Join"
           \/ t \in End /\ Head(q).op \in Bottom /\ a.op \in Bottom
           \/ t \in End /\ Head(q).op \in Upper /\ a.op \in Upper
    PROVE  Fits(t, Over(a, Tail(q)))
<1> DEFINE r == Over(a, Tail(q))
<1>1. /\ IsStack(Tail(q)) /\ Ends(Tail(q)) \subseteq {Head(q).s}
      /\ t \in End => Head(q).s = t
      /\ t \in Caller => Head(q).s \in End
  BY Below
<1>2. /\ IsStack(r) /\ r # <<>> /\ Head(r) = a /\ Tail(r) = Tail(q) /\ Ends(r) = {a.s} \cup Ends(Tail(q))
  BY Zenon, <1>1, Push
<1> HIDE DEF r
<1>3. ASSUME t \in End PROVE DriverShape(r)
  BY Zenon, <1>2, <1>3, ThreadsDiffer DEF Fits, DriverShape, Reacting, Handling, Quiet, Base, Reacts, Bottom, Upper
<1>4. ASSUME t \in Caller PROVE CallerShape(r)
  BY Zenon, <1>2, <1>4, ThreadsDiffer DEF Fits, CallerShape, Reacts, Calls
<1>5. Ends(r) = {Head(r).s}
  BY <1>1, <1>2
<1> QED
  BY <1>1, <1>2, <1>3, <1>4, <1>5 DEF Fits, r

\* A thread of a driver calls the handler, which may make a call of its own.
LEMMA EnterHandler ==
    ASSUME NEW s \in End, NEW q, IsStack(q), Quiet(q), Ends(q) \subseteq {s},
           NEW a, a.op = "Returned", a.s = s, NEW b, b.op \in Reacts, b.s = s
    PROVE  Fits(s, Over(a, q)) /\ Fits(s, Over(b, Over(a, q)))
<1> DEFINE r == Over(a, q)
           w == Over(b, r)
<1>1. IsStack(r) /\ r # <<>> /\ Head(r) = a /\ Tail(r) = q /\ Ends(r) = {a.s} \cup Ends(q)
  BY Zenon, Push
<1> HIDE DEF r
<1>2. IsStack(w) /\ w # <<>> /\ Head(w) = b /\ Tail(w) = r /\ Ends(w) = {b.s} \cup Ends(r)
  BY Zenon, <1>1, Push
<1> HIDE DEF w
<1>3. Handling(r) /\ Reacting(w)
  BY Zenon, <1>1, <1>2 DEF Handling, Reacting
<1>4. Ends(r) = {s} /\ Ends(w) = {s}
  BY <1>1, <1>2
<1>5. Fits(s, r) /\ Fits(s, w)
  BY <1>1, <1>2, <1>3, <1>4, ThreadsDiffer DEF Fits, DriverShape
<1> QED
  BY <1>5 DEF r, w

\* What a thread of a driver does next in its loop.
LEMMA GoOn ==
    ASSUME NEW s \in End, NEW q, Fits(s, q), q # <<>>, Head(q).op \in Bottom,
           NEW a, a.op \in Bottom, a.s = s, NEW b, b.op \in Upper, b.s = s
    PROVE  /\ Tail(q) = <<>> /\ Ops(Tail(q)) = {} /\ IsStack(Tail(q)) /\ Fits(s, Tail(q))
           /\ Quiet(Over(a, Tail(q))) /\ Quiet(Over(b, Over(a, Tail(q))))
           /\ Fits(s, Over(a, Tail(q))) /\ Fits(s, Over(b, Over(a, Tail(q))))
           /\ Ops(Over(a, Tail(q))) = {a.op} /\ Ops(Over(b, Over(a, Tail(q)))) = {a.op, b.op}
           /\ Ends(Over(a, Tail(q))) = {s} /\ Ends(Over(b, Over(a, Tail(q)))) = {s}
<1> DEFINE e == Tail(q)
           r == Over(a, e)
           w == Over(b, r)
<1>1. e = <<>>
  BY Zenon DEF Fits, DriverShape, Reacting, Handling, Quiet, Base, Reacts, Bottom, Upper
<1>2. IsStack(e) /\ Ops(e) = {} /\ Ends(e) = {}
  BY Zenon, <1>1, NoFrames
<1> HIDE DEF e
<1>3. /\ IsStack(r) /\ r # <<>> /\ Head(r) = a /\ Tail(r) = e /\ Ends(r) = {a.s} \cup Ends(e)
      /\ Ops(r) = {a.op} \cup Ops(e)
  BY Zenon, <1>2, Push
<1> HIDE DEF r
<1>4. /\ IsStack(w) /\ w # <<>> /\ Head(w) = b /\ Tail(w) = r /\ Ends(w) = {b.s} \cup Ends(r)
      /\ Ops(w) = {b.op} \cup Ops(r)
  BY Zenon, <1>3, Push
<1> HIDE DEF w
<1>5. Ends(r) = {s} /\ Ends(w) = {s} /\ Ops(r) = {a.op} /\ Ops(w) = {a.op, b.op}
  BY <1>2, <1>3, <1>4
<1>6. Quiet(e) /\ Quiet(r) /\ Quiet(w)
  BY <1>1, <1>3, <1>4 DEF Quiet, Base
<1>7. s \notin Caller
  BY ThreadsDiffer
<1>8. Fits(s, r) /\ Fits(s, w)
  BY <1>3, <1>4, <1>5, <1>6, <1>7 DEF Fits, DriverShape
<1>9. Fits(s, e)
  BY <1>1, <1>2, <1>6, <1>7 DEF Fits, DriverShape
<1> QED
  BY <1>1, <1>2, <1>5, <1>6, <1>8, <1>9 DEF e, r, w

----------------------------------------------------------------------------
(* Steps that matter to no other thread. *)

\* A thread goes on.
LEMMA Moves ==
    ASSUME Stacks, NEW t \in Thread, NEW r, stack' = [stack EXCEPT ![t] = r]
    PROVE  /\ stack'[t] = r /\ \A u \in Thread : u # t => stack'[u] = stack[u]
           /\ Fits(t, r) => Stacks'
<1>1. stack = [u \in Thread |-> stack[u]] /\ \A u \in Thread : Fits(u, stack[u])
  BY DEF Stacks
<1>2. stack' = [u \in Thread |-> IF u = t THEN r ELSE stack[u]]
  BY <1>1
<1>3. stack'[t] = r /\ \A u \in Thread : u # t => stack'[u] = stack[u]
  BY <1>2
<1>4. stack' = [u \in Thread |-> stack'[u]]
  BY Zenon, <1>2
<1> QED
  BY <1>1, <1>3, <1>4 DEF Stacks

\* No step but the two that are about it makes an end more or less activated.
LEMMA ActivationKept ==
    ASSUME Activation, UNCHANGED <<scenario, next>>,
           \A s \in End : link[s].state = "kNeverActivated" => link'[s].state = "kNeverActivated",
           \A u \in Caller, s \in End : Activating(stack'[u], s) => Activating(stack[u], s)
    PROVE  Activation'
<1>1. \A t : Script(t)' = Script(t)
  BY DEF Script
<1> QED
  BY <1>1 DEF Activation, ActivationOf

\* What the invariants of the two drivers say about the variables.
SameEnds ==
    /\ UNCHANGED <<scenario, next, log>>
    /\ \A s \in End : link'[s].state = link[s].state
    /\ \A s \in End :
          /\ sock'[s].shutdown = sock[s].shutdown /\ sock'[s].done = sock[s].done
          /\ async'[s].active = async[s].active \/ link[s].state = "kDeactivated"

\* The step of a thread that neither calls a handler nor sets out to deactivate
\* an end.
LEMMA DullStep ==
    ASSUME IInv, Variables', SameEnds,
           NEW t \in Thread, stack[t] # <<>>, Head(stack[t]).op # "NotifyDeactivated",
           NEW r, stack' = [stack EXCEPT ![t] = r], Fits(t, r),
           Head(stack[t]).op = "Returned" => r = Tail(stack[t]),
           \A x \in End : /\ Stopping(r, x) => Stopping(stack[t], x)
                          /\ Telling(r, x) => Telling(stack[t], x)
                          /\ Inside(r, x) => Inside(stack[t], x)
                          /\ ~Activating(r, x),
           t \in End =>
               \/ link[t].state = "kDeactivated"
               \/ /\ Head(stack[t]).op # "Deactivate"
                  /\ "NotifyError" \in Ops(stack[t]) => "NotifyError" \in Ops(r)
    PROVE  IInv'
<1>0. /\ Stacks /\ Variables /\ Activation /\ Finality
      /\ scenario.driver = "multiprocess" => OneCallback
      /\ scenario.driver = "async" => OneTaskThread
  BY DEF IInv
<1>1. Stacks' /\ stack'[t] = r /\ \A u \in Thread : u # t => stack'[u] = stack[u]
  BY Zenon, <1>0, Moves
<1>2. End \subseteq Thread /\ Caller \subseteq Thread /\ \A s \in End : s \notin Caller
  BY ThreadsDiffer
<1>3. \A u \in Thread, x \in End :
          /\ Stopping(stack'[u], x) => Stopping(stack[u], x)
          /\ Telling(stack'[u], x) => Telling(stack[u], x)
          /\ Inside(stack'[u], x) => Inside(stack[u], x)
          /\ Activating(stack'[u], x) => Activating(stack[u], x)
  BY <1>1
<1>4. \A s \in End : link'[s].state = link[s].state /\ log'[s] = log[s] /\ (Told(s)' <=> Told(s))
  BY DEF SameEnds, Told
<1>5. Activation'
  BY <1>0, <1>2, <1>3, <1>4, ActivationKept DEF SameEnds
<1>6. \A s \in End : stack[s] = <<>> => stack'[s] = <<>>
  BY <1>1, <1>2
<1>7. \A s \in End :
         /\ Ending(stack[s], "Returned") => stack'[s] = <<>> \/ Ending(stack'[s], "Returned")
         /\ Ending(stack[s], "NotifyDeactivated") => Ending(stack'[s], "NotifyDeactivated")
  BY <1>1, <1>2 DEF Ending
<1>8. Finality'
  <2> SUFFICES ASSUME NEW s \in End PROVE FinalityOf(s)'
    BY DEF Finality
  <2> QED
    BY <1>0, <1>2, <1>3, <1>4, <1>6, <1>7 DEF Finality, FinalityOf
<1>9. ASSUME scenario.driver = "multiprocess" PROVE OneCallback'
  <2>1. \A s \in End : sock'[s].shutdown = sock[s].shutdown /\ sock'[s].done = sock[s].done
    BY DEF SameEnds
  <2> QED
    BY <1>0, <1>2, <1>3, <1>4, <1>6, <1>7, <1>9, <2>1 DEF OneCallback, CallbackOf
<1>10. ASSUME scenario.driver = "async" PROVE OneTaskThread'
  <2>1. \A s \in End : async'[s].active = async[s].active \/ link[s].state = "kDeactivated"
    BY DEF SameEnds
  <2>2. \A s \in End : stack'[s] # <<>> => stack[s] # <<>>
    BY <1>6
  <2>3. \A s \in End :
           \/ link[s].state = "kDeactivated"
           \/ /\ "NotifyError" \in Ops(stack[s]) => "NotifyError" \in Ops(stack'[s])
              /\ Head(stack[s]).op = "Deactivate" => Head(stack'[s]).op = "Deactivate"
    BY <1>1, <1>2
  <2> QED
    BY <1>0, <1>2, <1>3, <1>4, <1>10, <2>1, <2>2, <2>3 DEF OneTaskThread, TaskThreadOf
<1> QED
  BY <1>0, <1>1, <1>5, <1>8, <1>9, <1>10 DEF IInv, SameEnds

----------------------------------------------------------------------------
(* Fields of the transports. *)

\* Whether the callback is stored and whether the thread is through with its loop
\* depends on no other field.
LEMMA OneField ==
    ASSUME Sockets(sock), NEW s \in End, NEW v,
           \/ sock' = [sock EXCEPT ![s].queue = v] \/ sock' = [sock EXCEPT ![s].signal = v]
           \/ sock' = [sock EXCEPT ![s].joinable = v] \/ sock' = [sock EXCEPT ![s].transport = v]
    PROVE  /\ Sockets(sock')
           /\ \A x \in End : sock'[x].shutdown = sock[x].shutdown /\ sock'[x].done = sock[x].done
<1> DEFINE With(g) == [x \in End |-> [f \in SocketFields |-> IF x = s /\ f = g THEN v ELSE sock[x][f]]]
<1>0. /\ sock = [x \in End |-> [f \in SocketFields |-> sock[x][f]]]
      /\ {"queue", "signal", "joinable", "transport"} \subseteq SocketFields
  BY DEF Sockets, SocketFields
<1>1. ASSUME sock' = [sock EXCEPT ![s].queue = v] PROVE sock' = With("queue")
  BY Zenon, <1>0, <1>1
<1>2. ASSUME sock' = [sock EXCEPT ![s].signal = v] PROVE sock' = With("signal")
  BY Zenon, <1>0, <1>2
<1>3. ASSUME sock' = [sock EXCEPT ![s].joinable = v] PROVE sock' = With("joinable")
  BY Zenon, <1>0, <1>3
<1>4. ASSUME sock' = [sock EXCEPT ![s].transport = v] PROVE sock' = With("transport")
  BY ZenonT(40), <1>0, <1>4
<1> HIDE DEF With
<1>5. PICK g \in {"queue", "signal", "joinable", "transport"} : sock' = With(g)
  BY <1>1, <1>2, <1>3, <1>4
<1>6. "shutdown" \in SocketFields /\ "done" \in SocketFields /\ g # "shutdown" /\ g # "done"
  BY DEF SocketFields
<1>7. \A x \in End, f \in SocketFields :
         sock'[x][f] = IF x = s /\ f = g THEN v ELSE sock[x][f]
  BY ZenonT(40), <1>5 DEF With
<1>8. \A x \in End : sock'[x].shutdown = sock[x].shutdown /\ sock'[x].done = sock[x].done
  BY ZenonT(40), <1>6, <1>7
<1>9. Sockets(sock')
  BY ZenonT(40), SMTT(20), <1>5 DEF With, Sockets
<1> QED
  BY Zenon, <1>8, <1>9

\* What is read and what poll() reports does not matter either.
LEMMA TwoFields ==
    ASSUME Sockets(sock), NEW s \in End, NEW v, NEW w,
           \/ sock' = [sock EXCEPT ![s].data = v, ![s].descriptors = w]
           \/ sock' = [sock EXCEPT ![s].open = v, ![Peer(s)].reset = w]
    PROVE  /\ Sockets(sock')
           /\ \A x \in End : sock'[x].shutdown = sock[x].shutdown /\ sock'[x].done = sock[x].done
<1> DEFINE With(y, g, z, h) == [x \in End |-> [f \in SocketFields |->
               IF x = y /\ f = g THEN v ELSE IF x = z /\ f = h THEN w ELSE sock[x][f]]]
<1>0. /\ sock = [x \in End |-> [f \in SocketFields |-> sock[x][f]]] /\ Peer(s) \in End
      /\ {"data", "descriptors", "open", "reset", "shutdown", "done"} \subseteq SocketFields
  <2>1. Peer(s) \in End
    BY DEF End, Peer
  <2> QED
    BY <2>1 DEF Sockets, SocketFields
<1>1. ASSUME sock' = [sock EXCEPT ![s].data = v, ![s].descriptors = w]
      PROVE  sock' = With(s, "data", s, "descriptors")
  BY ZenonT(40), <1>0, <1>1
<1>2. ASSUME sock' = [sock EXCEPT ![s].open = v, ![Peer(s)].reset = w]
      PROVE  sock' = With(s, "open", Peer(s), "reset")
  BY ZenonT(40), <1>0, <1>2
<1> HIDE DEF With
<1>3. \E g \in {"data", "open"}, h \in {"descriptors", "reset"}, z \in End : sock' = With(s, g, z, h)
  BY Zenon, <1>0, <1>1, <1>2
<1>4. PICK g \in {"data", "open"}, h \in {"descriptors", "reset"}, z \in End : sock' = With(s, g, z, h)
  BY <1>3
<1>5. g # "shutdown" /\ g # "done" /\ h # "shutdown" /\ h # "done"
  OBVIOUS
<1>6. \A x \in End, f \in SocketFields :
         sock'[x][f] = IF x = s /\ f = g THEN v ELSE IF x = z /\ f = h THEN w ELSE sock[x][f]
  BY ZenonT(40), <1>4 DEF With
<1>7. \A x \in End : sock'[x].shutdown = sock[x].shutdown /\ sock'[x].done = sock[x].done
  <2>1. "shutdown" \in SocketFields /\ "done" \in SocketFields
    BY DEF SocketFields
  <2> QED
    BY ZenonT(40), <1>5, <1>6, <2>1
<1>8. Sockets(sock')
  BY ZenonT(40), SMTT(20), <1>4 DEF With, Sockets
<1> QED
  BY Zenon, <1>7, <1>8

\* The two steps that are about the callback.
LEMMA CallbackFields ==
    ASSUME Sockets(sock), NEW s \in End
    PROVE  /\ sock' = [sock EXCEPT ![s].shutdown = TRUE, ![s].signal = TRUE] =>
                 /\ Sockets(sock') /\ \A x \in End : sock'[x].done = sock[x].done
                 /\ sock'[s].shutdown = TRUE
                 /\ \A x \in End : x # s => sock'[x].shutdown = sock[x].shutdown
           /\ sock' = [sock EXCEPT ![s].shutdown = FALSE, ![s].done = TRUE] =>
                 /\ Sockets(sock') /\ sock'[s].shutdown = FALSE /\ sock'[s].done = TRUE
                 /\ \A x \in End : x # s => sock'[x] = sock[x]
<1> DEFINE With(v, g) == [x \in End |-> [f \in SocketFields |->
               IF x = s /\ f = "shutdown" THEN v ELSE IF x = s /\ f = g THEN TRUE ELSE sock[x][f]]]
<1>0. /\ sock = [x \in End |-> [f \in SocketFields |-> sock[x][f]]]
      /\ {"shutdown", "signal", "done"} \subseteq SocketFields
  BY DEF Sockets, SocketFields
<1>1. ASSUME sock' = [sock EXCEPT ![s].shutdown = TRUE, ![s].signal = TRUE]
      PROVE  sock' = With(TRUE, "signal")
  BY Zenon, <1>0, <1>1
<1>2. ASSUME sock' = [sock EXCEPT ![s].shutdown = FALSE, ![s].done = TRUE]
      PROVE  sock' = With(FALSE, "done")
  BY Zenon, <1>0, <1>2
<1>3. ASSUME sock' = With(TRUE, "signal")
      PROVE  /\ Sockets(sock') /\ \A x \in End : sock'[x].done = sock[x].done
             /\ sock'[s].shutdown = TRUE
             /\ \A x \in End : x # s => sock'[x].shutdown = sock[x].shutdown
  BY <1>0, <1>3 DEF Sockets
<1>4. ASSUME sock' = With(FALSE, "done")
      PROVE  /\ Sockets(sock') /\ sock'[s].shutdown = FALSE /\ sock'[s].done = TRUE
             /\ \A x \in End : x # s => sock'[x] = sock[x]
  BY <1>0, <1>4 DEF Sockets
<1> QED
  BY Zenon, <1>1, <1>2, <1>3, <1>4

\* Tasks come and go, and the notification with them.
LEMMA TaskFields ==
    ASSUME Asyncs(async), NEW s \in End, NEW v, NEW w,
           \/ async' = [async EXCEPT ![s].tasks = v, ![s].notified = w]
           \/ async' = [async EXCEPT ![s].tasks = v]
           \/ async' = [async EXCEPT ![s].notified = v]
    PROVE  Asyncs(async') /\ \A x \in End : async'[x].active = async[x].active
<1> DEFINE With(g, h, z) == [x \in End |-> [f \in AsyncFields |->
               IF x = s /\ f = g THEN v ELSE IF x = s /\ f = h THEN z ELSE async[x][f]]]
<1>0. /\ async = [x \in End |-> [f \in AsyncFields |-> async[x][f]]]
      /\ {"active", "tasks", "notified"} \subseteq AsyncFields
  BY DEF Asyncs, AsyncFields
<1>1. ASSUME async' = [async EXCEPT ![s].tasks = v, ![s].notified = w]
      PROVE  async' = With("tasks", "notified", w)
  BY ZenonT(40), <1>0, <1>1
<1>2. ASSUME async' = [async EXCEPT ![s].tasks = v]
      PROVE  async' = With("tasks", "tasks", v)
  BY Zenon, <1>0, <1>2
<1>3. ASSUME async' = [async EXCEPT ![s].notified = v]
      PROVE  async' = With("notified", "notified", v)
  BY Zenon, <1>0, <1>3
<1> HIDE DEF With
<1>4. \E g, h \in {"tasks", "notified"}, z \in {v, w} : async' = With(g, h, z)
  BY <1>1, <1>2, <1>3
<1>5. PICK g \in {"tasks", "notified"}, h \in {"tasks", "notified"}, z \in {v, w} : async' = With(g, h, z)
  BY <1>4
<1>6. g # "active" /\ h # "active"
  OBVIOUS
<1> QED
  BY ZenonT(40), <1>0, <1>5, <1>6 DEF With, Asyncs

\* An end becomes active, and no longer is.
LEMMA ActiveField ==
    ASSUME Asyncs(async), NEW s \in End
    PROVE  /\ async' = [async EXCEPT ![s].active = TRUE, ![s].joinable = TRUE] =>
                 /\ Asyncs(async') /\ async'[s].active = TRUE
                 /\ \A x \in End : x # s => async'[x] = async[x]
           /\ async' = [async EXCEPT ![s].active = FALSE, ![s].joinable = FALSE, ![s].notified = TRUE] =>
                 /\ Asyncs(async') /\ async'[s].active = FALSE
                 /\ \A x \in End : x # s => async'[x] = async[x]
<1>0. /\ async = [x \in End |-> [f \in AsyncFields |-> async[x][f]]]
      /\ {"active", "joinable", "notified"} \subseteq AsyncFields
  BY DEF Asyncs, AsyncFields
<1>1. ASSUME async' = [async EXCEPT ![s].active = TRUE, ![s].joinable = TRUE]
      PROVE  async' = [x \in End |-> [f \in AsyncFields |->
                 IF x = s /\ f \in {"active", "joinable"} THEN TRUE ELSE async[x][f]]]
  BY Zenon, <1>0, <1>1
<1>2. ASSUME async' = [async EXCEPT ![s].active = FALSE, ![s].joinable = FALSE, ![s].notified = TRUE]
      PROVE  async' = [x \in End |-> [f \in AsyncFields |->
                 IF x = s /\ f \in {"active", "joinable"} THEN FALSE
                 ELSE IF x = s /\ f = "notified" THEN TRUE ELSE async[x][f]]]
  BY Zenon, <1>0, <1>2
<1> QED
  BY <1>0, <1>1, <1>2 DEF Asyncs

\* What a NodeLink holds of an end.
LEMMA LinkFields ==
    ASSUME link \in [End -> Held], NEW s \in End
    PROVE  /\ link' = [link EXCEPT ![s].closed = TRUE] \/ link' = [link EXCEPT ![s].handle = FALSE] =>
                 link' \in [End -> Held] /\ \A x \in End : link'[x].state = link[x].state
           /\ link' = [link EXCEPT ![s].state = "kDeactivated"] =>
                 /\ link' \in [End -> Held] /\ link'[s].state = "kDeactivated"
                 /\ \A x \in End : x # s => link'[x].state = link[x].state
           /\ link' = [link EXCEPT ![s].state = "kActive", ![s].handle = TRUE] =>
                 /\ link' \in [End -> Held] /\ link'[s].state = "kActive"
                 /\ \A x \in End : x # s => link'[x].state = link[x].state
<1>1. ASSUME link' = [link EXCEPT ![s].closed = TRUE] \/ link' = [link EXCEPT ![s].handle = FALSE]
      PROVE  link' \in [End -> Held] /\ \A x \in End : link'[x].state = link[x].state
  <2>1. CASE link' = [link EXCEPT ![s].closed = TRUE]
    BY Zenon, <2>1 DEF Held
  <2>2. CASE link' = [link EXCEPT ![s].handle = FALSE]
    BY Zenon, <2>2 DEF Held
  <2> QED
    BY <1>1, <2>1, <2>2
<1>2. ASSUME link' = [link EXCEPT ![s].state = "kDeactivated"]
      PROVE  /\ link' \in [End -> Held] /\ link'[s].state = "kDeactivated"
             /\ \A x \in End : x # s => link'[x].state = link[x].state
  BY <1>2 DEF Held
<1>3. ASSUME link' = [link EXCEPT ![s].state = "kActive", ![s].handle = TRUE]
      PROVE  /\ link' \in [End -> Held] /\ link'[s].state = "kActive"
             /\ \A x \in End : x # s => link'[x].state = link[x].state
  BY Zenon, <1>3 DEF Held
<1> QED
  BY <1>1, <1>2, <1>3

----------------------------------------------------------------------------
(* The kinds of steps that matter to no other thread. *)

\* A call returns, or does not take place.
LEMMA PopStep ==
    ASSUME IInv, Variables', SameEnds, NEW t \in Thread, stack[t] # <<>>,
           Head(stack[t]).op \in (Reacts \cup {"Join"}) \ {"Deactivate"}, Proceed(t, <<>>)
    PROVE  IInv'
<1> DEFINE q == stack[t]
<1>1. Fits(t, q)
  BY DEF IInv, Stacks
<1>2. /\ IsStack(Tail(q)) /\ Ops(q) = {Head(q).op} \cup Ops(Tail(q))
      /\ \A x : (Telling(Tail(q), x) => Telling(q, x)) /\ (Inside(Tail(q), x) => Inside(q, x))
  BY <1>1, Below
<1>3. Fits(t, Tail(q)) /\ \A x : ~Stopping(Tail(q), x) /\ ~Activating(Tail(q), x)
  BY <1>1, Pop
<1>4. stack' = [stack EXCEPT ![t] = Tail(q)]
  BY <1>2, Frames DEF Proceed
<1>5. Head(q).op \notin {"Deactivate", "NotifyDeactivated", "Returned", "NotifyError"}
  BY DEF Reacts
<1>6. "NotifyError" \in Ops(q) => "NotifyError" \in Ops(Tail(q))
  BY <1>2, <1>5
<1> QED
  BY Zenon, <1>2, <1>3, <1>4, <1>5, <1>6, DullStep

\* A call goes on, or a thread in its loop.
LEMMA ReplaceStep ==
    ASSUME IInv, Variables', SameEnds, NEW t \in Thread, stack[t] # <<>>,
           Head(stack[t]).op \notin {"Deactivate", "NotifyError", "NotifyDeactivated", "Returned"},
           NEW a, a.s = Head(stack[t]).s,
           \/ Head(stack[t]).op \in Reacts \ {"TakeThread"} /\ a.op \in Reacts
           \/ t \in Caller /\ Head(stack[t]).op \in {"TakeThread", "DeactivateTransport"} /\ a.op = "Join"
           \/ t \in End /\ Head(stack[t]).op \in Bottom /\ a.op \in Bottom \ {"NotifyDeactivated"}
           \/ t \in End /\ Head(stack[t]).op \in Upper /\ a.op \in Upper,
           a.op \in {"DeactivateTransport", "Shutdown"} =>
               Head(stack[t]).op \in {"DeactivateTransport", "Shutdown"},
           Proceed(t, <<a>>)
    PROVE  IInv'
<1> DEFINE q == stack[t]
           r == Over(a, Tail(q))
<1>1. Fits(t, q)
  BY DEF IInv, Stacks
<1>2. /\ IsStack(Tail(q)) /\ Ops(q) = {Head(q).op} \cup Ops(Tail(q))
  BY <1>1, Below
<1>3. Fits(t, r)
  BY <1>1, Replace
<1>4. /\ Ops(r) = {a.op} \cup Ops(Tail(q))
      /\ \A x : Stopping(r, x) <=> a.s = x /\ a.op \in {"DeactivateTransport", "Shutdown"}
      /\ \A x : Activating(r, x) <=> a.s = x /\ a.op = "Activate"
      /\ \A x : Telling(r, x) <=> a.s = x /\ (a.op = "NotifyDeactivated" \/ "NotifyDeactivated" \in Ops(Tail(q)))
      /\ \A x : Inside(r, x) <=> a.s = x /\ (a.op = "Returned" \/ "Returned" \in Ops(Tail(q)))
  BY Zenon, <1>2, Push
<1>5. stack' = [stack EXCEPT ![t] = r]
  BY DEF Proceed, Over
<1>6. a.op \notin {"NotifyDeactivated", "Returned", "Activate"}
  BY DEF Reacts, Bottom, Upper
<1> HIDE DEF r
<1>7. \A x : /\ Stopping(r, x) => Stopping(q, x)
             /\ Telling(r, x) => Telling(q, x)
             /\ Inside(r, x) => Inside(q, x)
             /\ ~Activating(r, x)
  BY Zenon, <1>2, <1>4, <1>6 DEF Stopping, Telling, Inside, Concerns
<1>8. "NotifyError" \in Ops(q) => "NotifyError" \in Ops(r)
  BY <1>2, <1>4
<1> QED
  BY Zenon, <1>3, <1>5, <1>7, <1>8, DullStep

\* A thread of a driver does b before it goes on in its loop.
LEMMA BothStep ==
    ASSUME IInv, Variables', SameEnds, NEW s \in End, stack[s] # <<>>,
           Head(stack[s]).op \in Bottom \ {"NotifyDeactivated"},
           NEW a, a.op \in Bottom \ {"NotifyDeactivated"}, a.s = s, NEW b, b.op \in Upper, b.s = s,
           stack' = [stack EXCEPT ![s] = Over(b, Over(a, Tail(stack[s])))]
    PROVE  IInv'
<1> DEFINE q == stack[s]
           r == Over(b, Over(a, Tail(q)))
<1>0. s \in Thread
  BY ThreadsDiffer
<1>1. Fits(s, q)
  BY <1>0 DEF IInv, Stacks
<1>2. /\ IsStack(Tail(q)) /\ Ops(Tail(q)) = {} /\ Ops(q) = {Head(q).op} \cup Ops(Tail(q))
      /\ Fits(s, r) /\ Ops(r) = {a.op, b.op}
  <2>1. IsStack(Tail(q)) /\ Ops(q) = {Head(q).op} \cup Ops(Tail(q))
    BY <1>1, Below
  <2>2. q # <<>> /\ Head(q).op \in Bottom /\ a.op \in Bottom
    OBVIOUS
  <2> HIDE DEF q
  <2>3. Ops(Tail(q)) = {} /\ Fits(s, r) /\ Ops(r) = {a.op, b.op}
    BY SMTT(20), ZenonT(40), <1>1, <2>2, GoOn
  <2> QED
    BY <2>1, <2>3
<1>3. /\ \A x : Stopping(r, x) <=> b.s = x /\ b.op \in {"DeactivateTransport", "Shutdown"}
      /\ \A x : Activating(r, x) <=> b.s = x /\ b.op = "Activate"
  <2>1. IsStack(Over(a, Tail(q)))
    BY <1>2, Push
  <2> QED
    BY Zenon, <2>1, Push
<1> HIDE DEF r
<1>4. \A x \in End : ~Stopping(r, x) /\ ~Telling(r, x) /\ ~Inside(r, x) /\ ~Activating(r, x)
  BY <1>2, <1>3 DEF Telling, Inside, Bottom, Upper
<1>5. Head(q).op \notin {"Deactivate", "NotifyDeactivated", "Returned", "NotifyError"}
  BY DEF Bottom
<1>6. "NotifyError" \notin Ops(q)
  BY <1>2, <1>5
<1>7. stack' = [stack EXCEPT ![s] = r]
  BY DEF r
<1> QED
  BY Zenon, <1>0, <1>2, <1>4, <1>5, <1>6, <1>7, DullStep

\* The end that a thread is busy with.
LEMMA TopFrame ==
    ASSUME IInv, NEW t \in Thread, stack[t] # <<>>
    PROVE  /\ Fits(t, stack[t]) /\ IsStack(Tail(stack[t]))
           /\ Head(stack[t]).s \in End /\ (t \in End => Head(stack[t]).s = t)
<1>1. Fits(t, stack[t])
  BY DEF IInv, Stacks
<1>2. /\ t \in End => Head(stack[t]).s = t
      /\ t \in Caller => Head(stack[t]).s \in End
      /\ IsStack(Tail(stack[t]))
  BY <1>1, Below
<1> QED
  BY <1>1, <1>2, ThreadsDiffer

\* A step that changes only the rest of a SocketTransport.
LEMMA SocketKept ==
    ASSUME Variables, UNCHANGED <<scenario, next, link, log, async>>, Sockets(sock'),
           \A x \in End : sock'[x].shutdown = sock[x].shutdown /\ sock'[x].done = sock[x].done
    PROVE  Variables' /\ SameEnds
BY DEF Variables, SameEnds

\* A step that changes only the tasks of an AsyncTransport.
LEMMA TasksKept ==
    ASSUME Variables, UNCHANGED <<scenario, next, link, log, sock>>, Asyncs(async'),
           \A x \in End : async'[x].active = async[x].active
    PROVE  Variables' /\ SameEnds
BY DEF Variables, SameEnds

----------------------------------------------------------------------------
(* The multiprocess driver. *)

\* Transmit() of a MultiprocessTransport.
LEMMA SocketTransmitStep ==
    ASSUME IInv, NEW t \in Thread, SocketTransmit(t), UNCHANGED async
    PROVE  IInv'
<1> DEFINE s == Head(stack[t]).s
<1>1. stack[t] # <<>> /\ Head(stack[t]).op = "Transmit" /\ UNCHANGED <<scenario, next, link, log>>
  BY DEF SocketTransmit, At, Top, calls
<1>2. /\ s \in End /\ Variables /\ Sockets(sock)
  BY <1>1, TopFrame DEF IInv, Variables
<1> DEFINE w == Frame("WakeIOThread", s, FALSE)
<1>3. /\ sock' = sock \/ \E v : sock' = [sock EXCEPT ![s].queue = v]
      /\ Proceed(t, <<>>) \/ Proceed(t, <<w>>)
  <2>1. \/ Proceed(t, <<>>) /\ sock' = sock
        \/ Send(t, s, Top(t).arg)
    BY DEF SocketTransmit, socketvars, Top
  <2>2. ASSUME Send(t, s, Top(t).arg), sock[s].queue # <<>>
        PROVE  /\ \E v : sock' = [sock EXCEPT ![s].queue = v]
               /\ Proceed(t, <<>>)
    BY Zenon, <2>2 DEF Send
  <2>3. ASSUME Send(t, s, Top(t).arg), sock[s].queue = <<>>
        PROVE  /\ sock' = sock \/ \E v : sock' = [sock EXCEPT ![s].queue = v]
               /\ Proceed(t, <<>>) \/ Proceed(t, <<w>>)
    BY <2>3, Zenon DEF Send
  <2> QED
    BY Zenon, <2>1, <2>2, <2>3
<1>4. /\ Sockets(sock')
      /\ \A x \in End : sock'[x].shutdown = sock[x].shutdown /\ sock'[x].done = sock[x].done
  BY Zenon, <1>2, <1>3, OneField
<1>5. Variables' /\ SameEnds
  BY <1>1, <1>2, <1>4, SocketKept
<1>6. w.op = "WakeIOThread" /\ w.s = s
  BY DEF Frame
<1> HIDE DEF w
<1>7. Head(stack[t]).op \in Reacts \ {"TakeThread", "Deactivate"} /\ w.op \in Reacts
      /\ w.op \notin {"DeactivateTransport", "Shutdown"}
  BY <1>1, <1>6 DEF Reacts
<1>8. CASE Proceed(t, <<>>)
  BY <1>1, <1>5, <1>7, <1>8, PopStep
<1>9. CASE Proceed(t, <<w>>)
  BY <1>1, <1>5, <1>6, <1>7, <1>9, ReplaceStep
<1> QED
  BY <1>3, <1>8, <1>9

\* The other steps of a call that leave the callback alone.
LEMMA SocketCallStep ==
    ASSUME IInv, NEW t \in Thread, WakeIOThread(t) \/ TakeTransport(t) \/ TakeThread(t), UNCHANGED async
    PROVE  IInv'
<1> DEFINE s == Head(stack[t]).s
           w == Frame("Shutdown", s, FALSE)
           j == Frame("Join", s, FALSE)
<1>1. stack[t] # <<>> /\ UNCHANGED <<scenario, next, link, log>>
  BY DEF WakeIOThread, TakeTransport, TakeThread, At, calls
<1>2. /\ s \in End /\ Variables /\ Sockets(sock) /\ (t \in End => s = t)
  BY <1>1, TopFrame DEF IInv, Variables
<1>3. \E v : \/ sock' = [sock EXCEPT ![s].signal = v] \/ sock' = [sock EXCEPT ![s].transport = v]
             \/ sock' = [sock EXCEPT ![s].joinable = v]
  BY Zenon DEF WakeIOThread, TakeTransport, TakeThread, Top
<1>4. /\ Sockets(sock')
      /\ \A x \in End : sock'[x].shutdown = sock[x].shutdown /\ sock'[x].done = sock[x].done
  BY <1>2, <1>3, OneField
<1>5. Variables' /\ SameEnds
  BY <1>1, <1>2, <1>4, SocketKept
<1>6. w.op = "Shutdown" /\ w.s = s /\ j.op = "Join" /\ j.s = s
  BY DEF Frame
<1>7. \/ Head(stack[t]).op = "WakeIOThread" /\ Proceed(t, <<>>)
      \/ Head(stack[t]).op = "DeactivateTransport" /\ Proceed(t, <<w>>)
      \/ Head(stack[t]).op = "TakeThread" /\ Proceed(t, <<>>)
      \/ Head(stack[t]).op = "TakeThread" /\ Proceed(t, <<j>>) /\ t # s
  BY Zenon DEF WakeIOThread, TakeTransport, TakeThread, Top, At
<1> HIDE DEF w, j
<1>8. CASE Head(stack[t]).op \in {"WakeIOThread", "TakeThread"} /\ Proceed(t, <<>>)
  <2>1. Head(stack[t]).op \in (Reacts \cup {"Join"}) \ {"Deactivate"}
    BY <1>8 DEF Reacts
  <2> QED
    BY <1>1, <1>5, <1>8, <2>1, PopStep
<1>9. CASE Head(stack[t]).op = "DeactivateTransport" /\ Proceed(t, <<w>>)
  <2>1. Head(stack[t]).op \in Reacts \ {"TakeThread"} /\ w.op \in Reacts
    BY <1>6, <1>9 DEF Reacts
  <2>2. Head(stack[t]).op \notin {"Deactivate", "NotifyError", "NotifyDeactivated", "Returned"}
    BY <1>9
  <2> QED
    BY <1>1, <1>5, <1>6, <1>9, <2>1, <2>2, ReplaceStep
<1>10. CASE Head(stack[t]).op = "TakeThread" /\ Proceed(t, <<j>>) /\ t # s
  <2>1. t \in Caller
    BY <1>2, <1>10, ThreadsDiffer
  <2>2. Head(stack[t]).op \notin {"Deactivate", "NotifyError", "NotifyDeactivated", "Returned"}
        /\ j.op \notin {"DeactivateTransport", "Shutdown"}
    BY <1>6, <1>10
  <2> QED
    BY <1>1, <1>5, <1>6, <1>10, <2>1, <2>2, ReplaceStep
<1> QED
  BY <1>7, <1>8, <1>9, <1>10

\* The forms in which the actions give a thread its next frames.
LEMMA NextFrames ==
    ASSUME NEW t, IsStack(Tail(stack[t])), NEW a, NEW b
    PROVE  /\ Proceed(t, <<>>) => stack' = [stack EXCEPT ![t] = Tail(stack[t])]
           /\ Proceed(t, <<a>>) => stack' = [stack EXCEPT ![t] = Over(a, Tail(stack[t]))]
           /\ Proceed(t, <<>> \o <<a>>) => Proceed(t, <<a>>)
           /\ Proceed(t, <<a>> \o <<>>) => Proceed(t, <<a>>)
           /\ Proceed(t, <<b, a>>) => stack' = [stack EXCEPT ![t] = Over(b, Over(a, Tail(stack[t])))]
           /\ Proceed(t, <<b>> \o <<a>>) => Proceed(t, <<b, a>>)
<1>1. /\ <<>> \o Tail(stack[t]) = Tail(stack[t])
      /\ <<a>> \o Tail(stack[t]) = Over(a, Tail(stack[t]))
      /\ <<b, a>> \o Tail(stack[t]) = Over(b, Over(a, Tail(stack[t])))
  <2> DEFINE e == Tail(stack[t])
  <2> HIDE DEF e
  <2>1. IsStack(e)
    BY DEF e
  <2>2. <<>> \o e = e /\ <<a>> \o e = Over(a, e) /\ <<b, a>> \o e = Over(b, Over(a, e))
    BY <2>1, Frames, ZenonT(40)
  <2> QED
    BY <2>2, Zenon DEF e
<1>2. <<b, a>> = <<b>> \o <<a>>
  BY TwoFrames
<1>3. <<a>> \in Seq({a})
  OBVIOUS
<1>4. <<>> \o <<a>> = <<a>> /\ <<a>> \o <<>> = <<a>>
  BY <1>3, NothingAdded
<1> QED
  BY Zenon, <1>1, <1>2, <1>4 DEF Proceed

\* A thread of a driver goes on in its loop.
LEMMA LoopStep ==
    ASSUME IInv, Variables', SameEnds, NEW s \in End, stack[s] # <<>>,
           Head(stack[s]).op \in Bottom \ {"NotifyDeactivated"},
           NEW a, a.op \in Bottom \ {"NotifyDeactivated"}, a.s = s, NEW b, b.op \in Upper, b.s = s,
           Proceed(s, <<a>>) \/ Proceed(s, <<>> \o <<a>>) \/ Proceed(s, <<b>> \o <<a>>)
    PROVE  IInv'
<1>1. s \in Thread
  BY ThreadsDiffer
<1>2. IsStack(Tail(stack[s])) /\ Head(stack[s]).s = s
  BY <1>1, TopFrame
<1>3. \/ Proceed(s, <<a>>)
      \/ stack' = [stack EXCEPT ![s] = Over(b, Over(a, Tail(stack[s])))]
  BY Zenon, <1>2, NextFrames
<1>4. CASE Proceed(s, <<a>>)
  <2>1. Head(stack[s]).op \in Bottom /\ a.op \notin {"DeactivateTransport", "Shutdown"}
        /\ Head(stack[s]).op \notin {"Deactivate", "NotifyError", "NotifyDeactivated", "Returned"}
    BY DEF Bottom
  <2> QED
    BY <1>1, <1>2, <1>4, <2>1, ReplaceStep
<1>5. CASE stack' = [stack EXCEPT ![s] = Over(b, Over(a, Tail(stack[s])))]
  BY Zenon, <1>5, BothStep
<1> QED
  BY <1>3, <1>4, <1>5

\* A thread of a driver goes back to its loop.
LEMMA BackStep ==
    ASSUME IInv, Variables', SameEnds, NEW s \in End, stack[s] # <<>>,
           Head(stack[s]).op \in {"Flush", "Flushed"}, Proceed(s, <<>>)
    PROVE  IInv'
<1> DEFINE q == stack[s]
<1>0. s \in Thread
  BY ThreadsDiffer
<1>1. Fits(s, q) /\ IsStack(Tail(q))
  BY <1>0, TopFrame
<1>2. /\ Ends(Tail(q)) \subseteq {Head(q).s} /\ Head(q).s = s
      /\ Tail(q) # <<>> => Head(Tail(q)).s = Head(q).s /\ Ends(Tail(q)) = {Head(q).s}
      /\ Ops(q) = {Head(q).op} \cup Ops(Tail(q))
      /\ \A x : (Telling(Tail(q), x) => Telling(q, x)) /\ (Inside(Tail(q), x) => Inside(q, x))
  BY <1>1, Below
<1>3. Base(Tail(q))
  BY Zenon, <1>1 DEF Fits, DriverShape, Reacting, Handling, Quiet, Base, Reacts, Bottom, Upper
<1>4. Fits(s, Tail(q))
  BY <1>1, <1>2, <1>3, ThreadsDiffer DEF Fits, DriverShape, Quiet
<1>5. \A x : ~Stopping(Tail(q), x) /\ ~Activating(Tail(q), x)
  BY <1>3 DEF Base, Stopping, Activating, Concerns, Bottom
<1>6. stack' = [stack EXCEPT ![s] = Tail(q)]
  BY Zenon, <1>1, NextFrames
<1>7. "NotifyError" \in Ops(q) => "NotifyError" \in Ops(Tail(q))
  BY <1>2
<1> QED
  BY Zenon, <1>0, <1>2, <1>4, <1>5, <1>6, <1>7, DullStep

\* The I/O thread looks at the queue, and acts on what poll() reports.
LEMMA PollStep ==
    ASSUME IInv, NEW s \in End, Loop(s) \/ Poll(s), UNCHANGED async
    PROVE  IInv'
<1> DEFINE p == Frame("Poll", s, sock[s].queue # <<>>)
           d == Frame("ThreadDone", s, FALSE)
           e == Frame("NotifyError", s, FALSE)
           f == Frame("Flush", s, 0)
           x == CASE sock[s].signal -> "ClearSignal"
                  [] ~sock[s].signal /\ Readable(s) -> "Receive"
                  [] OTHER -> "Loop"
           g == Frame(x, s, FALSE)
<1>1. /\ stack[s] # <<>> /\ Head(stack[s]).op \in {"Loop", "Poll"}
      /\ UNCHANGED <<scenario, next, link, log, sock>>
  BY DEF Loop, Poll, At, Top, calls, socketvars
<1>2. \/ Proceed(s, <<p>>) \/ Proceed(s, <<e>> \o <<d>>)
      \/ Proceed(s, <<>> \o <<g>>) \/ Proceed(s, <<f>> \o <<g>>)
  BY Zenon DEF Loop, Poll, Failed, Exit
<1>3. x \in {"ClearSignal", "Receive", "Loop"}
  OBVIOUS
<1> HIDE DEF x
<1>4. /\ p.op = "Poll" /\ d.op = "ThreadDone" /\ e.op = "NotifyError" /\ f.op = "Flush" /\ g.op = x
      /\ p.s = s /\ d.s = s /\ e.s = s /\ f.s = s /\ g.s = s
  BY DEF Frame
<1> HIDE DEF p, d, e, f, g
<1>5. /\ Head(stack[s]).op \in Bottom \ {"NotifyDeactivated"}
      /\ p.op \in Bottom \ {"NotifyDeactivated"} /\ d.op \in Bottom \ {"NotifyDeactivated"}
      /\ g.op \in Bottom \ {"NotifyDeactivated"} /\ e.op \in Upper /\ f.op \in Upper
  BY <1>1, <1>3, <1>4 DEF Bottom, Upper
<1>6. Variables' /\ SameEnds
  BY <1>1 DEF IInv, Variables, SameEnds
<1>7. CASE Proceed(s, <<p>>)
  BY Zenon, <1>1, <1>4, <1>5, <1>6, <1>7, LoopStep
<1>8. CASE Proceed(s, <<e>> \o <<d>>)
  BY <1>1, <1>4, <1>5, <1>6, <1>8, LoopStep
<1>9. CASE Proceed(s, <<>> \o <<g>>)
  BY Zenon, <1>1, <1>4, <1>5, <1>6, <1>9, LoopStep
<1>10. CASE Proceed(s, <<f>> \o <<g>>)
  BY <1>1, <1>4, <1>5, <1>6, <1>10, LoopStep
<1> QED
  BY <1>2, <1>7, <1>8, <1>9, <1>10

\* TryFlushingOutgoingQueue().
LEMMA FlushStep ==
    ASSUME IInv, NEW s \in End, Flush(s) \/ Flushed(s), UNCHANGED async
    PROVE  IInv'
<1>0. s \in Thread
  BY ThreadsDiffer
<1>1. /\ stack[s] # <<>> /\ Head(stack[s]).op \in {"Flush", "Flushed"}
      /\ UNCHANGED <<scenario, next, link, log>>
  BY Zenon DEF Flush, Flushed, At, Top, calls
<1>2. Head(stack[s]).s = s
  BY <1>0, <1>1, TopFrame
<1>3. sock' = sock \/ \E v : sock' = [sock EXCEPT ![s].queue = v]
  BY Zenon DEF Flush, Flushed, socketvars
<1>4. Variables /\ Sockets(sock)
  BY DEF IInv, Variables
<1>5. /\ Sockets(sock')
      /\ \A x \in End : sock'[x].shutdown = sock[x].shutdown /\ sock'[x].done = sock[x].done
  BY <1>3, <1>4, OneField
<1>6. Variables' /\ SameEnds
  BY <1>1, <1>4, <1>5, SocketKept
<1>7. \/ Proceed(s, <<>>)
      \/ \E op \in {"Flush", "Flushed", "NotifyError"} : \E v : Proceed(s, <<Frame(op, s, v)>>)
  <2>1. ASSUME Flushed(s)
        PROVE  Proceed(s, <<>>) \/ Proceed(s, <<Frame("Flush", s, 0)>>)
    BY <2>1 DEF Flushed
  <2>2. ASSUME Flush(s)
        PROVE  \E op \in {"Flush", "Flushed", "NotifyError"} : \E v : Proceed(s, <<Frame(op, s, v)>>)
    <3>1. CASE Top(s).arg + 1 > Len(sock[s].queue)
      BY <2>2, <3>1, Zenon DEF Flush
    <3>2. CASE ~(Top(s).arg + 1 > Len(sock[s].queue))
      <4> DEFINE i == Top(s).arg + 1
      <4>1. PICK r : Proceed(s, CASE ~r.ok -> <<Frame("NotifyError", s, FALSE)>>
                                  [] r.ok /\ r.bytes < Len(sock[s].queue[i].bytes) -> <<Frame("Flushed", s, i - 1)>>
                                  [] OTHER -> <<Frame("Flush", s, i)>>)
        BY Zenon, <2>2, <3>2 DEF Flush
      <4> HIDE DEF i
      <4>2. \/ Proceed(s, <<Frame("NotifyError", s, FALSE)>>)
            \/ Proceed(s, <<Frame("Flushed", s, i - 1)>>)
            \/ Proceed(s, <<Frame("Flush", s, i)>>)
        BY <4>1
      <4> QED
        BY <4>2, Zenon
    <3> QED
      BY <3>1, <3>2
  <2> QED
    BY <2>1, <2>2
<1>8. CASE Proceed(s, <<>>)
  BY <1>1, <1>6, <1>8, BackStep
<1>9. CASE \E op \in {"Flush", "Flushed", "NotifyError"} : \E v : Proceed(s, <<Frame(op, s, v)>>)
  <2>0. PICK op \in {"Flush", "Flushed", "NotifyError"} : \E v : Proceed(s, <<Frame(op, s, v)>>)
    BY <1>9
  <2>1. PICK v : Proceed(s, <<Frame(op, s, v)>>)
    BY <2>0
  <2> DEFINE a == Frame(op, s, v)
  <2>2. a.op = op /\ a.s = s /\ Proceed(s, <<a>>)
    BY <2>1 DEF Frame
  <2> HIDE DEF a
  <2>3. /\ Head(stack[s]).op \in Upper /\ a.op \in Upper
        /\ Head(stack[s]).op \notin {"Deactivate", "NotifyError", "NotifyDeactivated", "Returned"}
        /\ a.op \notin {"DeactivateTransport", "Shutdown"}
    BY <1>1, <2>2 DEF Upper
  <2> QED
    BY <1>0, <1>1, <1>2, <1>6, <2>2, <2>3, ReplaceStep
<1> QED
  BY <1>7, <1>8, <1>9

\* ClearIOThreadSignal(), recvmsg(), and TryDispatchMessages() without a message.
LEMMA ReceiveStep ==
    ASSUME IInv, NEW s \in End,
           ClearIOThreadSignal(s) \/ Receive(s) \/ (Dispatch(s) /\ ~Complete(s)), UNCHANGED async
    PROVE  IInv'
<1> DEFINE d == Frame("ThreadDone", s, FALSE)
           e == Frame("NotifyError", s, FALSE)
           l == Frame("Loop", s, FALSE)
           g == Frame("Dispatch", s, FALSE)
<1>1. /\ stack[s] # <<>> /\ Head(stack[s]).op \in {"ClearSignal", "Receive", "Dispatch"}
      /\ UNCHANGED <<scenario, next, link, log>>
  BY Zenon DEF ClearIOThreadSignal, Receive, Dispatch, At, Top, calls
<1>2. \/ Proceed(s, <<d>>) \/ Proceed(s, <<e>> \o <<d>>)
      \/ Proceed(s, <<g>>) \/ Proceed(s, <<l>>)
  BY Zenon DEF ClearIOThreadSignal, Receive, Dispatch, Failed, Exit
<1>3. \/ sock' = sock \/ \E v : sock' = [sock EXCEPT ![s].signal = v]
      \/ \E v, w : sock' = [sock EXCEPT ![s].data = v, ![s].descriptors = w]
  BY Zenon DEF ClearIOThreadSignal, Receive, Dispatch, socketvars
<1>4. /\ d.op = "ThreadDone" /\ e.op = "NotifyError" /\ l.op = "Loop" /\ g.op = "Dispatch"
      /\ d.s = s /\ e.s = s /\ l.s = s /\ g.s = s
  BY DEF Frame
<1> HIDE DEF d, e, l, g
<1>5. /\ Head(stack[s]).op \in Bottom \ {"NotifyDeactivated"}
      /\ d.op \in Bottom \ {"NotifyDeactivated"} /\ l.op \in Bottom \ {"NotifyDeactivated"}
      /\ g.op \in Bottom \ {"NotifyDeactivated"} /\ e.op \in Upper
  BY <1>1, <1>4 DEF Bottom, Upper
<1>6. Variables /\ Sockets(sock)
  BY DEF IInv, Variables
<1>7. /\ Sockets(sock')
      /\ \A x \in End : sock'[x].shutdown = sock[x].shutdown /\ sock'[x].done = sock[x].done
  BY Zenon, <1>3, <1>6, OneField, TwoFields
<1>8. Variables' /\ SameEnds
  BY <1>1, <1>6, <1>7, SocketKept
<1>9. CASE Proceed(s, <<d>>)
  BY Zenon, <1>1, <1>4, <1>5, <1>8, <1>9, LoopStep
<1>10. CASE Proceed(s, <<e>> \o <<d>>)
  BY <1>1, <1>4, <1>5, <1>8, <1>10, LoopStep
<1>11. CASE Proceed(s, <<g>>)
  BY Zenon, <1>1, <1>4, <1>5, <1>8, <1>11, LoopStep
<1>12. CASE Proceed(s, <<l>>)
  BY Zenon, <1>1, <1>4, <1>5, <1>8, <1>12, LoopStep
<1> QED
  BY <1>2, <1>9, <1>10, <1>11, <1>12

\* A step of no thread.
LEMMA SameStacks ==
    ASSUME IInv, Variables', SameEnds, UNCHANGED stack
    PROVE  IInv'
<1>1. \A s \in End : Told(s)' <=> Told(s)
  BY DEF SameEnds, Told
<1>2. Stacks' /\ Activation'
  BY ActivationKept DEF IInv, Stacks, SameEnds
<1>3. Finality'
  BY <1>1 DEF IInv, Finality, FinalityOf, SameEnds
<1>4. scenario.driver = "multiprocess" => OneCallback'
  BY <1>1 DEF IInv, OneCallback, CallbackOf, SameEnds
<1>5. scenario.driver = "async" => OneTaskThread'
  BY <1>1 DEF IInv, OneTaskThread, TaskThreadOf, SameEnds
<1> QED
  BY <1>2, <1>3, <1>4, <1>5 DEF IInv, SameEnds

\* A socket is closed, or a driver object that is not an AsyncTransport.
LEMMA CloseStep ==
    ASSUME IInv, NEW s \in End, CloseSocket(s) \/ (CloseEnd(s) /\ UNCHANGED socketvars), UNCHANGED async
    PROVE  IInv'
<1>1. UNCHANGED <<scenario, next, stack, log>>
  BY DEF CloseSocket, CloseEnd, calls
<1>2. Variables /\ Sockets(sock)
  BY DEF IInv, Variables
<1>3. sock' = sock \/ \E v, w : sock' = [sock EXCEPT ![s].open = v, ![Peer(s)].reset = w]
  BY Zenon DEF CloseSocket, socketvars
<1>4. /\ Sockets(sock')
      /\ \A x \in End : sock'[x].shutdown = sock[x].shutdown /\ sock'[x].done = sock[x].done
  BY Zenon, <1>2, <1>3, TwoFields
<1>5. link' = link \/ link' = [link EXCEPT ![s].closed = TRUE]
  BY DEF CloseSocket, CloseEnd
<1>6. Variables' /\ SameEnds
  <2>1. link \in [End -> Held]
    BY <1>2 DEF Variables
  <2>2. link' \in [End -> Held] /\ \A x \in End : link'[x].state = link[x].state
    BY Zenon, <1>5, <2>1, LinkFields
  <2> QED
    BY <1>1, <1>2, <1>4, <2>2 DEF Variables, SameEnds
<1> QED
  BY <1>1, <1>6, SameStacks

----------------------------------------------------------------------------
(* The asynchronous driver. *)

\* Transmit() and Close() post a task to the peer.
LEMMA PostStep ==
    ASSUME IInv, NEW s \in End, NEW task, PostTask(Peer(s), task), UNCHANGED <<scenario, next, log, sock>>,
           link' = link \/ link' = [link EXCEPT ![s].closed = TRUE]
    PROVE  Variables' /\ SameEnds
<1>1. Peer(s) \in End
  BY DEF Peer, End
<1>2. Asyncs(async) /\ link \in [End -> Held] /\ Variables
  BY DEF IInv, Variables
<1>3. \E v, w : async' = [async EXCEPT ![Peer(s)].tasks = v, ![Peer(s)].notified = w]
  BY Zenon DEF PostTask
<1>4. Asyncs(async') /\ \A x \in End : async'[x].active = async[x].active
  <2> DEFINE p == Peer(s)
  <2>1. PICK v, w : async' = [async EXCEPT ![p].tasks = v, ![p].notified = w]
    BY Zenon, <1>3
  <2>2. p \in End
    BY <1>1
  <2> HIDE DEF p
  <2> QED
    BY Zenon, <1>2, <2>1, <2>2, TaskFields
<1>5. link' \in [End -> Held] /\ \A x \in End : link'[x].state = link[x].state
  BY Zenon, <1>2, LinkFields
<1> QED
  BY <1>2, <1>4, <1>5 DEF Variables, SameEnds

\* Transmit() of an AsyncTransport.
LEMMA AsyncTransmitStep ==
    ASSUME IInv, NEW t \in Thread, AsyncTransmit(t), UNCHANGED socketvars
    PROVE  IInv'
<1>1. /\ stack[t] # <<>> /\ Head(stack[t]).op = "Transmit" /\ UNCHANGED <<scenario, next, link, log, sock>>
      /\ PostTask(Peer(Head(stack[t]).s), MessageTask(Top(t).arg)) /\ Proceed(t, <<>>)
  BY DEF AsyncTransmit, At, Top, calls, socketvars
<1>2. Head(stack[t]).s \in End
  BY <1>1, TopFrame
<1>3. Variables' /\ SameEnds
  BY <1>1, <1>2, PostStep
<1>4. Head(stack[t]).op \in (Reacts \cup {"Join"}) \ {"Deactivate"}
  BY <1>1 DEF Reacts
<1> QED
  BY <1>1, <1>3, <1>4, PopStep

\* Close() of an AsyncTransport.
LEMMA AsyncCloseStep ==
    ASSUME IInv, NEW s \in End, AsyncClose(s), UNCHANGED socketvars
    PROVE  IInv'
<1>1. /\ UNCHANGED <<scenario, next, log, sock, stack>> /\ link' = [link EXCEPT ![s].closed = TRUE]
      /\ PostTask(Peer(s), ErrorTask)
  BY DEF AsyncClose, CloseEnd, calls, socketvars
<1>2. Variables' /\ SameEnds
  BY Zenon, <1>1, PostStep
<1> QED
  BY <1>1, <1>2, SameStacks

\* The task thread in its loop.
LEMMA TaskThreadStep ==
    ASSUME IInv, NEW s \in End, UNCHANGED socketvars,
           \/ RunTasks(s) /\ async[s].active
           \/ WaitForTask(s) \/ Rearm(s)
           \/ Run(s) /\ Head(Top(s).arg).error
    PROVE  IInv'
<1>1. /\ stack[s] # <<>> /\ Head(stack[s]).op \in {"RunTasks", "WaitForTask", "Rearm", "Run"}
      /\ UNCHANGED <<scenario, next, link, log, sock>>
  BY Zenon DEF RunTasks, WaitForTask, Rearm, Run, At, Top, calls, socketvars
<1> DEFINE e == Frame("NotifyError", s, FALSE)
<1>2. \E op \in {"WaitForTask", "Rearm", "RunTasks", "Run"} : \E v :
          Proceed(s, <<Frame(op, s, v)>>) \/ Proceed(s, <<e>> \o <<Frame(op, s, v)>>)
  <2>1. ASSUME RunTasks(s), async[s].active
        PROVE  Proceed(s, <<Frame("WaitForTask", s, FALSE)>>) \/ Proceed(s, <<Frame("Run", s, async[s].tasks)>>)
    BY Zenon, <2>1 DEF RunTasks
  <2>2. ASSUME WaitForTask(s) PROVE Proceed(s, <<Frame("Rearm", s, FALSE)>>)
    BY <2>2 DEF WaitForTask
  <2>3. ASSUME Rearm(s) PROVE Proceed(s, <<Frame("RunTasks", s, FALSE)>>)
    BY <2>3 DEF Rearm
  <2>4. ASSUME Run(s), Head(Top(s).arg).error
        PROVE  \/ Proceed(s, <<e>> \o <<Frame("RunTasks", s, FALSE)>>)
               \/ Proceed(s, <<e>> \o <<Frame("Run", s, Tail(Top(s).arg))>>)
    BY <2>4 DEF Run
  <2> HIDE DEF e
  <2> QED
    BY <2>1, <2>2, <2>3, <2>4, Zenon
<1>3. async' = async \/ \E v : \/ async' = [async EXCEPT ![s].tasks = v]
                               \/ async' = [async EXCEPT ![s].notified = v]
  BY Zenon DEF RunTasks, WaitForTask, Rearm, Run
<1>4. Variables /\ Asyncs(async)
  BY DEF IInv, Variables
<1>5. Asyncs(async') /\ \A x \in End : async'[x].active = async[x].active
  BY Zenon, <1>3, <1>4, TaskFields
<1>6. Variables' /\ SameEnds
  BY <1>1, <1>4, <1>5, TasksKept
<1> HIDE DEF e
<1>11. PICK op \in {"WaitForTask", "Rearm", "RunTasks", "Run"} :
          \E v : Proceed(s, <<Frame(op, s, v)>>) \/ Proceed(s, <<e>> \o <<Frame(op, s, v)>>)
  BY <1>2
<1>7. PICK v : Proceed(s, <<Frame(op, s, v)>>) \/ Proceed(s, <<e>> \o <<Frame(op, s, v)>>)
  BY <1>11
<1> DEFINE a == Frame(op, s, v)
<1>8. a.op = op /\ a.s = s /\ e.op = "NotifyError" /\ e.s = s
  BY DEF Frame, e
<1>9. Proceed(s, <<a>>) \/ Proceed(s, <<e>> \o <<a>>)
  BY <1>7
<1> HIDE DEF a
<1>10. /\ Head(stack[s]).op \in Bottom \ {"NotifyDeactivated"}
       /\ a.op \in Bottom \ {"NotifyDeactivated"} /\ e.op \in Upper
  BY <1>1, <1>7, <1>8 DEF Bottom, Upper
<1> QED
  BY <1>1, <1>6, <1>8, <1>9, <1>10, LoopStep

----------------------------------------------------------------------------
(* Calls that return, and deactivation. *)

\* join().
LEMMA JoinStep ==
    ASSUME IInv, NEW t \in Thread, Join(t), UNCHANGED <<sock, async>>
    PROVE  IInv'
<1>1. stack[t] # <<>> /\ Head(stack[t]).op = "Join" /\ UNCHANGED <<scenario, next, link, log>> /\ Proceed(t, <<>>)
  BY DEF Join, At, Top, calls
<1>2. Variables' /\ SameEnds
  BY <1>1 DEF IInv, Variables, SameEnds
<1>3. Head(stack[t]).op \in (Reacts \cup {"Join"}) \ {"Deactivate"}
  BY <1>1
<1> QED
  BY <1>1, <1>2, <1>3, PopStep

\* A handler returns, or NodeLink::Deactivate() finds nothing to do.
LEMMA ReturnStep ==
    ASSUME IInv, NEW t \in Thread, UNCHANGED <<sock, async>>,
           \/ Returned(t)
           \/ Deactivate(t) /\ link[Top(t).s].state # "kActive"
    PROVE  IInv'
<1> DEFINE q == stack[t]
<1>1. /\ q # <<>> /\ Head(q).op \in {"Returned", "Deactivate"}
      /\ UNCHANGED <<scenario, next, link, log>> /\ Proceed(t, <<>>)
      /\ Head(q).op = "Deactivate" => link[Head(q).s].state # "kActive"
  BY DEF Returned, Deactivate, At, Top, calls
<1>2. Fits(t, q) /\ IsStack(Tail(q)) /\ Head(q).s \in End /\ (t \in End => Head(q).s = t)
  BY <1>1, TopFrame
<1>3. /\ Ops(q) = {Head(q).op} \cup Ops(Tail(q))
      /\ \A x : (Telling(Tail(q), x) => Telling(q, x)) /\ (Inside(Tail(q), x) => Inside(q, x))
  BY <1>1, <1>2, Below
<1>4. Fits(t, Tail(q)) /\ \A x : ~Stopping(Tail(q), x) /\ ~Activating(Tail(q), x)
  <2>1. Head(q).op \in Reacts \cup {"Returned", "Join"}
    <3>1. "Deactivate" \in Reacts
      BY DEF Reacts
    <3> QED
      BY Zenon, <1>1, <3>1
  <2> QED
    BY <1>1, <1>2, <2>1, Pop
<1>5. stack' = [stack EXCEPT ![t] = Tail(q)]
  BY Zenon, <1>1, <1>2, NextFrames
<1>6. Variables' /\ SameEnds
  BY <1>1 DEF IInv, Variables, SameEnds
<1>7. ASSUME t \in End, Head(q).op = "Deactivate"
      PROVE  link[t].state = "kDeactivated"
  <2>1. link[t].state # "kNeverActivated"
    BY <1>1, <1>7 DEF IInv, Finality, FinalityOf
  <2>2. link[t].state \in {"kNeverActivated", "kActive", "kDeactivated"}
    BY <1>7 DEF IInv, Variables, Held
  <2> QED
    BY <1>1, <1>2, <1>7, <2>1, <2>2
<1>8. Head(q).op = "Returned" => ("NotifyError" \in Ops(q) => "NotifyError" \in Ops(Tail(q)))
  BY <1>3
<1> QED
  BY Zenon, <1>1, <1>3, <1>4, <1>5, <1>6, <1>7, <1>8, DullStep

\* NodeLink::Deactivate() of an end that is active.
LEMMA DeactivateStep ==
    ASSUME IInv, NEW t \in Thread, UNCHANGED <<sock, async>>,
           Deactivate(t), link[Top(t).s].state = "kActive"
    PROVE  IInv'
<1> DEFINE q == stack[t]
           s == Head(q).s
           a == Frame("DeactivateTransport", s, FALSE)
           r == Over(a, Tail(q))
<1>0. /\ Stacks /\ Variables /\ Activation /\ Finality
      /\ scenario.driver = "multiprocess" => OneCallback
      /\ scenario.driver = "async" => OneTaskThread
  BY DEF IInv
<1>1. /\ q # <<>> /\ Head(q).op = "Deactivate" /\ UNCHANGED <<scenario, next, log>>
      /\ link[s].state = "kActive" /\ link' = [link EXCEPT ![s].state = "kDeactivated"] /\ Proceed(t, <<a>>)
  BY DEF Deactivate, At, Top, calls
<1>2. Fits(t, q) /\ IsStack(Tail(q)) /\ s \in End /\ (t \in End => s = t)
  BY <1>1, TopFrame
<1>3. a.op = "DeactivateTransport" /\ a.s = s
  BY DEF Frame
<1> HIDE DEF a
<1>4. Ops(q) = {"Deactivate"} \cup Ops(Tail(q))
  BY <1>1, <1>2, Below
<1>5. Fits(t, r)
  <2>1. Head(q).op \in Reacts \ {"TakeThread"} /\ a.op \in Reacts
    BY <1>1, <1>3 DEF Reacts
  <2> QED
    BY <1>1, <1>2, <1>3, <2>1, Replace
<1>6. /\ \A x : Stopping(r, x) => x = s
      /\ \A x : Telling(r, x) <=> Telling(q, x)
      /\ \A x : Inside(r, x) <=> Inside(q, x)
      /\ \A x : ~Activating(r, x)
  <2>1. /\ \A x : Stopping(r, x) <=> a.s = x /\ a.op \in {"DeactivateTransport", "Shutdown"}
        /\ \A x : Activating(r, x) <=> a.s = x /\ a.op = "Activate"
        /\ \A x : Telling(r, x) <=> a.s = x /\ (a.op = "NotifyDeactivated" \/ "NotifyDeactivated" \in Ops(Tail(q)))
        /\ \A x : Inside(r, x) <=> a.s = x /\ (a.op = "Returned" \/ "Returned" \in Ops(Tail(q)))
    BY Zenon, <1>2, Push
  <2> HIDE DEF r
  <2> QED
    BY Zenon, <1>1, <1>3, <1>4, <2>1 DEF Telling, Inside, Concerns
<1>7. stack' = [stack EXCEPT ![t] = r]
  BY Zenon, <1>1, <1>2, NextFrames
<1> HIDE DEF r
<1>8. Stacks' /\ stack'[t] = r /\ \A u \in Thread : u # t => stack'[u] = stack[u]
  BY Zenon, <1>0, <1>5, <1>7, Moves
<1>9. link \in [End -> Held]
  BY <1>0 DEF Variables
<1>10. /\ link' \in [End -> Held] /\ link'[s].state = "kDeactivated"
       /\ \A x \in End : x # s => link'[x].state = link[x].state
  BY Zenon, <1>1, <1>2, <1>9, LinkFields
<1>11. Variables'
  BY <1>0, <1>1, <1>10 DEF Variables
<1>12. \A u \in Thread, x \in End :
          /\ x # s => (Stopping(stack'[u], x) => Stopping(stack[u], x))
          /\ u # t => (Stopping(stack'[u], x) => Stopping(stack[u], x))
          /\ Telling(stack'[u], x) => Telling(stack[u], x)
          /\ Inside(stack'[u], x) => Inside(stack[u], x)
          /\ Activating(stack'[u], x) => Activating(stack[u], x)
  BY <1>6, <1>8
<1>13. End \subseteq Thread /\ Caller \subseteq Thread /\ \A x \in End : x \notin Caller
  BY ThreadsDiffer
<1>14. Activation'
  BY <1>0, <1>1, <1>2, <1>10, <1>12, <1>13, ActivationKept
<1>15. \A x \in End : Told(x)' <=> Told(x)
  BY <1>1 DEF Told
<1>16. ~Told(s)
  BY <1>0, <1>1, <1>2 DEF Finality, FinalityOf
<1>17. \A x \in End : x # s => stack'[x] = stack[x]
  BY <1>2, <1>8, <1>13
<1>18. stack[s] = <<>> => stack'[s] = <<>>
  BY <1>1, <1>2, <1>8, <1>13
<1> HIDE DEF q, s
<1>19. Finality'
  BY <1>0, <1>1, <1>2, <1>10, <1>12, <1>13, <1>15, <1>16, <1>17, <1>18 DEF Finality, FinalityOf
<1>20. ASSUME scenario.driver = "multiprocess" PROVE OneCallback'
  <2>1. \A u \in Thread : ~Stopping(stack[u], s) /\ ~Telling(stack[u], s)
    BY <1>0, <1>1, <1>2, <1>20 DEF Finality, FinalityOf, OneCallback, CallbackOf
  <2>2. ~sock[s].shutdown
    BY <1>0, <1>1, <1>2, <1>20 DEF OneCallback, CallbackOf
  <2>3. sock[s].done => stack'[s] = stack[s]
    BY <1>0, <1>1, <1>2, <1>8, <1>13, <1>20 DEF OneCallback, CallbackOf, Ending, q
  <2>4. \A u, w \in Thread : Stopping(stack'[u], s) /\ Stopping(stack'[w], s) => u = w
    BY <1>2, <1>12, <2>1
  <2> QED
    BY <1>0, <1>1, <1>2, <1>10, <1>12, <1>13, <1>15, <1>16, <1>17, <1>20, <2>1, <2>2, <2>3, <2>4 DEF OneCallback, CallbackOf
<1>21. ASSUME scenario.driver = "async" PROVE OneTaskThread'
  BY <1>0, <1>1, <1>2, <1>10, <1>12, <1>13, <1>17, <1>21 DEF OneTaskThread, TaskThreadOf
<1> QED
  BY <1>1, <1>8, <1>11, <1>14, <1>19, <1>20, <1>21 DEF IInv

\* SocketTransport::Deactivate() leaves the callback to the I/O thread, or finds
\* that it has ended and keeps it.
LEMMA ShutdownStep ==
    ASSUME IInv, scenario.driver = "multiprocess", NEW t \in Thread, Shutdown(t), UNCHANGED async
    PROVE  IInv'
<1> DEFINE q == stack[t]
           s == Head(q).s
           a == Frame("TakeThread", s, FALSE)
           n == Frame("NotifyDeactivated", s, FALSE)
<1>0. Stacks /\ Variables /\ Activation /\ Finality /\ OneCallback
  BY DEF IInv
<1>1. /\ q # <<>> /\ Head(q).op = "Shutdown" /\ UNCHANGED <<scenario, next, link, log>>
      /\ sock[s].done => sock' = sock /\ Proceed(t, <<a>> \o <<n>>)
      /\ ~sock[s].done =>
            /\ sock' = [sock EXCEPT ![s].shutdown = TRUE, ![s].signal = TRUE]
            /\ Proceed(t, <<a>> \o <<>>)
  BY Zenon DEF Shutdown, At, Top, calls
<1>2. Fits(t, q) /\ IsStack(Tail(q)) /\ s \in End /\ (t \in End => s = t)
  BY ZenonT(40), <1>1, TopFrame
<1>3. a.op = "TakeThread" /\ a.s = s /\ n.op = "NotifyDeactivated" /\ n.s = s
  BY DEF Frame
<1> HIDE DEF a, n
<1>4. Ops(q) = {"Shutdown"} \cup Ops(Tail(q))
  BY <1>1, <1>2, Below
<1>5. Stopping(q, s)
  BY <1>1 DEF Stopping, Concerns
<1>6. /\ link[s].state = "kDeactivated" /\ ~Told(s) /\ ~sock[s].shutdown
      /\ \A u \in Thread : ~Telling(stack[u], s) /\ (Stopping(stack[u], s) => u = t)
  BY <1>0, <1>2, <1>5 DEF Finality, FinalityOf, OneCallback, CallbackOf
<1>7. End \subseteq Thread /\ Caller \subseteq Thread /\ \A x \in End : x \notin Caller
  BY ThreadsDiffer
<1>8. \A x \in End : Told(x)' <=> Told(x)
  BY <1>1 DEF Told
<1>9. CASE ~sock[s].done
  <2> DEFINE r == Over(a, Tail(q))
  <2>1. Fits(t, r)
    <3>1. Head(q).op \in Reacts \ {"TakeThread"} /\ a.op \in Reacts
      BY <1>1, <1>3 DEF Reacts
    <3> QED
      BY <1>1, <1>2, <1>3, <3>1, Replace
  <2>2. /\ \A x : ~Stopping(r, x) /\ ~Activating(r, x)
        /\ \A x : Telling(r, x) => Telling(q, x)
        /\ \A x : Inside(r, x) => Inside(q, x)
    <3>1. /\ \A x : Stopping(r, x) <=> a.s = x /\ a.op \in {"DeactivateTransport", "Shutdown"}
          /\ \A x : Activating(r, x) <=> a.s = x /\ a.op = "Activate"
          /\ \A x : Telling(r, x) <=> a.s = x /\ (a.op = "NotifyDeactivated" \/ "NotifyDeactivated" \in Ops(Tail(q)))
          /\ \A x : Inside(r, x) <=> a.s = x /\ (a.op = "Returned" \/ "Returned" \in Ops(Tail(q)))
      BY Zenon, <1>2, Push
    <3> HIDE DEF r
    <3> QED
      BY Zenon, <1>1, <1>3, <1>4, <3>1 DEF Telling, Inside, Concerns
  <2>3. stack' = [stack EXCEPT ![t] = r]
    BY Zenon, <1>1, <1>2, <1>9, NextFrames
  <2> HIDE DEF r
  <2>4. Stacks' /\ stack'[t] = r /\ \A u \in Thread : u # t => stack'[u] = stack[u]
    BY Zenon, <1>0, <2>1, <2>3, Moves
  <2>5. Sockets(sock)
    BY <1>0 DEF Variables
  <2>6. /\ Sockets(sock') /\ \A x \in End : sock'[x].done = sock[x].done
        /\ sock'[s].shutdown = TRUE
        /\ \A x \in End : x # s => sock'[x].shutdown = sock[x].shutdown
    BY Zenon, <1>1, <1>2, <1>9, <2>5, CallbackFields
  <2>7. Variables'
    BY <1>0, <1>1, <2>6 DEF Variables
  <2>8. \A u \in Thread, x \in End :
           /\ Stopping(stack'[u], x) => Stopping(stack[u], x) /\ u # t
           /\ Telling(stack'[u], x) => Telling(stack[u], x)
           /\ Inside(stack'[u], x) => Inside(stack[u], x)
           /\ Activating(stack'[u], x) => Activating(stack[u], x)
    BY <2>2, <2>4
  <2>9. Activation'
    BY <1>0, <1>1, <1>7, <2>8, ActivationKept
  <2>10. /\ \A x \in End : x # s => stack'[x] = stack[x]
         /\ stack[s] = <<>> => stack'[s] = <<>>
    BY <1>1, <1>2, <1>7, <2>4
  <2> HIDE DEF q, s
  <2>11. Finality'
    BY <1>0, <1>1, <1>2, <1>6, <1>7, <1>8, <2>8, <2>10 DEF Finality, FinalityOf
  <2>12. OneCallback'
    BY <1>0, <1>1, <1>2, <1>6, <1>7, <1>8, <1>9, <2>6, <2>8, <2>10 DEF OneCallback, CallbackOf
  <2> QED
    BY <1>1, <2>4, <2>7, <2>9, <2>11, <2>12 DEF IInv
<1>10. CASE sock[s].done
  <2> DEFINE r == Over(a, Over(n, Tail(q)))
  <2>1. stack[s] = <<>>
    <3>1. s \in Thread /\ (stack[s] # <<>> => Fits(s, stack[s]) /\ Head(stack[s]).s = s)
      BY <1>2, <1>7, TopFrame
    <3>2. Ending(stack[s], "NotifyDeactivated") => Telling(stack[s], s)
      BY <3>1, Below DEF Ending, Telling, Concerns
    <3> QED
      BY <1>0, <1>2, <1>6, <1>10, <3>1, <3>2 DEF OneCallback, CallbackOf
  <2>2. t \in Caller /\ t # s
    BY <1>1, <1>2, <2>1, ThreadsDiffer
  <2>3. Tail(q) = <<>> /\ Ops(Tail(q)) = {} /\ Ends(Tail(q)) = {}
    <3>1. Tail(q) = <<>>
      BY ZenonT(40), <1>1, <1>2, <2>2 DEF Fits, CallerShape
    <3> QED
      BY Zenon, <3>1, NoFrames
  <2>4. /\ Fits(t, r)
        /\ \A x : ~Stopping(r, x) /\ ~Activating(r, x) /\ ~Inside(r, x)
        /\ \A x : Telling(r, x) <=> x = s
    <3> DEFINE e == Tail(q)
               w == Over(n, e)
               y == Over(a, w)
    <3>1. IsStack(e) /\ e = <<>> /\ Ops(e) = {} /\ Ends(e) = {}
      BY <1>2, <2>3
    <3> HIDE DEF e
    <3>2. /\ IsStack(w) /\ w # <<>> /\ Head(w) = n /\ Tail(w) = e
          /\ Ops(w) = {n.op} \cup Ops(e) /\ Ends(w) = {n.s} \cup Ends(e)
      BY Zenon, <3>1, Push
    <3> HIDE DEF w
    <3>3. /\ IsStack(y) /\ y # <<>> /\ Head(y) = a /\ Tail(y) = w
          /\ Ops(y) = {a.op} \cup Ops(w) /\ Ends(y) = {a.s} \cup Ends(w)
      BY Zenon, <3>2, Push
    <3> HIDE DEF y
    <3>4. /\ CallerShape(y)
      BY <1>3, <3>1, <3>2, <3>3 DEF CallerShape
    <3>5. Ends(y) = {s} /\ Ops(y) = {"TakeThread", "NotifyDeactivated"}
      BY <1>3, <3>1, <3>2, <3>3
    <3>6. Fits(t, y)
      BY <1>2, <1>3, <2>2, <3>3, <3>4, <3>5, ThreadsDiffer DEF Fits
    <3>7. /\ \A x : ~Stopping(y, x) /\ ~Activating(y, x) /\ ~Inside(y, x)
          /\ \A x : Telling(y, x) <=> x = s
      BY <1>3, <3>3, <3>5 DEF Stopping, Activating, Inside, Telling, Concerns
    <3> QED
      BY <3>6, <3>7 DEF y, w, e
  <2>5. stack' = [stack EXCEPT ![t] = r]
    BY ZenonT(40), <1>1, <1>2, <1>10, NextFrames
  <2> HIDE DEF r
  <2>6. Stacks' /\ stack'[t] = r /\ \A u \in Thread : u # t => stack'[u] = stack[u]
    BY Zenon, <1>0, <2>4, <2>5, Moves
  <2>7. Variables'
    BY <1>0, <1>1, <1>10 DEF Variables
  <2>8. \A u \in Thread, x \in End :
           /\ Stopping(stack'[u], x) => Stopping(stack[u], x) /\ u # t
           /\ Telling(stack'[u], x) => (Telling(stack[u], x) /\ u # t) \/ (x = s /\ u = t)
           /\ Inside(stack'[u], x) => Inside(stack[u], x)
           /\ Activating(stack'[u], x) => Activating(stack[u], x)
    BY <2>4, <2>6
  <2>9. Activation'
    BY <1>0, <1>1, <1>7, <2>8, ActivationKept
  <2>10. \A x \in End : stack'[x] = stack[x]
    BY <1>7, <2>2, <2>6
  <2>11. \A x \in End : sock'[x] = sock[x]
    BY <1>1, <1>10
  <2> HIDE DEF q, s
  <2>12. Finality'
    BY <1>0, <1>1, <1>2, <1>6, <1>7, <1>8, <2>1, <2>8, <2>10 DEF Finality, FinalityOf
  <2>13. OneCallback'
    BY <1>0, <1>1, <1>2, <1>6, <1>7, <1>8, <1>10, <2>8, <2>10, <2>11 DEF OneCallback, CallbackOf
  <2> QED
    BY <1>1, <2>6, <2>7, <2>9, <2>12, <2>13 DEF IInv
<1> QED
  BY <1>9, <1>10

\* The I/O thread ends and takes the callback, if there is one, out.
LEMMA ThreadDoneStep ==
    ASSUME IInv, scenario.driver = "multiprocess", NEW s \in End, ThreadDone(s), UNCHANGED async
    PROVE  IInv'
<1> DEFINE q == stack[s]
           n == Frame("NotifyDeactivated", s, FALSE)
           r == IF sock[s].shutdown THEN Over(n, Tail(q)) ELSE Tail(q)
<1>0. Stacks /\ Variables /\ Activation /\ Finality /\ OneCallback
  BY DEF IInv
<1>1. /\ q # <<>> /\ Head(q).op = "ThreadDone" /\ UNCHANGED <<scenario, next, link, log>>
      /\ sock' = [sock EXCEPT ![s].shutdown = FALSE, ![s].done = TRUE]
      /\ sock[s].shutdown => Proceed(s, <<n>>)
      /\ ~sock[s].shutdown => Proceed(s, <<>>)
  BY DEF ThreadDone, At, Top, calls
<1>2. End \subseteq Thread /\ Caller \subseteq Thread /\ \A x \in End : x \notin Caller
  BY ThreadsDiffer
<1>3. Fits(s, q) /\ IsStack(Tail(q)) /\ Head(q).s = s
  BY <1>1, <1>2, TopFrame
<1>4. n.op = "NotifyDeactivated" /\ n.s = s
  BY DEF Frame
<1> HIDE DEF n
<1>5. /\ Tail(q) = <<>> /\ Ops(Tail(q)) = {} /\ Fits(s, Tail(q))
      /\ Fits(s, Over(n, Tail(q)))
  <2>1. Tail(q) = <<>>
    BY Zenon, <1>1, <1>3 DEF Fits, DriverShape, Reacting, Handling, Quiet, Base, Reacts, Bottom, Upper
  <2>2. Ops(Tail(q)) = {} /\ Ends(Tail(q)) = {}
    BY Zenon, <2>1, NoFrames
  <2>3. Fits(s, Tail(q))
    BY <1>2, <1>3, <2>1, <2>2 DEF Fits, DriverShape, Quiet
  <2>4. Head(q).op \in Bottom /\ n.op \in Bottom
    BY <1>1, <1>4 DEF Bottom
  <2>5. Fits(s, Over(n, Tail(q)))
    BY <1>1, <1>2, <1>3, <1>4, <2>4, Replace
  <2> QED
    BY <2>1, <2>2, <2>3, <2>5
<1>6. /\ \A x : ~Stopping(r, x) /\ ~Activating(r, x) /\ ~Inside(r, x)
      /\ \A x : Telling(r, x) => x = s /\ sock[s].shutdown
      /\ sock[s].shutdown => Ending(r, "NotifyDeactivated")
      /\ ~sock[s].shutdown => r = <<>>
  <2>1. CASE sock[s].shutdown
    <3> DEFINE w == Over(n, Tail(q))
    <3>1. /\ w # <<>> /\ Head(w) = n /\ Tail(w) = Tail(q) /\ Ops(w) = {n.op} \cup Ops(Tail(q))
      BY Zenon, <1>3, Push
    <3>2. r = w
      BY <2>1
    <3> HIDE DEF w, r
    <3> QED
      BY Zenon, <1>4, <1>5, <2>1, <3>1, <3>2 DEF Stopping, Activating, Inside, Telling, Concerns, Ending
  <2>2. CASE ~sock[s].shutdown
    BY <1>5, <2>2 DEF Stopping, Activating, Inside, Telling, Concerns
  <2> QED
    BY <2>1, <2>2
<1>7. stack' = [stack EXCEPT ![s] = r]
  <2>1. CASE sock[s].shutdown
    BY Zenon, <1>1, <1>3, <2>1, NextFrames
  <2>2. CASE ~sock[s].shutdown
    BY Zenon, <1>1, <1>3, <2>2, NextFrames
  <2> QED
    BY <2>1, <2>2
<1>8. Fits(s, r)
  BY <1>5
<1> HIDE DEF r
<1>9. Stacks' /\ stack'[s] = r /\ \A u \in Thread : u # s => stack'[u] = stack[u]
  BY Zenon, <1>0, <1>2, <1>7, <1>8, Moves
<1>10. ~sock[s].done /\ ~Told(s) /\ link[s].state # "kNeverActivated"
  BY <1>0, <1>1 DEF OneCallback, CallbackOf, Finality, FinalityOf, Ending
<1>11. \A u \in Thread : ~Telling(stack[u], s)
  BY <1>0, <1>10 DEF OneCallback, CallbackOf
<1>12. /\ sock[s].shutdown => link[s].state = "kDeactivated" /\ \A u \in Thread : ~Stopping(stack[u], s)
  BY <1>0 DEF OneCallback, CallbackOf
<1>13. Sockets(sock)
  BY <1>0 DEF Variables
<1>14. /\ Sockets(sock') /\ ~sock'[s].shutdown /\ sock'[s].done
       /\ \A x \in End : x # s => sock'[x] = sock[x]
  BY Zenon, <1>1, <1>13, CallbackFields
<1>15. Variables'
  BY <1>0, <1>1, <1>14 DEF Variables
<1>16. \A u \in Thread, x \in End :
          /\ Stopping(stack'[u], x) => Stopping(stack[u], x)
          /\ Telling(stack'[u], x) => (Telling(stack[u], x) /\ u # s) \/ (x = s /\ u = s /\ sock[s].shutdown)
          /\ Inside(stack'[u], x) => Inside(stack[u], x)
          /\ Activating(stack'[u], x) => Activating(stack[u], x)
  BY <1>6, <1>9
<1>17. Activation'
  BY <1>0, <1>1, <1>2, <1>16, ActivationKept
<1>18. \A x \in End : Told(x)' <=> Told(x)
  BY <1>1 DEF Told
<1>19. \A x \in End : x # s => stack'[x] = stack[x]
  BY <1>2, <1>9
<1>20. stack'[s] = <<>> \/ Ending(stack'[s], "NotifyDeactivated")
  BY <1>6, <1>9
<1> HIDE DEF q
<1>21. Finality'
  BY <1>0, <1>1, <1>2, <1>10, <1>11, <1>16, <1>18, <1>19 DEF Finality, FinalityOf
<1>22. OneCallback'
  <2> SUFFICES ASSUME NEW x \in End PROVE CallbackOf(x)'
    BY DEF OneCallback
  <2>1. CASE x # s
    BY ZenonT(40), <1>0, <1>1, <1>2, <1>14, <1>16, <1>18, <1>19, <2>1 DEF OneCallback, CallbackOf
  <2>2. CASE x = s
    <3>1. ~Told(s)' /\ link'[s].state = link[s].state
      BY <1>1, <1>10, <1>18
    <3>2. /\ \A t \in Thread : Telling(stack'[t], s) => t = s /\ sock[s].shutdown
          /\ \A t \in Thread : Stopping(stack'[t], s) => Stopping(stack[t], s) /\ ~sock[s].shutdown
      BY <1>11, <1>12, <1>16
    <3>3. \A t, u \in Thread : Stopping(stack'[t], s) /\ Stopping(stack'[u], s) => t = u
      BY <1>0, <3>2 DEF OneCallback, CallbackOf
    <3> QED
      BY <1>10, <1>12, <1>14, <1>20, <2>2, <3>1, <3>2, <3>3 DEF CallbackOf
  <2> QED
    BY <2>1, <2>2
<1> QED
  BY <1>1, <1>9, <1>15, <1>17, <1>21, <1>22 DEF IInv

\* AsyncTransport::Deactivate().
LEMMA AsyncDeactivateStep ==
    ASSUME IInv, NEW t \in Thread, AsyncDeactivate(t), UNCHANGED socketvars
    PROVE  IInv'
<1>a. stack[t] # <<>>
  BY DEF AsyncDeactivate, At
<1>b. PICK s \in End : s = Head(stack[t]).s
  BY <1>a, TopFrame
<1> DEFINE j == Frame("Join", s, FALSE)
<1>1. /\ Head(stack[t]).op = "DeactivateTransport" /\ UNCHANGED <<scenario, next, link, log, sock>>
      /\ async' = [async EXCEPT ![s].active = FALSE, ![s].joinable = FALSE, ![s].notified = TRUE]
      /\ Proceed(t, <<>>) \/ (Proceed(t, <<j>>) /\ t # s)
  BY Zenon, <1>b DEF AsyncDeactivate, At, Top, calls, socketvars
<1>2. link[s].state = "kDeactivated"
  <2>1. Stopping(stack[t], s)
    BY Zenon, <1>a, <1>b, <1>1 DEF Stopping, Concerns
  <2> QED
    BY <2>1 DEF IInv, Finality, FinalityOf
<1>3. Variables /\ Asyncs(async)
  BY DEF IInv, Variables
<1>4. Asyncs(async') /\ \A x \in End : x # s => async'[x] = async[x]
  BY Zenon, <1>1, <1>3, ActiveField
<1>5. Variables' /\ SameEnds
  BY Zenon, <1>1, <1>2, <1>3, <1>4 DEF Variables, SameEnds
<1>6. j.op = "Join" /\ j.s = s
  BY DEF Frame
<1> HIDE DEF j
<1>7. CASE Proceed(t, <<>>)
  <2>1. Head(stack[t]).op \in (Reacts \cup {"Join"}) \ {"Deactivate"}
    BY <1>1 DEF Reacts
  <2> QED
    BY <1>a, <1>5, <1>7, <2>1, PopStep
<1>8. CASE Proceed(t, <<j>>) /\ t # s
  <2>1. t \in Caller
    BY <1>a, <1>b, <1>8, TopFrame, ThreadsDiffer
  <2>2. /\ Head(stack[t]).op \notin {"Deactivate", "NotifyError", "NotifyDeactivated", "Returned"}
        /\ j.op \notin {"DeactivateTransport", "Shutdown"}
        /\ Head(stack[t]).op \in {"TakeThread", "DeactivateTransport"}
    BY <1>1, <1>6
  <2> QED
    BY <1>a, <1>b, <1>5, <1>6, <1>8, <2>1, <2>2, ReplaceStep
<1> QED
  BY <1>1, <1>7, <1>8

\* The task thread finds that its end is no longer active.
LEMMA InactiveStep ==
    ASSUME IInv, scenario.driver = "async", NEW s \in End, RunTasks(s), ~async[s].active, UNCHANGED socketvars
    PROVE  IInv'
<1> DEFINE q == stack[s]
           n == Frame("NotifyDeactivated", s, FALSE)
           r == Over(n, Tail(q))
<1>0. Stacks /\ Variables /\ Activation /\ Finality /\ OneTaskThread
  BY DEF IInv
<1>1. /\ q # <<>> /\ Head(q).op = "RunTasks" /\ UNCHANGED <<scenario, next, link, log, sock, async>>
      /\ Proceed(s, <<n>>)
  BY DEF RunTasks, At, Top, calls, socketvars
<1>2. End \subseteq Thread /\ Caller \subseteq Thread /\ \A x \in End : x \notin Caller
  BY ThreadsDiffer
<1>3. Fits(s, q) /\ IsStack(Tail(q)) /\ Head(q).s = s
  BY <1>1, <1>2, TopFrame
<1>4. n.op = "NotifyDeactivated" /\ n.s = s
  BY DEF Frame
<1> HIDE DEF n
<1>5. Tail(q) = <<>> /\ Ops(Tail(q)) = {} /\ Fits(s, r)
  <2>1. Tail(q) = <<>>
    BY Zenon, <1>1, <1>3 DEF Fits, DriverShape, Reacting, Handling, Quiet, Base, Reacts, Bottom, Upper
  <2>2. Ops(Tail(q)) = {}
    BY Zenon, <2>1, NoFrames
  <2>3. Head(q).op \in Bottom /\ n.op \in Bottom
    BY <1>1, <1>4 DEF Bottom
  <2>4. Fits(s, r)
    BY <1>1, <1>2, <1>3, <1>4, <2>3, Replace
  <2> QED
    BY <2>1, <2>2, <2>4
<1>6. r # <<>> /\ Head(r) = n /\ Ops(r) = {n.op} \cup Ops(Tail(q))
  BY Zenon, <1>3, Push
<1>7. stack' = [stack EXCEPT ![s] = r]
  BY Zenon, <1>1, <1>3, NextFrames
<1> HIDE DEF r
<1>8. /\ \A x : ~Stopping(r, x) /\ ~Activating(r, x) /\ ~Inside(r, x)
      /\ \A x : Telling(r, x) => x = s
  BY <1>4, <1>5, <1>6 DEF Stopping, Activating, Inside, Telling, Concerns
<1>9. Stacks' /\ stack'[s] = r /\ \A u \in Thread : u # s => stack'[u] = stack[u]
  BY Zenon, <1>0, <1>2, <1>5, <1>7, Moves
<1>10. link[s].state = "kDeactivated" /\ ~Told(s)
  BY <1>0, <1>1 DEF OneTaskThread, TaskThreadOf, Finality, FinalityOf, Ending
<1>11. Variables'
  BY <1>0, <1>1 DEF Variables
<1>12. \A u \in Thread, x \in End :
          /\ Stopping(stack'[u], x) => Stopping(stack[u], x)
          /\ Telling(stack'[u], x) => Telling(stack[u], x) \/ (x = s /\ u = s)
          /\ Inside(stack'[u], x) => Inside(stack[u], x)
          /\ Activating(stack'[u], x) => Activating(stack[u], x)
  BY <1>8, <1>9
<1>13. Activation'
  BY <1>0, <1>1, <1>2, <1>12, ActivationKept
<1>14. \A x \in End : (Told(x)' <=> Told(x)) /\ link'[x].state = link[x].state
  BY <1>1 DEF Told
<1>15. \A x \in End : x # s => stack'[x] = stack[x]
  BY <1>2, <1>9
<1>16. \A u \in Caller : ~Telling(stack[u], s) /\ ~Inside(stack[u], s)
  BY <1>0 DEF OneTaskThread, TaskThreadOf
<1> HIDE DEF q
<1>17. Finality'
  <2> SUFFICES ASSUME NEW x \in End PROVE FinalityOf(x)'
    BY DEF Finality
  <2>1. FinalityOf(x) /\ log'[x] = log[x] /\ link'[x].state = link[x].state /\ (Told(x)' <=> Told(x))
    BY <1>0, <1>1, <1>14 DEF Finality
  <2>2. \A u \in Thread : /\ Stopping(stack'[u], x) => Stopping(stack[u], x)
                          /\ Telling(stack'[u], x) => Telling(stack[u], x) \/ (x = s /\ u = s)
                          /\ Inside(stack'[u], x) => Inside(stack[u], x)
    BY <1>12
  <2>3. \A u \in Caller : u \in Thread
    BY Zenon, ThreadsDiffer
  <2>4. CASE x = s
    <3>1. ~Told(s)' /\ link'[s].state = "kDeactivated"
      BY <1>10, <1>14
    <3>2. \A u \in Caller : u # s /\ ~Telling(stack'[u], s) /\ ~Inside(stack'[u], s)
      BY <1>2, <1>16, <2>2, <2>3, <2>4, ThreadsDiffer
    <3> QED
      BY <2>1, <2>4, <3>1, <3>2 DEF FinalityOf
  <2>5. CASE x # s
    <3>1. stack'[x] = stack[x]
      BY <1>15, <2>5
    <3> QED
      BY <2>1, <2>2, <2>3, <2>5, <3>1 DEF FinalityOf
  <2> QED
    BY <2>4, <2>5
<1>18. OneTaskThread'
  BY <1>0, <1>1, <1>2, <1>10, <1>12, <1>14, <1>15 DEF OneTaskThread, TaskThreadOf
<1> QED
  BY <1>1, <1>9, <1>11, <1>13, <1>17, <1>18 DEF IInv

\* What the threads of a scenario have to do.
LEMMA Scripts ==
    ASSUME Variables, NEW t \in Caller
    PROVE  /\ next[t] \in Nat /\ next[t] >= 1
           /\ next[t] <= Len(Script(t)) => next[t] \in DOMAIN Script(t)
           /\ \A i \in DOMAIN Script(t) :
                 /\ i \in Nat /\ Script(t)[i].op \in {"Activate", "Transmit", "Deactivate"}
                 /\ Script(t)[i].s \in End
           /\ \A u \in Caller : \A i \in DOMAIN Script(t), j \in DOMAIN Script(u) :
                 (/\ Script(t)[i].op = "Activate" /\ Script(u)[j].op = "Activate"
                  /\ Script(t)[i].s = Script(u)[j].s) => t = u /\ i = j
<1>1. next[t] \in Nat /\ next[t] >= 1 /\ scenario \in Scenarios
  BY DEF Variables
<1> DEFINE T == scenario.threads
<1>2. /\ \A k \in DOMAIN T : /\ Len(T[k]) \in Nat /\ DOMAIN T[k] = 1 .. Len(T[k])
                             /\ \A i \in DOMAIN T[k] : /\ T[k][i].op \in {"Activate", "Transmit", "Deactivate"}
                                                       /\ T[k][i].s \in 1 .. 2
      /\ \A k, n \in DOMAIN T : \A i \in DOMAIN T[k], j \in DOMAIN T[n] :
            (T[k][i].op = "Activate" /\ T[n][j].op = "Activate" /\ T[k][i].s = T[n][j].s) => k = n /\ i = j
  BY <1>1, ScenarioAssumption
<1> HIDE DEF T
<1>3. \A u \in Caller : \/ u - 2 \in DOMAIN T /\ Script(u) = T[u - 2]
                        \/ Script(u) = <<>>
  BY DEF Script, T
<1>4. Len(<<>>) = 0 /\ DOMAIN <<>> = {}
  OBVIOUS
<1>5. \A u \in Caller, w \in Caller : u - 2 = w - 2 => u = w
  BY ScenarioAssumption DEF Caller
<1>6. next[t] <= Len(Script(t)) => next[t] \in DOMAIN Script(t)
  BY <1>1, <1>2, <1>3, <1>4
<1>7. \A i \in DOMAIN Script(t) :
         /\ i \in Nat /\ Script(t)[i].op \in {"Activate", "Transmit", "Deactivate"}
         /\ Script(t)[i].s \in End
  BY <1>2, <1>3, <1>4 DEF End
<1>8. ASSUME NEW u \in Caller, NEW i \in DOMAIN Script(t), NEW j \in DOMAIN Script(u),
             Script(t)[i].op = "Activate", Script(u)[j].op = "Activate", Script(t)[i].s = Script(u)[j].s
      PROVE  t = u /\ i = j
  BY <1>2, <1>3, <1>4, <1>5, <1>8
<1> QED
  BY <1>1, <1>6, <1>7, <1>8

\* A stack of one frame.
LEMMA OneFrame ==
    ASSUME NEW a
    PROVE  \E f : /\ f = <<a>> /\ IsStack(f) /\ f # <<>> /\ Head(f) = a /\ Tail(f) = <<>>
                  /\ Ops(f) = {a.op} /\ Ends(f) = {a.s}
<1> DEFINE e == <<>>
           r == Over(a, e)
<1>1. IsStack(e) /\ e = <<>> /\ Ops(e) = {} /\ Ends(e) = {}
  BY NoFrames
<1>2. <<a>> = r
  <2>1. <<a>> \in Seq({a})
    OBVIOUS
  <2> QED
    BY <2>1, NothingAdded DEF Over
<1> HIDE DEF e
<1>3. /\ IsStack(r) /\ r # <<>> /\ Head(r) = a /\ Tail(r) = e
      /\ Ops(r) = {a.op} \cup Ops(e) /\ Ends(r) = {a.s} \cup Ends(e)
  BY Zenon, <1>1, Push
<1> HIDE DEF r
<1> QED
  BY <1>1, <1>2, <1>3

\* A thread of the application makes its next call.
LEMMA StartCallStep ==
    ASSUME IInv, NEW t \in Caller, StartCall(t), UNCHANGED <<sock, async>>
    PROVE  IInv'
<1> DEFINE n == next[t]
           c == Script(t)[n]
           a == Frame(c.op, c.s, c.m)
<1>1. /\ Stacks /\ Variables /\ Activation /\ Finality
      /\ scenario.driver = "multiprocess" => OneCallback
      /\ scenario.driver = "async" => OneTaskThread
  BY DEF IInv
<1>2. /\ stack[t] = <<>> /\ n <= Len(Script(t)) /\ stack' = [stack EXCEPT ![t] = <<a>>]
      /\ next' = [next EXCEPT ![t] = n + 1]
      /\ UNCHANGED <<scenario, link, log>>
  BY DEF StartCall
<1>3. /\ n \in Nat /\ n >= 1 /\ n \in DOMAIN Script(t)
      /\ c.op \in {"Activate", "Transmit", "Deactivate"} /\ c.s \in End
  <2>1. /\ next[t] \in Nat /\ next[t] >= 1
        /\ next[t] <= Len(Script(t)) => next[t] \in DOMAIN Script(t)
        /\ \A i \in DOMAIN Script(t) :
              /\ i \in Nat /\ Script(t)[i].op \in {"Activate", "Transmit", "Deactivate"}
              /\ Script(t)[i].s \in End
    BY <1>1, Scripts
  <2> QED
    BY <1>2, <2>1
<1>4. PICK s \in End, o \in {"Activate", "Transmit", "Deactivate"} : s = c.s /\ o = c.op
  BY <1>3
<1>5. a.op = o /\ a.s = s
  BY <1>4 DEF Frame
<1>6. PICK f : /\ f = <<a>> /\ IsStack(f) /\ f # <<>> /\ Head(f) = a /\ Tail(f) = <<>>
               /\ Ops(f) = {a.op} /\ Ends(f) = {a.s}
  BY Zenon, OneFrame
<1>7. stack' = [stack EXCEPT ![t] = f]
  BY Zenon, <1>2, <1>6
<1> HIDE DEF a
<1>8. t \in Thread /\ t \notin End /\ \A u \in Thread : u \in End \/ u \in Caller
  BY ThreadsDiffer
<1>9. Fits(t, f)
  BY <1>5, <1>6, <1>8 DEF Fits, CallerShape, Calls, Reacts
<1>10. Stacks' /\ stack'[t] = f /\ \A u \in Thread : u # t => stack'[u] = stack[u]
  BY Zenon, <1>1, <1>7, <1>8, <1>9, Moves
<1>11. \A x \in End : /\ ~Stopping(f, x) /\ ~Telling(f, x) /\ ~Inside(f, x)
                      /\ Activating(f, x) <=> s = x /\ o = "Activate"
  BY <1>5, <1>6 DEF Stopping, Telling, Inside, Activating, Concerns
<1>12. \A x \in End : stack'[x] = stack[x]
  BY <1>8, <1>10 DEF Thread
<1>13. \A u \in Thread, x \in End :
          /\ Stopping(stack'[u], x) => Stopping(stack[u], x)
          /\ Telling(stack'[u], x) => Telling(stack[u], x)
          /\ Inside(stack'[u], x) => Inside(stack[u], x)
  <2> SUFFICES ASSUME NEW u \in Thread, NEW x \in End
               PROVE  /\ Stopping(stack'[u], x) => Stopping(stack[u], x)
                      /\ Telling(stack'[u], x) => Telling(stack[u], x)
                      /\ Inside(stack'[u], x) => Inside(stack[u], x)
    OBVIOUS
  <2>1. CASE u = t
    BY <1>10, <1>11, <2>1
  <2>2. CASE u # t
    BY <1>10, <2>2
  <2> QED
    BY <2>1, <2>2
<1>14. \A u \in Caller, x \in End :
          Activating(stack'[u], x) => Activating(stack[u], x) \/ (u = t /\ s = x /\ o = "Activate")
  <2> SUFFICES ASSUME NEW u \in Caller, NEW x \in End
               PROVE  Activating(stack'[u], x) => Activating(stack[u], x) \/ (u = t /\ s = x /\ o = "Activate")
    OBVIOUS
  <2>1. CASE u = t
    BY <1>10, <1>11, <2>1
  <2>2. CASE u # t
    BY <1>8, <1>10, <2>2 DEF Thread
  <2> QED
    BY <2>1, <2>2
<1>15. Variables'
  <2>1. next' \in [Caller -> Nat] /\ \A u \in Caller : next'[u] >= 1
    BY <1>1, <1>2, <1>3 DEF Variables
  <2> QED
    BY <1>1, <1>2, <2>1 DEF Variables
<1>16. /\ \A u \in Caller : Script(u)' = Script(u)
       /\ \A u \in Caller : next'[u] \in Nat /\ next[u] \in Nat /\ next'[u] >= next[u]
       /\ next'[t] = n + 1
  BY <1>1, <1>2, <1>3 DEF Variables, Script
<1>17. \A x \in End : (link'[x] = link[x] /\ sock'[x] = sock[x] /\ async'[x] = async[x]
                       /\ log'[x] = log[x] /\ (Told(x)' <=> Told(x)))
  BY <1>2 DEF Told
<1>18. o = "Activate" => /\ link[s].state = "kNeverActivated"
                         /\ \A u \in Caller : ~Activating(stack[u], s)
  <2>1. ActivationOf(s)
    BY <1>1 DEF Activation
  <2>2. n >= next[t]
    BY <1>3
  <2>3. (n >= next[t] /\ c.op = "Activate" /\ c.s = s) =>
           link[s].state = "kNeverActivated" /\ \A u \in Caller : ~Activating(stack[u], s)
    BY <1>3, <2>1 DEF ActivationOf
  <2> QED
    BY <1>4, <2>2, <2>3
<1>19. Activation'
  <2> SUFFICES ASSUME NEW x \in End, NEW v \in Caller
               PROVE  /\ Activating(stack'[v], x) => link'[x].state = "kNeverActivated"
                      /\ \A i \in DOMAIN Script(v) :
                            (i >= next'[v] /\ Script(v)[i].op = "Activate" /\ Script(v)[i].s = x) =>
                               link'[x].state = "kNeverActivated" /\ \A u \in Caller : ~Activating(stack'[u], x)
                      /\ \A u \in Caller : Activating(stack'[v], x) /\ Activating(stack'[u], x) => v = u
    BY <1>16 DEF Activation, ActivationOf
  <2>1. /\ Activating(stack[v], x) => link[x].state = "kNeverActivated"
        /\ \A i \in DOMAIN Script(v) :
              (i >= next[v] /\ Script(v)[i].op = "Activate" /\ Script(v)[i].s = x) =>
                 link[x].state = "kNeverActivated" /\ \A u \in Caller : ~Activating(stack[u], x)
        /\ \A u \in Caller : Activating(stack[v], x) /\ Activating(stack[u], x) => v = u
    BY <1>1 DEF Activation, ActivationOf
  <2>2. Activating(stack'[v], x) => link'[x].state = "kNeverActivated"
    BY <1>14, <1>17, <1>18, <2>1
  <2>3. ASSUME NEW i \in DOMAIN Script(v), i >= next'[v], Script(v)[i].op = "Activate", Script(v)[i].s = x
        PROVE  link'[x].state = "kNeverActivated" /\ \A u \in Caller : ~Activating(stack'[u], x)
    <3>1. i >= next[v] /\ i \in Nat
      <4>1. i \in Nat
        BY <1>1, Scripts
      <4> QED
        BY <1>16, <2>3, <4>1
    <3>2. link[x].state = "kNeverActivated" /\ \A u \in Caller : ~Activating(stack[u], x)
      BY <2>1, <2>3, <3>1
    <3>3. ~(s = x /\ o = "Activate")
      <4> SUFFICES ASSUME s = x, o = "Activate" PROVE FALSE
        OBVIOUS
      <4>1. n \in DOMAIN Script(t) /\ Script(t)[n].op = "Activate" /\ Script(t)[n].s = x
        BY <1>3, <1>4
      <4>2. \A j \in DOMAIN Script(v), k \in DOMAIN Script(t) :
               (/\ Script(v)[j].op = "Activate" /\ Script(t)[k].op = "Activate"
                /\ Script(v)[j].s = Script(t)[k].s) => v = t /\ j = k
        BY <1>1, Scripts
      <4>3. v = t /\ i = n
        BY <2>3, <4>1, <4>2
      <4> QED
        BY <1>3, <1>16, <2>3, <4>3
    <3> QED
      BY <1>14, <1>17, <3>2, <3>3
  <2>4. ASSUME NEW u \in Caller, Activating(stack'[v], x), Activating(stack'[u], x) PROVE v = u
    BY <1>14, <1>18, <2>1, <2>4
  <2> QED
    BY <2>2, <2>3, <2>4
<1>20. Finality'
  <2> SUFFICES ASSUME NEW x \in End PROVE FinalityOf(x)'
    BY DEF Finality
  <2>1. FinalityOf(x)
    BY <1>1 DEF Finality
  <2>2. \A u \in Caller : u \in Thread
    BY DEF Thread
  <2> QED
    BY <1>12, <1>13, <1>17, <2>1, <2>2 DEF FinalityOf
<1>21. ASSUME scenario.driver = "multiprocess" PROVE OneCallback'
  <2> SUFFICES ASSUME NEW x \in End PROVE CallbackOf(x)'
    BY DEF OneCallback
  <2>1. CallbackOf(x)
    BY <1>1, <1>21 DEF OneCallback
  <2> QED
    BY <1>12, <1>13, <1>17, <2>1 DEF CallbackOf
<1>22. ASSUME scenario.driver = "async" PROVE OneTaskThread'
  <2> SUFFICES ASSUME NEW x \in End PROVE TaskThreadOf(x)'
    BY DEF OneTaskThread
  <2>1. TaskThreadOf(x)
    BY <1>1, <1>22 DEF OneTaskThread
  <2>2. \A u \in Caller : u \in Thread
    BY DEF Thread
  <2> QED
    BY <1>12, <1>13, <1>17, <2>1, <2>2 DEF TaskThreadOf
<1> QED
  BY <1>2, <1>10, <1>15, <1>19, <1>20, <1>21, <1>22 DEF IInv
============================================================================
