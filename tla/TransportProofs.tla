-------------------------- MODULE TransportProofs --------------------------
(***************************************************************************)
(* Proofs about Transport: on either driver, whatever the threads of the   *)
(* application transmit and whenever they deactivate an end, the handler   *)
(* of an end is entered by one thread at a time, and never again after it  *)
(* was told that the end is deactivated.                                   *)
(***************************************************************************)
EXTENDS TransportSteps

----------------------------------------------------------------------------
(* Calls of the handlers. *)

\* A notification is added to the log of an end.
LEMMA Notified ==
    ASSUME Variables, NEW s \in End, NEW e, log' = [log EXCEPT ![s] = Append(@, e)]
    PROVE  /\ log' = [x \in End |-> log'[x]] /\ \A x \in End : IsStack(log'[x])
           /\ \A x \in End : x # s => log'[x] = log[x]
           /\ Len(log'[s]) = Len(log[s]) + 1 /\ Len(log[s]) \in Nat
           /\ DOMAIN log[s] = 1 .. Len(log[s]) /\ DOMAIN log'[s] = 1 .. Len(log'[s])
           /\ log'[s][Len(log'[s])] = e /\ \A i \in DOMAIN log[s] : log'[s][i] = log[s][i]
<1>1. log = [x \in End |-> log[x]] /\ \A x \in End : IsStack(log[x])
  BY DEF Variables
<1>2. log' = [x \in End |-> IF x = s THEN Append(log[s], e) ELSE log[x]]
  BY Zenon, <1>1
<1>3. \A x \in End : log'[x] = IF x = s THEN Append(log[s], e) ELSE log[x]
  BY <1>2
<1> DEFINE S == Elements(log[s]) \cup {e}
           l == log[s]
<1>4. l \in Seq(S) /\ e \in S
  BY <1>1 DEF IsStack
<1> HIDE DEF S, l
<1>5. /\ Append(l, e) \in Seq(S) /\ Len(Append(l, e)) = Len(l) + 1 /\ Len(l) \in Nat
      /\ Append(l, e)[Len(l) + 1] = e /\ \A i \in 1 .. Len(l) : Append(l, e)[i] = l[i]
      /\ DOMAIN l = 1 .. Len(l) /\ DOMAIN Append(l, e) = 1 .. Len(l) + 1
  BY <1>4
<1>6. IsStack(Append(l, e))
  BY Zenon, <1>5, StackIs
<1>7. log'[s] = Append(l, e)
  BY Zenon, <1>3 DEF l
<1>8. log' = [x \in End |-> log'[x]]
  BY Zenon, <1>2
<1>9. \A x \in End : IsStack(log'[x])
  BY Zenon, <1>1, <1>3, <1>6, <1>7
<1> QED
  BY <1>3, <1>5, <1>7, <1>8, <1>9 DEF l

\* NotifyTransport() with IPCZ_TRANSPORT_ACTIVITY_DEACTIVATED.
LEMMA NotifyDeactivatedStep ==
    ASSUME IInv, scenario.driver \in {"multiprocess", "async"},
           NEW t \in Thread, NotifyDeactivated(t), UNCHANGED <<sock, async>>
    PROVE  IInv'
<1>a. stack[t] # <<>>
  BY DEF NotifyDeactivated, At
<1>b. PICK s \in End : s = Head(stack[t]).s
  BY <1>a, TopFrame
<1> DEFINE q == stack[t]
           a == Frame("Returned", s, FALSE)
           r == Over(a, Tail(q))
<1>0. /\ Stacks /\ Variables /\ Activation /\ Finality
      /\ scenario.driver = "multiprocess" => OneCallback
      /\ scenario.driver = "async" => OneTaskThread
  BY DEF IInv
<1>1. /\ q # <<>> /\ Head(q).op = "NotifyDeactivated" /\ UNCHANGED <<scenario, next>>
      /\ log' = [log EXCEPT ![s] = Append(@, Notice("deactivated"))]
      /\ link' = [link EXCEPT ![s].handle = FALSE] /\ Proceed(t, <<a>>)
      /\ Head(q).s = s
  BY ZenonT(40), <1>b DEF NotifyDeactivated, At, Top, calls
<1>2. Fits(t, q) /\ IsStack(Tail(q)) /\ s \in End /\ (t \in End => s = t)
  BY <1>1, TopFrame
<1>3. a.op = "Returned" /\ a.s = s
  BY DEF Frame
<1> HIDE DEF a
<1>4. End \subseteq Thread /\ Caller \subseteq Thread /\ Thread = End \cup Caller /\ \A x \in End : x \notin Caller
  BY ThreadsDiffer
<1>5. Tail(q) = <<>> /\ Ops(Tail(q)) = {} /\ Ends(Tail(q)) = {}
  <2>1. t \in End => Tail(q) = <<>>
    BY Zenon, <1>1, <1>2 DEF Fits, DriverShape, Reacting, Handling, Quiet, Base, Reacts, Bottom, Upper
  <2>2. t \in Caller => Tail(q) = <<>>
    BY ZenonT(40), <1>1, <1>2 DEF Fits, CallerShape
  <2>3. Tail(q) = <<>>
    BY <1>4, <2>1, <2>2
  <2> QED
    BY Zenon, <2>3, NoFrames
<1>6. Ops(q) = {"NotifyDeactivated"}
  BY <1>1, <1>2, <1>5, Below
<1>7. Telling(q, s)
  BY <1>1, <1>6 DEF Telling, Concerns
<1>8. /\ r # <<>> /\ Head(r) = a /\ Tail(r) = Tail(q) /\ Ops(r) = {"Returned"} /\ Ends(r) = {s} /\ IsStack(r)
  BY Zenon, <1>2, <1>3, <1>5, Push
<1>9. stack' = [stack EXCEPT ![t] = r]
  BY Zenon, <1>1, <1>2, NextFrames
<1> HIDE DEF r
<1>10. Fits(t, r)
  <2>1. DriverShape(r) /\ CallerShape(r)
    BY Zenon, <1>3, <1>5, <1>8 DEF DriverShape, Handling, Quiet, CallerShape, Calls
  <2> QED
    BY <1>2, <1>3, <1>8, <2>1 DEF Fits
<1>11. /\ \A x : ~Stopping(r, x) /\ ~Activating(r, x) /\ ~Telling(r, x)
       /\ \A x : Inside(r, x) => x = s
       /\ Ending(r, "Returned")
  BY Zenon, <1>3, <1>5, <1>8 DEF Stopping, Activating, Telling, Inside, Concerns, Ending
<1>12. Stacks' /\ stack'[t] = r /\ \A u \in Thread : u # t => stack'[u] = stack[u]
  BY Zenon, <1>0, <1>9, <1>10, Moves
<1>13. link \in [End -> Held]
  BY <1>0 DEF Variables
<1>14. link' \in [End -> Held] /\ \A x \in End : link'[x].state = link[x].state
  BY Zenon, <1>1, <1>2, <1>13, LinkFields
<1>15. /\ log' = [x \in End |-> log'[x]] /\ \A x \in End : IsStack(log'[x])
       /\ \A x \in End : x # s => log'[x] = log[x]
       /\ Len(log'[s]) = Len(log[s]) + 1 /\ Len(log[s]) \in Nat
       /\ DOMAIN log[s] = 1 .. Len(log[s]) /\ DOMAIN log'[s] = 1 .. Len(log'[s])
       /\ log'[s][Len(log'[s])] = Notice("deactivated") /\ \A i \in DOMAIN log[s] : log'[s][i] = log[s][i]
  BY Zenon, <1>0, <1>1, <1>2, Notified
<1>16. Variables'
  BY <1>0, <1>1, <1>14, <1>15 DEF Variables
<1>17. ~Told(s)
  BY <1>0, <1>2, <1>7 DEF Finality, FinalityOf
<1>18. /\ Told(s)' /\ \A i \in DOMAIN log'[s] : log'[s][i].kind = "deactivated" => i = Len(log'[s])
       /\ \A x \in End : x # s => (Told(x)' <=> Told(x))
  <2>1. Notice("deactivated").kind = "deactivated"
    BY DEF Notice
  <2>2. Len(log'[s]) \in DOMAIN log'[s] /\ \A i \in DOMAIN log'[s] : i \in DOMAIN log[s] \/ i = Len(log'[s])
    BY <1>15
  <2> HIDE DEF q
  <2>3. Told(s)'
    BY <1>15, <2>1, <2>2 DEF Told
  <2>4. \A i \in DOMAIN log'[s] : log'[s][i].kind = "deactivated" => i = Len(log'[s])
    BY <1>15, <1>17, <2>2 DEF Told
  <2>5. \A x \in End : x # s => (Told(x)' <=> Told(x))
    BY <1>15 DEF Told
  <2> QED
    BY <2>3, <2>4, <2>5
<1>19. link[s].state = "kDeactivated" /\ (scenario.driver = "async" => t = s)
  <2>1. CASE scenario.driver = "multiprocess"
    BY <1>0, <1>2, <1>7, <2>1 DEF OneCallback, CallbackOf
  <2>2. CASE scenario.driver = "async"
    <3>1. t = s
      BY <1>0, <1>2, <1>4, <1>7, <2>2 DEF OneTaskThread, TaskThreadOf
    <3> QED
      BY <1>0, <1>1, <1>2, <1>6, <1>7, <2>2, <3>1 DEF OneTaskThread, TaskThreadOf
  <2> QED
    BY <2>1, <2>2
<1>20. \A u \in Thread : ~Telling(stack'[u], s)
  <2>1. CASE scenario.driver = "multiprocess"
    BY ZenonT(40), <1>0, <1>2, <1>7, <1>11, <1>12, <2>1 DEF OneCallback, CallbackOf
  <2>2. CASE scenario.driver = "async"
    <3>1. ASSUME NEW u \in End, Telling(stack[u], s) PROVE u = s
      <4>1. stack[u] # <<>> /\ Head(stack[u]).s = s
        BY <3>1 DEF Telling, Concerns
      <4> QED
        BY <1>4, <4>1, TopFrame
    <3> QED
      BY ZenonT(40), <1>0, <1>2, <1>4, <1>11, <1>12, <1>19, <2>2, <3>1 DEF OneTaskThread, TaskThreadOf
  <2> QED
    BY <2>1, <2>2
<1>21. /\ \A x \in End : x # s => stack'[x] = stack[x]
       /\ stack'[s] = <<>> \/ Ending(stack'[s], "Returned")
       /\ t \in Caller => stack'[s] = <<>>
  BY ZenonT(40), <1>0, <1>2, <1>4, <1>7, <1>11, <1>12 DEF Finality, FinalityOf
<1>22. \A u \in Thread, x \in End :
          /\ Stopping(stack'[u], x) => Stopping(stack[u], x)
          /\ Telling(stack'[u], x) => Telling(stack[u], x)
          /\ Inside(stack'[u], x) => Inside(stack[u], x) \/ (u = t /\ x = s)
          /\ Activating(stack'[u], x) => Activating(stack[u], x)
  BY <1>11, <1>12
<1>23. \A u \in Caller : ~Inside(stack[u], s)
  BY <1>0, <1>2, <1>17 DEF Finality, FinalityOf
<1>24. Activation'
  BY <1>0, <1>1, <1>4, <1>14, <1>22, ActivationKept
<1>25. link[s].state # "kNeverActivated"
  BY <1>19
<1> HIDE DEF q
<1>26. Finality'
  <2> SUFFICES ASSUME NEW x \in End PROVE FinalityOf(x)'
    BY DEF Finality
  <2>1. CASE x # s
    BY <1>0, <1>4, <1>14, <1>15, <1>18, <1>21, <1>22, <2>1 DEF Finality, FinalityOf
  <2>2. CASE x = s
    BY <1>4, <1>14, <1>18, <1>19, <1>20, <1>21, <1>22, <1>23, <2>2 DEF FinalityOf
  <2> QED
    BY <2>1, <2>2
<1>27. ASSUME scenario.driver = "multiprocess" PROVE OneCallback'
  <2>1. /\ sock[s].done /\ ~sock[s].shutdown
        /\ \A u \in Thread : ~Stopping(stack[u], s)
    BY <1>0, <1>2, <1>7, <1>27 DEF OneCallback, CallbackOf, q
  <2>2. /\ \A u \in Thread : ~Stopping(stack'[u], s) /\ ~Telling(stack'[u], s)
    BY <1>2, <1>20, <1>22, <2>1
  <2>3. UNCHANGED sock
    OBVIOUS
  <2> QED
    BY SMTT(20), ZenonT(60), <1>0, <1>2, <1>4, <1>14, <1>18, <1>21, <1>22, <1>25, <1>27, <2>1, <2>2, <2>3 DEF OneCallback, CallbackOf
<1>28. ASSUME scenario.driver = "async" PROVE OneTaskThread'
  BY <1>0, <1>2, <1>4, <1>14, <1>19, <1>20, <1>21, <1>22, <1>28 DEF OneTaskThread, TaskThreadOf
<1> QED
  BY <1>1, <1>12, <1>16, <1>24, <1>26, <1>27, <1>28 DEF IInv

\* A thread of a driver calls the handler of its end for a message or an error.
LEMMA CalledStep ==
    ASSUME IInv, UNCHANGED <<scenario, next, link, async>>, Sockets(sock'),
           \A x \in End : sock'[x].shutdown = sock[x].shutdown /\ sock'[x].done = sock[x].done,
           NEW s \in End, stack[s] # <<>>, Head(stack[s]).op \notin {"Returned", "NotifyDeactivated"},
           NEW e, e.kind # "deactivated", log' = [log EXCEPT ![s] = Append(@, e)],
           NEW r, Fits(s, r), r # <<>>, stack' = [stack EXCEPT ![s] = r],
           Head(r).op \notin {"DeactivateTransport", "Shutdown", "Activate"},
           scenario.driver = "multiprocess" => (Telling(r, s) => Telling(stack[s], s)),
           scenario.driver = "async" =>
               (Telling(r, s) => \/ link[s].state = "kDeactivated"
                                 \/ "NotifyError" \in Ops(r) \/ Head(r).op = "Deactivate")
    PROVE  IInv'
<1>0. /\ Stacks /\ Variables /\ Activation /\ Finality
      /\ scenario.driver = "multiprocess" => OneCallback
      /\ scenario.driver = "async" => OneTaskThread
  BY DEF IInv
<1>1. End \subseteq Thread /\ Caller \subseteq Thread /\ Thread = End \cup Caller /\ \A x \in End : x \notin Caller
  BY ThreadsDiffer
<1>2. Stacks' /\ stack'[s] = r /\ \A u \in Thread : u # s => stack'[u] = stack[u]
  BY ZenonT(40), <1>0, <1>1, Moves
<1>3. /\ log' = [x \in End |-> log'[x]] /\ \A x \in End : IsStack(log'[x])
      /\ \A x \in End : x # s => log'[x] = log[x]
      /\ Len(log'[s]) = Len(log[s]) + 1 /\ Len(log[s]) \in Nat
      /\ DOMAIN log[s] = 1 .. Len(log[s]) /\ DOMAIN log'[s] = 1 .. Len(log'[s])
      /\ log'[s][Len(log'[s])] = e /\ \A i \in DOMAIN log[s] : log'[s][i] = log[s][i]
  BY Zenon, <1>0, Notified
<1>4. Variables'
  BY <1>0, <1>3 DEF Variables
<1>5. ~Told(s)
  BY <1>0 DEF Finality, FinalityOf, Ending
<1>6. ~Told(s)' /\ \A x \in End : Told(x)' <=> Told(x)
  <2>1. \A i \in DOMAIN log'[s] : i \in DOMAIN log[s] \/ i = Len(log'[s])
    BY <1>3
  <2>2. ~Told(s)'
    BY <1>3, <1>5, <2>1 DEF Told
  <2>3. \A x \in End : x # s => (Told(x)' <=> Told(x))
    BY <1>3 DEF Told
  <2> QED
    BY ZenonT(40), <1>5, <2>2, <2>3
<1>7. \A x \in End : x # s => ~Telling(r, x) /\ ~Inside(r, x)
  <2>1. Head(r).s = s
    BY Below
  <2> QED
    BY <2>1 DEF Telling, Inside, Concerns
<1>8. \A x : ~Stopping(r, x) /\ ~Activating(r, x)
  BY DEF Stopping, Activating, Concerns
<1>9. \A u \in Thread, x \in End :
         /\ Stopping(stack'[u], x) => Stopping(stack[u], x)
         /\ u # s => (Telling(stack'[u], x) => Telling(stack[u], x))
         /\ x # s => (Telling(stack'[u], x) => Telling(stack[u], x))
         /\ u # s => (Inside(stack'[u], x) => Inside(stack[u], x))
         /\ Activating(stack'[u], x) => Activating(stack[u], x)
  BY <1>2, <1>7, <1>8
<1>10. \A x \in End : x # s => stack'[x] = stack[x]
  BY <1>1, <1>2
<1>11. Activation'
  BY ZenonT(40), <1>0, <1>1, <1>9, ActivationKept
<1>12. link[s].state # "kNeverActivated" /\ \A u \in Caller : ~Telling(stack[u], s) /\ ~Inside(stack[u], s)
  BY ZenonT(40), <1>0 DEF Finality, FinalityOf
<1>13. \A x \in End : link'[x].state = link[x].state
  OBVIOUS
<1>14. Finality'
  <2> SUFFICES ASSUME NEW x \in End PROVE FinalityOf(x)'
    BY DEF Finality
  <2>1. CASE x # s
    BY <1>0, <1>1, <1>3, <1>6, <1>9, <1>10, <1>13, <2>1 DEF Finality, FinalityOf
  <2>2. CASE x = s
    <3>1. \A i \in DOMAIN log'[s] : log'[s][i].kind # "deactivated"
      BY <1>6 DEF Told
    <3>2. \A u \in Thread : Stopping(stack[u], s) => link[s].state = "kDeactivated"
      BY <1>0 DEF Finality, FinalityOf
    <3>3. \A u \in Caller : u # s
      BY Zenon, <1>1
    <3> QED
      BY SMTT(20), ZenonT(40), <1>1, <1>6, <1>9, <1>12, <1>13, <2>2, <3>1, <3>2, <3>3 DEF FinalityOf
  <2> QED
    BY ZenonT(40), <2>1, <2>2
<1>15. ASSUME scenario.driver = "multiprocess" PROVE OneCallback'
  <2>1. ~sock[s].done
    BY ZenonT(40), <1>0, <1>5, <1>15 DEF OneCallback, CallbackOf, Ending
  <2>2. \A u \in Thread, x \in End : Telling(stack'[u], x) => Telling(stack[u], x)
    BY ZenonT(40), <1>2, <1>9, <1>15
  <2> QED
    BY ZenonT(40), <1>0, <1>6, <1>9, <1>10, <1>13, <1>15, <2>1, <2>2 DEF OneCallback, CallbackOf
<1>16. ASSUME scenario.driver = "async" PROVE OneTaskThread'
  <2>1. async[s].active = async'[s].active
    OBVIOUS
  <2> QED
    BY SMTT(20), ZenonT(60), <1>0, <1>1, <1>2, <1>9, <1>10, <1>13, <1>16 DEF OneTaskThread, TaskThreadOf
<1> QED
  BY <1>2, <1>4, <1>11, <1>14, <1>15, <1>16 DEF IInv

\* What a thread of a driver does once the handler has returned.
Later(f, s, ops) == IsStack(f) /\ Quiet(f) /\ Ends(f) = {s} /\ Ops(f) = ops

\* Such frames, as the actions write them.
LEMMA LaterFrames ==
    ASSUME NEW s, NEW a, a.op \in Bottom, a.s = s, NEW b, b.op \in Upper, b.s = s
    PROVE  /\ \A f : f = <<a>> => Later(f, s, {a.op})
           /\ \A f : f = <<b>> \o <<a>> => Later(f, s, {a.op, b.op})
<1> DEFINE e == <<>>
           r == Over(a, e)
           w == Over(b, r)
<1>1. IsStack(e) /\ e = <<>> /\ Ops(e) = {} /\ Ends(e) = {}
  BY NoFrames
<1>2. <<a>> = r
  <2>1. <<a>> \in Seq({a})
    OBVIOUS
  <2> QED
    BY <2>1, NothingAdded DEF Over
<1>3. <<b>> \o <<a>> = w
  BY <1>2 DEF Over
<1> HIDE DEF e
<1>4. /\ IsStack(r) /\ r # <<>> /\ Head(r) = a /\ Tail(r) = e
      /\ Ops(r) = {a.op} \cup Ops(e) /\ Ends(r) = {a.s} \cup Ends(e)
  BY Zenon, <1>1, Push
<1> HIDE DEF r
<1>5. /\ IsStack(w) /\ w # <<>> /\ Head(w) = b /\ Tail(w) = r
      /\ Ops(w) = {b.op} \cup Ops(r) /\ Ends(w) = {b.s} \cup Ends(r)
  BY Zenon, <1>4, Push
<1> HIDE DEF w
<1>6. Quiet(r) /\ Quiet(w)
  BY <1>1, <1>4, <1>5 DEF Quiet, Base
<1>7. Ends(r) = {s} /\ Ends(w) = {s} /\ Ops(r) = {a.op} /\ Ops(w) = {a.op, b.op}
  BY <1>1, <1>4, <1>5
<1> QED
  BY Zenon, <1>2, <1>3, <1>4, <1>5, <1>6, <1>7 DEF Later

\* NotifyTransport() with IPCZ_TRANSPORT_ACTIVITY_ERROR.
LEMMA NotifyErrorStep ==
    ASSUME IInv, NEW t \in Thread, NotifyError(t), UNCHANGED <<sock, async>>
    PROVE  IInv'
<1> DEFINE q == stack[t]
           a == Frame("Returned", t, FALSE)
           b == Frame("Deactivate", t, FALSE)
           e == Notice("error")
           r == Over(b, Over(a, Tail(q)))
<1>1. q # <<>> /\ Head(q).op = "NotifyError" /\ UNCHANGED <<scenario, next, link>>
  BY DEF NotifyError, At, Top, calls
<1>2. Fits(t, q) /\ IsStack(Tail(q)) /\ (t \in End => Head(q).s = t)
  BY <1>1, TopFrame
<1>3. t \in End
  <2>1. t \notin Caller
    BY <1>1, <1>2 DEF Fits, CallerShape, Calls, Reacts
  <2> QED
    BY <2>1, ThreadsDiffer
<1>4. /\ log' = [log EXCEPT ![t] = Append(@, e)] /\ Proceed(t, <<b, a>>)
  BY Zenon, <1>2, <1>3 DEF NotifyError, Top
<1>5. a.op = "Returned" /\ a.s = t /\ b.op = "Deactivate" /\ b.s = t /\ e.kind # "deactivated"
  BY DEF Frame, Notice
<1> HIDE DEF a, b, e
<1>6. stack' = [stack EXCEPT ![t] = r]
  BY Zenon, <1>2, <1>4, NextFrames
<1>7. Quiet(Tail(q))
  BY Zenon, <1>1, <1>2, <1>3 DEF Fits, DriverShape, Reacting, Handling, Quiet, Base, Reacts, Bottom, Upper
<1>8. Ends(Tail(q)) \subseteq {t} /\ Ops(q) = {"NotifyError"} \cup Ops(Tail(q))
  BY <1>1, <1>2, <1>3, Below
<1>9. Fits(t, r)
  <2>1. b.op \in Reacts
    BY <1>5 DEF Reacts
  <2> QED
    BY <1>2, <1>3, <1>5, <1>7, <1>8, <2>1, EnterHandler
<1>10. /\ r # <<>> /\ Head(r) = b /\ Ops(r) = {"Deactivate", "Returned"} \cup Ops(Tail(q))
  <2> DEFINE w == Over(a, Tail(q))
  <2>1. IsStack(w) /\ Ops(w) = {a.op} \cup Ops(Tail(q))
    BY Zenon, <1>2, Push
  <2> HIDE DEF w
  <2>2. Over(b, w) # <<>> /\ Head(Over(b, w)) = b /\ Ops(Over(b, w)) = {b.op} \cup Ops(w)
    BY Zenon, <2>1, Push
  <2>3. Ops(Over(b, w)) = {"Deactivate", "Returned"} \cup Ops(Tail(q))
    BY <1>5, <2>1, <2>2
  <2> QED
    BY <2>2, <2>3 DEF w
<1> HIDE DEF r
<1>11. Telling(r, t) => Telling(q, t)
  BY <1>1, <1>2, <1>3, <1>8, <1>10 DEF Telling, Concerns
<1>12. Head(r).op = "Deactivate" /\ Head(r).op \notin {"DeactivateTransport", "Shutdown", "Activate"}
  BY <1>5, <1>10
<1>13. /\ Sockets(sock')
       /\ \A x \in End : sock'[x].shutdown = sock[x].shutdown /\ sock'[x].done = sock[x].done
  BY DEF IInv, Variables
<1> QED
  BY Zenon, <1>1, <1>3, <1>4, <1>5, <1>6, <1>9, <1>10, <1>11, <1>12, <1>13, CalledStep

\* NotifyTransport() with a message.
LEMMA MessageStep ==
    ASSUME IInv, UNCHANGED <<scenario, next, async>>, Sockets(sock'),
           \A x \in End : sock'[x].shutdown = sock[x].shutdown /\ sock'[x].done = sock[x].done,
           NEW s \in End, stack[s] # <<>>, Head(stack[s]).op \in {"Dispatch", "Run"},
           NEW m, NEW fds, NEW more, NotifyMessage(s, s, m, fds, more),
           IsStack(more), Quiet(more), Ends(more) = {s},
           \/ "NotifyDeactivated" \notin Ops(more)
           \/ scenario.driver # "multiprocess" /\ "NotifyError" \in Ops(more)
    PROVE  IInv'
<1> DEFINE q == stack[s]
           a == Frame("Returned", s, FALSE)
           e == [kind |-> "message", m |-> m, fds |-> fds]
<1>1. /\ UNCHANGED link /\ log' = [log EXCEPT ![s] = Append(@, e)]
      /\ Proceed(s, Reaction(s, m) \o <<a>> \o more)
  BY DEF NotifyMessage
<1>2. s \in Thread
  BY ThreadsDiffer
<1>3. Fits(s, q) /\ IsStack(Tail(q)) /\ Head(q).s = s
  BY <1>2, TopFrame
<1>4. Tail(q) = <<>>
  BY Zenon, <1>3 DEF Fits, DriverShape, Reacting, Handling, Quiet, Base, Reacts, Bottom, Upper
<1>5. a.op = "Returned" /\ a.s = s /\ e.kind # "deactivated"
  BY DEF Frame
<1>6. \/ Reaction(s, m) = <<>>
      \/ \E b : b.op \in {"Transmit", "Deactivate"} /\ b.s = s /\ Reaction(s, m) = <<b>>
  BY DEF Reaction, Frame
<1> HIDE DEF a, e
<1>7. IsStack(<<a>>) /\ <<a>> \o more = Over(a, more) /\ <<>> \o <<a>> = <<a>>
  <2>1. <<a>> \in Seq({a})
    OBVIOUS
  <2>2. IsStack(<<a>>) /\ <<>> \o <<a>> = <<a>>
    BY Zenon, <2>1, StackIs, NothingAdded
  <2> QED
    BY <2>2 DEF Over
<1>8. ASSUME NEW f, IsStack(f) PROVE f \o Tail(q) = f
  BY Zenon, <1>4, <1>8, NothingAdded DEF IsStack
<1>9. IsStack(Over(a, more)) /\ Over(a, more) # <<>> /\ Head(Over(a, more)) = a
      /\ Ops(Over(a, more)) = {a.op} \cup Ops(more)
  BY Zenon, Push
<1>10. \E r : /\ stack' = [stack EXCEPT ![s] = r] /\ Fits(s, r) /\ r # <<>>
              /\ Head(r).op \in {"Returned", "Transmit", "Deactivate"}
              /\ "NotifyError" \in Ops(more) => "NotifyError" \in Ops(r)
              /\ "NotifyDeactivated" \in Ops(r) => "NotifyDeactivated" \in Ops(more)
  <2>1. CASE Reaction(s, m) = <<>>
    <3>1. stack' = [stack EXCEPT ![s] = Over(a, more)]
      BY Zenon, <1>1, <1>7, <1>8, <1>9, <2>1 DEF Proceed
    <3>2. Fits(s, Over(a, more))
      <4> DEFINE b == Frame("Transmit", s, FALSE)
      <4>1. b.op \in Reacts /\ b.s = s
        BY DEF Frame, Reacts
      <4> HIDE DEF b
      <4> QED
        BY <1>5, <4>1, EnterHandler
    <3> QED
      BY Zenon, <1>5, <1>9, <3>1, <3>2
  <2>2. ASSUME NEW b, b.op \in {"Transmit", "Deactivate"}, b.s = s, Reaction(s, m) = <<b>>
        PROVE  \E r : /\ stack' = [stack EXCEPT ![s] = r] /\ Fits(s, r) /\ r # <<>>
                      /\ Head(r).op \in {"Returned", "Transmit", "Deactivate"}
                      /\ "NotifyError" \in Ops(more) => "NotifyError" \in Ops(r)
                      /\ "NotifyDeactivated" \in Ops(r) => "NotifyDeactivated" \in Ops(more)
    <3> DEFINE r == Over(b, Over(a, more))
    <3>1. (<<b>> \o <<a>>) \o more = r
      BY ZenonT(40), <1>7, MoreFrames
    <3>2. IsStack(r) /\ r # <<>> /\ Head(r) = b /\ Ops(r) = {b.op} \cup Ops(Over(a, more))
      BY Zenon, <1>9, Push
    <3> HIDE DEF r
    <3>3. stack' = [stack EXCEPT ![s] = r]
      BY Zenon, <1>1, <1>8, <2>2, <3>1, <3>2 DEF Proceed
    <3>4. Fits(s, r)
      <4>1. b.op \in Reacts
        BY <2>2 DEF Reacts
      <4>2. Fits(s, Over(b, Over(a, more)))
        BY <1>5, <2>2, <4>1, EnterHandler
      <4> QED
        BY <4>2 DEF r
    <3> QED
      BY Zenon, <1>5, <1>9, <2>2, <3>2, <3>3, <3>4
  <2> QED
    BY <1>6, <2>1, <2>2
<1>11. PICK r : /\ stack' = [stack EXCEPT ![s] = r] /\ Fits(s, r) /\ r # <<>>
                /\ Head(r).op \in {"Returned", "Transmit", "Deactivate"}
                /\ "NotifyError" \in Ops(more) => "NotifyError" \in Ops(r)
                /\ "NotifyDeactivated" \in Ops(r) => "NotifyDeactivated" \in Ops(more)
  BY Zenon, <1>10
<1>12. /\ scenario.driver = "multiprocess" => (Telling(r, s) => Telling(stack[s], s))
       /\ scenario.driver = "async" =>
             (Telling(r, s) => \/ link[s].state = "kDeactivated"
                               \/ "NotifyError" \in Ops(r) \/ Head(r).op = "Deactivate")
  BY <1>11 DEF Telling
<1>13. Head(r).op \notin {"DeactivateTransport", "Shutdown", "Activate"}
  BY <1>11
<1>14. Head(stack[s]).op \notin {"Returned", "NotifyDeactivated"}
  OBVIOUS
<1> QED
  BY Zenon, <1>1, <1>5, <1>11, <1>12, <1>13, <1>14, CalledStep

\* TryDispatchMessages() with a message.
LEMMA DispatchStep ==
    ASSUME IInv, NEW s \in End, Dispatch(s), Complete(s), UNCHANGED async
    PROVE  IInv'
<1> DEFINE d == Frame("ThreadDone", s, FALSE)
           e == Frame("NotifyError", s, FALSE)
           g == Frame("Dispatch", s, FALSE)
<1>1. /\ stack[s] # <<>> /\ Head(stack[s]).op = "Dispatch" /\ UNCHANGED <<scenario, next>>
      /\ \E v, w : sock' = [sock EXCEPT ![s].data = v, ![s].descriptors = w]
      /\ \E m, fds, more : NotifyMessage(s, s, m, fds, more) /\ more \in {<<e>> \o <<d>>, <<g>>}
  <2>1. /\ stack[s] # <<>> /\ Head(stack[s]).op = "Dispatch" /\ UNCHANGED <<scenario, next>>
    BY DEF Dispatch, At, Top, calls
  <2>2. \E v, w : sock' = [sock EXCEPT ![s].data = v, ![s].descriptors = w]
    BY Zenon DEF Dispatch
  <2>3. \E m, fds, more : NotifyMessage(s, s, m, fds, more) /\ more \in {<<e>> \o <<d>>, <<g>>}
    <3> DEFINE more == IF NextMessage(s).then = "reject" THEN Failed(s) ELSE <<Frame("Dispatch", s, FALSE)>>
    <3>1. more \in {<<e>> \o <<d>>, <<g>>}
      BY DEF Failed, Exit
    <3>2. \E m, fds : NotifyMessage(s, s, m, fds, more)
      BY Zenon DEF Dispatch
    <3> HIDE DEF more, e, d, g
    <3> QED
      BY <3>1, <3>2, Zenon
  <2> QED
    BY Zenon, <2>1, <2>2, <2>3
<1>2. PICK m, fds, more : NotifyMessage(s, s, m, fds, more) /\ more \in {<<e>> \o <<d>>, <<g>>}
  BY Zenon, <1>1
<1>3. /\ d.op = "ThreadDone" /\ e.op = "NotifyError" /\ g.op = "Dispatch"
      /\ d.s = s /\ e.s = s /\ g.s = s
  BY DEF Frame
<1> HIDE DEF d, e, g
<1>4. d.op \in Bottom /\ g.op \in Bottom /\ e.op \in Upper
  BY <1>3 DEF Bottom, Upper
<1>5. IsStack(more) /\ Quiet(more) /\ Ends(more) = {s} /\ "NotifyDeactivated" \notin Ops(more)
  <2>1. CASE more = <<g>>
    <3>1. Later(more, s, {g.op})
      BY Zenon, <1>3, <1>4, <2>1, LaterFrames
    <3> QED
      BY <1>3, <3>1 DEF Later
  <2>2. CASE more = <<e>> \o <<d>>
    <3>1. Later(more, s, {d.op, e.op})
      BY Zenon, <1>3, <1>4, <2>2, LaterFrames
    <3> QED
      BY <1>3, <3>1 DEF Later
  <2> QED
    BY <1>2, <2>1, <2>2
<1>7. Sockets(sock)
  BY DEF IInv, Variables
<1>8. /\ Sockets(sock')
      /\ \A x \in End : sock'[x].shutdown = sock[x].shutdown /\ sock'[x].done = sock[x].done
  <2>1. PICK v, w : sock' = [sock EXCEPT ![s].data = v, ![s].descriptors = w]
    BY Zenon, <1>1
  <2> QED
    BY Zenon, <1>7, <2>1, TwoFields
<1>9. Head(stack[s]).op \in {"Dispatch", "Run"}
  BY <1>1
<1> QED
  BY Zenon, <1>1, <1>2, <1>5, <1>8, <1>9, MessageStep

\* A task with a message.
LEMMA RunStep ==
    ASSUME IInv, scenario.driver = "async", NEW s \in End, Run(s), ~Head(Top(s).arg).error, UNCHANGED socketvars
    PROVE  IInv'
<1> DEFINE d == Frame("NotifyDeactivated", s, FALSE)
           e == Frame("NotifyError", s, FALSE)
           g == IF Len(Top(s).arg) = 1 THEN Frame("RunTasks", s, FALSE) ELSE Frame("Run", s, Tail(Top(s).arg))
<1>1. /\ stack[s] # <<>> /\ Head(stack[s]).op = "Run" /\ UNCHANGED <<scenario, next, sock, async>>
  BY Zenon DEF Run, At, Top, calls, socketvars
<1>2. \E m, fds, more : NotifyMessage(s, s, m, fds, more) /\ more \in {<<e, d>>, <<g>>}
  <2> DEFINE more == IF Head(Top(s).arg).m.then = "reject"
                     THEN <<Frame("NotifyError", s, FALSE), Frame("NotifyDeactivated", s, FALSE)>>
                     ELSE IF Len(Top(s).arg) = 1 THEN <<Frame("RunTasks", s, FALSE)>>
                          ELSE <<Frame("Run", s, Tail(Top(s).arg))>>
  <2>1. more \in {<<e, d>>, <<g>>}
    BY Zenon
  <2>2. \E m, fds : NotifyMessage(s, s, m, fds, more)
    BY Zenon DEF Run
  <2> HIDE DEF more, e, d, g
  <2> QED
    BY <2>1, <2>2, Zenon
<1>3. PICK m, fds, more : NotifyMessage(s, s, m, fds, more) /\ more \in {<<e, d>>, <<g>>}
  BY Zenon, <1>2
<1>4. /\ d.op = "NotifyDeactivated" /\ e.op = "NotifyError" /\ g.op \in {"RunTasks", "Run"}
      /\ d.s = s /\ e.s = s /\ g.s = s
  BY DEF Frame
<1> HIDE DEF d, e, g
<1>5. d.op \in Bottom /\ g.op \in Bottom /\ e.op \in Upper
  BY <1>4 DEF Bottom, Upper
<1>6. <<e, d>> = <<e>> \o <<d>>
  BY TwoFrames
<1>8. /\ IsStack(more) /\ Quiet(more) /\ Ends(more) = {s}
      /\ "NotifyDeactivated" \notin Ops(more) \/ "NotifyError" \in Ops(more)
  <2>1. CASE more = <<g>>
    <3>1. Later(more, s, {g.op})
      BY Zenon, <1>4, <1>5, <2>1, LaterFrames
    <3> QED
      BY <1>4, <3>1 DEF Later
  <2>2. CASE more = <<e, d>>
    <3>1. more = <<e>> \o <<d>>
      BY Zenon, <1>6, <2>2
    <3>2. Later(more, s, {d.op, e.op})
      BY Zenon, <1>4, <1>5, <3>1, LaterFrames
    <3> QED
      BY <1>4, <3>2 DEF Later
  <2> QED
    BY <1>3, <2>1, <2>2
<1>9. /\ Sockets(sock')
      /\ \A x \in End : sock'[x].shutdown = sock[x].shutdown /\ sock'[x].done = sock[x].done
  BY <1>1 DEF IInv, Variables
<1>10. Head(stack[s]).op \in {"Dispatch", "Run"}
  BY <1>1
<1> QED
  BY <1>1, <1>3, <1>8, <1>9, <1>10, MessageStep

----------------------------------------------------------------------------
(* Activation. *)

\* An end is activated, which starts the thread of the driver for it.
LEMMA ActivateStep ==
    ASSUME IInv, scenario.driver \in {"multiprocess", "async"}, NEW t \in Thread,
           NEW loop, ActivateWith(t, loop), loop.op \in {"Loop", "RunTasks"}, loop.s = Head(stack[t]).s,
           Sockets(sock'), Asyncs(async'),
           \A x \in End : sock'[x].shutdown = sock[x].shutdown /\ sock'[x].done = sock[x].done,
           \A x \in End : x # Head(stack[t]).s => async'[x].active = async[x].active,
           scenario.driver = "async" => async'[Head(stack[t]).s].active
    PROVE  IInv'
<1> DEFINE q == stack[t]
<1>0. /\ Stacks /\ Variables /\ Activation /\ Finality
      /\ scenario.driver = "multiprocess" => OneCallback
      /\ scenario.driver = "async" => OneTaskThread
  BY DEF IInv
<1>a. q # <<>> /\ Head(q).op = "Activate"
  BY DEF ActivateWith, At, Top
<1>b. PICK s \in End : s = Head(q).s
  BY <1>a, TopFrame
<1>1. /\ link' = [link EXCEPT ![s].state = "kActive", ![s].handle = TRUE]
      /\ stack' = [stack EXCEPT ![t] = Tail(@), ![s] = <<loop>>] /\ UNCHANGED <<scenario, next, log>>
  BY <1>b DEF ActivateWith, Top, calls
<1>2. End \subseteq Thread /\ Caller \subseteq Thread /\ Thread = End \cup Caller /\ \A x \in End : x \notin Caller
  BY ThreadsDiffer
<1>3. Fits(t, q)
  BY <1>a, TopFrame
<1>4. t \in Caller /\ t # s
  <2>1. t \notin End
    BY Zenon, <1>a, <1>3 DEF Fits, DriverShape, Reacting, Handling, Quiet, Base, Reacts, Bottom, Upper
  <2> QED
    BY <1>2, <2>1
<1>5. Tail(q) = <<>>
  BY <1>a, <1>3, <1>4 DEF Fits, CallerShape
<1>6. Activating(q, s)
  BY <1>a, <1>b DEF Activating, Concerns
<1>7. link[s].state = "kNeverActivated" /\ \A u \in Caller : Activating(stack[u], s) => u = t
  BY <1>0, <1>4, <1>6 DEF Activation, ActivationOf
<1>8. /\ stack[s] = <<>> /\ ~Told(s)
      /\ \A u \in Thread : ~Stopping(stack[u], s)
      /\ \A u \in Caller : ~Inside(stack[u], s)
  BY <1>0, <1>7 DEF Finality, FinalityOf
<1>9. \A u \in Thread : ~Telling(stack[u], s)
  <2>1. CASE scenario.driver = "multiprocess"
    BY <1>0, <1>7, <2>1 DEF OneCallback, CallbackOf
  <2>2. CASE scenario.driver = "async"
    <3>1. ASSUME NEW u \in End, Telling(stack[u], s) PROVE FALSE
      <4>1. stack[u] # <<>> /\ Head(stack[u]).s = s
        BY <3>1 DEF Telling, Concerns
      <4>2. u = s
        BY <1>2, <4>1, TopFrame
      <4> QED
        BY <1>8, <4>1, <4>2
    <3> QED
      BY <1>0, <1>2, <2>2, <3>1 DEF OneTaskThread, TaskThreadOf
  <2> QED
    BY <2>1, <2>2
<1>10. /\ stack' = [u \in Thread |-> stack'[u]] /\ stack'[t] = <<>> /\ stack'[s] = <<loop>>
       /\ \A u \in Thread : u # t /\ u # s => stack'[u] = stack[u]
  <2>1. stack = [u \in Thread |-> stack[u]]
    BY <1>0 DEF Stacks
  <2>2. stack' = [u \in Thread |-> IF u = s THEN <<loop>> ELSE IF u = t THEN Tail(stack[t]) ELSE stack[u]]
    BY Zenon, <1>1, <1>2, <1>4, <2>1
  <2> QED
    BY <1>2, <1>4, <1>5, <2>2
<1>11. Later(<<loop>>, s, {loop.op}) /\ <<loop>> # <<>> /\ Head(<<loop>>) = loop
  <2> DEFINE b == Frame("Flush", s, FALSE)
  <2>1. loop.op \in Bottom /\ loop.s = s /\ b.op \in Upper /\ b.s = s
    BY <1>b DEF Bottom, Upper, Frame
  <2> HIDE DEF b
  <2>2. \A f : f = <<loop>> => Later(f, s, {loop.op})
    BY Zenon, <2>1, LaterFrames
  <2> QED
    BY <2>2
<1>12. Stacks'
  <2>1. Fits(s, <<loop>>)
    BY ZenonT(40), <1>b, <1>2, <1>11 DEF Later, Fits, DriverShape
  <2>2. Fits(t, <<>>)
    BY <1>2, <1>4, NoFrames DEF Fits, CallerShape
  <2> QED
    BY <1>0, <1>10, <2>1, <2>2 DEF Stacks
<1>13. /\ \A x : ~Stopping(<<loop>>, x) /\ ~Activating(<<loop>>, x) /\ ~Inside(<<loop>>, x) /\ ~Telling(<<loop>>, x)
       /\ \A x : ~Stopping(<<>>, x) /\ ~Activating(<<>>, x) /\ ~Inside(<<>>, x) /\ ~Telling(<<>>, x)
  BY <1>11 DEF Later, Stopping, Activating, Inside, Telling, Concerns
<1>14. \A u \in Thread, x \in End :
          /\ Stopping(stack'[u], x) => Stopping(stack[u], x)
          /\ Telling(stack'[u], x) => Telling(stack[u], x)
          /\ Inside(stack'[u], x) => Inside(stack[u], x)
          /\ Activating(stack'[u], x) => Activating(stack[u], x) /\ u # t
  BY <1>10, <1>13
<1>15. link \in [End -> Held]
  BY <1>0 DEF Variables
<1>16. /\ link' \in [End -> Held] /\ link'[s].state = "kActive"
       /\ \A x \in End : x # s => link'[x].state = link[x].state
  BY Zenon, <1>1, <1>15, LinkFields
<1>17. Variables'
  BY <1>0, <1>1, <1>16 DEF Variables
<1>18. \A x \in End : Told(x)' <=> Told(x)
  BY <1>1 DEF Told
<1>19. \A x \in End : x # s => stack'[x] = stack[x]
  BY <1>2, <1>4, <1>10
<1>20. Activation'
  <2>1. \A u : Script(u)' = Script(u)
    BY <1>1 DEF Script
  <2>2. \A u \in Caller : \A i \in DOMAIN Script(u) :
           ~(i >= next[u] /\ Script(u)[i].op = "Activate" /\ Script(u)[i].s = s)
    BY <1>0, <1>4, <1>6 DEF Activation, ActivationOf
  <2>3. \A u \in Caller : ~Activating(stack'[u], s)
    BY <1>2, <1>7, <1>14
  <2>4. \A x \in End : x = s \/ link'[x].state = link[x].state
    BY <1>16
  <2> QED
    <3> SUFFICES ASSUME NEW x \in End PROVE ActivationOf(x)'
      BY DEF Activation
    <3>1. CASE x # s
      BY ZenonT(40), <1>0, <1>1, <1>2, <1>14, <2>1, <2>4, <3>1 DEF Activation, ActivationOf
    <3>2. CASE x = s
      BY Zenon, <1>1, <2>1, <2>2, <2>3, <3>2 DEF ActivationOf
    <3> QED
      BY <3>1, <3>2
<1> HIDE DEF q
<1>21. Finality'
  <2> SUFFICES ASSUME NEW x \in End PROVE FinalityOf(x)'
    BY DEF Finality
  <2>1. CASE x # s
    BY ZenonT(40), <1>0, <1>1, <1>2, <1>14, <1>16, <1>18, <1>19, <2>1 DEF Finality, FinalityOf
  <2>2. CASE x = s
    <3>1. ~Told(s)' /\ \A i \in DOMAIN log[s] : log[s][i].kind = "deactivated" => i = Len(log[s])
      BY ZenonT(40), <1>0, <1>8, <1>18 DEF Finality, FinalityOf
    <3>2. \A u \in Thread : ~Stopping(stack'[u], s) /\ ~Telling(stack'[u], s)
      BY <1>8, <1>9, <1>14, <2>2
    <3>3. \A u \in Caller : ~Inside(stack'[u], s)
      BY <1>8, <1>14, ThreadsDiffer
    <3>4. log'[s] = log[s] /\ link'[s].state # "kNeverActivated"
      BY <1>1, <1>16
    <3> QED
      BY <1>2, <2>2, <3>1, <3>2, <3>3, <3>4 DEF FinalityOf
  <2> QED
    BY <2>1, <2>2
<1>22. ASSUME scenario.driver = "multiprocess" PROVE OneCallback'
  <2>1. ~sock[s].done /\ ~sock[s].shutdown
    BY <1>0, <1>7, <1>22 DEF OneCallback, CallbackOf
  <2> QED
    <3> SUFFICES ASSUME NEW x \in End PROVE CallbackOf(x)'
      BY DEF OneCallback
    <3>1. CASE x # s
      BY ZenonT(40), <1>0, <1>14, <1>16, <1>18, <1>19, <1>22, <3>1 DEF OneCallback, CallbackOf
    <3>2. CASE x = s
      <4>1. \A u \in Thread : ~Stopping(stack'[u], s) /\ ~Telling(stack'[u], s)
        BY <1>8, <1>9, <1>14
      <4>2. ~Told(s)' /\ ~sock'[s].done /\ ~sock'[s].shutdown
        BY <1>8, <1>18, <2>1
      <4> QED
        BY <3>2, <4>1, <4>2 DEF CallbackOf
    <3> QED
      BY <3>1, <3>2
<1>23. ASSUME scenario.driver = "async" PROVE OneTaskThread'
  <2> SUFFICES ASSUME NEW x \in End PROVE TaskThreadOf(x)'
    BY DEF OneTaskThread
  <2>1. CASE x # s
    <3>1. async'[x].active = async[x].active
      BY <1>b, <2>1 DEF q
    <3>2. TaskThreadOf(x) /\ stack'[x] = stack[x] /\ link'[x].state = link[x].state
      BY <1>0, <1>16, <1>19, <1>23, <2>1 DEF OneTaskThread
    <3>3. \A u \in Caller : /\ Telling(stack'[u], x) => Telling(stack[u], x)
                            /\ Inside(stack'[u], x) => Inside(stack[u], x)
      BY <1>14, ThreadsDiffer
    <3> QED
      BY <3>1, <3>2, <3>3 DEF TaskThreadOf
  <2>2. CASE x = s
    <3>1. async'[s].active
      BY <1>b, <1>23 DEF q
    <3>2. \A u \in Caller : ~Telling(stack'[u], s) /\ ~Inside(stack'[u], s)
      BY <1>2, <1>8, <1>9, <1>14
    <3>3. ~Telling(stack'[s], s)
      BY <1>9, <1>14, ThreadsDiffer
    <3> QED
      BY <2>2, <3>1, <3>2, <3>3 DEF TaskThreadOf
  <2> QED
    BY <2>1, <2>2
<1> QED
  BY <1>1, <1>12, <1>17, <1>20, <1>21, <1>22, <1>23 DEF IInv

\* SocketTransport::Activate() and AsyncTransport::Activate().
LEMMA DriverActivateStep ==
    ASSUME IInv, NEW t \in Thread,
           \/ scenario.driver = "multiprocess" /\ SocketActivate(t) /\ UNCHANGED async
           \/ scenario.driver = "async" /\ AsyncActivate(t) /\ UNCHANGED socketvars
    PROVE  IInv'
<1>1. stack[t] # <<>>
  BY Zenon DEF SocketActivate, AsyncActivate, ActivateWith, At
<1>2. PICK s \in End : s = Head(stack[t]).s
  BY <1>1, TopFrame
<1>3. Sockets(sock) /\ Asyncs(async)
  BY DEF IInv, Variables
<1>4. ASSUME scenario.driver = "multiprocess", SocketActivate(t), UNCHANGED async
      PROVE  IInv'
  <2> DEFINE l == Frame("Loop", s, FALSE)
  <2>1. ActivateWith(t, l) /\ sock' = [sock EXCEPT ![s].joinable = TRUE]
    BY Zenon, <1>2, <1>4 DEF SocketActivate, Top
  <2>2. l.op \in {"Loop", "RunTasks"} /\ l.s = s
    BY DEF Frame
  <2> HIDE DEF l
  <2>3. /\ Sockets(sock')
        /\ \A x \in End : sock'[x].shutdown = sock[x].shutdown /\ sock'[x].done = sock[x].done
    BY Zenon, <1>3, <2>1, OneField
  <2>4. Asyncs(async') /\ \A x \in End : async'[x].active = async[x].active
    BY <1>3, <1>4
  <2> QED
    BY Zenon, <1>2, <1>4, <2>1, <2>2, <2>3, <2>4, ActivateStep
<1>5. ASSUME scenario.driver = "async", AsyncActivate(t), UNCHANGED socketvars
      PROVE  IInv'
  <2> DEFINE l == Frame("RunTasks", s, FALSE)
  <2>1. ActivateWith(t, l) /\ async' = [async EXCEPT ![s].active = TRUE, ![s].joinable = TRUE] /\ UNCHANGED sock
    BY Zenon, <1>2, <1>5 DEF AsyncActivate, Top, socketvars
  <2>2. l.op \in {"Loop", "RunTasks"} /\ l.s = s
    BY DEF Frame
  <2> HIDE DEF l
  <2>3. Asyncs(async') /\ async'[s].active = TRUE /\ \A x \in End : x # s => async'[x] = async[x]
    BY Zenon, <1>3, <2>1, ActiveField
  <2>4. /\ Sockets(sock')
        /\ \A x \in End : sock'[x].shutdown = sock[x].shutdown /\ sock'[x].done = sock[x].done
    BY <1>3, <2>1
  <2> QED
    BY Zenon, <1>2, <1>5, <2>1, <2>2, <2>3, <2>4, ActivateStep
<1> QED
  BY <1>4, <1>5

----------------------------------------------------------------------------
(* The whole specification. *)

\* No end is activated at first.
LEMMA InitInv ==
    ASSUME Init
    PROVE  IInv
<1>1. /\ scenario \in Scenarios /\ next = [t \in Caller |-> 1] /\ stack = [t \in Thread |-> <<>>]
      /\ link = [s \in End |-> NewEnd] /\ log = [s \in End |-> <<>>]
      /\ sock = [s \in End |-> NewSocket] /\ async = [s \in End |-> NewAsync]
  BY DEF Init, InitIpcz, InitSocket, InitAsync
<1>2. IsStack(<<>>) /\ Ops(<<>>) = {} /\ Ends(<<>>) = {}
  BY NoFrames
<1>3. \A t \in Thread : stack[t] = <<>>
  BY <1>1
<1>4. Stacks
  <2>1. \A t \in Thread : Fits(t, <<>>)
    BY <1>2 DEF Fits, DriverShape, Quiet, CallerShape
  <2> QED
    BY <1>1, <1>3, <2>1 DEF Stacks
<1>5. Variables
  <2>1. Sockets(sock)
    <3>1. NewSocket = [f \in SocketFields |-> NewSocket[f]]
      BY DEF NewSocket, SocketFields
    <3> QED
      BY <1>1, <3>1 DEF Sockets
  <2>2. Asyncs(async)
    <3>1. NewAsync = [f \in AsyncFields |-> NewAsync[f]]
      BY DEF NewAsync, AsyncFields
    <3> QED
      BY <1>1, <3>1 DEF Asyncs
  <2>3. link \in [End -> Held]
    BY <1>1 DEF NewEnd, Held
  <2>4. next \in [Caller -> Nat] /\ \A t \in Caller : next[t] >= 1
    BY <1>1
  <2>5. log = [s \in End |-> log[s]] /\ \A s \in End : IsStack(log[s])
    BY <1>1, <1>2
  <2> QED
    BY <1>1, <2>1, <2>2, <2>3, <2>4, <2>5 DEF Variables
<1>6. \A t \in Thread, s \in End : /\ ~Stopping(stack[t], s) /\ ~Telling(stack[t], s)
                                   /\ ~Inside(stack[t], s) /\ ~Activating(stack[t], s)
  BY <1>3 DEF Stopping, Telling, Inside, Activating, Concerns
<1>7. \A t \in Caller : t \in Thread
  BY DEF Thread
<1>8. \A s \in End : /\ s \in Thread /\ stack[s] = <<>> /\ link[s].state = "kNeverActivated"
                     /\ ~sock[s].shutdown /\ ~sock[s].done /\ log[s] = <<>> /\ ~Told(s)
  <2>1. NewEnd.state = "kNeverActivated" /\ ~NewSocket.shutdown /\ ~NewSocket.done
    BY DEF NewEnd, NewSocket
  <2>2. \A s \in End : log[s] = <<>> /\ s \in Thread
    BY <1>1 DEF Thread
  <2>3. \A s \in End : ~Told(s)
    BY <2>2 DEF Told
  <2> QED
    BY <1>1, <1>3, <2>1, <2>2, <2>3
<1>9. Activation
  BY <1>6, <1>7, <1>8 DEF Activation, ActivationOf
<1>10. Finality
  BY <1>6, <1>7, <1>8 DEF Finality, FinalityOf
<1>11. OneCallback
  BY <1>6, <1>8 DEF OneCallback, CallbackOf
<1>12. OneTaskThread
  BY <1>6, <1>7, <1>8 DEF OneTaskThread, TaskThreadOf
<1> QED
  BY <1>4, <1>5, <1>9, <1>10, <1>11, <1>12 DEF IInv

\* The calls into ipcz, which do not depend on the driver.
LEMMA IpczInv ==
    ASSUME IInv, scenario.driver \in {"multiprocess", "async"}, NEW t \in Thread, IpczStep(t),
           UNCHANGED <<sock, async>>
    PROVE  IInv'
<1>1. CASE Deactivate(t)
  BY <1>1, DeactivateStep, ReturnStep
<1>2. CASE NotifyError(t)
  BY <1>2, NotifyErrorStep
<1>3. CASE NotifyDeactivated(t)
  BY <1>3, NotifyDeactivatedStep
<1>4. CASE Join(t)
  BY <1>4, JoinStep
<1>5. CASE Returned(t)
  BY <1>5, ReturnStep
<1> QED
  BY <1>1, <1>2, <1>3, <1>4, <1>5 DEF IpczStep

\* The steps on sockets.
LEMMA SocketInv ==
    ASSUME IInv, OnSocket
    PROVE  IInv'
<1>1. scenario.driver = "multiprocess" /\ UNCHANGED async
  BY DEF OnSocket
<1>2. ASSUME NEW t \in Thread, SocketStep(t) PROVE IInv'
  <2>1. CASE SocketTransmit(t)
    BY <1>1, <2>1, SocketTransmitStep
  <2>2. CASE WakeIOThread(t) \/ TakeTransport(t) \/ TakeThread(t)
    BY <1>1, <2>2, SocketCallStep
  <2>3. CASE SocketActivate(t)
    BY <1>1, <2>3, DriverActivateStep
  <2>4. CASE Shutdown(t)
    BY <1>1, <2>4, ShutdownStep
  <2> QED
    BY <1>2, <2>1, <2>2, <2>3, <2>4 DEF SocketStep
<1>3. ASSUME NEW t \in Thread, IpczStep(t), UNCHANGED socketvars PROVE IInv'
  BY <1>1, <1>3, IpczInv DEF socketvars
<1>4. ASSUME NEW t \in Caller, StartCall(t), UNCHANGED socketvars PROVE IInv'
  BY <1>1, <1>4, StartCallStep DEF socketvars
<1>5. ASSUME NEW s \in End, SocketThread(s) PROVE IInv'
  <2>1. CASE Loop(s) \/ Poll(s)
    BY <1>1, <2>1, PollStep
  <2>2. CASE Flush(s) \/ Flushed(s)
    BY <1>1, <2>2, FlushStep
  <2>3. CASE ClearIOThreadSignal(s) \/ Receive(s) \/ (Dispatch(s) /\ ~Complete(s))
    BY <1>1, <2>3, ReceiveStep
  <2>4. CASE Dispatch(s) /\ Complete(s)
    BY <1>1, <2>4, DispatchStep
  <2>5. CASE ThreadDone(s)
    BY <1>1, <2>5, ThreadDoneStep
  <2> QED
    BY <1>5, <2>1, <2>2, <2>3, <2>4, <2>5 DEF SocketThread
<1>6. ASSUME NEW s \in End, CloseSocket(s) \/ (CloseEnd(s) /\ UNCHANGED socketvars) PROVE IInv'
  BY <1>1, <1>6, CloseStep
<1> QED
  BY <1>2, <1>3, <1>4, <1>5, <1>6 DEF OnSocket

\* The steps of the driver that runs tasks.
LEMMA AsyncInv ==
    ASSUME IInv, OnAsync
    PROVE  IInv'
<1>1. scenario.driver = "async" /\ UNCHANGED socketvars
  BY DEF OnAsync
<1>2. ASSUME NEW t \in Thread, AsyncStep(t) PROVE IInv'
  <2>1. CASE AsyncActivate(t)
    BY <1>1, <2>1, DriverActivateStep
  <2>2. CASE AsyncTransmit(t)
    BY <1>1, <2>2, AsyncTransmitStep
  <2>3. CASE AsyncDeactivate(t)
    BY <1>1, <2>3, AsyncDeactivateStep
  <2> QED
    BY <1>2, <2>1, <2>2, <2>3 DEF AsyncStep
<1>3. ASSUME NEW t \in Thread, IpczStep(t), UNCHANGED async PROVE IInv'
  BY <1>1, <1>3, IpczInv DEF socketvars
<1>4. ASSUME NEW t \in Caller, StartCall(t), UNCHANGED async PROVE IInv'
  BY <1>1, <1>4, StartCallStep DEF socketvars
<1>5. ASSUME NEW s \in End, AsyncThread(s) PROVE IInv'
  <2>1. CASE RunTasks(s) /\ ~async[s].active
    BY <1>1, <2>1, InactiveStep
  <2>2. CASE Run(s) /\ ~Head(Top(s).arg).error
    BY <1>1, <2>2, RunStep
  <2>3. CASE \/ RunTasks(s) /\ async[s].active
             \/ WaitForTask(s) \/ Rearm(s)
             \/ Run(s) /\ Head(Top(s).arg).error
    BY <1>1, <2>3, TaskThreadStep
  <2> QED
    BY <1>5, <2>1, <2>2, <2>3 DEF AsyncThread
<1>6. ASSUME NEW s \in End, AsyncClose(s) PROVE IInv'
  BY <1>1, <1>6, AsyncCloseStep
<1> QED
  BY ZenonT(40), <1>2, <1>3, <1>4, <1>5, <1>6 DEF OnAsync

\* Every step preserves the invariant.
LEMMA NextInv ==
    ASSUME IInv, [Next]_vars
    PROVE  IInv'
<1>1. CASE UNCHANGED vars
  <2>1. UNCHANGED <<scenario, next, stack, link, log, sock, async>>
    BY <1>1 DEF vars
  <2>2. Variables' /\ SameEnds
    BY <2>1 DEF IInv, Variables, SameEnds
  <2> QED
    BY <2>1, <2>2, SameStacks
<1>2. CASE OnSocket
  BY <1>2, SocketInv
<1>3. CASE OnAsync
  BY <1>3, AsyncInv
<1> QED
  BY <1>1, <1>2, <1>3 DEF Next, Rest

----------------------------------------------------------------------------
(* What the invariant says about the handlers. *)

\* A frame is the top one or one below it.
LEMMA Position ==
    ASSUME NEW q, IsStack(q), NEW i \in DOMAIN q
    PROVE  /\ q # <<>> /\ i \in Nat
           /\ \/ i = 1 /\ q[i] = Head(q)
              \/ i # 1 /\ i - 1 \in DOMAIN Tail(q) /\ q[i] = Tail(q)[i - 1]
<1>1. q \in Seq(Elements(q)) /\ DOMAIN q = 1 .. Len(q) /\ Len(q) \in Nat
  BY DEF IsStack
<1>2. q # <<>>
  OBVIOUS
<1>3. Tail(q) \in Seq(Elements(q)) /\ Len(Tail(q)) = Len(q) - 1 /\ q[1] = Head(q)
      /\ \A j \in 1 .. Len(Tail(q)) : Tail(q)[j] = q[j + 1]
  BY <1>1, <1>2, HeadAndTail
<1>4. DOMAIN Tail(q) = 1 .. Len(Tail(q))
  BY <1>3
<1>5. i \in Nat /\ i >= 1 /\ i <= Len(q)
  BY <1>1
<1>6. ASSUME i # 1 PROVE i - 1 \in DOMAIN Tail(q) /\ q[i] = Tail(q)[i - 1]
  <2>1. i - 1 \in 1 .. Len(Tail(q)) /\ (i - 1) + 1 = i
    BY <1>1, <1>3, <1>5, <1>6
  <2> QED
    BY <1>3, <1>4, <2>1
<1> QED
  BY <1>2, <1>3, <1>5, <1>6

\* A thread that is in none of the handlers has no frame that says so.
LEMMA QuietStack ==
    ASSUME NEW q, IsStack(q), Quiet(q)
    PROVE  "Returned" \notin Ops(q)
<1>1. ASSUME NEW p, IsStack(p), Base(p) PROVE Ops(p) = {Head(p).op}
  BY ZenonT(40), <1>1, PoppedFrame, NoFrames DEF Base
<1>2. CASE q = <<>>
  BY <1>2, NoFrames
<1>3. CASE Base(q)
  BY <1>1, <1>3 DEF Base, Bottom
<1>4. CASE q # <<>> /\ Head(q).op \in Upper /\ Base(Tail(q))
  <2>1. IsStack(Tail(q)) /\ Ops(q) = {Head(q).op} \cup Ops(Tail(q))
    BY Zenon, <1>4, PoppedFrame
  <2>2. Ops(Tail(q)) = {Head(Tail(q)).op}
    BY Zenon, <1>1, <1>4, <2>1
  <2> QED
    BY <1>4, <2>1, <2>2 DEF Base, Bottom, Upper
<1> QED
  BY <1>2, <1>3, <1>4 DEF Quiet

\* A thread is within one handler at most.
LEMMA OneHandler ==
    ASSUME NEW t \in Thread, NEW q, Fits(t, q), NEW i \in DOMAIN q, q[i].op = "Returned"
    PROVE  i = IF Head(q).op = "Returned" THEN 1 ELSE 2
<1>1. IsStack(q) /\ q # <<>> /\ i \in Nat
  BY Position DEF Fits
<1>2. \/ i = 1 /\ q[i] = Head(q)
      \/ i # 1 /\ i - 1 \in DOMAIN Tail(q) /\ q[i] = Tail(q)[i - 1]
  BY <1>1, Position
<1>3. IsStack(Tail(q))
  BY Zenon, <1>1, PoppedFrame
<1>4. ASSUME NEW p, IsStack(p), Handling(p), NEW j \in DOMAIN p, p[j].op = "Returned" PROVE j = 1
  <2>1. p # <<>> /\ Quiet(Tail(p))
    BY <1>4 DEF Handling
  <2>2. IsStack(Tail(p))
    BY Zenon, <1>4, <2>1, PoppedFrame
  <2>3. "Returned" \notin Ops(Tail(p))
    BY <2>1, <2>2, QuietStack
  <2>4. ASSUME NEW k \in DOMAIN Tail(p) PROVE Tail(p)[k].op \in Ops(Tail(p))
    BY DEF Ops
  <2>5. j = 1 \/ (j - 1 \in DOMAIN Tail(p) /\ p[j] = Tail(p)[j - 1])
    BY <1>4, Position
  <2> QED
    BY <1>4, <2>3, <2>4, <2>5
<1>5. CASE Quiet(q)
  <2>1. q[i].op \in Ops(q)
    BY DEF Ops
  <2> QED
    BY <1>1, <1>5, <2>1, QuietStack
<1>6. CASE Handling(q)
  <2>1. i = 1
    BY <1>1, <1>4, <1>6
  <2> QED
    BY <1>6, <2>1 DEF Handling
<1>7. CASE Reacting(q)
  <2>1. Head(q).op # "Returned" /\ Handling(Tail(q))
    BY <1>7 DEF Reacting, Reacts
  <2>2. i # 1 /\ i - 1 \in DOMAIN Tail(q) /\ Tail(q)[i - 1].op = "Returned"
    BY <1>2, <2>1
  <2>3. i - 1 = 1
    BY Zenon, <1>3, <1>4, <2>1, <2>2
  <2> QED
    BY <1>1, <2>1, <2>3
<1>8. CASE Tail(q) = <<>>
  <2>1. DOMAIN <<>> = {}
    OBVIOUS
  <2> QED
    BY <1>2, <1>8, <2>1
<1>9. CASE Head(q).op # "Returned" /\ Tail(q) # <<>> /\ Head(Tail(q)).op # "Returned" /\ Tail(Tail(q)) = <<>>
  <2>1. DOMAIN <<>> = {}
    OBVIOUS
  <2>2. i # 1 /\ i - 1 \in DOMAIN Tail(q) /\ Tail(q)[i - 1].op = "Returned"
    BY <1>2, <1>9
  <2>3. \/ Tail(q)[i - 1] = Head(Tail(q))
        \/ (i - 1) - 1 \in DOMAIN Tail(Tail(q))
    BY <1>3, <2>2, Position
  <2> QED
    BY <1>9, <2>1, <2>2, <2>3
<1>10. t \in End \/ t \in Caller
  BY DEF Thread
<1>11. CASE t \in End
  BY <1>5, <1>6, <1>7, <1>11 DEF Fits, DriverShape
<1>12. CASE t \in Caller
  BY ZenonT(40), <1>1, <1>8, <1>9, <1>12 DEF Fits, CallerShape
<1> QED
  BY <1>10, <1>11, <1>12

\* The invariant keeps the handlers apart, and ends them.
LEMMA Orderly ==
    ASSUME IInv
    PROVE  NotificationsAreOrderly
<1>1. Stacks /\ Finality
  BY DEF IInv
<1>2. DeactivatedIsLast
  <2> SUFFICES ASSUME NEW s \in End, NEW i \in DOMAIN log[s], log[s][i].kind = "deactivated"
               PROVE  i = Len(log[s]) /\ link[s].state = "kDeactivated"
    BY DEF DeactivatedIsLast
  <2>1. FinalityOf(s) /\ Told(s)
    BY <1>1 DEF Finality, Told
  <2> QED
    BY <2>1 DEF FinalityOf
<1>3. HandlersAreExclusive
  <2> SUFFICES ASSUME NEW s \in End, NEW t \in Thread, NEW u \in Thread,
                      NEW i \in DOMAIN stack[t], NEW j \in DOMAIN stack[u],
                      stack[t][i].op = "Returned", stack[t][i].s = s,
                      stack[u][j].op = "Returned", stack[u][j].s = s
               PROVE  t = u /\ i = j
    BY DEF HandlersAreExclusive
  <2>1. ASSUME NEW v \in Thread, NEW k \in DOMAIN stack[v],
               stack[v][k].op = "Returned", stack[v][k].s = s
        PROVE  /\ Fits(v, stack[v]) /\ Inside(stack[v], s) /\ stack[v] # <<>>
               /\ v \in End => v = s
    <3>1. Fits(v, stack[v])
      BY <1>1 DEF Stacks
    <3>2. stack[v] # <<>>
      BY <3>1, Position DEF Fits
    <3>3. "Returned" \in Ops(stack[v]) /\ s \in Ends(stack[v])
      BY <2>1 DEF Ops, Ends
    <3>4. Head(stack[v]).s = s
      BY <3>1, <3>2, <3>3 DEF Fits
    <3>5. v \in End => v = s
      BY <3>1, <3>3 DEF Fits
    <3> QED
      BY <3>1, <3>2, <3>3, <3>4, <3>5 DEF Inside, Concerns
  <2>2. /\ Fits(t, stack[t]) /\ Inside(stack[t], s) /\ stack[t] # <<>>
        /\ t \in End => t = s
    BY <2>1
  <2>3. /\ Fits(u, stack[u]) /\ Inside(stack[u], s) /\ stack[u] # <<>>
        /\ u \in End => u = s
    BY <2>1
  <2>4. /\ \A v \in Caller : Inside(stack[v], s) => stack[s] = <<>>
        /\ \A v, w \in Caller : Inside(stack[v], s) /\ Inside(stack[w], s) => v = w
    BY <1>1 DEF Finality, FinalityOf
  <2>5. t = u
    BY <2>2, <2>3, <2>4 DEF Thread
  <2>6. i = j
    <3> DEFINE q == stack[t]
               n == IF Head(q).op = "Returned" THEN 1 ELSE 2
    <3>1. Fits(t, q) /\ i \in DOMAIN q /\ j \in DOMAIN q /\ q[i].op = "Returned" /\ q[j].op = "Returned"
      BY <2>2, <2>5
    <3> HIDE DEF q
    <3>2. i = n
      BY <3>1, OneHandler
    <3>3. j = n
      BY <3>1, OneHandler
    <3> QED
      BY <3>2, <3>3
  <2> QED
    BY <2>5, <2>6
<1> QED
  BY <1>2, <1>3 DEF NotificationsAreOrderly

\* What is true of the stacks, the callbacks and the calls that were made, at any
\* time and on either driver.
THEOREM Invariant == Spec => []IInv
<1>1. Init => IInv
  BY InitInv
<1>2. IInv /\ [Next]_vars => IInv'
  BY NextInv
<1> QED
  BY <1>1, <1>2, PTL DEF Spec

\* Whatever the threads of the application do with two ends of a transport, the
\* driver calls NotifyTransport() for an end from one thread at a time, and for
\* the last time when it tells that the end is deactivated.
THEOREM HandlersAreOrderly == Spec => []NotificationsAreOrderly
<1>1. IInv => NotificationsAreOrderly
  BY Orderly
<1> QED
  BY <1>1, Invariant, PTL
=============================================================================
