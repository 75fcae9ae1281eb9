------------------------- MODULE RouterLinkState -------------------------
(***************************************************************************)
(* The status word of a central RouterLink as the threads of the Routers   *)
(* on its two sides really update it: each operation is a loop around      *)
(* compare_exchange_weak, which may also fail spuriously, and between two  *)
(* iterations any other thread of either side may run.                     *)
(*                                                                         *)
(* A thread makes the calls which Router makes on a link.  Flush() marks   *)
(* its side stable once the last decaying link is gone, and may try to     *)
(* lock the link to close the route; if the router is one of a bridge, to  *)
(* bypass the bridge, giving the lock back when the other router's link    *)
(* cannot be locked too; and if it is a proxy, to bypass itself.  Then it  *)
(* wakes the other side if that waits, but only when it was forced to look *)
(* for bypasses or has just marked its side stable.  SerializeNewRouter()  *)
(* locks the link and may unlock it again, after which                     *)
(* BeginProxyingToNewRouter() flushes.                                     *)
(***************************************************************************)
EXTENDS LinkStatus

CONSTANTS Threads,      \* threads which call into the two Routers
          SideOf        \* the side of the link each of them works for

ASSUME SideAssumption == SideOf \in [Threads -> Sides]

VARIABLES status,       \* RouterLinkState::status
          pc,           \* the operation a thread is in, or "idle"
          expected,     \* local variable `expected` of its loop
          bit,          \* local variable `desired_bit` of TryLock()
          job,          \* what the Router called TryLock() for
          forced,       \* whether its Flush() ends by waking the other side
          owner,        \* threads to which TryLock() returned true and which
                        \* have not unlocked since (history)
          notified,     \* sides which were sent a FlushRouter notification
          stranded      \* sides which were waiting when a bridge gave its lock
                        \* back and which its Flush() does not wake (history)

locals == <<pc, expected, bit, job, forced>>

vars == <<status, locals, owner, notified, stranded>>

PCs == {"idle", "stable", "lock", "held", "unlock", "reset"}

Bits == {"locked", "waiting"}

Jobs == {"close", "bridge", "bypass", "serialize"}

\* A link starts kUnstable, or kStable when it joins a fresh local pair.
Init ==
    /\ status \in {kUnstable, kStable}
    /\ pc = [t \in Threads |-> "idle"]
    /\ expected = [t \in Threads |-> kUnstable]
    /\ bit = [t \in Threads |-> "locked"]
    /\ job = [t \in Threads |-> "bypass"]
    /\ forced = [t \in Threads |-> FALSE]
    /\ owner = {}
    /\ notified = {}
    /\ stranded = {}

\* Enter the loop of operation op with the initial value of `expected`.
Enter(t, op, e) ==
    /\ pc' = [pc EXCEPT ![t] = op]
    /\ expected' = [expected EXCEPT ![t] = e]

\* The thread's call returns; its local variables are dead.
Return(t) ==
    /\ Enter(t, "idle", kUnstable)
    /\ bit' = [bit EXCEPT ![t] = "locked"]
    /\ job' = [job EXCEPT ![t] = "bypass"]
    /\ forced' = [forced EXCEPT ![t] = FALSE]

\* Enter TryLock() for job j of a Flush() which is forced or not.
EnterTryLock(t, j, f) ==
    /\ Enter(t, "lock", kStable)
    /\ bit' = [bit EXCEPT ![t] = "locked"]
    /\ job' = [job EXCEPT ![t] = j]
    /\ forced' = [forced EXCEPT ![t] = f]

\* Enter ResetWaitingBit() of the other side: FlushOtherSideIfWaiting().
EnterReset(t) ==
    /\ Enter(t, "reset", SetWaiting(kStable, Opposite(SideOf[t])))
    /\ bit' = [bit EXCEPT ![t] = "locked"]
    /\ job' = [job EXCEPT ![t] = "bypass"]
    /\ forced' = [forced EXCEPT ![t] = FALSE]

\* The next iteration of the loop of operation op, with `expected' reloaded.
Again(t, op) == Enter(t, op, status) /\ UNCHANGED <<bit, job, forced>>

\* Mutant: no Flush() wakes anyone.
EndFlushQuietly(t, f) == Return(t)

\* The end of a Flush() that has started no bypass: if it was forced, or has
\* dropped the last decaying link, the other side is woken.
EndFlush(t, f) == IF f THEN EnterReset(t) ELSE Return(t)

\* The part of Flush() after the router's mutex is released: the router of a
\* bridge tries to bypass the bridge, and a proxy, when it is to look for a
\* bypass, tries to bypass itself.
FlushUnlocked(t, f) ==
    \/ EnterTryLock(t, "bridge", f)
    \/ f /\ EnterTryLock(t, "bypass", f)
    \/ EndFlush(t, f)

\* Flush() from the point at which its side is marked stable, if it is: a route
\* that is closed from this side first tries to lock the link for its closure.
Flush(t, f) == EnterTryLock(t, "close", f) \/ FlushUnlocked(t, f)

----------------------------------------------------------------------------
(* Calls a thread may start.                                               *)

\* Router::Flush() with the last decaying link gone, SetOutwardLink() or
\* BeginProxyingToNewRouter(): link->MarkSideStable().
BeginMarkSideStable(t) ==
    /\ pc[t] = "idle"
    /\ Enter(t, "stable", kUnstable)
    /\ UNCHANGED <<status, bit, job, forced, owner, notified, stranded>>

\* Any other Router::Flush(), forced or not.
BeginFlush(t) ==
    /\ pc[t] = "idle"
    /\ \E f \in BOOLEAN : Flush(t, f)
    /\ UNCHANGED <<status, owner, notified, stranded>>

\* Router::SerializeNewRouter(): link->TryLockForBypass().
BeginSerialize(t) ==
    /\ pc[t] = "idle"
    /\ EnterTryLock(t, "serialize", TRUE)
    /\ UNCHANGED <<status, owner, notified, stranded>>

\* NodeLink::OnFlushRouter(): Router::Flush(kForceProxyBypassAttempt).
OnFlushRouter(t) ==
    /\ pc[t] = "idle"
    /\ SideOf[t] \in notified
    /\ notified' = notified \ {SideOf[t]}
    /\ Flush(t, TRUE)
    /\ UNCHANGED <<status, owner, stranded>>

----------------------------------------------------------------------------
(* The loops.  Each action is one compare_exchange_weak and the decision   *)
(* taken on its outcome.                                                   *)

\* compare_exchange_weak stores and returns true.
Swap(t, new) == expected[t] = status /\ status' = new

\* It fails, on a mismatch or spuriously, and reloads `expected`.
Reload == UNCHANGED status

\* SetSideStable(), and on with Flush(), which has dropped_last_decaying_link or
\* is forced.
SetSideStable(t) ==
    /\ pc[t] = "stable"
    /\ Swap(t, SetStable(status, SideOf[t]))
    /\ Flush(t, TRUE)
    /\ UNCHANGED <<owner, notified, stranded>>

SetSideStableRetry(t) ==
    /\ pc[t] = "stable"
    /\ Reload
    /\ IF SideOf[t] \in status.stable THEN Flush(t, TRUE) ELSE Again(t, "stable")
    /\ UNCHANGED <<owner, notified, stranded>>

\* TryLock() returned false.  SerializeNewRouter() configures a proxy without
\* bypass and flushes it; a Flush() goes on after the step that has failed.
TryLockFailed(t) ==
    CASE job[t] = "serialize" -> EnterTryLock(t, "bypass", TRUE)
      [] job[t] = "close"     -> FlushUnlocked(t, forced[t])
      [] OTHER                -> EndFlush(t, forced[t])

TryLock(t) ==
    /\ pc[t] = "lock"
    /\ IF bit[t] = "locked"
         THEN /\ Swap(t, SetLocked(status, SideOf[t]))
              /\ owner' = owner \cup {t}
              /\ Enter(t, "held", kUnstable)
              /\ UNCHANGED <<bit, job, forced>>
         ELSE /\ Swap(t, SetWaiting(status, SideOf[t]))
              /\ TryLockFailed(t)
              /\ UNCHANGED owner
    /\ UNCHANGED <<notified, stranded>>

\* Mutant: a link that is stable on this side only is locked.
NextBitLocked(st) == "locked"

\* Which bit the next iteration tries to set, given the word just read.
NextBit(st) == IF IsStable(st) THEN "locked" ELSE "waiting"

TryLockRetry(t) ==
    /\ pc[t] = "lock"
    /\ Reload
    /\ IF IsLocked(status) \/ SideOf[t] \notin status.stable
         THEN TryLockFailed(t)
         ELSE /\ Enter(t, "lock", status)
              /\ bit' = [bit EXCEPT ![t] = NextBit(status)]
              /\ UNCHANGED <<job, forced>>
    /\ UNCHANGED <<owner, notified, stranded>>

\* The bypass or closure goes ahead: the link stays locked until it is
\* replaced or dropped.  MaybeStartBridgeBypass() does not tell Flush(), which
\* goes on to its end, and neither does MaybeStartSelfBypass() when the router
\* was disconnected after it got the lock; otherwise the thread returns.
KeepLock(t) ==
    /\ pc[t] = "held"
    /\ \/ job[t] # "bridge" /\ Return(t)
       \/ job[t] \in {"bridge", "bypass"} /\ EndFlush(t, forced[t])
    /\ UNCHANGED <<status, owner, notified, stranded>>

\* link->Unlock() in SerializeNewRouterAndConfigureProxy() with a local peer, and
\* in MaybeStartBridgeBypass() when the bridge's other link cannot be locked.
BeginUnlock(t) ==
    /\ pc[t] = "held"
    /\ job[t] \in {"serialize", "bridge"}
    /\ Enter(t, "unlock", SetLocked(kStable, SideOf[t]))
    /\ UNCHANGED <<status, bit, job, forced, owner, notified, stranded>>

\* After Unlock() the new proxy is flushed, which tries to bypass it; the Flush()
\* of a bridge goes on to its end.
Unlocked(t) ==
    IF job[t] = "serialize" THEN EnterTryLock(t, "bypass", TRUE) ELSE EndFlush(t, forced[t])

\* The waiting sides which the Flush() of a bridge will not wake.
LeftWaiting(t) ==
    CASE job[t] = "serialize" -> {}
      [] forced[t]            -> status.waiting \ {Opposite(SideOf[t])}
      [] OTHER                -> status.waiting

\* Mutant: every iteration stores kStable.
UnlockToStable(t) ==
    /\ pc[t] = "unlock"
    /\ Swap(t, kStable)
    /\ owner' = owner \ {t}
    /\ Unlocked(t)
    /\ stranded' = stranded \cup LeftWaiting(t)
    /\ UNCHANGED notified

\* Unlock().  The first iteration stores kStable and every later one
\* expected & ~kLockedByThisSide, which is the same word.
Unlock(t) ==
    /\ pc[t] = "unlock"
    /\ Swap(t, ClearLocked(expected[t], SideOf[t]))
    /\ owner' = owner \ {t}
    /\ Unlocked(t)
    /\ stranded' = stranded \cup LeftWaiting(t)
    /\ UNCHANGED notified

UnlockRetry(t) ==
    /\ pc[t] = "unlock"
    /\ Reload
    /\ IF SideOf[t] \in status.locked
         THEN Again(t, "unlock") /\ UNCHANGED owner
         ELSE Unlocked(t) /\ owner' = owner \ {t}
    /\ UNCHANGED <<notified, stranded>>

\* ResetWaitingBit() of the other side; true sends it a FlushRouter message.
ResetWaitingBit(t) ==
    LET other == Opposite(SideOf[t]) IN
    /\ pc[t] = "reset"
    /\ Swap(t, ClearWaiting(expected[t], other))
    /\ notified' = notified \cup {other}
    /\ stranded' = stranded \ {other}
    /\ Return(t)
    /\ UNCHANGED owner

ResetWaitingBitRetry(t) ==
    /\ pc[t] = "reset"
    /\ Reload
    /\ IF CanReset(status, Opposite(SideOf[t])) THEN Again(t, "reset") ELSE Return(t)
    /\ UNCHANGED <<owner, notified, stranded>>

Begin(t) == BeginMarkSideStable(t) \/ BeginFlush(t) \/ BeginSerialize(t)

\* What a running thread does when no compare-exchange fails spuriously.
Run(t) ==
    \/ SetSideStable(t)
    \/ TryLock(t)
    \/ KeepLock(t)
    \/ BeginUnlock(t)
    \/ Unlock(t)
    \/ ResetWaitingBit(t)

Retry(t) ==
    \/ SetSideStableRetry(t)
    \/ TryLockRetry(t)
    \/ UnlockRetry(t)
    \/ ResetWaitingBitRetry(t)

Next == \E t \in Threads : Begin(t) \/ OnFlushRouter(t) \/ Run(t) \/ Retry(t)

Spec == Init /\ [][Next]_vars

----------------------------------------------------------------------------
(* Properties.                                                             *)

\* The locked bits are mutually exclusive and only set on a stable link
\* (router_link_state.h:58-61), and they say truly which thread got the lock:
\* whatever the interleaving of the loops, at most one TryLock() has returned
\* true without a matching Unlock(), and its side's bit is the one set.
LockOwnership ==
    /\ IsLocked(status) => IsStable(status)
    /\ status.locked = {SideOf[t] : t \in owner}
    /\ \A t, u \in owner : t = u

\* A wakeup is lost in one way only.  A side whose TryLock() failed on an
\* unstable link and left its waiting bit has been sent a FlushRouter message
\* once the link is stable and all calls have returned, unless the link is
\* locked, in which case the lock's holder replaces or closes the link, or a
\* bridge had the lock while the side was to be woken and gave it back
\* (router.cc:1827) in a Flush() that does not wake that side itself.
NoLostWakeup ==
    (\A t \in Threads : pc[t] = "idle") /\ IsStable(status)
        => status.waiting \subseteq stranded \/ IsLocked(status)

\* No waiting bit disappears unanswered: whatever the loops of the other threads
\* store meanwhile, the bit that a failed TryLock() has left stays until a thread
\* of the other side clears it and sends the FlushRouter message it asks for.
WaitersAreNotForgotten ==
    [][\A s \in status.waiting \ status'.waiting : s \in notified']_vars

\* Every operation takes effect atomically at one compare-exchange: the loops
\* implement AtomicLinkState.
Atomic == INSTANCE AtomicLinkState

ImplementsAtomicLinkState == Atomic!Spec
============================================================================
