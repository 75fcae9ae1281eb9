-------------------------- MODULE AtomicLinkState --------------------------
(***************************************************************************)
(* What a RouterLinkState promises to the two Routers which share it: each *)
(* operation takes effect in one step.  RouterLinkState.tla, which has the *)
(* compare-exchange loops of the code, is shown to implement this module,  *)
(* and Route.tla uses these atomic operations for its central links.       *)
(***************************************************************************)
EXTENDS LinkStatus

VARIABLE status

Init == status \in {kUnstable, kStable}

SetSideStable(s) == status' = SetStable(status, s)

TryLock(s) == status' = AfterTryLock(status, s)

Unlock(s) == s \in status.locked /\ status' = ClearLocked(status, s)

ResetWaitingBit(s) == status' = AfterReset(status, s)

Next == \E s \in Sides :
            \/ SetSideStable(s)
            \/ TryLock(s)
            \/ Unlock(s)
            \/ ResetWaitingBit(s)

Spec == Init /\ [][Next]_status
============================================================================
