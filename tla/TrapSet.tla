------------------------------ MODULE TrapSet ------------------------------
(***************************************************************************)
(* TrapSet: the traps the application has installed on a portal, and what  *)
(* becomes of them when the portal's status changes.  A trap is a record   *)
(* with the set `conditions' of conditions it observes and two thresholds. *)
(* An event is what its handler will be called with, once the router's     *)
(* mutex is released (TrapEventDispatcher).                                *)
(***************************************************************************)
EXTENDS ParcelQueue, Sequences, SequencesExt

GetNumAvailableElements(q) == CurrentLength(q) - q.base

GetTotalAvailableElementSize(q) ==
    MapThenSumSet(LAMBDA n : q.elems[n].size, q.base .. CurrentLength(q) - 1)

\* IpczPortalStatus, as QueryStatus() and every event report it.
PortalStatus(flags, q) ==
    [flags |-> flags, num_local_parcels |-> GetNumAvailableElements(q),
     num_local_bytes |-> GetTotalAvailableElementSize(q)]

\* Mutant: a threshold that is reached is exceeded.
GetSatisfiedConditionsForUpdateEarly(trap, flags, q, reason) ==
    trap.conditions \cap
        (flags \cup (IF GetNumAvailableElements(q) >= trap.min_local_parcels
                    THEN {"ABOVE_MIN_LOCAL_PARCELS"} ELSE {}))

\* All conditions but NEW_LOCAL_PARCEL are level-triggered.
GetSatisfiedConditionsForUpdate(trap, flags, q, reason) ==
    trap.conditions \cap
        (flags
         \cup (IF GetNumAvailableElements(q) > trap.min_local_parcels
               THEN {"ABOVE_MIN_LOCAL_PARCELS"} ELSE {})
         \cup (IF GetTotalAvailableElementSize(q) > trap.min_local_bytes
               THEN {"ABOVE_MIN_LOCAL_BYTES"} ELSE {})
         \cup (IF reason = "kNewLocalParcel" THEN {"NEW_LOCAL_PARCEL"} ELSE {}))

Event(trap, flags, status) == [trap |-> trap, flags |-> flags, status |-> status]

\* UpdatePortalStatus(): a trap whose conditions are met is removed, and its
\* event deferred.
UpdatePortalStatus(traps, flags, q, reason) ==
    LET Met(trap) == GetSatisfiedConditionsForUpdate(trap, flags, q, reason)
        met == SelectSeq(traps, LAMBDA trap : Met(trap) # {})
    IN  [traps  |-> SelectSeq(traps, LAMBDA trap : Met(trap) = {}),
         events |-> [i \in DOMAIN met |-> Event(met[i], Met(met[i]), PortalStatus(flags, q))]]

\* The events of RemoveAll(), which leaves no trap behind.
RemoveAll(traps) ==
    [i \in DOMAIN traps |-> Event(traps[i], {"REMOVED"}, PortalStatus({}, NewQueue(0)))]
=============================================================================
