----------------------------- MODULE RouteEdge -----------------------------
(***************************************************************************)
(* RouteEdge: one of the (at most two) edges of a Router.  An edge has a   *)
(* primary link, and possibly a decaying one which is still used for the   *)
(* parcels below a length agreed with the router at its other end.         *)
(***************************************************************************)
EXTENDS Integers

CONSTANT Null   \* the null reference, and the std::optional with no value

NewEdge == [primary |-> Null, decaying |-> Null]

\* The decaying link itself; Null also while the decay is deferred.
DecayingLink(e) == IF e.decaying = Null THEN Null ELSE e.decaying.link

EdgeIsStable(e) == e.decaying = Null

IsDecayDeferred(e) == e.decaying # Null /\ e.decaying.link = Null

SetPrimaryLink(e, link) ==
    IF IsDecayDeferred(e) THEN [e EXCEPT !.decaying.link = link]
                          ELSE [e EXCEPT !.primary = link]

\* Mutant: the edge keeps the link it was to give away.
ReleasePrimaryLinkNot(e) == e

ReleasePrimaryLink(e) == [e EXCEPT !.primary = Null]

\* BeginPrimaryLinkDecay(): fails, and changes nothing, on an unstable edge.
BeginDecay(e) ==
    IF EdgeIsStable(e)
    THEN [primary  |-> Null, decaying |-> [link |-> e.primary, to |-> Null, from |-> Null]]
    ELSE e

SetLengthTo(e, len) == [e EXCEPT !.decaying.to = len]

SetLengthFrom(e, len) == [e EXCEPT !.decaying.from = len]

ShouldTransmitOnDecayingLink(e, n) ==
    e.decaying # Null /\ (e.decaying.to # Null => n < e.decaying.to)

\* The link a parcel numbered n takes from here, Null when it must wait.
LinkFor(e, n) ==
    IF ShouldTransmitOnDecayingLink(e, n) THEN DecayingLink(e) ELSE e.primary

\* Mutant: the decaying link waits for one parcel more than was agreed upon.
DecayIsFinishedLate(e, sent, received) ==
    /\ DecayingLink(e) # Null
    /\ e.decaying.to # Null   /\ sent > e.decaying.to
    /\ e.decaying.from # Null /\ received > e.decaying.from

\* MaybeFinishDecay() returns true exactly when this holds.
DecayIsFinished(e, sent, received) ==
    /\ DecayingLink(e) # Null
    /\ e.decaying.to # Null   /\ sent >= e.decaying.to
    /\ e.decaying.from # Null /\ received >= e.decaying.from

\* The edge after MaybeFinishDecay() returned true, or after ReleaseDecayingLink().
DropDecayingLink(e) == [e EXCEPT !.decaying = Null]

(***************************************************************************)
(* The debug assertions of RouteEdge: a link may only be adopted in place  *)
(* of none, and the lengths of a decaying link are each agreed upon once.  *)
(***************************************************************************)
AssertNoPrimary(e) == e.primary = Null

AssertLengthToUnset(e) == e.decaying # Null /\ e.decaying.to = Null

AssertLengthFromUnset(e) == e.decaying # Null /\ e.decaying.from = Null
============================================================================
