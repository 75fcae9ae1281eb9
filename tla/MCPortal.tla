----------------------------- MODULE MCPortal -----------------------------
(***************************************************************************)
(* Portal for TLC: what one or two threads do with up to six portals.      *)
(***************************************************************************)
EXTENDS Portal

CONSTANTS pa, pb, pc, pd, pe, pf, t1, t2

MCPortals == {pa, pb, pc, pd, pe, pf}

MCThreads == {t1, t2}

---------------------------------------------------------------------------
(* Calls *)

PutCall(p, size, objects) == [op |-> "Put", p |-> p, size |-> size, objects |-> objects]

BeginPutCall(p, size) == [op |-> "BeginPut", p |-> p, size |-> size]

EndPutCall(p, size, objects, abort) ==
    [op |-> "EndPut", p |-> p, size |-> size, objects |-> objects, abort |-> abort]

Call(op, p, handles, flags) ==
    [op |-> op, p |-> p, bytes |-> 9, handles |-> handles, partial |-> "partial" \in flags,
     keep |-> "keep" \in flags, overlapped |-> "overlapped" \in flags, abort |-> "abort" \in flags]

GetCall(p) == Call("Get", p, 1, {})

CloseCall(p) == [op |-> "CloseRoute", p |-> p]

MergeCall(p, q) == [op |-> "Merge", p |-> p, other |-> q]

ATrap(conditions, parcels, bytes, drain) ==
    [conditions |-> conditions, min_local_parcels |-> parcels, min_local_bytes |-> bytes,
     drain |-> drain]

TrapCall(p, trap) == [op |-> "Trap", p |-> p, trap |-> trap]

AnyParcel == ATrap({"ABOVE_MIN_LOCAL_PARCELS", "DEAD"}, 0, 0, TRUE)

NewParcelOrClosed == ATrap({"NEW_LOCAL_PARCEL", "PEER_CLOSED"}, 0, 0, FALSE)

TwoBytes == ATrap({"ABOVE_MIN_LOCAL_BYTES"}, 0, 1, FALSE)

DrainCall(p) == [op |-> "Drain", p |-> p, trap |-> AnyParcel]

Scenario(pairs, drained, first, second) ==
    [pairs |-> pairs, drained |-> drained,
     calls |-> [t \in MCThreads |-> IF t = t1 THEN first ELSE second]]

---------------------------------------------------------------------------
(* Scenarios *)

\* Two producers, one of which also starts to drain the other end.
Drains ==
    Scenario({<<pa, pb>>}, {pb}, <<DrainCall(pb), PutCall(pa, 1, <<>>)>>,
             <<PutCall(pa, 1, <<>>), PutCall(pa, 1, <<>>), CloseCall(pa)>>)

\* A portal travels while parcels are put into it, and is used where it arrives.
Travels ==
    Scenario({<<pa, pb>>, <<pc, pd>>}, {pb}, <<PutCall(pd, 1, <<>>), PutCall(pa, 1, <<pc>>), CloseCall(pd)>>,
             <<DrainCall(pb), GetCall(pc), PutCall(pc, 1, <<>>), CloseCall(pc)>>)

\* A portal is lost in a parcel that nobody retrieves.
Unread ==
    Scenario({<<pa, pb>>, <<pc, pd>>}, {}, <<TrapCall(pd, NewParcelOrClosed), PutCall(pa, 1, <<pc>>), CloseCall(pa)>>,
             <<TrapCall(pb, TwoBytes), CloseCall(pb)>>)

\* Two routes are merged while their other ends are used and closed.
Merged ==
    Scenario({<<pa, pb>>, <<pc, pd>>}, {pd}, <<MergeCall(pb, pc), PutCall(pd, 1, <<>>)>>,
             <<DrainCall(pd), PutCall(pa, 1, <<>>), GetCall(pa), CloseCall(pa)>>)

\* Two bridges that share a route.
MergedTwice ==
    Scenario({<<pa, pb>>, <<pc, pd>>, <<pe, pf>>}, {}, <<MergeCall(pb, pc)>>,
             <<MergeCall(pd, pe)>>)

\* Transactions, and the handles to the parcels that they return.
TwoPhase ==
    Scenario({<<pa, pb>>, <<pc, pd>>}, {},
             <<BeginPutCall(pa, 2), EndPutCall(pa, 3, <<>>, FALSE), EndPutCall(pa, 1, <<pc>>, FALSE),
               BeginPutCall(pa, 1), EndPutCall(pa, 0, <<>>, TRUE)>>,
             <<Call("BeginGet", pb, 0, {"partial"}), Call("EndGet", pb, 0, {"abort"}),
               Call("BeginGet", pb, 0, {"partial"}), GetCall(pb), Call("EndGet", pb, 0, {"keep"}),
               Call("ParcelBeginGet", Null, 0, {"partial"}), Call("ParcelEndGet", Null, 0, {}),
               Call("ParcelGet", Null, 1, {}), Call("ParcelClose", Null, 0, {})>>)

\* Gets that overlap, the objects of one of which nobody takes.
Overlapped ==
    Scenario({<<pa, pb>>, <<pc, pd>>}, {},
             <<PutCall(pa, 1, <<pc>>), Call("BeginGet", pb, 0, {"overlapped", "partial"}), Call("EndGet", pb, 0, {})>>,
             <<TrapCall(pb, NewParcelOrClosed), PutCall(pa, 1, <<>>), Call("BeginGet", pb, 0, {"overlapped", "partial"}),
               CloseCall(pa), Call("EndGet", pb, 0, {"abort"})>>)

\* Calls that fail: of a portal merged with its peer, or with one in use, or put
\* into itself or its peer, and a trap whose condition is met.
Refused ==
    Scenario({<<pa, pb>>, <<pc, pd>>}, {},
             <<MergeCall(pa, pb), PutCall(pa, 1, <<pb>>), PutCall(pa, 2, <<>>), MergeCall(pa, pc),
               TrapCall(pb, TwoBytes)>>,
             <<GetCall(pb), CloseCall(pa)>>)

\* A portal is merged whose peer has put a parcel into it and was closed.
MergedClosed ==
    Scenario({<<pa, pb>>, <<pc, pd>>}, {}, <<PutCall(pd, 1, <<>>), CloseCall(pd)>>, <<MergeCall(pb, pc)>>)

---------------------------------------------------------------------------

MergedClosedOnly == {MergedClosed}

MCScenarios == {Drains, Refused, Travels, Unread, Merged, MergedTwice, TwoPhase, Overlapped}
=============================================================================
