----------------------------- MODULE PortalPair -----------------------------
(***************************************************************************)
(* What a pair of connected portals promises the application, wherever the *)
(* two portals are and however often they move: each of them receives a    *)
(* prefix of what the other has put, in order and with no duplicates, and  *)
(* learns of the other's closure truly, and of there being nothing left to *)
(* read only once there is nothing left.  Route.tla is shown to implement  *)
(* this module.                                                            *)
(***************************************************************************)
EXTENDS Naturals, Sequences

CONSTANTS X, Y,          \* the two portals
          MayLoseLink    \* whether the nodes may lose contact with each other

Ends == {X, Y}

Other(e) == IF e = X THEN Y ELSE X

VARIABLES
    state,   \* state[e]: "held" by the application, "moving" or "closed"
    sent,    \* how many parcels each portal was given
    got,     \* the parcels each portal has delivered
    told,    \* the portals with IPCZ_PORTAL_STATUS_PEER_CLOSED
    dead,    \* the portals with IPCZ_PORTAL_STATUS_DEAD
    lost     \* whether any link between two nodes was lost

vars == <<state, sent, got, told, dead, lost>>

Init ==
    /\ state = [e \in Ends |-> "held"]
    /\ sent = [e \in Ends |-> 0]
    /\ got = [e \in Ends |-> <<>>]
    /\ told = {}
    /\ dead = {}
    /\ lost = FALSE

\* The status bits e may obtain in a step, and must not obtain without reason.
Observe(e) ==
    /\ told' \in {told, told \cup {e}}
    /\ dead' \in {dead, dead \cup {e}}
    /\ dead' \subseteq told'
    /\ e \in told' => state[Other(e)] = "closed" \/ lost
    /\ e \in dead' => Len(got'[e]) = sent[Other(e)] \/ lost

Put(e) ==
    /\ state[e] = "held" /\ e \notin told
    /\ sent' = [sent EXCEPT ![e] = @ + 1]
    /\ UNCHANGED <<state, got, told, dead, lost>>

Get(e) ==
    /\ state[e] = "held" /\ e \notin dead
    /\ Len(got[e]) < sent[Other(e)]
    /\ got' = [got EXCEPT ![e] = Append(@, <<Other(e), Len(@) + 1>>)]
    /\ Observe(e)
    /\ UNCHANGED <<state, sent, lost>>

Notice(e) == state[e] = "held" /\ Observe(e) /\ UNCHANGED <<state, sent, got, lost>>

\* The application gives up the portal, for good or until it arrives elsewhere.
Leave(e, how) ==
    /\ state[e] = "held"
    /\ state' = [state EXCEPT ![e] = how]
    /\ told' = told \ {e} /\ dead' = dead \ {e}
    /\ UNCHANGED <<sent, got, lost>>

Arrive(e) ==
    /\ state[e] = "moving"
    /\ state' = [state EXCEPT ![e] = "held"]
    /\ Observe(e)
    /\ UNCHANGED <<sent, got, lost>>

LoseLink == MayLoseLink /\ lost' = TRUE /\ UNCHANGED <<state, sent, got, told, dead>>

Next ==
    \/ \E e \in Ends : Notice(e) \/ Put(e) \/ Get(e) \/ Arrive(e)
    \/ \E e \in Ends, how \in {"moving", "closed"} : Leave(e, how)
    \/ LoseLink

Spec == Init /\ [][Next]_vars
============================================================================
