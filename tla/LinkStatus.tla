---------------------------- MODULE LinkStatus ----------------------------
(***************************************************************************)
(* The status word of a central RouterLink: a stable, a waiting and a      *)
(* locked bit for each of the two sides, and what each operation of        *)
(* RouterLinkState makes of it.                                            *)
(***************************************************************************)

\* LinkSide: the two sides of every RouterLink.
Sides == {"A", "B"}

Opposite(s) == IF s = "A" THEN "B" ELSE "A"

\* RouterLinkState::Status; each field is the set of sides whose bit is set.
Status == [stable : SUBSET Sides, waiting : SUBSET Sides, locked : SUBSET Sides]

kUnstable == [stable |-> {}, waiting |-> {}, locked |-> {}]

kStable == [stable |-> Sides, waiting |-> {}, locked |-> {}]

IsStable(st) == st.stable = Sides

IsLocked(st) == st.locked # {}

\* The three ways in which the word changes by setting a bit ...
SetStable(st, s) == [st EXCEPT !.stable = @ \cup {s}]

SetWaiting(st, s) == [st EXCEPT !.waiting = @ \cup {s}]

SetLocked(st, s) == [st EXCEPT !.locked = @ \cup {s}]

\* ... and the two in which a bit is cleared.
ClearWaiting(st, s) == [st EXCEPT !.waiting = @ \ {s}]

ClearLocked(st, s) == [st EXCEPT !.locked = @ \ {s}]

\* TryLock(s) returns true exactly when this holds.
CanLock(st, s) == IsStable(st) /\ ~IsLocked(st)

\* TryLock(s) sets the waiting bit of s exactly when this holds.
MustWait(st, s) == s \in st.stable /\ ~IsStable(st) /\ ~IsLocked(st)

\* The word after TryLock(s).
AfterTryLock(st, s) ==
    CASE CanLock(st, s)  -> SetLocked(st, s)
      [] MustWait(st, s) -> SetWaiting(st, s)
      [] OTHER           -> st

\* ResetWaitingBit(s) returns true, and clears the bit, exactly when this holds.
CanReset(st, s) == IsStable(st) /\ s \in st.waiting /\ ~IsLocked(st)

AfterReset(st, s) == IF CanReset(st, s) THEN ClearWaiting(st, s) ELSE st
============================================================================
