---------------------------- MODULE ParcelQueue ----------------------------
(***************************************************************************)
(* What a SequencedQueue promises its users, with no mention of how it     *)
(* stores its entries: a set of numbered elements, the number of the next  *)
(* one to be popped, and possibly a final length.  ParcelQueue is the      *)
(* instance of SequencedQueue which every Router uses twice.               *)
(***************************************************************************)
EXTENDS Integers, FiniteSets

CONSTANT MaxSequenceGap   \* GetMaxSequenceGap()

ASSUME GapAssumption == MaxSequenceGap \in Nat

\* The final length of a sequence nobody has finalized yet.
Unknown == -1

(***************************************************************************)
(* A queue.  elems maps the sequence number of every element present to    *)
(* that element.                                                           *)
(***************************************************************************)
NewQueue(n) == [base |-> n, elems |-> <<>>, final |-> Unknown]

Present(q) == DOMAIN q.elems

IsFinalKnown(q) == q.final # Unknown

HasNextElement(q) == q.base \in Present(q)

\* GetCurrentSequenceLength(): the elements below it form an unbroken sequence.
CurrentLength(q) ==
    CHOOSE n \in q.base .. q.base + Cardinality(Present(q)) :
        /\ n \notin Present(q)
        /\ q.base .. n - 1 \subseteq Present(q)

ExpectsMoreElements(q) == IsFinalKnown(q) => CurrentLength(q) < q.final

IsFullyConsumed(q) == ~HasNextElement(q) /\ ~ExpectsMoreElements(q)

CanPush(q, n) ==
    /\ n >= q.base
    /\ IsFinalKnown(q) => n < q.final
    /\ n - q.base <= MaxSequenceGap
    /\ n \notin Present(q)

\* Mutant: elements are numbered in the order of their arrival.
PushAtEnd(q, n, x) ==
    [q EXCEPT !.elems = [m \in Present(q) \cup {CurrentLength(q)} |->
                            IF m = CurrentLength(q) THEN x ELSE q.elems[m]]]

Push(q, n, x) ==
    [q EXCEPT !.elems = [m \in Present(q) \cup {n} |-> IF m = n THEN x ELSE q.elems[m]]]

\* Mutant: the last element popped stays in the queue.
PopToLeavingOne(q, n) ==
    [q EXCEPT !.base = n, !.elems = [m \in Present(q) \ (q.base .. n - 2) |-> q.elems[m]]]

\* The queue after the elements below n, all of them present, are popped.
PopTo(q, n) ==
    [q EXCEPT !.base = n, !.elems = [m \in Present(q) \ (q.base .. n - 1) |-> q.elems[m]]]

Pop(q) == PopTo(q, q.base + 1)

CanSkip(q, n) ==
    /\ n = q.base
    /\ ~HasNextElement(q)
    /\ IsFinalKnown(q) => n < q.final

Skip(q) == [q EXCEPT !.base = q.base + 1]

CanSetFinal(q, len) ==
    /\ ~IsFinalKnown(q)
    /\ len >= q.base
    /\ \A m \in Present(q) : m < len
    /\ len - q.base <= MaxSequenceGap

SetFinal(q, len) == [q EXCEPT !.final = len]

\* Mutant: the sequence stays open.
ForceTerminateNothing(q) == q

\* ForceTerminateSequence(): what lies beyond the first gap is destroyed.
ForceTerminate(q) ==
    LET len == CurrentLength(q)
    IN  [q EXCEPT !.final = len, !.elems = [m \in q.base .. len - 1 |-> q.elems[m]]]
============================================================================
