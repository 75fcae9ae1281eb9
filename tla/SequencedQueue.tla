--------------------------- MODULE SequencedQueue ---------------------------
(***************************************************************************)
(* SequencedQueue as it is stored: a sparse vector of entries, of which    *)
(* those below front_index_ are spent, and in which the first and the last *)
(* entry of every unbroken span carry the length and the size of the span. *)
(* The final length, once known, is encoded in the length of the vector.   *)
(*                                                                         *)
(* An element is represented by its size, all that the queue asks of it.   *)
(* A call which fails changes nothing, and is not an action.               *)
(***************************************************************************)
EXTENDS ParcelQueue, Sequences, FiniteSetsExt

CONSTANTS Null,        \* an empty entry
          Sizes,       \* the possible sizes of an element
          MaxLength    \* bound on the sequence numbers in use

\* What an entry holds besides its element counts only at the ends of a span.
Entries == [element : Sizes, start : Nat, end : Nat, count : Nat, size : Nat]

ASSUME QueueAssumption == Sizes \subseteq Nat /\ MaxLength \in Nat /\ Null \notin Entries

VARIABLES base,      \* base_sequence_number_
          entries,   \* entries_
          front,     \* front_index_, counted from 0
          isFinal    \* is_final_length_known_

vars == <<base, entries, front, isFinal>>

\* The position in entries of the element with sequence number n.
Position(n) == front + (n - base) + 1

FrontEntry == entries[front + 1]

HasNext == entries # <<>> /\ FrontEntry # Null

NumAvailableElements == IF HasNext THEN FrontEntry.count ELSE 0

TotalAvailableElementSize == IF HasNext THEN FrontEntry.size ELSE 0

CurrentSequenceLength == base + NumAvailableElements

FinalSequenceLength == IF isFinal THEN base + (Len(entries) - front) ELSE Unknown

\* std::vector::resize().
Resize(es, len) == [k \in 1 .. len |-> IF k <= Len(es) THEN es[k] ELSE Null]

ResetStorage ==
    /\ entries' = <<>>
    /\ front' = 0

Init ==
    /\ base = 0
    /\ entries = <<>>
    /\ front = 0
    /\ isFinal = FALSE

---------------------------------------------------------------------------

\* Fills the entry for n, which joins the spans on its left and on its right, and
\* brings both ends of the joint span up to date.
PlaceNewEntry(es, n, x) ==
    LET p == Position(n)
        left == p > 1 /\ es[p - 1] # Null
        right == p < Len(es) /\ es[p + 1] # Null
        entry == [element |-> x,
                  start |-> IF left THEN es[p - 1].start ELSE n,
                  end   |-> IF right THEN es[p + 1].end ELSE n,
                  count |-> 1 + (IF left THEN es[p - 1].count ELSE 0)
                              + (IF right THEN es[p + 1].count ELSE 0),
                  size  |-> x + (IF left THEN es[p - 1].size ELSE 0)
                              + (IF right THEN es[p + 1].size ELSE 0)]
        first == IF entry.start <= base THEN front + 1 ELSE Position(entry.start)
        last == Position(entry.end)
        placed == [es EXCEPT ![p] = entry]
        begun == [placed EXCEPT ![first] = [@ EXCEPT !.end = entry.end,
                                                     !.count = entry.count,
                                                     !.size = entry.size]]
    IN  [begun EXCEPT ![last] = [@ EXCEPT !.start = entry.start,
                                          !.count = entry.count,
                                          !.size = entry.size]]

MayPush(n) ==
    /\ n >= base
    /\ isFinal => n < FinalSequenceLength
    /\ n - base <= MaxSequenceGap
    /\ Position(n) <= Len(entries) => entries[Position(n)] = Null

PushElement(n, x) ==
    /\ MayPush(n)
    /\ LET room == IF Position(n) > Len(entries) THEN Resize(entries, Position(n)) ELSE entries
       IN  entries' = PlaceNewEntry(room, n, x)
    /\ UNCHANGED <<base, front, isFinal>>

\* Mutant: the tail of the span is not told.
PoppedEntriesTailUntold ==
    LET head == FrontEntry
        p == front + 2
        joined == [entries EXCEPT ![p] = [@ EXCEPT !.start = head.start, !.end = head.end,
                                                   !.count = head.count - 1,
                                                   !.size = head.size - head.element]]
        spent == IF p <= Len(entries) /\ entries[p] # Null THEN joined ELSE entries
    IN  [spent EXCEPT ![front + 1] = Null]

\* What Pop() leaves in storage: the next entry, if there is one, becomes the
\* head of the span, and the tail of the span is told of its new extent.
PoppedEntries ==
    LET head == FrontEntry
        p == front + 2
        count == head.count - 1
        size == head.size - head.element
        tail == front + 1 + (head.end - base)
        joined == [entries EXCEPT ![p] = [@ EXCEPT !.start = head.start, !.end = head.end,
                                                   !.count = count, !.size = size]]
        told == IF tail > p
                THEN [joined EXCEPT ![tail] = [@ EXCEPT !.count = count, !.size = size]]
                ELSE joined
        spent == IF p <= Len(entries) /\ entries[p] # Null THEN told ELSE entries
    IN  [spent EXCEPT ![front + 1] = Null]

PopElement ==
    /\ HasNext
    /\ base' = base + 1
    /\ IF front < Len(entries) - 1
       THEN entries' = PoppedEntries /\ front' = front + 1
       ELSE ResetStorage
    /\ UNCHANGED isFinal

MaySkip(n) == n = base /\ ~HasNext /\ (isFinal => n < FinalSequenceLength)

SkipElement(n) ==
    /\ MaySkip(n)
    /\ base' = base + 1
    /\ CASE entries = <<>>           -> UNCHANGED <<entries, front>>
         [] front + 1 = Len(entries) -> ResetStorage
         [] OTHER                    -> front' = front + 1 /\ UNCHANGED entries
    /\ UNCHANGED isFinal

MaySetFinal(length) ==
    /\ ~isFinal
    /\ length - base >= Len(entries) - front
    /\ length - base <= MaxSequenceGap

SetFinalSequenceLength(length) ==
    /\ MaySetFinal(length)
    /\ isFinal' = TRUE
    /\ entries' = Resize(entries, front + (length - base))
    /\ UNCHANGED <<base, front>>

\* Mutant: elements beyond the first gap are kept.
ForceTerminateSequenceKeeping ==
    /\ isFinal' = TRUE
    /\ UNCHANGED <<base, entries, front>>

ForceTerminateSequence ==
    /\ isFinal' = TRUE
    /\ IF NumAvailableElements = 0
       THEN ResetStorage
       ELSE entries' = Resize(entries, front + NumAvailableElements) /\ UNCHANGED front
    /\ UNCHANGED base

\* Only for a queue without elements, and without room for any.
ResetSequence(n) ==
    /\ entries = <<>>
    /\ base' = n
    /\ isFinal' = FALSE
    /\ ResetStorage

Next ==
    \/ \E n \in 0 .. MaxLength - 1 : \/ \E x \in Sizes : PushElement(n, x)
                                     \/ SkipElement(n)
    \/ PopElement
    \/ \E n \in 0 .. MaxLength : SetFinalSequenceLength(n) \/ ResetSequence(n)
    \/ ForceTerminateSequence

Spec == Init /\ [][Next]_vars

---------------------------------------------------------------------------
(* Properties *)

\* The shape of the storage: front_index_ is in bounds unless entries_ is empty,
\* and every entry below it is null, as the comments on both members have it.
TypeOK ==
    /\ base \in 0 .. MaxLength
    /\ \A k \in DOMAIN entries : entries[k] = Null \/ entries[k] \in Entries
    /\ IF entries = <<>> THEN front = 0 ELSE front \in 0 .. Len(entries) - 1
    /\ \A k \in 1 .. front : entries[k] = Null
    /\ isFinal \in BOOLEAN

\* The queue of ParcelQueue.tla which the storage represents.
Queue ==
    LET filled == {k \in DOMAIN entries : entries[k] # Null}
        numbers == {base + (k - 1 - front) : k \in filled}
    IN  [base  |-> base,
         elems |-> IF numbers = {} THEN <<>>
                   ELSE [n \in numbers |-> entries[Position(n)].element],
         final |-> FinalSequenceLength]

\* The storage keeps its form, and the spans' records stay right, however elements arrive, are popped and are
\* skipped: the queue answers every question, and accepts or refuses every
\* operation, as the queue of ParcelQueue.tla would.
AnswersAgree ==
    LET q == Queue
        available == q.base .. CurrentLength(q) - 1
    IN  /\ TypeOK
        /\ HasNext <=> HasNextElement(q)
        /\ CurrentSequenceLength = CurrentLength(q)
        /\ TotalAvailableElementSize = MapThenSumSet(LAMBDA n : q.elems[n], available)
        /\ \A n \in 0 .. MaxLength : /\ MayPush(n) <=> CanPush(q, n)
                                     /\ MaySkip(n) <=> CanSkip(q, n)
                                     /\ MaySetFinal(n) <=> CanSetFinal(q, n)

\* Every operation on the storage has the effect on the queue that the routers,
\* which use ParcelQueue.tla, rely on.
ImplementsParcelQueue ==
    /\ Queue = NewQueue(0)
    /\ [][ \/ \E n \in 0 .. MaxLength, x \in Sizes : CanPush(Queue, n) /\ Queue' = Push(Queue, n, x)
           \/ HasNextElement(Queue) /\ Queue' = Pop(Queue)
           \/ CanSkip(Queue, base) /\ Queue' = Skip(Queue)
           \/ \E n \in 0 .. MaxLength : CanSetFinal(Queue, n) /\ Queue' = SetFinal(Queue, n)
           \/ Queue' = ForceTerminate(Queue)
           \/ \E n \in 0 .. MaxLength : Present(Queue) = {} /\ Queue' = NewQueue(n)]_Queue
============================================================================
