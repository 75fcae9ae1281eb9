------------------------ MODULE SequencedQueueProofs ------------------------
(***************************************************************************)
(* That the storage of a SequencedQueue represents the queue of module     *)
(* ParcelQueue, for every limit on gaps, every set of sizes and sequences  *)
(* of any length.                                                          *)
(***************************************************************************)
EXTENDS SequencedQueueEdits

\* The storage is in order.  A queue whose end is not known holds no room behind
\* its last element, and no element is numbered beyond the bound.
IInv ==
    /\ base \in 0 .. MaxLength
    /\ isFinal \in BOOLEAN
    /\ Shape(front, entries)
    /\ ~isFinal /\ entries # <<>> => entries[Len(entries)] # Null
    /\ Bounded(base - front, entries)
    /\ Spans(base - front, front, entries)

----------------------------------------------------------------------------
(* The queue which the storage represents *)

\* Queue, and what it comes to.
Represented(b, f, es, fin) ==
    LET filled == {k \in DOMAIN es : es[k] # Null}
        numbers == {b + (k - 1 - f) : k \in filled}
    IN  [base  |-> b,
         elems |-> IF numbers = {} THEN <<>> ELSE [n \in numbers |-> es[f + (n - b) + 1].element],
         final |-> IF fin THEN b + (Len(es) - f) ELSE Unknown]

QueueOf(b, f, es, fin) ==
    [base |-> b, elems |-> Elems(b - f, es), final |-> IF fin THEN b + (Len(es) - f) ELSE Unknown]

\* The queue holds the elements that are stored.
LEMMA RepresentedIs ==
    ASSUME NEW b \in Nat, NEW f, NEW es, NEW fin, Shape(f, es)
    PROVE  Represented(b, f, es, fin) = QueueOf(b, f, es, fin)
<1> DEFINE numbers == {b + (k - 1 - f) : k \in {j \in DOMAIN es : es[j] # Null}}
<1>1. es \in Seq(Cells) /\ f \in Nat
  BY DEF Shape
<1>2. Len(es) \in Nat /\ DOMAIN es = 1 .. Len(es)
  BY <1>1, CellsOf
<1>3. \A k \in 1 .. Len(es) : b + (k - 1 - f) = Num(b - f, k)
  BY <1>1, <1>2 DEF Num
<1>4. numbers = Numbers(b - f, es)
  BY <1>2, <1>3 DEF Numbers
<1>5. b - f \in Int
  BY <1>1
<1>6. \A n \in Numbers(b - f, es) : f + (n - b) + 1 = n - (b - f) + 1
  <2>1. Numbers(b - f, es) \subseteq Int
    BY <1>1, <1>5, NumbersOf
  <2> QED
    BY <1>1, <2>1
<1>7. [n \in Numbers(b - f, es) |-> es[f + (n - b) + 1].element] = Elems(b - f, es)
  BY <1>6 DEF Elems
<1>8. Numbers(b - f, es) = {} => Elems(b - f, es) = <<>>
  BY <1>1, <1>5, NoElements
<1> QED
  BY <1>4, <1>7, <1>8 DEF Represented, QueueOf

\* Before and after a step.
LEMMA QueueIs ==
    /\ base \in Nat /\ Shape(front, entries) => Queue = QueueOf(base, front, entries, isFinal)
    /\ base' \in Nat /\ Shape(front', entries') =>
          Queue' = QueueOf(base', front', entries', isFinal')
<1>1. Queue = Represented(base, front, entries, isFinal)
  BY DEF Queue, Represented, Position, FinalSequenceLength
<1>2. Queue' = Represented(base', front', entries', isFinal')
  BY DEF Queue, Represented, Position, FinalSequenceLength
<1> QED
  BY <1>1, <1>2, RepresentedIs

\* The current length of a queue is the number of the first element missing.
LEMMA CurrentLengthIs ==
    ASSUME NEW q, q.base \in Nat, IsFiniteSet(Present(q)),
           NEW n \in Nat, q.base <= n, n \notin Present(q), q.base .. n - 1 \subseteq Present(q)
    PROVE  CurrentLength(q) = n
<1> DEFINE IsLength(m) == m \notin Present(q) /\ q.base .. m - 1 \subseteq Present(q)
           Range0 == q.base .. q.base + Cardinality(Present(q))
<1>1. Cardinality(Present(q)) \in Nat
  BY FS_CardinalityType
<1>2. n \in Range0
  <2>1. IsFiniteSet(q.base .. n - 1) /\ Cardinality(q.base .. n - 1) = n - q.base
    <3>1. q.base > n - 1 => n = q.base
      OBVIOUS
    <3>2. q.base \in Int /\ n - 1 \in Int
      OBVIOUS
    <3>3. /\ IsFiniteSet(q.base .. n - 1)
          /\ Cardinality(q.base .. n - 1) = IF q.base > n - 1 THEN 0 ELSE n - 1 - q.base + 1
      BY <3>2, FS_Interval, Zenon
    <3> QED
      BY <3>1, <3>3
  <2>2. Cardinality(q.base .. n - 1) <= Cardinality(Present(q))
    BY FS_Subset
  <2> QED
    BY <1>1, <2>1, <2>2
<1>3. \A m \in Range0 : IsLength(m) => m = n
  <2> SUFFICES ASSUME NEW m \in Range0, IsLength(m) PROVE m = n
    OBVIOUS
  <2>1. m \in Int /\ q.base <= m
    BY <1>1
  <2>2. CASE m < n
    BY <2>1, <2>2
  <2>3. CASE n < m
    BY <2>1, <2>3
  <2> QED
    BY <2>1, <2>2, <2>3
<1>4. IsLength(n)
  OBVIOUS
<1> HIDE DEF IsLength, Range0
<1>5. (CHOOSE m \in Range0 : IsLength(m)) = n
  BY <1>2, <1>3, <1>4
<1> QED
  BY <1>5 DEF CurrentLength, IsLength, Range0

\* The queue's elements, and its length, in terms of the storage.
LEMMA QueueFacts ==
    ASSUME IInv
    PROVE  /\ Queue = QueueOf(base, front, entries, isFinal)
           /\ Queue.base = base /\ Queue.elems = Elems(base - front, entries)
           /\ Queue.final = FinalSequenceLength /\ (IsFinalKnown(Queue) <=> isFinal)
           /\ Present(Queue) = Numbers(base - front, entries)
           /\ \A n \in Int : n \in Present(Queue) <=>
                 Position(n) \in front + 1 .. Len(entries) /\ entries[Position(n)] # Null
           /\ HasNext <=> HasNextElement(Queue)
           /\ CurrentLength(Queue) = CurrentSequenceLength
           /\ CurrentSequenceLength \in Nat /\ CurrentSequenceLength >= base
<1> DEFINE d == base - front
<1>1. /\ base \in Nat /\ front \in Nat /\ entries \in Seq(Cells) /\ isFinal \in BOOLEAN
      /\ IF entries = <<>> THEN front = 0 ELSE front < Len(entries)
      /\ \A k \in 1 .. front : entries[k] = Null
      /\ Shape(front, entries) /\ Spans(d, front, entries)
  BY QueueAssumption DEF IInv, Shape
<1>2. Len(entries) \in Nat /\ (entries = <<>> <=> Len(entries) = 0)
  BY <1>1, CellsOf
<1>3. d \in Int
  BY <1>1
<1>4. Queue = QueueOf(base, front, entries, isFinal)
  BY <1>1, QueueIs
<1>5. /\ Queue.base = base /\ Queue.elems = Elems(d, entries)
      /\ Queue.final = FinalSequenceLength /\ Present(Queue) = Numbers(d, entries)
  BY <1>4 DEF QueueOf, FinalSequenceLength, Present, Elems
<1>6. IsFinalKnown(Queue) <=> isFinal
  BY <1>1, <1>2, <1>5 DEF IsFinalKnown, Unknown, FinalSequenceLength
<1>7. \A n \in Int : n \in Present(Queue) <=>
         Position(n) \in front + 1 .. Len(entries) /\ entries[Position(n)] # Null
  <2> SUFFICES ASSUME NEW n \in Int
               PROVE  n \in Present(Queue) <=>
                         Position(n) \in front + 1 .. Len(entries) /\ entries[Position(n)] # Null
    OBVIOUS
  <2>1. n - d + 1 = Position(n) /\ Position(n) \in Int
    BY <1>1 DEF Position
  <2>2. n \in Numbers(d, entries) <=> n - d + 1 \in 1 .. Len(entries) /\ entries[n - d + 1] # Null
    BY <1>1, <1>3, NumbersOf
  <2> QED
    BY <1>1, <1>2, <1>5, <2>1, <2>2
<1>8. HasNext <=> HasNextElement(Queue)
  <2>1. Position(base) = front + 1
    BY <1>1 DEF Position
  <2>2. base \in Present(Queue) <=> front + 1 \in front + 1 .. Len(entries) /\ entries[front + 1] # Null
    BY <1>1, <1>7, <2>1
  <2>3. front + 1 \in front + 1 .. Len(entries) <=> entries # <<>>
    BY <1>1, <1>2
  <2> QED
    BY <1>5, <2>2, <2>3 DEF HasNext, FrontEntry, HasNextElement
<1>9. IsFiniteSet(Present(Queue))
  BY <1>1, <1>3, <1>5, NumbersOf
<1>10. CASE ~HasNext
  <2>1. CurrentSequenceLength = base
    BY <1>1, <1>10 DEF CurrentSequenceLength, NumAvailableElements
  <2>2. base \notin Present(Queue) /\ base .. base - 1 = {}
    BY <1>1, <1>5, <1>8, <1>10 DEF HasNextElement
  <2>3. CurrentLength(Queue) = base
    BY <1>1, <1>5, <1>9, <2>2, CurrentLengthIs
  <2> QED
    BY <1>1, <1>4, <1>5, <1>6, <1>7, <1>8, <2>1, <2>3
<1>11. CASE HasNext
  <2>1. entries # <<>> /\ entries[front + 1] # Null
    BY <1>11 DEF HasNext, FrontEntry
  <2>2. PICK b \in front + 1 .. Len(entries) :
           IsSpan(front, entries, front + 1, b) /\ IsRecorded(d, front, entries, front + 1, b)
    BY <1>1, <1>3, <2>1, FirstSpan
  <2>3. FrontEntry.count = b - (front + 1) + 1
    BY <2>2 DEF IsRecorded, FrontEntry
  <2>4. CurrentSequenceLength = base + (b - front)
    BY <1>1, <1>2, <1>11, <2>3 DEF CurrentSequenceLength, NumAvailableElements
  <2>5. base + (b - front) \in Nat /\ base <= base + (b - front)
    BY <1>1, <1>2
  <2>6. base + (b - front) \notin Present(Queue)
    <3>1. Position(base + (b - front)) = b + 1
      BY <1>1, <1>2 DEF Position
    <3>2. b + 1 \in front + 1 .. Len(entries) => entries[b + 1] = Null
      BY <1>1, <1>2, <2>2 DEF IsSpan
    <3> QED
      BY <1>7, <2>5, <3>1, <3>2
  <2>7. base .. base + (b - front) - 1 \subseteq Present(Queue)
    <3> SUFFICES ASSUME NEW n \in base .. base + (b - front) - 1 PROVE n \in Present(Queue)
      OBVIOUS
    <3>1. n \in Int /\ Position(n) \in front + 1 .. b /\ Position(n) \in front + 1 .. Len(entries)
      BY <1>1, <1>2 DEF Position
    <3>2. entries[Position(n)] # Null
      BY <2>2, <3>1 DEF IsSpan
    <3> QED
      BY <1>7, <3>1, <3>2
  <2>8. CurrentLength(Queue) = base + (b - front)
    BY <1>1, <1>5, <1>9, <2>5, <2>6, <2>7, CurrentLengthIs
  <2> QED
    BY <1>1, <1>4, <1>5, <1>6, <1>7, <1>8, <2>4, <2>5, <2>8
<1> QED
  BY <1>10, <1>11

\* What the queue answers: sizes and lengths are those of the elements present,
\* and an operation is refused exactly when ParcelQueue has no such step.
LEMMA Answers ==
    ASSUME IInv
    PROVE  AnswersAgree
<1> DEFINE d == base - front
<1>1. /\ base \in Nat /\ base \in 0 .. MaxLength /\ front \in Nat /\ entries \in Seq(Cells)
      /\ isFinal \in BOOLEAN
      /\ IF entries = <<>> THEN front = 0 ELSE front < Len(entries)
      /\ \A k \in 1 .. front : entries[k] = Null
      /\ Shape(front, entries) /\ Spans(d, front, entries)
      /\ ~isFinal /\ entries # <<>> => entries[Len(entries)] # Null
  BY QueueAssumption DEF IInv, Shape
<1>2. Len(entries) \in Nat /\ (entries = <<>> <=> Len(entries) = 0) /\ DOMAIN entries = 1 .. Len(entries)
  BY <1>1, CellsOf
<1>3. /\ Queue.base = base /\ Queue.elems = Elems(d, entries)
      /\ Queue.final = FinalSequenceLength /\ (IsFinalKnown(Queue) <=> isFinal)
      /\ \A n \in Int : n \in Present(Queue) <=>
            Position(n) \in front + 1 .. Len(entries) /\ entries[Position(n)] # Null
      /\ HasNext <=> HasNextElement(Queue)
      /\ CurrentLength(Queue) = CurrentSequenceLength
      /\ CurrentSequenceLength \in Nat /\ CurrentSequenceLength >= base
  BY QueueFacts
<1>4. TypeOK
  <2>1. \A k \in DOMAIN entries : entries[k] = Null \/ entries[k] \in Entries
    BY <1>1, <1>2, CellsOf
  <2>2. IF entries = <<>> THEN front = 0 ELSE front \in 0 .. Len(entries) - 1
    BY <1>1, <1>2
  <2> QED
    BY <1>1, <2>1, <2>2 DEF TypeOK
<1>5. TotalAvailableElementSize = Sum(Queue.elems, Queue.base .. CurrentLength(Queue) - 1)
  <2>1. CASE ~HasNext
    <3>1. CurrentSequenceLength = base /\ TotalAvailableElementSize = 0
      BY <1>1, <2>1 DEF CurrentSequenceLength, NumAvailableElements, TotalAvailableElementSize
    <3>2. base .. base - 1 = {}
      BY <1>1
    <3> QED
      BY <1>3, <3>1, <3>2, SumOfNone
  <2>2. CASE HasNext
    <3>1. entries # <<>> /\ entries[front + 1] # Null /\ d \in Int
      BY <1>1, <2>2 DEF HasNext, FrontEntry
    <3>2. PICK b \in front + 1 .. Len(entries) : IsRecorded(d, front, entries, front + 1, b)
      BY <1>1, <3>1, FirstSpan
    <3>3. /\ FrontEntry.count = b - (front + 1) + 1
          /\ FrontEntry.size = Sum(Elems(d, entries), Num(d, front + 1) .. Num(d, b))
      BY <3>2 DEF IsRecorded, FrontEntry
    <3>4. Num(d, front + 1) = base /\ Num(d, b) = base + (b - (front + 1) + 1) - 1
      BY <1>1, <1>2 DEF Num
    <3>5. CurrentSequenceLength = base + (b - (front + 1) + 1) /\ TotalAvailableElementSize = FrontEntry.size
      BY <2>2, <3>3 DEF CurrentSequenceLength, NumAvailableElements, TotalAvailableElementSize
    <3>6. CurrentLength(Queue) - 1 = Num(d, b)
      <4>1. CurrentLength(Queue) = base + (b - (front + 1) + 1)
        BY <1>3, <3>5
      <4> QED
        BY <1>1, <1>2, <4>1 DEF Num
    <3> HIDE DEF d
    <3> QED
      BY <1>3, <3>3, <3>4, <3>5, <3>6, Zenon
  <2> QED
    BY <2>1, <2>2
<1>6. ASSUME NEW n \in 0 .. MaxLength
      PROVE  /\ MayPush(n) <=> CanPush(Queue, n)
             /\ MaySkip(n) <=> CanSkip(Queue, n)
             /\ MaySetFinal(n) <=> CanSetFinal(Queue, n)
  <2>1. n \in Nat /\ n \in Int
    BY QueueAssumption
  <2>2. n >= base => (n \notin Present(Queue) <=> (Position(n) <= Len(entries) => entries[Position(n)] = Null))
    <3>1. n >= base => (Position(n) \in front + 1 .. Len(entries) <=> Position(n) <= Len(entries))
      BY <1>1, <1>2, <2>1 DEF Position
    <3> QED
      BY <1>3, <2>1, <3>1
  <2>3. MayPush(n) <=> CanPush(Queue, n)
    BY <1>3, <2>2 DEF MayPush, CanPush
  <2>4. MaySkip(n) <=> CanSkip(Queue, n)
    BY <1>3 DEF MaySkip, CanSkip
  <2>5. ASSUME ~isFinal
        PROVE  n - base >= Len(entries) - front <=>
                  n >= base /\ \A m \in Present(Queue) : m < n
    <3>1. ASSUME n - base >= Len(entries) - front, NEW m \in Present(Queue) PROVE m < n
      <4>1. m \in Int
        BY <1>1, NumbersOf, QueueFacts
      <4>2. Position(m) <= Len(entries)
        BY <1>2, <1>3, <3>1, <4>1
      <4> QED
        BY <1>1, <1>2, <2>1, <3>1, <4>1, <4>2 DEF Position
    <3>2. n - base >= Len(entries) - front => n >= base
      BY <1>1, <1>2, <2>1
    <3>3. ASSUME n >= base, \A m \in Present(Queue) : m < n
          PROVE  n - base >= Len(entries) - front
      <4>1. CASE entries = <<>>
        BY <1>1, <1>2, <2>1, <3>3, <4>1
      <4>2. CASE entries # <<>>
        <5> DEFINE m == base + Len(entries) - front - 1
        <5>1. m \in Int /\ Position(m) = Len(entries) /\ Len(entries) \in front + 1 .. Len(entries)
          BY <1>1, <1>2, <4>2 DEF Position
        <5>2. m \in Present(Queue)
          BY <1>1, <1>3, <2>5, <4>2, <5>1
        <5>3. m < n
          BY <3>3, <5>2
        <5> QED
          BY <1>1, <1>2, <2>1, <5>3
      <4> QED
        BY <4>1, <4>2
    <3> QED
      BY <3>1, <3>2, <3>3
  <2>6. MaySetFinal(n) <=> CanSetFinal(Queue, n)
    BY <1>3, <2>5 DEF MaySetFinal, CanSetFinal
  <2> QED
    BY <2>3, <2>4, <2>6
<1> QED
  BY <1>3, <1>4, <1>5, <1>6 DEF AnswersAgree, Sum

----------------------------------------------------------------------------
(* Every operation keeps the storage in order, and has the effect on the
   queue that ParcelQueue defines *)

\* Every step which calls ResetStorage() keeps the storage in order.
LEMMA ResetIsSound ==
    ASSUME entries' = <<>>, front' = 0, base' \in 0 .. MaxLength, isFinal' \in BOOLEAN
    PROVE  IInv' /\ Queue' = QueueOf(base', 0, <<>>, isFinal')
<1>1. base' \in Nat /\ base' - 0 \in Int
  BY QueueAssumption
<1>2. Shape(0, <<>>) /\ Spans(base' - 0, 0, <<>>) /\ Bounded(base' - 0, <<>>)
  BY <1>1, EmptyStorage
<1>3. IInv'
  BY <1>1, <1>2 DEF IInv
<1>4. Queue' = QueueOf(base', 0, <<>>, isFinal')
  BY <1>1, <1>2, QueueIs
<1> QED
  BY <1>3, <1>4

\* PushElement(): the element is added to the queue, if it may be.
LEMMA PushStep ==
    ASSUME IInv, NEW n \in 0 .. MaxLength - 1, NEW x \in Sizes, PushElement(n, x)
    PROVE  IInv' /\ CanPush(Queue, n) /\ Queue' = Push(Queue, n, x)
<1> DEFINE d == base - front
           p == Position(n)
           room == IF p > Len(entries) THEN Resize(entries, p) ELSE entries
           new == PlaceNewEntry(room, n, x)
<1>1. /\ base \in Nat /\ base \in 0 .. MaxLength /\ front \in Nat /\ entries \in Seq(Cells)
      /\ isFinal \in BOOLEAN
      /\ IF entries = <<>> THEN front = 0 ELSE front < Len(entries)
      /\ \A k \in 1 .. front : entries[k] = Null
      /\ Spans(d, front, entries) /\ Bounded(d, entries)
      /\ ~isFinal /\ entries # <<>> => entries[Len(entries)] # Null
  BY QueueAssumption DEF IInv, Shape
<1>2. /\ Len(entries) \in Nat /\ d \in Int /\ n \in Nat /\ n < MaxLength
      /\ (entries = <<>> <=> Len(entries) = 0) /\ front <= Len(entries)
  BY <1>1, CellsOf, QueueAssumption
<1>3. /\ n >= base /\ (p <= Len(entries) => entries[p] = Null)
      /\ isFinal => n < base + (Len(entries) - front)
  BY DEF PushElement, MayPush, FinalSequenceLength
<1>4. /\ entries' = new /\ base' = base /\ front' = front /\ isFinal' = isFinal
  BY DEF PushElement
<1>5. p \in Nat /\ p >= front + 1 /\ Num(d, p) = n /\ (isFinal => p <= Len(entries))
  BY <1>1, <1>2, <1>3 DEF Position, Num
<1> HIDE DEF d, p
<1>6. /\ room \in Seq(Cells) /\ Len(room) \in Nat /\ p \in front + 1 .. Len(room) /\ room[p] = Null
      /\ Len(room) = IF p > Len(entries) THEN p ELSE Len(entries)
      /\ \A k \in 1 .. Len(room) : room[k] = IF k <= Len(entries) THEN entries[k] ELSE Null
  <2>1. CASE p > Len(entries)
    <3>1. /\ room \in Seq(Cells) /\ Len(room) = p
          /\ \A k \in 1 .. p : room[k] = IF k <= Len(entries) THEN entries[k] ELSE Null
      BY <1>1, <1>5, <2>1, Resized
    <3> HIDE DEF room
    <3> QED
      BY <1>1, <1>2, <1>5, <2>1, <3>1
  <2>2. CASE ~(p > Len(entries))
    BY <1>1, <1>2, <1>3, <1>5, <2>2
  <2> QED
    BY <2>1, <2>2
<1>7. /\ Numbers(d, room) = Numbers(d, entries) /\ Elems(d, room) = Elems(d, entries)
      /\ Spans(d, front, room)
  <2>1. CASE p > Len(entries)
    <3>1. Len(entries) <= p
      BY <1>2, <1>5, <2>1
    <3> QED
      BY <1>1, <1>2, <1>5, <2>1, <3>1, Padded
  <2>2. CASE ~(p > Len(entries))
    BY <1>1, <2>2
  <2> QED
    BY <2>1, <2>2
<1> HIDE DEF room
<1>8. MayPlace(room, n, x)
  <2>1. \A k \in 1 .. front : room[k] = Null
    BY <1>1, <1>2, <1>6
  <2> QED
    BY <1>1, <1>2, <1>6, <1>7, <2>1 DEF MayPlace, p, d
<1>9. PICK a, b \in Int : Joins(front, room, p, a, b)
  BY <1>8, SomethingJoins DEF MayPlace, p
<1>10. /\ new \in Seq(Cells) /\ Len(new) = Len(room) /\ new[p] # Null
       /\ \A k \in 1 .. Len(room) : k # p => (new[k] = Null <=> room[k] = Null)
  BY <1>8, <1>9, Placed DEF p
<1>11. Spans(d, front, new)
  BY <1>8, PlacedSpans DEF d
<1>12. /\ Numbers(d, new) = Numbers(d, entries) \cup {n}
       /\ Elems(d, new) = [m \in Numbers(d, entries) \cup {n} |-> IF m = n THEN x ELSE Elems(d, entries)[m]]
  BY <1>7, <1>8, PlacedElements DEF d
<1> HIDE DEF new
<1>13. Shape(front, new)
  <2>1. front < Len(new) /\ (new = <<>> <=> Len(new) = 0)
    BY <1>1, <1>6, <1>10, CellsOf
  <2>2. \A k \in 1 .. front : k # p /\ k \in 1 .. Len(room) /\ room[k] = Null
    BY <1>1, <1>2, <1>5, <1>6
  <2>3. \A k \in 1 .. front : new[k] = Null
    BY <1>10, <2>2
  <2> QED
    BY <1>1, <1>10, <2>1, <2>3 DEF Shape
<1>14. Bounded(d, new)
  <2> SUFFICES ASSUME NEW k \in 1 .. Len(new), new[k] # Null PROVE Num(d, k) < MaxLength
    BY DEF Bounded
  <2>1. CASE k = p
    BY <1>2, <1>5, <2>1
  <2>2. CASE k # p
    <3>1. room[k] # Null /\ k <= Len(entries) /\ entries[k] # Null /\ k \in 1 .. Len(entries)
      BY <1>2, <1>6, <1>10, <2>2
    <3> QED
      BY <1>1, <3>1 DEF Bounded
  <2> QED
    BY <2>1, <2>2
<1>15. ~isFinal => new[Len(new)] # Null
  <2> SUFFICES ASSUME ~isFinal PROVE new[Len(new)] # Null
    OBVIOUS
  <2>1. CASE p > Len(entries)
    BY <1>6, <1>10, <2>1
  <2>2. CASE ~(p > Len(entries))
    <3>1. Len(room) = Len(entries) /\ Len(room) \in 1 .. Len(room) /\ entries # <<>>
      BY <1>1, <1>2, <1>5, <1>6, <2>2
    <3>2. room[Len(room)] = entries[Len(entries)] /\ entries[Len(entries)] # Null
      BY <1>1, <1>2, <1>6, <3>1
    <3> QED
      BY <1>10, <3>1, <3>2
  <2> QED
    BY <2>1, <2>2
<1>16. IInv'
  BY <1>1, <1>4, <1>11, <1>13, <1>14, <1>15 DEF IInv, d
<1>17. CanPush(Queue, n)
  <2>1. n \in 0 .. MaxLength
    BY <1>2, QueueAssumption
  <2> QED
    BY <2>1, Answers DEF AnswersAgree, PushElement
<1>18. Queue' = QueueOf(base, front, new, isFinal)
  BY <1>1, <1>4, <1>13, QueueIs
<1>19. Queue = QueueOf(base, front, entries, isFinal)
  BY QueueFacts
<1>20. isFinal => Len(new) = Len(entries)
  BY <1>2, <1>5, <1>6, <1>10
<1>21. QueueOf(base, front, new, isFinal).final = QueueOf(base, front, entries, isFinal).final
  BY <1>20 DEF QueueOf
<1>22. Present(Queue) = Numbers(d, entries) /\ Queue.elems = Elems(d, entries)
  BY QueueFacts DEF d
<1>23. Queue' = Push(Queue, n, x)
  BY <1>12, <1>18, <1>19, <1>21, <1>22 DEF QueueOf, Push, d
<1> QED
  BY <1>16, <1>17, <1>23

AQueue(b, E, final) == [base |-> b, elems |-> E, final |-> final]
Without(E, S) == [m \in DOMAIN E \ S |-> E[m]]

\* Pop() on the queue, spelled out.
LEMMA PopIs ==
    ASSUME NEW b \in Nat, NEW E, NEW final
    PROVE  Pop(AQueue(b, E, final)) = AQueue(b + 1, Without(E, {b}), final)
<1> DEFINE q == AQueue(b, E, final)
           n == q.base + 1
           F == [m \in Present(q) \ (q.base .. n - 1) |-> q.elems[m]]
           r == PopTo(q, n)
<1>1. q = [base |-> b, elems |-> E, final |-> final]
  BY DEF AQueue
<1>2. q.base = b /\ q.elems = E /\ Present(q) = DOMAIN E
  BY DEF AQueue, Present
<1>3. n = b + 1 /\ b .. n - 1 = {b}
  BY <1>2
<1>4. Pop(q) = r
  BY DEF Pop
<1> HIDE DEF q, n
<1>5. r = [q EXCEPT !.base = n, !.elems = F]
  BY DEF PopTo
<1>6. F = Without(E, {b})
  BY <1>2, <1>3 DEF Without
<1> HIDE DEF F, r
<1>7. r = [base |-> n, elems |-> F, final |-> final]
  BY <1>1, <1>5
<1> QED
  BY <1>3, <1>4, <1>6, <1>7 DEF q, AQueue

\* PopElement(): the first element is taken away, and the base advances.
LEMMA PopStep ==
    ASSUME IInv, PopElement
    PROVE  IInv' /\ HasNextElement(Queue) /\ Queue' = Pop(Queue)
<1> DEFINE d == base - front
<1>1. /\ base \in Nat /\ base \in 0 .. MaxLength /\ front \in Nat /\ entries \in Seq(Cells)
      /\ isFinal \in BOOLEAN
      /\ IF entries = <<>> THEN front = 0 ELSE front < Len(entries)
      /\ \A k \in 1 .. front : entries[k] = Null
      /\ Shape(front, entries) /\ Spans(d, front, entries) /\ Bounded(d, entries)
      /\ ~isFinal /\ entries # <<>> => entries[Len(entries)] # Null
  BY QueueAssumption DEF IInv, Shape
<1>2. Len(entries) \in Nat /\ d \in Int /\ (entries = <<>> <=> Len(entries) = 0)
  BY <1>1, CellsOf
<1>3. /\ entries # <<>> /\ entries[front + 1] # Null /\ front + 1 \in 1 .. Len(entries)
      /\ base' = base + 1 /\ isFinal' = isFinal
  BY <1>1, <1>2 DEF PopElement, HasNext, FrontEntry
<1>4. base + 1 \in 0 .. MaxLength /\ base + 1 \in Nat
  <2>1. Num(d, front + 1) < MaxLength
    BY <1>1, <1>3 DEF Bounded
  <2> QED
    BY <1>1, <2>1, QueueAssumption DEF Num
<1>5. HasNextElement(Queue)
  BY QueueFacts DEF PopElement
<1>6. Queue = QueueOf(base, front, entries, isFinal) /\ Present(Queue) = Numbers(d, entries)
  BY QueueFacts
<1>7. Pop(Queue) = [base  |-> base + 1,
                    elems |-> [m \in Numbers(d, entries) \ {base} |-> Elems(d, entries)[m]],
                    final |-> IF isFinal THEN base + (Len(entries) - front) ELSE Unknown]
  <2> DEFINE E == Elems(d, entries)
             final == IF isFinal THEN base + (Len(entries) - front) ELSE Unknown
  <2>1. Queue = AQueue(base, E, final)
    BY <1>6 DEF QueueOf, AQueue
  <2>2. DOMAIN E = Numbers(d, entries)
    BY DEF Elems
  <2> HIDE DEF E, final, d
  <2>3. Pop(Queue) = AQueue(base + 1, Without(E, {base}), final)
    BY <1>1, <2>1, PopIs
  <2> QED
    BY <2>2, <2>3 DEF E, final, Without, AQueue
<1>8. CASE front < Len(entries) - 1
  <2> DEFINE new == PoppedEntries
  <2>1. entries' = new /\ front' = front + 1
    BY <1>8 DEF PopElement
  <2>2. PICK b \in front + 1 .. Len(entries) : IsSpan(front, entries, front + 1, b)
    BY <1>1, <1>2, <1>3, FirstSpan
  <2>3. MayPop(b)
    <3>1. front + 2 <= Len(entries)
      BY <1>1, <1>2, <1>8
    <3> QED
      BY <1>1, <2>2, <3>1 DEF MayPop
  <2>4. /\ new \in Seq(Cells) /\ Len(new) = Len(entries) /\ new[front + 1] = Null
        /\ \A k \in 1 .. Len(entries) : k # front + 1 => (new[k] = Null <=> entries[k] = Null)
    BY <2>3, Popped
  <2>5. Spans(d, front + 1, new)
    BY <2>3, PoppedSpans
  <2>6. Elems(d, new) = [m \in Numbers(d, entries) \ {base} |-> Elems(d, entries)[m]]
    BY <2>3, PoppedElements
  <2>7. (base + 1) - (front + 1) = d
    BY <1>1
  <2> HIDE DEF new, d
  <2>8. Shape(front + 1, new)
    <3>1. front + 1 \in Nat /\ front + 1 < Len(new) /\ (new = <<>> <=> Len(new) = 0)
      BY <1>1, <1>2, <1>8, <2>4, CellsOf
    <3>2. \A k \in 1 .. front + 1 : new[k] = Null
      <4> SUFFICES ASSUME NEW k \in 1 .. front + 1 PROVE new[k] = Null
        OBVIOUS
      <4>1. k \in 1 .. Len(entries) /\ (k # front + 1 => k \in 1 .. front)
        BY <1>1, <1>2, <1>8
      <4> QED
        BY <1>1, <2>4, <4>1
    <3> QED
      BY <2>4, <3>1, <3>2 DEF Shape
  <2>9. Bounded(d, new)
    <3> SUFFICES ASSUME NEW k \in 1 .. Len(new), new[k] # Null PROVE Num(d, k) < MaxLength
      BY DEF Bounded
    <3> QED
      BY <1>1, <2>4 DEF Bounded
  <2>10. ~isFinal => new[Len(new)] # Null
    <3>1. Len(entries) \in 1 .. Len(entries) /\ Len(entries) # front + 1
      BY <1>1, <1>2, <1>8
    <3> QED
      BY <1>1, <1>3, <2>4, <3>1
  <2>11. IInv'
    BY <1>1, <1>3, <1>4, <2>1, <2>5, <2>7, <2>8, <2>9, <2>10 DEF IInv
  <2>12. Queue' = QueueOf(base + 1, front + 1, new, isFinal)
    BY <1>3, <1>4, <2>1, <2>8, QueueIs
  <2>13. (base + 1) + (Len(new) - (front + 1)) = base + (Len(entries) - front)
    BY <1>1, <1>2, <2>4
  <2> QED
    BY <1>5, <1>7, <2>6, <2>7, <2>11, <2>12, <2>13 DEF QueueOf
<1>9. CASE ~(front < Len(entries) - 1)
  <2>1. entries' = <<>> /\ front' = 0 /\ Len(entries) = front + 1
    BY <1>1, <1>2, <1>3, <1>9 DEF PopElement, ResetStorage
  <2>2. IInv' /\ Queue' = QueueOf(base + 1, 0, <<>>, isFinal)
    BY <1>1, <1>3, <1>4, <2>1, ResetIsSound
  <2>3. Numbers(d, entries) \ {base} = {}
    <3>1. \A n \in Int : n \in Numbers(d, entries) <=>
             n - d + 1 \in 1 .. Len(entries) /\ entries[n - d + 1] # Null
      BY <1>1, <1>2, NumbersOf
    <3>2. Numbers(d, entries) \subseteq Int
      BY <1>1, <1>2, NumbersOf
    <3>3. ASSUME NEW n \in Numbers(d, entries) PROVE n = base
      <4>1. n \in Int /\ n - d + 1 \in 1 .. front + 1 /\ entries[n - d + 1] # Null
        BY <2>1, <3>1, <3>2
      <4>2. n - d + 1 = front + 1
        BY <1>1, <1>2, <4>1
      <4> QED
        BY <1>1, <4>1, <4>2
    <3> QED
      BY <3>3
  <2>4. QueueOf(base + 1, 0, <<>>, isFinal).elems = [m \in Numbers(d, entries) \ {base} |-> Elems(d, entries)[m]]
    <3>1. (base + 1) - 0 \in Int
      BY <1>4
    <3>2. Elems((base + 1) - 0, <<>>) = [m \in {} |-> m]
      BY <3>1, EmptyStorage
    <3>3. [m \in {} |-> Elems(d, entries)[m]] = [m \in {} |-> m]
      OBVIOUS
    <3> QED
      BY <2>3, <3>2, <3>3 DEF QueueOf
  <2>5. base + 1 + (0 - 0) = base + (Len(entries) - front)
    BY <1>1, <1>2, <2>1
  <2> QED
    BY <1>5, <1>7, <2>2, <2>4, <2>5, EmptyStorage DEF QueueOf
<1> QED
  BY <1>8, <1>9

\* SkipElement(): the base advances over a missing element.
LEMMA SkipStep ==
    ASSUME IInv, NEW n \in 0 .. MaxLength - 1, SkipElement(n)
    PROVE  IInv' /\ CanSkip(Queue, base) /\ Queue' = Skip(Queue)
<1> DEFINE d == base - front
<1>1. /\ base \in Nat /\ base \in 0 .. MaxLength /\ front \in Nat /\ entries \in Seq(Cells)
      /\ isFinal \in BOOLEAN
      /\ IF entries = <<>> THEN front = 0 ELSE front < Len(entries)
      /\ \A k \in 1 .. front : entries[k] = Null
      /\ Shape(front, entries) /\ Spans(d, front, entries) /\ Bounded(d, entries)
      /\ ~isFinal /\ entries # <<>> => entries[Len(entries)] # Null
  BY QueueAssumption DEF IInv, Shape
<1>2. Len(entries) \in Nat /\ d \in Int /\ (entries = <<>> <=> Len(entries) = 0)
  BY <1>1, CellsOf
<1>3. /\ n = base /\ base' = base + 1 /\ isFinal' = isFinal
      /\ entries # <<>> => entries[front + 1] = Null
      /\ isFinal => base < base + (Len(entries) - front)
  BY DEF SkipElement, MaySkip, HasNext, FrontEntry, FinalSequenceLength
<1>4. base + 1 \in 0 .. MaxLength /\ base + 1 \in Nat
  BY <1>1, <1>3, QueueAssumption
<1>5. CanSkip(Queue, base)
  BY <1>1, <1>3, Answers DEF AnswersAgree, SkipElement
<1>6. Queue = QueueOf(base, front, entries, isFinal)
  BY QueueFacts
<1>7. Skip(Queue) = [base |-> base + 1, elems |-> Elems(d, entries),
                     final |-> IF isFinal THEN base + (Len(entries) - front) ELSE Unknown]
  BY <1>6 DEF Skip, QueueOf
<1>8. \A m \in Numbers(d, entries) : m - d + 1 \in front + 1 .. Len(entries) /\ entries[m - d + 1] # Null
  <2> SUFFICES ASSUME NEW m \in Numbers(d, entries)
               PROVE  m - d + 1 \in front + 1 .. Len(entries) /\ entries[m - d + 1] # Null
    OBVIOUS
  <2>1. m \in Int /\ m - d + 1 \in 1 .. Len(entries) /\ entries[m - d + 1] # Null
    BY <1>1, <1>2, NumbersOf
  <2> QED
    BY <1>1, <1>2, <2>1
<1>9. CASE entries = <<>> \/ front + 1 = Len(entries)
  <2>1. entries' = <<>> /\ front' = 0
    BY <1>1, <1>9 DEF SkipElement, ResetStorage
  <2>2. IInv' /\ Queue' = QueueOf(base + 1, 0, <<>>, isFinal)
    BY <1>1, <1>3, <1>4, <2>1, ResetIsSound
  <2>3. Numbers(d, entries) = {}
    BY <1>1, <1>2, <1>3, <1>8, <1>9
  <2>4. Elems(d, entries) = [m \in {} |-> m]
    <3>1. Elems(d, entries) = [m \in {} |-> entries[m - d + 1].element]
      BY <2>3 DEF Elems
    <3> QED
      BY <3>1
  <2>5. (base + 1) - 0 \in Int
    BY <1>4
  <2>6. Elems((base + 1) - 0, <<>>) = [m \in {} |-> m] /\ Len(<<>>) = 0
    BY <2>5, EmptyStorage
  <2>7. isFinal => (base + 1) + (0 - 0) = base + (Len(entries) - front)
    BY <1>1, <1>2, <1>3, <1>9
  <2> QED
    BY <1>5, <1>7, <2>2, <2>4, <2>6, <2>7 DEF QueueOf
<1>10. CASE ~(entries = <<>> \/ front + 1 = Len(entries))
  <2>1. entries' = entries /\ front' = front + 1
    BY <1>10 DEF SkipElement
  <2>2. (base + 1) - (front + 1) = d
    BY <1>1
  <2>3. Spans(d, front + 1, entries)
    <3>1. front + 1 <= Len(entries) /\ entries[front + 1] = Null
      BY <1>1, <1>2, <1>3, <1>10
    <3> QED
      BY <1>1, <1>2, <3>1, SkippedSpans
  <2>4. Shape(front + 1, entries)
    <3>1. front + 1 \in Nat /\ front + 1 < Len(entries)
      BY <1>1, <1>2, <1>10
    <3>2. \A k \in 1 .. front + 1 : entries[k] = Null
      BY <1>1, <1>3, <1>10
    <3> QED
      BY <1>1, <1>10, <3>1, <3>2 DEF Shape
  <2> HIDE DEF d
  <2>5. IInv'
    BY <1>1, <1>3, <1>4, <2>1, <2>2, <2>3, <2>4 DEF IInv
  <2>6. Queue' = QueueOf(base + 1, front + 1, entries, isFinal)
    BY <1>3, <1>4, <2>1, <2>4, QueueIs
  <2>7. (base + 1) + (Len(entries) - (front + 1)) = base + (Len(entries) - front)
    BY <1>1, <1>2
  <2> QED
    BY <1>5, <1>7, <2>2, <2>5, <2>6, <2>7 DEF QueueOf
<1> QED
  BY <1>9, <1>10

\* SetFinalSequenceLength(): only the final length changes.
LEMMA SetFinalStep ==
    ASSUME IInv, NEW n \in 0 .. MaxLength, SetFinalSequenceLength(n)
    PROVE  IInv' /\ CanSetFinal(Queue, n) /\ Queue' = SetFinal(Queue, n)
<1> DEFINE d == base - front
           len == front + (n - base)
           new == Resize(entries, len)
<1>1. /\ base \in Nat /\ base \in 0 .. MaxLength /\ front \in Nat /\ entries \in Seq(Cells)
      /\ IF entries = <<>> THEN front = 0 ELSE front < Len(entries)
      /\ \A k \in 1 .. front : entries[k] = Null
      /\ Shape(front, entries) /\ Spans(d, front, entries) /\ Bounded(d, entries)
  BY QueueAssumption DEF IInv, Shape
<1>2. Len(entries) \in Nat /\ d \in Int /\ n \in Nat /\ (entries = <<>> <=> Len(entries) = 0)
  BY <1>1, CellsOf, QueueAssumption
<1>3. /\ n - base >= Len(entries) - front
      /\ entries' = new /\ base' = base /\ front' = front /\ isFinal' = TRUE
  BY DEF SetFinalSequenceLength, MaySetFinal
<1>4. len \in Nat /\ Len(entries) <= len /\ base + (len - front) = n
  BY <1>1, <1>2, <1>3
<1> HIDE DEF d, len
<1>5. /\ new \in Seq(Cells) /\ Len(new) = len
      /\ \A k \in 1 .. len : new[k] = IF k <= Len(entries) THEN entries[k] ELSE Null
  BY <1>1, <1>4, Resized
<1>6. Elems(d, new) = Elems(d, entries) /\ Spans(d, front, new)
  BY <1>1, <1>2, <1>4, Padded
<1> HIDE DEF new
<1>7. Shape(front, new)
  <2>1. IF new = <<>> THEN front = 0 ELSE front < Len(new)
    BY <1>1, <1>2, <1>4, <1>5, CellsOf
  <2>2. \A k \in 1 .. front : k \in 1 .. len /\ new[k] = entries[k]
    BY <1>1, <1>2, <1>4, <1>5
  <2> QED
    BY <1>1, <1>5, <2>1, <2>2 DEF Shape
<1>8. Bounded(d, new)
  <2> SUFFICES ASSUME NEW k \in 1 .. Len(new), new[k] # Null PROVE Num(d, k) < MaxLength
    BY DEF Bounded
  <2>1. k \in 1 .. Len(entries) /\ entries[k] # Null
    BY <1>2, <1>4, <1>5
  <2> QED
    BY <1>1, <2>1 DEF Bounded
<1>9. IInv'
  BY <1>1, <1>3, <1>6, <1>7, <1>8 DEF IInv, d
<1>10. CanSetFinal(Queue, n)
  BY Answers DEF AnswersAgree, SetFinalSequenceLength
<1>11. Queue' = QueueOf(base, front, new, TRUE)
  BY <1>1, <1>3, <1>7, QueueIs
<1>12. Queue = QueueOf(base, front, entries, isFinal)
  BY QueueFacts
<1>13. Queue' = SetFinal(Queue, n)
  BY <1>4, <1>5, <1>6, <1>11, <1>12 DEF QueueOf, SetFinal, d
<1> QED
  BY <1>9, <1>10, <1>13

\* ForceTerminateSequence(): the sequence ends after the elements available now.
LEMMA TerminateStep ==
    ASSUME IInv, ForceTerminateSequence
    PROVE  IInv' /\ Queue' = ForceTerminate(Queue)
<1> DEFINE d == base - front
<1>1. /\ base \in Nat /\ base \in 0 .. MaxLength /\ front \in Nat /\ entries \in Seq(Cells)
      /\ IF entries = <<>> THEN front = 0 ELSE front < Len(entries)
      /\ \A k \in 1 .. front : entries[k] = Null
      /\ Shape(front, entries) /\ Spans(d, front, entries) /\ Bounded(d, entries)
  BY QueueAssumption DEF IInv, Shape
<1>2. Len(entries) \in Nat /\ d \in Int /\ (entries = <<>> <=> Len(entries) = 0)
  BY <1>1, CellsOf
<1>3. base' = base /\ isFinal' = TRUE
  BY DEF ForceTerminateSequence
<1>4. Queue = QueueOf(base, front, entries, isFinal) /\ CurrentLength(Queue) = base + NumAvailableElements
  BY QueueFacts DEF CurrentSequenceLength
<1> DEFINE len == base + NumAvailableElements
<1>5. ForceTerminate(Queue) =
         [base |-> base, elems |-> [m \in base .. len - 1 |-> Elems(d, entries)[m]], final |-> len]
  <2> DEFINE E == Elems(d, entries)
             q == Queue
             final == q.final
             F == [m \in q.base .. len - 1 |-> q.elems[m]]
             r == ForceTerminate(q)
  <2>1. q.base = base /\ q.elems = E /\ CurrentLength(q) = len
    BY <1>4 DEF QueueOf
  <2>2. q = [base |-> base, elems |-> E, final |-> final]
    BY <1>4 DEF QueueOf
  <2> HIDE DEF q, E, len, final
  <2>3. r = [q EXCEPT !.final = len, !.elems = F]
    BY <2>1 DEF ForceTerminate
  <2>4. F = [m \in base .. len - 1 |-> E[m]]
    BY <2>1
  <2> HIDE DEF F, r
  <2>5. r = [base |-> base, elems |-> F, final |-> len]
    BY <2>2, <2>3
  <2> QED
    BY <2>4, <2>5 DEF r, q, E
<1> HIDE DEF len
<1>6. CASE NumAvailableElements = 0
  <2>1. entries' = <<>> /\ front' = 0
    BY <1>6 DEF ForceTerminateSequence, ResetStorage
  <2>2. IInv' /\ Queue' = QueueOf(base, 0, <<>>, TRUE)
    BY <1>1, <1>3, <2>1, ResetIsSound
  <2>3. len = base /\ base .. base - 1 = {} /\ base - 0 = base /\ base + (0 - 0) = base
    BY <1>1, <1>6 DEF len
  <2>4. Elems(base, <<>>) = [m \in {} |-> m] /\ Len(<<>>) = 0
    BY <1>1, EmptyStorage
  <2>5. ForceTerminate(Queue) =
           [base |-> base, elems |-> [m \in base .. base - 1 |-> Elems(d, entries)[m]], final |-> base]
    BY <1>5, <2>3
  <2>6. [m \in base .. base - 1 |-> Elems(d, entries)[m]] = [m \in {} |-> m]
    BY <2>3
  <2> QED
    BY <2>2, <2>3, <2>4, <2>5, <2>6 DEF QueueOf
<1>7. CASE NumAvailableElements # 0
  <2>1. HasNext /\ NumAvailableElements = FrontEntry.count
    BY <1>7 DEF NumAvailableElements
  <2>2. entries # <<>> /\ entries[front + 1] # Null
    BY <2>1 DEF HasNext, FrontEntry
  <2>3. PICK b \in front + 1 .. Len(entries) :
           IsSpan(front, entries, front + 1, b) /\ IsRecorded(d, front, entries, front + 1, b)
    BY <1>1, <1>2, <2>2, FirstSpan
  <2>4. NumAvailableElements = b - (front + 1) + 1
    BY <2>1, <2>3 DEF IsRecorded, FrontEntry
  <2>5. front + NumAvailableElements = b /\ len = base + (b - front) /\ b \in Nat
    BY <1>1, <1>2, <2>4 DEF len
  <2> DEFINE new == Resize(entries, b)
  <2>6. entries' = new /\ front' = front
    BY <1>7, <2>5 DEF ForceTerminateSequence
  <2>7. /\ new \in Seq(Cells) /\ Len(new) = b
        /\ \A k \in 1 .. b : new[k] = IF k <= Len(entries) THEN entries[k] ELSE Null
    BY <1>1, <2>5, Resized
  <2> HIDE DEF d
  <2>8. /\ Elems(d, new) = Restrict(Elems(d, entries), Num(d, front + 1) .. Num(d, b))
        /\ Spans(d, front, new)
    BY <1>1, <1>2, <2>3, Truncated
  <2> HIDE DEF new
  <2>9. \A k \in 1 .. b : new[k] = entries[k] /\ k \in 1 .. Len(entries)
    BY <1>2, <2>5, <2>7
  <2>10. Shape(front, new)
    <3>1. front < Len(new) /\ (new = <<>> <=> Len(new) = 0)
      BY <1>1, <1>2, <2>7, CellsOf
    <3>2. \A k \in 1 .. front : new[k] = Null
      BY <1>1, <1>2, <2>5, <2>9
    <3> QED
      BY <1>1, <2>7, <3>1, <3>2 DEF Shape
  <2>11. Bounded(d, new)
    BY <1>1, <2>7, <2>9 DEF Bounded
  <2>12. IInv'
    BY <1>1, <1>3, <2>6, <2>8, <2>10, <2>11 DEF IInv, d
  <2>13. Queue' = QueueOf(base, front, new, TRUE)
    BY <1>1, <1>3, <2>6, <2>10, QueueIs
  <2>14. Num(d, front + 1) = base /\ Num(d, b) = len - 1 /\ base + (b - front) = len
    BY <1>1, <2>5 DEF Num, d
  <2> QED
    BY <1>5, <2>7, <2>8, <2>12, <2>13, <2>14 DEF QueueOf, Restrict, d
<1> QED
  BY <1>6, <1>7

\* ResetSequence(): a queue without elements starts anew.
LEMMA ResetStep ==
    ASSUME IInv, NEW n \in 0 .. MaxLength, ResetSequence(n)
    PROVE  IInv' /\ Present(Queue) = {} /\ Queue' = NewQueue(n)
<1>1. entries = <<>> /\ base' = n /\ isFinal' = FALSE /\ entries' = <<>> /\ front' = 0
  BY DEF ResetSequence, ResetStorage
<1>2. IInv' /\ Queue' = QueueOf(n, 0, <<>>, FALSE)
  BY <1>1, ResetIsSound
<1>3. base - front \in Int /\ n - 0 \in Int
  BY QueueAssumption DEF IInv, Shape
<1>4. Present(Queue) = {}
  BY <1>1, <1>3, QueueFacts, EmptyStorage
<1>5. Elems(n - 0, <<>>) = <<>>
  BY <1>3, EmptyStorage, NoElements DEF Shape
<1> QED
  BY <1>2, <1>4, <1>5 DEF QueueOf, NewQueue

----------------------------------------------------------------------------
(* The theorems *)

\* A new queue has no storage.
LEMMA InitIsSound ==
    Init => IInv /\ Queue = NewQueue(0)
<1> SUFFICES ASSUME Init PROVE IInv /\ Queue = NewQueue(0)
  OBVIOUS
<1>1. base = 0 /\ entries = <<>> /\ front = 0 /\ isFinal = FALSE /\ 0 - 0 = 0 /\ 0 \in 0 .. MaxLength
  BY QueueAssumption DEF Init
<1>2. Shape(0, <<>>) /\ Spans(0, 0, <<>>) /\ Bounded(0, <<>>) /\ Numbers(0, <<>>) = {}
  BY EmptyStorage
<1>3. IInv
  BY <1>1, <1>2 DEF IInv
<1>4. Queue = QueueOf(0, 0, <<>>, FALSE)
  BY <1>1, <1>3, QueueFacts
<1>5. Elems(0, <<>>) = <<>>
  <2>1. <<>> \in Seq(Cells) /\ 0 \in Int
    BY EmptySeq
  <2> QED
    BY <1>2, <2>1, NoElements
<1> QED
  BY <1>1, <1>3, <1>4, <1>5 DEF QueueOf, NewQueue

\* What a step of the storage does to the queue it represents.
QueueStep ==
    \/ \E n \in 0 .. MaxLength, x \in Sizes : CanPush(Queue, n) /\ Queue' = Push(Queue, n, x)
    \/ HasNextElement(Queue) /\ Queue' = Pop(Queue)
    \/ CanSkip(Queue, base) /\ Queue' = Skip(Queue)
    \/ \E n \in 0 .. MaxLength : CanSetFinal(Queue, n) /\ Queue' = SetFinal(Queue, n)
    \/ Queue' = ForceTerminate(Queue)
    \/ \E n \in 0 .. MaxLength : Present(Queue) = {} /\ Queue' = NewQueue(n)

\* Every operation keeps the storage in order, and is an operation on the queue.
LEMMA NextIsSound ==
    IInv /\ [Next]_vars => IInv' /\ [QueueStep]_Queue
<1> SUFFICES ASSUME IInv, [Next]_vars PROVE IInv' /\ [QueueStep]_Queue
  OBVIOUS
<1>1. ASSUME NEW n \in 0 .. MaxLength - 1, NEW x \in Sizes, PushElement(n, x)
      PROVE  IInv' /\ QueueStep
  <2>1. n \in 0 .. MaxLength
    BY QueueAssumption
  <2> QED
    BY <1>1, <2>1, PushStep DEF QueueStep
<1>2. ASSUME NEW n \in 0 .. MaxLength - 1, SkipElement(n) PROVE IInv' /\ QueueStep
  BY <1>2, SkipStep DEF QueueStep
<1>3. ASSUME PopElement PROVE IInv' /\ QueueStep
  BY <1>3, PopStep DEF QueueStep
<1>4. ASSUME NEW n \in 0 .. MaxLength, SetFinalSequenceLength(n) PROVE IInv' /\ QueueStep
  BY <1>4, SetFinalStep DEF QueueStep
<1>5. ASSUME NEW n \in 0 .. MaxLength, ResetSequence(n) PROVE IInv' /\ QueueStep
  BY <1>5, ResetStep DEF QueueStep
<1>6. ASSUME ForceTerminateSequence PROVE IInv' /\ QueueStep
  BY <1>6, TerminateStep DEF QueueStep
<1>7. ASSUME UNCHANGED vars PROVE IInv' /\ Queue' = Queue
  <2>1. base' = base /\ entries' = entries /\ front' = front /\ isFinal' = isFinal
    BY <1>7 DEF vars
  <2>2. IInv'
    BY <2>1 DEF IInv
  <2>3. Queue' = Queue
    BY <2>1 DEF Queue, Position, FinalSequenceLength
  <2> QED
    BY <2>2, <2>3
<1> QED
  BY <1>1, <1>2, <1>3, <1>4, <1>5, <1>6, <1>7 DEF Next

\* Whatever is pushed, popped and skipped, in whatever order, the storage of the
\* queue is in order.
THEOREM StorageStaysInOrder == Spec => []IInv
BY InitIsSound, NextIsSound, PTL DEF Spec

\* The counts and sizes that the ends of spans carry answer every question, and
\* decide on every operation, as the elements that are present would.
THEOREM QuestionsAreAnswered == Spec => []AnswersAgree
<1>1. IInv => AnswersAgree
  BY Answers
<1> QED
  BY <1>1, StorageStaysInOrder, PTL

\* Every operation of SequencedQueue is the operation of ParcelQueue that the
\* routers rely on.
THEOREM StorageIsAQueue == Spec => ImplementsParcelQueue
<1>1. Init => Queue = NewQueue(0)
  BY InitIsSound
<1>2. IInv /\ [Next]_vars => [QueueStep]_Queue
  BY NextIsSound
<1>3. Spec => Queue = NewQueue(0) /\ [][QueueStep]_Queue
  BY <1>1, <1>2, StorageStaysInOrder, PTL DEF Spec
<1> QED
  BY <1>3 DEF ImplementsParcelQueue, QueueStep

=============================================================================
