------------------------ MODULE SequencedQueueEdits ------------------------
(***************************************************************************)
(* What PlaceNewEntry() and Pop() do to the storage of a SequencedQueue.   *)
(***************************************************************************)
EXTENDS SequencedQueueSpans

(* PushElement() *)

\* What PlaceNewEntry() needs: an empty position for the element n, in storage
\* whose spans are in order.
MayPlace(es, n, x) ==
    /\ base \in Nat /\ front \in Nat /\ n \in Nat /\ x \in Sizes
    /\ es \in Seq(Cells) /\ (\A k \in 1 .. front : es[k] = Null)
    /\ Position(n) \in front + 1 .. Len(es) /\ es[Position(n)] = Null
    /\ Spans(base - front, front, es)

NewEntry(es, n, x) ==
    LET p == Position(n)
        left == p > 1 /\ es[p - 1] # Null
        right == p < Len(es) /\ es[p + 1] # Null
    IN  [element |-> x,
         start |-> IF left THEN es[p - 1].start ELSE n,
         end   |-> IF right THEN es[p + 1].end ELSE n,
         count |-> 1 + (IF left THEN es[p - 1].count ELSE 0)
                     + (IF right THEN es[p + 1].count ELSE 0),
         size  |-> x + (IF left THEN es[p - 1].size ELSE 0)
                     + (IF right THEN es[p + 1].size ELSE 0)]

\* The new entry describes the joint span before it is told to the span's ends.
LEMMA NewEntryIsRight ==
    ASSUME NEW es, NEW n, NEW x, MayPlace(es, n, x),
           NEW a \in Int, NEW b \in Int, Joins(front, es, Position(n), a, b)
    PROVE  LET e == NewEntry(es, n, x)
               d == base - front
               E == Elems(d, es)
           IN  /\ e \in Entries /\ e.element = x
               /\ e.end = Num(d, b) /\ e.count = b - a + 1
               /\ e.size = x + Sum(E, Num(d, a) .. n - 1) + Sum(E, n + 1 .. Num(d, b))
               /\ IF a = front + 1 THEN e.start <= base ELSE e.start = Num(d, a)
<1> DEFINE e == NewEntry(es, n, x)
           d == base - front
           E == Elems(d, es)
           p == Position(n)
           left == p > 1 /\ es[p - 1] # Null
           right == p < Len(es) /\ es[p + 1] # Null
<1>1. /\ base \in Nat /\ front \in Nat /\ n \in Nat /\ x \in Nat /\ x \in Sizes
      /\ es \in Seq(Cells) /\ p \in front + 1 .. Len(es) /\ Spans(d, front, es)
  BY QueueAssumption DEF MayPlace
<1>2. Len(es) \in Nat
  BY <1>1, CellsOf
<1>3. /\ d \in Int /\ p \in Int /\ Num(d, p) = n /\ Num(d, p - 1) = n - 1 /\ Num(d, p + 1) = n + 1
      /\ Num(d, front + 1) = base
  BY <1>1, <1>2 DEF Position, Num
<1>4. /\ a \in front + 1 .. p /\ b \in p .. Len(es)
      /\ IF left THEN a < p /\ IsSpan(front, es, a, p - 1) ELSE a = p
      /\ IF right THEN p < b /\ IsSpan(front, es, p + 1, b) ELSE b = p
  BY DEF Joins
<1>5. /\ e.element = x
      /\ e.start = IF left THEN es[p - 1].start ELSE n
      /\ e.end = IF right THEN es[p + 1].end ELSE n
      /\ e.count = 1 + (IF left THEN es[p - 1].count ELSE 0) + (IF right THEN es[p + 1].count ELSE 0)
      /\ e.size = x + (IF left THEN es[p - 1].size ELSE 0) + (IF right THEN es[p + 1].size ELSE 0)
      /\ e = [element |-> e.element, start |-> e.start, end |-> e.end, count |-> e.count, size |-> e.size]
  BY DEF NewEntry
<1>6. left => /\ p - 1 \in 1 .. Len(es) /\ es[p - 1] # Null /\ a \in 1 .. Len(es)
  BY <1>1, <1>2, <1>4
<1>7. right => /\ p + 1 \in 1 .. Len(es) /\ es[p + 1] # Null /\ b \in 1 .. Len(es)
  BY <1>1, <1>2, <1>4
<1> HIDE DEF e, d, E, p, left, right
<1>8. left => /\ es[p - 1].start \in Nat /\ es[p - 1].count = p - a
              /\ es[p - 1].size \in Nat /\ es[p - 1].size = Sum(E, Num(d, a) .. n - 1)
              /\ IF a = front + 1 THEN es[p - 1].start <= base ELSE es[p - 1].start = Num(d, a)
  <2> SUFFICES ASSUME left
               PROVE  /\ es[p - 1].start \in Nat /\ es[p - 1].count = p - a
                      /\ es[p - 1].size \in Nat /\ es[p - 1].size = Sum(E, Num(d, a) .. n - 1)
                      /\ IF a = front + 1 THEN es[p - 1].start <= base ELSE es[p - 1].start = Num(d, a)
    OBVIOUS
  <2>1. IsRecorded(d, front, es, a, p - 1)
    BY <1>1, <1>4, <1>6 DEF Spans
  <2>2. es[p - 1].start \in Nat /\ es[p - 1].size \in Nat
    BY <1>1, <1>6, CellsOf
  <2>3. /\ es[p - 1].count = (p - 1) - a + 1
        /\ es[p - 1].size = Sum(E, Num(d, a) .. Num(d, p - 1))
        /\ IF a = front + 1 THEN es[p - 1].start <= Num(d, a) ELSE es[p - 1].start = Num(d, a)
    BY <2>1 DEF IsRecorded, E
  <2>4. (p - 1) - a + 1 = p - a
    BY <1>3
  <2> QED
    BY <1>3, <2>2, <2>3, <2>4
<1>9. right => /\ es[p + 1].end \in Nat /\ es[p + 1].end = Num(d, b) /\ es[p + 1].count = b - p
               /\ es[p + 1].size \in Nat /\ es[p + 1].size = Sum(E, n + 1 .. Num(d, b))
  <2> SUFFICES ASSUME right
               PROVE  /\ es[p + 1].end \in Nat /\ es[p + 1].end = Num(d, b) /\ es[p + 1].count = b - p
                      /\ es[p + 1].size \in Nat /\ es[p + 1].size = Sum(E, n + 1 .. Num(d, b))
    OBVIOUS
  <2>1. IsRecorded(d, front, es, p + 1, b)
    BY <1>1, <1>4, <1>7 DEF Spans
  <2>2. es[p + 1].end \in Nat /\ es[p + 1].size \in Nat
    BY <1>1, <1>7, CellsOf
  <2>3. /\ es[p + 1].end = Num(d, b) /\ es[p + 1].count = b - (p + 1) + 1
        /\ es[p + 1].size = Sum(E, Num(d, p + 1) .. Num(d, b))
    BY <2>1 DEF IsRecorded, E
  <2>4. b - (p + 1) + 1 = b - p
    BY <1>3
  <2> QED
    BY <1>3, <2>2, <2>3, <2>4
<1>10. ~left => a = p /\ Sum(E, Num(d, a) .. n - 1) = 0
  <2>1. n .. n - 1 = {}
    BY <1>1
  <2> QED
    BY <1>3, <1>4, <2>1, SumOfNone
<1>11. ~right => b = p /\ Sum(E, n + 1 .. Num(d, b)) = 0
  <2>1. n + 1 .. n = {}
    BY <1>1
  <2> QED
    BY <1>3, <1>4, <2>1, SumOfNone
<1>12. e.end = Num(d, b) /\ e.end \in Nat
  BY <1>1, <1>3, <1>5, <1>9, <1>11
<1>13. /\ (IF left THEN es[p - 1].count ELSE 0) = p - a
       /\ (IF left THEN es[p - 1].size ELSE 0) = Sum(E, Num(d, a) .. n - 1)
       /\ Sum(E, Num(d, a) .. n - 1) \in Nat
       /\ e.start \in Nat /\ IF a = front + 1 THEN e.start <= base ELSE e.start = Num(d, a)
  <2>1. CASE left
    BY <1>5, <1>8, <2>1
  <2>2. CASE ~left
    <3>1. a = p /\ p - a = 0 /\ e.start = n /\ Num(d, a) = n /\ Sum(E, Num(d, a) .. n - 1) = 0
      BY <1>3, <1>5, <1>10, <2>2
    <3>2. a = front + 1 => n = base
      BY <1>3, <3>1
    <3> QED
      BY <1>1, <2>2, <3>1, <3>2
  <2> QED
    BY <2>1, <2>2
<1>14. /\ (IF right THEN es[p + 1].count ELSE 0) = b - p
       /\ (IF right THEN es[p + 1].size ELSE 0) = Sum(E, n + 1 .. Num(d, b))
       /\ Sum(E, n + 1 .. Num(d, b)) \in Nat
  <2>1. CASE right
    BY <1>9, <2>1
  <2>2. CASE ~right
    BY <1>3, <1>11, <2>2
  <2> QED
    BY <2>1, <2>2
<1>15. /\ e.count = b - a + 1 /\ e.count \in Nat
       /\ e.size = x + Sum(E, Num(d, a) .. n - 1) + Sum(E, n + 1 .. Num(d, b)) /\ e.size \in Nat
  <2>1. e.count = 1 + (p - a) + (b - p)
    BY <1>5, <1>13, <1>14
  <2>2. 1 + (p - a) + (b - p) = b - a + 1 /\ b - a + 1 \in Nat
    BY <1>1, <1>2, <1>4
  <2>3. e.size = x + Sum(E, Num(d, a) .. n - 1) + Sum(E, n + 1 .. Num(d, b))
    BY <1>5, <1>13, <1>14
  <2>4. \A l, r \in Nat : x + l + r \in Nat
    BY <1>1
  <2>5. x + Sum(E, Num(d, a) .. n - 1) + Sum(E, n + 1 .. Num(d, b)) \in Nat
    BY <1>13, <1>14, <2>4, Zenon
  <2>6. e.count = b - a + 1 /\ e.count \in Nat
    BY <2>1, <2>2, Zenon
  <2>7. e.size \in Nat
    BY <2>3, <2>5, Zenon
  <2> QED
    BY <2>3, <2>6, <2>7
<1>16. e \in Entries
  BY <1>1, <1>5, <1>12, <1>13, <1>15 DEF Entries
<1> QED
  BY <1>5, <1>12, <1>13, <1>15, <1>16 DEF e, d, E

\* PlaceNewEntry() fills position p, and changes the two ends of the joint span
\* and nothing else.
LEMMA Placed ==
    ASSUME NEW es, NEW n, NEW x, MayPlace(es, n, x),
           NEW a \in Int, NEW b \in Int, Joins(front, es, Position(n), a, b)
    PROVE  LET p == Position(n)
               d == base - front
               e == NewEntry(es, n, x)
               new == PlaceNewEntry(es, n, x)
           IN  /\ new \in Seq(Cells) /\ Len(new) = Len(es)
               /\ new[p] # Null /\ new[p].element = x
               /\ \A k \in 1 .. Len(es) : k # p =>
                     (new[k] = Null <=> es[k] = Null) /\ (es[k] # Null => new[k].element = es[k].element)
               /\ \A k \in 1 .. Len(es) : k < a \/ b < k => new[k] = es[k]
               /\ new[a].end = e.end
               /\ \A k \in {a, b} :
                     /\ new[k].count = e.count /\ new[k].size = e.size
                     /\ IF a = front + 1 THEN new[k].start <= base ELSE new[k].start = Num(d, a)
<1> DEFINE p == Position(n)
           d == base - front
           e == NewEntry(es, n, x)
           placed == [es EXCEPT ![p] = e]
           head == [placed[a] EXCEPT !.end = e.end, !.count = e.count, !.size = e.size]
           begun == [placed EXCEPT ![a] = head]
           tail == [begun[b] EXCEPT !.start = e.start, !.count = e.count, !.size = e.size]
           new == [begun EXCEPT ![b] = tail]
<1>1. /\ base \in Nat /\ front \in Nat /\ n \in Nat /\ x \in Nat /\ x \in Sizes
      /\ es \in Seq(Cells) /\ p \in front + 1 .. Len(es) /\ Spans(d, front, es) /\ es[p] = Null
  BY QueueAssumption DEF MayPlace
<1>2. Len(es) \in Nat
  BY <1>1, CellsOf
<1>3. /\ d \in Int /\ p \in Int /\ Num(d, front + 1) = base
      /\ \A k \in Int : Num(d, k) \in Int /\ Position(Num(d, k)) = k /\ (Num(d, k) <= base <=> k <= front + 1)
  BY <1>1, <1>2 DEF Position, Num
<1>4. /\ a \in front + 1 .. p /\ b \in p .. Len(es)
      /\ \A k \in a .. b : k # p => es[k] # Null
      /\ a < p => IsSpan(front, es, a, p - 1)
  BY DEF Joins
<1>5. /\ e \in Entries /\ e.element = x
      /\ e.end = Num(d, b) /\ e.count = b - a + 1
      /\ IF a = front + 1 THEN e.start <= base ELSE e.start = Num(d, a)
  BY NewEntryIsRight
<1>6. e.start \in Nat /\ e.end \in Nat /\ e.count \in Nat /\ e.size \in Nat /\ e # Null
  BY <1>5, QueueAssumption DEF Entries
<1>7. PlaceNewEntry(es, n, x) = new
  <2>1. (IF e.start <= base THEN front + 1 ELSE Position(e.start)) = a
    <3> HIDE DEF e, d
    <3>1. CASE a = front + 1
      BY <1>5, <3>1
    <3>2. CASE a # front + 1
      <4>1. a > front + 1 /\ e.start = Num(d, a)
        BY <1>1, <1>4, <1>5, <3>2
      <4>2. Position(Num(d, a)) = a /\ (Num(d, a) <= base <=> a <= front + 1) /\ ~(a <= front + 1)
        BY <1>1, <1>3, <4>1
      <4>3. ~(e.start <= base) /\ Position(e.start) = a
        BY <4>1, <4>2, Zenon
      <4> QED
        BY <4>3
    <3> QED
      BY <3>1, <3>2
  <2>2. Position(e.end) = b
    BY <1>3, <1>5
  <2> QED
    BY <2>1, <2>2 DEF PlaceNewEntry, NewEntry
<1> HIDE DEF p, d, e
<1>8. /\ placed \in Seq(Cells) /\ Len(placed) = Len(es)
      /\ \A k \in 1 .. Len(es) : placed[k] = IF k = p THEN e ELSE es[k]
  <2>1. p \in 1 .. Len(es) /\ e \in Cells
    BY <1>1, <1>2, <1>5 DEF Cells
  <2> QED
    BY <1>1, <2>1, ExceptSeq
<1> HIDE DEF placed
<1>9. a \in 1 .. Len(es) /\ b \in 1 .. Len(es) /\ p \in a .. b
  BY <1>1, <1>2, <1>4
<1>10. placed[a] \in Entries /\ placed[b] \in Entries
  <2>1. placed[a] # Null /\ placed[b] # Null
    BY <1>4, <1>6, <1>8, <1>9
  <2> QED
    BY <1>8, <1>9, <2>1, CellsOf
<1>11. /\ head \in Entries /\ head # Null /\ head.element = placed[a].element
       /\ head.start = placed[a].start /\ head.end = e.end
       /\ head.count = e.count /\ head.size = e.size
  <2>1. head = [placed[a] EXCEPT !.end = e.end, !.count = e.count, !.size = e.size]
    OBVIOUS
  <2> HIDE DEF head
  <2> QED
    BY <1>6, <1>10, <2>1, QueueAssumption DEF Entries
<1> HIDE DEF head
<1>12. /\ begun \in Seq(Cells) /\ Len(begun) = Len(es)
       /\ \A k \in 1 .. Len(es) : begun[k] = IF k = a THEN head ELSE placed[k]
  <2>1. head \in Cells
    BY <1>11 DEF Cells
  <2> QED
    BY <1>8, <1>9, <2>1, ExceptSeq
<1> HIDE DEF begun
<1>13. begun[b] \in Entries
  BY <1>9, <1>10, <1>11, <1>12
<1>14. /\ tail \in Entries /\ tail # Null /\ tail.element = begun[b].element
       /\ tail.end = begun[b].end /\ tail.start = e.start
       /\ tail.count = e.count /\ tail.size = e.size
  <2>1. tail = [begun[b] EXCEPT !.start = e.start, !.count = e.count, !.size = e.size]
    OBVIOUS
  <2> HIDE DEF tail
  <2> QED
    BY <1>6, <1>13, <2>1, QueueAssumption DEF Entries
<1> HIDE DEF tail
<1>15. /\ new \in Seq(Cells) /\ Len(new) = Len(es)
       /\ \A k \in 1 .. Len(es) : new[k] = IF k = b THEN tail ELSE begun[k]
  <2>1. tail \in Cells
    BY <1>14 DEF Cells
  <2> QED
    BY <1>9, <1>12, <2>1, ExceptSeq
<1> HIDE DEF new
<1>16. \A k \in 1 .. Len(es) :
          /\ (new[k] = Null <=> placed[k] = Null)
          /\ placed[k] # Null => new[k].element = placed[k].element
          /\ k < a \/ b < k => new[k] = es[k]
  <2> SUFFICES ASSUME NEW k \in 1 .. Len(es)
               PROVE  /\ (new[k] = Null <=> placed[k] = Null)
                      /\ placed[k] # Null => new[k].element = placed[k].element
                      /\ k < a \/ b < k => new[k] = es[k]
    OBVIOUS
  <2>1. placed[a] # Null /\ placed[b] # Null
    BY <1>10, QueueAssumption
  <2>2. begun[k] = Null <=> placed[k] = Null
    BY <1>11, <1>12, <2>1
  <2>3. placed[k] # Null => begun[k].element = placed[k].element
    BY <1>11, <1>12
  <2>4. new[k] = Null <=> placed[k] = Null
    BY <1>14, <1>15, <2>1, <2>2
  <2>5. placed[k] # Null => new[k].element = placed[k].element
    BY <1>14, <1>15, <2>3
  <2>6. k < a \/ b < k => new[k] = es[k]
    BY <1>8, <1>9, <1>12, <1>15
  <2> QED
    BY <2>4, <2>5, <2>6
<1>17. new[p] # Null /\ new[p].element = x
  <2>1. p \in 1 .. Len(es)
    BY <1>1, <1>2
  <2> QED
    BY <1>5, <1>6, <1>8, <1>16, <2>1
<1>18. new[b].start = e.start /\ new[b].count = e.count /\ new[b].size = e.size
  BY <1>9, <1>14, <1>15
<1>19. new[a].end = e.end /\ new[a].count = e.count /\ new[a].size = e.size
  BY <1>9, <1>11, <1>12, <1>14, <1>15
<1>20. a # b => new[a].start = placed[a].start
  BY <1>9, <1>11, <1>12, <1>15
<1>21. IF a = front + 1 THEN new[a].start <= base ELSE new[a].start = Num(d, a)
  <2>1. CASE a = b
    BY <1>5, <1>18, <2>1
  <2>2. CASE a # b /\ a = p
    <3>1. new[a].start = e.start
      BY <1>8, <1>9, <1>20, <2>2
    <3> QED
      BY <1>5, <3>1
  <2>3. CASE a # b /\ a # p
    <3>1. new[a].start = es[a].start /\ IsSpan(front, es, a, p - 1) /\ p - 1 \in 1 .. Len(es)
      BY <1>4, <1>8, <1>9, <1>20, <2>3
    <3>2. IsRecorded(d, front, es, a, p - 1)
      BY <1>1, <1>9, <3>1 DEF Spans
    <3>3. IF a = front + 1 THEN es[a].start <= Num(d, a) ELSE es[a].start = Num(d, a)
      BY <3>2 DEF IsRecorded
    <3> QED
      BY <1>3, <3>1, <3>3
  <2> QED
    BY <2>1, <2>2, <2>3
<1>22. \A k \in 1 .. Len(es) : k # p =>
         (new[k] = Null <=> es[k] = Null) /\ (es[k] # Null => new[k].element = es[k].element)
  BY <1>8, <1>16
<1> QED
  BY <1>5, <1>7, <1>15, <1>16, <1>17, <1>18, <1>19, <1>21, <1>22 DEF p, d, e

\* All spans are recorded once the element is in place.
LEMMA PlacedSpans ==
    ASSUME NEW es, NEW n, NEW x, MayPlace(es, n, x)
    PROVE  Spans(base - front, front, PlaceNewEntry(es, n, x))
<1> DEFINE p == Position(n)
           d == base - front
           e == NewEntry(es, n, x)
           new == PlaceNewEntry(es, n, x)
           E == Elems(d, es)
           F == Elems(d, new)
<1>1. /\ base \in Nat /\ front \in Nat /\ n \in Nat /\ x \in Nat
      /\ es \in Seq(Cells) /\ p \in front + 1 .. Len(es) /\ Spans(d, front, es) /\ es[p] = Null
  BY QueueAssumption DEF MayPlace
<1>2. Len(es) \in Nat
  BY <1>1, CellsOf
<1>3. PICK a, b \in Int : Joins(front, es, p, a, b)
  BY SomethingJoins DEF MayPlace
<1>4. /\ new \in Seq(Cells) /\ Len(new) = Len(es)
      /\ new[p] # Null /\ new[p].element = x
      /\ \A k \in 1 .. Len(es) : k # p =>
            (new[k] = Null <=> es[k] = Null) /\ (es[k] # Null => new[k].element = es[k].element)
      /\ \A k \in 1 .. Len(es) : k < a \/ b < k => new[k] = es[k]
      /\ new[a].end = e.end
      /\ \A k \in {a, b} :
            /\ new[k].count = e.count /\ new[k].size = e.size
            /\ IF a = front + 1 THEN new[k].start <= base ELSE new[k].start = Num(d, a)
  BY <1>3, Placed
<1>5. /\ e.end = Num(d, b) /\ e.count = b - a + 1
      /\ e.size = x + Sum(E, Num(d, a) .. n - 1) + Sum(E, n + 1 .. Num(d, b))
  BY <1>3, NewEntryIsRight
<1>6. d \in Int /\ p \in Int /\ Num(d, front + 1) = base /\ Num(d, p) = n
  BY <1>1, <1>2 DEF Position, Num
<1>7. \A k \in Int : Num(d, k) \in Int
  BY <1>6 DEF Num
<1>8. /\ a \in front + 1 .. p /\ b \in p .. Len(es)
      /\ \A k \in a .. b : k # p => es[k] # Null
  BY <1>3 DEF Joins
<1> HIDE DEF p, d, e, new, E, F
<1>9. ASSUME NEW k \in 1 .. Len(es), k # p, es[k] # Null
      PROVE  F[Num(d, k)] = E[Num(d, k)] /\ F[Num(d, k)] \in Nat
  <2>1. /\ new[k] # Null /\ new[k].element = es[k].element /\ es[k].element \in Nat
        /\ k \in 1 .. Len(new)
    BY <1>1, <1>4, <1>9, CellsOf
  <2>2. F[Num(d, k)] = new[k].element
    BY <1>4, <1>6, <2>1, NumbersOf DEF F
  <2>3. E[Num(d, k)] = es[k].element
    BY <1>1, <1>6, <1>9, NumbersOf DEF E
  <2> QED
    BY <2>1, <2>2, <2>3
<1>10. F[n] = x
  <2>1. p \in 1 .. Len(new)
    BY <1>1, <1>2, <1>4
  <2> QED
    BY <1>4, <1>6, <2>1, NumbersOf DEF F
<1>11. ASSUME NEW m \in Int, NEW i \in Int, NEW j \in Int, m \in Num(d, i) .. Num(d, j)
       PROVE  \E k \in i .. j : m = Num(d, k)
  <2>1. m - d + 1 \in i .. j /\ m = Num(d, m - d + 1)
    BY <1>6, <1>11 DEF Num
  <2> QED
    BY <2>1
<1>12. \A m \in Num(d, a) .. Num(d, b) : F[m] \in Nat /\ (m # n => F[m] = E[m])
  <2> SUFFICES ASSUME NEW m \in Num(d, a) .. Num(d, b) PROVE F[m] \in Nat /\ (m # n => F[m] = E[m])
    OBVIOUS
  <2>1. PICK k \in a .. b : m = Num(d, k)
    BY <1>11
  <2>2. k \in 1 .. Len(es)
    BY <1>1, <1>2, <1>8
  <2>3. CASE k = p
    BY <1>1, <1>6, <1>10, <2>1, <2>3
  <2>4. CASE k # p
    BY <1>8, <1>9, <2>1, <2>2, <2>4
  <2> QED
    BY <2>3, <2>4
<1>13. e.size = Sum(F, Num(d, a) .. Num(d, b))
  <2> DEFINE lo == Num(d, a)
             hi == Num(d, b)
  <2>1. lo \in Int /\ hi \in Int /\ n \in lo .. hi
    <3>1. a <= p /\ p <= b
      BY <1>6, <1>8
    <3>2. Num(d, a) <= Num(d, p) /\ Num(d, p) <= Num(d, b)
      BY <1>6, <3>1 DEF Num
    <3> QED
      BY <1>1, <1>6, <1>7, <3>2
  <2> HIDE DEF lo, hi
  <2>2. \A m \in lo .. hi : F[m] \in Nat /\ (m # n => F[m] = E[m])
    BY <1>12 DEF lo, hi
  <2>3. /\ Sum(F, lo .. hi) = F[n] + Sum(F, lo .. n - 1) + Sum(F, n + 1 .. hi)
    BY <2>1, <2>2, SumJoined
  <2>4. Sum(F, lo .. n - 1) = Sum(E, lo .. n - 1)
    <3>1. \A m \in lo .. n - 1 : F[m] = E[m]
      BY <2>1, <2>2
    <3>2. IsFiniteSet(lo .. n - 1)
      BY <1>1, <2>1, FS_Interval
    <3> QED
      BY <3>1, <3>2, SumOfEqual
  <2>5. Sum(F, n + 1 .. hi) = Sum(E, n + 1 .. hi)
    <3>1. \A m \in n + 1 .. hi : F[m] = E[m]
      BY <2>1, <2>2
    <3>2. IsFiniteSet(n + 1 .. hi)
      BY <1>1, <2>1, FS_Interval
    <3> QED
      BY <3>1, <3>2, SumOfEqual
  <2> QED
    BY <1>5, <1>10, <2>3, <2>4, <2>5 DEF lo, hi
<1>14. IsRecorded(d, front, new, a, b)
  <2>1. new[a].end = Num(d, b)
    BY <1>4, <1>5
  <2>2. ASSUME NEW k \in {a, b}
        PROVE  /\ new[k].count = b - a + 1
               /\ new[k].size = Sum(F, Num(d, a) .. Num(d, b))
               /\ IF a = front + 1 THEN new[k].start <= Num(d, a) ELSE new[k].start = Num(d, a)
    BY <1>4, <1>5, <1>6, <1>13
  <2> QED
    BY <2>1, <2>2 DEF IsRecorded, F
<1>15. ASSUME NEW i \in 1 .. Len(new), NEW j \in 1 .. Len(new), IsSpan(front, new, i, j)
       PROVE  IsRecorded(d, front, new, i, j)
  <2>1. (i = a /\ j = b) \/ (IsSpan(front, es, i, j) /\ Apart(a, b, i, j))
    <3>1. Fills(es, new, p)
      BY <1>1, <1>4 DEF Fills
    <3>2. i \in Int /\ j \in Int
      BY <1>2, <1>4
    <3> QED
      BY <1>1, <1>3, <1>4, <1>15, <3>1, <3>2, OneSpanIsNew
  <2>2. CASE i = a /\ j = b
    BY <1>14, <2>2
  <2>3. CASE IsSpan(front, es, i, j) /\ Apart(a, b, i, j)
    <3>1. IsRecorded(d, front, es, i, j) /\ i \in 1 .. Len(es) /\ j \in i .. Len(es)
      BY <1>1, <1>4, <1>15, <2>3 DEF Spans, IsSpan
    <3>2. /\ \A k \in i .. j : k \in 1 .. Len(es) /\ k # p /\ es[k] # Null
      <4>1. p \in a .. b
        BY <1>6, <1>8
      <4>2. p < i \/ j < p
        BY <2>3, <4>1, Zenon DEF Apart
      <4>3. \A k \in i .. j : es[k] # Null
        BY <2>3 DEF IsSpan
      <4>4. \A k \in i .. j : k \in 1 .. Len(es) /\ k # p
        <5> SUFFICES ASSUME NEW k \in i .. j PROVE k \in 1 .. Len(es) /\ k # p
          OBVIOUS
        <5>1. i \in Int /\ j \in Int /\ 1 <= i /\ i <= j /\ j <= Len(es)
          BY <1>2, <3>1
        <5>2. k \in Int /\ i <= k /\ k <= j
          BY <5>1
        <5> QED
          BY <1>2, <1>6, <4>2, <5>1, <5>2
      <4> QED
        BY <4>3, <4>4
    <3>3. new[i] = es[i] /\ new[j] = es[j]
      <4>1. (i < a \/ b < i) /\ (j < a \/ b < j)
        <5>1. \A k \in a .. b : k < i \/ j < k
          BY <2>3 DEF Apart
        <5>2. i \in a .. b => i < i \/ j < i
          BY <5>1, Zenon
        <5>3. j \in a .. b => j < i \/ j < j
          BY <5>1, Zenon
        <5> QED
          BY <3>1, <5>2, <5>3
      <4> QED
        BY <1>4, <3>1, <4>1
    <3>4. Sum(F, Num(d, i) .. Num(d, j)) = Sum(E, Num(d, i) .. Num(d, j))
      <4>1. \A m \in Num(d, i) .. Num(d, j) : F[m] = E[m]
        BY <1>9, <1>11, <3>2
      <4>2. IsFiniteSet(Num(d, i) .. Num(d, j))
        BY <1>7, FS_Interval
      <4> QED
        BY <4>1, <4>2, SumOfEqual
    <3> QED
      BY <3>1, <3>3, <3>4 DEF IsRecorded, E, F
  <2> QED
    BY <2>1, <2>2, <2>3
<1> QED
  BY <1>4, <1>15 DEF Spans, d, new

\* PlaceNewEntry() adds the new element and no other.
LEMMA PlacedElements ==
    ASSUME NEW es, NEW n, NEW x, MayPlace(es, n, x)
    PROVE  LET d == base - front
               E == Elems(d, es)
               new == PlaceNewEntry(es, n, x)
               present == Numbers(d, es) \cup {n}
           IN  /\ Numbers(d, new) = present
               /\ Elems(d, new) = [m \in present |-> IF m = n THEN x ELSE E[m]]
<1> DEFINE d == base - front
           p == Position(n)
           new == PlaceNewEntry(es, n, x)
           present == Numbers(d, es) \cup {n}
<1>1. /\ base \in Nat /\ front \in Nat /\ n \in Nat /\ x \in Sizes
      /\ es \in Seq(Cells) /\ p \in front + 1 .. Len(es) /\ es[p] = Null
  BY DEF MayPlace
<1>2. Len(es) \in Nat /\ d \in Int
  BY <1>1, CellsOf
<1>3. PICK a, b \in Int : Joins(front, es, p, a, b)
  BY SomethingJoins DEF MayPlace
<1>4. /\ new \in Seq(Cells) /\ Len(new) = Len(es)
      /\ new[p] # Null /\ new[p].element = x
      /\ \A k \in 1 .. Len(es) : k # p =>
            (new[k] = Null <=> es[k] = Null) /\ (es[k] # Null => new[k].element = es[k].element)
  BY <1>3, Placed
<1>5. \A m \in Int : m - d + 1 = p <=> m = n
  BY <1>1, <1>2 DEF Position
<1>6. p \in 1 .. Len(es)
  BY <1>1, <1>2
<1> HIDE DEF d, p, new
<1>7. \A m \in Int : m \in Numbers(d, new) <=> m - d + 1 \in 1 .. Len(es) /\ new[m - d + 1] # Null
  BY <1>2, <1>4, NumbersOf
<1>8. \A m \in Int : m \in Numbers(d, es) <=> m - d + 1 \in 1 .. Len(es) /\ es[m - d + 1] # Null
  BY <1>1, <1>2, NumbersOf
<1>9. Numbers(d, new) \subseteq Int /\ present \subseteq Int
  <2>1. Numbers(d, new) \subseteq Int
    BY <1>2, <1>4, NumbersOf
  <2>2. Numbers(d, es) \subseteq Int
    BY <1>1, <1>2, NumbersOf
  <2> QED
    BY <1>1, <2>1, <2>2
<1>10. \A m \in Int : m \in Numbers(d, new) <=> m \in present
  BY <1>4, <1>5, <1>6, <1>7, <1>8
<1>11. Numbers(d, new) = present
  BY <1>9, <1>10
<1>12. ASSUME NEW m \in present
       PROVE  new[m - d + 1].element = IF m = n THEN x ELSE Elems(d, es)[m]
  <2>1. CASE m = n
    BY <1>1, <1>4, <1>5, <2>1
  <2>2. CASE m # n
    <3>1. m \in Int /\ m \in Numbers(d, es) /\ m - d + 1 \in 1 .. Len(es) /\ es[m - d + 1] # Null
      BY <1>8, <1>9, <2>2
    <3>2. new[m - d + 1].element = es[m - d + 1].element
      BY <1>4, <1>5, <2>2, <3>1
    <3> QED
      BY <2>2, <3>1, <3>2 DEF Elems
  <2> QED
    BY <2>1, <2>2
<1> QED
  BY <1>11, <1>12 DEF Elems, d, new

----------------------------------------------------------------------------
(* PopElement() *)

\* What a pop finds: the first span, b its last position, and more storage
\* behind the front.
MayPop(b) ==
    /\ base \in Nat /\ front \in Nat /\ entries \in Seq(Cells)
    /\ front + 2 <= Len(entries) /\ b \in front + 1 .. Len(entries)
    /\ \A k \in 1 .. front : entries[k] = Null
    /\ Spans(base - front, front, entries)
    /\ IsSpan(front, entries, front + 1, b)

\* A pop clears the front entry, hands its record to the next entry and to the
\* last one of the span, and changes nothing else.
LEMMA Popped ==
    ASSUME NEW b, MayPop(b)
    PROVE  LET d == base - front
               p == front + 2
               new == PoppedEntries
           IN  /\ new \in Seq(Cells) /\ Len(new) = Len(entries) /\ new[front + 1] = Null
               /\ \A k \in 1 .. Len(entries) : k # front + 1 =>
                     /\ new[k] = Null <=> entries[k] = Null
                     /\ entries[k] # Null => new[k].element = entries[k].element
                     /\ k > b => new[k] = entries[k]
               /\ p <= b => /\ new[p].end = Num(d, b)
                            /\ \A k \in {p, b} :
                                  /\ new[k].count = b - p + 1
                                  /\ new[k].size = FrontEntry.size - FrontEntry.element
                                  /\ new[k].start <= Num(d, p)
<1> DEFINE d == base - front
           p == front + 2
           count == FrontEntry.count - 1
           size == FrontEntry.size - FrontEntry.element
           next == [entries[p] EXCEPT !.start = FrontEntry.start, !.end = FrontEntry.end,
                                      !.count = count, !.size = size]
           joined == [entries EXCEPT ![p] = next]
           last == [joined[b] EXCEPT !.count = count, !.size = size]
           told == IF b > p THEN [joined EXCEPT ![b] = last] ELSE joined
           spent == IF entries[p] # Null THEN told ELSE entries
           new == [spent EXCEPT ![front + 1] = Null]
<1>1. /\ base \in Nat /\ front \in Nat /\ entries \in Seq(Cells)
      /\ p <= Len(entries) /\ b \in front + 1 .. Len(entries)
      /\ \A k \in 1 .. front : entries[k] = Null
      /\ Spans(d, front, entries) /\ IsSpan(front, entries, front + 1, b)
  BY DEF MayPop
<1>2. Len(entries) \in Nat
  BY <1>1, CellsOf
<1>3. /\ front + 1 \in 1 .. Len(entries) /\ p \in 1 .. Len(entries) /\ b \in 1 .. Len(entries)
      /\ d \in Int /\ front + 1 \in Int /\ p \in Int /\ b \in Int /\ p # front + 1 /\ b >= front + 1
  BY <1>1, <1>2
<1>4. \A k \in front + 1 .. b : entries[k] # Null
  BY <1>1 DEF IsSpan
<1>5. entries[p] # Null <=> p <= b
  BY <1>1, <1>2, <1>3, <1>4 DEF IsSpan
<1>6. IsRecorded(d, front, entries, front + 1, b)
  BY <1>1, <1>3 DEF Spans
<1>7. /\ FrontEntry.end = Num(d, b) /\ FrontEntry.count = b - (front + 1) + 1
      /\ FrontEntry.size = Sum(Elems(d, entries), Num(d, front + 1) .. Num(d, b))
      /\ FrontEntry.start <= Num(d, front + 1) /\ entries[b].start <= Num(d, front + 1)
  BY <1>6 DEF IsRecorded, FrontEntry
<1>8. /\ FrontEntry # Null /\ FrontEntry \in Entries /\ FrontEntry.element \in Nat /\ FrontEntry.start \in Nat
      /\ FrontEntry.end \in Nat /\ FrontEntry.count \in Nat /\ FrontEntry.size \in Nat
      /\ entries[b] \in Entries /\ entries[b].start \in Nat
  <2>1. FrontEntry = entries[front + 1] /\ FrontEntry # Null /\ entries[b] # Null
    BY <1>3, <1>4 DEF FrontEntry
  <2> QED
    BY <1>1, <1>3, <2>1, CellsOf
<1>9. front + 1 + (FrontEntry.end - base) = b
  BY <1>1, <1>3, <1>7 DEF Num
<1>10. PoppedEntries = new
  BY <1>1, <1>9 DEF PoppedEntries
<1>11. count = b - p + 1 /\ (p <= b => count \in Nat)
  BY <1>1, <1>3, <1>7
<1>12. size \in Nat
  <2> DEFINE E == Elems(d, entries)
             lo == Num(d, front + 1)
             hi == Num(d, b)
  <2>1. lo \in Int /\ hi \in Int /\ lo \in lo .. hi
    BY <1>1, <1>3 DEF Num
  <2>2. SameElements(entries, entries, front + 1, b)
    BY <1>1, <1>2, <1>3, <1>4 DEF SameElements
  <2>3. \A m \in lo .. hi : E[m] \in Nat
    BY <1>1, <1>3, <2>2, SumsKept
  <2>4. E[lo] = FrontEntry.element
    BY <1>1, <1>3, <1>8, NumbersOf DEF FrontEntry
  <2> HIDE DEF E, lo, hi
  <2>5. Sum(E, lo .. hi) = E[lo] + Sum(E, lo .. lo - 1) + Sum(E, lo + 1 .. hi)
    BY <2>1, <2>3, SumJoined
  <2>6. Sum(E, lo .. lo - 1) \in Nat /\ Sum(E, lo + 1 .. hi) \in Nat
    <3>1. IsFiniteSet(lo .. lo - 1) /\ IsFiniteSet(lo + 1 .. hi)
      BY <2>1, FS_Interval
    <3>2. (\A m \in lo .. lo - 1 : E[m] \in Nat) /\ (\A m \in lo + 1 .. hi : E[m] \in Nat)
      BY <2>1, <2>3
    <3> QED
      BY <3>1, <3>2, SumType
  <2>7. FrontEntry.size = Sum(E, lo .. hi)
    BY <1>7 DEF E, lo, hi
  <2> QED
    BY <1>8, <2>4, <2>5, <2>6, <2>7
<1> HIDE DEF d, p, count, size
<1>13. p <= b => /\ next \in Entries /\ next # Null /\ next.element = entries[p].element
                 /\ next.start = FrontEntry.start /\ next.end = FrontEntry.end
                 /\ next.count = count /\ next.size = size
  <2> SUFFICES ASSUME p <= b
               PROVE  /\ next \in Entries /\ next # Null /\ next.element = entries[p].element
                      /\ next.start = FrontEntry.start /\ next.end = FrontEntry.end
                      /\ next.count = count /\ next.size = size
    OBVIOUS
  <2>1. next = [entries[p] EXCEPT !.start = FrontEntry.start, !.end = FrontEntry.end,
                                  !.count = count, !.size = size]
    OBVIOUS
  <2>2. entries[p] \in Entries
    BY <1>1, <1>3, <1>5, CellsOf
  <2> HIDE DEF next
  <2> QED
    BY <1>8, <1>11, <1>12, <2>1, <2>2, QueueAssumption DEF Entries
<1> HIDE DEF next
<1>14. p <= b => /\ joined \in Seq(Cells) /\ Len(joined) = Len(entries)
                 /\ \A k \in 1 .. Len(entries) : joined[k] = IF k = p THEN next ELSE entries[k]
  BY <1>1, <1>3, <1>13, ExceptSeq DEF Cells
<1> HIDE DEF joined
<1>15. p < b => /\ last \in Entries /\ last # Null /\ last.element = entries[b].element
                /\ last.start = entries[b].start /\ last.count = count /\ last.size = size
  <2> SUFFICES ASSUME p < b
               PROVE  /\ last \in Entries /\ last # Null /\ last.element = entries[b].element
                      /\ last.start = entries[b].start /\ last.count = count /\ last.size = size
    OBVIOUS
  <2>1. last = [joined[b] EXCEPT !.count = count, !.size = size]
    OBVIOUS
  <2>2. joined[b] = entries[b] /\ p <= b
    BY <1>3, <1>14
  <2> HIDE DEF last
  <2> QED
    BY <1>8, <1>11, <1>12, <2>1, <2>2, QueueAssumption DEF Entries
<1> HIDE DEF last
<1>16. p <= b => /\ told \in Seq(Cells) /\ Len(told) = Len(entries)
                 /\ \A k \in 1 .. Len(entries) :
                       told[k] = IF k = b /\ b > p THEN last ELSE IF k = p THEN next ELSE entries[k]
  <2>1. CASE b > p
    <3>1. p <= b /\ last \in Cells /\ told = [joined EXCEPT ![b] = last]
      BY <1>3, <1>15, <2>1 DEF Cells
    <3>2. /\ told \in Seq(Cells) /\ Len(told) = Len(entries)
          /\ \A k \in 1 .. Len(entries) : told[k] = IF k = b THEN last ELSE joined[k]
      BY <1>3, <1>14, <3>1, ExceptSeq
    <3> QED
      BY <1>14, <2>1, <3>1, <3>2
  <2>2. CASE ~(b > p)
    BY <1>14, <2>2
  <2> QED
    BY <2>1, <2>2
<1> HIDE DEF told
<1>17. /\ spent \in Seq(Cells) /\ Len(spent) = Len(entries)
       /\ \A k \in 1 .. Len(entries) :
             spent[k] = IF k = b /\ b > p THEN last ELSE IF k = p /\ p <= b THEN next ELSE entries[k]
  <2>1. CASE p <= b
    BY <1>5, <1>16, <2>1
  <2>2. CASE ~(p <= b)
    BY <1>1, <1>3, <1>5, <2>2
  <2> QED
    BY <2>1, <2>2
<1> HIDE DEF spent
<1>18. /\ new \in Seq(Cells) /\ Len(new) = Len(entries)
       /\ \A k \in 1 .. Len(entries) : new[k] = IF k = front + 1 THEN Null ELSE spent[k]
  BY <1>3, <1>17, ExceptSeq DEF Cells
<1> HIDE DEF new
<1>19. ASSUME NEW k \in 1 .. Len(entries), k # front + 1
       PROVE  /\ new[k] = Null <=> entries[k] = Null
              /\ entries[k] # Null => new[k].element = entries[k].element
              /\ k > b => new[k] = entries[k]
  <2>1. CASE k = b /\ b > p
    BY <1>3, <1>4, <1>15, <1>17, <1>18, <1>19, <2>1
  <2>2. CASE ~(k = b /\ b > p) /\ k = p /\ p <= b
    BY <1>3, <1>5, <1>13, <1>17, <1>18, <1>19, <2>2
  <2>3. CASE ~(k = b /\ b > p) /\ ~(k = p /\ p <= b)
    BY <1>17, <1>18, <1>19, <2>3
  <2> QED
    BY <2>1, <2>2, <2>3
<1>20. ASSUME p <= b
       PROVE  /\ new[p].end = Num(d, b)
              /\ \A k \in {p, b} :
                    /\ new[k].count = count /\ new[k].size = size
                    /\ new[k].start <= Num(d, p)
  <2>1. new[p] = next
    BY <1>3, <1>17, <1>18, <1>20
  <2>2. new[b] = IF b > p THEN last ELSE next
    <3>1. b # front + 1 /\ (~(b > p) => b = p)
      BY <1>1, <1>3, <1>20 DEF p
    <3>2. new[b] = spent[b]
      BY <1>3, <1>18, <3>1
    <3> QED
      BY <1>3, <1>17, <1>20, <3>1, <3>2
  <2>3. Num(d, front + 1) <= Num(d, p) /\ Num(d, front + 1) \in Int /\ Num(d, p) \in Int
    BY <1>1, <1>3 DEF Num, p
  <2>4. FrontEntry.start <= Num(d, p) /\ entries[b].start <= Num(d, p)
    BY <1>7, <1>8, <2>3
  <2> QED
    BY <1>7, <1>13, <1>15, <1>20, <2>1, <2>2, <2>4
<1> QED
  BY <1>10, <1>11, <1>18, <1>3, <1>19, <1>20 DEF d, p, count, size

\* After a pop the rest of the first span is recorded as a span, and so are the
\* others.
LEMMA PoppedSpans ==
    ASSUME NEW b, MayPop(b)
    PROVE  Spans(base - front, front + 1, PoppedEntries)
<1> DEFINE d == base - front
           p == front + 2
           new == PoppedEntries
           E == Elems(d, entries)
<1>1. /\ base \in Nat /\ front \in Nat /\ entries \in Seq(Cells)
      /\ p <= Len(entries) /\ b \in front + 1 .. Len(entries)
      /\ \A k \in 1 .. front : entries[k] = Null
      /\ Spans(d, front, entries) /\ IsSpan(front, entries, front + 1, b)
  BY DEF MayPop
<1>2. Len(entries) \in Nat
  BY <1>1, CellsOf
<1>3. /\ front + 1 \in 1 .. Len(entries) /\ p \in 1 .. Len(entries) /\ b \in 1 .. Len(entries)
      /\ d \in Int /\ front + 1 \in Int /\ p \in Int /\ b \in Int /\ p # front + 1 /\ b >= front + 1
      /\ p = front + 2
  BY <1>1, <1>2
<1>4. /\ new \in Seq(Cells) /\ Len(new) = Len(entries) /\ new[front + 1] = Null
      /\ \A k \in 1 .. Len(entries) : k # front + 1 =>
            /\ new[k] = Null <=> entries[k] = Null
            /\ entries[k] # Null => new[k].element = entries[k].element
            /\ k > b => new[k] = entries[k]
      /\ p <= b => /\ new[p].end = Num(d, b)
                   /\ \A k \in {p, b} :
                         /\ new[k].count = b - p + 1
                         /\ new[k].size = FrontEntry.size - FrontEntry.element
                         /\ new[k].start <= Num(d, p)
  BY Popped
<1>5. FrontEntry = entries[front + 1] /\ FrontEntry # Null /\ FrontEntry.element \in Nat
  <2>1. entries[front + 1] # Null
    BY <1>1, <1>3 DEF IsSpan
  <2> QED
    BY <1>1, <1>3, <2>1, CellsOf DEF FrontEntry
<1>6. FrontEntry.size = Sum(E, Num(d, front + 1) .. Num(d, b))
  <2>1. IsRecorded(d, front, entries, front + 1, b)
    BY <1>1, <1>3 DEF Spans
  <2> QED
    BY <1>5, <2>1 DEF IsRecorded
<1> HIDE DEF d, p, new, E
<1>7. ASSUME NEW i \in p .. Len(entries), NEW j \in p .. Len(entries), \A k \in i .. j : new[k] # Null
      PROVE  SameElements(entries, new, i, j)
  <2>1. i >= 1 /\ j <= Len(entries) /\ \A k \in i .. j : k \in 1 .. Len(entries) /\ k # front + 1
    BY <1>1, <1>2, <1>3
  <2> QED
    BY <1>4, <1>7, <2>1 DEF SameElements
<1>8. p <= b => IsSpan(front + 1, new, p, b)
  <2> SUFFICES ASSUME p <= b PROVE IsSpan(front + 1, new, p, b)
    OBVIOUS
  <2>1. p \in front + 1 + 1 .. Len(new) /\ b \in p .. Len(new) /\ ~(p > front + 1 + 1)
    BY <1>1, <1>2, <1>3, <1>4
  <2>2. \A k \in p .. b : new[k] # Null
    <3>1. \A k \in p .. b : k \in front + 1 .. b /\ k \in 1 .. Len(entries) /\ k # front + 1
      BY <1>1, <1>2, <1>3
    <3>2. \A k \in front + 1 .. b : entries[k] # Null
      BY <1>1 DEF IsSpan
    <3> QED
      BY <1>4, <3>1, <3>2
  <2>3. b < Len(new) => new[b + 1] = Null
    <3>1. b < Len(entries) => entries[b + 1] = Null
      BY <1>1 DEF IsSpan
    <3>2. b < Len(entries) => b + 1 \in 1 .. Len(entries) /\ b + 1 # front + 1
      BY <1>2, <1>3
    <3> QED
      BY <1>4, <3>1, <3>2
  <2> QED
    BY <2>1, <2>2, <2>3 DEF IsSpan
<1>9. ASSUME p <= b PROVE IsRecorded(d, front + 1, new, p, b)
  <2> DEFINE lo == Num(d, front + 1)
             hi == Num(d, b)
  <2>1. lo \in Int /\ hi \in Int /\ lo \in lo .. hi /\ Num(d, p) = lo + 1
    BY <1>1, <1>3, <1>9 DEF Num
  <2>2. SameElements(entries, entries, front + 1, b)
    <3>1. \A k \in front + 1 .. b : entries[k] # Null
      BY <1>1 DEF IsSpan
    <3> QED
      BY <1>1, <1>2, <1>3, <3>1 DEF SameElements
  <2>3. \A m \in lo .. hi : E[m] \in Nat
    BY <1>1, <1>3, <2>2, SumsKept DEF E
  <2>4. E[lo] = FrontEntry.element
    BY <1>1, <1>3, <1>5, NumbersOf DEF E
  <2>5. Sum(Elems(d, new), Num(d, p) .. Num(d, b)) = Sum(E, Num(d, p) .. Num(d, b))
    <3>1. SameElements(entries, new, p, b)
      <4>1. p \in p .. Len(entries) /\ b \in p .. Len(entries)
        BY <1>1, <1>2, <1>3, <1>9
      <4>2. \A k \in p .. b : new[k] # Null
        BY <1>8, <1>9 DEF IsSpan
      <4> QED
        BY <1>7, <4>1, <4>2
    <3> QED
      BY <1>1, <1>3, <1>4, <3>1, SumsKept DEF E
  <2> HIDE DEF lo, hi
  <2>6. Sum(E, lo .. hi) = E[lo] + Sum(E, lo .. lo - 1) + Sum(E, lo + 1 .. hi)
    BY <2>1, <2>3, SumJoined
  <2>7. Sum(E, lo .. lo - 1) = 0
    <3>1. lo .. lo - 1 = {}
      BY <2>1
    <3> QED
      BY <3>1, SumOfNone
  <2>8. Sum(E, lo + 1 .. hi) \in Nat
    <3>1. IsFiniteSet(lo + 1 .. hi)
      BY <2>1, FS_Interval
    <3>2. \A m \in lo + 1 .. hi : E[m] \in Nat
      BY <2>1, <2>3
    <3> QED
      BY <3>1, <3>2, SumType
  <2>9. FrontEntry.size = Sum(E, lo .. hi)
    BY <1>6 DEF lo, hi
  <2>10. FrontEntry.size - FrontEntry.element = Sum(E, lo + 1 .. hi)
    BY <1>5, <2>4, <2>6, <2>7, <2>8, <2>9
  <2>11. FrontEntry.size - FrontEntry.element = Sum(Elems(d, new), Num(d, p) .. Num(d, b))
    BY <2>1, <2>5, <2>10 DEF hi
  <2>12. p = front + 1 + 1
    BY <1>1, <1>3
  <2> QED
    BY <1>4, <1>9, <2>11, <2>12 DEF IsRecorded
<1>10. ASSUME NEW i \in 1 .. Len(new), NEW j \in 1 .. Len(new), IsSpan(front + 1, new, i, j)
       PROVE  IsRecorded(d, front + 1, new, i, j)
  <2>1. /\ i \in Int /\ j \in Int /\ i <= j /\ p <= i /\ j <= Len(entries)
        /\ i \in p .. Len(entries) /\ j \in p .. Len(entries)
    BY <1>1, <1>2, <1>3, <1>4, <1>10 DEF IsSpan
  <2>2. CASE i <= b
    <3>1. p <= b
      BY <1>3, <2>1, <2>2
    <3>2. i = p /\ j = b
      <4>1. front + 1 \in Nat /\ i \in Int /\ i <= i /\ i <= j /\ p <= i
        BY <1>1, <2>1
      <4> QED
        BY <1>4, <1>8, <1>10, <2>2, <3>1, <4>1, SpansAreDisjoint, Zenon
    <3> QED
      BY <1>9, <3>1, <3>2
  <2>3. CASE i > b
    <3>1. \A k \in i .. j : new[k] # Null
      BY <1>10 DEF IsSpan
    <3>2. SameElements(entries, new, i, j)
      BY <1>7, <2>1, <3>1
    <3>3. \A k \in i .. j : entries[k] # Null
      BY <3>2 DEF SameElements
    <3>4. entries[i - 1] = Null
      <4>1. CASE i = b + 1
        <5>1. b < Len(entries) => entries[b + 1] = Null
          BY <1>1 DEF IsSpan
        <5>2. entries[i] # Null /\ b < Len(entries)
          BY <1>2, <1>3, <2>1, <3>3, <4>1
        <5> QED
          BY <4>1, <5>1, <5>2
      <4>2. CASE i # b + 1
        <5>1. i - 1 > b /\ i - 1 >= p /\ i - 1 \in 1 .. Len(entries) /\ i - 1 # front + 1
          BY <1>1, <1>2, <1>3, <2>1, <2>3, <4>2
        <5>2. new[i - 1] = Null
          BY <1>3, <1>10, <5>1 DEF IsSpan
        <5> QED
          BY <1>4, <5>1, <5>2
      <4> QED
        BY <4>1, <4>2
    <3>5. j < Len(entries) => entries[j + 1] = Null
      <4>1. j < Len(entries) => new[j + 1] = Null
        BY <1>4, <1>10 DEF IsSpan
      <4>2. j < Len(entries) => j + 1 \in 1 .. Len(entries) /\ j + 1 # front + 1
        BY <1>1, <1>2, <1>3, <2>1
      <4> QED
        BY <1>4, <4>1, <4>2
    <3>6. IsSpan(front, entries, i, j)
      <4>1. i \in front + 1 .. Len(entries) /\ j \in i .. Len(entries)
        BY <1>1, <1>2, <1>3, <2>1
      <4> QED
        BY <3>3, <3>4, <3>5, <4>1 DEF IsSpan
    <3>7. IsRecorded(d, front, entries, i, j)
      BY <1>1, <1>4, <1>10, <3>6 DEF Spans
    <3>8. new[i] = entries[i] /\ new[j] = entries[j] /\ i # front + 1
      BY <1>1, <1>2, <1>3, <1>4, <2>1, <2>3
    <3> QED
      BY <1>1, <1>3, <1>4, <2>1, <3>2, <3>7, <3>8, RecordKept
  <2> QED
    BY <1>3, <2>1, <2>2, <2>3
<1> QED
  BY <1>10 DEF Spans, d, new

\* A pop takes away the first element and no other.
LEMMA PoppedElements ==
    ASSUME NEW b, MayPop(b)
    PROVE  LET d == base - front
               E == Elems(d, entries)
               left == Numbers(d, entries) \ {base}
           IN  Numbers(d, PoppedEntries) = left /\ Elems(d, PoppedEntries) = [m \in left |-> E[m]]
<1> DEFINE d == base - front
           new == PoppedEntries
           left == Numbers(d, entries) \ {base}
<1>1. /\ base \in Nat /\ front \in Nat /\ entries \in Seq(Cells) /\ front + 2 <= Len(entries)
  BY DEF MayPop
<1>2. Len(entries) \in Nat /\ d \in Int
  BY <1>1, CellsOf
<1>3. /\ new \in Seq(Cells) /\ Len(new) = Len(entries) /\ new[front + 1] = Null
      /\ \A k \in 1 .. Len(entries) : k # front + 1 =>
            /\ new[k] = Null <=> entries[k] = Null
            /\ entries[k] # Null => new[k].element = entries[k].element
  BY Popped
<1>4. \A n \in Int : n - d + 1 = front + 1 <=> n = base
  BY <1>1
<1> HIDE DEF d, new
<1>5. \A n \in Int : n \in Numbers(d, new) <=> n - d + 1 \in 1 .. Len(entries) /\ new[n - d + 1] # Null
  BY <1>2, <1>3, NumbersOf
<1>6. \A n \in Int : n \in Numbers(d, entries) <=> n - d + 1 \in 1 .. Len(entries) /\ entries[n - d + 1] # Null
  BY <1>1, <1>2, NumbersOf
<1>7. Numbers(d, new) \subseteq Int /\ Numbers(d, entries) \subseteq Int
  BY <1>1, <1>2, <1>3, NumbersOf
<1>8. \A n \in Int : n \in Numbers(d, new) <=> n \in left
  BY <1>3, <1>4, <1>5, <1>6
<1>9. Numbers(d, new) = left
  BY <1>7, <1>8
<1>10. ASSUME NEW m \in left
       PROVE  new[m - d + 1].element = Elems(d, entries)[m]
  <2>1. m \in Int /\ m # base /\ m - d + 1 \in 1 .. Len(entries) /\ entries[m - d + 1] # Null
    BY <1>6, <1>7
  <2>2. new[m - d + 1].element = entries[m - d + 1].element
    BY <1>3, <1>4, <2>1
  <2> QED
    BY <2>2 DEF Elems
<1> QED
  BY <1>9, <1>10 DEF Elems, d, new

============================================================================
