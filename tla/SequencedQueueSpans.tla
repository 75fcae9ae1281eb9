------------------------ MODULE SequencedQueueSpans ------------------------
(***************************************************************************)
(* The storage of a SequencedQueue: entries, spans of entries, and what is *)
(* recorded at the ends of a span.  Everything here is about any sequence  *)
(* of entries es, of which the first f are spent and the first of all has  *)
(* the number d.                                                           *)
(***************************************************************************)
EXTENDS SequencedQueue, SequenceTheorems, DataInduction

Cells == Entries \cup {Null}

\* The number of the element at position k, if that of position 1 is d.
Num(d, k) == d + k - 1

\* What the entries hold, by number.
Numbers(d, es) == {Num(d, k) : k \in {j \in 1 .. Len(es) : es[j] # Null}}
Elems(d, es) == [n \in Numbers(d, es) |-> es[n - d + 1].element]

\* Positions a to b hold an unbroken span of elements that cannot be extended.
IsSpan(f, es, a, b) ==
    /\ a \in f + 1 .. Len(es) /\ b \in a .. Len(es)
    /\ \A k \in a .. b : es[k] # Null
    /\ a > f + 1 => es[a - 1] = Null
    /\ b < Len(es) => es[b + 1] = Null

\* The ends of the span agree on its extent.  Where the span begins is of no
\* interest once some of it has been popped.
IsRecorded(d, f, es, a, b) ==
    /\ es[a].end = Num(d, b)
    /\ \A k \in {a, b} :
          /\ es[k].count = b - a + 1
          /\ es[k].size = Sum(Elems(d, es), Num(d, a) .. Num(d, b))
          /\ IF a = f + 1 THEN es[k].start <= Num(d, a) ELSE es[k].start = Num(d, a)

Spans(d, f, es) ==
    \A a, b \in 1 .. Len(es) : IsSpan(f, es, a, b) => IsRecorded(d, f, es, a, b)

Shape(f, es) ==
    /\ f \in Nat
    /\ es \in Seq(Cells)
    /\ IF es = <<>> THEN f = 0 ELSE f < Len(es)
    /\ \A k \in 1 .. f : es[k] = Null

Bounded(d, es) == \A k \in 1 .. Len(es) : es[k] # Null => Num(d, k) < MaxLength

----------------------------------------------------------------------------
(* The storage: what can be read off it, and how it is resized *)

\* Storage is a sequence of entries, as the vector entries_ is.
LEMMA CellsOf ==
    ASSUME NEW es \in Seq(Cells)
    PROVE  /\ Len(es) \in Nat /\ DOMAIN es = 1 .. Len(es) /\ (es = <<>> <=> Len(es) = 0)
           /\ \A k \in 1 .. Len(es) : es[k] # Null =>
                 /\ es[k] \in Entries /\ es[k].element \in Sizes /\ es[k].element \in Nat
                 /\ es[k].start \in Nat /\ es[k].end \in Nat
                 /\ es[k].count \in Nat /\ es[k].size \in Nat
<1>1. Len(es) \in Nat /\ DOMAIN es = 1 .. Len(es) /\ (es = <<>> <=> Len(es) = 0)
  BY LenProperties, EmptySeq
<1>2. \A k \in 1 .. Len(es) : es[k] \in Cells
  BY ElementOfSeq
<1> QED
  BY <1>1, <1>2, QueueAssumption DEF Cells, Entries

\* Resizing keeps the entries that fit, and fills up with empty ones.
LEMMA Resized ==
    ASSUME NEW es \in Seq(Cells), NEW len \in Nat
    PROVE  /\ Resize(es, len) \in Seq(Cells) /\ Len(Resize(es, len)) = len
           /\ \A k \in 1 .. len : Resize(es, len)[k] = IF k <= Len(es) THEN es[k] ELSE Null
<1> DEFINE r == Resize(es, len)
<1>1. \A k \in 1 .. len : k <= Len(es) => es[k] \in Cells
  BY LenProperties, ElementOfSeq
<1>2. r \in [1 .. len -> Cells]
  BY <1>1 DEF Resize, Cells
<1>3. r \in Seq(Cells)
  BY <1>2, SeqDef
<1>4. Len(r) = len
  <2>1. DOMAIN r = 1 .. len /\ DOMAIN r = 1 .. Len(r) /\ Len(r) \in Nat
    BY <1>2, <1>3, LenProperties
  <2> HIDE DEF r
  <2> QED
    BY <2>1
<1> QED
  BY <1>3, <1>4 DEF Resize

\* The numbers that are present are those of the positions that are not empty.
LEMMA NumbersOf ==
    ASSUME NEW es \in Seq(Cells), NEW d \in Int
    PROVE  /\ IsFiniteSet(Numbers(d, es)) /\ Numbers(d, es) \subseteq Int
           /\ \A n \in Int : n \in Numbers(d, es) <=>
                 n - d + 1 \in 1 .. Len(es) /\ es[n - d + 1] # Null
           /\ \A k \in 1 .. Len(es) : es[k] # Null =>
                 Num(d, k) \in Numbers(d, es) /\ Elems(d, es)[Num(d, k)] = es[k].element
<1> USE DEF Num
<1>1. Len(es) \in Nat
  BY CellsOf
<1>2. Numbers(d, es) \subseteq d .. d + Len(es)
  BY <1>1 DEF Numbers
<1>3. IsFiniteSet(Numbers(d, es))
  <2>1. IsFiniteSet(d .. d + Len(es))
    BY <1>1, FS_Interval
  <2> QED
    BY <1>2, <2>1, FS_Subset
<1>4. \A n \in Int : n \in Numbers(d, es) <=> n - d + 1 \in 1 .. Len(es) /\ es[n - d + 1] # Null
  BY <1>1 DEF Numbers
<1>5. \A k \in 1 .. Len(es) : es[k] # Null =>
         Num(d, k) \in Numbers(d, es) /\ Elems(d, es)[Num(d, k)] = es[k].element
  <2> SUFFICES ASSUME NEW k \in 1 .. Len(es), es[k] # Null
               PROVE  Num(d, k) \in Numbers(d, es) /\ Elems(d, es)[Num(d, k)] = es[k].element
    OBVIOUS
  <2>1. Num(d, k) - d + 1 = k /\ Num(d, k) \in Int
    BY <1>1
  <2> QED
    BY <1>4, <2>1 DEF Elems
<1> QED
  BY <1>1, <1>2, <1>3, <1>4, <1>5

----------------------------------------------------------------------------
(* Spans *)

\* Two spans that meet are the same.
LEMMA SpansAreDisjoint ==
    ASSUME NEW f \in Nat, NEW es \in Seq(Cells), NEW a, NEW b, NEW a2, NEW b2, NEW k \in Int,
           IsSpan(f, es, a, b), IsSpan(f, es, a2, b2), a <= k, k <= b, a2 <= k, k <= b2
    PROVE  a = a2 /\ b = b2
<1>1. Len(es) \in Nat
  BY CellsOf
<1> QED
  BY <1>1 DEF IsSpan

\* An element is followed by the rest of its span.
LEMMA SpanGoesOn ==
    ASSUME NEW f \in Nat, NEW es \in Seq(Cells), NEW p \in f + 1 .. Len(es), es[p] # Null
    PROVE  \E b \in p .. Len(es) :
              (\A k \in p .. b : es[k] # Null) /\ (b < Len(es) => es[b + 1] = Null)
<1> DEFINE S == {j \in Nat : p + j = Len(es) + 1 \/ (p + j <= Len(es) /\ es[p + j] = Null)}
<1>1. Len(es) \in Nat /\ Len(es) + 1 - p \in S
  BY CellsOf
<1>2. PICK j \in S : \A i \in S : j <= i
  BY <1>1, LeastNatural
<1>3. j # 0 /\ p + j - 1 \in p .. Len(es)
  BY <1>1
<1>4. \A k \in p .. p + j - 1 : es[k] # Null
  <2> SUFFICES ASSUME NEW k \in p .. p + j - 1, es[k] = Null PROVE FALSE
    OBVIOUS
  <2>1. k - p \in Nat /\ p + (k - p) = k /\ k <= Len(es) /\ k - p < j
    BY <1>1, <1>3
  <2> QED
    BY <1>2, <2>1
<1>5. p + j - 1 < Len(es) => es[(p + j - 1) + 1] = Null
  BY <1>1
<1> QED
  BY <1>3, <1>4, <1>5

\* And it is preceded by the beginning of its span.
LEMMA SpanBegins ==
    ASSUME NEW f \in Nat, NEW es \in Seq(Cells), NEW p \in f + 1 .. Len(es), es[p] # Null
    PROVE  \E a \in f + 1 .. p :
              (\A k \in a .. p : es[k] # Null) /\ (a > f + 1 => es[a - 1] = Null)
<1> DEFINE S == {j \in Nat : p - j = f \/ (p - j > f /\ es[p - j] = Null)}
<1>1. Len(es) \in Nat /\ p - f \in S
  BY CellsOf
<1>2. PICK j \in S : \A i \in S : j <= i
  BY <1>1, LeastNatural
<1>3. j # 0 /\ p - j + 1 \in f + 1 .. p
  BY <1>1
<1>4. \A k \in p - j + 1 .. p : es[k] # Null
  <2> SUFFICES ASSUME NEW k \in p - j + 1 .. p, es[k] = Null PROVE FALSE
    OBVIOUS
  <2>1. p - k \in Nat /\ p - (p - k) = k /\ k > f /\ p - k < j
    BY <1>1, <1>3
  <2> QED
    BY <1>2, <2>1
<1>5. p - j + 1 > f + 1 => es[(p - j + 1) - 1] = Null
  BY <1>1
<1> QED
  BY <1>3, <1>4, <1>5

\* An element that arrives at p joins the spans on both sides, positions a to
\* p - 1 and p + 1 to b, either of which may be missing.
Joins(f, es, p, a, b) ==
    /\ a \in f + 1 .. p /\ b \in p .. Len(es)
    /\ \A k \in a .. b : k # p => es[k] # Null
    /\ a > f + 1 => es[a - 1] = Null
    /\ b < Len(es) => es[b + 1] = Null
    /\ IF p > 1 /\ es[p - 1] # Null THEN a < p /\ IsSpan(f, es, a, p - 1) ELSE a = p
    /\ IF p < Len(es) /\ es[p + 1] # Null THEN p < b /\ IsSpan(f, es, p + 1, b) ELSE b = p

\* An empty position can always be filled so.
LEMMA SomethingJoins ==
    ASSUME NEW f \in Nat, NEW es \in Seq(Cells), \A k \in 1 .. f : es[k] = Null,
           NEW p \in f + 1 .. Len(es), es[p] = Null
    PROVE  \E a, b \in Int : Joins(f, es, p, a, b)
<1>1. Len(es) \in Nat
  BY CellsOf
<1>2. \E a \in f + 1 .. p :
         /\ \A k \in a .. p - 1 : es[k] # Null
         /\ a > f + 1 => es[a - 1] = Null
         /\ IF p > 1 /\ es[p - 1] # Null THEN a < p /\ IsSpan(f, es, a, p - 1) ELSE a = p
  <2>1. CASE p > 1 /\ es[p - 1] # Null
    <3>1. p - 1 \in f + 1 .. Len(es)
      BY <1>1, <2>1
    <3>2. PICK a \in f + 1 .. p - 1 :
             (\A k \in a .. p - 1 : es[k] # Null) /\ (a > f + 1 => es[a - 1] = Null)
      BY <2>1, <3>1, SpanBegins
    <3>3. IsSpan(f, es, a, p - 1) /\ a < p /\ a \in f + 1 .. p
      BY <1>1, <3>1, <3>2 DEF IsSpan
    <3> QED
      BY <2>1, <3>2, <3>3
  <2>2. CASE ~(p > 1 /\ es[p - 1] # Null)
    BY <1>1, <2>2
  <2> QED
    BY <2>1, <2>2
<1>3. \E b \in p .. Len(es) :
         /\ \A k \in p + 1 .. b : es[k] # Null
         /\ b < Len(es) => es[b + 1] = Null
         /\ IF p < Len(es) /\ es[p + 1] # Null THEN p < b /\ IsSpan(f, es, p + 1, b) ELSE b = p
  <2>1. CASE p < Len(es) /\ es[p + 1] # Null
    <3>1. p + 1 \in f + 1 .. Len(es)
      BY <1>1, <2>1
    <3>2. PICK b \in p + 1 .. Len(es) :
             (\A k \in p + 1 .. b : es[k] # Null) /\ (b < Len(es) => es[b + 1] = Null)
      BY <2>1, <3>1, SpanGoesOn
    <3>3. IsSpan(f, es, p + 1, b) /\ p < b /\ b \in p .. Len(es)
      BY <1>1, <3>1, <3>2 DEF IsSpan
    <3> QED
      BY <2>1, <3>2, <3>3
  <2>2. CASE ~(p < Len(es) /\ es[p + 1] # Null)
    BY <1>1, <2>2
  <2> QED
    BY <2>1, <2>2
<1>4. PICK a \in f + 1 .. p :
         /\ \A k \in a .. p - 1 : es[k] # Null
         /\ a > f + 1 => es[a - 1] = Null
         /\ IF p > 1 /\ es[p - 1] # Null THEN a < p /\ IsSpan(f, es, a, p - 1) ELSE a = p
  BY <1>2
<1>5. PICK b \in p .. Len(es) :
         /\ \A k \in p + 1 .. b : es[k] # Null
         /\ b < Len(es) => es[b + 1] = Null
         /\ IF p < Len(es) /\ es[p + 1] # Null THEN p < b /\ IsSpan(f, es, p + 1, b) ELSE b = p
  BY <1>3
<1>6. \A k \in a .. b : k # p => es[k] # Null
  BY <1>1, <1>4, <1>5
<1>7. Joins(f, es, p, a, b)
  BY <1>4, <1>5, <1>6 DEF Joins
<1> QED
  BY <1>1, <1>7

\* No position other than p, which was empty, changes from empty or to it.
Fills(es, new, p) ==
    /\ Len(new) = Len(es) /\ es[p] = Null /\ new[p] # Null
    /\ \A k \in 1 .. Len(es) : k # p => (new[k] = Null <=> es[k] = Null)

Apart(a, b, a2, b2) == \A k \in a .. b : k < a2 \/ b2 < k

\* Then the joint span is the only one that is new.
LEMMA OneSpanIsNew ==
    ASSUME NEW f \in Nat, NEW es \in Seq(Cells), NEW new \in Seq(Cells),
           NEW p \in f + 1 .. Len(es), NEW a \in Int, NEW b \in Int, Joins(f, es, p, a, b),
           Fills(es, new, p), NEW a2 \in Int, NEW b2 \in Int, IsSpan(f, new, a2, b2)
    PROVE  (a2 = a /\ b2 = b) \/ (IsSpan(f, es, a2, b2) /\ Apart(a, b, a2, b2))
<1> USE DEF Fills
<1>1. Len(es) \in Nat
  BY CellsOf
<1>2. /\ a \in f + 1 .. p /\ b \in p .. Len(es)
      /\ \A k \in a .. b : k # p => es[k] # Null
      /\ a > f + 1 => es[a - 1] = Null
      /\ b < Len(es) => es[b + 1] = Null
  BY DEF Joins
<1>3. IsSpan(f, new, a, b)
  <2>1. a \in f + 1 .. Len(new) /\ b \in a .. Len(new) /\ a .. b \subseteq 1 .. Len(es)
    BY <1>1, <1>2
  <2>2. \A k \in a .. b : new[k] # Null
    BY <1>2, <2>1
  <2>3. a > f + 1 => new[a - 1] = Null
    BY <1>1, <1>2
  <2>4. b < Len(new) => new[b + 1] = Null
    BY <1>1, <1>2
  <2> QED
    BY <2>1, <2>2, <2>3, <2>4 DEF IsSpan
<1>4. p \in a .. b
  BY <1>1, <1>2
<1>5. ASSUME NEW k \in a .. b, a2 <= k, k <= b2 PROVE a2 = a /\ b2 = b
  <2>1. k \in Int /\ a <= k /\ k <= b
    OBVIOUS
  <2> QED
    BY <1>3, <1>5, <2>1, SpansAreDisjoint, Zenon
<1>6. CASE \A k \in a .. b : ~(a2 <= k /\ k <= b2)
  <2>1. ~(a2 <= p /\ p <= b2)
    BY <1>4, <1>6, Zenon
  <2>2. p < a2 \/ b2 < p
    BY <2>1
  <2>3. a2 - 1 # p /\ b2 + 1 # p
    BY <1>1 DEF IsSpan
  <2>4. IsSpan(f, es, a2, b2)
    <3>1. /\ a2 \in f + 1 .. Len(es) /\ b2 \in a2 .. Len(es)
          /\ \A k \in a2 .. b2 : new[k] # Null
          /\ a2 > f + 1 => new[a2 - 1] = Null
          /\ b2 < Len(es) => new[b2 + 1] = Null
      BY DEF IsSpan
    <3>2. \A k \in a2 .. b2 : k # p /\ k \in 1 .. Len(es)
      BY <1>1, <2>2, <3>1
    <3>3. \A k \in a2 .. b2 : es[k] # Null
      BY <3>1, <3>2
    <3>4. a2 > f + 1 => es[a2 - 1] = Null
      BY <1>1, <2>3, <3>1
    <3>5. b2 < Len(es) => es[b2 + 1] = Null
      BY <1>1, <2>3, <3>1
    <3> QED
      BY <3>1, <3>3, <3>4, <3>5 DEF IsSpan
  <2>5. \A k \in a .. b : k < a2 \/ b2 < k
    <3> SUFFICES ASSUME NEW k \in a .. b PROVE k < a2 \/ b2 < k
      OBVIOUS
    <3>1. ~(a2 <= k /\ k <= b2)
      BY <1>6, Zenon
    <3>2. k \in Int
      OBVIOUS
    <3> QED
      BY <3>1, <3>2
  <2> QED
    BY <2>4, <2>5 DEF Apart
<1> QED
  BY <1>5, <1>6

\* What can be popped is the span that begins at the front.
LEMMA FirstSpan ==
    ASSUME NEW d \in Int, NEW f, NEW es, Shape(f, es), Spans(d, f, es), es # <<>>, es[f + 1] # Null
    PROVE  \E b \in f + 1 .. Len(es) : IsSpan(f, es, f + 1, b) /\ IsRecorded(d, f, es, f + 1, b)
<1>1. es \in Seq(Cells) /\ f \in Nat /\ f < Len(es) /\ Len(es) \in Nat
  BY CellsOf DEF Shape
<1>2. f + 1 \in f + 1 .. Len(es) /\ f + 1 \in 1 .. Len(es)
  BY <1>1
<1>3. PICK b \in f + 1 .. Len(es) :
         (\A k \in f + 1 .. b : es[k] # Null) /\ (b < Len(es) => es[b + 1] = Null)
  BY <1>1, <1>2, SpanGoesOn
<1>4. IsSpan(f, es, f + 1, b)
  BY <1>1, <1>2, <1>3 DEF IsSpan
<1>5. b \in 1 .. Len(es)
  BY <1>1, <1>3
<1>6. IsRecorded(d, f, es, f + 1, b)
  BY <1>2, <1>4, <1>5 DEF Spans
<1> QED
  BY <1>4, <1>6

----------------------------------------------------------------------------
(* The queue that storage represents *)

\* An empty map of numbers to elements is the empty sequence.
LEMMA NoElements ==
    ASSUME NEW es \in Seq(Cells), NEW d \in Int, Numbers(d, es) = {}
    PROVE  Elems(d, es) = <<>>
<1>1. Elems(d, es) \in [1 .. 0 -> {}]
  BY DEF Elems
<1>2. Elems(d, es) \in Seq({})
  BY <1>1, SeqDef
<1>3. Len(Elems(d, es)) = 0
  <2> DEFINE g == Elems(d, es)
  <2>1. g \in Seq({}) /\ DOMAIN g = {}
    BY <1>1, <1>2
  <2> HIDE DEF g
  <2>2. Len(g) \in Nat /\ 1 .. Len(g) = {}
    BY <2>1, LenProperties
  <2>3. Len(g) = 0
    <3>1. CASE Len(g) >= 1
      <4>1. 1 \in 1 .. Len(g)
        BY <2>2, <3>1
      <4> QED
        BY <2>2, <4>1
    <3> QED
      BY <2>2, <3>1
  <2> QED
    BY <2>3 DEF g
<1> QED
  BY <1>2, <1>3, EmptySeq

\* Storage that ResetStorage() has cleared holds nothing.
LEMMA EmptyStorage ==
    ASSUME NEW d \in Int
    PROVE  /\ Shape(0, <<>>) /\ Spans(d, 0, <<>>) /\ Bounded(d, <<>>) /\ Len(<<>>) = 0
           /\ Numbers(d, <<>>) = {} /\ Elems(d, <<>>) = [m \in {} |-> m]
<1>1. <<>> \in Seq(Cells) /\ Len(<<>>) = 0
  BY EmptySeq, CellsOf
<1>2. 1 .. Len(<<>>) = {} /\ 1 .. 0 = {}
  BY <1>1
<1>3. Numbers(d, <<>>) = {}
  BY <1>2 DEF Numbers
<1> QED
  BY <1>1, <1>2, <1>3 DEF Shape, Spans, Bounded, Elems

----------------------------------------------------------------------------
(* The spans that a step leaves alone *)

\* Positions i to j hold the same elements.
SameElements(es, new, i, j) ==
    /\ i >= 1 /\ j <= Len(es) /\ j <= Len(new)
    /\ \A k \in i .. j : es[k] # Null /\ new[k] # Null /\ new[k].element = es[k].element

\* So their sizes add up to the same.
LEMMA SumsKept ==
    ASSUME NEW d \in Int, NEW es \in Seq(Cells), NEW new \in Seq(Cells),
           NEW i \in Int, NEW j \in Int, SameElements(es, new, i, j)
    PROVE  /\ Sum(Elems(d, new), Num(d, i) .. Num(d, j)) = Sum(Elems(d, es), Num(d, i) .. Num(d, j))
           /\ \A m \in Num(d, i) .. Num(d, j) : Elems(d, es)[m] \in Nat
<1>1. Len(es) \in Nat /\ Len(new) \in Nat
  BY CellsOf
<1>2. ASSUME NEW m \in Num(d, i) .. Num(d, j)
      PROVE  Elems(d, new)[m] = Elems(d, es)[m] /\ Elems(d, es)[m] \in Nat
  <2>1. m \in Int /\ m - d + 1 \in i .. j /\ m = Num(d, m - d + 1)
    BY DEF Num
  <2>2. PICK k \in i .. j : m = Num(d, k)
    BY <2>1
  <2>3. k \in 1 .. Len(es) /\ k \in 1 .. Len(new)
    BY <1>1 DEF SameElements
  <2>4. es[k] # Null /\ new[k] # Null /\ new[k].element = es[k].element
    BY DEF SameElements
  <2>5. Elems(d, new)[m] = new[k].element
    BY <2>2, <2>3, <2>4, NumbersOf
  <2>6. Elems(d, es)[m] = es[k].element
    BY <2>2, <2>3, <2>4, NumbersOf
  <2>7. es[k].element \in Nat
    BY <2>3, <2>4, CellsOf
  <2> QED
    BY <2>4, <2>5, <2>6, <2>7
<1>3. IsFiniteSet(Num(d, i) .. Num(d, j))
  <2>1. Num(d, i) \in Int /\ Num(d, j) \in Int
    BY DEF Num
  <2> QED
    BY <2>1, FS_Interval
<1> QED
  BY <1>2, <1>3, SumOfEqual

\* And the record of a span stays right if its two ends are left alone.
LEMMA RecordKept ==
    ASSUME NEW d \in Int, NEW es \in Seq(Cells), NEW new \in Seq(Cells), NEW f, NEW g,
           NEW i \in Int, NEW j \in Int, IsRecorded(d, f, es, i, j), SameElements(es, new, i, j),
           new[i] = es[i], new[j] = es[j], i = f + 1 => g = f
    PROVE  IsRecorded(d, g, new, i, j)
<1>1. Sum(Elems(d, new), Num(d, i) .. Num(d, j)) = Sum(Elems(d, es), Num(d, i) .. Num(d, j))
  BY SumsKept
<1>2. new[i].end = Num(d, j)
  BY DEF IsRecorded
<1>3. ASSUME NEW k \in {i, j}
      PROVE  /\ new[k].count = j - i + 1
             /\ new[k].size = Sum(Elems(d, es), Num(d, i) .. Num(d, j))
             /\ IF i = g + 1 THEN new[k].start <= Num(d, i) ELSE new[k].start = Num(d, i)
  <2>1. new[k] = es[k]
    OBVIOUS
  <2>2. /\ es[k].count = j - i + 1
        /\ es[k].size = Sum(Elems(d, es), Num(d, i) .. Num(d, j))
        /\ IF i = f + 1 THEN es[k].start <= Num(d, i) ELSE es[k].start = Num(d, i)
    BY DEF IsRecorded
  <2>3. Num(d, i) <= Num(d, i)
    BY DEF Num
  <2> QED
    BY <2>1, <2>2, <2>3
<1> QED
  BY <1>1, <1>2, <1>3 DEF IsRecorded

\* Room for more elements changes nothing: PushElement() and
\* SetFinalSequenceLength() add empty entries at the end.
LEMMA Padded ==
    ASSUME NEW d \in Int, NEW f \in Nat, NEW es \in Seq(Cells), NEW len \in Nat, Len(es) <= len
    PROVE  /\ Numbers(d, Resize(es, len)) = Numbers(d, es)
           /\ Elems(d, Resize(es, len)) = Elems(d, es)
           /\ Spans(d, f, es) => Spans(d, f, Resize(es, len))
<1> DEFINE r == Resize(es, len)
<1>1. /\ r \in Seq(Cells) /\ Len(r) = len
      /\ \A k \in 1 .. len : r[k] = IF k <= Len(es) THEN es[k] ELSE Null
  BY Resized
<1>2. Len(es) \in Nat
  BY CellsOf
<1> HIDE DEF r
<1>3. \A k \in 1 .. Len(es) : r[k] = es[k] /\ k \in 1 .. len
  BY <1>1, <1>2
<1>4. Numbers(d, r) = Numbers(d, es)
  <2>1. \A n \in Int : n \in Numbers(d, es) <=> n - d + 1 \in 1 .. Len(es) /\ es[n - d + 1] # Null
    BY NumbersOf
  <2>2. \A n \in Int : n \in Numbers(d, r) <=> n - d + 1 \in 1 .. Len(r) /\ r[n - d + 1] # Null
    BY <1>1, NumbersOf
  <2>3. Numbers(d, es) \subseteq Int /\ Numbers(d, r) \subseteq Int
    BY <1>1, NumbersOf
  <2>4. \A n \in Int : n \in Numbers(d, es) <=> n \in Numbers(d, r)
    BY <1>1, <1>2, <1>3, <2>1, <2>2
  <2> QED
    BY <2>3, <2>4
<1>5. \A n \in Numbers(d, es) : r[n - d + 1] = es[n - d + 1]
  <2>1. \A n \in Numbers(d, es) : n - d + 1 \in 1 .. Len(es)
    BY NumbersOf
  <2> QED
    BY <1>3, <2>1
<1>6. Elems(d, r) = Elems(d, es)
  BY <1>4, <1>5 DEF Elems
<1>7. ASSUME Spans(d, f, es), NEW i \in 1 .. Len(r), NEW j \in 1 .. Len(r), IsSpan(f, r, i, j)
      PROVE  IsRecorded(d, f, r, i, j)
  <2>1. i \in Int /\ j \in Int /\ i <= j /\ f + 1 <= i /\ \A k \in i .. j : r[k] # Null
    BY <1>7 DEF IsSpan
  <2>2. j <= Len(es)
    BY <1>1, <1>2, <2>1
  <2>3. i \in 1 .. Len(es) /\ j \in 1 .. Len(es)
    BY <1>2, <2>1, <2>2
  <2>4. \A k \in i .. j : k \in 1 .. Len(es) /\ es[k] # Null
    BY <1>2, <1>3, <2>1, <2>3
  <2>5. IsSpan(f, es, i, j)
    BY <1>1, <1>2, <1>3, <1>7, <2>3, <2>4 DEF IsSpan
  <2>6. IsRecorded(d, f, es, i, j)
    BY <1>7, <2>3, <2>5 DEF Spans
  <2>7. SameElements(es, r, i, j)
    BY <1>1, <1>2, <1>3, <2>1, <2>3, <2>4 DEF SameElements
  <2> QED
    BY <1>1, <1>3, <2>1, <2>3, <2>6, <2>7, RecordKept
<1> QED
  BY <1>4, <1>6, <1>7 DEF r, Spans

\* Nor does it matter to the spans when the front moves over an empty entry.
LEMMA SkippedSpans ==
    ASSUME NEW d \in Int, NEW f \in Nat, NEW es \in Seq(Cells), Spans(d, f, es),
           f + 1 <= Len(es), es[f + 1] = Null
    PROVE  Spans(d, f + 1, es)
<1>1. Len(es) \in Nat
  BY CellsOf
<1>2. ASSUME NEW i \in 1 .. Len(es), NEW j \in 1 .. Len(es), IsSpan(f + 1, es, i, j)
      PROVE  IsRecorded(d, f + 1, es, i, j)
  <2>1. i \in Int /\ j \in Int /\ i <= j /\ f + 2 <= i /\ \A k \in i .. j : es[k] # Null
    BY <1>2 DEF IsSpan
  <2>2. IsSpan(f, es, i, j)
    <3>1. es[i - 1] = Null
      BY <1>2, <2>1 DEF IsSpan
    <3> QED
      BY <1>1, <1>2, <2>1, <3>1 DEF IsSpan
  <2>3. IsRecorded(d, f, es, i, j)
    BY <2>2 DEF Spans
  <2>4. SameElements(es, es, i, j)
    BY <1>1, <2>1 DEF SameElements
  <2> QED
    BY <2>1, <2>3, <2>4, RecordKept
<1> QED
  BY <1>2 DEF Spans

\* Storage that is cut off after its first span holds that span, as
\* ForceTerminateSequence() leaves it.
LEMMA Truncated ==
    ASSUME NEW d \in Int, NEW f, NEW es, Shape(f, es), Spans(d, f, es),
           NEW b \in f + 1 .. Len(es), IsSpan(f, es, f + 1, b)
    PROVE  /\ Numbers(d, Resize(es, b)) = Num(d, f + 1) .. Num(d, b)
           /\ Elems(d, Resize(es, b)) = Restrict(Elems(d, es), Num(d, f + 1) .. Num(d, b))
           /\ Spans(d, f, Resize(es, b))
<1> DEFINE r == Resize(es, b)
<1>1. f \in Nat /\ es \in Seq(Cells) /\ \A k \in 1 .. f : es[k] = Null
  BY DEF Shape
<1>2. Len(es) \in Nat /\ b \in Nat /\ f + 1 <= b /\ b <= Len(es)
  BY <1>1, CellsOf
<1>3. /\ r \in Seq(Cells) /\ Len(r) = b
      /\ \A k \in 1 .. b : r[k] = IF k <= Len(es) THEN es[k] ELSE Null
  BY <1>1, <1>2, Resized
<1> HIDE DEF r
<1>4. \A k \in 1 .. b : r[k] = es[k] /\ k \in 1 .. Len(es)
  BY <1>1, <1>2, <1>3
<1>5. \A k \in 1 .. b : r[k] # Null <=> k >= f + 1
  <2>1. \A k \in f + 1 .. b : es[k] # Null
    BY DEF IsSpan
  <2> QED
    BY <1>1, <1>2, <1>4, <2>1
<1>6. Numbers(d, r) = Num(d, f + 1) .. Num(d, b)
  <2>1. \A n \in Int : n \in Numbers(d, r) <=> n - d + 1 \in 1 .. Len(r) /\ r[n - d + 1] # Null
    BY <1>1, <1>3, NumbersOf
  <2>2. Numbers(d, r) \subseteq Int
    BY <1>1, <1>3, NumbersOf
  <2>3. \A n \in Int : n - d + 1 \in 1 .. Len(r) /\ r[n - d + 1] # Null <=> n - d + 1 \in f + 1 .. b
    BY <1>1, <1>2, <1>3, <1>5
  <2>4. \A n \in Int : n - d + 1 \in f + 1 .. b <=> n \in Num(d, f + 1) .. Num(d, b)
    BY <1>1, <1>2 DEF Num
  <2>5. \A n \in Int : n \in Numbers(d, r) <=> n \in Num(d, f + 1) .. Num(d, b)
    BY <2>1, <2>3, <2>4, Zenon
  <2>6. Num(d, f + 1) .. Num(d, b) \subseteq Int
    OBVIOUS
  <2> QED
    BY <2>2, <2>5, <2>6, Zenon
<1>7. Elems(d, r) = [m \in Num(d, f + 1) .. Num(d, b) |-> Elems(d, es)[m]]
  <2>1. ASSUME NEW m \in Num(d, f + 1) .. Num(d, b)
        PROVE  r[m - d + 1].element = Elems(d, es)[m]
    <3>1. m \in Int /\ m - d + 1 \in f + 1 .. b /\ m - d + 1 \in 1 .. b
      BY <1>1, <1>2 DEF Num
    <3>2. r[m - d + 1] = es[m - d + 1] /\ es[m - d + 1] # Null /\ m - d + 1 \in 1 .. Len(es)
      BY <1>1, <1>2, <1>4, <1>5, <3>1
    <3>3. m \in Numbers(d, es)
      BY <1>1, <3>1, <3>2, NumbersOf
    <3> QED
      BY <3>2, <3>3 DEF Elems
  <2> QED
    BY <1>6, <2>1 DEF Elems
<1>8. ASSUME NEW i \in 1 .. Len(r), NEW j \in 1 .. Len(r), IsSpan(f, r, i, j)
      PROVE  IsRecorded(d, f, r, i, j)
  <2>1. i \in Int /\ j \in Int /\ i <= j /\ f + 1 <= i /\ j <= b /\ i <= b
    BY <1>1, <1>2, <1>3, <1>8 DEF IsSpan
  <2>2. i = f + 1
    <3>1. i > f + 1 => r[i - 1] = Null
      BY <1>8 DEF IsSpan
    <3> QED
      BY <1>1, <1>2, <1>5, <2>1, <3>1
  <2>3. j = b
    <3>1. j < b => r[j + 1] = Null
      BY <1>3, <1>8 DEF IsSpan
    <3> QED
      BY <1>1, <1>2, <1>5, <2>1, <3>1
  <2>4. IsRecorded(d, f, es, f + 1, b)
    BY <1>1, <1>2 DEF Spans
  <2>5. SameElements(es, r, f + 1, b)
    BY <1>1, <1>2, <1>3, <1>4, <1>5 DEF SameElements
  <2>6. r[f + 1] = es[f + 1] /\ r[b] = es[b]
    BY <1>1, <1>2, <1>4
  <2> QED
    BY <1>1, <1>3, <2>1, <2>2, <2>3, <2>4, <2>5, <2>6, RecordKept
<1> QED
  BY <1>6, <1>7, <1>8 DEF r, Spans, Restrict

============================================================================
