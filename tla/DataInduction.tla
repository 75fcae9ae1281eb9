--------------------------- MODULE DataInduction ---------------------------
(***************************************************************************)
(* Induction over numbers and finite sets, and what it shows of sums.  The *)
(* principles are stated for a set instead of a predicate.                 *)
(***************************************************************************)
EXTENDS FiniteSetsExt, FiniteSetTheorems, WellFoundedInduction, TLAPS

\* A set of natural numbers that is not empty has a least member.
LEMMA LeastNatural ==
    ASSUME NEW S \in SUBSET Nat, S # {}
    PROVE  \E x \in S : \A y \in S : x <= y
<1>1. \E x \in S : \A y \in S : ~(<<y, x>> \in OpToRel(<, Nat))
  BY WFMin, NatLessThanWellFounded
<1>2. \A x, y \in Nat : <<y, x>> \in OpToRel(<, Nat) <=> y < x
  BY DEF OpToRel
<1>3. \E x \in S : \A y \in S : ~(y < x)
  BY <1>1, <1>2, Zenon
<1> QED
  BY <1>3

\* A set that holds 0, and with every number its successor, holds all numbers.
LEMMA SetInduction ==
    ASSUME NEW S, 0 \in S, \A n \in Nat : n \in S => n + 1 \in S
    PROVE  \A n \in Nat : n \in S
<1> SUFFICES ASSUME Nat \ S # {} PROVE FALSE
  OBVIOUS
<1>1. PICK x \in Nat \ S : \A y \in Nat \ S : x <= y
  BY LeastNatural
<1>2. x # 0 /\ x - 1 \in Nat /\ (x - 1) + 1 = x /\ ~(x <= x - 1)
  OBVIOUS
<1> QED
  BY <1>1, <1>2

\* A family of finite subsets of a finite set that holds every set all of whose
\* smaller subsets it holds, holds all subsets.
LEMMA SubsetInduction ==
    ASSUME NEW S, IsFiniteSet(S), NEW F,
           \A T \in SUBSET S : (\A U \in SUBSET T : U # T => U \in F) => T \in F
    PROVE  \A T \in SUBSET S : T \in F
<1> DEFINE P == SUBSET S
           R == StrictSubsetOrdering(S)
           T == P \ F
<1>1. P = FiniteSubsetsOf(S) /\ IsWellFoundedOn(R, FiniteSubsetsOf(S))
  BY FS_StrictSubsetOrderingWellFounded, FS_FiniteSubsetsOfFinite
<1>2. \A x, y \in P : <<y, x>> \in R <=> y \subseteq x /\ y # x
  BY DEF StrictSubsetOrdering
<1>3. T \subseteq P
  OBVIOUS
<1> SUFFICES ASSUME T # {} PROVE FALSE
  OBVIOUS
<1>4. \E x \in T : \A y \in T : ~(y \subseteq x /\ y # x)
  <2> HIDE DEF P, R, T
  <2>1. IsWellFoundedOn(R, P)
    BY <1>1
  <2>2. \E x \in T : \A y \in T : ~(<<y, x>> \in R)
    BY <2>1, <1>3, WFMin
  <2>3. PICK x \in T : \A y \in T : ~(<<y, x>> \in R)
    BY <2>2
  <2>4. \A y \in T : ~(y \subseteq x /\ y # x)
    BY <2>3, <1>2, <1>3, Zenon
  <2> QED
    BY <2>4
<1> QED
  BY <1>4
----------------------------------------------------------------------------
\* The sum of the values of f over a finite set.
Sum(f, S) == MapThenSumSet(LAMBDA x : f[x], S)

Choice(s) == CHOOSE x \in s : TRUE

\* g sums up f over every subset of S.
Sums(g, f, S) ==
    g = [s \in SUBSET S |-> IF s = {} THEN 0 ELSE f[Choice(s)] + g[s \ {Choice(s)}]]

Summation(f, S) == CHOOSE g : Sums(g, f, S)

\* A sum as the library defines it, over a set of sizes of a queue, is the
\* summation's value for the whole set.
LEMMA SumUnfolded ==
    ASSUME NEW f, NEW S
    PROVE  Sum(f, S) = Summation(f, S)[S]
BY DEF Sum, MapThenSumSet, MapThenFoldSet, Summation, Sums, Choice

\* Where the functions agree, so do their sums.
LEMMA SumsAgree ==
    ASSUME NEW S, IsFiniteSet(S), NEW U \in SUBSET S, NEW e, NEW f, NEW g, NEW h,
           \A x \in U : e[x] = f[x], Sums(g, e, S), Sums(h, f, U)
    PROVE  \A s \in SUBSET U : g[s] = h[s]
<1> DEFINE F == {s \in SUBSET U : g[s] = h[s]}
<1>1. IsFiniteSet(U)
  BY FS_Subset
<1>2. ASSUME NEW T \in SUBSET U, \A V \in SUBSET T : V # T => V \in F PROVE T \in F
  <2>1. CASE T = {}
    BY <2>1 DEF Sums
  <2>2. CASE T # {}
    <3> DEFINE c == Choice(T)
    <3>1. c \in T
      BY <2>2 DEF Choice
    <3>2. T \ {c} \in SUBSET T /\ T \ {c} # T
      BY <3>1
    <3>3. g[T \ {c}] = h[T \ {c}]
      BY <3>2, <1>2
    <3>4. g[T] = e[c] + g[T \ {c}] /\ h[T] = f[c] + h[T \ {c}]
      BY <2>2 DEF Sums
    <3> QED
      BY <3>1, <3>3, <3>4
  <2> QED
    BY <2>1, <2>2
<1> HIDE DEF F
<1>3. \A s \in SUBSET U : s \in F
  BY <1>1, <1>2, SubsetInduction
<1> QED
  BY <1>3 DEF F

\* Every finite set has a summation: the recursion comes to an end.
LEMMA SumsExist ==
    ASSUME NEW S, IsFiniteSet(S), NEW f
    PROVE  \E g : Sums(g, f, S)
<1> DEFINE F == {T \in SUBSET S : \E g : Sums(g, f, T)}
           h(s) == Summation(f, s)
<1>1. ASSUME NEW T \in SUBSET S, \A V \in SUBSET T : V # T => V \in F PROVE T \in F
  <2> DEFINE c == Choice(T)
             g == [s \in SUBSET T |->
                      IF s # T THEN h(s)[s]
                      ELSE IF T = {} THEN 0 ELSE f[c] + h(T \ {c})[T \ {c}]]
  <2>1. \A s \in SUBSET T : s # T => Sums(h(s), f, s)
    BY <1>1 DEF Summation
  <2>2. ASSUME NEW s \in SUBSET T, s # T, s # {}
        PROVE  g[s] = f[Choice(s)] + g[s \ {Choice(s)}]
    <3> DEFINE u == s \ {Choice(s)}
    <3>1. Choice(s) \in s
      BY <2>2 DEF Choice
    <3>2. u \in SUBSET s /\ u \in SUBSET T /\ u # T /\ s \in SUBSET S
      BY <2>2, <3>1
    <3>3. Sums(h(s), f, s) /\ Sums(h(u), f, u) /\ IsFiniteSet(s)
      BY <2>1, <2>2, <3>2, FS_Subset
    <3>4. h(s)[u] = h(u)[u]
      <4> HIDE DEF h, u
      <4>1. \A w \in SUBSET u : h(s)[w] = h(u)[w]
        BY <3>2, <3>3, SumsAgree
      <4> QED
        BY <4>1
    <3>5. h(s)[s] = f[Choice(s)] + h(s)[u]
      BY <2>2, <3>3 DEF Sums
    <3> QED
      BY <2>2, <3>2, <3>4, <3>5
  <2>3. \A s \in SUBSET T : s # T /\ s = {} => g[s] = 0
    BY <2>1 DEF Sums
  <2>4. T # {} => g[T] = f[c] + g[T \ {c}]
    BY DEF Choice
  <2>5. g[T] = IF T = {} THEN 0 ELSE f[c] + g[T \ {c}]
    BY <2>4
  <2>6. Sums(g, f, T)
    <3>1. \A s \in SUBSET T : g[s] = IF s = {} THEN 0 ELSE f[Choice(s)] + g[s \ {Choice(s)}]
      BY <2>2, <2>3, <2>5
    <3>2. g = [s \in SUBSET T |-> g[s]]
      OBVIOUS
    <3> HIDE DEF g
    <3> QED
      BY <3>1, <3>2 DEF Sums
  <2> QED
    BY <2>6
<1> HIDE DEF F
<1>2. \A T \in SUBSET S : T \in F
  BY <1>1, SubsetInduction
<1> QED
  BY <1>2 DEF F

\* The sum does not depend on what f is outside of the set.
LEMMA SumOfEqual ==
    ASSUME NEW S, IsFiniteSet(S), NEW e, NEW f, \A x \in S : e[x] = f[x]
    PROVE  Sum(e, S) = Sum(f, S)
<1>1. Sums(Summation(e, S), e, S) /\ Sums(Summation(f, S), f, S)
  BY SumsExist DEF Summation
<1>2. \A s \in SUBSET S : Summation(e, S)[s] = Summation(f, S)[s]
  BY <1>1, SumsAgree
<1> QED
  BY <1>2, SumUnfolded

\* An empty span has the size 0.
LEMMA SumOfNone ==
    ASSUME NEW f
    PROVE  Sum(f, {}) = 0
<1>1. Sums(Summation(f, {}), f, {})
  BY SumsExist, FS_EmptySet DEF Summation
<1> QED
  BY <1>1, SumUnfolded DEF Sums

\* The chosen member is counted first.
LEMMA SumOfChosen ==
    ASSUME NEW S, IsFiniteSet(S), NEW f, S # {}
    PROVE  Sum(f, S) = f[Choice(S)] + Sum(f, S \ {Choice(S)})
<1> DEFINE T == S \ {Choice(S)}
<1>1. IsFiniteSet(T)
  BY FS_Subset
<1>2. Sums(Summation(f, S), f, S) /\ Sums(Summation(f, T), f, T)
  BY <1>1, SumsExist DEF Summation
<1>3. Summation(f, S)[T] = Summation(f, T)[T]
  BY <1>2, SumsAgree
<1>4. Summation(f, S)[S] = f[Choice(S)] + Summation(f, S)[T]
  BY <1>2 DEF Sums
<1> QED
  BY <1>3, <1>4, SumUnfolded

\* Sizes add up to a size.
LEMMA SumType ==
    ASSUME NEW S, IsFiniteSet(S), NEW f, \A x \in S : f[x] \in Nat
    PROVE  Sum(f, S) \in Nat
<1> DEFINE F == {T \in SUBSET S : Sum(f, T) \in Nat}
<1>1. ASSUME NEW T \in SUBSET S, \A V \in SUBSET T : V # T => V \in F PROVE T \in F
  <2>1. CASE T = {}
    BY <2>1, SumOfNone
  <2>2. CASE T # {}
    <3>1. Choice(T) \in T
      BY <2>2 DEF Choice
    <3>2. T \ {Choice(T)} \in SUBSET T /\ T \ {Choice(T)} # T
      BY <3>1
    <3>3. Sum(f, T \ {Choice(T)}) \in Nat
      BY <1>1, <3>2
    <3>4. Sum(f, T) = f[Choice(T)] + Sum(f, T \ {Choice(T)})
      BY <2>2, SumOfChosen, FS_Subset
    <3> QED
      BY <3>1, <3>3, <3>4
  <2> QED
    BY <2>1, <2>2
<1> HIDE DEF F
<1>2. \A T \in SUBSET S : T \in F
  BY <1>1, SubsetInduction
<1> QED
  BY <1>2 DEF F

\* A sum grows by the value of the member that is added, whichever that is.
LEMMA SumOfAdded ==
    ASSUME NEW S, IsFiniteSet(S), NEW f, \A x \in S : f[x] \in Nat, NEW z \in S
    PROVE  Sum(f, S) = f[z] + Sum(f, S \ {z})
<1> DEFINE F == {T \in SUBSET S : \A x \in T : Sum(f, T) = f[x] + Sum(f, T \ {x})}
<1>1. ASSUME NEW T \in SUBSET S, \A V \in SUBSET T : V # T => V \in F, NEW x \in T
      PROVE  Sum(f, T) = f[x] + Sum(f, T \ {x})
  <2> DEFINE c == Choice(T)
             both == T \ {c, x}
  <2>1. c \in T
    BY DEF Choice
  <2>2. Sum(f, T) = f[c] + Sum(f, T \ {c})
    BY SumOfChosen, FS_Subset
  <2>3. CASE x = c
    BY <2>2, <2>3
  <2>4. CASE x # c
    <3>1. T \ {c} \in F /\ T \ {x} \in F
      BY <1>1, <2>1
    <3>2. x \in T \ {c} /\ c \in T \ {x} /\ (T \ {c}) \ {x} = both /\ (T \ {x}) \ {c} = both
      BY <2>1, <2>4
    <3>3. Sum(f, T \ {c}) = f[x] + Sum(f, both) /\ Sum(f, T \ {x}) = f[c] + Sum(f, both)
      BY <3>1, <3>2
    <3>4. Sum(f, both) \in Nat
      BY SumType, FS_Subset
    <3> HIDE DEF c, both
    <3> QED
      BY <2>1, <2>2, <3>3, <3>4
  <2> QED
    BY <2>3, <2>4
<1>2. \A T \in SUBSET S : (\A V \in SUBSET T : V # T => V \in F) => T \in F
  BY <1>1
<1> HIDE DEF F
<1>3. \A T \in SUBSET S : T \in F
  BY <1>2, SubsetInduction
<1> QED
  BY <1>3 DEF F

\* Two disjoint sets of elements have the sum of their sizes.
LEMMA SumOfUnion ==
    ASSUME NEW S, IsFiniteSet(S), NEW f, \A x \in S : f[x] \in Nat, NEW U \in SUBSET S
    PROVE  Sum(f, S) = Sum(f, S \ U) + Sum(f, U)
<1> DEFINE F == {T \in SUBSET U : Sum(f, S) = Sum(f, S \ T) + Sum(f, T)}
<1>1. ASSUME NEW T \in SUBSET U, \A V \in SUBSET T : V # T => V \in F
      PROVE  T \in F
  <2>1. CASE T = {}
    <3>1. S \ T = S /\ Sum(f, S) \in Nat
      BY <2>1, SumType
    <3> QED
      BY <2>1, <3>1, SumOfNone
  <2>2. CASE T # {}
    <3>1. PICK x \in T : TRUE
      BY <2>2
    <3> DEFINE V == T \ {x}
    <3>2. V \in F
      BY <1>1
    <3>3. IsFiniteSet(T) /\ IsFiniteSet(V) /\ IsFiniteSet(S \ V) /\ IsFiniteSet(S \ T)
      BY FS_Subset
    <3>4. x \in S \ V /\ (S \ V) \ {x} = S \ T
      OBVIOUS
    <3>5. Sum(f, S \ V) = f[x] + Sum(f, S \ T)
      BY <3>3, <3>4, SumOfAdded
    <3>6. Sum(f, T) = f[x] + Sum(f, V)
      BY <3>3, SumOfAdded
    <3>7. Sum(f, V) \in Nat /\ Sum(f, S \ T) \in Nat /\ f[x] \in Nat
      BY <3>3, SumType
    <3>8. Sum(f, S) = Sum(f, S \ V) + Sum(f, V)
      BY <3>2
    <3> HIDE DEF V
    <3> QED
      BY <3>5, <3>6, <3>7, <3>8
  <2> QED
    BY <2>1, <2>2
<1>2. IsFiniteSet(U)
  BY FS_Subset
<1> HIDE DEF F
<1>3. \A T \in SUBSET U : T \in F
  BY <1>1, <1>2, SubsetInduction
<1> QED
  BY <1>3 DEF F

\* The sum over an interval is made up of that of one member and of those of the
\* parts before and behind it, as when an element joins two spans of a queue.
LEMMA SumJoined ==
    ASSUME NEW lo \in Int, NEW hi \in Int, NEW n \in lo .. hi,
           NEW f, \A x \in lo .. hi : f[x] \in Nat
    PROVE  /\ Sum(f, lo .. hi) = f[n] + Sum(f, lo .. n - 1) + Sum(f, n + 1 .. hi)
           /\ Sum(f, lo .. n - 1) \in Nat /\ Sum(f, n + 1 .. hi) \in Nat
<1> DEFINE S == (lo .. hi) \ {n}
           L == lo .. n - 1
           U == n + 1 .. hi
<1>1. IsFiniteSet(lo .. hi) /\ IsFiniteSet(L) /\ IsFiniteSet(U)
  BY FS_Interval
<1>2. IsFiniteSet(S)
  BY <1>1, FS_Subset
<1>3. Sum(f, lo .. hi) = f[n] + Sum(f, S)
  BY <1>1, SumOfAdded
<1>4. U \in SUBSET S /\ S \ U = L /\ \A x \in S : f[x] \in Nat
  OBVIOUS
<1>5. Sum(f, S) = Sum(f, L) + Sum(f, U)
  <2> HIDE DEF S, L, U
  <2> QED
    BY <1>2, <1>4, SumOfUnion
<1>6. Sum(f, L) \in Nat /\ Sum(f, U) \in Nat
  BY <1>1, SumType
<1> QED
  BY <1>3, <1>5, <1>6
=============================================================================
