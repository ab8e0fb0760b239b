----------------------------- MODULE SumsProofs ------------------------------
(***************************************************************************)
(* Lemmas about Sums, two about sequences and one about recursion.  The    *)
(* induction principles of the library take an operator, so each induction *)
(* here is on a least counterexample.                                      *)
(***************************************************************************)
EXTENDS Sums, FiniteSetTheorems, SequenceTheorems, WellFoundedInduction, TLAPS

(* Least counterexamples *)

\* Every non-empty set of naturals has a least element.
LEMMA LeastNat ==
    ASSUME NEW B, B \subseteq Nat, B # {}
    PROVE  \E m \in B : \A n \in B : m <= n
<1>1. PICK m \in B : \A n \in B : <<n, m>> \notin OpToRel(<, Nat)
  BY NatLessThanWellFounded, WFMin
<1>2. \A n \in Nat : n < m => <<n, m>> \in OpToRel(<, Nat)
  <2>1. OpToRel(<, Nat) = {ss \in Nat \X Nat : ss[1] < ss[2]}
    BY Zenon DEF OpToRel
  <2> QED BY <2>1
<1>3. \A n \in B : ~(n < m)
  BY <1>1, <1>2, Zenon
<1> QED BY <1>3

\* Every non-empty set of subsets of a finite set has a minimal one.
LEMMA LeastSet ==
    ASSUME NEW S, IsFiniteSet(S), NEW B, B \subseteq SUBSET S, B # {}
    PROVE  \E T \in B : \A U \in B : U \subseteq T => U = T
<1>1. IsWellFoundedOn(StrictSubsetOrdering(S), SUBSET S)
  BY FS_StrictSubsetOrderingWellFounded, FS_FiniteSubsetsOfFinite
<1>2. PICK T \in B : \A U \in B : <<U, T>> \notin StrictSubsetOrdering(S)
  BY <1>1, WFMin
<1>3. ASSUME NEW U \in B, U \subseteq T PROVE U = T
  BY <1>2, <1>3 DEF StrictSubsetOrdering
<1> QED BY <1>3

-----------------------------------------------------------------------------
(* The recursion that adds the values up *)

Pick(s) == CHOOSE x \in s : TRUE
Body(f, g, s) == IF s = {} THEN 0 ELSE f[Pick(s)] + g[s \ {Pick(s)}]
Iter(f) == CHOOSE g : g = [s \in SUBSET (DOMAIN f) |-> Body(f, g, s)]

LEMMA SumIsIter == \A f : SumOver(f) = Iter(f)[DOMAIN f]
BY DEF SumOver, MapThenSumSet, MapThenFoldSet, Iter, Body, Pick

\* Functions whose sums are numbers.
Summable(f) ==
    /\ IsFiniteSet(DOMAIN f)
    /\ f = [x \in DOMAIN f |-> f[x]] /\ \A x \in DOMAIN f : f[x] \in Int

\* Some function satisfies the recursion: by the size of the sets it is right on.
LEMMA IterExists ==
    ASSUME NEW f, Summable(f)
    PROVE  \E g \in [SUBSET (DOMAIN f) -> Int] : g = [s \in SUBSET (DOMAIN f) |-> Body(f, g, s)]
<1> DEFINE S == DOMAIN f
           Upto(n) == \E g \in [SUBSET S -> Int] :
                         \A s \in SUBSET S : Cardinality(s) <= n => g[s] = Body(f, g, s)
           B == {n \in Nat : ~Upto(n)}
<1> HIDE DEF Upto
<1>1. \A s \in SUBSET S : IsFiniteSet(s) /\ Cardinality(s) \in Nat /\ (Cardinality(s) = 0 <=> s = {})
  BY FS_Subset, FS_CardinalityType, FS_EmptySet DEF Summable
<1>2. ASSUME NEW s \in SUBSET S, s # {}
      PROVE  /\ Pick(s) \in s /\ f[Pick(s)] \in Int /\ s \ {Pick(s)} \in SUBSET S
             /\ Cardinality(s \ {Pick(s)}) = Cardinality(s) - 1
  <2>1. Pick(s) \in s
    BY <1>2 DEF Pick
  <2> QED BY <1>1, <2>1, FS_RemoveElement DEF Summable
<1>3. B = {}
  <2> SUFFICES ASSUME B # {} PROVE FALSE
    OBVIOUS
  <2>1. PICK m \in B : \A n \in B : m <= n
    BY LeastNat
  <2>2. m # 0
    <3>1. \A s \in SUBSET S : Cardinality(s) <= 0 => [t \in SUBSET S |-> 0][s] = Body(f, [t \in SUBSET S |-> 0], s)
      BY <1>1 DEF Body
    <3>2. [t \in SUBSET S |-> 0] \in [SUBSET S -> Int]
      OBVIOUS
    <3> QED BY <3>1, <3>2 DEF Upto
  <2>3. m - 1 \in Nat /\ Upto(m - 1)
    BY <2>1, <2>2
  <2>4. PICK g \in [SUBSET S -> Int] : \A s \in SUBSET S : Cardinality(s) <= m - 1 => g[s] = Body(f, g, s)
    BY <2>3 DEF Upto
  <2>5. PICK h : h = [s \in SUBSET S |-> Body(f, g, s)]
    OBVIOUS
  <2>6. h \in [SUBSET S -> Int]
    <3>1. ASSUME NEW s \in SUBSET S PROVE Body(f, g, s) \in Int
      <4>1. CASE s = {}
        BY <4>1 DEF Body
      <4>2. CASE s # {}
        <5>1. f[Pick(s)] \in Int /\ g[s \ {Pick(s)}] \in Int
          BY <1>2, <4>2
        <5> QED BY <4>2, <5>1 DEF Body
      <4> QED BY <4>1, <4>2
    <3> QED BY <2>5, <3>1
  <2>7. ASSUME NEW s \in SUBSET S, Cardinality(s) <= m PROVE h[s] = Body(f, h, s)
    <3>1. CASE s = {}
      BY <2>5, <3>1 DEF Body
    <3>2. CASE s # {}
      <4>1. s \ {Pick(s)} \in SUBSET S /\ Cardinality(s \ {Pick(s)}) <= m - 1
        BY <1>1, <1>2, <2>7, <3>2
      <4>2. h[s \ {Pick(s)}] = g[s \ {Pick(s)}]
        BY <2>4, <2>5, <4>1
      <4> QED BY <2>5, <3>2, <4>2 DEF Body
    <3> QED BY <3>1, <3>2
  <2> QED BY <2>1, <2>6, <2>7 DEF Upto
<1>4. Upto(Cardinality(S))
  <2>1. S \in SUBSET S /\ Cardinality(S) \in Nat
    BY <1>1
  <2> QED BY <1>3, <2>1
<1>5. PICK g \in [SUBSET S -> Int] : \A s \in SUBSET S : Cardinality(s) <= Cardinality(S) => g[s] = Body(f, g, s)
  BY <1>4 DEF Upto
<1>6. \A s \in SUBSET S : Cardinality(s) <= Cardinality(S)
  BY FS_Subset DEF Summable
<1>7. g = [s \in SUBSET S |-> Body(f, g, s)]
  BY <1>5, <1>6
<1> QED BY <1>7

\* So the chosen one does.
LEMMA IterIs ==
    ASSUME NEW f, Summable(f)
    PROVE  Iter(f) = [s \in SUBSET (DOMAIN f) |-> Body(f, Iter(f), s)]
BY IterExists DEF Iter

\* g adds up the values of f, on the subsets of S.
AddsUp(f, g, S) == \A s \in SUBSET S : g[s] = Body(f, g, s)

\* It does so alone: all that satisfy it on a finite set agree.
LEMMA IterIsUnique ==
    ASSUME NEW f, NEW S, IsFiniteSet(S), NEW g, AddsUp(f, g, S), NEW h, AddsUp(f, h, S)
    PROVE  \A s \in SUBSET S : g[s] = h[s]
<1> DEFINE B == {s \in SUBSET S : g[s] # h[s]}
<1> SUFFICES ASSUME B # {} PROVE FALSE
  OBVIOUS
<1>1. PICK T \in B : \A U \in B : U \subseteq T => U = T
  <2>1. B \subseteq SUBSET S
    OBVIOUS
  <2> HIDE DEF B
  <2> QED BY <2>1, LeastSet
<1>2. T # {}
  BY DEF Body, AddsUp
<1>3. Pick(T) \in T
  BY <1>2 DEF Pick
<1>4. T \ {Pick(T)} \notin B
  BY <1>1, <1>3
<1>5. g[T \ {Pick(T)}] = h[T \ {Pick(T)}]
  BY <1>4
<1> QED BY <1>2, <1>5 DEF Body, AddsUp

-----------------------------------------------------------------------------
(* Sums *)

\* The function restricted to a part of its domain.
Part(f, s) == [x \in s |-> f[x]]

LEMMA PartSummable ==
    ASSUME NEW f, Summable(f), NEW s \in SUBSET (DOMAIN f)
    PROVE  Summable(Part(f, s))
BY FS_Subset DEF Summable, Part

\* The sum of a part is what the recursion over the whole says of it.
LEMMA SumOfPart ==
    ASSUME NEW f, Summable(f), NEW S \in SUBSET (DOMAIN f)
    PROVE  SumOver(Part(f, S)) = Iter(f)[S]
<1> DEFINE p == Part(f, S)
<1>1. Summable(p) /\ DOMAIN p = S /\ IsFiniteSet(S)
  BY PartSummable, FS_Subset DEF Part, Summable
<1>2. \A s \in SUBSET S : Iter(p)[s] = Body(p, Iter(p), s)
  BY <1>1, IterIs
<1>3. \A s \in SUBSET S : Iter(f)[s] = Body(f, Iter(f), s)
  BY IterIs
<1>4. \A s \in SUBSET S : Body(p, Iter(p), s) = Body(f, Iter(p), s)
  <2>1. \A s \in SUBSET S : s # {} => Pick(s) \in S
    BY DEF Pick
  <2> QED BY <2>1 DEF Body, Part
<1>5. \A s \in SUBSET S : Iter(p)[s] = Iter(f)[s]
  <2>1. \A s \in SUBSET S : Iter(p)[s] = Body(f, Iter(p), s) /\ Iter(f)[s] = Body(f, Iter(f), s)
    BY <1>2, <1>3, <1>4
  <2>2. PICK g, h : g = Iter(p) /\ h = Iter(f)
    OBVIOUS
  <2>3. AddsUp(f, g, S) /\ AddsUp(f, h, S)
    BY <2>1, <2>2 DEF AddsUp
  <2>4. \A s \in SUBSET S : g[s] = h[s]
    <3>1. IsFiniteSet(S)
      BY <1>1
    <3> HIDE DEF p
    <3> QED BY <3>1, <2>3, IterIsUnique, SMT
  <2> QED BY <2>2, <2>4
<1> QED BY <1>1, <1>5, SumIsIter

\* A sum of numbers is a number; without any it is zero.
LEMMA SumIsInt ==
    ASSUME NEW f, Summable(f)
    PROVE  SumOver(f) \in Int /\ (DOMAIN f = {} => SumOver(f) = 0)
<1>1. PICK g \in [SUBSET (DOMAIN f) -> Int] : g = [s \in SUBSET (DOMAIN f) |-> Body(f, g, s)]
  BY IterExists
<1>2. AddsUp(f, g, DOMAIN f) /\ AddsUp(f, Iter(f), DOMAIN f)
  BY <1>1, IterIs DEF AddsUp
<1>3. g[DOMAIN f] = Iter(f)[DOMAIN f]
  BY <1>2, IterIsUnique DEF Summable
<1>4. DOMAIN f = {} => Iter(f)[DOMAIN f] = 0
  BY <1>2 DEF AddsUp, Body
<1>5. g[DOMAIN f] \in Int
  BY <1>1
<1> QED BY <1>3, <1>4, <1>5, SumIsIter

\* Any element can be taken out first.
LEMMA SumWithout ==
    ASSUME NEW f, Summable(f), NEW x \in DOMAIN f
    PROVE  SumOver(f) = f[x] + SumOver(Part(f, DOMAIN f \ {x}))
<1> DEFINE S == DOMAIN f
           it == Iter(f)
           Wrong(T) == \E y \in T : it[T] # f[y] + it[T \ {y}]
           B == {T \in SUBSET S : Wrong(T)}
<1>1. \A T \in SUBSET S : it[T] = SumOver(Part(f, T)) /\ it[T] \in Int
  BY SumOfPart, PartSummable, SumIsInt
<1>2. \A T \in SUBSET S : T # {} => Pick(T) \in T /\ it[T] = f[Pick(T)] + it[T \ {Pick(T)}]
  BY IterIs DEF Body, Pick
<1>3. B = {}
  <2> SUFFICES ASSUME B # {} PROVE FALSE
    OBVIOUS
  <2>1. PICK T \in B : \A U \in B : U \subseteq T => U = T
    <3>1. B \subseteq SUBSET S /\ IsFiniteSet(S)
      BY DEF Summable
    <3> HIDE DEF B
    <3> QED BY <3>1, LeastSet
  <2>2. PICK y \in T : it[T] # f[y] + it[T \ {y}]
    OBVIOUS
  <2>3. PICK c : c = Pick(T)
    OBVIOUS
  <2>4. c \in T /\ it[T] = f[c] + it[T \ {c}]
    BY <1>2, <2>2, <2>3
  <2>5. c # y
    BY <2>2, <2>4
  <2>6. T \ {c} \notin B /\ T \ {y} \notin B
    BY <2>1, <2>2, <2>4
  <2>7. it[T \ {c}] = f[y] + it[(T \ {c}) \ {y}]
    <3>1. y \in T \ {c} /\ T \ {c} \in SUBSET S
      BY <2>2, <2>5
    <3> QED BY <2>6, <3>1
  <2>8. it[T \ {y}] = f[c] + it[(T \ {y}) \ {c}]
    <3>1. c \in T \ {y} /\ T \ {y} \in SUBSET S
      BY <2>4, <2>5
    <3> QED BY <2>6, <3>1
  <2>9. (T \ {c}) \ {y} = (T \ {y}) \ {c} /\ (T \ {y}) \ {c} \in SUBSET S
    OBVIOUS
  <2>10. f[c] \in Int /\ f[y] \in Int /\ it[(T \ {y}) \ {c}] \in Int
    BY <1>1, <2>2, <2>4, <2>9 DEF Summable
  <2>11. PICK n \in Int : n = it[(T \ {y}) \ {c}]
    BY <2>10
  <2>12. it[T \ {c}] = f[y] + n /\ it[T \ {y}] = f[c] + n
    BY <2>7, <2>8, <2>9, <2>11
  <2>13. it[T] = f[c] + (f[y] + n) /\ it[T] # f[y] + (f[c] + n)
    BY <2>2, <2>4, <2>12
  <2> QED BY <2>10, <2>11, <2>13
<1>4. it[S] = f[x] + it[S \ {x}]
  BY <1>3
<1>5. Part(f, S) = f
  BY DEF Part, Summable
<1> QED BY <1>1, <1>4, <1>5

\* A changed value changes the sum by as much.
LEMMA SumChange ==
    ASSUME NEW f, Summable(f), NEW x \in DOMAIN f, NEW v \in Int
    PROVE  /\ Summable([f EXCEPT ![x] = v])
           /\ SumOver([f EXCEPT ![x] = v]) = SumOver(f) - f[x] + v
<1>1. PICK h : h = [f EXCEPT ![x] = v]
  OBVIOUS
<1>2. Summable(h) /\ DOMAIN h = DOMAIN f /\ h[x] = v
  BY <1>1 DEF Summable
<1>3. Part(h, DOMAIN h \ {x}) = Part(f, DOMAIN f \ {x})
  BY <1>1 DEF Part
<1>4. SumOver(h) = v + SumOver(Part(f, DOMAIN f \ {x})) /\ SumOver(f) = f[x] + SumOver(Part(f, DOMAIN f \ {x}))
  BY <1>2, <1>3, SumWithout
<1>5. SumOver(Part(f, DOMAIN f \ {x})) \in Int /\ f[x] \in Int
  BY PartSummable, SumIsInt DEF Summable
<1> QED BY <1>1, <1>2, <1>4, <1>5

\* A new value is added to the sum.
LEMMA SumGrow ==
    ASSUME NEW f, Summable(f), NEW x, x \notin DOMAIN f, NEW h, Summable(h),
           DOMAIN h = DOMAIN f \cup {x}, \A y \in DOMAIN f : h[y] = f[y]
    PROVE  SumOver(h) = SumOver(f) + h[x]
<1>1. Part(h, DOMAIN h \ {x}) = f
  BY DEF Part, Summable
<1>2. SumOver(h) = h[x] + SumOver(f)
  BY <1>1, SumWithout
<1> QED BY <1>2, SumIsInt DEF Summable

\* A sum of numbers not below zero is not below zero.
LEMMA SumOfPositive ==
    ASSUME NEW f, Summable(f), \A x \in DOMAIN f : f[x] >= 0
    PROVE  SumOver(f) >= 0
<1> DEFINE S == DOMAIN f
           B == {T \in SUBSET S : ~(SumOver(Part(f, T)) >= 0)}
<1>1. B = {}
  <2> SUFFICES ASSUME B # {} PROVE FALSE
    OBVIOUS
  <2>1. PICK T \in B : \A U \in B : U \subseteq T => U = T
    <3>1. B \subseteq SUBSET S /\ IsFiniteSet(S)
      BY DEF Summable
    <3> HIDE DEF B
    <3> QED BY <3>1, LeastSet
  <2>2. PICK p : p = Part(f, T) /\ Summable(p) /\ DOMAIN p = T
    BY PartSummable DEF Part
  <2>3. T # {}
    <3>1. ~(SumOver(p) >= 0)
      BY <2>1, <2>2
    <3>2. ASSUME DOMAIN p = {} PROVE SumOver(p) = 0
      BY <2>2, <3>2, SumIsInt
    <3> QED BY <2>2, <3>1, <3>2
  <2>4. PICK x \in T : TRUE
    BY <2>3
  <2>5. Part(p, T \ {x}) = Part(f, T \ {x}) /\ p[x] = f[x]
    BY <2>2 DEF Part
  <2>6. T \ {x} \notin B /\ T \ {x} \in SUBSET S
    BY <2>1, <2>4
  <2>7. SumOver(Part(f, T \ {x})) >= 0 /\ SumOver(Part(f, T \ {x})) \in Int
    BY <2>6, PartSummable, SumIsInt
  <2>8. SumOver(p) = f[x] + SumOver(Part(f, T \ {x}))
    BY <2>2, <2>4, <2>5, SumWithout
  <2>9. f[x] \in Int /\ f[x] >= 0 /\ ~(SumOver(p) >= 0)
    BY <2>1, <2>2 DEF Summable
  <2> QED BY <2>7, <2>8, <2>9
<1>2. Part(f, S) = f
  BY DEF Part, Summable
<1> QED BY <1>1, <1>2

(* Sequences *)

\* A function on the positions of a sequence is a sequence as long.
LEMMA SamePositions ==
    ASSUME NEW S, NEW s \in Seq(S), NEW f, f \in [DOMAIN s -> S]
    PROVE  f \in Seq(S) /\ Len(f) = Len(s) /\ DOMAIN f = DOMAIN s
<1>1. DOMAIN s = 1..Len(s) /\ Len(s) \in Nat
  BY LenProperties
<1> QED BY <1>1

\* An element is added at the end of a sequence.
LEMMA AddAtEnd ==
    ASSUME NEW S, NEW s \in Seq(S), NEW e \in S
    PROVE  /\ Append(s, e) \in Seq(S) /\ Len(Append(s, e)) = Len(s) + 1
           /\ DOMAIN Append(s, e) = DOMAIN s \cup {Len(s) + 1} /\ Len(s) + 1 \notin DOMAIN s
           /\ \A j \in DOMAIN s : Append(s, e)[j] = s[j]
           /\ Append(s, e)[Len(s) + 1] = e
<1>1. /\ DOMAIN s = 1..Len(s) /\ Len(s) \in Nat
      /\ DOMAIN Append(s, e) = 1..(Len(s) + 1) /\ Len(Append(s, e)) = Len(s) + 1
      /\ Append(s, e) \in Seq(S)
  BY LenProperties, AppendProperties
<1>2. /\ \A j \in 1..Len(s) : Append(s, e)[j] = s[j]
      /\ Append(s, e)[Len(s) + 1] = e
  BY AppendProperties
<1>3. 1..(Len(s) + 1) = 1..Len(s) \cup {Len(s) + 1}
  BY <1>1
<1> QED BY <1>1, <1>2, <1>3

(* Recursive functions *)

\* g is what a recursion over 1..n that starts from base comes to.
Follows(g, n, base, step) == g[0] = base /\ \A i \in 1 .. n : g[i] = step[i][g[i - 1]]

\* A recursion over 1..n whose step is a function has a solution.
LEMMA RecursionHasSolution ==
    ASSUME NEW n \in Nat, NEW X, NEW base \in X, NEW step \in [1 .. n -> [X -> X]]
    PROVE  \E g \in [0 .. n -> X] : Follows(g, n, base, step)
<1> DEFINE Upto(m) == \E g \in [0 .. n -> X] :
                         g[0] = base /\ \A i \in 1 .. n : i <= m => g[i] = step[i][g[i - 1]]
           B == {m \in 0 .. n : ~Upto(m)}
<1>1. ASSUME B # {} PROVE FALSE
  <2>1. PICK m \in B : \A k \in B : m <= k
    <3>1. B \subseteq Nat
      OBVIOUS
    <3> HIDE DEF B
    <3> QED BY <1>1, <3>1, LeastNat
  <2>2. m # 0
    <3>1. PICK g : g = [i \in 0 .. n |-> base]
      OBVIOUS
    <3>2. g \in [0 .. n -> X] /\ g[0] = base
      BY <3>1
    <3>3. Upto(0)
      BY <3>2
    <3> QED BY <2>1, <3>3
  <2>3. m - 1 \in 0 .. n /\ Upto(m - 1)
    <3>1. m \in 0 .. n
      OBVIOUS
    <3>2. m - 1 \in 0 .. n /\ ~(m <= m - 1)
      BY <2>2, <3>1
    <3>3. m - 1 \notin B
      <4> HIDE DEF B
      <4> QED BY <2>1, <3>2
    <3> QED BY <3>2, <3>3
  <2>4. PICK g \in [0 .. n -> X] : g[0] = base /\ \A i \in 1 .. n : i <= m - 1 => g[i] = step[i][g[i - 1]]
    BY <2>3
  <2>5. PICK h : h = [g EXCEPT ![m] = step[m][g[m - 1]]]
    OBVIOUS
  <2>6. m \in 1 .. n /\ g[m - 1] \in X /\ step[m][g[m - 1]] \in X
    <3>1. m \in 1 .. n /\ g[m - 1] \in X
      BY <2>1, <2>2
    <3> QED BY <3>1
  <2>7. h \in [0 .. n -> X] /\ h[0] = base
    BY <2>2, <2>4, <2>5, <2>6
  <2>8. ASSUME NEW i \in 1 .. n, i <= m PROVE h[i] = step[i][h[i - 1]]
    <3>1. h[i - 1] = g[i - 1]
      BY <2>5, <2>6, <2>8
    <3>2. CASE i = m
      BY <2>5, <2>6, <3>1, <3>2
    <3>3. CASE i # m
      <4>1. i <= m - 1 /\ h[i] = g[i]
        BY <2>5, <2>6, <2>8, <3>3
      <4> QED BY <2>4, <3>1, <4>1
    <3> QED BY <3>2, <3>3
  <2>9. Upto(m)
    BY <2>7, <2>8
  <2> QED BY <2>1, <2>9
<1>2. n \in 0 .. n /\ n \notin B
  <2>1. B = {}
    BY <1>1
  <2> HIDE DEF B
  <2> QED BY <2>1
<1>3. Upto(n)
  BY <1>2
<1>4. PICK g \in [0 .. n -> X] : g[0] = base /\ \A i \in 1 .. n : i <= n => g[i] = step[i][g[i - 1]]
  BY <1>3
<1>5. Follows(g, n, base, step)
  BY <1>4 DEF Follows
<1> QED BY <1>5
=============================================================================
