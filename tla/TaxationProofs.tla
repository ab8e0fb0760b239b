--------------------------- MODULE TaxationProofs ---------------------------
(***************************************************************************)
(* Theorems about Taxation and Reports, for every set of documents and of  *)
(* sheets, every rate table and any number of days and requests: a         *)
(* snapshot is what an engine made of its document's lines, and from that  *)
(* alone the returns and the summaries agree with each other.              *)
(*                                                                         *)
(* The reports are sums of sums (over documents, lines and components, by  *)
(* code, rate or name): the lemmas about sums say when two ways of taking  *)
(* the same amounts together come to the same.                             *)
(***************************************************************************)
EXTENDS Reports, SumsProofs

-----------------------------------------------------------------------------
(* More about sums *)

\* A part loses what is taken out of it.
LEMMA PartWithout ==
    ASSUME NEW f, Summable(f), NEW T \in SUBSET (DOMAIN f)
    PROVE  /\ SumOver(Part(f, T)) \in Int /\ (T = {} => SumOver(Part(f, T)) = 0)
           /\ \A x \in T : f[x] \in Int /\ SumOver(Part(f, T)) = f[x] + SumOver(Part(f, T \ {x}))
<1>1. Summable(Part(f, T)) /\ DOMAIN Part(f, T) = T
  BY PartSummable DEF Part
<1>2. ASSUME NEW x \in T PROVE f[x] \in Int /\ SumOver(Part(f, T)) = f[x] + SumOver(Part(f, T \ {x}))
  <2>1. Part(Part(f, T), T \ {x}) = Part(f, T \ {x}) /\ Part(f, T)[x] = f[x]
    BY DEF Part
  <2>2. SumOver(Part(f, T)) = f[x] + SumOver(Part(f, T \ {x}))
    BY <1>1, <2>1, SumWithout
  <2> QED BY <2>2 DEF Summable
<1> QED BY <1>1, <1>2, SumIsInt

LEMMA WholePart == ASSUME NEW f, Summable(f) PROVE Part(f, DOMAIN f) = f
BY DEF Part, Summable

\* Whatever starts at nothing and grows by each value is the sum.
LEMMA AddedUpIsSum ==
    ASSUME NEW f, Summable(f), NEW h, h[{}] = 0,
           \A T \in SUBSET (DOMAIN f) : \A x \in T : h[T] = f[x] + h[T \ {x}]
    PROVE  SumOver(f) = h[DOMAIN f]
<1>1. AddsUp(f, h, DOMAIN f)
  <2> SUFFICES ASSUME NEW s \in SUBSET (DOMAIN f) PROVE h[s] = Body(f, h, s)
    BY DEF AddsUp
  <2>1. s # {} => Pick(s) \in s
    BY DEF Pick
  <2> QED BY <2>1 DEF Body
<1>2. AddsUp(f, Iter(f), DOMAIN f)
  BY IterIs DEF AddsUp
<1>3. IsFiniteSet(DOMAIN f)
  BY DEF Summable
<1>4. h[DOMAIN f] = Iter(f)[DOMAIN f]
  BY <1>1, <1>2, <1>3, IterIsUnique
<1> QED BY <1>4, SumIsIter

\* The sum of the sums of two functions.
LEMMA SumAdd ==
    ASSUME NEW f, Summable(f), NEW g, Summable(g), DOMAIN g = DOMAIN f,
           NEW h, Summable(h), DOMAIN h = DOMAIN f, \A x \in DOMAIN f : h[x] = f[x] + g[x]
    PROVE  SumOver(h) = SumOver(f) + SumOver(g)
<1> DEFINE k == [T \in SUBSET (DOMAIN f) |-> SumOver(Part(f, T)) + SumOver(Part(g, T))]
<1>1. k[{}] = 0
  BY PartWithout
<1>2. ASSUME NEW T \in SUBSET (DOMAIN h), NEW x \in T PROVE k[T] = h[x] + k[T \ {x}]
  <2>1. SumOver(Part(f, T)) = f[x] + SumOver(Part(f, T \ {x})) /\ f[x] \in Int
        /\ SumOver(Part(g, T)) = g[x] + SumOver(Part(g, T \ {x})) /\ g[x] \in Int
    BY PartWithout
  <2>2. T \ {x} \in SUBSET (DOMAIN f)
    OBVIOUS
  <2>3. SumOver(Part(f, T \ {x})) \in Int /\ SumOver(Part(g, T \ {x})) \in Int
    BY <2>2, PartWithout
  <2>4. h[x] = f[x] + g[x]
    OBVIOUS
  <2> QED BY <2>1, <2>2, <2>3, <2>4
<1>3. SumOver(h) = k[DOMAIN h]
  <2> HIDE DEF k
  <2> QED BY <1>1, <1>2, AddedUpIsSum
<1> QED BY <1>3, WholePart

\* A factor of every value is one of the sum.
LEMMA SumScale ==
    ASSUME NEW f, Summable(f), NEW c \in Int, NEW h, Summable(h), DOMAIN h = DOMAIN f,
           \A x \in DOMAIN f : h[x] = c * f[x]
    PROVE  SumOver(h) = c * SumOver(f)
<1> DEFINE k == [T \in SUBSET (DOMAIN f) |-> c * SumOver(Part(f, T))]
<1>1. k[{}] = 0
  BY PartWithout
<1>2. ASSUME NEW T \in SUBSET (DOMAIN h), NEW x \in T PROVE k[T] = h[x] + k[T \ {x}]
  <2>1. SumOver(Part(f, T)) = f[x] + SumOver(Part(f, T \ {x})) /\ f[x] \in Int
    BY PartWithout
  <2>2. T \ {x} \in SUBSET (DOMAIN f)
    OBVIOUS
  <2>3. SumOver(Part(f, T \ {x})) \in Int
    BY <2>2, PartWithout
  <2>4. \A a, b \in Int : c * (a + b) = c * a + c * b
    OBVIOUS
  <2>5. c * SumOver(Part(f, T)) = c * f[x] + c * SumOver(Part(f, T \ {x}))
    BY <2>1, <2>3, <2>4
  <2> QED BY <2>2, <2>5
<1>3. SumOver(h) = k[DOMAIN h]
  <2> HIDE DEF k
  <2> QED BY <1>1, <1>2, AddedUpIsSum
<1> QED BY <1>3, WholePart

\* Zeros add up to zero.
LEMMA SumOfZeros ==
    ASSUME NEW f, Summable(f), \A x \in DOMAIN f : f[x] = 0
    PROVE  SumOver(f) = 0
<1> DEFINE k == [T \in SUBSET (DOMAIN f) |-> 0]
<1>1. SumOver(f) = k[DOMAIN f]
  <2>1. k[{}] = 0 /\ \A T \in SUBSET (DOMAIN f) : \A x \in T : k[T] = f[x] + k[T \ {x}]
    OBVIOUS
  <2> HIDE DEF k
  <2> QED BY <2>1, AddedUpIsSum
<1> QED BY <1>1

\* A sum is that of a part and that of the rest.
LEMMA SumSplit ==
    ASSUME NEW f, Summable(f), NEW S \in SUBSET (DOMAIN f)
    PROVE  SumOver(f) = SumOver(Part(f, S)) + SumOver(Part(f, (DOMAIN f) \ S))
<1> DEFINE k == [T \in SUBSET (DOMAIN f) |-> SumOver(Part(f, T \cap S)) + SumOver(Part(f, T \ S))]
<1>1. k[{}] = 0
  <2>1. {} \cap S = {} /\ {} \ S = {} /\ SumOver(Part(f, {})) = 0
    BY PartWithout
  <2>2. k[{}] = SumOver(Part(f, {} \cap S)) + SumOver(Part(f, {} \ S))
    OBVIOUS
  <2>3. SumOver(Part(f, {} \cap S)) = 0 /\ SumOver(Part(f, {} \ S)) = 0
    BY <2>1
  <2> QED BY <2>2, <2>3
<1>2. ASSUME NEW T \in SUBSET (DOMAIN f), NEW x \in T PROVE k[T] = f[x] + k[T \ {x}]
  <2>1. T \ {x} \in SUBSET (DOMAIN f) /\ T \cap S \in SUBSET (DOMAIN f) /\ T \ S \in SUBSET (DOMAIN f)
        /\ (T \ {x}) \cap S \in SUBSET (DOMAIN f) /\ (T \ {x}) \ S \in SUBSET (DOMAIN f)
    OBVIOUS
  <2>2. /\ SumOver(Part(f, T \cap S)) \in Int /\ SumOver(Part(f, T \ S)) \in Int /\ f[x] \in Int
        /\ SumOver(Part(f, (T \ {x}) \cap S)) \in Int /\ SumOver(Part(f, (T \ {x}) \ S)) \in Int
    BY <2>1, PartWithout DEF Summable
  <2>3. CASE x \in S
    <3>1. (T \ {x}) \cap S = (T \cap S) \ {x} /\ (T \ {x}) \ S = T \ S /\ x \in T \cap S
      BY <2>3
    <3>2. SumOver(Part(f, T \cap S)) = f[x] + SumOver(Part(f, (T \cap S) \ {x}))
      BY <2>1, <3>1, PartWithout
    <3>3. SumOver(Part(f, (T \ {x}) \cap S)) = SumOver(Part(f, (T \cap S) \ {x}))
          /\ SumOver(Part(f, (T \ {x}) \ S)) = SumOver(Part(f, T \ S))
      BY <3>1
    <3> QED BY <2>1, <2>2, <3>2, <3>3
  <2>4. CASE x \notin S
    <3>1. (T \ {x}) \cap S = T \cap S /\ (T \ {x}) \ S = (T \ S) \ {x} /\ x \in T \ S
      BY <2>4
    <3>2. SumOver(Part(f, T \ S)) = f[x] + SumOver(Part(f, (T \ S) \ {x}))
      BY <2>1, <3>1, PartWithout
    <3>3. SumOver(Part(f, (T \ {x}) \ S)) = SumOver(Part(f, (T \ S) \ {x}))
          /\ SumOver(Part(f, (T \ {x}) \cap S)) = SumOver(Part(f, T \cap S))
      BY <3>1
    <3> QED BY <2>1, <2>2, <3>2, <3>3
  <2> QED BY <2>3, <2>4
<1>3. SumOver(f) = k[DOMAIN f]
  <2> HIDE DEF k
  <2> QED BY <1>1, <1>2, AddedUpIsSum
<1>4. (DOMAIN f) \cap S = S
  OBVIOUS
<1> QED BY <1>3, <1>4

\* Zero outside a part: the sum is the part's.
LEMMA SumWhere ==
    ASSUME NEW f, Summable(f), NEW S \in SUBSET (DOMAIN f), NEW h, Summable(h), DOMAIN h = DOMAIN f,
           \A x \in DOMAIN f : h[x] = IF x \in S THEN f[x] ELSE 0
    PROVE  SumOver(h) = SumOver(Part(f, S))
<1>1. SumOver(h) = SumOver(Part(h, S)) + SumOver(Part(h, (DOMAIN h) \ S))
  BY SumSplit
<1>2. Part(h, S) = Part(f, S)
  BY DEF Part
<1>3. SumOver(Part(h, (DOMAIN h) \ S)) = 0
  <2>1. PICK z : z = Part(h, (DOMAIN h) \ S)
    OBVIOUS
  <2>2. Summable(z)
    BY <2>1, PartSummable
  <2>3. \A x \in DOMAIN z : z[x] = 0
    BY <2>1 DEF Part
  <2> QED BY <2>1, <2>2, <2>3, SumOfZeros
<1>4. SumOver(Part(f, S)) \in Int
  BY PartWithout
<1> QED BY <1>1, <1>2, <1>3, <1>4

\* Zero everywhere but at one place.
LEMMA SumSingle ==
    ASSUME NEW f, Summable(f), NEW c \in DOMAIN f, \A x \in DOMAIN f : x # c => f[x] = 0
    PROVE  SumOver(f) = f[c]
<1>1. SumOver(f) = f[c] + SumOver(Part(f, (DOMAIN f) \ {c}))
  BY SumWithout
<1>2. SumOver(Part(f, (DOMAIN f) \ {c})) = 0
  <2>1. PICK z : z = Part(f, (DOMAIN f) \ {c})
    OBVIOUS
  <2>2. Summable(z)
    BY <2>1, PartSummable
  <2>3. \A x \in DOMAIN z : z[x] = 0
    BY <2>1 DEF Part
  <2> QED BY <2>1, <2>2, <2>3, SumOfZeros
<1> QED BY <1>1, <1>2 DEF Summable

\* A sum of sums may be taken in either order.
RowSums(A, B, m) == [x \in A |-> SumOver([y \in B |-> m[<<x, y>>]])]
ColumnSums(A, B, m) == [y \in B |-> SumOver([x \in A |-> m[<<x, y>>]])]

LEMMA SumSwap ==
    ASSUME NEW A, IsFiniteSet(A), NEW B, IsFiniteSet(B), NEW m, \A x \in A, y \in B : m[<<x, y>>] \in Int
    PROVE  SumOver(RowSums(A, B, m)) = SumOver(ColumnSums(A, B, m))
<1> DEFINE r(x) == [y \in B |-> m[<<x, y>>]]
           c(y) == [x \in A |-> m[<<x, y>>]]
           f == [x \in A |-> SumOver(r(x))]
           col(T) == [y \in B |-> SumOver(Part(c(y), T))]
           k == [T \in SUBSET A |-> SumOver(col(T))]
<1>1. \A x \in A : Summable(r(x)) /\ DOMAIN r(x) = B /\ SumOver(r(x)) \in Int
  <2> TAKE x \in A
  <2>1. Summable(r(x))
    BY DEF Summable
  <2> QED BY <2>1, SumIsInt
<1>2. \A y \in B : Summable(c(y)) /\ DOMAIN c(y) = A
  BY DEF Summable
<1>3. Summable(f) /\ DOMAIN f = A
  BY <1>1 DEF Summable
<1>4. \A T \in SUBSET A : Summable(col(T)) /\ DOMAIN col(T) = B
  <2> TAKE T \in SUBSET A
  <2>1. \A y \in B : SumOver(Part(c(y), T)) \in Int
    <3> HIDE DEF c
    <3> QED BY <1>2, PartWithout
  <2> HIDE DEF c
  <2> QED BY <2>1 DEF Summable
<1>5. k[{}] = 0
  <2>1. \A y \in B : SumOver(Part(c(y), {})) = 0
    <3> HIDE DEF c
    <3> QED BY <1>2, PartWithout
  <2>2. Summable(col({})) /\ \A y \in DOMAIN col({}) : col({})[y] = 0
    <3> HIDE DEF c
    <3> QED BY <1>4, <2>1
  <2>3. SumOver(col({})) = 0
    <3> HIDE DEF col
    <3> QED BY <2>2, SumOfZeros
  <2> QED BY <2>3
<1>6. ASSUME NEW T \in SUBSET A, NEW x \in T PROVE k[T] = f[x] + k[T \ {x}]
  <2>1. T \ {x} \in SUBSET A /\ x \in A
    OBVIOUS
  <2>2. \A y \in B : SumOver(Part(c(y), T)) = SumOver(Part(c(y), T \ {x})) + m[<<x, y>>]
    <3> TAKE y \in B
    <3>1. c(y)[x] = m[<<x, y>>]
      OBVIOUS
    <3>2. c(y)[x] \in Int /\ SumOver(Part(c(y), T)) = c(y)[x] + SumOver(Part(c(y), T \ {x}))
      <4> HIDE DEF c
      <4> QED BY <1>2, PartWithout
    <3>3. SumOver(Part(c(y), T \ {x})) \in Int
      <4> HIDE DEF c
      <4> QED BY <1>2, <2>1, PartWithout
    <3> HIDE DEF c
    <3> QED BY <3>1, <3>2, <3>3
  <2>3. Summable(col(T)) /\ Summable(col(T \ {x})) /\ Summable(r(x)) /\ DOMAIN col(T) = B
        /\ DOMAIN col(T \ {x}) = B /\ DOMAIN r(x) = B
    BY <1>1, <1>4, <2>1
  <2>4. \A y \in B : col(T)[y] = r(x)[y] + col(T \ {x})[y]
    <3> TAKE y \in B
    <3>1. col(T)[y] = SumOver(Part(c(y), T)) /\ col(T \ {x})[y] = SumOver(Part(c(y), T \ {x})) /\ r(x)[y] = m[<<x, y>>]
      OBVIOUS
    <3>2. col(T \ {x})[y] \in Int /\ m[<<x, y>>] \in Int
      <4>1. col(T \ {x})[y] \in Int
        <5> HIDE DEF col
        <5> QED BY <2>3 DEF Summable
      <4> QED BY <4>1, <2>1
    <3>3. SumOver(Part(c(y), T)) = SumOver(Part(c(y), T \ {x})) + m[<<x, y>>]
      <4> HIDE DEF c
      <4> QED BY <2>2
    <3>4. PICK n \in Int, v \in Int : n = col(T \ {x})[y] /\ v = m[<<x, y>>]
      <4> HIDE DEF c, col, r
      <4> QED BY <3>2
    <3>5. col(T)[y] = n + v /\ r(x)[y] = v
      <4> HIDE DEF c, col, r
      <4> QED BY <3>1, <3>3, <3>4
    <3> HIDE DEF c, col, r
    <3> QED BY <3>4, <3>5
  <2>5. SumOver(col(T)) = SumOver(r(x)) + SumOver(col(T \ {x}))
    <3> HIDE DEF c, col, r
    <3> QED BY <2>3, <2>4, SumAdd
  <2>6. k[T] = SumOver(col(T)) /\ k[T \ {x}] = SumOver(col(T \ {x})) /\ f[x] = SumOver(r(x))
    <3> HIDE DEF c, col, r
    <3> QED BY <2>1
  <2> QED BY <2>5, <2>6
<1>7. SumOver(f) = k[A]
  <2> HIDE DEF k, f
  <2> QED BY <1>3, <1>5, <1>6, AddedUpIsSum
<1>8. col(A) = [y \in B |-> SumOver(c(y))]
  <2>1. \A y \in B : Part(c(y), A) = c(y)
    BY DEF Part
  <2> HIDE DEF c
  <2> QED BY <2>1
<1>9. k[A] = SumOver([y \in B |-> SumOver(c(y))])
  <2>1. k[A] = SumOver(col(A))
    <3> HIDE DEF col
    <3> QED OBVIOUS
  <2> HIDE DEF col, k
  <2> QED BY <1>8, <2>1
<1> QED BY <1>7, <1>9 DEF RowSums, ColumnSums

\* Classes that each value is in one of, unless it is zero, add up to the whole.
Classes(v, C, cls) ==
    /\ Summable(v) /\ \A c \in C : cls[c] \subseteq DOMAIN v
    /\ \A k \in DOMAIN v : v[k] = 0 \/ \E c \in C : \A b \in C : k \in cls[b] <=> b = c

LEMMA SumOfClasses ==
    ASSUME NEW v, NEW C, IsFiniteSet(C), NEW cls, Classes(v, C, cls)
    PROVE  SumOver([c \in C |-> SumOver(Part(v, cls[c]))]) = SumOver(v)
<1> DEFINE D == DOMAIN v
           m == [p \in C \X D |-> IF p[2] \in cls[p[1]] THEN v[p[2]] ELSE 0]
<1>1. IsFiniteSet(D) /\ \A k \in D : v[k] \in Int
  BY DEF Classes, Summable
<1>2. \A c \in C, k \in D : m[<<c, k>>] = (IF k \in cls[c] THEN v[k] ELSE 0) /\ m[<<c, k>>] \in Int
  BY <1>1
<1>3. SumOver(RowSums(C, D, m)) = SumOver(ColumnSums(C, D, m))
  <2> HIDE DEF m, D
  <2> QED BY <1>1, <1>2, SumSwap
<1>4. \A c \in C : SumOver([k \in D |-> m[<<c, k>>]]) = SumOver(Part(v, cls[c]))
  <2> TAKE c \in C
  <2>1. PICK h : h = [k \in D |-> m[<<c, k>>]]
    OBVIOUS
  <2>2. Summable(h) /\ DOMAIN h = DOMAIN v /\ \A k \in DOMAIN v : h[k] = IF k \in cls[c] THEN v[k] ELSE 0
    <3> HIDE DEF m
    <3> QED BY <1>1, <1>2, <2>1 DEF Summable
  <2>3. cls[c] \in SUBSET (DOMAIN v) /\ Summable(v)
    BY DEF Classes
  <2> QED BY <2>1, <2>2, <2>3, SumWhere
<1>5. \A k \in D : SumOver([c \in C |-> m[<<c, k>>]]) = v[k]
  <2> TAKE k \in D
  <2>1. PICK h : h = [c \in C |-> m[<<c, k>>]]
    OBVIOUS
  <2>2. Summable(h) /\ DOMAIN h = C /\ \A c \in C : h[c] = IF k \in cls[c] THEN v[k] ELSE 0
    <3> HIDE DEF m
    <3> QED BY <1>1, <1>2, <2>1 DEF Summable
  <2>3. CASE v[k] = 0
    <3>1. \A c \in DOMAIN h : h[c] = 0
      BY <2>2, <2>3
    <3> QED BY <2>1, <2>2, <2>3, <3>1, SumOfZeros
  <2>4. CASE \E c \in C : \A b \in C : k \in cls[b] <=> b = c
    <3>1. PICK c \in C : \A b \in C : k \in cls[b] <=> b = c
      BY <2>4
    <3>2. h[c] = v[k] /\ \A b \in DOMAIN h : b # c => h[b] = 0
      BY <2>2, <3>1
    <3>3. SumOver(h) = h[c]
      BY <2>2, <3>2, SumSingle
    <3> QED BY <2>1, <3>2, <3>3
  <2> QED BY <2>3, <2>4 DEF Classes
<1>6. [c \in C |-> SumOver([k \in D |-> m[<<c, k>>]])] = [c \in C |-> SumOver(Part(v, cls[c]))]
  <2> HIDE DEF m, D
  <2> QED BY <1>4
<1>7. [k \in D |-> SumOver([c \in C |-> m[<<c, k>>]])] = v
  <2>1. v = [k \in D |-> v[k]]
    BY DEF Classes, Summable
  <2> HIDE DEF m, D
  <2> QED BY <1>5, <2>1
<1> HIDE DEF m, D
<1> QED BY <1>3, <1>6, <1>7 DEF RowSums, ColumnSums

\* Each value once, under another name.
LEMMA SumRenamed ==
    ASSUME NEW g, Summable(g), NEW A, IsFiniteSet(A), NEW h,
           \A a \in A : h[a] \in DOMAIN g, \A a, b \in A : h[a] = h[b] => a = b,
           \A x \in DOMAIN g : \E a \in A : h[a] = x
    PROVE  SumOver([a \in A |-> g[h[a]]]) = SumOver(g)
<1> DEFINE f == [a \in A |-> g[h[a]]]
           cls == [x \in DOMAIN g |-> {a \in A : h[a] = x}]
<1>1. Summable(f) /\ DOMAIN f = A
  BY DEF Summable
<1>2. Classes(f, DOMAIN g, cls)
  <2>1. \A x \in DOMAIN g : cls[x] \subseteq A
    OBVIOUS
  <2>2. \A a \in A : \E c \in DOMAIN g : \A b \in DOMAIN g : a \in cls[b] <=> b = c
    <3> TAKE a \in A
    <3> WITNESS h[a] \in DOMAIN g
    <3> QED OBVIOUS
  <2> HIDE DEF f, cls
  <2> QED BY <1>1, <2>1, <2>2 DEF Classes
<1>3. SumOver([x \in DOMAIN g |-> SumOver(Part(f, cls[x]))]) = SumOver(f)
  <2>1. IsFiniteSet(DOMAIN g)
    BY DEF Summable
  <2> HIDE DEF f, cls
  <2> QED BY <1>2, <2>1, SumOfClasses
<1>4. \A x \in DOMAIN g : SumOver(Part(f, cls[x])) = g[x]
  <2> TAKE x \in DOMAIN g
  <2>1. PICK a \in A : h[a] = x
    OBVIOUS
  <2>2. cls[x] = {a} /\ f[a] = g[x]
    BY <2>1
  <2>3. SumOver(Part(f, {a})) = f[a] + SumOver(Part(f, {a} \ {a})) /\ f[a] \in Int
    <3> HIDE DEF f
    <3> QED BY <1>1, PartWithout
  <2>4. {a} \ {a} = {} /\ SumOver(Part(f, {})) = 0
    <3> HIDE DEF f
    <3> QED BY <1>1, PartWithout
  <2>5. SumOver(Part(f, {a} \ {a})) = 0
    <3> HIDE DEF f
    <3> QED BY <2>4
  <2> HIDE DEF f, cls
  <2> QED BY <2>2, <2>3, <2>5
<1>5. [x \in DOMAIN g |-> SumOver(Part(f, cls[x]))] = g
  <2>1. g = [x \in DOMAIN g |-> g[x]]
    BY DEF Summable
  <2> HIDE DEF f, cls
  <2> QED BY <1>4, <2>1
<1> HIDE DEF f, cls
<1>6. SumOver(f) = SumOver(g)
  BY <1>3, <1>5
<1> QED BY <1>6 DEF f

\* Totals by class, over several sets of values with a weight each, add up to the
\* weighted total.
GroupSums(S, C, w, v, cls) == [c \in C |-> SumOver([d \in S |-> w[d] * SumOver(Part(v[d], cls[d][c]))])]
Weighted(S, w, v) == [d \in S |-> w[d] * SumOver(v[d])]

LEMMA SumOfGroups ==
    ASSUME NEW S, IsFiniteSet(S), NEW C, IsFiniteSet(C), NEW w, \A d \in S : w[d] \in Int,
           NEW v, NEW cls, \A d \in S : Classes(v[d], C, cls[d])
    PROVE  SumOver(GroupSums(S, C, w, v, cls)) = SumOver(Weighted(S, w, v))
<1> DEFINE m == [p \in C \X S |-> w[p[2]] * SumOver(Part(v[p[2]], cls[p[2]][p[1]]))]
<1>1. \A c \in C, d \in S : SumOver(Part(v[d], cls[d][c])) \in Int
  <2> TAKE c \in C, d \in S
  <2>1. Summable(v[d]) /\ cls[d][c] \in SUBSET (DOMAIN v[d])
    BY DEF Classes
  <2> QED BY <2>1, PartWithout
<1>2. \A c \in C, d \in S : m[<<c, d>>] = w[d] * SumOver(Part(v[d], cls[d][c])) /\ m[<<c, d>>] \in Int
  BY <1>1
<1>3. SumOver(RowSums(C, S, m)) = SumOver(ColumnSums(C, S, m))
  <2> HIDE DEF m
  <2> QED BY <1>2, SumSwap
<1>4. \A d \in S : SumOver([c \in C |-> m[<<c, d>>]]) = w[d] * SumOver(v[d])
  <2> TAKE d \in S
  <2>1. PICK h, f : h = [c \in C |-> m[<<c, d>>]] /\ f = [c \in C |-> SumOver(Part(v[d], cls[d][c]))]
    OBVIOUS
  <2>2. Summable(h) /\ Summable(f) /\ DOMAIN h = DOMAIN f /\ \A c \in DOMAIN f : h[c] = w[d] * f[c]
    <3> HIDE DEF m
    <3> QED BY <1>1, <1>2, <2>1 DEF Summable
  <2>3. SumOver(h) = w[d] * SumOver(f)
    BY <2>2, SumScale
  <2>4. SumOver(f) = SumOver(v[d])
    BY <2>1, SumOfClasses
  <2> QED BY <2>1, <2>3, <2>4
<1>5. [c \in C |-> SumOver([d \in S |-> m[<<c, d>>]])]
         = [c \in C |-> SumOver([d \in S |-> w[d] * SumOver(Part(v[d], cls[d][c]))])]
  <2>1. \A c \in C : [d \in S |-> m[<<c, d>>]] = [d \in S |-> w[d] * SumOver(Part(v[d], cls[d][c]))]
    <3> HIDE DEF m
    <3> QED BY <1>2
  <2> HIDE DEF m
  <2> QED BY <2>1
<1>6. [d \in S |-> SumOver([c \in C |-> m[<<c, d>>]])] = [d \in S |-> w[d] * SumOver(v[d])]
  <2> HIDE DEF m
  <2> QED BY <1>4
<1> HIDE DEF m
<1> QED BY <1>3, <1>5, <1>6 DEF RowSums, ColumnSums, GroupSums, Weighted

\* The greatest of finitely many integers.
LEMMA MaxIs ==
    ASSUME NEW S, IsFiniteSet(S), S # {}, \A x \in S : x \in Int
    PROVE  Max(S) \in S /\ \A x \in S : x <= Max(S)
<1> DEFINE Greatest(T) == \E m \in T : \A x \in T : m >= x
           B == {T \in SUBSET S : T # {} /\ ~Greatest(T)}
<1>1. B = {}
  <2> SUFFICES ASSUME B # {} PROVE FALSE
    OBVIOUS
  <2>1. PICK T \in B : \A U \in B : U \subseteq T => U = T
    <3>1. B \subseteq SUBSET S /\ IsFiniteSet(S)
      OBVIOUS
    <3>2. B # {}
      OBVIOUS
    <3> HIDE DEF B
    <3> QED BY <3>1, <3>2, LeastSet
  <2>2. PICK y \in T : TRUE
    OBVIOUS
  <2>3. T \ {y} \notin B
    BY <2>1, <2>2
  <2>4. CASE T \ {y} = {}
    BY <2>1, <2>2, <2>4
  <2>5. CASE T \ {y} # {}
    <3>1. PICK m \in T \ {y} : \A x \in T \ {y} : m >= x
      BY <2>3, <2>5
    <3>2. y \in Int /\ m \in Int /\ \A x \in T : x \in Int
      BY <2>2, <3>1
    <3>3. CASE m >= y
      <4>1. \A x \in T : m >= x
        BY <3>1, <3>3
      <4> QED BY <2>1, <3>1, <4>1
    <3>4. CASE y >= m
      <4>1. \A x \in T : y >= x
        BY <3>1, <3>2, <3>4
      <4> QED BY <2>1, <2>2, <4>1
    <3> QED BY <3>2, <3>3, <3>4
  <2> QED BY <2>4, <2>5
<1>2. \E m \in S : \A x \in S : m >= x
  BY <1>1
<1>3. Max(S) \in S /\ \A x \in S : Max(S) >= x
  BY <1>2 DEF Max
<1> QED BY <1>3

-----------------------------------------------------------------------------
(* Rounding *)

(* The tax engine *)

\* Half up, for whatever is divided.
LEMMA RoundedIs ==
    ASSUME NEW n \in Int, NEW d \in Nat \ {0}
    PROVE  /\ Rounded(n, d) \in Int
           /\ d * (2 * Rounded(n, d)) <= 2 * n + d /\ 2 * n + d < d * (2 * Rounded(n, d) + 2)
<1>1. PICK e \in Nat \ {0} : e = 2 * d
  OBVIOUS
<1>2. PICK x \in Int : x = 2 * n + d
  OBVIOUS
<1>3. PICK q : q = x \div e
  OBVIOUS
<1>4. q \in Int /\ e * q <= x /\ x < e * q + e
  <2>1. q \in Int
    BY <1>3
  <2>2. x \in e * q .. e * q + e - 1
    BY <1>3, SMTT(30)
  <2> QED BY <2>1, <2>2, SMTT(30)
<1>5. Rounded(n, d) = q
  BY <1>1, <1>2, <1>3 DEF Rounded
<1>6. d * (2 * q) = e * q /\ d * (2 * q + 2) = e * q + e
  BY <1>1, <1>4, SMTT(30)
<1> QED BY <1>2, <1>4, <1>5, <1>6

\* Two halves rounded by themselves make the whole, up to one.
LEMMA HalvesWithinOne ==
    ASSUME NEW n \in Nat, NEW d \in Nat \ {0}
    PROVE  2 * Rounded(n, d) - Rounded(2 * n, d) \in {-1, 0, 1}
<1>1. PICK q, r : q = Rounded(n, d) /\ r = Rounded(2 * n, d)
  OBVIOUS
<1>2. q \in Int /\ d * (2 * q) <= 2 * n + d /\ 2 * n + d < d * (2 * q + 2)
  BY <1>1, RoundedIs
<1>3. r \in Int /\ d * (2 * r) <= 4 * n + d /\ 4 * n + d < d * (2 * r + 2)
  <2>1. 2 * n \in Int
    OBVIOUS
  <2> QED BY <1>1, <2>1, RoundedIs
<1>4. PICK k \in Int : k = 2 * q - r
  <2>1. q \in Int
    BY <1>2
  <2>2. r \in Int
    BY <1>3
  <2>3. 2 * q - r \in Int
    BY <2>1, <2>2
  <2> HIDE <1>1
  <2> QED BY <2>3
<1>5. PICK a \in Int, b \in Int, c \in Int : a = d * q /\ b = d * r /\ c = d * k
  <2>1. d * q \in Int /\ d * r \in Int /\ d * k \in Int
    BY <1>2, <1>3, <1>4, SMTT(30)
  <2>2. PICK a, b, c : a = d * q /\ b = d * r /\ c = d * k
    OBVIOUS
  <2> QED BY <2>1, <2>2
<1>6. c = 2 * a - b
  BY <1>2, <1>3, <1>4, <1>5, SMTT(30)
<1>7. /\ d * (2 * q) = 2 * a /\ d * (2 * q + 2) = 2 * a + 2 * d
      /\ d * (2 * r) = 2 * b /\ d * (2 * r + 2) = 2 * b + 2 * d
  BY <1>2, <1>3, <1>5, SMTT(30)
<1>8. 2 * c < 3 * d /\ 2 * c > -3 * d
  BY <1>2, <1>3, <1>5, <1>6, <1>7
<1>9. k < 2
  <2> SUFFICES ASSUME k >= 2 PROVE FALSE
    BY <1>4
  <2>1. d * 2 <= d * k
    BY SMTT(30)
  <2> QED BY <1>5, <1>8, <2>1
<1>10. k > -2
  <2> SUFFICES ASSUME k <= -2 PROVE FALSE
    BY <1>4
  <2>1. d * k <= d * (-2)
    BY SMTT(30)
  <2> QED BY <1>5, <1>8, <2>1
<1> QED BY <1>1, <1>4, <1>9, <1>10

\* Sums of up to three values, one by one.
LEMMA SumOfFew ==
    ASSUME NEW f, Summable(f)
    PROVE  /\ DOMAIN f = {} => SumOver(f) = 0
           /\ DOMAIN f = 1 .. 1 => SumOver(f) = f[1]
           /\ DOMAIN f = 1 .. 2 => SumOver(f) = f[1] + f[2]
           /\ DOMAIN f = 1 .. 3 => SumOver(f) = f[1] + f[2] + f[3]
<1>1. ASSUME 1 \in DOMAIN f PROVE SumOver(Part(f, {1})) = f[1] /\ f[1] \in Int
  <2>1. {1} \in SUBSET (DOMAIN f) /\ {1} \ {1} = {} /\ {} \in SUBSET (DOMAIN f) /\ 1 \in {1}
    BY <1>1
  <2>2. SumOver(Part(f, {})) = 0
    BY <2>1, PartWithout
  <2>3. f[1] \in Int /\ SumOver(Part(f, {1})) = f[1] + SumOver(Part(f, {1} \ {1}))
    BY <2>1, PartWithout
  <2>4. SumOver(Part(f, {1} \ {1})) = 0
    BY <2>1, <2>2
  <2> QED BY <2>3, <2>4
<1>2. ASSUME 1 \in DOMAIN f, 2 \in DOMAIN f PROVE SumOver(Part(f, {1, 2})) = f[1] + f[2] /\ f[2] \in Int
  <2>1. {1, 2} \in SUBSET (DOMAIN f) /\ {1, 2} \ {2} = {1} /\ 2 \in {1, 2}
    BY <1>2
  <2>2. f[2] \in Int /\ SumOver(Part(f, {1, 2})) = f[2] + SumOver(Part(f, {1, 2} \ {2}))
    BY <2>1, PartWithout
  <2>3. SumOver(Part(f, {1, 2} \ {2})) = SumOver(Part(f, {1}))
    BY <2>1
  <2> QED BY <1>1, <1>2, <2>2, <2>3
<1>3. ASSUME DOMAIN f = 1 .. 3 PROVE SumOver(f) = f[1] + f[2] + f[3]
  <2>1. {1, 2, 3} \in SUBSET (DOMAIN f) /\ {1, 2, 3} \ {3} = {1, 2} /\ 3 \in {1, 2, 3} /\ {1, 2, 3} = DOMAIN f
        /\ 1 \in DOMAIN f /\ 2 \in DOMAIN f
    BY <1>3
  <2>2. f[3] \in Int /\ SumOver(Part(f, {1, 2, 3})) = f[3] + SumOver(Part(f, {1, 2, 3} \ {3}))
    BY <2>1, PartWithout
  <2>3. SumOver(Part(f, {1, 2, 3} \ {3})) = SumOver(Part(f, {1, 2}))
    BY <2>1
  <2>4. SumOver(Part(f, {1, 2, 3})) = SumOver(f)
    BY <2>1, WholePart
  <2> QED BY <1>1, <1>2, <2>1, <2>2, <2>3, <2>4
<1>4. ASSUME DOMAIN f = 1 .. 2 PROVE SumOver(f) = f[1] + f[2]
  <2>1. {1, 2} = DOMAIN f /\ 1 \in DOMAIN f /\ 2 \in DOMAIN f
    BY <1>4
  <2>2. SumOver(Part(f, {1, 2})) = SumOver(f)
    BY <2>1, WholePart
  <2> QED BY <1>2, <2>1, <2>2
<1>5. ASSUME DOMAIN f = 1 .. 1 PROVE SumOver(f) = f[1]
  <2>1. {1} = DOMAIN f /\ 1 \in DOMAIN f
    BY <1>5
  <2>2. SumOver(Part(f, {1})) = SumOver(f)
    BY <2>1, WholePart
  <2> QED BY <1>1, <2>1, <2>2
<1> QED BY <1>3, <1>4, <1>5, SumIsInt

-----------------------------------------------------------------------------
(* A line and its components *)

AnyCode == [kind : STRING, rate : Nat]
ComponentNames == {"CGST", "SGST", "UTGST", "IGST", "CESS", "VAT", "IVA", "RE", "STATE_SALES_TAX"}
ClassNames == {"TAXABLE", "EXEMPT", "NIL_RATED", "ZERO_RATED", "STANDARD", "REDUCED", "REVERSE_CHARGE",
               "INTRA_EU_B2B", "EXPORT", "EXEMPT_CERTIFICATE", "NOT_COLLECTED", "STATE_HAS_NO_SALES_TAX",
               "TAXABLE_STATE_BASE_RATE_ONLY"}
AnyComponent == [type : ComponentNames, rate : Nat, amount : Nat]
TaxedLine == [code : AnyCode, class : ClassNames, comps : Seq(AnyComponent), tax : Nat, taxable : Int, gross : Int]
Components == Seq(ComponentNames \X Nat)
Whole(inclusive, cs) == IF inclusive THEN 10000 + SumOver([i \in DOMAIN cs |-> cs[i][2]]) ELSE 10000
AddsToTax(l) == l.tax = SumOver([c \in DOMAIN l.comps |-> l.comps[c].amount])

LEMMA RoundedNat ==
    ASSUME NEW n \in Nat, NEW d \in Nat \ {0}
    PROVE  Rounded(n, d) \in Nat
<1>1. PICK r : r = Rounded(n, d)
  OBVIOUS
<1>2. r \in Int /\ 2 * n + d < d * (2 * r + 2)
  BY <1>1, RoundedIs
<1>3. PICK p \in Int : p = 2 * r + 2
  <2>1. r \in Int
    BY <1>2
  <2>2. 2 * r + 2 \in Int
    BY <2>1
  <2> QED BY <2>2
<1>4. 0 < d * p
  BY <1>2, <1>3
<1>5. p > 0
  <2> SUFFICES ASSUME p <= 0 PROVE FALSE
    OBVIOUS
  <2>1. d * p <= 0
    BY SMTT(30)
  <2>2. d * p \in Int
    BY SMTT(30)
  <2> QED BY <1>4, <2>1, <2>2
<1>6. r \in Int
  BY <1>2
<1>7. r >= 0
  BY <1>3, <1>5, <1>6
<1> QED BY <1>1, <1>6, <1>7

LEMMA WholeIs ==
    ASSUME NEW inclusive \in BOOLEAN, NEW cs \in Components
    PROVE  Whole(inclusive, cs) \in Nat \ {0}
<1> DEFINE f == [i \in DOMAIN cs |-> cs[i][2]]
<1>1. \A i \in DOMAIN cs : cs[i][2] \in Nat
  BY DEF Components
<1>2. IsFiniteSet(DOMAIN cs)
  <2>1. DOMAIN cs = 1 .. Len(cs) /\ Len(cs) \in Nat
    BY LenProperties DEF Components
  <2> QED BY <2>1, FS_Interval
<1>3. Summable(f) /\ \A x \in DOMAIN f : f[x] >= 0
  BY <1>1, <1>2 DEF Summable
<1>4. SumOver(f) >= 0 /\ SumOver(f) \in Int
  <2> HIDE DEF f
  <2> QED BY <1>3, SumOfPositive, SumIsInt
<1> QED BY <1>4 DEF Whole

\* What the engine makes of a line: a component for each rate, rounded by itself,
\* and a tax that is their sum.
LEMMA LineIs ==
    ASSUME NEW line \in AnyLine, NEW inclusive \in BOOLEAN, NEW cs \in Components, NEW class \in ClassNames,
           NEW l, l = ComputeLine(line, inclusive, cs, class)
    PROVE  /\ l \in TaxedLine /\ AddsToTax(l) /\ l.code = line.code /\ DOMAIN l.comps = DOMAIN cs
           /\ \A c \in DOMAIN cs : /\ l.comps[c].type = cs[c][1]
                                   /\ l.comps[c].amount = Rounded(line.amount * cs[c][2], Whole(inclusive, cs))
           /\ Summable([c \in DOMAIN l.comps |-> l.comps[c].amount])
<1>1. PICK w \in Nat \ {0} : w = Whole(inclusive, cs)
  BY WholeIs
<1>2. PICK comps : comps = [i \in DOMAIN cs |-> [type |-> cs[i][1], rate |-> cs[i][2], amount |-> Rounded(line.amount * cs[i][2], w)]]
  OBVIOUS
<1>3. \A i \in DOMAIN cs : cs[i][1] \in ComponentNames /\ cs[i][2] \in Nat
  BY DEF Components
<1>4. line.amount \in Nat /\ line.code \in AnyCode
  BY DEF AnyLine, AnyCode
<1>5. \A i \in DOMAIN cs : Rounded(line.amount * cs[i][2], w) \in Nat
  <2> SUFFICES ASSUME NEW i \in DOMAIN cs PROVE Rounded(line.amount * cs[i][2], w) \in Nat
    OBVIOUS
  <2>1. PICK a \in Nat : a = line.amount * cs[i][2]
    BY <1>3, <1>4, SMTT(30)
  <2> QED BY <2>1, <1>1, RoundedNat
<1>6. \A i \in DOMAIN cs : comps[i] \in AnyComponent
  BY <1>2, <1>3, <1>5 DEF AnyComponent
<1>7. comps \in Seq(AnyComponent) /\ DOMAIN comps = DOMAIN cs
  <2>1. comps \in [DOMAIN cs -> AnyComponent]
    BY <1>2, <1>6
  <2>2. DOMAIN cs = 1 .. Len(cs) /\ Len(cs) \in Nat
    BY LenProperties DEF Components
  <2> QED BY <2>1, <2>2
<1>8. PICK tax : tax = SumOver([i \in DOMAIN comps |-> comps[i].amount])
  OBVIOUS
<1>9. Summable([i \in DOMAIN comps |-> comps[i].amount])
  <2>1. DOMAIN comps = 1 .. Len(comps) /\ Len(comps) \in Nat
    BY <1>7, LenProperties
  <2>2. IsFiniteSet(DOMAIN comps)
    BY <2>1, FS_Interval
  <2>3. \A i \in DOMAIN comps : comps[i].amount \in Int
    BY <1>6, <1>7 DEF AnyComponent
  <2> QED BY <2>2, <2>3 DEF Summable
<1>10. tax \in Nat
  <2>1. PICK f : f = [i \in DOMAIN comps |-> comps[i].amount]
    OBVIOUS
  <2>2. \A i \in DOMAIN f : f[i] >= 0
    BY <1>6, <1>7, <2>1 DEF AnyComponent
  <2>3. SumOver(f) >= 0 /\ SumOver(f) \in Int
    BY <1>9, <2>1, <2>2, SumOfPositive, SumIsInt
  <2> QED BY <1>8, <2>1, <2>3
<1>11. l = [code |-> line.code, class |-> class, comps |-> comps, tax |-> tax,
            taxable |-> IF inclusive THEN line.amount - tax ELSE line.amount,
            gross |-> IF inclusive THEN line.amount ELSE line.amount + tax]
  BY <1>1, <1>2, <1>8 DEF ComputeLine, Whole
<1>12. l \in TaxedLine /\ l.comps = comps /\ l.tax = tax /\ l.code = line.code
  BY <1>4, <1>7, <1>10, <1>11 DEF TaxedLine
<1> QED BY <1>1, <1>2, <1>7, <1>8, <1>9, <1>12 DEF AddsToTax

(* India *)

EvenRow(r) == r \in AnyRow /\ r.gst % 2 = 0

\* Short sequences, one after the other.
LEMMA TwoSingles ==
    ASSUME NEW a, NEW b
    PROVE  <<a>> \o <<b>> = <<a, b>>
<1> DEFINE S == {a, b}
<1>1. <<a>> \in Seq(S) /\ <<b>> \in Seq(S) /\ <<a, b>> \in Seq(S)
  OBVIOUS
<1>2. PICK p \in Seq(S), q \in Seq(S), r \in Seq(S) : p = <<a>> /\ q = <<b>> /\ r = <<a, b>>
  BY <1>1
<1>3. Len(p) = 1 /\ Len(q) = 1 /\ Len(r) = 2 /\ p[1] = a /\ q[1] = b /\ r[1] = a /\ r[2] = b
  BY <1>2
<1>4. p \o q \in Seq(S) /\ Len(p \o q) = 2
  BY <1>3, ConcatProperties
<1>5. (p \o q)[1] = a /\ (p \o q)[2] = b
  BY <1>3, ConcatProperties
<1>6. p \o q = r
  BY <1>3, <1>4, <1>5, SeqEqual
<1> QED BY <1>2, <1>6

LEMMA PairAndSingle ==
    ASSUME NEW a, NEW b, NEW c
    PROVE  <<a, b>> \o <<c>> = <<a, b, c>>
<1> DEFINE S == {a, b, c}
<1>1. <<a, b>> \in Seq(S) /\ <<c>> \in Seq(S) /\ <<a, b, c>> \in Seq(S)
  OBVIOUS
<1>2. PICK p \in Seq(S), q \in Seq(S), r \in Seq(S) : p = <<a, b>> /\ q = <<c>> /\ r = <<a, b, c>>
  BY <1>1
<1>3. Len(p) = 2 /\ Len(q) = 1 /\ Len(r) = 3 /\ p[1] = a /\ p[2] = b /\ q[1] = c /\ r[1] = a /\ r[2] = b /\ r[3] = c
  BY <1>2
<1>4. p \o q \in Seq(S) /\ Len(p \o q) = 3 /\ \A i \in 1 .. 3 : (p \o q)[i] = IF i <= 2 THEN p[i] ELSE q[i - 2]
  <2> HIDE DEF S
  <2>1. Len(p) = 2 /\ Len(q) = 1
    BY <1>3
  <2>2. p \o q \in Seq(S) /\ Len(p \o q) = Len(p) + Len(q)
        /\ \A i \in 1 .. Len(p) + Len(q) : (p \o q)[i] = IF i <= Len(p) THEN p[i] ELSE q[i - Len(p)]
    BY ConcatProperties
  <2> QED BY <2>1, <2>2
<1>5. (p \o q)[1] = a /\ (p \o q)[2] = b /\ (p \o q)[3] = c
  BY <1>3, <1>4
<1>6. p \o q = r
  BY <1>3, <1>4, <1>5, SeqEqual
<1> QED BY <1>2, <1>6

LEMMA NothingAdded ==
    ASSUME NEW a, NEW b
    PROVE  /\ <<>> \o <<a>> = <<a>> /\ <<a>> \o <<>> = <<a>> /\ <<a, b>> \o <<>> = <<a, b>>
           /\ <<>> \o <<>> = <<>>
<1>1. <<>> \o <<a>> = <<a>>
  OBVIOUS
<1>2. <<a>> \o <<>> = <<a>>
  OBVIOUS
<1>3. <<a, b>> \o <<>> = <<a, b>>
  OBVIOUS
<1>4. <<>> \o <<>> = <<>>
  OBVIOUS
<1> QED BY <1>1, <1>2, <1>3, <1>4

\* What a row charges, case by case.
LEMMA IndiaComponentsAre ==
    ASSUME NEW row, EvenRow(row), NEW from, NEW place, NEW cs, cs = IndiaComponents(row, from, place)
    PROVE  \E half \in Nat, second \in {"SGST", "UTGST"} :
              /\ half = row.gst \div 2 /\ half + half = row.gst
              /\ \/ row.gst = 0 /\ row.cess = 0 /\ cs = <<>>
                 \/ row.gst = 0 /\ row.cess > 0 /\ cs = <<<<"CESS", row.cess>>>>
                 \/ row.gst > 0 /\ row.cess = 0 /\ from = place /\ cs = <<<<"CGST", half>>, <<second, half>>>>
                 \/ row.gst > 0 /\ row.cess > 0 /\ from = place /\ cs = <<<<"CGST", half>>, <<second, half>>, <<"CESS", row.cess>>>>
                 \/ row.gst > 0 /\ row.cess = 0 /\ from # place /\ cs = <<<<"IGST", row.gst>>>>
                 \/ row.gst > 0 /\ row.cess > 0 /\ from # place /\ cs = <<<<"IGST", row.gst>>, <<"CESS", row.cess>>>>
<1>1. row.gst \in Nat /\ row.cess \in Nat /\ row.gst % 2 = 0
  BY DEF EvenRow, AnyRow
<1>2. PICK half : half = row.gst \div 2
  OBVIOUS
<1>3. half \in Nat /\ half + half = row.gst
  BY <1>1, <1>2
<1>4. PICK second \in {"SGST", "UTGST"} : second = IF place \in Territories THEN "UTGST" ELSE "SGST"
  OBVIOUS
<1>5. Halves(row.gst, place) = <<<<"CGST", half>>, <<second, half>>>>
  BY <1>2, <1>4 DEF Halves
<1>6. PICK first : first = IF row.gst = 0 THEN <<>> ELSE IF from = place THEN Halves(row.gst, place) ELSE <<<<"IGST", row.gst>>>>
  OBVIOUS
<1>7. PICK e, c, g, t : e = <<"CESS", row.cess>> /\ c = <<"CGST", half>> /\ g = <<"IGST", row.gst>> /\ t = <<second, half>>
  OBVIOUS
<1>8. PICK last : last = IF row.cess > 0 THEN <<e>> ELSE <<>>
  OBVIOUS
<1>9. cs = first \o last
  BY <1>6, <1>7, <1>8 DEF IndiaComponents
<1>10. first = IF row.gst = 0 THEN <<>> ELSE IF from = place THEN <<c, t>> ELSE <<g>>
  BY <1>5, <1>6, <1>7
<1>11. CASE row.gst = 0
  <2>1. cs = IF row.cess > 0 THEN <<e>> ELSE <<>>
    BY <1>8, <1>9, <1>10, <1>11, NothingAdded
  <2> QED BY <1>1, <1>2, <1>3, <1>7, <1>11, <2>1
<1>12. CASE row.gst # 0 /\ from = place
  <2>1. <<c, t>> \o <<e>> = <<c, t, e>> /\ <<c, t>> \o <<>> = <<c, t>>
    BY PairAndSingle, NothingAdded
  <2>2. cs = IF row.cess > 0 THEN <<c, t, e>> ELSE <<c, t>>
    BY <1>8, <1>9, <1>10, <1>12, <2>1
  <2>3. \/ row.cess > 0 /\ cs = <<<<"CGST", half>>, <<second, half>>, <<"CESS", row.cess>>>>
        \/ row.cess = 0 /\ cs = <<<<"CGST", half>>, <<second, half>>>>
    BY <1>1, <1>7, <2>2
  <2>4. row.gst > 0
    BY <1>1, <1>12
  <2> QED BY <1>2, <1>3, <1>12, <2>3, <2>4
<1>13. CASE row.gst # 0 /\ from # place
  <2>1. <<g>> \o <<e>> = <<g, e>> /\ <<g>> \o <<>> = <<g>>
    BY TwoSingles, NothingAdded
  <2>2. cs = IF row.cess > 0 THEN <<g, e>> ELSE <<g>>
    BY <1>8, <1>9, <1>10, <1>13, <2>1
  <2>3. \/ row.cess > 0 /\ cs = <<<<"IGST", row.gst>>, <<"CESS", row.cess>>>>
        \/ row.cess = 0 /\ cs = <<<<"IGST", row.gst>>>>
    BY <1>1, <1>7, <2>2
  <2>4. row.gst > 0
    BY <1>1, <1>13
  <2> QED BY <1>2, <1>3, <1>13, <2>3, <2>4
<1> QED BY <1>11, <1>12, <1>13

\* A line with up to three components, in full.
LEMMA FewComponents ==
    ASSUME NEW line \in AnyLine, NEW inclusive \in BOOLEAN, NEW cs \in Components, NEW class \in ClassNames,
           NEW l, l = ComputeLine(line, inclusive, cs, class), NEW w, w = Whole(inclusive, cs)
    PROVE  /\ Len(cs) = 0 => w = 10000 /\ l.tax = 0
           /\ Len(cs) = 1 => /\ w = IF inclusive THEN 10000 + cs[1][2] ELSE 10000
                             /\ l.tax = Rounded(line.amount * cs[1][2], w)
           /\ Len(cs) = 2 => /\ w = IF inclusive THEN 10000 + cs[1][2] + cs[2][2] ELSE 10000
                             /\ l.tax = Rounded(line.amount * cs[1][2], w) + Rounded(line.amount * cs[2][2], w)
           /\ Len(cs) = 3 => /\ w = IF inclusive THEN 10000 + cs[1][2] + cs[2][2] + cs[3][2] ELSE 10000
                             /\ l.tax = Rounded(line.amount * cs[1][2], w) + Rounded(line.amount * cs[2][2], w)
                                          + Rounded(line.amount * cs[3][2], w)
<1>1. PICK f : f = [i \in DOMAIN cs |-> cs[i][2]]
  OBVIOUS
<1>2. PICK h : h = [c \in DOMAIN l.comps |-> l.comps[c].amount]
  OBVIOUS
<1>3. \A i \in DOMAIN cs : cs[i][2] \in Nat
  BY DEF Components
<1>4. DOMAIN cs = 1 .. Len(cs) /\ Len(cs) \in Nat
  BY LenProperties DEF Components
<1>5. Summable(f) /\ DOMAIN f = 1 .. Len(cs)
  <2>1. IsFiniteSet(DOMAIN cs)
    BY <1>4, FS_Interval
  <2> QED BY <1>1, <1>3, <1>4, <2>1 DEF Summable
<1>6. Summable(h) /\ DOMAIN h = 1 .. Len(cs) /\ l.tax = SumOver(h)
      /\ \A c \in DOMAIN cs : h[c] = Rounded(line.amount * cs[c][2], w)
  <2>1. /\ AddsToTax(l) /\ DOMAIN l.comps = DOMAIN cs
        /\ \A c \in DOMAIN cs : l.comps[c].amount = Rounded(line.amount * cs[c][2], Whole(inclusive, cs))
        /\ Summable([c \in DOMAIN l.comps |-> l.comps[c].amount])
    BY LineIs
  <2> QED BY <1>2, <1>4, <2>1 DEF AddsToTax
<1>7. w = IF inclusive THEN 10000 + SumOver(f) ELSE 10000
  BY <1>1 DEF Whole
<1>8. ASSUME Len(cs) = 0 PROVE w = 10000 /\ l.tax = 0
  <2>1. DOMAIN f = {} /\ DOMAIN h = {}
    BY <1>5, <1>6, <1>8
  <2>2. SumOver(f) = 0 /\ SumOver(h) = 0
    BY <1>5, <1>6, <2>1, SumOfFew
  <2> QED BY <1>6, <1>7, <2>2
<1>9. ASSUME Len(cs) = 1
      PROVE  /\ w = IF inclusive THEN 10000 + cs[1][2] ELSE 10000
             /\ l.tax = Rounded(line.amount * cs[1][2], w)
  <2>1. DOMAIN f = 1 .. 1 /\ DOMAIN h = 1 .. 1 /\ 1 \in DOMAIN cs
    BY <1>4, <1>5, <1>6, <1>9
  <2>2. SumOver(f) = f[1] /\ SumOver(h) = h[1]
    BY <1>5, <1>6, <2>1, SumOfFew
  <2> QED BY <1>1, <1>6, <1>7, <2>1, <2>2
<1>10. ASSUME Len(cs) = 2
       PROVE  /\ w = IF inclusive THEN 10000 + cs[1][2] + cs[2][2] ELSE 10000
              /\ l.tax = Rounded(line.amount * cs[1][2], w) + Rounded(line.amount * cs[2][2], w)
  <2>1. DOMAIN f = 1 .. 2 /\ DOMAIN h = 1 .. 2 /\ 1 \in DOMAIN cs /\ 2 \in DOMAIN cs
    BY <1>4, <1>5, <1>6, <1>10
  <2>2. SumOver(f) = f[1] + f[2] /\ SumOver(h) = h[1] + h[2]
    BY <1>5, <1>6, <2>1, SumOfFew
  <2>3. f[1] = cs[1][2] /\ f[2] = cs[2][2] /\ cs[1][2] \in Nat /\ cs[2][2] \in Nat
    BY <1>1, <1>3, <2>1
  <2> QED BY <1>6, <1>7, <2>1, <2>2, <2>3
<1>11. ASSUME Len(cs) = 3
       PROVE  /\ w = IF inclusive THEN 10000 + cs[1][2] + cs[2][2] + cs[3][2] ELSE 10000
              /\ l.tax = Rounded(line.amount * cs[1][2], w) + Rounded(line.amount * cs[2][2], w)
                           + Rounded(line.amount * cs[3][2], w)
  <2>1. DOMAIN f = 1 .. 3 /\ DOMAIN h = 1 .. 3 /\ 1 \in DOMAIN cs /\ 2 \in DOMAIN cs /\ 3 \in DOMAIN cs
    BY <1>4, <1>5, <1>6, <1>11
  <2>2. SumOver(f) = f[1] + f[2] + f[3] /\ SumOver(h) = h[1] + h[2] + h[3]
    BY <1>5, <1>6, <2>1, SumOfFew
  <2>3. f[1] = cs[1][2] /\ f[2] = cs[2][2] /\ f[3] = cs[3][2] /\ cs[1][2] \in Nat /\ cs[2][2] \in Nat /\ cs[3][2] \in Nat
    BY <1>1, <1>3, <2>1
  <2>4. w = IF inclusive THEN 10000 + cs[1][2] + cs[2][2] + cs[3][2] ELSE 10000
    BY <1>7, <2>2, <2>3
  <2>5. l.tax = h[1] + h[2] + h[3]
    BY <1>6, <2>2
  <2>6. h[1] = Rounded(line.amount * cs[1][2], w) /\ h[2] = Rounded(line.amount * cs[2][2], w)
        /\ h[3] = Rounded(line.amount * cs[3][2], w)
    BY <1>6, <2>1
  <2> QED BY <2>4, <2>5, <2>6
<1> QED BY <1>8, <1>9, <1>10, <1>11

Ones == {"CGST", "IGST"}
Once(l) == \A c, e \in DOMAIN l.comps : l.comps[c].type \in Ones /\ l.comps[e].type \in Ones => c = e

IndiaWhole(row, inclusive) == IF inclusive THEN 10000 + row.gst + row.cess ELSE 10000
CessOf(row, amount, w) == IF row.cess > 0 THEN Rounded(amount * row.cess, w) ELSE 0
GSTOf(row, amount, w, local) ==
    IF row.gst = 0 THEN 0
    ELSE IF local THEN 2 * Rounded(amount * (row.gst \div 2), w) ELSE Rounded(amount * row.gst, w)

\* They are components, at most one of them CGST or IGST.
LEMMA ComponentsOfIndia ==
    ASSUME NEW row, EvenRow(row), NEW from, NEW place
    PROVE  /\ IndiaComponents(row, from, place) \in Components
           /\ \A c, e \in DOMAIN IndiaComponents(row, from, place) :
                IndiaComponents(row, from, place)[c][1] \in Ones /\ IndiaComponents(row, from, place)[e][1] \in Ones => c = e
<1>1. PICK cs : cs = IndiaComponents(row, from, place)
  OBVIOUS
<1>2. PICK half \in Nat, second \in {"SGST", "UTGST"} :
              /\ half = row.gst \div 2 /\ half + half = row.gst
              /\ \/ row.gst = 0 /\ row.cess = 0 /\ cs = <<>>
                 \/ row.gst = 0 /\ row.cess > 0 /\ cs = <<<<"CESS", row.cess>>>>
                 \/ row.gst > 0 /\ row.cess = 0 /\ from = place /\ cs = <<<<"CGST", half>>, <<second, half>>>>
                 \/ row.gst > 0 /\ row.cess > 0 /\ from = place /\ cs = <<<<"CGST", half>>, <<second, half>>, <<"CESS", row.cess>>>>
                 \/ row.gst > 0 /\ row.cess = 0 /\ from # place /\ cs = <<<<"IGST", row.gst>>>>
                 \/ row.gst > 0 /\ row.cess > 0 /\ from # place /\ cs = <<<<"IGST", row.gst>>, <<"CESS", row.cess>>>>
  BY <1>1, IndiaComponentsAre
<1>3. row.gst \in Nat /\ row.cess \in Nat
  BY DEF EvenRow, AnyRow
<1>4. cs \in Components /\ \A c, e \in DOMAIN cs : cs[c][1] \in Ones /\ cs[e][1] \in Ones => c = e
  <2>1. PICK e, c, g, t : e = <<"CESS", row.cess>> /\ c = <<"CGST", half>> /\ g = <<"IGST", row.gst>> /\ t = <<second, half>>
    OBVIOUS
  <2>2. e \in ComponentNames \X Nat /\ c \in ComponentNames \X Nat /\ g \in ComponentNames \X Nat
    BY <1>3, <2>1 DEF ComponentNames
  <2>3. t \in ComponentNames \X Nat /\ t[1] \notin Ones /\ e[1] \notin Ones
    <3>1. CASE second = "SGST"
      BY <2>1, <3>1 DEF Ones, ComponentNames
    <3>2. CASE second = "UTGST"
      BY <2>1, <3>2 DEF Ones, ComponentNames
    <3> QED BY <3>1, <3>2
  <2>4. PICK S : S = ComponentNames \X Nat
    OBVIOUS
  <2>5. /\ \/ cs = <<>> \/ cs = <<e>> \/ cs = <<c, t>> \/ cs = <<c, t, e>> \/ cs = <<g>> \/ cs = <<g, e>>
    BY <1>2, <2>1
  <2>6. e \in S /\ c \in S /\ g \in S /\ t \in S
    BY <2>2, <2>3, <2>4
  <2>7. cs \in Seq(S)
    <3>1. <<>> \in Seq(S) /\ <<e>> \in Seq(S) /\ <<g>> \in Seq(S)
      BY <2>6
    <3>2. <<c, t>> \in Seq(S) /\ <<g, e>> \in Seq(S)
      BY <2>6
    <3>3. <<c, t, e>> \in Seq(S)
      BY <2>6
    <3> QED BY <2>5, <3>1, <3>2, <3>3
  <2>8. ASSUME NEW i \in DOMAIN cs, NEW j \in DOMAIN cs, cs[i][1] \in Ones, cs[j][1] \in Ones PROVE i = j
    <3>1. CASE cs = <<>> \/ cs = <<e>> \/ cs = <<g>>
      BY <2>8, <3>1
    <3>2. CASE cs = <<c, t>>
      BY <2>3, <2>8, <3>2
    <3>3. CASE cs = <<c, t, e>>
      BY <2>3, <2>8, <3>3
    <3>4. CASE cs = <<g, e>>
      BY <2>3, <2>8, <3>4
    <3> QED BY <2>5, <3>1, <3>2, <3>3, <3>4
  <2> QED BY <2>4, <2>7, <2>8 DEF Components
<1> QED BY <1>1, <1>4

\* What a row's components come to, for whichever place.
LEMMA IndiaLineIs ==
    ASSUME NEW row, EvenRow(row), NEW line \in AnyLine, NEW inclusive \in BOOLEAN, NEW from, NEW place,
           NEW l, l = ComputeLine(line, inclusive, IndiaComponents(row, from, place), row.class)
    PROVE  /\ l \in TaxedLine /\ AddsToTax(l) /\ l.code = line.code /\ Once(l)
           /\ LET w == IndiaWhole(row, inclusive) IN
              l.tax = GSTOf(row, line.amount, w, from = place) + CessOf(row, line.amount, w)
<1>1. PICK cs : cs = IndiaComponents(row, from, place)
  OBVIOUS
<1>2. PICK half \in Nat, second \in {"SGST", "UTGST"} :
              /\ half = row.gst \div 2 /\ half + half = row.gst
              /\ \/ row.gst = 0 /\ row.cess = 0 /\ cs = <<>>
                 \/ row.gst = 0 /\ row.cess > 0 /\ cs = <<<<"CESS", row.cess>>>>
                 \/ row.gst > 0 /\ row.cess = 0 /\ from = place /\ cs = <<<<"CGST", half>>, <<second, half>>>>
                 \/ row.gst > 0 /\ row.cess > 0 /\ from = place /\ cs = <<<<"CGST", half>>, <<second, half>>, <<"CESS", row.cess>>>>
                 \/ row.gst > 0 /\ row.cess = 0 /\ from # place /\ cs = <<<<"IGST", row.gst>>>>
                 \/ row.gst > 0 /\ row.cess > 0 /\ from # place /\ cs = <<<<"IGST", row.gst>>, <<"CESS", row.cess>>>>
  BY <1>1, IndiaComponentsAre
<1>3. row.gst \in Nat /\ row.cess \in Nat /\ row.class \in ClassNames /\ line.amount \in Nat
  BY DEF EvenRow, AnyRow, AnyLine, ClassNames
<1>4. cs \in Components /\ \A c, e \in DOMAIN cs : cs[c][1] \in Ones /\ cs[e][1] \in Ones => c = e
  BY <1>1, ComponentsOfIndia
<1>5. l = ComputeLine(line, inclusive, cs, row.class)
  BY <1>1
<1>6. /\ l \in TaxedLine /\ AddsToTax(l) /\ l.code = line.code /\ DOMAIN l.comps = DOMAIN cs
      /\ \A c \in DOMAIN cs : l.comps[c].type = cs[c][1]
  <2>1. cs \in Components /\ row.class \in ClassNames
    BY <1>3, <1>4
  <2>2. /\ l \in TaxedLine /\ AddsToTax(l) /\ l.code = line.code /\ DOMAIN l.comps = DOMAIN cs
        /\ \A c \in DOMAIN cs : /\ l.comps[c].type = cs[c][1]
                                /\ l.comps[c].amount = Rounded(line.amount * cs[c][2], Whole(inclusive, cs))
        /\ Summable([c \in DOMAIN l.comps |-> l.comps[c].amount])
    BY <1>5, <2>1, LineIs
  <2> QED BY <2>2
<1>7. Once(l)
  BY <1>4, <1>6 DEF Once
<1>8. PICK w : w = Whole(inclusive, cs)
  OBVIOUS
<1>9. w = IndiaWhole(row, inclusive) /\ l.tax = GSTOf(row, line.amount, w, from = place) + CessOf(row, line.amount, w)
  <2>0. /\ Len(cs) = 0 => w = 10000 /\ l.tax = 0
        /\ Len(cs) = 1 => /\ w = IF inclusive THEN 10000 + cs[1][2] ELSE 10000
                          /\ l.tax = Rounded(line.amount * cs[1][2], w)
        /\ Len(cs) = 2 => /\ w = IF inclusive THEN 10000 + cs[1][2] + cs[2][2] ELSE 10000
                          /\ l.tax = Rounded(line.amount * cs[1][2], w) + Rounded(line.amount * cs[2][2], w)
        /\ Len(cs) = 3 => /\ w = IF inclusive THEN 10000 + cs[1][2] + cs[2][2] + cs[3][2] ELSE 10000
                          /\ l.tax = Rounded(line.amount * cs[1][2], w) + Rounded(line.amount * cs[2][2], w)
                                       + Rounded(line.amount * cs[3][2], w)
    <3>1. cs \in Components /\ row.class \in ClassNames
      BY <1>3, <1>4
    <3> QED BY <1>5, <1>8, <3>1, FewComponents
  <2>1. PICK a, b, g : a = Rounded(line.amount * half, w) /\ b = Rounded(line.amount * row.cess, w)
                       /\ g = Rounded(line.amount * row.gst, w)
    OBVIOUS
  <2>2. a \in Int /\ b \in Int /\ g \in Int
    <3>1. line.amount * half \in Int /\ line.amount * row.cess \in Int /\ line.amount * row.gst \in Int
      BY <1>3, SMTT(30)
    <3>2. w \in Nat \ {0}
      BY <1>4, <1>8, WholeIs
    <3> QED BY <2>1, <3>1, <3>2, RoundedIs
  <2>3. GSTOf(row, line.amount, w, from = place) = IF row.gst = 0 THEN 0 ELSE IF from = place THEN 2 * a ELSE g
    BY <1>2, <2>1 DEF GSTOf
  <2>4. CessOf(row, line.amount, w) = IF row.cess > 0 THEN b ELSE 0
    BY <2>1 DEF CessOf
  <2>5. IndiaWhole(row, inclusive) = IF inclusive THEN 10000 + row.gst + row.cess ELSE 10000
    BY DEF IndiaWhole
  <2>6. CASE row.gst = 0 /\ row.cess = 0 /\ cs = <<>>
    BY <1>3, <2>0, <2>3, <2>4, <2>5, <2>6
  <2>7. CASE row.gst = 0 /\ row.cess > 0 /\ cs = <<<<"CESS", row.cess>>>>
    <3>1. Len(cs) = 1 /\ cs[1][2] = row.cess
      BY <2>7
    <3> QED BY <1>3, <2>0, <2>1, <2>2, <2>3, <2>4, <2>5, <2>7, <3>1
  <2>8. CASE row.gst > 0 /\ row.cess = 0 /\ from = place /\ cs = <<<<"CGST", half>>, <<second, half>>>>
    <3>1. Len(cs) = 2 /\ cs[1][2] = half /\ cs[2][2] = half
      BY <2>8
    <3> QED BY <1>2, <1>3, <2>0, <2>1, <2>2, <2>3, <2>4, <2>5, <2>8, <3>1
  <2>9. CASE row.gst > 0 /\ row.cess > 0 /\ from = place /\ cs = <<<<"CGST", half>>, <<second, half>>, <<"CESS", row.cess>>>>
    <3>1. Len(cs) = 3 /\ cs[1][2] = half /\ cs[2][2] = half /\ cs[3][2] = row.cess
      BY <2>9
    <3>2. l.tax = a + a + b /\ w = IF inclusive THEN 10000 + half + half + row.cess ELSE 10000
      BY <2>0, <2>1, <3>1
    <3> QED BY <1>2, <1>3, <2>2, <2>3, <2>4, <2>5, <2>9, <3>2
  <2>10. CASE row.gst > 0 /\ row.cess = 0 /\ from # place /\ cs = <<<<"IGST", row.gst>>>>
    <3>1. Len(cs) = 1 /\ cs[1][2] = row.gst
      BY <2>10
    <3> QED BY <1>3, <2>0, <2>1, <2>2, <2>3, <2>4, <2>5, <2>10, <3>1
  <2>11. CASE row.gst > 0 /\ row.cess > 0 /\ from # place /\ cs = <<<<"IGST", row.gst>>, <<"CESS", row.cess>>>>
    <3>1. Len(cs) = 2 /\ cs[1][2] = row.gst /\ cs[2][2] = row.cess
      BY <2>11
    <3>2. l.tax = g + b /\ w = IF inclusive THEN 10000 + row.gst + row.cess ELSE 10000
      BY <2>0, <2>1, <3>1
    <3> QED BY <1>3, <2>2, <2>3, <2>4, <2>5, <2>11, <3>2
  <2> QED BY <1>2, <2>6, <2>7, <2>8, <2>9, <2>10, <2>11
<1> QED BY <1>6, <1>7, <1>9

\* Wherever the same row is applied, the tax is the same up to one minor unit.
LEMMA PlacesWithinOne ==
    ASSUME NEW row, EvenRow(row), NEW line \in AnyLine, NEW inclusive \in BOOLEAN, NEW a, NEW b, NEW c, NEW d
    PROVE  ComputeLine(line, inclusive, IndiaComponents(row, a, b), row.class).tax
             - ComputeLine(line, inclusive, IndiaComponents(row, c, d), row.class).tax \in {-1, 0, 1}
<1>1. PICK l : l = ComputeLine(line, inclusive, IndiaComponents(row, a, b), row.class)
  OBVIOUS
<1>2. PICK m : m = ComputeLine(line, inclusive, IndiaComponents(row, c, d), row.class)
  OBVIOUS
<1>3. PICK w : w = IndiaWhole(row, inclusive)
  OBVIOUS
<1>4. l.tax = GSTOf(row, line.amount, w, a = b) + CessOf(row, line.amount, w)
  BY <1>1, <1>3, IndiaLineIs
<1>5. m.tax = GSTOf(row, line.amount, w, c = d) + CessOf(row, line.amount, w)
  BY <1>2, <1>3, IndiaLineIs
<1>6. row.gst \in Nat /\ row.cess \in Nat /\ line.amount \in Nat /\ row.gst % 2 = 0
  BY DEF EvenRow, AnyRow, AnyLine
<1>7. w \in Nat \ {0}
  BY <1>3, <1>6 DEF IndiaWhole
<1>8. PICK half \in Nat : half = row.gst \div 2 /\ row.gst = 2 * half
  BY <1>6
<1>9. PICK n \in Nat : n = line.amount * half
  <2>1. line.amount * half \in Nat
    BY <1>6, SMTT(30)
  <2> QED BY <2>1
<1>10. line.amount * row.gst = 2 * n
  <2>1. \A x, y \in Nat : x * (2 * y) = 2 * (x * y)
    BY SMTT(30)
  <2>2. PICK g : g = row.gst
    OBVIOUS
  <2>3. PICK x : x = line.amount
    OBVIOUS
  <2>4. x \in Nat /\ g = 2 * half /\ n = x * half
    BY <1>6, <1>8, <1>9, <2>2, <2>3
  <2>5. x * g = 2 * n
    BY <2>1, <2>4
  <2> QED BY <2>2, <2>3, <2>5
<1>11. PICK x, y, z : x = Rounded(n, w) /\ y = Rounded(2 * n, w) /\ z = CessOf(row, line.amount, w)
  OBVIOUS
<1>12. x \in Int /\ y \in Int /\ 2 * x - y \in {-1, 0, 1}
  <2>1. n \in Int /\ 2 * n \in Int
    OBVIOUS
  <2>2. x \in Int /\ y \in Int
    BY <1>7, <1>11, <2>1, RoundedIs
  <2>3. 2 * Rounded(n, w) - Rounded(2 * n, w) \in {-1, 0, 1}
    BY <1>7, HalvesWithinOne
  <2> QED BY <1>11, <2>2, <2>3
<1>13. z \in Int
  <2>1. line.amount * row.cess \in Int
    BY <1>6, SMTT(30)
  <2> QED BY <1>7, <1>11, <2>1, RoundedIs DEF CessOf
<1>14. \A local \in BOOLEAN :
          GSTOf(row, line.amount, w, local) = IF row.gst = 0 THEN 0 ELSE IF local THEN 2 * x ELSE y
  BY <1>8, <1>9, <1>10, <1>11 DEF GSTOf
<1>15. (a = b) \in BOOLEAN /\ (c = d) \in BOOLEAN
  OBVIOUS
<1>16. PICK p \in BOOLEAN, q \in BOOLEAN : p = (a = b) /\ q = (c = d)
  BY <1>15
<1>17. l.tax - m.tax \in {-1, 0, 1}
  <2>1. l.tax = (IF row.gst = 0 THEN 0 ELSE IF p THEN 2 * x ELSE y) + z
    BY <1>4, <1>11, <1>14, <1>16
  <2>2. m.tax = (IF row.gst = 0 THEN 0 ELSE IF q THEN 2 * x ELSE y) + z
    BY <1>5, <1>11, <1>14, <1>16
  <2> QED BY <1>12, <1>13, <2>1, <2>2
<1> QED BY <1>1, <1>2, <1>17

-----------------------------------------------------------------------------
(* What an engine makes of a document's lines *)

\* Lines that are each what the engine makes of the document's.
Lined(lines, doc) ==
    /\ lines \in Seq(TaxedLine) /\ Len(lines) = Len(doc.lines) /\ DOMAIN lines = DOMAIN doc.lines
    /\ \A k \in DOMAIN lines : AddsToTax(lines[k]) /\ lines[k].code = doc.lines[k].code

LEMMA EachLine ==
    ASSUME NEW doc, doc.lines \in Seq(AnyLine), doc.inclusive \in BOOLEAN,
           NEW lines, lines = [i \in DOMAIN doc.lines |-> lines[i]],
           \A i \in DOMAIN doc.lines : \E cs \in Components, class \in ClassNames :
              lines[i] = ComputeLine(doc.lines[i], doc.inclusive, cs, class)
    PROVE  Lined(lines, doc)
<1>1. ASSUME NEW i \in DOMAIN doc.lines
      PROVE  lines[i] \in TaxedLine /\ AddsToTax(lines[i]) /\ lines[i].code = doc.lines[i].code
  <2>1. PICK cs \in Components, class \in ClassNames : lines[i] = ComputeLine(doc.lines[i], doc.inclusive, cs, class)
    OBVIOUS
  <2>2. PICK line \in AnyLine : line = doc.lines[i]
    OBVIOUS
  <2>3. PICK inclusive \in BOOLEAN : inclusive = doc.inclusive
    OBVIOUS
  <2>4. PICK l : l = lines[i]
    OBVIOUS
  <2>5. l = ComputeLine(line, inclusive, cs, class)
    BY <2>1, <2>2, <2>3, <2>4
  <2>6. /\ l \in TaxedLine /\ AddsToTax(l) /\ l.code = line.code /\ DOMAIN l.comps = DOMAIN cs
        /\ \A c \in DOMAIN cs : /\ l.comps[c].type = cs[c][1]
                                /\ l.comps[c].amount = Rounded(line.amount * cs[c][2], Whole(inclusive, cs))
        /\ Summable([c \in DOMAIN l.comps |-> l.comps[c].amount])
    <3>1. line \in AnyLine /\ inclusive \in BOOLEAN /\ cs \in Components /\ class \in ClassNames
      OBVIOUS
    <3> QED BY <2>5, <3>1, LineIs, SMTT(60)
  <2> QED BY <2>2, <2>4, <2>6
<1>2. lines \in [DOMAIN doc.lines -> TaxedLine]
  BY <1>1
<1>3. lines \in Seq(TaxedLine) /\ Len(lines) = Len(doc.lines) /\ DOMAIN lines = DOMAIN doc.lines
  <2>1. DOMAIN doc.lines = 1 .. Len(doc.lines) /\ Len(doc.lines) \in Nat
    BY LenProperties
  <2> QED BY <1>2, <2>1
<1> QED BY <1>1, <1>3 DEF Lined

(* The rate table: of the rows in force the one that started last *)

\* A function has no more values than arguments.
LEMMA ImageFinite ==
    ASSUME NEW f, IsFiniteSet(DOMAIN f)
    PROVE  IsFiniteSet({f[x] : x \in DOMAIN f})
<1> DEFINE T == {f[x] : x \in DOMAIN f}
           g == [x \in DOMAIN f |-> f[x]]
<1>1. g \in Surjection(DOMAIN f, T)
  BY DEF Surjection
<1> QED BY <1>1, FS_Surjection

LEMMA RowInForce ==
    ASSUME NEW rows, IsFiniteSet(rows), \A r \in rows : EvenRow(r), NEW code, NEW day, InForce(rows, code, day) # {}
    PROVE  Resolve(rows, code, day) \in InForce(rows, code, day)
<1> DEFINE F == InForce(rows, code, day)
           D == {r.from : r \in F}
<1>1. IsFiniteSet(F) /\ F \subseteq rows
  BY FS_Subset DEF InForce
<1>2. IsFiniteSet(D)
  <2> DEFINE f == [r \in F |-> r.from]
  <2>1. D = {f[r] : r \in DOMAIN f}
    OBVIOUS
  <2>2. IsFiniteSet(DOMAIN f)
    BY <1>1
  <2> HIDE DEF f
  <2> QED BY <2>1, <2>2, ImageFinite
<1>3. D \subseteq Int /\ D # {}
  BY <1>1 DEF EvenRow, AnyRow
<1>4. Max(D) \in D /\ \A x \in D : x <= Max(D)
  BY <1>2, <1>3, MaxIs
<1>5. \E r \in F : \A q \in F : q.from <= r.from
  BY <1>4
<1> QED BY <1>5 DEF Resolve

\* A line as India's engine makes it.
IndiaLine(l, line, rows, doc) ==
    \E row \in InForce(rows, line.code, doc.date) :
        l = ComputeLine(line, doc.inclusive, IndiaComponents(row, doc.supplierState, doc.place), row.class)

LEMMA IndiaLines ==
    ASSUME NEW rows, IsFiniteSet(rows), \A r \in rows : EvenRow(r),
           NEW doc, doc.lines \in Seq(AnyLine), doc.inclusive \in BOOLEAN,
           NEW lines, lines = India(rows, doc), lines # Refused
    PROVE  Lined(lines, doc) /\ \A k \in DOMAIN lines : Once(lines[k]) /\ IndiaLine(lines[k], doc.lines[k], rows, doc)
<1> DEFINE Row(i) == Resolve(rows, doc.lines[i].code, doc.date)
<1>1. \A i \in DOMAIN doc.lines : InForce(rows, doc.lines[i].code, doc.date) # {}
  BY DEF India
<1>2. lines = [i \in DOMAIN doc.lines |->
          ComputeLine(doc.lines[i], doc.inclusive, IndiaComponents(Row(i), doc.supplierState, doc.place), Row(i).class)]
  BY DEF India
<1>3. ASSUME NEW i \in DOMAIN doc.lines
      PROVE  /\ \E cs \in Components, class \in ClassNames : lines[i] = ComputeLine(doc.lines[i], doc.inclusive, cs, class)
             /\ Once(lines[i]) /\ IndiaLine(lines[i], doc.lines[i], rows, doc)
  <2>1. PICK row : row = Row(i)
    OBVIOUS
  <2>2. row \in InForce(rows, doc.lines[i].code, doc.date)
    <3>1. InForce(rows, doc.lines[i].code, doc.date) # {}
      BY <1>1
    <3> QED BY <2>1, <3>1, RowInForce
  <2>3. EvenRow(row)
    BY <2>2 DEF InForce
  <2>4. PICK line \in AnyLine : line = doc.lines[i]
    OBVIOUS
  <2>5. PICK l : l = lines[i]
    OBVIOUS
  <2>6. l = ComputeLine(line, doc.inclusive, IndiaComponents(row, doc.supplierState, doc.place), row.class)
    <3> HIDE DEF Row
    <3> QED BY <1>2, <2>1, <2>4, <2>5
  <2>7. PICK inclusive, from, place : inclusive \in BOOLEAN /\ inclusive = doc.inclusive /\ from = doc.supplierState /\ place = doc.place
    OBVIOUS
  <2>8. Once(l)
    <3>1. l = ComputeLine(line, inclusive, IndiaComponents(row, from, place), row.class)
      BY <2>6, <2>7
    <3>2. line \in AnyLine /\ inclusive \in BOOLEAN /\ EvenRow(row)
      BY <2>3, <2>4, <2>7
    <3> HIDE DEF Row
    <3> QED BY <3>1, <3>2, IndiaLineIs
  <2>9. IndiaComponents(row, from, place) \in Components /\ row.class \in ClassNames
    BY <2>3, ComponentsOfIndia DEF EvenRow, AnyRow, ClassNames
  <2> QED BY <2>2, <2>4, <2>5, <2>6, <2>7, <2>8, <2>9 DEF IndiaLine
<1>4. Lined(lines, doc)
  <2>1. lines = [i \in DOMAIN doc.lines |-> lines[i]]
    BY <1>2
  <2> HIDE DEF Row
  <2> QED BY <1>3, <2>1, EachLine
<1>5. DOMAIN lines = DOMAIN doc.lines
  BY <1>2
<1> QED BY <1>3, <1>4, <1>5

(* The other regimes *)

LEMMA VATLineIs ==
    ASSUME NEW doc, doc.country \in {"ES", "GB"}, NEW code, NEW customer, NEW scope, scope = VATScope(doc, customer), scope # Unset,
           NEW f \in ResolveVATLine(doc, code, scope)
    PROVE  f[2] \in Components /\ f[1] \in ClassNames
<1>1. scope \in {"REVERSE_CHARGE", "DOMESTIC", "INTRA_EU_B2B", "EXPORT"}
  BY DEF VATScope
<1>2. <<>> \in Components
  BY DEF Components
<1>3. CASE code.kind = Unset
  BY <1>3 DEF ResolveVATLine, Unset
<1>4. CASE code.kind = "EXEMPT"
  BY <1>2, <1>4 DEF ResolveVATLine, ClassNames
<1>5. CASE code.kind \notin {Unset, "EXEMPT"} /\ scope # "DOMESTIC"
  BY <1>1, <1>2, <1>5 DEF ResolveVATLine, ClassNames
<1>6. CASE code.kind = "ZERO" /\ scope = "DOMESTIC"
  BY <1>2, <1>6 DEF ResolveVATLine, ClassNames
<1>7. CASE code.kind \notin {Unset, "EXEMPT", "ZERO"} /\ scope = "DOMESTIC"
  <2>1. PICK pack : pack = VATTable[doc.country]
    OBVIOUS
  <2>2. PICK cs : /\ \E r \in PickRate(code, pack) :
                       cs = <<<<VATName(doc.country), r>>>>
                            \o (IF doc.country = "ES" /\ doc.surcharge THEN <<<<"RE", EquivalenceSurcharge[r]>>>> ELSE <<>>)
                  /\ f = <<IF cs[1][2] = pack.standard THEN "STANDARD" ELSE "REDUCED", cs>>
    BY <1>7, <2>1 DEF ResolveVATLine
  <2>3. PICK r \in PickRate(code, pack) :
             cs = <<<<VATName(doc.country), r>>>>
                  \o (IF doc.country = "ES" /\ doc.surcharge THEN <<<<"RE", EquivalenceSurcharge[r]>>>> ELSE <<>>)
    BY <2>2
  <2>4. r \in {pack.standard} \cup pack.reduced
    BY DEF PickRate
  <2>5. (doc.country = "ES" /\ r \in {2100, 400, 1000}) \/ (doc.country = "GB" /\ r \in {2000, 500})
    BY <2>1, <2>4 DEF VATTable
  <2>6. PICK v, e : v = <<VATName(doc.country), r>> /\ e = <<"RE", EquivalenceSurcharge[r]>>
    OBVIOUS
  <2>7. v \in ComponentNames \X Nat
    BY <2>5, <2>6 DEF VATName, ComponentNames
  <2>8. doc.country = "ES" => e \in ComponentNames \X Nat
    <3>1. doc.country = "ES" => EquivalenceSurcharge[r] \in Nat
      BY <2>5 DEF EquivalenceSurcharge
    <3> QED BY <2>6, <3>1 DEF ComponentNames
  <2>9. \/ cs = <<v, e>> /\ doc.country = "ES"
        \/ cs = <<v>>
    <3>1. <<v>> \o <<e>> = <<v, e>> /\ <<v>> \o <<>> = <<v>>
      BY TwoSingles, NothingAdded
    <3> QED BY <2>3, <2>6, <3>1
  <2>10. cs \in Components
    <3>1. PICK S : S = ComponentNames \X Nat
      OBVIOUS
    <3>2. v \in S /\ (doc.country = "ES" => e \in S)
      BY <2>7, <2>8, <3>1
    <3>3. cs \in Seq(S)
      <4>1. <<v>> \in Seq(S) /\ (e \in S => <<v, e>> \in Seq(S))
        BY <3>2
      <4> QED BY <2>9, <3>2, <4>1
    <3> QED BY <3>1, <3>3 DEF Components
  <2> QED BY <2>2, <2>10 DEF ClassNames
<1> QED BY <1>1, <1>3, <1>4, <1>5, <1>6, <1>7

LEMMA VATLines ==
    ASSUME NEW doc, doc.country \in {"ES", "GB"}, doc.lines \in Seq(AnyLine), doc.inclusive \in BOOLEAN,
           NEW lines, lines = VAT(doc), lines # Refused
    PROVE  Lined(lines, doc)
<1>1. PICK customer : customer = IF doc.customer = Unset THEN doc.country ELSE doc.customer
  OBVIOUS
<1>2. PICK scope : scope = VATScope(doc, customer)
  OBVIOUS
<1> DEFINE Found(i) == ResolveVATLine(doc, doc.lines[i].code, scope)
           Pick1(i) == CHOOSE f \in Found(i) : TRUE
<1>3. scope # Unset /\ \A i \in DOMAIN doc.lines : Found(i) # {}
  BY <1>1, <1>2 DEF VAT
<1>4. lines = [i \in DOMAIN doc.lines |-> ComputeLine(doc.lines[i], doc.inclusive, Pick1(i)[2], Pick1(i)[1])]
  BY <1>1, <1>2, <1>3 DEF VAT
<1>5. ASSUME NEW i \in DOMAIN doc.lines
      PROVE  \E cs \in Components, class \in ClassNames : lines[i] = ComputeLine(doc.lines[i], doc.inclusive, cs, class)
  <2>1. PICK f : f = Pick1(i)
    OBVIOUS
  <2>2. f \in ResolveVATLine(doc, doc.lines[i].code, scope)
    BY <1>3, <2>1
  <2>3. f[2] \in Components /\ f[1] \in ClassNames
    BY <1>2, <1>3, <2>2, VATLineIs
  <2>4. lines[i] = ComputeLine(doc.lines[i], doc.inclusive, f[2], f[1])
    <3> HIDE DEF Pick1
    <3> QED BY <1>4, <2>1
  <2> QED BY <2>3, <2>4
<1>6. lines = [i \in DOMAIN doc.lines |-> lines[i]]
  BY <1>4
<1> QED BY <1>5, <1>6, EachLine

LEMMA USLines ==
    ASSUME NEW doc, doc.lines \in Seq(AnyLine), doc.inclusive \in BOOLEAN, NEW lines, lines = US(doc), lines # Refused
    PROVE  Lined(lines, doc)
<1>1. PICK export : export = (doc.customer \notin {Unset, "US"})
  OBVIOUS
<1>2. PICK collects : collects = (doc.region \in doc.collects)
  OBVIOUS
<1> DEFINE F(i) == USLine(doc, doc.lines[i].code, export, collects)
<1>3. export \/ doc.region \in DOMAIN StateRates
  BY <1>1, <1>2 DEF US
<1>4. lines = [i \in DOMAIN doc.lines |-> ComputeLine(doc.lines[i], doc.inclusive, F(i)[2], F(i)[1])]
  BY <1>1, <1>2 DEF US
<1>5. ASSUME NEW i \in DOMAIN doc.lines
      PROVE  \E cs \in Components, class \in ClassNames : lines[i] = ComputeLine(doc.lines[i], doc.inclusive, cs, class)
  <2>1. PICK f : f = F(i)
    OBVIOUS
  <2>2. PICK r : r = StateRates[doc.region]
    OBVIOUS
  <2>3. ~export => r \in Nat
    BY <1>3, <2>2 DEF StateRates
  <2>4. <<>> \in Components
    BY DEF Components
  <2>5. ~export => <<<<"STATE_SALES_TAX", r>>>> \in Components
    <3>1. PICK e, S : e = <<"STATE_SALES_TAX", r>> /\ S = ComponentNames \X Nat
      OBVIOUS
    <3>2. ~export => e \in S
      BY <2>3, <3>1 DEF ComponentNames
    <3>3. ~export => <<e>> \in Seq(S)
      BY <3>2
    <3> QED BY <3>1, <3>3 DEF Components
  <2>6. f[2] \in Components /\ f[1] \in ClassNames
    BY <2>1, <2>2, <2>4, <2>5 DEF USLine, ClassNames
  <2>7. lines[i] = ComputeLine(doc.lines[i], doc.inclusive, f[2], f[1])
    <3> HIDE DEF F
    <3> QED BY <1>4, <2>1
  <2> QED BY <2>6, <2>7
<1>6. lines = [i \in DOMAIN doc.lines |-> lines[i]]
  BY <1>4
<1> QED BY <1>5, <1>6, EachLine

\* Whatever the regime, a document that is not refused has a line for each of its own.
LEMMA CalculatedLines ==
    ASSUME NEW rows, IsFiniteSet(rows), \A r \in rows : EvenRow(r),
           NEW doc, doc.lines \in Seq(AnyLine), doc.inclusive \in BOOLEAN,
           NEW lines, lines = Calculate(rows, doc), lines # Refused
    PROVE  /\ Lined(lines, doc)
           /\ doc.country = "IN" =>
                \A k \in DOMAIN lines : Once(lines[k]) /\ IndiaLine(lines[k], doc.lines[k], rows, doc)
<1>1. DOMAIN VATTable = {"ES", "GB"}
  BY DEF VATTable
<1>2. CASE doc.country \in {Unset, "IN"}
  <2>1. lines = India(rows, doc)
    BY <1>1, <1>2 DEF Calculate, Unset
  <2> QED BY <2>1, IndiaLines
<1>3. CASE doc.country = "US"
  <2>1. lines = US(doc)
    BY <1>1, <1>3 DEF Calculate
  <2> QED BY <1>3, <2>1, USLines
<1>4. CASE doc.country \in DOMAIN VATTable
  <2>1. lines = VAT(doc) /\ doc.country \in {"ES", "GB"}
    BY <1>1, <1>4 DEF Calculate
  <2> QED BY <2>1, VATLines
<1>5. doc.country \in {Unset, "IN"} \/ doc.country = "US" \/ doc.country \in DOMAIN VATTable
  BY <1>1 DEF Calculate
<1> QED BY <1>2, <1>3, <1>4, <1>5

-----------------------------------------------------------------------------
(* Totals and postings *)

AnySnap == [doc : Docs, date : Days, fx : Nat \ {0}, region : STRING \cup {Unset}, supply : {"B2C", "B2B"},
            place : STRING, lines : Seq(TaxedLine)]
AnyEntry == [account : Accounts, debit : Int, credit : Int]
AnyJournal == [date : Days, source : {"OUTPUT", "INPUT", "CANCELLATION"}, doc : Docs, lines : Seq(AnyEntry)]
Imbalance(lines) == SumOver([k \in DOMAIN lines |-> lines[k].debit - lines[k].credit])

LEMMA TotalsOfLines ==
    ASSUME NEW lines \in Seq(TaxedLine)
    PROVE  Taxable(lines) \in Int /\ Tax(lines) \in Nat
<1>1. IsFiniteSet(DOMAIN lines)
  <2>1. DOMAIN lines = 1 .. Len(lines) /\ Len(lines) \in Nat
    BY LenProperties
  <2> QED BY <2>1, FS_Interval
<1>2. \A i \in DOMAIN lines : lines[i].taxable \in Int /\ lines[i].tax \in Nat
  <2>1. \A i \in DOMAIN lines : lines[i] \in TaxedLine
    OBVIOUS
  <2> QED BY <2>1 DEF TaxedLine
<1>3. PICK f : f = [i \in DOMAIN lines |-> lines[i].taxable]
  OBVIOUS
<1>4. PICK g : g = [i \in DOMAIN lines |-> lines[i].tax]
  OBVIOUS
<1>5. Summable(f) /\ Summable(g) /\ \A x \in DOMAIN g : g[x] >= 0
  BY <1>1, <1>2, <1>3, <1>4 DEF Summable
<1>6. SumOver(f) \in Int /\ SumOver(g) \in Int /\ SumOver(g) >= 0
  BY <1>5, SumIsInt, SumOfPositive
<1> QED BY <1>3, <1>4, <1>6 DEF Taxable, Tax

\* Turned round, a balanced journal balances.
LEMMA SwappedBalances ==
    ASSUME NEW lines \in Seq(AnyEntry), Imbalance(lines) = 0
    PROVE  Swapped(lines) \in Seq(AnyEntry) /\ Imbalance(Swapped(lines)) = 0
<1>1. DOMAIN lines = 1 .. Len(lines) /\ Len(lines) \in Nat
  BY LenProperties
<1>2. IsFiniteSet(DOMAIN lines)
  BY <1>1, FS_Interval
<1>3. \A i \in DOMAIN lines : lines[i].account \in Accounts /\ lines[i].debit \in Int /\ lines[i].credit \in Int
  <2>1. \A i \in DOMAIN lines : lines[i] \in AnyEntry
    OBVIOUS
  <2> QED BY <2>1 DEF AnyEntry
<1>4. PICK t : t = Swapped(lines)
  OBVIOUS
<1>5. DOMAIN t = DOMAIN lines
      /\ \A i \in DOMAIN lines : t[i] = [account |-> lines[i].account, debit |-> lines[i].credit, credit |-> lines[i].debit]
  BY <1>4 DEF Swapped, Entry
<1>6. t \in Seq(AnyEntry)
  <2>1. t \in [1 .. Len(lines) -> AnyEntry]
    BY <1>1, <1>3, <1>4 DEF Swapped, Entry, AnyEntry
  <2> QED BY <1>1, <2>1
<1>7. PICK f : f = [k \in DOMAIN lines |-> lines[k].debit - lines[k].credit]
  OBVIOUS
<1>8. PICK h : h = [k \in DOMAIN t |-> t[k].debit - t[k].credit]
  OBVIOUS
<1>9. Summable(f) /\ Summable(h) /\ DOMAIN h = DOMAIN f /\ -1 \in Int /\ \A x \in DOMAIN f : h[x] = (-1) * f[x]
  BY <1>2, <1>3, <1>5, <1>7, <1>8 DEF Summable
<1>10. SumOver(h) = (-1) * SumOver(f)
  BY <1>9, SumScale
<1>11. SumOver(f) = 0
  BY <1>7 DEF Imbalance
<1>12. SumOver(h) = 0
  BY <1>10, <1>11
<1> QED BY <1>4, <1>6, <1>8, <1>12 DEF Imbalance

\* What is posted for a document balances, taxed or not.
LEMMA PostingBalances ==
    ASSUME NEW s, NEW net \in Int, NEW tax \in Nat
    PROVE  Posting(s, net, tax) \in Seq(AnyEntry) /\ Imbalance(Posting(s, net, tax)) = 0
<1>1. PICK sale \in BOOLEAN : sale = (s.dir = "OUTPUT")
  OBVIOUS
<1>2. PICK a : a = Entry(IF sale THEN "RECEIVABLE" ELSE "PAYABLE", IF sale THEN net + tax ELSE 0, IF sale THEN 0 ELSE net + tax)
  OBVIOUS
<1>3. PICK b : b = Entry(IF sale THEN "SALES" ELSE "PURCHASES", IF sale THEN 0 ELSE net, IF sale THEN net ELSE 0)
  OBVIOUS
<1>4. PICK c : c = Entry(IF sale THEN "OUTPUT_TAX" ELSE "INPUT_TAX", IF sale THEN 0 ELSE tax, IF sale THEN tax ELSE 0)
  OBVIOUS
<1>5. PICK lines : lines = <<a, b>> \o (IF tax > 0 THEN <<c>> ELSE <<>>)
  OBVIOUS
<1>6. lines = IF tax > 0 THEN <<a, b, c>> ELSE <<a, b>>
  <2>1. <<a, b>> \o <<c>> = <<a, b, c>> /\ <<a, b>> \o <<>> = <<a, b>>
    BY PairAndSingle, NothingAdded
  <2> QED BY <1>5, <2>1
<1>7. /\ a \in AnyEntry /\ b \in AnyEntry /\ c \in AnyEntry
      /\ a.debit - a.credit = IF sale THEN net + tax ELSE -(net + tax)
      /\ b.debit - b.credit = IF sale THEN -net ELSE net
      /\ c.debit - c.credit = IF sale THEN -tax ELSE tax
  BY <1>2, <1>3, <1>4 DEF Entry, AnyEntry, Accounts
<1>8. lines \in Seq(AnyEntry)
  <2>1. <<a, b>> \in Seq(AnyEntry)
    BY <1>7
  <2>2. <<a, b, c>> \in Seq(AnyEntry)
    BY <1>7
  <2> QED BY <1>6, <2>1, <2>2
<1>9. PICK f : f = [k \in DOMAIN lines |-> lines[k].debit - lines[k].credit]
  OBVIOUS
<1>10. Summable(f)
  <2>1. DOMAIN lines = 1 .. Len(lines) /\ Len(lines) \in Nat
    BY <1>8, LenProperties
  <2>2. IsFiniteSet(DOMAIN lines)
    BY <2>1, FS_Interval
  <2>3. \A k \in DOMAIN lines : lines[k] \in AnyEntry
    BY <1>8
  <2> QED BY <1>9, <2>2, <2>3 DEF Summable, AnyEntry
<1>11. SumOver(f) = 0
  <2>1. CASE tax > 0
    <3>1. DOMAIN f = 1 .. 3 /\ f[1] = a.debit - a.credit /\ f[2] = b.debit - b.credit /\ f[3] = c.debit - c.credit
      BY <1>6, <1>9, <2>1
    <3>2. SumOver(f) = f[1] + f[2] + f[3]
      BY <1>10, <3>1, SumOfFew
    <3> QED BY <1>7, <3>1, <3>2
  <2>2. CASE tax = 0
    <3>1. DOMAIN f = 1 .. 2 /\ f[1] = a.debit - a.credit /\ f[2] = b.debit - b.credit
      BY <1>6, <1>9, <2>2
    <3>2. SumOver(f) = f[1] + f[2]
      BY <1>10, <3>1, SumOfFew
    <3> QED BY <1>7, <2>2, <3>1, <3>2
  <2> QED BY <2>1, <2>2
<1>12. Imbalance(lines) = 0
  BY <1>9, <1>11 DEF Imbalance
<1>13. Posting(s, net, tax) = IF Reduces(s) THEN Swapped(lines) ELSE lines
  BY <1>1, <1>2, <1>3, <1>4, <1>5 DEF Posting
<1>14. Swapped(lines) \in Seq(AnyEntry) /\ Imbalance(Swapped(lines)) = 0
  BY <1>8, <1>12, SwappedBalances
<1> QED BY <1>8, <1>12, <1>13, <1>14

\* What a document brings to the engine.
LEMMA SupplyIs ==
    ASSUME NEW s \in AnySheet, company \in Companies
    PROVE  /\ Supply(s).lines = s.lines /\ s.lines \in Seq(AnyLine) /\ s.lines # <<>>
           /\ Supply(s).inclusive = (s.dir = "OUTPUT" /\ s.inclusive) /\ Supply(s).inclusive \in BOOLEAN
           /\ Supply(s).date = s.date /\ Supply(s).country = company.country /\ Supply(s).place \in STRING
<1>1. company.state \in STRING
  BY TaxationAssumption
<1>2. s.place \in STRING /\ s.lines \in Seq(AnyLine) /\ s.lines # <<>>
  BY DEF AnySheet
<1> QED BY <1>1, <1>2 DEF Supply

-----------------------------------------------------------------------------
(* The inductive invariant *)

DocsOK ==
    /\ docs \in [Docs -> [sheet : Sheets \cup {NoSheet}, status : {"NONE", "DRAFT", "FINALIZED", "CANCELLED"}, tax : Nat]]
    /\ reads \in [Docs -> Nat] /\ cancels \in [Docs -> Nat]
    /\ \A d \in Docs :
          /\ docs[d].status # "NONE" => docs[d].sheet \in Sheets
          /\ reads[d] > 0 \/ cancels[d] > 0 => docs[d].status # "NONE"
          /\ reads[d] <= MaxReads /\ cancels[d] <= MaxReads
          /\ docs[d].tax \in 0 .. Len(snaps)
          /\ docs[d].tax > 0 => snaps[docs[d].tax].doc = d
          /\ docs[d].status = "FINALIZED" /\ docs[d].sheet.dir = "OUTPUT" => docs[d].tax > 0

\* What a snapshot has of its document.
SnapOK(snap) ==
    LET doc == docs[snap.doc] IN
    /\ doc.status \in {"FINALIZED", "CANCELLED"} /\ doc.tax > 0
    /\ snap.date = doc.sheet.date /\ Lined(snap.lines, Supply(doc.sheet))
    /\ company.country = "IN" =>
         \A k \in DOMAIN snap.lines :
            Once(snap.lines[k]) /\ IndiaLine(snap.lines[k], doc.sheet.lines[k], rates, Supply(doc.sheet))

Facts == company \in Companies /\ today \in Days /\ rates \subseteq RateRows \cup RateOffers
SnapsOK == snaps \in Seq(AnySnap) /\ \A i \in DOMAIN snaps : SnapOK(snaps[i])
JournalsOK == journals \in Seq(AnyJournal) /\ \A i \in DOMAIN journals : Imbalance(journals[i].lines) = 0
TaxInv == Facts /\ DocsOK /\ SnapsOK /\ JournalsOK

\* A snapshot stays what it was as long as its document's sheet does.
LEMMA SnapStays ==
    ASSUME NEW snap \in AnySnap, SnapOK(snap), docs[snap.doc].sheet = docs'[snap.doc].sheet,
           docs'[snap.doc].status \in {"FINALIZED", "CANCELLED"}, docs'[snap.doc].tax > 0,
           company' = company, rates \subseteq rates'
    PROVE  SnapOK(snap)'
<1>1. PICK s : s = docs[snap.doc].sheet /\ s = docs'[snap.doc].sheet
  OBVIOUS
<1>2. Supply(s)' = Supply(s)
  BY DEF Supply
<1>3. Lined(snap.lines, Supply(s))' /\ snap.date = s.date
  BY <1>1, <1>2 DEF SnapOK
<1>4. ASSUME company'.country = "IN", NEW k \in DOMAIN snap.lines
      PROVE  Once(snap.lines[k]) /\ IndiaLine(snap.lines[k], s.lines[k], rates', Supply(s))
  <2>1. Once(snap.lines[k]) /\ IndiaLine(snap.lines[k], s.lines[k], rates, Supply(s))
    BY <1>1, <1>4 DEF SnapOK
  <2> QED BY <2>1 DEF IndiaLine, InForce
<1> QED BY <1>1, <1>2, <1>3, <1>4 DEF SnapOK

LEMMA TaxInvInit == TaxationInit => TaxInv
<1> SUFFICES ASSUME TaxationInit PROVE TaxInv
  OBVIOUS
<1> USE DEF TaxationInit
<1>1. Facts
  BY TaxationAssumption DEF Facts, Days
<1>2. DocsOK
  BY TaxationAssumption DEF DocsOK, Blank
<1>3. SnapsOK /\ JournalsOK
  BY DEF SnapsOK, JournalsOK
<1> QED BY <1>1, <1>2, <1>3 DEF TaxInv

LEMMA RateKeepsTax == ASSUME TaxInv, NEW row \in RateOffers, CreateRate(row) PROVE TaxInv'
<1> USE DEF CreateRate
<1>1. Facts' /\ DocsOK' /\ JournalsOK'
  BY DEF TaxInv, Facts, DocsOK, JournalsOK
<1>2. SnapsOK'
  <2> SUFFICES ASSUME NEW i \in DOMAIN snaps PROVE SnapOK(snaps[i])'
    BY DEF TaxInv, SnapsOK
  <2>1. snaps[i] \in AnySnap /\ SnapOK(snaps[i])
    BY DEF TaxInv, SnapsOK
  <2>2. PICK snap \in AnySnap : snap = snaps[i]
    BY <2>1
  <2>3. SnapOK(snap)'
    BY <2>1, <2>2, SnapStays DEF SnapOK
  <2> QED BY <2>2, <2>3 DEF SnapOK
<1> QED BY <1>1, <1>2 DEF TaxInv

\* Whatever leaves sheets, snapshots and journals alone.
LEMMA DayKeepsTax == ASSUME TaxInv, NextDay PROVE TaxInv'
<1> USE DEF NextDay
<1>1. Facts'
  BY TaxationAssumption DEF TaxInv, Facts, Days
<1>2. DocsOK' /\ JournalsOK'
  BY DEF TaxInv, DocsOK, JournalsOK
<1>3. SnapsOK'
  BY DEF TaxInv, SnapsOK, SnapOK, Supply
<1> QED BY <1>1, <1>2, <1>3 DEF TaxInv

LEMMA DraftKeepsTax == ASSUME TaxInv, NEW d \in Docs, NEW sheet \in Sheets, Draft(d, sheet) PROVE TaxInv'
<1> USE DEF Draft
<1>1. Facts' /\ JournalsOK'
  BY DEF TaxInv, Facts, JournalsOK
<1>2. DocsOK'
  <2>1. \A e \in Docs : e # d => docs'[e] = docs[e]
    BY DEF TaxInv, DocsOK
  <2>2. docs'[d] = [sheet |-> sheet, status |-> "DRAFT", tax |-> 0]
    BY DEF TaxInv, DocsOK
  <2>3. docs' \in [Docs -> [sheet : Sheets \cup {NoSheet}, status : {"NONE", "DRAFT", "FINALIZED", "CANCELLED"}, tax : Nat]]
    BY DEF TaxInv, DocsOK
  <2>4. Len(snaps) \in Nat
    BY DEF TaxInv, SnapsOK
  <2> QED BY <2>1, <2>2, <2>3, <2>4 DEF TaxInv, DocsOK
<1>3. SnapsOK'
  <2> SUFFICES ASSUME NEW i \in DOMAIN snaps PROVE SnapOK(snaps[i])'
    BY DEF TaxInv, SnapsOK
  <2>1. snaps[i] \in AnySnap /\ SnapOK(snaps[i])
    BY DEF TaxInv, SnapsOK
  <2>2. PICK snap \in AnySnap : snap = snaps[i]
    BY <2>1
  <2>3. snap.doc \in Docs /\ snap.doc # d
    BY <2>1, <2>2 DEF SnapOK, AnySnap
  <2>4. docs'[snap.doc] = docs[snap.doc]
    BY <2>3 DEF TaxInv, DocsOK
  <2>5. SnapOK(snap)'
    BY <2>1, <2>2, <2>4, SnapStays DEF SnapOK
  <2> QED BY <2>2, <2>5 DEF SnapOK
<1> QED BY <1>1, <1>2, <1>3 DEF TaxInv

\* A count is no more than the sum of all.
LEMMA CountWithin ==
    ASSUME NEW f \in [Docs -> Nat], NEW d \in Docs
    PROVE  SumOver(f) \in Nat /\ f[d] <= SumOver(f)
<1>1. Summable(f) /\ d \in DOMAIN f /\ \A x \in DOMAIN f : f[x] >= 0
  BY TaxationAssumption DEF Summable
<1>2. PICK rest : rest = Part(f, DOMAIN f \ {d})
  OBVIOUS
<1>3. SumOver(f) = f[d] + SumOver(rest)
  BY <1>1, <1>2, SumWithout
<1>4. Summable(rest) /\ \A x \in DOMAIN rest : rest[x] >= 0
  BY <1>1, <1>2, PartSummable DEF Part
<1>5. SumOver(rest) >= 0 /\ SumOver(rest) \in Int
  BY <1>4, SumOfPositive, SumIsInt
<1> QED BY <1>3, <1>5

LEMMA ReadKeepsTax == ASSUME TaxInv, NEW d \in Docs, ReadDraft(d) \/ ReadFinalized(d) PROVE TaxInv'
<1> USE DEF ReadDraft, ReadFinalized
<1>1. Facts' /\ JournalsOK'
  BY DEF TaxInv, Facts, JournalsOK
<1>2. SnapsOK'
  BY DEF TaxInv, SnapsOK, SnapOK, Supply
<1>3. reads[d] < MaxReads /\ cancels[d] < MaxReads
  <2>1. reads \in [Docs -> Nat] /\ cancels \in [Docs -> Nat]
    BY DEF TaxInv, DocsOK
  <2>2. /\ SumOver(reads) \in Nat /\ reads[d] <= SumOver(reads)
        /\ SumOver(cancels) \in Nat /\ cancels[d] <= SumOver(cancels)
    BY <2>1, CountWithin
  <2>3. SumOver(reads) + SumOver(cancels) < MaxReads /\ MaxReads \in Nat
    BY TaxationAssumption
  <2> QED BY <2>1, <2>2, <2>3
<1>4. DocsOK'
  <2>1. /\ reads' \in [Docs -> Nat] /\ reads'[d] \in {reads[d], reads[d] + 1}
        /\ cancels' \in [Docs -> Nat] /\ cancels'[d] \in {cancels[d], cancels[d] + 1}
        /\ \A e \in Docs : e # d => reads'[e] = reads[e] /\ cancels'[e] = cancels[e]
        /\ docs[d].status # "NONE" /\ docs' = docs /\ snaps' = snaps
    BY DEF TaxInv, DocsOK
  <2>2. MaxReads \in Nat /\ reads[d] \in Nat /\ cancels[d] \in Nat
    BY TaxationAssumption DEF TaxInv, DocsOK
  <2>3. reads'[d] <= MaxReads /\ cancels'[d] <= MaxReads
    BY <1>3, <2>1, <2>2
  <2>4. ASSUME NEW e \in Docs
        PROVE  /\ docs'[e].status # "NONE" => docs'[e].sheet \in Sheets
               /\ reads'[e] > 0 \/ cancels'[e] > 0 => docs'[e].status # "NONE"
               /\ reads'[e] <= MaxReads /\ cancels'[e] <= MaxReads
    <3>1. CASE e = d
      BY <2>1, <2>3, <3>1 DEF TaxInv, DocsOK
    <3>2. CASE e # d
      BY <2>1, <3>2 DEF TaxInv, DocsOK
    <3> QED BY <3>1, <3>2
  <2> QED BY <2>1, <2>4 DEF TaxInv, DocsOK
<1> QED BY <1>1, <1>2, <1>4 DEF TaxInv

\* The sheet of a document that was read, and what the engine makes of it.
LEMMA EngineIsTold ==
    ASSUME TaxInv, NEW s \in Sheets, NEW lines, lines = Calculate(rates, Supply(s)), lines # Refused
    PROVE  /\ Lined(lines, Supply(s))
           /\ company.country = "IN" =>
                \A k \in DOMAIN lines : Once(lines[k]) /\ IndiaLine(lines[k], s.lines[k], rates, Supply(s))
<1>1. s \in AnySheet /\ company \in Companies
  BY TaxationAssumption DEF TaxInv, Facts
<1>2. Supply(s).lines = s.lines /\ s.lines \in Seq(AnyLine) /\ Supply(s).inclusive \in BOOLEAN
      /\ Supply(s).country = company.country
  BY <1>1, SupplyIs
<1>3. IsFiniteSet(rates)
  <2>1. IsFiniteSet(RateRows \cup RateOffers) /\ rates \subseteq RateRows \cup RateOffers
    BY TaxationAssumption, FS_Union DEF TaxInv, Facts
  <2> QED BY <2>1, FS_Subset
<1>4. \A r \in rates : EvenRow(r)
  BY TaxationAssumption DEF TaxInv, Facts, EvenRow
<1>5. PICK doc : doc = Supply(s)
  OBVIOUS
<1>6. doc.lines \in Seq(AnyLine) /\ doc.inclusive \in BOOLEAN /\ lines = Calculate(rates, doc)
  BY <1>2, <1>5
<1>7. /\ Lined(lines, doc)
      /\ doc.country = "IN" =>
           \A k \in DOMAIN lines : Once(lines[k]) /\ IndiaLine(lines[k], doc.lines[k], rates, doc)
  BY <1>3, <1>4, <1>6, CalculatedLines
<1> QED BY <1>2, <1>5, <1>7

LEMMA BaseIsInt ==
    ASSUME NEW amount \in Int, NEW fx \in Nat \ {0}
    PROVE  Base(amount, fx) \in Int /\ (amount \in Nat => Base(amount, fx) \in Nat)
<1>1. amount * fx \in Int /\ (amount \in Nat => amount * fx \in Nat)
  BY SMTT(30)
<1>2. PICK n \in Int : n = amount * fx
  BY <1>1
<1>3. Rounded(n, 100) \in Int
  BY RoundedIs
<1>4. amount \in Nat => Rounded(n, 100) \in Nat
  BY <1>1, <1>2, RoundedNat
<1> QED BY <1>2, <1>3, <1>4 DEF Base

LEMMA EnteredIsInt ==
    ASSUME NEW s \in AnySheet
    PROVE  Entered(s) \in Int
<1>1. s.lines \in Seq(AnyLine)
  BY DEF AnySheet
<1>2. PICK lines \in Seq(AnyLine) : lines = s.lines
  BY <1>1
<1>3. PICK f : f = [i \in DOMAIN lines |-> lines[i].amount]
  OBVIOUS
<1>4. Summable(f)
  <2>1. DOMAIN lines = 1 .. Len(lines) /\ Len(lines) \in Nat
    BY LenProperties
  <2>2. IsFiniteSet(DOMAIN lines)
    BY <2>1, FS_Interval
  <2>3. \A i \in DOMAIN lines : lines[i] \in AnyLine
    OBVIOUS
  <2> QED BY <1>3, <2>2, <2>3 DEF Summable, AnyLine
<1>5. SumOver(f) \in Int
  BY <1>4, SumIsInt
<1> QED BY <1>2, <1>3, <1>5 DEF Entered

\* Snapshots that are all right after a step.
LEMMA SnapsArePrimed ==
    ASSUME snaps' \in Seq(AnySnap), \A i \in DOMAIN snaps' : \E x \in AnySnap : x = snaps'[i] /\ SnapOK(x)'
    PROVE  SnapsOK'
BY DEF SnapsOK, SnapOK

LEMMA SnapsSame ==
    ASSUME SnapsOK, UNCHANGED <<company, rates, docs, snaps>>
    PROVE  SnapsOK'
<1>1. ASSUME NEW x \in AnySnap, SnapOK(x) PROVE SnapOK(x)'
  <2>1. docs[x.doc].status \in {"FINALIZED", "CANCELLED"} /\ docs[x.doc].tax > 0
    BY <1>1 DEF SnapOK
  <2> QED BY <1>1, <2>1, SnapStays
<1> QED BY <1>1, SnapsArePrimed DEF SnapsOK

\* A balanced journal joins the others.
LEMMA JournalAdded ==
    ASSUME JournalsOK, NEW j \in AnyJournal, Imbalance(j.lines) = 0, journals' = Append(journals, j)
    PROVE  JournalsOK'
<1>1. journals \in Seq(AnyJournal)
  BY DEF JournalsOK
<1>2. /\ journals' \in Seq(AnyJournal) /\ DOMAIN journals' = DOMAIN journals \cup {Len(journals) + 1}
      /\ \A i \in DOMAIN journals : journals'[i] = journals[i]
      /\ journals'[Len(journals) + 1] = j
  BY <1>1, AddAtEnd
<1> QED BY <1>2 DEF JournalsOK, Imbalance

LEMMA CancelKeepsTax == ASSUME TaxInv, NEW d \in Docs, Cancel(d) PROVE TaxInv'
<1>1. Facts'
  BY DEF TaxInv, Facts, Cancel
<1>2. /\ docs[d].status # "NONE" /\ snaps' = snaps /\ rates' = rates /\ company' = company /\ reads' = reads
      /\ docs' = [docs EXCEPT ![d].status = "CANCELLED"]
      /\ cancels' \in [Docs -> Nat] /\ cancels'[d] = cancels[d] - 1
      /\ \A e \in Docs : e # d => cancels'[e] = cancels[e]
  BY DEF Cancel, TaxInv, DocsOK
<1>3. /\ docs' \in [Docs -> [sheet : Sheets \cup {NoSheet}, status : {"NONE", "DRAFT", "FINALIZED", "CANCELLED"}, tax : Nat]]
      /\ docs'[d].sheet = docs[d].sheet /\ docs'[d].tax = docs[d].tax /\ docs'[d].status = "CANCELLED"
      /\ \A e \in Docs : e # d => docs'[e] = docs[e]
  BY <1>2 DEF TaxInv, DocsOK
<1>4. DocsOK'
  <2>1. MaxReads \in Nat
    BY TaxationAssumption
  <2> QED BY <1>2, <1>3, <2>1 DEF TaxInv, DocsOK
<1>5. SnapsOK'
  <2> SUFFICES ASSUME NEW i \in DOMAIN snaps PROVE SnapOK(snaps[i])'
    BY <1>2 DEF TaxInv, SnapsOK
  <2>1. snaps[i] \in AnySnap /\ SnapOK(snaps[i])
    BY DEF TaxInv, SnapsOK
  <2>2. PICK snap \in AnySnap : snap = snaps[i]
    BY <2>1
  <2>3. snap.doc \in Docs /\ docs[snap.doc].status \in {"FINALIZED", "CANCELLED"} /\ docs[snap.doc].tax > 0
    BY <2>1, <2>2 DEF SnapOK, AnySnap
  <2>4. /\ docs[snap.doc].sheet = docs'[snap.doc].sheet /\ docs'[snap.doc].tax > 0
        /\ docs'[snap.doc].status \in {"FINALIZED", "CANCELLED"}
    BY <1>3, <2>3
  <2>5. SnapOK(snap)'
    BY <1>2, <2>1, <2>2, <2>4, SnapStays
  <2>6. snaps'[i] = snap
    BY <1>2, <2>2
  <2> QED BY <1>2, <2>2, <2>5, <2>6 DEF SnapOK
<1>6. JournalsOK'
  <2> DEFINE posted == {i \in DOMAIN journals : journals[i].doc = d /\ journals[i].source = docs[d].sheet.dir}
             j == Journal(today, "CANCELLATION", d, Swapped(journals[Max(posted)].lines))
  <2>1. journals' = IF posted = {} THEN journals ELSE Append(journals, j)
    BY DEF Cancel
  <2>2. CASE posted = {}
    BY <2>1, <2>2 DEF TaxInv, JournalsOK
  <2>3. CASE posted # {}
    <3>1. Max(posted) \in posted
      <4>1. DOMAIN journals = 1 .. Len(journals) /\ Len(journals) \in Nat
        BY DEF TaxInv, JournalsOK
      <4>2. posted \subseteq DOMAIN journals /\ \A x \in posted : x \in Int
        BY <4>1
      <4>3. IsFiniteSet(DOMAIN journals)
        BY <4>1, FS_Interval
      <4> HIDE DEF posted
      <4>4. IsFiniteSet(posted)
        BY <4>2, <4>3, FS_Subset
      <4> QED BY <2>3, <4>2, <4>4, MaxIs
    <3>2. PICK lines : lines = journals[Max(posted)].lines
      OBVIOUS
    <3>3. lines \in Seq(AnyEntry) /\ Imbalance(lines) = 0
      <4>1. Max(posted) \in DOMAIN journals
        BY <3>1
      <4> HIDE DEF posted
      <4>2. journals[Max(posted)] \in AnyJournal /\ Imbalance(journals[Max(posted)].lines) = 0
        BY <4>1 DEF TaxInv, JournalsOK
      <4> QED BY <3>2, <4>2 DEF AnyJournal
    <3>4. Swapped(lines) \in Seq(AnyEntry) /\ Imbalance(Swapped(lines)) = 0
      BY <3>3, SwappedBalances
    <3>5. PICK k : k = Journal(today, "CANCELLATION", d, Swapped(lines))
      OBVIOUS
    <3>6. k \in AnyJournal /\ k.lines = Swapped(lines)
      BY <3>4, <3>5 DEF Journal, AnyJournal, TaxInv, Facts
    <3>7. journals' = Append(journals, k)
      BY <2>1, <2>3, <3>2, <3>5
    <3> QED BY <3>4, <3>6, <3>7, JournalAdded DEF TaxInv
  <2> QED BY <2>2, <2>3
<1> QED BY <1>1, <1>4, <1>5, <1>6 DEF TaxInv

LEMMA FinalizeKeepsTax == ASSUME TaxInv, NEW d \in Docs, Finalize(d) PROVE TaxInv'
<1> DEFINE s == docs[d].sheet
           lines == IF IsTaxed(s) THEN Calculate(rates, Supply(s)) ELSE Refused
           net == IF IsTaxed(s) THEN Base(Taxable(lines), s.fx) ELSE Entered(s)
           tax == IF IsTaxed(s) THEN Base(Tax(lines), s.fx) ELSE 0
           refused == \/ IsTaxed(s) /\ lines = Refused
                      \/ IsForeignSupplier(s)
                      \/ s.dir = "OUTPUT" /\ s.type \in RevenueTypes /\ Taxable(lines) + Tax(lines) <= 0
           snap == [doc |-> d, date |-> s.date, fx |-> s.fx, region |-> IF s.dir = "OUTPUT" THEN s.region ELSE Unset,
                    supply |-> IF s.dir = "OUTPUT" THEN "B2C" ELSE "B2B", place |-> Supply(s).place, lines |-> lines]
           posting == Journal(s.date, s.dir, d, Posting(s, net, tax))
<1>1. /\ reads[d] > 0 /\ reads' = [reads EXCEPT ![d] = @ - 1]
      /\ company' = company /\ rates' = rates /\ today' = today /\ cancels' = cancels
      /\ \/ docs' = docs /\ snaps' = snaps /\ journals' = journals
         \/ /\ ~refused
            /\ snaps' = IF IsTaxed(s) THEN Append(snaps, snap) ELSE snaps
            /\ journals' = IF IsOwedFor(s) /\ net + tax > 0 THEN Append(journals, posting) ELSE journals
            /\ docs' = [docs EXCEPT ![d].status = "FINALIZED", ![d].tax = IF IsTaxed(s) THEN Len(snaps') ELSE @]
  BY DEF Finalize
<1>2. Facts'
  BY <1>1 DEF TaxInv, Facts
<1>3. /\ reads' \in [Docs -> Nat] /\ reads'[d] = reads[d] - 1 /\ reads'[d] <= MaxReads
      /\ cancels' = cancels /\ \A e \in Docs : e # d => reads'[e] = reads[e]
  <2>1. MaxReads \in Nat
    BY TaxationAssumption
  <2> QED BY <1>1, <2>1 DEF TaxInv, DocsOK
<1>4. s \in Sheets /\ s \in AnySheet /\ docs[d].status # "NONE"
  BY <1>1, TaxationAssumption DEF TaxInv, DocsOK
<1>5. CASE docs' = docs /\ snaps' = snaps /\ journals' = journals
  <2>1. DocsOK'
    BY <1>3, <1>5 DEF TaxInv, DocsOK
  <2>2. SnapsOK'
    BY <1>1, <1>5, SnapsSame DEF TaxInv
  <2>3. JournalsOK'
    BY <1>5 DEF TaxInv, JournalsOK
  <2> QED BY <1>2, <2>1, <2>2, <2>3 DEF TaxInv
<1>6. CASE /\ ~refused
           /\ snaps' = IF IsTaxed(s) THEN Append(snaps, snap) ELSE snaps
           /\ journals' = IF IsOwedFor(s) /\ net + tax > 0 THEN Append(journals, posting) ELSE journals
           /\ docs' = [docs EXCEPT ![d].status = "FINALIZED", ![d].tax = IF IsTaxed(s) THEN Len(snaps') ELSE @]
  <2>1. PICK sheet \in Sheets : sheet = s
    BY <1>4
  <2>2. PICK ls : ls = lines
    OBVIOUS
  <2>3. IsTaxed(sheet) => /\ Lined(ls, Supply(sheet)) /\ ls # Refused
                          /\ company.country = "IN" =>
                               \A k \in DOMAIN ls : Once(ls[k]) /\ IndiaLine(ls[k], sheet.lines[k], rates, Supply(sheet))
    <3> SUFFICES ASSUME IsTaxed(sheet)
                 PROVE  /\ Lined(ls, Supply(sheet)) /\ ls # Refused
                        /\ company.country = "IN" =>
                             \A k \in DOMAIN ls : Once(ls[k]) /\ IndiaLine(ls[k], sheet.lines[k], rates, Supply(sheet))
      OBVIOUS
    <3>1. ls = Calculate(rates, Supply(sheet)) /\ ls # Refused
      BY <1>6, <2>1, <2>2
    <3> QED BY <3>1, EngineIsTold
  <2>4. sheet \in AnySheet /\ sheet.fx \in Nat \ {0} /\ sheet.date \in Days /\ sheet.region \in STRING
        /\ sheet.dir \in {"OUTPUT", "INPUT"}
    BY <1>4, <2>1 DEF AnySheet
  <2>5. PICK n, t : n = net /\ t = tax
    OBVIOUS
  <2>6. n \in Int /\ t \in Nat
    <3>1. CASE IsTaxed(sheet)
      <4>1. ls \in Seq(TaxedLine)
        BY <2>3, <3>1 DEF Lined
      <4>2. Taxable(ls) \in Int /\ Tax(ls) \in Nat
        BY <4>1, TotalsOfLines
      <4>3. Base(Taxable(ls), sheet.fx) \in Int /\ Base(Tax(ls), sheet.fx) \in Nat
        BY <2>4, <4>2, BaseIsInt
      <4>4. n = Base(Taxable(ls), sheet.fx) /\ t = Base(Tax(ls), sheet.fx)
        BY <2>1, <2>2, <2>5, <3>1
      <4> QED BY <4>3, <4>4
    <3>2. CASE ~IsTaxed(sheet)
      <4>1. n = Entered(sheet) /\ t = 0
        BY <2>1, <2>5, <3>2
      <4> QED BY <2>4, <4>1, EnteredIsInt
    <3> QED BY <3>1, <3>2
  <2>7. PICK p : p = posting
    OBVIOUS
  <2>8. p \in AnyJournal /\ Imbalance(p.lines) = 0
    <3>1. Posting(sheet, n, t) \in Seq(AnyEntry) /\ Imbalance(Posting(sheet, n, t)) = 0
      BY <2>6, PostingBalances
    <3>2. p = [date |-> sheet.date, source |-> sheet.dir, doc |-> d, lines |-> Posting(sheet, n, t)]
      BY <2>1, <2>5, <2>7 DEF Journal
    <3> QED BY <2>4, <3>1, <3>2 DEF AnyJournal
  <2>9. journals' = IF IsOwedFor(sheet) /\ n + t > 0 THEN Append(journals, p) ELSE journals
    BY <1>6, <2>1, <2>5, <2>7
  <2>10. JournalsOK'
    <3>1. CASE journals' = journals
      BY <3>1 DEF TaxInv, JournalsOK
    <3>2. CASE journals' = Append(journals, p)
      BY <2>8, <3>2, JournalAdded DEF TaxInv
    <3> QED BY <2>9, <3>1, <3>2
  <2>11. PICK e : e = snap
    OBVIOUS
  <2>12. e = [doc |-> d, date |-> sheet.date, fx |-> sheet.fx, region |-> IF sheet.dir = "OUTPUT" THEN sheet.region ELSE Unset,
              supply |-> IF sheet.dir = "OUTPUT" THEN "B2C" ELSE "B2B", place |-> Supply(sheet).place, lines |-> ls]
    BY <2>1, <2>2, <2>11
  <2>13. IsTaxed(sheet) => e \in AnySnap
    <3> SUFFICES ASSUME IsTaxed(sheet) PROVE e \in AnySnap
      OBVIOUS
    <3>1. ls \in Seq(TaxedLine)
      BY <2>3 DEF Lined
    <3>2. Supply(sheet).place \in STRING
      BY <2>4, SupplyIs DEF TaxInv, Facts
    <3> QED BY <2>4, <2>12, <3>1, <3>2 DEF AnySnap
  <2>14. snaps' = IF IsTaxed(sheet) THEN Append(snaps, e) ELSE snaps
    BY <1>6, <2>1, <2>11
  <2>15. snaps \in Seq(AnySnap) /\ Len(snaps) \in Nat /\ DOMAIN snaps = 1 .. Len(snaps)
    BY DEF TaxInv, SnapsOK
  <2>16. IsTaxed(sheet) => /\ snaps' \in Seq(AnySnap) /\ Len(snaps') = Len(snaps) + 1
                           /\ DOMAIN snaps' = DOMAIN snaps \cup {Len(snaps) + 1}
                           /\ \A j \in DOMAIN snaps : snaps'[j] = snaps[j]
                           /\ snaps'[Len(snaps) + 1] = e
    BY <2>13, <2>14, <2>15, AddAtEnd
  <2>17. /\ docs' \in [Docs -> [sheet : Sheets \cup {NoSheet}, status : {"NONE", "DRAFT", "FINALIZED", "CANCELLED"}, tax : Nat]]
         /\ docs'[d].sheet = sheet /\ docs'[d].status = "FINALIZED"
         /\ docs'[d].tax = IF IsTaxed(sheet) THEN Len(snaps) + 1 ELSE docs[d].tax
         /\ \A x \in Docs : x # d => docs'[x] = docs[x]
    <3>1. PICK m \in Nat : m = IF IsTaxed(sheet) THEN Len(snaps) + 1 ELSE docs[d].tax
      BY <2>15 DEF TaxInv, DocsOK
    <3>2. docs' = [docs EXCEPT ![d].status = "FINALIZED", ![d].tax = m]
      BY <1>6, <2>1, <2>16, <3>1
    <3> HIDE DEF s
    <3>3. docs[d].sheet = sheet
      BY <2>1 DEF s
    <3> QED BY <3>1, <3>2, <3>3 DEF TaxInv, DocsOK
  <2>18. e.doc = d /\ e.date = sheet.date /\ e.lines = ls
    BY <2>12
  <2>19. \A x \in Docs : docs'[x].tax \in 0 .. Len(snaps') /\ (docs'[x].tax > 0 => snaps'[docs'[x].tax].doc = x)
    <3> SUFFICES ASSUME NEW x \in Docs
                 PROVE  docs'[x].tax \in 0 .. Len(snaps') /\ (docs'[x].tax > 0 => snaps'[docs'[x].tax].doc = x)
      OBVIOUS
    <3>1. docs[x].tax \in 0 .. Len(snaps) /\ (docs[x].tax > 0 => snaps[docs[x].tax].doc = x)
      BY DEF TaxInv, DocsOK
    <3>2. CASE ~IsTaxed(sheet)
      BY <2>14, <2>17, <3>1, <3>2
    <3>3. CASE IsTaxed(sheet) /\ x # d
      <4>1. docs'[x] = docs[x] /\ Len(snaps') = Len(snaps) + 1
        BY <2>16, <2>17, <3>3
      <4>2. docs[x].tax > 0 => docs[x].tax \in DOMAIN snaps
        BY <2>15, <3>1
      <4> QED BY <2>15, <2>16, <3>1, <3>3, <4>1, <4>2
    <3>4. CASE IsTaxed(sheet) /\ x = d
      BY <2>15, <2>16, <2>17, <2>18, <3>4
    <3> QED BY <3>2, <3>3, <3>4
  <2>20. DocsOK'
    <3>1. sheet.dir = "OUTPUT" => docs'[d].tax > 0
      BY <2>15, <2>17 DEF IsTaxed
    <3> HIDE DEF s
    <3> QED BY <1>3, <2>17, <2>19, <3>1 DEF TaxInv, DocsOK
  <2>21. ASSUME NEW snp \in AnySnap, SnapOK(snp) PROVE SnapOK(snp)'
    <3>1. snp.doc \in Docs /\ docs[snp.doc].status \in {"FINALIZED", "CANCELLED"} /\ docs[snp.doc].tax > 0
      BY <2>21 DEF SnapOK, AnySnap
    <3>2. docs'[snp.doc].status \in {"FINALIZED", "CANCELLED"} /\ docs'[snp.doc].tax > 0
          /\ docs'[snp.doc].sheet = docs[snp.doc].sheet
      BY <2>1, <2>15, <2>17, <3>1
    <3> QED BY <1>1, <2>21, <3>2, SnapStays
  <2>22. IsTaxed(sheet) => SnapOK(e)'
    <3> SUFFICES ASSUME IsTaxed(sheet) PROVE SnapOK(e)'
      OBVIOUS
    <3>1. docs'[e.doc].status = "FINALIZED" /\ docs'[e.doc].tax > 0 /\ docs'[e.doc].sheet = sheet
      BY <2>15, <2>17, <2>18
    <3>2. Supply(sheet)' = Supply(sheet)
      BY <1>1 DEF Supply
    <3> QED BY <1>1, <2>3, <2>18, <3>1, <3>2 DEF SnapOK
  <2>23. SnapsOK'
    <3>1. \A i \in DOMAIN snaps : snaps[i] \in AnySnap /\ SnapOK(snaps[i])
      BY DEF TaxInv, SnapsOK
    <3>2. \A i \in DOMAIN snaps : \E x \in AnySnap : x = snaps'[i] /\ SnapOK(x)'
      <4> SUFFICES ASSUME NEW i \in DOMAIN snaps PROVE \E x \in AnySnap : x = snaps'[i] /\ SnapOK(x)'
        OBVIOUS
      <4>1. PICK x \in AnySnap : x = snaps[i]
        BY <3>1
      <4>2. snaps'[i] = x
        BY <2>14, <2>16, <4>1
      <4>3. SnapOK(x)'
        BY <2>21, <3>1, <4>1
      <4> QED BY <4>2, <4>3
    <3>3. CASE ~IsTaxed(sheet)
      BY <2>14, <2>15, <3>2, <3>3, SnapsArePrimed
    <3>4. CASE IsTaxed(sheet)
      <4>1. e \in AnySnap /\ e = snaps'[Len(snaps) + 1] /\ SnapOK(e)'
        BY <2>13, <2>16, <2>22, <3>4
      <4> QED BY <2>16, <3>2, <3>4, <4>1, SnapsArePrimed
    <3> QED BY <3>3, <3>4
  <2> QED BY <1>2, <2>10, <2>20, <2>23 DEF TaxInv
<1> QED BY <1>1, <1>5, <1>6

LEMMA TaxInvNext == TaxInv /\ [TaxationNext]_taxVars => TaxInv'
<1> SUFFICES ASSUME TaxInv, [TaxationNext]_taxVars PROVE TaxInv'
  OBVIOUS
<1>1. CASE UNCHANGED taxVars
  <2>1. Facts' /\ DocsOK' /\ JournalsOK'
    BY <1>1 DEF taxVars, TaxInv, Facts, DocsOK, JournalsOK
  <2>2. SnapsOK'
    BY <1>1, SnapsSame DEF taxVars, TaxInv
  <2> QED BY <2>1, <2>2 DEF TaxInv
<1>2. ASSUME NEW row \in RateOffers, CreateRate(row) \/ ImportTaxRate(row) PROVE TaxInv'
  BY <1>2, RateKeepsTax DEF ImportTaxRate
<1>3. ASSUME NEW d \in Docs, NEW sheet \in Sheets, Draft(d, sheet) PROVE TaxInv'
  BY <1>3, DraftKeepsTax
<1>4. ASSUME NEW d \in Docs, ReadDraft(d) \/ ReadFinalized(d) PROVE TaxInv'
  BY <1>4, ReadKeepsTax
<1>5. ASSUME NEW d \in Docs, Finalize(d) PROVE TaxInv'
  BY <1>5, FinalizeKeepsTax
<1>6. ASSUME NEW d \in Docs, Cancel(d) PROVE TaxInv'
  BY <1>6, CancelKeepsTax
<1> QED BY <1>1, <1>2, <1>3, <1>4, <1>5, <1>6, DayKeepsTax DEF TaxationNext

LEMMA TaxInvHolds == TaxationSpec => []TaxInv
BY TaxInvInit, TaxInvNext, PTL DEF TaxationSpec

-----------------------------------------------------------------------------
(* The reports over what holds *)

Taxables(lines) == [k \in DOMAIN lines |-> lines[k].taxable]
Taxes(lines) == [k \in DOMAIN lines |-> lines[k].tax]
Bornes(lines, type) == [k \in DOMAIN lines |-> Borne(lines[k], type)]

\* The type invariant the run checks.
LEMMA TaxTypes == TaxInv => TaxationTypeOK
<1> SUFFICES ASSUME TaxInv PROVE TaxationTypeOK
  OBVIOUS
<1>1. \A d \in Docs : /\ docs[d].sheet \in Sheets \cup {NoSheet} /\ docs[d].tax \in 0 .. Len(snaps)
                      /\ docs[d].status \in {"NONE", "DRAFT", "FINALIZED", "CANCELLED"}
                      /\ docs[d].tax > 0 => snaps[docs[d].tax].doc = d
                      /\ {reads[d], cancels[d]} \subseteq 0 .. MaxReads
  BY TaxationAssumption DEF TaxInv, DocsOK
<1>2. ASSUME NEW i \in DOMAIN snaps PROVE Len(snaps[i].lines) = Len(docs[snaps[i].doc].sheet.lines)
  <2>1. Lined(snaps[i].lines, Supply(docs[snaps[i].doc].sheet))
    BY DEF TaxInv, SnapsOK, SnapOK
  <2> QED BY <2>1 DEF Lined, Supply
<1>3. \A i \in DOMAIN journals :
          SumOver([k \in DOMAIN journals[i].lines |-> journals[i].lines[k].debit - journals[i].lines[k].credit]) = 0
  BY DEF TaxInv, JournalsOK, Imbalance
<1> QED BY <1>1, <1>2, <1>3 DEF TaxationTypeOK, TaxInv, Facts

\* Wherever a line of a snapshot had been taxed.
LEMMA TaxSplits == TaxInv => SplitWithinOne
<1> SUFFICES ASSUME TaxInv, company.country = "IN", NEW i \in DOMAIN snaps, NEW k \in DOMAIN snaps[i].lines
             PROVE  LET s == docs[snaps[i].doc].sheet IN
                    \E row \in InForce(rates, s.lines[k].code, s.date) : \A state \in KnownStates :
                       ComputeLine(s.lines[k], s.dir = "OUTPUT" /\ s.inclusive, IndiaComponents(row, Unset, state), row.class).tax
                         - snaps[i].lines[k].tax \in {-1, 0, 1}
  BY DEF SplitWithinOne
<1>1. snaps[i] \in AnySnap /\ SnapOK(snaps[i])
  BY DEF TaxInv, SnapsOK
<1>2. PICK s : s = docs[snaps[i].doc].sheet
  OBVIOUS
<1>3. s \in Sheets /\ s \in AnySheet
  BY <1>1, <1>2, TaxationAssumption DEF TaxInv, DocsOK, SnapOK, AnySnap
<1>4. IndiaLine(snaps[i].lines[k], s.lines[k], rates, Supply(s)) /\ Lined(snaps[i].lines, Supply(s))
  BY <1>1, <1>2 DEF SnapOK
<1>5. Supply(s).lines = s.lines /\ s.lines \in Seq(AnyLine) /\ Supply(s).date = s.date
      /\ Supply(s).inclusive = (s.dir = "OUTPUT" /\ s.inclusive) /\ Supply(s).inclusive \in BOOLEAN
  BY <1>3, SupplyIs DEF TaxInv, Facts
<1>6. PICK inclusive \in BOOLEAN : inclusive = Supply(s).inclusive
  BY <1>5
<1>7. PICK row, from, place :
         /\ row \in InForce(rates, s.lines[k].code, s.date)
         /\ snaps[i].lines[k] = ComputeLine(s.lines[k], inclusive, IndiaComponents(row, from, place), row.class)
  BY <1>4, <1>5, <1>6 DEF IndiaLine
<1>8. PICK line \in AnyLine : line = s.lines[k]
  <2>1. k \in DOMAIN s.lines
    BY <1>4, <1>5 DEF Lined
  <2> QED BY <1>5, <2>1
<1>9. EvenRow(row)
  <2>1. row \in rates
    BY <1>7 DEF InForce
  <2> QED BY <2>1, TaxationAssumption DEF TaxInv, Facts, EvenRow
<1>10. ASSUME NEW state \in KnownStates
       PROVE  ComputeLine(line, inclusive, IndiaComponents(row, Unset, state), row.class).tax
                - ComputeLine(line, inclusive, IndiaComponents(row, from, place), row.class).tax \in {-1, 0, 1}
  BY <1>9, PlacesWithinOne
<1> QED BY <1>2, <1>5, <1>6, <1>7, <1>8, <1>10

\* The snapshot a document stands in the returns with.
LEMMA DocLines ==
    ASSUME TaxInv, NEW d \in Docs, docs[d].tax > 0
    PROVE  /\ docs[d].tax \in DOMAIN snaps /\ snaps[docs[d].tax] \in AnySnap /\ SnapOK(snaps[docs[d].tax])
           /\ snaps[docs[d].tax].doc = d /\ Lines(d) \in Seq(TaxedLine) /\ Fx(d) \in Nat /\ ~ZeroRated(d)
           /\ \A k \in DOMAIN Lines(d) : AddsToTax(Lines(d)[k])
           /\ Sign(docs[d].sheet) * Fx(d) \in Int
<1>1. docs[d].tax \in DOMAIN snaps
  BY DEF TaxInv, DocsOK, SnapsOK
<1>2. snaps[docs[d].tax] \in AnySnap /\ SnapOK(snaps[docs[d].tax]) /\ snaps[docs[d].tax].doc = d
  BY <1>1 DEF TaxInv, DocsOK, SnapsOK
<1>3. Lines(d) \in Seq(TaxedLine) /\ Fx(d) \in Nat /\ ~ZeroRated(d)
  BY <1>2 DEF Lines, Fx, ZeroRated, AnySnap
<1>4. \A k \in DOMAIN Lines(d) : AddsToTax(Lines(d)[k])
  BY <1>2 DEF SnapOK, Lines, Lined
<1>5. Sign(docs[d].sheet) * Fx(d) \in Int
  <2>1. Sign(docs[d].sheet) \in {-1, 1}
    BY DEF Sign
  <2> QED BY <1>3, <2>1
<1> QED BY <1>1, <1>2, <1>3, <1>4, <1>5

LEMMA BorneIs ==
    ASSUME NEW l \in TaxedLine, NEW type
    PROVE  Borne(l, type) \in Int /\ (type \notin NamesOf(l) => Borne(l, type) = 0)
<1>1. PICK f : f = [c \in DOMAIN l.comps |-> IF l.comps[c].type = type THEN l.comps[c].amount ELSE 0]
  OBVIOUS
<1>2. Summable(f)
  <2>1. l.comps \in Seq(AnyComponent)
    BY DEF TaxedLine
  <2>2. DOMAIN l.comps = 1 .. Len(l.comps) /\ Len(l.comps) \in Nat
    BY <2>1, LenProperties
  <2>3. IsFiniteSet(DOMAIN l.comps)
    BY <2>2, FS_Interval
  <2>4. \A c \in DOMAIN l.comps : l.comps[c] \in AnyComponent
    BY <2>1
  <2> QED BY <1>1, <2>3, <2>4 DEF Summable, AnyComponent
<1>3. SumOver(f) \in Int
  BY <1>2, SumIsInt
<1>4. ASSUME type \notin NamesOf(l) PROVE SumOver(f) = 0
  <2>1. \A c \in DOMAIN l.comps : l.comps[c].type # type
    BY <1>4 DEF NamesOf, TaxedLine
  <2>2. \A c \in DOMAIN f : f[c] = 0
    BY <1>1, <2>1
  <2> QED BY <1>2, <2>2, SumOfZeros
<1> QED BY <1>1, <1>3, <1>4 DEF Borne

\* The columns of lines add up.
LEMMA LineSums ==
    ASSUME NEW lines \in Seq(TaxedLine), NEW type
    PROVE  /\ Summable(Taxables(lines)) /\ Summable(Taxes(lines)) /\ Summable(Bornes(lines, type))
           /\ Taxable(lines) = SumOver(Taxables(lines)) /\ Tax(lines) = SumOver(Taxes(lines))
           /\ Component(lines, type) = SumOver(Bornes(lines, type))
           /\ Taxable(lines) \in Int /\ Tax(lines) \in Int /\ Component(lines, type) \in Int
<1>1. IsFiniteSet(DOMAIN lines) /\ \A k \in DOMAIN lines : lines[k] \in TaxedLine
  <2>1. DOMAIN lines = 1 .. Len(lines) /\ Len(lines) \in Nat
    BY LenProperties
  <2>2. IsFiniteSet(DOMAIN lines)
    BY <2>1, FS_Interval
  <2> QED BY <2>2
<1>2. \A k \in DOMAIN lines : lines[k].taxable \in Int /\ lines[k].tax \in Int /\ Borne(lines[k], type) \in Int
  BY <1>1, BorneIs DEF TaxedLine
<1>3. Summable(Taxables(lines)) /\ Summable(Taxes(lines)) /\ Summable(Bornes(lines, type))
  BY <1>1, <1>2 DEF Summable, Taxables, Taxes, Bornes
<1>4. Taxable(lines) = SumOver(Taxables(lines)) /\ Tax(lines) = SumOver(Taxes(lines))
      /\ Component(lines, type) = SumOver(Bornes(lines, type))
  BY DEF Taxables, Taxes, Bornes, Taxable, Tax, Component
<1>5. SumOver(Taxables(lines)) \in Int /\ SumOver(Taxes(lines)) \in Int /\ SumOver(Bornes(lines, type)) \in Int
  BY <1>3, SumIsInt
<1> QED BY <1>3, <1>4, <1>5

\* Those of some of the lines are parts of them.
LEMMA AtSums ==
    ASSUME NEW lines, NEW places \in SUBSET (DOMAIN lines), NEW type
    PROVE  /\ Taxable(At(lines, places)) = SumOver(Part(Taxables(lines), places))
           /\ Tax(At(lines, places)) = SumOver(Part(Taxes(lines), places))
           /\ Component(At(lines, places), type) = SumOver(Part(Bornes(lines, type), places))
<1>1. PICK at : at = At(lines, places)
  OBVIOUS
<1>2. DOMAIN at = places /\ \A k \in places : at[k] = lines[k]
  BY <1>1 DEF At
<1>3. [i \in DOMAIN at |-> at[i].taxable] = Part(Taxables(lines), places)
  BY <1>2 DEF Part, Taxables
<1>4. [i \in DOMAIN at |-> at[i].tax] = Part(Taxes(lines), places)
  BY <1>2 DEF Part, Taxes
<1>5. [i \in DOMAIN at |-> Borne(at[i], type)] = Part(Bornes(lines, type), places)
  BY <1>2 DEF Part, Bornes
<1> QED BY <1>1, <1>3, <1>4, <1>5 DEF Taxable, Tax, Component

\* Totals over documents, each with its sign and rate.
WeightOf(d) == Sign(docs[d].sheet) * Fx(d)
TaxableOf(S) == SumOver([d \in S |-> WeightOf(d) * Taxable(Lines(d))])
TaxOf(S) == SumOver([d \in S |-> WeightOf(d) * Tax(Lines(d))])
ComponentOf(S, type) == SumOver([d \in S |-> WeightOf(d) * Component(Lines(d), type)])
TaxedDocs == {d \in Docs : docs[d].tax > 0}

LEMMA TotalsOfDocs ==
    ASSUME TaxInv, NEW S \in SUBSET TaxedDocs, NEW type
    PROVE  /\ IsFiniteSet(S)
           /\ Summable([d \in S |-> WeightOf(d) * Taxable(Lines(d))]) /\ Summable([d \in S |-> WeightOf(d) * Tax(Lines(d))])
           /\ Summable([d \in S |-> WeightOf(d) * Component(Lines(d), type)])
           /\ TaxableOf(S) \in Int /\ TaxOf(S) \in Int /\ ComponentOf(S, type) \in Int
           /\ \A d \in S : WeightOf(d) \in Int
<1>1. IsFiniteSet(S)
  BY TaxationAssumption, FS_Subset DEF TaxedDocs
<1>2. \A d \in S : WeightOf(d) \in Int /\ Taxable(Lines(d)) \in Int /\ Tax(Lines(d)) \in Int /\ Component(Lines(d), type) \in Int
  <2> TAKE d \in S
  <2>1. d \in Docs /\ docs[d].tax > 0
    BY DEF TaxedDocs
  <2>2. Lines(d) \in Seq(TaxedLine) /\ Sign(docs[d].sheet) * Fx(d) \in Int
    BY <2>1, DocLines
  <2> QED BY <2>2, LineSums DEF WeightOf
<1>3. PICK f : f = [d \in S |-> WeightOf(d) * Taxable(Lines(d))]
  OBVIOUS
<1>4. PICK g : g = [d \in S |-> WeightOf(d) * Tax(Lines(d))]
  OBVIOUS
<1>5. PICK h : h = [d \in S |-> WeightOf(d) * Component(Lines(d), type)]
  OBVIOUS
<1>6. \A d \in S : f[d] \in Int /\ g[d] \in Int /\ h[d] \in Int
  <2> TAKE d \in S
  <2>1. PICK w, x, y, z : w = WeightOf(d) /\ x = Taxable(Lines(d)) /\ y = Tax(Lines(d)) /\ z = Component(Lines(d), type)
    OBVIOUS
  <2>2. w \in Int /\ x \in Int /\ y \in Int /\ z \in Int
    BY <1>2, <2>1
  <2>3. w * x \in Int /\ w * y \in Int /\ w * z \in Int
    BY <2>2
  <2> QED BY <1>3, <1>4, <1>5, <2>1, <2>3
<1>7. Summable(f) /\ Summable(g) /\ Summable(h)
  BY <1>1, <1>3, <1>4, <1>5, <1>6 DEF Summable
<1>8. SumOver(f) \in Int /\ SumOver(g) \in Int /\ SumOver(h) \in Int
  BY <1>7, SumIsInt
<1> QED BY <1>1, <1>2, <1>3, <1>4, <1>5, <1>7, <1>8 DEF TaxableOf, TaxOf, ComponentOf

LEMMA OutwardIsTaxed == \A period : Outward(period) \in SUBSET TaxedDocs /\ Inward(period) \in SUBSET TaxedDocs
BY DEF Outward, Inward, TaxedDocs

\* GSTR-1's rows come to the totals.
LEMMA RowsTotal ==
    ASSUME NEW period
    PROVE  /\ Of(GSTR1(period), "taxable") = TaxableOf(Outward(period))
           /\ \A t \in GSTR1Components :
                Sum(LAMBDA d : GSTR1(period)[d].tax[t], DOMAIN GSTR1(period)) = ComponentOf(Outward(period), t)
<1>1. PICK rows : rows = GSTR1(period)
  OBVIOUS
<1>2. PICK O : O = Outward(period)
  OBVIOUS
<1>3. DOMAIN rows = O
      /\ \A d \in O : rows[d] = [taxable |-> WeightOf(d) * Taxable(Lines(d)),
                                 tax |-> [t \in GSTR1Components |-> WeightOf(d) * Component(Lines(d), t)]]
  BY <1>1, <1>2 DEF GSTR1, SignedAmount, SignedComponent, WeightOf
<1>4. [x \in DOMAIN rows |-> rows[x]["taxable"]] = [d \in O |-> WeightOf(d) * Taxable(Lines(d))]
  BY <1>3
<1>5. \A t \in GSTR1Components : [d \in DOMAIN rows |-> rows[d].tax[t]] = [d \in O |-> WeightOf(d) * Component(Lines(d), t)]
  BY <1>3
<1> QED BY <1>1, <1>2, <1>4, <1>5 DEF Of, Sum, TaxableOf, ComponentOf

\* GSTR-3B has all of it as 3.1(a): nothing the model sells is zero rated.
LEMMA OutwardTotal ==
    ASSUME TaxInv, NEW period
    PROVE  /\ GSTR3BOutward(period, FALSE).taxable = TaxableOf(Outward(period)) /\ GSTR3BOutward(period, TRUE).taxable = 0
           /\ \A t \in GSTR1Components : /\ GSTR3BOutward(period, FALSE).tax[t] = ComponentOf(Outward(period), t)
                                         /\ GSTR3BOutward(period, TRUE).tax[t] = 0
<1>1. PICK O : O = Outward(period)
  OBVIOUS
<1>2. {d \in O : ZeroRated(d) = FALSE} = O /\ {d \in O : ZeroRated(d) = TRUE} = {}
  <2>1. \A d \in O : d \in Docs /\ docs[d].tax > 0
    BY <1>1 DEF Outward
  <2> QED BY <2>1, DocLines
<1>3. GSTR3BOutward(period, FALSE).taxable = TaxableOf(O)
      /\ \A t \in GSTR1Components : GSTR3BOutward(period, FALSE).tax[t] = ComponentOf(O, t)
  BY <1>1, <1>2 DEF GSTR3BOutward, Sum, TaxableOf, ComponentOf, SignedAmount, SignedComponent, WeightOf
<1>4. PICK f : f = [d \in {} |-> WeightOf(d) * Taxable(Lines(d))]
  OBVIOUS
<1>5. SumOver(f) = 0
  BY <1>4, FS_EmptySet, SumOfZeros DEF Summable
<1>6. GSTR3BOutward(period, TRUE).taxable = 0
  BY <1>1, <1>2, <1>4, <1>5 DEF GSTR3BOutward, Sum, SignedAmount, WeightOf
<1>7. ASSUME NEW t \in GSTR1Components PROVE GSTR3BOutward(period, TRUE).tax[t] = 0
  <2>1. PICK g : g = [d \in {} |-> WeightOf(d) * Component(Lines(d), t)]
    OBVIOUS
  <2>2. SumOver(g) = 0
    BY <2>1, FS_EmptySet, SumOfZeros DEF Summable
  <2> QED BY <1>1, <1>2, <2>1, <2>2 DEF GSTR3BOutward, Sum, SignedComponent, WeightOf
<1> QED BY <1>1, <1>3, <1>6, <1>7

Named(summary, name) == IF name \in DOMAIN summary THEN summary[name].tax ELSE 0

\* So has the tax summary, name by name.
LEMMA SummaryTotal ==
    ASSUME TaxInv, NEW period, NEW type
    PROVE  Named(TaxSummary("OUTPUT", period), type) = ComponentOf(Outward(period), type)
<1>1. PICK O : O = Outward(period)
  OBVIOUS
<1>2. PICK names : names = UNION {TaxNames(Lines(d)) : d \in O}
  OBVIOUS
<1>3. PICK summary : summary = TaxSummary("OUTPUT", period)
  OBVIOUS
<1>4. DOMAIN summary = names
      /\ (type \in names => summary[type].tax = SumOver([d \in O |-> WeightOf(d) * Component(Lines(d), type)]))
  BY <1>1, <1>2, <1>3 DEF TaxSummary, Directed, Sum, SignedComponent, WeightOf
<1>5. CASE type \in names
  BY <1>1, <1>3, <1>4, <1>5 DEF Named, ComponentOf
<1>6. CASE type \notin names
  <2>1. PICK g : g = [d \in O |-> WeightOf(d) * Component(Lines(d), type)]
    OBVIOUS
  <2>2. Summable(g)
    BY <1>1, <2>1, OutwardIsTaxed, TotalsOfDocs
  <2>3. ASSUME NEW d \in O PROVE g[d] = 0
    <3>1. d \in Docs /\ docs[d].tax > 0
      BY <1>1 DEF Outward
    <3>2. PICK lines \in Seq(TaxedLine) : lines = Lines(d)
      BY <3>1, DocLines
    <3>3. \A k \in DOMAIN lines : lines[k] \in TaxedLine /\ type \notin NamesOf(lines[k])
      <4>1. type \notin TaxNames(lines)
        BY <1>2, <1>6, <3>2
      <4>2. \A k \in DOMAIN lines : lines[k] \in TaxedLine
        OBVIOUS
      <4> QED BY <4>1, <4>2 DEF TaxNames
    <3>4. \A k \in DOMAIN lines : Borne(lines[k], type) = 0
      BY <3>3, BorneIs
    <3>5. Component(lines, type) = 0
      <4>1. Summable(Bornes(lines, type)) /\ Component(lines, type) = SumOver(Bornes(lines, type))
        BY LineSums
      <4>2. \A k \in DOMAIN Bornes(lines, type) : Bornes(lines, type)[k] = 0
        BY <3>4 DEF Bornes
      <4> QED BY <4>1, <4>2, SumOfZeros
    <3>6. WeightOf(d) \in Int
      BY <3>1, DocLines DEF WeightOf
    <3> QED BY <2>1, <3>2, <3>5, <3>6
  <2>4. SumOver(g) = 0
    BY <2>1, <2>2, <2>3, SumOfZeros
  <2> QED BY <1>1, <1>3, <1>4, <1>6, <2>1, <2>4 DEF Named, ComponentOf
<1> QED BY <1>5, <1>6

LEMMA FamilyFinite ==
    ASSUME NEW f, IsFiniteSet(DOMAIN f), \A x \in DOMAIN f : IsFiniteSet(f[x])
    PROVE  IsFiniteSet(UNION {f[x] : x \in DOMAIN f})
<1>1. PICK T : T = {f[x] : x \in DOMAIN f}
  OBVIOUS
<1>2. IsFiniteSet(T)
  BY <1>1, ImageFinite
<1>3. \A y \in T : IsFiniteSet(y)
  BY <1>1
<1>4. IsFiniteSet(UNION T)
  BY <1>2, <1>3, FS_UNION
<1> QED BY <1>1, <1>4

\* A document finalised once has one snapshot, the one it stands in the returns with.
LEMMA OneSnap ==
    ASSUME TaxInv, \A d \in Docs : ~Twice(d), NEW i \in DOMAIN snaps
    PROVE  i = docs[snaps[i].doc].tax /\ snaps[i].doc \in Docs /\ docs[snaps[i].doc].tax > 0
           /\ snaps[i].lines \in Seq(TaxedLine) /\ snaps[i].date = docs[snaps[i].doc].sheet.date
<1>1. PICK d : d = snaps[i].doc
  OBVIOUS
<1>2. snaps[i] \in AnySnap /\ SnapOK(snaps[i])
  BY DEF TaxInv, SnapsOK
<1>3. d \in Docs /\ docs[d].tax > 0 /\ snaps[i].lines \in Seq(TaxedLine) /\ snaps[i].date = docs[d].sheet.date
  BY <1>1, <1>2 DEF SnapOK, AnySnap
<1>4. PICK j : j = docs[d].tax
  OBVIOUS
<1>5. j \in DOMAIN snaps /\ snaps[j].doc = d
  BY <1>3, <1>4, DocLines
<1>6. PICK X : X = {k \in DOMAIN snaps : snaps[k].doc = d}
  OBVIOUS
<1>7. IsFiniteSet(X) /\ Cardinality(X) \in Nat
  <2>1. DOMAIN snaps = 1 .. Len(snaps) /\ Len(snaps) \in Nat
    BY LenProperties DEF TaxInv, SnapsOK
  <2>2. IsFiniteSet(DOMAIN snaps)
    BY <2>1, FS_Interval
  <2>3. IsFiniteSet(X)
    BY <1>6, <2>2, FS_Subset
  <2> QED BY <2>3, FS_CardinalityType
<1>8. ~(Cardinality(X) > 1)
  BY <1>3, <1>6 DEF Twice
<1>9. i = j
  <2> SUFFICES ASSUME i # j PROVE FALSE
    OBVIOUS
  <2>1. {i, j} \subseteq X
    BY <1>1, <1>5, <1>6
  <2>2. IsFiniteSet({i}) /\ Cardinality({i}) = 1
    BY FS_Singleton
  <2>3. Cardinality({i} \cup {j}) = 2
    <3>1. PICK S : S = {i}
      OBVIOUS
    <3>2. IsFiniteSet(S) /\ Cardinality(S) = 1 /\ j \notin S
      BY <2>2, <3>1
    <3>3. Cardinality(S \cup {j}) = IF j \in S THEN Cardinality(S) ELSE Cardinality(S) + 1
      BY <3>2, FS_AddElement
    <3> QED BY <3>1, <3>2, <3>3
  <2>4. {i, j} = {i} \cup {j}
    OBVIOUS
  <2>5. Cardinality({i, j}) <= Cardinality(X)
    BY <1>7, <2>1, FS_Subset
  <2> QED BY <1>7, <1>8, <2>3, <2>4, <2>5
<1> QED BY <1>1, <1>3, <1>4, <1>9

ReportableIn(period) == {i \in DOMAIN snaps : Reportable(i, period)}

\* What is added over the snapshots of a period is added over its documents.
LEMMA SnapsAreDocs ==
    ASSUME TaxInv, \A d \in Docs : ~Twice(d), NEW period, NEW g, Summable(g), DOMAIN g = ReportableIn(period)
    PROVE  SumOver([d \in Outward(period) \cup Inward(period) |-> g[docs[d].tax]]) = SumOver(g)
<1>1. PICK D : D = Outward(period) \cup Inward(period)
  OBVIOUS
<1>2. D \in SUBSET TaxedDocs
  BY <1>1, OutwardIsTaxed
<1>3. IsFiniteSet(D)
  BY <1>2, TotalsOfDocs
<1>4. PICK h : h = [d \in D |-> docs[d].tax]
  OBVIOUS
<1>5. ASSUME NEW d \in D PROVE h[d] \in DOMAIN g /\ snaps[h[d]].doc = d
  <2>1. d \in Docs /\ docs[d].tax > 0
    BY <1>2 DEF TaxedDocs
  <2>2. PICK i : i = docs[d].tax
    OBVIOUS
  <2>3. i \in DOMAIN snaps /\ snaps[i].doc = d
    BY <2>1, <2>2, DocLines
  <2>4. snaps[i].date = docs[d].sheet.date
    BY <2>3, OneSnap
  <2>5. docs[d].status = "FINALIZED" /\ docs[d].sheet.date \in period
        /\ (docs[d].sheet.dir = "OUTPUT" => docs[d].sheet.type \in RevenueTypes)
    BY <1>1 DEF Outward, Inward, Final
  <2>6. Reportable(i, period)
    BY <2>3, <2>4, <2>5 DEF Reportable
  <2> QED BY <1>4, <2>2, <2>3, <2>6 DEF ReportableIn
<1>6. \A a, b \in D : h[a] = h[b] => a = b
  BY <1>5
<1>7. ASSUME NEW i \in DOMAIN g PROVE \E d \in D : h[d] = i
  <2>1. i \in DOMAIN snaps /\ Reportable(i, period)
    BY DEF ReportableIn
  <2>2. PICK d : d = snaps[i].doc
    OBVIOUS
  <2>3. i = docs[d].tax /\ d \in Docs /\ docs[d].tax > 0 /\ snaps[i].date = docs[d].sheet.date
    BY <2>1, <2>2, OneSnap
  <2>4. docs[d].status = "FINALIZED" /\ docs[d].sheet.date \in period
        /\ (docs[d].sheet.dir = "OUTPUT" => docs[d].sheet.type \in RevenueTypes)
    BY <2>1, <2>2, <2>3 DEF Reportable
  <2>5. docs[d].sheet \in AnySheet
    BY <2>3, <2>4, TaxationAssumption DEF TaxInv, DocsOK
  <2>6. docs[d].sheet.dir \in {"OUTPUT", "INPUT"}
    BY <2>5 DEF AnySheet
  <2>7. d \in D
    BY <1>1, <2>3, <2>4, <2>6 DEF Outward, Inward, Final
  <2> QED BY <1>4, <2>3, <2>7
<1>8. SumOver([a \in D |-> g[h[a]]]) = SumOver(g)
  BY <1>3, <1>5, <1>6, <1>7, SumRenamed
<1>9. [a \in D |-> g[h[a]]] = [d \in D |-> g[docs[d].tax]]
  BY <1>4
<1> QED BY <1>1, <1>8, <1>9

\* Snapshots are finitely many, and so are the codes and the rates on their lines.
LEMMA SnapsFinite ==
    ASSUME TaxInv, NEW period
    PROVE  /\ IsFiniteSet(ReportableIn(period))
           /\ \A i \in ReportableIn(period) :
                /\ snaps[i].lines \in Seq(TaxedLine) /\ IsFiniteSet(DOMAIN snaps[i].lines) /\ Weight(i) \in Int
                /\ i \in DOMAIN snaps /\ \A k \in DOMAIN snaps[i].lines : snaps[i].lines[k] \in TaxedLine
<1>1. DOMAIN snaps = 1 .. Len(snaps) /\ Len(snaps) \in Nat
  BY LenProperties DEF TaxInv, SnapsOK
<1>2. IsFiniteSet(DOMAIN snaps)
  BY <1>1, FS_Interval
<1>3. IsFiniteSet(ReportableIn(period))
  BY <1>2, FS_Subset DEF ReportableIn
<1>4. ASSUME NEW i \in ReportableIn(period)
      PROVE  /\ snaps[i].lines \in Seq(TaxedLine) /\ IsFiniteSet(DOMAIN snaps[i].lines) /\ Weight(i) \in Int
             /\ i \in DOMAIN snaps /\ \A k \in DOMAIN snaps[i].lines : snaps[i].lines[k] \in TaxedLine
  <2>1. i \in DOMAIN snaps
    BY DEF ReportableIn
  <2>2. snaps[i] \in AnySnap
    BY <2>1 DEF TaxInv, SnapsOK
  <2>3. snaps[i].lines \in Seq(TaxedLine) /\ snaps[i].fx \in Nat
    BY <2>2 DEF AnySnap
  <2>4. PICK lines \in Seq(TaxedLine) : lines = snaps[i].lines
    BY <2>3
  <2>5. DOMAIN lines = 1 .. Len(lines) /\ Len(lines) \in Nat /\ \A k \in DOMAIN lines : lines[k] \in TaxedLine
    BY LenProperties
  <2>6. IsFiniteSet(DOMAIN lines)
    BY <2>5, FS_Interval
  <2>7. Weight(i) \in Int
    <3>1. Sign(docs[snaps[i].doc].sheet) \in {-1, 1}
      BY DEF Sign
    <3> QED BY <2>3, <3>1 DEF Weight
  <2> QED BY <2>1, <2>3, <2>4, <2>5, <2>6, <2>7
<1> QED BY <1>3, <1>4

-----------------------------------------------------------------------------
(* By HSN code *)

ByCode(lines, codes) == [c \in codes |-> {k \in DOMAIN lines : lines[k].code = c}]

\* The lines of a code, of the codes there are, make up the lines.
LEMMA CodesAreClasses ==
    ASSUME NEW lines \in Seq(TaxedLine), NEW codes, \A k \in DOMAIN lines : lines[k].code \in codes,
           NEW cls, cls = ByCode(lines, codes)
    PROVE  /\ Classes(Taxables(lines), codes, cls) /\ Classes(Taxes(lines), codes, cls)
           /\ \A c \in codes : /\ Taxable(With(lines, c)) = SumOver(Part(Taxables(lines), cls[c]))
                               /\ Tax(With(lines, c)) = SumOver(Part(Taxes(lines), cls[c]))
<1>0. cls = [c \in codes |-> {k \in DOMAIN lines : lines[k].code = c}]
  BY DEF ByCode
<1>1. Summable(Taxables(lines)) /\ Summable(Taxes(lines))
  BY LineSums
<1>2. DOMAIN Taxables(lines) = DOMAIN lines /\ DOMAIN Taxes(lines) = DOMAIN lines
  BY DEF Taxables, Taxes
<1>3. \A c \in codes : cls[c] \subseteq DOMAIN lines
  BY <1>0
<1>4. \A k \in DOMAIN lines : \E c \in codes : \A b \in codes : k \in cls[b] <=> b = c
  BY <1>0
<1>5. Classes(Taxables(lines), codes, cls) /\ Classes(Taxes(lines), codes, cls)
  BY <1>1, <1>2, <1>3, <1>4 DEF Classes
<1>6. ASSUME NEW c \in codes
      PROVE  /\ Taxable(With(lines, c)) = SumOver(Part(Taxables(lines), cls[c]))
             /\ Tax(With(lines, c)) = SumOver(Part(Taxes(lines), cls[c]))
  <2>1. PICK places : places = cls[c]
    OBVIOUS
  <2>2. places \in SUBSET (DOMAIN lines) /\ With(lines, c) = At(lines, places)
    BY <1>0, <2>1 DEF With
  <2> QED BY <2>1, <2>2, AtSums
<1> QED BY <1>5, <1>6

SnapCodes(period) == UNION {{snaps[i].lines[k].code : k \in DOMAIN snaps[i].lines} : i \in ReportableIn(period)}

LEMMA CodesFinite ==
    ASSUME TaxInv, NEW period
    PROVE  IsFiniteSet(SnapCodes(period))
<1>1. PICK which : which = ReportableIn(period)
  OBVIOUS
<1> DEFINE f == [i \in which |-> {snaps[i].lines[k].code : k \in DOMAIN snaps[i].lines}]
<1>2. IsFiniteSet(which)
  BY <1>1, SnapsFinite
<1>3. ASSUME NEW i \in which PROVE IsFiniteSet(f[i])
  <2>1. PICK g : g = [k \in DOMAIN snaps[i].lines |-> snaps[i].lines[k].code]
    OBVIOUS
  <2>2. IsFiniteSet(DOMAIN g)
    BY <1>1, <2>1, SnapsFinite
  <2>3. IsFiniteSet({g[k] : k \in DOMAIN g})
    BY <2>2, ImageFinite
  <2>4. f[i] = {g[k] : k \in DOMAIN g}
    BY <2>1
  <2> QED BY <2>3, <2>4
<1>4. IsFiniteSet(UNION {f[i] : i \in DOMAIN f})
  <2>1. DOMAIN f = which
    OBVIOUS
  <2> HIDE DEF f
  <2> QED BY <1>2, <1>3, <2>1, FamilyFinite
<1>5. UNION {f[i] : i \in DOMAIN f} = SnapCodes(period)
  BY <1>1 DEF SnapCodes
<1> QED BY <1>4, <1>5

\* The summary by code adds up over the snapshots.
LEMMA HSNOverSnaps ==
    ASSUME TaxInv, NEW period
    PROVE  Of(HSNSummary(period), "taxable")
             = SumOver([i \in ReportableIn(period) |-> Weight(i) * Taxable(snaps[i].lines)])
<1>1. PICK which : which = ReportableIn(period)
  OBVIOUS
<1>2. PICK codes : codes = SnapCodes(period)
  OBVIOUS
<1>3. PICK w : w = [i \in which |-> Weight(i)]
  OBVIOUS
<1>4. PICK v : v = [i \in which |-> Taxables(snaps[i].lines)]
  OBVIOUS
<1>5. PICK cls : cls = [i \in which |-> ByCode(snaps[i].lines, codes)]
  OBVIOUS
<1>6. IsFiniteSet(which) /\ IsFiniteSet(codes) /\ \A i \in which : w[i] \in Int
  BY <1>1, <1>2, <1>3, SnapsFinite, CodesFinite
<1>7. ASSUME NEW i \in which
      PROVE  /\ Classes(v[i], codes, cls[i]) /\ SumOver(v[i]) = Taxable(snaps[i].lines)
             /\ \A c \in codes : Taxable(With(snaps[i].lines, c)) = SumOver(Part(v[i], cls[i][c]))
  <2>1. PICK lines \in Seq(TaxedLine) : lines = snaps[i].lines
    BY <1>1, SnapsFinite
  <2>2. \A k \in DOMAIN lines : lines[k].code \in codes
    BY <1>1, <1>2, <2>1 DEF SnapCodes
  <2>3. cls[i] = ByCode(lines, codes) /\ v[i] = Taxables(lines)
    BY <1>4, <1>5, <2>1
  <2>4. PICK e : e = ByCode(lines, codes)
    OBVIOUS
  <2>5. /\ Classes(Taxables(lines), codes, e) /\ Classes(Taxes(lines), codes, e)
        /\ \A c \in codes : /\ Taxable(With(lines, c)) = SumOver(Part(Taxables(lines), e[c]))
                            /\ Tax(With(lines, c)) = SumOver(Part(Taxes(lines), e[c]))
    BY <2>2, <2>4, CodesAreClasses
  <2>6. v[i] = Taxables(lines) /\ cls[i] = e
    BY <2>3, <2>4
  <2>7. SumOver(v[i]) = Taxable(lines)
    BY <2>3, LineSums
  <2> QED BY <2>1, <2>5, <2>6, <2>7
<1>8. SumOver(GroupSums(which, codes, w, v, cls)) = SumOver(Weighted(which, w, v))
  <2>1. \A i \in which : Classes(v[i], codes, cls[i])
    BY <1>7
  <2>2. \A i \in which : w[i] \in Int
    BY <1>6
  <2>3. IsFiniteSet(which) /\ IsFiniteSet(codes)
    BY <1>6
  <2> QED BY <2>1, <2>2, <2>3, SumOfGroups
<1>9. Weighted(which, w, v) = [i \in which |-> Weight(i) * Taxable(snaps[i].lines)]
  BY <1>3, <1>7 DEF Weighted
<1>10. ASSUME NEW c \in codes
       PROVE  [i \in which |-> w[i] * SumOver(Part(v[i], cls[i][c]))] = [i \in which |-> Weight(i) * Taxable(With(snaps[i].lines, c))]
  BY <1>3, <1>7
<1>11. PICK summary : summary = HSNSummary(period)
  OBVIOUS
<1>12. DOMAIN summary = codes
       /\ \A c \in codes : summary[c].taxable = SumOver([i \in which |-> Weight(i) * Taxable(With(snaps[i].lines, c))])
  BY <1>1, <1>2, <1>11 DEF HSNSummary, SnapCodes, ReportableIn, Sum
<1>13. [x \in DOMAIN summary |-> summary[x]["taxable"]]
         = GroupSums(which, codes, w, v, cls)
  BY <1>10, <1>12 DEF GroupSums
<1>14. Of(summary, "taxable") = SumOver([x \in DOMAIN summary |-> summary[x]["taxable"]])
  BY DEF Of, Sum
<1> QED BY <1>1, <1>8, <1>9, <1>11, <1>13, <1>14

\* Over the documents: sales with their sign, purchases positive.
LEMMA HSNTotal ==
    ASSUME TaxInv, \A d \in Docs : ~Twice(d), NEW period
    PROVE  Of(HSNSummary(period), "taxable") = TaxableOf(Outward(period)) + GSTR3BITC(period).taxable
<1>1. PICK O, I : O = Outward(period) /\ I = Inward(period)
  OBVIOUS
<1>2. PICK g : g = [i \in ReportableIn(period) |-> Weight(i) * Taxable(snaps[i].lines)]
  OBVIOUS
<1>3. Summable(g) /\ DOMAIN g = ReportableIn(period)
  <2>1. IsFiniteSet(ReportableIn(period))
    BY SnapsFinite
  <2>2. ASSUME NEW i \in ReportableIn(period) PROVE g[i] \in Int
    <3>1. Weight(i) \in Int /\ Taxable(snaps[i].lines) \in Int
      BY SnapsFinite, LineSums
    <3>2. PICK a \in Int, b \in Int : a = Weight(i) /\ b = Taxable(snaps[i].lines)
      BY <3>1
    <3> QED BY <1>2, <3>2
  <2> QED BY <1>2, <2>1, <2>2 DEF Summable
<1>4. PICK q : q = [d \in O \cup I |-> g[docs[d].tax]]
  OBVIOUS
<1>5. SumOver(q) = SumOver(g)
  BY <1>1, <1>3, <1>4, SnapsAreDocs
<1>6. ASSUME NEW d \in O \cup I
      PROVE  /\ g[docs[d].tax] = Weight(docs[d].tax) * Taxable(Lines(d)) /\ g[docs[d].tax] \in Int
             /\ d \in O => d \notin I /\ Weight(docs[d].tax) = WeightOf(d)
             /\ d \in I => Weight(docs[d].tax) = Fx(d)
  <2>1. d \in Docs /\ docs[d].tax > 0 /\ docs[d].status = "FINALIZED" /\ docs[d].sheet.date \in period
        /\ (d \in O => docs[d].sheet.dir = "OUTPUT" /\ docs[d].sheet.type \in RevenueTypes)
        /\ (d \in I => docs[d].sheet.dir = "INPUT")
    BY <1>1 DEF Outward, Inward, Final
  <2>2. PICK i : i = docs[d].tax
    OBVIOUS
  <2>3. i \in DOMAIN snaps /\ snaps[i].doc = d
    BY <2>1, <2>2, DocLines
  <2>4. snaps[i].date = docs[d].sheet.date
    BY <2>3, OneSnap
  <2>5. i \in ReportableIn(period)
    BY <2>1, <2>3, <2>4 DEF ReportableIn, Reportable
  <2>6. g[i] = Weight(i) * Taxable(Lines(d)) /\ g[i] \in Int
    BY <1>2, <1>3, <2>2, <2>5 DEF Lines, Summable
  <2>7. Fx(d) = snaps[i].fx /\ Fx(d) \in Nat
    BY <2>1, <2>2, DocLines DEF Fx
  <2>8. d \in O => Weight(i) = WeightOf(d)
    <3>1. Sign(docs[d].sheet) \in {-1, 1}
      BY DEF Sign
    <3> QED BY <2>1, <2>3, <2>7, <3>1 DEF Weight, WeightOf
  <2>9. d \in I => Weight(i) = Fx(d)
    BY <2>1, <2>3, <2>7 DEF Weight
  <2> QED BY <2>1, <2>2, <2>6, <2>8, <2>9
<1>7. Summable(q) /\ DOMAIN q = O \cup I
  <2>1. IsFiniteSet(O \cup I)
    <3>1. O \cup I \in SUBSET TaxedDocs
      BY <1>1, OutwardIsTaxed
    <3> QED BY <3>1, TotalsOfDocs
  <2> QED BY <1>4, <1>6, <2>1 DEF Summable
<1>8. SumOver(q) = SumOver(Part(q, O)) + SumOver(Part(q, (O \cup I) \ O))
  <2>1. O \in SUBSET (DOMAIN q)
    BY <1>7
  <2> QED BY <1>7, <2>1, SumSplit
<1>9. Part(q, O) = [d \in O |-> WeightOf(d) * Taxable(Lines(d))]
  BY <1>4, <1>6 DEF Part
<1>10. (O \cup I) \ O = I
  BY <1>6
<1>11. Part(q, I) = [d \in I |-> Fx(d) * Taxable(Lines(d))]
  BY <1>4, <1>6 DEF Part
<1>12. GSTR3BITC(period).taxable = SumOver([d \in I |-> Fx(d) * Taxable(Lines(d))])
  BY <1>1 DEF GSTR3BITC, Sum
<1> QED BY <1>1, <1>2, <1>5, <1>8, <1>9, <1>10, <1>11, <1>12, HSNOverSnaps DEF TaxableOf

-----------------------------------------------------------------------------
(* By rate *)

\* The half of a line's tax that the summary by rate has.
HalfOf(line) == Borne(line, "CGST") + Borne(line, "IGST")
HalvesOf(lines) == [k \in DOMAIN lines |-> HalfOf(lines[k])]
CentralOf(lines) == Component(lines, "CGST") + Component(lines, "IGST")
ByRate(lines, rs) == [r \in rs |-> {k \in DOMAIN lines : r \in HalfRates(lines[k])}]

LEMMA HalfSums ==
    ASSUME NEW lines \in Seq(TaxedLine)
    PROVE  Summable(HalvesOf(lines)) /\ SumOver(HalvesOf(lines)) = CentralOf(lines) /\ CentralOf(lines) \in Int
<1>1. PICK a, b : a = Bornes(lines, "CGST") /\ b = Bornes(lines, "IGST")
  OBVIOUS
<1>2. Summable(a) /\ Component(lines, "CGST") = SumOver(a) /\ Component(lines, "CGST") \in Int
  BY <1>1, LineSums
<1>3. Summable(b) /\ Component(lines, "IGST") = SumOver(b) /\ Component(lines, "IGST") \in Int
  BY <1>1, LineSums
<1>4. PICK h : h = HalvesOf(lines)
  OBVIOUS
<1>5. DOMAIN h = DOMAIN a /\ DOMAIN b = DOMAIN a /\ h = [x \in DOMAIN h |-> h[x]]
      /\ \A x \in DOMAIN a : h[x] = a[x] + b[x]
  BY <1>1, <1>4 DEF HalvesOf, HalfOf, Bornes
<1>6. Summable(h)
  BY <1>2, <1>3, <1>5 DEF Summable
<1>7. SumOver(h) = SumOver(a) + SumOver(b)
  BY <1>2, <1>3, <1>5, <1>6, SumAdd
<1> QED BY <1>2, <1>3, <1>4, <1>6, <1>7 DEF CentralOf

LEMMA HalvesAt ==
    ASSUME NEW lines \in Seq(TaxedLine), NEW places \in SUBSET (DOMAIN lines)
    PROVE  CentralOf(At(lines, places)) = SumOver(Part(HalvesOf(lines), places))
<1>1. PICK a, b : a = Bornes(lines, "CGST") /\ b = Bornes(lines, "IGST")
  OBVIOUS
<1>2. Summable(a) /\ Summable(b) /\ DOMAIN a = DOMAIN lines /\ DOMAIN b = DOMAIN lines
  BY <1>1, LineSums DEF Bornes
<1>3. PICK h : h = HalvesOf(lines)
  OBVIOUS
<1>4. Summable(h) /\ DOMAIN h = DOMAIN lines /\ \A x \in DOMAIN lines : h[x] = a[x] + b[x]
  BY <1>1, <1>3, HalfSums DEF HalvesOf, HalfOf, Bornes
<1>5. PICK p, q, r : p = Part(a, places) /\ q = Part(b, places) /\ r = Part(h, places)
  OBVIOUS
<1>6. Summable(p) /\ Summable(q) /\ Summable(r)
  BY <1>2, <1>4, <1>5, PartSummable
<1>7. DOMAIN p = places /\ DOMAIN q = places /\ DOMAIN r = places /\ \A x \in places : r[x] = p[x] + q[x]
  BY <1>4, <1>5 DEF Part
<1>8. SumOver(r) = SumOver(p) + SumOver(q)
  BY <1>6, <1>7, SumAdd
<1>9. Component(At(lines, places), "CGST") = SumOver(p) /\ Component(At(lines, places), "IGST") = SumOver(q)
  BY <1>1, <1>5, AtSums
<1> QED BY <1>3, <1>5, <1>8, <1>9 DEF CentralOf

\* Lines that bear at most one of CGST and IGST fall under one rate each.
LEMMA RatesAreClasses ==
    ASSUME NEW lines \in Seq(TaxedLine), \A k \in DOMAIN lines : Once(lines[k]),
           NEW rs, \A k \in DOMAIN lines : HalfRates(lines[k]) \subseteq rs, NEW cls, cls = ByRate(lines, rs)
    PROVE  /\ Classes(HalvesOf(lines), rs, cls)
           /\ \A r \in rs : CentralOf(Rated(lines, r)) = SumOver(Part(HalvesOf(lines), cls[r]))
<1>1. cls = [r \in rs |-> {k \in DOMAIN lines : r \in HalfRates(lines[k])}]
  BY DEF ByRate
<1>2. PICK h : h = HalvesOf(lines)
  OBVIOUS
<1>3. Summable(h) /\ DOMAIN h = DOMAIN lines
  BY <1>2, HalfSums DEF HalvesOf
<1>4. \A r \in rs : cls[r] \subseteq DOMAIN lines
  BY <1>1
<1>5. ASSUME NEW k \in DOMAIN lines
      PROVE  h[k] = 0 \/ \E c \in rs : \A b \in rs : k \in cls[b] <=> b = c
  <2>1. PICK l \in TaxedLine : l = lines[k]
    OBVIOUS
  <2>2. Once(l) /\ HalfRates(l) \subseteq rs /\ h[k] = HalfOf(l)
    BY <1>2, <2>1 DEF HalvesOf
  <2>3. CASE HalfRates(l) = {}
    <3>1. \A c \in DOMAIN l.comps : l.comps[c].type # "CGST" /\ l.comps[c].type # "IGST"
      BY <2>3 DEF HalfRates
    <3>2. "CGST" \notin NamesOf(l) /\ "IGST" \notin NamesOf(l)
      <4>1. l.class # "CGST" /\ l.class # "IGST"
        BY DEF TaxedLine, ClassNames
      <4> QED BY <3>1, <4>1 DEF NamesOf
    <3>3. Borne(l, "CGST") = 0 /\ Borne(l, "IGST") = 0
      BY <3>2, BorneIs
    <3> QED BY <2>2, <3>3 DEF HalfOf
  <2>4. CASE HalfRates(l) # {}
    <3>1. PICK e \in DOMAIN l.comps : l.comps[e].type \in Ones
      BY <2>4 DEF HalfRates, Ones
    <3>2. HalfRates(l) = {l.comps[e].rate}
      <4>1. \A c \in DOMAIN l.comps : l.comps[c].type \in Ones => c = e
        BY <2>2, <3>1 DEF Once
      <4> QED BY <3>1, <4>1 DEF HalfRates, Ones
    <3>3. PICK r : r = l.comps[e].rate
      OBVIOUS
    <3>4. r \in rs /\ HalfRates(l) = {r}
      BY <2>2, <3>2, <3>3
    <3>5. \A b \in rs : k \in cls[b] <=> b = r
      BY <1>1, <2>1, <3>4
    <3> QED BY <3>4, <3>5
  <2> QED BY <2>3, <2>4
<1>6. Classes(h, rs, cls)
  BY <1>3, <1>4, <1>5 DEF Classes
<1>7. ASSUME NEW r \in rs PROVE CentralOf(Rated(lines, r)) = SumOver(Part(HalvesOf(lines), cls[r]))
  <2>1. PICK places : places = cls[r]
    OBVIOUS
  <2>2. places \in SUBSET (DOMAIN lines) /\ Rated(lines, r) = At(lines, places)
    BY <1>1, <2>1 DEF Rated
  <2> QED BY <2>1, <2>2, HalvesAt
<1> QED BY <1>2, <1>6, <1>7

SnapRates(period) == UNION {UNION {HalfRates(snaps[i].lines[k]) : k \in DOMAIN snaps[i].lines} : i \in ReportableIn(period)}

LEMMA RatesFinite ==
    ASSUME TaxInv, NEW period
    PROVE  IsFiniteSet(SnapRates(period))
<1>1. PICK which : which = ReportableIn(period)
  OBVIOUS
<1> DEFINE f == [i \in which |-> UNION {HalfRates(snaps[i].lines[k]) : k \in DOMAIN snaps[i].lines}]
<1>2. IsFiniteSet(which)
  BY <1>1, SnapsFinite
<1>3. ASSUME NEW i \in which PROVE IsFiniteSet(f[i])
  <2>1. PICK lines \in Seq(TaxedLine) : lines = snaps[i].lines
    BY <1>1, SnapsFinite
  <2>2. PICK g : g = [k \in DOMAIN lines |-> HalfRates(lines[k])]
    OBVIOUS
  <2>3. IsFiniteSet(DOMAIN g)
    BY <1>1, <2>1, <2>2, SnapsFinite
  <2>4. ASSUME NEW k \in DOMAIN g PROVE IsFiniteSet(g[k])
    <3>1. PICK l \in TaxedLine : l = lines[k]
      BY <2>2
    <3>2. PICK cs : cs = l.comps
      OBVIOUS
    <3>3. cs \in Seq(AnyComponent)
      BY <3>2 DEF TaxedLine
    <3>4. DOMAIN cs = 1 .. Len(cs) /\ Len(cs) \in Nat
      BY <3>3, LenProperties
    <3>5. PICK places : places = {c \in DOMAIN cs : cs[c].type \in {"CGST", "IGST"}}
      OBVIOUS
    <3>6. IsFiniteSet(places)
      <4>1. IsFiniteSet(DOMAIN cs)
        BY <3>4, FS_Interval
      <4> QED BY <3>5, <4>1, FS_Subset
    <3>7. PICK e : e = [c \in places |-> cs[c].rate]
      OBVIOUS
    <3>8. IsFiniteSet({e[c] : c \in DOMAIN e})
      BY <3>6, <3>7, ImageFinite
    <3>9. {e[c] : c \in DOMAIN e} = HalfRates(l)
      BY <3>2, <3>5, <3>7 DEF HalfRates
    <3> QED BY <2>2, <3>1, <3>8, <3>9
  <2>5. IsFiniteSet(UNION {g[k] : k \in DOMAIN g})
    BY <2>3, <2>4, FamilyFinite
  <2>6. f[i] = UNION {g[k] : k \in DOMAIN g}
    BY <2>1, <2>2
  <2> QED BY <2>5, <2>6
<1>4. IsFiniteSet(UNION {f[i] : i \in DOMAIN f})
  <2>1. DOMAIN f = which
    OBVIOUS
  <2> HIDE DEF f
  <2> QED BY <1>2, <1>3, <2>1, FamilyFinite
<1>5. UNION {f[i] : i \in DOMAIN f} = SnapRates(period)
  BY <1>1 DEF SnapRates
<1> QED BY <1>4, <1>5

\* The summary by rate adds up over the snapshots.
LEMMA RateOverSnaps ==
    ASSUME TaxInv, company.country = "IN", NEW period
    PROVE  Of(TaxRateSummary(period), "tax")
             = SumOver([i \in ReportableIn(period) |-> Weight(i) * CentralOf(snaps[i].lines)])
<1>1. PICK which : which = ReportableIn(period)
  OBVIOUS
<1>2. PICK rs : rs = SnapRates(period)
  OBVIOUS
<1>3. PICK w : w = [i \in which |-> Weight(i)]
  OBVIOUS
<1>4. PICK v : v = [i \in which |-> HalvesOf(snaps[i].lines)]
  OBVIOUS
<1>5. PICK cls : cls = [i \in which |-> ByRate(snaps[i].lines, rs)]
  OBVIOUS
<1>6. IsFiniteSet(which) /\ IsFiniteSet(rs) /\ \A i \in which : w[i] \in Int
  BY <1>1, <1>2, <1>3, SnapsFinite, RatesFinite
<1>7. ASSUME NEW i \in which
      PROVE  /\ Classes(v[i], rs, cls[i]) /\ SumOver(v[i]) = CentralOf(snaps[i].lines)
             /\ \A r \in rs : CentralOf(Rated(snaps[i].lines, r)) = SumOver(Part(v[i], cls[i][r]))
  <2>1. PICK lines \in Seq(TaxedLine) : lines = snaps[i].lines
    BY <1>1, SnapsFinite
  <2>2. \A k \in DOMAIN lines : HalfRates(lines[k]) \subseteq rs
    BY <1>1, <1>2, <2>1 DEF SnapRates
  <2>3. \A k \in DOMAIN lines : Once(lines[k])
    <3>1. i \in DOMAIN snaps
      BY <1>1, SnapsFinite
    <3> QED BY <2>1, <3>1 DEF TaxInv, SnapsOK, SnapOK
  <2>4. PICK e : e = ByRate(lines, rs)
    OBVIOUS
  <2>5. /\ Classes(HalvesOf(lines), rs, e)
        /\ \A r \in rs : CentralOf(Rated(lines, r)) = SumOver(Part(HalvesOf(lines), e[r]))
    BY <2>2, <2>3, <2>4, RatesAreClasses
  <2>6. v[i] = HalvesOf(lines) /\ cls[i] = e
    BY <1>4, <1>5, <2>1, <2>4
  <2>7. SumOver(v[i]) = CentralOf(lines)
    BY <2>6, HalfSums
  <2> QED BY <2>1, <2>5, <2>6, <2>7
<1>8. SumOver(GroupSums(which, rs, w, v, cls)) = SumOver(Weighted(which, w, v))
  <2>1. \A i \in which : Classes(v[i], rs, cls[i])
    BY <1>7
  <2>2. \A i \in which : w[i] \in Int
    BY <1>6
  <2>3. IsFiniteSet(which) /\ IsFiniteSet(rs)
    BY <1>6
  <2> QED BY <2>1, <2>2, <2>3, SumOfGroups
<1>9. Weighted(which, w, v) = [i \in which |-> Weight(i) * CentralOf(snaps[i].lines)]
  BY <1>3, <1>7 DEF Weighted
<1>10. ASSUME NEW r \in rs
       PROVE  [i \in which |-> w[i] * SumOver(Part(v[i], cls[i][r]))] = [i \in which |-> Weight(i) * CentralOf(Rated(snaps[i].lines, r))]
  BY <1>3, <1>7
<1>11. PICK summary : summary = TaxRateSummary(period)
  OBVIOUS
<1>12. DOMAIN summary = rs
       /\ \A r \in rs : summary[r].tax = SumOver([i \in which |-> Weight(i) * CentralOf(Rated(snaps[i].lines, r))])
  BY <1>1, <1>2, <1>11 DEF TaxRateSummary, SnapRates, ReportableIn, Sum, CentralOf
<1>13. [x \in DOMAIN summary |-> summary[x]["tax"]] = GroupSums(which, rs, w, v, cls)
  BY <1>10, <1>12 DEF GroupSums
<1>14. Of(summary, "tax") = SumOver([x \in DOMAIN summary |-> summary[x]["tax"]])
  BY DEF Of, Sum
<1> QED BY <1>1, <1>8, <1>9, <1>11, <1>13, <1>14

\* Without purchases the summary by rate has the CGST and the IGST sold.
LEMMA RateTotal ==
    ASSUME TaxInv, company.country = "IN", \A d \in Docs : ~Twice(d), NEW period, Inward(period) = {}
    PROVE  Of(TaxRateSummary(period), "tax") = ComponentOf(Outward(period), "CGST") + ComponentOf(Outward(period), "IGST")
<1>1. PICK O : O = Outward(period)
  OBVIOUS
<1>2. PICK g : g = [i \in ReportableIn(period) |-> Weight(i) * CentralOf(snaps[i].lines)]
  OBVIOUS
<1>3. Summable(g) /\ DOMAIN g = ReportableIn(period)
  <2>1. IsFiniteSet(ReportableIn(period))
    BY SnapsFinite
  <2>2. ASSUME NEW i \in ReportableIn(period) PROVE g[i] \in Int
    <3>1. Weight(i) \in Int /\ CentralOf(snaps[i].lines) \in Int
      BY SnapsFinite, HalfSums
    <3>2. PICK a \in Int, b \in Int : a = Weight(i) /\ b = CentralOf(snaps[i].lines)
      BY <3>1
    <3> QED BY <1>2, <3>2
  <2> QED BY <1>2, <2>1, <2>2 DEF Summable
<1>4. PICK q : q = [d \in O |-> g[docs[d].tax]]
  OBVIOUS
<1>5. SumOver(q) = SumOver(g)
  <2>1. Outward(period) \cup Inward(period) = O
    BY <1>1
  <2>2. SumOver([d \in Outward(period) \cup Inward(period) |-> g[docs[d].tax]]) = SumOver(g)
    BY <1>3, SnapsAreDocs
  <2> QED BY <1>4, <2>1, <2>2
<1>6. PICK a : a = [d \in O |-> WeightOf(d) * Component(Lines(d), "CGST")]
  OBVIOUS
<1>7. PICK b : b = [d \in O |-> WeightOf(d) * Component(Lines(d), "IGST")]
  OBVIOUS
<1>8. ASSUME NEW d \in O PROVE q[d] = a[d] + b[d] /\ q[d] \in Int
  <2>1. d \in Docs /\ docs[d].tax > 0 /\ docs[d].status = "FINALIZED" /\ docs[d].sheet.date \in period
        /\ docs[d].sheet.dir = "OUTPUT" /\ docs[d].sheet.type \in RevenueTypes
    BY <1>1 DEF Outward, Final
  <2>2. PICK i : i = docs[d].tax
    OBVIOUS
  <2>3. i \in DOMAIN snaps /\ snaps[i].doc = d
    BY <2>1, <2>2, DocLines
  <2>4. snaps[i].date = docs[d].sheet.date
    BY <2>3, OneSnap
  <2>5. i \in ReportableIn(period)
    BY <2>1, <2>3, <2>4 DEF ReportableIn, Reportable
  <2>6. q[d] = Weight(i) * CentralOf(Lines(d)) /\ q[d] \in Int
    BY <1>2, <1>3, <1>4, <2>2, <2>5 DEF Lines, Summable
  <2>7. Weight(i) = WeightOf(d) /\ WeightOf(d) \in Int
    <3>1. Fx(d) = snaps[i].fx /\ Fx(d) \in Nat
      BY <2>1, <2>2, DocLines DEF Fx
    <3>2. Sign(docs[d].sheet) \in {-1, 1}
      BY DEF Sign
    <3> QED BY <2>1, <2>3, <3>1, <3>2 DEF Weight, WeightOf
  <2>8. PICK lines \in Seq(TaxedLine) : lines = Lines(d)
    BY <2>1, DocLines
  <2>9. PICK w \in Int, m \in Int, n \in Int : w = WeightOf(d) /\ m = Component(Lines(d), "CGST") /\ n = Component(Lines(d), "IGST")
    BY <2>7, <2>8, LineSums
  <2>10. w * (m + n) = w * m + w * n
    OBVIOUS
  <2>11. q[d] = w * (m + n)
    BY <2>6, <2>7, <2>9 DEF CentralOf
  <2>12. a[d] = w * m /\ b[d] = w * n
    BY <1>6, <1>7, <2>9
  <2> QED BY <2>6, <2>10, <2>11, <2>12
<1>9. Summable(a) /\ Summable(b) /\ DOMAIN a = O /\ DOMAIN b = O
  BY <1>1, <1>6, <1>7, OutwardIsTaxed, TotalsOfDocs
<1>10. Summable(q) /\ DOMAIN q = O
  BY <1>4, <1>8, <1>9 DEF Summable
<1>11. SumOver(q) = SumOver(a) + SumOver(b)
  BY <1>8, <1>9, <1>10, SumAdd
<1> QED BY <1>1, <1>2, <1>5, <1>6, <1>7, <1>11, RateOverSnaps DEF ComponentOf

LEMMA ReturnsHold ==
    ASSUME TaxInv
    PROVE  ReturnsAgree
<1> SUFFICES ASSUME company.country = "IN", NEW period \in Periods
             PROVE  LET rows == GSTR1(period)
                        a == GSTR3BOutward(period, FALSE)
                        b == GSTR3BOutward(period, TRUE)
                        summary == TaxSummary("OUTPUT", period)
                        purchases == GSTR3BITC(period)
                        Of1(name) == IF name \in DOMAIN summary THEN summary[name].tax ELSE 0 IN
                    /\ Of(rows, "taxable") = a.taxable + b.taxable
                    /\ \A t \in GSTR1Components :
                          /\ Sum(LAMBDA d : rows[d].tax[t], DOMAIN rows) = a.tax[t] + b.tax[t]
                          /\ Of1(t) = a.tax[t] + b.tax[t]
                    /\ (\A d \in Docs : ~Twice(d)) =>
                          /\ Of(HSNSummary(period), "taxable") = a.taxable + b.taxable + purchases.taxable
                          /\ Inward(period) = {} => Of(TaxRateSummary(period), "tax") = Of1("CGST") + Of1("IGST")
  BY DEF ReturnsAgree
<1>1. PICK O : O = Outward(period)
  OBVIOUS
<1>2. PICK a, b : a = GSTR3BOutward(period, FALSE) /\ b = GSTR3BOutward(period, TRUE)
  OBVIOUS
<1>3. TaxableOf(O) \in Int /\ \A t : ComponentOf(O, t) \in Int
  BY <1>1, OutwardIsTaxed, TotalsOfDocs
<1>4. a.taxable = TaxableOf(O) /\ b.taxable = 0 /\ \A t \in GSTR1Components : a.tax[t] = ComponentOf(O, t) /\ b.tax[t] = 0
  BY <1>1, <1>2, OutwardTotal
<1>5. a.taxable + b.taxable = TaxableOf(O) /\ \A t \in GSTR1Components : a.tax[t] + b.tax[t] = ComponentOf(O, t)
  BY <1>3, <1>4
<1>6. Of(GSTR1(period), "taxable") = a.taxable + b.taxable
  BY <1>1, <1>5, RowsTotal
<1>7. \A t \in GSTR1Components : Sum(LAMBDA d : GSTR1(period)[d].tax[t], DOMAIN GSTR1(period)) = a.tax[t] + b.tax[t]
  BY <1>1, <1>5, RowsTotal
<1>8. \A t : Named(TaxSummary("OUTPUT", period), t) = ComponentOf(O, t)
  BY <1>1, SummaryTotal
<1>9. \A t \in GSTR1Components : Named(TaxSummary("OUTPUT", period), t) = a.tax[t] + b.tax[t]
  BY <1>5, <1>8
<1>10. ASSUME \A d \in Docs : ~Twice(d)
       PROVE  Of(HSNSummary(period), "taxable") = a.taxable + b.taxable + GSTR3BITC(period).taxable
  BY <1>1, <1>5, <1>10, HSNTotal
<1>11. ASSUME \A d \in Docs : ~Twice(d), Inward(period) = {}
       PROVE  Of(TaxRateSummary(period), "tax")
                = Named(TaxSummary("OUTPUT", period), "CGST") + Named(TaxSummary("OUTPUT", period), "IGST")
  BY <1>1, <1>8, <1>11, RateTotal
<1> QED BY <1>2, <1>6, <1>7, <1>9, <1>10, <1>11 DEF Named

-----------------------------------------------------------------------------
(* By name *)

\* The names of a line's tax share it between them.
LEMMA LineByName ==
    ASSUME NEW l \in TaxedLine, AddsToTax(l), NEW names, IsFiniteSet(names), NamesOf(l) \subseteq names
    PROVE  SumOver([n \in names |-> Borne(l, n)]) = l.tax
<1>1. PICK cs : cs = l.comps
  OBVIOUS
<1>2. cs \in Seq(AnyComponent)
  BY <1>1 DEF TaxedLine
<1>3. DOMAIN cs = 1 .. Len(cs) /\ Len(cs) \in Nat /\ \A c \in DOMAIN cs : cs[c] \in AnyComponent
  BY <1>2, LenProperties
<1>4. PICK v : v = [c \in DOMAIN cs |-> cs[c].amount]
  OBVIOUS
<1>5. Summable(v) /\ DOMAIN v = DOMAIN cs
  <2>1. IsFiniteSet(DOMAIN cs)
    BY <1>3, FS_Interval
  <2> QED BY <1>3, <1>4, <2>1 DEF Summable, AnyComponent
<1>6. PICK cls : cls = [n \in names |-> {c \in DOMAIN cs : cs[c].type = n}]
  OBVIOUS
<1>7. \A c \in DOMAIN cs : cs[c].type \in names
  <2> TAKE c \in DOMAIN cs
  <2>1. cs # <<>>
    BY <1>3
  <2> QED BY <1>1, <2>1 DEF NamesOf
<1>8. Classes(v, names, cls)
  <2>1. \A n \in names : cls[n] \subseteq DOMAIN v
    BY <1>5, <1>6
  <2>2. \A c \in DOMAIN v : \E n \in names : \A b \in names : c \in cls[b] <=> b = n
    <3> TAKE c \in DOMAIN v
    <3>1. PICK n \in names : n = cs[c].type
      BY <1>5, <1>7
    <3>2. \A b \in names : c \in cls[b] <=> b = n
      BY <1>5, <1>6, <3>1
    <3> QED BY <3>2
  <2> QED BY <1>5, <2>1, <2>2 DEF Classes
<1>9. SumOver([n \in names |-> SumOver(Part(v, cls[n]))]) = SumOver(v)
  BY <1>8, SumOfClasses
<1>10. ASSUME NEW n \in names PROVE Borne(l, n) = SumOver(Part(v, cls[n]))
  <2>1. PICK h : h = [c \in DOMAIN cs |-> IF cs[c].type = n THEN cs[c].amount ELSE 0]
    OBVIOUS
  <2>2. PICK S : S = cls[n]
    OBVIOUS
  <2>3. S \in SUBSET (DOMAIN v) /\ \A c \in DOMAIN v : c \in S <=> cs[c].type = n
    BY <1>5, <1>6, <2>2
  <2>4. DOMAIN h = DOMAIN v /\ \A c \in DOMAIN v : h[c] = IF c \in S THEN v[c] ELSE 0
    BY <1>4, <1>5, <2>1, <2>3
  <2>5. Summable(h)
    BY <1>5, <2>1, <2>4 DEF Summable
  <2>6. SumOver(h) = SumOver(Part(v, S))
    BY <1>5, <2>3, <2>4, <2>5, SumWhere
  <2> QED BY <1>1, <2>1, <2>2, <2>6 DEF Borne
<1>11. [n \in names |-> Borne(l, n)] = [n \in names |-> SumOver(Part(v, cls[n]))]
  BY <1>10
<1>12. l.tax = SumOver(v)
  BY <1>1, <1>4 DEF AddsToTax
<1> QED BY <1>9, <1>11, <1>12

\* So do those of lines.
LEMMA LinesByName ==
    ASSUME NEW lines \in Seq(TaxedLine), \A k \in DOMAIN lines : AddsToTax(lines[k]),
           NEW names, IsFiniteSet(names), TaxNames(lines) \subseteq names
    PROVE  SumOver([n \in names |-> Component(lines, n)]) = Tax(lines)
<1>1. PICK K : K = DOMAIN lines
  OBVIOUS
<1>2. IsFiniteSet(K)
  <2>1. DOMAIN lines = 1 .. Len(lines) /\ Len(lines) \in Nat
    BY LenProperties
  <2> QED BY <1>1, <2>1, FS_Interval
<1>3. PICK m : m = [p \in names \X K |-> Borne(lines[p[2]], p[1])]
  OBVIOUS
<1>4. \A n \in names, k \in K : m[<<n, k>>] = Borne(lines[k], n)
  BY <1>3
<1>5. \A n \in names, k \in K : m[<<n, k>>] \in Int
  <2> TAKE n \in names, k \in K
  <2>1. PICK l \in TaxedLine : l = lines[k]
    BY <1>1
  <2>2. Borne(l, n) \in Int
    BY BorneIs
  <2> QED BY <1>4, <2>1, <2>2
<1>6. SumOver(RowSums(names, K, m)) = SumOver(ColumnSums(names, K, m))
  BY <1>2, <1>5, SumSwap
<1>7. RowSums(names, K, m) = [n \in names |-> Component(lines, n)]
  <2>1. ASSUME NEW n \in names PROVE SumOver([k \in K |-> m[<<n, k>>]]) = Component(lines, n)
    <3>1. [k \in K |-> m[<<n, k>>]] = Bornes(lines, n)
      BY <1>1, <1>4 DEF Bornes
    <3> QED BY <3>1, LineSums
  <2> QED BY <2>1 DEF RowSums
<1>8. ColumnSums(names, K, m) = Taxes(lines)
  <2>1. ASSUME NEW k \in K PROVE SumOver([n \in names |-> m[<<n, k>>]]) = lines[k].tax
    <3>1. PICK l \in TaxedLine : l = lines[k]
      BY <1>1
    <3>2. AddsToTax(l) /\ NamesOf(l) \subseteq names
      BY <1>1, <3>1 DEF TaxNames
    <3>3. [n \in names |-> m[<<n, k>>]] = [n \in names |-> Borne(l, n)]
      BY <1>4, <3>1
    <3>4. SumOver([n \in names |-> Borne(l, n)]) = l.tax
      BY <3>2, LineByName
    <3> QED BY <3>1, <3>3, <3>4
  <2> QED BY <1>1, <2>1 DEF ColumnSums, Taxes
<1> QED BY <1>6, <1>7, <1>8, LineSums

\* And those of documents.
LEMMA DocsByName ==
    ASSUME TaxInv, NEW S \in SUBSET TaxedDocs, NEW names, IsFiniteSet(names),
           \A d \in S : TaxNames(Lines(d)) \subseteq names
    PROVE  SumOver([n \in names |-> ComponentOf(S, n)]) = TaxOf(S)
<1>1. PICK m : m = [p \in names \X S |-> WeightOf(p[2]) * Component(Lines(p[2]), p[1])]
  OBVIOUS
<1>2. \A n \in names, d \in S : m[<<n, d>>] = WeightOf(d) * Component(Lines(d), n)
  BY <1>1
<1>3. ASSUME NEW d \in S
      PROVE  /\ WeightOf(d) \in Int /\ Lines(d) \in Seq(TaxedLine)
             /\ \A k \in DOMAIN Lines(d) : AddsToTax(Lines(d)[k])
  <2>1. d \in Docs /\ docs[d].tax > 0
    BY DEF TaxedDocs
  <2> QED BY <2>1, DocLines DEF WeightOf
<1>4. \A n \in names, d \in S : Component(Lines(d), n) \in Int
  BY <1>3, LineSums
<1>5. \A n \in names, d \in S : m[<<n, d>>] \in Int
  <2> TAKE n \in names, d \in S
  <2>1. PICK x \in Int, y \in Int : x = WeightOf(d) /\ y = Component(Lines(d), n)
    BY <1>3, <1>4
  <2>2. m[<<n, d>>] = x * y
    BY <1>2, <2>1
  <2> QED BY <2>2
<1>6. IsFiniteSet(S)
  BY TotalsOfDocs
<1>7. SumOver(RowSums(names, S, m)) = SumOver(ColumnSums(names, S, m))
  BY <1>5, <1>6, SumSwap
<1>8. RowSums(names, S, m) = [n \in names |-> ComponentOf(S, n)]
  <2>1. ASSUME NEW n \in names PROVE SumOver([d \in S |-> m[<<n, d>>]]) = ComponentOf(S, n)
    <3>1. [d \in S |-> m[<<n, d>>]] = [d \in S |-> WeightOf(d) * Component(Lines(d), n)]
      BY <1>2
    <3> QED BY <3>1 DEF ComponentOf
  <2> QED BY <2>1 DEF RowSums
<1>9. ColumnSums(names, S, m) = [d \in S |-> WeightOf(d) * Tax(Lines(d))]
  <2>1. ASSUME NEW d \in S PROVE SumOver([n \in names |-> m[<<n, d>>]]) = WeightOf(d) * Tax(Lines(d))
    <3>1. PICK lines \in Seq(TaxedLine) : lines = Lines(d)
      BY <1>3
    <3>2. \A k \in DOMAIN lines : AddsToTax(lines[k])
      BY <1>3, <3>1
    <3>3. PICK w \in Int : w = WeightOf(d)
      BY <1>3
    <3>4. PICK f : f = [n \in names |-> Component(lines, n)]
      OBVIOUS
    <3>5. PICK h : h = [n \in names |-> m[<<n, d>>]]
      OBVIOUS
    <3>6. Summable(f) /\ DOMAIN f = names
      BY <1>4, <3>1, <3>4 DEF Summable
    <3>7. Summable(h) /\ DOMAIN h = DOMAIN f
      BY <1>5, <3>4, <3>5 DEF Summable
    <3>8. \A n \in DOMAIN f : h[n] = w * f[n]
      BY <1>2, <3>1, <3>3, <3>4, <3>5
    <3>9. SumOver(h) = w * SumOver(f)
      BY <3>6, <3>7, <3>8, SumScale
    <3>10. SumOver(f) = Tax(lines)
      BY <3>1, <3>2, <3>4, LinesByName
    <3> QED BY <3>1, <3>3, <3>5, <3>9, <3>10
  <2> QED BY <2>1 DEF ColumnSums
<1> QED BY <1>7, <1>8, <1>9 DEF TaxOf

LEMMA NamesFinite ==
    ASSUME TaxInv, NEW S \in SUBSET TaxedDocs
    PROVE  IsFiniteSet(UNION {TaxNames(Lines(d)) : d \in S})
<1> DEFINE f == [d \in S |-> TaxNames(Lines(d))]
<1>1. ASSUME NEW d \in S PROVE IsFiniteSet(f[d])
  <2>1. d \in Docs /\ docs[d].tax > 0
    BY DEF TaxedDocs
  <2>2. PICK lines \in Seq(TaxedLine) : lines = Lines(d)
    BY <2>1, DocLines
  <2>3. PICK g : g = [k \in DOMAIN lines |-> NamesOf(lines[k])]
    OBVIOUS
  <2>4. IsFiniteSet(DOMAIN g)
    <3>1. DOMAIN lines = 1 .. Len(lines) /\ Len(lines) \in Nat
      BY LenProperties
    <3>2. DOMAIN g = 1 .. Len(lines)
      BY <2>3, <3>1
    <3> QED BY <3>1, <3>2, FS_Interval
  <2>5. ASSUME NEW k \in DOMAIN g PROVE IsFiniteSet(g[k])
    <3>1. PICK l \in TaxedLine : l = lines[k]
      BY <2>3
    <3>2. PICK cs : cs = l.comps
      OBVIOUS
    <3>3. cs \in Seq(AnyComponent)
      BY <3>2 DEF TaxedLine
    <3>4. DOMAIN cs = 1 .. Len(cs) /\ Len(cs) \in Nat
      BY <3>3, LenProperties
    <3>5. PICK e : e = [c \in DOMAIN cs |-> cs[c].type]
      OBVIOUS
    <3>6. IsFiniteSet({e[c] : c \in DOMAIN e})
      <4>1. IsFiniteSet(1 .. Len(cs))
        BY <3>4, FS_Interval
      <4>2. DOMAIN e = 1 .. Len(cs)
        BY <3>4, <3>5
      <4> QED BY <4>1, <4>2, ImageFinite
    <3>7. {e[c] : c \in DOMAIN e} = {cs[c].type : c \in DOMAIN cs}
      BY <3>5
    <3>8. IsFiniteSet({l.class})
      BY FS_Singleton
    <3>9. g[k] = IF cs = <<>> THEN {l.class} ELSE {cs[c].type : c \in DOMAIN cs}
      BY <2>3, <3>1, <3>2 DEF NamesOf
    <3> QED BY <3>6, <3>7, <3>8, <3>9
  <2>6. IsFiniteSet(UNION {g[k] : k \in DOMAIN g})
    BY <2>4, <2>5, FamilyFinite
  <2>7. f[d] = UNION {g[k] : k \in DOMAIN g}
    BY <2>2, <2>3 DEF TaxNames
  <2> QED BY <2>6, <2>7
<1>2. IsFiniteSet(UNION {f[d] : d \in DOMAIN f})
  <2>1. DOMAIN f = S /\ IsFiniteSet(S)
    BY TotalsOfDocs
  <2> HIDE DEF f
  <2> QED BY <1>1, <2>1, FamilyFinite
<1>3. UNION {f[d] : d \in DOMAIN f} = UNION {TaxNames(Lines(d)) : d \in S}
  OBVIOUS
<1> QED BY <1>2, <1>3

\* The tax of the summary is that of the documents.
LEMMA SummaryTax ==
    ASSUME TaxInv, NEW period
    PROVE  Of(TaxSummary("OUTPUT", period), "tax") = TaxOf(Outward(period))
<1>1. PICK O : O = Outward(period)
  OBVIOUS
<1>2. PICK names : names = UNION {TaxNames(Lines(d)) : d \in O}
  OBVIOUS
<1>3. PICK summary : summary = TaxSummary("OUTPUT", period)
  OBVIOUS
<1>4. DOMAIN summary = names /\ \A n \in names : summary[n].tax = ComponentOf(O, n)
  BY <1>1, <1>2, <1>3 DEF TaxSummary, Directed, Sum, SignedComponent, WeightOf, ComponentOf
<1>5. O \in SUBSET TaxedDocs
  BY <1>1, OutwardIsTaxed
<1>6. IsFiniteSet(names)
  BY <1>2, <1>5, NamesFinite
<1>7. \A d \in O : TaxNames(Lines(d)) \subseteq names
  BY <1>2
<1>8. SumOver([n \in names |-> ComponentOf(O, n)]) = TaxOf(O)
  BY <1>5, <1>6, <1>7, DocsByName
<1>9. [x \in DOMAIN summary |-> summary[x]["tax"]] = [n \in names |-> ComponentOf(O, n)]
  BY <1>4
<1>10. Of(summary, "tax") = SumOver([x \in DOMAIN summary |-> summary[x]["tax"]])
  BY DEF Of, Sum
<1> QED BY <1>1, <1>3, <1>8, <1>9, <1>10

-----------------------------------------------------------------------------
(* Sales by document and by product *)

LEMMA SoldIsTaxed ==
    ASSUME TaxInv
    PROVE  \A period : Sold(period) \in SUBSET TaxedDocs /\ Outward(period) \subseteq Sold(period)
BY DEF TaxInv, DocsOK, Sold, Outward, Final, TaxedDocs

\* By document the totals are those of the snapshots.
LEMMA ByDocument ==
    ASSUME TaxInv, NEW period
    PROVE  /\ Of(SalesByDocument(period), "taxable") = TaxableOf(Sold(period))
           /\ Of(SalesByDocument(period), "tax") = TaxOf(Sold(period))
           /\ Sum(LAMBDA d : SalesByDocument(period)[d].tax, Outward(period)) = TaxOf(Outward(period))
<1>1. PICK rows : rows = SalesByDocument(period)
  OBVIOUS
<1>2. PICK S : S = Sold(period)
  OBVIOUS
<1>3. DOMAIN rows = S /\ \A d \in S : /\ rows[d].taxable = WeightOf(d) * Taxable(Lines(d))
                                      /\ rows[d].tax = WeightOf(d) * Tax(Lines(d))
  BY <1>1, <1>2 DEF SalesByDocument, SignedAmount, WeightOf
<1>4. [x \in DOMAIN rows |-> rows[x]["taxable"]] = [d \in S |-> WeightOf(d) * Taxable(Lines(d))]
  BY <1>3
<1>5. [x \in DOMAIN rows |-> rows[x]["tax"]] = [d \in S |-> WeightOf(d) * Tax(Lines(d))]
  BY <1>3
<1>6. Of(rows, "taxable") = TaxableOf(S) /\ Of(rows, "tax") = TaxOf(S)
  BY <1>4, <1>5 DEF Of, Sum, TaxableOf, TaxOf
<1>7. [d \in Outward(period) |-> rows[d].tax] = [d \in Outward(period) |-> WeightOf(d) * Tax(Lines(d))]
  <2>1. \A d \in Outward(period) : rows[d].tax = WeightOf(d) * Tax(Lines(d))
    BY <1>2, <1>3, SoldIsTaxed
  <2> QED BY <2>1
<1> QED BY <1>1, <1>2, <1>6, <1>7 DEF Sum, TaxOf

SoldCodes(period) == UNION {{Lines(d)[k].code : k \in DOMAIN Lines(d)} : d \in Sold(period)}

LEMMA SoldCodesFinite ==
    ASSUME TaxInv, NEW period
    PROVE  IsFiniteSet(SoldCodes(period))
<1>1. PICK S : S = Sold(period)
  OBVIOUS
<1> DEFINE f == [d \in S |-> {Lines(d)[k].code : k \in DOMAIN Lines(d)}]
<1>2. S \in SUBSET TaxedDocs
  BY <1>1, SoldIsTaxed
<1>3. ASSUME NEW d \in S PROVE IsFiniteSet(f[d])
  <2>1. d \in Docs /\ docs[d].tax > 0
    BY <1>2 DEF TaxedDocs
  <2>2. PICK lines \in Seq(TaxedLine) : lines = Lines(d)
    BY <2>1, DocLines
  <2>3. PICK g : g = [k \in DOMAIN lines |-> lines[k].code]
    OBVIOUS
  <2>4. IsFiniteSet(DOMAIN g)
    <3>1. DOMAIN lines = 1 .. Len(lines) /\ Len(lines) \in Nat
      BY LenProperties
    <3>2. DOMAIN g = 1 .. Len(lines)
      BY <2>3, <3>1
    <3> QED BY <3>1, <3>2, FS_Interval
  <2>5. IsFiniteSet({g[k] : k \in DOMAIN g})
    BY <2>4, ImageFinite
  <2>6. f[d] = {g[k] : k \in DOMAIN g}
    BY <2>2, <2>3
  <2> QED BY <2>5, <2>6
<1>4. IsFiniteSet(UNION {f[d] : d \in DOMAIN f})
  <2>1. DOMAIN f = S /\ IsFiniteSet(S)
    BY <1>2, TotalsOfDocs
  <2> HIDE DEF f
  <2> QED BY <1>3, <2>1, FamilyFinite
<1>5. UNION {f[d] : d \in DOMAIN f} = SoldCodes(period)
  BY <1>1 DEF SoldCodes
<1> QED BY <1>4, <1>5

\* By product they are the same.
LEMMA ByProduct ==
    ASSUME TaxInv, NEW period
    PROVE  /\ Of(SalesByProduct(period), "taxable") = TaxableOf(Sold(period))
           /\ Of(SalesByProduct(period), "tax") = TaxOf(Sold(period))
<1>1. PICK S : S = Sold(period)
  OBVIOUS
<1>2. PICK codes : codes = SoldCodes(period)
  OBVIOUS
<1>3. S \in SUBSET TaxedDocs
  BY <1>1, SoldIsTaxed
<1>4. PICK w : w = [d \in S |-> WeightOf(d)]
  OBVIOUS
<1>5. PICK v : v = [d \in S |-> Taxables(Lines(d))]
  OBVIOUS
<1>6. PICK u : u = [d \in S |-> Taxes(Lines(d))]
  OBVIOUS
<1>7. PICK cls : cls = [d \in S |-> ByCode(Lines(d), codes)]
  OBVIOUS
<1>8. IsFiniteSet(S) /\ IsFiniteSet(codes) /\ \A d \in S : w[d] \in Int
  BY <1>2, <1>3, <1>4, TotalsOfDocs, SoldCodesFinite
<1>9. ASSUME NEW d \in S
      PROVE  /\ Classes(v[d], codes, cls[d]) /\ SumOver(v[d]) = Taxable(Lines(d))
             /\ Classes(u[d], codes, cls[d]) /\ SumOver(u[d]) = Tax(Lines(d))
             /\ \A c \in codes : /\ Taxable(With(Lines(d), c)) = SumOver(Part(v[d], cls[d][c]))
                                 /\ Tax(With(Lines(d), c)) = SumOver(Part(u[d], cls[d][c]))
  <2>1. d \in Docs /\ docs[d].tax > 0
    BY <1>3 DEF TaxedDocs
  <2>2. PICK lines \in Seq(TaxedLine) : lines = Lines(d)
    BY <2>1, DocLines
  <2>3. \A k \in DOMAIN lines : lines[k].code \in codes
    BY <1>1, <1>2, <2>2 DEF SoldCodes
  <2>4. PICK e : e = ByCode(lines, codes)
    OBVIOUS
  <2>5. /\ Classes(Taxables(lines), codes, e) /\ Classes(Taxes(lines), codes, e)
        /\ \A c \in codes : /\ Taxable(With(lines, c)) = SumOver(Part(Taxables(lines), e[c]))
                            /\ Tax(With(lines, c)) = SumOver(Part(Taxes(lines), e[c]))
    BY <2>3, <2>4, CodesAreClasses
  <2>6. v[d] = Taxables(lines) /\ u[d] = Taxes(lines) /\ cls[d] = e
    BY <1>5, <1>6, <1>7, <2>2, <2>4
  <2>7. SumOver(v[d]) = Taxable(lines) /\ SumOver(u[d]) = Tax(lines)
    BY <2>6, LineSums
  <2> QED BY <2>2, <2>5, <2>6, <2>7
<1>10. SumOver(GroupSums(S, codes, w, v, cls)) = SumOver(Weighted(S, w, v))
  <2>1. \A d \in S : Classes(v[d], codes, cls[d])
    BY <1>9
  <2>2. \A d \in S : w[d] \in Int
    BY <1>8
  <2>3. IsFiniteSet(S) /\ IsFiniteSet(codes)
    BY <1>8
  <2> QED BY <2>1, <2>2, <2>3, SumOfGroups
<1>11. SumOver(GroupSums(S, codes, w, u, cls)) = SumOver(Weighted(S, w, u))
  <2>1. \A d \in S : Classes(u[d], codes, cls[d])
    BY <1>9
  <2>2. \A d \in S : w[d] \in Int
    BY <1>8
  <2>3. IsFiniteSet(S) /\ IsFiniteSet(codes)
    BY <1>8
  <2> QED BY <2>1, <2>2, <2>3, SumOfGroups
<1>12. Weighted(S, w, v) = [d \in S |-> WeightOf(d) * Taxable(Lines(d))]
       /\ Weighted(S, w, u) = [d \in S |-> WeightOf(d) * Tax(Lines(d))]
  BY <1>4, <1>9 DEF Weighted
<1>13. ASSUME NEW c \in codes
       PROVE  /\ [d \in S |-> w[d] * SumOver(Part(v[d], cls[d][c]))] = [d \in S |-> WeightOf(d) * Taxable(With(Lines(d), c))]
              /\ [d \in S |-> w[d] * SumOver(Part(u[d], cls[d][c]))] = [d \in S |-> WeightOf(d) * Tax(With(Lines(d), c))]
  BY <1>4, <1>9
<1>14. PICK sales : sales = SalesByProduct(period)
  OBVIOUS
<1>15. DOMAIN sales = codes
       /\ \A c \in codes : /\ sales[c].taxable = SumOver([d \in S |-> WeightOf(d) * Taxable(With(Lines(d), c))])
                           /\ sales[c].tax = SumOver([d \in S |-> WeightOf(d) * Tax(With(Lines(d), c))])
  BY <1>1, <1>2, <1>14 DEF SalesByProduct, SoldCodes, Sum, WeightOf
<1>16. [x \in DOMAIN sales |-> sales[x]["taxable"]] = GroupSums(S, codes, w, v, cls)
       /\ [x \in DOMAIN sales |-> sales[x]["tax"]] = GroupSums(S, codes, w, u, cls)
  BY <1>13, <1>15 DEF GroupSums
<1>17. Of(sales, "taxable") = SumOver([x \in DOMAIN sales |-> sales[x]["taxable"]])
       /\ Of(sales, "tax") = SumOver([x \in DOMAIN sales |-> sales[x]["tax"]])
  BY DEF Of, Sum
<1> QED BY <1>1, <1>10, <1>11, <1>12, <1>14, <1>16, <1>17 DEF TaxableOf, TaxOf

LEMMA GroupingsHold == TaxInv => GroupingsAgree
<1> SUFFICES ASSUME TaxInv, NEW period \in Periods
             PROVE  /\ Of(SalesByDocument(period), "taxable") = Of(SalesByProduct(period), "taxable")
                    /\ Of(SalesByDocument(period), "tax") = Of(SalesByProduct(period), "tax")
                    /\ Sum(LAMBDA d : SalesByDocument(period)[d].tax, Outward(period)) = Of(TaxSummary("OUTPUT", period), "tax")
  BY DEF GroupingsAgree
<1> QED BY ByDocument, ByProduct, SummaryTax

\* The returns and the summaries of every period agree with each other (pg.go).
THEOREM ReportsStay == TaxationSpec => []ReportsAgree
<1>1. TaxInv => ReportsAgree
  BY TaxTypes, TaxSplits, ReturnsHold, GroupingsHold DEF ReportsAgree
<1>2. TaxationSpec => []TaxInv
  BY TaxInvHolds
<1> QED BY <1>1, <1>2, PTL
=============================================================================
