---------------------------- MODULE ReadingProofs -----------------------------
(***************************************************************************)
(* Theorems about Ordering and Lines.                                      *)
(***************************************************************************)
EXTENDS Ordering, Lines, Integers, FiniteSetTheorems, FunctionTheorems,
        SequenceTheorems, WellFoundedInduction, TLAPS

-----------------------------------------------------------------------------
(* Induction, and functions that are defined upward *)
\* A set of naturals that is not empty has a least member.
LEMMA LeastOf ==
  ASSUME NEW T \in SUBSET Nat, T # {}
  PROVE  \E n \in T : \A k \in T : n <= k
<1>1. PICK n \in T : \A k \in T : ~(<<k, n>> \in OpToRel(<, Nat))
  BY NatLessThanWellFounded, WFMin
<1>2. ASSUME NEW k \in T PROVE n <= k
  <2>1. ~(<<k, n>> \in OpToRel(<, Nat))
    BY <1>1
  <2>2. ~(k < n)
    BY <2>1 DEF OpToRel
  <2> QED BY <2>2
<1> QED BY <1>2

\* What holds of zero and of the next of what it holds of, holds of all.
LEMMA Induction ==
  ASSUME NEW T, 0 \in T, \A i \in Nat : i \in T => i + 1 \in T
  PROVE  \A i \in Nat : i \in T
<1> DEFINE F == {i \in Nat : i \notin T}
<1> SUFFICES ASSUME F # {} PROVE FALSE
  OBVIOUS
<1>1. PICK i \in F : \A k \in F : i <= k
  <2>1. F \in SUBSET Nat
    OBVIOUS
  <2> HIDE DEF F
  <2> QED BY <2>1, LeastOf
<1>2. i \in Nat /\ i \notin T /\ i # 0
  OBVIOUS
<1>3. i - 1 \in Nat /\ ~(i <= i - 1) /\ (i - 1) + 1 = i
  BY <1>2
<1>4. i - 1 \in T
  BY <1>1, <1>3
<1>5. i \in T
  BY <1>3, <1>4
<1> QED BY <1>2, <1>5

\* The values of a function that is defined upward.
Follows(n, f, base, next) ==
  f[0] = base /\ \A i \in 1..n : f[i] = next[<<i, f[i - 1]>>]

\* From a base and a function for the next value there is a function upward.
LEMMA UpwardExists ==
  ASSUME NEW n \in Nat, NEW S, NEW base \in S, NEW next \in [(1..n) \X S -> S]
  PROVE  \E f \in [0..n -> S] : Follows(n, f, base, next)
<1> DEFINE T == {k \in Nat : k <= n => \E f \in [0..k -> S] : Follows(k, f, base, next)}
<1>1. 0 \in T
  <2>1. [i \in 0..0 |-> base] \in [0..0 -> S]
    OBVIOUS
  <2>2. Follows(0, [i \in 0..0 |-> base], base, next)
    BY DEF Follows
  <2> QED BY <2>1, <2>2
<1>2. ASSUME NEW k \in Nat, k \in T PROVE k + 1 \in T
  <2> SUFFICES ASSUME k + 1 <= n
               PROVE  \E f \in [0..(k + 1) -> S] : Follows(k + 1, f, base, next)
    OBVIOUS
  <2>1. PICK f \in [0..k -> S] : Follows(k, f, base, next)
    BY <1>2
  <2> DEFINE g == [i \in 0..(k + 1) |-> IF i = k + 1 THEN next[<<k + 1, f[k]>>] ELSE f[i]]
  <2>2. k \in 0..k /\ k + 1 \in 1..n /\ k + 1 \in 0..(k + 1)
    OBVIOUS
  <2>3. <<k + 1, f[k]>> \in (1..n) \X S
    BY <2>2
  <2>4. next[<<k + 1, f[k]>>] \in S
    BY <2>3
  <2>5. \A i \in 0..(k + 1) : i = k + 1 \/ i \in 0..k
    OBVIOUS
  <2>6. g \in [0..(k + 1) -> S]
    BY <2>4, <2>5
  <2>7. \A i \in 0..k : i \in 0..(k + 1) /\ i # k + 1
    OBVIOUS
  <2>8. (\A i \in 0..k : g[i] = f[i]) /\ g[k + 1] = next[<<k + 1, f[k]>>]
    BY <2>2, <2>7
  <2> HIDE DEF g
  <2>9. g[0] = base
    BY <2>1, <2>8 DEF Follows
  <2>10. ASSUME NEW i \in 1..(k + 1) PROVE g[i] = next[<<i, g[i - 1]>>]
    <3>1. CASE i = k + 1
      <4>1. i - 1 = k
        BY <3>1
      <4> QED BY <4>1, <3>1, <2>2, <2>8
    <3>2. CASE i # k + 1
      <4>1. i \in 1..k /\ i \in 0..k /\ i - 1 \in 0..k
        BY <3>2
      <4>2. f[i] = next[<<i, f[i - 1]>>]
        BY <4>1, <2>1 DEF Follows
      <4> QED BY <4>1, <4>2, <2>8
    <3> QED BY <3>1, <3>2
  <2>11. Follows(k + 1, g, base, next)
    BY <2>9, <2>10 DEF Follows
  <2> QED BY <2>6, <2>11
<1>3. \A k \in Nat : k \in T
  <2> HIDE DEF T
  <2> QED BY <1>1, <1>2, Induction
<1>4. n \in T
  BY <1>3
<1>5. n <= n
  OBVIOUS
<1> QED BY <1>4, <1>5

-----------------------------------------------------------------------------
(* How many times a goal is in a body *)

LEMMA PlacesFinite ==
  ASSUME NEW n \in Nat, NEW T \in SUBSET (1..n)
  PROVE  IsFiniteSet(T) /\ Cardinality(T) \in Nat
<1>1. IsFiniteSet(1..n)
  BY FS_Interval
<1>2. IsFiniteSet(T)
  BY <1>1, FS_Subset
<1> QED BY <1>2, FS_CardinalityType

LEMMA CountAppend ==
  ASSUME NEW gs \in Seq(Goals), NEW h \in Goals, NEW g
  PROVE  /\ Count(gs, g) \in Nat
         /\ Count(Append(gs, h), g) = Count(gs, g) + (IF h = g THEN 1 ELSE 0)
<1>1. PICK n \in Nat : n = Len(gs)
  OBVIOUS
<1> DEFINE T == {i \in 1..n : gs[i] = g}
           U == {i \in 1..(n + 1) : Append(gs, h)[i] = g}
<1>2. IsFiniteSet(T) /\ Cardinality(T) \in Nat
  BY <1>1, PlacesFinite
<1>3. /\ Len(Append(gs, h)) = n + 1 /\ Append(gs, h)[n + 1] = h
      /\ \A i \in 1..n : Append(gs, h)[i] = gs[i]
  BY <1>1, AppendProperties
<1>4. Count(gs, g) = Cardinality(T) /\ Count(Append(gs, h), g) = Cardinality(U)
  BY <1>1, <1>3 DEF Count
<1>5. CASE h = g
  <2>1. U = T \cup {n + 1} /\ n + 1 \notin T
    BY <1>3, <1>5
  <2> HIDE DEF T, U
  <2>2. Cardinality(U) = Cardinality(T) + 1
    BY <1>2, <2>1, FS_AddElement
  <2> QED BY <1>2, <1>4, <1>5, <2>2
<1>6. CASE h # g
  <2>1. U = T
    BY <1>3, <1>6
  <2> HIDE DEF T, U
  <2> QED BY <1>2, <1>4, <1>6, <2>1
<1> HIDE DEF T, U
<1> QED BY <1>2, <1>4, <1>5, <1>6

\* What is left when a goal is unlinked.
LEMMA UnlinkedIs ==
  ASSUME NEW gs \in Seq(Goals), NEW k \in 1..Len(gs), NEW u, u = Unlinked(gs, k)
  PROVE  /\ u \in Seq(Goals) /\ Len(u) = Len(gs) - 1
         /\ \A i \in 1..(k - 1) : u[i] = gs[i]
         /\ \A i \in k..(Len(gs) - 1) : u[i] = gs[i + 1]
<1>1. PICK n \in Nat : n = Len(gs) /\ k <= n /\ k >= 1
  OBVIOUS
<1>2. PICK a, b : a = SubSeq(gs, 1, k - 1) /\ b = SubSeq(gs, k + 1, n)
  OBVIOUS
<1>3. \A i \in 1..n : gs[i] \in Goals
  BY <1>1, ElementOfSeq
<1>4. /\ a \in Seq(Goals) /\ Len(a) = k - 1 /\ \A i \in 1..(k - 1) : a[i] = gs[i]
  BY <1>1, <1>2, <1>3, SubSeqProperties
<1>5. /\ b \in Seq(Goals) /\ Len(b) = n - k /\ \A i \in 1..(n - k) : b[i] = gs[k + i]
  <2>1. \A i \in (k + 1)..n : gs[i] \in Goals
    BY <1>1, <1>3
  <2>2. n - (k + 1) + 1 = n - k /\ (k + 1 <= n \/ n - k = 0)
    BY <1>1
  <2>3. \A i \in 1..(n - k) : (k + 1) + i - 1 = k + i
    BY <1>1
  <2> QED BY <1>1, <1>2, <2>1, <2>2, <2>3, SubSeqProperties
<1>6. u = a \o b
  BY <1>1, <1>2 DEF Unlinked, RemoveAt
<1>7. /\ u \in Seq(Goals) /\ Len(u) = n - 1
      /\ \A i \in 1..(n - 1) : u[i] = IF i <= k - 1 THEN a[i] ELSE b[i - (k - 1)]
  <2>1. (k - 1) + (n - k) = n - 1
    BY <1>1
  <2> QED BY <1>4, <1>5, <1>6, <2>1, ConcatProperties
<1>8. \A i \in 1..(k - 1) : i \in 1..(n - 1) /\ i <= k - 1
  BY <1>1
<1>9. \A i \in k..(n - 1) :
         /\ i \in 1..(n - 1) /\ ~(i <= k - 1) /\ i - (k - 1) \in 1..(n - k)
         /\ k + (i - (k - 1)) = i + 1
  BY <1>1
<1> QED BY <1>1, <1>4, <1>5, <1>7, <1>8, <1>9

LEMMA CountUnlinked ==
  ASSUME NEW gs \in Seq(Goals), NEW k \in 1..Len(gs), NEW g
  PROVE  Count(gs, g) = Count(Unlinked(gs, k), g) + (IF gs[k] = g THEN 1 ELSE 0)
<1>1. PICK n \in Nat : n = Len(gs) /\ k <= n /\ k >= 1
  OBVIOUS
<1>2. PICK u : u = Unlinked(gs, k)
  OBVIOUS
<1>3. /\ u \in Seq(Goals) /\ Len(u) = n - 1
      /\ \A i \in 1..(k - 1) : u[i] = gs[i]
      /\ \A i \in k..(n - 1) : u[i] = gs[i + 1]
  BY <1>1, <1>2, UnlinkedIs
<1> DEFINE T == {i \in 1..n : gs[i] = g}
           U == {i \in 1..(n - 1) : u[i] = g}
           f == [i \in U |-> IF i < k THEN i ELSE i + 1]
<1>4. IsFiniteSet(T) /\ Cardinality(T) \in Nat
  BY <1>1, PlacesFinite
<1>5. IsFiniteSet(U) /\ Cardinality(U) \in Nat
  <2>1. n - 1 \in Nat
    BY <1>1
  <2> QED BY <2>1, PlacesFinite
<1>6. f \in Bijection(U, T \ {k})
  <2>1. ASSUME NEW i \in U PROVE f[i] \in T \ {k}
    <3>1. CASE i < k
      <4>1. i \in 1..(k - 1) /\ i \in 1..n /\ i # k
        BY <1>1, <3>1
      <4> QED BY <1>3, <3>1, <4>1
    <3>2. CASE ~(i < k)
      <4>1. i \in k..(n - 1) /\ i + 1 \in 1..n /\ i + 1 # k
        BY <1>1, <3>2
      <4> QED BY <1>3, <3>2, <4>1
    <3> QED BY <3>1, <3>2
  <2>2. \A i, j \in U : f[i] = f[j] => i = j
    BY <1>1
  <2>3. ASSUME NEW t \in T \ {k} PROVE \E i \in U : f[i] = t
    <3>1. CASE t < k
      <4>1. t \in 1..(k - 1) /\ t \in 1..(n - 1)
        BY <1>1, <3>1
      <4>2. t \in U
        BY <1>3, <4>1
      <4> QED BY <3>1, <4>2
    <3>2. CASE ~(t < k)
      <4>1. t - 1 \in k..(n - 1) /\ t - 1 \in 1..(n - 1) /\ (t - 1) + 1 = t /\ ~(t - 1 < k)
        BY <1>1, <3>2
      <4>2. t - 1 \in U
        BY <1>3, <4>1
      <4> QED BY <4>1, <4>2
    <3> QED BY <3>1, <3>2
  <2>4. f \in [U -> T \ {k}]
    BY <2>1
  <2> HIDE DEF f, U, T
  <2>5. f \in Injection(U, T \ {k})
    BY <2>2, <2>4, Fun_IsInj
  <2>6. f \in Surjection(U, T \ {k})
    BY <2>3, <2>4, Fun_IsSurj
  <2> QED BY <2>5, <2>6 DEF Bijection
<1>7. Cardinality(T \ {k}) = Cardinality(U)
  <2> HIDE DEF f, U, T
  <2>1. ExistsBijection(U, T \ {k})
    BY <1>6 DEF ExistsBijection
  <2> QED BY <1>5, <2>1, FS_Bijection
<1>8. k \in T <=> gs[k] = g
  BY <1>1
<1>9. Cardinality(T \ {k}) = IF k \in T THEN Cardinality(T) - 1 ELSE Cardinality(T)
  <2> HIDE DEF U, T
  <2> QED BY <1>4, FS_RemoveElement
<1>10. Count(gs, g) = Cardinality(T) /\ Count(u, g) = Cardinality(U)
  BY <1>1, <1>3 DEF Count
<1> HIDE DEF f, U, T
<1> QED BY <1>2, <1>4, <1>5, <1>7, <1>8, <1>9, <1>10

\* A goal that is in a body once is in one place of it.
LEMMA OnePlace ==
  ASSUME NEW gs \in Seq(Goals), NEW g, Count(gs, g) = 1,
         NEW i \in 1..Len(gs), NEW j \in 1..Len(gs), gs[i] = g, gs[j] = g
  PROVE  i = j
<1> DEFINE T == {k \in 1..Len(gs) : gs[k] = g}
<1>1. IsFiniteSet(T)
  <2>1. Len(gs) \in Nat
    OBVIOUS
  <2> QED BY <2>1, PlacesFinite
<1>2. Cardinality(T) = 1
  BY DEF Count
<1>3. i \in T /\ j \in T
  OBVIOUS
<1> HIDE DEF T
<1>4. PICK x : T = {x}
  BY <1>1, <1>2, FS_Singleton
<1> QED BY <1>3, <1>4

-----------------------------------------------------------------------------
(* The goal that is taken *)

\* Shares of known arguments, compared as get_most_initted compares them.
AtLeast(f, g) == NaN(f) \/ NaN(g) \/ f[1] * g[2] >= g[1] * f[2]

LEMMA Cancelled ==
  ASSUME NEW x \in Nat, NEW y \in Nat, NEW z \in Nat, z > 0, x * z < y * z
  PROVE  x < y
<1>1. CASE y <= x
  <2>1. PICK d \in Nat : x = y + d
    <3>1. x - y \in Nat /\ x = y + (x - y)
      BY <1>1
    <3> QED BY <3>1
  <2>2. d * z \in Nat /\ x * z = y * z + d * z
    BY <2>1
  <2>3. PICK p \in Nat, q \in Nat, r \in Nat : p = x * z /\ q = y * z /\ r = d * z
    OBVIOUS
  <2> QED BY <2>2, <2>3
<1> QED BY <1>1

LEMMA Grown ==
  ASSUME NEW x \in Nat, NEW y \in Nat, NEW z \in Nat
  PROVE  /\ x <= y => x * z <= y * z
         /\ x < y /\ z > 0 => x * z < y * z
<1>1. ASSUME x <= y PROVE x * z <= y * z
  <2>1. PICK d \in Nat : y = x + d
    <3>1. y - x \in Nat /\ y = x + (y - x)
      BY <1>1
    <3> QED BY <3>1
  <2>2. d * z \in Nat /\ y * z = x * z + d * z
    BY <2>1
  <2>3. PICK p \in Nat, q \in Nat, r \in Nat : p = x * z /\ q = y * z /\ r = d * z
    OBVIOUS
  <2> QED BY <2>2, <2>3
<1>2. ASSUME x < y, z > 0 PROVE x * z < y * z
  <2>1. (x + 1) * z <= y * z
    <3>1. PICK d \in Nat : y = (x + 1) + d
      <4>1. y - (x + 1) \in Nat /\ y = (x + 1) + (y - (x + 1))
        BY <1>2
      <4> QED BY <4>1
    <3>2. d * z \in Nat /\ y * z = (x + 1) * z + d * z
      BY <3>1
    <3>3. PICK p \in Nat, q \in Nat, r \in Nat : p = (x + 1) * z /\ q = y * z /\ r = d * z
      OBVIOUS
    <3> QED BY <3>2, <3>3
  <2>2. (x + 1) * z = x * z + z
    OBVIOUS
  <2>3. PICK p \in Nat, q \in Nat, r \in Nat : p = (x + 1) * z /\ q = y * z /\ r = x * z
    OBVIOUS
  <2> QED BY <1>2, <2>1, <2>2, <2>3
<1> QED BY <1>1, <1>2

\* What is above a share that is at least another is above the other.
LEMMA AboveAll ==
  ASSUME NEW f \in Nat \X Nat, NEW g \in Nat \X Nat, NEW h \in Nat \X Nat,
         Above(f, g), AtLeast(g, h), ~NaN(h)
  PROVE  Above(f, h)
<1>1. PICK a \in Nat, b \in Nat, c \in Nat, d \in Nat, e \in Nat, k \in Nat :
        f = <<a, b>> /\ g = <<c, d>> /\ h = <<e, k>>
  <2>1. f = <<f[1], f[2]>> /\ g = <<g[1], g[2]>> /\ h = <<h[1], h[2]>>
    OBVIOUS
  <2>2. f[1] \in Nat /\ f[2] \in Nat /\ g[1] \in Nat /\ g[2] \in Nat /\ h[1] \in Nat /\ h[2] \in Nat
    OBVIOUS
  <2> QED BY <2>1, <2>2
<1>2. b > 0 /\ d > 0 /\ k > 0 /\ c * b < a * d /\ e * d <= c * k
  BY <1>1 DEF Above, AtLeast, NaN
<1>3. PICK p \in Nat, q \in Nat, r \in Nat, s \in Nat :
        p = c * b /\ q = a * d /\ r = e * d /\ s = c * k
  OBVIOUS
<1>4. r * b <= s * b /\ p * k < q * k
  BY <1>2, <1>3, Grown
<1>5. r * b = (e * b) * d /\ q * k = (a * k) * d /\ s * b = p * k
  BY <1>3
<1>6. PICK x \in Nat, y \in Nat : x = e * b /\ y = a * k
  OBVIOUS
<1>7. x * d < y * d
  <2>1. PICK u \in Nat, v \in Nat, w \in Nat, t \in Nat :
           u = r * b /\ v = s * b /\ w = p * k /\ t = q * k
    OBVIOUS
  <2> QED BY <1>4, <1>5, <1>6, <2>1
<1>8. x < y
  BY <1>2, <1>7, Cancelled
<1> QED BY <1>1, <1>2, <1>6, <1>8 DEF Above, NaN

LEMMA InitializationType ==
  ASSUME NEW m, NEW g \in Goals
  PROVE  Initialization(m, g) \in Nat \X Nat
<1>1. CASE g.t = "pred_call"
  <2>1. g.args \in Seq(STRING)
    BY <1>1 DEF Goals
  <2>2. PICK n \in Nat : n = Len(g.args)
    BY <2>1
  <2> DEFINE T == {i \in 1..n : g.args[i] = Literal \/ Instantiated(m, g.args[i])}
  <2>3. Cardinality(T) \in Nat
    BY PlacesFinite
  <2>4. Initialization(m, g) = <<Cardinality(T), n>>
    BY <1>1, <2>2 DEF Initialization
  <2> HIDE DEF T
  <2> QED BY <2>3, <2>4
<1>2. CASE g.t # "pred_call"
  BY <1>2 DEF Initialization
<1> QED BY <1>1, <1>2

\* The best of the first k goals, for each k.
Bests(m, gs, n, best) ==
  /\ best \in [0..n -> 1..n] /\ best[0] = 1
  /\ \A k \in 1..n : best[k] = Better(m, gs, best[k - 1], k)

LEMMA BestUnfolds ==
  ASSUME NEW m, NEW gs \in Seq(Goals), NEW n \in Nat, n = Len(gs), n >= 1,
         NEW best, best = MostInitted(m, gs)
  PROVE  Bests(m, gs, n, best)
<1> DEFINE S == 1..n
           next == [p \in (1..n) \X S |-> Better(m, gs, p[2], p[1])]
<1>1. next \in [(1..n) \X S -> S]
  BY DEF Better
<1>2. 1 \in S
  OBVIOUS
<1>3. PICK f \in [0..n -> S] : Follows(n, f, 1, next)
  <2> HIDE DEF next, S
  <2> QED BY <1>1, <1>2, UpwardExists
<1>4. f[0] = 1
  BY <1>3 DEF Follows
<1>5. ASSUME NEW k \in 1..n PROVE f[k] = Better(m, gs, f[k - 1], k)
  <2>1. k - 1 \in 0..n
    OBVIOUS
  <2>2. <<k, f[k - 1]>> \in (1..n) \X S
    BY <2>1
  <2>3. f[k] = next[<<k, f[k - 1]>>]
    BY <1>3 DEF Follows
  <2> QED BY <2>2, <2>3
<1>6. f = [k \in 0..n |-> IF k = 0 THEN 1 ELSE Better(m, gs, f[k - 1], k)]
  <2>1. f = [k \in 0..n |-> f[k]]
    OBVIOUS
  <2>2. \A k \in 0..n : f[k] = IF k = 0 THEN 1 ELSE Better(m, gs, f[k - 1], k)
    BY <1>4, <1>5
  <2> QED BY <2>1, <2>2
<1>7. best = [k \in 0..n |-> IF k = 0 THEN 1 ELSE Better(m, gs, best[k - 1], k)]
  <2> HIDE DEF S, next
  <2> QED BY <1>6, Zenon DEF MostInitted
<1> DEFINE g == [k \in 0..n |-> IF k = 0 THEN 1 ELSE Better(m, gs, best[k - 1], k)]
<1>8. \A k \in 0..n : best[k] = IF k = 0 THEN 1 ELSE Better(m, gs, best[k - 1], k)
  BY <1>7
<1>9. best[0] = 1 /\ \A k \in 1..n : best[k] = Better(m, gs, best[k - 1], k)
  BY <1>8
<1> DEFINE T == {k \in Nat : k <= n => best[k] \in S}
<1>10. 0 \in T
  BY <1>9
<1>11. ASSUME NEW k \in Nat, k \in T PROVE k + 1 \in T
  <2> SUFFICES ASSUME k + 1 <= n PROVE best[k + 1] \in S
    OBVIOUS
  <2>1. k + 1 \in 1..n /\ (k + 1) - 1 = k
    OBVIOUS
  <2>2. best[k + 1] = Better(m, gs, best[k], k + 1)
    BY <1>9, <2>1
  <2> QED BY <1>11, <2>1, <2>2 DEF Better
<1>12. \A k \in Nat : k \in T
  <2> HIDE DEF T
  <2> QED BY <1>10, <1>11, Induction
<1>13. best \in [0..n -> S]
  <2>1. \A k \in 0..n : best[k] \in S
    BY <1>12
  <2>2. best = [k \in 0..n |-> best[k]]
    BY <1>7
  <2> QED BY <2>1, <2>2
<1> QED BY <1>9, <1>13 DEF Bests

\* What get_most_initted settles on is above all that is before it.
LEMMA BestIsAbove ==
  ASSUME NEW m, NEW gs \in Seq(Goals), NEW n \in Nat, n = Len(gs), n >= 1,
         NEW b, b = MostInitted(m, gs)[n]
  PROVE  /\ b \in 1..n
         /\ \A j \in 1..(b - 1) : \/ NaN(Initialization(m, gs[j]))
                                  \/ Above(Initialization(m, gs[b]), Initialization(m, gs[j]))
<1>1. PICK best : best = MostInitted(m, gs)
  OBVIOUS
<1>2. /\ best \in [0..n -> 1..n] /\ best[0] = 1
      /\ \A k \in 1..n : best[k] = Better(m, gs, best[k - 1], k)
  <2>1. Bests(m, gs, n, best)
    BY <1>1, BestUnfolds
  <2> QED BY <2>1 DEF Bests
<1>3. PICK I \in [1..n -> Nat \X Nat] : \A i \in 1..n : I[i] = Initialization(m, gs[i])
  <2> DEFINE J == [i \in 1..n |-> Initialization(m, gs[i])]
  <2>1. \A i \in 1..n : gs[i] \in Goals
    BY ElementOfSeq
  <2>2. J \in [1..n -> Nat \X Nat]
    BY <2>1, InitializationType
  <2>3. \A i \in 1..n : J[i] = Initialization(m, gs[i])
    OBVIOUS
  <2> HIDE DEF J
  <2> QED BY <2>2, <2>3
<1>4. \A k \in 1..n : best[k] = IF Above(I[k], I[best[k - 1]]) THEN k ELSE best[k - 1]
  <2> TAKE k \in 1..n
  <2>1. k - 1 \in 0..n
    OBVIOUS
  <2>2. best[k - 1] \in 1..n
    BY <1>2, <2>1
  <2> QED BY <1>2, <1>3, <2>2 DEF Better
<1> DEFINE Best(k, c) == /\ k >= 1 => c <= k
                         /\ NaN(I[c]) => c = 1
                         /\ \A j \in 1..k : AtLeast(I[c], I[j])
                         /\ \A j \in 1..(c - 1) : NaN(I[j]) \/ Above(I[c], I[j])
           T == {k \in Nat : k <= n => Best(k, best[k])}
<1>5. 0 \in T
  <2>1. best[0] = 1 /\ 1..0 = {} /\ 1..(1 - 1) = {}
    BY <1>2
  <2>2. Best(0, 1)
    BY <2>1
  <2> QED BY <2>1, <2>2
<1>6. ASSUME NEW k \in Nat, k \in T PROVE k + 1 \in T
  <2> SUFFICES ASSUME k + 1 <= n PROVE Best(k + 1, best[k + 1])
    OBVIOUS
  <2>1. PICK c \in 1..n : c = best[k]
    <3>1. k \in 0..n
      OBVIOUS
    <3> QED BY <1>2, <3>1
  <2>2. Best(k, c)
    BY <1>6, <2>1
  <2>3. k + 1 \in 1..n /\ (k + 1) - 1 = k
    OBVIOUS
  <2>4. best[k + 1] = IF Above(I[k + 1], I[c]) THEN k + 1 ELSE c
    BY <1>4, <2>1, <2>3
  <2>5. I[c] \in Nat \X Nat /\ \A j \in 1..(k + 1) : j \in 1..n /\ I[j] \in Nat \X Nat
    <3>1. \A j \in 1..(k + 1) : j \in 1..n
      OBVIOUS
    <3>2. \A j \in 1..n : I[j] \in Nat \X Nat
      OBVIOUS
    <3> QED BY <2>1, <3>1, <3>2
  <2>6. CASE Above(I[k + 1], I[c])
    <3>1. ~NaN(I[k + 1]) /\ ~NaN(I[c])
      BY <2>6 DEF Above
    <3>2. ASSUME NEW j \in 1..k PROVE NaN(I[j]) \/ Above(I[k + 1], I[j])
      <4>1. CASE NaN(I[j])
        BY <4>1
      <4>2. CASE ~NaN(I[j])
        <5>1. AtLeast(I[c], I[j])
          BY <2>2
        <5>2. j \in 1..(k + 1)
          OBVIOUS
        <5> QED BY <2>5, <2>6, <4>2, <5>1, <5>2, <2>3, AboveAll
      <4> QED BY <4>1, <4>2
    <3>3. ASSUME NEW j \in 1..(k + 1) PROVE AtLeast(I[k + 1], I[j])
      <4>1. CASE j = k + 1
        <5>1. PICK x \in Nat, y \in Nat : I[j][1] = x /\ I[j][2] = y
          BY <2>5
        <5>2. PICK z \in Nat : z = x * y
          OBVIOUS
        <5> QED BY <4>1, <5>1, <5>2 DEF AtLeast
      <4>2. CASE j # k + 1
        <5>1. j \in 1..k
          BY <4>2
        <5>2. NaN(I[j]) \/ Above(I[k + 1], I[j])
          BY <3>2, <5>1
        <5>3. PICK a \in Nat, b_ \in Nat, c_ \in Nat, d \in Nat :
                I[j][1] = a /\ I[j][2] = b_ /\ I[k + 1][1] = c_ /\ I[k + 1][2] = d
          BY <2>5, <2>3
        <5>4. PICK x \in Nat, y \in Nat : x = c_ * b_ /\ y = a * d
          OBVIOUS
        <5> QED BY <5>2, <5>3, <5>4 DEF AtLeast, Above
      <4> QED BY <4>1, <4>2
    <3>4. (k + 1) - 1 = k
      OBVIOUS
    <3>5. Best(k + 1, k + 1)
      BY <3>1, <3>2, <3>3, <3>4
    <3> HIDE DEF Best
    <3> QED BY <2>4, <2>6, <3>5
  <2>7. CASE ~Above(I[k + 1], I[c])
    <3>1. AtLeast(I[c], I[k + 1])
      <4>1. PICK a \in Nat, b_ \in Nat, c_ \in Nat, d \in Nat :
              I[c][1] = a /\ I[c][2] = b_ /\ I[k + 1][1] = c_ /\ I[k + 1][2] = d
        BY <2>5, <2>3
      <4>2. PICK x \in Nat, y \in Nat : x = c_ * b_ /\ y = a * d
        OBVIOUS
      <4> QED BY <2>7, <4>1, <4>2 DEF AtLeast, Above
    <3>2. c <= k + 1
      <4>1. CASE k = 0
        BY <1>2, <2>1, <4>1
      <4>2. CASE k # 0
        BY <2>2, <4>2
      <4> QED BY <4>1, <4>2
    <3>3. \A j \in 1..(k + 1) : j = k + 1 \/ j \in 1..k
      OBVIOUS
    <3>4. Best(k + 1, c)
      BY <2>2, <3>1, <3>2, <3>3
    <3> HIDE DEF Best
    <3> QED BY <2>4, <2>7, <3>4
  <2> QED BY <2>6, <2>7
<1>7. n \in T
  <2>1. \A k \in Nat : k \in T
    <3> HIDE DEF T
    <3> QED BY <1>5, <1>6, Induction
  <2> QED BY <2>1
<1>8. b = best[n] /\ b \in 1..n
  <2>1. n \in 0..n
    OBVIOUS
  <2> QED BY <1>1, <1>2, <2>1
<1>9. \A j \in 1..(b - 1) : NaN(I[j]) \/ Above(I[b], I[j])
  BY <1>7, <1>8
<1>10. \A j \in 1..(b - 1) : j \in 1..n
  BY <1>8
<1> QED BY <1>3, <1>8, <1>9, <1>10

\* The goal that is taken is one of those that are left; every one before it
\* has a smaller share of known arguments, or none that compares.
LEMMA TakenIsAbove ==
  ASSUME NEW m, NEW gs \in Seq(Goals), gs # <<>>, NEW b, b = get_most_initted(m, gs)
  PROVE  /\ b \in 1..Len(gs)
         /\ \A j \in 1..(b - 1) : \/ NaN(Initialization(m, gs[j]))
                                  \/ Above(Initialization(m, gs[b]), Initialization(m, gs[j]))
<1>1. PICK n \in Nat : n = Len(gs) /\ n >= 1
  <2>1. Len(gs) \in Nat \ {0}
    BY EmptySeq
  <2> QED BY <2>1
<1>2. CASE Len(gs) = 1 \/ gs[1].t = "rename"
  <2>1. b = 1 /\ 1..(1 - 1) = {}
    BY <1>2 DEF get_most_initted
  <2> QED BY <1>1, <2>1
<1>3. CASE ~(Len(gs) = 1 \/ gs[1].t = "rename")
  <2>1. b = MostInitted(m, gs)[n]
    BY <1>1, <1>3 DEF get_most_initted
  <2> QED BY <1>1, <2>1, BestIsAbove
<1> QED BY <1>2, <1>3

-----------------------------------------------------------------------------
(* The mock scope *)

LEMMA SetInstantiated ==
  ASSUME NEW m \in Seq(Variable), NEW j
  PROVE  [m EXCEPT ![j].instantiated = TRUE] \in Seq(Variable)
<1>1. PICK n \in Nat : n = Len(m) /\ m \in [1..n -> Variable]
  BY LenProperties
<1>2. [m EXCEPT ![j].instantiated = TRUE] \in [1..n -> Variable]
  BY <1>1 DEF Variable
<1> QED BY <1>2

LEMMA SetNames ==
  ASSUME NEW m \in Seq(Variable), NEW j, NEW ns \in SUBSET STRING
  PROVE  [m EXCEPT ![j].names = @ \cup ns] \in Seq(Variable)
<1>1. PICK n \in Nat : n = Len(m) /\ m \in [1..n -> Variable]
  BY LenProperties
<1>2. \A i \in 1..n : m[i].names \in SUBSET STRING
  BY <1>1 DEF Variable
<1>3. [m EXCEPT ![j].names = @ \cup ns] \in [1..n -> Variable]
  BY <1>1, <1>2 DEF Variable
<1> QED BY <1>3

LEMMA SetOneType ==
  ASSUME NEW m \in Seq(Variable), NEW n \in STRING
  PROVE  set_initted_variable(m, n) \in Seq(Variable)
<1>1. Var(n, TRUE) \in Variable
  BY DEF Var, Variable
<1>2. Append(m, Var(n, TRUE)) \in Seq(Variable)
  BY <1>1, AppendProperties
<1> QED BY <1>2, SetInstantiated DEF set_initted_variable

LEMMA SetAllType ==
  ASSUME NEW m \in Seq(Variable), NEW args \in Seq(STRING)
  PROVE  SetAll(m, args) \in Seq(Variable)
<1> PICK n \in Nat : n = Len(args)
  OBVIOUS
<1> DEFINE S == Seq(Variable)
           next == [p \in (1..n) \X S |-> SetArg(p[2], args[p[1]])]
<1>1. next \in [(1..n) \X S -> S]
  <2>1. ASSUME NEW p \in (1..n) \X S PROVE SetArg(p[2], args[p[1]]) \in S
    <3>1. p[1] \in 1..n /\ p[2] \in S
      OBVIOUS
    <3>2. args[p[1]] \in STRING
      BY <3>1, ElementOfSeq
    <3> QED BY <3>1, <3>2, SetOneType DEF SetArg
  <2> QED BY <2>1
<1>2. PICK f \in [0..n -> S] : Follows(n, f, m, next)
  <2> HIDE DEF next, S
  <2>1. m \in S
    BY DEF S
  <2> QED BY <1>1, <2>1, UpwardExists
<1>3. f[0] = m
  BY <1>2 DEF Follows
<1>4. ASSUME NEW k \in 1..n PROVE f[k] = SetArg(f[k - 1], args[k])
  <2>1. k - 1 \in 0..n
    OBVIOUS
  <2>2. f[k - 1] \in S
    BY <1>2, <2>1
  <2>3. <<k, f[k - 1]>> \in (1..n) \X S
    BY <2>2
  <2>4. f[k] = next[<<k, f[k - 1]>>]
    BY <1>2 DEF Follows
  <2> QED BY <2>3, <2>4
<1>5. f = [i \in 0..n |-> IF i = 0 THEN m ELSE SetArg(f[i - 1], args[i])]
  <2>1. f = [i \in 0..n |-> f[i]]
    OBVIOUS
  <2>2. \A i \in 0..n : f[i] = IF i = 0 THEN m ELSE SetArg(f[i - 1], args[i])
    BY <1>3, <1>4
  <2> QED BY <2>1, <2>2
<1> DEFINE F == CHOOSE g : g = [i \in 0..n |-> IF i = 0 THEN m ELSE SetArg(g[i - 1], args[i])]
<1>6. F = [i \in 0..n |-> IF i = 0 THEN m ELSE SetArg(F[i - 1], args[i])]
  <2> HIDE DEF S, next
  <2> QED BY <1>5, Zenon
<1>7. SetAll(m, args) = F[n]
  <2> HIDE DEF S, next
  <2> QED BY Zenon DEF SetAll
<1> HIDE DEF F
<1>8. F[0] = m /\ \A k \in 1..n : F[k] = SetArg(F[k - 1], args[k])
  <2>1. \A i \in 0..n : F[i] = IF i = 0 THEN m ELSE SetArg(F[i - 1], args[i])
    BY <1>6
  <2> QED BY <2>1
<1> DEFINE T == {k \in Nat : k <= n => F[k] \in S}
<1>9. 0 \in T
  BY <1>8
<1>10. ASSUME NEW k \in Nat, k \in T PROVE k + 1 \in T
  <2> SUFFICES ASSUME k + 1 <= n PROVE F[k + 1] \in S
    OBVIOUS
  <2>1. k + 1 \in 1..n /\ (k + 1) - 1 = k /\ F[k] \in S
    BY <1>10
  <2>2. F[k + 1] = SetArg(F[k], args[k + 1])
    BY <1>8, <2>1
  <2>3. args[k + 1] \in STRING
    BY <2>1, ElementOfSeq
  <2> QED BY <2>1, <2>2, <2>3, SetOneType DEF SetArg
<1>11. n \in T
  <2> HIDE DEF T
  <2> QED BY <1>9, <1>10, Induction
<1> QED BY <1>7, <1>11

LEMMA LearnedType ==
  ASSUME NEW m \in Seq(Variable), NEW g \in Goals
  PROVE  Learned(m, g) \in Seq(Variable)
<1>1. CASE g.t = "pred_call"
  <2>1. g.args \in Seq(STRING)
    BY <1>1 DEF Goals
  <2> QED BY <1>1, <2>1, SetAllType DEF Learned
<1>2. CASE g.t = "assert"
  <2>1. <<g.l, g.r>> \in Seq(STRING)
    BY <1>2 DEF Goals
  <2> QED BY <1>2, <2>1, SetAllType DEF Learned
<1>3. CASE g.t = "unify"
  <2>1. g.s \in STRING
    BY <1>3 DEF Goals
  <2> QED BY <1>3, <2>1, SetOneType DEF Learned
<1>4. CASE g.t = "rename"
  <2>1. {g.l, g.r} \in SUBSET STRING
    BY <1>4 DEF Goals
  <2>2. link_name(m, g.l, g.r) \in Seq(Variable)
    BY <2>1, SetNames DEF link_name
  <2> QED BY <1>4, <2>2 DEF Learned
<1>5. CASE g.t \notin {"pred_call", "assert", "unify", "rename"}
  BY <1>5 DEF Learned
<1> QED BY <1>1, <1>2, <1>3, <1>4, <1>5

LEMMA MockType ==
  ASSUME NEW args \in [1..Arity -> BOOLEAN], NEW response \in BOOLEAN
  PROVE  MockOf(args, response) \in Seq(Variable)
<1>1. <<Var(RespName, response)>> \in Seq(Variable)
  BY OrderingAssumption DEF Var, Variable
<1>2. [i \in 1..Arity |-> Var(ArgName[i], args[i])] \in Seq(Variable)
  <2>1. \A i \in 1..Arity : Var(ArgName[i], args[i]) \in Variable
    BY OrderingAssumption DEF Var, Variable
  <2>2. [i \in 1..Arity |-> Var(ArgName[i], args[i])] \in [1..Arity -> Variable]
    BY <2>1
  <2> QED BY <2>2, OrderingAssumption
<1> QED BY <1>1, <1>2, ConcatProperties DEF MockOf

\* What the mock scope holds after each of the goals.
Replays(M, n, m, gs) ==
  /\ M \in [0..n -> Seq(Variable)] /\ M[0] = m
  /\ \A k \in 1..n : M[k] = Learned(M[k - 1], gs[k])

LEMMA PlayedUnfolds ==
  ASSUME NEW m \in Seq(Variable), NEW gs \in Seq(Goals), NEW n \in Nat, n = Len(gs),
         NEW M, M = Played(m, gs)
  PROVE  Replays(M, n, m, gs)
<1> DEFINE S == Seq(Variable)
           next == [p \in (1..n) \X S |-> Learned(p[2], gs[p[1]])]
<1>1. next \in [(1..n) \X S -> S]
  <2>1. ASSUME NEW p \in (1..n) \X S PROVE Learned(p[2], gs[p[1]]) \in S
    <3>1. p[1] \in 1..n /\ p[2] \in S
      OBVIOUS
    <3>2. gs[p[1]] \in Goals
      BY <3>1, ElementOfSeq
    <3> QED BY <3>1, <3>2, LearnedType
  <2> QED BY <2>1
<1>2. PICK f \in [0..n -> S] : Follows(n, f, m, next)
  <2> HIDE DEF next, S
  <2>1. m \in S
    BY DEF S
  <2> QED BY <1>1, <2>1, UpwardExists
<1>3. f[0] = m
  BY <1>2 DEF Follows
<1>4. ASSUME NEW k \in 1..n PROVE f[k] = Learned(f[k - 1], gs[k])
  <2>1. k - 1 \in 0..n
    OBVIOUS
  <2>2. f[k - 1] \in S
    BY <1>2, <2>1
  <2>3. <<k, f[k - 1]>> \in (1..n) \X S
    BY <2>2
  <2>4. f[k] = next[<<k, f[k - 1]>>]
    BY <1>2 DEF Follows
  <2> QED BY <2>3, <2>4
<1>5. f = [k \in 0..n |-> IF k = 0 THEN m ELSE Learned(f[k - 1], gs[k])]
  <2>1. f = [k \in 0..n |-> f[k]]
    OBVIOUS
  <2>2. \A k \in 0..n : f[k] = IF k = 0 THEN m ELSE Learned(f[k - 1], gs[k])
    BY <1>3, <1>4
  <2> QED BY <2>1, <2>2
<1>6. M = [k \in 0..n |-> IF k = 0 THEN m ELSE Learned(M[k - 1], gs[k])]
  <2> HIDE DEF S, next
  <2> QED BY <1>5, Zenon DEF Played
<1>7. \A k \in 0..n : M[k] = IF k = 0 THEN m ELSE Learned(M[k - 1], gs[k])
  BY <1>6
<1>8. M[0] = m /\ \A k \in 1..n : M[k] = Learned(M[k - 1], gs[k])
  BY <1>7
<1> DEFINE T == {k \in Nat : k <= n => M[k] \in S}
<1>9. 0 \in T
  BY <1>8
<1>10. ASSUME NEW k \in Nat, k \in T PROVE k + 1 \in T
  <2> SUFFICES ASSUME k + 1 <= n PROVE M[k + 1] \in S
    OBVIOUS
  <2>1. k + 1 \in 1..n /\ (k + 1) - 1 = k /\ M[k] \in S
    BY <1>10
  <2>2. M[k + 1] = Learned(M[k], gs[k + 1])
    BY <1>8, <2>1
  <2>3. gs[k + 1] \in Goals
    BY <2>1, ElementOfSeq
  <2> QED BY <2>1, <2>2, <2>3, LearnedType
<1>11. \A k \in Nat : k \in T
  <2> HIDE DEF T
  <2> QED BY <1>9, <1>10, Induction
<1>12. \A k \in 0..n : M[k] \in S
  BY <1>11
<1>13. M \in [0..n -> S]
  BY <1>6, <1>12
<1> QED BY <1>8, <1>13 DEF Replays

\* One goal more changes nothing of what came before it.
LEMMA PlayedOn ==
  ASSUME NEW m \in Seq(Variable), NEW gs \in Seq(Goals), NEW g \in Goals,
         NEW n \in Nat, n = Len(gs),
         NEW M, M = Played(m, gs), NEW N, N = Played(m, Append(gs, g))
  PROVE  (\A k \in 0..n : N[k] = M[k]) /\ N[n + 1] = Learned(M[n], g)
<1>1. PICK hs : hs = Append(gs, g)
  OBVIOUS
<1>2. hs \in Seq(Goals) /\ Len(hs) = n + 1 /\ hs[n + 1] = g /\ \A i \in 1..n : hs[i] = gs[i]
  BY <1>1, AppendProperties
<1>3. M[0] = m /\ \A k \in 1..n : M[k] = Learned(M[k - 1], gs[k])
  <2>1. Replays(M, n, m, gs)
    BY PlayedUnfolds
  <2> QED BY <2>1 DEF Replays
<1>4. N[0] = m /\ \A k \in 1..(n + 1) : N[k] = Learned(N[k - 1], hs[k])
  <2>1. PICK o \in Nat : o = n + 1 /\ o = Len(hs)
    BY <1>2
  <2>2. N = Played(m, hs)
    BY <1>1
  <2>3. Replays(N, o, m, hs)
    BY <1>2, <2>1, <2>2, PlayedUnfolds
  <2> QED BY <2>1, <2>3 DEF Replays
<1> DEFINE T == {k \in Nat : k <= n => N[k] = M[k]}
<1>5. 0 \in T
  BY <1>3, <1>4
<1>6. ASSUME NEW k \in Nat, k \in T PROVE k + 1 \in T
  <2> SUFFICES ASSUME k + 1 <= n PROVE N[k + 1] = M[k + 1]
    OBVIOUS
  <2>1. k + 1 \in 1..n /\ k + 1 \in 1..(n + 1) /\ (k + 1) - 1 = k /\ N[k] = M[k]
    BY <1>6
  <2>2. M[k + 1] = Learned(M[k], gs[k + 1]) /\ N[k + 1] = Learned(N[k], hs[k + 1])
    BY <1>3, <1>4, <2>1
  <2> QED BY <1>2, <2>1, <2>2
<1>7. \A k \in Nat : k \in T
  <2> HIDE DEF T
  <2> QED BY <1>5, <1>6, Induction
<1>8. \A k \in 0..n : N[k] = M[k]
  BY <1>7
<1>9. n + 1 \in 1..(n + 1) /\ (n + 1) - 1 = n /\ n \in 0..n
  OBVIOUS
<1>10. N[n + 1] = Learned(N[n], hs[n + 1])
  BY <1>4, <1>9
<1> QED BY <1>2, <1>8, <1>9, <1>10

-----------------------------------------------------------------------------
(* Ordered bodies *)

\* The goals u are those of v at places that go up.
Picked(f, u, v) ==
  /\ f \in [1..Len(u) -> 1..Len(v)]
  /\ \A i, j \in 1..Len(u) : i < j => f[i] < f[j]
  /\ \A i \in 1..Len(u) : u[i] = v[f[i]]

Chosen == ~(Fixed \/ AllInstantiated)
Balanced == \A g \in Goals : Count(body, g) = Count(ordered, g) + Count(rest, g)
\* Goals that are left keep the order they were written in, and the mock scope
\* is that of the goals taken.
StillWritten ==
  /\ Chosen => mock = Replayed[Len(ordered)] /\ \E f : Picked(f, rest, body)
  /\ ~Chosen => rest = <<>>
OrderInv == OrderTypeOK /\ Balanced /\ StillWritten /\ OvertakesKnown

\* What is left without one goal keeps its order too.
LEMMA PickedUnlinked ==
  ASSUME NEW u \in Seq(Goals), NEW v \in Seq(Goals), NEW b \in 1..Len(u),
         NEW f, Picked(f, u, v)
  PROVE  \E h : Picked(h, Unlinked(u, b), v)
<1>1. PICK n \in Nat, o \in Nat : n = Len(u) /\ o = Len(v) /\ b \in 1..n
  OBVIOUS
<1>2. /\ f \in [1..n -> 1..o] /\ (\A i, j \in 1..n : i < j => f[i] < f[j])
      /\ \A i \in 1..n : u[i] = v[f[i]]
  BY <1>1 DEF Picked
<1>3. PICK w : w = Unlinked(u, b)
  OBVIOUS
<1>4. /\ Len(w) = n - 1 /\ (\A i \in 1..(b - 1) : w[i] = u[i])
      /\ \A i \in b..(n - 1) : w[i] = u[i + 1]
  BY <1>1, <1>3, UnlinkedIs
<1>5. \A i \in 1..(n - 1) : /\ i \in 1..n /\ i + 1 \in 1..n
                            /\ i < b => i \in 1..(b - 1)
                            /\ ~(i < b) => i \in b..(n - 1)
  BY <1>1
<1> DEFINE h == [i \in 1..(n - 1) |-> IF i < b THEN f[i] ELSE f[i + 1]]
<1>6. h \in [1..(n - 1) -> 1..o]
  BY <1>2, <1>5
<1>7. ASSUME NEW i \in 1..(n - 1), NEW j \in 1..(n - 1), i < j PROVE h[i] < h[j]
  <2>1. CASE i < b
    <3>1. i < j + 1
      BY <1>7
    <3> QED BY <1>2, <1>5, <1>7, <2>1, <3>1
  <2>2. CASE ~(i < b)
    <3>1. ~(j < b) /\ i + 1 < j + 1
      BY <1>1, <1>7, <2>2
    <3> QED BY <1>2, <1>5, <2>2, <3>1
  <2> QED BY <2>1, <2>2
<1>8. ASSUME NEW i \in 1..(n - 1) PROVE w[i] = v[h[i]]
  <2>1. CASE i < b
    <3>1. w[i] = u[i] /\ h[i] = f[i] /\ u[i] = v[f[i]]
      BY <1>2, <1>4, <1>5, <2>1
    <3> QED BY <3>1
  <2>2. CASE ~(i < b)
    <3>1. w[i] = u[i + 1] /\ h[i] = f[i + 1] /\ u[i + 1] = v[f[i + 1]]
      BY <1>2, <1>4, <1>5, <2>2
    <3> QED BY <3>1
  <2> QED BY <2>1, <2>2
<1> HIDE DEF h
<1>9. Picked(h, w, v)
  BY <1>1, <1>4, <1>6, <1>7, <1>8 DEF Picked
<1> QED BY <1>3, <1>9

LEMMA OrderBegins ==
  ASSUME OrderInit
  PROVE  OrderInv
<1>1. body \in Seq(Goals) /\ resp \in BOOLEAN
  BY OrderingAssumption DEF OrderInit
<1>2. PICK n \in Nat : n = Len(body)
  BY <1>1
<1>3. mock \in Seq(Variable)
  BY <1>1, MockType DEF OrderInit
<1>4. \A g : Count(<<>>, g) = 0
  <2> TAKE g
  <2>1. {i \in 1..Len(<<>>) : <<>>[i] = g} = {}
    OBVIOUS
  <2> QED BY <2>1, FS_EmptySet DEF Count
<1>5. \A g : Count(body, g) \in Nat
  <2> TAKE g
  <2>1. {i \in 1..n : body[i] = g} \in SUBSET (1..n)
    OBVIOUS
  <2> QED BY <1>2, <2>1, PlacesFinite DEF Count
<1>6. CASE ~Chosen
  <2>1. ordered = body /\ rest = <<>>
    BY <1>6 DEF OrderInit, Chosen
  <2>2. OrderTypeOK
    BY <1>1, <1>3, <2>1 DEF OrderInit, OrderTypeOK
  <2>3. Balanced
    BY <1>4, <1>5, <2>1 DEF Balanced
  <2> QED BY <1>6, <2>1, <2>2, <2>3 DEF OrderInv, StillWritten, OvertakesKnown, Chosen
<1>7. CASE Chosen
  <2>1. ordered = <<>> /\ rest = body
    BY <1>7 DEF OrderInit, Chosen
  <2>2. OrderTypeOK
    BY <1>1, <1>3, <2>1 DEF OrderInit, OrderTypeOK
  <2>3. Balanced
    BY <1>4, <1>5, <2>1 DEF Balanced
  <2>4. mock = Replayed[Len(ordered)]
    <3>1. PICK m, gs : m = MockOf(mask, resp) /\ gs = ordered
      OBVIOUS
    <3>2. PICK z \in Nat : z = 0
      OBVIOUS
    <3>3. m = mock /\ gs = <<>> /\ gs \in Seq(Goals) /\ z = Len(gs)
      BY <2>1, <3>1, <3>2 DEF OrderInit
    <3>4. PICK M : M = Played(m, gs)
      OBVIOUS
    <3>5. Replays(M, z, m, gs)
      BY <1>3, <3>3, <3>4, PlayedUnfolds
    <3>6. M[z] = m
      BY <3>2, <3>5 DEF Replays
    <3> QED BY <3>1, <3>3, <3>4, <3>6 DEF Replayed
  <2>5. \E f : Picked(f, rest, body)
    <3> DEFINE f == [i \in 1..n |-> i]
    <3>1. f \in [1..n -> 1..n] /\ (\A i, j \in 1..n : i < j => f[i] < f[j])
          /\ \A i \in 1..n : f[i] = i
      OBVIOUS
    <3> HIDE DEF f
    <3>2. Picked(f, rest, body)
      BY <1>2, <2>1, <3>1 DEF Picked
    <3> QED BY <3>2
  <2>6. OvertakesKnown
    <3>1. 1..Len(ordered) = {}
      BY <2>1
    <3> QED BY <3>1 DEF OvertakesKnown
  <2> QED BY <1>7, <2>2, <2>3, <2>4, <2>5, <2>6 DEF OrderInv, StillWritten
<1> QED BY <1>6, <1>7

\* Goals that are taken while h is left, and what the mock scopes M say of them.
Overtakes(M, g, h, k) ==
  \/ NaN(Initialization(M[k], h))
  \/ Above(Initialization(M[k], g), Initialization(M[k], h))
Once(h) == Count(body, h) = 1
Left(gs, h) == \E j \in 1..Len(gs) : gs[j] = h
Known(M, gs, u) ==
  \A k \in 1..Len(gs) : \A i \in 1..Len(body) :
    (Once(body[i]) /\ Once(gs[k]) /\ Left(u, body[i]) /\ i < Position(body, gs[k]))
      => Overtakes(M, gs[k], body[i], k - 1)

LEMMA KnownIs == OvertakesKnown <=> (Chosen => Known(Replayed, ordered, rest))
BY DEF OvertakesKnown, Chosen, Known, Once, Left, Overtakes

\* A goal that is taken may overtake what it is written after.
LEMMA TakenMay ==
  ASSUME NEW u \in Seq(Goals), body \in Seq(Goals), NEW m, u # <<>>,
         NEW b, b = get_most_initted(m, u), NEW f, Picked(f, u, body),
         NEW i \in 1..Len(body), Once(body[i]), Once(u[b]),
         Left(Unlinked(u, b), body[i]), i < Position(body, u[b])
  PROVE  \/ NaN(Initialization(m, body[i]))
         \/ Above(Initialization(m, u[b]), Initialization(m, body[i]))
<1>1. PICK n \in Nat, o \in Nat : n = Len(u) /\ o = Len(body)
  OBVIOUS
<1>2. /\ f \in [1..n -> 1..o] /\ (\A x, y \in 1..n : x < y => f[x] < f[y])
      /\ \A x \in 1..n : u[x] = body[f[x]]
  BY <1>1 DEF Picked
<1>3. b \in 1..n /\ \A j \in 1..(b - 1) : \/ NaN(Initialization(m, u[j]))
                                          \/ Above(Initialization(m, u[b]), Initialization(m, u[j]))
  BY <1>1, TakenIsAbove
<1>4. PICK w : w = Unlinked(u, b)
  OBVIOUS
<1>5. /\ Len(w) = n - 1 /\ (\A j \in 1..(b - 1) : w[j] = u[j])
      /\ \A j \in b..(n - 1) : w[j] = u[j + 1]
  BY <1>1, <1>3, <1>4, UnlinkedIs
<1>6. PICK j \in 1..(n - 1) : w[j] = body[i]
  BY <1>4, <1>5 DEF Left
<1>7. PICK x \in 1..n : x # b /\ u[x] = body[i]
  <2>1. CASE j < b
    <3>1. j \in 1..(b - 1) /\ j \in 1..n /\ j # b
      BY <1>3, <2>1
    <3> QED BY <1>5, <1>6, <3>1
  <2>2. CASE ~(j < b)
    <3>1. j \in b..(n - 1) /\ j + 1 \in 1..n /\ j + 1 # b
      BY <1>3, <2>2
    <3> QED BY <1>5, <1>6, <3>1
  <2> QED BY <2>1, <2>2
<1>8. f[x] = i
  <2>1. f[x] \in 1..Len(body) /\ body[f[x]] = body[i]
    BY <1>1, <1>2, <1>7
  <2> QED BY <2>1, OnePlace DEF Once
<1>9. f[b] = Position(body, u[b])
  <2>1. f[b] \in 1..Len(body) /\ body[f[b]] = u[b]
    BY <1>1, <1>2, <1>3
  <2>2. Position(body, u[b]) \in 1..Len(body) /\ body[Position(body, u[b])] = u[b]
    BY <2>1 DEF Position
  <2> QED BY <2>1, <2>2, OnePlace DEF Once
<1>10. f[x] < f[b]
  BY <1>8, <1>9
<1>11. x < b
  <2>1. CASE b < x
    <3>1. f[b] < f[x] /\ f[b] \in 1..o /\ f[x] \in 1..o
      BY <1>2, <1>3, <2>1
    <3> QED BY <1>10, <3>1
  <2> QED BY <1>3, <1>7, <2>1
<1>12. x \in 1..(b - 1)
  BY <1>3, <1>11
<1> QED BY <1>3, <1>7, <1>12

LEMMA OrderGoesOn ==
  ASSUME OrderInv, Take
  PROVE  OrderInv'
<1>1. /\ body \in Seq(Goals) /\ rest \in Seq(Goals) /\ ordered \in Seq(Goals) /\ rest # <<>>
      /\ mock \in Seq(Variable) /\ resp \in BOOLEAN /\ mask \in [1..Arity -> BOOLEAN]
  BY OrderingAssumption DEF OrderInv, OrderTypeOK, Take
<1>2. PICK b : b = get_most_initted(mock, rest)
  OBVIOUS
<1>3. b \in 1..Len(rest)
  BY <1>1, <1>2, TakenIsAbove
<1>4. PICK g \in Goals : g = rest[b]
  BY <1>1, <1>3, ElementOfSeq
<1>5. /\ ordered' = Append(ordered, g) /\ rest' = Unlinked(rest, b) /\ mock' = Learned(mock, g)
      /\ UNCHANGED <<body, has_resp, mask, resp>>
  BY <1>2, <1>4 DEF Take
<1>6. Chosen /\ Chosen'
  BY <1>1, <1>5 DEF OrderInv, StillWritten, Chosen, Fixed, AllInstantiated
<1>7. PICK f : Picked(f, rest, body)
  BY <1>6 DEF OrderInv, StillWritten
<1>8. PICK n \in Nat, o \in Nat : n = Len(ordered) /\ o = Len(rest) /\ b \in 1..o
  BY <1>1, <1>3
<1>9. /\ ordered' \in Seq(Goals) /\ Len(ordered') = n + 1 /\ ordered'[n + 1] = g
      /\ \A k \in 1..n : ordered'[k] = ordered[k]
  BY <1>1, <1>5, <1>8, AppendProperties
<1>10. /\ rest' \in Seq(Goals) /\ Len(rest') = o - 1
       /\ (\A i \in 1..(b - 1) : rest'[i] = rest[i])
       /\ \A i \in b..(o - 1) : rest'[i] = rest[i + 1]
  BY <1>1, <1>5, <1>8, UnlinkedIs
<1>11. OrderTypeOK'
  <2>1. mock' \in Seq(Variable)
    BY <1>1, <1>5, LearnedType
  <2> QED BY <1>5, <1>9, <1>10, <2>1 DEF OrderInv, OrderTypeOK
<1>12. Balanced'
  <2>1. ASSUME NEW h \in Goals PROVE Count(body, h) = Count(ordered', h) + Count(rest', h)
    <3>1. Count(body, h) = Count(ordered, h) + Count(rest, h)
      BY DEF OrderInv, Balanced
    <3>2. PICK e \in Nat : e = IF g = h THEN 1 ELSE 0
      OBVIOUS
    <3>3. Count(ordered, h) \in Nat /\ Count(ordered', h) = Count(ordered, h) + e
      BY <1>1, <1>5, <3>2, CountAppend
    <3>4. Count(rest, h) = Count(rest', h) + e
      BY <1>1, <1>3, <1>4, <1>5, <3>2, CountUnlinked
    <3>5. Count(rest', h) \in Nat
      BY <1>10, <1>4, CountAppend
    <3>6. PICK x \in Nat, y \in Nat : x = Count(ordered, h) /\ y = Count(rest', h)
      BY <3>3, <3>5
    <3>7. Count(rest, h) = y + e /\ Count(ordered', h) = x + e
      BY <3>3, <3>4, <3>6
    <3> QED BY <3>1, <3>6, <3>7
  <2>2. body' = body
    BY <1>5
  <2> QED BY <2>1, <2>2 DEF Balanced
<1>13. PICK M, N : M = Replayed /\ N = Replayed'
  OBVIOUS
<1>14. (\A k \in 0..n : N[k] = M[k]) /\ N[n + 1] = Learned(M[n], g) /\ M[n] = mock
  <2>1. PICK m : m = MockOf(mask, resp)
    OBVIOUS
  <2>2. m \in Seq(Variable)
    BY <1>1, <2>1, MockType
  <2>3. M = Played(m, ordered) /\ N = Played(m, Append(ordered, g))
    BY <1>5, <1>13, <2>1 DEF Replayed
  <2>4. M[n] = mock
    BY <1>6, <1>8, <1>13 DEF OrderInv, StillWritten
  <2> QED BY <1>1, <1>8, <2>2, <2>3, <2>4, PlayedOn
<1>15. StillWritten'
  <2>1. mock' = N[n + 1]
    BY <1>5, <1>14
  <2>2. \E h : Picked(h, rest', body)
    BY <1>1, <1>3, <1>5, <1>7, PickedUnlinked
  <2>3. body' = body
    BY <1>5
  <2> QED BY <1>6, <1>9, <1>13, <2>1, <2>2, <2>3 DEF StillWritten
<1>16. Known(N, ordered', rest')
  <2> SUFFICES ASSUME NEW k \in 1..(n + 1), NEW i \in 1..Len(body),
                      Once(body[i]), Once(ordered'[k]), Left(rest', body[i]),
                      i < Position(body, ordered'[k])
               PROVE  Overtakes(N, ordered'[k], body[i], k - 1)
    BY <1>9 DEF Known
  <2>1. CASE k = n + 1
    <3>1. ordered'[k] = rest[b] /\ k - 1 = n /\ N[k - 1] = mock
      BY <1>4, <1>9, <1>14, <2>1
    <3>2. \/ NaN(Initialization(mock, body[i]))
          \/ Above(Initialization(mock, rest[b]), Initialization(mock, body[i]))
      BY <1>1, <1>2, <1>5, <1>7, <3>1, TakenMay
    <3> QED BY <3>1, <3>2 DEF Overtakes
  <2>2. CASE k # n + 1
    <3>1. k \in 1..n /\ k - 1 \in 0..n
      BY <2>2
    <3>2. ordered'[k] = ordered[k] /\ N[k - 1] = M[k - 1]
      BY <1>9, <1>14, <3>1
    <3>3. Left(rest, body[i])
      <4>1. PICK j \in 1..(o - 1) : rest'[j] = body[i]
        BY <1>10 DEF Left
      <4>2. CASE j < b
        <5>1. j \in 1..(b - 1) /\ j \in 1..o
          BY <1>8, <4>2
        <5> QED BY <1>8, <1>10, <4>1, <5>1 DEF Left
      <4>3. CASE ~(j < b)
        <5>1. j \in b..(o - 1) /\ j + 1 \in 1..o
          BY <1>8, <4>3
        <5> QED BY <1>8, <1>10, <4>1, <5>1 DEF Left
      <4> QED BY <4>2, <4>3
    <3>4. Known(M, ordered, rest)
      BY <1>6, <1>13, KnownIs DEF OrderInv
    <3>5. Overtakes(M, ordered[k], body[i], k - 1)
      BY <1>8, <3>1, <3>2, <3>3, <3>4 DEF Known
    <3> QED BY <3>2, <3>5 DEF Overtakes
  <2> QED BY <2>1, <2>2
<1>17. OvertakesKnown'
  <2>1. Known(Replayed, ordered, rest)'
    BY <1>5, <1>13, <1>16 DEF Known, Once
  <2> QED BY <2>1 DEF OvertakesKnown, Known, Once, Left, Overtakes
<1> QED BY <1>11, <1>12, <1>15, <1>17 DEF OrderInv

\* However many arguments a predicate has, and whichever of them and of its
\* response have a value, its ordered body has each goal of its body as often
\* as that, and a goal that runs before one that is written ahead of it had the
\* greater share of known arguments when it was taken.
THEOREM OrderingIsRight == OrderSpec => []OrderIsKept
<1>1. OrderInit => OrderInv
  BY OrderBegins
<1>2. OrderInv /\ [Take]_order => OrderInv'
  <2>1. CASE Take
    BY <2>1, OrderGoesOn
  <2>2. CASE UNCHANGED order
    BY <2>2 DEF order, OrderInv, OrderTypeOK, Balanced, StillWritten, Chosen, Fixed,
                AllInstantiated, Replayed, OvertakesKnown
  <2> QED BY <2>1, <2>2
<1>3. OrderInv => OrderIsKept
  <2> SUFFICES ASSUME OrderInv PROVE SameGoals
    BY DEF OrderInv, OrderIsKept
  <2>1. body \in Seq(Goals) /\ ordered \in Seq(Goals)
    BY OrderingAssumption DEF OrderInv, OrderTypeOK
  <2>2. {body[i] : i \in 1..Len(body)} \cup {ordered[i] : i \in 1..Len(ordered)} \subseteq Goals
    BY <2>1, ElementOfSeq
  <2> QED BY <2>2 DEF OrderInv, Balanced, SameGoals
<1> QED BY <1>1, <1>2, <1>3, PTL DEF OrderSpec

-----------------------------------------------------------------------------
(* Lines *)

LEMMA LineIs ==
  ASSUME NEW x \in Line
  PROVE  IsBlank(x) \/ (x.indented \in BOOLEAN /\ x.start \in LineStarts /\ x.end \in LineEnds)
<1>1. CASE x \in {[blank |-> TRUE]}
  BY <1>1 DEF IsBlank
<1>2. CASE x \in [indented : BOOLEAN, start : LineStarts, end : LineEnds]
  BY <1>2
<1> QED BY <1>1, <1>2 DEF Line

LEMMA FileIs ==
  ASSUME LinesTypeOK
  PROVE  /\ file \in Seq(Line) /\ Len(file) \in Nat /\ Len(file) <= MaxLines
         /\ \A i \in 1..Len(file) : file[i] \in Line
BY ElementOfSeq DEF LinesTypeOK

\* Whether a line ends in a block, the text up to it and the documentation.
BlockOf(B, n) ==
  /\ B \in [0..n -> BOOLEAN] /\ B[0] = FALSE
  /\ \A k \in 1..n : B[k] = Blocks(B[k - 1], file[k])
TextOf(T, n) ==
  /\ T \in [0..n -> Seq(Nat)] /\ T[0] = <<>>
  /\ \A k \in 1..n : T[k] = WithText(T[k - 1], k)
DocsOf(T, n) ==
  /\ T \in [0..n -> Seq(Nat)] /\ T[0] = <<>>
  /\ \A k \in 1..n : T[k] = WithDoc(T[k - 1], k)

LEMMA InBlockUnfolds ==
  ASSUME LinesTypeOK, NEW n \in Nat, n = Len(file)
  PROVE  BlockOf(InBlock, n)
<1> DEFINE S == BOOLEAN
           next == [p \in (1..n) \X S |-> Blocks(p[2], file[p[1]])]
<1>1. next \in [(1..n) \X S -> S]
  BY DEF Blocks
<1>2. PICK f \in [0..n -> S] : Follows(n, f, FALSE, next)
  <2> HIDE DEF next, S
  <2>1. FALSE \in S
    BY DEF S
  <2> QED BY <1>1, <2>1, UpwardExists
<1>3. f[0] = FALSE
  BY <1>2 DEF Follows
<1>4. ASSUME NEW k \in 1..n PROVE f[k] = Blocks(f[k - 1], file[k])
  <2>1. k - 1 \in 0..n
    OBVIOUS
  <2>2. f[k - 1] \in S
    BY <1>2, <2>1
  <2>3. <<k, f[k - 1]>> \in (1..n) \X S
    BY <2>2
  <2>4. f[k] = next[<<k, f[k - 1]>>]
    BY <1>2 DEF Follows
  <2> QED BY <2>3, <2>4
<1>5. f = [i \in 0..n |-> IF i = 0 THEN FALSE ELSE Blocks(f[i - 1], file[i])]
  <2>1. f = [i \in 0..n |-> f[i]]
    OBVIOUS
  <2> HIDE DEF next, S
  <2>2. ASSUME NEW i \in 0..n
        PROVE  f[i] = IF i = 0 THEN FALSE ELSE Blocks(f[i - 1], file[i])
    <3>1. CASE i = 0
      BY <1>3, <3>1, Zenon
    <3>2. CASE i # 0
      <4>1. i \in 1..n
        BY <3>2
      <4>2. f[i] = Blocks(f[i - 1], file[i])
        BY <1>4, <4>1
      <4> QED BY <3>2, <4>2, Zenon
    <3> QED BY <3>1, <3>2
  <2> QED BY <2>1, <2>2, Zenon
<1>6. InBlock = [i \in 0..n |-> IF i = 0 THEN FALSE ELSE Blocks(InBlock[i - 1], file[i])]
  <2> HIDE DEF S, next
  <2> QED BY <1>5, Zenon DEF InBlock
<1>7. \A i \in 0..n : InBlock[i] = IF i = 0 THEN FALSE ELSE Blocks(InBlock[i - 1], file[i])
  <2> HIDE DEF S, next
  <2> QED BY <1>6, Zenon
<1>8. InBlock[0] = FALSE /\ \A k \in 1..n : InBlock[k] = Blocks(InBlock[k - 1], file[k])
  BY <1>7
<1> DEFINE T == {k \in Nat : k <= n => InBlock[k] \in S}
<1>9. 0 \in T
  BY <1>8
<1>10. ASSUME NEW k \in Nat, k \in T PROVE k + 1 \in T
  <2> SUFFICES ASSUME k + 1 <= n PROVE InBlock[k + 1] \in S
    OBVIOUS
  <2>1. k + 1 \in 1..n /\ (k + 1) - 1 = k /\ InBlock[k] \in S
    BY <1>10
  <2>2. InBlock[k + 1] = Blocks(InBlock[k], file[k + 1])
    BY <1>8, <2>1
  <2> QED BY <2>1, <2>2 DEF Blocks
<1>11. \A k \in Nat : k \in T
  <2> HIDE DEF T
  <2> QED BY <1>9, <1>10, Induction
<1>12. \A k \in 0..n : InBlock[k] \in S
  BY <1>11
<1>13. InBlock \in [0..n -> S]
  BY <1>6, <1>12
<1> QED BY <1>8, <1>13 DEF BlockOf

LEMMA TextToUnfolds ==
  ASSUME LinesTypeOK, NEW n \in Nat, n = Len(file)
  PROVE  TextOf(TextTo, n)
<1> DEFINE S == Seq(Nat)
           next == [p \in (1..n) \X S |-> WithText(p[2], p[1])]
<1>1. next \in [(1..n) \X S -> S]
  BY DEF WithText
<1>2. PICK f \in [0..n -> S] : Follows(n, f, <<>>, next)
  <2> HIDE DEF next, S
  <2>1. <<>> \in S
    BY DEF S
  <2> QED BY <1>1, <2>1, UpwardExists
<1>3. f[0] = <<>>
  BY <1>2 DEF Follows
<1>4. ASSUME NEW k \in 1..n PROVE f[k] = WithText(f[k - 1], k)
  <2>1. k - 1 \in 0..n
    OBVIOUS
  <2>2. f[k - 1] \in S
    BY <1>2, <2>1
  <2>3. <<k, f[k - 1]>> \in (1..n) \X S
    BY <2>2
  <2>4. f[k] = next[<<k, f[k - 1]>>]
    BY <1>2 DEF Follows
  <2> QED BY <2>3, <2>4
<1>5. f = [i \in 0..n |-> IF i = 0 THEN <<>> ELSE WithText(f[i - 1], i)]
  <2>1. f = [i \in 0..n |-> f[i]]
    OBVIOUS
  <2> HIDE DEF next, S
  <2>2. ASSUME NEW i \in 0..n
        PROVE  f[i] = IF i = 0 THEN <<>> ELSE WithText(f[i - 1], i)
    <3>1. CASE i = 0
      BY <1>3, <3>1, Zenon
    <3>2. CASE i # 0
      <4>1. i \in 1..n
        BY <3>2
      <4>2. f[i] = WithText(f[i - 1], i)
        BY <1>4, <4>1
      <4> QED BY <3>2, <4>2, Zenon
    <3> QED BY <3>1, <3>2
  <2> QED BY <2>1, <2>2, Zenon
<1>6. TextTo = [i \in 0..n |-> IF i = 0 THEN <<>> ELSE WithText(TextTo[i - 1], i)]
  <2> HIDE DEF S, next
  <2> QED BY <1>5, Zenon DEF TextTo
<1>7. \A i \in 0..n : TextTo[i] = IF i = 0 THEN <<>> ELSE WithText(TextTo[i - 1], i)
  <2> HIDE DEF S, next
  <2> QED BY <1>6, Zenon
<1>8. TextTo[0] = <<>> /\ \A k \in 1..n : TextTo[k] = WithText(TextTo[k - 1], k)
  <2> HIDE DEF S, next
  <2>1. 0 \in 0..n /\ \A k \in 1..n : k \in 0..n /\ k # 0
    OBVIOUS
  <2> QED BY <1>7, <2>1, Zenon
<1> DEFINE T == {k \in Nat : k <= n => TextTo[k] \in S}
<1>9. 0 \in T
  <2>1. <<>> \in S
    OBVIOUS
  <2> HIDE DEF S
  <2> QED BY <1>8, <2>1
<1>10. ASSUME NEW k \in Nat, k \in T PROVE k + 1 \in T
  <2> SUFFICES ASSUME k + 1 <= n PROVE TextTo[k + 1] \in S
    OBVIOUS
  <2>1. k + 1 \in 1..n /\ (k + 1) - 1 = k /\ TextTo[k] \in S
    BY <1>10
  <2>2. TextTo[k + 1] = WithText(TextTo[k], k + 1)
    BY <1>8, <2>1
  <2> QED BY <2>1, <2>2 DEF WithText
<1>11. \A k \in Nat : k \in T
  <2> HIDE DEF T
  <2> QED BY <1>9, <1>10, Induction
<1>12. \A k \in 0..n : TextTo[k] \in S
  BY <1>11
<1>13. TextTo \in [0..n -> S]
  BY <1>6, <1>12
<1> QED BY <1>8, <1>13 DEF TextOf

LEMMA DocsToUnfolds ==
  ASSUME LinesTypeOK, NEW n \in Nat, n = Len(file)
  PROVE  DocsOf(DocsTo, n)
<1> DEFINE S == Seq(Nat)
           next == [p \in (1..n) \X S |-> WithDoc(p[2], p[1])]
<1>1. next \in [(1..n) \X S -> S]
  BY DEF WithDoc
<1>2. PICK f \in [0..n -> S] : Follows(n, f, <<>>, next)
  <2> HIDE DEF next, S
  <2>1. <<>> \in S
    BY DEF S
  <2> QED BY <1>1, <2>1, UpwardExists
<1>3. f[0] = <<>>
  BY <1>2 DEF Follows
<1>4. ASSUME NEW k \in 1..n PROVE f[k] = WithDoc(f[k - 1], k)
  <2>1. k - 1 \in 0..n
    OBVIOUS
  <2>2. f[k - 1] \in S
    BY <1>2, <2>1
  <2>3. <<k, f[k - 1]>> \in (1..n) \X S
    BY <2>2
  <2>4. f[k] = next[<<k, f[k - 1]>>]
    BY <1>2 DEF Follows
  <2> QED BY <2>3, <2>4
<1>5. f = [i \in 0..n |-> IF i = 0 THEN <<>> ELSE WithDoc(f[i - 1], i)]
  <2>1. f = [i \in 0..n |-> f[i]]
    OBVIOUS
  <2> HIDE DEF next, S
  <2>2. ASSUME NEW i \in 0..n
        PROVE  f[i] = IF i = 0 THEN <<>> ELSE WithDoc(f[i - 1], i)
    <3>1. CASE i = 0
      BY <1>3, <3>1, Zenon
    <3>2. CASE i # 0
      <4>1. i \in 1..n
        BY <3>2
      <4>2. f[i] = WithDoc(f[i - 1], i)
        BY <1>4, <4>1
      <4> QED BY <3>2, <4>2, Zenon
    <3> QED BY <3>1, <3>2
  <2> QED BY <2>1, <2>2, Zenon
<1>6. DocsTo = [i \in 0..n |-> IF i = 0 THEN <<>> ELSE WithDoc(DocsTo[i - 1], i)]
  <2> HIDE DEF S, next
  <2> QED BY <1>5, Zenon DEF DocsTo
<1>7. \A i \in 0..n : DocsTo[i] = IF i = 0 THEN <<>> ELSE WithDoc(DocsTo[i - 1], i)
  <2> HIDE DEF S, next
  <2> QED BY <1>6, Zenon
<1>8. DocsTo[0] = <<>> /\ \A k \in 1..n : DocsTo[k] = WithDoc(DocsTo[k - 1], k)
  <2> HIDE DEF S, next
  <2>1. 0 \in 0..n /\ \A k \in 1..n : k \in 0..n /\ k # 0
    OBVIOUS
  <2> QED BY <1>7, <2>1, Zenon
<1> DEFINE T == {k \in Nat : k <= n => DocsTo[k] \in S}
<1>9. 0 \in T
  <2>1. <<>> \in S
    OBVIOUS
  <2> HIDE DEF S
  <2> QED BY <1>8, <2>1
<1>10. ASSUME NEW k \in Nat, k \in T PROVE k + 1 \in T
  <2> SUFFICES ASSUME k + 1 <= n PROVE DocsTo[k + 1] \in S
    OBVIOUS
  <2>1. k + 1 \in 1..n /\ (k + 1) - 1 = k /\ DocsTo[k] \in S
    BY <1>10
  <2>2. DocsTo[k + 1] = WithDoc(DocsTo[k], k + 1)
    BY <1>8, <2>1
  <2> QED BY <2>1, <2>2 DEF WithDoc
<1>11. \A k \in Nat : k \in T
  <2> HIDE DEF T
  <2> QED BY <1>9, <1>10, Induction
<1>12. \A k \in 0..n : DocsTo[k] \in S
  BY <1>11
<1>13. DocsTo \in [0..n -> S]
  BY <1>6, <1>12
<1> QED BY <1>8, <1>13 DEF DocsOf

\* The lines of the first statements.
Turns(M, n, gs) ==
  /\ M \in [0..n -> Seq(Nat)] /\ M[0] = <<>>
  /\ \A k \in 1..n : M[k] = M[k - 1] \o gs[k]

LEMMA InTurnUnfolds ==
  ASSUME NEW gs \in Seq(Seq(Nat)), NEW n \in Nat, n = Len(gs),
         NEW M, M = InTurn(gs)
  PROVE  Turns(M, n, gs)
<1> DEFINE S == Seq(Nat)
           next == [p \in (1..n) \X S |-> p[2] \o gs[p[1]]]
<1>1. next \in [(1..n) \X S -> S]
  <2>1. ASSUME NEW p \in (1..n) \X S PROVE p[2] \o gs[p[1]] \in S
    <3>1. p[1] \in 1..n /\ p[2] \in S
      OBVIOUS
    <3>2. gs[p[1]] \in Seq(Nat)
      BY <3>1, ElementOfSeq
    <3> QED BY <3>1, <3>2
  <2> QED BY <2>1
<1>2. PICK f \in [0..n -> S] : Follows(n, f, <<>>, next)
  <2> HIDE DEF next, S
  <2>1. <<>> \in S
    BY DEF S
  <2> QED BY <1>1, <2>1, UpwardExists
<1>3. f[0] = <<>>
  BY <1>2 DEF Follows
<1>4. ASSUME NEW k \in 1..n PROVE f[k] = f[k - 1] \o gs[k]
  <2>1. k - 1 \in 0..n
    OBVIOUS
  <2>2. f[k - 1] \in S
    BY <1>2, <2>1
  <2>3. <<k, f[k - 1]>> \in (1..n) \X S
    BY <2>2
  <2>4. f[k] = next[<<k, f[k - 1]>>]
    BY <1>2 DEF Follows
  <2> QED BY <2>3, <2>4
<1>5. f = [k \in 0..n |-> IF k = 0 THEN <<>> ELSE f[k - 1] \o gs[k]]
  <2>1. f = [k \in 0..n |-> f[k]]
    OBVIOUS
  <2> HIDE DEF next, S
  <2>2. ASSUME NEW k \in 0..n
        PROVE  f[k] = IF k = 0 THEN <<>> ELSE f[k - 1] \o gs[k]
    <3>1. CASE k = 0
      BY <1>3, <3>1, Zenon
    <3>2. CASE k # 0
      <4>1. k \in 1..n
        BY <3>2
      <4>2. f[k] = f[k - 1] \o gs[k]
        BY <1>4, <4>1
      <4> QED BY <3>2, <4>2, Zenon
    <3> QED BY <3>1, <3>2
  <2> QED BY <2>1, <2>2, Zenon
<1>6. M = [k \in 0..n |-> IF k = 0 THEN <<>> ELSE M[k - 1] \o gs[k]]
  <2> HIDE DEF S, next
  <2> QED BY <1>5, Zenon DEF InTurn
<1>7. \A k \in 0..n : M[k] = IF k = 0 THEN <<>> ELSE M[k - 1] \o gs[k]
  BY <1>6
<1>8. M[0] = <<>> /\ \A k \in 1..n : M[k] = M[k - 1] \o gs[k]
  <2> HIDE DEF S, next
  <2>1. 0 \in 0..n /\ \A k \in 1..n : k \in 0..n /\ k # 0
    OBVIOUS
  <2> QED BY <1>7, <2>1, Zenon
<1> DEFINE T == {k \in Nat : k <= n => M[k] \in S}
<1>9. 0 \in T
  <2>1. <<>> \in S
    OBVIOUS
  <2> HIDE DEF S
  <2> QED BY <1>8, <2>1
<1>10. ASSUME NEW k \in Nat, k \in T PROVE k + 1 \in T
  <2> SUFFICES ASSUME k + 1 <= n PROVE M[k + 1] \in S
    OBVIOUS
  <2>1. k + 1 \in 1..n /\ (k + 1) - 1 = k /\ M[k] \in S
    BY <1>10
  <2>2. M[k + 1] = M[k] \o gs[k + 1]
    BY <1>8, <2>1
  <2>3. gs[k + 1] \in Seq(Nat)
    BY <2>1, ElementOfSeq
  <2> QED BY <2>1, <2>2, <2>3
<1>11. \A k \in Nat : k \in T
  <2> HIDE DEF T
  <2> QED BY <1>9, <1>10, Induction
<1>12. \A k \in 0..n : M[k] \in S
  BY <1>11
<1>13. M \in [0..n -> S]
  BY <1>6, <1>12
<1> QED BY <1>8, <1>13 DEF Turns

\* N goes on after the n values of M with g.
GoesOn(N, M, n, g) == (\A k \in 0..n : N[k] = M[k]) /\ N[n + 1] = M[n] \o g

\* One goal more changes nothing of what came before it.
LEMMA InTurnOn ==
  ASSUME NEW gs \in Seq(Seq(Nat)), NEW g \in Seq(Nat),
         NEW n \in Nat, n = Len(gs),
         NEW M, M = InTurn(gs), NEW N, N = InTurn(Append(gs, g))
  PROVE  GoesOn(N, M, n, g)
<1>1. PICK hs : hs = Append(gs, g)
  OBVIOUS
<1>2. hs \in Seq(Seq(Nat)) /\ Len(hs) = n + 1 /\ hs[n + 1] = g /\ \A i \in 1..n : hs[i] = gs[i]
  BY <1>1, AppendProperties
<1>3. M[0] = <<>> /\ \A k \in 1..n : M[k] = M[k - 1] \o gs[k]
  <2>1. Turns(M, n, gs)
    BY InTurnUnfolds
  <2> QED BY <2>1 DEF Turns
<1>4. N[0] = <<>> /\ \A k \in 1..(n + 1) : N[k] = N[k - 1] \o hs[k]
  <2>1. PICK o \in Nat : o = n + 1 /\ o = Len(hs)
    BY <1>2
  <2>2. N = InTurn(hs)
    BY <1>1
  <2>3. Turns(N, o, hs)
    BY <1>2, <2>1, <2>2, InTurnUnfolds
  <2> QED BY <2>1, <2>3 DEF Turns
<1> DEFINE T == {k \in Nat : k <= n => N[k] = M[k]}
<1>5. 0 \in T
  BY <1>3, <1>4
<1>6. ASSUME NEW k \in Nat, k \in T PROVE k + 1 \in T
  <2> SUFFICES ASSUME k + 1 <= n PROVE N[k + 1] = M[k + 1]
    OBVIOUS
  <2>1. k + 1 \in 1..n /\ k + 1 \in 1..(n + 1) /\ (k + 1) - 1 = k /\ N[k] = M[k]
    BY <1>6
  <2>2. M[k + 1] = M[k] \o gs[k + 1] /\ N[k + 1] = N[k] \o hs[k + 1]
    BY <1>3, <1>4, <2>1
  <2> QED BY <1>2, <2>1, <2>2
<1>7. \A k \in Nat : k \in T
  <2> HIDE DEF T
  <2> QED BY <1>5, <1>6, Induction
<1>8. \A k \in 0..n : N[k] = M[k]
  BY <1>7
<1>9. n + 1 \in 1..(n + 1) /\ (n + 1) - 1 = n /\ n \in 0..n
  OBVIOUS
<1>10. N[n + 1] = N[n] \o hs[n + 1]
  BY <1>4, <1>9
<1> QED BY <1>2, <1>8, <1>9, <1>10 DEF GoesOn

\* A statement has begun before the line after line i.
LEMMA WithinNext ==
  ASSUME NEW i \in Nat, i >= 1
  PROVE  Within(i + 1) <=> IF IsText(i) THEN file[i].end # "stop" ELSE Within(i)
<1>1. (i + 1) - 1 = i /\ i \in 1..i
  OBVIOUS
<1>2. CASE IsText(i)
  <2>1. ASSUME Within(i + 1) PROVE file[i].end # "stop"
    <3>1. PICK j \in 1..i : \A k \in j..i : IsText(k) => file[k].end # "stop"
      BY <1>1, <2>1 DEF Within
    <3>2. i \in j..i
      OBVIOUS
    <3> QED BY <1>2, <3>1, <3>2
  <2>2. ASSUME file[i].end # "stop" PROVE Within(i + 1)
    <3>1. \A k \in i..i : k = i
      OBVIOUS
    <3> QED BY <1>1, <1>2, <2>2, <3>1 DEF Within
  <2> QED BY <1>2, <2>1, <2>2
<1>3. CASE ~IsText(i)
  <2>1. ASSUME Within(i + 1) PROVE Within(i)
    <3>1. PICK j \in 1..i : IsText(j) /\ \A k \in j..i : IsText(k) => file[k].end # "stop"
      BY <1>1, <2>1 DEF Within
    <3>2. j # i
      BY <1>3, <3>1
    <3>3. j \in 1..(i - 1) /\ \A k \in j..(i - 1) : k \in j..i
      BY <3>2
    <3> QED BY <3>1, <3>3 DEF Within
  <2>2. ASSUME Within(i) PROVE Within(i + 1)
    <3>1. PICK j \in 1..(i - 1) :
            IsText(j) /\ \A k \in j..(i - 1) : IsText(k) => file[k].end # "stop"
      BY <2>2 DEF Within
    <3>2. j \in 1..i /\ \A k \in j..i : k = i \/ k \in j..(i - 1)
      OBVIOUS
    <3>3. \A k \in j..i : IsText(k) => file[k].end # "stop"
      BY <1>3, <3>1, <3>2
    <3> QED BY <1>1, <3>1, <3>2, <3>3 DEF Within
  <2> QED BY <1>3, <2>1, <2>2
<1> QED BY <1>2, <1>3

\* What the reader is in: a statement where one has begun; a block, in a
\* statement or outside.
Stands ==
  /\ buff # <<>> <=> Within(at)
  /\ at <= Len(file) => /\ block <=> InBlock[at - 1] /\ buff = <<>>
                        /\ in_comment <=> InBlock[at - 1] /\ buff # <<>>
Waiting == \A k \in 1..Len(buff) : file[buff[k]].end # "stop"
Right   == Stands /\ Waiting /\ TextIsRead /\ DocsAreComments
LinesInv == LinesTypeOK /\ (Readable => Right)

\* A statement that a block stands in is over with the line that ends the block.
LEMMA BlockInStatement ==
  ASSUME LinesTypeOK, Tidy, at \in 1..Len(file), InBlock[at - 1], Within(at)
  PROVE  ~IsBlank(l) /\ l.end = "--*" /\ l.start = "text"
<1>1. PICK n \in Nat : n = Len(file)
  BY FileIs
<1>2. PICK i \in 1..n : n = Len(file) /\ i = at
  BY <1>1
<1>3. InBlock[0] = FALSE /\ \A k \in 1..n : InBlock[k] = Blocks(InBlock[k - 1], file[k])
  <2>1. BlockOf(InBlock, n)
    BY <1>2, InBlockUnfolds
  <2> QED BY <2>1 DEF BlockOf
<1>4. PICK j \in 1..n : j + 1 = i
  <2>1. i # 1
    BY <1>2, <1>3
  <2>2. i - 1 \in 1..n /\ (i - 1) + 1 = i
    BY <2>1
  <2> QED BY <2>2
<1>5. InBlock[j] /\ Within(j + 1) /\ i - 1 = j
  BY <1>2, <1>4
<1>6. ~IsText(j)
  <2>1. ASSUME IsText(j) PROVE FALSE
    <3>1. ~IsBlank(file[j]) /\ ~InBlock[j - 1] /\ file[j].start = "text"
      BY <2>1 DEF IsText
    <3>2. InBlock[j] = Blocks(InBlock[j - 1], file[j])
      BY <1>3
    <3>3. InBlock[j] = ((InBlock[j - 1] \/ file[j].start = "*--") /\ file[j].end # "--*")
      BY <3>1, <3>2, Zenon DEF Blocks
    <3> QED BY <1>5, <3>1, <3>3
  <2> QED BY <2>1
<1>7. Within(j)
  BY <1>5, <1>6, WithinNext
<1>8. ~IsBlank(file[j + 1]) /\ file[j + 1].end = "--*" /\ file[j + 1].start = "text"
  BY <1>2, <1>5, <1>7 DEF Tidy
<1> QED BY <1>2, <1>4, <1>8 DEF l

\* A line of a readable file is text or documentation or neither, and is read
\* as what it is.
AsRead ==
  /\ IF IsText(at)
     THEN IF l.end = "stop" THEN given' = Append(given, Append(buff, at)) /\ buff' = <<>>
          ELSE buff' = Append(buff, at) /\ given' = given
     ELSE buff' = buff /\ given' = given
  /\ docs' = WithDoc(docs, at)
  /\ block' <=> InBlock[at] /\ buff' = <<>>
  /\ at < Len(file) => (in_comment' <=> InBlock[at] /\ buff' # <<>>)

LEMMA LineIsRead ==
  ASSUME LinesTypeOK, Readable, Stands, ReadLine
  PROVE  AsRead
<1>1. PICK n \in Nat : n = Len(file)
  BY FileIs
<1>2. PICK i \in 1..n, x \in Line : n = Len(file) /\ i = at /\ x = l /\ x = file[i]
  <2>1. at \in 1..n
    BY <1>1 DEF LinesTypeOK, ReadLine
  <2> QED BY <1>1, <2>1, FileIs DEF l
<1>3. PICK b \in BOOLEAN : b = InBlock[i - 1] /\ InBlock[i] = Blocks(b, x)
  <2>1. BlockOf(InBlock, n)
    BY <1>2, InBlockUnfolds
  <2>2. i - 1 \in 0..n
    OBVIOUS
  <2>3. InBlock[i - 1] \in BOOLEAN /\ InBlock[i] = Blocks(InBlock[i - 1], x)
    BY <1>2, <2>1, <2>2 DEF BlockOf
  <2> QED BY <2>3
<1>4. IsBlank(x) \/ (x.indented \in BOOLEAN /\ x.start \in LineStarts /\ x.end \in LineEnds)
  BY LineIs
<1>5. /\ Within(i) <=> buff # <<>>
      /\ block <=> b /\ buff = <<>>
      /\ in_comment <=> b /\ buff # <<>>
  BY <1>2, <1>3 DEF Stands
<1>6. ~IsBlank(x) /\ ~b /\ x.start # "text" =>
        (x.indented <=> buff # <<>>) /\ (x.start = "*--" => x.end # "--*")
  BY <1>2, <1>3, <1>5 DEF Readable, Tidy
<1>7. b /\ buff # <<>> => ~IsBlank(x) /\ x.end = "--*" /\ x.start = "text"
  BY <1>2, <1>3, <1>5, BlockInStatement DEF Readable
<1>8. IsText(i) <=> ~IsBlank(x) /\ ~b /\ x.start = "text"
  BY <1>2, <1>3 DEF IsText
<1>9. WithDoc(docs, i) =
        IF ~IsText(i) /\ buff = <<>> /\ (b \/ ~IsBlank(x)) THEN Append(docs, i) ELSE docs
  BY <1>2, <1>3, <1>5, Zenon DEF WithDoc, IsDoc
<1>10. IsBlank(x) => Stopped = BlankEnds /\ \A stop \in BlankEnds : ~stop
  BY <1>2, LinesAssumption DEF Stopped, Readable
<1>11. ~IsBlank(x) => Stopped = {x.end = "stop"}
  BY <1>2 DEF Stopped
<1>12. Append(buff, i) # <<>>
  <2>1. i \in 1..MaxLines
    BY <1>2, FileIs, LinesAssumption
  <2> QED BY <2>1, AppendProperties DEF LinesTypeOK
<1>13. Skip \/ Comment \/ Text
  BY DEF ReadLine
<1>14. CASE b /\ buff # <<>>
  <2>1. SkipsTo = {~IsBlank(x) /\ ClosesHere}
    BY <1>2, <1>5, <1>7, <1>14 DEF SkipsTo, NoteInStatement, OpensInStatement
  <2>2. /\ in_comment' = (~IsBlank(x) /\ ClosesHere)
        /\ UNCHANGED <<buff, block, given, docs>>
    BY <1>13, <2>1 DEF Skip, Comment, Text
  <2>3. i < n => ~ClosesHere
    BY <1>2 DEF ClosesHere
  <2>4. ~InBlock[i]
    BY <1>3, <1>7, <1>14 DEF Blocks
  <2> QED BY <1>2, <1>5, <1>8, <1>9, <1>14, <2>2, <2>3, <2>4 DEF AsRead
<1>15. CASE b /\ buff = <<>>
  <2>1. SkipsTo = {} /\ Comments
    BY <1>5, <1>15 DEF SkipsTo, NoteInStatement, OpensInStatement, Comments
  <2>2. docs' = Append(docs, i) /\ block' = BlockAfter /\ UNCHANGED <<buff, in_comment, given>>
    BY <1>2, <1>13, <2>1 DEF Skip, Comment, Text
  <2>3. BlockAfter <=> InBlock[i]
    BY <1>2, <1>3, <1>5, <1>15 DEF BlockAfter, Blocks
  <2> QED BY <1>2, <1>5, <1>8, <1>9, <1>15, <2>2, <2>3 DEF AsRead
<1>16. CASE ~b /\ IsBlank(x)
  <2>1. SkipsTo = {} /\ ~Comments
    BY <1>2, <1>5, <1>16 DEF SkipsTo, NoteInStatement, OpensInStatement, Comments
  <2>2. Text
    BY <1>13, <2>1 DEF Skip, Comment
  <2>3. Joined = buff
    BY <1>2, <1>16 DEF Joined
  <2>4. UNCHANGED <<buff, given, in_comment, block, docs>>
    BY <1>10, <1>16, <2>2, <2>3 DEF Text
  <2>5. ~InBlock[i]
    BY <1>3, <1>16 DEF Blocks
  <2> QED BY <1>2, <1>5, <1>8, <1>9, <1>16, <2>4, <2>5 DEF AsRead
<1>17. CASE ~b /\ ~IsBlank(x) /\ x.start = "text"
  <2>1. SkipsTo = {} /\ ~Comments
    BY <1>2, <1>5, <1>17 DEF SkipsTo, NoteInStatement, OpensInStatement, Comments
  <2>2. Text
    BY <1>13, <2>1 DEF Skip, Comment
  <2>3. Joined = Append(buff, i)
    BY <1>2, <1>17 DEF Joined
  <2>4. /\ IF x.end = "stop" THEN given' = Append(given, Append(buff, i)) /\ buff' = <<>>
           ELSE buff' = Append(buff, i) /\ given' = given
        /\ UNCHANGED <<in_comment, block, docs>>
    <3>1. PICK e \in BOOLEAN : e = (x.end = "stop") /\ Stopped = {e}
      BY <1>11, <1>17
    <3>2. IF e THEN given' = Append(given, Joined) /\ buff' = <<>>
          ELSE buff' = Joined /\ UNCHANGED given
      BY <2>2, <3>1 DEF Text
    <3>3. UNCHANGED <<in_comment, block, docs>>
      BY <2>2 DEF Text
    <3> QED BY <2>3, <3>1, <3>2, <3>3
  <2>5. ~InBlock[i]
    BY <1>3, <1>17 DEF Blocks
  <2> QED BY <1>2, <1>5, <1>8, <1>9, <1>17, <2>4, <2>5 DEF AsRead
<1>18. CASE ~b /\ ~IsBlank(x) /\ x.start # "text" /\ buff = <<>>
  <2>1. SkipsTo = {} /\ Comments
    BY <1>2, <1>4, <1>5, <1>6, <1>18
       DEF SkipsTo, NoteInStatement, OpensInStatement, Comments, LineStarts
  <2>2. docs' = Append(docs, i) /\ block' = BlockAfter /\ UNCHANGED <<buff, in_comment, given>>
    BY <1>2, <1>13, <2>1 DEF Skip, Comment, Text
  <2>3. BlockAfter <=> InBlock[i]
    BY <1>2, <1>3, <1>5, <1>6, <1>18 DEF BlockAfter, Blocks
  <2> QED BY <1>2, <1>5, <1>8, <1>9, <1>18, <2>2, <2>3 DEF AsRead
<1>19. CASE ~b /\ ~IsBlank(x) /\ x.start # "text" /\ buff # <<>>
  <2>1. x.indented /\ x.start \in {"--", "*--"}
    BY <1>4, <1>6, <1>19 DEF LineStarts
  <2>2. CASE x.start = "--"
    <3>1. SkipsTo = {in_comment}
      BY <1>2, <1>19, <2>1, <2>2 DEF SkipsTo, NoteInStatement
    <3>2. UNCHANGED <<in_comment, buff, block, given, docs>>
      BY <1>13, <3>1 DEF Skip, Comment, Text
    <3>3. ~InBlock[i]
      BY <1>3, <1>19, <2>2 DEF Blocks
    <3> QED BY <1>2, <1>5, <1>8, <1>9, <1>19, <3>2, <3>3 DEF AsRead
  <2>3. CASE x.start = "*--"
    <3>1. SkipsTo = {TRUE}
      BY <1>2, <1>19, <2>1, <2>3 DEF SkipsTo, NoteInStatement, OpensInStatement
    <3>2. in_comment' = TRUE /\ UNCHANGED <<buff, block, given, docs>>
      BY <1>13, <3>1 DEF Skip, Comment, Text
    <3>3. InBlock[i]
      BY <1>3, <1>6, <1>19, <2>3 DEF Blocks
    <3> QED BY <1>2, <1>5, <1>8, <1>9, <1>19, <3>2, <3>3 DEF AsRead
  <2> QED BY <2>1, <2>2, <2>3
<1> QED BY <1>14, <1>15, <1>16, <1>17, <1>18, <1>19

LEMMA LinesTyped ==
  ASSUME LinesTypeOK, ReadLine
  PROVE  LinesTypeOK' /\ file' = file /\ at' = at + 1
<1>1. PICK n \in Nat : n = Len(file) /\ n <= MaxLines
  BY FileIs
<1>2. at \in 1..n /\ file' = file /\ at' = at + 1 /\ (Skip \/ Comment \/ Text)
  BY <1>1 DEF LinesTypeOK, ReadLine
<1>3. at \in 1..MaxLines /\ at' \in 1..(n + 1)
  BY <1>1, <1>2, LinesAssumption
<1>4. l \in Line
  BY <1>1, <1>2, FileIs DEF l
<1>5. Joined \in Seq(1..MaxLines)
  BY <1>3, AppendProperties DEF Joined, LinesTypeOK
<1>6. /\ buff' \in Seq(1..MaxLines) /\ given' \in Seq(Seq(1..MaxLines))
      /\ docs' \in Seq(1..MaxLines) /\ in_comment' \in BOOLEAN /\ block' \in BOOLEAN
  <2>1. CASE Skip
    <3>1. SkipsTo \subseteq BOOLEAN
      BY DEF SkipsTo, LinesTypeOK
    <3> QED BY <2>1, <3>1 DEF Skip, LinesTypeOK
  <2>2. CASE Comment
    <3>1. BlockAfter \in BOOLEAN
      BY <1>4, LineIs DEF BlockAfter
    <3> QED BY <1>3, <2>2, <3>1, AppendProperties DEF Comment, LinesTypeOK
  <2>3. CASE Text
    <3>1. PICK stop : IF stop THEN given' = Append(given, Joined) /\ buff' = <<>>
                      ELSE buff' = Joined /\ UNCHANGED given
      BY <2>3 DEF Text
    <3>2. Append(given, Joined) \in Seq(Seq(1..MaxLines)) /\ <<>> \in Seq(1..MaxLines)
      BY <1>5, AppendProperties DEF LinesTypeOK
    <3>3. UNCHANGED <<in_comment, block, docs>>
      BY <2>3 DEF Text
    <3>4. CASE stop
      BY <3>1, <3>2, <3>3, <3>4 DEF LinesTypeOK
    <3>5. CASE ~stop
      BY <1>5, <3>1, <3>3, <3>5 DEF LinesTypeOK
    <3> QED BY <3>4, <3>5
  <2> QED BY <1>2, <2>1, <2>2, <2>3
<1> QED BY <1>1, <1>2, <1>3, <1>6 DEF LinesTypeOK

\* What a file is to be read as does not change while it is read.
LEMMA StillTheFile ==
  ASSUME file' = file, at' = at + 1
  PROVE  /\ Readable' <=> Readable
         /\ InBlock' = InBlock /\ TextTo' = TextTo /\ DocsTo' = DocsTo
         /\ Within(at)' <=> Within(at + 1)
<1>1. InBlock' = InBlock
  BY DEF InBlock
<1>2. Tidy' <=> Tidy
  BY <1>1 DEF Tidy, Within, IsText
<1>3. TextTo' = TextTo
  BY <1>1 DEF TextTo, WithText, IsText
<1>4. DocsTo' = DocsTo
  BY <1>1 DEF DocsTo, WithDoc, IsDoc, Within, IsText
<1>5. Within(at)' <=> Within(at + 1)
  BY <1>1 DEF Within, IsText
<1> QED BY <1>1, <1>2, <1>3, <1>4, <1>5 DEF Readable

LEMMA WiderSeq ==
  ASSUME NEW T, NEW U, T \subseteq U, NEW s \in Seq(T)
  PROVE  s \in Seq(U)
<1>1. PICK n \in Nat : s \in [1..n -> T]
  BY LenProperties
<1>2. s \in [1..n -> U]
  BY <1>1
<1> QED BY <1>2

LEMMA AppendLast ==
  ASSUME NEW s \in Seq(Nat), NEW t \in Seq(Nat), NEW e \in Nat
  PROVE  s \o Append(t, e) = Append(s \o t, e) /\ s \o t \in Seq(Nat)
<1>1. Append(t, e) = t \o <<e>> /\ <<e>> \in Seq(Nat) /\ s \o t \in Seq(Nat)
  BY AppendIsConcat, ConcatProperties
<1>2. Append(s \o t, e) = (s \o t) \o <<e>>
  BY <1>1, AppendIsConcat
<1> QED BY <1>1, <1>2, ConcatAssociative

LEMMA RightStays ==
  ASSUME LinesTypeOK, Readable, Right, ReadLine
  PROVE  Right'
<1>1. PICK n \in Nat : n = Len(file) /\ n <= MaxLines
  BY FileIs
<1>2. PICK i \in 1..n : i = at
  BY <1>1 DEF LinesTypeOK, ReadLine
<1>3. LinesTypeOK' /\ file' = file /\ at' = i + 1 /\ (i + 1) - 1 = i
  BY <1>2, LinesTyped
<1>4. /\ Readable' /\ InBlock' = InBlock /\ TextTo' = TextTo /\ DocsTo' = DocsTo
      /\ Within(at)' <=> Within(i + 1)
  BY <1>2, <1>3, StillTheFile
<1>5. /\ IF IsText(i)
         THEN IF file[i].end = "stop"
              THEN given' = Append(given, Append(buff, i)) /\ buff' = <<>>
              ELSE buff' = Append(buff, i) /\ given' = given
         ELSE buff' = buff /\ given' = given
      /\ docs' = WithDoc(docs, i)
      /\ block' <=> InBlock[i] /\ buff' = <<>>
      /\ i < n => (in_comment' <=> InBlock[i] /\ buff' # <<>>)
  BY <1>2, <1>1, LineIsRead DEF Right, AsRead, l
<1>6. buff \in Seq(Nat) /\ given \in Seq(Seq(Nat)) /\ buff' \in Seq(Nat)
  <2> DEFINE T == 1..MaxLines
  <2>1. T \subseteq Nat
    BY LinesAssumption
  <2>2. buff \in Seq(T) /\ given \in Seq(Seq(T)) /\ buff' \in Seq(T)
    BY <1>3 DEF LinesTypeOK
  <2> HIDE DEF T
  <2>3. Seq(T) \subseteq Seq(Nat)
    BY <2>1, WiderSeq
  <2> QED BY <2>2, <2>3, WiderSeq
<1>7. PICK m \in Nat : m = Len(buff)
  BY <1>6
<1>8. /\ Append(buff, i) \in Seq(Nat) /\ Len(Append(buff, i)) = m + 1
      /\ Append(buff, i)[m + 1] = i /\ \A k \in 1..m : Append(buff, i)[k] = buff[k]
  BY <1>6, <1>7, AppendProperties
<1>9. Append(buff, i) # <<>>
  <2>1. PICK w \in Seq(Nat) : w = Append(buff, i) /\ Len(w) = m + 1
    BY <1>8
  <2>2. w # <<>>
    BY <2>1
  <2> QED BY <2>1, <2>2
<1>10. Stands'
  <2>1. buff' # <<>> <=> Within(i + 1)
    <3>1. buff # <<>> <=> Within(i)
      BY <1>2 DEF Right, Stands
    <3>2. Within(i + 1) <=> IF IsText(i) THEN file[i].end # "stop" ELSE Within(i)
      BY WithinNext
    <3> QED BY <1>5, <1>9, <3>1, <3>2
  <2>2. i + 1 <= n => i < n
    OBVIOUS
  <2> QED BY <1>3, <1>4, <1>5, <1>1, <2>1, <2>2 DEF Stands
<1>11. \A k \in 1..m : file[buff[k]].end # "stop"
  BY <1>7 DEF Right, Waiting
<1>12. Waiting'
  <2>1. CASE ~IsText(i)
    BY <1>3, <1>5, <1>7, <1>11, <2>1 DEF Waiting
  <2>2. CASE IsText(i) /\ file[i].end = "stop"
    <3>1. 1..Len(buff') = {}
      BY <1>5, <2>2
    <3> QED BY <3>1 DEF Waiting
  <2>3. CASE IsText(i) /\ file[i].end # "stop"
    <3>1. \A k \in 1..(m + 1) : k = m + 1 \/ k \in 1..m
      OBVIOUS
    <3> QED BY <1>3, <1>5, <1>8, <1>11, <2>3, <3>1 DEF Waiting
  <2> QED BY <2>1, <2>2, <2>3
<1>13. TextOf(TextTo, n) /\ DocsOf(DocsTo, n)
  BY <1>1, TextToUnfolds, DocsToUnfolds
<1>14. /\ TextTo[i] = WithText(TextTo[i - 1], i) /\ DocsTo[i] = WithDoc(DocsTo[i - 1], i)
       /\ TextTo[i - 1] \in Seq(Nat)
  <2>1. i - 1 \in 0..n
    OBVIOUS
  <2> QED BY <1>13, <2>1 DEF TextOf, DocsOf
<1>15. PICK o \in Nat : o = Len(given)
  BY <1>6
<1>16. PICK M : M = InTurn(given)
  OBVIOUS
<1>17. M[o] \in Seq(Nat) /\ M[o] \o buff = TextTo[i - 1]
  <2>1. Turns(M, o, given)
    BY <1>6, <1>15, <1>16, InTurnUnfolds
  <2>2. o \in 0..o
    OBVIOUS
  <2> QED BY <1>2, <1>15, <1>16, <2>1, <2>2 DEF Turns, Right, TextIsRead
<1>18. M[o] \o Append(buff, i) = Append(TextTo[i - 1], i)
  <2>1. PICK s \in Seq(Nat), t \in Seq(Nat), e \in Nat : s = M[o] /\ t = buff /\ e = i
    BY <1>6, <1>17
  <2>2. s \o Append(t, e) = Append(s \o t, e)
    BY AppendLast
  <2> QED BY <1>17, <2>1, <2>2
<1>19. /\ InTurn(given')[Len(given')] \o buff' = TextTo[i]
       /\ \A k \in 1..Len(given') : \A j \in 1..Len(given'[k]) :
            (file[given'[k][j]].end = "stop") <=> (j = Len(given'[k]))
  <2>1. \A k \in 1..o : \A j \in 1..Len(given[k]) :
          (file[given[k][j]].end = "stop") <=> (j = Len(given[k]))
    BY <1>15 DEF Right, TextIsRead
  <2>2. CASE ~IsText(i)
    BY <1>5, <1>14, <1>15, <1>16, <1>17, <2>1, <2>2 DEF WithText
  <2>3. CASE IsText(i) /\ file[i].end # "stop"
    BY <1>5, <1>14, <1>15, <1>16, <1>18, <2>1, <2>3 DEF WithText
  <2>4. CASE IsText(i) /\ file[i].end = "stop"
    <3>1. PICK w \in Seq(Nat) : w = Append(buff, i)
      BY <1>8
    <3>2. given' = Append(given, w) /\ buff' = <<>>
      BY <1>5, <2>4, <3>1
    <3>3. /\ Len(given') = o + 1 /\ given'[o + 1] = w /\ \A k \in 1..o : given'[k] = given[k]
      BY <1>6, <1>15, <3>2, AppendProperties
    <3>4. InTurn(given')[o + 1] = M[o] \o w
      <4>1. PICK N : N = InTurn(Append(given, w))
        OBVIOUS
      <4>2. PICK gs \in Seq(Seq(Nat)) : gs = given
        BY <1>6
      <4>3. o = Len(gs) /\ M = InTurn(gs) /\ N = InTurn(Append(gs, w))
        BY <1>15, <1>16, <4>1, <4>2
      <4>4. GoesOn(N, M, o, w)
        BY <4>3, InTurnOn
      <4>5. N[o + 1] = M[o] \o w
        BY <4>4 DEF GoesOn
      <4> QED BY <3>2, <4>1, <4>5
    <3>5. M[o] \o w = TextTo[i] /\ TextTo[i] \in Seq(Nat)
      <4>1. TextTo[i] = Append(TextTo[i - 1], i)
        BY <1>14, <2>4 DEF WithText
      <4>2. PICK s \in Seq(Nat), e \in Nat : s = TextTo[i - 1] /\ e = i
        BY <1>14
      <4>3. Append(s, e) \in Seq(Nat)
        BY AppendProperties
      <4> QED BY <1>18, <3>1, <4>1, <4>2, <4>3
    <3>6. TextTo[i] \o <<>> = TextTo[i]
      BY <3>5, ConcatEmptySeq
    <3>7. ASSUME NEW k \in 1..(o + 1), NEW j \in 1..Len(given'[k])
          PROVE  (file[given'[k][j]].end = "stop") <=> (j = Len(given'[k]))
      <4>1. CASE k = o + 1
        <5>1. given'[k] = w /\ Len(w) = m + 1 /\ j \in 1..(m + 1)
          BY <1>8, <3>1, <3>3, <4>1
        <5>2. CASE j = m + 1
          BY <1>8, <2>4, <3>1, <5>1, <5>2
        <5>3. CASE j # m + 1
          <6>1. j \in 1..m
            BY <5>1, <5>3
          <6>2. w[j] = buff[j]
            BY <1>8, <3>1, <6>1
          <6> QED BY <1>11, <5>1, <5>3, <6>1, <6>2
        <5> QED BY <5>2, <5>3
      <4>2. CASE k # o + 1
        <5>1. k \in 1..o
          BY <4>2
        <5>2. given'[k] = given[k]
          BY <3>3, <5>1
        <5>3. j \in 1..Len(given[k])
          BY <5>2
        <5> QED BY <2>1, <5>1, <5>2, <5>3
      <4> QED BY <4>1, <4>2
    <3> QED BY <3>2, <3>3, <3>4, <3>5, <3>6, <3>7
  <2> QED BY <2>2, <2>3, <2>4
<1>20. docs' = DocsTo[i]
  BY <1>2, <1>5, <1>14 DEF Right, DocsAreComments
<1> QED BY <1>3, <1>4, <1>10, <1>12, <1>19, <1>20 DEF Right, TextIsRead, DocsAreComments

\* However many lines a source has and whatever they are: in the sources whose
\* comments stand where the reader wants them, the statements handed over and
\* what waits are the lines of text in their order, each statement ends at its
\* only stop, and the documentation is the comments outside statements.
THEOREM LinesAreReadRight == LinesSpec => []LinesAreRead
<1>1. LinesInit => LinesInv
  <2> SUFFICES ASSUME LinesInit PROVE LinesInv
    OBVIOUS
  <2>1. PICK n \in 0..MaxLines : file \in [1..n -> Line]
    BY DEF LinesInit
  <2>2. n \in Nat /\ n <= MaxLines /\ file \in Seq(Line) /\ Len(file) = n
    BY <2>1, LinesAssumption
  <2>3. LinesTypeOK
    <3>1. 1 \in 1..(n + 1)
      BY <2>2
    <3>2. <<>> \in Seq(1..MaxLines) /\ <<>> \in Seq(Seq(1..MaxLines))
      OBVIOUS
    <3> QED BY <2>2, <3>1, <3>2 DEF LinesInit, LinesTypeOK
  <2>4. InBlock[0] = FALSE /\ TextTo[0] = <<>> /\ DocsTo[0] = <<>>
    BY <2>2, <2>3, InBlockUnfolds, TextToUnfolds, DocsToUnfolds DEF BlockOf, TextOf, DocsOf
  <2>5. at = 1 /\ 1 - 1 = 0 /\ buff = <<>> /\ given = <<>> /\ docs = <<>> /\ ~block /\ ~in_comment
    BY DEF LinesInit
  <2>6. ~Within(1)
    BY DEF Within
  <2>7. Stands
    BY <2>4, <2>5, <2>6 DEF Stands
  <2>8. Len(<<>>) = 0 /\ 1..0 = {} /\ <<>> \o <<>> = <<>>
    OBVIOUS
  <2>9. InTurn(<<>>)[0] = <<>>
    <3>1. PICK gs \in Seq(Seq(Nat)) : gs = <<>>
      <4> DEFINE S == Seq(Nat)
      <4> HIDE DEF S
      <4>1. <<>> \in Seq(S)
        OBVIOUS
      <4> QED BY <4>1 DEF S
    <3>2. PICK M : M = InTurn(gs)
      OBVIOUS
    <3>3. PICK z \in Nat : z = 0
      OBVIOUS
    <3>4. z = Len(gs)
      BY <3>1, <3>3
    <3>5. Turns(M, z, gs)
      BY <3>2, <3>4, InTurnUnfolds
    <3> QED BY <3>1, <3>2, <3>3, <3>5 DEF Turns
  <2>10. TextIsRead
    BY <2>4, <2>5, <2>8, <2>9 DEF TextIsRead
  <2> QED BY <2>3, <2>4, <2>5, <2>7, <2>8, <2>10
          DEF LinesInv, Right, Waiting, DocsAreComments
<1>2. LinesInv /\ [ReadLine]_lines => LinesInv'
  <2>1. ASSUME LinesInv, ReadLine PROVE LinesInv'
    <3>1. LinesTypeOK' /\ (Readable' <=> Readable)
      BY <2>1, LinesTyped, StillTheFile DEF LinesInv
    <3> QED BY <2>1, <3>1, RightStays DEF LinesInv
  <2>2. ASSUME LinesInv, UNCHANGED lines PROVE LinesInv'
    <3>1. UNCHANGED <<file, at, buff, in_comment, block, given, docs>>
      BY <2>2 DEF lines
    <3>2. InBlock' = InBlock
      BY <3>1 DEF InBlock
    <3>3. TextTo' = TextTo /\ DocsTo' = DocsTo
      BY <3>1, <3>2 DEF TextTo, WithText, IsText, DocsTo, WithDoc, IsDoc, Within
    <3>4. Readable' <=> Readable
      BY <3>1, <3>2 DEF Readable, Tidy, Within, IsText
    <3>5. Stands' <=> Stands
      BY <3>1, <3>2 DEF Stands, Within, IsText
    <3> QED BY <2>2, <3>1, <3>3, <3>4, <3>5
            DEF LinesInv, LinesTypeOK, Right, Waiting, TextIsRead, DocsAreComments
  <2> QED BY <2>1, <2>2
<1>3. LinesInv => LinesAreRead
  BY DEF LinesInv, LinesAreRead, Right, TextIsRead, DocsAreComments
<1> QED BY <1>1, <1>2, <1>3, PTL DEF LinesSpec
=============================================================================
