---------------------------- MODULE NumbersProofs ----------------------------
(***************************************************************************)
(* What is proved about the numbers of BigInt and the answers of           *)
(* Calculator, for every width of a word, every length, every threshold    *)
(* and every base: comparing, adding, subtracting, multiplying, dividing   *)
(* and taking roots are what they are for integers, digits are read as     *)
(* they were written, and so every answer is what Arithmetic promises; the *)
(* words that bigint_mul allocates once, for the whole recursion of its    *)
(* Karatsuba products, are enough for it.                                  *)
(***************************************************************************)
EXTENDS Calculator, SequenceTheorems, WellFoundedInduction, TLAPS

-----------------------------------------------------------------------------
(* Induction, and functions that are defined upward *)

\* A set of naturals that is not empty has a least member.
LEMMA LeastOf ==
  ASSUME NEW T \in SUBSET Nat, T # {}
  PROVE  \E n \in T : \A k \in T : n <= k
<1>1. PICK n \in T : \A k \in T : ~(<<k, n>> \in OpToRel(<, Nat))
  BY NatLessThanWellFounded, WFMin
<1>2. ASSUME NEW k \in T PROVE n <= k
  <2>1. ~(<<k, n>> \in OpToRel(<, Nat))
    BY <1>1
  <2>2. ~(k < n)
    BY <2>1 DEF OpToRel
  <2> QED BY <2>2
<1> QED BY <1>2

\* What holds of zero and of the next of what it holds of, holds of all.
LEMMA Induction ==
  ASSUME NEW T, 0 \in T, \A i \in Nat : i \in T => i + 1 \in T
  PROVE  \A i \in Nat : i \in T
<1> DEFINE F == {i \in Nat : i \notin T}
<1> SUFFICES ASSUME F # {} PROVE FALSE
  OBVIOUS
<1>1. PICK i \in F : \A k \in F : i <= k
  <2>1. F \in SUBSET Nat
    OBVIOUS
  <2> HIDE DEF F
  <2> QED BY <2>1, LeastOf
<1>2. i \in Nat /\ i \notin T /\ i # 0
  OBVIOUS
<1>3. i - 1 \in Nat /\ ~(i <= i - 1) /\ (i - 1) + 1 = i
  BY <1>2
<1>4. i - 1 \in T
  BY <1>1, <1>3
<1>5. i \in T
  BY <1>3, <1>4
<1> QED BY <1>2, <1>5

\* The values of a function that is defined upward.
Follows(n, f, base, next) ==
  f[0] = base /\ \A i \in 1..n : f[i] = next[<<i, f[i - 1]>>]

\* From a base and a function for the next value there is a function upward.
LEMMA UpwardExists ==
  ASSUME NEW n \in Nat, NEW S, NEW base \in S, NEW next \in [(1..n) \X S -> S]
  PROVE  \E f \in [0..n -> S] : Follows(n, f, base, next)
<1> DEFINE T == {k \in Nat : k <= n => \E f \in [0..k -> S] : Follows(k, f, base, next)}
<1>1. 0 \in T
  <2>1. [i \in 0..0 |-> base] \in [0..0 -> S]
    OBVIOUS
  <2>2. Follows(0, [i \in 0..0 |-> base], base, next)
    BY DEF Follows
  <2> QED BY <2>1, <2>2
<1>2. ASSUME NEW k \in Nat, k \in T PROVE k + 1 \in T
  <2> SUFFICES ASSUME k + 1 <= n
               PROVE  \E f \in [0..(k + 1) -> S] : Follows(k + 1, f, base, next)
    OBVIOUS
  <2>1. PICK f \in [0..k -> S] : Follows(k, f, base, next)
    BY <1>2
  <2> DEFINE g == [i \in 0..(k + 1) |-> IF i = k + 1 THEN next[<<k + 1, f[k]>>] ELSE f[i]]
  <2>2. k \in 0..k /\ k + 1 \in 1..n /\ k + 1 \in 0..(k + 1)
    OBVIOUS
  <2>3. <<k + 1, f[k]>> \in (1..n) \X S
    BY <2>2
  <2>4. next[<<k + 1, f[k]>>] \in S
    BY <2>3
  <2>5. \A i \in 0..(k + 1) : i = k + 1 \/ i \in 0..k
    OBVIOUS
  <2>6. g \in [0..(k + 1) -> S]
    BY <2>4, <2>5
  <2>7. \A i \in 0..k : i \in 0..(k + 1) /\ i # k + 1
    OBVIOUS
  <2>8. (\A i \in 0..k : g[i] = f[i]) /\ g[k + 1] = next[<<k + 1, f[k]>>]
    BY <2>2, <2>7
  <2> HIDE DEF g
  <2>9. g[0] = base
    BY <2>1, <2>8 DEF Follows
  <2>10. ASSUME NEW i \in 1..(k + 1) PROVE g[i] = next[<<i, g[i - 1]>>]
    <3>1. CASE i = k + 1
      <4>1. i - 1 = k
        BY <3>1
      <4> QED BY <4>1, <3>1, <2>2, <2>8
    <3>2. CASE i # k + 1
      <4>1. i \in 1..k /\ i \in 0..k /\ i - 1 \in 0..k
        BY <3>2
      <4>2. f[i] = next[<<i, f[i - 1]>>]
        BY <4>1, <2>1 DEF Follows
      <4> QED BY <4>1, <4>2, <2>8
    <3> QED BY <3>1, <3>2
  <2>11. Follows(k + 1, g, base, next)
    BY <2>9, <2>10 DEF Follows
  <2> QED BY <2>6, <2>11
<1>3. \A k \in Nat : k \in T
  <2> HIDE DEF T
  <2> QED BY <1>1, <1>2, Induction
<1>4. n \in T
  BY <1>3
<1>5. n <= n
  OBVIOUS
<1> QED BY <1>4, <1>5

\* Two functions that are defined upward alike are alike.
LEMMA UpwardAgree ==
  ASSUME NEW m \in Nat, NEW n \in Nat, NEW f, NEW g, NEW base, NEW next,
         Follows(m, f, base, next), Follows(n, g, base, next),
         NEW i \in Nat, i <= m, i <= n
  PROVE  f[i] = g[i]
<1> DEFINE T == {k \in Nat : k <= m /\ k <= n => f[k] = g[k]}
<1>1. 0 \in T
  BY DEF Follows
<1>2. ASSUME NEW k \in Nat, k \in T PROVE k + 1 \in T
  <2> SUFFICES ASSUME k + 1 <= m, k + 1 <= n PROVE f[k + 1] = g[k + 1]
    OBVIOUS
  <2>1. f[k] = g[k] /\ k + 1 \in 1..m /\ k + 1 \in 1..n /\ (k + 1) - 1 = k
    BY <1>2
  <2> QED BY <2>1 DEF Follows
<1>3. \A k \in Nat : k \in T
  <2> HIDE DEF T
  <2> QED BY <1>1, <1>2, Induction
<1> QED BY <1>3

\* A function of all naturals that is defined upward.
GoesOn(f, base, next) ==
  f[0] = base /\ \A i \in Nat \ {0} : f[i] = next[<<i, f[i - 1]>>]

LEMMA UpwardForever ==
  ASSUME NEW S, NEW base \in S, NEW next \in [Nat \X S -> S]
  PROVE  \E f \in [Nat -> S] : GoesOn(f, base, next)
<1> DEFINE G(n) == CHOOSE g \in [0..n -> S] : Follows(n, g, base, next)
           f == [n \in Nat |-> G(n)[n]]
<1>1. ASSUME NEW n \in Nat PROVE G(n) \in [0..n -> S] /\ Follows(n, G(n), base, next)
  <2>1. PICK some : some = [p \in (1..n) \X S |-> next[p]]
    OBVIOUS
  <2>2. \A p \in (1..n) \X S : p \in Nat \X S /\ next[p] \in S
    OBVIOUS
  <2>3. some \in [(1..n) \X S -> S]
    BY <2>1, <2>2
  <2>4. PICK g \in [0..n -> S] : Follows(n, g, base, some)
    BY <2>3, UpwardExists
  <2>5. ASSUME NEW i \in 1..n PROVE g[i] = next[<<i, g[i - 1]>>]
    <3>1. i - 1 \in 0..n
      OBVIOUS
    <3>2. <<i, g[i - 1]>> \in (1..n) \X S
      BY <3>1
    <3> QED BY <2>1, <2>4, <3>2 DEF Follows
  <2>6. Follows(n, g, base, next)
    BY <2>4, <2>5 DEF Follows
  <2> QED BY <2>6
<1> HIDE DEF G
<1>2. ASSUME NEW n \in Nat PROVE f[n] = G(n)[n] /\ f[n] \in S
  <2>1. n \in 0..n
    OBVIOUS
  <2> QED BY <1>1, <2>1
<1>3. f \in [Nat -> S]
  BY <1>2
<1>4. f[0] = base
  BY <1>1, <1>2 DEF Follows
<1>5. ASSUME NEW i \in Nat \ {0} PROVE f[i] = next[<<i, f[i - 1]>>]
  <2>1. i \in 1..i /\ i - 1 \in Nat /\ i - 1 <= i /\ i - 1 <= i - 1
    OBVIOUS
  <2>2. G(i)[i] = next[<<i, G(i)[i - 1]>>]
    BY <1>1, <2>1 DEF Follows
  <2>3. Follows(i, G(i), base, next) /\ Follows(i - 1, G(i - 1), base, next)
    BY <1>1, <2>1
  <2>4. G(i)[i - 1] = G(i - 1)[i - 1]
    BY <2>1, <2>3, UpwardAgree
  <2> QED BY <1>2, <2>1, <2>2, <2>4
<1> HIDE DEF f
<1>6. GoesOn(f, base, next)
  BY <1>4, <1>5 DEF GoesOn
<1> QED BY <1>3, <1>6

-----------------------------------------------------------------------------
(* Powers *)

LEMMA PowerUnfolds ==
  ASSUME NEW b \in Nat
  PROVE  /\ Power(b) \in [Nat -> Nat] /\ Power(b)[0] = 1
         /\ \A n \in Nat : Power(b)[n + 1] = b * Power(b)[n]
<1> PICK next : next = [p \in Nat \X Nat |-> b * p[2]]
  OBVIOUS
<1>1. next \in [Nat \X Nat -> Nat]
  <2>1. \A p \in Nat \X Nat : b * p[2] \in Nat
    <3>1. \A p \in Nat \X Nat : p[2] \in Nat
      OBVIOUS
    <3>2. \A x \in Nat : b * x \in Nat
      OBVIOUS
    <3> QED BY <3>1, <3>2
  <2> QED BY <2>1
<1>2. PICK f \in [Nat -> Nat] : f[0] = 1 /\ \A i \in Nat \ {0} : f[i] = next[<<i, f[i - 1]>>]
  <2>1. 1 \in Nat
    OBVIOUS
  <2>2. \E f \in [Nat -> Nat] : GoesOn(f, 1, next)
    BY <1>1, <2>1, UpwardForever
  <2> QED BY <2>2 DEF GoesOn
<1>3. ASSUME NEW i \in Nat \ {0} PROVE f[i] = b * f[i - 1]
  <2>1. i - 1 \in Nat
    OBVIOUS
  <2>2. <<i, f[i - 1]>> \in Nat \X Nat
    BY <2>1
  <2>3. next[<<i, f[i - 1]>>] = b * f[i - 1]
    BY <2>2
  <2> QED BY <1>2, <2>3
<1>4. f = [n \in Nat |-> IF n = 0 THEN 1 ELSE b * f[n - 1]]
  <2>1. f = [n \in Nat |-> f[n]]
    OBVIOUS
  <2>2. \A n \in Nat : f[n] = IF n = 0 THEN 1 ELSE b * f[n - 1]
    BY <1>2, <1>3
  <2> QED BY <2>1, <2>2
<1> DEFINE P == Power(b)
<1>5. P = [n \in Nat |-> IF n = 0 THEN 1 ELSE b * P[n - 1]]
  BY <1>4, Zenon DEF Power
<1> HIDE DEF P
<1>6. P[0] = 1
  BY <1>5
<1>7. ASSUME NEW n \in Nat PROVE P[n + 1] = b * P[n]
  <2>1. n + 1 \in Nat /\ n + 1 # 0 /\ (n + 1) - 1 = n
    OBVIOUS
  <2> QED BY <1>5, <2>1
<1>8. \A n \in Nat : P[n] \in Nat
  <2> DEFINE T == {n \in Nat : P[n] \in Nat}
  <2>1. 0 \in T
    BY <1>6
  <2>2. ASSUME NEW n \in Nat, n \in T PROVE n + 1 \in T
    <3>1. P[n] \in Nat
      BY <2>2
    <3>2. b * P[n] \in Nat
      BY <3>1
    <3> QED BY <3>2, <1>7
  <2>3. \A n \in Nat : n \in T
    <3> HIDE DEF T
    <3> QED BY <2>1, <2>2, Induction
  <2> QED BY <2>3
<1>9. P \in [Nat -> Nat]
  <2>1. P = [n \in Nat |-> P[n]]
    BY <1>5, Zenon
  <2> QED BY <2>1, <1>8
<1> QED BY <1>6, <1>7, <1>9 DEF P

\* Powers are positive; those of more than one grow; exponents add.
LEMMA PowerIsPositive ==
  ASSUME NEW b \in Nat, b >= 1, NEW n \in Nat
  PROVE  Power(b)[n] \in Nat /\ Power(b)[n] >= 1
<1> PICK P : P = Power(b) /\ P \in [Nat -> Nat] /\ P[0] = 1 /\ \A k \in Nat : P[k + 1] = b * P[k]
  BY PowerUnfolds
<1> DEFINE T == {k \in Nat : P[k] >= 1}
<1>1. 0 \in T
  OBVIOUS
<1>2. ASSUME NEW k \in Nat, k \in T PROVE k + 1 \in T
  <2>1. PICK x \in Nat : x = P[k] /\ x >= 1
    BY <1>2
  <2>2. PICK c \in Nat : b = c + 1
    <3>1. b - 1 \in Nat /\ b = (b - 1) + 1
      OBVIOUS
    <3> QED BY <3>1
  <2>3. c * x \in Nat /\ b * x = c * x + x
    BY ONLY c \in Nat, x \in Nat, <2>2
  <2> QED BY <2>1, <2>3
<1>3. \A k \in Nat : k \in T
  <2> HIDE DEF T
  <2> QED BY <1>1, <1>2, Induction
<1> QED BY <1>3

LEMMA PowersMultiply ==
  ASSUME NEW b \in Nat, NEW m \in Nat, NEW n \in Nat
  PROVE  Power(b)[m + n] = Power(b)[m] * Power(b)[n]
<1> PICK P : P = Power(b) /\ P \in [Nat -> Nat] /\ P[0] = 1 /\ \A k \in Nat : P[k + 1] = b * P[k]
  BY PowerUnfolds
<1> PICK x \in Nat : x = P[m]
  OBVIOUS
<1> DEFINE T == {k \in Nat : P[m + k] = x * P[k]}
<1>1. 0 \in T
  <2>1. m + 0 = m /\ x * 1 = x
    OBVIOUS
  <2> QED BY <2>1
<1>2. ASSUME NEW k \in Nat, k \in T PROVE k + 1 \in T
  <2>1. PICK y \in Nat : y = P[k]
    OBVIOUS
  <2>2. P[m + k] = x * y
    BY <1>2, <2>1
  <2>3. m + k \in Nat /\ m + (k + 1) = (m + k) + 1
    OBVIOUS
  <2>4. P[m + (k + 1)] = b * (x * y) /\ P[k + 1] = b * y
    BY <2>1, <2>2, <2>3
  <2>5. b * (x * y) = x * (b * y)
    OBVIOUS
  <2> QED BY <2>4, <2>5
<1>3. \A k \in Nat : k \in T
  <2> HIDE DEF T
  <2> QED BY <1>1, <1>2, Induction
<1>4. n \in T
  BY <1>3
<1> QED BY <1>4

LEMMA PowersGrow ==
  ASSUME NEW b \in Nat, b >= 1, NEW m \in Nat, NEW n \in Nat, m <= n
  PROVE  Power(b)[m] <= Power(b)[n]
<1>1. n - m \in Nat /\ m + (n - m) = n
  OBVIOUS
<1>2. PICK x \in Nat, y \in Nat : x = Power(b)[m] /\ y = Power(b)[n - m] /\ y >= 1
  BY <1>1, PowerIsPositive
<1>3. Power(b)[n] = x * y
  BY <1>1, <1>2, PowersMultiply
<1>4. x <= x * y
  BY <1>2
<1> QED BY <1>2, <1>3, <1>4

\* The powers of two, by which words are shifted.
LEMMA TwoUnfolds ==
  /\ Two \in [Nat -> Nat] /\ Two[0] = 1 /\ Two[1] = 2
  /\ \A n \in Nat : Two[n + 1] = 2 * Two[n] /\ Two[n] >= 1
<1>1. /\ Two \in [Nat -> Nat] /\ Two[0] = 1 /\ \A n \in Nat : Two[n + 1] = 2 * Two[n]
  BY PowerUnfolds DEF Two
<1>2. \A n \in Nat : Two[n] >= 1
  BY PowerIsPositive DEF Two
<1>3. Two[0 + 1] = 2 * 1
  BY <1>1
<1> QED BY <1>1, <1>2, <1>3

LEMMA TwosMultiply ==
  ASSUME NEW m \in Nat, NEW n \in Nat
  PROVE  Two[m + n] = Two[m] * Two[n]
BY PowersMultiply DEF Two

LEMMA TwosGrow ==
  ASSUME NEW m \in Nat, NEW n \in Nat, m <= n
  PROVE  Two[m] <= Two[n]
BY PowersGrow DEF Two

\* A word is two halves, each of two values or more.
LEMMA Halves == Half \in Nat /\ Half >= 2 /\ Word = Half * Half
<1>1. PICK h \in Nat : h = Bits \div 2 /\ Bits = h + h /\ h >= 1
  BY WidthAssumption
<1>2. Half = Two[h] /\ Word = Two[h] * Two[h]
  BY <1>1, TwosMultiply DEF Half, Word
<1>3. Two[1] <= Two[h] /\ Two[h] \in Nat /\ Two[1] = 2
  BY <1>1, TwosGrow, TwoUnfolds
<1> QED BY <1>2, <1>3

-----------------------------------------------------------------------------
(* Scratch satisfies the equation that defines it *)

Part(m) == Longer(m - (m \div 2) + 1, (m \div 2) + 1)
Level(m) == 8 * ((m \div 2) + 2)

\* The halves of factors that are split are shorter than the factors.
LEMMA HalvesAreShorter ==
  ASSUME NEW m \in Nat, m >= Threshold
  PROVE  /\ Part(m) \in Nat /\ Part(m) < m /\ Level(m) \in Nat
         /\ 2 * Part(m) <= m + 3
         /\ Level(m) <= 4 * m + 16
<1>1. m >= 4
  BY ThresholdAssumption
<1>2. PICK h \in Nat : h = m \div 2 /\ 2 * h <= m /\ m <= 2 * h + 1
  OBVIOUS
<1>3. Part(m) = (IF m - h + 1 > h + 1 THEN m - h + 1 ELSE h + 1)
  BY <1>2 DEF Part, Longer
<1>4. Level(m) = 8 * (h + 2)
  BY <1>2 DEF Level
<1> QED BY <1>1, <1>2, <1>3, <1>4

\* What the recursion takes of a known prefix of its values.
Body(m, g) == IF m < Threshold THEN 0 ELSE Level(m) + g[Part(m)]
\* g has the values of Scratch for the lengths up to n.
Upto(n, g) == g \in [0..n -> Nat] /\ \A m \in 0..n : g[m] = Body(m, g)

LEMMA BodyIsNat ==
  ASSUME NEW m \in Nat, NEW g,
         m >= Threshold => g[Part(m)] \in Nat
  PROVE  Body(m, g) \in Nat
BY HalvesAreShorter, ThresholdAssumption DEF Body

\* There is such a prefix of every length.
LEMMA PrefixExists == \A n \in Nat : \E g : Upto(n, g)
<1> DEFINE T == {n \in Nat : ~\E g : Upto(n, g)}
<1> SUFFICES ASSUME T # {} PROVE FALSE
  OBVIOUS
<1>1. PICK n \in T : \A k \in T : n <= k
  <2> HIDE DEF T
  <2>1. T \in SUBSET Nat
    BY DEF T
  <2> QED BY <2>1, LeastOf
<1>2. n \in Nat
  OBVIOUS
<1>3. \E g : g \in [0..(n - 1) -> Nat] /\ \A m \in 0..(n - 1) : g[m] = Body(m, g)
  <2>1. CASE n = 0
    <3>1. 0..(n - 1) = {}
      BY <2>1
    <3> WITNESS [m \in 0..(n - 1) |-> 0]
    <3> QED BY <3>1
  <2>2. CASE n # 0
    <3>1. n - 1 \in Nat /\ ~(n <= n - 1)
      BY <2>2, <1>2
    <3>2. n - 1 \notin T
      BY <3>1, <1>1
    <3> QED BY <3>1, <3>2 DEF Upto
  <2> QED BY <2>1, <2>2
<1>4. PICK g : g \in [0..(n - 1) -> Nat] /\ \A m \in 0..(n - 1) : g[m] = Body(m, g)
  BY <1>3
<1> DEFINE h == [m \in 0..n |-> IF m = n THEN Body(n, g) ELSE g[m]]
<1>5. n >= Threshold => Part(n) \in 0..(n - 1)
  BY HalvesAreShorter, <1>2
<1>6. Body(n, g) \in Nat
  BY <1>2, <1>4, <1>5, BodyIsNat
<1>7. \A m \in 0..(n - 1) : m \in 0..n /\ m # n
  BY <1>2
<1>8. \A m \in 0..n : m = n \/ m \in 0..(n - 1)
  BY <1>2
<1>9. h \in [0..n -> Nat]
  BY <1>4, <1>6, <1>8
<1>10. \A m \in 0..(n - 1) : h[m] = g[m]
  BY <1>7
<1>11. h[n] = Body(n, g)
  BY <1>2
<1>12. ASSUME NEW m \in 0..n PROVE h[m] = Body(m, h)
  <2> HIDE DEF h
  <2>1. m >= Threshold => Part(m) \in 0..(n - 1)
    BY HalvesAreShorter, <1>2
  <2>2. Body(m, h) = Body(m, g)
    BY <2>1, <1>2, <1>10, ThresholdAssumption DEF Body
  <2> QED BY <2>2, <1>4, <1>8, <1>10, <1>11
<1>13. Upto(n, h)
  <2> HIDE DEF h
  <2> QED BY <1>9, <1>12 DEF Upto
<1>14. ~\E f : Upto(n, f)
  OBVIOUS
<1> QED
  <2> HIDE DEF h
  <2> QED BY <1>13, <1>14

\* Two prefixes agree where both have values.
LEMMA PrefixesAgree ==
  ASSUME NEW n \in Nat, NEW g, Upto(n, g), NEW k \in Nat, NEW h, Upto(k, h),
         NEW m \in Nat, m <= n, m <= k
  PROVE  g[m] = h[m]
<1> DEFINE T == {i \in Nat : i <= n /\ i <= k /\ g[i] # h[i]}
<1> SUFFICES ASSUME T # {} PROVE FALSE
  OBVIOUS
<1>1. PICK i \in T : \A j \in T : i <= j
  <2> HIDE DEF T
  <2>1. T \in SUBSET Nat
    BY DEF T
  <2> QED BY <2>1, LeastOf
<1>2. i \in Nat /\ i \in 0..n /\ i \in 0..k /\ g[i] # h[i]
  OBVIOUS
<1>3. g[i] = Body(i, g) /\ h[i] = Body(i, h)
  BY <1>2 DEF Upto
<1>4. i >= Threshold => g[Part(i)] = h[Part(i)]
  <2> SUFFICES ASSUME i >= Threshold PROVE g[Part(i)] = h[Part(i)]
    OBVIOUS
  <2>1. Part(i) \in Nat /\ Part(i) < i
    BY <1>2, HalvesAreShorter
  <2>2. Part(i) \notin T
    BY <2>1, <1>1, <1>2
  <2> QED BY <2>1, <2>2, <1>2
<1> QED BY <1>2, <1>3, <1>4, ThresholdAssumption DEF Body

\* Scratch has naturals as its values, the values of its equation.
LEMMA ScratchUnfolds ==
  /\ Scratch \in [Nat -> Nat]
  /\ \A m \in Nat : Scratch[m] = Body(m, Scratch)
<1> DEFINE G(n) == CHOOSE g : Upto(n, g)
           f == [n \in Nat |-> G(n)[n]]
<1>1. \A n \in Nat : Upto(n, G(n))
  BY PrefixExists
<1> HIDE DEF G
<1>2. \A n \in Nat : f[n] \in Nat
  BY <1>1 DEF Upto
<1>3. ASSUME NEW n \in Nat PROVE f[n] = Body(n, f)
  <2>1. G(n)[n] = Body(n, G(n))
    BY <1>1 DEF Upto
  <2>2. n >= Threshold => G(n)[Part(n)] = f[Part(n)]
    <3> SUFFICES ASSUME n >= Threshold PROVE G(n)[Part(n)] = f[Part(n)]
      OBVIOUS
    <3>1. Part(n) \in Nat /\ Part(n) <= n /\ Part(n) <= Part(n)
      BY HalvesAreShorter
    <3>2. Upto(n, G(n)) /\ Upto(Part(n), G(Part(n)))
      BY <1>1, <3>1
    <3>3. G(n)[Part(n)] = G(Part(n))[Part(n)]
      BY <3>1, <3>2, PrefixesAgree
    <3> QED BY <3>1, <3>3
  <2> QED BY <2>1, <2>2, ThresholdAssumption DEF Body
<1>4. f = [m \in Nat |-> IF m < Threshold THEN 0
                         ELSE LET m2 == m \div 2
                              IN  8 * (m2 + 2) + f[Longer(m - m2 + 1, m2 + 1)]]
  <2> HIDE DEF f
  <2>1. f = [m \in Nat |-> f[m]]
    BY DEF f
  <2> QED BY <2>1, <1>3 DEF Body, Level, Part
<1>5. Scratch = [m \in Nat |-> IF m < Threshold THEN 0
                         ELSE LET m2 == m \div 2
                              IN  8 * (m2 + 2) + Scratch[Longer(m - m2 + 1, m2 + 1)]]
  <2> HIDE DEF f
  <2> QED BY <1>4, Zenon DEF Scratch
<1>6. \A m \in Nat : Scratch[m] = Body(m, Scratch)
  <2> HIDE DEF f
  <2>1. \A m \in Nat :
          Scratch[m] = IF m < Threshold THEN 0
                       ELSE LET m2 == m \div 2
                            IN  8 * (m2 + 2) + Scratch[Longer(m - m2 + 1, m2 + 1)]
    BY <1>5, Zenon
  <2> QED BY <2>1 DEF Body, Level, Part
<1>7. Scratch = [m \in Nat |-> Scratch[m]]
  BY <1>5, Zenon
<1>8. \A m \in Nat : Scratch[m] \in Nat
  <2> DEFINE T == {m \in Nat : Scratch[m] \notin Nat}
  <2> SUFFICES ASSUME T # {} PROVE FALSE
    OBVIOUS
  <2>1. PICK m \in T : \A k \in T : m <= k
    <3>1. T \in SUBSET Nat
      OBVIOUS
    <3> HIDE DEF T
    <3> QED BY <3>1, LeastOf
  <2>2. m \in Nat /\ Scratch[m] \notin Nat
    OBVIOUS
  <2>3. ASSUME m >= Threshold PROVE Scratch[Part(m)] \in Nat
    <3>1. Part(m) \in Nat /\ Part(m) < m
      BY <2>2, <2>3, HalvesAreShorter
    <3>2. ~(m <= Part(m))
      BY <3>1, <2>2
    <3> QED BY <3>1, <3>2, <2>1
  <2>4. Body(m, Scratch) \in Nat
    BY <2>2, <2>3, BodyIsNat
  <2> QED BY <2>2, <2>4, <1>6
<1> QED BY <1>6, <1>7, <1>8

-----------------------------------------------------------------------------
(* How much it is *)

\* Short factors take little: the recursion is at most four levels deep.
LEMMA ScratchOfFew ==
  ASSUME NEW m \in Nat
  PROVE  /\ m <= 3 => Scratch[m] = 0
         /\ m <= 4 => Scratch[m] <= 32
         /\ m <= 6 => Scratch[m] <= 72
         /\ m <= 10 => Scratch[m] <= 128
         /\ m <= 18 => Scratch[m] <= 216
<1>1. \A k \in Nat : /\ Scratch[k] \in Nat
                     /\ k < Threshold => Scratch[k] = 0
                     /\ k >= Threshold => Scratch[k] = Level(k) + Scratch[Part(k)]
  BY ScratchUnfolds, ThresholdAssumption DEF Body
<1>2. ASSUME NEW k \in Nat, k <= 3 PROVE Scratch[k] = 0
  BY <1>1, <1>2, ThresholdAssumption
<1>3. ASSUME NEW k \in Nat, NEW top \in Nat, NEW most \in Nat, k <= 2 * top - 2, top >= 3,
             \A j \in Nat : j <= top => Scratch[j] <= most
      PROVE  Scratch[k] <= 8 * (top + 1) + most
  <2>1. CASE k < Threshold
    BY <2>1, <1>1, <1>3
  <2>2. CASE k >= Threshold
    <3>1. PICK h \in Nat : h = k \div 2 /\ 2 * h <= k
      OBVIOUS
    <3>2. Level(k) = 8 * (h + 2) /\ h <= top - 1
      BY <3>1, <1>3 DEF Level
    <3>3. Part(k) \in Nat /\ 2 * Part(k) <= k + 3
      BY <2>2, HalvesAreShorter
    <3>4. Part(k) <= top
      BY <3>3, <1>3
    <3>5. Scratch[Part(k)] <= most /\ Scratch[Part(k)] \in Nat
      BY <3>3, <3>4, <1>1, <1>3
    <3>6. Scratch[k] = 8 * (h + 2) + Scratch[Part(k)]
      BY <2>2, <1>1, <3>2
    <3> QED BY <3>2, <3>5, <3>6
  <2> QED BY <2>1, <2>2, ThresholdAssumption
<1>4. ASSUME NEW k \in Nat, k <= 4 PROVE Scratch[k] <= 32
  <2>1. \A j \in Nat : j <= 3 => Scratch[j] <= 0
    BY <1>2
  <2> QED BY <2>1, <1>3, <1>4
<1>5. ASSUME NEW k \in Nat, k <= 6 PROVE Scratch[k] <= 72
  <2>1. \A j \in Nat : j <= 4 => Scratch[j] <= 32
    BY <1>4
  <2>2. k <= 2 * 4 - 2 /\ 4 >= 3 /\ 4 \in Nat /\ 32 \in Nat
    BY <1>5
  <2>3. Scratch[k] <= 8 * (4 + 1) + 32
    BY ONLY <1>3, <2>1, <2>2, k \in Nat
  <2> QED BY <2>3, <1>1
<1>6. ASSUME NEW k \in Nat, k <= 10 PROVE Scratch[k] <= 128
  <2>1. \A j \in Nat : j <= 6 => Scratch[j] <= 72
    BY <1>5
  <2>2. k <= 2 * 6 - 2 /\ 6 >= 3 /\ 6 \in Nat /\ 72 \in Nat
    BY <1>6
  <2>3. Scratch[k] <= 8 * (6 + 1) + 72
    BY ONLY <1>3, <2>1, <2>2, k \in Nat
  <2> QED BY <2>3, <1>1
<1>7. ASSUME NEW k \in Nat, k <= 18 PROVE Scratch[k] <= 216
  <2>1. \A j \in Nat : j <= 10 => Scratch[j] <= 128
    BY <1>6
  <2>2. k <= 2 * 10 - 2 /\ 10 >= 3 /\ 10 \in Nat /\ 128 \in Nat
    BY <1>7
  <2>3. Scratch[k] <= 8 * (10 + 1) + 128
    BY ONLY <1>3, <2>1, <2>2, k \in Nat
  <2> QED BY <2>3, <1>1
<1> QED BY <1>2, <1>4, <1>5, <1>6, <1>7

\* The words of tmp that products of factors of any length take are at most
\* those that bigint_mul allocates (src/src/bigint.c: tmp of 11 times the
\* longer factor and 180 words), whatever the threshold below which factors
\* are multiplied word by word.
THEOREM ScratchFits == \A m \in Nat : Scratch[m] <= TmpBound(m)
<1> DEFINE T == {m \in Nat : ~(Scratch[m] <= TmpBound(m))}
<1> SUFFICES ASSUME T # {} PROVE FALSE
  OBVIOUS
<1>1. PICK m \in T : \A k \in T : m <= k
  <2>1. T \in SUBSET Nat
    OBVIOUS
  <2> HIDE DEF T
  <2> QED BY <2>1, LeastOf
<1>2. m \in Nat /\ Scratch[m] \in Nat /\ ~(Scratch[m] <= 11 * m + 180)
  BY ScratchUnfolds DEF TmpBound
<1>3. CASE m < Threshold
  BY <1>2, <1>3, ScratchUnfolds DEF Body
<1>4. CASE m >= Threshold /\ m <= 18
  BY <1>2, <1>4, ScratchOfFew, ThresholdAssumption
<1>5. CASE m >= Threshold /\ m > 18
  <2>1. PICK h \in Nat : h = m \div 2 /\ 2 * h <= m /\ m <= 2 * h + 1
    BY <1>2
  <2>2. Level(m) = 8 * (h + 2)
    BY <2>1 DEF Level
  <2>3. PICK k \in Nat : k = Part(m) /\ k < m /\ 2 * k <= m + 3
    BY <1>2, <1>5, HalvesAreShorter
  <2>4. ~(m <= k)
    BY <2>3, <1>2
  <2>5. Scratch[k] <= 11 * k + 180 /\ Scratch[k] \in Nat
    BY <2>3, <2>4, <1>1, ScratchUnfolds DEF TmpBound
  <2>6. Scratch[m] = 8 * (h + 2) + Scratch[k]
    BY <1>2, <1>5, <2>2, <2>3, ScratchUnfolds, ThresholdAssumption DEF Body
  <2> QED BY <1>2, <1>5, <2>1, <2>3, <2>5, <2>6
<1> QED BY <1>2, <1>3, <1>4, <1>5, ThresholdAssumption

\* The property that the run `numbers' checks, for every bound on the words.
THEOREM TmpIsEnough == Spec => []ScratchIsEnough
<1>1. ScratchIsEnough
  BY ScratchFits, BoundsAssumption DEF ScratchIsEnough
<1>2. ScratchIsEnough'
  BY ScratchFits, BoundsAssumption DEF ScratchIsEnough
<1> QED BY <1>1, <1>2, PTL
-----------------------------------------------------------------------------
(* Walks over words *)

\* What a step may write and carry.
Results == [w : Words, c : Words]
Steps(n) == [1..n -> [Words -> Results]]

LEMMA WordFacts ==
  /\ Word \in Nat /\ Word >= 4 /\ 0 \in Words /\ 1 \in Words
  /\ Words \subseteq Nat /\ \A x \in Nat : x \in Words <=> x < Word
<1>1. Half * Half \in Nat /\ Half * Half >= 4
  BY Halves
<1>2. Word \in Nat /\ Word >= 4
  BY <1>1, Halves
<1> QED BY <1>2 DEF Words

LEMMA CarriedUnfolds ==
  ASSUME NEW n \in Nat, NEW step \in Steps(n)
  PROVE  /\ Carried(n, step) \in [0..n -> Words]
         /\ Carried(n, step)[0] = 0
         /\ \A i \in 1..n : Carried(n, step)[i] = step[i][Carried(n, step)[i - 1]].c
<1> DEFINE next == [p \in (1..n) \X Words |-> step[p[1]][p[2]].c]
<1>1. next \in [(1..n) \X Words -> Words]
  BY DEF Steps, Results
<1>2. PICK f \in [0..n -> Words] : Follows(n, f, 0, next)
  <2> HIDE DEF next
  <2> QED BY <1>1, WordFacts, UpwardExists
<1>3. f[0] = 0
  BY <1>2 DEF Follows
<1>4. ASSUME NEW i \in 1..n PROVE f[i] = step[i][f[i - 1]].c
  <2>1. i - 1 \in 0..n
    OBVIOUS
  <2>2. <<i, f[i - 1]>> \in (1..n) \X Words
    BY <2>1
  <2>3. f[i] = next[<<i, f[i - 1]>>]
    BY <1>2 DEF Follows
  <2> QED BY <2>2, <2>3
<1>5. f = [i \in 0..n |-> IF i = 0 THEN 0 ELSE step[i][f[i - 1]].c]
  <2>1. f = [i \in 0..n |-> f[i]]
    OBVIOUS
  <2>2. \A i \in 0..n : f[i] = IF i = 0 THEN 0 ELSE step[i][f[i - 1]].c
    <3>1. \A i \in 0..n : i = 0 \/ i \in 1..n
      OBVIOUS
    <3> QED BY <3>1, <1>3, <1>4
  <2> QED BY <2>1, <2>2
<1> DEFINE C == Carried(n, step)
<1>6. C = [i \in 0..n |-> IF i = 0 THEN 0 ELSE step[i][C[i - 1]].c]
  <2> HIDE DEF next
  <2> QED BY <1>5, Zenon DEF Carried
<1> HIDE DEF C
<1>7. C[0] = 0 /\ \A i \in 1..n : C[i] = step[i][C[i - 1]].c
  <2>1. 0 \in 0..n /\ \A i \in 1..n : i \in 0..n /\ i # 0
    OBVIOUS
  <2> QED BY <2>1, <1>6
<1>8. \A i \in Nat : i <= n => C[i] \in Words
  <2> DEFINE T == {i \in Nat : i <= n => C[i] \in Words}
  <2>1. 0 \in T
    BY <1>7, WordFacts
  <2>2. ASSUME NEW i \in Nat, i \in T PROVE i + 1 \in T
    <3> SUFFICES ASSUME i + 1 <= n PROVE C[i + 1] \in Words
      OBVIOUS
    <3>1. C[i] \in Words /\ i + 1 \in 1..n /\ (i + 1) - 1 = i
      BY <2>2
    <3>2. C[i + 1] = step[i + 1][C[i]].c
      BY <3>1, <1>7
    <3>3. step[i + 1][C[i]] \in Results
      BY <3>1 DEF Steps
    <3> QED BY <3>2, <3>3 DEF Results
  <2>3. \A i \in Nat : i \in T
    <3> HIDE DEF T
    <3> QED BY <2>1, <2>2, Induction
  <2> QED BY <2>3
<1>9. C \in [0..n -> Words]
  <2>1. C = [i \in 0..n |-> C[i]]
    BY <1>6, Zenon
  <2> QED BY <2>1, <1>8
<1> QED BY <1>7, <1>9 DEF C

\* A walk writes as many words as it walks over.
LEMMA WalkedUnfolds ==
  ASSUME NEW n \in Nat, NEW step \in Steps(n), NEW C, C = Carried(n, step)
  PROVE  /\ Walked(n, step).w \in [1..n -> Words] /\ Walked(n, step).c = C[n]
         /\ C \in [0..n -> Words] /\ C[0] = 0
         /\ \A i \in 1..n :
              /\ step[i][C[i - 1]] \in Results
              /\ Walked(n, step).w[i] = step[i][C[i - 1]].w
              /\ C[i] = step[i][C[i - 1]].c
<1>1. C \in [0..n -> Words] /\ C[0] = 0 /\ \A i \in 1..n : C[i] = step[i][C[i - 1]].c
  BY CarriedUnfolds
<1>2. ASSUME NEW i \in 1..n PROVE step[i][C[i - 1]] \in Results
  <2>1. i - 1 \in 0..n
    OBVIOUS
  <2>2. <<i, C[i - 1]>> \in (1..n) \X Words
    BY <1>1, <2>1
  <2> QED BY <2>2 DEF Steps
<1>3. /\ Walked(n, step).w = [i \in 1..n |-> step[i][C[i - 1]].w]
      /\ Walked(n, step).c = C[n]
  BY DEF Walked
<1> QED BY <1>1, <1>2, <1>3 DEF Results

-----------------------------------------------------------------------------
(* What words stand for *)

\* The integer of the words from i up.
Above(w, i) == IF i > Len(w) THEN 0 ELSE High(w)[Len(w) + 1 - i]

LEMMA HighUnfolds ==
  ASSUME NEW w \in Seq(Words)
  PROVE  /\ High(w) \in [0..Len(w) -> Nat]
         /\ High(w)[0] = 0
         /\ \A k \in 1..Len(w) : High(w)[k] = w[Len(w) + 1 - k] + Word * High(w)[k - 1]
<1> DEFINE n == Len(w)
           next == [p \in (1..n) \X Nat |-> w[n + 1 - p[1]] + Word * p[2]]
<1>1. n \in Nat
  OBVIOUS
<1>2. \A k \in 1..n : w[n + 1 - k] \in Nat
  <2>1. \A i \in 1..n : w[i] \in Words
    OBVIOUS
  <2>2. \A k \in 1..n : n + 1 - k \in 1..n
    BY <1>1
  <2> QED BY <2>1, <2>2, WordFacts
<1>3. \A a \in Nat, b \in Nat : a + Word * b \in Nat
  <2>1. \A b \in Nat : Word * b \in Nat
    BY WordFacts
  <2> QED BY <2>1
<1>4. next \in [(1..n) \X Nat -> Nat]
  <2>1. ASSUME NEW p \in (1..n) \X Nat PROVE w[n + 1 - p[1]] + Word * p[2] \in Nat
    <3>1. p[1] \in 1..n /\ p[2] \in Nat
      OBVIOUS
    <3> QED BY <3>1, <1>2, <1>3
  <2> QED BY <2>1
<1>5. PICK f \in [0..n -> Nat] : Follows(n, f, 0, next)
  <2> HIDE DEF next, n
  <2> QED BY <1>1, <1>4, UpwardExists
<1>6. f[0] = 0
  BY <1>5 DEF Follows
<1>7. ASSUME NEW k \in 1..n PROVE f[k] = w[n + 1 - k] + Word * f[k - 1]
  <2>1. k - 1 \in 0..n
    OBVIOUS
  <2>2. <<k, f[k - 1]>> \in (1..n) \X Nat
    BY <2>1
  <2>3. f[k] = next[<<k, f[k - 1]>>]
    BY <1>5 DEF Follows
  <2> QED BY <2>2, <2>3
<1>8. f = [k \in 0..n |-> IF k = 0 THEN 0 ELSE w[n + 1 - k] + Word * f[k - 1]]
  <2>1. f = [k \in 0..n |-> f[k]]
    OBVIOUS
  <2>2. \A k \in 0..n : f[k] = IF k = 0 THEN 0 ELSE w[n + 1 - k] + Word * f[k - 1]
    <3>1. \A k \in 0..n : k = 0 \/ k \in 1..n
      OBVIOUS
    <3> QED BY <3>1, <1>6, <1>7
  <2> QED BY <2>1, <2>2
<1> DEFINE H == High(w)
<1>9. H = [k \in 0..n |-> IF k = 0 THEN 0 ELSE w[n + 1 - k] + Word * H[k - 1]]
  <2> HIDE DEF next
  <2> QED BY <1>8, Zenon DEF High
<1> HIDE DEF H, n
<1>10. H[0] = 0 /\ \A k \in 1..n : H[k] = w[n + 1 - k] + Word * H[k - 1]
  <2>1. 0 \in 0..n /\ \A k \in 1..n : k \in 0..n /\ k # 0
    BY <1>1
  <2> QED BY <2>1, <1>9
<1>11. \A k \in Nat : k <= n => H[k] \in Nat
  <2> DEFINE T == {k \in Nat : k <= n => H[k] \in Nat}
  <2>1. 0 \in T
    BY <1>10
  <2>2. ASSUME NEW k \in Nat, k \in T PROVE k + 1 \in T
    <3> SUFFICES ASSUME k + 1 <= n PROVE H[k + 1] \in Nat
      OBVIOUS
    <3>1. H[k] \in Nat /\ k + 1 \in 1..n /\ (k + 1) - 1 = k
      BY <2>2, <1>1
    <3>2. H[k + 1] = w[n + 1 - (k + 1)] + Word * H[k]
      BY <3>1, <1>10
    <3>3. w[n + 1 - (k + 1)] \in Nat
      BY <3>1, <1>2
    <3> QED BY <3>1, <3>2, <3>3, <1>3
  <2>3. \A k \in Nat : k \in T
    <3> HIDE DEF T
    <3> QED BY <2>1, <2>2, Induction
  <2> QED BY <2>3
<1>12. H \in [0..n -> Nat]
  <2>1. H = [k \in 0..n |-> H[k]]
    BY <1>9, Zenon
  <2> QED BY <2>1, <1>11, <1>1
<1> QED BY <1>10, <1>12 DEF H, n

LEMMA AboveIsNat ==
  ASSUME NEW w \in Seq(Words), NEW i \in Nat, i # 0
  PROVE  Above(w, i) \in Nat
<1>1. CASE i > Len(w)
  BY <1>1 DEF Above
<1>2. CASE ~(i > Len(w))
  <2>1. Len(w) + 1 - i \in 0..Len(w)
    BY <1>2
  <2>2. High(w) \in [0..Len(w) -> Nat]
    BY HighUnfolds
  <2> QED BY <1>2, <2>1, <2>2 DEF Above
<1> QED BY <1>1, <1>2

LEMMA AtIsWord ==
  ASSUME NEW w \in Seq(Words), NEW i \in Nat
  PROVE  At(w, i) \in Words /\ At(w, i) \in Nat
<1>1. CASE i \in 1..Len(w)
  <2>1. w[i] \in Words
    BY <1>1
  <2> QED BY <1>1, <2>1, WordFacts DEF At
<1>2. CASE i \notin 1..Len(w)
  BY <1>2, WordFacts DEF At
<1> QED BY <1>1, <1>2

LEMMA AboveEnds ==
  ASSUME NEW w \in Seq(Words), NEW i \in Nat, i > Len(w)
  PROVE  Above(w, i) = 0
BY DEF Above

\* The words from i up are the word i and, a word higher, those above it.
LEMMA AboveSplits ==
  ASSUME NEW w \in Seq(Words), NEW i \in Nat, i # 0
  PROVE  Above(w, i) = At(w, i) + Word * Above(w, i + 1)
<1>1. CASE i > Len(w)
  <2>1. Above(w, i) = 0 /\ Above(w, i + 1) = 0 /\ At(w, i) = 0
    BY <1>1 DEF Above, At
  <2> QED BY <2>1, WordFacts
<1>2. CASE i <= Len(w)
  <2>1. /\ Len(w) + 1 - i \in 1..Len(w) /\ Len(w) + 1 - (Len(w) + 1 - i) = i
        /\ (Len(w) + 1 - i) - 1 = Len(w) + 1 - (i + 1) /\ ~(i > Len(w)) /\ i \in 1..Len(w)
    BY <1>2
  <2>2. Above(w, i) = w[i] + Word * High(w)[Len(w) + 1 - (i + 1)]
    BY <2>1, HighUnfolds DEF Above
  <2>3. High(w)[Len(w) + 1 - (i + 1)] = Above(w, i + 1)
    <3>1. CASE i + 1 > Len(w)
      <4>1. Len(w) + 1 - (i + 1) = 0
        BY <3>1, <2>1
      <4> QED BY <4>1, <3>1, HighUnfolds DEF Above
    <3>2. CASE ~(i + 1 > Len(w))
      BY <3>2 DEF Above
    <3> QED BY <3>1, <3>2
  <2> QED BY <2>1, <2>2, <2>3 DEF At
<1> QED BY <1>1, <1>2

LEMMA AboveAll ==
  ASSUME NEW w \in Seq(Words)
  PROVE  ValueOf(w) = Above(w, 1) /\ ValueOf(w) \in Nat
<1>1. CASE Len(w) = 0
  <2>1. Above(w, 1) = 0
    BY <1>1 DEF Above
  <2>2. ValueOf(w) = High(w)[0]
    BY <1>1 DEF ValueOf
  <2> QED BY <2>1, <2>2, HighUnfolds
<1>2. CASE Len(w) # 0
  <2>1. ~(1 > Len(w)) /\ Len(w) + 1 - 1 = Len(w)
    BY <1>2
  <2> QED BY <2>1, HighUnfolds DEF ValueOf, Above
<1> QED BY <1>1, <1>2

\* What holds of m and, below it, of a number if of the next one.
LEMMA Downward ==
  ASSUME NEW m \in Nat \ {0}, NEW T, m \in T,
         \A i \in 1..(m - 1) : i + 1 \in T => i \in T
  PROVE  \A i \in 1..m : i \in T
<1> DEFINE U == {k \in Nat : k <= m - 1 => m - k \in T}
<1>1. 0 \in U
  OBVIOUS
<1>2. ASSUME NEW k \in Nat, k \in U PROVE k + 1 \in U
  <2> SUFFICES ASSUME k + 1 <= m - 1 PROVE m - (k + 1) \in T
    OBVIOUS
  <2>1. m - k \in T
    BY <1>2
  <2>2. m - (k + 1) \in 1..(m - 1) /\ (m - (k + 1)) + 1 = m - k
    OBVIOUS
  <2> QED BY <2>1, <2>2
<1>3. \A k \in Nat : k \in U
  <2> HIDE DEF U
  <2> QED BY <1>1, <1>2, Induction
<1>4. ASSUME NEW i \in 1..m PROVE i \in T
  <2>1. m - i \in Nat /\ m - i <= m - 1 /\ m - (m - i) = i
    OBVIOUS
  <2>2. m - i \in U
    BY <2>1, <1>3
  <2>3. m - (m - i) \in T
    BY <2>1, <2>2
  <2> QED BY <2>1, <2>3
<1> QED BY <1>4

\* Words that are the same where they are not zero stand for the same.
LEMMA SameWordsSameValue ==
  ASSUME NEW v \in Seq(Words), NEW w \in Seq(Words),
         \A i \in Nat \ {0} : At(v, i) = At(w, i)
  PROVE  ValueOf(v) = ValueOf(w)
<1> DEFINE m == Len(v) + Len(w) + 1
           T == {i \in Nat \ {0} : Above(v, i) = Above(w, i)}
<1>1. m \in Nat \ {0} /\ m > Len(v) /\ m > Len(w)
  OBVIOUS
<1>2. m \in T
  BY <1>1, AboveEnds
<1>3. ASSUME NEW i \in 1..(m - 1), i + 1 \in T PROVE i \in T
  <2>1. i \in Nat \ {0} /\ Above(v, i + 1) = Above(w, i + 1)
    BY <1>1, <1>3
  <2>2. /\ Above(v, i) = At(v, i) + Word * Above(v, i + 1)
        /\ Above(w, i) = At(w, i) + Word * Above(w, i + 1)
    BY <2>1, AboveSplits
  <2> QED BY <2>1, <2>2
<1>4. 1 \in T
  <2> HIDE DEF T, m
  <2>1. 1 \in 1..m
    BY <1>1
  <2> QED BY <1>1, <1>2, <1>3, <2>1, Downward
<1> QED BY <1>4, AboveAll

\* No word at the top that is zero: the words of a number.
Normal(w) == w \in Seq(Words) /\ (w # <<>> => w[Len(w)] # 0)

\* What is cut off is zero.
LEMMA TruncateCuts ==
  ASSUME NEW w \in Seq(Words)
  PROVE  /\ Normal(Truncate(w))
         /\ Len(Truncate(w)) <= Len(w)
         /\ \A i \in Nat \ {0} : At(Truncate(w), i) = At(w, i)
         /\ ValueOf(Truncate(w)) = ValueOf(w)
<1> DEFINE Cut(n) == (n = 0 \/ w[n] # 0) /\ \A i \in (n + 1)..Len(w) : w[i] = 0
           Z == {n \in 0..Len(w) : \A i \in (n + 1)..Len(w) : w[i] = 0}
<1>1. \E n \in 0..Len(w) : Cut(n)
  <2>1. Len(w) \in Z
    OBVIOUS
  <2>2. PICK n \in Z : \A k \in Z : n <= k
    <3>1. Z \in SUBSET Nat
      OBVIOUS
    <3> HIDE DEF Z
    <3> QED BY <2>1, <3>1, LeastOf
  <2>3. n \in 0..Len(w) /\ \A i \in (n + 1)..Len(w) : w[i] = 0
    OBVIOUS
  <2>4. ASSUME n # 0, w[n] = 0 PROVE FALSE
    <3>1. n - 1 \in 0..Len(w) /\ ~(n <= n - 1)
      BY <2>3, <2>4
    <3>2. \A i \in (n - 1 + 1)..Len(w) : i = n \/ i \in (n + 1)..Len(w)
      BY <2>3
    <3>3. n - 1 \in Z
      BY <3>1, <3>2, <2>3, <2>4
    <3> QED BY <2>2, <3>1, <3>3
  <2> QED BY <2>3, <2>4
<1>2. PICK n \in 0..Len(w) : Cut(n) /\ Truncate(w) = SubSeq(w, 1, n)
  <2>1. Cut(CHOOSE n \in 0..Len(w) : Cut(n)) /\ (CHOOSE n \in 0..Len(w) : Cut(n)) \in 0..Len(w)
    <3> HIDE DEF Cut
    <3> QED BY <1>1
  <2> QED BY <2>1 DEF Truncate
<1> DEFINE t == SubSeq(w, 1, n)
<1>3. t \in Seq(Words) /\ Len(t) = n /\ \A i \in 1..n : t[i] = w[i]
  OBVIOUS
<1> HIDE DEF t
<1>4. Normal(t)
  <2>1. t # <<>> => n # 0
    BY <1>3
  <2> QED BY <1>2, <1>3, <2>1 DEF Normal
<1>5. \A i \in Nat \ {0} : At(t, i) = At(w, i)
  <2> SUFFICES ASSUME NEW i \in Nat \ {0} PROVE At(t, i) = At(w, i)
    OBVIOUS
  <2>1. CASE i <= n
    BY <2>1, <1>3 DEF At
  <2>2. CASE ~(i <= n)
    <3>1. i \notin 1..n /\ (i \in 1..Len(w) => i \in (n + 1)..Len(w))
      BY <2>2
    <3>2. At(t, i) = 0
      BY <3>1, <1>3 DEF At
    <3>3. At(w, i) = 0
      BY <3>1, <1>2 DEF At
    <3> QED BY <3>2, <3>3
  <2> QED BY <2>1, <2>2
<1>6. ValueOf(t) = ValueOf(w)
  BY <1>3, <1>5, SameWordsSameValue
<1> QED BY <1>2, <1>3, <1>4, <1>5, <1>6 DEF t

\* A normal sequence of words is one that nothing is cut off.
LEMMA NormalIsTruncated ==
  ASSUME NEW w \in Seq(Words)
  PROVE  Normal(w) <=> w = Truncate(w)
<1>1. w = Truncate(w) => Normal(w)
  BY TruncateCuts
<1>2. ASSUME Normal(w) PROVE w = Truncate(w)
  <2>1. PICK t \in Seq(Words) : t = Truncate(w)
    BY TruncateCuts DEF Normal
  <2>2. Len(t) <= Len(w) /\ Normal(t) /\ \A i \in Nat \ {0} : At(t, i) = At(w, i)
    BY <2>1, TruncateCuts
  <2>3. Len(t) = Len(w)
    <3> SUFFICES ASSUME Len(t) < Len(w) PROVE FALSE
      BY <2>2
    <3>1. Len(w) \in Nat \ {0} /\ Len(w) \in 1..Len(w) /\ Len(w) \notin 1..Len(t) /\ w # <<>>
      OBVIOUS
    <3>2. At(t, Len(w)) = 0 /\ At(w, Len(w)) = w[Len(w)]
      BY <3>1 DEF At
    <3>3. w[Len(w)] # 0
      BY <3>1, <1>2 DEF Normal
    <3> QED BY <2>2, <3>1, <3>2, <3>3
  <2>4. \A i \in 1..Len(w) : t[i] = w[i]
    BY <2>2, <2>3 DEF At
  <2>5. t = w
    BY <2>3, <2>4
  <2> QED BY <2>1, <2>5
<1> QED BY <1>1, <1>2

-----------------------------------------------------------------------------
(* Comparing *)

\* The number with more at some place and above is the greater.
LEMMA GreaterAbove ==
  ASSUME NEW a \in Seq(Words), NEW b \in Seq(Words), NEW top \in Nat \ {0},
         Above(a, top) < Above(b, top)
  PROVE  ValueOf(a) < ValueOf(b)
<1> DEFINE T == {i \in Nat \ {0} : Above(a, i) < Above(b, i)}
<1>1. ASSUME NEW i \in 1..(top - 1), i + 1 \in T PROVE i \in T
  <2>1. i \in Nat \ {0} /\ i + 1 \in Nat \ {0}
    OBVIOUS
  <2>2. PICK x \in Nat, y \in Nat : x = Above(a, i + 1) /\ y = Above(b, i + 1) /\ x < y
    BY <1>1, <2>1, AboveIsNat
  <2>3. PICK d \in Words, e \in Words : Above(a, i) = d + Word * x /\ Above(b, i) = e + Word * y
    <3>1. /\ Above(a, i) = At(a, i) + Word * x
          /\ Above(b, i) = At(b, i) + Word * y
      BY <2>1, <2>2, AboveSplits
    <3>2. At(a, i) \in Words /\ At(b, i) \in Words
      BY <2>1, AtIsWord
    <3> QED BY <3>1, <3>2
  <2>4. Word * x + Word <= Word * y /\ Word * x \in Nat /\ Word * y \in Nat
    BY <2>2, WordFacts
  <2>5. d \in Nat /\ d < Word /\ e \in Nat /\ Word \in Nat
    BY <2>3, WordFacts
  <2>6. d + Word * x < e + Word * y
    BY <2>4, <2>5
  <2> QED BY <2>1, <2>3, <2>6
<1>2. top \in T
  OBVIOUS
<1>3. 1 \in T
  <2> HIDE DEF T
  <2>1. 1 \in 1..top
    OBVIOUS
  <2> QED BY <1>1, <1>2, <2>1, Downward
<1> QED BY <1>3, AboveAll

\* Longer normal words stand for more.
LEMMA LongerIsGreater ==
  ASSUME NEW u, NEW v, Normal(u), Normal(v), Len(u) < Len(v)
  PROVE  ValueOf(u) < ValueOf(v)
<1>1. u \in Seq(Words) /\ v \in Seq(Words)
  BY DEF Normal
<1>2. PICK n \in Nat \ {0} : n = Len(v) /\ n > Len(u) /\ v # <<>> /\ n \in 1..Len(v)
  BY <1>1
<1>3. Above(u, n) = 0
  BY <1>1, <1>2, AboveEnds
<1>4. At(v, n) \in Words /\ At(v, n) # 0 /\ At(v, n) \in Nat
  BY <1>1, <1>2, AtIsWord DEF At, Normal
<1>5. Above(v, n + 1) = 0
  BY <1>1, <1>2, AboveEnds
<1>6. Above(v, n) = At(v, n) + Word * 0
  BY <1>1, <1>2, <1>5, AboveSplits
<1>7. Above(v, n) = At(v, n) /\ At(v, n) > 0
  <2>1. Word * 0 = 0
    BY WordFacts
  <2> QED BY <2>1, <1>4, <1>6
<1> QED BY <1>1, <1>3, <1>7, GreaterAbove

\* bigint_raw_cmp_abs orders normal words as the integers they stand for.
LEMMA CmpAbsIsRight ==
  ASSUME NEW a, NEW b, Normal(a), Normal(b)
  PROVE  CmpAbs(a, b) = IF ValueOf(a) = ValueOf(b) THEN 0
                        ELSE IF ValueOf(a) < ValueOf(b) THEN -1 ELSE 1
<1>1. a \in Seq(Words) /\ b \in Seq(Words) /\ ValueOf(a) \in Nat /\ ValueOf(b) \in Nat
  BY AboveAll DEF Normal
<1>2. ASSUME NEW u, NEW v, Normal(u), Normal(v), Len(u) < Len(v)
      PROVE  ValueOf(u) < ValueOf(v)
  BY <1>2, LongerIsGreater
<1>3. CASE Len(a) # Len(b)
  <2>1. CASE Len(a) < Len(b)
    <3>1. ValueOf(a) < ValueOf(b)
      BY <2>1, <1>2
    <3>2. ~(Len(a) > Len(b))
      BY <1>1, <2>1
    <3> QED BY <1>1, <1>3, <3>1, <3>2 DEF CmpAbs
  <2>2. CASE Len(b) < Len(a)
    <3>1. ValueOf(b) < ValueOf(a)
      BY <2>2, <1>2
    <3> QED BY <1>1, <1>3, <2>2, <3>1 DEF CmpAbs
  <2>3. Len(a) < Len(b) \/ Len(b) < Len(a)
    BY <1>1, <1>3
  <2> QED BY <2>1, <2>2, <2>3
<1>4. CASE Len(a) = Len(b)
  <2> DEFINE D == {i \in 1..Len(a) : a[i] # b[i]}
             Top(i) == i \in D /\ \A j \in D : j <= i
  <2>1. CASE D = {}
    <3>1. a = b
      BY <1>1, <1>4, <2>1
    <3> QED BY <1>4, <2>1, <3>1 DEF CmpAbs
  <2>2. CASE D # {}
    <3>1. \E i \in D : \A j \in D : j <= i
      <4> DEFINE U == {k \in Nat : \A j \in D : j <= k}
      <4>1. Len(a) \in U
        BY <1>1
      <4>2. PICK k \in U : \A j \in U : k <= j
        <5>1. U \in SUBSET Nat
          OBVIOUS
        <5> HIDE DEF U
        <5> QED BY <4>1, <5>1, LeastOf
      <4>3. k \in Nat /\ \A j \in D : j <= k
        OBVIOUS
      <4>4. k \in D
        <5> SUFFICES ASSUME k \notin D PROVE FALSE
          OBVIOUS
        <5>1. \A j \in D : j \in Nat /\ j # 0 /\ j < k
          BY <1>1, <4>3
        <5>2. k # 0
          BY <2>2, <5>1, <4>3
        <5>3. k - 1 \in Nat /\ (\A j \in D : j <= k - 1) /\ ~(k <= k - 1)
          BY <4>3, <5>1, <5>2
        <5>4. k - 1 \in U
          BY <5>3
        <5> QED BY <4>2, <5>3, <5>4
      <4> QED BY <4>3, <4>4
    <3>2. PICK top \in D : /\ \A j \in D : j <= top
                           /\ CmpAbs(a, b) = IF a[top] < b[top] THEN -1 ELSE 1
      <4>1. (CHOOSE i \in D : \A j \in D : j <= i) \in D
            /\ \A j \in D : j <= CHOOSE i \in D : \A m \in D : m <= i
        <5> HIDE DEF D
        <5> QED BY <3>1
      <4> QED BY <4>1, <2>2, <1>4 DEF CmpAbs
    <3>3. top \in Nat \ {0} /\ top \in 1..Len(a) /\ top \in 1..Len(b) /\ a[top] # b[top]
      BY <1>1, <1>4
    <3>4. \A i \in Nat \ {0} : i > top => At(a, i) = At(b, i)
      BY <1>1, <1>4, <3>2 DEF At
    <3>5. Above(a, top + 1) = Above(b, top + 1)
      <4> DEFINE m == Len(a) + 1
                 T == {i \in Nat \ {0} : i > top => Above(a, i) = Above(b, i)}
      <4>1. m \in Nat \ {0} /\ m > Len(a) /\ m > Len(b) /\ top + 1 \in 1..m /\ top + 1 > top
        BY <1>1, <1>4, <3>3
      <4>2. m \in T
        BY <1>1, <4>1, AboveEnds
      <4>3. ASSUME NEW i \in 1..(m - 1), i + 1 \in T PROVE i \in T
        <5> SUFFICES ASSUME i > top PROVE Above(a, i) = Above(b, i)
          BY <4>1
        <5>1. i \in Nat \ {0} /\ i + 1 > top
          BY <4>1, <3>3
        <5>2. Above(a, i + 1) = Above(b, i + 1) /\ At(a, i) = At(b, i)
          BY <4>3, <5>1, <3>4
        <5>3. /\ Above(a, i) = At(a, i) + Word * Above(a, i + 1)
              /\ Above(b, i) = At(b, i) + Word * Above(b, i + 1)
          BY <1>1, <5>1, AboveSplits
        <5> QED BY <5>2, <5>3
      <4>4. top + 1 \in T
        <5> HIDE DEF T, m
        <5> QED BY <4>1, <4>2, <4>3, Downward
      <4> QED BY <4>1, <4>4, <3>3
    <3>6. PICK x \in Nat : Above(a, top) = a[top] + Word * x /\ Above(b, top) = b[top] + Word * x
      <4>1. Above(a, top + 1) \in Nat
        BY <1>1, <3>3, AboveIsNat
      <4>2. At(a, top) = a[top] /\ At(b, top) = b[top]
        BY <3>3 DEF At
      <4>3. /\ Above(a, top) = At(a, top) + Word * Above(a, top + 1)
            /\ Above(b, top) = At(b, top) + Word * Above(b, top + 1)
        BY <1>1, <3>3, AboveSplits
      <4> QED BY <3>5, <4>1, <4>2, <4>3
    <3>7. a[top] \in Nat /\ b[top] \in Nat /\ Word * x \in Nat
      <4>1. a[top] \in Words /\ b[top] \in Words
        BY <1>1, <3>3
      <4>2. Word * x \in Nat
        BY WordFacts
      <4>3. Words \subseteq Nat
        BY WordFacts
      <4> QED BY <4>1, <4>2, <4>3
    <3>8. CASE a[top] < b[top]
      <4>1. Above(a, top) < Above(b, top)
        BY <3>6, <3>7, <3>8
      <4>2. ValueOf(a) < ValueOf(b)
        BY <4>1, <1>1, <3>3, GreaterAbove
      <4> QED BY <4>2, <3>2, <3>8, <1>1
    <3>9. CASE b[top] < a[top]
      <4>1. Above(b, top) < Above(a, top)
        BY <3>6, <3>7, <3>9
      <4>2. ValueOf(b) < ValueOf(a)
        BY <4>1, <1>1, <3>3, GreaterAbove
      <4>3. ~(a[top] < b[top])
        BY <3>7, <3>9
      <4> QED BY <4>2, <4>3, <3>2, <1>1
    <3> QED BY <3>3, <3>7, <3>8, <3>9
  <2> QED BY <2>1, <2>2
<1> QED BY <1>3, <1>4

-----------------------------------------------------------------------------
(* Adding and subtracting *)

\* The carry that bigint_word_add_get_carry tells by comparing is the one that
\* the sum of two words has, and so of _sub_get_carry and the difference.
LEMMA AddCarryIsRight ==
  ASSUME NEW a \in Words, NEW b \in Words
  PROVE  /\ AddCarry(a, b) \in Results /\ AddCarry(a, b).c \in {0, 1}
         /\ AddCarry(a, b).w + Word * AddCarry(a, b).c = a + b
<1>1. a \in Nat /\ b \in Nat /\ a < Word /\ b < Word /\ Word \in Nat /\ Word >= 4
  BY WordFacts
<1>2. CASE a + b < Word
  <2>1. (a + b) % Word = a + b
    BY <1>1, <1>2
  <2>2. AddCarry(a, b) = [w |-> a + b, c |-> 0]
    BY <1>1, <2>1 DEF AddCarry
  <2>3. a + b \in Words /\ Word * 0 = 0
    BY <1>1, <1>2, WordFacts
  <2> QED BY <1>1, <2>2, <2>3, WordFacts DEF Results
<1>3. CASE Word <= a + b
  <2>1. (a + b) % Word = a + b - Word
    BY <1>1, <1>3
  <2>2. AddCarry(a, b) = [w |-> a + b - Word, c |-> 1]
    BY <1>1, <2>1 DEF AddCarry
  <2>3. a + b - Word \in Words /\ Word * 1 = Word
    BY <1>1, <1>3, WordFacts
  <2> QED BY <1>1, <2>2, <2>3, WordFacts DEF Results
<1> QED BY <1>1, <1>2, <1>3

LEMMA SubCarryIsRight ==
  ASSUME NEW a \in Words, NEW b \in Words
  PROVE  /\ SubCarry(a, b) \in Results /\ SubCarry(a, b).c \in {0, 1}
         /\ SubCarry(a, b).w = a - b + Word * SubCarry(a, b).c
<1>1. a \in Nat /\ b \in Nat /\ a < Word /\ b < Word /\ Word \in Nat /\ Word >= 4
  BY WordFacts
<1>2. CASE b <= a
  <2>1. (a - b) % Word = a - b
    BY <1>1, <1>2
  <2>2. SubCarry(a, b) = [w |-> a - b, c |-> 0]
    BY <1>1, <2>1 DEF SubCarry
  <2>3. a - b \in Words /\ Word * 0 = 0
    BY <1>1, <1>2, WordFacts
  <2> QED BY <1>1, <2>2, <2>3, WordFacts DEF Results
<1>3. CASE a < b
  <2>1. (a - b) % Word = a - b + Word
    BY <1>1, <1>3
  <2>2. SubCarry(a, b) = [w |-> a - b + Word, c |-> 1]
    BY <1>1, <2>1 DEF SubCarry
  <2>3. a - b + Word \in Words /\ Word * 1 = Word
    BY <1>1, <1>3, WordFacts
  <2> QED BY <1>1, <2>2, <2>3, WordFacts DEF Results
<1> QED BY <1>1, <1>2, <1>3

\* Two additions to a carry of at most one carry at most one.
LEMMA TwoCarries ==
  ASSUME NEW a \in Words, NEW b \in Words, NEW c \in Words
  PROVE  LET s == AddCarry(c, a)
             t == AddCarry(s.w, b)
         IN  /\ t.w \in Words /\ s.c + t.c \in Words
             /\ t.w + Word * (s.c + t.c) = a + b + c
             /\ c \in {0, 1} => s.c + t.c \in {0, 1}
<1> DEFINE s == AddCarry(c, a)
           t == AddCarry(s.w, b)
<1> HIDE DEF s, t
<1>1. s \in Results /\ s.c \in {0, 1} /\ s.w + Word * s.c = c + a
  BY AddCarryIsRight DEF s
<1>2. s.w \in Words
  BY <1>1 DEF Results
<1>3. t \in Results /\ t.c \in {0, 1} /\ t.w + Word * t.c = s.w + b
  BY <1>2, AddCarryIsRight DEF t
<1>4. t.w \in Words
  BY <1>3 DEF Results
<1>5. PICK u \in Nat, v \in Nat, W \in Nat :
        /\ u = s.w /\ v = t.w /\ W = Word /\ u < W /\ v < W /\ W >= 4
        /\ a \in Nat /\ b \in Nat /\ c \in Nat /\ a < W /\ b < W
  BY <1>2, <1>4, WordFacts
<1>6. PICK x \in {0, 1}, y \in {0, 1} :
        x = s.c /\ y = t.c /\ u + W * x = c + a /\ v + W * y = u + b
  BY <1>1, <1>3, <1>5
<1>7. /\ x \in Nat /\ y \in Nat /\ x + y <= 2
      /\ W * (x + y) = W * x + W * y /\ W * x \in Nat /\ W * y \in Nat
  <2>1. x \in Nat /\ y \in Nat /\ x <= 1 /\ y <= 1
    OBVIOUS
  <2> QED BY <2>1
<1>8. v + W * (x + y) = a + b + c
  <2>1. u \in Nat /\ v \in Nat /\ a \in Nat /\ b \in Nat /\ c \in Nat
    BY <1>5
  <2>2. PICK m \in Nat, n \in Nat : m = W * x /\ n = W * y /\ W * (x + y) = m + n
    BY <1>7
  <2>3. u + m = c + a /\ v + n = u + b
    BY <1>6, <2>2
  <2>4. v + (m + n) = a + b + c
    BY ONLY <2>1, <2>3, m \in Nat, n \in Nat
  <2> QED BY <2>2, <2>4
<1>9. x + y \in Words
  <2>1. x + y \in Nat /\ x + y < W
    BY ONLY <1>5, <1>7, W \in Nat
  <2> QED BY <2>1, <1>5, WordFacts
<1>10. ASSUME c \in {0, 1} PROVE x + y \in {0, 1}
  <2>1. CASE x = 1 /\ y = 1
    <3>1. W * x = W /\ W * y = W
      BY <2>1, <1>5
    <3>2. FALSE
      BY <3>1, <1>5, <1>6, <1>10
    <3> QED BY <3>2
  <2>2. CASE x = 0 \/ y = 0
    BY <2>2, <1>6
  <2> QED BY <2>1, <2>2, <1>6
<1>11. /\ t.w \in Words /\ s.c + t.c \in Words
       /\ t.w + Word * (s.c + t.c) = a + b + c
       /\ c \in {0, 1} => s.c + t.c \in {0, 1}
  BY <1>4, <1>5, <1>6, <1>8, <1>9, <1>10
<1> QED BY <1>11 DEF s, t

\* What a step of an addition writes and carries.
LEMMA AddSteps ==
  ASSUME NEW a \in Seq(Words), NEW b \in Seq(Words),
         NEW i \in 1..Longer(Len(a), Len(b)), NEW c \in Words, NEW s, s = AddStep(a, b)[i][c]
  PROVE  /\ s \in Results
         /\ c \in {0, 1} => s.c \in {0, 1} /\ s.w + Word * s.c = At(a, i) + At(b, i) + c
<1>1. i \in Nat /\ i # 0 /\ (i <= Len(a) \/ i <= Len(b))
  BY DEF Longer
<1>2. CASE i <= Shorter(Len(a), Len(b))
  <2>1. i \in 1..Len(a) /\ i \in 1..Len(b)
    BY <1>1, <1>2 DEF Shorter
  <2>2. a[i] \in Words /\ b[i] \in Words /\ At(a, i) = a[i] /\ At(b, i) = b[i]
    BY <2>1 DEF At
  <2>3. PICK p : p = AddCarry(c, a[i])
    OBVIOUS
  <2>4. PICK q : q = AddCarry(p.w, b[i])
    OBVIOUS
  <2>5. s = [w |-> q.w, c |-> p.c + q.c]
    BY <1>2, <2>3, <2>4 DEF AddStep
  <2>6. /\ q.w \in Words /\ p.c + q.c \in Words
        /\ q.w + Word * (p.c + q.c) = a[i] + b[i] + c
        /\ c \in {0, 1} => p.c + q.c \in {0, 1}
    <3>1. PICK x \in Words, y \in Words : x = a[i] /\ y = b[i]
      BY <2>2
    <3>2. LET s1 == AddCarry(c, x)
              t1 == AddCarry(s1.w, y)
          IN  /\ t1.w \in Words /\ s1.c + t1.c \in Words
              /\ t1.w + Word * (s1.c + t1.c) = x + y + c
              /\ c \in {0, 1} => s1.c + t1.c \in {0, 1}
      BY ONLY TwoCarries, c \in Words, x \in Words, y \in Words
    <3>3. p = AddCarry(c, x) /\ q = AddCarry(p.w, y)
      BY <2>3, <2>4, <3>1
    <3> QED BY <3>1, <3>2, <3>3
  <2> QED BY <2>2, <2>5, <2>6 DEF Results
<1>3. CASE ~(i <= Shorter(Len(a), Len(b)))
  <2>1. PICK x \in Words : /\ x = IF i <= Len(a) THEN a[i] ELSE b[i]
                           /\ At(a, i) + At(b, i) = x
    <3>1. CASE i <= Len(a)
      <4>1. i \in 1..Len(a) /\ i \notin 1..Len(b)
        BY <1>1, <1>3, <3>1 DEF Shorter
      <4>2. a[i] \in Words /\ a[i] \in Nat
        <5>1. a[i] \in Words
          BY <4>1
        <5> QED BY <5>1, WordFacts
      <4> QED BY <3>1, <4>1, <4>2 DEF At
    <3>2. CASE ~(i <= Len(a))
      <4>1. i \in 1..Len(b) /\ i \notin 1..Len(a)
        BY <1>1, <3>2
      <4>2. b[i] \in Words /\ b[i] \in Nat
        <5>1. b[i] \in Words
          BY <4>1
        <5> QED BY <5>1, WordFacts
      <4> QED BY <3>2, <4>1, <4>2 DEF At
    <3> QED BY <3>1, <3>2
  <2>2. s = AddCarry(x, c)
    BY <1>3, <2>1 DEF AddStep
  <2>3. s \in Results /\ s.c \in {0, 1} /\ s.w + Word * s.c = x + c
    BY <2>2, AddCarryIsRight
  <2> QED BY <2>1, <2>3
<1> QED BY <1>2, <1>3

\* What a walk over the words of an addition writes is their sum.
LEMMA AddWalks ==
  ASSUME NEW a \in Seq(Words), NEW b \in Seq(Words),
         NEW n, n = Longer(Len(a), Len(b)), NEW sum, sum = Walked(n, AddStep(a, b))
  PROVE  /\ n \in Nat /\ sum.w \in Seq(Words) /\ Len(sum.w) = n /\ sum.c \in {0, 1}
         /\ ValueOf(a) + ValueOf(b) = ValueOf(Append(sum.w, sum.c))
<1>1. n \in Nat /\ Len(a) <= n /\ Len(b) <= n
  BY DEF Longer
<1>2. AddStep(a, b) \in Steps(n)
  <2>1. \A i \in 1..n : \A c \in Words : AddStep(a, b)[i][c] \in Results
    BY AddSteps
  <2>2. AddStep(a, b) = [i \in 1..n |-> [c \in Words |-> AddStep(a, b)[i][c]]]
    BY DEF AddStep
  <2> QED BY <2>1, <2>2 DEF Steps
<1>3. PICK C : C = Carried(n, AddStep(a, b))
  OBVIOUS
<1>4. /\ sum.w \in [1..n -> Words] /\ sum.c = C[n]
      /\ C \in [0..n -> Words] /\ C[0] = 0
      /\ \A i \in 1..n : /\ sum.w[i] = AddStep(a, b)[i][C[i - 1]].w
                          /\ C[i] = AddStep(a, b)[i][C[i - 1]].c
  BY <1>1, <1>2, <1>3, WalkedUnfolds
<1>5. \A i \in Nat : i <= n => C[i] \in {0, 1}
  <2> DEFINE T == {i \in Nat : i <= n => C[i] \in {0, 1}}
  <2>1. 0 \in T
    BY <1>4
  <2>2. ASSUME NEW i \in Nat, i \in T PROVE i + 1 \in T
    <3> SUFFICES ASSUME i + 1 <= n PROVE C[i + 1] \in {0, 1}
      OBVIOUS
    <3>1. C[i] \in {0, 1} /\ i + 1 \in 1..n /\ (i + 1) - 1 = i /\ C[i] \in Words
      BY <1>1, <2>2, WordFacts
    <3>2. C[i + 1] = AddStep(a, b)[i + 1][C[i]].c
      BY <3>1, <1>4
    <3> QED BY <3>1, <3>2, AddSteps
  <2>3. \A i \in Nat : i \in T
    <3> HIDE DEF T
    <3> QED BY <2>1, <2>2, Induction
  <2> QED BY <2>3
<1>6. ASSUME NEW i \in 1..n
      PROVE  /\ sum.w[i] \in Words /\ C[i - 1] \in {0, 1} /\ C[i] \in {0, 1}
             /\ sum.w[i] + Word * C[i] = At(a, i) + At(b, i) + C[i - 1]
  <2>1. i - 1 \in Nat /\ i - 1 <= n /\ i \in Nat /\ i <= n
    BY <1>1
  <2>2. C[i - 1] \in {0, 1} /\ C[i] \in {0, 1} /\ C[i - 1] \in Words
    BY <2>1, <1>5, WordFacts
  <2>3. PICK s : s = AddStep(a, b)[i][C[i - 1]]
    OBVIOUS
  <2>4. s.w + Word * s.c = At(a, i) + At(b, i) + C[i - 1]
    BY <2>2, <2>3, AddSteps
  <2> QED BY <2>2, <2>3, <2>4, <1>4
<1>7. PICK r : r = Append(sum.w, sum.c)
  OBVIOUS
<1>8. sum.w \in Seq(Words) /\ Len(sum.w) = n /\ sum.c \in {0, 1} /\ sum.c \in Words
  <2>1. sum.w \in Seq(Words) /\ Len(sum.w) = n
    <3>1. sum.w \in UNION {[1..k -> Words] : k \in Nat}
      BY <1>1, <1>4
    <3>2. sum.w \in Seq(Words)
      BY <3>1, SeqDef, Zenon
    <3>3. DOMAIN sum.w = 1..n /\ DOMAIN sum.w = 1..Len(sum.w) /\ Len(sum.w) \in Nat
      BY <3>2, <1>4, LenProperties
    <3> QED BY <3>2, <3>3, <1>1
  <2> QED BY <2>1, <1>1, <1>4, <1>5, WordFacts
<1>9. /\ r \in Seq(Words) /\ Len(r) = n + 1
      /\ \A i \in 1..n : At(r, i) = sum.w[i]
      /\ At(r, n + 1) = C[n]
  <2>1. r \in Seq(Words) /\ Len(r) = n + 1
    BY <1>1, <1>7, <1>8
  <2>2. (\A i \in 1..n : r[i] = sum.w[i]) /\ r[n + 1] = sum.c
    BY <1>1, <1>7, <1>8
  <2>3. n + 1 \in 1..(n + 1) /\ \A i \in 1..n : i \in 1..(n + 1)
    BY <1>1
  <2> QED BY <2>1, <2>2, <2>3, <1>4 DEF At
<1> DEFINE T == {i \in Nat \ {0} : Above(r, i) = Above(a, i) + Above(b, i) + C[i - 1]}
<1>10. n + 1 \in T
  <2>1. n + 1 \in Nat /\ n + 1 # 0 /\ n + 1 > Len(a) /\ n + 1 > Len(b) /\ (n + 1) - 1 = n
    BY <1>1
  <2>2. Above(a, n + 1) = 0 /\ Above(b, n + 1) = 0
    BY <2>1, AboveEnds
  <2>3. n + 1 + 1 \in Nat /\ n + 1 + 1 > Len(r)
    BY <1>1, <1>9
  <2>4. Above(r, n + 1 + 1) = 0
    BY <2>3, <1>9, AboveEnds
  <2>5. Above(r, n + 1) = C[n] + Word * 0
    BY <2>1, <2>4, <1>9, AboveSplits
  <2>6. C[n] \in Nat /\ Word * 0 = 0
    <3>1. Word * 0 = 0
      BY WordFacts
    <3> QED BY <3>1, <1>1, <1>5
  <2> QED BY <2>1, <2>2, <2>5, <2>6
<1>11. ASSUME NEW i \in 1..n, i + 1 \in T PROVE i \in T
  <2>1. i \in Nat /\ i # 0 /\ i + 1 \in Nat /\ i + 1 # 0 /\ (i + 1) - 1 = i
    BY <1>1
  <2>2. PICK x \in Nat, y \in Nat : x = Above(a, i + 1) /\ y = Above(b, i + 1)
    BY <2>1, AboveIsNat
  <2>3. PICK W \in Nat : W = Word
    BY WordFacts
  <2>4. PICK d \in Nat, e \in Nat : d = At(a, i) /\ e = At(b, i)
    BY <2>1, AtIsWord
  <2>5. PICK u \in Nat, c \in Nat, k \in Nat :
          u = sum.w[i] /\ c = C[i - 1] /\ k = C[i] /\ u + W * k = d + e + c
    <3>1. sum.w[i] \in Nat /\ C[i - 1] \in Nat /\ C[i] \in Nat
      BY <1>6, WordFacts
    <3> QED BY <3>1, <1>6, <2>3, <2>4
  <2>6. Above(r, i + 1) = x + y + k
    BY <1>11, <2>1, <2>2, <2>5
  <2>7. Above(r, i) = u + W * (x + y + k)
    BY <1>9, <2>1, <2>3, <2>5, <2>6, AboveSplits
  <2>8. Above(a, i) = d + W * x /\ Above(b, i) = e + W * y
    BY <2>1, <2>2, <2>3, <2>4, AboveSplits
  <2>9. W * (x + y + k) = W * x + W * y + W * k /\ W * x \in Nat /\ W * y \in Nat /\ W * k \in Nat
    OBVIOUS
  <2>10. u + W * (x + y + k) = (d + W * x) + (e + W * y) + c
    <3>1. PICK m \in Nat, p \in Nat, q \in Nat : m = W * x /\ p = W * y /\ q = W * k
      BY <2>9
    <3>2. u + q = d + e + c
      BY <2>5, <3>1
    <3>3. u + (m + p + q) = (d + m) + (e + p) + c
      BY ONLY <3>2, d \in Nat, e \in Nat, u \in Nat, c \in Nat, m \in Nat, p \in Nat, q \in Nat
    <3> QED BY <2>9, <3>1, <3>3
  <2> QED BY <2>1, <2>5, <2>7, <2>8, <2>10
<1>12. 1 \in T
  <2> HIDE DEF T
  <2>1. n + 1 \in Nat \ {0} /\ 1 \in 1..(n + 1) /\ (n + 1) - 1 = n
    BY <1>1
  <2> QED BY <1>10, <1>11, <2>1, Downward
<1>13. Above(r, 1) = Above(a, 1) + Above(b, 1) + 0
  <2>1. 1 - 1 = 0
    OBVIOUS
  <2>2. Above(r, 1) = Above(a, 1) + Above(b, 1) + C[1 - 1]
    BY <1>12
  <2>3. C[1 - 1] = 0
    BY <2>1, <1>4
  <2> HIDE DEF T
  <2> QED BY <2>2, <2>3
<1>14. ValueOf(r) = ValueOf(a) + ValueOf(b)
  <2>1. ValueOf(r) = Above(r, 1)
    BY <1>9, AboveAll
  <2>2. ValueOf(a) = Above(a, 1) /\ ValueOf(b) = Above(b, 1)
    BY AboveAll
  <2>3. Above(a, 1) \in Nat /\ Above(b, 1) \in Nat
    BY AboveIsNat
  <2>4. Above(a, 1) + Above(b, 1) + 0 = Above(a, 1) + Above(b, 1)
    BY <2>3
  <2> HIDE DEF T
  <2> QED BY <2>1, <2>2, <2>4, <1>13
<1> HIDE DEF T
<1> QED BY <1>1, <1>7, <1>8, <1>14

\* bigint_raw_add adds, whatever the words and their number.
LEMMA RawAddIsRight ==
  ASSUME NEW a \in Seq(Words), NEW b \in Seq(Words)
  PROVE  Normal(RawAdd(a, b)) /\ ValueOf(RawAdd(a, b)) = ValueOf(a) + ValueOf(b)
<1>1. PICK n, sum : n = Longer(Len(a), Len(b)) /\ sum = Walked(n, AddStep(a, b))
  OBVIOUS
<1>2. /\ n \in Nat /\ sum.w \in Seq(Words) /\ Len(sum.w) = n /\ sum.c \in {0, 1}
      /\ ValueOf(a) + ValueOf(b) = ValueOf(Append(sum.w, sum.c))
  BY <1>1, AddWalks
<1>3. sum.c \in Words
  BY <1>2, WordFacts
<1>4. Append(sum.w, sum.c) \in Seq(Words)
  BY <1>2, <1>3
<1>5. CASE sum.c # 0
  <2>1. RawAdd(a, b) = Truncate(Append(sum.w, sum.c))
    BY <1>1, <1>5 DEF RawAdd
  <2> QED BY <2>1, <1>2, <1>4, TruncateCuts
<1>6. CASE sum.c = 0
  <2>1. RawAdd(a, b) = Truncate(sum.w)
    BY <1>1, <1>6 DEF RawAdd
  <2>2. ASSUME NEW i \in Nat \ {0} PROVE At(Append(sum.w, sum.c), i) = At(sum.w, i)
    <3>1. CASE i \in 1..n
      <4>1. i \in 1..(n + 1)
        BY <3>1, <1>2
      <4> QED BY <3>1, <4>1, <1>2 DEF At
    <3>2. CASE i \notin 1..n
      BY <3>2, <1>2, <1>6 DEF At
    <3> QED BY <3>1, <3>2
  <2>3. ValueOf(Append(sum.w, sum.c)) = ValueOf(sum.w)
    BY <1>2, <1>4, <2>2, SameWordsSameValue
  <2> QED BY <2>1, <2>3, <1>2, TruncateCuts
<1> QED BY <1>5, <1>6

\* Two subtractions of a carry of at most one borrow at most one.
LEMMA TwoBorrows ==
  ASSUME NEW a \in Words, NEW b \in Words, NEW c \in Words
  PROVE  LET s == SubCarry(a, c)
             t == SubCarry(s.w, b)
         IN  /\ t.w \in Words /\ s.c + t.c \in Words
             /\ t.w = a - b - c + Word * (s.c + t.c)
             /\ c \in {0, 1} => s.c + t.c \in {0, 1}
<1> DEFINE s == SubCarry(a, c)
           t == SubCarry(s.w, b)
<1> HIDE DEF s, t
<1>1. s \in Results /\ s.c \in {0, 1} /\ s.w = a - c + Word * s.c
  BY SubCarryIsRight DEF s
<1>2. s.w \in Words
  BY <1>1 DEF Results
<1>3. t \in Results /\ t.c \in {0, 1} /\ t.w = s.w - b + Word * t.c
  BY <1>2, SubCarryIsRight DEF t
<1>4. t.w \in Words
  BY <1>3 DEF Results
<1>5. PICK u \in Nat, v \in Nat, W \in Nat :
        /\ u = s.w /\ v = t.w /\ W = Word /\ u < W /\ v < W /\ W >= 4
        /\ a \in Nat /\ b \in Nat /\ c \in Nat /\ a < W /\ b < W
  BY <1>2, <1>4, WordFacts
<1>6. PICK x \in {0, 1}, y \in {0, 1} :
        x = s.c /\ y = t.c /\ u = a - c + W * x /\ v = u - b + W * y
  BY <1>1, <1>3, <1>5
<1>7. /\ x \in Nat /\ y \in Nat /\ x + y <= 2
      /\ W * (x + y) = W * x + W * y /\ W * x \in Nat /\ W * y \in Nat
  <2>1. x \in Nat /\ y \in Nat /\ x <= 1 /\ y <= 1
    OBVIOUS
  <2> QED BY <2>1
<1>8. v = a - b - c + W * (x + y)
  <2>1. u \in Nat /\ v \in Nat /\ a \in Nat /\ b \in Nat /\ c \in Nat
    BY <1>5
  <2>2. PICK m \in Nat, n \in Nat : m = W * x /\ n = W * y /\ W * (x + y) = m + n
    BY <1>7
  <2>3. u = a - c + m /\ v = u - b + n
    BY <1>6, <2>2
  <2>4. v = a - b - c + (m + n)
    BY ONLY <2>1, <2>3, m \in Nat, n \in Nat
  <2> QED BY <2>2, <2>4
<1>9. x + y \in Words
  <2>1. x + y \in Nat /\ x + y < W
    BY ONLY <1>5, <1>7, W \in Nat
  <2> QED BY <2>1, <1>5, WordFacts
<1>10. ASSUME c \in {0, 1} PROVE x + y \in {0, 1}
  <2>1. CASE x = 1 /\ y = 1
    <3>1. W * x = W /\ W * y = W
      BY <2>1, <1>5
    <3>2. FALSE
      BY <3>1, <1>5, <1>6, <1>10
    <3> QED BY <3>2
  <2>2. CASE x = 0 \/ y = 0
    BY <2>2, <1>6
  <2> QED BY <2>1, <2>2, <1>6
<1>11. /\ t.w \in Words /\ s.c + t.c \in Words
       /\ t.w = a - b - c + Word * (s.c + t.c)
       /\ c \in {0, 1} => s.c + t.c \in {0, 1}
  BY <1>4, <1>5, <1>6, <1>8, <1>9, <1>10
<1> QED BY <1>11 DEF s, t

\* What a step of a subtraction writes and borrows.
LEMMA SubSteps ==
  ASSUME NEW a \in Seq(Words), NEW b \in Seq(Words), NEW i \in 1..Len(a), NEW c \in Words,
         NEW s, s = SubStep(a, b)[i][c]
  PROVE  /\ s \in Results
         /\ c \in {0, 1} =>
              s.c \in {0, 1} /\ s.w = At(a, i) - At(b, i) - c + Word * s.c
<1>1. i \in Nat /\ i # 0 /\ a[i] \in Words /\ At(a, i) = a[i]
  BY DEF At
<1>2. CASE i <= Len(b)
  <2>1. PICK x \in Words, y \in Words : x = a[i] /\ y = b[i] /\ At(b, i) = y
    BY <1>1, <1>2 DEF At
  <2>2. PICK p : p = SubCarry(x, c)
    OBVIOUS
  <2>3. PICK q : q = SubCarry(p.w, y)
    OBVIOUS
  <2>4. s = [w |-> q.w, c |-> p.c + q.c]
    BY <1>2, <2>1, <2>2, <2>3 DEF SubStep
  <2>5. LET s1 == SubCarry(x, c)
            t1 == SubCarry(s1.w, y)
        IN  /\ t1.w \in Words /\ s1.c + t1.c \in Words
            /\ t1.w = x - y - c + Word * (s1.c + t1.c)
            /\ c \in {0, 1} => s1.c + t1.c \in {0, 1}
    BY ONLY TwoBorrows, c \in Words, x \in Words, y \in Words
  <2> QED BY <1>1, <2>1, <2>2, <2>3, <2>4, <2>5 DEF Results
<1>3. CASE ~(i <= Len(b))
  <2>1. At(b, i) = 0 /\ s = SubCarry(a[i], c)
    BY <1>1, <1>3 DEF At, SubStep
  <2>2. s \in Results /\ s.c \in {0, 1} /\ s.w = a[i] - c + Word * s.c
    BY <1>1, <2>1, SubCarryIsRight
  <2>3. a[i] \in Nat /\ c \in Nat
    BY <1>1, WordFacts
  <2>4. a[i] - 0 - c = a[i] - c
    BY <2>3
  <2> QED BY <1>1, <2>1, <2>2, <2>4
<1> QED BY <1>2, <1>3

\* bigint_raw_sub writes words, and subtracts what is not greater.
LEMMA SubWalks ==
  ASSUME NEW a \in Seq(Words), NEW b \in Seq(Words), NEW C, NEW n, n = Len(a),
         C = Carried(n, SubStep(a, b)), NEW r, r = Walked(n, SubStep(a, b)).w
  PROVE  /\ n \in Nat /\ r \in Seq(Words) /\ Len(r) = n
         /\ C[0] = 0 /\ C[n] \in {0, 1}
         /\ \A i \in 1..n : /\ C[i - 1] \in {0, 1} /\ C[i] \in {0, 1}
                            /\ At(r, i) = At(a, i) - At(b, i) - C[i - 1] + Word * C[i]
<1>1. n \in Nat
  OBVIOUS
<1>2. SubStep(a, b) \in Steps(n)
  <2>1. \A i \in 1..n : \A c \in Words : SubStep(a, b)[i][c] \in Results
    BY SubSteps
  <2>2. SubStep(a, b) = [i \in 1..n |-> [c \in Words |-> SubStep(a, b)[i][c]]]
    BY DEF SubStep
  <2> QED BY <2>1, <2>2 DEF Steps
<1>3. /\ r \in [1..n -> Words] /\ C \in [0..n -> Words] /\ C[0] = 0
      /\ \A i \in 1..n : /\ r[i] = SubStep(a, b)[i][C[i - 1]].w
                          /\ C[i] = SubStep(a, b)[i][C[i - 1]].c
  BY <1>1, <1>2, WalkedUnfolds
<1>4. \A i \in Nat : i <= n => C[i] \in {0, 1}
  <2> DEFINE T == {i \in Nat : i <= n => C[i] \in {0, 1}}
  <2>1. 0 \in T
    BY <1>3
  <2>2. ASSUME NEW i \in Nat, i \in T PROVE i + 1 \in T
    <3> SUFFICES ASSUME i + 1 <= n PROVE C[i + 1] \in {0, 1}
      OBVIOUS
    <3>1. C[i] \in {0, 1} /\ i + 1 \in 1..n /\ (i + 1) - 1 = i /\ C[i] \in Words
      BY <1>1, <2>2, WordFacts
    <3>2. C[i + 1] = SubStep(a, b)[i + 1][C[i]].c
      BY <3>1, <1>3
    <3> QED BY <3>1, <3>2, SubSteps
  <2>3. \A i \in Nat : i \in T
    <3> HIDE DEF T
    <3> QED BY <2>1, <2>2, Induction
  <2> QED BY <2>3
<1>5. r \in Seq(Words) /\ Len(r) = n
  <2>1. r \in UNION {[1..k -> Words] : k \in Nat}
    BY <1>1, <1>3
  <2>2. r \in Seq(Words)
    BY <2>1, SeqDef, Zenon
  <2>3. DOMAIN r = 1..n /\ DOMAIN r = 1..Len(r) /\ Len(r) \in Nat
    BY <2>2, <1>3, LenProperties
  <2> QED BY <2>2, <2>3, <1>1
<1>6. ASSUME NEW i \in 1..n
      PROVE  /\ C[i - 1] \in {0, 1} /\ C[i] \in {0, 1}
             /\ At(r, i) = At(a, i) - At(b, i) - C[i - 1] + Word * C[i]
  <2>1. i - 1 \in Nat /\ i - 1 <= n /\ i \in Nat /\ i <= n
    BY <1>1
  <2>2. C[i - 1] \in {0, 1} /\ C[i] \in {0, 1} /\ C[i - 1] \in Words
    BY <2>1, <1>4, WordFacts
  <2>3. PICK s : s = SubStep(a, b)[i][C[i - 1]]
    OBVIOUS
  <2>4. s.w = At(a, i) - At(b, i) - C[i - 1] + Word * s.c
    BY <2>2, <2>3, SubSteps
  <2>5. At(r, i) = s.w /\ C[i] = s.c
    BY <2>3, <1>3, <1>5 DEF At
  <2> QED BY <2>2, <2>4, <2>5
<1> QED BY <1>1, <1>3, <1>4, <1>5, <1>6

LEMMA RawSubIsRight ==
  ASSUME NEW a, NEW b, Normal(a), Normal(b), ValueOf(b) <= ValueOf(a)
  PROVE  Normal(RawSub(a, b)) /\ ValueOf(RawSub(a, b)) = ValueOf(a) - ValueOf(b)
<1>1. a \in Seq(Words) /\ b \in Seq(Words)
  BY DEF Normal
<1>2. PICK n, C, r : n = Len(a) /\ C = Carried(n, SubStep(a, b)) /\ r = Walked(n, SubStep(a, b)).w
  OBVIOUS
<1>3. /\ n \in Nat /\ r \in Seq(Words) /\ Len(r) = n
      /\ C[0] = 0 /\ C[n] \in {0, 1}
      /\ \A i \in 1..n : /\ C[i - 1] \in {0, 1} /\ C[i] \in {0, 1}
                         /\ At(r, i) = At(a, i) - At(b, i) - C[i - 1] + Word * C[i]
  BY <1>1, <1>2, SubWalks
<1>4. Len(b) <= n
  <2>1. ValueOf(a) \in Nat /\ ValueOf(b) \in Nat /\ Len(b) \in Nat
    BY <1>1, AboveAll
  <2>2. ~(Len(a) < Len(b))
    BY <2>1, LongerIsGreater
  <2> QED BY <2>1, <2>2, <1>2, <1>3
<1>5. PICK W \in Nat : W = Word /\ W >= 4
  BY WordFacts
\* What is above the words that are not read yet, and below them.
<1>6. ASSUME NEW i \in 1..n
      PROVE  \E x \in Nat, y \in Nat, d \in Nat, e \in Nat, u \in Nat, c \in Nat, k \in Nat :
               /\ x = Above(a, i + 1) /\ y = Above(b, i + 1) /\ d = At(a, i) /\ e = At(b, i)
               /\ u = At(r, i) /\ c = C[i - 1] /\ k = C[i] /\ k <= 1 /\ u < W
               /\ u = d - e - c + W * k
               /\ Above(a, i) = d + W * x /\ Above(b, i) = e + W * y
  <2>1. i \in Nat /\ i # 0 /\ i + 1 \in Nat /\ i + 1 # 0
    BY <1>3
  <2>2. Above(a, i + 1) \in Nat /\ Above(b, i + 1) \in Nat
    BY <1>1, <2>1, AboveIsNat
  <2>3. At(a, i) \in Nat /\ At(b, i) \in Nat
    BY <1>1, <2>1, AtIsWord
  <2>4. At(r, i) \in Nat /\ At(r, i) < W
    BY <1>3, <1>5, <2>1, AtIsWord, WordFacts
  <2>5. C[i - 1] \in Nat /\ C[i] \in Nat /\ C[i] <= 1
    BY <1>3
  <2>6. Above(a, i) = At(a, i) + W * Above(a, i + 1)
    BY <1>1, <1>5, <2>1, AboveSplits
  <2>7. Above(b, i) = At(b, i) + W * Above(b, i + 1)
    BY <1>1, <1>5, <2>1, AboveSplits
  <2>8. At(r, i) = At(a, i) - At(b, i) - C[i - 1] + W * C[i]
    BY <1>3, <1>5
  <2> QED BY <2>2, <2>3, <2>4, <2>5, <2>6, <2>7, <2>8
<1>7. n + 1 \in Nat \ {0} /\ 1 \in 1..(n + 1) /\ (n + 1) - 1 = n
  BY <1>3
<1>8. Above(a, n + 1) = 0 /\ Above(b, n + 1) = 0 /\ Above(r, n + 1) = 0
  <2>1. n + 1 \in Nat /\ n + 1 > Len(a) /\ n + 1 > Len(b) /\ n + 1 > Len(r)
    BY <1>1, <1>2, <1>3, <1>4
  <2> QED BY <1>1, <1>3, <2>1, AboveEnds
<1>9. C[n] = 0
  <2> SUFFICES ASSUME C[n] = 1 PROVE FALSE
    BY <1>3
  <2> DEFINE T == {i \in Nat \ {0} : Above(a, i) < Above(b, i) + C[i - 1]}
  <2>1. n + 1 \in T
    BY <1>7, <1>8
  <2>2. ASSUME NEW i \in 1..n, i + 1 \in T PROVE i \in T
    <3>1. i \in Nat \ {0} /\ (i + 1) - 1 = i
      BY <1>3
    <3>2. PICK x \in Nat, y \in Nat, d \in Nat, e \in Nat, u \in Nat, c \in Nat, k \in Nat :
               /\ x = Above(a, i + 1) /\ y = Above(b, i + 1) /\ d = At(a, i) /\ e = At(b, i)
               /\ u = At(r, i) /\ c = C[i - 1] /\ k = C[i] /\ k <= 1 /\ u < W
               /\ u = d - e - c + W * k
               /\ Above(a, i) = d + W * x /\ Above(b, i) = e + W * y
      BY <1>6
    <3>3. x < y + k
      BY <2>2, <3>1, <3>2
    <3>4. PICK p \in Nat, q \in Nat, z \in Nat :
            p = W * x /\ q = W * y /\ z = W * k /\ p + W <= q + z
      <4>1. W * x + W <= W * (y + k)
        BY <3>3, <1>5
      <4>2. W * (y + k) = W * y + W * k /\ W * x \in Nat /\ W * y \in Nat /\ W * k \in Nat
        OBVIOUS
      <4> QED BY <4>1, <4>2
    <3>5. u = d - e - c + z /\ u < W
      BY <3>2, <3>4
    <3>6. d + p < e + q + c
      BY ONLY <3>4, <3>5, d \in Nat, e \in Nat, u \in Nat, c \in Nat, p \in Nat, q \in Nat,
         z \in Nat, W \in Nat
    <3>7. Above(a, i) = d + p /\ Above(b, i) = e + q /\ C[i - 1] = c
      BY <3>2, <3>4
    <3> QED BY <3>1, <3>6, <3>7
  <2>3. 1 \in T
    <3> HIDE DEF T
    <3> QED BY <2>1, <2>2, <1>7, Downward
  <2>4. Above(a, 1) < Above(b, 1) + C[1 - 1]
    BY <2>3
  <2>5. C[1 - 1] = 0
    BY <1>3
  <2>6. Above(a, 1) \in Nat /\ Above(b, 1) \in Nat
    BY <1>1, AboveIsNat
  <2>7. ValueOf(a) = Above(a, 1) /\ ValueOf(b) = Above(b, 1)
    BY <1>1, AboveAll
  <2> HIDE DEF T
  <2>8. Above(a, 1) < Above(b, 1)
    BY <2>4, <2>5, <2>6
  <2> QED BY <2>6, <2>7, <2>8
<1> DEFINE T == {i \in Nat \ {0} : Above(r, i) = Above(a, i) - Above(b, i) - C[i - 1]}
<1>10. n + 1 \in T
  BY <1>7, <1>8, <1>9
<1>11. ASSUME NEW i \in 1..n, i + 1 \in T PROVE i \in T
  <2>1. i \in Nat \ {0} /\ i \in Nat /\ i # 0 /\ (i + 1) - 1 = i
    BY <1>3
  <2>2. PICK x \in Nat, y \in Nat, d \in Nat, e \in Nat, u \in Nat, c \in Nat, k \in Nat :
             /\ x = Above(a, i + 1) /\ y = Above(b, i + 1) /\ d = At(a, i) /\ e = At(b, i)
             /\ u = At(r, i) /\ c = C[i - 1] /\ k = C[i] /\ k <= 1 /\ u < W
             /\ u = d - e - c + W * k
             /\ Above(a, i) = d + W * x /\ Above(b, i) = e + W * y
    BY <1>6
  <2>3. Above(r, i + 1) = x - y - k
    BY <1>11, <2>1, <2>2
  <2>4. Above(r, i) = u + W * (x - y - k)
    BY <1>3, <1>5, <2>1, <2>2, <2>3, AboveSplits
  <2>5. PICK p \in Nat, q \in Nat, z \in Nat :
          p = W * x /\ q = W * y /\ z = W * k /\ W * (x - y - k) = p - q - z
    <3>1. W * (x - y - k) = W * x - W * y - W * k /\ W * x \in Nat /\ W * y \in Nat /\ W * k \in Nat
      OBVIOUS
    <3> QED BY <3>1
  <2>6. u = d - e - c + z
    BY <2>2, <2>5
  <2>7. u + (p - q - z) = (d + p) - (e + q) - c
    BY ONLY <2>6, d \in Nat, e \in Nat, u \in Nat, c \in Nat, p \in Nat, q \in Nat, z \in Nat
  <2>8. Above(a, i) = d + p /\ Above(b, i) = e + q /\ C[i - 1] = c
    BY <2>2, <2>5
  <2> QED BY <2>1, <2>4, <2>5, <2>7, <2>8
<1>12. 1 \in T
  <2> HIDE DEF T
  <2> QED BY <1>10, <1>11, <1>7, Downward
<1>13. ValueOf(r) = ValueOf(a) - ValueOf(b)
  <2>1. Above(r, 1) = Above(a, 1) - Above(b, 1) - C[1 - 1]
    BY <1>12
  <2>2. C[1 - 1] = 0
    BY <1>3
  <2>3. Above(a, 1) \in Nat /\ Above(b, 1) \in Nat
    BY <1>1, AboveIsNat
  <2>4. ValueOf(r) = Above(r, 1) /\ ValueOf(a) = Above(a, 1) /\ ValueOf(b) = Above(b, 1)
    BY <1>1, <1>3, AboveAll
  <2> HIDE DEF T
  <2>5. Above(r, 1) = Above(a, 1) - Above(b, 1)
    BY <2>1, <2>2, <2>3
  <2> QED BY <2>4, <2>5
<1>14. RawSub(a, b) = Truncate(r)
  BY <1>2 DEF RawSub
<1> HIDE DEF T
<1> QED BY <1>3, <1>13, <1>14, TruncateCuts

-----------------------------------------------------------------------------
(* Numbers with signs *)

\* A number as the program keeps it.
Sound(b) == b \in Number /\ Normal(b.words)

LEMMA NoWords ==
  ASSUME NEW w \in Seq(Words), Len(w) = 0
  PROVE  ValueOf(w) = 0
<1>1. Above(w, 1) = 0
  BY DEF Above
<1> QED BY <1>1, AboveAll

LEMMA SoundFacts ==
  ASSUME NEW b, Sound(b)
  PROVE  /\ b.neg \in BOOLEAN /\ Normal(b.words) /\ ValueOf(b.words) \in Nat
         /\ Value(b) \in Int
         /\ Value(b) = IF b.neg THEN -ValueOf(b.words) ELSE ValueOf(b.words)
         /\ b.words = <<>> <=> ValueOf(b.words) = 0
<1>1. b.neg \in BOOLEAN /\ Normal(b.words) /\ b.words \in Seq(Words)
  BY DEF Sound, Number
<1>2. ValueOf(b.words) \in Nat
  BY <1>1, AboveAll
<1>3. Value(b) = IF b.neg THEN -ValueOf(b.words) ELSE ValueOf(b.words)
  BY DEF Value
<1>4. <<>> \in Seq(Words) /\ Normal(<<>>) /\ Len(<<>>) = 0
  BY DEF Normal
<1>5. ValueOf(<<>>) = 0
  BY <1>4, NoWords
<1>6. ASSUME b.words # <<>> PROVE ValueOf(b.words) # 0
  <2>1. Len(<<>>) < Len(b.words)
    BY <1>1, <1>4, <1>6
  <2>2. ValueOf(<<>>) < ValueOf(b.words)
    BY <1>1, <1>4, <2>1, LongerIsGreater
  <2> QED BY <2>2, <1>2, <1>5
<1> QED BY <1>1, <1>2, <1>3, <1>5, <1>6

LEMMA SignedIsSound ==
  ASSUME NEW neg \in BOOLEAN, NEW w, Normal(w)
  PROVE  /\ Sound(Signed(neg, w))
         /\ Value(Signed(neg, w)) = IF neg THEN -ValueOf(w) ELSE ValueOf(w)
BY DEF Signed, Sound, Number, Normal, Value

\* bigint_raw_cmp orders numbers as the integers they stand for, a zero of
\* either sign as zero, for every width of a word and every length.
THEOREM ComparingIsRight ==
  ASSUME NEW a, NEW b, Sound(a), Sound(b)
  PROVE  Cmp(a, b) = IF Value(a) = Value(b) THEN 0 ELSE IF Value(a) < Value(b) THEN -1 ELSE 1
<1>1. PICK v \in Nat : /\ v = ValueOf(a.words)
                       /\ Value(a) = IF a.neg THEN -v ELSE v
                       /\ a.words = <<>> <=> v = 0
                       /\ a.neg \in BOOLEAN /\ Normal(a.words)
  BY SoundFacts
<1>2. PICK w \in Nat : /\ w = ValueOf(b.words)
                       /\ Value(b) = IF b.neg THEN -w ELSE w
                       /\ b.words = <<>> <=> w = 0
                       /\ b.neg \in BOOLEAN /\ Normal(b.words)
  BY SoundFacts
<1>3. /\ CmpAbs(a.words, b.words) = IF v = w THEN 0 ELSE IF v < w THEN -1 ELSE 1
      /\ CmpAbs(b.words, a.words) = IF w = v THEN 0 ELSE IF w < v THEN -1 ELSE 1
  BY <1>1, <1>2, CmpAbsIsRight
<1>4. CASE v = 0 /\ w = 0
  BY <1>1, <1>2, <1>4 DEF Cmp
<1>5. CASE ~(v = 0 /\ w = 0) /\ ~a.neg /\ ~b.neg
  BY <1>1, <1>2, <1>3, <1>5 DEF Cmp
<1>6. CASE ~(v = 0 /\ w = 0) /\ a.neg /\ b.neg
  <2>1. Cmp(a, b) = IF w = v THEN 0 ELSE IF w < v THEN -1 ELSE 1
    BY <1>1, <1>2, <1>3, <1>6 DEF Cmp
  <2>2. Value(a) = -v /\ Value(b) = -w
    BY <1>1, <1>2, <1>6
  <2> QED BY <2>1, <2>2
<1>7. CASE ~(v = 0 /\ w = 0) /\ a.neg /\ ~b.neg
  <2>1. Cmp(a, b) = -1
    BY <1>1, <1>2, <1>7 DEF Cmp
  <2>2. Value(a) = -v /\ Value(b) = w
    BY <1>1, <1>2, <1>7
  <2> QED BY <2>1, <2>2, <1>7
<1>8. CASE ~(v = 0 /\ w = 0) /\ ~a.neg /\ b.neg
  <2>1. Cmp(a, b) = 1
    BY <1>1, <1>2, <1>8 DEF Cmp
  <2>2. Value(a) = v /\ Value(b) = -w
    BY <1>1, <1>2, <1>8
  <2> QED BY <2>1, <2>2, <1>8
<1> QED BY <1>1, <1>2, <1>4, <1>5, <1>6, <1>7, <1>8

LEMMA AddSignedIsRight ==
  ASSUME NEW a, NEW an \in BOOLEAN, NEW b, NEW bn \in BOOLEAN, Normal(a), Normal(b)
  PROVE  /\ Sound(AddSigned(a, an, b, bn))
         /\ Value(AddSigned(a, an, b, bn)) =
              (IF an THEN -ValueOf(a) ELSE ValueOf(a)) + (IF bn THEN -ValueOf(b) ELSE ValueOf(b))
<1>1. a \in Seq(Words) /\ b \in Seq(Words)
  BY DEF Normal
<1>2. PICK v \in Nat, w \in Nat : v = ValueOf(a) /\ w = ValueOf(b)
  BY <1>1, AboveAll
<1>3. CASE an = bn
  <2>1. AddSigned(a, an, b, bn) = Signed(an, RawAdd(a, b))
    BY <1>3 DEF AddSigned
  <2>2. Normal(RawAdd(a, b)) /\ ValueOf(RawAdd(a, b)) = v + w
    BY <1>1, <1>2, RawAddIsRight
  <2>3. /\ Sound(AddSigned(a, an, b, bn))
        /\ Value(AddSigned(a, an, b, bn)) = IF an THEN -(v + w) ELSE v + w
    BY <2>1, <2>2, SignedIsSound
  <2>4. -(v + w) = (-v) + (-w)
    OBVIOUS
  <2> QED BY <2>3, <2>4, <1>2, <1>3
<1>4. CASE an # bn /\ w <= v
  <2>1. CmpAbs(a, b) >= 0
    BY <1>2, <1>4, CmpAbsIsRight
  <2>2. AddSigned(a, an, b, bn) = Signed(an, RawSub(a, b))
    BY <1>4, <2>1 DEF AddSigned
  <2>3. Normal(RawSub(a, b)) /\ ValueOf(RawSub(a, b)) = v - w
    BY <1>2, <1>4, RawSubIsRight
  <2>4. /\ Sound(AddSigned(a, an, b, bn))
        /\ Value(AddSigned(a, an, b, bn)) = IF an THEN -(v - w) ELSE v - w
    BY <2>2, <2>3, SignedIsSound
  <2>5. -(v - w) = (-v) + w /\ v - w = v + (-w)
    OBVIOUS
  <2> QED BY <2>4, <2>5, <1>2, <1>4
<1>5. CASE an # bn /\ v < w
  <2>1. CmpAbs(a, b) = -1
    BY <1>2, <1>5, CmpAbsIsRight
  <2>2. AddSigned(a, an, b, bn) = Signed(bn, RawSub(b, a))
    BY <1>5, <2>1 DEF AddSigned
  <2>3. Normal(RawSub(b, a)) /\ ValueOf(RawSub(b, a)) = w - v
    BY <1>2, <1>5, RawSubIsRight
  <2>4. /\ Sound(AddSigned(a, an, b, bn))
        /\ Value(AddSigned(a, an, b, bn)) = IF bn THEN -(w - v) ELSE w - v
    BY <2>2, <2>3, SignedIsSound
  <2>5. -(w - v) = v + (-w) /\ w - v = (-v) + w
    OBVIOUS
  <2> QED BY <2>4, <2>5, <1>2, <1>5
<1> QED BY <1>2, <1>3, <1>4, <1>5

\* bigint_add and bigint_sub add and subtract the integers: carries, borrows,
\* lengths and signs, for every width of a word and every length.
THEOREM AddingIsRight ==
  ASSUME NEW a, NEW b, Sound(a), Sound(b)
  PROVE  /\ Sound(Add(a, b)) /\ Value(Add(a, b)) = Value(a) + Value(b)
         /\ Sound(Sub(a, b)) /\ Value(Sub(a, b)) = Value(a) - Value(b)
<1>1. /\ a.neg \in BOOLEAN /\ Normal(a.words) /\ ValueOf(a.words) \in Nat
      /\ Value(a) = IF a.neg THEN -ValueOf(a.words) ELSE ValueOf(a.words)
  BY SoundFacts
<1>2. /\ b.neg \in BOOLEAN /\ Normal(b.words) /\ ValueOf(b.words) \in Nat
      /\ Value(b) = IF b.neg THEN -ValueOf(b.words) ELSE ValueOf(b.words)
  BY SoundFacts
<1>3. Sound(Add(a, b)) /\ Value(Add(a, b)) = Value(a) + Value(b)
  BY <1>1, <1>2, AddSignedIsRight DEF Add
<1>4. PICK bn \in BOOLEAN : bn = ~b.neg
  BY <1>2
<1>5. /\ Sound(Sub(a, b))
      /\ Value(Sub(a, b)) = (IF a.neg THEN -ValueOf(a.words) ELSE ValueOf(a.words))
                            + (IF bn THEN -ValueOf(b.words) ELSE ValueOf(b.words))
  <2>1. Sub(a, b) = AddSigned(a.words, a.neg, b.words, bn)
    BY <1>4, Zenon DEF Sub
  <2> QED BY <1>1, <1>2, <2>1, AddSignedIsRight
<1>6. Value(Sub(a, b)) = Value(a) - Value(b)
  <2>1. PICK v \in Nat, w \in Nat : v = ValueOf(a.words) /\ w = ValueOf(b.words)
    BY <1>1, <1>2
  <2>2. CASE b.neg
    <3>1. bn = FALSE
      BY <1>4, <2>2
    <3> QED BY <1>1, <1>2, <1>5, <2>1, <2>2, <3>1
  <2>3. CASE ~b.neg
    <3>1. bn = TRUE
      BY <1>4, <2>3
    <3>2. Value(b) = w
      BY <1>2, <2>1, <2>3
    <3>3. Value(Sub(a, b)) = (IF a.neg THEN -v ELSE v) + (-w)
      BY <1>5, <2>1, <3>1
    <3>4. Value(a) = IF a.neg THEN -v ELSE v
      BY <1>1, <2>1
    <3> QED BY <3>2, <3>3, <3>4
  <2> QED BY <2>2, <2>3
<1> QED BY <1>3, <1>5, <1>6

-----------------------------------------------------------------------------
(* Multiplying by a word *)

\* What division by a positive number leaves.
LEMMA Divided ==
  ASSUME NEW x \in Nat, NEW n \in Nat, n >= 2
  PROVE  /\ x \div n \in Nat /\ x % n \in Nat /\ x % n < n
         /\ x = n * (x \div n) + (x % n)
OBVIOUS

LEMMA DividedOnce ==
  ASSUME NEW x \in Nat, NEW n \in Nat, n >= 2, NEW q \in Nat, NEW r \in Nat,
         r < n, x = n * q + r
  PROVE  x \div n = q /\ x % n = r
<1>1. x \div n \in Nat /\ x % n \in Nat /\ x % n < n /\ x = n * (x \div n) + (x % n)
  BY Divided
<1>2. PICK p \in Nat, s \in Nat : p = x \div n /\ s = x % n /\ s < n /\ n * p + s = n * q + r
  BY <1>1
<1>3. ASSUME p < q PROVE FALSE
  <2>1. n * p + n <= n * q /\ n * p \in Nat /\ n * q \in Nat
    BY <1>3
  <2> QED BY <2>1, <1>2
<1>4. ASSUME q < p PROVE FALSE
  <2>1. n * q + n <= n * p /\ n * p \in Nat /\ n * q \in Nat
    BY <1>4
  <2> QED BY <2>1, <1>2
<1>5. p = q
  BY <1>3, <1>4
<1>6. n * p = n * q /\ n * q \in Nat
  BY <1>5
<1> QED BY <1>2, <1>5, <1>6

LEMMA Remains ==
  ASSUME NEW x \in Nat, NEW n \in Nat, x < n
  PROVE  x % n = x
OBVIOUS

LEMMA HalvesOf ==
  ASSUME NEW x \in Nat
  PROVE  Lo(x) \in Nat /\ Hi(x) \in Nat /\ Lo(x) < Half /\ x = Half * Hi(x) + Lo(x)
BY Divided, Halves DEF Lo, Hi

LEMMA TimesLess ==
  ASSUME NEW n \in Nat, NEW q \in Nat, NEW p \in Nat, q < p
  PROVE  n * q + n <= n * p
<1>1. PICK d \in Nat : p = q + 1 + d
  <2>1. p - q - 1 \in Nat /\ p = q + 1 + (p - q - 1)
    OBVIOUS
  <2> QED BY <2>1
<1>2. n * (q + 1 + d) = n * q + n + n * d /\ n * d \in Nat /\ n * q \in Nat
  OBVIOUS
<1> QED BY <1>1, <1>2

\* The words of the product of two words: the sums of products of halves do
\* not overflow.
LEMMA MulHiLo ==
  ASSUME NEW a \in Words, NEW b \in Words
  PROVE  /\ MulLo(a, b) \in Words /\ MulHi(a, b) \in Words /\ MulHi(a, b) + 2 <= Word
         /\ a * b = MulLo(a, b) + Word * MulHi(a, b)
<1>1. a \in Nat /\ b \in Nat /\ a < Word /\ b < Word /\ Word \in Nat /\ Word >= 4
  BY WordFacts
<1>2. PICK H \in Nat : H = Half /\ H >= 2 /\ Word = H * H
  BY Halves
<1>3. PICK al \in Nat, ah \in Nat : al = Lo(a) /\ ah = Hi(a) /\ al < H /\ a = H * ah + al
  BY <1>1, <1>2, HalvesOf
<1>4. PICK bl \in Nat, bh \in Nat : bl = Lo(b) /\ bh = Hi(b) /\ bl < H /\ b = H * bh + bl
  BY <1>1, <1>2, HalvesOf
<1>5. PICK p \in Nat, c1 \in Nat, c2 \in Nat, t \in Nat :
        p = al * bl /\ c1 = al * bh /\ c2 = ah * bl /\ t = ah * bh
  OBVIOUS
<1>6. PICK pl \in Nat, ph \in Nat : pl = Lo(p) /\ ph = Hi(p) /\ pl < H /\ p = H * ph + pl
  BY <1>2, HalvesOf
<1>7. PICK l1 \in Nat, h1 \in Nat : l1 = Lo(c1) /\ h1 = Hi(c1) /\ l1 < H /\ c1 = H * h1 + l1
  BY <1>2, HalvesOf
<1>8. PICK l2 \in Nat, h2 \in Nat : l2 = Lo(c2) /\ h2 = Hi(c2) /\ l2 < H /\ c2 = H * h2 + l2
  BY <1>2, HalvesOf
<1>9. PICK c4 \in Nat : c4 = ph + l1 + l2
  OBVIOUS
<1>10. PICK l4 \in Nat, h4 \in Nat : l4 = Lo(c4) /\ h4 = Hi(c4) /\ l4 < H /\ c4 = H * h4 + l4
  BY <1>2, HalvesOf
\* The product out of the products of halves.
<1>11. a * b = (pl + H * l4) + Word * (h4 + h1 + h2 + t)
  <2>1. a * b = p + H * c1 + H * c2 + H * (H * t)
    <3>1. a * b = (H * ah + al) * (H * bh + bl)
      BY <1>3, <1>4
    <3>2. (H * ah + al) * (H * bh + bl)
            = al * bl + H * (al * bh) + H * (ah * bl) + H * (H * (ah * bh))
      OBVIOUS
    <3> QED BY <3>1, <3>2, <1>5
  <2>2. H * c1 = H * (H * h1) + H * l1 /\ H * c2 = H * (H * h2) + H * l2
    BY <1>7, <1>8
  <2>3. H * c4 = H * (H * h4) + H * l4 /\ H * c4 = H * ph + H * l1 + H * l2
    <3>1. H * (H * h4 + l4) = H * (H * h4) + H * l4
      OBVIOUS
    <3>2. H * (ph + l1 + l2) = H * ph + H * l1 + H * l2
      OBVIOUS
    <3> QED BY <3>1, <3>2, <1>9, <1>10
  <2>4. Word * (h4 + h1 + h2 + t) = H * (H * h4) + H * (H * h1) + H * (H * h2) + H * (H * t)
    BY <1>2
  <2>5. PICK N \in Nat, B \in Nat, C \in Nat, D \in Nat, e \in Nat, f \in Nat, g \in Nat,
             k \in Nat :
          /\ N = H * (H * h4) /\ B = H * (H * h1) /\ C = H * (H * h2) /\ D = H * (H * t)
          /\ e = H * l1 /\ f = H * l2 /\ g = H * l4 /\ k = H * ph
    OBVIOUS
  <2>6. p = k + pl
    BY <1>6, <2>5
  <2>7. N + g = k + e + f
    BY <2>3, <2>5
  <2>8. a * b = p + (B + e) + (C + f) + D
    BY <2>1, <2>2, <2>5
  <2>9. p + (B + e) + (C + f) + D = (pl + g) + (N + B + C + D)
    BY <2>6, <2>7
  <2> QED BY <2>4, <2>5, <2>8, <2>9
<1>12. PICK lo \in Nat, hi \in Nat : lo = pl + H * l4 /\ hi = h4 + h1 + h2 + t
  OBVIOUS
<1>13. lo < Word
  <2>1. H * l4 + H <= H * H
    BY <1>10, <1>2, TimesLess
  <2>2. PICK g \in Nat, k \in Nat : g = H * l4 /\ k = H * H
    OBVIOUS
  <2>3. pl < H /\ lo = pl + g /\ g + H <= k /\ Word = k
    BY <2>1, <2>2, <1>2, <1>6, <1>12
  <2> QED BY ONLY <2>3, H \in Nat, g \in Nat, k \in Nat, pl \in Nat
<1>14. hi + 2 <= Word
  <2>1. a * b <= (Word - 1) * (Word - 1)
    BY <1>1
  <2>2. (Word - 1) * (Word - 1) = Word * (Word - 2) + 1
    BY <1>1
  <2>3. a * b = lo + Word * hi
    BY <1>11, <1>12
  <2>4. ASSUME Word <= hi + 1 PROVE FALSE
    <3>1. PICK W \in Nat, d \in Nat : W = Word /\ hi = (W - 1) + d /\ W >= 4
      <4>1. hi - (Word - 1) \in Nat /\ hi = (Word - 1) + (hi - (Word - 1))
        BY <1>1, <2>4
      <4> QED BY <4>1, <1>1
    <3>2. W * hi = W * (W - 2) + W + W * d /\ W * d \in Nat /\ W * (W - 2) \in Nat
      BY <3>1
    <3> QED BY <2>1, <2>2, <2>3, <3>1, <3>2
  <2> QED BY <2>4, <1>1
<1>15. c4 % Word = c4
  <2>1. ph + 1 <= H
    <3>1. al * bl <= (H - 1) * (H - 1)
      BY <1>2, <1>3, <1>4
    <3>2. (H - 1) * (H - 1) < H * H
      BY <1>2
    <3>3. H * ph < H * H
      BY <3>1, <3>2, <1>5, <1>6
    <3>4. ASSUME H <= ph PROVE FALSE
      <4>1. H * H <= H * ph
        BY <3>4
      <4> QED BY <4>1, <3>3
    <3> QED BY <3>4
  <2>2. c4 + 3 <= H + H + H
    <3>1. l1 < H /\ l2 < H /\ c4 = ph + l1 + l2
      BY <1>7, <1>8, <1>9
    <3> QED BY ONLY <2>1, <3>1, H \in Nat, l1 \in Nat, l2 \in Nat, ph \in Nat
  <2>3. H + H + H < H * H + 3
    <3>1. CASE H = 2
      BY <3>1
    <3>2. CASE H >= 3
      <4>1. H * 3 <= H * H
        BY <3>2
      <4> QED BY <4>1
    <3> QED BY <3>1, <3>2, <1>2
  <2>4. c4 < Word
    BY <2>2, <2>3, <1>2
  <2> QED BY <2>4, <1>1
<1>16. MulHi(a, b) = hi
  <2>1. MulHi(a, b) = (h4 + h1 + h2 + t) % Word
    BY <1>3, <1>4, <1>5, <1>6, <1>7, <1>8, <1>9, <1>10, <1>15 DEF MulHi
  <2>2. hi % Word = hi
    BY <1>1, <1>14
  <2> QED BY <2>1, <2>2, <1>12
<1>17. MulLo(a, b) = lo
  <2>1. PICK x \in Nat : x = a * b
    BY <1>1
  <2>2. x = Word * hi + lo
    <3>1. Word * hi \in Nat
      BY <1>1
    <3> QED BY <3>1, <2>1, <1>11, <1>12
  <2>3. x % Word = lo
    BY <2>2, <1>1, <1>13, DividedOnce
  <2> QED BY <2>1, <2>3 DEF MulLo
<1>18. lo \in Words /\ hi \in Words
  BY <1>1, <1>13, <1>14, WordFacts
<1> QED BY <1>11, <1>12, <1>14, <1>16, <1>17, <1>18

\* What a step of a product by a word writes and carries.
LEMMA MulSteps ==
  ASSUME NEW a \in Seq(Words), NEW f \in Words, NEW i \in 1..Len(a), NEW c \in Words,
         NEW s, s = MulStep(a, f)[i][c]
  PROVE  s \in Results /\ s.w + Word * s.c = At(a, i) * f + c
<1>1. PICK d \in Words : d = a[i] /\ At(a, i) = d
  BY DEF At
<1>2. PICK lo \in Words, hi \in Words :
        lo = MulLo(d, f) /\ hi = MulHi(d, f) /\ hi + 2 <= Word /\ d * f = lo + Word * hi
  BY MulHiLo
<1>3. PICK t \in Results : t = AddCarry(lo, c) /\ t.c \in {0, 1} /\ t.w + Word * t.c = lo + c
  BY AddCarryIsRight
<1>4. PICK W \in Nat, x \in Nat, k \in Nat :
        /\ W = Word /\ W >= 4 /\ x = t.w /\ k = t.c /\ k <= 1 /\ x + W * k = lo + c
        /\ lo \in Nat /\ hi \in Nat /\ c \in Nat /\ hi + 2 <= W
  <2>1. t.w \in Words /\ t.c \in Nat /\ t.c <= 1
    BY <1>3 DEF Results
  <2>2. lo \in Nat /\ hi \in Nat /\ c \in Nat /\ t.w \in Nat /\ Word \in Nat /\ Word >= 4
    BY <2>1, WordFacts
  <2> QED BY <1>2, <1>3, <2>1, <2>2
<1>5. (k + hi) % W = k + hi /\ k + hi \in Words
  <2>1. k <= 1 /\ hi + 2 <= W /\ hi \in Nat
    BY <1>4
  <2>2. k + hi \in Nat /\ k + hi < W
    BY ONLY <2>1, k \in Nat, W \in Nat
  <2>3. (k + hi) % W = k + hi
    BY <2>2, Remains
  <2>4. k + hi \in Words
    BY <2>2, <1>4, WordFacts
  <2> QED BY <2>3, <2>4
<1>6. s = [w |-> x, c |-> k + hi]
  BY <1>1, <1>2, <1>3, <1>4, <1>5 DEF MulStep
<1>7. x + W * (k + hi) = d * f + c
  <2>1. PICK m \in Nat, p \in Nat : m = W * k /\ p = W * hi /\ W * (k + hi) = m + p
    <3>1. W * (k + hi) = W * k + W * hi /\ W * k \in Nat /\ W * hi \in Nat
      BY <1>4
    <3> QED BY <3>1
  <2>2. x + m = lo + c /\ d * f = lo + p
    BY <1>2, <1>4, <2>1
  <2>3. lo \in Nat /\ c \in Nat
    BY <1>4
  <2>4. x + (m + p) = (lo + p) + c
    BY ONLY <2>2, <2>3, x \in Nat, m \in Nat, p \in Nat
  <2> QED BY <2>1, <2>2, <2>4
<1>8. x \in Words
  BY <1>3, <1>4 DEF Results
<1> QED BY <1>1, <1>4, <1>5, <1>6, <1>7, <1>8 DEF Results

\* A step of a row of a product adds to a word that is there; past the
\* factor a carry that meets a zero ends.
Adds(dst, at, a, f, i, c, s) ==
  /\ s.w + Word * s.c = At(dst, at + i) + At(a, i) * f + c
  /\ i > Len(a) /\ (c = 0 \/ At(dst, at + i) = 0) => s.c = 0
LEMMA MulAddSteps ==
  ASSUME NEW dst \in Seq(Words), NEW at \in Nat, NEW a \in Seq(Words), NEW f \in Words,
         NEW i \in 1..(Len(dst) - at), NEW c \in Words,
         NEW s, s = MulAddStep(dst, at, a, f)[i][c]
  PROVE  s \in Results /\ Adds(dst, at, a, f, i, c, s)
<1>1. PICK e \in Words : e = dst[at + i] /\ At(dst, at + i) = e
  <2>1. at + i \in 1..Len(dst)
    OBVIOUS
  <2> QED BY <2>1 DEF At
<1>2. PICK W \in Nat : W = Word /\ W >= 4
  BY WordFacts
<1>3. c \in Nat /\ e \in Nat /\ f \in Nat /\ c < W /\ e < W /\ f < W
  BY <1>1, <1>2, WordFacts
<1>4. CASE i <= Len(a)
  <2>1. PICK d \in Words : d = a[i] /\ At(a, i) = d
    BY <1>4 DEF At
  <2>2. PICK lo \in Words, hi \in Words :
          lo = MulLo(d, f) /\ hi = MulHi(d, f) /\ hi + 2 <= Word /\ d * f = lo + Word * hi
    BY MulHiLo
  <2>3. PICK p \in Results : p = AddCarry(lo, c) /\ p.c \in {0, 1} /\ p.w + Word * p.c = lo + c
    BY AddCarryIsRight
  <2>4. p.w \in Words
    BY <2>3 DEF Results
  <2>5. PICK q \in Results : q = AddCarry(e, p.w) /\ q.c \in {0, 1} /\ q.w + Word * q.c = e + p.w
    BY <2>4, AddCarryIsRight
  <2>6. q.w \in Words
    BY <2>5 DEF Results
  <2>7. PICK u \in Nat, v \in Nat, k \in Nat, l \in Nat :
          /\ u = p.w /\ v = q.w /\ k = p.c /\ l = q.c /\ v < W
          /\ k <= 1 /\ l <= 1 /\ u + W * k = lo + c /\ v + W * l = e + u
    <3>1. p.c \in Nat /\ p.c <= 1 /\ q.c \in Nat /\ q.c <= 1
      BY <2>3, <2>5
    <3>2. p.w \in Nat /\ q.w \in Nat /\ q.w < W
      BY <1>2, <2>4, <2>6, WordFacts
    <3> QED BY <1>2, <2>3, <2>5, <3>1, <3>2
  <2>8. lo \in Nat /\ hi \in Nat /\ d \in Nat /\ d < W
    BY <1>2, WordFacts
  <2>9. v + W * (k + hi + l) = e + d * f + c
    <3>1. PICK m \in Nat, n \in Nat, o \in Nat :
            m = W * k /\ n = W * hi /\ o = W * l /\ W * (k + hi + l) = m + n + o
      <4>1. /\ W * (k + hi + l) = W * k + W * hi + W * l
            /\ W * k \in Nat /\ W * hi \in Nat /\ W * l \in Nat
        BY <2>8
      <4> QED BY <4>1
    <3>2. u + m = lo + c /\ v + o = e + u /\ d * f = lo + n
      BY <1>2, <2>2, <2>7, <3>1
    <3>3. v + (m + n + o) = e + (lo + n) + c
      BY ONLY <3>2, <1>3, <2>8, u \in Nat, v \in Nat, m \in Nat, n \in Nat, o \in Nat
    <3> QED BY <3>1, <3>2, <3>3
  <2>10. k + hi + l < W
    <3> SUFFICES ASSUME W <= k + hi + l PROVE FALSE
      BY <2>8
    <3>1. W * W <= W * (k + hi + l)
      <4>1. k + hi + l = W
        <5>1. k <= 1 /\ l <= 1 /\ hi + 2 <= W /\ hi \in Nat /\ W <= k + hi + l
          BY <2>2, <2>7, <2>8, <1>2
        <5> QED BY ONLY <5>1, k \in Nat, l \in Nat, W \in Nat
      <4> QED BY <4>1
    <3>2. d * f <= (W - 1) * (W - 1)
      BY <2>8, <1>3
    <3>3. (W - 1) * (W - 1) = W * W - W - W + 1
      OBVIOUS
    <3>4. PICK m \in Nat, n \in Nat, o \in Nat : m = W * W /\ n = W * (k + hi + l) /\ o = d * f
      BY <2>8, <1>3
    <3>5. m <= n /\ o <= m - W - W + 1 /\ v + n = e + o + c
      BY <3>1, <3>2, <3>3, <3>4, <2>9
    <3>6. c <= W - 1 /\ e <= W - 1
      BY <1>3
    <3> QED BY ONLY <3>5, <3>6, <1>3, m \in Nat, n \in Nat, o \in Nat, v \in Nat, W \in Nat
  <2>11. (k + hi + l) % W = k + hi + l /\ k + hi + l \in Words
    <3>1. k + hi + l \in Nat
      BY <2>8
    <3>2. (k + hi + l) % W = k + hi + l
      BY <3>1, <2>10, Remains
    <3>3. k + hi + l \in Words
      BY <3>1, <2>10, <1>2, WordFacts
    <3> QED BY <3>2, <3>3
  <2>12. s = [w |-> v, c |-> k + hi + l]
    BY <1>1, <1>2, <1>4, <2>1, <2>2, <2>3, <2>5, <2>7, <2>11 DEF MulAddStep
  <2>13. ~(i > Len(a))
    BY <1>4
  <2> QED BY <1>1, <1>2, <2>1, <2>6, <2>7, <2>9, <2>11, <2>12, <2>13 DEF Results, Adds
<1>5. CASE ~(i <= Len(a))
  <2>1. At(a, i) = 0 /\ 0 * f = 0
    BY <1>3, <1>5 DEF At
  <2>2. CASE c # 0
    <3>1. s = AddCarry(e, c)
      BY <1>1, <1>5, <2>2 DEF MulAddStep
    <3>2. s \in Results /\ s.c \in {0, 1} /\ s.w + Word * s.c = e + c
      BY <3>1, AddCarryIsRight
    <3>3. e = 0 => s.c = 0
      <4>1. e = 0 => s = [w |-> c % Word, c |-> IF c % Word < c THEN 1 ELSE 0]
        BY <3>1, <1>3 DEF AddCarry
      <4>2. c % Word = c
        BY <1>2, <1>3
      <4> QED BY <4>1, <4>2, <1>3
    <3>4. e + 0 + c = e + c
      BY <1>3
    <3> QED BY <1>1, <2>1, <2>2, <3>2, <3>3, <3>4 DEF Adds
  <2>3. CASE c = 0
    <3>1. s = [w |-> e, c |-> 0]
      BY <1>1, <1>5, <2>3 DEF MulAddStep
    <3>2. e + W * 0 = e + 0 + 0
      BY <1>2, <1>3
    <3> QED BY <1>1, <1>2, <2>1, <2>3, <3>1, <3>2, WordFacts DEF Results, Adds
  <2> QED BY <2>2, <2>3
<1> QED BY <1>4, <1>5

\* A function of words is a sequence of words.
LEMMA WordsAreSeq ==
  ASSUME NEW n \in Nat, NEW r \in [1..n -> Words]
  PROVE  r \in Seq(Words) /\ Len(r) = n
<1>1. r \in UNION {[1..k -> Words] : k \in Nat}
  OBVIOUS
<1>2. r \in Seq(Words)
  BY <1>1, SeqDef, Zenon
<1>3. DOMAIN r = 1..n /\ DOMAIN r = 1..Len(r) /\ Len(r) \in Nat
  BY <1>2, LenProperties
<1> QED BY <1>2, <1>3

\* bigint_raw_mul_word multiplies.
LEMMA RawMulWordIsRight ==
  ASSUME NEW a \in Seq(Words), NEW f \in Words
  PROVE  Normal(RawMulWord(a, f)) /\ ValueOf(RawMulWord(a, f)) = ValueOf(a) * f
<1>1. PICK n \in Nat : n = Len(a)
  OBVIOUS
<1>2. MulStep(a, f) \in Steps(n)
  <2>1. \A i \in 1..n : \A c \in Words : MulStep(a, f)[i][c] \in Results
    BY <1>1, MulSteps
  <2>2. MulStep(a, f) = [i \in 1..n |-> [c \in Words |-> MulStep(a, f)[i][c]]]
    BY <1>1 DEF MulStep
  <2> QED BY <2>1, <2>2 DEF Steps
<1>3. PICK C, prod : C = Carried(n, MulStep(a, f)) /\ prod = Walked(n, MulStep(a, f))
  OBVIOUS
<1>4. /\ prod.w \in [1..n -> Words] /\ prod.c = C[n]
      /\ C \in [0..n -> Words] /\ C[0] = 0
      /\ \A i \in 1..n : /\ prod.w[i] = MulStep(a, f)[i][C[i - 1]].w
                          /\ C[i] = MulStep(a, f)[i][C[i - 1]].c
  BY <1>2, <1>3, WalkedUnfolds
<1>5. prod.w \in Seq(Words) /\ Len(prod.w) = n
  BY <1>4, WordsAreSeq
<1>6. ASSUME NEW i \in 1..n
      PROVE  /\ C[i - 1] \in Words /\ C[i] \in Words /\ prod.w[i] \in Words
             /\ prod.w[i] + Word * C[i] = At(a, i) * f + C[i - 1]
  <2>1. i - 1 \in 0..n /\ i \in 0..n /\ i \in 1..Len(a)
    BY <1>1
  <2>2. C[i - 1] \in Words /\ C[i] \in Words /\ prod.w[i] \in Words
    BY <2>1, <1>4
  <2>3. PICK s : s = MulStep(a, f)[i][C[i - 1]]
    OBVIOUS
  <2>4. s.w + Word * s.c = At(a, i) * f + C[i - 1]
    BY <2>1, <2>2, <2>3, MulSteps
  <2> QED BY <2>2, <2>3, <2>4, <1>4
<1>7. C[n] \in Words
  BY <1>4
<1>8. PICK r : r = Append(prod.w, C[n])
  OBVIOUS
<1>9. /\ r \in Seq(Words) /\ Len(r) = n + 1
      /\ \A i \in 1..n : At(r, i) = prod.w[i]
      /\ At(r, n + 1) = C[n]
  <2>1. r \in Seq(Words) /\ Len(r) = n + 1
    BY <1>5, <1>7, <1>8
  <2>2. (\A i \in 1..n : r[i] = prod.w[i]) /\ r[n + 1] = C[n]
    BY <1>5, <1>7, <1>8
  <2>3. n + 1 \in 1..(n + 1) /\ \A i \in 1..n : i \in 1..(n + 1)
    OBVIOUS
  <2> QED BY <2>1, <2>2, <2>3 DEF At
<1> DEFINE T == {i \in Nat \ {0} : Above(r, i) = Above(a, i) * f + C[i - 1]}
<1>10. n + 1 \in T
  <2>1. n + 1 \in Nat \ {0} /\ n + 1 \in Nat /\ n + 1 # 0 /\ n + 1 > Len(a) /\ (n + 1) - 1 = n
    BY <1>1
  <2>2. Above(a, n + 1) = 0
    BY <2>1, AboveEnds
  <2>3. n + 1 + 1 \in Nat /\ n + 1 + 1 > Len(r)
    BY <1>9
  <2>4. Above(r, n + 1 + 1) = 0
    BY <2>3, <1>9, AboveEnds
  <2>5. Above(r, n + 1) = C[n] + Word * 0
    BY <2>1, <2>4, <1>9, AboveSplits
  <2>6. C[n] \in Nat /\ Word * 0 = 0 /\ 0 * f = 0
    <3>1. C[n] \in Nat /\ Word \in Nat /\ f \in Nat
      BY <1>7, WordFacts
    <3> QED BY <3>1
  <2> QED BY <2>1, <2>2, <2>5, <2>6
<1>11. ASSUME NEW i \in 1..n, i + 1 \in T PROVE i \in T
  <2>1. i \in Nat \ {0} /\ i \in Nat /\ i # 0 /\ i + 1 \in Nat /\ i + 1 # 0 /\ (i + 1) - 1 = i
    OBVIOUS
  <2>2. PICK x \in Nat, W \in Nat, d \in Nat, g \in Nat :
          x = Above(a, i + 1) /\ W = Word /\ d = At(a, i) /\ g = f
    BY <2>1, AboveIsNat, AtIsWord, WordFacts
  <2>3. PICK u \in Nat, c \in Nat, k \in Nat :
          u = prod.w[i] /\ c = C[i - 1] /\ k = C[i] /\ u + W * k = d * g + c
    <3>1. prod.w[i] \in Nat /\ C[i - 1] \in Nat /\ C[i] \in Nat
      BY <1>6, WordFacts
    <3> QED BY <3>1, <1>6, <2>2
  <2>4. Above(r, i + 1) = x * g + k
    BY <1>11, <2>1, <2>2, <2>3
  <2>5. Above(r, i) = u + W * (x * g + k)
    BY <1>9, <2>1, <2>2, <2>3, <2>4, AboveSplits
  <2>6. Above(a, i) = d + W * x
    BY <2>1, <2>2, AboveSplits
  <2>7. u + W * (x * g + k) = (d + W * x) * g + c
    <3>1. W * (x * g + k) = W * (x * g) + W * k /\ (d + W * x) * g = d * g + W * (x * g)
      OBVIOUS
    <3>2. PICK m \in Nat, o \in Nat, p \in Nat : m = W * (x * g) /\ o = W * k /\ p = d * g
      OBVIOUS
    <3>3. u + o = p + c
      BY <2>3, <3>2
    <3>4. u + (m + o) = (p + m) + c
      BY ONLY <3>3, u \in Nat, c \in Nat, m \in Nat, o \in Nat, p \in Nat
    <3> QED BY <3>1, <3>2, <3>4
  <2> QED BY <2>1, <2>2, <2>3, <2>5, <2>6, <2>7
<1>12. 1 \in T
  <2> HIDE DEF T
  <2>1. n + 1 \in Nat \ {0} /\ 1 \in 1..(n + 1) /\ (n + 1) - 1 = n
    OBVIOUS
  <2> QED BY <1>10, <1>11, <2>1, Downward
<1>13. ValueOf(r) = ValueOf(a) * f
  <2>1. Above(r, 1) = Above(a, 1) * f + C[1 - 1]
    BY <1>12
  <2>2. C[1 - 1] = 0
    BY <1>4
  <2>3. Above(a, 1) * f \in Nat
    <3>1. Above(a, 1) \in Nat /\ f \in Nat
      BY AboveIsNat, WordFacts
    <3> QED BY <3>1
  <2>4. ValueOf(r) = Above(r, 1) /\ ValueOf(a) = Above(a, 1)
    BY <1>9, AboveAll
  <2> HIDE DEF T
  <2>5. Above(r, 1) = Above(a, 1) * f
    BY <2>1, <2>2, <2>3
  <2> QED BY <2>4, <2>5
<1> HIDE DEF T
<1>14. CASE C[n] # 0
  <2>1. RawMulWord(a, f) = Truncate(r)
    BY <1>1, <1>3, <1>4, <1>8, <1>14 DEF RawMulWord
  <2> QED BY <2>1, <1>9, <1>13, TruncateCuts
<1>15. CASE C[n] = 0
  <2>1. RawMulWord(a, f) = Truncate(prod.w)
    BY <1>1, <1>3, <1>4, <1>15 DEF RawMulWord
  <2>2. ASSUME NEW i \in Nat \ {0} PROVE At(r, i) = At(prod.w, i)
    <3>1. CASE i \in 1..n
      BY <3>1, <1>5, <1>9 DEF At
    <3>2. CASE i = n + 1
      <4>1. i \notin 1..n
        BY <3>2
      <4> QED BY <3>2, <4>1, <1>5, <1>9, <1>15 DEF At
    <3>3. CASE i \notin 1..n /\ i # n + 1
      <4>1. i \notin 1..(n + 1)
        BY <3>3
      <4> QED BY <3>3, <4>1, <1>5, <1>9 DEF At
    <3> QED BY <3>1, <3>2, <3>3
  <2>3. ValueOf(r) = ValueOf(prod.w)
    BY <1>5, <1>9, <2>2, SameWordsSameValue
  <2> QED BY <2>1, <2>3, <1>5, <1>13, TruncateCuts
<1> QED BY <1>14, <1>15

\* The words that a row of a product leaves, and those that it writes.
Row(dst, at, a, f, D, C, n) ==
  /\ C \in [0..n -> Words] /\ C[0] = 0
  /\ \A i \in 1..n :
       /\ At(D, at + i) + Word * C[i] = At(dst, at + i) + At(a, i) * f + C[i - 1]
       /\ i > Len(a) /\ At(dst, at + i) = 0 => C[i] = 0
LEMMA RowWalks ==
  ASSUME NEW dst \in Seq(Words), NEW at \in Nat, at <= Len(dst),
         NEW a \in Seq(Words), NEW f \in Words, NEW D, D = MulWordAdd(dst, at, a, f),
         NEW n, n = Len(dst) - at
  PROVE  /\ n \in Nat /\ D \in Seq(Words) /\ Len(D) = Len(dst)
         /\ \A j \in 1..at : At(D, j) = At(dst, j)
         /\ \E C : Row(dst, at, a, f, D, C, n)
<1>1. n \in Nat /\ Len(dst) = at + n
  OBVIOUS
<1>2. MulAddStep(dst, at, a, f) \in Steps(n)
  <2>1. \A i \in 1..n : \A c \in Words : MulAddStep(dst, at, a, f)[i][c] \in Results
    BY MulAddSteps
  <2>2. MulAddStep(dst, at, a, f)
          = [i \in 1..n |-> [c \in Words |-> MulAddStep(dst, at, a, f)[i][c]]]
    BY DEF MulAddStep
  <2> QED BY <2>1, <2>2 DEF Steps
<1>3. PICK C, row, r : /\ C = Carried(n, MulAddStep(dst, at, a, f))
                       /\ row = Walked(n, MulAddStep(dst, at, a, f)) /\ r = row.w
  OBVIOUS
<1>4. /\ r \in [1..n -> Words] /\ C \in [0..n -> Words] /\ C[0] = 0
      /\ \A i \in 1..n : /\ r[i] = MulAddStep(dst, at, a, f)[i][C[i - 1]].w
                          /\ C[i] = MulAddStep(dst, at, a, f)[i][C[i - 1]].c
  BY <1>1, <1>2, <1>3, WalkedUnfolds
<1>5. r \in Seq(Words) /\ Len(r) = n
  BY <1>1, <1>4, WordsAreSeq
<1>6. PICK h : h = SubSeq(dst, 1, at)
  OBVIOUS
<1>7. h \in Seq(Words) /\ Len(h) = at /\ \A j \in 1..at : h[j] = dst[j]
  BY <1>6
<1>8. D = h \o r
  BY <1>3, <1>6 DEF MulWordAdd
<1>9. /\ D \in Seq(Words) /\ Len(D) = at + n
      /\ \A j \in 1..at : D[j] = h[j]
      /\ \A i \in 1..n : D[at + i] = r[i]
  BY <1>1, <1>5, <1>7, <1>8
<1>10. ASSUME NEW j \in 1..at PROVE At(D, j) = At(dst, j)
  BY <1>1, <1>7, <1>9, <1>10 DEF At
<1>11. ASSUME NEW i \in 1..n
       PROVE  /\ At(D, at + i) + Word * C[i] = At(dst, at + i) + At(a, i) * f + C[i - 1]
              /\ i > Len(a) /\ At(dst, at + i) = 0 => C[i] = 0
  <2>1. at + i \in 1..Len(D) /\ C[i - 1] \in Words
    BY <1>1, <1>4, <1>9
  <2>2. PICK c, s : c \in Words /\ c = C[i - 1] /\ s = MulAddStep(dst, at, a, f)[i][c]
    BY <2>1
  <2>3. Adds(dst, at, a, f, i, c, s)
    <3>1. i \in 1..(Len(dst) - at)
      OBVIOUS
    <3> QED BY ONLY <2>2, <3>1, MulAddSteps, dst \in Seq(Words), at \in Nat, a \in Seq(Words),
                    f \in Words
  <2>4. At(D, at + i) = s.w /\ C[i] = s.c
    BY <2>1, <2>2, <1>4, <1>9 DEF At
  <2>5. At(D, at + i) + Word * C[i] = At(dst, at + i) + At(a, i) * f + C[i - 1]
    BY <2>2, <2>3, <2>4 DEF Adds
  <2>6. i > Len(a) /\ At(dst, at + i) = 0 => C[i] = 0
    BY <2>3, <2>4 DEF Adds
  <2> QED BY <2>5, <2>6
<1>12. Row(dst, at, a, f, D, C, n)
  BY <1>4, <1>11 DEF Row
<1> QED BY <1>1, <1>9, <1>10, <1>12

LEMMA RowTyped ==
  ASSUME NEW dst \in Seq(Words), NEW at \in Nat, at <= Len(dst),
         NEW a \in Seq(Words), NEW f \in Words
  PROVE  /\ MulWordAdd(dst, at, a, f) \in Seq(Words)
         /\ Len(MulWordAdd(dst, at, a, f)) = Len(dst)
         /\ \A j \in 1..at : At(MulWordAdd(dst, at, a, f), j) = At(dst, j)
<1>1. PICK D, n : D = MulWordAdd(dst, at, a, f) /\ n = Len(dst) - at
  OBVIOUS
<1> QED BY <1>1, RowWalks

\* No word past the first k is other than zero.
ZeroPast(w, k) == \A j \in Nat : j > k => At(w, j) = 0

\* A row adds the product of the factor and a word to the words past the first
\* ones, if those past the factor were zero: then one of them is written to.
LEMMA RowIsRight ==
  ASSUME NEW dst \in Seq(Words), NEW at \in Nat, NEW a \in Seq(Words), NEW f \in Words,
         at + Len(a) < Len(dst), ZeroPast(dst, at + Len(a)),
         NEW D, D = MulWordAdd(dst, at, a, f)
  PROVE  /\ ZeroPast(D, at + Len(a) + 1)
         /\ Above(D, at + 1) = Above(dst, at + 1) + ValueOf(a) * f
<1>1. PICK n \in Nat : n = Len(dst) - at /\ at + n = Len(dst) /\ Len(a) < n /\ at <= Len(dst)
  <2>1. PICK m \in Nat, k \in Nat : m = Len(dst) /\ k = Len(a) /\ at + k < m
    OBVIOUS
  <2>2. m - at \in Nat /\ at + (m - at) = m /\ k < m - at /\ at <= m
    BY ONLY <2>1, at \in Nat, m \in Nat, k \in Nat
  <2> QED BY <2>1, <2>2
<1>2. D \in Seq(Words) /\ Len(D) = at + n
  BY <1>1, RowWalks
<1>3. PICK C : /\ C \in [0..n -> Words] /\ C[0] = 0
               /\ \A i \in 1..n :
                    /\ At(D, at + i) + Word * C[i] = At(dst, at + i) + At(a, i) * f + C[i - 1]
                    /\ i > Len(a) /\ At(dst, at + i) = 0 => C[i] = 0
  <2>1. PICK C : Row(dst, at, a, f, D, C, n)
    BY <1>1, RowWalks
  <2> QED BY <2>1 DEF Row
<1>4. ASSUME NEW i \in 1..n, i > Len(a) PROVE C[i] = 0 /\ At(dst, at + i) = 0 /\ At(a, i) = 0
  <2>1. at + i \in Nat /\ at + i > at + Len(a)
    BY <1>4
  <2>2. At(dst, at + i) = 0
    BY <2>1 DEF ZeroPast
  <2> QED BY <2>2, <1>3, <1>4 DEF At
<1>5. PICK W \in Nat, F \in Nat : W = Word /\ F = f
  BY WordFacts
<1>6. ASSUME NEW j \in Nat, j > at + Len(a) + 1 PROVE At(D, j) = 0
  <2>1. CASE j > Len(D)
    BY <2>1 DEF At
  <2>2. CASE ~(j > Len(D))
    <3>1. PICK i \in 1..n : j = at + i /\ i > Len(a) /\ i - 1 \in 1..n /\ i - 1 > Len(a)
      <4>1. j - at \in 1..n /\ j - at > Len(a) /\ j - at - 1 \in 1..n /\ j - at - 1 > Len(a)
            /\ j = at + (j - at)
        BY <1>1, <1>2, <1>6, <2>2
      <4> QED BY <4>1
    <3>2. C[i] = 0 /\ C[i - 1] = 0 /\ At(dst, at + i) = 0 /\ At(a, i) = 0
      BY <3>1, <1>4
    <3>3. At(D, at + i) + W * 0 = 0 + 0 * F + 0
      BY <3>2, <1>3, <1>5
    <3>4. At(D, at + i) \in Nat
      <4>1. at + i \in Nat
        BY <3>1
      <4> QED BY <4>1, <1>2, AtIsWord
    <3>5. W * 0 = 0 /\ 0 * F = 0
      OBVIOUS
    <3> QED BY <3>1, <3>3, <3>4, <3>5
  <2> QED BY <2>1, <2>2
<1> DEFINE T == {i \in Nat \ {0} :
                   Above(D, at + i) = Above(dst, at + i) + Above(a, i) * F + C[i - 1]}
<1>7. n + 1 \in T
  <2>1. /\ n + 1 \in Nat \ {0} /\ n + 1 > Len(a) /\ (n + 1) - 1 = n
        /\ at + (n + 1) \in Nat /\ at + (n + 1) > Len(D) /\ at + (n + 1) > Len(dst)
    BY <1>1, <1>2
  <2>2. Above(D, at + (n + 1)) = 0 /\ Above(dst, at + (n + 1)) = 0 /\ Above(a, n + 1) = 0
    BY <2>1, <1>2, AboveEnds
  <2>3. C[n] = 0
    <3>1. n \in 1..n
      BY <1>1
    <3> QED BY <3>1, <1>1, <1>4
  <2>4. 0 * F = 0
    OBVIOUS
  <2> QED BY <2>1, <2>2, <2>3, <2>4
<1>8. ASSUME NEW i \in 1..n, i + 1 \in T PROVE i \in T
  <2>1. /\ i \in Nat \ {0} /\ i \in Nat /\ i # 0 /\ i + 1 \in Nat /\ i + 1 # 0 /\ (i + 1) - 1 = i
        /\ at + i \in Nat /\ at + i # 0 /\ at + (i + 1) = at + i + 1
        /\ at + i + 1 \in Nat /\ at + i + 1 # 0
    OBVIOUS
  <2>2. PICK x \in Nat, y \in Nat, d \in Nat, e \in Nat, u \in Nat :
          /\ x = Above(a, i + 1) /\ y = Above(dst, at + i + 1)
          /\ d = At(a, i) /\ e = At(dst, at + i) /\ u = At(D, at + i)
    BY <2>1, <1>2, AboveIsNat, AtIsWord
  <2>3. PICK c \in Nat, k \in Nat : c = C[i - 1] /\ k = C[i] /\ u + W * k = e + d * F + c
    <3>1. i - 1 \in 0..n /\ i \in 0..n
      OBVIOUS
    <3>2. C[i - 1] \in Nat /\ C[i] \in Nat
      <4>1. C[i - 1] \in Words /\ C[i] \in Words
        BY <3>1, <1>3
      <4> QED BY <4>1, WordFacts
    <3> QED BY <3>2, <2>2, <1>3, <1>5
  <2>4. Above(D, at + i + 1) = y + x * F + k
    BY <1>8, <2>1, <2>2, <2>3
  <2>5. Above(D, at + i) = u + W * (y + x * F + k)
    BY <2>1, <2>2, <2>4, <1>2, <1>5, AboveSplits
  <2>6. Above(dst, at + i) = e + W * y /\ Above(a, i) = d + W * x
    BY <2>1, <2>2, <1>5, AboveSplits
  <2>7. u + W * (y + x * F + k) = (e + W * y) + (d + W * x) * F + c
    <3>1. /\ W * (y + x * F + k) = W * y + W * (x * F) + W * k
          /\ (d + W * x) * F = d * F + W * (x * F)
      OBVIOUS
    <3>2. PICK m \in Nat, o \in Nat, p \in Nat, q \in Nat :
            m = W * (x * F) /\ o = W * k /\ p = d * F /\ q = W * y
      OBVIOUS
    <3>3. u + o = e + p + c
      BY <2>3, <3>2
    <3>4. u + (q + m + o) = (e + q) + (p + m) + c
      BY ONLY <3>3, u \in Nat, c \in Nat, e \in Nat, m \in Nat, o \in Nat, p \in Nat, q \in Nat
    <3> QED BY <3>1, <3>2, <3>4
  <2> QED BY <2>1, <2>2, <2>3, <2>5, <2>6, <2>7
<1>9. 1 \in T
  <2> HIDE DEF T
  <2>1. n + 1 \in Nat \ {0} /\ 1 \in 1..(n + 1) /\ (n + 1) - 1 = n
    OBVIOUS
  <2> QED BY <1>7, <1>8, <2>1, Downward
<1>10. Above(D, at + 1) = Above(dst, at + 1) + Above(a, 1) * F + C[1 - 1]
  BY <1>9
<1> HIDE DEF T
<1>11. Above(D, at + 1) = Above(dst, at + 1) + Above(a, 1) * F
  <2>1. PICK p \in Nat, q \in Nat : p = Above(dst, at + 1) /\ q = Above(a, 1) * F
    <3>1. Above(dst, at + 1) \in Nat
      <4>1. at + 1 \in Nat /\ at + 1 # 0
        OBVIOUS
      <4> QED BY <4>1, AboveIsNat
    <3>2. Above(a, 1) * F \in Nat
      <4>1. Above(a, 1) \in Nat
        BY AboveIsNat
      <4> QED BY <4>1
    <3> QED BY <3>1, <3>2
  <2>2. C[1 - 1] = 0
    BY <1>3
  <2> QED BY <2>1, <2>2, <1>10
<1>12. ValueOf(a) = Above(a, 1)
  BY AboveAll
<1> QED BY <1>5, <1>6, <1>11, <1>12 DEF ZeroPast

\* The words of the rows: as many as of both factors.
Buffers(a, b) == {d \in Seq(Words) : Len(d) = Len(a) + Len(b)}

LEMMA RowsUnfold ==
  ASSUME NEW a \in Seq(Words), NEW b \in Seq(Words), NEW R, R = Rows(a, b)
  PROVE  /\ R \in [0..Len(b) -> Buffers(a, b)]
         /\ R[0] = Zeros(Len(a) + Len(b))
         /\ \A i \in 1..Len(b) : R[i] = MulWordAdd(R[i - 1], i - 1, a, b[i])
<1>1. PICK n \in Nat : n = Len(b)
  OBVIOUS
<1>2. PICK S : S = Buffers(a, b)
  OBVIOUS
<1>3. PICK base \in S : base = Zeros(Len(a) + Len(b))
  <2>1. PICK m \in Nat : m = Len(a) + Len(b)
    OBVIOUS
  <2>2. [i \in 1..m |-> 0] \in [1..m -> Words]
    BY WordFacts
  <2>3. Zeros(m) \in Seq(Words) /\ Len(Zeros(m)) = m
    BY <2>2, WordsAreSeq DEF Zeros
  <2> QED BY <2>1, <2>3, <1>2 DEF Buffers
<1>4. ASSUME NEW i \in 1..n, NEW d \in S PROVE MulWordAdd(d, i - 1, a, b[i]) \in S
  <2>1. d \in Seq(Words) /\ Len(d) = Len(a) + Len(b)
    BY <1>2 DEF Buffers
  <2>2. i - 1 \in Nat /\ i - 1 <= Len(d)
    BY <1>1, <2>1
  <2>3. b[i] \in Words
    BY <1>1
  <2>4. MulWordAdd(d, i - 1, a, b[i]) \in Seq(Words) /\ Len(MulWordAdd(d, i - 1, a, b[i])) = Len(d)
    BY <2>1, <2>2, <2>3, RowTyped
  <2> QED BY <2>1, <2>4, <1>2 DEF Buffers
<1> DEFINE next == [p \in (1..n) \X S |-> MulWordAdd(p[2], p[1] - 1, a, b[p[1]])]
<1>5. next \in [(1..n) \X S -> S]
  <2>1. ASSUME NEW p \in (1..n) \X S PROVE MulWordAdd(p[2], p[1] - 1, a, b[p[1]]) \in S
    <3>1. p[1] \in 1..n /\ p[2] \in S
      OBVIOUS
    <3> QED BY <3>1, <1>4
  <2> QED BY <2>1
<1>6. PICK f \in [0..n -> S] : Follows(n, f, base, next)
  <2> HIDE DEF next
  <2> QED BY <1>5, UpwardExists
<1>7. f[0] = base
  BY <1>6 DEF Follows
<1>8. ASSUME NEW i \in 1..n PROVE f[i] = MulWordAdd(f[i - 1], i - 1, a, b[i])
  <2>1. i - 1 \in 0..n
    OBVIOUS
  <2>2. <<i, f[i - 1]>> \in (1..n) \X S
    BY <2>1
  <2>3. f[i] = next[<<i, f[i - 1]>>]
    BY <1>6 DEF Follows
  <2> QED BY <2>2, <2>3
<1>9. f = [i \in 0..n |-> IF i = 0 THEN Zeros(Len(a) + Len(b))
                          ELSE MulWordAdd(f[i - 1], i - 1, a, b[i])]
  <2>1. f = [i \in 0..n |-> f[i]]
    OBVIOUS
  <2>2. \A i \in 0..n : f[i] = IF i = 0 THEN Zeros(Len(a) + Len(b))
                               ELSE MulWordAdd(f[i - 1], i - 1, a, b[i])
    <3>1. \A i \in 0..n : i = 0 \/ i \in 1..n
      OBVIOUS
    <3> QED BY <3>1, <1>3, <1>7, <1>8
  <2> QED BY <2>1, <2>2
<1>10. R = [i \in 0..n |-> IF i = 0 THEN Zeros(Len(a) + Len(b))
                           ELSE MulWordAdd(R[i - 1], i - 1, a, b[i])]
  <2> HIDE DEF next
  <2> QED BY <1>1, <1>9, Zenon DEF Rows
<1>11. R[0] = base /\ \A i \in 1..n : R[i] = MulWordAdd(R[i - 1], i - 1, a, b[i])
  <2>1. 0 \in 0..n /\ \A i \in 1..n : i \in 0..n /\ i # 0
    OBVIOUS
  <2> QED BY <2>1, <1>3, <1>10
<1>12. \A i \in Nat : i <= n => R[i] \in S
  <2> DEFINE T == {i \in Nat : i <= n => R[i] \in S}
  <2>1. 0 \in T
    BY <1>11
  <2>2. ASSUME NEW i \in Nat, i \in T PROVE i + 1 \in T
    <3> SUFFICES ASSUME i + 1 <= n PROVE R[i + 1] \in S
      OBVIOUS
    <3>1. R[i] \in S /\ i + 1 \in 1..n /\ (i + 1) - 1 = i
      BY <2>2
    <3> QED BY <3>1, <1>4, <1>11
  <2>3. \A i \in Nat : i \in T
    <3> HIDE DEF T
    <3> QED BY <2>1, <2>2, Induction
  <2> QED BY <2>3
<1>13. R \in [0..n -> S]
  <2>1. R = [i \in 0..n |-> R[i]]
    BY <1>10, Zenon
  <2> QED BY <2>1, <1>12
<1> QED BY <1>1, <1>2, <1>3, <1>11, <1>13

\* What the rows have written when the first of b are done: nothing past them, and
\* the words below the row that comes next stay.
LEMMA RowsBelow ==
  ASSUME NEW a \in Seq(Words), NEW b \in Seq(Words), NEW R, R = Rows(a, b),
         NEW i \in Nat, i <= Len(b)
  PROVE  /\ R[i] \in Seq(Words) /\ Len(R[i]) = Len(a) + Len(b)
         /\ ZeroPast(R[i], i + Len(a))
<1> DEFINE T == {k \in Nat : k <= Len(b) => ZeroPast(R[k], k + Len(a))}
<1>1. /\ R \in [0..Len(b) -> Buffers(a, b)]
      /\ R[0] = Zeros(Len(a) + Len(b))
      /\ \A k \in 1..Len(b) : R[k] = MulWordAdd(R[k - 1], k - 1, a, b[k])
  BY RowsUnfold
<1>2. ASSUME NEW k \in Nat, k <= Len(b)
      PROVE  R[k] \in Seq(Words) /\ Len(R[k]) = Len(a) + Len(b)
  <2>1. k \in 0..Len(b)
    BY <1>2
  <2> QED BY <2>1, <1>1 DEF Buffers
<1>3. 0 \in T
  <2>1. \A j \in Nat : At(Zeros(Len(a) + Len(b)), j) = 0
    <3>1. Len(a) + Len(b) \in Nat
      OBVIOUS
    <3>2. PICK m \in Nat : m = Len(a) + Len(b)
      BY <3>1
    <3>3. Len(Zeros(m)) = m
      BY <1>1, <1>2, <3>2
    <3> QED BY <3>2, <3>3 DEF At, Zeros
  <2> QED BY <2>1, <1>1 DEF ZeroPast
<1>4. ASSUME NEW k \in Nat, k \in T PROVE k + 1 \in T
  <2> SUFFICES ASSUME k + 1 <= Len(b) PROVE ZeroPast(R[k + 1], (k + 1) + Len(a))
    OBVIOUS
  <2>1. k <= Len(b) /\ k + 1 \in 1..Len(b) /\ (k + 1) - 1 = k
    OBVIOUS
  <2>2. R[k] \in Seq(Words) /\ Len(R[k]) = Len(a) + Len(b)
    BY <2>1, <1>2
  <2>3. ZeroPast(R[k], k + Len(a))
    BY <2>1, <1>4
  <2>4. b[k + 1] \in Words
    BY <2>1
  <2>5. k + Len(a) < Len(R[k]) /\ (k + 1) + Len(a) = k + Len(a) + 1
    BY <2>2
  <2>6. R[k + 1] = MulWordAdd(R[k], k, a, b[k + 1])
    BY <2>1, <1>1
  <2>7. ZeroPast(R[k + 1], k + Len(a) + 1)
    <3> HIDE DEF T
    <3> QED BY <2>2, <2>3, <2>4, <2>5, <2>6, RowIsRight
  <2> QED BY <2>5, <2>7
<1>5. \A k \in Nat : k \in T
  <2> HIDE DEF T
  <2> QED BY <1>3, <1>4, Induction
<1> QED BY <1>2, <1>5

\* bigint_raw_mul_add multiplies.
LEMMA MulAddIsRight ==
  ASSUME NEW a \in Seq(Words), NEW b \in Seq(Words)
  PROVE  Normal(MulAdd(a, b)) /\ ValueOf(MulAdd(a, b)) = ValueOf(a) * ValueOf(b)
<1>1. PICK va \in Nat, vb \in Nat : va = ValueOf(a) /\ vb = ValueOf(b) /\ vb = Above(b, 1)
  BY AboveAll
<1>2. CASE a = <<>> \/ b = <<>>
  <2>1. <<>> \in Seq(Words) /\ Normal(<<>>) /\ ValueOf(<<>>) = 0
    <3>1. <<>> \in Seq(Words) /\ Len(<<>>) = 0
      OBVIOUS
    <3> QED BY <3>1, NoWords DEF Normal
  <2>2. MulAdd(a, b) = <<>>
    BY <1>2 DEF MulAdd
  <2>3. va * vb = 0
    <3>1. va = 0 \/ vb = 0
      BY <1>1, <1>2, <2>1
    <3> QED BY <3>1
  <2> QED BY <1>1, <2>1, <2>2, <2>3
<1>3. CASE ~(a = <<>> \/ b = <<>>)
  <2>1. PICK R : R = Rows(a, b)
    OBVIOUS
  <2>2. PICK n \in Nat : n = Len(b)
    OBVIOUS
  <2>3. /\ R[0] = Zeros(Len(a) + Len(b))
        /\ \A i \in 1..n : R[i] = MulWordAdd(R[i - 1], i - 1, a, b[i])
    BY <2>1, <2>2, RowsUnfold
  <2>4. ASSUME NEW i \in Nat, i <= n
        PROVE  R[i] \in Seq(Words) /\ Len(R[i]) = Len(a) + n /\ ZeroPast(R[i], i + Len(a))
    BY <2>1, <2>2, <2>4, RowsBelow
  <2>5. ASSUME NEW i \in 1..n
        PROVE  /\ \A j \in 1..(i - 1) : At(R[i], j) = At(R[i - 1], j)
               /\ Above(R[i], i) = Above(R[i - 1], i) + va * b[i]
    <3>1. i - 1 \in Nat /\ i - 1 <= n /\ (i - 1) + 1 = i /\ i - 1 < n
      OBVIOUS
    <3>2. PICK d \in Seq(Words) :
            d = R[i - 1] /\ Len(d) = Len(a) + n /\ ZeroPast(d, (i - 1) + Len(a))
      BY <3>1, <2>4
    <3>3. PICK f \in Words : f = b[i]
      BY <2>2
    <3>4. PICK D : D = R[i] /\ D = MulWordAdd(d, i - 1, a, f)
      BY <2>3, <3>2, <3>3
    <3>5. (i - 1) + Len(a) < Len(d) /\ i - 1 <= Len(d)
      BY <3>1, <3>2
    <3>6. Above(D, (i - 1) + 1) = Above(d, (i - 1) + 1) + ValueOf(a) * f
      BY <3>1, <3>2, <3>4, <3>5, RowIsRight
    <3>7. \A j \in 1..(i - 1) : At(D, j) = At(d, j)
      <4>1. PICK at \in Nat : at = i - 1
        BY <3>1
      <4>2. \A j \in 1..at : At(MulWordAdd(d, at, a, f), j) = At(d, j)
        BY <3>5, <4>1, RowTyped
      <4> QED BY <3>4, <4>1, <4>2
    <3> QED BY <1>1, <3>1, <3>2, <3>3, <3>4, <3>6, <3>7
  <2>6. ASSUME NEW i \in 1..n PROVE At(R[n], i) = At(R[i], i)
    <3> DEFINE T == {k \in Nat : k <= n - i => At(R[i + k], i) = At(R[i], i)}
    <3>1. 0 \in T
      OBVIOUS
    <3>2. ASSUME NEW k \in Nat, k \in T PROVE k + 1 \in T
      <4> SUFFICES ASSUME k + 1 <= n - i PROVE At(R[i + (k + 1)], i) = At(R[i], i)
        OBVIOUS
      <4>1. At(R[i + k], i) = At(R[i], i)
        BY <3>2
      <4>2. i + (k + 1) \in 1..n /\ i \in 1..(i + (k + 1) - 1) /\ i + (k + 1) - 1 = i + k
        OBVIOUS
      <4>3. At(R[i + (k + 1)], i) = At(R[i + (k + 1) - 1], i)
        BY <4>2, <2>5
      <4> QED BY <4>1, <4>2, <4>3
    <3>3. \A k \in Nat : k \in T
      <4> HIDE DEF T
      <4> QED BY <3>1, <3>2, Induction
    <3>4. n - i \in Nat /\ n - i <= n - i /\ i + (n - i) = n
      OBVIOUS
    <3>5. At(R[i + (n - i)], i) = At(R[i], i)
      BY <3>3, <3>4
    <3> QED BY <3>4, <3>5
  <2>7. PICK D \in Seq(Words) : D = R[n] /\ Len(D) = Len(a) + n
    BY <2>4
  <2>8. PICK W \in Nat : W = Word
    BY WordFacts
  <2> DEFINE T == {i \in Nat \ {0} : Above(D, i) = va * Above(b, i) + Above(R[i - 1], i)}
  <2>9. n + 1 \in T
    <3>1. n + 1 \in Nat /\ n + 1 # 0 /\ n + 1 > Len(b) /\ (n + 1) - 1 = n
      BY <2>2
    <3>2. Above(b, n + 1) = 0
      BY <3>1, AboveEnds
    <3>3. Above(D, n + 1) \in Nat
      BY <3>1, AboveIsNat
    <3>4. va * 0 + Above(D, n + 1) = Above(D, n + 1)
      BY <3>3
    <3> QED BY <3>1, <3>2, <3>4, <2>7
  <2>10. ASSUME NEW i \in 1..n, i + 1 \in T PROVE i \in T
    <3>1. i \in Nat /\ i # 0 /\ i + 1 \in Nat /\ i + 1 # 0 /\ i - 1 \in Nat /\ i - 1 <= n /\ i <= n
          /\ (i + 1) - 1 = i
      OBVIOUS
    <3>2. PICK d \in Seq(Words), e \in Seq(Words) : d = R[i] /\ e = R[i - 1]
      BY <3>1, <2>4
    <3>3. PICK x \in Nat, y \in Nat, z \in Nat, g \in Nat, u \in Nat :
            /\ x = Above(b, i + 1) /\ y = Above(d, i + 1) /\ z = Above(e, i)
            /\ g = At(b, i) /\ u = At(d, i)
      BY <3>1, <3>2, AboveIsNat, AtIsWord
    <3>4. Above(D, i + 1) = va * x + y
      BY <2>10, <3>1, <3>2, <3>3
    <3>5. At(D, i) = u
      BY <2>6, <2>7, <3>2, <3>3
    <3>6. Above(D, i) = u + W * (va * x + y)
      BY <2>8, <3>1, <3>4, <3>5, AboveSplits
    <3>7. Above(d, i) = u + W * y /\ Above(b, i) = g + W * x
      BY <2>8, <3>1, <3>2, <3>3, AboveSplits
    <3>8. Above(d, i) = z + va * g
      <4>1. b[i] = g
        BY <2>2, <3>3 DEF At
      <4> QED BY <4>1, <2>5, <3>2, <3>3
    <3>9. u + W * (va * x + y) = va * (g + W * x) + z
      <4>1. W * (va * x + y) = W * (va * x) + W * y /\ va * (g + W * x) = va * g + W * (va * x)
        OBVIOUS
      <4>2. PICK m \in Nat, o \in Nat, p \in Nat : m = W * (va * x) /\ o = W * y /\ p = va * g
        OBVIOUS
      <4>3. u + o = z + p
        BY <3>7, <3>8, <4>2
      <4>4. u + (m + o) = (p + m) + z
        BY ONLY <4>3, u \in Nat, m \in Nat, o \in Nat, p \in Nat, z \in Nat
      <4> QED BY <4>1, <4>2, <4>4
    <3> QED BY <3>1, <3>2, <3>3, <3>6, <3>7, <3>9
  <2>11. 1 \in T
    <3> HIDE DEF T
    <3>1. n + 1 \in Nat \ {0} /\ 1 \in 1..(n + 1) /\ (n + 1) - 1 = n
      OBVIOUS
    <3> QED BY <2>9, <2>10, <3>1, Downward
  <2>12. Above(D, 1) = va * vb + Above(R[1 - 1], 1)
    BY <2>11, <1>1
  <2> HIDE DEF T
  <2>13. Above(R[1 - 1], 1) = 0
    <3>1. 1 - 1 = 0 /\ 0 <= n
      OBVIOUS
    <3>2. PICK z \in Seq(Words) : z = R[0] /\ z = Zeros(Len(a) + Len(b)) /\ Len(z) = Len(a) + n
      BY <3>1, <2>3, <2>4
    <3>3. PICK k \in Nat : k = Len(a) + Len(b)
      OBVIOUS
    <3>4. \A i \in Nat \ {0} : At(z, i) = At(<<>>, i)
      BY <2>2, <3>2, <3>3 DEF At, Zeros
    <3>5. <<>> \in Seq(Words) /\ Len(<<>>) = 0
      OBVIOUS
    <3>6. ValueOf(z) = ValueOf(<<>>)
      BY <3>4, <3>5, SameWordsSameValue
    <3>7. ValueOf(<<>>) = 0
      BY <3>5, NoWords
    <3> QED BY <3>1, <3>2, <3>6, <3>7, AboveAll
  <2>14. ValueOf(D) = va * vb
    <3>1. va * vb \in Nat
      OBVIOUS
    <3>2. ValueOf(D) = Above(D, 1)
      BY AboveAll
    <3> QED BY <3>1, <3>2, <2>12, <2>13
  <2>15. MulAdd(a, b) = Truncate(D)
    BY <1>3, <2>1, <2>2, <2>7 DEF MulAdd
  <2> QED BY <1>1, <2>14, <2>15, TruncateCuts
<1> QED BY <1>2, <1>3

-----------------------------------------------------------------------------
(* Karatsuba's products *)

\* Words that are those of w from a place on stand there for what w does.
LEMMA AboveShifted ==
  ASSUME NEW r \in Seq(Words), NEW w \in Seq(Words), NEW k \in Nat,
         \A i \in Nat \ {0} : At(r, k + i) = At(w, i)
  PROVE  Above(r, k + 1) = ValueOf(w)
<1> DEFINE T == {i \in Nat \ {0} : Above(r, k + i) = Above(w, i)}
<1>1. PICK m \in Nat \ {0} : k + m > Len(r) /\ m > Len(w)
  <2>1. PICK x \in Nat, y \in Nat : x = Len(r) /\ y = Len(w)
    OBVIOUS
  <2>2. x + y + 1 \in Nat \ {0} /\ k + (x + y + 1) > x /\ x + y + 1 > y
    OBVIOUS
  <2> QED BY <2>1, <2>2
<1>2. m \in T
  <2>1. m \in Nat /\ k + m \in Nat
    OBVIOUS
  <2> QED BY <1>1, <2>1, AboveEnds
<1>3. ASSUME NEW i \in 1..(m - 1), i + 1 \in T PROVE i \in T
  <2>1. /\ i \in Nat \ {0} /\ i \in Nat /\ i # 0 /\ k + i \in Nat /\ k + i # 0
        /\ k + (i + 1) = k + i + 1
    OBVIOUS
  <2>2. At(r, k + i) = At(w, i)
    BY <2>1
  <2>3. /\ Above(r, k + i) = At(r, k + i) + Word * Above(r, k + i + 1)
        /\ Above(w, i) = At(w, i) + Word * Above(w, i + 1)
    BY <2>1, AboveSplits
  <2>4. Above(r, k + i + 1) = Above(w, i + 1)
    BY <1>3, <2>1
  <2> QED BY <2>1, <2>2, <2>3, <2>4
<1>4. 1 \in T
  <2> HIDE DEF T
  <2>1. 1 \in 1..m
    OBVIOUS
  <2> QED BY <1>2, <1>3, <2>1, Downward
<1> QED BY <1>4, AboveAll

\* v is the first k words of w.
LowOf(v, w, k) == \A i \in Nat \ {0} : At(v, i) = IF i <= k THEN At(w, i) ELSE 0
\* P is what the word after the first k ones stands for.
Unit(k, P) == \A w \in Seq(Words), v \in Seq(Words) :
                LowOf(v, w, k) => ValueOf(w) = ValueOf(v) + P * Above(w, k + 1)

LEMMA UnitStarts == Unit(0, 1)
<1>1. ASSUME NEW w \in Seq(Words), NEW v \in Seq(Words), LowOf(v, w, 0)
      PROVE  ValueOf(w) = ValueOf(v) + 1 * Above(w, 0 + 1)
  <2>1. <<>> \in Seq(Words) /\ Len(<<>>) = 0
    OBVIOUS
  <2>2. \A i \in Nat \ {0} : At(v, i) = At(<<>>, i)
    BY <1>1 DEF LowOf, At
  <2>3. ValueOf(v) = 0
    BY <2>1, <2>2, SameWordsSameValue, NoWords
  <2>4. PICK x \in Nat : x = ValueOf(w) /\ x = Above(w, 1)
    BY AboveAll
  <2> QED BY <2>3, <2>4
<1> QED BY <1>1 DEF Unit

LEMMA UnitGrows ==
  ASSUME NEW k \in Nat, NEW P \in Nat, Unit(k, P)
  PROVE  Unit(k + 1, P * Word)
<1>1. PICK W \in Nat : W = Word
  BY WordFacts
<1>2. ASSUME NEW w \in Seq(Words), NEW v \in Seq(Words), LowOf(v, w, k + 1)
      PROVE  ValueOf(w) = ValueOf(v) + (P * W) * Above(w, k + 1 + 1)
  <2>1. PICK u \in Seq(Words) : u = [i \in 1..k |-> At(w, i)] /\ Len(u) = k
    <3>1. [i \in 1..k |-> At(w, i)] \in [1..k -> Words]
      <4>1. \A i \in 1..k : At(w, i) \in Words
        BY AtIsWord
      <4> QED BY <4>1
    <3> QED BY <3>1, WordsAreSeq
  <2>2. LowOf(u, w, k)
    BY <2>1 DEF LowOf, At
  <2>3. LowOf(u, v, k)
    <3>1. ASSUME NEW i \in Nat \ {0}, i <= k PROVE At(v, i) = At(w, i)
      BY <1>2, <3>1 DEF LowOf
    <3> QED BY <2>2, <3>1 DEF LowOf
  <2>4. PICK x \in Nat, y \in Nat, z \in Nat, d \in Nat :
          x = ValueOf(u) /\ y = Above(w, k + 1) /\ z = Above(w, k + 1 + 1) /\ d = At(w, k + 1)
    <3>1. k + 1 \in Nat /\ k + 1 # 0 /\ k + 1 + 1 \in Nat /\ k + 1 + 1 # 0
      OBVIOUS
    <3> QED BY <3>1, AboveAll, AboveIsNat, AtIsWord
  <2>5. ValueOf(w) = x + P * y
    BY <2>2, <2>4 DEF Unit
  <2>6. y = d + W * z
    <3>1. k + 1 \in Nat /\ k + 1 # 0
      OBVIOUS
    <3> QED BY <1>1, <2>4, <3>1, AboveSplits
  <2>7. Above(v, k + 1) = d
    <3>1. k + 1 \in Nat /\ k + 1 # 0 /\ k + 1 \in Nat \ {0} /\ k + 1 <= k + 1
      OBVIOUS
    <3>2. Above(v, k + 1) = At(v, k + 1) + W * Above(v, k + 1 + 1)
      BY <1>1, <3>1, AboveSplits
    <3>3. At(v, k + 1) = d
      BY <1>2, <2>4, <3>1 DEF LowOf
    <3>4. <<>> \in Seq(Words) /\ Len(<<>>) = 0
      OBVIOUS
    <3>5. ASSUME NEW i \in Nat \ {0} PROVE At(v, (k + 1) + i) = At(<<>>, i)
      <4>1. (k + 1) + i \in Nat \ {0} /\ ~((k + 1) + i <= k + 1)
        OBVIOUS
      <4> QED BY <1>2, <4>1 DEF LowOf, At
    <3>6. Above(v, k + 1 + 1) = 0
      <4>1. PICK l \in Nat, e \in Seq(Words) : l = k + 1 /\ e = <<>> /\ Len(e) = 0
        BY <3>1, <3>4
      <4>2. \A i \in Nat \ {0} : At(v, l + i) = At(e, i)
        BY <4>1, <3>5
      <4>3. Above(v, l + 1) = ValueOf(e)
        BY <1>1, <4>2, AboveShifted
      <4>4. ValueOf(e) = 0
        BY <4>1, NoWords
      <4> QED BY <4>1, <4>3, <4>4
    <3> QED BY <3>2, <3>3, <3>6, <2>4
  <2>8. ValueOf(v) = x + P * d
    BY <2>3, <2>4, <2>7 DEF Unit
  <2>9. x + P * (d + W * z) = (x + P * d) + (P * W) * z
    <3>1. P * (d + W * z) = P * d + (P * W) * z
      OBVIOUS
    <3>2. PICK m \in Nat, o \in Nat : m = P * d /\ o = (P * W) * z
      OBVIOUS
    <3> QED BY <3>1, <3>2
  <2> QED BY <2>4, <2>5, <2>6, <2>8, <2>9
<1> QED BY <1>1, <1>2 DEF Unit

\* A word k places up counts as many times as k words have values.
LEMMA UnitIsPower == \A k \in Nat : Two[k * Bits] \in Nat /\ Unit(k, Two[k * Bits])
<1> DEFINE T == {k \in Nat : k * Bits \in Nat /\ Unit(k, Two[k * Bits])}
<1>1. 0 \in T
  <2>1. 0 * Bits = 0
    BY WidthAssumption
  <2> QED BY <2>1, TwoUnfolds, UnitStarts
<1>2. ASSUME NEW k \in Nat, k \in T PROVE k + 1 \in T
  <2>1. PICK n \in Nat : n = k * Bits /\ Unit(k, Two[n])
    BY <1>2
  <2>2. (k + 1) * Bits = n + Bits
    <3>1. (k + 1) * Bits = k * Bits + Bits
      BY WidthAssumption
    <3> QED BY <3>1, <2>1
  <2>3. Two[n] \in Nat /\ Two[n + Bits] = Two[n] * Word /\ n + Bits \in Nat
    <3>1. PICK m \in Nat : m = Bits
      BY WidthAssumption
    <3>2. Two[n] \in Nat /\ n + m \in Nat
      BY TwoUnfolds
    <3>3. Two[n + m] = Two[n] * Two[m]
      BY TwosMultiply
    <3> QED BY <3>1, <3>2, <3>3 DEF Word
  <2>4. Unit(k + 1, Two[n] * Word)
    BY <2>1, <2>3, UnitGrows
  <2> QED BY <2>2, <2>3, <2>4
<1>3. \A k \in Nat : k \in T
  <2> HIDE DEF T
  <2> QED BY <1>1, <1>2, Induction
<1> QED BY <1>3, TwoUnfolds

LEMMA UnitExists == \A k \in Nat : \E P \in Nat : Unit(k, P)
BY UnitIsPower

\* The words of a number below a place and from it on.
LEMMA HalvesAreWhole ==
  ASSUME NEW w \in Seq(Words), NEW k \in Nat, NEW P \in Nat, Unit(k, P),
         NEW lo, lo = First(w, k), NEW hi, hi = From(w, Shorter(k, Len(w)))
  PROVE  /\ Normal(lo) /\ Normal(hi) /\ Len(lo) <= Shorter(k, Len(w))
         /\ Len(hi) <= Len(w) - Shorter(k, Len(w))
         /\ ValueOf(w) = ValueOf(lo) + P * ValueOf(hi)
<1>1. PICK n \in Nat : n = Shorter(k, Len(w)) /\ n <= Len(w) /\ n <= k /\ (n = k \/ n = Len(w))
  BY DEF Shorter
<1>2. PICK L, H : L = SubSeq(w, 1, n) /\ H = SubSeq(w, n + 1, Len(w))
  OBVIOUS
<1>3. L \in Seq(Words) /\ Len(L) = n /\ \A i \in 1..n : L[i] = w[i]
  BY <1>1, <1>2
<1>4. H \in Seq(Words) /\ Len(H) = Len(w) - n /\ \A i \in 1..(Len(w) - n) : H[i] = w[n + i]
  BY <1>1, <1>2
<1>5. lo = Truncate(L) /\ hi = Truncate(H)
  BY <1>1, <1>2 DEF First, From
<1>6. LowOf(L, w, k)
  <2> SUFFICES ASSUME NEW i \in Nat \ {0} PROVE At(L, i) = IF i <= k THEN At(w, i) ELSE 0
    BY DEF LowOf
  <2>1. CASE i <= n
    BY <2>1, <1>1, <1>3 DEF At
  <2>2. CASE ~(i <= n)
    <3>1. i \notin 1..n /\ (i <= k => i \notin 1..Len(w))
      BY <2>2, <1>1
    <3> QED BY <3>1, <1>3 DEF At
  <2> QED BY <2>1, <2>2
<1>7. ASSUME NEW i \in Nat \ {0} PROVE At(w, k + i) = At(H, i)
  <2>1. CASE n = k
    <3>1. k + i \in 1..Len(w) <=> i \in 1..(Len(w) - n)
      <4>1. PICK m \in Nat : m = Len(w)
        OBVIOUS
      <4>2. k + i \in 1..m <=> i \in 1..(m - k)
        BY ONLY k \in Nat, i \in Nat \ {0}, m \in Nat
      <4> QED BY <2>1, <4>1, <4>2
    <3> QED BY <3>1, <2>1, <1>4 DEF At
  <2>2. CASE n # k
    <3>1. k + i \notin 1..Len(w) /\ i \notin 1..(Len(w) - n)
      BY <2>2, <1>1
    <3> QED BY <3>1, <1>4 DEF At
  <2> QED BY <2>1, <2>2
<1>8. Above(w, k + 1) = ValueOf(H)
  BY <1>4, <1>7, AboveShifted
<1>9. ValueOf(w) = ValueOf(L) + P * ValueOf(H)
  BY <1>3, <1>6, <1>8 DEF Unit
<1>10. /\ Normal(lo) /\ Len(lo) <= Len(L) /\ ValueOf(lo) = ValueOf(L)
       /\ Normal(hi) /\ Len(hi) <= Len(H) /\ ValueOf(hi) = ValueOf(H)
  BY <1>3, <1>4, <1>5, TruncateCuts
<1> QED BY <1>1, <1>3, <1>4, <1>9, <1>10

\* The words of a number that is moved up.
MovedUp(s, w, k) == \A i \in Nat \ {0} : At(s, i) = IF i <= k THEN 0 ELSE At(w, i - k)

LEMMA ShiftedWords ==
  ASSUME NEW w \in Seq(Words), NEW k \in Nat
  PROVE  Shifted(w, k) \in Seq(Words) /\ MovedUp(Shifted(w, k), w, k)
<1>1. CASE w = <<>>
  BY <1>1 DEF Shifted, At, MovedUp
<1>2. CASE w # <<>>
  <2>1. PICK z \in Seq(Words) : z = Zeros(k) /\ Len(z) = k /\ \A i \in 1..k : z[i] = 0
    <3>1. [i \in 1..k |-> 0] \in [1..k -> Words]
      BY WordFacts
    <3> QED BY <3>1, WordsAreSeq DEF Zeros
  <2>2. PICK n \in Nat : n = Len(w)
    OBVIOUS
  <2>3. PICK s : s = z \o w /\ s = Shifted(w, k)
    BY <1>2, <2>1 DEF Shifted
  <2>4. /\ s \in Seq(Words) /\ Len(s) = k + n
        /\ \A i \in 1..(k + n) : s[i] = IF i <= k THEN z[i] ELSE w[i - k]
    <3>1. /\ z \o w \in Seq(Words) /\ Len(z \o w) = Len(z) + Len(w)
          /\ \A i \in 1..(Len(z) + Len(w)) :
               (z \o w)[i] = IF i <= Len(z) THEN z[i] ELSE w[i - Len(z)]
      BY ONLY z \in Seq(Words), w \in Seq(Words), ConcatProperties, Zenon
    <3> QED BY <3>1, <2>1, <2>2, <2>3
  <2>5. ASSUME NEW i \in Nat \ {0} PROVE At(s, i) = IF i <= k THEN 0 ELSE At(w, i - k)
    <3>1. CASE i <= k
      <4>1. i \in 1..(k + n) /\ i \in 1..k
        BY <3>1
      <4> QED BY <3>1, <4>1, <2>1, <2>4 DEF At
    <3>2. CASE ~(i <= k)
      <4>1. i \in 1..(k + n) <=> i - k \in 1..n
        BY <3>2
      <4> QED BY <3>2, <4>1, <2>2, <2>4 DEF At
    <3> QED BY <3>1, <3>2
  <2> QED BY <2>3, <2>4, <2>5 DEF MovedUp
<1> QED BY <1>1, <1>2

\* Words that are moved up stand for as many times as much as a place does.
LEMMA ShiftedIsRight ==
  ASSUME NEW w \in Seq(Words), NEW k \in Nat, NEW P \in Nat, Unit(k, P)
  PROVE  Shifted(w, k) \in Seq(Words) /\ ValueOf(Shifted(w, k)) = P * ValueOf(w)
<1>1. PICK s \in Seq(Words) : s = Shifted(w, k)
  BY ShiftedWords
<1>2. \A i \in Nat \ {0} : At(s, i) = IF i <= k THEN 0 ELSE At(w, i - k)
  <2>1. MovedUp(s, w, k)
    BY <1>1, ShiftedWords
  <2> QED BY <2>1 DEF MovedUp
<1>3. PICK e \in Seq(Words) : e = <<>> /\ Len(e) = 0
  <2>1. <<>> \in Seq(Words) /\ Len(<<>>) = 0
    OBVIOUS
  <2> QED BY <2>1
<1>4. LowOf(e, s, k)
  BY <1>2, <1>3 DEF LowOf, At
<1>5. ASSUME NEW i \in Nat \ {0} PROVE At(s, k + i) = At(w, i)
  <2>1. k + i \in Nat \ {0} /\ ~(k + i <= k) /\ (k + i) - k = i
    OBVIOUS
  <2> QED BY <2>1, <1>2
<1>6. Above(s, k + 1) = ValueOf(w)
  BY <1>5, AboveShifted
<1>7. ValueOf(s) = ValueOf(e) + P * ValueOf(w)
  BY <1>4, <1>6 DEF Unit
<1>8. ValueOf(e) = 0
  BY <1>3, NoWords
<1>9. PICK x \in Nat : x = ValueOf(w)
  BY AboveAll
<1>10. 0 + P * x = P * x
  OBVIOUS
<1> QED BY <1>1, <1>7, <1>8, <1>9, <1>10

\* Moved up by twice as many words is moved up twice.
LEMMA ShiftedTwice ==
  ASSUME NEW w \in Seq(Words), NEW k \in Nat, NEW P \in Nat, Unit(k, P)
  PROVE  Shifted(w, 2 * k) \in Seq(Words) /\ ValueOf(Shifted(w, 2 * k)) = P * (P * ValueOf(w))
<1>1. PICK l \in Nat : l = 2 * k
  OBVIOUS
<1>2. PICK s \in Seq(Words) : s = Shifted(w, k) /\ ValueOf(s) = P * ValueOf(w)
  BY ShiftedIsRight
<1>3. PICK t \in Seq(Words) : t = Shifted(s, k) /\ ValueOf(t) = P * ValueOf(s)
  BY ShiftedIsRight
<1>4. PICK r \in Seq(Words) : r = Shifted(w, l)
  BY ShiftedWords
<1>5. \A i \in Nat \ {0} : At(s, i) = IF i <= k THEN 0 ELSE At(w, i - k)
  BY <1>2, ShiftedWords DEF MovedUp
<1>6. \A i \in Nat \ {0} : At(t, i) = IF i <= k THEN 0 ELSE At(s, i - k)
  BY <1>3, ShiftedWords DEF MovedUp
<1>7. \A i \in Nat \ {0} : At(r, i) = IF i <= l THEN 0 ELSE At(w, i - l)
  BY <1>4, ShiftedWords DEF MovedUp
<1>8. ASSUME NEW i \in Nat \ {0} PROVE At(r, i) = At(t, i)
  <2>1. CASE i <= k
    BY <2>1, <1>1, <1>6, <1>7
  <2>2. CASE ~(i <= k)
    <3>1. PICK j \in Nat \ {0} : j = i - k /\ (j <= k <=> i <= l) /\ j - k = i - l
      BY <2>2, <1>1
    <3>2. At(t, i) = At(s, j)
      BY <2>2, <3>1, <1>6
    <3>3. At(s, j) = IF j <= k THEN 0 ELSE At(w, j - k)
      BY <1>5
    <3> QED BY <3>1, <3>2, <3>3, <1>7
  <2> QED BY <2>1, <2>2
<1>9. ValueOf(r) = ValueOf(t)
  BY <1>8, SameWordsSameValue
<1> QED BY <1>1, <1>2, <1>3, <1>4, <1>9

\* Normal words that stand for the same are the same.
LEMMA SameValueSameWords ==
  ASSUME NEW u, NEW v, Normal(u), Normal(v), ValueOf(u) = ValueOf(v)
  PROVE  u = v
<1>1. u \in Seq(Words) /\ v \in Seq(Words)
  BY DEF Normal
<1>2. CmpAbs(u, v) = 0
  BY CmpAbsIsRight
<1>3. Len(u) = Len(v) /\ {i \in 1..Len(u) : u[i] # v[i]} = {}
  BY <1>1, <1>2 DEF CmpAbs
<1> QED BY <1>1, <1>3

\* The steps of bigint_raw_mul_karatsuba: where the factors are split, their
\* parts, and what it makes of the three products.
Middle(a, b) == Longer(Len(a), Len(b)) \div 2
HighPart(w, k) == From(w, Shorter(k, Len(w)))
Both(w, k) == RawAdd(First(w, k), HighPart(w, k))
Crossed(z0, z1, z2) == RawSub(RawSub(z1, z0), z2)
Joined(k, z0, z1, z2) ==
  RawAdd(RawAdd(z0, Shifted(Crossed(z0, z1, z2), k)), Shifted(z2, 2 * k))
IsSplit(a, b) == ~(Len(a) < Threshold /\ Len(b) < Threshold)

\* The algebra of it.
Distributes(x, y, u, v, P) ==
  /\ (x + y) * (u + v) = x * u + x * v + y * u + y * v
  /\ (x + P * y) * (u + P * v) = (x * u + P * (x * v + y * u)) + P * (P * (y * v))
LEMMA CrossProducts ==
  ASSUME NEW x \in Nat, NEW y \in Nat, NEW u \in Nat, NEW v \in Nat, NEW P \in Nat
  PROVE  Distributes(x, y, u, v, P)
<1>1. (x + y) * (u + v) = x * u + x * v + y * u + y * v
  OBVIOUS
<1>2. PICK s \in Nat, t \in Nat : s = P * y /\ t = P * v
  OBVIOUS
<1>3. (x + s) * (u + t) = x * u + x * t + s * u + s * t
  OBVIOUS
<1>4. x * t = P * (x * v) /\ s * u = P * (y * u) /\ s * t = P * (P * (y * v))
  BY <1>2
<1>5. P * (x * v + y * u) = P * (x * v) + P * (y * u)
  OBVIOUS
<1>6. PICK c \in Nat, d \in Nat, e \in Nat, m \in Nat :
        c = x * u /\ d = P * (x * v) /\ e = P * (y * u) /\ m = P * (P * (y * v))
  OBVIOUS
<1>7. c + d + e + m = (c + (d + e)) + m
  OBVIOUS
<1> QED BY <1>1, <1>2, <1>3, <1>4, <1>5, <1>6, <1>7 DEF Distributes

Products(x, y, u, v, z0, z1, z2) ==
  ValueOf(z0) = x * u /\ ValueOf(z1) = (x + y) * (u + v) /\ ValueOf(z2) = y * v
Crosses(z, x, y, u, v) == ValueOf(z) = x * v + y * u
\* The middle product: the others are taken off without a borrow.
LEMMA CrossedIsRight ==
  ASSUME NEW x \in Nat, NEW y \in Nat, NEW u \in Nat, NEW v \in Nat,
         NEW z0, NEW z1, NEW z2, Normal(z0), Normal(z1), Normal(z2),
         Products(x, y, u, v, z0, z1, z2)
  PROVE  Normal(Crossed(z0, z1, z2)) /\ Crosses(Crossed(z0, z1, z2), x, y, u, v)
<1>1. PICK c \in Nat, d \in Nat, e \in Nat, m \in Nat :
        /\ c = x * u /\ d = x * v /\ e = y * u /\ m = y * v
        /\ (x + y) * (u + v) = c + d + e + m
  BY 0 \in Nat, CrossProducts DEF Distributes
<1>2. ValueOf(z0) = c /\ ValueOf(z1) = c + d + e + m /\ ValueOf(z2) = m
  BY <1>1 DEF Products
<1>3. PICK r : r = RawSub(z1, z0)
  OBVIOUS
<1>4. Normal(r) /\ ValueOf(r) = (c + d + e + m) - c
  <2>1. ValueOf(z0) <= ValueOf(z1)
    BY <1>2
  <2> QED BY <1>2, <1>3, <2>1, RawSubIsRight
<1>5. ValueOf(r) = d + e + m
  BY <1>4
<1>6. Normal(RawSub(r, z2)) /\ ValueOf(RawSub(r, z2)) = (d + e + m) - m
  <2>1. ValueOf(z2) <= ValueOf(r)
    BY <1>2, <1>5
  <2> QED BY <1>2, <1>4, <1>5, <2>1, RawSubIsRight
<1> QED BY <1>1, <1>3, <1>6 DEF Crossed, Crosses

\* The three products of the parts make the product of the factors.
LEMMA KaratsubaStep ==
  ASSUME NEW a \in Seq(Words), NEW b \in Seq(Words), NEW k \in Nat,
         NEW z0, NEW z1, NEW z2, Normal(z0), Normal(z1), Normal(z2),
         ValueOf(z0) = ValueOf(First(a, k)) * ValueOf(First(b, k)),
         ValueOf(z1) = ValueOf(Both(a, k)) * ValueOf(Both(b, k)),
         ValueOf(z2) = ValueOf(HighPart(a, k)) * ValueOf(HighPart(b, k))
  PROVE  /\ Normal(Joined(k, z0, z1, z2))
         /\ ValueOf(Joined(k, z0, z1, z2)) = ValueOf(a) * ValueOf(b)
<1>1. PICK P \in Nat : Unit(k, P)
  BY UnitExists
<1>2. PICK lo1, hi1 : lo1 = First(a, k) /\ hi1 = HighPart(a, k)
  OBVIOUS
<1>3. Normal(lo1) /\ Normal(hi1) /\ ValueOf(a) = ValueOf(lo1) + P * ValueOf(hi1)
  BY <1>1, <1>2, HalvesAreWhole DEF HighPart
<1>4. PICK lo2, hi2 : lo2 = First(b, k) /\ hi2 = HighPart(b, k)
  OBVIOUS
<1>5. Normal(lo2) /\ Normal(hi2) /\ ValueOf(b) = ValueOf(lo2) + P * ValueOf(hi2)
  BY <1>1, <1>4, HalvesAreWhole DEF HighPart
<1>6. PICK x \in Nat, y \in Nat, u \in Nat, v \in Nat :
        x = ValueOf(lo1) /\ y = ValueOf(hi1) /\ u = ValueOf(lo2) /\ v = ValueOf(hi2)
  BY <1>3, <1>5, AboveAll DEF Normal
<1>7. ValueOf(z0) = x * u /\ ValueOf(z1) = (x + y) * (u + v) /\ ValueOf(z2) = y * v
  <2>1. ValueOf(Both(a, k)) = x + y /\ ValueOf(Both(b, k)) = u + v
    BY <1>2, <1>3, <1>4, <1>5, <1>6, RawAddIsRight DEF Both, Normal
  <2> QED BY <2>1, <1>2, <1>4, <1>6
<1>8. PICK z : z = Crossed(z0, z1, z2)
  OBVIOUS
<1>9. Normal(z) /\ ValueOf(z) = x * v + y * u
  <2>1. Products(x, y, u, v, z0, z1, z2)
    BY <1>7 DEF Products
  <2>2. Normal(z) /\ Crosses(z, x, y, u, v)
    BY <2>1, <1>8, CrossedIsRight
  <2> QED BY <2>2 DEF Crosses
<1>10. PICK s \in Seq(Words) : s = Shifted(z, k) /\ ValueOf(s) = P * (x * v + y * u)
  <2>1. z \in Seq(Words)
    BY <1>9 DEF Normal
  <2> QED BY <2>1, <1>1, <1>9, ShiftedIsRight
<1>11. PICK t \in Seq(Words) : t = Shifted(z2, 2 * k) /\ ValueOf(t) = P * (P * (y * v))
  <2>1. z2 \in Seq(Words)
    BY DEF Normal
  <2> QED BY <2>1, <1>1, <1>7, ShiftedTwice
<1>12. PICK r \in Seq(Words) : r = RawAdd(z0, s) /\ ValueOf(r) = x * u + P * (x * v + y * u)
  <2>1. z0 \in Seq(Words)
    BY DEF Normal
  <2> QED BY <2>1, <1>7, <1>10, RawAddIsRight DEF Normal
<1>13. /\ Normal(RawAdd(r, t))
       /\ ValueOf(RawAdd(r, t)) = (x * u + P * (x * v + y * u)) + P * (P * (y * v))
  BY <1>11, <1>12, RawAddIsRight
<1>14. Joined(k, z0, z1, z2) = RawAdd(r, t)
  BY <1>8, <1>10, <1>11, <1>12 DEF Joined
<1>15. ValueOf(a) * ValueOf(b) = (x * u + P * (x * v + y * u)) + P * (P * (y * v))
  <2>1. (x + P * y) * (u + P * v) = (x * u + P * (x * v + y * u)) + P * (P * (y * v))
    <3>1. Distributes(x, y, u, v, P)
      BY CrossProducts
    <3> QED BY <3>1 DEF Distributes
  <2>2. ValueOf(a) = x + P * y /\ ValueOf(b) = u + P * v
    BY <1>3, <1>5, <1>6
  <2> QED BY <2>1, <2>2
<1> QED BY <1>13, <1>14, <1>15

\* The sum of two numbers is at most one word longer than the longer one.
LEMMA RawAddIsShort ==
  ASSUME NEW a \in Seq(Words), NEW b \in Seq(Words), NEW n \in Nat,
         Len(a) <= n, Len(b) <= n
  PROVE  Len(RawAdd(a, b)) <= n + 1
<1>1. PICK m, sum : m = Longer(Len(a), Len(b)) /\ sum = Walked(m, AddStep(a, b))
  OBVIOUS
<1>2. m \in Nat /\ sum.w \in Seq(Words) /\ Len(sum.w) = m /\ sum.c \in {0, 1}
  BY <1>1, AddWalks
<1>3. m <= n
  BY <1>1 DEF Longer
<1>4. sum.c \in Words
  BY <1>2, WordFacts
<1>5. PICK s \in Seq(Words) : RawAdd(a, b) = Truncate(s) /\ Len(s) <= m + 1
  <2>1. CASE sum.c # 0
    <3>1. PICK w \in Seq(Words), c \in Words : w = sum.w /\ c = sum.c /\ Len(w) = m
      BY <1>2, <1>4
    <3>2. PICK s : s = Append(w, c) /\ s \in Seq(Words) /\ Len(s) = m + 1
      <4>1. Append(w, c) \in Seq(Words) /\ Len(Append(w, c)) = Len(w) + 1
        OBVIOUS
      <4> QED BY <3>1, <4>1
    <3>3. RawAdd(a, b) = Truncate(s)
      <4>1. RawAdd(a, b) = Truncate(Append(sum.w, sum.c))
        BY <1>1, <2>1 DEF RawAdd
      <4> QED BY <3>1, <3>2, <4>1
    <3>4. m + 1 <= m + 1
      BY <1>2
    <3> QED BY <3>2, <3>3, <3>4
  <2>2. CASE sum.c = 0
    <3>1. RawAdd(a, b) = Truncate(sum.w)
      BY <1>1, <2>2 DEF RawAdd
    <3> QED BY <3>1, <1>2
  <2> QED BY <2>1, <2>2
<1>6. Len(Truncate(s)) <= Len(s) /\ Len(Truncate(s)) \in Nat
  BY TruncateCuts DEF Normal
<1> QED BY <1>2, <1>3, <1>5, <1>6

\* The parts of a factor, when the longer factor has n words and is split.
Parted(w, k, n) ==
  /\ First(w, k) \in Seq(Words) /\ Len(First(w, k)) < n
  /\ HighPart(w, k) \in Seq(Words) /\ Len(HighPart(w, k)) < n
  /\ Both(w, k) \in Seq(Words) /\ Len(Both(w, k)) < n

LEMMA PartsAreShorter ==
  ASSUME NEW w \in Seq(Words), NEW n \in Nat, Len(w) <= n, n >= Threshold
  PROVE  n \div 2 \in Nat /\ Parted(w, n \div 2, n)
<1>1. PICK k \in Nat : k = n \div 2 /\ 2 * k <= n /\ n <= 2 * k + 1 /\ n >= 4
  BY ThresholdAssumption
<1>2. PICK P \in Nat : Unit(k, P)
  BY UnitExists
<1>3. PICK lo, hi : lo = First(w, k) /\ hi = HighPart(w, k)
  OBVIOUS
<1>4. /\ Normal(lo) /\ Normal(hi) /\ Len(lo) <= Shorter(k, Len(w))
      /\ Len(hi) <= Len(w) - Shorter(k, Len(w))
  BY <1>2, <1>3, HalvesAreWhole DEF HighPart
<1>5. lo \in Seq(Words) /\ hi \in Seq(Words)
  BY <1>4 DEF Normal
<1>6. Len(lo) <= k /\ Len(hi) <= n - k
  <2>1. PICK l \in Nat, x \in Nat, y \in Nat : l = Len(w) /\ x = Len(lo) /\ y = Len(hi)
    BY <1>5
  <2>2. x <= Shorter(k, l) /\ y <= l - Shorter(k, l) /\ l <= n
    BY <1>4, <2>1
  <2>3. x <= k /\ y <= n - k
    BY <2>2, <1>1 DEF Shorter
  <2> QED BY <2>1, <2>3
<1>7. PICK m \in Nat : m = n - k /\ k <= m /\ m + 1 < n
  BY <1>1
<1>8. RawAdd(lo, hi) \in Seq(Words) /\ Len(RawAdd(lo, hi)) <= m + 1
  <2>1. Len(lo) <= m /\ Len(hi) <= m
    BY <1>5, <1>6, <1>7
  <2> QED BY <2>1, <1>5, RawAddIsShort, RawAddIsRight DEF Normal
<1>9. Len(RawAdd(lo, hi)) < n /\ Len(lo) < n /\ Len(hi) < n
  <2>1. PICK x \in Nat, y \in Nat, z \in Nat :
          x = Len(lo) /\ y = Len(hi) /\ z = Len(RawAdd(lo, hi))
    BY <1>5, <1>8
  <2> QED BY <2>1, <1>6, <1>7, <1>8
<1> QED BY <1>1, <1>3, <1>5, <1>8, <1>9 DEF Parted, Both

Pairs == Seq(Words) \X Seq(Words)
\* What the recursion takes of the products of shorter factors.
Product(a, b, f) ==
  IF IsSplit(a, b)
  THEN Joined(Middle(a, b),
              f[<<First(a, Middle(a, b)), First(b, Middle(a, b))>>],
              f[<<Both(a, Middle(a, b)), Both(b, Middle(a, b))>>],
              f[<<HighPart(a, Middle(a, b)), HighPart(b, Middle(a, b))>>])
  ELSE MulAdd(a, b)

\* Products that are right for shorter factors make the one of longer ones,
\* the same words that bigint_raw_mul_add writes.
LEMMA ProductOfParts ==
  ASSUME NEW a \in Seq(Words), NEW b \in Seq(Words), NEW f,
         \A u \in Seq(Words), v \in Seq(Words) :
           Longer(Len(u), Len(v)) < Longer(Len(a), Len(b)) => f[<<u, v>>] = MulAdd(u, v)
  PROVE  Product(a, b, f) = MulAdd(a, b)
<1>1. CASE ~IsSplit(a, b)
  BY <1>1 DEF Product
<1>2. CASE IsSplit(a, b)
  <2>1. PICK n \in Nat : /\ n = Longer(Len(a), Len(b)) /\ n >= Threshold
                         /\ Len(a) <= n /\ Len(b) <= n
    BY <1>2, ThresholdAssumption DEF IsSplit, Longer
  <2>2. PICK k \in Nat : k = Middle(a, b) /\ Parted(a, k, n) /\ Parted(b, k, n)
    BY <2>1, PartsAreShorter DEF Middle
  <2>3. ASSUME NEW u \in Seq(Words), NEW v \in Seq(Words), Len(u) < n, Len(v) < n
        PROVE  f[<<u, v>>] = MulAdd(u, v)
    <3>1. Longer(Len(u), Len(v)) < n
      BY <2>3 DEF Longer
    <3> QED BY <3>1, <2>1
  <2>4. PICK z0, z1, z2 : /\ z0 = MulAdd(First(a, k), First(b, k))
                          /\ z1 = MulAdd(Both(a, k), Both(b, k))
                          /\ z2 = MulAdd(HighPart(a, k), HighPart(b, k))
    OBVIOUS
  <2>5. /\ f[<<First(a, k), First(b, k)>>] = z0
        /\ f[<<Both(a, k), Both(b, k)>>] = z1
        /\ f[<<HighPart(a, k), HighPart(b, k)>>] = z2
    BY <2>2, <2>3, <2>4 DEF Parted
  <2>6. /\ Normal(z0) /\ ValueOf(z0) = ValueOf(First(a, k)) * ValueOf(First(b, k))
        /\ Normal(z1) /\ ValueOf(z1) = ValueOf(Both(a, k)) * ValueOf(Both(b, k))
        /\ Normal(z2) /\ ValueOf(z2) = ValueOf(HighPart(a, k)) * ValueOf(HighPart(b, k))
    BY <2>2, <2>4, MulAddIsRight DEF Parted
  <2>7. /\ Normal(Joined(k, z0, z1, z2))
        /\ ValueOf(Joined(k, z0, z1, z2)) = ValueOf(a) * ValueOf(b)
    BY <2>6, KaratsubaStep
  <2>8. Product(a, b, f) = Joined(k, z0, z1, z2)
    BY <1>2, <2>2, <2>5 DEF Product
  <2> QED BY <2>7, <2>8, MulAddIsRight, SameValueSameWords
<1> QED BY <1>1, <1>2

\* bigint_raw_mul_karatsuba satisfies the equation that defines it: multiplying
\* row by row does.
LEMMA KaratsubaUnfolds ==
  \A p \in Pairs : Karatsuba[p] = Product(p[1], p[2], Karatsuba)
<1> DEFINE f == [p \in Pairs |-> MulAdd(p[1], p[2])]
<1>1. ASSUME NEW p \in Pairs PROVE Product(p[1], p[2], f) = f[p]
  <2>1. p[1] \in Seq(Words) /\ p[2] \in Seq(Words) /\ f[p] = MulAdd(p[1], p[2])
    BY DEF Pairs
  <2>2. ASSUME NEW u \in Seq(Words), NEW v \in Seq(Words) PROVE f[<<u, v>>] = MulAdd(u, v)
    <3>1. <<u, v>> \in Pairs /\ <<u, v>>[1] = u /\ <<u, v>>[2] = v
      BY DEF Pairs
    <3> QED BY <3>1
  <2> HIDE DEF f
  <2> QED BY <2>1, <2>2, ProductOfParts
<1>2. f = [p \in Pairs |-> Product(p[1], p[2], f)]
  <2>1. f = [p \in Pairs |-> f[p]]
    OBVIOUS
  <2> HIDE DEF f
  <2> QED BY <2>1, <1>1
<1> HIDE DEF f
<1>3. f = [p \in Seq(Words) \X Seq(Words) |->
            LET a == p[1]
                b == p[2]
                m2 == Longer(Len(a), Len(b)) \div 2
                lo1 == First(a, m2)
                lo2 == First(b, m2)
                hi1 == From(a, Shorter(m2, Len(a)))
                hi2 == From(b, Shorter(m2, Len(b)))
                z0 == f[<<lo1, lo2>>]
                z1 == f[<<RawAdd(lo1, hi1), RawAdd(lo2, hi2)>>]
                z2 == f[<<hi1, hi2>>]
                middle == RawSub(RawSub(z1, z0), z2)
            IN  IF Len(a) < Threshold /\ Len(b) < Threshold THEN MulAdd(a, b)
                ELSE RawAdd(RawAdd(z0, Shifted(middle, m2)), Shifted(z2, 2 * m2))]
  BY <1>2 DEF Pairs, Product, IsSplit, Middle, Joined, Crossed, Both, HighPart
<1>4. Karatsuba = [p \in Seq(Words) \X Seq(Words) |->
            LET a == p[1]
                b == p[2]
                m2 == Longer(Len(a), Len(b)) \div 2
                lo1 == First(a, m2)
                lo2 == First(b, m2)
                hi1 == From(a, Shorter(m2, Len(a)))
                hi2 == From(b, Shorter(m2, Len(b)))
                z0 == Karatsuba[<<lo1, lo2>>]
                z1 == Karatsuba[<<RawAdd(lo1, hi1), RawAdd(lo2, hi2)>>]
                z2 == Karatsuba[<<hi1, hi2>>]
                middle == RawSub(RawSub(z1, z0), z2)
            IN  IF Len(a) < Threshold /\ Len(b) < Threshold THEN MulAdd(a, b)
                ELSE RawAdd(RawAdd(z0, Shifted(middle, m2)), Shifted(z2, 2 * m2))]
  BY <1>3, Zenon DEF Karatsuba
<1>5. Karatsuba = [p \in Pairs |-> Product(p[1], p[2], Karatsuba)]
  <2>1. PICK K : K = Karatsuba
    OBVIOUS
  <2> QED BY <1>4 DEF Pairs, Product, IsSplit, Middle, Joined, Crossed, Both, HighPart
<1> QED BY <1>5, Zenon

\* It makes the words of the product row by row, whatever the threshold.
LEMMA KaratsubaMultiplies ==
  ASSUME NEW a \in Seq(Words), NEW b \in Seq(Words)
  PROVE  Karatsuba[<<a, b>>] = MulAdd(a, b)
<1> DEFINE Wrong(n) == \E u \in Seq(Words), v \in Seq(Words) :
                         n = Longer(Len(u), Len(v)) /\ Karatsuba[<<u, v>>] # MulAdd(u, v)
           T == {n \in Nat : Wrong(n)}
<1>1. ASSUME T # {} PROVE FALSE
  <2>1. PICK n \in T : \A k \in T : n <= k
    <3>1. T \in SUBSET Nat
      OBVIOUS
    <3> HIDE DEF T
    <3> QED BY <3>1, <1>1, LeastOf
  <2>2. PICK u \in Seq(Words), v \in Seq(Words) :
          n = Longer(Len(u), Len(v)) /\ Karatsuba[<<u, v>>] # MulAdd(u, v)
    BY <2>1
  <2>3. ASSUME NEW x \in Seq(Words), NEW y \in Seq(Words),
               Longer(Len(x), Len(y)) < Longer(Len(u), Len(v))
        PROVE  Karatsuba[<<x, y>>] = MulAdd(x, y)
    <3>1. PICK k \in Nat : k = Longer(Len(x), Len(y))
      BY DEF Longer
    <3>2. k < n /\ n \in Nat
      BY <2>1, <2>2, <2>3, <3>1
    <3>3. k \notin T
      <4> HIDE DEF T
      <4>1. ~(n <= k)
        BY <3>2
      <4> QED BY <2>1, <4>1
    <3> QED BY <3>1, <3>3
  <2>4. Product(u, v, Karatsuba) = MulAdd(u, v)
    <3> HIDE DEF T
    <3> QED BY <2>3, ProductOfParts
  <2>5. <<u, v>> \in Pairs /\ <<u, v>>[1] = u /\ <<u, v>>[2] = v
    BY DEF Pairs
  <2>6. Karatsuba[<<u, v>>] = Product(u, v, Karatsuba)
    BY <2>5, KaratsubaUnfolds
  <2> QED BY <2>2, <2>4, <2>6
<1>2. PICK n \in Nat : n = Longer(Len(a), Len(b))
  BY DEF Longer
<1>3. n \notin T
  BY <1>1
<1> QED BY <1>2, <1>3

\* bigint_mul multiplies the integers, whatever the width of a word, the
\* lengths of the factors and the threshold from which on it splits them.
THEOREM MultiplyingIsRight ==
  ASSUME NEW a, NEW b, Sound(a), Sound(b)
  PROVE  Sound(Mul(a, b)) /\ Value(Mul(a, b)) = Value(a) * Value(b)
<1>1. PICK v \in Nat : /\ v = ValueOf(a.words)
                       /\ Value(a) = IF a.neg THEN -v ELSE v
                       /\ a.neg \in BOOLEAN /\ Normal(a.words)
  BY SoundFacts
<1>2. PICK w \in Nat : /\ w = ValueOf(b.words)
                       /\ Value(b) = IF b.neg THEN -w ELSE w
                       /\ b.neg \in BOOLEAN /\ Normal(b.words)
  BY SoundFacts
<1>3. PICK neg \in BOOLEAN : neg = (a.neg # b.neg)
  BY <1>1, <1>2
<1>4. PICK r : r = Karatsuba[<<a.words, b.words>>] /\ Normal(r) /\ ValueOf(r) = v * w
  <2>1. a.words \in Seq(Words) /\ b.words \in Seq(Words)
    BY <1>1, <1>2 DEF Normal
  <2>2. Karatsuba[<<a.words, b.words>>] = MulAdd(a.words, b.words)
    BY <2>1, KaratsubaMultiplies
  <2> QED BY <2>1, <2>2, <1>1, <1>2, MulAddIsRight
<1>5. Mul(a, b) = Signed(neg, r)
  BY <1>3, <1>4, Zenon DEF Mul
<1>6. /\ Sound(Mul(a, b))
      /\ Value(Mul(a, b)) = IF neg THEN -ValueOf(r) ELSE ValueOf(r)
  BY <1>4, <1>5, SignedIsSound
<1>7. PICK m \in Nat : m = v * w
  OBVIOUS
<1>8. /\ (-v) * w = -m /\ v * (-w) = -m /\ (-v) * (-w) = m
  BY <1>7
<1>9. Value(Mul(a, b)) = IF neg THEN -m ELSE m
  BY <1>4, <1>6, <1>7
<1>10. CASE a.neg = TRUE /\ b.neg = TRUE
  <2>1. Value(a) = -v /\ Value(b) = -w
    BY <1>1, <1>2, <1>10
  <2>2. neg = FALSE
    BY <1>3, <1>10
  <2>3. Value(a) * Value(b) = (-v) * (-w)
    BY <2>1
  <2> QED BY <2>2, <2>3, <1>6, <1>7, <1>8, <1>9
<1>11. CASE a.neg = TRUE /\ b.neg = FALSE
  <2>1. Value(a) = -v /\ Value(b) = w
    BY <1>1, <1>2, <1>11
  <2>2. neg = TRUE
    BY <1>3, <1>11
  <2>3. Value(a) * Value(b) = (-v) * w
    BY <2>1
  <2> QED BY <2>2, <2>3, <1>6, <1>7, <1>8, <1>9
<1>12. CASE a.neg = FALSE /\ b.neg = TRUE
  <2>1. Value(a) = v /\ Value(b) = -w
    BY <1>1, <1>2, <1>12
  <2>2. neg = TRUE
    BY <1>3, <1>12
  <2>3. Value(a) * Value(b) = v * (-w)
    BY <2>1
  <2> QED BY <2>2, <2>3, <1>6, <1>7, <1>8, <1>9
<1>13. CASE a.neg = FALSE /\ b.neg = FALSE
  <2>1. Value(a) = v /\ Value(b) = w
    BY <1>1, <1>2, <1>13
  <2>2. neg = FALSE
    BY <1>3, <1>13
  <2>3. Value(a) * Value(b) = v * w
    BY <2>1
  <2> QED BY <2>2, <2>3, <1>6, <1>7, <1>8, <1>9
<1> QED BY <1>1, <1>2, <1>6, <1>10, <1>11, <1>12, <1>13


\* A function that is defined upward by typed steps is typed.
LEMMA UpwardTyped ==
  ASSUME NEW n \in Nat, NEW S, NEW F, F[0] \in S,
         \A i \in 1..n : F[i - 1] \in S => F[i] \in S
  PROVE  \A i \in 0..n : F[i] \in S
<1> DEFINE T == {i \in Nat : i <= n => F[i] \in S}
<1>1. 0 \in T
  OBVIOUS
<1>2. ASSUME NEW i \in Nat, i \in T PROVE i + 1 \in T
  <2> SUFFICES ASSUME i + 1 <= n PROVE F[i + 1] \in S
    OBVIOUS
  <2>1. F[i] \in S /\ i + 1 \in 1..n /\ (i + 1) - 1 = i
    BY <1>2
  <2> QED BY <2>1
<1>3. \A i \in Nat : i \in T
  <2> HIDE DEF T
  <2> QED BY <1>1, <1>2, Induction
<1> QED BY <1>3

-----------------------------------------------------------------------------
(* Sums, word by word *)

\* Word i of f times v and of x, and what comes from the word below, are word i
\* of u and what goes to the word above.
Sums(u, f, v, x, C, i) == At(u, i) + Word * C[i] = (f * At(v, i) + At(x, i)) + C[i - 1]

Totals(u, f, v, x, c) == ValueOf(u) = (f * ValueOf(v) + ValueOf(x)) + c

LEMMA SumAbove ==
  ASSUME NEW w \in Nat, NEW f \in Nat, NEW u \in Nat, NEW v \in Nat, NEW x \in Nat,
         NEW b \in Nat, NEW c \in Nat,
         NEW su \in Nat, NEW sv \in Nat, NEW sx \in Nat,
         u + w * c = (f * v + x) + b, su = (f * sv + sx) + c
  PROVE  u + w * su = (f * (v + w * sv) + (x + w * sx)) + b
<1>1. w * su = (w * (f * sv) + w * sx) + w * c
  <2>1. w * su = w * ((f * sv + sx) + c)
    OBVIOUS
  <2>2. PICK p \in Nat : p = f * sv
    OBVIOUS
  <2>3. w * ((p + sx) + c) = (w * p + w * sx) + w * c
    BY ONLY w \in Nat, p \in Nat, sx \in Nat, c \in Nat
  <2> QED BY <2>1, <2>2, <2>3
<1>2. f * (v + w * sv) = f * v + w * (f * sv)
  <2>1. PICK p \in Nat : p = w * sv
    OBVIOUS
  <2>2. f * (v + p) = f * v + f * p
    BY ONLY f \in Nat, v \in Nat, p \in Nat
  <2>3. f * (w * sv) = w * (f * sv)
    BY ONLY f \in Nat, w \in Nat, sv \in Nat
  <2> QED BY <2>1, <2>2, <2>3
<1>3. PICK p \in Nat, q \in Nat, r \in Nat, s \in Nat, t \in Nat :
        p = w * (f * sv) /\ q = w * sx /\ r = w * c /\ s = f * v /\ t = w * su
  <2>1. w * (f * sv) \in Nat /\ w * sx \in Nat /\ w * c \in Nat /\ f * v \in Nat /\ w * su \in Nat
    <3>1. f * sv \in Nat
      OBVIOUS
    <3> QED BY <3>1
  <2> QED BY <2>1
<1>4. t = (p + q) + r /\ u + r = (s + x) + b
  BY <1>1, <1>3
<1>5. u + t = ((s + p) + (x + q)) + b
  BY ONLY <1>4, u \in Nat, t \in Nat, s \in Nat, p \in Nat, x \in Nat, q \in Nat, b \in Nat,
     r \in Nat
<1> QED BY <1>2, <1>3, <1>5

LEMMA WalkSums ==
  ASSUME NEW u \in Seq(Words), NEW v \in Seq(Words), NEW x \in Seq(Words), NEW f \in Nat,
         NEW n \in Nat, Len(u) <= n, Len(v) <= n, Len(x) <= n,
         NEW C \in [0..n -> Nat], C[n] = 0, \A i \in 1..n : Sums(u, f, v, x, C, i)
  PROVE  Totals(u, f, v, x, C[0])
<1> DEFINE m == n + 1
           T == {i \in Nat \ {0} : Above(u, i) = (f * Above(v, i) + Above(x, i)) + C[i - 1]}
<1>1. m \in Nat \ {0} /\ m > Len(u) /\ m > Len(v) /\ m > Len(x) /\ m - 1 = n
  OBVIOUS
<1>2. m \in T
  <2>1. Above(u, m) = 0 /\ Above(v, m) = 0 /\ Above(x, m) = 0
    BY <1>1, AboveEnds
  <2>2. f * 0 = 0
    OBVIOUS
  <2> QED BY <1>1, <2>1, <2>2
<1>3. ASSUME NEW i \in 1..(m - 1), i + 1 \in T PROVE i \in T
  <2>1. i \in Nat \ {0} /\ i \in 1..n /\ i + 1 \in Nat \ {0} /\ (i + 1) - 1 = i /\ i - 1 \in 0..n
        /\ i \in 0..n
    OBVIOUS
  <2>2. PICK w \in Nat, a \in Nat, b \in Nat, c \in Nat, su \in Nat, sv \in Nat, sx \in Nat :
          /\ w = Word /\ a = At(u, i) /\ b = At(v, i) /\ c = At(x, i)
          /\ su = Above(u, i + 1) /\ sv = Above(v, i + 1) /\ sx = Above(x, i + 1)
    BY <2>1, WordFacts, AtIsWord, AboveIsNat
  <2>3. PICK d \in Nat, e \in Nat : d = C[i - 1] /\ e = C[i]
    BY <2>1
  <2>4. a + w * e = (f * b + c) + d
    BY <2>1, <2>2, <2>3 DEF Sums
  <2>5. su = (f * sv + sx) + e
    BY <1>3, <2>1, <2>2, <2>3
  <2>6. a + w * su = (f * (b + w * sv) + (c + w * sx)) + d
    BY <2>4, <2>5, SumAbove
  <2>7. Above(u, i) = a + w * su /\ Above(v, i) = b + w * sv /\ Above(x, i) = c + w * sx
    BY <2>1, <2>2, AboveSplits
  <2> QED BY <2>1, <2>3, <2>6, <2>7
<1>4. 1 \in T
  <2> HIDE DEF T, m
  <2>1. 1 \in 1..m
    BY <1>1
  <2> QED BY <1>1, <1>2, <1>3, <2>1, Downward
<1>5. 1 - 1 = 0
  OBVIOUS
<1> QED BY <1>4, <1>5, AboveAll DEF Totals

-----------------------------------------------------------------------------
(* Dividing by less than half a word *)

LEMMA DividedBy ==
  ASSUME NEW x \in Nat, NEW n \in Nat, n >= 1
  PROVE  /\ x \div n \in Nat /\ x % n \in Nat /\ x % n < n
         /\ x = n * (x \div n) + (x % n)
OBVIOUS

\* A remainder before a half of a word: the quotient is half a word again.
HalfBy(x, H, d, q, r) == q = x \div d /\ r = x % d /\ q < H /\ r < d /\ x = q * d + r
LEMMA HalfDivided ==
  ASSUME NEW d \in Nat, d >= 1, NEW m \in Nat, m < d, NEW H \in Nat, NEW h \in Nat, h < H
  PROVE  \E q \in Nat, r \in Nat : HalfBy(m * H + h, H, d, q, r)
<1>1. PICK p \in Nat : p = m * H
  OBVIOUS
<1>2. PICK x \in Nat : x = p + h
  OBVIOUS
<1>3. PICK q \in Nat, r \in Nat : q = x \div d /\ r = x % d /\ r < d /\ x = d * q + r
  BY DividedBy
<1>4. q < H
  <2> SUFFICES ASSUME H <= q PROVE FALSE
    OBVIOUS
  <2>1. H * m + H <= H * d
    BY TimesLess
  <2>2. d * H <= d * q
    <3>1. PICK e \in Nat : q = H + e
      <4>1. q - H \in Nat /\ q = H + (q - H)
        OBVIOUS
      <4> QED BY <4>1
    <3>2. PICK a \in Nat, b \in Nat : a = d * H /\ b = d * e
      OBVIOUS
    <3>3. d * (H + e) = d * H + d * e
      OBVIOUS
    <3> QED BY <3>1, <3>2, <3>3
  <2>3. H * m = p /\ H * d = d * H
    BY <1>1
  <2>4. PICK a \in Nat, b \in Nat : a = d * H /\ b = d * q
    OBVIOUS
  <2> QED BY <1>2, <1>3, <2>1, <2>2, <2>3, <2>4
<1>5. d * q = q * d
  OBVIOUS
<1> QED BY <1>1, <1>2, <1>3, <1>4, <1>5 DEF HalfBy

\* A word, with a remainder before it.
LEMMA DivWordIsRight ==
  ASSUME NEW d \in Nat, d >= 1, d < Half, NEW m \in Nat, m < d, NEW x \in Words
  PROVE  /\ DivWord(m, x, d).q \in Words /\ DivWord(m, x, d).m \in Nat /\ DivWord(m, x, d).m < d
         /\ x + Word * m = d * DivWord(m, x, d).q + DivWord(m, x, d).m
<1>1. PICK H \in Nat : H = Half /\ H >= 2 /\ Word = H * H
  BY Halves
<1>2. PICK hi \in Nat, lo \in Nat : hi = Hi(x) /\ lo = Lo(x) /\ lo < H /\ x = H * hi + lo /\ hi < H
  <2>1. x \in Nat /\ x < H * H
    BY <1>1, WordFacts
  <2>2. PICK hi \in Nat, lo \in Nat : hi = Hi(x) /\ lo = Lo(x) /\ lo < H /\ x = H * hi + lo
    BY <1>1, <2>1, HalvesOf
  <2>3. hi < H
    <3> SUFFICES ASSUME H <= hi PROVE FALSE
      OBVIOUS
    <3>1. PICK e \in Nat : hi = H + e
      <4>1. hi - H \in Nat /\ hi = H + (hi - H)
        OBVIOUS
      <4> QED BY <4>1
    <3>2. H * (H + e) = H * H + H * e
      OBVIOUS
    <3>3. PICK a \in Nat, b \in Nat : a = H * H /\ b = H * e
      OBVIOUS
    <3> QED BY <2>1, <2>2, <3>1, <3>2, <3>3
  <2> QED BY <2>2, <2>3
<1>3. PICK q1 \in Nat, r1 \in Nat :
        /\ q1 = (m * H + hi) \div d /\ r1 = (m * H + hi) % d
        /\ q1 < H /\ r1 < d /\ m * H + hi = q1 * d + r1
  <2>1. \E q \in Nat, r \in Nat : HalfBy(m * H + hi, H, d, q, r)
    BY <1>2, HalfDivided
  <2> QED BY <2>1 DEF HalfBy
<1>4. PICK q0 \in Nat, r0 \in Nat :
        /\ q0 = (r1 * H + lo) \div d /\ r0 = (r1 * H + lo) % d
        /\ q0 < H /\ r0 < d /\ r1 * H + lo = q0 * d + r0
  <2>1. r1 \in Nat /\ r1 < d
    BY <1>3
  <2>2. \E q \in Nat, r \in Nat : HalfBy(r1 * H + lo, H, d, q, r)
    BY <1>2, <2>1, HalfDivided
  <2> QED BY <2>2 DEF HalfBy
<1>5. PICK h1 : h1 = DivHalf([q |-> 0, m |-> m], hi, d) /\ h1.q = q1 /\ h1.m = r1
  <2>1. 0 * H = 0 /\ 0 % Word = 0
    BY WordFacts
  <2>2. ((0 * H) % Word) + q1 = q1
    BY <2>1
  <2>3. DivHalf([q |-> 0, m |-> m], hi, d) = [q |-> ((0 * H) % Word) + q1, m |-> r1]
    BY <1>1, <1>3 DEF DivHalf
  <2> QED BY <2>2, <2>3
<1>6. H * q1 + H <= H * H
  BY <1>3, TimesLess
<1>7. PICK p \in Nat : p = q1 * H /\ p = H * q1 /\ p % Word = p /\ p + H <= H * H
  <2>1. PICK p \in Nat : p = q1 * H /\ p = H * q1
    OBVIOUS
  <2>2. p < Word
    BY <2>1, <1>1, <1>6, WordFacts
  <2>3. p % Word = p
    BY <2>2, WordFacts, Remains
  <2> QED BY <2>1, <2>3, <1>6
<1>8. DivWord(m, x, d) = [q |-> p + q0, m |-> r0]
  BY <1>1, <1>2, <1>4, <1>5, <1>7 DEF DivWord, DivHalf
<1>9. p + q0 \in Words
  <2>1. p + q0 < H * H
    <3>1. PICK a \in Nat : a = H * H
      OBVIOUS
    <3> QED BY <3>1, <1>4, <1>7
  <2> QED BY <2>1, <1>1, WordFacts
<1>10. x + Word * m = d * (p + q0) + r0
  <2>1. PICK a \in Nat, b \in Nat, c \in Nat, e \in Nat :
          a = m * H /\ b = q1 * d /\ c = r1 * H /\ e = q0 * d
    OBVIOUS
  <2>2. Word * m = H * a
    <3>1. (H * H) * m = H * (m * H)
      OBVIOUS
    <3> QED BY <3>1, <2>1, <1>1
  <2>3. a + hi = b + r1 /\ c + lo = e + r0
    BY <1>3, <1>4, <2>1
  <2>4. H * a + H * hi = H * b + c
    <3>1. H * (a + hi) = H * a + H * hi
      OBVIOUS
    <3>2. H * (b + r1) = H * b + H * r1
      OBVIOUS
    <3>3. H * r1 = c
      BY <2>1
    <3> QED BY <2>3, <3>1, <3>2, <3>3
  <2>5. d * (p + q0) = H * b + e
    <3>1. d * (p + q0) = d * p + d * q0
      OBVIOUS
    <3>2. d * (q1 * H) = H * (q1 * d)
      OBVIOUS
    <3>3. d * q0 = e
      BY <2>1
    <3> QED BY <3>1, <3>2, <3>3, <2>1, <1>7
  <2>6. PICK s \in Nat, t \in Nat, v \in Nat : s = H * a /\ t = H * b /\ v = H * hi
    OBVIOUS
  <2>7. x = v + lo
    BY <1>2, <2>6
  <2> QED BY <2>2, <2>3, <2>4, <2>5, <2>6, <2>7
<1> QED BY <1>4, <1>8, <1>9, <1>10

LEMMA RemaindersUnfold ==
  ASSUME NEW d \in Nat, d >= 1, d < Half, NEW w \in Seq(Words), NEW M, M = Remainders(w, d)
  PROVE  /\ M \in [0..Len(w) -> 0..(d - 1)] /\ M[0] = 0
         /\ \A k \in 1..Len(w) : M[k] = DivWord(M[k - 1], w[Len(w) + 1 - k], d).m
<1> PICK n \in Nat : n = Len(w)
  OBVIOUS
<1> DEFINE S == 0..(d - 1)
           next == [p \in (1..n) \X S |-> DivWord(p[2], w[n + 1 - p[1]], d).m]
<1>1. next \in [(1..n) \X S -> S]
  <2>1. ASSUME NEW p \in (1..n) \X S PROVE DivWord(p[2], w[n + 1 - p[1]], d).m \in S
    <3>1. p[1] \in 1..n /\ p[2] \in S
      OBVIOUS
    <3>2. n + 1 - p[1] \in 1..n
      BY <3>1
    <3>3. PICK x \in Words : x = w[n + 1 - p[1]]
      BY <3>2
    <3>4. PICK m \in Nat : m = p[2] /\ m < d
      BY <3>1
    <3>5. DivWord(m, x, d).m \in Nat /\ DivWord(m, x, d).m < d
      BY <3>4, DivWordIsRight
    <3> QED BY <3>3, <3>4, <3>5
  <2> QED BY <2>1
<1>2. 0 \in S
  OBVIOUS
<1>3. PICK f \in [0..n -> S] : Follows(n, f, 0, next)
  <2> HIDE DEF next, S
  <2> QED BY <1>1, <1>2, UpwardExists
<1>4. f[0] = 0
  BY <1>3 DEF Follows
<1>5. ASSUME NEW k \in 1..n PROVE f[k] = DivWord(f[k - 1], w[n + 1 - k], d).m
  <2>1. k - 1 \in 0..n
    OBVIOUS
  <2>2. <<k, f[k - 1]>> \in (1..n) \X S
    BY <2>1
  <2>3. f[k] = next[<<k, f[k - 1]>>]
    BY <1>3 DEF Follows
  <2> QED BY <2>2, <2>3
<1>6. f = [k \in 0..n |-> IF k = 0 THEN 0 ELSE DivWord(f[k - 1], w[n + 1 - k], d).m]
  <2>1. f = [k \in 0..n |-> f[k]]
    OBVIOUS
  <2>2. \A k \in 0..n : f[k] = IF k = 0 THEN 0 ELSE DivWord(f[k - 1], w[n + 1 - k], d).m
    <3>1. \A k \in 0..n : k = 0 \/ k \in 1..n
      OBVIOUS
    <3> QED BY <3>1, <1>4, <1>5
  <2> QED BY <2>1, <2>2
<1>7. M = [k \in 0..n |-> IF k = 0 THEN 0 ELSE DivWord(M[k - 1], w[n + 1 - k], d).m]
  <2> HIDE DEF next, S
  <2> QED BY <1>6, Zenon DEF Remainders
<1>8. M[0] = 0 /\ \A k \in 1..n : M[k] = DivWord(M[k - 1], w[n + 1 - k], d).m
  <2>1. 0 \in 0..n /\ \A k \in 1..n : k \in 0..n /\ k # 0
    OBVIOUS
  <2> QED BY <2>1, <1>7
<1>9. \A k \in 0..n : M[k] \in S
  <2>1. ASSUME NEW k \in 1..n, M[k - 1] \in S PROVE M[k] \in S
    <3>1. <<k, M[k - 1]>> \in (1..n) \X S
      BY <2>1
    <3>2. next[<<k, M[k - 1]>>] = M[k]
      BY <1>8, <3>1
    <3> QED BY <1>1, <3>1, <3>2
  <2> HIDE DEF S
  <2>2. M[0] \in S
    BY <1>2, <1>8
  <2> QED BY <2>1, <2>2, UpwardTyped
<1>10. M \in [0..n -> S]
  <2>1. M = [k \in 0..n |-> M[k]]
    BY <1>7, Zenon
  <2> QED BY <2>1, <1>9
<1> QED BY <1>8, <1>10

LEMMA DivModHalfIsRight ==
  ASSUME NEW d \in Nat, d >= 1, d < Half, NEW w \in Seq(Words)
  PROVE  /\ Normal(DivModHalf(w, d).q) /\ DivModHalf(w, d).m \in Nat /\ DivModHalf(w, d).m < d
         /\ ValueOf(w) = d * ValueOf(DivModHalf(w, d).q) + DivModHalf(w, d).m
<1> PICK n \in Nat : n = Len(w)
  OBVIOUS
<1>1. PICK M : M = Remainders(w, d)
  OBVIOUS
<1>2. /\ M \in [0..n -> 0..(d - 1)] /\ M[0] = 0
      /\ \A k \in 1..n : M[k] = DivWord(M[k - 1], w[n + 1 - k], d).m
  BY <1>1, RemaindersUnfold
<1>3. PICK u : u = [i \in 1..n |-> DivWord(M[n - i], w[i], d).q]
  OBVIOUS
<1>4. PICK C : C = [i \in 0..n |-> M[n - i]]
  OBVIOUS
<1>5. \A i \in 0..n : n - i \in 0..n /\ C[i] = M[n - i] /\ M[n - i] \in Nat /\ M[n - i] < d
  <2> SUFFICES ASSUME NEW i \in 0..n
               PROVE  n - i \in 0..n /\ C[i] = M[n - i] /\ M[n - i] \in Nat /\ M[n - i] < d
    OBVIOUS
  <2>1. PICK k \in 0..n : k = n - i
    <3>1. n - i \in 0..n
      OBVIOUS
    <3> QED BY <3>1
  <2>2. M[k] \in 0..(d - 1)
    BY <1>2
  <2>3. C[i] = M[n - i]
    BY <1>4
  <2> QED BY <2>1, <2>2, <2>3
<1>6. C \in [0..n -> Nat] /\ C[n] = 0 /\ C[0] = M[n] /\ C[0] < d
  <2>1. n \in 0..n /\ 0 \in 0..n /\ n - n = 0 /\ n - 0 = n
    OBVIOUS
  <2>2. C \in [0..n -> Nat]
    BY <1>4, <1>5
  <2> QED BY <2>1, <2>2, <1>2, <1>5
<1>7. ASSUME NEW i \in 1..n
      PROVE  /\ u[i] \in Words
             /\ w[i] + Word * C[i] = d * u[i] + C[i - 1]
  <2>1. i \in 0..n /\ i - 1 \in 0..n /\ n - (i - 1) \in 1..n /\ n + 1 - (n - (i - 1)) = i
        /\ (n - (i - 1)) - 1 = n - i
    OBVIOUS
  <2>2. PICK m \in Nat, x \in Words : m = M[n - i] /\ m < d /\ x = w[i]
    BY <1>5, <2>1
  <2>3. /\ DivWord(m, x, d).q \in Words
        /\ x + Word * m = d * DivWord(m, x, d).q + DivWord(m, x, d).m
    BY <2>2, DivWordIsRight
  <2>4. M[n - (i - 1)] = DivWord(m, x, d).m
    BY <1>2, <2>1, <2>2
  <2>5. C[i - 1] = M[n - (i - 1)] /\ C[i] = m
    BY <1>5, <2>1, <2>2
  <2>6. u[i] = DivWord(m, x, d).q
    BY <1>3, <2>2
  <2> QED BY <2>2, <2>3, <2>4, <2>5, <2>6
<1>8. u \in Seq(Words) /\ Len(u) = n
  <2>1. u \in [1..n -> Words]
    BY <1>3, <1>7
  <2> QED BY <2>1, WordsAreSeq
<1>9. PICK e \in Seq(Words) : e = <<>> /\ Len(e) = 0
  <2>1. <<>> \in Seq(Words) /\ Len(<<>>) = 0
    OBVIOUS
  <2> QED BY <2>1
<1>10. ASSUME NEW i \in 1..n PROVE Sums(w, d, u, e, C, i)
  <2>1. At(w, i) = w[i] /\ At(u, i) = u[i] /\ At(e, i) = 0
    BY <1>8, <1>9 DEF At
  <2>2. d * u[i] \in Nat
    <3>1. u[i] \in Nat
      BY <1>7, WordFacts
    <3> QED BY <3>1
  <2> QED BY <1>7, <2>1, <2>2 DEF Sums
<1>11. ValueOf(w) = (d * ValueOf(u) + ValueOf(e)) + C[0]
  BY <1>6, <1>8, <1>9, <1>10, WalkSums DEF Totals
<1>12. ValueOf(e) = 0
  BY <1>9, NoWords
<1>13. DivModHalf(w, d) = [q |-> Truncate(u), m |-> M[n]]
  BY <1>1, <1>3 DEF DivModHalf
<1>14. Normal(Truncate(u)) /\ ValueOf(Truncate(u)) = ValueOf(u) /\ ValueOf(u) \in Nat
  BY <1>8, TruncateCuts, AboveAll
<1>15. PICK v \in Nat, c \in Nat : v = ValueOf(u) /\ c = C[0] /\ d * v \in Nat /\ c < d
  <2>1. C[0] \in Nat
    BY <1>6
  <2> QED BY <2>1, <1>6, <1>14
<1> QED BY <1>6, <1>11, <1>12, <1>13, <1>14, <1>15

-----------------------------------------------------------------------------
(* Bits *)

LEMMA BitsOfWord ==
  ASSUME NEW x \in Words, NEW b, b = BitLengthOf(x)
  PROVE  b \in Nat /\ b <= Bits /\ x < Two[b] /\ (b = 0 \/ x >= Two[b - 1]) /\ (x # 0 => b # 0)
<1> DEFINE Z == {n \in 0..Bits : x < Two[n]}
           Fit(n) == x < Two[n] /\ (n = 0 \/ x >= Two[n - 1])
<1> PICK m \in Nat : m = Bits
  BY WidthAssumption
<1>1. x \in Nat /\ x < Two[m]
  BY WordFacts DEF Word
<1>2. m \in Z
  BY <1>1
<1>3. PICK n \in Z : \A k \in Z : n <= k
  <2>1. Z \in SUBSET Nat
    OBVIOUS
  <2> HIDE DEF Z
  <2> QED BY <1>2, <2>1, LeastOf
<1>4. n \in 0..Bits /\ x < Two[n]
  OBVIOUS
<1>5. n # 0 => x >= Two[n - 1]
  <2> SUFFICES ASSUME n # 0, ~(x >= Two[n - 1]) PROVE FALSE
    OBVIOUS
  <2>1. n - 1 \in 0..Bits /\ n - 1 \in Nat /\ ~(n <= n - 1)
    BY <1>4
  <2>2. Two[n - 1] \in Nat
    BY <2>1, TwoUnfolds
  <2>3. n - 1 \in Z
    BY <1>1, <2>1, <2>2
  <2> QED BY <1>3, <2>1, <2>3
<1>6. \E k \in 0..Bits : Fit(k)
  BY <1>4, <1>5
<1>7. b \in 0..Bits /\ Fit(b)
  <2>1. b = CHOOSE k \in 0..Bits : Fit(k)
    BY DEF BitLengthOf
  <2> HIDE DEF Fit
  <2> QED BY <1>6, <2>1
<1>8. x # 0 => b # 0
  BY <1>1, <1>7, TwoUnfolds
<1> QED BY <1>7, <1>8

LEMMA BitLengthIsRight ==
  ASSUME NEW w, Normal(w), w # <<>>, NEW L, L = BitLength(w)
  PROVE  /\ L \in Nat /\ L >= 1 /\ ValueOf(w) < Two[L] /\ ValueOf(w) >= Two[L - 1]
         /\ L <= Len(w) * Bits /\ L > (Len(w) - 1) * Bits
<1> PICK m \in Nat, n \in Nat : m = Bits /\ n = Len(w) /\ n >= 1 /\ n \in 1..Len(w) /\ m >= 1
  <2>1. w \in Seq(Words)
    BY DEF Normal
  <2> QED BY <2>1, WidthAssumption
<1>1. w \in Seq(Words) /\ w[n] \in Words /\ w[n] # 0
  <2>1. w \in Seq(Words) /\ w[n] # 0
    BY DEF Normal
  <2> QED BY <2>1
<1>2. PICK b \in Nat, x \in Nat :
        /\ b = BitLengthOf(w[n]) /\ x = w[n]
        /\ b <= m /\ x < Two[b] /\ b >= 1 /\ x >= Two[b - 1]
  <2>1. w[n] \in Nat
    BY <1>1, WordFacts
  <2> QED BY <1>1, <2>1, BitsOfWord
<1> DEFINE T == {i \in Nat \ {0} : i <= n => /\ Above(w, i) < Two[b + (n - i) * m]
                                             /\ Above(w, i) >= Two[(b - 1) + (n - i) * m]}
<1>3. n \in T
  <2>1. (n - n) * m = 0 /\ n \in Nat \ {0} /\ n + 1 > Len(w) /\ n + 1 \in Nat
    OBVIOUS
  <2>2. Above(w, n + 1) = 0 /\ At(w, n) = x
    BY <1>1, <1>2, <2>1, AboveEnds DEF At
  <2>3. Above(w, n) = x
    <3>1. Above(w, n) = At(w, n) + Word * Above(w, n + 1)
      BY <1>1, <2>1, AboveSplits
    <3> QED BY <2>2, <3>1, WordFacts
  <2>4. b + 0 = b /\ (b - 1) + 0 = b - 1
    BY <1>2
  <2> QED BY <1>2, <2>1, <2>3, <2>4
<1>4. ASSUME NEW i \in 1..(n - 1), i + 1 \in T PROVE i \in T
  <2>1. i \in Nat \ {0} /\ i + 1 \in Nat \ {0} /\ i + 1 <= n /\ n - (i + 1) \in Nat
    OBVIOUS
  <2>2. PICK k \in Nat : k = (n - (i + 1)) * m /\ (n - i) * m = k + m
    <3>1. PICK j \in Nat : j = n - (i + 1) /\ n - i = j + 1
      BY <2>1
    <3>2. j * m \in Nat /\ (j + 1) * m = j * m + m
      OBVIOUS
    <3> QED BY <3>1, <3>2
  <2>3. PICK a \in Nat, W \in Nat, y \in Nat : /\ a = At(w, i) /\ W = Word /\ a < W
                                              /\ y = Above(w, i + 1) /\ Above(w, i) = a + W * y
    <3>1. At(w, i) \in Nat /\ At(w, i) \in Words /\ Above(w, i + 1) \in Nat
      BY <1>1, <2>1, AtIsWord, AboveIsNat
    <3>2. At(w, i) < Word /\ Word \in Nat
      BY <3>1, WordFacts
    <3>3. Above(w, i) = At(w, i) + Word * Above(w, i + 1)
      BY <1>1, <2>1, AboveSplits
    <3> QED BY <3>1, <3>2, <3>3
  <2>4. b - 1 \in Nat /\ b + k \in Nat /\ (b - 1) + k \in Nat /\ W = Two[m]
    <3>1. b - 1 \in Nat /\ b + k \in Nat /\ (b - 1) + k \in Nat
      BY <1>2
    <3>2. W = Two[m]
      BY <2>3 DEF Word
    <3> QED BY <3>1, <3>2
  <2>5. PICK p \in Nat, q \in Nat : p = Two[b + k] /\ q = Two[(b - 1) + k]
    BY <2>4, TwoUnfolds
  <2>6. y < p /\ q <= y
    BY <1>4, <2>1, <2>2, <2>3, <2>5
  <2>7. Two[b + (k + m)] = p * W /\ Two[(b - 1) + (k + m)] = q * W
    <3>1. b + (k + m) = (b + k) + m /\ (b - 1) + (k + m) = ((b - 1) + k) + m
      BY <2>4
    <3>2. /\ Two[(b + k) + m] = Two[b + k] * Two[m]
          /\ Two[((b - 1) + k) + m] = Two[(b - 1) + k] * Two[m]
      BY <2>4, TwosMultiply
    <3> QED BY <2>4, <2>5, <3>1, <3>2
  <2>8. a + W * y < p * W
    <3>1. W * y + W <= W * p
      BY <2>6, TimesLess
    <3>2. PICK s \in Nat, t \in Nat : s = W * y /\ t = W * p /\ t = p * W
      OBVIOUS
    <3> QED BY <2>3, <3>1, <3>2
  <2>9. q * W <= a + W * y
    <3>1. PICK e \in Nat : y = q + e
      <4>1. y - q \in Nat /\ y = q + (y - q)
        BY <2>6
      <4> QED BY <4>1
    <3>2. W * (q + e) = W * q + W * e
      OBVIOUS
    <3>3. PICK s \in Nat, t \in Nat : s = W * q /\ t = W * e /\ s = q * W
      OBVIOUS
    <3> QED BY <3>1, <3>2, <3>3
  <2> QED BY <2>1, <2>2, <2>3, <2>7, <2>8, <2>9
<1>5. 1 \in T
  <2>1. n \in Nat \ {0} /\ 1 \in 1..n
    OBVIOUS
  <2> HIDE DEF T
  <2> QED BY <1>3, <1>4, <2>1, Downward
<1>6. L = b + (n - 1) * m
  BY <1>2 DEF BitLength, Last
<1>7. PICK k \in Nat : k = (n - 1) * m /\ k + m = n * m
  <2>1. PICK j \in Nat : j = n - 1 /\ n = j + 1
    <3>1. n - 1 \in Nat /\ n = (n - 1) + 1
      OBVIOUS
    <3> QED BY <3>1
  <2>2. j * m \in Nat /\ (j + 1) * m = j * m + m
    OBVIOUS
  <2> QED BY <2>1, <2>2
<1>8. 1 <= n /\ Above(w, 1) = ValueOf(w)
  BY <1>1, AboveAll
<1>9. ValueOf(w) < Two[b + k] /\ ValueOf(w) >= Two[(b - 1) + k]
  BY <1>5, <1>7, <1>8
<1>10. (b - 1) + k = L - 1 /\ b + k = L /\ L \in Nat
  BY <1>2, <1>6, <1>7
<1> QED BY <1>2, <1>7, <1>9, <1>10

\* Words stand for less than as many values as they have.
LEMMA ValueIsBelow ==
  ASSUME NEW w \in Seq(Words)
  PROVE  Len(w) * Bits \in Nat /\ ValueOf(w) < Two[Len(w) * Bits]
<1>1. PICK t \in Seq(Words) :
        t = Truncate(w) /\ Normal(t) /\ Len(t) <= Len(w) /\ ValueOf(t) = ValueOf(w)
  <2>1. Normal(Truncate(w)) /\ Len(Truncate(w)) <= Len(w) /\ ValueOf(Truncate(w)) = ValueOf(w)
    BY TruncateCuts
  <2> QED BY <2>1 DEF Normal
<1>2. PICK m \in Nat, n \in Nat, k \in Nat : m = Bits /\ n = Len(w) /\ k = Len(t) /\ k <= n
  BY <1>1, WidthAssumption
<1>3. n * m \in Nat /\ k * m \in Nat /\ k * m <= n * m
  <2>1. PICK j \in Nat : n = k + j
    <3>1. n - k \in Nat /\ n = k + (n - k)
      BY <1>2
    <3> QED BY <3>1
  <2>2. (k + j) * m = k * m + j * m
    OBVIOUS
  <2>3. k * m \in Nat /\ j * m \in Nat
    OBVIOUS
  <2> QED BY <2>1, <2>2, <2>3
<1>4. CASE t = <<>>
  <2>1. ValueOf(w) = 0
    BY <1>1, <1>4, NoWords
  <2> QED BY <1>2, <1>3, <2>1, TwoUnfolds
<1>5. CASE t # <<>>
  <2>1. PICK L \in Nat : L = BitLength(t) /\ ValueOf(t) < Two[L] /\ L <= k * m
    BY <1>1, <1>2, <1>5, BitLengthIsRight
  <2>2. PICK l \in Nat : l = n * m /\ L <= l
    BY <1>3, <2>1
  <2>3. Two[L] <= Two[l] /\ Two[L] \in Nat /\ Two[l] \in Nat /\ ValueOf(t) \in Nat
    BY <2>2, TwosGrow, TwoUnfolds, AboveAll
  <2> QED BY <1>1, <1>2, <2>1, <2>2, <2>3
<1> QED BY <1>4, <1>5

\* A bit of a number is a bit of one of its words.
Place(bit, at, bits) == /\ at = bit \div Bits /\ bits = bit % Bits /\ bits < Bits
                        /\ Two[bit] = Two[at * Bits] * Two[bits]
                        /\ Word = Two[bits] * Two[Bits - bits]
LEMMA Places ==
  ASSUME NEW bit \in Nat
  PROVE  \E at \in Nat, bits \in Nat : Place(bit, at, bits)
<1> PICK m \in Nat : m = Bits /\ m >= 1
  BY WidthAssumption
<1>1. PICK at \in Nat, bits \in Nat :
        at = bit \div m /\ bits = bit % m /\ bits < m /\ bit = m * at + bits
  BY DividedBy
<1>2. PICK k \in Nat : k = at * m /\ bit = k + bits
  <2>1. m * at = at * m /\ at * m \in Nat
    OBVIOUS
  <2> QED BY <1>1, <2>1
<1>3. Two[k + bits] = Two[k] * Two[bits]
  BY TwosMultiply
<1>4. m - bits \in Nat /\ bits + (m - bits) = m
  BY <1>1
<1>5. Two[bits + (m - bits)] = Two[bits] * Two[m - bits]
  BY <1>4, TwosMultiply
<1> QED BY <1>1, <1>2, <1>3, <1>4, <1>5 DEF Place, Word

\* A word shifted left: what stays in it, and what goes to the next one.
MovesUp(x, P, Q, W) == /\ x \div Q \in Nat /\ x \div Q < P /\ x % Q \in Nat /\ x % Q < Q
                       /\ (x * P) % W = (x % Q) * P /\ (x % Q) * P + P <= W
                       /\ x * P = ((x * P) % W) + W * (x \div Q)
LEMMA WordShifted ==
  ASSUME NEW P \in Nat, NEW Q \in Nat, P >= 1, Q >= 1, NEW W \in Nat, W = P * Q,
         NEW x \in Nat, x < W
  PROVE  MovesUp(x, P, Q, W)
<1>1. PICK a \in Nat, b \in Nat : a = x \div Q /\ b = x % Q /\ b < Q /\ x = Q * a + b
  BY DividedBy
<1>2. a < P
  <2> SUFFICES ASSUME P <= a PROVE FALSE
    OBVIOUS
  <2>1. PICK e \in Nat : a = P + e
    <3>1. a - P \in Nat /\ a = P + (a - P)
      OBVIOUS
    <3> QED BY <3>1
  <2>2. Q * (P + e) = Q * P + Q * e /\ Q * P = P * Q
    OBVIOUS
  <2>3. PICK s \in Nat, t \in Nat : s = P * Q /\ t = Q * e
    OBVIOUS
  <2> QED BY <1>1, <2>1, <2>2, <2>3
<1>3. P * b + P <= P * Q
  BY <1>1, TimesLess
<1>4. PICK d \in Nat, c \in Nat : d = b * P /\ d = P * b /\ c = W * a /\ d + P <= W
  <2>1. b * P = P * b /\ b * P \in Nat /\ W * a \in Nat
    OBVIOUS
  <2> QED BY <1>3, <2>1
<1>5. x * P = W * a + d
  <2>1. (Q * a + b) * P = (Q * a) * P + b * P
    <3>1. PICK q \in Nat : q = Q * a
      OBVIOUS
    <3>2. (q + b) * P = q * P + b * P
      OBVIOUS
    <3> QED BY <3>1, <3>2
  <2>2. (Q * a) * P = (P * Q) * a
    OBVIOUS
  <2> QED BY <1>1, <1>4, <2>1, <2>2
<1>6. x * P \in Nat /\ d < W
  BY <1>4
<1>7. (x * P) % W = d
  <2>1. CASE W >= 2
    BY <1>5, <1>6, <2>1, DividedOnce
  <2>2. CASE W < 2
    <3>1. W = 1 /\ d = 0
      BY <1>4, <2>2
    <3> QED BY <1>6, <3>1
  <2> QED BY <2>1, <2>2
<1>8. x \div Q = a /\ x % Q = b /\ (x % Q) * P = d
  BY <1>1, <1>4
<1>9. x * P = ((x * P) % W) + W * (x \div Q)
  BY <1>4, <1>5, <1>7, <1>8
<1>10. (x * P) % W = (x % Q) * P
  BY <1>7, <1>8
<1>11. (x % Q) * P + P <= W
  BY <1>4, <1>8
<1>12. x \div Q \in Nat /\ x \div Q < P /\ x % Q \in Nat /\ x % Q < Q
  BY <1>1, <1>2
<1> QED BY <1>9, <1>10, <1>11, <1>12 DEF MovesUp

LEMMA BitsUp ==
  ASSUME NEW w \in Seq(Words), NEW bits \in Nat, bits < Bits,
         NEW u, u = [i \in 1..(Len(w) + 1) |->
                       ((At(w, i) * Two[bits]) % Word) + (At(w, i - 1) \div Two[Bits - bits])]
  PROVE  u \in Seq(Words) /\ Len(u) = Len(w) + 1 /\ ValueOf(u) = Two[bits] * ValueOf(w)
<1> PICK n \in Nat : n = Len(w)
  OBVIOUS
<1>1. PICK P \in Nat, Q \in Nat, W \in Nat :
        P = Two[bits] /\ Q = Two[Bits - bits] /\ W = Word /\ P >= 1 /\ Q >= 1 /\ W = P * Q
  <2>1. PICK k \in Nat : k = Bits - bits /\ bits + k = Bits
    <3>1. Bits - bits \in Nat /\ bits + (Bits - bits) = Bits
      BY WidthAssumption
    <3> QED BY <3>1
  <2>2. Two[bits + k] = Two[bits] * Two[k]
    BY TwosMultiply
  <2>3. Two[bits] \in Nat /\ Two[k] \in Nat /\ Two[bits] >= 1 /\ Two[k] >= 1
    BY TwoUnfolds
  <2> QED BY <2>1, <2>2, <2>3, WordFacts DEF Word
<1>2. PICK C : C = [i \in 0..(n + 1) |-> At(w, i) \div Q]
  OBVIOUS
<1>3. u = [i \in 1..(n + 1) |-> ((At(w, i) * P) % W) + (At(w, i - 1) \div Q)]
  BY <1>1
<1>4. ASSUME NEW i \in Nat
      PROVE  /\ At(w, i) \in Nat /\ At(w, i) < W
             /\ At(w, i) \div Q \in Nat /\ At(w, i) \div Q < P
             /\ (At(w, i) * P) % W \in Nat /\ ((At(w, i) * P) % W) + P <= W
             /\ At(w, i) * P = ((At(w, i) * P) % W) + W * (At(w, i) \div Q)
  <2>1. PICK x \in Nat : x = At(w, i) /\ x < W
    BY <1>1, AtIsWord, WordFacts
  <2>2. /\ x \div Q \in Nat /\ x \div Q < P /\ x % Q \in Nat
        /\ (x * P) % W = (x % Q) * P /\ (x % Q) * P + P <= W
        /\ x * P = ((x * P) % W) + W * (x \div Q)
    <3>1. MovesUp(x, P, Q, W)
      BY <1>1, <2>1, WordShifted
    <3> QED BY <3>1 DEF MovesUp
  <2>3. (x % Q) * P \in Nat
    BY <2>2
  <2> QED BY <2>1, <2>2, <2>3
<1>5. At(w, 0) = 0 /\ At(w, n + 1) = 0
  BY DEF At
<1>6. 0 \div Q = 0
  BY <1>1
<1>7. C \in [0..(n + 1) -> Nat] /\ C[n + 1] = 0 /\ C[0] = 0
  <2>1. \A i \in 0..(n + 1) : At(w, i) \div Q \in Nat
    BY <1>4
  <2>2. 0 \in 0..(n + 1) /\ n + 1 \in 0..(n + 1)
    OBVIOUS
  <2> QED BY <1>2, <1>5, <1>6, <2>1, <2>2
<1>8. ASSUME NEW i \in 1..(n + 1)
      PROVE u[i] \in Words /\ u[i] + W * C[i] = (P * At(w, i) + 0) + C[i - 1]
  <2>1. i - 1 \in Nat /\ i \in Nat /\ i \in 0..(n + 1) /\ i - 1 \in 0..(n + 1)
    OBVIOUS
  <2>2. PICK r \in Nat, a \in Nat, b \in Nat :
          /\ r = (At(w, i) * P) % W /\ a = At(w, i) \div Q /\ b = At(w, i - 1) \div Q
          /\ r + P <= W /\ b < P /\ At(w, i) * P = r + W * a
    BY <1>4, <2>1
  <2>3. u[i] = r + b
    BY <1>3, <2>2
  <2>4. r + b \in Words
    <3>1. r + P <= W /\ b < P
      BY <2>2
    <3>2. r + b \in Nat /\ r + b < W
      BY ONLY r \in Nat, b \in Nat, W \in Nat, P \in Nat, <3>1
    <3> QED BY <1>1, <3>2, WordFacts
  <2>5. C[i] = a /\ C[i - 1] = b
    BY <1>2, <2>1, <2>2
  <2>6. PICK x \in Nat : x = At(w, i)
    BY <1>4, <2>1
  <2>7. PICK s \in Nat, t \in Nat : s = W * a /\ t = P * x /\ t = x * P
    <3>1. P * x = x * P /\ P * x \in Nat /\ W * a \in Nat
      OBVIOUS
    <3> QED BY <3>1
  <2>8. W * C[i] = s /\ P * At(w, i) = t /\ t = r + s
    BY <2>2, <2>5, <2>6, <2>7
  <2>9. (r + b) + s = (t + 0) + b
    BY ONLY r \in Nat, b \in Nat, s \in Nat, t \in Nat, <2>8
  <2> QED BY <2>3, <2>4, <2>5, <2>8, <2>9
<1>9. u \in Seq(Words) /\ Len(u) = n + 1
  <2>1. u \in [1..(n + 1) -> Words]
    BY <1>8
  <2>2. n + 1 \in Nat
    OBVIOUS
  <2> QED BY <2>1, <2>2, WordsAreSeq
<1>10. PICK e \in Seq(Words) : e = <<>> /\ Len(e) = 0
  <2>1. <<>> \in Seq(Words) /\ Len(<<>>) = 0
    OBVIOUS
  <2> QED BY <2>1
<1>11. PICK k \in Nat : k = n + 1
  OBVIOUS
<1>12. ASSUME NEW i \in 1..k PROVE Sums(u, P, w, e, C, i)
  <2>1. At(u, i) = u[i] /\ At(e, i) = 0
    BY <1>9, <1>10, <1>11 DEF At
  <2> QED BY <1>1, <1>8, <1>11, <2>1 DEF Sums
<1>13. ValueOf(u) = (P * ValueOf(w) + ValueOf(e)) + C[0]
  <2>1. C \in [0..k -> Nat] /\ C[k] = 0 /\ Len(u) <= k /\ Len(w) <= k /\ Len(e) <= k
    BY <1>7, <1>9, <1>10, <1>11
  <2>2. P \in Nat /\ u \in Seq(Words) /\ e \in Seq(Words)
    BY <1>1, <1>9, <1>10
  <2>3. Totals(u, P, w, e, C[0])
    BY <1>12, <2>1, <2>2, WalkSums
  <2> QED BY <2>3 DEF Totals
<1>14. P * ValueOf(w) \in Nat /\ ValueOf(e) = 0
  <2>1. PICK v \in Nat : v = ValueOf(w)
    BY AboveAll
  <2>2. P * v \in Nat
    OBVIOUS
  <2> QED BY <2>1, <2>2, <1>10, NoWords
<1> QED BY <1>1, <1>7, <1>9, <1>13, <1>14

\* A shift to the left multiplies.
LEMMA ShiftLeftIsRight ==
  ASSUME NEW w \in Seq(Words), w # <<>>, NEW shift \in Nat
  PROVE  /\ Normal(ShiftLeft(w, shift))
         /\ ValueOf(ShiftLeft(w, shift)) = Two[shift] * ValueOf(w)
<1>1. PICK at \in Nat, bits \in Nat : Place(shift, at, bits)
  BY Places
<1>2. PICK u \in Seq(Words) :
        /\ u = IF bits = 0 THEN w
               ELSE [i \in 1..(Len(w) + 1) |->
                       ((At(w, i) * Two[bits]) % Word) + (At(w, i - 1) \div Two[Bits - bits])]
        /\ u # <<>> /\ ValueOf(u) = Two[bits] * ValueOf(w)
  <2>1. CASE bits = 0
    <3>1. Two[bits] = 1 /\ ValueOf(w) \in Nat
      BY <2>1, TwoUnfolds, AboveAll
    <3> QED BY <2>1, <3>1
  <2>2. CASE bits # 0
    <3>1. PICK v : v = [i \in 1..(Len(w) + 1) |->
                       ((At(w, i) * Two[bits]) % Word) + (At(w, i - 1) \div Two[Bits - bits])]
      OBVIOUS
    <3>2. v \in Seq(Words) /\ Len(v) = Len(w) + 1 /\ ValueOf(v) = Two[bits] * ValueOf(w)
      BY <1>1, <3>1, BitsUp DEF Place
    <3>3. v # <<>>
      BY <3>2
    <3> QED BY <2>2, <3>1, <3>2, <3>3
  <2> QED BY <2>1, <2>2
<1>3. ShiftLeft(w, shift) = Truncate(Shifted(u, at))
  BY <1>1, <1>2 DEF ShiftLeft, Shifted, Place
<1>4. PICK R \in Nat : R = Two[at * Bits] /\ Unit(at, R)
  BY UnitIsPower
<1>5. PICK s \in Seq(Words) : s = Shifted(u, at) /\ ValueOf(s) = R * ValueOf(u)
  BY <1>4, ShiftedIsRight
<1>6. PICK P \in Nat, v \in Nat : P = Two[bits] /\ v = ValueOf(w)
  BY TwoUnfolds, AboveAll
<1>7. R * (P * v) = (R * P) * v
  OBVIOUS
<1>8. Two[shift] = R * P
  BY <1>1, <1>4, <1>6 DEF Place
<1> QED BY <1>2, <1>3, <1>5, <1>6, <1>7, <1>8, TruncateCuts

\* A shift to the right by one bit halves.
MovesDown(x, y, H, W, a, b, c) ==
  /\ a = x \div 2 /\ b = x % 2 /\ c = y % 2 /\ x = 2 * a + b /\ a < H
  /\ (y * H) % W = c * H
LEMMA HalvedWord ==
  ASSUME NEW H \in Nat, H >= 1, NEW W \in Nat, W = H * 2, NEW x \in Nat, x < W, NEW y \in Nat, y < W
  PROVE  \E a \in Nat, b \in 0..1, c \in 0..1 : MovesDown(x, y, H, W, a, b, c)
<1>1. PICK a \in Nat, b \in 0..1 : a = x \div 2 /\ b = x % 2 /\ x = 2 * a + b
  OBVIOUS
<1>2. PICK c \in 0..1 : c = y % 2
  OBVIOUS
<1>3. MovesUp(y, H, 2, W)
  BY WordShifted
<1>4. (y * H) % W = c * H
  BY <1>2, <1>3 DEF MovesUp
<1>5. a < H
  BY <1>1
<1> QED BY <1>1, <1>2, <1>4, <1>5 DEF MovesDown

LEMMA ShiftRightIsRight ==
  ASSUME NEW w \in Seq(Words)
  PROVE  /\ Normal(ShiftRight(w, 1))
         /\ \E b \in 0..1 : ValueOf(w) = 2 * ValueOf(ShiftRight(w, 1)) + b
<1> PICK n \in Nat : n = Len(w)
  OBVIOUS
<1>1. PICK H \in Nat, W \in Nat : H = Two[Bits - 1] /\ H >= 1 /\ W = Word /\ W = H * 2
  <2>1. PICK m \in Nat : m = Bits - 1 /\ m + 1 = Bits
    <3>1. Bits - 1 \in Nat /\ (Bits - 1) + 1 = Bits
      BY WidthAssumption
    <3> QED BY <3>1
  <2>2. Two[m + 1] = 2 * Two[m] /\ Two[m] \in Nat /\ Two[m] >= 1
    BY TwoUnfolds
  <2>3. Word = 2 * Two[m]
    BY <2>1, <2>2 DEF Word
  <2> QED BY <2>1, <2>2, <2>3
<1>2. PICK u : u = [i \in 1..n |-> (At(w, i) \div 2) + ((At(w, i + 1) * H) % W)]
  OBVIOUS
<1>3. PICK C : C = [i \in 0..n |-> At(w, i + 1) % 2]
  OBVIOUS
<1>4. ShiftRight(w, 1) = Truncate(u)
  <2>1. 1 \div Bits = 0 /\ 1 % Bits = 1
    <3>1. Bits \in Nat /\ Bits >= 2
      BY WidthAssumption
    <3>2. 1 = Bits * 0 + 1
      BY <3>1
    <3> QED BY <3>1, <3>2, DividedOnce
  <2>2. Len(w) - 0 = n /\ Longer(n, 0) = n
    BY DEF Longer
  <2>3. Two[1] = 2
    BY TwoUnfolds
  <2>4. [i \in 1..n |->
           (At(w, 0 + i) \div Two[1]) + ((At(w, 0 + i + 1) * Two[Bits - 1]) % Word)] = u
    <3>1. \A i \in 1..n : 0 + i = i
      OBVIOUS
    <3> QED BY <1>1, <1>2, <2>3, <3>1
  <2> QED BY <2>1, <2>2, <2>4 DEF ShiftRight
<1>5. ASSUME NEW i \in Nat PROVE At(w, i) \in Nat /\ At(w, i) < W
  BY <1>1, AtIsWord, WordFacts
<1>6. C \in [0..n -> Nat] /\ C[0] \in 0..1 /\ C[n] = 0
  <2>1. \A x \in Nat : x % 2 \in 0..1
    OBVIOUS
  <2>2. \A i \in 0..n : At(w, i + 1) \in Nat
    <3>1. \A i \in 0..n : i + 1 \in Nat
      OBVIOUS
    <3> QED BY <3>1, <1>5
  <2>3. At(w, n + 1) = 0
    BY DEF At
  <2>4. 0 \in 0..n /\ n \in 0..n /\ 0 % 2 = 0
    OBVIOUS
  <2>5. \A i \in 0..n : C[i] \in 0..1
    BY <1>3, <2>1, <2>2
  <2>6. C[n] = 0
    BY <1>3, <2>3, <2>4
  <2>7. C = [i \in 0..n |-> C[i]]
    BY <1>3
  <2>8. \A i \in 0..n : C[i] \in Nat
    BY <2>5
  <2> QED BY <2>4, <2>5, <2>6, <2>7, <2>8
<1>7. ASSUME NEW i \in 1..n PROVE u[i] \in Words /\ At(w, i) + W * C[i] = (2 * u[i] + 0) + C[i - 1]
  <2>1. i - 1 \in 0..n /\ i \in 0..n /\ i \in Nat /\ i + 1 \in Nat /\ (i - 1) + 1 = i
    OBVIOUS
  <2>2. PICK x \in Nat, y \in Nat : x = At(w, i) /\ y = At(w, i + 1) /\ x < W /\ y < W
    BY <1>5, <2>1
  <2>3. PICK a \in Nat, b \in 0..1, c \in 0..1 :
          /\ a = x \div 2 /\ b = x % 2 /\ c = y % 2 /\ x = 2 * a + b /\ a < H
          /\ (y * H) % W = c * H
    <3>1. \E a \in Nat, b \in 0..1, c \in 0..1 : MovesDown(x, y, H, W, a, b, c)
      BY <1>1, <2>2, HalvedWord
    <3> QED BY <3>1 DEF MovesDown
  <2>4. u[i] = a + c * H
    BY <1>2, <2>2, <2>3
  <2>5. C[i] = c /\ C[i - 1] = b
    BY <1>3, <2>1, <2>2, <2>3
  <2>6. W \in Nat /\ H \in Nat /\ W = 2 * H /\ x = 2 * a + b /\ a < H
    BY <1>1, <2>3
  <2>7. x + W * c = (2 * (a + c * H) + 0) + b /\ a + c * H \in Nat /\ a + c * H < W
    <3>1. CASE c = 0
      BY <2>6, <3>1
    <3>2. CASE c = 1
      BY <2>6, <3>2
    <3> QED BY <3>1, <3>2
  <2>8. a + c * H \in Words
    BY <1>1, <2>7, WordFacts
  <2> QED BY <2>2, <2>4, <2>5, <2>7, <2>8
<1>8. u \in Seq(Words) /\ Len(u) = n
  <2>1. u \in [1..n -> Words]
    BY <1>2, <1>7
  <2> QED BY <2>1, WordsAreSeq
<1>9. PICK e \in Seq(Words) : e = <<>> /\ Len(e) = 0
  <2>1. <<>> \in Seq(Words) /\ Len(<<>>) = 0
    OBVIOUS
  <2> QED BY <2>1
<1>10. ASSUME NEW i \in 1..n PROVE Sums(w, 2, u, e, C, i)
  <2>1. At(u, i) = u[i] /\ At(e, i) = 0
    BY <1>8, <1>9 DEF At
  <2> QED BY <1>1, <1>7, <2>1 DEF Sums
<1>11. Totals(w, 2, u, e, C[0])
  BY <1>6, <1>8, <1>9, <1>10, WalkSums
<1>12. ValueOf(e) = 0 /\ ValueOf(u) \in Nat
  BY <1>8, <1>9, NoWords, AboveAll
<1>13. ValueOf(w) = 2 * ValueOf(u) + C[0]
  BY <1>11, <1>12 DEF Totals
<1> QED BY <1>4, <1>6, <1>8, <1>13, TruncateCuts

LEMMA SameQuotient ==
  ASSUME NEW n \in Nat, NEW q \in Nat, NEW r \in Nat, r < n, NEW p \in Nat, NEW s \in Nat, s < n,
         n * q + r = n * p + s
  PROVE  q = p /\ r = s
<1>1. ASSUME NEW a \in Nat, NEW b \in Nat, NEW x \in Nat, NEW y \in Nat, x < n,
             n * a + x = n * b + y
      PROVE  ~(a < b)
  <2> SUFFICES ASSUME a < b PROVE FALSE
    BY <1>1
  <2>1. n * a + n <= n * b
    BY TimesLess
  <2>2. PICK s1 \in Nat, s2 \in Nat : s1 = n * a /\ s2 = n * b
    OBVIOUS
  <2> QED BY <1>1, <2>1, <2>2
<1>2. ~(q < p) /\ ~(p < q)
  BY <1>1
<1>3. q = p
  BY <1>2
<1>4. PICK s1 \in Nat : s1 = n * q /\ s1 + r = s1 + s
  BY <1>3
<1> QED BY <1>3, <1>4

\* A multiple of the next bit has this bit free in its word.
Multiple(v, R, x, W, z, k, P) == v + R * (x + W * z) = k * (2 * (R * P))
LEMMA BitIsFree ==
  ASSUME NEW P \in Nat, P >= 1, NEW Q \in Nat, NEW W \in Nat, W = P * (2 * Q), NEW R \in Nat,
         NEW k \in Nat, NEW v \in Nat, v < R, NEW x \in Nat, x < W, NEW z \in Nat,
         Multiple(v, R, x, W, z, k, P)
  PROVE  x + P < W
<1>1. PICK N \in Nat : N = 2 * P /\ N >= P /\ N >= 1 /\ W = N * Q
  <2>1. P * (2 * Q) = (2 * P) * Q
    OBVIOUS
  <2> QED BY <2>1
<1>2. PICK y \in Nat : y = x + W * z
  <2>1. W * z \in Nat
    OBVIOUS
  <2> QED BY <2>1
<1>3. k * (2 * (R * P)) = R * (N * k)
  <2>1. k * (2 * (R * P)) = R * ((2 * P) * k)
    <3>1. PICK p \in Nat : p = R * P
      OBVIOUS
    <3>2. k * (2 * p) = 2 * (p * k)
      OBVIOUS
    <3>3. (R * P) * k = R * (P * k)
      OBVIOUS
    <3>4. PICK c \in Nat : c = P * k
      OBVIOUS
    <3>5. 2 * (R * c) = R * (2 * c)
      OBVIOUS
    <3>6. 2 * (P * k) = (2 * P) * k
      OBVIOUS
    <3> QED BY <3>1, <3>2, <3>3, <3>4, <3>5, <3>6
  <2> QED BY <2>1, <1>1
<1>4. PICK m \in Nat : m = N * k
  OBVIOUS
<1>5. R * y + v = R * m + 0
  <2>1. PICK a \in Nat, b \in Nat : a = R * y /\ b = R * m
    OBVIOUS
  <2> QED BY <1>2, <1>3, <1>4, <2>1 DEF Multiple
<1>6. y = m
  BY <1>5, SameQuotient
<1>7. x + N * (Q * z) = N * k
  <2>1. (N * Q) * z = N * (Q * z)
    OBVIOUS
  <2> QED BY <1>1, <1>2, <1>4, <1>6, <2>1
<1>8. PICK c \in Nat : c = Q * z
  OBVIOUS
<1>9. c <= k
  <2> SUFFICES ASSUME k < c PROVE FALSE
    OBVIOUS
  <2>1. N * k + N <= N * c
    BY <1>1, TimesLess
  <2>2. PICK a \in Nat, b \in Nat : a = N * k /\ b = N * c
    OBVIOUS
  <2> QED BY <1>1, <1>7, <1>8, <2>1, <2>2
<1>10. PICK j \in Nat : k = c + j
  <2>1. k - c \in Nat /\ k = c + (k - c)
    BY <1>9
  <2> QED BY <2>1
<1>11. x = N * j
  <2>1. N * (c + j) = N * c + N * j
    OBVIOUS
  <2>2. PICK a \in Nat, b \in Nat : a = N * c /\ b = N * j
    OBVIOUS
  <2> QED BY <1>7, <1>8, <1>10, <2>1, <2>2
<1>12. j < Q
  <2> SUFFICES ASSUME Q <= j PROVE FALSE
    OBVIOUS
  <2>1. PICK i \in Nat : j = Q + i
    <3>1. j - Q \in Nat /\ j = Q + (j - Q)
      OBVIOUS
    <3> QED BY <3>1
  <2>2. N * (Q + i) = N * Q + N * i
    OBVIOUS
  <2>3. PICK a \in Nat, b \in Nat : a = N * Q /\ b = N * i
    OBVIOUS
  <2> QED BY <1>1, <1>11, <2>1, <2>2, <2>3
<1>13. N * j + N <= N * Q
  BY <1>12, TimesLess, <1>1
<1> QED BY <1>1, <1>11, <1>13

\* A bit that is set, in a multiple of the next bit, counts what it stands for.
NoneBelow(x, bit) == \E k \in Nat : x = k * Two[bit]
LEMMA SetBitIsRight ==
  ASSUME NEW w, Normal(w), NEW bit \in Nat, NoneBelow(ValueOf(w), bit + 1),
         NEW u, u = SetBit(w, bit)
  PROVE  Normal(u) /\ ValueOf(u) = ValueOf(w) + Two[bit]
<1> PICK n \in Nat : n = Len(w)
  BY DEF Normal
<1> PICK k \in Nat : ValueOf(w) = k * Two[bit + 1]
  BY DEF NoneBelow
<1>1. w \in Seq(Words) /\ ValueOf(w) \in Nat
  BY AboveAll DEF Normal
<1>2. PICK at \in Nat, bits \in Nat : Place(bit, at, bits)
  BY Places
<1>3. PICK R \in Nat : R = Two[at * Bits] /\ Unit(at, R)
  BY UnitIsPower
<1>4. PICK P \in Nat, Q \in Nat, W \in Nat : P = Two[bits] /\ P >= 1 /\ W = Word /\ W = P * (2 * Q)
  <2>1. PICK j \in Nat : j = (Bits - bits) - 1 /\ Bits - bits = j + 1
    <3>1. bits < Bits /\ Bits \in Nat
      BY <1>2, WidthAssumption DEF Place
    <3>2. (Bits - bits) - 1 \in Nat /\ Bits - bits = ((Bits - bits) - 1) + 1
      BY <3>1
    <3> QED BY <3>2
  <2>2. Two[j + 1] = 2 * Two[j] /\ Two[j] \in Nat /\ Two[bits] \in Nat /\ Two[bits] >= 1
    BY TwoUnfolds
  <2>3. Word = Two[bits] * (2 * Two[j])
    BY <1>2, <2>1, <2>2 DEF Place
  <2> QED BY <2>2, <2>3, WordFacts
<1>5. Two[bit] = R * P /\ Two[bit + 1] = 2 * (R * P)
  BY <1>2, <1>3, <1>4, TwoUnfolds DEF Place
<1>6. PICK x \in Nat, z \in Nat : x = At(w, at + 1) /\ x < W /\ Above(w, at + 1) = x + W * z
  <2>1. at + 1 \in Nat /\ at + 1 # 0 /\ (at + 1) + 1 \in Nat /\ (at + 1) + 1 # 0
    OBVIOUS
  <2>2. At(w, at + 1) \in Nat /\ At(w, at + 1) < Word /\ Above(w, (at + 1) + 1) \in Nat
    BY <1>1, <2>1, AtIsWord, AboveIsNat, WordFacts
  <2>3. Above(w, at + 1) = At(w, at + 1) + Word * Above(w, (at + 1) + 1)
    BY <1>1, <2>1, AboveSplits
  <2> QED BY <1>4, <2>2, <2>3
<1>7. x + P < W
  <2>1. PICK l \in Seq(Words) : l = [i \in 1..at |-> At(w, i)] /\ Len(l) = at
    <3>1. [i \in 1..at |-> At(w, i)] \in [1..at -> Words]
      <4>1. \A i \in 1..at : At(w, i) \in Words
        BY <1>1, AtIsWord
      <4> QED BY <4>1
    <3> QED BY <3>1, WordsAreSeq
  <2>2. LowOf(l, w, at)
    BY <2>1 DEF LowOf, At
  <2>3. PICK v \in Nat : v = ValueOf(l) /\ v < R
    BY <1>3, <2>1, AboveAll, ValueIsBelow
  <2>4. ValueOf(w) = v + R * (x + W * z)
    BY <1>1, <1>3, <1>6, <2>2, <2>3 DEF Unit
  <2>5. Multiple(v, R, x, W, z, k, P)
    BY <1>5, <2>4 DEF Multiple
  <2> QED BY <1>4, <1>6, <2>3, <2>5, BitIsFree
<1>8. PICK m \in Nat : m = Longer(n, at + 1) /\ m >= n /\ m >= at + 1 /\ m >= 1
                       /\ (m = n \/ m = at + 1)
  BY DEF Longer
<1>9. u = [i \in 1..m |-> At(w, i) + (IF i = at + 1 THEN P ELSE 0)]
  BY <1>2, <1>4, <1>8 DEF SetBit, Place
<1>10. ASSUME NEW i \in 1..m
       PROVE  /\ u[i] = At(w, i) + (IF i = at + 1 THEN P ELSE 0) /\ u[i] \in Words
              /\ At(w, i) \in Nat
  <2>1. At(w, i) \in Nat /\ At(w, i) \in Words
    <3>1. i \in Nat
      OBVIOUS
    <3> QED BY <1>1, <3>1, AtIsWord
  <2>2. CASE i = at + 1
    <3>1. x + P \in Words
      BY <1>4, <1>7, WordFacts
    <3> QED BY <1>6, <1>9, <2>1, <2>2, <3>1
  <2>3. CASE i # at + 1
    BY <1>9, <2>1, <2>3
  <2> QED BY <2>2, <2>3
<1>11. u \in Seq(Words) /\ Len(u) = m
  <2>1. u \in [1..m -> Words]
    BY <1>9, <1>10
  <2> QED BY <2>1, WordsAreSeq
<1>12. Normal(u)
  <2>1. m \in 1..m
    BY <1>8
  <2>2. CASE m = at + 1
    <3>1. u[m] = At(w, m) + P /\ At(w, m) \in Nat
      BY <1>10, <2>1, <2>2
    <3>2. u[m] # 0
      BY <1>4, <3>1
    <3> QED BY <1>11, <3>2 DEF Normal
  <2>3. CASE m # at + 1
    <3>1. m = n /\ n \in 1..Len(w) /\ w # <<>>
      BY <1>8, <2>3, <2>1
    <3>2. At(w, m) = w[n] /\ w[n] # 0
      BY <3>1 DEF At, Normal
    <3>3. u[m] # 0
      BY <1>10, <2>1, <2>3, <3>2
    <3> QED BY <1>11, <3>3 DEF Normal
  <2> QED BY <2>2, <2>3
<1>13. PICK p \in Seq(Words) : p = <<P>> /\ Len(p) = 1 /\ p[1] = P /\ p # <<>>
  <2>1. P \in Words
    BY <1>4, <1>6, <1>7, WordFacts
  <2>2. <<P>> \in Seq(Words) /\ Len(<<P>>) = 1 /\ <<P>>[1] = P /\ <<P>> # <<>>
    BY <2>1
  <2> QED BY <2>2
<1>14. ValueOf(p) = P
  <2>1. Above(p, 2) = 0
    <3>1. 2 \in Nat /\ 2 > Len(p)
      BY <1>13
    <3> QED BY <3>1, AboveEnds
  <2>2. Above(p, 1) = At(p, 1) + Word * Above(p, 2)
    <3>1. 1 \in Nat /\ 1 # 0 /\ 1 + 1 = 2
      OBVIOUS
    <3> QED BY <3>1, AboveSplits
  <2>3. At(p, 1) = P
    BY <1>13 DEF At
  <2>4. Word * 0 = 0
    BY WordFacts
  <2>5. Above(p, 1) = P
    BY <2>1, <2>2, <2>3, <2>4
  <2> QED BY <2>5, AboveAll
<1>15. PICK s \in Seq(Words) : s = Shifted(p, at) /\ ValueOf(s) = R * P /\ MovedUp(s, p, at)
  BY <1>3, <1>13, <1>14, ShiftedIsRight, ShiftedWords
<1>16. ASSUME NEW i \in Nat \ {0} PROVE At(u, i) = At(w, i) + At(s, i)
  <2>1. At(s, i) = IF i <= at THEN 0 ELSE At(p, i - at)
    BY <1>15 DEF MovedUp
  <2>2. At(s, i) = IF i = at + 1 THEN P ELSE 0
    <3>1. CASE i <= at
      BY <2>1, <3>1
    <3>2. CASE i = at + 1
      <4>1. i - at = 1 /\ ~(i <= at)
        BY <3>2
      <4> QED BY <1>13, <2>1, <3>2, <4>1 DEF At
    <3>3. CASE i > at + 1
      <4>1. i - at \notin 1..1 /\ ~(i <= at) /\ i # at + 1
        BY <3>3
      <4> QED BY <1>13, <2>1, <4>1 DEF At
    <3> QED BY <3>1, <3>2, <3>3
  <2>3. CASE i \in 1..m
    <3>1. At(u, i) = u[i]
      BY <1>11, <2>3 DEF At
    <3> QED BY <1>10, <2>2, <2>3, <3>1
  <2>4. CASE i \notin 1..m
    <3>1. i > m /\ i # at + 1 /\ i \notin 1..n
      BY <1>8, <2>4
    <3> QED BY <1>11, <2>2, <2>4, <3>1 DEF At
  <2> QED BY <2>3, <2>4
<1>17. PICK h \in Nat : h = Len(u) + Len(w) + Len(s)
  <2>1. Len(u) + Len(w) + Len(s) \in Nat
    BY <1>1, <1>11
  <2> QED BY <2>1
<1>18. PICK C : C = [i \in 0..h |-> 0]
  OBVIOUS
<1>19. ASSUME NEW i \in 1..h PROVE Sums(u, 1, w, s, C, i)
  <2>1. i \in Nat \ {0} /\ i \in 0..h /\ i - 1 \in 0..h
    OBVIOUS
  <2>2. C[i] = 0 /\ C[i - 1] = 0 /\ Word * 0 = 0
    BY <1>18, <2>1, WordFacts
  <2>3. At(w, i) \in Nat /\ At(s, i) \in Nat /\ At(u, i) = At(w, i) + At(s, i)
    BY <1>1, <1>16, <2>1, AtIsWord
  <2> QED BY <2>2, <2>3 DEF Sums
<1>20. Totals(u, 1, w, s, C[0])
  <2>1. h \in 0..h /\ 0 \in 0..h /\ C \in [0..h -> Nat] /\ C[h] = 0 /\ 1 \in Nat
    BY <1>18
  <2>2. Len(u) <= h /\ Len(w) <= h /\ Len(s) <= h
    BY <1>1, <1>11, <1>17
  <2> QED BY <1>1, <1>11, <1>19, <2>1, <2>2, WalkSums
<1>21. C[0] = 0
  BY <1>18
<1>22. R * P \in Nat
  OBVIOUS
<1> QED BY <1>1, <1>5, <1>12, <1>15, <1>20, <1>21, <1>22 DEF Totals

-----------------------------------------------------------------------------
(* What a function that is defined upward keeps *)

LEMMA UpwardKeeps ==
  ASSUME NEW n \in Nat, NEW K, NEW F, <<0, F[0]>> \in K,
         \A i \in 1..n : <<i - 1, F[i - 1]>> \in K => <<i, F[i]>> \in K
  PROVE  \A i \in 0..n : <<i, F[i]>> \in K
<1> DEFINE T == {i \in Nat : i <= n => <<i, F[i]>> \in K}
<1>1. 0 \in T
  OBVIOUS
<1>2. ASSUME NEW i \in Nat, i \in T PROVE i + 1 \in T
  <2> SUFFICES ASSUME i + 1 <= n PROVE <<i + 1, F[i + 1]>> \in K
    OBVIOUS
  <2>1. <<i, F[i]>> \in K /\ i + 1 \in 1..n /\ (i + 1) - 1 = i
    BY <1>2
  <2> QED BY <2>1
<1>3. \A i \in Nat : i \in T
  <2> HIDE DEF T
  <2> QED BY <1>1, <1>2, Induction
<1> QED BY <1>3

\* There is one whose steps need what it keeps.
KeepsOn(n, next, S, K) ==
  \A i \in 1..n, s \in S : <<i - 1, s>> \in K => <<i, next[<<i, s>>]>> \in K

LEMMA UpwardKept ==
  ASSUME NEW n \in Nat, NEW S, NEW base, NEW next, NEW K, K \subseteq (0..n) \X S,
         <<0, base>> \in K, KeepsOn(n, next, S, K)
  PROVE  \E f \in [0..n -> S] : Follows(n, f, base, next)
<1>1. base \in S
  OBVIOUS
<1>2. PICK some : some = [p \in (1..n) \X S |-> IF next[p] \in S THEN next[p] ELSE base]
  OBVIOUS
<1>3. some \in [(1..n) \X S -> S]
  BY <1>1, <1>2
<1>4. PICK f \in [0..n -> S] : Follows(n, f, base, some)
  BY <1>1, <1>3, UpwardExists
<1>5. \A i \in 0..n : f[i] \in S
  OBVIOUS
<1>6. ASSUME NEW i \in 1..n, <<i - 1, f[i - 1]>> \in K
      PROVE  f[i] = next[<<i, f[i - 1]>>] /\ <<i, f[i]>> \in K
  <2>1. i - 1 \in 0..n
    OBVIOUS
  <2>2. PICK s \in S : s = f[i - 1]
    BY <1>5, <2>1
  <2>3. <<i, next[<<i, s>>]>> \in K
    BY <1>6, <2>2 DEF KeepsOn
  <2>4. next[<<i, s>>] \in S
    BY <2>3
  <2>5. some[<<i, s>>] = next[<<i, s>>]
    BY <1>2, <2>4
  <2>6. f[i] = some[<<i, f[i - 1]>>]
    BY <1>4 DEF Follows
  <2> QED BY <2>2, <2>3, <2>5, <2>6
<1>7. f[0] = base
  BY <1>4 DEF Follows
<1>8. \A i \in 0..n : <<i, f[i]>> \in K
  BY <1>6, <1>7, UpwardKeeps
<1>9. ASSUME NEW i \in 1..n PROVE f[i] = next[<<i, f[i - 1]>>]
  <2>1. i - 1 \in 0..n
    OBVIOUS
  <2> QED BY <1>6, <1>8, <2>1
<1> QED BY <1>7, <1>9 DEF Follows

-----------------------------------------------------------------------------
(* The long division *)

\* After i bits of the quotient of n by d: what is left of n is less than the
\* divisor where it was moved to for the bit before.
DividingStates == [q : Seq(Words), m : Seq(Words), d : Seq(Words)]
Dividing(n, d, shift, i, r) ==
  /\ Normal(r.q) /\ Normal(r.m) /\ Normal(r.d)
  /\ i <= shift => ValueOf(r.d) = ValueOf(d) * Two[shift - i]
  /\ NoneBelow(ValueOf(r.q), shift + 1 - i)
  /\ ValueOf(n) = ValueOf(r.q) * ValueOf(d) + ValueOf(r.m)
  /\ ValueOf(r.m) < ValueOf(d) * Two[shift + 1 - i]

LEMMA DivBitIsRight ==
  ASSUME NEW n, Normal(n), NEW d, Normal(d), NEW shift \in Nat, NEW i \in 1..(shift + 1),
         NEW r \in DividingStates, Dividing(n, d, shift, i - 1, r),
         NEW t, t = DivBit(r, shift + 1 - i)
  PROVE  t \in DividingStates /\ Dividing(n, d, shift, i, t)
<1>1. PICK s \in Nat : /\ s = shift + 1 - i /\ shift - (i - 1) = s /\ shift + 1 - (i - 1) = s + 1
                       /\ i - 1 <= shift
  <2>1. shift + 1 - i \in Nat /\ shift - (i - 1) = shift + 1 - i
        /\ shift + 1 - (i - 1) = (shift + 1 - i) + 1 /\ i - 1 <= shift
    OBVIOUS
  <2> QED BY <2>1
<1>2. PICK p \in Nat : p = Two[s] /\ Two[s + 1] = 2 * p
  BY TwoUnfolds
<1>3. /\ Normal(r.q) /\ Normal(r.m) /\ Normal(r.d)
      /\ r.q \in Seq(Words) /\ r.m \in Seq(Words) /\ r.d \in Seq(Words)
  BY DEF Dividing, DividingStates
<1>4. PICK D \in Nat, N \in Nat, q \in Nat, m \in Nat, e \in Nat :
        /\ D = ValueOf(d) /\ N = ValueOf(n) /\ q = ValueOf(r.q) /\ m = ValueOf(r.m)
        /\ e = ValueOf(r.d)
  BY <1>3, AboveAll DEF Normal
<1>5. PICK k \in Nat : q = k * Two[s + 1] /\ NoneBelow(q, s + 1)
  BY <1>1, <1>4 DEF Dividing, NoneBelow
<1>6. e = D * p /\ N = q * D + m /\ m < D * (2 * p)
  BY <1>1, <1>2, <1>4 DEF Dividing
<1>7. t = [q |-> IF CmpAbs(r.m, r.d) >= 0 THEN SetBit(r.q, s) ELSE r.q,
           m |-> IF CmpAbs(r.m, r.d) >= 0 THEN RawSub(r.m, r.d) ELSE r.m,
           d |-> ShiftRight(r.d, 1)]
  BY <1>1 DEF DivBit
<1>8. CmpAbs(r.m, r.d) >= 0 <=> e <= m
  <2>1. CmpAbs(r.m, r.d) = IF m = e THEN 0 ELSE IF m < e THEN -1 ELSE 1
    BY <1>3, <1>4, CmpAbsIsRight
  <2> QED BY <2>1
<1>9. /\ Normal(t.d) /\ (i <= shift => ValueOf(t.d) = D * Two[shift - i])
  <2>1. Normal(ShiftRight(r.d, 1)) /\ \E b \in 0..1 : e = 2 * ValueOf(ShiftRight(r.d, 1)) + b
    BY <1>3, <1>4, ShiftRightIsRight
  <2>2. ASSUME i <= shift PROVE ValueOf(t.d) = D * Two[shift - i]
    <3>1. PICK h \in Nat : h = shift - i /\ h + 1 = s
      <4>1. shift - i \in Nat /\ (shift - i) + 1 = s
        BY <1>1, <2>2
      <4> QED BY <4>1
    <3>2. PICK c \in Nat : c = Two[h] /\ p = 2 * c
      BY <1>2, <3>1, TwoUnfolds
    <3>3. PICK x \in Nat, b \in 0..1 : x = ValueOf(ShiftRight(r.d, 1)) /\ e = 2 * x + b
      BY <2>1, AboveAll DEF Normal
    <3>4. PICK y \in Nat : y = D * c /\ D * p = 2 * y
      <4>1. D * (2 * c) = 2 * (D * c)
        OBVIOUS
      <4> QED BY <3>2, <4>1
    <3>5. x = y
      BY <1>6, <3>3, <3>4
    <3> QED BY <1>7, <3>1, <3>2, <3>3, <3>4, <3>5
  <2> QED BY <1>7, <2>1, <2>2
<1>10. /\ Normal(t.q) /\ Normal(t.m)
       /\ NoneBelow(ValueOf(t.q), s)
       /\ N = ValueOf(t.q) * D + ValueOf(t.m)
       /\ ValueOf(t.m) < D * Two[s]
  <2>1. PICK y \in Nat, z \in Nat : y = D * p /\ z = q * D /\ D * (2 * p) = 2 * y
    <3>1. D * (2 * p) = 2 * (D * p)
      OBVIOUS
    <3> QED BY <3>1
  <2>2. CASE e <= m
    <3>1. t.q = SetBit(r.q, s) /\ t.m = RawSub(r.m, r.d)
      BY <1>7, <1>8, <2>2
    <3>2. Normal(t.q) /\ ValueOf(t.q) = q + p
      <4>1. NoneBelow(ValueOf(r.q), s + 1)
        BY <1>4, <1>5
      <4>2. Normal(t.q) /\ ValueOf(t.q) = ValueOf(r.q) + Two[s]
        BY <1>3, <3>1, <4>1, SetBitIsRight
      <4> QED BY <1>2, <1>4, <4>2
    <3>3. Normal(t.m) /\ ValueOf(t.m) = m - e
      BY <1>3, <1>4, <2>2, <3>1, RawSubIsRight
    <3>4. q + p = (2 * k + 1) * p
      <4>1. q = k * (2 * p)
        BY <1>2, <1>5
      <4>2. (2 * k + 1) * p = k * (2 * p) + p
        OBVIOUS
      <4> QED BY <4>1, <4>2
    <3>5. (q + p) * D = z + y
      <4>1. (q + p) * D = q * D + D * p
        OBVIOUS
      <4> QED BY <2>1, <4>1
    <3>6. N = (z + y) + (m - e) /\ m - e < y
      BY <1>6, <2>1, <2>2
    <3>7. 2 * k + 1 \in Nat
      OBVIOUS
    <3> QED BY <1>2, <2>1, <3>2, <3>3, <3>4, <3>5, <3>6, <3>7 DEF NoneBelow
  <2>3. CASE ~(e <= m)
    <3>1. t.q = r.q /\ t.m = r.m
      BY <1>7, <1>8, <2>3
    <3>2. q = (2 * k) * p
      <4>1. q = k * (2 * p)
        BY <1>2, <1>5
      <4>2. (2 * k) * p = k * (2 * p)
        OBVIOUS
      <4> QED BY <4>1, <4>2
    <3>3. m < y
      BY <1>6, <2>1, <2>3
    <3>4. 2 * k \in Nat
      OBVIOUS
    <3> QED BY <1>2, <1>3, <1>4, <1>6, <2>1, <3>1, <3>2, <3>3, <3>4 DEF NoneBelow
  <2> QED BY <2>2, <2>3
<1>11. t \in DividingStates
  BY <1>7, <1>9, <1>10 DEF DividingStates, Normal
<1> QED BY <1>1, <1>4, <1>9, <1>10, <1>11 DEF Dividing

LEMMA DivBitsUnfold ==
  ASSUME NEW n, Normal(n), NEW d, Normal(d), d # <<>>, NEW shift \in Nat,
         ValueOf(n) < ValueOf(d) * Two[shift + 1]
  PROVE  DivBits(n, d, shift)[shift + 1] \in DividingStates
         /\ Dividing(n, d, shift, shift + 1, DivBits(n, d, shift)[shift + 1])
<1> DEFINE N == shift + 1
           base == [q |-> <<>>, m |-> n, d |-> ShiftLeft(d, shift)]
<1>1. N \in Nat /\ N = shift + 1
  OBVIOUS
<1>2. base = [q |-> <<>>, m |-> n, d |-> ShiftLeft(d, shift)]
  OBVIOUS
<1> HIDE DEF N, base
<1>3. PICK K : K = {p \in (0..N) \X DividingStates : Dividing(n, d, shift, p[1], p[2])}
  OBVIOUS
<1>4. \A i \in 0..N, r \in DividingStates : <<i, r>> \in K <=> Dividing(n, d, shift, i, r)
  BY <1>3
<1>5. base \in DividingStates /\ Dividing(n, d, shift, 0, base)
  <2>1. PICK D \in Nat, x \in Nat : D = ValueOf(d) /\ x = ValueOf(n)
    BY AboveAll DEF Normal
  <2>2. PICK p \in Nat, o \in Nat : p = Two[shift] /\ o = Two[shift + 1]
    <3>1. shift + 1 \in Nat
      OBVIOUS
    <3> QED BY <3>1, TwoUnfolds
  <2>3. Normal(base.d) /\ ValueOf(base.d) = D * p
    <3>1. ValueOf(ShiftLeft(d, shift)) = p * D /\ Normal(ShiftLeft(d, shift))
      BY <2>1, <2>2, ShiftLeftIsRight DEF Normal
    <3>2. p * D = D * p
      OBVIOUS
    <3> QED BY <1>2, <3>1, <3>2
  <2>4. Normal(base.q) /\ ValueOf(base.q) = 0
    <3>1. <<>> \in Seq(Words) /\ Len(<<>>) = 0
      OBVIOUS
    <3>2. ValueOf(<<>>) = 0
      BY <3>1, NoWords
    <3> QED BY <1>2, <3>1, <3>2 DEF Normal
  <2>5. base.m = n /\ shift - 0 = shift /\ shift + 1 - 0 = shift + 1 /\ 0 <= shift
    BY <1>2
  <2>6. 0 * o = 0 /\ 0 * D = 0 /\ 0 + x = x
    OBVIOUS
  <2>7. NoneBelow(ValueOf(base.q), shift + 1)
    BY <2>2, <2>4, <2>6 DEF NoneBelow
  <2>8. Dividing(n, d, shift, 0, base)
    BY <2>1, <2>2, <2>3, <2>4, <2>5, <2>6, <2>7 DEF Dividing
  <2>9. base \in DividingStates
    BY <1>2, <2>3, <2>4, <2>5 DEF DividingStates, Normal
  <2> QED BY <2>8, <2>9
<1>6. ASSUME NEW i \in 1..N, NEW r \in DividingStates, <<i - 1, r>> \in K
      PROVE  <<i, DivBit(r, shift + 1 - i)>> \in K
  <2>1. i - 1 \in 0..N /\ i \in 0..N /\ i \in 1..(shift + 1)
    BY <1>1
  <2>2. Dividing(n, d, shift, i - 1, r)
    BY <1>4, <1>6, <2>1
  <2>3. /\ DivBit(r, shift + 1 - i) \in DividingStates
        /\ Dividing(n, d, shift, i, DivBit(r, shift + 1 - i))
    BY <2>1, <2>2, DivBitIsRight
  <2> QED BY <1>4, <2>1, <2>3
<1>7. PICK next : next = [p \in (1..N) \X DividingStates |-> DivBit(p[2], shift + 1 - p[1])]
  OBVIOUS
<1>8. \A i \in 1..N, r \in DividingStates : next[<<i, r>>] = DivBit(r, shift + 1 - i)
  BY <1>7
<1>9. PICK f \in [0..N -> DividingStates] : Follows(N, f, base, next)
  <2>1. KeepsOn(N, next, DividingStates, K)
    BY <1>6, <1>8 DEF KeepsOn
  <2>2. <<0, base>> \in K
    BY <1>1, <1>4, <1>5
  <2>3. K \subseteq (0..N) \X DividingStates
    BY <1>3
  <2> QED BY <1>1, <2>1, <2>2, <2>3, UpwardKept
<1>10. f = [i \in 0..N |-> IF i = 0 THEN base ELSE DivBit(f[i - 1], shift + 1 - i)]
  <2>1. f = [i \in 0..N |-> f[i]]
    OBVIOUS
  <2>2. ASSUME NEW i \in 1..N PROVE f[i] = DivBit(f[i - 1], shift + 1 - i)
    <3>1. i - 1 \in 0..N
      BY <1>1
    <3>2. f[i - 1] \in DividingStates
      BY <3>1
    <3> QED BY <1>8, <1>9, <3>2 DEF Follows
  <2>3. f[0] = base
    BY <1>9 DEF Follows
  <2>4. \A i \in 0..N : i = 0 \/ i \in 1..N
    BY <1>1
  <2>5. \A i \in 0..N : f[i] = IF i = 0 THEN base ELSE DivBit(f[i - 1], shift + 1 - i)
    BY <2>2, <2>3, <2>4
  <2> QED BY <2>1, <2>5
<1>11. PICK R : R = DivBits(n, d, shift)
  OBVIOUS
<1>12. R = [i \in 0..N |-> IF i = 0 THEN base ELSE DivBit(R[i - 1], shift + 1 - i)]
  BY <1>10, <1>11, Zenon DEF DivBits, N, base
<1>13. \A i \in 0..N : <<i, R[i]>> \in K
  <2>1. R[0] = base /\ \A i \in 1..N : R[i] = DivBit(R[i - 1], shift + 1 - i)
    <3>1. 0 \in 0..N /\ \A i \in 1..N : i \in 0..N /\ i # 0
      BY <1>1
    <3> QED BY <1>12, <3>1
  <2>2. <<0, R[0]>> \in K
    BY <1>1, <1>4, <1>5, <2>1
  <2>3. ASSUME NEW i \in 1..N, <<i - 1, R[i - 1]>> \in K PROVE <<i, R[i]>> \in K
    <3>1. PICK r \in DividingStates : r = R[i - 1]
      BY <1>3, <2>3
    <3> QED BY <1>6, <2>1, <2>3, <3>1
  <2> QED BY <1>1, <2>2, <2>3, UpwardKeeps
<1>14. N \in 0..N
  BY <1>1
<1>15. <<N, R[N]>> \in K
  BY <1>13, <1>14
<1>16. R[N] \in DividingStates /\ Dividing(n, d, shift, N, R[N])
  BY <1>3, <1>15
<1> QED BY <1>1, <1>11, <1>16

Splits(x, y, q, m) == x = q * y + m /\ m < y

LEMMA DivLongIsRight ==
  ASSUME NEW n, Normal(n), NEW d, Normal(d), d # <<>>, NEW r, r = DivLong(n, d)
  PROVE  /\ Normal(r.q) /\ Normal(r.m)
         /\ Splits(ValueOf(n), ValueOf(d), ValueOf(r.q), ValueOf(r.m))
<1>1. PICK N \in Nat, D \in Nat : N = ValueOf(n) /\ D = ValueOf(d)
  BY AboveAll DEF Normal
<1>2. CmpAbs(n, d) = IF N = D THEN 0 ELSE IF N < D THEN -1 ELSE 1
  BY <1>1, CmpAbsIsRight
<1>3. CASE N < D
  <2>1. r.q = <<>> /\ r.m = n
    BY <1>2, <1>3 DEF DivLong
  <2>2. <<>> \in Seq(Words) /\ Len(<<>>) = 0
    OBVIOUS
  <2>3. Normal(<<>>) /\ ValueOf(<<>>) = 0
    BY <2>2, NoWords DEF Normal
  <2>4. N = 0 * D + N
    OBVIOUS
  <2> QED BY <1>1, <1>3, <2>1, <2>3, <2>4 DEF Splits
<1>4. CASE ~(N < D)
  <2>1. PICK b \in Nat : b = BitLength(d) /\ b >= 1 /\ D >= Two[b - 1] /\ D < Two[b]
    BY <1>1, BitLengthIsRight
  <2>2. b - 1 \in Nat /\ Two[b - 1] \in Nat /\ Two[b - 1] >= 1
    <3>1. b - 1 \in Nat
      BY <2>1
    <3> QED BY <3>1, TwoUnfolds
  <2>3. n # <<>>
    <3> SUFFICES ASSUME n = <<>> PROVE FALSE
      OBVIOUS
    <3>1. n \in Seq(Words) /\ Len(n) = 0
      BY DEF Normal
    <3>2. N = 0
      BY <1>1, <3>1, NoWords
    <3> QED BY <1>4, <2>1, <2>2, <3>2
  <2>4. PICK a \in Nat : a = BitLength(n) /\ a >= 1 /\ N < Two[a]
    BY <1>1, <2>3, BitLengthIsRight
  <2>5. b <= a
    <3> SUFFICES ASSUME a < b PROVE FALSE
      OBVIOUS
    <3>1. a <= b - 1
      OBVIOUS
    <3>2. Two[a] <= Two[b - 1] /\ Two[a] \in Nat
      BY <2>2, <3>1, TwosGrow, TwoUnfolds
    <3> QED BY <1>4, <2>1, <2>2, <2>4, <3>2
  <2>6. PICK shift \in Nat : shift = a - b /\ (b - 1) + (shift + 1) = a
    <3>1. a - b \in Nat /\ (b - 1) + ((a - b) + 1) = a
      BY <2>5
    <3> QED BY <3>1
  <2>7. N < D * Two[shift + 1]
    <3>1. PICK h \in Nat : h = shift + 1
      OBVIOUS
    <3>2. PICK l \in Nat, o \in Nat : l = Two[b - 1] /\ o = Two[h]
      BY <2>2, <3>1, TwoUnfolds
    <3>3. Two[a] = l * o
      BY <2>2, <2>6, <3>1, <3>2, TwosMultiply
    <3>4. l * o <= D * o
      <4>1. PICK c \in Nat : D = l + c
        <5>1. D - l \in Nat /\ D = l + (D - l)
          BY <2>1, <3>2
        <5> QED BY <5>1
      <4>2. (l + c) * o = l * o + c * o
        OBVIOUS
      <4>3. l * o \in Nat /\ c * o \in Nat
        OBVIOUS
      <4> QED BY <4>1, <4>2, <4>3
    <3>5. l * o \in Nat /\ D * o \in Nat
      OBVIOUS
    <3> QED BY <2>4, <3>1, <3>2, <3>3, <3>4, <3>5
  <2>8. r = DivBits(n, d, shift)[shift + 1]
    BY <1>2, <1>4, <2>1, <2>4, <2>6 DEF DivLong
  <2>9. Dividing(n, d, shift, shift + 1, r)
    BY <1>1, <2>7, <2>8, DivBitsUnfold
  <2>10. shift + 1 - (shift + 1) = 0 /\ Two[0] = 1
    BY TwoUnfolds
  <2>11. D * 1 = D
    OBVIOUS
  <2> QED BY <1>1, <2>9, <2>10, <2>11 DEF Dividing, Splits
<1> QED BY <1>3, <1>4

LEMMA OneWordIs ==
  ASSUME NEW w \in Seq(Words), Len(w) = 1
  PROVE  ValueOf(w) = w[1] /\ w[1] \in Words /\ w[1] \in Nat
<1>1. w[1] \in Words /\ At(w, 1) = w[1]
  BY DEF At
<1>2. Above(w, 2) = 0
  <2>1. 2 \in Nat /\ 2 > Len(w)
    OBVIOUS
  <2> QED BY <2>1, AboveEnds
<1>3. Above(w, 1) = At(w, 1) + Word * Above(w, 2)
  <2>1. 1 \in Nat /\ 1 # 0 /\ 1 + 1 = 2
    OBVIOUS
  <2> QED BY <2>1, AboveSplits
<1>4. Word * 0 = 0
  BY WordFacts
<1>5. w[1] \in Nat
  BY <1>1, WordFacts
<1>6. Above(w, 1) = w[1]
  <2>1. PICK x \in Nat : x = w[1]
    BY <1>5
  <2>2. Above(w, 1) = x + Word * 0
    BY <1>1, <1>2, <1>3, <2>1
  <2>3. Above(w, 1) = x + 0
    BY <1>4, <2>2
  <2> QED BY <2>1, <2>3
<1> QED BY <1>1, <1>5, <1>6, AboveAll

LEMMA WordAsWords ==
  ASSUME NEW x \in Words
  PROVE  Normal(Truncate(<<x>>)) /\ ValueOf(Truncate(<<x>>)) = x
<1>1. PICK w \in Seq(Words) : w = <<x>> /\ Len(w) = 1 /\ w[1] = x
  <2>1. <<x>> \in Seq(Words) /\ Len(<<x>>) = 1 /\ <<x>>[1] = x
    OBVIOUS
  <2> QED BY <2>1
<1> QED BY <1>1, OneWordIs, TruncateCuts

\* The three ways of dividing come to the same.
LEMMA WordsDivided ==
  ASSUME NEW a, Sound(a), NEW b, Sound(b), b.words # <<>>
  PROVE  \E q, m : /\ Normal(q) /\ Normal(m)
                   /\ DivMod(a, b) = [q |-> Signed(a.neg # b.neg, q), m |-> Signed(a.neg, m)]
                   /\ Splits(ValueOf(a.words), ValueOf(b.words), ValueOf(q), ValueOf(m))
<1>1. PICK u \in Seq(Words), v \in Seq(Words) :
        u = a.words /\ v = b.words /\ Normal(u) /\ Normal(v) /\ v # <<>>
  BY DEF Sound, Normal
<1>2. CASE Len(u) = 1 /\ Len(v) = 1
  <2>1. PICK x \in Nat, y \in Nat :
          /\ x = u[1] /\ y = v[1] /\ x \in Words /\ y \in Words /\ y >= 1
          /\ ValueOf(u) = x /\ ValueOf(v) = y
    <3>1. v[1] # 0
      BY <1>1, <1>2 DEF Normal
    <3> QED BY <1>2, <3>1, OneWordIs
  <2>2. PICK q \in Nat, m \in Nat : q = x \div y /\ m = x % y /\ m < y /\ x = y * q + m
    <3>1. x \div y \in Nat /\ x % y \in Nat /\ x % y < y /\ x = y * (x \div y) + (x % y)
      BY ONLY x \in Nat, y \in Nat, <2>1, DividedBy
    <3> QED BY <3>1
  <2>3. q <= x /\ m <= x /\ y * q = q * y
    <3>1. PICK c \in Nat : y = c + 1
      <4>1. y - 1 \in Nat /\ y = (y - 1) + 1
        BY <2>1
      <4> QED BY <4>1
    <3>2. (c + 1) * q = c * q + q /\ c * q \in Nat
      OBVIOUS
    <3>3. y * q = q * y
      OBVIOUS
    <3> QED BY <2>2, <3>1, <3>2, <3>3
  <2>4. q \in Words /\ m \in Words
    BY <2>1, <2>3, WordFacts
  <2>5. DivMod(a, b) = [q |-> Signed(a.neg # b.neg, Truncate(<<q>>)),
                        m |-> Signed(a.neg, Truncate(<<m>>))]
    BY <1>1, <1>2, <2>1, <2>2 DEF DivMod
  <2>6. Splits(x, y, q, m)
    BY <2>2, <2>3 DEF Splits
  <2> QED BY <1>1, <2>1, <2>4, <2>5, <2>6, WordAsWords
<1>3. CASE ~(Len(u) = 1 /\ Len(v) = 1) /\ Len(v) = 1 /\ v[1] < Half
  <2>1. PICK y \in Nat : y = v[1] /\ y >= 1 /\ y < Half /\ ValueOf(v) = y
    <3>1. v[1] # 0
      BY <1>1, <1>3 DEF Normal
    <3> QED BY <1>3, <3>1, OneWordIs
  <2>2. PICK h : h = DivModHalf(u, y)
    OBVIOUS
  <2>3. Normal(h.q) /\ h.m \in Nat /\ h.m < y /\ ValueOf(u) = y * ValueOf(h.q) + h.m
    BY <2>1, <2>2, DivModHalfIsRight
  <2>4. h.m \in Words
    <3>1. v[1] \in Words
      BY <1>3, OneWordIs
    <3> QED BY <2>1, <2>3, <3>1, WordFacts
  <2>5. DivMod(a, b) = [q |-> Signed(a.neg # b.neg, h.q), m |-> Signed(a.neg, Truncate(<<h.m>>))]
    BY <1>1, <1>3, <2>1, <2>2 DEF DivMod
  <2>6. Normal(Truncate(<<h.m>>)) /\ ValueOf(Truncate(<<h.m>>)) = h.m
    BY <2>4, WordAsWords
  <2>7. Splits(ValueOf(u), y, ValueOf(h.q), h.m)
    <3>1. PICK k \in Nat : k = ValueOf(h.q)
      BY <2>3, AboveAll DEF Normal
    <3>2. y * k = k * y
      OBVIOUS
    <3> QED BY <2>3, <3>1, <3>2 DEF Splits
  <2> QED BY <1>1, <2>1, <2>3, <2>5, <2>6, <2>7
<1>4. CASE ~(Len(u) = 1 /\ Len(v) = 1) /\ ~(Len(v) = 1 /\ v[1] < Half)
  <2>1. PICK r : r = DivLong(u, v)
    OBVIOUS
  <2>2. Normal(r.q) /\ Normal(r.m) /\ Splits(ValueOf(u), ValueOf(v), ValueOf(r.q), ValueOf(r.m))
    BY <1>1, <2>1, DivLongIsRight
  <2>3. DivMod(a, b) = [q |-> Signed(a.neg # b.neg, r.q), m |-> Signed(a.neg, r.m)]
    BY <1>1, <1>4, <2>1 DEF DivMod
  <2> QED BY <1>1, <2>2, <2>3
<1> QED BY <1>2, <1>3, <1>4

\* bigint_div_mod divides, and leaves a remainder that is less than the divisor
\* and has the sign of what is divided.
THEOREM DividingIsRight ==
  ASSUME NEW a, NEW b, Sound(a), Sound(b), b.words # <<>>,
         NEW q, q = DivMod(a, b).q, NEW m, m = DivMod(a, b).m
  PROVE  /\ Sound(q) /\ Sound(m)
         /\ Value(a) = Value(q) * Value(b) + Value(m)
         /\ ValueOf(m.words) < ValueOf(b.words)
         /\ m.neg = a.neg
<1>1. PICK u, v : /\ Normal(u) /\ Normal(v) /\ q = Signed(a.neg # b.neg, u) /\ m = Signed(a.neg, v)
                  /\ Splits(ValueOf(a.words), ValueOf(b.words), ValueOf(u), ValueOf(v))
  BY WordsDivided
<1>2. PICK an \in BOOLEAN, bn \in BOOLEAN : an = a.neg /\ bn = b.neg
  BY SoundFacts
<1>3. PICK qn \in BOOLEAN : qn = (an # bn)
  BY <1>2
<1>4. PICK x \in Nat, y \in Nat, s \in Nat, t \in Nat :
        x = ValueOf(a.words) /\ y = ValueOf(b.words) /\ s = ValueOf(u) /\ t = ValueOf(v)
  BY <1>1, SoundFacts, AboveAll DEF Normal
<1>5. q = Signed(qn, u) /\ m = Signed(an, v)
  BY <1>1, <1>2, <1>3
<1>6. /\ Sound(q) /\ Value(q) = IF qn THEN -s ELSE s
      /\ Sound(m) /\ Value(m) = IF an THEN -t ELSE t
  BY <1>1, <1>4, <1>5, SignedIsSound
<1>7. Value(a) = (IF an THEN -x ELSE x) /\ Value(b) = IF bn THEN -y ELSE y
  BY <1>2, <1>4, SoundFacts
<1>8. PICK p \in Nat : p = s * y /\ x = p + t /\ t < y
  <2>1. s * y \in Nat
    OBVIOUS
  <2> QED BY <1>1, <1>4, <2>1 DEF Splits
<1>9. s * (-y) = -p /\ (-s) * y = -p /\ (-s) * (-y) = p
  BY <1>8
<1>10. Value(a) = Value(q) * Value(b) + Value(m)
  <2>1. CASE an /\ bn
    <3>1. Value(a) = -x /\ Value(b) = -y /\ Value(m) = -t
      BY <1>6, <1>7, <2>1
    <3>2. Value(q) = s
      BY <1>3, <1>6, <2>1
    <3> QED BY <1>8, <1>9, <3>1, <3>2
  <2>2. CASE an /\ ~bn
    <3>1. Value(a) = -x /\ Value(b) = y /\ Value(m) = -t
      BY <1>6, <1>7, <2>2
    <3>2. Value(q) = -s
      BY <1>3, <1>6, <2>2
    <3> QED BY <1>8, <1>9, <3>1, <3>2
  <2>3. CASE ~an /\ bn
    <3>1. Value(a) = x /\ Value(b) = -y /\ Value(m) = t
      BY <1>6, <1>7, <2>3
    <3>2. Value(q) = -s
      BY <1>3, <1>6, <2>3
    <3> QED BY <1>8, <1>9, <3>1, <3>2
  <2>4. CASE ~an /\ ~bn
    <3>1. Value(a) = x /\ Value(b) = y /\ Value(m) = t
      BY <1>6, <1>7, <2>4
    <3>2. Value(q) = s
      BY <1>3, <1>6, <2>4
    <3> QED BY <1>8, <1>9, <3>1, <3>2
  <2> QED BY <2>1, <2>2, <2>3, <2>4
<1>11. ValueOf(m.words) < ValueOf(b.words) /\ m.neg = a.neg
  BY <1>2, <1>4, <1>5, <1>8 DEF Signed
<1> QED BY <1>6, <1>10, <1>11

-----------------------------------------------------------------------------
(* Square roots *)

\* After i bits of the root of w, from the bit top down: the root so far, of
\* which nothing is below the last bit, and what its square leaves of w.
RootingStates == [m : Seq(Words), s : Seq(Words)]
SoFar(n, p, s, m, R, k) ==
  R = k * p /\ s = R * p /\ n = R * R + m /\ n < (R + p) * (R + p)
Rooting(w, top, i, r) ==
  /\ Normal(r.m) /\ Normal(r.s)
  /\ \E R \in Nat, k \in Nat :
       SoFar(ValueOf(w), Two[top + 1 - i], ValueOf(r.s), ValueOf(r.m), R, k)

NextSoFar(n, p, s, m, R, k, a) ==
  /\ s = k * (2 * (2 * a)) /\ s = (2 * k) * (2 * a) /\ s = 2 * (R * p)
  /\ s + a <= m =>
       /\ s + 2 * a = 2 * ((R + p) * p)
       /\ SoFar(n, p, (R + p) * p, m - (s + a), R + p, 2 * k + 1)
  /\ ~(s + a <= m) => SoFar(n, p, R * p, m, R, 2 * k)

LEMMA RootBit ==
  ASSUME NEW n \in Nat, NEW p \in Nat, NEW s \in Nat, NEW m \in Nat, NEW R \in Nat, NEW k \in Nat,
         NEW o \in Nat, o = 2 * p, SoFar(n, o, s, m, R, k), NEW sq \in Nat, sq = p * p
  PROVE  NextSoFar(n, p, s, m, R, k, sq)
<1>1. PICK a \in Nat, b \in Nat, c \in Nat, d \in Nat :
        a = p * p /\ b = R * p /\ c = R * R /\ d = k * p
  OBVIOUS
<1>2. R = k * (2 * p) /\ s = R * (2 * p) /\ n = c + m /\ n < (R + 2 * p) * (R + 2 * p)
  BY <1>1 DEF SoFar
<1>3. R = 2 * d /\ s = 2 * b
  <2>1. k * (2 * p) = 2 * (k * p) /\ R * (2 * p) = 2 * (R * p)
    OBVIOUS
  <2> QED BY <1>1, <1>2, <2>1
<1>4. b = 2 * (k * a)
  <2>1. (2 * d) * p = 2 * (d * p) /\ (k * p) * p = k * (p * p)
    OBVIOUS
  <2> QED BY <1>1, <1>3, <2>1
<1>5. s = k * (2 * (2 * a)) /\ s = (2 * k) * (2 * a)
  <2>1. k * (2 * (2 * a)) = 2 * (2 * (k * a)) /\ (2 * k) * (2 * a) = 2 * (2 * (k * a))
    OBVIOUS
  <2> QED BY <1>3, <1>4, <2>1
<1>6. (R + p) * p = b + a
  <2>1. (R + p) * p = R * p + p * p
    OBVIOUS
  <2> QED BY <1>1, <2>1
<1>7. (R + p) * (R + p) = c + 2 * b + a
  <2>1. (R + p) * (R + p) = (R + p) * R + (R + p) * p
    OBVIOUS
  <2>2. (R + p) * R = R * R + R * p
    OBVIOUS
  <2> QED BY <1>1, <1>6, <2>1, <2>2
<1>8. R + 2 * p = (R + p) + p
  OBVIOUS
<1>9. ASSUME s + a <= m
      PROVE  /\ s + 2 * a = 2 * ((R + p) * p)
             /\ SoFar(n, p, (R + p) * p, m - (s + a), R + p, 2 * k + 1)
  <2>1. s + 2 * a = 2 * ((R + p) * p)
    BY <1>3, <1>6
  <2>2. R + p = (2 * k + 1) * p
    <3>1. (2 * k + 1) * p = 2 * (k * p) + p
      OBVIOUS
    <3> QED BY <1>1, <1>3, <3>1
  <2>3. n = (c + 2 * b + a) + (m - (s + a))
    BY <1>2, <1>3, <1>9
  <2>4. n < ((R + p) + p) * ((R + p) + p)
    BY <1>2, <1>8
  <2> QED BY <1>7, <2>1, <2>2, <2>3, <2>4 DEF SoFar
<1>10. ASSUME ~(s + a <= m) PROVE SoFar(n, p, R * p, m, R, 2 * k)
  <2>1. R = (2 * k) * p
    <3>1. (2 * k) * p = 2 * (k * p)
      OBVIOUS
    <3> QED BY <1>1, <1>3, <3>1
  <2>2. n < c + 2 * b + a
    BY <1>2, <1>3, <1>10
  <2> QED BY <1>1, <1>2, <1>7, <2>1, <2>2 DEF SoFar
<1>11. sq = a
  BY <1>1
<1>12. s = 2 * (R * p)
  BY <1>1, <1>3
<1> QED BY <1>5, <1>9, <1>10, <1>11, <1>12 DEF NextSoFar

LEMMA SqrtBitIsRight ==
  ASSUME NEW w \in Seq(Words), NEW top \in Nat, NEW i \in 1..(top + 1),
         NEW r \in RootingStates, Rooting(w, top, i - 1, r),
         NEW t, t = SqrtBit(r, 2 * (top + 1 - i))
  PROVE  /\ t \in RootingStates /\ Rooting(w, top, i, t)
         /\ Normal(SqrtTwice(r, 2 * (top + 1 - i)))
         /\ SqrtTwice(r, 2 * (top + 1 - i)) = <<>>
              <=> r.s = <<>> /\ ValueOf(w) < Two[2 * (top + 1 - i)]
<1>1. PICK j \in Nat : j = top + 1 - i /\ top + 1 - (i - 1) = j + 1
  <2>1. top + 1 - i \in Nat /\ top + 1 - (i - 1) = (top + 1 - i) + 1
    OBVIOUS
  <2> QED BY <2>1
<1>2. PICK bit \in Nat : bit = 2 * j /\ bit = j + j /\ bit + 1 \in Nat /\ bit + 2 \in Nat
                         /\ (bit + 1) + 1 = bit + 2
  OBVIOUS
<1>3. PICK p \in Nat, a \in Nat : p = Two[j] /\ Two[j + 1] = 2 * p /\ a = p * p
  <2>1. PICK p \in Nat : p = Two[j] /\ Two[j + 1] = 2 * p
    BY TwoUnfolds
  <2>2. p * p \in Nat
    OBVIOUS
  <2> QED BY <2>1, <2>2
<1>4. Two[bit] = a /\ Two[bit + 1] = 2 * a /\ Two[bit + 2] = 2 * (2 * a)
  <2>1. Two[j + j] = Two[j] * Two[j]
    BY TwosMultiply
  <2>2. Two[bit] = a
    BY <1>2, <1>3, <2>1
  <2>3. Two[bit + 1] = 2 * Two[bit] /\ Two[(bit + 1) + 1] = 2 * Two[bit + 1]
    BY <1>2, TwoUnfolds
  <2> QED BY <1>2, <2>3, <2>2
<1>5. /\ Normal(r.m) /\ Normal(r.s) /\ r.m \in Seq(Words) /\ r.s \in Seq(Words)
  BY DEF Rooting, Normal
<1>6. PICK n \in Nat, s \in Nat, m \in Nat : n = ValueOf(w) /\ s = ValueOf(r.s) /\ m = ValueOf(r.m)
  BY <1>5, AboveAll
<1>7. PICK R \in Nat, k \in Nat : SoFar(n, 2 * p, s, m, R, k)
  BY <1>1, <1>3, <1>6 DEF Rooting
<1>8. /\ s = k * (2 * (2 * a)) /\ s = (2 * k) * (2 * a) /\ s = 2 * (R * p)
      /\ s + a <= m => /\ s + 2 * a = 2 * ((R + p) * p)
                       /\ SoFar(n, p, (R + p) * p, m - (s + a), R + p, 2 * k + 1)
      /\ ~(s + a <= m) => SoFar(n, p, R * p, m, R, 2 * k)
  <2>1. PICK o \in Nat : o = 2 * p
    OBVIOUS
  <2>2. SoFar(n, o, s, m, R, k)
    BY <1>7, <2>1
  <2>3. NextSoFar(n, p, s, m, R, k, a)
    BY <1>3, <2>1, <2>2, RootBit
  <2> QED BY <2>3 DEF NextSoFar
<1>9. PICK sum : sum = SetBit(r.s, bit)
  OBVIOUS
<1>10. Normal(sum) /\ ValueOf(sum) = s + a
  <2>1. NoneBelow(s, bit + 1)
    <3>1. 2 * k \in Nat
      OBVIOUS
    <3> QED BY <1>4, <1>8, <3>1 DEF NoneBelow
  <2> QED BY <1>4, <1>5, <1>6, <1>9, <2>1, SetBitIsRight
<1>11. PICK more : more = SetBit(r.s, bit + 1)
  OBVIOUS
<1>12. Normal(more) /\ ValueOf(more) = s + 2 * a
  <2>1. NoneBelow(s, (bit + 1) + 1)
    BY <1>2, <1>4, <1>8 DEF NoneBelow
  <2> QED BY <1>2, <1>4, <1>5, <1>6, <1>11, <2>1, SetBitIsRight
<1>13. CmpAbs(r.m, sum) >= 0 <=> s + a <= m
  <2>1. CmpAbs(r.m, sum) = IF m = s + a THEN 0 ELSE IF m < s + a THEN -1 ELSE 1
    BY <1>5, <1>6, <1>10, CmpAbsIsRight
  <2> QED BY <2>1
<1>14. ASSUME NEW v, Normal(v), NEW h \in Nat, ValueOf(v) = 2 * h
       PROVE  Normal(ShiftRight(v, 1)) /\ ValueOf(ShiftRight(v, 1)) = h
  <2>1. v \in Seq(Words)
    BY <1>14 DEF Normal
  <2>2. Normal(ShiftRight(v, 1)) /\ \E b \in 0..1 : ValueOf(v) = 2 * ValueOf(ShiftRight(v, 1)) + b
    BY <2>1, ShiftRightIsRight
  <2>3. PICK x \in Nat, b \in 0..1 : x = ValueOf(ShiftRight(v, 1)) /\ 2 * h = 2 * x + b
    BY <1>14, <2>2, AboveAll DEF Normal
  <2> QED BY <2>2, <2>3
<1>15. t = [m |-> IF CmpAbs(r.m, sum) >= 0 THEN RawSub(r.m, sum) ELSE r.m,
            s |-> ShiftRight(IF CmpAbs(r.m, sum) >= 0 THEN more ELSE r.s, 1)]
  BY <1>1, <1>2, <1>9, <1>11 DEF SqrtBit, SqrtTwice, SqrtFits
<1>16. SqrtTwice(r, bit) = IF CmpAbs(r.m, sum) >= 0 THEN more ELSE r.s
  BY <1>9, <1>11 DEF SqrtTwice, SqrtFits
<1>17. more # <<>> /\ a >= 1
  <2>1. a >= 1
    BY <1>2, <1>4, TwoUnfolds
  <2>2. s + 2 * a # 0
    BY <2>1
  <2>3. <<>> \in Seq(Words) /\ Len(<<>>) = 0
    OBVIOUS
  <2>4. ValueOf(<<>>) = 0
    BY <2>3, NoWords
  <2> QED BY <1>12, <2>1, <2>2, <2>4
<1>18. r.s = <<>> => s = 0 /\ n = m
  <2> SUFFICES ASSUME r.s = <<>> PROVE s = 0 /\ n = m
    OBVIOUS
  <2>1. Len(r.s) = 0
    OBVIOUS
  <2>2. s = 0
    BY <1>5, <1>6, <2>1, NoWords
  <2>3. p >= 1
    BY <1>3, TwoUnfolds
  <2>4. R = 0
    <3> SUFFICES ASSUME R # 0 PROVE FALSE
      OBVIOUS
    <3>1. PICK c \in Nat : R = c + 1
      <4>1. R - 1 \in Nat /\ R = (R - 1) + 1
        OBVIOUS
      <4> QED BY <4>1
    <3>2. PICK x \in Nat, y \in Nat : x = c * p /\ y = R * p
      OBVIOUS
    <3>3. (c + 1) * p = c * p + p
      OBVIOUS
    <3>4. y = x + p
      BY <3>1, <3>2, <3>3
    <3>5. s = 2 * y
      BY <1>8, <3>2
    <3> QED BY <2>2, <2>3, <3>4, <3>5
  <2>5. n = R * R + m /\ R * R = 0
    BY <1>7, <2>4 DEF SoFar
  <2> QED BY <2>2, <2>5
<1>19. SqrtTwice(r, bit) = <<>> <=> r.s = <<>> /\ n < a
  <2>1. CASE s + a <= m
    BY <1>13, <1>16, <1>17, <1>18, <2>1
  <2>2. CASE ~(s + a <= m)
    BY <1>13, <1>16, <1>18, <2>2
  <2> QED BY <2>1, <2>2
<1>20. /\ Normal(SqrtTwice(r, 2 * (top + 1 - i)))
       /\ SqrtTwice(r, 2 * (top + 1 - i)) = <<>>
            <=> r.s = <<>> /\ ValueOf(w) < Two[2 * (top + 1 - i)]
  <2>1. Normal(SqrtTwice(r, bit))
    BY <1>5, <1>12, <1>16
  <2> QED BY <1>1, <1>2, <1>4, <1>6, <1>19, <2>1
<1> SUFFICES t \in RootingStates /\ Rooting(w, top, i, t)
  BY <1>20
<1>21. CASE s + a <= m
  <2>1. t.m = RawSub(r.m, sum) /\ t.s = ShiftRight(more, 1)
    BY <1>13, <1>15, <1>21
  <2>2. PICK h \in Nat : h = (R + p) * p
    OBVIOUS
  <2>3. Normal(t.s) /\ ValueOf(t.s) = h
    BY <1>8, <1>12, <1>14, <1>21, <2>1, <2>2
  <2>4. Normal(t.m) /\ ValueOf(t.m) = m - (s + a)
    BY <1>5, <1>6, <1>10, <1>21, <2>1, RawSubIsRight
  <2>5. R + p \in Nat /\ 2 * k + 1 \in Nat
    OBVIOUS
  <2>6. SoFar(ValueOf(w), Two[top + 1 - i], ValueOf(t.s), ValueOf(t.m), R + p, 2 * k + 1)
    BY <1>1, <1>3, <1>6, <1>8, <1>21, <2>2, <2>3, <2>4
  <2> QED BY <1>15, <2>3, <2>4, <2>5, <2>6 DEF Rooting, RootingStates, Normal
<1>22. CASE ~(s + a <= m)
  <2>1. t.m = r.m /\ t.s = ShiftRight(r.s, 1)
    BY <1>13, <1>15, <1>22
  <2>2. PICK h \in Nat : h = R * p
    OBVIOUS
  <2>3. Normal(t.s) /\ ValueOf(t.s) = h
    BY <1>5, <1>6, <1>8, <1>14, <2>1, <2>2
  <2>4. 2 * k \in Nat
    OBVIOUS
  <2>5. SoFar(ValueOf(w), Two[top + 1 - i], ValueOf(t.s), ValueOf(t.m), R, 2 * k)
    BY <1>1, <1>3, <1>6, <1>8, <1>22, <2>1, <2>2, <2>3
  <2> QED BY <1>5, <1>15, <2>1, <2>3, <2>4, <2>5 DEF Rooting, RootingStates, Normal
<1> QED BY <1>21, <1>22

LEMMA SqrtBitsUnfold ==
  ASSUME NEW w, Normal(w), NEW top \in Nat, ValueOf(w) < Two[top + 1] * Two[top + 1]
  PROVE  /\ SqrtBits(w, top)[0] = [m |-> w, s |-> <<>>]
         /\ \A i \in 0..(top + 1) : /\ SqrtBits(w, top)[i] \in RootingStates
                                    /\ Rooting(w, top, i, SqrtBits(w, top)[i])
<1> DEFINE N == top + 1
           base == [m |-> w, s |-> <<>>]
<1>1. N \in Nat /\ N = top + 1
  OBVIOUS
<1>2. base = [m |-> w, s |-> <<>>] /\ w \in Seq(Words)
  BY DEF Normal
<1> HIDE DEF N, base
<1>3. PICK K : K = {p \in (0..N) \X RootingStates : Rooting(w, top, p[1], p[2])}
  OBVIOUS
<1>4. \A i \in 0..N, r \in RootingStates : <<i, r>> \in K <=> Rooting(w, top, i, r)
  BY <1>3
<1>5. base \in RootingStates /\ Rooting(w, top, 0, base)
  <2>1. PICK x \in Nat, o \in Nat : x = ValueOf(w) /\ o = Two[top + 1]
    BY <1>1, <1>2, TwoUnfolds, AboveAll
  <2>2. Normal(base.s) /\ ValueOf(base.s) = 0 /\ base.s \in Seq(Words)
    <3>1. <<>> \in Seq(Words) /\ Len(<<>>) = 0
      OBVIOUS
    <3>2. ValueOf(<<>>) = 0
      BY <3>1, NoWords
    <3> QED BY <1>2, <3>1, <3>2 DEF Normal
  <2>3. base.m = w /\ top + 1 - 0 = top + 1
    BY <1>2
  <2>4. 0 * o = 0 /\ 0 * 0 = 0 /\ 0 + x = x /\ 0 + o = o
    OBVIOUS
  <2>5. SoFar(x, o, 0, x, 0, 0)
    BY <2>1, <2>4 DEF SoFar
  <2>6. Rooting(w, top, 0, base)
    BY <2>1, <2>2, <2>3, <2>5 DEF Rooting
  <2> QED BY <1>2, <2>2, <2>3, <2>6 DEF RootingStates
<1>6. ASSUME NEW i \in 1..N, NEW r \in RootingStates, <<i - 1, r>> \in K
      PROVE  <<i, SqrtBit(r, 2 * (top + 1 - i))>> \in K
  <2>1. i - 1 \in 0..N /\ i \in 0..N /\ i \in 1..(top + 1)
    BY <1>1
  <2>2. Rooting(w, top, i - 1, r)
    BY <1>4, <1>6, <2>1
  <2>3. /\ SqrtBit(r, 2 * (top + 1 - i)) \in RootingStates
        /\ Rooting(w, top, i, SqrtBit(r, 2 * (top + 1 - i)))
    BY <1>2, <2>1, <2>2, SqrtBitIsRight
  <2> QED BY <1>4, <2>1, <2>3
<1>7. PICK next : next = [p \in (1..N) \X RootingStates |-> SqrtBit(p[2], 2 * (top + 1 - p[1]))]
  OBVIOUS
<1>8. \A i \in 1..N, r \in RootingStates : next[<<i, r>>] = SqrtBit(r, 2 * (top + 1 - i))
  BY <1>7
<1>9. PICK f \in [0..N -> RootingStates] : Follows(N, f, base, next)
  <2>1. KeepsOn(N, next, RootingStates, K)
    BY <1>6, <1>8 DEF KeepsOn
  <2>2. <<0, base>> \in K
    BY <1>1, <1>4, <1>5
  <2>3. K \subseteq (0..N) \X RootingStates
    BY <1>3
  <2> QED BY <1>1, <2>1, <2>2, <2>3, UpwardKept
<1>10. f = [i \in 0..N |-> IF i = 0 THEN base ELSE SqrtBit(f[i - 1], 2 * (top + 1 - i))]
  <2>1. f = [i \in 0..N |-> f[i]]
    OBVIOUS
  <2>2. ASSUME NEW i \in 1..N PROVE f[i] = SqrtBit(f[i - 1], 2 * (top + 1 - i))
    <3>1. i - 1 \in 0..N
      BY <1>1
    <3>2. f[i - 1] \in RootingStates
      BY <3>1
    <3> QED BY <1>8, <1>9, <3>2 DEF Follows
  <2>3. f[0] = base
    BY <1>9 DEF Follows
  <2>4. \A i \in 0..N : i = 0 \/ i \in 1..N
    BY <1>1
  <2>5. \A i \in 0..N : f[i] = IF i = 0 THEN base ELSE SqrtBit(f[i - 1], 2 * (top + 1 - i))
    BY <2>2, <2>3, <2>4
  <2> QED BY <2>1, <2>5
<1>11. PICK Q : Q = SqrtBits(w, top)
  OBVIOUS
<1>12. Q = [i \in 0..N |-> IF i = 0 THEN base ELSE SqrtBit(Q[i - 1], 2 * (top + 1 - i))]
  BY <1>10, <1>11, Zenon DEF SqrtBits, N, base
<1>13. \A i \in 0..N : <<i, Q[i]>> \in K
  <2>1. Q[0] = base /\ \A i \in 1..N : Q[i] = SqrtBit(Q[i - 1], 2 * (top + 1 - i))
    <3>1. 0 \in 0..N /\ \A i \in 1..N : i \in 0..N /\ i # 0
      BY <1>1
    <3> QED BY <1>12, <3>1
  <2>2. <<0, Q[0]>> \in K
    BY <1>1, <1>4, <1>5, <2>1
  <2>3. ASSUME NEW i \in 1..N, <<i - 1, Q[i - 1]>> \in K PROVE <<i, Q[i]>> \in K
    <3>1. PICK r \in RootingStates : r = Q[i - 1]
      BY <1>3, <2>3
    <3> QED BY <1>6, <2>1, <2>3, <3>1
  <2> QED BY <1>1, <2>2, <2>3, UpwardKeeps
<1>14. \A i \in 0..N : Q[i] \in RootingStates /\ Rooting(w, top, i, Q[i])
  BY <1>3, <1>13
<1>15. Q[0] = base
  <2>1. 0 \in 0..N
    BY <1>1
  <2> QED BY <1>12, <2>1
<1> QED BY <1>1, <1>2, <1>11, <1>14, <1>15

\* A root of a word.
LEMMA WordRoot ==
  ASSUME NEW x \in Words, NEW low,
         low = CHOOSE s \in Words : s * s <= x /\ (s + 1) * (s + 1) > x
  PROVE  low \in Words /\ low * low <= x /\ (low + 1) * (low + 1) > x
<1> DEFINE Z == {s \in Nat : x < (s + 1) * (s + 1)}
           Fits2(s) == s * s <= x /\ (s + 1) * (s + 1) > x
<1> x \in Nat
  BY WordFacts
<1>1. x \in Z
  <2>1. (x + 1) * (x + 1) = x * x + 2 * x + 1 /\ x * x \in Nat
    OBVIOUS
  <2> QED BY <2>1
<1>2. PICK l \in Z : \A k \in Z : l <= k
  <2>1. Z \in SUBSET Nat
    OBVIOUS
  <2> HIDE DEF Z
  <2> QED BY <1>1, <2>1, LeastOf
<1>3. l \in Nat /\ x < (l + 1) * (l + 1) /\ l <= x
  BY <1>1, <1>2
<1>4. l * l <= x
  <2>1. CASE l = 0
    BY <2>1
  <2>2. CASE l # 0
    <3>1. l - 1 \in Nat /\ ~(l <= l - 1) /\ (l - 1) + 1 = l
      BY <1>3, <2>2
    <3>2. ~(x < l * l)
      BY <1>2, <3>1
    <3>3. l * l \in Nat
      BY <1>3
    <3> QED BY <3>2, <3>3
  <2> QED BY <2>1, <2>2
<1>5. l \in Words
  BY <1>3, WordFacts
<1>6. (l + 1) * (l + 1) > x
  <2>1. PICK c \in Nat : c = (l + 1) * (l + 1)
    BY <1>3
  <2> QED BY <1>3, <2>1
<1>7. \E s \in Words : Fits2(s)
  BY <1>4, <1>5, <1>6
<1>8. low = CHOOSE s \in Words : Fits2(s)
  OBVIOUS
<1> HIDE DEF Fits2
<1>9. low \in Words /\ Fits2(low)
  BY <1>7, <1>8
<1> QED BY <1>9 DEF Fits2

\* Or of more.
LEMMA LongRoot ==
  ASSUME NEW w, Normal(w), Len(w) >= 2,
         NEW top, top = BitLength(w) \div 2, NEW s, s = SqrtBits(w, top)[top + 1].s
  PROVE  Normal(s) /\ A!Root(ValueOf(w), ValueOf(s), FALSE) /\ ValueOf(w) >= Word
<1>1. w \in Seq(Words) /\ w # <<>> /\ Len(w) \in Nat
  BY DEF Normal
<1>2. PICK L \in Nat, n \in Nat : /\ L = BitLength(w) /\ n = ValueOf(w) /\ L >= 1 /\ n < Two[L]
                                  /\ n >= Two[L - 1] /\ L > (Len(w) - 1) * Bits
  BY <1>1, BitLengthIsRight, AboveAll
<1>3. n >= Word
  <2>1. PICK m \in Nat : m = Bits
    BY WidthAssumption
  <2>2. L - 1 \in Nat /\ m <= L - 1
    <3>1. PICK c \in Nat : Len(w) - 1 = c + 1
      <4>1. Len(w) - 2 \in Nat /\ Len(w) - 1 = (Len(w) - 2) + 1
        BY <1>1
      <4> QED BY <4>1
    <3>2. (c + 1) * m = c * m + m /\ c * m \in Nat
      OBVIOUS
    <3> QED BY <1>2, <2>1, <3>1, <3>2
  <2>3. Two[m] <= Two[L - 1] /\ Two[m] \in Nat /\ Two[L - 1] \in Nat
    BY <2>2, TwosGrow, TwoUnfolds
  <2> QED BY <1>2, <2>1, <2>3 DEF Word
<1>4. top \in Nat /\ L <= (top + 1) + (top + 1)
  BY <1>2
<1>5. PICK h \in Nat : h = top + 1 /\ L <= h + h /\ h + h \in Nat
  BY <1>4
<1>6. n < Two[h] * Two[h]
  <2>1. Two[L] <= Two[h + h] /\ Two[L] \in Nat /\ Two[h + h] \in Nat
    BY <1>5, TwosGrow, TwoUnfolds
  <2>2. Two[h + h] = Two[h] * Two[h]
    BY TwosMultiply
  <2> QED BY <1>2, <2>1, <2>2
<1>7. PICK r \in RootingStates : r = SqrtBits(w, top)[top + 1] /\ Rooting(w, top, top + 1, r)
  <2>1. top + 1 \in 0..(top + 1)
    BY <1>4
  <2> QED BY <1>2, <1>4, <1>5, <1>6, <2>1, SqrtBitsUnfold
<1>8. top + 1 - (top + 1) = 0 /\ Two[0] = 1
  BY <1>4, TwoUnfolds
<1>9. PICK R \in Nat, k \in Nat : SoFar(n, 1, ValueOf(s), ValueOf(r.m), R, k)
  BY <1>2, <1>7, <1>8 DEF Rooting
<1>10. Normal(s) /\ Normal(r.m)
  BY <1>7 DEF Rooting
<1>11. PICK v \in Nat, m \in Nat : v = ValueOf(s) /\ m = ValueOf(r.m)
  BY <1>10, AboveAll DEF Normal
<1>12. R * 1 = R
  OBVIOUS
<1>13. v = R /\ n = R * R + m /\ n < (R + 1) * (R + 1)
  BY <1>9, <1>11, <1>12 DEF SoFar
<1>14. PICK c \in Nat, d \in Nat : c = R * R /\ d = (R + 1) * (R + 1)
  OBVIOUS
<1>15. c <= n /\ d > n
  BY <1>13, <1>14
<1> QED BY <1>2, <1>3, <1>10, <1>11, <1>13, <1>14, <1>15 DEF A!Root

\* The root of more than one word is halved before it has a bit, if there is none
\* to be found in the first turn: if the number's bits are two for each turn.
LEMMA RootsFault ==
  ASSUME NEW a, Sound(a)
  PROVE  SqrtFaults(a) <=> Len(a.words) > 1 /\ BitLength(a.words) % 2 = 0
<1>1. PICK w \in Seq(Words) : w = a.words /\ Normal(w)
  BY DEF Sound, Normal
<1> SUFFICES ASSUME Len(w) > 1
             PROVE  SqrtFaults(a) <=> BitLength(w) % 2 = 0
  BY <1>1 DEF SqrtFaults
<1>2. PICK L \in Nat, n \in Nat : /\ L = BitLength(w) /\ n = ValueOf(w) /\ L >= 1 /\ n < Two[L]
                                  /\ n >= Two[L - 1]
  <2>1. w # <<>>
    OBVIOUS
  <2> QED BY <1>1, <2>1, BitLengthIsRight, AboveAll
<1>3. PICK top \in Nat, odd \in 0..1 : top = L \div 2 /\ odd = L % 2 /\ L = 2 * top + odd
  OBVIOUS
<1>4. PICK Q : Q = SqrtBits(w, top)
  OBVIOUS
<1>5. /\ Q[0].s = <<>>
      /\ \A i \in 0..(top + 1) : Q[i] \in RootingStates /\ Rooting(w, top, i, Q[i])
  <2>1. PICK h \in Nat : h = top + 1 /\ L <= h + h /\ h + h \in Nat
    BY <1>3
  <2>2. Two[L] <= Two[h + h] /\ Two[L] \in Nat /\ Two[h + h] \in Nat
    BY <2>1, TwosGrow, TwoUnfolds
  <2>3. Two[h + h] = Two[h] * Two[h]
    BY <2>1, TwosMultiply
  <2>4. n < Two[h] * Two[h]
    BY <1>2, <2>2, <2>3
  <2>5. /\ Q[0] = [m |-> w, s |-> <<>>]
        /\ \A i \in 0..(top + 1) : Q[i] \in RootingStates /\ Rooting(w, top, i, Q[i])
    BY <1>1, <1>2, <1>4, <2>1, <2>4, SqrtBitsUnfold
  <2> QED BY <2>5
<1>6. ASSUME NEW i \in 1..(top + 1)
      PROVE  /\ Normal(SqrtTwice(Q[i - 1], 2 * (top + 1 - i)))
             /\ SqrtTwice(Q[i - 1], 2 * (top + 1 - i)) = <<>>
                  <=> Q[i - 1].s = <<>> /\ n < Two[2 * (top + 1 - i)]
  <2>1. PICK r : r = Q[i - 1]
    OBVIOUS
  <2>2. r \in RootingStates /\ Rooting(w, top, i - 1, r)
    <3>1. i - 1 \in 0..(top + 1)
      OBVIOUS
    <3> QED BY <1>5, <2>1, <3>1
  <2>3. /\ Normal(SqrtTwice(r, 2 * (top + 1 - i)))
        /\ SqrtTwice(r, 2 * (top + 1 - i)) = <<>>
             <=> r.s = <<>> /\ ValueOf(w) < Two[2 * (top + 1 - i)]
    BY <2>2, SqrtBitIsRight
  <2> QED BY <1>2, <2>1, <2>3
<1>7. SqrtFaults(a)
        <=> \E i \in 1..(top + 1) : SqrtTwice(Q[i - 1], 2 * (top + 1 - i)) = <<>>
  <2>1. 1 % Bits = 1 /\ 1 \div Bits = 0
    <3>1. Bits \in Nat /\ Bits > 1
      BY WidthAssumption
    <3> QED BY <3>1
  <2>2. ASSUME NEW v \in Seq(Words) PROVE ShiftFaults(v, 1) <=> v = <<>>
    <3>1. Len(v) \in Nat /\ (0 >= Len(v) <=> v = <<>>)
      OBVIOUS
    <3> QED BY <2>1, <3>1 DEF ShiftFaults
  <2>3. ASSUME NEW i \in 1..(top + 1)
        PROVE  ShiftFaults(SqrtTwice(Q[i - 1], 2 * (top + 1 - i)), 1)
                 <=> SqrtTwice(Q[i - 1], 2 * (top + 1 - i)) = <<>>
    <3>1. SqrtTwice(Q[i - 1], 2 * (top + 1 - i)) \in Seq(Words)
      BY <1>6 DEF Normal
    <3> QED BY <2>2, <3>1
  <2>4. Len(a.words) > 1 /\ top = BitLength(a.words) \div 2 /\ Q = SqrtBits(a.words, top)
    BY <1>1, <1>2, <1>3, <1>4
  <2> QED BY <2>3, <2>4 DEF SqrtFaults
<1>8. CASE odd = 0
  <2>1. 1 \in 1..(top + 1) /\ 1 - 1 = 0 /\ 2 * (top + 1 - 1) = L
    BY <1>3, <1>8
  <2>2. SqrtTwice(Q[1 - 1], 2 * (top + 1 - 1)) = <<>>
    BY <1>2, <1>5, <1>6, <2>1
  <2> QED BY <1>2, <1>3, <1>7, <1>8, <2>1, <2>2
<1>9. CASE odd = 1
  <2>1. ASSUME NEW i \in 1..(top + 1) PROVE ~(n < Two[2 * (top + 1 - i)])
    <3>1. PICK k \in Nat, j \in Nat : k = L - 1 /\ j = 2 * (top + 1 - i) /\ j <= k
      <4>1. L - 1 = 2 * top /\ 2 * (top + 1 - i) \in Nat /\ 2 * (top + 1 - i) <= 2 * top
        BY <1>3, <1>9
      <4> QED BY <4>1, <1>3
    <3>2. Two[j] <= Two[k] /\ Two[j] \in Nat /\ Two[k] \in Nat
      BY <3>1, TwosGrow, TwoUnfolds
    <3> QED BY <1>2, <3>1, <3>2
  <2>2. ~SqrtFaults(a)
    BY <1>6, <1>7, <2>1
  <2>3. BitLength(w) % 2 = 1
    BY <1>2, <1>3, <1>9
  <2> QED BY <2>2, <2>3
<1> QED BY <1>8, <1>9

\* bigint_sqrt fails on the numbers of more than one word that are an even number
\* of bits long, and on no other.  Of those it answers the root of the number's
\* words, rounded down; rounded up, it does of one word.
THEOREM RootsAreRight ==
  ASSUME NEW a, Sound(a), NEW up \in BOOLEAN, NEW r, r = Sqrt(a, up)
  PROVE  /\ SqrtFaults(a) <=> Len(a.words) > 1 /\ BitLength(a.words) % 2 = 0
         /\ ~SqrtFaults(a) =>
              /\ Sound(r) /\ Value(r) = ValueOf(r.words)
              /\ (up /\ ValueOf(a.words) >= Word) \/ A!Root(ValueOf(a.words), Value(r), up)
<1> SUFFICES /\ Sound(r) /\ Value(r) = ValueOf(r.words)
             /\ (up /\ ValueOf(a.words) >= Word) \/ A!Root(ValueOf(a.words), Value(r), up)
  BY RootsFault
<1>1. PICK w \in Seq(Words) : w = a.words /\ Normal(w)
  BY DEF Sound, Normal
<1>2. ASSUME NEW v, Normal(v), r = Signed(FALSE, v)
      PROVE  Sound(r) /\ Value(r) = ValueOf(v) /\ Value(r) = ValueOf(r.words)
  <2>1. FALSE \in BOOLEAN
    OBVIOUS
  <2>2. Sound(r) /\ Value(r) = ValueOf(v)
    BY <1>2, <2>1, SignedIsSound
  <2>3. r.words = v
    BY <1>2 DEF Signed
  <2> QED BY <2>2, <2>3
<1>3. CASE w = <<>>
  <2>1. r = Signed(FALSE, <<>>)
    BY <1>1, <1>3 DEF Sqrt, Zero, Signed
  <2>2. <<>> \in Seq(Words) /\ Len(<<>>) = 0
    OBVIOUS
  <2>3. Normal(<<>>) /\ ValueOf(<<>>) = 0
    BY <2>2, NoWords DEF Normal
  <2>4. A!Root(0, 0, up)
    BY DEF A!Root
  <2> QED BY <1>1, <1>2, <1>3, <2>1, <2>3, <2>4
<1>4. CASE Len(w) = 1
  <2>1. PICK x \in Words : x = w[1] /\ ValueOf(w) = x /\ x \in Nat /\ x # 0 /\ w # <<>>
    BY <1>1, <1>4, OneWordIs DEF Normal
  <2>2. PICK low : low = CHOOSE s \in Words : s * s <= x /\ (s + 1) * (s + 1) > x
    OBVIOUS
  <2>3. low \in Words /\ low * low <= x /\ (low + 1) * (low + 1) > x
    BY <2>2, WordRoot
  <2>4. low \in Nat
    BY <2>3, WordFacts
  <2>5. PICK c \in Nat, d \in Nat : c = low * low /\ d = (low + 1) * (low + 1) /\ c <= x /\ d > x
    BY <2>3, <2>4
  <2>6. r = FromWord(IF up /\ c # x THEN low + 1 ELSE low)
    BY <1>1, <1>4, <2>1, <2>2, <2>5 DEF Sqrt
  <2>7. CASE up /\ c # x
    <3>1. low + 1 \in Words
      <4>1. CASE low <= 1
        <5>1. low + 1 \in Nat /\ low + 1 < 4
          BY <2>4, <4>1
        <5> QED BY <5>1, WordFacts
      <4>2. CASE ~(low <= 1)
        <5>1. PICK e \in Nat : low = e + 2
          <6>1. low - 2 \in Nat /\ low = (low - 2) + 2
            BY <2>4, <4>2
          <6> QED BY <6>1
        <5>2. (e + 2) * (e + 2) = e * e + 4 * e + 4 /\ e * e \in Nat
          OBVIOUS
        <5>3. low + 1 <= c
          BY <2>5, <5>1, <5>2
        <5>4. x \in Words /\ low + 1 <= x /\ low + 1 \in Nat
          BY <2>1, <2>4, <2>5, <5>3
        <5>5. x < Word
          BY <2>1, WordFacts
        <5>6. low + 1 < Word
          BY <2>1, <5>4, <5>5, WordFacts
        <5> QED BY <5>4, <5>6, WordFacts
      <4> QED BY <4>1, <4>2
    <3>2. r = Signed(FALSE, Truncate(<<low + 1>>))
      BY <2>6, <2>7 DEF FromWord
    <3>3. Normal(Truncate(<<low + 1>>)) /\ ValueOf(Truncate(<<low + 1>>)) = low + 1
      BY <3>1, WordAsWords
    <3>4. Sound(r) /\ Value(r) = low + 1 /\ Value(r) = ValueOf(r.words)
      BY <1>2, <3>2, <3>3
    <3>5. A!Root(x, low + 1, up)
      <4>1. (low + 1) - 1 = low
        BY <2>4
      <4>2. (low + 1) * (low + 1) >= x /\ ((low + 1) - 1) * ((low + 1) - 1) < x
        BY <2>1, <2>5, <2>7, <4>1
      <4> QED BY <2>7, <4>2 DEF A!Root
    <3> QED BY <1>1, <2>1, <3>4, <3>5
  <2>8. CASE ~(up /\ c # x)
    <3>1. r = Signed(FALSE, Truncate(<<low>>))
      BY <2>6, <2>8 DEF FromWord
    <3>2. Normal(Truncate(<<low>>)) /\ ValueOf(Truncate(<<low>>)) = low
      BY <2>3, WordAsWords
    <3>3. Sound(r) /\ Value(r) = low /\ Value(r) = ValueOf(r.words)
      BY <1>2, <3>1, <3>2
    <3>4. A!Root(x, low, up)
      <4>1. CASE ~up
        BY <2>3, <4>1 DEF A!Root
      <4>2. CASE up
        <5>1. c = x
          BY <2>8, <4>2
        <5>2. low # 0
          <6>1. ASSUME low = 0 PROVE c = 0
            BY <2>5, <6>1
          <6> QED BY <2>1, <5>1, <6>1
        <5>3. PICK e \in Nat : low = e + 1 /\ low - 1 = e
          <6>1. low - 1 \in Nat /\ low = (low - 1) + 1
            BY <2>4, <5>2
          <6> QED BY <6>1
        <5>4. (e + 1) * (e + 1) = e * e + 2 * e + 1 /\ e * e \in Nat
          OBVIOUS
        <5>5. low * low >= x /\ (low - 1) * (low - 1) < x
          BY <2>5, <5>1, <5>3, <5>4
        <5> QED BY <4>2, <5>5 DEF A!Root
      <4> QED BY <4>1, <4>2
    <3> QED BY <1>1, <2>1, <3>3, <3>4
  <2> QED BY <2>7, <2>8
<1>5. CASE w # <<>> /\ Len(w) # 1
  <2>1. Len(w) >= 2
    <3>1. Len(w) \in Nat /\ (Len(w) = 0 => w = <<>>)
      BY <1>1
    <3>2. PICK n \in Nat : n = Len(w)
      BY <3>1
    <3>3. n # 0 /\ n # 1
      BY <1>5, <3>1, <3>2, Zenon
    <3> QED BY <3>2, <3>3
  <2>2. PICK top, s : top = BitLength(w) \div 2 /\ s = SqrtBits(w, top)[top + 1].s
    OBVIOUS
  <2>3. Normal(s) /\ A!Root(ValueOf(w), ValueOf(s), FALSE) /\ ValueOf(w) >= Word
    BY <1>1, <2>1, <2>2, LongRoot
  <2>4. r = Signed(FALSE, IF up THEN RawAdd(s, <<1>>) ELSE s)
    BY <1>1, <1>5, <2>2 DEF Sqrt
  <2>5. CASE up
    <3>1. <<1>> \in Seq(Words) /\ s \in Seq(Words)
      <4>1. <<1>> \in Seq(Words)
        BY WordFacts
      <4> QED BY <2>3, <4>1 DEF Normal
    <3>2. Normal(RawAdd(s, <<1>>))
      BY <3>1, RawAddIsRight
    <3> QED BY <1>1, <1>2, <2>3, <2>4, <2>5, <3>2
  <2>6. CASE ~up
    <3>1. r = Signed(FALSE, s) /\ up = FALSE
      BY <2>4, <2>6
    <3> QED BY <1>1, <1>2, <2>3, <3>1
  <2> QED BY <2>5, <2>6
<1> QED BY <1>3, <1>4, <1>5


-----------------------------------------------------------------------------
(* Reading and writing digits *)

DigitSeq == Seq(0..(Base - 1))

LEMMA InSeq ==
  ASSUME NEW S, NEW s \in Seq(S)
  PROVE  Len(s) \in Nat /\ \A i \in 1..Len(s) : s[i] \in S
OBVIOUS

LEMMA DigitFacts ==
  /\ Base \in Nat /\ Base >= 2 /\ Base \in Words
  /\ \A d \in 0..(Base - 1) : d \in Nat /\ d \in Words /\ d < Base
<1>1. Half <= Word
  <2>1. PICK h \in Nat : h = Half /\ h >= 2
    BY Halves
  <2>2. h * h >= h
    BY <2>1
  <2> QED BY <2>1, <2>2, Halves
<1>2. Base \in Nat /\ Base >= 2 /\ Base < Word
  BY <1>1, BaseAssumption, Halves, WordFacts
<1>3. \A d \in 0..(Base - 1) : d \in Nat /\ d < Base /\ d < Word
  BY <1>2, WordFacts
<1> QED BY <1>2, <1>3, WordFacts

LEMMA DigitalUnfolds ==
  ASSUME NEW ds \in DigitSeq
  PROVE  /\ Digital(ds) \in [0..Len(ds) -> Nat]
         /\ Digital(ds)[0] = 0
         /\ \A k \in 1..Len(ds) : Digital(ds)[k] = Base * Digital(ds)[k - 1] + ds[k]
<1> DEFINE n == Len(ds)
           next == [p \in (1..n) \X Nat |-> Base * p[2] + ds[p[1]]]
<1>1. n \in Nat
  BY DEF DigitSeq
<1>2. \A k \in 1..n : ds[k] \in Nat
  <2>1. \A k \in 1..n : ds[k] \in 0..(Base - 1)
    BY InSeq DEF DigitSeq
  <2> QED BY <2>1, DigitFacts
<1>3. \A a \in Nat, b \in Nat : Base * b + a \in Nat
  BY DigitFacts
<1>4. next \in [(1..n) \X Nat -> Nat]
  <2>1. ASSUME NEW p \in (1..n) \X Nat PROVE Base * p[2] + ds[p[1]] \in Nat
    <3>1. p[1] \in 1..n /\ p[2] \in Nat
      OBVIOUS
    <3> QED BY <3>1, <1>2, <1>3
  <2> QED BY <2>1
<1>5. PICK f \in [0..n -> Nat] : Follows(n, f, 0, next)
  <2> HIDE DEF next, n
  <2> QED BY <1>1, <1>4, UpwardExists
<1>6. f[0] = 0
  BY <1>5 DEF Follows
<1>7. ASSUME NEW k \in 1..n PROVE f[k] = Base * f[k - 1] + ds[k]
  <2>1. k - 1 \in 0..n
    BY <1>1
  <2>2. <<k, f[k - 1]>> \in (1..n) \X Nat
    BY <2>1
  <2>3. f[k] = next[<<k, f[k - 1]>>]
    BY <1>5 DEF Follows
  <2> QED BY <2>2, <2>3
<1>8. f = [k \in 0..n |-> IF k = 0 THEN 0 ELSE Base * f[k - 1] + ds[k]]
  <2>1. f = [k \in 0..n |-> f[k]]
    OBVIOUS
  <2>2. \A k \in 0..n : f[k] = IF k = 0 THEN 0 ELSE Base * f[k - 1] + ds[k]
    <3>1. \A k \in 0..n : k = 0 \/ k \in 1..n
      BY <1>1
    <3> QED BY <3>1, <1>6, <1>7
  <2> QED BY <2>1, <2>2
<1> DEFINE D == Digital(ds)
<1>9. D = [k \in 0..n |-> IF k = 0 THEN 0 ELSE Base * D[k - 1] + ds[k]]
  <2> HIDE DEF next
  <2> QED BY <1>8, Zenon DEF Digital
<1> HIDE DEF D, n
<1>10. D[0] = 0 /\ \A k \in 1..n : D[k] = Base * D[k - 1] + ds[k]
  <2>1. 0 \in 0..n /\ \A k \in 1..n : k \in 0..n /\ k # 0
    BY <1>1
  <2> QED BY <2>1, <1>9
<1>11. \A k \in 0..n : D[k] \in Nat
  <2>1. D[0] \in Nat
    BY <1>10
  <2>2. \A k \in 1..n : D[k - 1] \in Nat => D[k] \in Nat
    BY <1>2, <1>3, <1>10
  <2> QED BY <1>1, <2>1, <2>2, UpwardTyped
<1>12. D \in [0..n -> Nat]
  <2>1. D = [k \in 0..n |-> D[k]]
    BY <1>9, Zenon
  <2> QED BY <2>1, <1>11
<1> QED BY <1>10, <1>12 DEF D, n

LEMMA WordsOfUnfolds ==
  ASSUME NEW ds \in DigitSeq
  PROVE  /\ WordsOf(ds)[0] = <<>>
         /\ \A k \in 1..Len(ds) :
              WordsOf(ds)[k] = RawAdd(RawMulWord(WordsOf(ds)[k - 1], Base), Truncate(<<ds[k]>>))
<1> DEFINE n == Len(ds)
           next == [p \in (1..n) \X Seq(Words) |->
                      RawAdd(RawMulWord(p[2], Base), Truncate(<<ds[p[1]]>>))]
<1>1. n \in Nat
  BY DEF DigitSeq
<1>2. ASSUME NEW k \in 1..n, NEW w \in Seq(Words)
      PROVE  RawAdd(RawMulWord(w, Base), Truncate(<<ds[k]>>)) \in Seq(Words)
  <2>1. ds[k] \in 0..(Base - 1)
    BY InSeq DEF DigitSeq
  <2>2. ds[k] \in Words /\ Base \in Words
    BY <2>1, DigitFacts
  <2>3. Truncate(<<ds[k]>>) \in Seq(Words)
    BY <2>2, WordAsWords DEF Normal
  <2>4. RawMulWord(w, Base) \in Seq(Words)
    BY <2>2, RawMulWordIsRight DEF Normal
  <2> QED BY <2>3, <2>4, RawAddIsRight DEF Normal
<1>3. next \in [(1..n) \X Seq(Words) -> Seq(Words)]
  <2>1. ASSUME NEW p \in (1..n) \X Seq(Words)
        PROVE  RawAdd(RawMulWord(p[2], Base), Truncate(<<ds[p[1]]>>)) \in Seq(Words)
    <3>1. p[1] \in 1..n /\ p[2] \in Seq(Words)
      OBVIOUS
    <3> QED BY <3>1, <1>2
  <2> QED BY <2>1
<1>4. PICK f \in [0..n -> Seq(Words)] : Follows(n, f, <<>>, next)
  <2>1. <<>> \in Seq(Words)
    OBVIOUS
  <2> HIDE DEF next, n
  <2> QED BY <1>1, <1>3, <2>1, UpwardExists
<1>5. f[0] = <<>>
  BY <1>4 DEF Follows
<1>6. ASSUME NEW k \in 1..n
      PROVE  f[k] = RawAdd(RawMulWord(f[k - 1], Base), Truncate(<<ds[k]>>))
  <2>1. k - 1 \in 0..n
    BY <1>1
  <2>2. <<k, f[k - 1]>> \in (1..n) \X Seq(Words)
    BY <2>1
  <2>3. f[k] = next[<<k, f[k - 1]>>]
    BY <1>4 DEF Follows
  <2> QED BY <2>2, <2>3
<1>7. f = [i \in 0..n |-> IF i = 0 THEN <<>>
                          ELSE RawAdd(RawMulWord(f[i - 1], Base), Truncate(<<ds[i]>>))]
  <2>1. f = [k \in 0..n |-> f[k]]
    OBVIOUS
  <2>2. \A i \in 0..n : f[i] = IF i = 0 THEN <<>>
                               ELSE RawAdd(RawMulWord(f[i - 1], Base), Truncate(<<ds[i]>>))
    <3>1. \A k \in 0..n : k = 0 \/ k \in 1..n
      BY <1>1
    <3> QED BY <3>1, <1>5, <1>6
  <2> QED BY <2>1, <2>2
<1> DEFINE W == WordsOf(ds)
<1>8. W = [i \in 0..n |-> IF i = 0 THEN <<>>
                          ELSE RawAdd(RawMulWord(W[i - 1], Base), Truncate(<<ds[i]>>))]
  <2> HIDE DEF next
  <2> QED BY <1>7, Zenon DEF WordsOf
<1> HIDE DEF W, n
<1>9. /\ W[0] = <<>>
       /\ \A k \in 1..n : W[k] = RawAdd(RawMulWord(W[k - 1], Base), Truncate(<<ds[k]>>))
  <2>1. 0 \in 0..n /\ \A k \in 1..n : k \in 0..n /\ k # 0
    BY <1>1
  <2> QED BY <2>1, <1>8
<1> QED BY <1>9 DEF W, n

\* Digits that are read are the words of the integer that they stand for.
LEMMA WordsAreDigital ==
  ASSUME NEW ds \in DigitSeq
  PROVE  \A k \in 0..Len(ds) : Normal(WordsOf(ds)[k]) /\ ValueOf(WordsOf(ds)[k]) = Digital(ds)[k]
<1> DEFINE n == Len(ds)
           K == {p \in (0..n) \X Seq(Words) : Normal(p[2]) /\ ValueOf(p[2]) = Digital(ds)[p[1]]}
<1>1. n \in Nat
  BY DEF DigitSeq
<1>2. \A i \in 0..n, w \in Seq(Words) :
        <<i, w>> \in K <=> Normal(w) /\ ValueOf(w) = Digital(ds)[i]
  OBVIOUS
<1>3. K \subseteq (0..n) \X Seq(Words)
  OBVIOUS
<1> HIDE DEF K
<1>4. <<0, WordsOf(ds)[0]>> \in K
  <2>1. <<>> \in Seq(Words) /\ Len(<<>>) = 0
    OBVIOUS
  <2>2. Normal(<<>>) /\ ValueOf(<<>>) = 0
    BY <2>1, NoWords DEF Normal
  <2> QED BY <1>1, <1>2, <2>1, <2>2, WordsOfUnfolds, DigitalUnfolds
<1>5. ASSUME NEW i \in 1..n, <<i - 1, WordsOf(ds)[i - 1]>> \in K
      PROVE  <<i, WordsOf(ds)[i]>> \in K
  <2>1. PICK w \in Seq(Words) : w = WordsOf(ds)[i - 1] /\ i - 1 \in 0..n /\ i \in 0..n
    BY <1>1, <1>3, <1>5
  <2>2. Normal(w) /\ ValueOf(w) = Digital(ds)[i - 1]
    BY <1>2, <1>5, <2>1
  <2>3. ds[i] \in 0..(Base - 1)
    BY InSeq DEF DigitSeq
  <2>4. PICK d \in Words : d = ds[i]
    BY <2>3, DigitFacts
  <2>5. Base \in Words
    BY DigitFacts
  <2>6. PICK v, t : v = RawMulWord(w, Base) /\ t = Truncate(<<d>>)
    OBVIOUS
  <2>7. v \in Seq(Words) /\ ValueOf(v) = ValueOf(w) * Base
    BY <2>5, <2>6, RawMulWordIsRight DEF Normal
  <2>8. t \in Seq(Words) /\ ValueOf(t) = d
    BY <2>6, WordAsWords DEF Normal
  <2>9. Normal(RawAdd(v, t)) /\ ValueOf(RawAdd(v, t)) = ValueOf(v) + ValueOf(t)
    BY <2>7, <2>8, RawAddIsRight
  <2>10. WordsOf(ds)[i] = RawAdd(v, t)
    BY <2>1, <2>4, <2>6, WordsOfUnfolds
  <2>11. Digital(ds)[i] = Base * Digital(ds)[i - 1] + d
    BY <2>4, DigitalUnfolds
  <2>12. PICK x \in Nat : x = ValueOf(w)
    BY AboveAll
  <2>13. ValueOf(RawAdd(v, t)) = Digital(ds)[i]
    <3>1. x * Base = Base * x
      BY DigitFacts
    <3> QED BY <2>2, <2>7, <2>8, <2>9, <2>11, <2>12, <3>1
  <2> QED BY <1>2, <2>1, <2>9, <2>10, <2>13 DEF Normal
<1>6. \A i \in 0..n : <<i, WordsOf(ds)[i]>> \in K
  BY <1>1, <1>4, <1>5, UpwardKeeps
<1> QED BY <1>2, <1>3, <1>6


\* Digits stand for less than the power of the base that comes after them.
LEMMA DigitalIsBelow ==
  ASSUME NEW ds \in DigitSeq
  PROVE  \A k \in 0..Len(ds) : Digital(ds)[k] < Power(Base)[k]
<1> DEFINE n == Len(ds)
           F == Digital(ds)
           K == {p \in (0..n) \X Nat : p[2] < Power(Base)[p[1]]}
<1>1. n \in Nat
  BY InSeq DEF DigitSeq
<1>2. \A i \in 0..n, v \in Nat : <<i, v>> \in K <=> v < Power(Base)[i]
  OBVIOUS
<1>3. K \subseteq (0..n) \X Nat
  OBVIOUS
<1>4. F[0] = 0 /\ \A i \in 1..n : F[i] = Base * F[i - 1] + ds[i]
  BY DigitalUnfolds
<1>5. Power(Base)[0] = 1 /\ \A i \in Nat : Power(Base)[i] \in Nat
                            /\ Power(Base)[i + 1] = Base * Power(Base)[i]
  BY DigitFacts, PowerUnfolds
<1>6. \A i \in 1..n : ds[i] \in Nat /\ ds[i] < Base
  <2>1. \A i \in 1..n : ds[i] \in 0..(Base - 1)
    BY InSeq DEF DigitSeq
  <2> QED BY <2>1, DigitFacts
<1> HIDE DEF K, F, n
<1>7. <<0, F[0]>> \in K
  BY <1>1, <1>2, <1>4, <1>5
<1>8. ASSUME NEW i \in 1..n, <<i - 1, F[i - 1]>> \in K PROVE <<i, F[i]>> \in K
  <2>1. PICK v \in Nat : v = F[i - 1]
    BY <1>3, <1>8
  <2>2. i - 1 \in Nat /\ i - 1 \in 0..n /\ i \in 0..n /\ (i - 1) + 1 = i
    BY <1>1
  <2>3. PICK p \in Nat : p = Power(Base)[i - 1]
    BY <1>5, <2>2
  <2>4. v < p
    BY <1>2, <1>8, <2>1, <2>2, <2>3
  <2>5. PICK d \in Nat : d = ds[i] /\ d < Base
    BY <1>6
  <2>6. PICK x \in Nat, y \in Nat : x = Base * v /\ y = Base * p /\ x + Base <= y
    <3>1. PICK e \in Nat : p = v + 1 + e
      <4>1. p - v - 1 \in Nat /\ p = v + 1 + (p - v - 1)
        BY <2>1, <2>3, <2>4
      <4> QED BY <4>1
    <3>2. Base * v \in Nat /\ Base * e \in Nat
      BY <3>1, DigitFacts
    <3>3. Base * p = Base * v + Base + Base * e
      BY <3>1, DigitFacts
    <3>4. Base * p \in Nat
      BY <3>2, <3>3, DigitFacts
    <3> QED BY <3>2, <3>3, <3>4, DigitFacts
  <2>7. F[i] = x + d /\ Power(Base)[i] = y
    BY <1>4, <1>5, <2>1, <2>2, <2>3, <2>5, <2>6
  <2>8. x + d \in Nat /\ x + d < y
    BY <2>5, <2>6, DigitFacts
  <2> QED BY <1>2, <2>2, <2>7, <2>8
<1>9. \A i \in 0..n : <<i, F[i]>> \in K
  BY <1>1, <1>7, <1>8, UpwardKeeps
<1>10. \A i \in 0..n : F[i] \in Nat /\ F[i] < Power(Base)[i]
  BY <1>2, <1>3, <1>9
<1> QED BY <1>10 DEF F, n

\* A digit before digits.
Before(e, d, ds, L) == /\ e \in DigitSeq /\ Len(e) = L + 1
                       /\ Digital(e)[L + 1] = d * Power(Base)[L] + Digital(ds)[L]
LEMMA DigitBefore ==
  ASSUME NEW ds \in DigitSeq, NEW d \in 0..(Base - 1), NEW e, e = <<d>> \o ds,
         NEW L, L = Len(ds)
  PROVE  Before(e, d, ds, L)
<1> DEFINE D == 0..(Base - 1)
<1>1. L \in Nat
  BY InSeq DEF DigitSeq
<1>2. e \in DigitSeq /\ Len(e) = L + 1 /\ e[1] = d /\ \A i \in 1..L : e[i + 1] = ds[i]
  <2>1. d \in D /\ ds \in Seq(D)
    BY DEF DigitSeq
  <2> HIDE DEF D
  <2>2. e \in Seq(D) /\ Len(e) = L + 1 /\ e[1] = d /\ \A i \in 1..L : e[i + 1] = ds[i]
    BY <1>1, <2>1
  <2> QED BY <2>2 DEF D, DigitSeq
<1>3. d \in Nat
  BY DigitFacts
<1> DEFINE F == Digital(ds)
           G == Digital(e)
           P == Power(Base)
<1>4. F[0] = 0 /\ \A i \in 1..L : F[i] = Base * F[i - 1] + ds[i]
  BY DigitalUnfolds
<1>5. G[0] = 0 /\ \A i \in 1..(L + 1) : G[i] = Base * G[i - 1] + e[i]
  BY <1>2, DigitalUnfolds
<1>6. P[0] = 1 /\ \A i \in Nat : P[i] \in Nat /\ P[i + 1] = Base * P[i]
  BY DigitFacts, PowerUnfolds
<1>7. \A i \in 1..L : ds[i] \in Nat
  <2>1. \A i \in 1..L : ds[i] \in 0..(Base - 1)
    BY InSeq DEF DigitSeq
  <2> QED BY <2>1, DigitFacts
<1>8. \A i \in 0..L : F[i] \in Nat
  BY DigitalUnfolds
<1> DEFINE K == {p \in (0..L) \X Nat : G[p[1] + 1] = d * P[p[1]] + p[2]}
<1>9. \A i \in 0..L, v \in Nat : <<i, v>> \in K <=> G[i + 1] = d * P[i] + v
  OBVIOUS
<1>10. K \subseteq (0..L) \X Nat
  OBVIOUS
<1> HIDE DEF K, F, G, P
<1>11. <<0, F[0]>> \in K
  <2>1. 0 + 1 = 1 /\ 1 \in 1..(L + 1) /\ 1 - 1 = 0 /\ 0 \in 0..L
    BY <1>1
  <2>2. G[1] = Base * 0 + d
    BY <1>2, <1>5, <2>1
  <2>3. Base * 0 + d = d /\ d * 1 + 0 = d
    BY <1>3, DigitFacts
  <2>4. G[0 + 1] = d * P[0] + 0
    BY <1>6, <2>1, <2>2, <2>3
  <2> QED BY <1>4, <1>9, <2>1, <2>4
<1>12. ASSUME NEW i \in 1..L, <<i - 1, F[i - 1]>> \in K PROVE <<i, F[i]>> \in K
  <2>1. i - 1 \in Nat /\ i - 1 \in 0..L /\ i \in 0..L /\ (i - 1) + 1 = i
        /\ i + 1 \in 1..(L + 1) /\ (i + 1) - 1 = i
    BY <1>1
  <2>2. PICK v \in Nat, p \in Nat, c \in Nat : v = F[i - 1] /\ p = P[i - 1] /\ c = ds[i]
    BY <1>6, <1>7, <1>8, <2>1
  <2>3. G[i] = d * p + v
    BY <1>9, <1>12, <2>1, <2>2
  <2>4. G[i + 1] = Base * G[i] + c
    BY <1>2, <1>5, <2>1, <2>2
  <2>5. F[i] = Base * v + c /\ P[i] = Base * p
    BY <1>4, <1>6, <2>1, <2>2
  <2>6. Base * (d * p + v) + c = d * (Base * p) + (Base * v + c)
    <3>1. PICK B \in Nat : B = Base
      BY DigitFacts
    <3>2. B * (d * p + v) = B * (d * p) + B * v
      BY <1>3, <2>2
    <3>3. B * (d * p) = d * (B * p)
      BY <1>3, <2>2
    <3>4. PICK x \in Nat, y \in Nat : x = B * (d * p) /\ y = B * v
      <4>1. PICK z \in Nat : z = d * p
        BY <1>3, <2>2
      <4>2. B * z \in Nat /\ B * v \in Nat
        BY <2>2
      <4> QED BY <4>1, <4>2
    <3>5. B * (d * p + v) + c = (x + y) + c
      BY <3>2, <3>4
    <3>6. d * (B * p) + (B * v + c) = x + (y + c)
      BY <3>3, <3>4
    <3>7. (x + y) + c = x + (y + c)
      BY <2>2
    <3> QED BY <3>1, <3>5, <3>6, <3>7
  <2>7. Base * v + c \in Nat
    BY <2>2, DigitFacts
  <2>8. G[i + 1] = d * P[i] + F[i]
    BY <2>3, <2>4, <2>5, <2>6
  <2> QED BY <1>9, <2>1, <2>5, <2>7, <2>8
<1>13. \A i \in 0..L : <<i, F[i]>> \in K
  BY <1>1, <1>11, <1>12, UpwardKeeps
<1>14. L \in 0..L
  BY <1>1
<1>15. G[L + 1] = d * P[L] + F[L]
  BY <1>8, <1>9, <1>13, <1>14
<1> QED BY <1>2, <1>15 DEF F, G, P, Before


\* bigint_write_base: what is left and the digits so far are the number, the
\* digits are no more than it has, and what is left loses a bit with each.
WritingStates == [left : Seq(Words), digits : DigitSeq]
MadeOf(x, v, P, D) == x = v * P + D
Writing(w, n, k, r) ==
  /\ Normal(r.left)
  /\ MadeOf(ValueOf(w), ValueOf(r.left), Power(Base)[Len(r.digits)],
            Digital(r.digits)[Len(r.digits)])
  /\ Len(r.digits) = 0 \/ Power(Base)[Len(r.digits) - 1] <= ValueOf(w)
  /\ ValueOf(r.left) < Two[n - k]

WriteStep(t) == LET s == DivModHalf(t.left, Base)
                IN  IF t.left = <<>> THEN t
                    ELSE [left |-> s.q, digits |-> <<s.m>> \o t.digits]

LEMMA MadeOfMore ==
  ASSUME NEW B \in Nat, NEW q \in Nat, NEW m \in Nat, NEW P \in Nat, NEW D \in Nat, NEW v \in Nat,
         v = B * q + m, v >= 1, NEW x \in Nat, MadeOf(x, v, P, D)
  PROVE  MadeOf(x, q, B * P, m * P + D) /\ P <= x
<1>1. PICK c \in Nat, d \in Nat : c = q * P /\ d = m * P
  OBVIOUS
<1>2. PICK e \in Nat : e = B * c
  OBVIOUS
<1>3. q * (B * P) = e
  BY <1>1, <1>2
<1>4. (B * q + m) * P = e + d
  <2>1. (B * q) * P = B * (q * P)
    OBVIOUS
  <2>2. PICK z \in Nat : z = B * q
    OBVIOUS
  <2>3. (z + m) * P = z * P + m * P
    BY <2>2
  <2> QED BY <1>1, <1>2, <2>1, <2>2, <2>3
<1>5. x = (e + d) + D
  BY <1>4 DEF MadeOf
<1>6. x = q * (B * P) + (m * P + D)
  <2>1. (e + d) + D = e + (d + D)
    BY <1>1, <1>2
  <2> QED BY <1>1, <1>3, <1>5, <2>1
<1>7. P <= x
  <2>1. PICK u \in Nat : v = 1 + u
    <3>1. v - 1 \in Nat /\ v = 1 + (v - 1)
      OBVIOUS
    <3> QED BY <3>1
  <2>2. PICK z \in Nat : z = u * P
    BY <2>1
  <2>3. v * P = P + z
    BY <2>1, <2>2
  <2>4. x = (P + z) + D
    BY <2>3 DEF MadeOf
  <2> QED BY <2>2, <2>4
<1> QED BY <1>6, <1>7 DEF MadeOf

LEMMA WriteStepIsRight ==
  ASSUME NEW w, Normal(w), NEW n \in Nat, NEW k \in 1..n, NEW r \in WritingStates,
         Writing(w, n, k - 1, r)
  PROVE  WriteStep(r) \in WritingStates /\ Writing(w, n, k, WriteStep(r))
<1>1. n - k \in Nat /\ n - (k - 1) = (n - k) + 1
  OBVIOUS
<1>2. PICK T \in Nat : T = Two[n - k] /\ T >= 1 /\ Two[n - (k - 1)] = 2 * T
  BY <1>1, TwoUnfolds
<1>3. r.left \in Seq(Words) /\ r.digits \in DigitSeq
  BY DEF WritingStates
<1>4. PICK x \in Nat, v \in Nat : x = ValueOf(w) /\ v = ValueOf(r.left)
  BY <1>3, AboveAll DEF Normal
<1>5. PICK L \in Nat : L = Len(r.digits)
  BY <1>3, InSeq DEF DigitSeq
<1>6. PICK P \in Nat, D \in Nat : P = Power(Base)[L] /\ D = Digital(r.digits)[L]
  <2>1. L \in 0..Len(r.digits)
    BY <1>5
  <2> QED BY <1>3, <1>5, <2>1, DigitFacts, PowerUnfolds, DigitalUnfolds
<1>7. MadeOf(x, v, P, D) /\ v < 2 * T
  BY <1>2, <1>4, <1>5, <1>6 DEF Writing
<1>8. CASE r.left = <<>>
  <2>1. WriteStep(r) = r
    BY <1>8 DEF WriteStep
  <2>2. v = 0
    <3>1. <<>> \in Seq(Words) /\ Len(<<>>) = 0
      OBVIOUS
    <3> QED BY <1>4, <1>8, <3>1, NoWords
  <2>3. ValueOf(r.left) < Two[n - k]
    BY <1>2, <1>4, <2>2
  <2>4. Writing(w, n, k, r)
    BY <2>3 DEF Writing
  <2> QED BY <2>1, <2>4
<1>9. CASE r.left # <<>>
  <2>1. PICK q, m : q = DivModHalf(r.left, Base).q /\ m = DivModHalf(r.left, Base).m
    OBVIOUS
  <2>2. /\ Normal(q) /\ m \in Nat /\ m < Base
        /\ v = Base * ValueOf(q) + m
    <3>1. Base >= 1 /\ Base < Half /\ Base \in Nat
      BY DigitFacts, BaseAssumption
    <3> QED BY <1>3, <1>4, <2>1, <3>1, DivModHalfIsRight
  <2>3. PICK y \in Nat : y = ValueOf(q)
    BY <2>2, AboveAll DEF Normal
  <2>4. v >= 1
    <3>1. Normal(r.left)
      BY DEF Writing
    <3>2. v # 0
      <4>1. ASSUME v = 0 PROVE FALSE
        <5>1. <<>> \in Seq(Words) /\ Len(<<>>) = 0
          OBVIOUS
        <5>2. Normal(<<>>) /\ ValueOf(<<>>) = 0
          BY <5>1, NoWords DEF Normal
        <5>3. r.left = <<>>
          BY <1>4, <3>1, <4>1, <5>2, SameValueSameWords
        <5> QED BY <1>9, <5>3
      <4> QED BY <4>1
    <3> QED BY <1>4, <3>2
  <2>5. MadeOf(x, y, Base * P, m * P + D) /\ P <= x
    <3>1. v = Base * y + m /\ Base \in Nat
      BY <2>2, <2>3, DigitFacts
    <3> QED BY <1>4, <1>6, <1>7, <2>2, <2>3, <2>4, <3>1, MadeOfMore
  <2>6. m \in 0..(Base - 1)
    BY <2>2, DigitFacts
  <2>7. PICK e : e = <<m>> \o r.digits
    OBVIOUS
  <2>8. e \in DigitSeq /\ Len(e) = L + 1 /\ Digital(e)[L + 1] = m * P + D
    <3>1. PICK ds \in DigitSeq : ds = r.digits
      BY <1>3
    <3>2. e = <<m>> \o ds /\ L = Len(ds)
      BY <1>5, <2>7, <3>1
    <3>3. Before(e, m, ds, L)
      BY <2>6, <3>2, DigitBefore
    <3> QED BY <1>6, <3>1, <3>3, Zenon DEF Before
  <2>9. Power(Base)[L + 1] = Base * P /\ (L + 1) - 1 = L
    <3>1. Power(Base)[L + 1] = Base * Power(Base)[L]
      BY <1>5, DigitFacts, PowerUnfolds
    <3> QED BY <1>5, <1>6, <3>1
  <2>10. y < T
    <3>1. PICK g \in Nat : Base = 2 + g
      <4>1. Base - 2 \in Nat /\ Base = 2 + (Base - 2)
        BY DigitFacts
      <4> QED BY <4>1
    <3>2. PICK z \in Nat : z = g * y
      BY <2>3, <3>1
    <3>3. Base * y = 2 * y + z
      BY <2>3, <3>1, <3>2
    <3>4. v = (2 * y + z) + m
      BY <2>2, <2>3, <3>3
    <3> QED BY <1>2, <1>7, <2>2, <2>3, <3>2, <3>4
  <2>11. WriteStep(r) = [left |-> q, digits |-> e]
    BY <1>9, <2>1, <2>7 DEF WriteStep
  <2>12. PICK t : t = WriteStep(r) /\ t.left = q /\ t.digits = e
    BY <2>11
  <2>13. t \in WritingStates
    BY <2>2, <2>8, <2>11, <2>12 DEF WritingStates, Normal
  <2>14. Writing(w, n, k, t)
    BY <1>2, <1>4, <1>5, <1>6, <2>2, <2>3, <2>5, <2>8, <2>9, <2>10, <2>12 DEF Writing
  <2> QED BY <2>12, <2>13, <2>14
<1> QED BY <1>8, <1>9


LEMMA WrittenUnfolds ==
  ASSUME NEW w, Normal(w), NEW n, n = Len(w) * Bits
  PROVE  n \in Nat /\ Written(w)[n] \in WritingStates /\ Writing(w, n, n, Written(w)[n])
<1> DEFINE N == Len(w) * Bits
           base == [left |-> w, digits |-> <<>>]
<1>1. base.left = w /\ base.digits = <<>> /\ w \in Seq(Words)
  BY DEF Normal
<1>2. N \in Nat /\ N = n /\ ValueOf(w) < Two[N]
  BY <1>1, ValueIsBelow
<1> HIDE DEF N
<1>3. <<>> \in DigitSeq /\ Len(<<>>) = 0
  BY DEF DigitSeq
<1>4. base \in WritingStates
  BY <1>1, <1>3 DEF WritingStates
<1> HIDE DEF base
<1>5. PICK K : K = {p \in (0..N) \X WritingStates : Writing(w, N, p[1], p[2])}
  OBVIOUS
<1>6. \A i \in 0..N, r \in WritingStates : <<i, r>> \in K <=> Writing(w, N, i, r)
  BY <1>5
<1>7. Writing(w, N, 0, base)
  <2>1. PICK x \in Nat : x = ValueOf(w)
    BY <1>1, AboveAll
  <2>2. Digital(base.digits)[0] = 0 /\ Power(Base)[0] = 1 /\ Len(base.digits) = 0
    BY <1>1, <1>3, DigitalUnfolds, DigitFacts, PowerUnfolds
  <2>3. x = x * 1 + 0
    OBVIOUS
  <2>4. MadeOf(x, x, 1, 0)
    BY <2>3 DEF MadeOf
  <2>5. N - 0 = N
    BY <1>2
  <2> QED BY <1>1, <1>2, <2>1, <2>2, <2>4, <2>5 DEF Writing
<1>8. ASSUME NEW i \in 1..N, NEW r \in WritingStates, <<i - 1, r>> \in K
      PROVE  WriteStep(r) \in WritingStates /\ <<i, WriteStep(r)>> \in K
  <2>1. i - 1 \in 0..N /\ i \in 0..N
    BY <1>2
  <2>2. Writing(w, N, i - 1, r)
    BY <1>6, <1>8, <2>1
  <2>3. WriteStep(r) \in WritingStates /\ Writing(w, N, i, WriteStep(r))
    BY <1>2, <2>2, WriteStepIsRight
  <2> QED BY <1>6, <2>1, <2>3
<1>9. PICK next : next = [p \in (1..N) \X WritingStates |-> WriteStep(p[2])]
  OBVIOUS
<1>10. \A i \in 1..N, r \in WritingStates : next[<<i, r>>] = WriteStep(r)
  BY <1>9
<1>11. PICK f \in [0..N -> WritingStates] : Follows(N, f, base, next)
  <2>1. KeepsOn(N, next, WritingStates, K)
    BY <1>8, <1>10 DEF KeepsOn
  <2>2. <<0, base>> \in K
    BY <1>2, <1>4, <1>6, <1>7
  <2>3. K \subseteq (0..N) \X WritingStates
    BY <1>5
  <2> QED BY <1>2, <2>1, <2>2, <2>3, UpwardKept
<1>12. f = [k \in 0..N |-> IF k = 0 THEN base ELSE WriteStep(f[k - 1])]
  <2>1. f = [i \in 0..N |-> f[i]]
    OBVIOUS
  <2>2. ASSUME NEW i \in 1..N PROVE f[i] = WriteStep(f[i - 1])
    <3>1. i - 1 \in 0..N
      BY <1>2
    <3>2. f[i - 1] \in WritingStates
      BY <3>1
    <3> QED BY <1>10, <1>11, <3>2 DEF Follows
  <2>3. f[0] = base
    BY <1>11 DEF Follows
  <2>4. \A i \in 0..N : i = 0 \/ i \in 1..N
    BY <1>2
  <2>5. \A i \in 0..N : f[i] = IF i = 0 THEN base ELSE WriteStep(f[i - 1])
    BY <2>2, <2>3, <2>4
  <2> QED BY <2>1, <2>5
<1>13. PICK Q : Q = Written(w)
  OBVIOUS
<1>14. Q = [k \in 0..N |-> IF k = 0 THEN base ELSE WriteStep(Q[k - 1])]
  BY <1>12, <1>13, Zenon DEF Written, N, base, WriteStep
<1>15. \A i \in 0..N : <<i, Q[i]>> \in K
  <2>1. Q[0] = base /\ \A i \in 1..N : Q[i] = WriteStep(Q[i - 1])
    <3>1. 0 \in 0..N /\ \A i \in 1..N : i \in 0..N /\ i # 0
      BY <1>2
    <3> QED BY <1>14, <3>1
  <2>2. <<0, Q[0]>> \in K
    BY <1>2, <1>4, <1>6, <1>7, <2>1
  <2>3. ASSUME NEW i \in 1..N, <<i - 1, Q[i - 1]>> \in K PROVE <<i, Q[i]>> \in K
    <3>1. PICK r \in WritingStates : r = Q[i - 1]
      BY <1>5, <2>3
    <3> QED BY <1>8, <2>1, <2>3, <3>1
  <2> QED BY <1>2, <2>2, <2>3, UpwardKeeps
<1>16. N \in 0..N
  BY <1>2
<1>17. Q[N] \in WritingStates /\ Writing(w, N, N, Q[N])
  BY <1>5, <1>15, <1>16
<1> QED BY <1>2, <1>13, <1>17

\* The digits of a number that is not zero are those of its integer, and no
\* more than it has.
LEMMA DigitsAreRight ==
  ASSUME NEW w, Normal(w), w # <<>>, NEW ds, ds = Digits(w), NEW L, L = Len(ds)
  PROVE  /\ ds \in DigitSeq /\ L \in Nat /\ L >= 1
         /\ Digital(ds)[L] = ValueOf(w) /\ Power(Base)[L - 1] <= ValueOf(w)
<1>1. PICK n \in Nat : n = Len(w) * Bits
  <2>1. w \in Seq(Words)
    BY DEF Normal
  <2> QED BY <2>1, ValueIsBelow
<1>2. PICK r : r = Written(w)[n] /\ ds = r.digits
  BY <1>1 DEF Digits
<1>3. r \in WritingStates /\ Writing(w, n, n, r)
  BY <1>1, <1>2, WrittenUnfolds
<1>4. Normal(r.left) /\ ds \in DigitSeq /\ r.left \in Seq(Words)
  BY <1>2, <1>3 DEF WritingStates, Writing
<1>5. n - n = 0 /\ Two[0] = 1
  BY TwoUnfolds
<1>6. PICK v \in Nat, x \in Nat : v = ValueOf(r.left) /\ x = ValueOf(w)
  BY <1>4, AboveAll DEF Normal
<1>7. v = 0
  BY <1>3, <1>5, <1>6 DEF Writing
<1>8. L \in Nat /\ L \in 0..L
  <2>1. L \in Nat
    BY <1>4, InSeq DEF DigitSeq
  <2> QED BY <2>1
<1>9. PICK P \in Nat, D \in Nat : P = Power(Base)[L] /\ D = Digital(ds)[L]
  <2>1. Power(Base)[L] \in Nat
    BY <1>8, DigitFacts, PowerUnfolds
  <2>2. Digital(ds)[L] \in Nat
    BY <1>4, <1>8, DigitalUnfolds
  <2> QED BY <2>1, <2>2
<1>10. MadeOf(x, v, P, D) /\ (L = 0 \/ Power(Base)[L - 1] <= x)
  BY <1>2, <1>3, <1>6, <1>9 DEF Writing
<1>11. x = D
  <2>1. 0 * P = 0
    BY <1>9
  <2> QED BY <1>7, <1>9, <1>10, <2>1 DEF MadeOf
<1>12. L # 0
  <2>1. ASSUME L = 0 PROVE FALSE
    <3>1. D = 0
      BY <1>4, <1>9, <2>1, DigitalUnfolds
    <3>2. <<>> \in Seq(Words) /\ Len(<<>>) = 0
      OBVIOUS
    <3>3. Normal(<<>>) /\ ValueOf(<<>>) = 0
      BY <3>2, NoWords DEF Normal
    <3> QED BY <1>6, <1>11, <3>1, <3>3, SameValueSameWords
  <2> QED BY <2>1
<1> QED BY <1>4, <1>6, <1>8, <1>9, <1>10, <1>11, <1>12


\* bigint_from_str_base: the digits' integer, with the sign.
LEMMA ReadingIsRight ==
  ASSUME NEW neg \in BOOLEAN, NEW ds \in DigitSeq, NEW b, b = FromDigits(neg, ds)
  PROVE  /\ Sound(b) /\ ValueOf(b.words) = Digital(ds)[Len(ds)]
         /\ Digital(ds)[Len(ds)] \in Nat
         /\ Value(b) = IF neg THEN -Digital(ds)[Len(ds)] ELSE Digital(ds)[Len(ds)]
<1>1. PICK n \in Nat : n = Len(ds) /\ n \in 0..n
  <2>1. Len(ds) \in Nat
    BY InSeq DEF DigitSeq
  <2>2. Len(ds) \in 0..Len(ds)
    BY <2>1
  <2> QED BY <2>1, <2>2
<1>2. PICK w : w = WordsOf(ds)[n]
  OBVIOUS
<1>3. Normal(w) /\ ValueOf(w) = Digital(ds)[n] /\ Digital(ds)[n] \in Nat
  BY <1>1, <1>2, WordsAreDigital, DigitalUnfolds
<1>4. b = Signed(neg, w) /\ b.words = w
  BY <1>1, <1>2 DEF FromDigits, Signed
<1>5. Sound(b) /\ Value(b) = IF neg THEN -ValueOf(w) ELSE ValueOf(w)
  BY <1>3, <1>4, SignedIsSound
<1> QED BY <1>1, <1>3, <1>4, <1>5

LEMMA WordPowers ==
  \A k \in Nat : k * Bits \in Nat /\ Power(Word)[k] = Two[k * Bits]
<1> DEFINE T == {k \in Nat : k * Bits \in Nat /\ Power(Word)[k] = Two[k * Bits]}
<1>1. Power(Word)[0] = 1 /\ \A k \in Nat : Power(Word)[k + 1] = Word * Power(Word)[k]
  BY WordFacts, PowerUnfolds
<1>2. 0 \in T
  <2>1. 0 * Bits = 0
    BY WidthAssumption
  <2> QED BY <1>1, <2>1, TwoUnfolds
<1>3. ASSUME NEW k \in Nat, k \in T PROVE k + 1 \in T
  <2>1. PICK m \in Nat : m = k * Bits
    BY <1>3
  <2>2. (k + 1) * Bits = Bits + m
    BY <2>1, WidthAssumption
  <2>3. Two[Bits + m] = Two[Bits] * Two[m]
    BY <2>1, WidthAssumption, TwosMultiply
  <2>4. Power(Word)[k] = Two[m]
    BY <1>3, <2>1
  <2>5. Power(Word)[k + 1] = Two[Bits + m]
    BY <1>1, <2>3, <2>4, Zenon DEF Word
  <2>6. Bits + m \in Nat /\ k + 1 \in Nat
    BY <2>1, WidthAssumption
  <2> QED BY <2>2, <2>5, <2>6
<1>4. \A k \in Nat : k \in T
  <2> HIDE DEF T
  <2> QED BY <1>2, <1>3, Induction
<1> QED BY <1>4

LEMMA PowersOfMore ==
  ASSUME NEW a \in Nat, NEW b \in Nat, a <= b
  PROVE  \A n \in Nat : Power(a)[n] <= Power(b)[n]
<1> DEFINE T == {n \in Nat : Power(a)[n] <= Power(b)[n]}
<1>1. 0 \in T
  <2>1. Power(a)[0] = 1
    BY PowerUnfolds
  <2>2. Power(b)[0] = 1
    BY PowerUnfolds
  <2> QED BY <2>1, <2>2
<1>2. ASSUME NEW n \in Nat, n \in T PROVE n + 1 \in T
  <2>1. PICK x \in Nat, y \in Nat : x = Power(a)[n] /\ y = Power(b)[n] /\ x <= y
    BY <1>2, PowerUnfolds
  <2>2. Power(a)[n + 1] = a * x /\ Power(b)[n + 1] = b * y
    <3>1. Power(a)[n + 1] = a * Power(a)[n]
      BY PowerUnfolds
    <3>2. Power(b)[n + 1] = b * Power(b)[n]
      BY PowerUnfolds
    <3> QED BY <2>1, <3>1, <3>2
  <2>3. PICK c \in Nat, d \in Nat : b = a + c /\ y = x + d
    <3>1. b - a \in Nat /\ b = a + (b - a)
      OBVIOUS
    <3>2. y - x \in Nat /\ y = x + (y - x)
      BY <2>1
    <3> QED BY <3>1, <3>2
  <2>4. (a + c) * (x + d) = a * x + a * d + c * x + c * d
    BY <2>1, <2>3
  <2>5. a * x \in Nat /\ a * d \in Nat /\ c * x \in Nat /\ c * d \in Nat
    BY <2>1, <2>3
  <2>6. a * x <= (a + c) * (x + d)
    BY <2>4, <2>5
  <2> QED BY <2>2, <2>3, <2>6
<1>3. \A n \in Nat : n \in T
  <2> HIDE DEF T
  <2> QED BY <1>1, <1>2, Induction
<1> QED BY <1>3

\* bigint_digits_bound has words enough for what n digits stand for.
LEMMA DigitsBoundIsEnough ==
  ASSUME NEW w, Normal(w), NEW n \in Nat, ValueOf(w) < Power(Base)[n]
  PROVE  Len(w) <= DigitsBound(n)
<1>1. \A i \in Nat : Power(Word)[i] \in Nat
  BY WordFacts, PowerUnfolds
<1>2. PICK p \in Nat : p = Power(Base)[n]
  BY DigitFacts, PowerUnfolds
<1> DEFINE S == {k \in 0..n : Power(Word)[k] >= p}
<1>3. n \in S
  <2>1. Base <= Word /\ Base \in Nat /\ Word \in Nat
    BY DigitFacts, WordFacts
  <2>2. Power(Base)[n] <= Power(Word)[n]
    BY <2>1, PowersOfMore
  <2> QED BY <1>1, <1>2, <2>2
<1>4. PICK l \in S : \A j \in S : l <= j
  <2>1. S \subseteq Nat
    OBVIOUS
  <2> HIDE DEF S
  <2> QED BY <1>3, <2>1, LeastOf
<1>5. l \in 0..n /\ Power(Word)[l] >= p
  OBVIOUS
<1>6. l = 0 \/ Power(Word)[l - 1] < p
  <2>1. CASE l # 0
    <3>1. l - 1 \in 0..n /\ l - 1 \in Nat /\ l - 1 < l
      BY <1>5, <2>1
    <3>2. l - 1 \notin S
      BY <1>4, <3>1
    <3> QED BY <1>1, <1>2, <3>1, <3>2
  <2> QED BY <2>1
<1> HIDE DEF S
<1>7. PICK c : c = CHOOSE k \in 0..n : /\ Power(Word)[k] >= Power(Base)[n]
                                       /\ k = 0 \/ Power(Word)[k - 1] < Power(Base)[n]
  OBVIOUS
<1>8. c \in 0..n /\ Power(Word)[c] >= p
  BY <1>2, <1>5, <1>6, <1>7
<1>9. DigitsBound(n) = 1 + c
  BY <1>7, Zenon DEF DigitsBound
<1>10. w \in Seq(Words)
  BY DEF Normal
<1>11. PICK m \in Nat : m = Len(w)
  BY <1>10
<1>12. CASE w = <<>>
  <2>1. m = 0
    BY <1>11, <1>12
  <2> QED BY <1>8, <1>9, <1>11, <2>1
<1>13. CASE w # <<>>
  <2>1. m # 0
    BY <1>10, <1>11, <1>13
  <2>2. PICK k \in Nat : m = k + 1 /\ m - 1 = k
    <3>1. m - 1 \in Nat /\ m = (m - 1) + 1
      BY <2>1
    <3> QED BY <3>1
  <2>3. PICK g \in Nat : g = k * Bits
    BY WordPowers
  <2>4. PICK t : t = BitLength(w)
    OBVIOUS
  <2>5. t \in Nat /\ t >= 1 /\ ValueOf(w) >= Two[t - 1] /\ t > g
    BY <1>11, <1>13, <2>2, <2>3, <2>4, BitLengthIsRight
  <2>6. t - 1 \in Nat /\ g <= t - 1
    BY <2>3, <2>5
  <2>7. Two[g] <= Two[t - 1] /\ Two[g] \in Nat /\ Two[t - 1] \in Nat
    BY <2>3, <2>6, TwosGrow, TwoUnfolds
  <2>8. Power(Word)[k] = Two[g]
    BY <2>3, WordPowers
  <2>9. PICK x \in Nat : x = ValueOf(w) /\ x < p
    BY <1>2, <1>10, AboveAll
  <2>10. Power(Word)[k] < p
    BY <2>5, <2>7, <2>8, <2>9
  <2>11. ~(c <= k)
    <3>1. ASSUME c <= k PROVE FALSE
      <4>1. Word >= 1 /\ Word \in Nat /\ c \in Nat
        BY <1>8, WordFacts
      <4>2. Power(Word)[c] <= Power(Word)[k]
        BY <3>1, <4>1, PowersGrow
      <4> QED BY <1>1, <1>2, <1>8, <2>10, <4>1, <4>2
    <3> QED BY <3>1
  <2> QED BY <1>8, <1>9, <1>11, <2>2, <2>11
<1> QED BY <1>12, <1>13


\* A number that is written whole and read again is that number, in the words
\* that its digits are given.
RoomFor(b, n) ==
  /\ Power(Base)[n] > ValueOf(b.words)
  /\ b.neg => n > 0 /\ Power(Base)[n - 1] > ValueOf(b.words)
LEMMA ReadAsWritten ==
  ASSUME NEW b, Sound(b), NEW n \in Nat, RoomFor(b, n), NEW t, t = Write(b, n)
  PROVE  /\ Cmp(FromDigits(t.neg, t.digits), b) = 0
         /\ Len(b.words) <= DigitsBound(Len(t.digits))
<1>1. PICK w : w = b.words /\ Normal(w) /\ b.neg \in BOOLEAN
  BY SoundFacts
<1>2. PICK x \in Nat : x = ValueOf(w)
  BY <1>1, SoundFacts
<1>3. SUFFICES ASSUME TRUE
               PROVE  \E ds \in DigitSeq :
                        /\ t.digits = ds /\ Digital(ds)[Len(ds)] = x
                        /\ t.neg \in BOOLEAN /\ (x = 0 \/ t.neg = b.neg)
  <2>1. PICK ds \in DigitSeq : /\ t.digits = ds /\ Digital(ds)[Len(ds)] = x
                               /\ t.neg \in BOOLEAN /\ (x = 0 \/ t.neg = b.neg)
    BY <1>3
  <2>2. PICK neg \in BOOLEAN : neg = t.neg
    BY <2>1
  <2>3. PICK r : r = FromDigits(neg, ds)
    OBVIOUS
  <2>4. Sound(r) /\ Value(r) = IF neg THEN -x ELSE x
    BY <2>1, <2>3, ReadingIsRight
  <2>5. Value(b) = IF b.neg THEN -x ELSE x
    BY <1>1, <1>2, SoundFacts
  <2>6. Value(r) = Value(b)
    <3>1. CASE x = 0
      <4>1. \A y \in Int : -y = 0 - y
        OBVIOUS
      <4>2. -x = 0 - x /\ 0 - 0 = 0
        BY <1>2, <4>1
      <4>3. -x = x
        BY <3>1, <4>2
      <4> QED BY <2>4, <2>5, <4>3
    <3>2. CASE neg = b.neg
      BY <2>4, <2>5, <3>2
    <3> QED BY <2>1, <2>2, <3>1, <3>2
  <2>7. Cmp(r, b) = 0
    BY <2>4, <2>6, ComparingIsRight
  <2>8. PICK m \in Nat : m = Len(ds) /\ m \in 0..m
    <3>1. Len(ds) \in Nat
      BY InSeq DEF DigitSeq
    <3>2. Len(ds) \in 0..Len(ds)
      BY <3>1
    <3> QED BY <3>1, <3>2
  <2>9. ValueOf(w) < Power(Base)[m]
    BY <1>2, <2>1, <2>8, DigitalIsBelow
  <2>10. Len(w) <= DigitsBound(m)
    BY <1>1, <2>8, <2>9, DigitsBoundIsEnough
  <2> QED BY <1>1, <2>1, <2>2, <2>3, <2>7, <2>8, <2>10
<1>4. CASE w = <<>>
  <2>1. x = 0
    <3>1. <<>> \in Seq(Words) /\ Len(<<>>) = 0
      OBVIOUS
    <3> QED BY <1>2, <1>4, <3>1, NoWords
  <2>2. PICK z : z = <<0>> /\ Len(z) = 1 /\ SubSeq(z, 1, Len(z)) = z
    <3>1. <<0>> \in Seq({0}) /\ Len(<<0>>) = 1
      OBVIOUS
    <3>2. \A s \in Seq({0}) : SubSeq(s, 1, Len(s)) = s
      OBVIOUS
    <3>3. SubSeq(<<0>>, 1, Len(<<0>>)) = <<0>>
      BY <3>1, <3>2, Zenon
    <3> QED BY <3>1, <3>3
  <2>3. t.neg = (b.neg /\ Len(z) < n) /\ t.digits = SubSeq(z, Longer(Len(z) - n, 0) + 1, Len(z))
    BY <1>1, <1>4, <2>2 DEF Write
  <2>4. t.neg \in BOOLEAN
    BY <2>3
  <2>5. CASE n = 0
    <3>1. Longer(1 - 0, 0) = 1
      BY DEF Longer
    <3>2. t.digits = SubSeq(z, 2, 1)
      <4>1. 1 + 1 = 2
        OBVIOUS
      <4> QED BY <2>2, <2>3, <2>5, <3>1, <4>1
    <3>3. t.digits = <<>>
      BY <2>2, <3>2
    <3>4. <<>> \in DigitSeq /\ Len(<<>>) = 0
      BY DEF DigitSeq
    <3>5. Digital(<<>>)[0] = 0
      BY <3>4, DigitalUnfolds
    <3> QED BY <2>1, <2>4, <3>3, <3>4, <3>5
  <2>6. CASE n # 0
    <3>1. Longer(1 - n, 0) = 0
      BY <2>6 DEF Longer
    <3>2. t.digits = SubSeq(z, 1, 1)
      <4>1. 0 + 1 = 1
        OBVIOUS
      <4> QED BY <2>2, <2>3, <3>1, <4>1
    <3>3. t.digits = z
      BY <2>2, <3>2
    <3>4. 0 \in 0..(Base - 1)
      BY DigitFacts
    <3>5. z \in DigitSeq
      <4> DEFINE D == 0..(Base - 1)
      <4> HIDE DEF D
      <4>1. 0 \in D
        BY <3>4 DEF D
      <4>2. z \in Seq(D)
        BY <2>2, <4>1
      <4> QED BY <4>2 DEF D, DigitSeq
    <3>6. Digital(z)[1] = 0
      <4>1. Digital(z)[0] = 0 /\ 1 \in 1..Len(z) /\ 1 - 1 = 0
        BY <2>2, <3>5, DigitalUnfolds
      <4>2. Digital(z)[1] = Base * 0 + z[1]
        BY <3>5, <4>1, DigitalUnfolds
      <4>3. Base * 0 = 0 /\ z[1] = 0
        BY <2>2, DigitFacts
      <4> QED BY <4>2, <4>3
    <3> QED BY <2>1, <2>2, <2>4, <3>3, <3>5, <3>6
  <2> QED BY <2>5, <2>6
<1>5. CASE w # <<>>
  <2>1. PICK ds, L : ds = Digits(w) /\ L = Len(ds)
    OBVIOUS
  <2>2. /\ ds \in DigitSeq /\ L \in Nat /\ L >= 1
        /\ Digital(ds)[L] = x /\ Power(Base)[L - 1] <= x
    BY <1>1, <1>2, <1>5, <2>1, DigitsAreRight
  <2>3. t.neg = (b.neg /\ L < n) /\ t.digits = SubSeq(ds, Longer(L - n, 0) + 1, L)
    BY <1>1, <1>5, <2>1 DEF Write
  <2>4. \A k \in Nat : Power(Base)[k] \in Nat
    BY DigitFacts, PowerUnfolds
  <2>5. ASSUME NEW k \in Nat, Power(Base)[k] > x PROVE L - 1 < k
    <3>1. L - 1 \in Nat
      BY <2>2
    <3>2. ASSUME k <= L - 1 PROVE FALSE
      <4>1. Base >= 1 /\ Base \in Nat
        BY DigitFacts
      <4>2. Power(Base)[k] <= Power(Base)[L - 1]
        BY <3>1, <3>2, <4>1, PowersGrow
      <4> QED BY <1>2, <2>2, <2>4, <2>5, <3>1, <4>2
    <3> QED BY <3>1, <3>2
  <2>6. L <= n
    <3>1. L - 1 < n
      BY <1>1, <1>2, <2>5 DEF RoomFor
    <3> QED BY <2>2, <3>1
  <2>7. t.neg = b.neg
    <3>1. CASE ~b.neg
      BY <1>1, <2>3, <3>1
    <3>2. CASE b.neg
      <4>1. n - 1 \in Nat /\ Power(Base)[n - 1] > x
        BY <1>1, <1>2, <3>2 DEF RoomFor
      <4>2. L - 1 < n - 1
        BY <2>5, <4>1
      <4>3. L < n
        BY <2>2, <4>1, <4>2
      <4> QED BY <2>3, <3>2, <4>3
    <3> QED BY <1>1, <3>1, <3>2
  <2>8. t.digits = ds
    <3>1. Longer(L - n, 0) = 0
      BY <2>2, <2>6 DEF Longer
    <3>2. t.digits = SubSeq(ds, 1, L)
      <4>1. 0 + 1 = 1
        OBVIOUS
      <4> QED BY <2>3, <3>1, <4>1
    <3>3. SubSeq(ds, 1, Len(ds)) = ds
      <4> DEFINE D == 0..(Base - 1)
      <4>1. ds \in Seq(D)
        BY <2>2 DEF DigitSeq
      <4> HIDE DEF D
      <4> QED BY <4>1
    <3> QED BY <2>1, <3>2, <3>3
  <2> QED BY <1>1, <2>1, <2>2, <2>7, <2>8
<1> QED BY <1>4, <1>5


\* An index: the bits of a number that has no more than a mantissa's.
LEMMA DoubleIsExact ==
  ASSUME NEW b, Sound(b), BitLength(b.words) <= Mantissa + 1, NEW d, d = Double(b)
  PROVE  ValueOf(d.mantissa) = ValueOf(b.words) * Two[-d.shift]
<1>1. PICK w : w = b.words /\ Normal(w)
  BY SoundFacts
<1>2. PICK x \in Nat : x = ValueOf(w)
  BY <1>1, SoundFacts
<1>3. \A y \in Int : -y = 0 - y
  OBVIOUS
<1>4. CASE w = <<>>
  <2>1. <<>> \in Seq(Words) /\ Len(<<>>) = 0
    OBVIOUS
  <2>2. x = 0 /\ ValueOf(<<>>) = 0
    BY <1>2, <1>4, <2>1, NoWords
  <2>3. d = [mantissa |-> <<>>, shift |-> 0]
    BY <1>1, <1>4 DEF Double
  <2>4. -d.shift = 0
    <3>1. PICK s \in Int : s = d.shift /\ s = 0
      BY <2>3
    <3>2. -s = 0 - s
      BY <1>3
    <3> QED BY <3>1, <3>2
  <2>5. 0 * Two[0] = 0
    BY TwoUnfolds
  <2>6. ValueOf(d.mantissa) = 0
    BY <2>2, <2>3
  <2> QED BY <1>1, <1>2, <2>2, <2>4, <2>5, <2>6
<1>5. CASE w # <<>>
  <2>1. PICK n : n = BitLength(w)
    OBVIOUS
  <2>2. n \in Nat /\ n <= Mantissa + 1
    BY <1>1, <1>5, <2>1, BitLengthIsRight
  <2>3. PICK shift \in Nat : shift = Mantissa - n + 1
    <3>1. Mantissa - n + 1 \in Nat
      BY <2>2, MantissaAssumption
    <3> QED BY <3>1
  <2>4. ~(shift < 0)
    BY <2>3
  <2>5. d = [mantissa |-> ShiftLeft(w, shift), shift |-> -shift]
    BY <1>1, <1>5, <2>1, <2>3, <2>4 DEF Double
  <2>6. -d.shift = shift
    <3>1. PICK s \in Int : s = -shift /\ s = d.shift
      BY <2>3, <2>5
    <3>2. -s = 0 - s /\ -shift = 0 - shift
      BY <1>3, <2>3
    <3> QED BY <2>3, <3>1, <3>2
  <2>7. ValueOf(ShiftLeft(w, shift)) = Two[shift] * ValueOf(w)
    BY <1>1, <1>5, ShiftLeftIsRight DEF Normal
  <2>8. PICK t \in Nat : t = Two[shift]
    BY TwoUnfolds
  <2>9. t * x = x * t
    BY <1>2, <2>8
  <2> QED BY <1>1, <1>2, <2>5, <2>6, <2>7, <2>8, <2>9
<1> QED BY <1>4, <1>5


-----------------------------------------------------------------------------
(* What is answered *)

Images == [known : BOOLEAN, b : {b \in Number : Sound(b)}]
Answered == {"true", "false", "first", "error"}
CalcInv == int \in [Vars -> Images] /\ said \in Answered \cup {"crash"} /\ count \in 0..MaxAsked

\* Of the images f before and g after, request q and answer s.
WorthOf(f) == [x \in Vars |-> IF f[x].known THEN Value(f[x].b) ELSE NoInt]
KeepsAll(v, u) == \A x \in Vars : A!Known(v[x]) => u[x] = v[x]
IsRight(q, v, u, s) ==
  \/ /\ s = "true" /\ KeepsAll(v, u)
     /\ A!AllKnown(q, u) => A!Holds(q, u) /\ A!RemainderIsLess(q, v, u)
  \/ s = "false" /\ u = v /\ (A!AllKnown(q, v) => ~A!Holds(q, v))
     /\ \E x \in A!Args(q) : A!Known(v[x])
  \/ s = "first" /\ u = v /\ ~A!AllKnown(q, v)
  \/ A!NoPromise(q, v, Word)
CrashOf(q, f) ==
  /\ q.op = "sqrt" /\ f[q.x].known /\ Len(f[q.x].b.words) > 1
  /\ BitLength(f[q.x].b.words) % 2 = 0 \/ q.up
Answers(q, f, g, s) ==
  /\ g \in [Vars -> Images]
  /\ \/ s \in Answered /\ (s = "error" \/ IsRight(q, WorthOf(f), WorthOf(g), s))
     \/ s = "crash" /\ CrashOf(q, f)

LEMMA SaysIsRight ==
  ASSUME IsRight(asked', Worth, Worth', said')
  PROVE  A!Says(asked', Word)
BY DEF IsRight, KeepsAll, A!Says, A!Keeps

LEMMA WorthIs ==
  ASSUME NEW f \in [Vars -> Images], NEW x \in Vars
  PROVE  /\ f[x].known \in BOOLEAN /\ Sound(f[x].b) /\ Value(f[x].b) \in Int
         /\ A!Known(WorthOf(f)[x]) <=> f[x].known
         /\ f[x].known => WorthOf(f)[x] = Value(f[x].b)
         /\ ~f[x].known => WorthOf(f)[x] = NoInt
<1>1. f[x] \in Images
  OBVIOUS
<1>2. f[x].known \in BOOLEAN /\ Sound(f[x].b)
  BY <1>1 DEF Images
<1>3. Value(f[x].b) \in Int
  BY <1>2, SoundFacts
<1>4. WorthOf(f)[x] = IF f[x].known THEN Value(f[x].b) ELSE NoInt
  BY DEF WorthOf
<1>5. NoInt # Value(f[x].b)
  BY <1>3, VarsAssumption
<1> QED BY <1>2, <1>3, <1>4, <1>5 DEF A!Known

Held(f, x, b, g) ==
  /\ g \in [Vars -> Images] /\ g[x].known /\ WorthOf(g)[x] = Value(b)
  /\ \A y \in Vars : y # x => WorthOf(g)[y] = WorthOf(f)[y]
  /\ \A y \in Vars : y # x => g[y] = f[y]
  /\ ~f[x].known => KeepsAll(WorthOf(f), WorthOf(g))

LEMMA HoldingIs ==
  ASSUME NEW f \in [Vars -> Images], NEW x \in Vars, NEW b, Sound(b),
         NEW g, g = [f EXCEPT ![x] = Holding(b)]
  PROVE  Held(f, x, b, g)
<1>1. b \in Number /\ Sound(b)
  BY DEF Sound
<1>2. Holding(b) \in Images /\ Holding(b).known /\ Holding(b).b = b
  BY <1>1 DEF Holding, Images
<1>3. g \in [Vars -> Images] /\ g[x] = Holding(b)
  BY <1>2
<1>4. \A y \in Vars : y # x => g[y] = f[y]
  OBVIOUS
<1>5. WorthOf(g)[x] = Value(b)
  BY <1>2, <1>3 DEF WorthOf
<1>6. \A y \in Vars : y # x => WorthOf(g)[y] = WorthOf(f)[y]
  BY <1>4 DEF WorthOf
<1>7. ASSUME ~f[x].known PROVE KeepsAll(WorthOf(f), WorthOf(g))
  <2>1. ~A!Known(WorthOf(f)[x])
    BY <1>7, WorthIs
  <2> QED BY <1>6, <2>1 DEF KeepsAll
<1> QED BY <1>2, <1>3, <1>4, <1>5, <1>6, <1>7 DEF Held

LEMMA CheckIs ==
  ASSUME NEW a, NEW b, Sound(a), Sound(b)
  PROVE  (Cmp(a, b) = 0) <=> (Value(a) = Value(b))
<1>1. PICK x \in Int, y \in Int : x = Value(a) /\ y = Value(b)
  BY SoundFacts
<1>2. Cmp(a, b) = IF x = y THEN 0 ELSE IF x < y THEN -1 ELSE 1
  BY <1>1, ComparingIsRight
<1> QED BY <1>1, <1>2

LEMMA HoldsIs ==
  ASSUME NEW q, NEW v
  PROVE  /\ q.op = "is" => /\ A!Holds(q, v) <=> v[q.x] = q.n
                           /\ A!Args(q) = {q.x}
         /\ q.op = "eq" => /\ A!Holds(q, v) <=> v[q.x] = v[q.y]
                           /\ A!Args(q) = {q.x, q.y}
         /\ q.op = "plus" => /\ A!Holds(q, v) <=> v[q.x] + v[q.y] = v[q.z]
                             /\ A!Args(q) = {q.x, q.y, q.z}
         /\ q.op = "mul" => /\ A!Holds(q, v) <=> v[q.x] * v[q.y] = v[q.z]
                            /\ A!Args(q) = {q.x, q.y, q.z}
         /\ q.op = "mod" => /\ A!Holds(q, v) <=> v[q.x] * v[q.y] + v[q.r] = v[q.z]
                            /\ A!Args(q) = {q.x, q.y, q.z, q.r}
         /\ q.op = "sqrt" => /\ A!Holds(q, v) <=> A!Root(v[q.x], v[q.z], q.up)
                             /\ A!Args(q) = {q.x, q.z}
BY DEF A!Holds, A!Args


\* INT_ASSIGN
AssignOf(f, x, b, g, s) ==
  \/ ~f[x].known /\ s = "true" /\ g = [f EXCEPT ![x] = Holding(b)]
  \/ f[x].known /\ s = (IF Cmp(f[x].b, b) = 0 THEN "true" ELSE "false") /\ g = f
AssignedTo(f, x, n, g, s) ==
  \/ /\ s = "true" /\ g[x].known /\ WorthOf(g)[x] = n
     /\ \A y \in Vars : y # x => WorthOf(g)[y] = WorthOf(f)[y] /\ g[y] = f[y]
     /\ KeepsAll(WorthOf(f), WorthOf(g))
  \/ s = "false" /\ g = f /\ f[x].known /\ WorthOf(f)[x] # n

LEMMA Assigning ==
  ASSUME NEW f \in [Vars -> Images], NEW x \in Vars, NEW b, Sound(b),
         NEW g, NEW s, AssignOf(f, x, b, g, s)
  PROVE  g \in [Vars -> Images] /\ s \in Answered /\ AssignedTo(f, x, Value(b), g, s)
<1>1. CASE ~f[x].known
  <2>1. s = "true" /\ g = [f EXCEPT ![x] = Holding(b)]
    BY <1>1 DEF AssignOf
  <2>2. /\ g \in [Vars -> Images] /\ g[x].known /\ WorthOf(g)[x] = Value(b)
        /\ \A y \in Vars : y # x => WorthOf(g)[y] = WorthOf(f)[y]
        /\ \A y \in Vars : y # x => g[y] = f[y]
        /\ KeepsAll(WorthOf(f), WorthOf(g))
    <3>1. Held(f, x, b, g)
      BY <2>1, HoldingIs
    <3> QED BY <1>1, <3>1 DEF Held
  <2>3. s \in Answered
    BY <2>1 DEF Answered
  <2> QED BY <2>1, <2>2, <2>3 DEF AssignedTo
<1>2. CASE f[x].known
  <2>1. g = f /\ s = IF Cmp(f[x].b, b) = 0 THEN "true" ELSE "false"
    BY <1>2 DEF AssignOf
  <2>2. Sound(f[x].b) /\ WorthOf(f)[x] = Value(f[x].b)
    BY <1>2, WorthIs
  <2>3. Cmp(f[x].b, b) = 0 <=> WorthOf(f)[x] = Value(b)
    BY <2>2, CheckIs
  <2>4. KeepsAll(WorthOf(f), WorthOf(f))
    BY DEF KeepsAll
  <2>5. CASE WorthOf(f)[x] = Value(b)
    BY <1>2, <2>1, <2>3, <2>4, <2>5 DEF AssignedTo, Answered
  <2>6. CASE WorthOf(f)[x] # Value(b)
    BY <1>2, <2>1, <2>3, <2>6 DEF AssignedTo, Answered
  <2> QED BY <2>5, <2>6
<1> QED BY <1>1, <1>2

LEMMA LiteralIs ==
  ASSUME NEW q \in Requests, q.op = "is"
  PROVE  q.x \in Vars /\ Sound(Literal(q)) /\ Value(Literal(q)) = q.n
<1>1. /\ q.x \in Vars /\ q.neg \in BOOLEAN /\ q.digits \in DigitSeq
      /\ q.n = IF q.neg THEN -Digital(q.digits)[Len(q.digits)]
               ELSE Digital(q.digits)[Len(q.digits)]
  BY RequestsAssumption DEF DigitSeq
<1>2. PICK n, ds : ds \in DigitSeq /\ ds = q.digits /\ n = Digital(ds)[Len(ds)]
  BY <1>1
<1>3. PICK b, w : b = FromDigits(FALSE, ds) /\ w = b.words /\ b = Signed(FALSE, w)
  <2>1. FromDigits(FALSE, ds) = Signed(FALSE, FromDigits(FALSE, ds).words)
    BY DEF FromDigits, Signed
  <2> QED BY <2>1
<1>4. FALSE \in BOOLEAN /\ TRUE \in BOOLEAN
  OBVIOUS
<1>5. Sound(b) /\ ValueOf(w) = n /\ n \in Nat /\ Value(b) = n
  BY <1>2, <1>3, <1>4, ReadingIsRight
<1>6. Normal(w)
  BY <1>3, <1>5 DEF Sound
<1>7. CASE q.neg
  <2>1. Literal(q) = Negate(b)
    BY <1>2, <1>3, <1>7 DEF Literal
  <2>2. b \in Number /\ ~b.neg /\ b.words = w
    <3>1. b \in Number /\ b.words = w
      BY <1>3, <1>5 DEF Sound
    <3>2. ~Signed(FALSE, w).neg
      BY DEF Signed
    <3> QED BY <1>3, <3>1, <3>2
  <2>3. Negate(b) \in Number /\ Negate(b).neg /\ Negate(b).words = w
    BY <2>2 DEF Negate, Number
  <2>4. Sound(Negate(b)) /\ Value(Negate(b)) = -n
    BY <1>5, <1>6, <2>3 DEF Sound, Value
  <2> QED BY <1>1, <1>2, <1>7, <2>1, <2>4
<1>8. CASE ~q.neg
  <2>1. Literal(q) = b
    BY <1>2, <1>3, <1>8 DEF Literal
  <2> QED BY <1>1, <1>2, <1>5, <1>8, <2>1
<1> QED BY <1>1, <1>7, <1>8

LEMMA AssertAnswers ==
  ASSUME NEW f \in [Vars -> Images], NEW q \in Requests, q.op = "is", NEW g, NEW s,
         AssignOf(f, q.x, Literal(q), g, s)
  PROVE  Answers(q, f, g, s)
<1>1. q.x \in Vars /\ Sound(Literal(q)) /\ Value(Literal(q)) = q.n
  BY LiteralIs
<1>2. g \in [Vars -> Images] /\ s \in Answered /\ AssignedTo(f, q.x, q.n, g, s)
  BY <1>1, Assigning
<1>3. \A v : A!Holds(q, v) <=> v[q.x] = q.n
  BY HoldsIs
<1>4. A!Args(q) = {q.x}
  BY HoldsIs
<1>5. A!Known(WorthOf(f)[q.x]) <=> f[q.x].known
  BY <1>1, WorthIs
<1>6. A!RemainderIsLess(q, WorthOf(f), WorthOf(g))
  BY DEF A!RemainderIsLess
<1>7. IsRight(q, WorthOf(f), WorthOf(g), s)
  BY <1>2, <1>3, <1>4, <1>5, <1>6 DEF AssignedTo, IsRight
<1> QED BY <1>2, <1>7 DEF Answers

EquateOf(f, q, g, s) ==
  LET x == f[q.x]
      y == f[q.y]
  IN  \/ /\ x.known /\ y.known /\ g = f
         /\ s = IF Cmp(x.b, y.b) = 0 THEN "true" ELSE "false"
      \/ x.known /\ ~y.known /\ AssignOf(f, q.y, x.b, g, s)
      \/ ~x.known /\ y.known /\ AssignOf(f, q.x, y.b, g, s)
      \/ ~x.known /\ ~y.known /\ s = "true" /\ g = f

LEMMA EquateAnswers ==
  ASSUME NEW f \in [Vars -> Images], NEW q \in Requests, q.op = "eq", NEW g, NEW s,
         EquateOf(f, q, g, s)
  PROVE  Answers(q, f, g, s)
<1>1. PICK x \in Vars, y \in Vars : x = q.x /\ y = q.y
  <2>1. q.x \in Vars /\ q.y \in Vars
    BY RequestsAssumption
  <2> QED BY <2>1
<1>2. \A v : A!Holds(q, v) <=> v[x] = v[y]
  BY <1>1, HoldsIs
<1>3. A!Args(q) = {x, y}
  BY <1>1, HoldsIs
<1>4. \A z \in Vars : Sound(f[z].b) /\ (A!Known(WorthOf(f)[z]) <=> f[z].known)
                      /\ (f[z].known => WorthOf(f)[z] = Value(f[z].b))
  BY WorthIs
<1>5. CASE /\ f[x].known /\ f[y].known /\ g = f
           /\ s = IF Cmp(f[x].b, f[y].b) = 0 THEN "true" ELSE "false"
  <2>1. Cmp(f[x].b, f[y].b) = 0 <=> WorthOf(f)[x] = WorthOf(f)[y]
    BY <1>4, <1>5, CheckIs
  <2>2. KeepsAll(WorthOf(f), WorthOf(f))
    BY DEF KeepsAll
  <2> QED BY <1>2, <1>3, <1>4, <1>5, <2>1, <2>2 DEF Answers, Answered, IsRight, A!RemainderIsLess
<1>6. CASE f[x].known /\ ~f[y].known /\ AssignOf(f, y, f[x].b, g, s)
  <2>1. /\ g \in [Vars -> Images] /\ s \in Answered
        /\ AssignedTo(f, y, Value(f[x].b), g, s)
    BY <1>4, <1>6, Assigning
  <2>2. x # y
    BY <1>6
  <2> QED BY <1>2, <1>4, <1>6, <2>1, <2>2 DEF Answers, IsRight, AssignedTo, A!RemainderIsLess
<1>7. CASE ~f[x].known /\ f[y].known /\ AssignOf(f, x, f[y].b, g, s)
  <2>1. /\ g \in [Vars -> Images] /\ s \in Answered
        /\ AssignedTo(f, x, Value(f[y].b), g, s)
    BY <1>4, <1>7, Assigning
  <2>2. x # y
    BY <1>7
  <2> QED BY <1>2, <1>4, <1>7, <2>1, <2>2 DEF Answers, IsRight, AssignedTo, A!RemainderIsLess
<1>8. CASE ~f[x].known /\ ~f[y].known /\ s = "true" /\ g = f
  <2>1. KeepsAll(WorthOf(f), WorthOf(f))
    BY DEF KeepsAll
  <2>2. ~A!AllKnown(q, WorthOf(f))
    BY <1>3, <1>4, <1>8 DEF A!AllKnown
  <2> QED BY <1>8, <2>1, <2>2 DEF Answers, Answered, IsRight, A!RemainderIsLess
<1> QED BY <1>1, <1>5, <1>6, <1>7, <1>8 DEF EquateOf


\* Where some argument has no number afterwards, or none before.
LEMMA NothingAsked ==
  ASSUME NEW f \in [Vars -> Images], NEW q, NEW s, NEW x \in Vars, x \in A!Args(q), ~f[x].known,
         s \in {"true", "first"}
  PROVE  Answers(q, f, f, s)
<1>1. ~A!Known(WorthOf(f)[x])
  BY WorthIs
<1>2. ~A!AllKnown(q, WorthOf(f))
  BY <1>1 DEF A!AllKnown
<1>3. KeepsAll(WorthOf(f), WorthOf(f))
  BY DEF KeepsAll
<1> QED BY <1>2, <1>3 DEF Answers, Answered, IsRight, A!RemainderIsLess

PlusOf(f, q, g, s) ==
  LET x == f[q.x]
      y == f[q.y]
      sum == f[q.z]
  IN  \/ /\ x.known /\ y.known /\ sum.known /\ g = f
         /\ s = IF Cmp(Add(x.b, y.b), sum.b) = 0 THEN "true" ELSE "false"
      \/ x.known /\ y.known /\ ~sum.known /\ AssignOf(f, q.z, Add(x.b, y.b), g, s)
      \/ x.known /\ ~y.known /\ sum.known /\ AssignOf(f, q.y, Sub(sum.b, x.b), g, s)
      \/ ~x.known /\ y.known /\ sum.known /\ AssignOf(f, q.x, Sub(sum.b, y.b), g, s)
      \/ ~x.known /\ ~y.known /\ sum.known /\ s = "first" /\ g = f
      \/ ~(x.known /\ y.known) /\ ~sum.known /\ s = "true" /\ g = f

LEMMA PlusAnswers ==
  ASSUME NEW f \in [Vars -> Images], NEW q \in Requests, q.op = "plus", NEW g, NEW s,
         PlusOf(f, q, g, s)
  PROVE  Answers(q, f, g, s)
<1>1. PICK x \in Vars, y \in Vars, z \in Vars : x = q.x /\ y = q.y /\ z = q.z
  <2>1. q.x \in Vars /\ q.y \in Vars /\ q.z \in Vars
    BY RequestsAssumption
  <2> QED BY <2>1
<1>2. \A v : A!Holds(q, v) <=> v[x] + v[y] = v[z]
  BY <1>1, HoldsIs
<1>3. A!Args(q) = {x, y, z}
  BY <1>1, HoldsIs
<1>4. \A a \in Vars : Sound(f[a].b) /\ Value(f[a].b) \in Int
                      /\ (A!Known(WorthOf(f)[a]) <=> f[a].known)
                      /\ (f[a].known => WorthOf(f)[a] = Value(f[a].b))
  BY WorthIs
<1>5. PICK i \in Int, j \in Int, k \in Int :
        i = Value(f[x].b) /\ j = Value(f[y].b) /\ k = Value(f[z].b)
  BY <1>4
<1>6. /\ Sound(Add(f[x].b, f[y].b)) /\ Value(Add(f[x].b, f[y].b)) = i + j
      /\ Sound(Sub(f[z].b, f[x].b)) /\ Value(Sub(f[z].b, f[x].b)) = k - i
      /\ Sound(Sub(f[z].b, f[y].b)) /\ Value(Sub(f[z].b, f[y].b)) = k - j
  BY <1>4, <1>5, AddingIsRight
<1>7. CASE /\ f[x].known /\ f[y].known /\ f[z].known /\ g = f
           /\ s = IF Cmp(Add(f[x].b, f[y].b), f[z].b) = 0 THEN "true" ELSE "false"
  <2>1. Cmp(Add(f[x].b, f[y].b), f[z].b) = 0 <=> i + j = k
    BY <1>4, <1>5, <1>6, CheckIs
  <2>2. A!Holds(q, WorthOf(f)) <=> i + j = k
    BY <1>2, <1>4, <1>5, <1>7
  <2>3. KeepsAll(WorthOf(f), WorthOf(f))
    BY DEF KeepsAll
  <2>4. A!Known(WorthOf(f)[x]) /\ x \in A!Args(q)
    BY <1>3, <1>4, <1>7
  <2>5. CASE i + j = k
    BY <1>7, <2>1, <2>2, <2>3, <2>5 DEF Answers, Answered, IsRight, A!RemainderIsLess
  <2>6. CASE i + j # k
    BY <1>7, <2>1, <2>2, <2>4, <2>6 DEF Answers, Answered, IsRight, A!RemainderIsLess
  <2> QED BY <2>5, <2>6
<1>8. CASE f[x].known /\ f[y].known /\ ~f[z].known /\ AssignOf(f, z, Add(f[x].b, f[y].b), g, s)
  <2>1. g \in [Vars -> Images] /\ s \in Answered /\ AssignedTo(f, z, i + j, g, s)
    BY <1>6, <1>8, Assigning
  <2>2. x # z /\ y # z
    BY <1>8
  <2>3. s = "true" /\ WorthOf(g)[z] = i + j /\ WorthOf(g)[x] = i /\ WorthOf(g)[y] = j
        /\ KeepsAll(WorthOf(f), WorthOf(g))
    BY <1>4, <1>5, <1>8, <2>1, <2>2 DEF AssignedTo
  <2>4. A!Holds(q, WorthOf(g))
    BY <1>2, <2>3
  <2> QED BY <2>1, <2>3, <2>4 DEF Answers, IsRight, A!RemainderIsLess
<1>9. CASE f[x].known /\ ~f[y].known /\ f[z].known /\ AssignOf(f, y, Sub(f[z].b, f[x].b), g, s)
  <2>1. g \in [Vars -> Images] /\ s \in Answered /\ AssignedTo(f, y, k - i, g, s)
    BY <1>6, <1>9, Assigning
  <2>2. x # y /\ z # y
    BY <1>9
  <2>3. s = "true" /\ WorthOf(g)[y] = k - i /\ WorthOf(g)[x] = i /\ WorthOf(g)[z] = k
        /\ KeepsAll(WorthOf(f), WorthOf(g))
    BY <1>4, <1>5, <1>9, <2>1, <2>2 DEF AssignedTo
  <2>4. i + (k - i) = k
    OBVIOUS
  <2>5. A!Holds(q, WorthOf(g))
    BY <1>2, <2>3, <2>4
  <2> QED BY <2>1, <2>3, <2>5 DEF Answers, IsRight, A!RemainderIsLess
<1>10. CASE ~f[x].known /\ f[y].known /\ f[z].known /\ AssignOf(f, x, Sub(f[z].b, f[y].b), g, s)
  <2>1. g \in [Vars -> Images] /\ s \in Answered /\ AssignedTo(f, x, k - j, g, s)
    BY <1>6, <1>10, Assigning
  <2>2. y # x /\ z # x
    BY <1>10
  <2>3. s = "true" /\ WorthOf(g)[x] = k - j /\ WorthOf(g)[y] = j /\ WorthOf(g)[z] = k
        /\ KeepsAll(WorthOf(f), WorthOf(g))
    BY <1>4, <1>5, <1>10, <2>1, <2>2 DEF AssignedTo
  <2>4. (k - j) + j = k
    OBVIOUS
  <2>5. A!Holds(q, WorthOf(g))
    BY <1>2, <2>3, <2>4
  <2> QED BY <2>1, <2>3, <2>5 DEF Answers, IsRight, A!RemainderIsLess
<1>11. CASE ~f[x].known /\ ~f[y].known /\ f[z].known /\ s = "first" /\ g = f
  <2>1. x \in A!Args(q) /\ s \in {"true", "first"}
    BY <1>3, <1>11
  <2> QED BY <1>11, <2>1, NothingAsked
<1>12. CASE ~(f[x].known /\ f[y].known) /\ ~f[z].known /\ s = "true" /\ g = f
  <2>1. z \in A!Args(q) /\ s \in {"true", "first"}
    BY <1>3, <1>12
  <2> QED BY <1>12, <2>1, NothingAsked
<1> QED BY <1>1, <1>7, <1>8, <1>9, <1>10, <1>11, <1>12 DEF PlusOf

\* A root is the only one.
LEMMA RootIsOne ==
  ASSUME NEW n \in Nat, NEW r \in Nat, NEW t \in Nat, NEW up \in BOOLEAN,
         A!Root(n, r, up), A!Root(n, t, up)
  PROVE  r = t
<1>1. ASSUME NEW a \in Nat, NEW b \in Nat, a < b, A!Root(n, a, up), A!Root(n, b, up) PROVE FALSE
  <2>1. PICK c \in Nat : b = (a + 1) + c
    <3>1. b - (a + 1) \in Nat /\ b = (a + 1) + (b - (a + 1))
      BY <1>1
    <3> QED BY <3>1
  <2>2. CASE ~up
    <3>1. b * b <= n /\ (a + 1) * (a + 1) > n
      BY <1>1, <2>2 DEF A!Root
    <3>2. PICK x \in Nat : x = a + 1
      OBVIOUS
    <3>3. (x + c) * (x + c) = x * x + 2 * (x * c) + c * c
      BY <2>1, <3>2
    <3>4. x * c \in Nat /\ c * c \in Nat /\ x * x \in Nat
      BY <2>1, <3>2
    <3>5. x * x <= b * b
      BY <2>1, <3>2, <3>3, <3>4
    <3>6. b * b \in Nat /\ b * b <= n /\ x * x > n
      BY <3>1, <3>2
    <3> QED BY <3>4, <3>5, <3>6
  <2>3. CASE up
    <3>1. a * a >= n /\ (b - 1) * (b - 1) < n
      BY <1>1, <2>3 DEF A!Root
    <3>2. b - 1 = a + c
      BY <1>1, <2>1
    <3>3. (a + c) * (a + c) = a * a + 2 * (a * c) + c * c
      BY <1>1, <2>1
    <3>4. a * c \in Nat /\ c * c \in Nat /\ a * a \in Nat
      BY <1>1, <2>1
    <3>5. a * a <= (a + c) * (a + c)
      BY <3>3, <3>4
    <3>6. (a + c) * (a + c) < n
      BY <3>1, <3>2
    <3>7. (a + c) * (a + c) \in Nat
      BY <3>3, <3>4
    <3> QED BY <3>1, <3>4, <3>5, <3>6, <3>7
  <2> QED BY <2>2, <2>3
<1> QED BY <1>1

\* An integer is a root of its square.
LEMMA RootOfSquare ==
  ASSUME NEW t \in Nat, NEW up \in BOOLEAN, NEW n, n = t * t
  PROVE  A!Root(n, t, up)
<1>1. CASE ~up
  <2>1. (t + 1) * (t + 1) = t * t + 2 * t + 1 /\ t * t \in Nat
    OBVIOUS
  <2>2. (t + 1) * (t + 1) > t * t /\ t * t <= t * t
    BY <2>1
  <2> QED BY <1>1, <2>2 DEF A!Root
<1>2. CASE up
  <2>1. CASE t = 0
    <3>1. t * t >= n
      OBVIOUS
    <3> QED BY <1>2, <2>1, <3>1 DEF A!Root
  <2>2. CASE t # 0
    <3>1. PICK e \in Nat : t = e + 1 /\ t - 1 = e
      <4>1. t - 1 \in Nat /\ t = (t - 1) + 1
        BY <2>2
      <4> QED BY <4>1
    <3>2. (e + 1) * (e + 1) = e * e + 2 * e + 1 /\ e * e \in Nat
      OBVIOUS
    <3>3. t * t >= n /\ (t - 1) * (t - 1) < n
      BY <3>1, <3>2
    <3> QED BY <1>2, <3>3 DEF A!Root
  <2> QED BY <2>1, <2>2
<1> QED BY <1>1, <1>2

\* A number that is not negative is what its words are.
LEMMA NotNegative ==
  ASSUME NEW b, Sound(b), Value(b) >= 0
  PROVE  ValueOf(b.words) = Value(b) /\ Value(b) \in Nat
<1>1. PICK x \in Nat : x = ValueOf(b.words)
  BY SoundFacts
<1>2. b.neg \in BOOLEAN /\ Value(b) = IF b.neg THEN -x ELSE x
  BY <1>1, SoundFacts
<1>3. CASE b.neg
  <2>1. Value(b) = -x
    BY <1>2, <1>3
  <2>2. -x >= 0
    BY <2>1
  <2>3. x = 0
    BY <2>2
  <2>4. -x = x
    <3>1. \A y \in Int : -y = 0 - y
      OBVIOUS
    <3>2. -x = 0 - x /\ 0 - 0 = 0
      BY <3>1
    <3> QED BY <2>3, <3>2
  <2> QED BY <1>1, <2>1, <2>4
<1>4. CASE ~b.neg
  BY <1>1, <1>2, <1>4
<1> QED BY <1>2, <1>3, <1>4

SqrtOf(f, q, g, s) ==
  LET n == f[q.x]
      t == f[q.z]
  IN  \/ /\ n.known /\ t.known /\ ~SqrtFaults(n.b) /\ g = f
         /\ s = IF Cmp(Sqrt(n.b, q.up), t.b) = 0 THEN "true" ELSE "false"
      \/ n.known /\ ~t.known /\ ~SqrtFaults(n.b) /\ AssignOf(f, q.z, Sqrt(n.b, q.up), g, s)
      \/ /\ n.known /\ (SqrtFaults(n.b) \/ RoundingMayFail(n.b, q.up))
         /\ s = "crash" /\ g = f
      \/ ~n.known /\ t.known /\ AssignOf(f, q.x, Mul(t.b, t.b), g, s)
      \/ ~n.known /\ ~t.known /\ s = "error" /\ g = f

LEMMA SqrtAnswers ==
  ASSUME NEW f \in [Vars -> Images], NEW q \in Requests, q.op = "sqrt", NEW g, NEW s,
         SqrtOf(f, q, g, s)
  PROVE  Answers(q, f, g, s)
<1>1. PICK x \in Vars, z \in Vars, up \in BOOLEAN : x = q.x /\ z = q.z /\ up = q.up
  <2>1. q.x \in Vars /\ q.z \in Vars /\ q.up \in BOOLEAN
    BY RequestsAssumption
  <2> QED BY <2>1
<1>2. \A v : A!Holds(q, v) <=> A!Root(v[x], v[z], up)
  BY <1>1, HoldsIs
<1>3. A!Args(q) = {x, z}
  BY <1>1, HoldsIs
<1>4. \A a \in Vars : Sound(f[a].b) /\ Value(f[a].b) \in Int
                      /\ (A!Known(WorthOf(f)[a]) <=> f[a].known)
                      /\ (f[a].known => WorthOf(f)[a] = Value(f[a].b))
  BY WorthIs
<1>5. PICK i \in Int, k \in Int : i = Value(f[x].b) /\ k = Value(f[z].b)
  BY <1>4
<1>6. PICK r, h : r = Sqrt(f[x].b, up) /\ h = Value(r)
  OBVIOUS
<1>7. ASSUME f[x].known, ~SqrtFaults(f[x].b)
      PROVE  Sound(r) /\ h \in Nat /\ (i >= 0 /\ ~(up /\ i >= Word) => A!Root(i, h, up))
  <2>1. /\ Sound(r) /\ h = ValueOf(r.words)
        /\ (up /\ ValueOf(f[x].b.words) >= Word) \/ A!Root(ValueOf(f[x].b.words), h, up)
    BY <1>4, <1>6, <1>7, RootsAreRight
  <2>2. h \in Nat
    BY <2>1, SoundFacts
  <2>3. i >= 0 => ValueOf(f[x].b.words) = i
    BY <1>4, <1>5, NotNegative
  <2> QED BY <2>1, <2>2, <2>3
<1>8. CASE /\ s # "crash"
           /\ \/ f[x].known /\ (i < 0 \/ (up /\ i >= Word))
              \/ f[z].known /\ k < 0
  <2>1. A!NoPromise(q, WorthOf(f), Word)
    BY <1>1, <1>4, <1>5, <1>8 DEF A!NoPromise
  <2>2. g \in [Vars -> Images] /\ s \in Answered
    <3>1. Sound(Mul(f[z].b, f[z].b))
      BY <1>4, MultiplyingIsRight
    <3> QED BY <1>1, <1>6, <1>7, <1>8, <3>1, Assigning DEF SqrtOf, Answered
  <2> QED BY <2>1, <2>2 DEF Answers, IsRight, A!RemainderIsLess
<1>9. CASE /\ s # "crash"
           /\ f[x].known => i >= 0 /\ ~(up /\ i >= Word)
           /\ f[z].known => k >= 0
  <2>1. CASE /\ f[x].known /\ f[z].known /\ ~SqrtFaults(f[x].b) /\ g = f
             /\ s = IF Cmp(r, f[z].b) = 0 THEN "true" ELSE "false"
    <3>1. Cmp(r, f[z].b) = 0 <=> h = k
      BY <1>4, <1>5, <1>6, <1>7, <2>1, CheckIs
    <3>2. A!Root(i, h, up) /\ i \in Nat /\ k \in Nat /\ h \in Nat
      BY <1>7, <1>9, <2>1
    <3>3. A!Holds(q, WorthOf(f)) <=> A!Root(i, k, up)
      BY <1>2, <1>4, <1>5, <2>1
    <3>4. A!Holds(q, WorthOf(f)) <=> h = k
      BY <3>2, <3>3, RootIsOne
    <3>5. KeepsAll(WorthOf(f), WorthOf(f))
      BY DEF KeepsAll
    <3>6. A!Known(WorthOf(f)[x]) /\ x \in A!Args(q)
      BY <1>3, <1>4, <2>1
    <3>7. CASE h = k
      BY <2>1, <3>1, <3>4, <3>5, <3>7 DEF Answers, Answered, IsRight, A!RemainderIsLess
    <3>8. CASE h # k
      BY <2>1, <3>1, <3>4, <3>6, <3>8 DEF Answers, Answered, IsRight, A!RemainderIsLess
    <3> QED BY <3>7, <3>8
  <2>2. CASE f[x].known /\ ~f[z].known /\ ~SqrtFaults(f[x].b) /\ AssignOf(f, z, r, g, s)
    <3>1. g \in [Vars -> Images] /\ s \in Answered /\ AssignedTo(f, z, h, g, s)
      BY <1>6, <1>7, <2>2, Assigning
    <3>2. x # z
      BY <2>2
    <3>3. s = "true" /\ WorthOf(g)[z] = h /\ WorthOf(g)[x] = i
          /\ KeepsAll(WorthOf(f), WorthOf(g))
      BY <1>4, <1>5, <2>2, <3>1, <3>2 DEF AssignedTo
    <3>4. A!Root(i, h, up)
      BY <1>7, <1>9, <2>2
    <3>5. A!Holds(q, WorthOf(g))
      BY <1>2, <3>3, <3>4
    <3> QED BY <3>1, <3>3, <3>5 DEF Answers, IsRight, A!RemainderIsLess
  <2>3. CASE ~f[x].known /\ f[z].known /\ AssignOf(f, x, Mul(f[z].b, f[z].b), g, s)
    <3>1. PICK m : m = Mul(f[z].b, f[z].b) /\ Sound(m) /\ Value(m) = k * k
      BY <1>4, <1>5, MultiplyingIsRight
    <3>2. PICK n : n = Value(m)
      OBVIOUS
    <3>3. g \in [Vars -> Images] /\ s \in Answered /\ AssignedTo(f, x, n, g, s)
      BY <2>3, <3>1, <3>2, Assigning
    <3>4. x # z
      BY <2>3
    <3>5. s = "true" /\ WorthOf(g)[x] = n /\ WorthOf(g)[z] = k
          /\ KeepsAll(WorthOf(f), WorthOf(g))
      BY <1>4, <1>5, <2>3, <3>3, <3>4 DEF AssignedTo
    <3>6. k \in Nat
      BY <1>9, <2>3
    <3>7. A!Root(n, k, up)
      BY <3>1, <3>2, <3>6, RootOfSquare
    <3>8. A!Holds(q, WorthOf(g))
      BY <1>2, <3>5, <3>7
    <3> QED BY <3>3, <3>5, <3>8 DEF Answers, IsRight, A!RemainderIsLess
  <2>4. CASE ~f[x].known /\ ~f[z].known /\ s = "error" /\ g = f
    BY <2>4 DEF Answers, Answered
  <2> QED BY <1>1, <1>6, <1>9, <2>1, <2>2, <2>3, <2>4 DEF SqrtOf
<1>10. CASE s = "crash"
  <2>1. f[x].known /\ (SqrtFaults(f[x].b) \/ RoundingMayFail(f[x].b, up)) /\ g = f
    BY <1>1, <1>10 DEF SqrtOf, AssignOf
  <2>2. SqrtFaults(f[x].b) => Len(f[x].b.words) > 1 /\ BitLength(f[x].b.words) % 2 = 0
    BY <1>4, RootsFault
  <2>3. CrashOf(q, f)
    BY <1>1, <2>1, <2>2 DEF CrashOf, RoundingMayFail
  <2> QED BY <1>10, <2>1, <2>3 DEF Answers
<1> QED BY <1>5, <1>8, <1>9, <1>10, WordFacts


LEMMA NoWordsNoValue ==
  ASSUME NEW b, Sound(b), b.words = <<>>
  PROVE  Value(b) = 0
<1>1. PICK x \in Nat : x = ValueOf(b.words)
  BY SoundFacts
<1>2. x = 0
  BY <1>1, SoundFacts
<1>3. \A y \in Int : -y = 0 - y
  OBVIOUS
<1>4. -x = 0 - x /\ 0 - 0 = 0
  BY <1>3
<1>5. Value(b) = IF b.neg THEN -x ELSE x
  BY <1>1, SoundFacts
<1> QED BY <1>2, <1>4, <1>5

DividesOf(f, mod, r, x, p, o, g, s) ==
  \/ DivFails(p, o, mod) /\ s = "false" /\ g = f
  \/ /\ ~DivFails(p, o, mod) /\ s = "true"
     /\ g = IF mod THEN [f EXCEPT ![r] = Holding(Modulus(p, o)), ![x] = Holding(Quotient(p, o))]
            ELSE [f EXCEPT ![x] = Holding(Quotient(p, o))]

FactorOf(f, mod, r, x, k, j, g, s) ==
  \/ s = "false" /\ g = f
  \/ /\ s = "true" /\ KeepsAll(WorthOf(f), WorthOf(g))
     /\ \A y \in Vars : y # x /\ (mod => y # r) => WorthOf(g)[y] = WorthOf(f)[y]
     /\ \E i \in Int, m \in Int :
          /\ k = i * j + m
          /\ WorthOf(g)[x] = i
          /\ IF mod THEN WorthOf(g)[r] = m /\ A!Less(m, j) ELSE m = 0

\* One factor of a product and another: the integers i of the product, j of
\* the other factor, that is not zero.
LEMMA FactorFound ==
  ASSUME NEW f \in [Vars -> Images], NEW x \in Vars, ~f[x].known,
         NEW p, NEW o, Sound(p), Sound(o), NEW mod \in BOOLEAN,
         NEW r, mod => r \in Vars /\ r # x /\ ~f[r].known,
         NEW g, NEW s, DividesOf(f, mod, r, x, p, o, g, s), Value(o) # 0
  PROVE  FactorOf(f, mod, r, x, Value(p), Value(o), g, s)
<1>1. CASE s = "false" /\ g = f
  BY <1>1 DEF FactorOf
<1>2. CASE ~(s = "false" /\ g = f)
  <2>1. PICK a, b : a = Quotient(p, o) /\ b = Modulus(p, o)
    OBVIOUS
  <2>2. o.words # <<>>
    <3>1. ASSUME o.words = <<>> PROVE FALSE
      <4> QED BY <3>1, NoWordsNoValue
    <3> QED BY <3>1
  <2>3. a = DivMod(p, o).q /\ b = DivMod(p, o).m
    BY <2>1, <2>2 DEF Quotient, Modulus
  <2>4. Sound(a) /\ Sound(b) /\ Value(p) = Value(a) * Value(o) + Value(b)
    BY <2>2, <2>3, DividingIsRight
  <2>5. PICK i \in Int, m \in Int : i = Value(a) /\ m = Value(b)
    BY <2>4, SoundFacts
  <2>6. ~DivFails(p, o, mod) /\ s = "true"
        /\ g = IF mod THEN [f EXCEPT ![r] = Holding(b), ![x] = Holding(a)]
               ELSE [f EXCEPT ![x] = Holding(a)]
    BY <1>2, <2>1 DEF DividesOf
  <2>7. Value(p) = i * Value(o) + m
    BY <2>4, <2>5
  <2>8. A!Less(m, Value(o))
    <3>1. PICK t \in Nat, u \in Nat : t = ValueOf(b.words) /\ u = ValueOf(o.words)
      BY <2>4, SoundFacts
    <3>2. t < u
      BY <2>2, <2>3, <3>1, DividingIsRight
    <3>3. PICK e \in BOOLEAN, h \in BOOLEAN : e = b.neg /\ h = o.neg
      BY <2>4, SoundFacts
    <3>4. m = IF e THEN -t ELSE t
      BY <2>5, <3>1, <3>3 DEF Value
    <3>5. Value(o) = IF h THEN -u ELSE u
      BY <3>1, <3>3 DEF Value
    <3>6. PICK w \in Int : w = Value(o)
      BY SoundFacts
    <3>7. \/ m < w /\ -m < w
          \/ m < -w /\ -m < -w
      BY <3>2, <3>4, <3>5, <3>6
    <3> QED BY <3>6, <3>7 DEF A!Less
  <2>9. CASE mod
    <3>1. PICK h : h = [f EXCEPT ![r] = Holding(b)]
      OBVIOUS
    <3>2. Held(f, r, b, h) /\ r \in Vars /\ r # x /\ ~f[r].known
      BY <2>4, <2>9, <3>1, HoldingIs
    <3>3. h \in [Vars -> Images] /\ h[x] = f[x]
      BY <3>2 DEF Held
    <3>4. g = [h EXCEPT ![x] = Holding(a)]
      BY <2>6, <2>9, <3>1
    <3>5. Held(h, x, a, g)
      BY <2>4, <3>3, <3>4, HoldingIs
    <3>6. g \in [Vars -> Images] /\ WorthOf(g)[x] = i /\ WorthOf(g)[r] = m
          /\ \A y \in Vars : y # x /\ y # r => WorthOf(g)[y] = WorthOf(f)[y]
      BY <2>5, <3>2, <3>5 DEF Held
    <3>7. KeepsAll(WorthOf(f), WorthOf(g))
      <4>1. KeepsAll(WorthOf(f), WorthOf(h))
        BY <3>2 DEF Held
      <4>2. KeepsAll(WorthOf(h), WorthOf(g))
        BY <3>3, <3>5 DEF Held
      <4> QED BY <4>1, <4>2 DEF KeepsAll
    <3> QED BY <2>6, <2>7, <2>9, <2>8, <3>6, <3>7 DEF FactorOf
  <2>10. CASE ~mod
    <3>1. g = [f EXCEPT ![x] = Holding(a)]
      BY <2>6, <2>10
    <3>2. Held(f, x, a, g)
      BY <2>4, <3>1, HoldingIs
    <3>3. g \in [Vars -> Images] /\ WorthOf(g)[x] = i
          /\ (\A y \in Vars : y # x => WorthOf(g)[y] = WorthOf(f)[y])
          /\ KeepsAll(WorthOf(f), WorthOf(g))
      BY <2>5, <3>2 DEF Held
    <3>4. b.words = <<>>
      BY <2>2, <2>3, <2>6, <2>10 DEF DivFails
    <3>5. m = 0
      BY <2>4, <2>5, <3>4, NoWordsNoValue
    <3> QED BY <2>6, <2>7, <2>10, <3>3, <3>5 DEF FactorOf
  <2> QED BY <2>9, <2>10
<1> QED BY <1>1, <1>2

\* Whatever is divided by what, numbers remain.
NumbersRemain(g, s) == g \in [Vars -> Images] /\ s \in Answered
LEMMA DividingIsTyped ==
  ASSUME NEW f \in [Vars -> Images], NEW x \in Vars, NEW p, NEW o, Sound(p), Sound(o),
         NEW mod \in BOOLEAN, NEW r, mod => r \in Vars,
         NEW g, NEW s, DividesOf(f, mod, r, x, p, o, g, s)
  PROVE  NumbersRemain(g, s)
<1>1. PICK a, b : a = Quotient(p, o) /\ b = Modulus(p, o)
  OBVIOUS
<1>2. Sound(a) /\ Sound(b)
  <2>1. CASE o.words = <<>>
    <3>1. <<>> \in Seq(Words) /\ Len(<<>>) = 0 /\ FALSE \in BOOLEAN
      OBVIOUS
    <3>2. Normal(<<>>)
      BY <3>1 DEF Normal
    <3>3. Zero = Signed(FALSE, <<>>)
      BY DEF Zero, Signed
    <3>4. Sound(Zero)
      BY <3>1, <3>2, <3>3, SignedIsSound
    <3> QED BY <1>1, <2>1, <3>4 DEF Quotient, Modulus
  <2>2. CASE o.words # <<>>
    <3>1. a = DivMod(p, o).q /\ b = DivMod(p, o).m
      BY <1>1, <2>2 DEF Quotient, Modulus
    <3> QED BY <2>2, <3>1, DividingIsRight
  <2> QED BY <2>1, <2>2
<1>3. CASE DivFails(p, o, mod) /\ s = "false" /\ g = f
  BY <1>3 DEF Answered, NumbersRemain
<1>4. CASE s = "true" /\ mod /\ g = [f EXCEPT ![r] = Holding(b), ![x] = Holding(a)]
  <2>1. PICK h : h = [f EXCEPT ![r] = Holding(b)]
    OBVIOUS
  <2>2. Held(f, r, b, h)
    BY <1>2, <1>4, <2>1, HoldingIs
  <2>3. h \in [Vars -> Images] /\ g = [h EXCEPT ![x] = Holding(a)]
    BY <1>4, <2>1, <2>2 DEF Held
  <2>4. Held(h, x, a, g)
    BY <1>2, <2>3, HoldingIs
  <2> QED BY <1>4, <2>4 DEF Held, Answered, NumbersRemain
<1>5. CASE s = "true" /\ g = [f EXCEPT ![x] = Holding(a)]
  <2>1. Held(f, x, a, g)
    BY <1>2, <1>5, HoldingIs
  <2> QED BY <1>5, <2>1 DEF Held, Answered, NumbersRemain
<1> QED BY <1>1, <1>3, <1>4, <1>5 DEF DividesOf


MultiplyOf(f, q, g, s) ==
  LET x == f[q.x]
      y == f[q.y]
      prod == f[q.z]
      mod == q.op = "mod"
  IN  \/ /\ x.known /\ y.known /\ prod.known /\ g = f
         /\ s = IF Cmp(Mul(x.b, y.b), prod.b) = 0 THEN "true" ELSE "false"
      \/ x.known /\ y.known /\ ~prod.known /\ AssignOf(f, q.z, Mul(x.b, y.b), g, s)
      \/ x.known /\ ~y.known /\ prod.known /\ DividesOf(f, mod, q.r, q.y, prod.b, x.b, g, s)
      \/ ~x.known /\ y.known /\ prod.known /\ DividesOf(f, mod, q.r, q.x, prod.b, y.b, g, s)
      \/ /\ (~prod.known /\ ~(x.known /\ y.known)) \/ (~x.known /\ ~y.known)
         /\ s = "first" /\ g = f

\* A factor of product z, x of it known and y not, or the other way round.
LEMMA FactorAnswers ==
  ASSUME NEW f \in [Vars -> Images], NEW q \in Requests, q.op \in {"mul", "mod"},
         NEW x \in Vars, NEW y \in Vars, NEW z \in Vars, z = q.z,
         \/ x = q.x /\ y = q.y
         \/ x = q.y /\ y = q.x,
         f[x].known, ~f[y].known, f[z].known, NEW g, NEW s,
         DividesOf(f, q.op = "mod", q.r, y, f[z].b, f[x].b, g, s)
  PROVE  Answers(q, f, g, s)
<1>1. PICK mod \in BOOLEAN : mod <=> q.op = "mod"
  OBVIOUS
<1>2. DividesOf(f, mod, q.r, y, f[z].b, f[x].b, g, s)
  BY <1>1 DEF DividesOf, DivFails
<1>3. mod => q.r \in Vars /\ q.r # q.x /\ q.r # q.y
  BY <1>1, RequestsAssumption
<1>4. \A a \in Vars : Sound(f[a].b) /\ Value(f[a].b) \in Int
                      /\ (A!Known(WorthOf(f)[a]) <=> f[a].known)
                      /\ (f[a].known => WorthOf(f)[a] = Value(f[a].b))
  BY WorthIs
<1>5. PICK j \in Int, k \in Int : j = Value(f[x].b) /\ k = Value(f[z].b)
  BY <1>4
<1>6. WorthOf(f)[x] = j /\ WorthOf(f)[z] = k /\ ~A!Known(WorthOf(f)[y])
  BY <1>4, <1>5
<1>7. g \in [Vars -> Images] /\ s \in Answered
  <2>1. PICK p, o, r : p = f[z].b /\ o = f[x].b /\ r = q.r
    OBVIOUS
  <2>2. Sound(p) /\ Sound(o) /\ (mod => r \in Vars)
    BY <1>3, <1>4, <2>1
  <2>3. DividesOf(f, mod, r, y, p, o, g, s)
    BY <1>2, <2>1
  <2>4. NumbersRemain(g, s)
    BY <2>2, <2>3, DividingIsTyped
  <2> QED BY <2>4 DEF NumbersRemain
<1>8. CASE j = 0 \/ (mod /\ f[q.r].known)
  <2>1. 0 # NoInt
    BY VarsAssumption
  <2>2. A!Known(WorthOf(f)[q.z]) /\ (A!Known(WorthOf(f)[q.x]) # A!Known(WorthOf(f)[q.y]))
    BY <1>4
  <2>3. CASE j = 0
    <3>1. 0 \in {WorthOf(f)[q.x], WorthOf(f)[q.y]} \ {NoInt}
      BY <1>6, <2>1, <2>3
    <3>2. A!NoPromise(q, WorthOf(f), Word)
      BY <2>2, <3>1 DEF A!NoPromise
    <3> QED BY <1>7, <3>2 DEF Answers, IsRight
  <2>4. CASE mod /\ f[q.r].known
    <3>1. A!Known(WorthOf(f)[q.r])
      BY <1>3, <1>4, <2>4
    <3>2. A!NoPromise(q, WorthOf(f), Word)
      BY <1>1, <2>4, <3>1 DEF A!NoPromise
    <3> QED BY <1>7, <3>2 DEF Answers, IsRight
  <2> QED BY <1>8, <2>3, <2>4
<1>9. CASE j # 0 /\ (mod => ~f[q.r].known)
  <2>1. /\ y \in A!Args(q) /\ x \in A!Args(q)
        /\ \A v : A!Holds(q, v) <=> IF mod THEN v[q.x] * v[q.y] + v[q.r] = v[z]
                                    ELSE v[q.x] * v[q.y] = v[z]
    BY <1>1, HoldsIs
  <2>2. mod => q.r \in Vars /\ q.r # y /\ ~f[q.r].known
    BY <1>3, <1>9
  <2>3. Value(f[x].b) # 0
    BY <1>5, <1>9
  <2>4. CASE s = "false" /\ g = f
    <3>1. ~A!AllKnown(q, WorthOf(f))
      BY <1>6, <2>1 DEF A!AllKnown
    <3>2. A!Known(WorthOf(f)[x])
      BY <1>4
    <3> QED BY <1>7, <2>1, <2>4, <3>1, <3>2 DEF Answers, IsRight
  <2>5. CASE /\ s = "true" /\ KeepsAll(WorthOf(f), WorthOf(g))
             /\ \A a \in Vars : a # y /\ (mod => a # q.r) => WorthOf(g)[a] = WorthOf(f)[a]
             /\ \E i \in Int, m \in Int :
                  /\ Value(f[z].b) = i * Value(f[x].b) + m
                  /\ WorthOf(g)[y] = i
                  /\ IF mod THEN WorthOf(g)[q.r] = m /\ A!Less(m, Value(f[x].b)) ELSE m = 0
    <3>1. PICK i \in Int, m \in Int :
            /\ k = i * j + m
            /\ WorthOf(g)[y] = i
            /\ IF mod THEN WorthOf(g)[q.r] = m /\ A!Less(m, j) ELSE m = 0
      BY <1>5, <2>5
    <3>2. x # y /\ z # y
      OBVIOUS
    <3>3. mod => x # q.r /\ z # q.r
      BY <1>3, <2>2
    <3>4. WorthOf(g)[x] = j /\ WorthOf(g)[z] = k
      BY <1>6, <2>5, <3>2, <3>3
    <3>5. PICK c \in Int : c = i * j
      OBVIOUS
    <3>6. j * i = c
      BY <3>5
    <3>7. WorthOf(g)[q.x] * WorthOf(g)[q.y] = c
      BY <3>1, <3>4, <3>5, <3>6
    <3>8. k = c + m
      BY <3>1, <3>5
    <3>9. A!Holds(q, WorthOf(g))
      <4>1. CASE mod
        BY <2>1, <3>1, <3>4, <3>7, <3>8, <4>1
      <4>2. CASE ~mod
        <5>1. m = 0 /\ k = c
          BY <3>1, <3>5, <3>8, <4>2
        <5> QED BY <2>1, <3>4, <3>7, <4>2, <5>1
      <4> QED BY <4>1, <4>2
    <3>10. A!RemainderIsLess(q, WorthOf(f), WorthOf(g))
      <4>1. \A a \in {q.x, q.y} : A!Known(WorthOf(f)[a]) => a = x
        BY <1>6
      <4>2. mod => A!Less(WorthOf(g)[q.r], WorthOf(f)[x])
        BY <1>6, <3>1
      <4> QED BY <1>1, <4>1, <4>2 DEF A!RemainderIsLess
    <3> QED BY <1>7, <2>5, <3>9, <3>10 DEF Answers, IsRight
  <2>6. FactorOf(f, mod, q.r, y, Value(f[z].b), Value(f[x].b), g, s)
    <3>1. PICK p, o, r : p = f[z].b /\ o = f[x].b /\ r = q.r
      OBVIOUS
    <3>2. Sound(p) /\ Sound(o) /\ Value(o) # 0 /\ (mod => r \in Vars /\ r # y /\ ~f[r].known)
      BY <1>4, <2>2, <2>3, <3>1
    <3>3. DividesOf(f, mod, r, y, p, o, g, s)
      BY <1>2, <3>1
    <3>4. FactorOf(f, mod, r, y, Value(p), Value(o), g, s)
      BY <3>2, <3>3, FactorFound
    <3> QED BY <3>1, <3>4
  <2> QED BY <2>4, <2>5, <2>6 DEF FactorOf
<1> QED BY <1>8, <1>9

LEMMA MultiplyAnswers ==
  ASSUME NEW f \in [Vars -> Images], NEW q \in Requests, q.op \in {"mul", "mod"}, NEW g, NEW s,
         MultiplyOf(f, q, g, s)
  PROVE  Answers(q, f, g, s)
<1>1. PICK x \in Vars, y \in Vars, z \in Vars : x = q.x /\ y = q.y /\ z = q.z
  <2>1. q.x \in Vars /\ q.y \in Vars /\ q.z \in Vars
    BY RequestsAssumption
  <2> QED BY <2>1
<1>2. {x, y, z} \subseteq A!Args(q)
  BY <1>1, HoldsIs
<1>3. \A a \in Vars : Sound(f[a].b) /\ Value(f[a].b) \in Int
                      /\ (A!Known(WorthOf(f)[a]) <=> f[a].known)
                      /\ (f[a].known => WorthOf(f)[a] = Value(f[a].b))
  BY WorthIs
<1>4. PICK i \in Int, j \in Int, k \in Int :
        i = Value(f[x].b) /\ j = Value(f[y].b) /\ k = Value(f[z].b)
  BY <1>3
<1>5. PICK m, n : m = Mul(f[x].b, f[y].b) /\ Sound(m) /\ n = Value(m) /\ n = i * j
  BY <1>3, <1>4, MultiplyingIsRight
<1>6. q.op = "mul" => \A v : A!Holds(q, v) <=> v[x] * v[y] = v[z]
  BY <1>1, HoldsIs
<1>7. CASE /\ f[x].known /\ f[y].known /\ f[z].known /\ g = f
           /\ s = IF Cmp(m, f[z].b) = 0 THEN "true" ELSE "false"
  <2>1. CASE q.op = "mod"
    <3>1. A!NoPromise(q, WorthOf(f), Word)
      <4>1. A!Known(WorthOf(f)[q.x]) = A!Known(WorthOf(f)[q.y])
        <5>1. WorthOf(f)[q.x] # NoInt /\ WorthOf(f)[q.y] # NoInt
          BY <1>1, <1>3, <1>7 DEF A!Known
        <5> QED BY <5>1 DEF A!Known
      <4> QED BY <2>1, <4>1 DEF A!NoPromise
    <3> QED BY <1>7, <3>1 DEF Answers, Answered, IsRight
  <2>2. CASE q.op = "mul"
    <3>1. Cmp(m, f[z].b) = 0 <=> n = k
      <4>1. Sound(m) /\ n = Value(m) /\ Sound(f[z].b) /\ k = Value(f[z].b)
        BY <1>3, <1>4, <1>5
      <4> QED BY <4>1, CheckIs
    <3>2. A!Holds(q, WorthOf(f)) <=> n = k
      <4>1. WorthOf(f)[x] = i /\ WorthOf(f)[y] = j /\ WorthOf(f)[z] = k
        BY <1>3, <1>4, <1>7
      <4> QED BY <1>5, <1>6, <2>2, <4>1
    <3>3. KeepsAll(WorthOf(f), WorthOf(f))
      BY DEF KeepsAll
    <3>4. A!Known(WorthOf(f)[x]) /\ x \in A!Args(q)
      BY <1>2, <1>3, <1>7
    <3>5. A!RemainderIsLess(q, WorthOf(f), WorthOf(g))
      BY <2>2 DEF A!RemainderIsLess
    <3>6. CASE n = k
      BY <1>7, <3>1, <3>2, <3>3, <3>6, <3>5 DEF Answers, Answered, IsRight
    <3>7. CASE n # k
      BY <1>7, <3>1, <3>2, <3>4, <3>7 DEF Answers, Answered, IsRight
    <3> QED BY <3>6, <3>7
  <2> QED BY <2>1, <2>2
<1>8. CASE f[x].known /\ f[y].known /\ ~f[z].known /\ AssignOf(f, z, m, g, s)
  <2>1. g \in [Vars -> Images] /\ s \in Answered /\ AssignedTo(f, z, n, g, s)
    BY <1>5, <1>8, Assigning
  <2>2. CASE q.op = "mod"
    <3>1. A!NoPromise(q, WorthOf(f), Word)
      BY <1>1, <1>3, <1>8, <2>2 DEF A!NoPromise
    <3> QED BY <2>1, <3>1 DEF Answers, IsRight
  <2>3. CASE q.op = "mul"
    <3>1. x # z /\ y # z
      BY <1>8
    <3>2. s = "true" /\ WorthOf(g)[z] = n /\ WorthOf(g)[x] = i /\ WorthOf(g)[y] = j
          /\ KeepsAll(WorthOf(f), WorthOf(g))
      BY <1>3, <1>4, <1>8, <2>1, <3>1 DEF AssignedTo
    <3>3. A!Holds(q, WorthOf(g))
      BY <1>5, <1>6, <2>3, <3>2
    <3>4. A!RemainderIsLess(q, WorthOf(f), WorthOf(g))
      BY <2>3 DEF A!RemainderIsLess
    <3> QED BY <2>1, <3>2, <3>3, <3>4 DEF Answers, IsRight
  <2> QED BY <2>2, <2>3
<1>9. CASE /\ f[x].known /\ ~f[y].known /\ f[z].known
           /\ DividesOf(f, q.op = "mod", q.r, y, f[z].b, f[x].b, g, s)
  BY <1>1, <1>9, FactorAnswers
<1>10. CASE /\ ~f[x].known /\ f[y].known /\ f[z].known
            /\ DividesOf(f, q.op = "mod", q.r, x, f[z].b, f[y].b, g, s)
  BY <1>1, <1>10, FactorAnswers
<1>11. CASE /\ (~f[z].known /\ ~(f[x].known /\ f[y].known)) \/ (~f[x].known /\ ~f[y].known)
            /\ s = "first" /\ g = f
  <2>1. s \in {"true", "first"} /\ (~f[x].known \/ ~f[z].known)
    BY <1>11
  <2> QED BY <1>2, <1>11, <2>1, NothingAsked
<1> QED BY <1>1, <1>5, <1>7, <1>8, <1>9, <1>10, <1>11 DEF MultiplyOf


LEMMA InitIsSound == Init => CalcInv
<1> SUFFICES ASSUME Init PROVE CalcInv
  OBVIOUS
<1>1. <<>> \in Seq(Words) /\ Len(<<>>) = 0 /\ FALSE \in BOOLEAN
  OBVIOUS
<1>2. Normal(<<>>)
  BY <1>1 DEF Normal
<1>3. Zero = Signed(FALSE, <<>>)
  BY DEF Zero, Signed
<1>4. Sound(Zero)
  BY <1>1, <1>2, <1>3, SignedIsSound
<1>5. Zero \in Number
  BY <1>4 DEF Sound
<1>6. Unknown \in Images
  BY <1>4, <1>5 DEF Unknown, Images
<1> QED BY <1>6, BoundsAssumption DEF Init, CalcInv, Answered

\* Each action gives an answer to a request.
LEMMA NextAnswers ==
  ASSUME CalcInv, Next
  PROVE  \E q \in Requests : Asks(q) /\ Answers(q, int, int', said')
<1>1. int \in [Vars -> Images]
  BY DEF CalcInv
<1>2. CASE AssertInteger
  <2>1. PICK q \in Requests : q.op = "is" /\ Asks(q) /\ Assign(q.x, Literal(q))
    BY <1>2 DEF AssertInteger
  <2>2. AssignOf(int, q.x, Literal(q), int', said')
    BY <2>1 DEF Assign, AssignOf, Check, Answer
  <2> QED BY <1>1, <2>1, <2>2, AssertAnswers
<1>3. CASE Equate
  <2>1. PICK q \in Requests : /\ q.op = "eq" /\ Asks(q)
                              /\ EquateOf(int, q, int', said')
    BY <1>3 DEF Equate, EquateOf, Assign, AssignOf, Check, Answer
  <2> QED BY <1>1, <2>1, EquateAnswers
<1>4. CASE Plus
  <2>1. PICK q \in Requests : /\ q.op = "plus" /\ Asks(q)
                              /\ PlusOf(int, q, int', said')
    BY <1>4 DEF Plus, PlusOf, Assign, AssignOf, Check, Answer
  <2> QED BY <1>1, <2>1, PlusAnswers
<1>5. CASE Multiply
  <2>1. PICK q \in Requests : /\ q.op \in {"mul", "mod"} /\ Asks(q)
                              /\ MultiplyOf(int, q, int', said')
    BY <1>5 DEF Multiply, MultiplyOf, Assign, AssignOf, Check, Answer, Divides, DividesOf
  <2> QED BY <1>1, <2>1, MultiplyAnswers
<1>6. CASE SquareRoot
  <2>1. PICK q \in Requests : /\ q.op = "sqrt" /\ Asks(q)
                              /\ SqrtOf(int, q, int', said')
    BY <1>6 DEF SquareRoot, SqrtOf, Assign, AssignOf, Check, Answer
  <2> QED BY <1>1, <2>1, SqrtAnswers
<1> QED BY <1>2, <1>3, <1>4, <1>5, <1>6 DEF Next

LEMMA StepIsSound == CalcInv /\ [Next]_vars => CalcInv'
<1> SUFFICES ASSUME CalcInv, [Next]_vars PROVE CalcInv'
  OBVIOUS
<1>1. CASE Next
  <2>1. PICK q \in Requests : Asks(q) /\ Answers(q, int, int', said')
    BY <1>1, NextAnswers
  <2>2. count' \in 0..MaxAsked
    BY <2>1, BoundsAssumption DEF Asks, CalcInv
  <2> QED BY <2>1, <2>2 DEF Answers, CalcInv
<1>2. CASE UNCHANGED vars
  BY <1>2 DEF CalcInv, vars
<1> QED BY <1>1, <1>2

LEMMA AlwaysSound == Spec => []CalcInv
BY InitIsSound, StepIsSound, PTL DEF Spec

LEMMA SoundImages ==
  ASSUME CalcInv, NEW x \in Vars
  PROVE  Sound(int[x].b)
BY WorthIs DEF CalcInv

\* Whatever is asked, a variable holds words that fit, ordered as the integers
\* are, with the index of the highest bit where it should be.
THEOREM NumbersAreSound == Spec => []NumbersSound
<1>1. CalcInv => NumbersSound
  <2> SUFFICES ASSUME CalcInv PROVE NumbersSound
    OBVIOUS
  <2>1. TypeOK
    <3>1. ASSUME NEW x \in Vars
          PROVE  int[x].b \in Number /\ int[x].b.words = Truncate(int[x].b.words)
      <4>1. Sound(int[x].b)
        BY SoundImages
      <4>2. int[x].b \in Number /\ Normal(int[x].b.words)
        BY <4>1 DEF Sound
      <4> QED BY <4>2, NormalIsTruncated DEF Normal
    <3> QED BY <3>1 DEF TypeOK, CalcInv, Answered
  <2>2. ComparesAsIntegers
    BY SoundImages, ComparingIsRight DEF ComparesAsIntegers
  <2>3. IndexIsExact
    <3> SUFFICES ASSUME NEW x \in Vars, BitLength(int[x].b.words) <= Mantissa + 1
                 PROVE  ValueOf(Double(int[x].b).mantissa)
                          = ValueOf(int[x].b.words) * Two[-Double(int[x].b).shift]
      BY DEF IndexIsExact
    <3>1. PICK b, d : b = int[x].b /\ d = Double(b)
      OBVIOUS
    <3>2. Sound(b)
      BY <3>1, SoundImages
    <3> QED BY <3>1, <3>2, DoubleIsExact
  <2> QED BY <2>1, <2>2, <2>3 DEF NumbersSound
<1> QED BY <1>1, AlwaysSound, PTL

\* A number that is written where there is room for it and read again is that
\* number, in no more words than its digits are given.
THEOREM WritingIsRead == Spec => []WrittenAndRead
<1>1. CalcInv => WrittenAndRead
  <2> SUFFICES ASSUME CalcInv, NEW x \in Vars, RoomFor(int[x].b, Buffer)
               PROVE  LET b == int[x].b
                          t == Write(b, Buffer)
                      IN  /\ Cmp(FromDigits(t.neg, t.digits), b) = 0
                          /\ Len(b.words) <= DigitsBound(Len(t.digits))
    BY DEF WrittenAndRead, RoomFor
  <2>1. Sound(int[x].b)
    BY SoundImages
  <2> QED BY <2>1, ReadAsWritten, BoundsAssumption
<1> QED BY <1>1, AlwaysSound, PTL

\* Every answer of the predicates on integers is what Arithmetic promises, for
\* words, digits and numbers of any size; only a root may end the program
\* instead, of more than one word, when those are an even number of bits or the
\* root is rounded up.
THEOREM AnswersAreThePromised == Spec => AnswersAreRight
<1>1. CalcInv /\ [Next]_vars
        => [asked'.op # "none" => \/ said' = "error"
                                  \/ said' = "crash" /\ MayCrash(asked')
                                  \/ said' # "crash" /\ A!Says(asked', Word)]_vars
  <2> SUFFICES ASSUME CalcInv, Next
               PROVE  \/ said' = "error"
                      \/ said' = "crash" /\ MayCrash(asked')
                      \/ said' # "crash" /\ A!Says(asked', Word)
    BY DEF vars
  <2>1. PICK q \in Requests : Asks(q) /\ Answers(q, int, int', said')
    BY NextAnswers
  <2>2. asked' = q
    BY <2>1 DEF Asks
  <2>3. Worth = WorthOf(int) /\ Worth' = WorthOf(int')
    BY DEF Worth, WorthOf
  <2>4. CASE said' = "crash" /\ CrashOf(q, int)
    BY <2>2, <2>4 DEF CrashOf, MayCrash
  <2>5. CASE said' \in Answered /\ (said' = "error" \/ IsRight(q, WorthOf(int), WorthOf(int'), said'))
    <3>1. said' # "crash"
      BY <2>5 DEF Answered
    <3>2. said' = "error" \/ IsRight(asked', Worth, Worth', said')
      BY <2>2, <2>3, <2>5
    <3> QED BY <3>1, <3>2, SaysIsRight
  <2> QED BY <2>1, <2>4, <2>5 DEF Answers
<1> QED BY <1>1, AlwaysSound, PTL DEF Spec, AnswersAreRight
=============================================================================
