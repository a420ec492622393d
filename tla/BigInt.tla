------------------------------- MODULE BigInt -------------------------------
(***************************************************************************)
(* Arbitrary precision integers (src/src/bigint.c): what the language's    *)
(* integers are computed with.  A number is a sign and words, the low one  *)
(* first; every operator follows the loops of the code on those words, so  *)
(* that carries, borrows and lengths are the code's.  Pure operators: the  *)
(* machine that uses them is in Calculator.                                *)
(*                                                                         *)
(* Left out: what the language has no use of (gcd, primes, random numbers, *)
(* modular powers).                                                        *)
(***************************************************************************)
EXTENDS Integers, Sequences, SequencesExt

CONSTANTS Bits,       \* BIGINT_WORD_BITS, 32 in the code
          Threshold,  \* BIGINT_KARATSUBA_WORD_THRESHOLD, 20 in the code
          Base,       \* the base of digits, 10 in the code
          Mantissa    \* the bits of a double's mantissa, 52 in the code

ASSUME WidthAssumption == Bits \in Nat /\ Bits > 0 /\ Bits % 2 = 0
ASSUME ThresholdAssumption == Threshold \in Nat /\ Threshold >= 4
ASSUME MantissaAssumption == Mantissa \in Nat /\ Mantissa > Bits

\* The powers of b, as products: of `^' the provers know nothing.
Power(b) == LET p[n \in Nat] == IF n = 0 THEN 1 ELSE b * p[n - 1] IN p
Two == Power(2)

Word == Two[Bits]
Half == Two[Bits \div 2]
ASSUME BaseAssumption == Base \in Nat /\ Base >= 2 /\ Base < Half
Words == 0..(Word - 1)
Longer(m, n) == IF m > n THEN m ELSE n
Shorter(m, n) == IF m < n THEN m ELSE n

-----------------------------------------------------------------------------
(* Words *)

Lo(a) == a % Half
Hi(a) == a \div Half
MulLo(a, b) == (a * b) % Word
\* The high word of a * b, out of the products of their halves.
MulHi(a, b) ==
  LET c1 == Lo(a) * Hi(b)
      c2 == Hi(a) * Lo(b)
      c4 == (Hi(Lo(a) * Lo(b)) + Lo(c1) + Lo(c2)) % Word
  IN  (Hi(c4) + Hi(c1) + Hi(c2) + Hi(a) * Hi(b)) % Word

\* bigint_word_add_get_carry, _sub_get_carry: the carry is told by comparing.
AddCarry(a, b) ==
  LET sum == (a + b) % Word IN [w |-> sum, c |-> IF sum < b THEN 1 ELSE 0]
SubCarry(a, b) ==
  LET dif == (a - b) % Word IN [w |-> dif, c |-> IF dif > a THEN 1 ELSE 0]

BitLengthOf(w) == CHOOSE n \in 0..Bits : w < Two[n] /\ (n = 0 \/ w >= Two[n - 1])

-----------------------------------------------------------------------------
(* Sequences of words *)

Zeros(n) == [i \in 1..n |-> 0]
At(w, i) == IF i \in 1..Len(w) THEN w[i] ELSE 0
\* bigint_raw_truncate, and the n first words of w as a number.
Truncate(w) ==
  SubSeq(w, 1, CHOOSE n \in 0..Len(w) :
                 (n = 0 \/ w[n] # 0) /\ \A i \in (n + 1)..Len(w) : w[i] = 0)
First(w, n) == Truncate(SubSeq(w, 1, Shorter(n, Len(w))))
From(w, n) == Truncate(SubSeq(w, n + 1, Len(w)))

\* bigint_raw_cmp_abs: the longer one, then the first word that differs from
\* the top.
CmpAbs(a, b) ==
  IF Len(a) # Len(b) THEN (IF Len(a) > Len(b) THEN 1 ELSE -1)
  ELSE LET differ == {i \in 1..Len(a) : a[i] # b[i]}
       IN  IF differ = {} THEN 0
           ELSE LET top == CHOOSE i \in differ : \A j \in differ : j <= i
                IN  IF a[top] < b[top] THEN -1 ELSE 1

\* A walk over n words from the low one on: step[i][c] is what is written at
\* the word i of a carry c, and the carry that it leaves.
Carried(n, step) ==
  LET c[i \in 0..n] == IF i = 0 THEN 0 ELSE step[i][c[i - 1]].c IN c
Walked(n, step) ==
  LET c == Carried(n, step)
  IN  [w |-> [i \in 1..n |-> step[i][c[i - 1]].w], c |-> c[n]]

\* bigint_raw_add
AddStep(a, b) ==
  LET both == Shorter(Len(a), Len(b))
  IN  [i \in 1..Longer(Len(a), Len(b)) |-> [c \in Words |->
         IF i <= both
         THEN LET s == AddCarry(c, a[i])
                  t == AddCarry(s.w, b[i])
              IN  [w |-> t.w, c |-> s.c + t.c]
         ELSE AddCarry(IF i <= Len(a) THEN a[i] ELSE b[i], c)]]
RawAdd(a, b) ==
  LET sum == Walked(Longer(Len(a), Len(b)), AddStep(a, b))
  IN  Truncate(IF sum.c # 0 THEN Append(sum.w, sum.c) ELSE sum.w)

\* bigint_raw_sub: a is not less than b.
SubStep(a, b) ==
  [i \in 1..Len(a) |-> [c \in Words |->
     LET s == SubCarry(a[i], c)
         t == SubCarry(s.w, b[i])
     IN  IF i <= Len(b) THEN [w |-> t.w, c |-> s.c + t.c] ELSE s]]
RawSub(a, b) == Truncate(Walked(Len(a), SubStep(a, b)).w)

\* bigint_raw_mul_word, which from_str and the words of a product use.
MulStep(a, factor) ==
  [i \in 1..Len(a) |-> [c \in Words |->
     LET s == AddCarry(MulLo(a[i], factor), c)
     IN  [w |-> s.w, c |-> (s.c + MulHi(a[i], factor)) % Word]]]
RawMulWord(a, factor) ==
  LET prod == Walked(Len(a), MulStep(a, factor))
  IN  Truncate(IF prod.c # 0 THEN Append(prod.w, prod.c) ELSE prod.w)

\* bigint_raw_mul_word_add into the words of dst past the at first ones.
MulAddStep(dst, at, a, factor) ==
  [i \in 1..(Len(dst) - at) |-> [c \in Words |->
     IF i <= Len(a)
     THEN LET s == AddCarry(MulLo(a[i], factor), c)
              t == AddCarry(dst[at + i], s.w)
          IN  [w |-> t.w, c |-> (s.c + MulHi(a[i], factor) + t.c) % Word]
     ELSE IF c # 0 THEN AddCarry(dst[at + i], c)
     ELSE [w |-> dst[at + i], c |-> 0]]]
MulWordAdd(dst, at, a, factor) ==
  SubSeq(dst, 1, at) \o Walked(Len(dst) - at, MulAddStep(dst, at, a, factor)).w

\* bigint_raw_mul_add on words that were zeroed: the rows of the first i words
\* of b.
Rows(a, b) ==
  LET dst[i \in 0..Len(b)] == IF i = 0 THEN Zeros(Len(a) + Len(b))
                              ELSE MulWordAdd(dst[i - 1], i - 1, a, b[i])
  IN  dst
MulAdd(a, b) == IF a = <<>> \/ b = <<>> THEN <<>> ELSE Truncate(Rows(a, b)[Len(b)])

Shifted(w, at) == IF w = <<>> THEN <<>> ELSE Zeros(at) \o w
\* bigint_raw_mul_karatsuba: three products of halves.  With the middle one
\* come the two others, which are taken off it.
Karatsuba[p \in Seq(Words) \X Seq(Words)] ==
  LET a == p[1]
      b == p[2]
      m2 == Longer(Len(a), Len(b)) \div 2
      lo1 == First(a, m2)
      lo2 == First(b, m2)
      hi1 == From(a, Shorter(m2, Len(a)))
      hi2 == From(b, Shorter(m2, Len(b)))
      z0 == Karatsuba[<<lo1, lo2>>]
      z1 == Karatsuba[<<RawAdd(lo1, hi1), RawAdd(lo2, hi2)>>]
      z2 == Karatsuba[<<hi1, hi2>>]
      middle == RawSub(RawSub(z1, z0), z2)
  IN  IF Len(a) < Threshold /\ Len(b) < Threshold THEN MulAdd(a, b)
      ELSE RawAdd(RawAdd(z0, Shifted(middle, m2)), Shifted(z2, 2 * m2))

TmpBoundNoDepth(m) == m * 11                              \* mutant
\* The words that bigint_mul allocates for the factors' products (tmp).
TmpBound(m) == m * 11 + 180
\* The words of tmp that it takes for factors of at most m words.
Scratch[m \in Nat] ==
  IF m < Threshold THEN 0
  ELSE LET m2 == m \div 2 IN 8 * (m2 + 2) + Scratch[Longer(m - m2 + 1, m2 + 1)]

\* bigint_raw_shift_left, in its two cases.
ShiftLeft(w, shift) ==
  LET at == shift \div Bits
      bits == shift % Bits
      word(i) == ((At(w, i) * Two[bits]) % Word) + (At(w, i - 1) \div Two[Bits - bits])
  IN  Truncate(Zeros(at) \o
               (IF bits = 0 THEN w ELSE [i \in 1..(Len(w) + 1) |-> word(i)]))

\* A number that never had words has none to read, and no room to write one:
\* bigint_raw_shift_right takes the first word that the shift leaves whatever
\* there is, and asserts that there is room for it.
ShiftFaults(w, shift) == shift % Bits # 0 /\ shift \div Bits >= Len(w)
\* bigint_raw_shift_right, of words that the shift leaves some of.
ShiftRight(w, shift) ==
  LET at == shift \div Bits
      bits == shift % Bits
      n == Len(w) - at
      word(i) ==
        (At(w, at + i) \div Two[bits]) + ((At(w, at + i + 1) * Two[Bits - bits]) % Word)
  IN  Truncate(IF bits = 0 THEN SubSeq(w, at + 1, Len(w))
               ELSE [i \in 1..Longer(n, 0) |-> word(i)])

BitLength(w) == IF w = <<>> THEN 0 ELSE BitLengthOf(Last(w)) + (Len(w) - 1) * Bits
\* bigint_set_bit, for a bit that is not set
SetBit(w, bit) ==
  [i \in 1..Longer(Len(w), (bit \div Bits) + 1) |->
     At(w, i) + (IF i = (bit \div Bits) + 1 THEN Two[bit % Bits] ELSE 0)]

-----------------------------------------------------------------------------
(* Numbers *)

Number == [neg : BOOLEAN, words : Seq(Words)]
Zero == [neg |-> FALSE, words |-> <<>>]
Signed(neg, w) == [neg |-> neg, words |-> w]
FromWord(w) == Signed(FALSE, Truncate(<<w>>))

\* bigint_raw_cmp: a zero has no sign.
\* Mutant of Cmp: of two negative numbers, the longer is the greater.
CmpUnsigned(a, b) ==
  IF a.words = <<>> /\ b.words = <<>> THEN 0
  ELSE IF a.neg = b.neg THEN CmpAbs(a.words, b.words)
  ELSE IF b.neg THEN 1 ELSE -1
Cmp(a, b) ==
  IF a.words = <<>> /\ b.words = <<>> THEN 0
  ELSE IF ~a.neg /\ ~b.neg THEN CmpAbs(a.words, b.words)
  ELSE IF a.neg /\ b.neg THEN CmpAbs(b.words, a.words)
  ELSE IF b.neg THEN 1 ELSE -1

Negate(a) == [a EXCEPT !.neg = ~@]

\* bigint_raw_add_signed
AddSigned(a, an, b, bn) ==
  IF an = bn THEN Signed(an, RawAdd(a, b))
  ELSE IF CmpAbs(a, b) >= 0 THEN Signed(an, RawSub(a, b))
  ELSE Signed(bn, RawSub(b, a))
Add(a, b) == AddSigned(a.words, a.neg, b.words, b.neg)
Sub(a, b) == AddSigned(a.words, a.neg, b.words, ~b.neg)

\* bigint_mul: the sign of a zero is that of the rule.
Mul(a, b) == Signed(a.neg # b.neg, Karatsuba[<<a.words, b.words>>])

\* bigint_div_mod_half_word, two halves of a word at a time from the top: the
\* remainder of what is above goes before a half.
DivHalf(r, h, d) == [q |-> ((r.q * Half) % Word) + ((r.m * Half + h) \div d),
                     m |-> (r.m * Half + h) % d]
DivWord(m, x, d) == DivHalf(DivHalf([q |-> 0, m |-> m], Hi(x), d), Lo(x), d)
\* The remainders of the k high words.
Remainders(w, d) ==
  LET m[k \in 0..Len(w)] == IF k = 0 THEN 0 ELSE DivWord(m[k - 1], w[Len(w) + 1 - k], d).m
  IN  m
\* Mutant of DivModHalf: a word begins without the remainder of the one above.
DivModHalfAnew(w, d) ==
  [q |-> Truncate([i \in 1..Len(w) |-> DivWord(0, w[i], d).q]), m |-> Remainders(w, d)[Len(w)]]
DivModHalf(w, d) ==
  LET m == Remainders(w, d)
  IN  [q |-> Truncate([i \in 1..Len(w) |-> DivWord(m[Len(w) - i], w[i], d).q]), m |-> m[Len(w)]]

\* One bit of the long division: the divisor is moved right after it.
DivBit(r, shift) ==
  [q |-> IF CmpAbs(r.m, r.d) >= 0 THEN SetBit(r.q, shift) ELSE r.q,
   m |-> IF CmpAbs(r.m, r.d) >= 0 THEN RawSub(r.m, r.d) ELSE r.m,
   d |-> ShiftRight(r.d, 1)]
DivBits(n, d, shift) ==
  LET r[i \in 0..(shift + 1)] ==
        IF i = 0 THEN [q |-> <<>>, m |-> n, d |-> ShiftLeft(d, shift)]
        ELSE DivBit(r[i - 1], shift + 1 - i)
  IN  r
\* Mutant of DivLong: the last bit of the quotient is left out.
DivLongShort(n, d) ==
  LET shift == BitLength(n) - BitLength(d)
  IN  IF CmpAbs(n, d) < 0 THEN [q |-> <<>>, m |-> n] ELSE DivBits(n, d, shift)[shift]
DivLong(n, d) ==
  LET shift == BitLength(n) - BitLength(d)
  IN  IF CmpAbs(n, d) < 0 THEN [q |-> <<>>, m |-> n] ELSE DivBits(n, d, shift)[shift + 1]

\* bigint_div_mod: by a word, by half a word, or bit by bit.
DivMod(a, b) ==
  LET one == Len(a.words) = 1 /\ Len(b.words) = 1
      r == IF one THEN [q |-> Truncate(<<a.words[1] \div b.words[1]>>),
                        m |-> Truncate(<<a.words[1] % b.words[1]>>)]
           ELSE IF Len(b.words) = 1 /\ b.words[1] < Half
           THEN LET h == DivModHalf(a.words, b.words[1])
                IN  [q |-> h.q, m |-> Truncate(<<h.m>>)]
           ELSE DivLong(a.words, b.words)
  IN  [q |-> Signed(a.neg # b.neg, r.q), m |-> Signed(a.neg, r.m)]

\* bigint_div: without mod, NULL when something remains.  By zero nothing is
\* divided, and the remainder, which nothing was written to, is zero.
DivFails(a, b, mod) == ~mod /\ b.words # <<>> /\ DivMod(a, b).m.words # <<>>
Quotient(a, b) == IF b.words = <<>> THEN Zero ELSE DivMod(a, b).q
Modulus(a, b) == IF b.words = <<>> THEN Zero ELSE DivMod(a, b).m

\* One bit of the square root: two bits of the number.
SqrtFits(r, bit) == CmpAbs(r.m, SetBit(r.s, bit)) >= 0
\* The root so far, twice.
SqrtTwice(r, bit) == IF SqrtFits(r, bit) THEN SetBit(r.s, bit + 1) ELSE r.s
SqrtBit(r, bit) ==
  [m |-> IF SqrtFits(r, bit) THEN RawSub(r.m, SetBit(r.s, bit)) ELSE r.m,
   s |-> ShiftRight(SqrtTwice(r, bit), 1)]
SqrtBits(w, top) ==
  LET r[i \in 0..(top + 1)] ==
        IF i = 0 THEN [m |-> w, s |-> <<>>] ELSE SqrtBit(r[i - 1], 2 * (top + 1 - i))
  IN  r
\* The root of more than a word is halved before it has got a bit: bigint_sqrt
\* shifts a number that has no words yet.
SqrtFaults(a) ==
  /\ Len(a.words) > 1
  /\ LET top == BitLength(a.words) \div 2
         bits == SqrtBits(a.words, top)
     IN  \E i \in 1..(top + 1) : ShiftFaults(SqrtTwice(bits[i - 1], 2 * (top + 1 - i)), 1)
\* Rounding up more than a word adds one whatever remains (it looks at a
\* pointer), from a number that was not initialised: it may fail.
RoundingMayFail(a, up) == up /\ Len(a.words) > 1
\* bigint_sqrt, where it does not fail: of one word, by sqrt and ceil; of more,
\* bit by bit.  The sign of the number is not looked at.
Sqrt(a, up) ==
  LET low == CHOOSE s \in Words : s * s <= a.words[1] /\ (s + 1) * (s + 1) > a.words[1]
      top == BitLength(a.words) \div 2
      root == SqrtBits(a.words, top)[top + 1].s
  IN  IF a.words = <<>> THEN Zero
      ELSE IF Len(a.words) = 1
      THEN FromWord(IF up /\ low * low # a.words[1] THEN low + 1 ELSE low)
      ELSE Signed(FALSE, IF up THEN RawAdd(root, <<1>>) ELSE root)

-----------------------------------------------------------------------------
(* Conversions *)

\* bigint_from_str_base of digits, the high one first.  Adding a digit past
\* the words there are writes one more.
WordsOf(digits) ==
  LET w[i \in 0..Len(digits)] ==
        IF i = 0 THEN <<>> ELSE RawAdd(RawMulWord(w[i - 1], Base), Truncate(<<digits[i]>>))
  IN  w
FromDigits(neg, digits) == Signed(neg, WordsOf(digits)[Len(digits)])
\* bigint_digits_bound of the words that it reserves for n digits.
DigitsBound(n) ==
  1 + CHOOSE k \in 0..n : /\ Power(Word)[k] >= Power(Base)[n]
                          /\ k = 0 \/ Power(Word)[k - 1] < Power(Base)[n]

\* bigint_write_base into a buffer with room for n characters and a final
\* zero: digits come from the low one on, until the room is used up.  After k
\* divisions: what is left, and the digits so far (a number has no more of them
\* than bits).
Written(w) ==
  LET r[k \in 0..(Len(w) * Bits)] ==
        IF k = 0 THEN [left |-> w, digits |-> <<>>]
        ELSE LET t == r[k - 1]
                 s == DivModHalf(t.left, Base)
             IN  IF t.left = <<>> THEN t ELSE [left |-> s.q, digits |-> <<s.m>> \o t.digits]
  IN  r
Digits(w) == Written(w)[Len(w) * Bits].digits
Write(a, n) ==
  LET digits == IF a.words = <<>> THEN <<0>> ELSE Digits(a.words)
  IN  [neg |-> a.neg /\ Len(digits) < n,
       digits |-> SubSeq(digits, Longer(Len(digits) - n, 0) + 1, Len(digits))]

\* bigint_double, as the integer that an index makes of it: the highest bits.
Double(a) ==
  LET n == BitLength(a.words)
      shift == Mantissa - n + 1
      high == IF shift < 0 THEN ShiftRight(a.words, -shift) ELSE ShiftLeft(a.words, shift)
  IN  IF a.words = <<>> THEN [mantissa |-> <<>>, shift |-> 0]
      ELSE [mantissa |-> high, shift |-> -shift]
=============================================================================
