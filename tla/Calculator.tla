----------------------------- MODULE Calculator -----------------------------
(***************************************************************************)
(* A program that computes: integer variables that are asserted, equated   *)
(* and related by the predicates of src/std/integer.c, which compute one   *)
(* argument of the others with the numbers of BigInt.  A variable that has *)
(* no number yet has the domain of all integers; domains that narrow it    *)
(* are in Domain.                                                          *)
(***************************************************************************)
EXTENDS BigInt

CONSTANTS Vars,      \* the variables of the program
          NoInt,     \* the worth of a variable that has no number
          Requests,  \* what the program may ask of them
          MaxAsked,  \* bound on the requests of a program
          MaxWords,  \* bound on the words of a result
          Buffer     \* the characters of the buffer a number is written to

VARIABLES
  int,    \* struct IntImage of each variable: a number once it is known
  asked,  \* the request that was answered last
  said,   \* what it was answered; "first" for RESPOND_INSTANTIATE_FIRST,
          \* "crash" when the program ended instead
  count   \* the requests so far

vars == <<int, asked, said, count>>

ASSUME VarsAssumption == Vars # {} /\ NoInt \notin Int
ASSUME BoundsAssumption == MaxAsked \in Nat /\ MaxWords \in Nat /\ Buffer \in Nat

\* The integer that the first k digits stand for.
Digital(digits) ==
  LET v[k \in 0..Len(digits)] == IF k = 0 THEN 0 ELSE Base * v[k - 1] + digits[k] IN v
\* A request names variables; a number is that of its digits; a remainder goes
\* to a variable of its own.
ASSUME RequestsAssumption ==
  \A q \in Requests :
    \/ /\ q.op = "is" /\ q.x \in Vars /\ q.neg \in BOOLEAN /\ q.digits \in Seq(0..(Base - 1))
       /\ q.n = IF q.neg THEN -Digital(q.digits)[Len(q.digits)]
                ELSE Digital(q.digits)[Len(q.digits)]
    \/ q.op = "eq" /\ {q.x, q.y} \subseteq Vars
    \/ q.op \in {"plus", "mul"} /\ {q.x, q.y, q.z} \subseteq Vars
    \/ q.op = "mod" /\ {q.x, q.y, q.z, q.r} \subseteq Vars /\ q.r \notin {q.x, q.y}
    \/ q.op = "sqrt" /\ {q.x, q.z} \subseteq Vars /\ q.up \in BOOLEAN

Unknown == [known |-> FALSE, b |-> Zero]
Holding(b) == [known |-> TRUE, b |-> b]

\* The integers that the k high words, all words, and words with a sign
\* stand for.
High(w) ==
  LET v[k \in 0..Len(w)] == IF k = 0 THEN 0 ELSE w[Len(w) + 1 - k] + Word * v[k - 1] IN v
ValueOf(w) == High(w)[Len(w)]
Value(b) == IF b.neg THEN -ValueOf(b.words) ELSE ValueOf(b.words)
Worth == [x \in Vars |-> IF int[x].known THEN Value(int[x].b) ELSE NoInt]

A == INSTANCE Arithmetic WITH worth <- Worth

-----------------------------------------------------------------------------
Init == int = [x \in Vars |-> Unknown] /\ asked = [op |-> "none"] /\ said = "true"
        /\ count = 0

\* The program goes on with request q.
Asks(q) == said \in {"true", "first"} /\ count < MaxAsked /\ count' = count + 1 /\ asked' = q
Answer(v) == said' = v /\ UNCHANGED int
Check(b) == Answer(IF b THEN "true" ELSE "false")

\* INT_ASSIGN: a variable that has a number keeps it.
Assign(x, b) ==
  \/ ~int[x].known /\ said' = "true" /\ int' = [int EXCEPT ![x] = Holding(b)]
  \/ int[x].known /\ Check(Cmp(int[x].b, b) = 0)

\* int_translator of `x = n`: the sign is read first, and turns the number.
Literal(q) == LET b == FromDigits(FALSE, q.digits) IN IF q.neg THEN Negate(b) ELSE b
AssertInteger ==
  \E q \in Requests : /\ q.op = "is" /\ Asks(q) /\ Assign(q.x, Literal(q))

\* int_eq
Equate ==
  \E q \in Requests :
    LET x == int[q.x]
        y == int[q.y]
    IN  /\ q.op = "eq" /\ Asks(q)
        /\ \/ x.known /\ y.known /\ Check(Cmp(x.b, y.b) = 0)
           \/ x.known /\ ~y.known /\ Assign(q.y, x.b)
           \/ ~x.known /\ y.known /\ Assign(q.x, y.b)
           \/ ~x.known /\ ~y.known /\ Answer("true")

\* laure_predicate_integer_plus: with two arguments or the sum missing it
\* answers yes and relates nothing.
Plus ==
  \E q \in Requests :
    LET x == int[q.x]
        y == int[q.y]
        sum == int[q.z]
    IN  /\ q.op = "plus" /\ Asks(q)
        /\ \/ /\ x.known /\ y.known /\ sum.known
              /\ Check(Cmp(Add(x.b, y.b), sum.b) = 0)
           \/ x.known /\ y.known /\ ~sum.known /\ Assign(q.z, Add(x.b, y.b))
           \/ x.known /\ ~y.known /\ sum.known /\ Assign(q.y, Sub(sum.b, x.b))
           \/ ~x.known /\ y.known /\ sum.known /\ Assign(q.x, Sub(sum.b, y.b))
           \/ ~x.known /\ ~y.known /\ sum.known /\ Answer("first")
           \/ ~(x.known /\ y.known) /\ ~sum.known /\ Answer("true")

\* The factor of product and other is written to x; with mod, the remainder
\* to r, over whatever it held.
Divides(q, x, product, other) ==
  LET mod == q.op = "mod"
      quotient == Quotient(product, other)
  IN  \/ DivFails(product, other, mod) /\ Answer("false")
      \/ /\ ~DivFails(product, other, mod) /\ said' = "true"
         /\ int' = IF mod THEN [int EXCEPT ![q.r] = Holding(Modulus(product, other)),
                                           ![x] = Holding(quotient)]
                   ELSE [int EXCEPT ![x] = Holding(quotient)]

Fits(a, b) == Len(a.words) + Len(b.words) <= MaxWords
\* laure_predicate_integer_multiply
Multiply ==
  \E q \in Requests :
    LET x == int[q.x]
        y == int[q.y]
        prod == int[q.z]
    IN  /\ q.op \in {"mul", "mod"} /\ Asks(q) /\ Fits(x.b, y.b)
        /\ \/ /\ x.known /\ y.known /\ prod.known
              /\ Check(Cmp(Mul(x.b, y.b), prod.b) = 0)
           \/ x.known /\ y.known /\ ~prod.known /\ Assign(q.z, Mul(x.b, y.b))
           \/ x.known /\ ~y.known /\ prod.known /\ Divides(q, q.y, prod.b, x.b)
           \/ ~x.known /\ y.known /\ prod.known /\ Divides(q, q.x, prod.b, y.b)
           \/ /\ (~prod.known /\ ~(x.known /\ y.known)) \/ (~x.known /\ ~y.known)
              /\ Answer("first")

\* laure_predicate_sqrt: either way the root is computed in a number that is new.
SquareRoot ==
  \E q \in Requests :
    LET n == int[q.x]
        s == int[q.z]
    IN  /\ q.op = "sqrt" /\ Asks(q) /\ Fits(s.b, s.b)
        /\ \/ /\ n.known /\ s.known /\ ~SqrtFaults(n.b)
              /\ Check(Cmp(Sqrt(n.b, q.up), s.b) = 0)
           \/ n.known /\ ~s.known /\ ~SqrtFaults(n.b) /\ Assign(q.z, Sqrt(n.b, q.up))
           \/ n.known /\ (SqrtFaults(n.b) \/ RoundingMayFail(n.b, q.up)) /\ Answer("crash")
           \/ ~n.known /\ s.known /\ Assign(q.x, Mul(s.b, s.b))
           \/ ~n.known /\ ~s.known /\ Answer("error")

Next == AssertInteger \/ Equate \/ Plus \/ Multiply \/ SquareRoot
Spec == Init /\ [][Next]_vars

-----------------------------------------------------------------------------
(* Properties *)

\* A variable has words that fit, and the top one is not zero: lengths are
\* what numbers are compared by first.
TypeOK ==
  /\ said \in {"true", "false", "first", "error", "crash"} /\ count \in 0..MaxAsked
  /\ \A x \in Vars : /\ int[x].b \in Number
                     /\ int[x].b.words = Truncate(int[x].b.words)

\* What the predicates answer is what Arithmetic promises of integers, for
\* every way of knowing some of their arguments: carries, borrows, lengths,
\* signs, the split of long factors and the bits of divisions, down to a
\* remainder that is less than the divisor, included.
\* A root asked of two variables without numbers is an error.  A root is not
\* answered, but ends the program, only where the code is known to fail: of a
\* number of more than one word, when its length in bits is even or the root
\* is to be rounded up.
MayCrash(q) ==
  /\ q.op = "sqrt" /\ int[q.x].known /\ Len(int[q.x].b.words) > 1
  /\ BitLength(int[q.x].b.words) % 2 = 0 \/ q.up
AnswersAreRight ==
  [][asked'.op # "none" => \/ said' = "error"
                           \/ said' = "crash" /\ MayCrash(asked')
                           \/ said' # "crash" /\ A!Says(asked', Word)]_vars

\* Numbers compare as the integers they stand for, a zero of either sign as
\* zero: bigint_cmp decides every answer.
ComparesAsIntegers ==
  \A x, y \in Vars :
    LET v == Value(int[x].b)
        w == Value(int[y].b)
    IN  Cmp(int[x].b, int[y].b) = IF v = w THEN 0 ELSE IF v < w THEN -1 ELSE 1

\* A number that is written and read again is the same number, as long as the
\* buffer it is written to has room for it.
WrittenAndRead ==
  \A x \in Vars :
    LET b == int[x].b
        t == Write(b, Buffer)
    IN  /\ Power(Base)[Buffer] > ValueOf(b.words)
        /\ b.neg => Buffer > 0 /\ Power(Base)[Buffer - 1] > ValueOf(b.words)
        => /\ Cmp(FromDigits(t.neg, t.digits), b) = 0
           /\ Len(b.words) <= DigitsBound(Len(t.digits))

\* An index taken of a number through a double is that number, as long as
\* the mantissa has a bit for each of its own.
IndexIsExact ==
  \A x \in Vars :
    LET b == int[x].b
        d == Double(b)
    IN  BitLength(b.words) <= Mantissa + 1 =>
          ValueOf(d.mantissa) = ValueOf(b.words) * Two[-d.shift]

\* The words of an integer stay an integer's words: normalised, ordered as the
\* integers are, and with the index of their highest bit where it should be.
NumbersSound == TypeOK /\ ComparesAsIntegers /\ IndexIsExact

\* The words that bigint_mul allocates for the products of halves are enough
\* for them, at every depth: for factors as long as a variable's number, and for
\* longer ones up to many times the lengths that requests multiply.
ScratchIsEnough ==
  \A x \in Vars, m \in 0..(8 * MaxWords) :
    Len(int[x].b.words) <= m => Scratch[m] <= TmpBound(m)
=============================================================================
