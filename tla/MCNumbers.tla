----------------------------- MODULE MCNumbers -----------------------------
(***************************************************************************)
(* Programs of a few requests on small and on many-word integers: words of *)
(* four bits, so that seven of them are still an integer of TLC.           *)
(***************************************************************************)
EXTENDS Calculator

\* The digits of an integer in Base.
RECURSIVE DigitsOf(_)
DigitsOf(n) == IF n < Base THEN <<n>> ELSE Append(DigitsOf(n \div Base), n % Base)
Is(v, n) == [op |-> "is", x |-> v, neg |-> n < 0, n |-> n,
             digits |-> DigitsOf(IF n < 0 THEN -n ELSE n)]

\* Zero, one, a word less one, powers of the word and what lies beside them,
\* factors that the product splits (three and four words), squares of more
\* than a word, of eight bits and of nine.
Given == {0, 1, -3, 15, 16, 225, 324, -255, 4095, 4096, 65535, -43690}
Small == {0, 2, -5, 16, 255, 4097}
Literals == {Is(v, n) : v \in {"x", "z"}, n \in Given} \cup {Is("y", n) : n \in Small}
            \cup {[op |-> "is", x |-> "y", neg |-> TRUE, n |-> 0, digits |-> <<0>>]}

Relations ==
  {[op |-> o, x |-> "x", y |-> "y", z |-> "z"] : o \in {"plus", "mul"}}
  \cup {[op |-> "mul", x |-> "y", y |-> "y", z |-> "z"], [op |-> "plus", x |-> "z", y |-> "x", z |-> "y"]}
  \cup {[op |-> "mod", x |-> "x", y |-> "y", z |-> "z", r |-> "r"],
        [op |-> "eq", x |-> "x", y |-> "z"]}
  \cup {[op |-> "sqrt", x |-> "z", z |-> "x", up |-> u] : u \in BOOLEAN}

Asked == Literals \cup Relations
=============================================================================
