------------------------------ MODULE MCImages ------------------------------
(***************************************************************************)
(* Small stores of every kind of image, and literals for each of them.     *)
(***************************************************************************)
EXTENDS Images

Store(h, a, b, c) == [h |-> h, root |-> ("x" :> a @@ "y" :> b @@ "z" :> c), locked |-> {}]
Locking(v, s) == [s EXCEPT !.locked = {v}]
AnyChar == Char(0, <<>>)
AB == Char(2, <<"a", "b">>)
BC == Char(2, <<"b", "c">>)
CD == Char(2, <<"c", "d">>)

Kinds == {
  Store(<<Ints(0..2), Ints(1..4), IntIs(2)>>, 1, 2, 3),
  Store(<<AnyChar, AB, BC>>, 1, 2, 3), Store(<<CD, AB, BC>>, 1, 2, 3),
  Store(<<Atom(FALSE, {"p", "q"}), Atom(FALSE, {"p", "q", "r"}), Atom(TRUE, {"q"})>>, 1, 2, 3),
  \* arrays of one element type, and a variable that fits in them
  Store(<<AB, AB, Char(1, <<"b">>), Array(1, {1, 2}), Array(2, {2, 3})>>, 4, 5, 3),
  \* arrays that share their element type, as `append` makes them
  Store(<<AB, Array(1, {1, 2}), Array(1, {2})>>, 2, 3, 0),
  Store(<<AnyChar, AnyChar, Text(1, {1, 2}), Text(2, {2})>>, 3, 4, 0),
  \* structures, and a variable that is not known yet
  Store(<<Ints({0, 1}), AB, Struct(<<1, 2>>), Ints({1, 2}), BC, Struct(<<4, 5>>)>>, 3, 6, 0),
  \* unions, of types and of another union
  Store(<<Ints({0, 1}), AB, Union(<<1, 2>>), Ints({1}), BC, Union(<<4, 5>>), IntIs(1)>>, 3, 6, 7),
  \* an array of structures
  Store(<<Ints({0, 1}), Atom(FALSE, {"p", "q"}), Struct(<<1, 2>>), Array(3, {1}), Ints({0, 1})>>,
        4, 5, 0),
  \* types: of an integer, and of a field that a structure is told by name
  Locking("y", Store(<<Ints(0..2), Ints(1..4), IntIs(2)>>, 1, 2, 3)),
  Locking("z", Store(<<Ints({0, 1}), AB, Struct(<<1, 2>>), Ints({0, 1}), BC, Struct(<<4, 5>>),
                       Ints({1, 2})>>, 3, 6, 7)),
  \* structures of one field, and a variable to equate it with (a name that is
  \* new would be a link to the field: an array of it, asserted of the same
  \* structure, would be an element of itself)
  Store(<<AnyChar, Text(1, {1, 2}), Struct(<<2>>), Ints({1, 3}), Struct(<<4>>), Ints({1, 2})>>,
        3, 5, 6)}

Int0(n) == [t |-> "int", n |-> n]
Text0(q) == [t |-> "chars", s |-> q]
Name(v) == [t |-> "name", x |-> v]
Some == [t |-> "any"]
List(q) == [t |-> "array", els |-> q]
Complex(q) == [t |-> "complex", els |-> q]
One(n) == [t |-> "atom", name |-> n]

Written == {Int0(1), Int0(3), Text0(<<"a">>), Text0(<<"b">>), Text0(<<"a", "b">>), One("q"), One("r"),
            [t |-> "atoms", set |-> {"p", "q"}],
            List(<<Text0(<<"a">>), Text0(<<"b">>)>>), List(<<Some, Text0(<<"b">>)>>),
            List(<<Name("z"), Some>>), List(<<Some, Some>>),
            Complex(<<Int0(1), Text0(<<"b">>)>>), Complex(<<Name("z"), Text0(<<"b">>)>>),
            Complex(<<Some, Text0(<<"a">>)>>), Complex(<<Name("z")>>), Complex(<<Text0(<<"a">>)>>),
            List(<<Complex(<<Name("y"), One("p")>>)>>)}

\* What counts as instantiated has one value, and images refer to images.
ImagesSound == TypeOK /\ InstantiatedIsOne
\* Neither an assertion nor an equation gives a variable a value it had lost.
ImagesNarrow == AssertionsNarrow /\ EquationsNarrow
=============================================================================
