------------------------------- MODULE Images -------------------------------
(***************************************************************************)
(* What variables hold (src/src/instance.c): images of integers, chars,    *)
(* atoms, arrays, strings, structures and unions, each narrowed in place   *)
(* by the literals asserted of it (the translators), by the images it is   *)
(* equated with (image_equals), and generated value by value               *)
(* (image_generate).                                                       *)
(*                                                                         *)
(* Images are cells of a heap, since arrays, structures and variables      *)
(* share them: elements written as names or as `_` are the image of the    *)
(* variable or of the type itself, and copying an array copies no element. *)
(* The domain of an integer is the set of its values (its borders are in   *)
(* Domain), a char is a model of one unicode character.                    *)
(***************************************************************************)
EXTENDS Integers, Sequences, FiniteSets, SequencesExt

CONSTANTS Vars,      \* the variables
          Chars,     \* every character there is
          Programs,  \* stores that a program starts with: a heap and roots
          Literals,  \* the literals that may be asserted of a variable
          MaxAsked   \* bound on the requests of a program

VARIABLES
  store,  \* h: the images, by address; root: the image of each variable, or 0;
          \* locked: the variables that are types or headers
  asked,  \* the last request
  said,   \* what was answered
  given,  \* the values that a receiver got
  count   \* the requests so far

vars == <<store, asked, said, given, count>>

-----------------------------------------------------------------------------
(* The images *)

Ints(S) == [k |-> "int", single |-> FALSE, set |-> S]
IntIs(n) == [k |-> "int", single |-> TRUE, set |-> {n}]
\* struct CharImage: state 0 any character, 1 one, 2 a charset, in order.
Char(state, s) == [k |-> "char", state |-> state, s |-> s]
Atom(single, S) == [k |-> "atom", single |-> single, set |-> S]
\* Of an array that has no elements yet, the lengths it may have; text when
\* its translator is that of strings.
Array(el, lens) == [k |-> "array", text |-> FALSE, el |-> el, inst |-> FALSE,
                    lens |-> lens, els |-> <<>>]
Text(el, lens) == [Array(el, lens) EXCEPT !.text = TRUE]
Struct(els) == [k |-> "struct", els |-> els, full |-> FALSE]
Union(els) == [k |-> "union", els |-> els]
\* A variable that stands for field i of the structure of variable x.  Of a
\* structure within an array or a linked field there is no x (link 0): to ask for
\* what it stands for fails the assertion of linked_resolve.
Nowhere == "-"
Linked(x, i) == [k |-> "link", x |-> x, i |-> i]

At(s, a) == s.h[a]
Put(s, a, im) == [s EXCEPT !.h[a] = im]
New(s, im) == [s |-> [s EXCEPT !.h = Append(@, im)], a |-> Len(s.h) + 1]
Result(ok, s) == [ok |-> ok, s |-> s]
When(ok, then, s) == IF ok THEN Result(TRUE, then) ELSE Result(FALSE, s)

\* linked_resolve
Field(s, im) == At(s, s.root[im.x]).els[im.i]

\* step is taken for each member of q until one fails.
Each(q, s, step(_, _)) ==
  FoldLeft(LAMBDA r, m : IF r.ok THEN step(r.s, m) ELSE r, Result(TRUE, s), q)

RECURSIVE Copy(_, _)
\* Copies of all of as.
CopyEach(s, as) ==
  FoldLeft(LAMBDA r, a : LET c == Copy(r.s, a)
                         IN [s |-> c.s, as |-> Append(r.as, c.a)],
           [s |-> s, as |-> <<>>], as)
\* image_deepcopy: of an array that has elements, these are not copied
\* (array_copy); the element type is.
Copy(s, a) ==
  LET im == At(s, a)
      el == Copy(s, im.el)
      els == CopyEach(s, im.els)
  IN  CASE im.k = "array" -> New(el.s, [im EXCEPT !.el = el.a])
        [] im.k \in {"struct", "union"} -> New(els.s, [im EXCEPT !.els = els.as])
        [] OTHER -> New(s, im)

\* image_instantiated: a structure keeps a flag, a linked variable has an
\* image whatever the field has.
RECURSIVE Instantiated(_, _)
Instantiated(s, a) ==
  LET im == At(s, a) IN
  CASE im.k \in {"int", "atom"} -> im.single
    [] im.k = "char" -> im.state = 1
    [] im.k = "array" -> im.inst /\ \A i \in DOMAIN im.els : Instantiated(s, im.els[i])
    [] im.k = "struct" -> im.full
    [] im.k = "union" -> Len(im.els) = 1 /\ Instantiated(s, im.els[1])
    [] im.k = "link" -> TRUE

-----------------------------------------------------------------------------
(* Literals asserted of images: the translators *)

\* Those of elements, fields and sides are told what is within the literal; x is
\* the variable that has the image, as a link, for fields.
RECURSIVE Translate(_, _, _, _)
RECURSIVE Equals(_, _, _)

\* int_translator, of a number.
TranslateInt(s, a, e) ==
  LET im == At(s, a)
  IN  IF e.t # "int" THEN Result(FALSE, s)
      ELSE When(e.n \in im.set, Put(s, a, IntIs(e.n)), s)

\* Mutant of TranslateChar: a character past the charset's first is not found.
TranslateCharFirst(s, a, e) ==
  LET im == At(s, a) IN
  IF e.t # "chars" \/ im.state = 0 \/ Len(e.s) # 1 THEN Result(FALSE, s)
  ELSE When(Head(im.s) = Head(e.s), Put(s, a, Char(1, e.s)), s)
\* char_translator: of a charset asserted of a charset, whether it has all of
\* its characters; the image stays as it is.
TranslateChar(s, a, e) ==
  LET im == At(s, a)
      one == Len(e.s) = 1
  IN  IF e.t # "chars" THEN Result(FALSE, s)
      ELSE CASE im.state = 0 -> Result(TRUE, Put(s, a, Char(IF one THEN 1 ELSE 2, e.s)))
             [] im.state = 1 -> Result(Contains(e.s, Head(im.s)), s)
             [] im.state = 2 /\ one ->
                  When(Contains(im.s, Head(e.s)), Put(s, a, Char(1, e.s)), s)
             [] im.state = 2 /\ ~one ->
                  Result(Len(im.s) <= Len(e.s) /\ ToSet(im.s) \subseteq ToSet(e.s), s)

\* atom_translator: one name or a set of names, each of which has to be one of
\* the image's.  The set takes the place of the union that holds the name, too:
\* of what was single, the set is read as a name then.
Garbage == "?"
TranslateAtom(s, a, e) ==
  LET im == At(s, a) IN
  CASE e.t = "atom" -> When(e.name \in im.set, Put(s, a, Atom(TRUE, {e.name})), s)
    [] e.t = "atoms" -> When(IF im.single THEN e.set = im.set ELSE e.set \subseteq im.set,
                             Put(s, a, [im EXCEPT !.set = IF im.single THEN {Garbage} ELSE e.set]), s)
    [] OTHER -> Result(FALSE, s)

\* Mutant of ElementImage: the element is the element type's image.
ElementItself(s, el) == [s |-> s, a |-> el]
ElementImage(s, el) == Copy(s, el)
\* The image of an element of an array of el that e describes: the element
\* type's own for `_`, a variable's own for a name, a copy else.
Element(s, el, e) ==
  LET copy == ElementImage(s, el)
      r == Translate(copy.s, copy.a, e, Nowhere)
  IN  CASE e.t = "any" -> [ok |-> TRUE, s |-> s, a |-> el]
        [] e.t = "name" /\ s.root[e.x] # 0 -> [ok |-> TRUE, s |-> s, a |-> s.root[e.x]]
        [] e.t = "name" /\ s.root[e.x] = 0 ->
             [ok |-> TRUE, s |-> [copy.s EXCEPT !.root[e.x] = copy.a], a |-> copy.a]
        [] OTHER -> [ok |-> r.ok, s |-> r.s, a |-> copy.a]

\* array_translator: elements are made of those of the literal, or each is
\* told the literal's, which are as many.
TranslateArray(s, a, e) ==
  LET im == At(s, a)
      made == FoldLeft(LAMBDA r, m :
                         LET n == Element(r.s, im.el, m)
                         IN  IF ~r.ok THEN r
                             ELSE [ok |-> n.ok, s |-> n.s, as |-> Append(r.as, n.a)],
                       [ok |-> TRUE, s |-> s, as |-> <<>>], e.els)
      told(r, i) == IF e.els[i].t = "any" THEN Result(TRUE, r)
                    ELSE Translate(r, im.els[i], e.els[i], Nowhere)
  IN  IF e.t # "array" THEN Result(FALSE, s)
      ELSE IF im.inst
      THEN IF Len(e.els) # Len(im.els) THEN Result(FALSE, s)
           ELSE Each([i \in DOMAIN e.els |-> i], s, told)
      ELSE IF Len(e.els) \notin im.lens \/ ~made.ok THEN Result(FALSE, s)
      ELSE Result(TRUE, Put(made.s, a, [im EXCEPT !.inst = TRUE, !.els = made.as]))

\* string_translator of a text: a char that is not known is none of it.
TranslateText(s, a, e) ==
  LET im == At(s, a)
      made == FoldLeft(LAMBDA r, c : LET n == New(r.s, Char(1, <<c>>))
                                     IN [s |-> n.s, as |-> Append(r.as, n.a)],
                       [s |-> s, as |-> <<>>], e.s)
  IN  IF im.inst
      THEN Result(/\ Len(e.s) = Len(im.els)
                  /\ \A i \in DOMAIN e.s : At(s, im.els[i]) = Char(1, <<e.s[i]>>), s)
      ELSE When(Len(e.s) \in im.lens,
                Put(made.s, a, [im EXCEPT !.inst = TRUE, !.els = made.as]), s)

\* A name equated with a field: a locked one as a copy.
EqualNamed(s, v, field) ==
  LET from == IF v \in s.locked THEN Copy(s, s.root[v]) ELSE [s |-> s, a |-> s.root[v]]
  IN  Equals(from.s, from.a, field)

\* What was told of a structure with result t is known if all of it is, image a
\* being the last.
Telling(t, full, a) == [ok |-> t.ok, s |-> t.s, full |-> full /\ Instantiated(t.s, a)]
\* Field i of a structure is told m: a name is equated with it, and one that is
\* new becomes a link to it.  Known has to be a name in scope, or the field.
TellField(r, els, m, i, x) ==
  LET named == m.t = "name" /\ r.s.root[m.x] # 0
      linked == New(r.s, Linked(x, i))
  IN  CASE m.t = "any" -> r
        [] named -> Telling(EqualNamed(r.s, m.x, els[i]), r.full, r.s.root[m.x])
        [] m.t = "name" /\ ~named ->
             Telling(Result(TRUE, [linked.s EXCEPT !.root[m.x] = linked.a]), r.full, els[i])
        [] OTHER -> Telling(Translate(r.s, els[i], m, x), r.full, els[i])

\* Of a structure that was told r, whether it is known.
Told(r, a) == When(r.ok, [r.s EXCEPT !.h[a].full = r.full], r.s)
\* structure_translator: a field for each of the literal's, in order, until one
\* is refused.  What is no such literal is told the only field of a structure
\* that has one; a structure without fields is told nothing.
TranslateStruct(s, a, e, x) ==
  LET els == At(s, a).els
      step(r, i) == IF r.ok THEN TellField(r, els, e.els[i], i, x) ELSE r
  IN  CASE Len(els) = 1 /\ e.t # "complex" -> Translate(s, els[1], e, Nowhere)
        [] els = <<>> -> Result(e.t = "empty", s)
        [] Len(els) > 1 /\ e.t # "complex" -> Result(FALSE, s)
        [] els # <<>> /\ e.t = "complex" ->
             IF Len(e.els) # Len(els) THEN Result(FALSE, s)
             ELSE Told(FoldLeft(step, [ok |-> TRUE, s |-> s, full |-> TRUE],
                                [i \in DOMAIN els |-> i]), a)

\* The sides of a union that are left when one of them is refused.
Remaining(im, okA, okB) ==
  IF okA = okB THEN im.els ELSE IF okA THEN <<im.els[1]>> ELSE <<im.els[2]>>

\* union_translator: both sides are told.
TranslateUnion(s, a, e, x) ==
  LET im == At(s, a)
      A == Translate(s, im.els[1], e, x)
      B == Translate(A.s, im.els[2], e, x)
  IN  IF Len(im.els) = 1 THEN A
      ELSE When(A.ok \/ B.ok, Put(B.s, a, [im EXCEPT !.els = Remaining(im, A.ok, B.ok)]), B.s)

-----------------------------------------------------------------------------
(* Images equated: image_equals *)

\* int_eq
EqualInts(s, a, b) ==
  LET both == At(s, a).set \cap At(s, b).set
      meet == IF At(s, a).single \/ At(s, b).single THEN IntIs(CHOOSE n \in both : TRUE)
              ELSE Ints(both)
      single == At(s, a).single \/ At(s, b).single
  IN  When(~single \/ both # {}, Put(Put(s, a, meet), b, meet), s)

Meet(common) == common # <<>>
\* char_eq: a single char narrows a charset, two charsets become the shorter
\* one's characters that the other has.
EqualChars(s, a, b) ==
  LET x == At(s, a)
      y == At(s, b)
      short == IF Len(y.s) < Len(x.s) THEN y.s ELSE x.s
      long == IF Len(y.s) < Len(x.s) THEN x.s ELSE y.s
      common == SelectSeq(short, LAMBDA c : Contains(long, c))
      both(im) == Put(Put(s, a, im), b, im)
  IN  CASE x.state = 0 -> Result(TRUE, both(y))
        [] y.state = 0 -> Result(TRUE, both(x))
        [] x.state = 1 /\ y.state = 1 -> Result(x.s = y.s, s)
        [] x.state = 1 /\ y.state = 2 -> When(Contains(y.s, Head(x.s)), both(x), s)
        [] x.state = 2 /\ y.state = 1 -> When(Contains(x.s, Head(y.s)), both(y), s)
        [] OTHER -> When(Meet(common), both(Char(2, common)), s)

\* Mutant of EqualAtoms: what they have in common is taken for one name.
EqualAtomsSingle(s, a, b) ==
  LET both == Atom(TRUE, At(s, a).set \cap At(s, b).set)
  IN  When(both.set # {}, Put(Put(s, a, both), b, both), s)
\* atom_eq
EqualAtoms(s, a, b) ==
  LET x == At(s, a)
      y == At(s, b)
      both == Atom(x.single \/ y.single, x.set \cap y.set)
  IN  When(both.set # {}, Put(Put(s, a, both), b, both), s)

\* array_eq: an array that has no elements gets the other's own, when they
\* are as many as it may have; two such arrays stay as they are.
EqualArrays(s, a, b) ==
  LET x == At(s, a)
      y == At(s, b)
      from == IF x.inst THEN x ELSE y
      to == IF x.inst THEN y ELSE x
      kind(im) == At(s, im.el).k
  IN  IF kind(x) # kind(y) THEN Result(FALSE, s)
      ELSE IF x.inst /\ y.inst
      THEN IF Len(x.els) # Len(y.els) THEN Result(FALSE, s)
           ELSE Each([i \in DOMAIN x.els |-> i], s,
                     LAMBDA r, i : Equals(r, x.els[i], y.els[i]))
      ELSE IF ~x.inst /\ ~y.inst THEN Result(TRUE, s)
      ELSE When(Len(from.els) \in to.lens,
                Put(s, IF x.inst THEN b ELSE a,
                    [to EXCEPT !.inst = TRUE, !.els = from.els]), s)

\* structure_eq: fields are equated as copies, which take their place; when
\* one is refused, those before it are put back, its own copies stay.
EqualStructs(s, a, b) ==
  LET x == At(s, a)
      y == At(s, b)
      step(r, i) ==
        LET cx == Copy(r.s, At(r.s, a).els[i])
            cy == Copy(cx.s, At(r.s, b).els[i])
            eq == Equals(cy.s, cx.a, cy.a)
            new == [eq.s EXCEPT !.h[a].els[i] = cx.a, !.h[b].els[i] = cy.a]
            back == [new EXCEPT !.h[a].els = [j \in DOMAIN @ |-> IF j < i THEN x.els[j] ELSE @[j]],
                                !.h[b].els = [j \in DOMAIN @ |-> IF j < i THEN y.els[j] ELSE @[j]]]
        IN  IF ~r.ok THEN r ELSE IF eq.ok THEN Result(TRUE, new) ELSE Result(FALSE, back)
  IN  IF Len(x.els) # Len(y.els) THEN Result(FALSE, s)
      ELSE FoldLeft(step, Result(TRUE, s), [i \in DOMAIN x.els |-> i])

\* union_eq of union a and an image b that is none: the sides are equated, A
\* with a copy of b, and B with b itself when A's was answered yes.
EqualUnion(s, a, b) ==
  LET im == At(s, a)
      src == Copy(s, b)
      copyA == Copy(src.s, im.els[1])
      A == Equals(copyA.s, copyA.a, src.a)
      again == Copy(A.s, b)
      B == IF Len(im.els) = 1 THEN Result(TRUE, A.s)
           ELSE IF A.ok THEN Equals(A.s, im.els[2], b)
           ELSE Equals(again.s, im.els[2], again.a)
      sides == [im.els EXCEPT ![1] = copyA.a]
  IN  IF Len(im.els) = 1
      THEN When(A.ok, Put(A.s, a, [im EXCEPT !.els = sides]), A.s)
      ELSE When(A.ok \/ B.ok,
                Put(B.s, a, [im EXCEPT !.els = Remaining([els |-> sides], A.ok, B.ok)]), B.s)

\* union_eq with a union: with each of its sides in turn.
EqualUnions(s, a, b) ==
  LET other == At(s, b)
      first == Equals(s, a, other.els[1])
      second == Equals(first.s, a, other.els[2])
  IN  IF Len(other.els) = 1 THEN first ELSE Result(first.ok \/ second.ok, second.s)

Equals(s, a, b) ==
  LET x == At(s, a)
      y == At(s, b)
  IN  IF x.k = "link" THEN Equals(s, Field(s, x), b)
      ELSE IF y.k = "link" THEN Equals(s, Field(s, y), a)
      ELSE IF x.k = "union" /\ y.k = "union" THEN EqualUnions(s, a, b)
      ELSE IF x.k = "union" THEN EqualUnion(s, a, b)
      ELSE IF y.k = "union" THEN EqualUnion(s, b, a)
      ELSE IF x.k # y.k THEN Result(FALSE, s)
      ELSE CASE x.k = "int" -> EqualInts(s, a, b)
             [] x.k = "char" -> EqualChars(s, a, b)
             [] x.k = "atom" -> EqualAtoms(s, a, b)
             [] x.k = "array" -> EqualArrays(s, a, b)
             [] x.k = "struct" -> EqualStructs(s, a, b)

\* The translator of image a, which is that of variable x or within it.
Translate(s, a, e, x) ==
  LET im == At(s, a)
  IN  CASE im.k = "int" -> TranslateInt(s, a, e)
        [] im.k = "char" -> TranslateChar(s, a, e)
        [] im.k = "atom" -> TranslateAtom(s, a, e)
        [] im.k = "array" -> IF im.text /\ e.t = "chars" THEN TranslateText(s, a, e)
                             ELSE TranslateArray(s, a, e)
        [] im.k = "struct" -> TranslateStruct(s, a, e, x)
        [] im.k = "union" -> TranslateUnion(s, a, e, x)
        [] im.k = "link" -> Translate(s, Field(s, im), e, Nowhere)

-----------------------------------------------------------------------------
(* Values generated: image_generate *)

Tagged(k, q) == [i \in DOMAIN q |-> <<k, q[i]>>]
\* Mutant of Combined: only the first value of each of the others.
CombinedFirst(qs) ==
  IF qs = <<>> THEN << <<>> >>
  ELSE [i \in DOMAIN Head(qs) |-> [j \in DOMAIN qs |-> IF j = 1 THEN qs[1][i] ELSE qs[j][1]]]
\* Each value of the first, with each of the others'.
Combined(qs) ==
  FoldRight(LAMBDA q, tails :
              FlattenSeq([i \in DOMAIN q |->
                            [j \in DOMAIN tails |-> <<q[i]>> \o tails[j]]]),
            qs, << <<>> >>)

\* The values that a receiver gets which never stops the generator: those of
\* an array of no length yet for each length it may have, those of elements
\* and fields nested in each other, those of side A and then of side B.
RECURSIVE Values(_, _)
Values(s, a) ==
  LET im == At(s, a)
      els == [i \in DOMAIN im.els |-> Values(s, im.els[i])]
      lens == SetToSortSeq(im.lens, <)
      long(n) == Combined([i \in 1..n |-> Values(s, im.el)])
  IN  CASE im.k = "int" -> Tagged("int", SetToSortSeq(im.set, <))
        [] im.k = "char" -> Tagged("char", IF im.state = 0 THEN <<"?">> ELSE im.s)
        [] im.k = "atom" -> Tagged("atom", SetToSeq(im.set))
        [] im.k = "array" -> Tagged("array", IF im.inst THEN Combined(els)
                               ELSE FlattenSeq([i \in DOMAIN lens |-> long(lens[i])]))
        [] im.k = "struct" -> Tagged("struct", Combined(els))
        [] im.k = "union" -> FlattenSeq(els)
        [] im.k = "link" -> Values(s, Field(s, im))

-----------------------------------------------------------------------------
(* The program *)

Nothing == [op |-> "none"]
Init == /\ store \in Programs /\ asked = Nothing /\ said = "true"
        /\ given = <<>> /\ count = 0

Asks(q) == said = "true" /\ count < MaxAsked /\ count' = count + 1 /\ asked' = q
Answers(r) == /\ said' = IF r.ok THEN "true" ELSE "false"
              /\ store' = r.s /\ given' = <<>>

Fails == said' = "error" /\ store' = store /\ given' = <<>>

\* `x = e` for a literal e.
AssertLiteral ==
  \E x \in Vars, e \in Literals :
    /\ store.root[x] # 0 /\ Asks([op |-> "is", x |-> x, e |-> e])
    /\ \/ x \in store.locked /\ Fails
       \/ x \notin store.locked /\ Answers(Translate(store, store.root[x], e, x))

\* `x = y`: from the one that is instantiated, or locked, to the other; else
\* from y to x.
EquatedFrom(x, y, known) ==
  \/ x \in known
  \/ {x, y} \cap known = {} /\ x \in store.locked /\ y \notin store.locked
Refuses(x, y, known) ==
  \/ {x, y} \cap known = {} /\ {x, y} \subseteq store.locked
  \/ Cardinality({x, y} \cap known) = 1 /\ {x, y} \ known \subseteq store.locked
Equate ==
  \E x, y \in Vars :
    LET known == {v \in {x, y} : Instantiated(store, store.root[v])}
        X == store.root[x]
        Y == store.root[y]
    IN  /\ x # y /\ X # 0 /\ Y # 0
        /\ Asks([op |-> "eq", x |-> x, y |-> y])
        /\ \/ Refuses(x, y, known) /\ Fails
           \/ /\ ~Refuses(x, y, known)
              /\ Answers(LET from == IF EquatedFrom(x, y, known) THEN X ELSE Y
                         IN  Equals(store, from, IF from = X THEN Y ELSE X))

\* A receiver gets the values of x, until it stops the generator.
Generate ==
  \E x \in Vars :
    /\ store.root[x] # 0 /\ Asks([op |-> "generate", x |-> x])
    /\ \/ x \in store.locked /\ Fails
       \/ /\ x \notin store.locked /\ ~Instantiated(store, store.root[x])
          /\ said' = "true" /\ UNCHANGED store
          /\ \E n \in 0..Len(Values(store, store.root[x])) :
               given' = SubSeq(Values(store, store.root[x]), 1, n)

Next == AssertLiteral \/ Equate \/ Generate
Spec == Init /\ [][Next]_vars
-----------------------------------------------------------------------------
(* What images stand for *)

\* The sequences of one member of each of sets.
Tuples(sets) == {f \in [DOMAIN sets -> UNION {sets[i] : i \in DOMAIN sets}] :
                   \A i \in DOMAIN sets : f[i] \in sets[i]}

\* The values that image a still may have.
RECURSIVE Ground(_, _)
Ground(s, a) ==
  LET im == At(s, a)
      els == [i \in DOMAIN im.els |-> Ground(s, im.els[i])]
  IN  CASE im.k = "int" -> {<<"int", n>> : n \in im.set}
        [] im.k = "char" -> {<<"char", c>> : c \in IF im.state = 0 THEN Chars ELSE ToSet(im.s)}
        [] im.k = "atom" -> {<<"atom", n>> : n \in im.set}
        [] im.k = "array" ->
             {<<"array", q>> : q \in IF im.inst THEN Tuples(els)
                                     ELSE UNION {[1..n -> Ground(s, im.el)] : n \in im.lens}}
        [] im.k = "struct" -> {<<"struct", q>> : q \in Tuples(els)}
        [] im.k = "union" -> UNION {els[i] : i \in DOMAIN els}
        [] im.k = "link" -> Ground(s, Field(s, im))
GroundOf(s, x) == Ground(s, s.root[x])

\* v is a value that literal e describes.
RECURSIVE Describes(_, _, _)
Describes(s, e, v) ==
  CASE e.t = "any" -> TRUE
    [] e.t \notin {"any", "name", "complex"} /\ v[1] = "struct" ->
         Len(v[2]) = 1 /\ Describes(s, e, v[2][1])
    [] e.t = "int" -> v = <<"int", e.n>>
    [] e.t = "atom" -> v = <<"atom", e.name>>
    [] e.t = "atoms" -> v[1] = "atom" /\ v[2] \in e.set
    [] e.t = "chars" -> \/ v[1] = "char" /\ v[2] \in ToSet(e.s)
                        \/ v = <<"array", Tagged("char", e.s)>>
    [] e.t = "name" -> s.root[e.x] = 0 \/ v \in GroundOf(s, e.x)
    [] e.t \in {"array", "complex"} ->
         /\ v[1] = IF e.t = "array" THEN "array" ELSE "struct"
         /\ Len(v[2]) = Len(e.els)
         /\ \A i \in DOMAIN e.els : Describes(s, e.els[i], v[2][i])

\* The images that a is made of, a first, each as often as it is met.
RECURSIVE Within(_, _)
Within(s, a) ==
  LET im == At(s, a) IN
  <<a>> \o (CASE im.k \in {"array", "struct", "union"} ->
                    FlattenSeq([i \in DOMAIN im.els |-> Within(s, im.els[i])])
              [] im.k = "link" -> Within(s, Field(s, im))
              [] OTHER -> <<>>)
Parts(s, a) == ToSet(Within(s, a))
\* With the types of the elements to come, which `_` may make an element of
\* another array.
Reads(s, a) == Parts(s, a) \cup {At(s, b).el : b \in {b \in Parts(s, a) : At(s, b).k = "array"}}
\* No image is two parts of a, and none is the type of elements to come.
Unshared(s, a) ==
  /\ Cardinality(Parts(s, a)) = Len(Within(s, a))
  /\ \A b \in Parts(s, a) : At(s, b).k = "array" => At(s, b).el \notin Parts(s, a)

RECURSIVE Subliterals(_)
Subliterals(e) == {e} \cup IF e.t \in {"array", "complex"}
                           THEN UNION {Subliterals(e.els[i]) : i \in DOMAIN e.els} ELSE {}

\* The literals that images are narrowed by.  Not so: a charset asserted of a
\* charset and a set of names of an atom that does not have them all or is one
\* of them already (they are compared), a name within an array that has elements (no
\* translator takes it) or that is not of the element type (it is not looked
\* at), a text asserted of an array whose chars are not known (they are
\* compared), a text of any other array, anything of an array where `_` or a name stands twice (both are
\* one image).
Narrowing(s, x, e) ==
  LET parts == Parts(s, s.root[x]) IN
  /\ Unshared(s, s.root[x])
  /\ e.t = "chars" /\ At(s, s.root[x]).k = "array" => At(s, s.root[x]).text
  /\ \A m \in Subliterals(e) :
       /\ m.t = "chars" /\ Len(m.s) > 1 =>
            \A b \in parts : At(s, b).k = "char" => At(s, b).state # 2
       /\ m.t = "atoms" =>
            \A b \in parts : At(s, b).k = "atom" =>
                               ~At(s, b).single /\ m.set \subseteq At(s, b).set
       /\ m.t = "chars" =>
            \A b \in parts : At(s, b).k = "array" /\ At(s, b).text /\ At(s, b).inst =>
                               Instantiated(s, b)
       /\ m.t = "array" => \A i \in DOMAIN m.els : m.els[i].t = "name" =>
            \A b \in parts : At(s, b).k = "array" =>
              /\ ~At(s, b).inst
              /\ \/ s.root[m.els[i].x] = 0
                 \/ GroundOf(s, m.els[i].x) \subseteq Ground(s, At(s, b).el)

\* e tells a structure of all of its fields, or its only one.
Tells(s, x, e) ==
  /\ At(s, s.root[x]).k = "struct"
  /\ \A m \in Subliterals(e) :
       /\ m.t # "any"
       /\ m.t = "name" /\ s.root[m.x] # 0 => At(s, s.root[m.x]).k # "link"

\* The pairs that are narrowed to each other.  Not so: arrays of different
\* element types (the elements are taken over as they are), a union and what
\* is not known yet or a union too (it is not narrowed to the union's sides, or
\* only to one of them).
Comparable(s, x, y) ==
  LET parts == Parts(s, s.root[x]) \cup Parts(s, s.root[y]) IN
  /\ Unshared(s, s.root[x]) /\ Unshared(s, s.root[y])
  /\ \A a, b \in parts : At(s, a).k = "array" /\ At(s, b).k = "array" =>
       Ground(s, At(s, a).el) = Ground(s, At(s, b).el)
  /\ (\E a \in parts : At(s, a).k = "union") =>
       \E v \in {x, y} : /\ Instantiated(s, s.root[v])
                         /\ \A a \in Parts(s, s.root[v]) : At(s, a).k \notin {"union", "link"}

-----------------------------------------------------------------------------
(* Properties *)

\* Images are found where they are said to be, and a store never refers to
\* what is not in it.
TypeOK ==
  /\ said \in {"true", "false", "error"} /\ count \in 0..MaxAsked
  /\ \A x \in Vars : store.root[x] \in 0..Len(store.h)
  /\ \A a \in DOMAIN store.h :
       LET im == store.h[a] IN
       /\ im.k \in {"array", "struct", "union"} => ToSet(im.els) \subseteq DOMAIN store.h
       /\ im.k = "array" => im.el \in DOMAIN store.h
       /\ im.k = "char" => im.state = 0 \/ im.s # <<>>

\* x keeps the values that fit what was said of it, gains none, and what is
\* refused left it none.
Kept(x, Fits(_)) ==
  LET kept == {v \in GroundOf(store, x) : Fits(v)}
      now == GroundOf(store', x)
  IN  IF said' = "true" THEN kept \subseteq now /\ now \subseteq GroundOf(store, x)
      ELSE kept = {}

\* A literal asserted of a variable never takes a value from it that fits,
\* never gives it one, and is refused only if no value fits; of one value, it
\* leaves that one.  A structure whose every field it tells counts as
\* instantiated only if it then has one value: but for `_', and for a name that
\* stands for a field of another structure (a link counts as known).
AssertionsNarrow ==
  [][asked'.op = "is" /\ count' # count /\ said' # "error" =>
       LET x == asked'.x
           e == asked'.e
       IN  Narrowing(store, x, e) =>
             /\ Kept(x, LAMBDA v : Describes(store, e, v))
             /\ said' = "true" =>
                  \A v \in GroundOf(store', x) :
                    Cardinality(GroundOf(store', x)) = 1 => Describes(store, e, v)
             /\ said' = "true" /\ Tells(store, x, e) /\ Instantiated(store', store.root[x])
                  => Cardinality(GroundOf(store', x)) = 1]_vars

\* Equating two variables takes no value from either that both have, gives
\* none, is refused only if they have none in common, and of a variable that
\* has one value makes the other have that one.
EquationsNarrow ==
  [][asked'.op = "eq" /\ count' # count /\ said' # "error" =>
       LET x == asked'.x
           y == asked'.y
       IN  Comparable(store, x, y) =>
             /\ Kept(x, LAMBDA v : v \in GroundOf(store, y))
             /\ Kept(y, LAMBDA v : v \in GroundOf(store, x))
             /\ said' = "true" /\ Instantiated(store, store.root[x])
                /\ At(store, store.root[x]).k # "link" =>
                  GroundOf(store', y) = GroundOf(store', x)]_vars

\* What is asked of some variables leaves those alone that none of their
\* images is a part of, or the type of elements to come; a type or a header that
\* a literal names is left alone, too.
OthersStay ==
  [][LET touched == IF asked'.op = "eq" THEN {asked'.x, asked'.y}
                    ELSE {asked'.x} \cup
                         (IF asked'.op = "is"
                          THEN {m.x : m \in {m \in Subliterals(asked'.e) : m.t = "name"}}
                                 \ store.locked
                          ELSE {})
         shown(x) == store.root[x] # 0
     IN  \A y \in Vars \ touched :
           shown(y) /\ (\A x \in touched : shown(x) =>
                          Parts(store, store.root[x]) \cap Reads(store, store.root[y]) = {})
             => GroundOf(store', y) = GroundOf(store, y)]_vars

\* A generator that is never stopped gives each value that the image may have
\* and no other, each once (but for those that both sides of a union have),
\* as long as its chars are of some set.
GeneratesEach ==
  \A x \in Vars :
    LET a == store.root[x]
        values == Values(store, a)
    IN  a # 0 /\ Unshared(store, a)
        /\ (\A b \in DOMAIN store.h : store.h[b].k = "char" => store.h[b].state # 0)
        => /\ ToSet(values) = Ground(store, a)
           /\ (\A b \in Parts(store, a) : At(store, b).k # "union")
                => Len(values) = Cardinality(Ground(store, a))

\* What counts as instantiated has one value, so that it is not generated:
\* but for a linked variable, and a structure that `_` was asserted of.
InstantiatedIsOne ==
  \A x \in Vars :
    LET a == store.root[x] IN
    /\ a # 0 /\ Instantiated(store, a)
    /\ \A b \in Parts(store, a) : At(store, b).k \notin {"link", "struct"}
    => Cardinality(Ground(store, a)) = 1
=============================================================================
