------------------------------- MODULE MCGenerics ------------------------------
(***************************************************************************)
(* Calls and clarifications of a few predicates of lib/lib.l and of        *)
(* tests/generic.l, in sessions of several goals and queries.              *)
(***************************************************************************)
EXTENDS Generics

MCTypes == {"int", "char"}
IntType     == Type("int")
CharType    == Type("char")
Ints    == Ins(<<"int", 1>>, <<"int", 0>>, "int", 1)
Sign(a) == Pred("", a)
H(args, resp)    == [args |-> args, resp |-> resp, primitive |-> FALSE]
Unnamed(args, r) == [args |-> args, resp |-> r, primitive |-> TRUE]

\* The names of the predicates, and what they declare; the rest are signatures.
MCNames == <<"map", "same", "inc", "generic1", "sum", "any", "pair", "deep", "resolutor",
             "", "", "", "">>
MCDeclared ==
  << H(<<Generic("T", 1), Typed(Sign(10), 0)>>, Generic("R", 1)),   \* map('T'[], ?('T') -> 'R') -> 'R'[]
     H(<<Generic("T", 0)>>, Generic("T", 0)),                       \* same('T') -> 'T'
     H(<<Typed(IntType, 0)>>, Typed(IntType, 0)),                           \* inc(int) -> int
     H(<<Generic("T", 0), Generic("T", 1)>>, NoDecl),               \* generic1('T', 'T'[])
     H(<<Typed(Ints, 1)>>, Typed(IntType, 0)),                          \* sum(int[]) -> int
     H(<<Typed(IntType, 0)>>, Generic("T", 1)),                         \* any(int) -> 'T'[]
     H(<<Generic("A", 0), Generic("B", 0)>>, Generic("C", 1)),      \* pair('A', 'B') -> 'C'[]
     H(<<Typed(Sign(11), 0), Generic("B", 0)>>, Generic("A", 0)),   \* deep(?('C', ?('A', 'B')), 'B') -> 'A'
     H(<<Typed(IntType, 0), Typed(Sign(13), 0)>>, NoDecl),              \* resolutor(int, ?(int, char))
     Unnamed(<<Generic("T", 0)>>, Generic("R", 0)),
     Unnamed(<<Generic("C", 0), Typed(Sign(12), 0)>>, NoDecl),
     Unnamed(<<Generic("A", 0), Generic("B", 0)>>, NoDecl),
     Unnamed(<<Typed(IntType, 0), Typed(CharType, 0)>>, NoDecl) >>

\* Variables of a query: integers, characters, arrays of them, an atom a in one
\* query and a structure a in another.
Var(n, el, b, d) == Ins(<<n, 0>>, <<el, 0>>, b, d)
MCScopes ==
  { <<>>,
    "i" :> Var("i", "i", "int", 0) @@ "s" :> Var("s", "int", "int", 1) @@ "a" :> Var("a", "a", "atom", 0),
    "i" :> Var("i", "i", "char", 0) @@ "s" :> Var("s", "char", "char", 1)
      @@ "a" :> Var("a", "a", "structure", 0) }

Nm(n)   == [k |-> "name", n |-> n]
V(b, d) == [k |-> "value", base |-> b, depth |-> d]
C(g, t, n) == [g |-> g, type |-> t, nest |-> n]
TheCall(p, c, as, r) == [k |-> "call", pred |-> p, clar |-> c, args |-> as, resp |-> r]
Calls ==
  {TheCall("map", c, <<s, Nm(f)>>, r) :
     c \in {<<>>, <<C("", "int", 0)>>, <<C("T", "int", 0), C("R", "char", 0)>>},
     s \in {Nm("s"), V("int", 1)}, f \in {"same", "inc", "sum", "q", "f"}, r \in {Nm("x"), NoArg}}
  \cup {TheCall("same", <<>>, <<e>>, r) : e \in {Nm("i"), Nm("a"), Nm("x"), V("int", 0)}, r \in {Nm("y"), Nm("s")}}
  \cup {TheCall("inc", <<>>, <<e>>, Nm("y")) : e \in {Nm("i"), V("int", 0)}}
  \cup {TheCall("generic1", <<>>, <<e, v>>, NoArg) : e \in {Nm("i"), Nm("a"), Nm("y")}, v \in {Nm("s"), Nm("z"), Nm("i"), V("char", 1)}}
  \cup {TheCall("any", c, <<Nm("i")>>, r) : c \in {<<>>, <<C("T", "int", 0)>>}, r \in {Nm("x"), NoArg}}
  \cup {TheCall("pair", c, <<Nm("i"), e>>, Nm("y")) :
          c \in {<<>>, <<C("", "int", 0), C("", "char", 0)>>, <<C("", "char", 0), C("B", "int", 1)>>},
          e \in {Nm("s"), Nm("x")}}
  \cup {TheCall("deep", <<>>, <<Nm(f), Nm(b)>>, Nm(r)) :
          f \in {"resolutor", "f"}, b \in {"i", "x"}, r \in {"y", "i"}}
  \cup {TheCall("q", <<>>, <<e, Nm("inc")>>, Nm("y")) : e \in {Nm("s"), Nm("x")}}
Clarifications ==
  {[k |-> "clarify", pred |-> p, clar |-> c, to |-> "q"] :
     p \in {"map", "same", "pair", "deep"},
     c \in {<<C("", "int", 0)>>, <<C("", "int", 1)>>, <<C("T", "int", 0)>>, <<C("", "int", 0), C("", "char", 0)>>,
            <<C("T", "int", 0), C("R", "char", 1)>>, <<C("R", "char", 0), C("T", "int", 0)>>,
            <<C("B", "int", 0), C("A", "i", 1)>>, <<C("A", "char", 0), C("B", "none", 0)>>}}
MCGoals == Calls \cup Clarifications
MCDefault == [p \in {"map", "same", "inc", "generic1", "sum", "any", "pair", "deep", "resolutor", "q", "f"} |->
                IF p = "pair" THEN "char" ELSE ""]

\* What a call enters with has the types it resolved; what it refuses has none.
CallsAreTyped == EnteredTyped /\ RefusedRightly
\* The types; only a response's missing type fails an assertion; what a variable
\* is clarified to is what a call is.
GenericsSound == GenericsTypeOK /\ OnlyResponsesAbort /\ ClarifiedAlike
===============================================================================
