------------------------------ MODULE MCSearch ------------------------------
(***************************************************************************)
(* Programs for TLC.  A program is built from a fixed set of C predicates  *)
(* and from interior predicates whose bodies are drawn from small pools    *)
(* of expression lists; each run has its pools and its queries.            *)
(***************************************************************************)
EXTENDS Reference
LOCAL INSTANCE SequencesExt

MCNames == {"x", "y"}
MCVals == {1, 2, 3}
MCPreds == {"p", "q", "same", "pair", "both", "id", "loop", "succeed", "narrow", "inst",
            "fail", "error", "stop"}
MCArity == [p \in MCPreds |-> IF p \in {"same", "pair", "both"} THEN 2 ELSE 1]
MCBlocks == {"p1", "p2", "q1", "same", "pair", "id", "loop",
             "b", "c"}

-----------------------------------------------------------------------------
(* Expressions *)

G == [op |-> "cut", x |-> "x", dom |-> {}, pred |-> "p", args |-> <<>>,
      body |-> <<>>]
Cut == G
Is(x, D) == [G EXCEPT !.op = "assert", !.x = x, !.dom = D]
Call(p, args) == [G EXCEPT !.op = "call", !.pred = p, !.args = args]
Same(x, y) == [G EXCEPT !.op = "eq", !.x = x, !.args = <<y>>]
Each(x) == [G EXCEPT !.op = "unify", !.x = x]
ForAll(x, b) == [G EXCEPT !.op = "all", !.x = x, !.body = <<b>>]
Some(x, b) == [G EXCEPT !.op = "exists", !.x = x, !.body = <<b>>]
If(b, c) == [G EXCEPT !.op = "imply", !.body = <<b, c>>]
Either(b, c) == [G EXCEPT !.op = "choice", !.body = <<b, c>>]
Isolated(b) == [G EXCEPT !.op = "iso", !.body = <<b>>]
Group(b) == [G EXCEPT !.op = "set", !.body = <<b>>]

X == <<"x">>
P == Call("p", X)
Q == Call("q", X)
XY == <<"x", "y">>

-----------------------------------------------------------------------------
(* Predicates: p has two variations, q has one, with `%` a case break *)

Interior(params, body) ==
  [kind |-> "interior", params |-> params, body |-> body, cutCase |-> FALSE,
   c |-> "succeed", dom |-> {}]
InC(c, dom) ==
  [kind |-> "c", params |-> X, body |-> "b", cutCase |-> FALSE, c |-> c,
   dom |-> dom]
Of(hint, clauses) == [hint |-> hint, clauses |-> clauses]

Database(hint, case) == [n \in MCPreds |->
  CASE n = "p" -> Of(hint, <<[Interior(X, "p1") EXCEPT !.cutCase = case],
                             Interior(X, "p2")>>)
    [] n = "q" -> Of(MCVals, <<Interior(X, "q1"), InC("narrow", {2, 3})>>)
    [] n = "same" -> Of(MCVals, <<Interior(XY, "same")>>)
    [] n = "pair" -> Of(MCVals, <<Interior(XY, "pair")>>)
    [] n = "both" -> Of({2, 3}, <<Interior(XY, "id")>>)
    [] n = "id" -> Of(MCVals, <<Interior(X, "id")>>)
    [] n = "loop" -> Of(MCVals, <<Interior(X, "loop"), InC("succeed", {})>>)
    [] n = "narrow" -> Of(MCVals, <<InC("narrow", {1, 2})>>)
    [] n = "inst" -> Of(MCVals, <<InC("inst", {1, 2})>>)
    [] OTHER -> Of(MCVals, <<InC(n, {})>>)]

\* The query asks for the variables it shows; a name that is imaged was
\* declared before, as in `x ~ color`.
Ask(list, shown, imaged) == [list |-> list, shown |-> shown, imaged |-> imaged]
About(list) == Ask(list, {"x"}, <<>>)

Make(q, p1, p2, q1, b, c, hint, case) ==
  [query |-> q.list, imaged |-> q.imaged, shown |-> q.shown,
   block |-> [n \in MCBlocks |->
     CASE n = "p1" -> p1 [] n = "p2" -> p2 [] n = "q1" -> q1
       [] n = "b" -> b [] n = "c" -> c [] n = "id" -> <<>>
       [] n = "same" -> <<Is("x", {2}), Same("x", "y")>>
       [] n = "pair" -> <<Is("x", {1, 2}), Is("y", {3})>>
       [] n = "loop" -> <<Call("loop", X)>>],
   pred |-> Database(hint, case)]

-----------------------------------------------------------------------------
(* Answers: what the engine finds is what the query means.  Queries ask in *)
(* the order the interpreter keeps its context through: a goal that makes  *)
(* a choicepoint in place (x?) ends its list.                              *)

AnswerQueries == {About(<<P>>), About(<<P, Call("id", X)>>),
  About(<<Call("narrow", X), P>>), Ask(<<Call("same", XY), If("b", "c"), P>>, MCNames, <<>>),
  Ask(<<P, Call("q", <<"y">>)>>, MCNames, <<>>), Ask(<<P>>, {"x"}, X),
  Ask(<<Call("pair", XY), P>>, MCNames, <<>>)}
PlainBodies == {<<>>, <<Is("x", {1, 2})>>, <<Is("x", {3})>>,
  <<Is("x", {2, 3}), Q>>, <<Call("fail", X)>>,
  <<Call("same", XY), Is("y", {2})>>, <<Either("b", "c")>>, <<If("b", "c")>>,
  <<Is("x", {2, 3}), If("b", "c"), Call("narrow", X)>>}
LastQueries == {About(<<P>>), About(<<Call("narrow", X), P>>), About(<<Call("inst", X)>>)}
LastBodies == {<<Each("x")>>, <<Is("x", {1, 2}), Each("x")>>, <<Call("narrow", X)>>,
  <<Either("b", "c"), Each("x")>>}
AnswerPrograms ==
  {Make(q, p1, p2, q1, b, <<Is("x", {2, 3})>>, MCVals, FALSE) :
     q \in AnswerQueries, p1 \in PlainBodies, p2 \in PlainBodies,
     q1 \in {<<Is("x", {1})>>}, b \in {<<Is("x", {1})>>, <<Call("narrow", X)>>}}
  \cup
  {Make(q, p1, p2, <<>>, <<Is("x", {1})>>, <<Is("x", {2, 3})>>, MCVals, FALSE) :
     q \in LastQueries, p1 \in LastBodies, p2 \in LastBodies}

\* The same for a receiver; a choice goes on after it has asked to stop.
SenderPrograms ==
  {Make(q, p1, p2, <<Is("x", {1})>>, <<Is("x", {1})>>, <<Is("x", {2, 3})>>,
        MCVals, FALSE) :
     q \in AnswerQueries, p1 \in PlainBodies \ {<<Either("b", "c")>>},
     p2 \in {<<Is("x", {1, 2})>>, <<Is("x", {2, 3}), Q>>}}
  \cup
  {Make(q, <<Is("x", {1})>>, <<Is("x", {2, 3}), Each("x")>>, <<>>, <<>>, <<>>,
        MCVals, FALSE) : q \in LastQueries \ {About(<<Call("inst", X)>>)}}

-----------------------------------------------------------------------------
(* Refinement of the session, for the prompt and for a receiver *)

SessionPrograms == AnswerPrograms \cup SenderPrograms
AnswersInit ==
  /\ Init
  /\ prog \in (IF mode = "interactive" THEN AnswerPrograms ELSE SenderPrograms)
AnswersSpec == AnswersInit /\ [][Next]_vars

\* A session gives its user the answers that the query means, in their order.
Result == INSTANCE Answers WITH
  Meaning <- Expected, query <- prog, given <- out, over <- stack = <<>>
ImplementsSession == Result!Session

-----------------------------------------------------------------------------
(* Every pair of expressions in a body, with what follows the call *)

Goals == {Cut, Is("x", {1}), Is("x", {2, 3}), Is("y", {1}), Each("x"), Each("y"), Q,
  Same("x", "y"), ForAll("x", "b"), ForAll("y", "b"), Some("x", "b"),
  If("b", "c"), Either("b", "c"), Isolated("b"), Group("b"),
  Call("inst", X), Call("narrow", X), Call("error", X), Call("stop", X),
  Call("id", <<"y">>), Call("both", <<"y", "x">>), Group("id")}
FeatureQueries == {About(<<P>>), Ask(<<P, Call("inst", X)>>, {"x"}, <<"y">>),
  Ask(<<Call("pair", XY), P>>, MCNames, <<>>),
  Ask(<<Call("id", X), Same("x", "y"), Either("b", "c"), P>>, MCNames, X)}
GoalSets == {<<<<Is("x", {1, 2}), Each("x")>>, <<Cut>>>>}
  \cup {<<b, <<Is("x", {3})>>>> :
          b \in {<<Is("x", {1, 2}), Each("x")>>, <<Call("error", X)>>, <<Some("x", "c")>>}}
FeaturePrograms ==
  {Make(q, <<g, h>>, <<Is("x", {2})>>, <<Is("x", {1, 2}), Each("x")>>, s[1], s[2],
        {1, 2}, FALSE) :
     q \in FeatureQueries, g \in Goals, h \in Goals, s \in GoalSets}
  \cup \* a choice that ends the query, with a generator in it
  {Make(About(<<Call("id", X), Either("b", "c")>>), <<>>, <<>>, <<>>,
        <<Each("x"), g>>, <<Is("x", {1})>>, MCVals, FALSE) :
     g \in {Call("succeed", X), If("c", "c"), Isolated("c"), Group("c")}}

-----------------------------------------------------------------------------
(* Cuts: in the first variation of p only, and not after a choicepoint made *)
(* in its own body                                                          *)

CutBodies == {<<Cut>>, <<Is("x", {1, 2}), Cut>>, <<Cut, Is("x", {1, 2})>>,
  <<Is("x", {3}), Cut, Call("narrow", X)>>, <<Cut, Q>>, <<Cut, Each("x")>>,
  <<Q, Cut>>, <<Call("fail", X), Cut>>, <<If("b", "c"), Cut>>}
CutPrograms ==
  {Make(q, p1, p2, q1, <<Is("x", {1})>>, <<Is("x", {2, 3})>>, MCVals, case) :
     q \in AnswerQueries, p1 \in CutBodies, p2 \in {<<>>, <<Is("x", {3}), Q>>},
     q1 \in {<<Is("x", {1})>>, <<>>}, case \in BOOLEAN}

-----------------------------------------------------------------------------
(* Recursion: bodies that call their own predicate, or each other's *)

RecursiveBodies == {<<P>>, <<Q>>, <<Call("narrow", X), P>>, <<Each("x"), P>>,
  <<If("b", "c"), P>>, <<Either("b", "c")>>, <<ForAll("x", "b")>>, <<P, Cut>>,
  <<Is("x", {1})>>}
RecursivePrograms ==
  {Make(q, p1, p2, q1, <<P>>, <<Is("x", {1})>>, MCVals, FALSE) :
     q \in {About(<<P>>), About(<<P, Q>>), About(<<Call("loop", X)>>)},
     p1 \in RecursiveBodies, p2 \in {<<P>>, <<Is("x", {3})>>},
     q1 \in {<<P>>, <<Is("x", {2})>>}}

-----------------------------------------------------------------------------
(* Goals, cuts and recursion together *)

ControlPrograms == FeaturePrograms \cup CutPrograms \cup RecursivePrograms

\* A call, a variation, a generator gives back what it took: the scope the next
\* one starts in, the list its context owns and the recursion depth (query.c:348,
\* query.c:2273, query.c:2029).
GivesBack == ScopeRestored /\ ContextOwnsList /\ DepthReleased

\* docs/tutor.md:165 on the cut, where its one register (query.c:2800) suffices.
CutsCommit == [][(prog \in CutPrograms) => CommittedStops]_vars

-----------------------------------------------------------------------------
(* What the documents say and the engine does not do *)

One(q, p1, p2, q1) == {Make(q, p1, p2, q1, <<>>, <<>>, MCVals, FALSE)}
\* p(x) { !; q(x); }  q(x) { x = two; !; }
NestedCutPrograms ==
  One(About(<<P>>), <<Cut, Q>>, <<Is("x", {3})>>, <<Is("x", {2}), Cut>>)
=============================================================================
