----------------------------- MODULE Reference -----------------------------
(***************************************************************************)
(* What a query means, apart from how the engine finds it: the answers of  *)
(* a conjunction are those of its first goal, each followed by those of    *)
(* the rest, a predicate's are those of its variations in their order, and *)
(* a generator's are its values in ascending order.  This is the depth     *)
(* first enumeration docs/tutor.md promises ("if one case is considered    *)
(* invalid for relation we go to the next case, and we won't stop          *)
(* searching for all of possible solutions").  It covers the goals without *)
(* control: no cut, no set and no quantifier.                              *)
(* An environment maps a name to the values it may take, {} when unknown.  *)
(***************************************************************************)
EXTENDS Search
LOCAL INSTANCE SequencesExt

\* The concatenation of what f gives for the values of S in ascending order.
RECURSIVE Enumerate(_, _)
Enumerate(f, S) ==
  IF S = {} THEN <<>>
  ELSE LET v == CHOOSE w \in S : \A u \in S : w <= u
       IN  f[v] \o Enumerate(f, S \ {v})

Bind(e, x, D) == [e EXCEPT ![x] = D]
Positions(names, n) == {j \in 1 .. Len(names) : names[j] = n}
\* An argument as its parameter sees it.
Passed(e, x, hint) == IF e[x] = {} THEN hint ELSE e[x] \cap hint
\* What a C predicate does with the values D of its first argument.
Outcomes(c, D) ==
  CASE c.c = "succeed" -> <<D>>
    [] c.c = "fail" -> <<>>
    [] c.c = "narrow" -> IF D \cap c.dom = {} THEN <<>> ELSE <<D \cap c.dom>>
    [] c.c = "inst" -> Enumerate([v \in Vals |-> <<{v}>>], D \cap c.dom)

RECURSIVE Solutions(_, _, _)
\* The environments in which the goals of list hold in program P, from e.
Solutions(P, list, e) ==
  IF list = <<>> THEN <<e>>
  ELSE
  LET g == Head(list)
      rest == Tail(list)
      Then(envs) == FlattenSeq([j \in 1 .. Len(envs) |->
                                  Solutions(P, rest, envs[j])])
      Values(D, New(_)) == Then(Enumerate([v \in Vals |-> <<New(v)>>], D))
      p == P.pred[g.pred]
      args == [j \in 1 .. Len(g.args) |-> Passed(e, g.args[j], p.hint)]
      \* the caller's environment after a variation left its parameters at D
      Back(D) == [n \in Names |->
        IF Positions(g.args, n) = {} THEN e[n]
        ELSE D[CHOOSE j \in Positions(g.args, n) : TRUE]]
      Body(c) ==
        IF c.kind = "c"
        THEN LET envs == Outcomes(c, args[1])
             IN  [j \in 1 .. Len(envs) |->
                    Back([args EXCEPT ![1] = envs[j]])]
        ELSE LET inner == [n \in Names |->
                   IF Positions(c.params, n) = {} THEN {}
                   ELSE args[CHOOSE j \in Positions(c.params, n) : TRUE]]
                 envs == Solutions(P, P.block[c.body], inner)
             IN  [j \in 1 .. Len(envs) |->
                    Back([i \in 1 .. Len(args) |-> envs[j][c.params[i]]])]
  IN
  CASE g.op = "assert" ->
         IF g.dom \subseteq e[g.x] THEN Then(<<Bind(e, g.x, g.dom)>>) ELSE <<>>
    [] g.op = "unify" -> Values(e[g.x], LAMBDA v : Bind(e, g.x, {v}))
    [] g.op = "eq" ->
         LET y == g.args[1]
             both == IF e[g.x] = {} THEN e[y]
                     ELSE IF e[y] = {} THEN e[g.x] ELSE e[g.x] \cap e[y]
             Each(v) == Bind(Bind(e, g.x, {v}), y, {v})
         IN  IF {} \in {e[g.x], e[y]}
             THEN Then(<<Bind(Bind(e, g.x, both), y, both)>>)
             ELSE Values(both, Each)
    [] g.op = "call" ->
         IF {} \in {args[j] : j \in 1 .. Len(args)} THEN <<>>
         ELSE FlattenSeq([i \in 1 .. Len(p.clauses) |->
                            Then(Body(p.clauses[i]))])
    [] g.op = "choice" ->
         FlattenSeq([i \in 1 .. Len(g.body) |->
           Then(Solutions(P, P.block[g.body[i]], e))])
    [] g.op = "imply" ->
         LET facts == Solutions(P, P.block[g.body[1]], e)
         IN  IF facts = <<>> THEN Then(<<e>>)
             ELSE FlattenSeq([j \in 1 .. Len(facts) |->
                    Then(Solutions(P, P.block[g.body[2]], facts[j]))])

\* The answers to the query of P, as laure_showcast shows them.
Expected(P) ==
  LET e == [n \in Names |->
              IF \E j \in 1 .. Len(P.imaged) : P.imaged[j] = n
              THEN Vals ELSE {}]
      envs == Solutions(P, P.query, e)
  IN  [j \in 1 .. Len(envs) |->
         [n \in Names |-> IF n \in P.shown THEN envs[j][n] ELSE {}]]
=============================================================================
