------------------------------- MODULE Ordering -------------------------------
(***************************************************************************)
(* Body ordering (src/order.c): for a predicate declared after `!ordering' *)
(* every case gets one order of its goals for each way the arguments may   *)
(* be instantiated.  Goals are taken one by one, the most initialised      *)
(* first, against a mock of the scope that says which names will have a    *)
(* value by then.                                                          *)
(***************************************************************************)
EXTENDS Naturals, Sequences, FiniteSets, SequencesExt

CONSTANTS
  Bodies,   \* bodies considered: sequences of goals
  Arity,    \* number of arguments of the predicate
  ArgName,  \* [1..Arity -> Name]: laure_get_argn
  RespName, \* laure_get_respn
  Literal   \* what an argument that is not a name is

PredCall(args) == [t |-> "pred_call", args |-> args]
Assert_(x, y)  == [t |-> "assert", l |-> x, r |-> y]
UnifyOf(x)     == [t |-> "unify", s |-> x]
RenameOf(x, y) == [t |-> "rename", l |-> x, r |-> y]
Cut            == [t |-> "cut"]
Other          == [t |-> "imply"]

Goals ==
  [t : {"pred_call"}, args : Seq(STRING)] \cup [t : {"assert", "rename"}, l : STRING, r : STRING]
  \cup [t : {"unify"}, s : STRING] \cup [t : {"cut", "imply"}]

ASSUME OrderingAssumption ==
  /\ Arity \in Nat /\ ArgName \in [1..Arity -> STRING] /\ RespName \in STRING
  /\ Bodies \subseteq Seq(Goals)

VARIABLES
  body, has_resp,     \* the case: its goals as written, whether it has a response
  mask, resp,         \* which arguments, and whether the response, are instantiated
  mock,               \* the variables of the mock scope: [names, instantiated]
  rest, ordered       \* goals left, and taken

order == <<body, has_resp, mask, resp, mock, rest, ordered>>
-------------------------------------------------------------------------------
Var(n, inst)      == [names |-> {n}, instantiated |-> inst]
First_(m, ns)     == CHOOSE i \in 1..Len(m) :
                       /\ m[i].names \cap ns # {}
                       /\ \A j \in 1..i-1 : m[j].names \cap ns = {}
Knows(m, ns)      == \E i \in 1..Len(m) : m[i].names \cap ns # {}

set_initted_variable(m, n) ==
  IF Knows(m, {n}) THEN [m EXCEPT ![First_(m, {n})].instantiated = TRUE]
                   ELSE Append(m, Var(n, TRUE))
\* An argument that is no name is passed over.
SetArg(m, x)      == IF x = Literal THEN m ELSE set_initted_variable(m, x)
SetAll(m, args) ==
  LET upto[i \in 0..Len(args)] == IF i = 0 THEN m ELSE SetArg(upto[i - 1], args[i])
  IN  upto[Len(args)]
Instantiated(m, n) == Knows(m, {n}) /\ m[First_(m, {n})].instantiated
link_name(m, a, b) ==
  IF Knows(m, {a, b}) THEN [m EXCEPT ![First_(m, {a, b})].names = @ \cup {a, b}] ELSE m

\* mock_init_with_mask
MockOf(args, response) ==
  <<Var(RespName, response)>> \o [i \in 1..Arity |-> Var(ArgName[i], args[i])]

\* apply_knowledge_to_mock
Learned(m, g) ==
  CASE g.t = "pred_call" -> SetAll(m, g.args)
    [] g.t = "assert"    -> SetAll(m, <<g.l, g.r>>)
    [] g.t = "unify"     -> set_initted_variable(m, g.s)
    [] g.t = "rename"    -> link_name(m, g.l, g.r)
    [] OTHER             -> m

(* get_initialization as a fraction; 0/0, a call of no arguments, compares  *)
(* with nothing, like the NaN it is in the code.                            *)
Initialization(m, g) ==
  LET Has(x) == x = Literal \/ Instantiated(m, x)
  IN  IF g.t = "pred_call"
      THEN <<Cardinality({i \in 1..Len(g.args) : Has(g.args[i])}), Len(g.args)>>
      ELSE <<1, 1>>
NaN(f)     == f[2] = 0
Above(f, g) == ~NaN(f) /\ ~NaN(g) /\ f[1] * g[2] > g[1] * f[2]

\* Of the first k goals the one get_most_initted settles on: the first, then whatever is
\* above the best so far.
Better(m, gs, best, i) ==
  IF Above(Initialization(m, gs[i]), Initialization(m, gs[best])) THEN i ELSE best
MostInitted(m, gs) ==
  LET best[k \in 0..Len(gs)] == IF k = 0 THEN 1 ELSE Better(m, gs, best[k - 1], k) IN best

get_most_initted(m, gs) ==
  IF Len(gs) = 1 \/ gs[1].t = "rename" THEN 1 ELSE MostInitted(m, gs)[Len(gs)]

UnlinkedNext(gs, i) == RemoveAt(gs, IF i < Len(gs) THEN i + 1 ELSE i)  \* mutant: the next one
Unlinked(gs, i) == RemoveAt(gs, i)
-------------------------------------------------------------------------------
\* go_binary_tree: where every argument that there is has a value the body is as written.
AllInstantiated == resp = has_resp /\ \A i \in 1..Arity : mask[i]

\* laure_generate_final_permututations orders nothing for too few arguments.
Fixed == Arity = 0 \/ (Arity < 2 /\ ~has_resp)

OrderInit ==
  /\ body \in Bodies /\ has_resp \in BOOLEAN
  /\ mask \in [1..Arity -> BOOLEAN]
  /\ resp \in (IF has_resp THEN BOOLEAN ELSE {FALSE})
  /\ mock = MockOf(mask, resp)
  /\ IF Fixed \/ AllInstantiated THEN ordered = body /\ rest = <<>>
                                 ELSE ordered = <<>> /\ rest = body

\* One turn of generate_linked_permutation.
Take ==
  /\ rest # <<>>
  /\ LET i == get_most_initted(mock, rest) IN
       /\ ordered' = Append(ordered, rest[i])
       /\ rest' = Unlinked(rest, i)
       /\ mock' = Learned(mock, rest[i])
  /\ UNCHANGED <<body, has_resp, mask, resp>>

OrderSpec == OrderInit /\ [][Take]_order
-------------------------------------------------------------------------------
Count(gs, g) == Cardinality({i \in 1..Len(gs) : gs[i] = g})

\* Every goal of the body is run exactly once, whatever is instantiated: none is
\* dropped or doubled while goals are unlinked from the list (get_most_initted).
SameGoals ==
  \A g \in {body[i] : i \in 1..Len(body)} \cup {ordered[i] : i \in 1..Len(ordered)} :
    Count(body, g) = Count(ordered, g) + Count(rest, g)

\* A goal that is run before one written ahead of it had a greater share of its
\* arguments known when it was chosen.  Goals that are not calls count as fully
\* known, so that a cut overtakes the calls before it; a call of no arguments
\* (whose share is 0/0) is overtaken by whatever overtakes the goal at the head.
Position(gs, g) == CHOOSE i \in 1..Len(gs) : gs[i] = g
\* What a mock scope holds when k of the goals gs are taken.
Played(m, gs) ==
  LET after[k \in 0..Len(gs)] == IF k = 0 THEN m ELSE Learned(after[k - 1], gs[k]) IN after
Replayed == Played(MockOf(mask, resp), ordered)
OvertakesKnown ==
  ~(Fixed \/ AllInstantiated) =>
    \A k \in 1..Len(ordered) : \A i \in 1..Len(body) :
      LET g == ordered[k]  h == body[i]
          later == \E j \in 1..Len(rest) : rest[j] = h
      IN  (Count(body, h) = 1 /\ Count(body, g) = 1 /\ later /\ i < Position(body, g))
            => \/ NaN(Initialization(Replayed[k - 1], h))
               \/ Above(Initialization(Replayed[k - 1], g), Initialization(Replayed[k - 1], h))

Variable == [names : SUBSET STRING, instantiated : BOOLEAN]
OrderTypeOK ==
  /\ body \in Bodies /\ has_resp \in BOOLEAN /\ resp \in BOOLEAN
  /\ mask \in [1..Arity -> BOOLEAN] /\ mock \in Seq(Variable)
  /\ rest \in Seq(Goals) /\ ordered \in Seq(Goals)

\* An ordered body has the goals of the body, and a goal that comes sooner than
\* it was written has a greater share of known arguments than what it overtook.
OrderIsKept == OrderTypeOK /\ SameGoals /\ OvertakesKnown
===============================================================================
