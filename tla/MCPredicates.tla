------------------------------ MODULE MCPredicates -----------------------------
(* The array predicates, the bags and map on small instances; one of the      *)
(* three is explored in each behaviour.                                       *)
EXTENDS Arrays, Collecting, TLC

VARIABLES part,
          problem, stack, cells, write, results, is_ok, done, outcomes

MCValues == 1..3
Els      == <<{1}, {2}, {2, 3}, {1}, {2}>>
MCUnknown == {Unknown(0..3, MCValues), Unknown({2}, MCValues), Unknown(0..3, {1, 2})}
\* Elements 1, 2, 4 and 5 are known, 3 may be either; <<1, 2>> up to 1 is a first part.
MCKnown == {Known(0, <<>>), Known(1, <<1>>), Known(1, <<5>>), Known(2, <<1, 2>>), Known(1, <<1, 2>>),
            Known(2, <<4, 3>>), Known(2, <<3, 4>>), Known(3, <<1, 2, 4>>), Known(1, <<3>>), Known(0, <<1, 2>>)}
MCArrays == MCUnknown \cup MCKnown
MCAppends == {[op |-> "append", st |-> [el |-> Els, to |-> t, with |-> w, res |-> r]] :
                t, w, r \in MCArrays}
MCOneArray(arr) == IF arr.known THEN arr ELSE arr @@ [refs |-> {}]
MCInts == {IntIs(n) : n \in -1..3} \cup {IntOf(-1..3), IntOf({0, 2}), IntOf({3})}
MCOthers ==
  {[op |-> o, st |-> [el |-> Append(Els, e), arr |-> MCOneArray(x), idx |-> n, elt |-> 6, mem |-> m]] :
     o \in {"by_idx", "each", "length"}, x \in MCArrays, n \in MCInts,
     e \in {{2}, {2, 3}, {3}}, m \in {NoVar, IntOf({1, 2})}}
MCCalls ==
  MCAppends
  \cup {c \in MCOthers : /\ c.op # "length" => c.st.mem = NoVar
                         /\ c.op = "each" => c.st.idx = IntIs(0)
                         /\ c.st.el[6] = {3} => c.op = "each"
                         /\ c.op = "length" => c.st.el[6] = {2}}

MCAnySize == -1
MCBag(var, size) == [variable |-> var, size |-> size]
MCSetups ==
  [generator : {"unify", "default", "clauses"}, endless : BOOLEAN,
   targets : {<<MCBag("b", -1)>>, <<MCBag("b", 0)>>, <<MCBag("b", 2)>>,
              <<MCBag("b", -1), MCBag("c", 2)>>, <<MCBag("b", 2), MCBag("c", -1)>>}]
MCProblems ==
  [from : {<<>>, <<"a">>, <<"a", "b">>, <<"b", "a">>, <<"a", "b", "a">>, <<"c", "b", "d">>},
   image : {[e \in {"a", "b", "c", "d"} |->
               CASE e = "a" -> <<"x", "y">> [] e = "b" -> <<"z">> [] e = "c" -> <<"x", "y", "z">>
                 [] e = "d" -> d] : d \in {<<>>, <<"x">>}}]

Ma == INSTANCE Mapping WITH Problems <- MCProblems,
        Unset <- -1, given <- results

ASSUME MCPartsAssumption == CollectingAssumption

mapVars == <<problem, stack, cells, write, results, is_ok, done, outcomes>>
all == <<part, vars, bagVars, mapVars>>

ArraysIdle ==
  /\ op = "" /\ st = <<>> /\ was = <<>> /\ at = 0 /\ found = FALSE /\ given = <<>>
  /\ answer = "idle" /\ scope = "own"
NoSetup == [generator |-> "none", endless |-> FALSE, targets |-> <<>>]
BagsIdle ==
  /\ setup = NoSetup /\ values = <<>> /\ reached = <<>> /\ chain = <<>> /\ unset = FALSE
  /\ goal = 0 /\ views = <<>> /\ handed = <<>> /\ ended = "running"
MapIdle ==
  /\ problem = <<>> /\ stack = <<>> /\ cells = <<>> /\ write = <<>> /\ results = <<>>
  /\ is_ok = TRUE /\ done = FALSE /\ outcomes = {}

MCInit ==
  \/ part = "arrays" /\ Init /\ BagsIdle /\ MapIdle
  \/ part = "bags" /\ ArraysIdle /\ BagInit /\ MapIdle
  \/ part = "map" /\ ArraysIdle /\ BagsIdle /\ Ma!MapInit
MCNext ==
  \/ part = "arrays" /\ Next /\ UNCHANGED <<part, bagVars, mapVars>>
  \/ part = "bags" /\ BagNext /\ UNCHANGED <<part, vars, mapVars>>
  \/ part = "map" /\ Ma!MapNext /\ UNCHANGED <<part, vars, bagVars>>
MCSpec == MCInit /\ [][MCNext]_all /\ WF_all(MCNext)

\* The types; an answer of an array predicate is no wider than its question, a
\* search is broken off only for full bags, and map leaves given results alone
\* and gives every combination of the images of the elements.
PredicatesSound ==
  /\ part = "arrays" => TypeOK /\ AnswersNarrow
  /\ part = "bags" => BagTypeOK /\ BrokenAfterFull
  /\ part = "map" => Ma!MapTypeOK /\ Ma!ResultsStay /\ Ma!MapGivesAll
\* by_idx, each, length and append lose no solution, and what they answer are
\* solutions.
ArraySolutions == part = "arrays" => NothingLost /\ OnlySolutions
\* They end, and so does the search that fills bags which all have a size.
PredicatesEnd == (part = "arrays" => Ends) /\ (part = "bags" => SizedBagEnds)
===============================================================================
