--------------------------------- MODULE Mapping -------------------------------
(***************************************************************************)
(* map of src/std/map.c: mapped(arr, predicate) = res with one of the      *)
(* arrays known.  map_processor calls the predicate with an element and is *)
(* called again, deeper, with each answer's scope; with the last element's *)
(* answer the goals that follow run.  `write' holds the cells of the       *)
(* answer: an answer gives a new cell to its position, which it links from *)
(* the cell before it, a cell that earlier results may still hold.         *)
(***************************************************************************)
EXTENDS Naturals, Sequences, FiniteSets, SequencesExt

CONSTANTS
  Problems,     \* [from: the elements of the known array, image: [element -> answers in order]]
  Unset         \* what write[0] holds when there are no elements

VARIABLES
  problem,
  stack,        \* per call in progress: how many of its answers were taken
  cells,        \* every cell made: [data, next]; next 0 is the end
  write,        \* the cell of each position
  given,        \* results given on: [head, len, was], was the elements it had then
  is_ok,
  done,
  outcomes      \* history: the answers of the goals that follow, and of failed calls

mapVars == <<problem, stack, cells, write, given, is_ok, done, outcomes>>
-------------------------------------------------------------------------------
from  == problem.from
Depth == Len(stack)
Answers(d) == problem.image[from[d]]

RECURSIVE ListFrom(_, _)
ListFrom(cell, n) ==
  IF n = 0 \/ cell \in {0, Unset} THEN <<>>
  ELSE <<cells[cell].data>> \o ListFrom(cells[cell].next, n - 1)

MapInit ==
  /\ problem \in Problems
  /\ stack = IF problem.from = <<>> THEN <<>> ELSE <<0>>
  /\ cells = <<>> /\ write = <<>>
  /\ given = <<>> /\ is_ok = TRUE /\ done = FALSE /\ outcomes = {}

Unlinked(cs, n, cell) == cs                               \* mutant: never linked
\* The cell before is the one that was written last at its position.
Linked(cs, n, cell) == IF n > 1 THEN [cs EXCEPT ![write[n - 1]].next = cell] ELSE cs

CellFor  == Len(cells) + 1
\* The next answer of the call in progress has a cell made for it.
Written ==
  LET new == [data |-> Answers(Depth)[Last(stack) + 1], next |-> 0] IN
  /\ cells' = Linked([c \in DOMAIN cells \cup {CellFor} |-> IF c = CellFor THEN new ELSE cells[c]],
                     Depth, CellFor)
  /\ write' = [i \in 1..Depth |-> IF i = Depth THEN CellFor ELSE write[i]]

Taken == [stack EXCEPT ![Depth] = @ + 1]
Deeper ==
  /\ ~done /\ Depth \in 1..Len(from) - 1 /\ Last(stack) < Len(Answers(Depth))
  /\ Written
  /\ stack' = Append(Taken, 0)
  /\ UNCHANGED <<problem, given, is_ok, done, outcomes>>

\* What the goals that follow answer: an error or a stop is taken for success.
GiveOn(r) ==
  /\ ~done /\ Depth = Len(from) /\ from # <<>> /\ Last(stack) < Len(Answers(Depth))
  /\ Written
  /\ stack' = Taken
  /\ LET list == SubSeq(write', 1, Len(from)) IN
       given' = Append(given, [head |-> write'[1], len |-> Len(from),
                               was |-> [i \in DOMAIN list |-> cells'[list[i]].data]])
  /\ is_ok' = (is_ok /\ r # "false") /\ outcomes' = outcomes \cup {r}
  /\ UNCHANGED <<problem, done>>

\* With no elements at all, the result begins at a cell that was never written.
GiveEmpty(r) ==
  /\ ~done /\ from = <<>>
  /\ given' = <<[head |-> Unset, len |-> 0, was |-> <<>>]>>
  /\ is_ok' = (is_ok /\ r # "false") /\ outcomes' = {r} /\ done' = TRUE
  /\ UNCHANGED <<problem, stack, cells, write>>

\* A call without answers is false; one that gave some is a yield that found.
CallOver ==
  /\ ~done /\ stack # <<>> /\ Last(stack) = Len(Answers(Depth))
  /\ is_ok' = (is_ok /\ Answers(Depth) # <<>>)
  /\ outcomes' = IF Answers(Depth) = <<>> THEN outcomes \cup {"none"} ELSE outcomes
  /\ stack' = Front(stack) /\ done' = (Depth = 1)
  /\ UNCHANGED <<problem, cells, write, given>>

MapNext ==
  \/ Deeper \/ CallOver
  \/ \E r \in {"true", "false", "error"} : GiveOn(r) \/ GiveEmpty(r)
-------------------------------------------------------------------------------
MapTypeOK ==
  /\ Depth <= Len(from) /\ Len(write) <= Len(from)
  /\ \A i \in 1..Len(write) : write[i] \in 1..Len(cells)
  /\ \A c \in 1..Len(cells) : cells[c].next \in 0..Len(cells)
  /\ outcomes \subseteq {"true", "false", "error", "none"}

Mapped(result) == /\ Len(result) = Len(from)
                  /\ \A i \in 1..Len(from) : result[i] \in Range(Answers(i))
ListOf(g) == ListFrom(g.head, g.len)

(* Every choice of an answer for each element is given to the goals that     *)
(* follow, once, and is what the result's cells hold when it is given.       *)
MapGivesAll ==
  /\ given # <<>> => ListOf(Last(given)) = Last(given).was /\ Mapped(Last(given).was)
  /\ \A i, j \in 1..Len(given) : given[i].was = given[j].was => i = j
  /\ done => Len(given) = FoldSeq(LAMBDA e, n : n * Len(problem.image[e]), 1, from)

(* A result stays what it was when it was given, as a bag that collected it  *)
(* requires; unless an element after the first has several answers: the      *)
(* cells before it are shared and linked anew.                               *)
ResultsStay ==
  (\A i \in 2..Len(from) : Len(Answers(i)) <= 1) =>
    \A i \in 1..Len(given) : ListOf(given[i]) = given[i].was
===============================================================================
