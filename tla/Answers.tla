------------------------------ MODULE Answers ------------------------------
(***************************************************************************)
(* What a query session promises its user: the answers of the query, in    *)
(* their order and without omission while the user asks for more, and an   *)
(* end once all of them were given or the user has asked for no more.      *)
(* An answer after "." was not asked for; it may skip others.              *)
(***************************************************************************)
EXTENDS Naturals, Sequences, FiniteSets

CONSTANT Meaning(_)  \* the sequence of answers of a query

VARIABLES query,  \* the query that was asked
          given,  \* the answers given so far, each with the user's reply
          over    \* whether the session is over

session == <<query, given, over>>

\* The members of S, a set of positions, in order.
Nth(S, j) == CHOOSE i \in S : Cardinality({k \in S : k <= i}) = j
\* The answers of o are those at the positions S of all.
Placed(o, S, all) ==
  /\ Cardinality(S) = Len(o)
  /\ \A j \in 1 .. Len(o) : o[j].answer = all[Nth(S, j)]
  /\ o # <<>> => 1 \in S
  /\ \A j \in 2 .. Len(o) :
       o[j - 1].reply \in {";", "more"} => Nth(S, j) = Nth(S, j - 1) + 1
Fits(o) ==
  LET all == Meaning(query)
  IN  \E S \in SUBSET (1 .. Len(all)) : Placed(o, S, all)

AskedForMore == \A j \in 1 .. Len(given) : given[j].reply \in {";", "more"}

AsksQuery == given = <<>> /\ over = FALSE

\* One more answer; with "..." the user leaves, nothing follows "enough".
GivesAnswer ==
  /\ ~over
  /\ Len(given') = Len(given) + 1 /\ SubSeq(given', 1, Len(given)) = given
  /\ \A j \in 1 .. Len(given) : given[j].reply # "enough"
  /\ Fits(given')
  /\ over' = (given'[Len(given')].reply = "...")
  /\ UNCHANGED query

\* No more answers: all were given, or the user has said that it is enough.
Ends ==
  /\ ~over /\ over' = TRUE
  /\ AskedForMore => Len(given) = Len(Meaning(query))
  /\ UNCHANGED <<query, given>>

Session == AsksQuery /\ [][GivesAnswer \/ Ends]_session
\* A session does not go on for ever without an answer.
FairSession == Session /\ WF_session(Ends \/ GivesAnswer)
=============================================================================
