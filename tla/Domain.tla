------------------------------- MODULE Domain -------------------------------
(***************************************************************************)
(* Integer images and their domains (src/src/domain.c, int_* of            *)
(* src/src/instance.c, the constraints of src/std/integer.c).  A program   *)
(* narrows its variables by assertions and constraints, which the code     *)
(* answers by true, false or an error, and then has one of them generated, *)
(* value by value, for a receiver that may stop it.                        *)
(*                                                                         *)
(* A generator walks on a copy of the image (image_generate), so that the  *)
(* border it adds to in place is its own.                                  *)
(***************************************************************************)
EXTENDS Integers, Sequences, FiniteSets

CONSTANTS Vars,      \* the variables of the program
          Start,     \* the image each of them starts with
          Requests,  \* the assertions and constraints the program may make
          Window,    \* the integers that properties speak of
          MaxAsked,  \* bound on the different requests of a program
          MaxGiven   \* bound: the receiver stops when it has so many values

VARIABLES
  image,  \* struct IntImage of each variable
  asked,  \* ghost: the requests made so far
  said,   \* what the last one was answered
  walk,   \* the generator under way
  given   \* the values that its receiver got

vars == <<image, asked, said, walk, given>>

-----------------------------------------------------------------------------
(* Data *)

\* IntValue: "inf" for INFINITE, "inc" for INCLUDED, "sec" for SECLUDED.
Border == [t : {"inf", "inc", "sec"}, n : Int]
Inf == [t |-> "inf", n |-> 0]
Inc(n) == [t |-> "inc", n |-> n]
Sec(n) == [t |-> "sec", n |-> n]

\* struct IntImage: n when its state is I, a domain from l to r when it is U.
Image == [single : BOOLEAN, n : Int, l : Border, r : Border]
Single(n) == [single |-> TRUE, n |-> n, l |-> Inf, r |-> Inf]
Open(l, r) == [single |-> FALSE, n |-> 0, l |-> l, r |-> r]

\* "is": x = n; "in": x = l..r; "gt": x > y; "gte": x >= y; "eq": x = y.
Request == [op : {"is", "in", "gt", "gte", "eq"}, x : Vars, y : Vars, n : Int,
            l : Border, r : Border]

\* value, bound and f of int_domain_generate; "once" for a single integer.
Walk == [k : {"none", "inc", "jump", "once", "done"}, x : Vars, value : Int,
         bounded : BOOLEAN, bound : Int]

ASSUME StartAssumption == Start \in [Vars -> Image] /\ Vars # {}
ASSUME RequestAssumption ==
  Requests \subseteq {q \in Request : q.op \in {"gt", "gte", "eq"} => q.x # q.y}
ASSUME WindowAssumption == Window \subseteq Int
ASSUME BoundAssumption == MaxAsked \in Nat /\ MaxGiven \in Nat

\* int_domain_check, by border, and int_check.
Above(l, n) == l.t = "inf" \/ n > l.n \/ (l.t = "inc" /\ n = l.n)
Below(r, n) == r.t = "inf" \/ n < r.n \/ (r.t = "inc" /\ n = r.n)
Within(im, n) == Above(im.l, n) /\ Below(im.r, n)
Check(im, n) == IF im.single THEN n = im.n ELSE Within(im, n)

\* Mutant of DomainLt: the new border never includes its number.
DomainLtShort(im, b) ==
  IF im.r.t = "inf" \/ b.n < im.r.n THEN [im EXCEPT !.r = Sec(b.n)] ELSE im
\* int_domain_gt and int_domain_lt: a border replaces another when its number
\* is past the other's, whether they include their numbers or not.
DomainGt(im, b) ==
  IF im.l.t = "inf" \/ b.n > im.l.n THEN [im EXCEPT !.l = b] ELSE im
DomainLt(im, b) ==
  IF im.r.t = "inf" \/ b.n < im.r.n THEN [im EXCEPT !.r = b] ELSE im
\* int_eq of two domains: an infinite border is not handed on.
MeetL(im, b) == IF b.t = "inf" THEN im ELSE DomainGt(im, b)
MeetR(im, b) == IF b.t = "inf" THEN im ELSE DomainLt(im, b)
Meet(im, other) == MeetR(MeetL(im, other.l), other.r)

-----------------------------------------------------------------------------
(* Requests *)

Init ==
  /\ image = Start /\ asked = {} /\ said = "true" /\ given = <<>>
  /\ walk = [k |-> "none", x |-> CHOOSE x \in Vars : TRUE, value |-> 0,
             bounded |-> FALSE, bound |-> 0]

\* The program goes on with request q.
Asks(q) ==
  /\ said = "true" /\ walk.k = "none"
  /\ asked' = asked \cup {q} /\ Cardinality(asked') <= MaxAsked
  /\ UNCHANGED <<walk, given>>
Refuse == said' = "false" /\ UNCHANGED image
Accept(im) == said' = "true" /\ image' = im

\* int_translator: `x = n` is checked against the domain,
AssertNumber ==
  \E q \in Requests :
    /\ q.op = "is" /\ Asks(q)
    /\ \/ Check(image[q.x], q.n) /\ Accept([image EXCEPT ![q.x] = Single(q.n)])
       \/ ~Check(image[q.x], q.n) /\ Refuse

\* and `x = l..r` replaces it.
AssertRange ==
  \E q \in Requests :
    /\ q.op = "in" /\ Asks(q)
    /\ Accept([image EXCEPT ![q.x] = Meet(Open(Inf, Inf), Open(q.l, q.r))])

\* Mutant of EndsBefore: a border one past n is taken for one before it.
EndsBeforeLoosely(im, n) == im.r.t # "inf" /\ im.r.n <= n + 1
\* The domain im ends before it has a value past n.
EndsBefore(im, n) == \/ im.r.t = "inc" /\ im.r.n <= n
                     \/ im.r.t = "sec" /\ im.r.n < n

\* laure_constraint_gt
ConstraintGt ==
  \E q \in Requests :
    LET i == image[q.x]
        gt == image[q.y]
    IN  /\ q.op = "gt" /\ Asks(q)
        /\ \/ /\ i.single /\ gt.single /\ i.n > gt.n
              /\ Accept(image)
           \/ /\ i.single /\ gt.single /\ i.n <= gt.n
              /\ Refuse
           \/ /\ ~i.single /\ gt.single
              /\ \/ /\ i.l = Sec(gt.n)
                    /\ Accept(image)
                 \/ /\ i.l # Sec(gt.n) /\ EndsBefore(i, gt.n)
                    /\ Refuse
                 \/ /\ i.l # Sec(gt.n) /\ ~EndsBefore(i, gt.n)
                    /\ Accept([image EXCEPT ![q.x] = DomainGt(@, Sec(gt.n))])
           \/ /\ i.single /\ ~gt.single
              /\ Accept([image EXCEPT ![q.y] = DomainLt(@, Sec(i.n))])
           \/ /\ ~i.single /\ ~gt.single
              /\ said' = "error" /\ UNCHANGED image

\* laure_constraint_gte
ConstraintGte ==
  \E q \in Requests :
    LET i == image[q.x]
        gt == image[q.y]
    IN  /\ q.op = "gte" /\ Asks(q)
        /\ \/ /\ i.single /\ gt.single /\ i.n >= gt.n
              /\ Accept(image)
           \/ /\ i.single /\ gt.single /\ i.n < gt.n
              /\ Refuse
           \/ /\ ~i.single /\ gt.single /\ i.r.t # "inf" /\ i.r.n < gt.n
              /\ Refuse
           \/ /\ ~i.single /\ gt.single /\ (i.r.t = "inf" \/ i.r.n >= gt.n)
              /\ Accept([image EXCEPT ![q.x] = DomainGt(@, Inc(gt.n))])
           \/ /\ i.single /\ ~gt.single /\ ~Within(gt, i.n)
              /\ Refuse
           \/ /\ i.single /\ ~gt.single /\ Within(gt, i.n)
              /\ Accept([image EXCEPT ![q.y] = DomainLt(@, Inc(i.n))])
           \/ /\ ~i.single /\ ~gt.single
              /\ said' = "error" /\ UNCHANGED image

\* int_eq: the second of two domains meets what the first has become.
Equal ==
  \E q \in Requests :
    LET a == image[q.x]
        b == image[q.y]
        met == Meet(a, b)
    IN  /\ q.op = "eq" /\ Asks(q)
        /\ \/ /\ a.single /\ Check(b, a.n)
              /\ Accept([image EXCEPT ![q.y] = Single(a.n)])
           \/ /\ ~a.single /\ b.single /\ Check(a, b.n)
              /\ Accept([image EXCEPT ![q.x] = Single(b.n)])
           \/ /\ \/ a.single /\ ~Check(b, a.n)
                 \/ ~a.single /\ b.single /\ ~Check(a, b.n)
              /\ Refuse
           \/ /\ ~a.single /\ ~b.single
              /\ Accept([image EXCEPT ![q.x] = met, ![q.y] = Meet(b, met)])

-----------------------------------------------------------------------------
(* Generation *)

\* Mutant of Last: every right border is taken for one that is not a value.
LastSecluded(r) == r.n - 1
\* Mutant of First: the left border is taken for a value.
FirstIncluded(l) == l.n
\* Where the walk begins, and where it ends, when there is such a border.
First(l) == IF l.t = "sec" THEN l.n + 1 ELSE l.n
Last(r) == IF r.t = "sec" THEN r.n - 1 ELSE r.n
\* int_jump: 0, 1, -1, 2, -2, ...
Jump(n) == IF n <= 0 THEN 1 - n ELSE -n

\* int_generate and the head of int_domain_generate: from the left border
\* upwards, or from 0 outwards when there is none, whatever the right one is.
Generate ==
  /\ said = "true" /\ walk.k = "none"
  /\ \E x \in Vars :
       LET im == image[x]
       IN  walk' = IF im.single
                   THEN [k |-> "once", x |-> x, value |-> im.n,
                         bounded |-> TRUE, bound |-> im.n]
                   ELSE IF im.l.t = "inf"
                   THEN [k |-> "jump", x |-> x, value |-> 0,
                         bounded |-> FALSE, bound |-> 0]
                   ELSE [k |-> "inc", x |-> x, value |-> First(im.l),
                         bounded |-> im.r.t # "inf", bound |-> Last(im.r)]
  /\ UNCHANGED <<image, asked, said, given>>

\* One turn of the loop: the receiver gets the value.  It asks for more,
AtBound == walk.bounded /\ walk.value = walk.bound
Receive ==
  /\ walk.k \in {"inc", "jump", "once"} /\ ~AtBound /\ Len(given) < MaxGiven
  /\ given' = Append(given, walk.value)
  /\ walk' = [walk EXCEPT !.value = IF walk.k = "inc" THEN @ + 1 ELSE Jump(@)]
  /\ UNCHANGED <<image, asked, said>>

\* or it was the last, since it equals the bound,
ReceiveLast ==
  /\ walk.k \in {"inc", "jump", "once"} /\ AtBound
  /\ given' = Append(given, walk.value)
  /\ walk' = [walk EXCEPT !.k = "done"]
  /\ UNCHANGED <<image, asked, said>>

\* or the receiver wants no more.
ReceiveAndStop ==
  /\ walk.k \in {"inc", "jump", "once"}
  /\ given' = Append(given, walk.value)
  /\ walk' = [walk EXCEPT !.k = "none"]
  /\ said' = "stopped"
  /\ UNCHANGED <<image, asked>>

Narrow == AssertNumber \/ AssertRange \/ ConstraintGt \/ ConstraintGte \/ Equal
Next == Narrow \/ Generate \/ Receive \/ ReceiveLast \/ ReceiveAndStop
Spec == Init /\ [][Next]_vars

-----------------------------------------------------------------------------
(* Properties *)

\* Every variable of the module keeps its type.
TypeOK ==
  /\ image \in [Vars -> Image] /\ asked \subseteq Requests
  /\ said \in {"true", "false", "error", "stopped"}
  /\ walk \in Walk /\ given \in Seq(Int)

\* What the program means: the assignments of integers that meet a request.
Holds(q, s) ==
  CASE q.op = "is" -> s[q.x] = q.n
    [] q.op = "in" -> Above(q.l, s[q.x]) /\ Below(q.r, s[q.x])
    [] q.op = "gt" -> s[q.x] > s[q.y]
    [] q.op = "gte" -> s[q.x] >= s[q.y]
    [] q.op = "eq" -> s[q.x] = s[q.y]
Assignments == {s \in [Vars -> Window] : \A v \in Vars : Check(Start[v], s[v])}
Solution(s) == \A q \in asked : Holds(q, s)

\* Narrowing never drops a solution: whatever was asserted, in any order, each
\* variable may still take the values it has in the solutions.
NothingLost ==
  \A s \in Assignments : Solution(s) => \A v \in Vars : Check(image[v], s[v])

\* An assertion or a constraint is false only if nothing satisfies it together
\* with what was asked before.  Where the right-hand side of `x >= y` is open,
\* the code compares x with its whole domain and this does not hold:
\* `x < 3; 5 >= x` is refused.
RefusedRightly ==
  (said = "false" /\ \A q \in asked : q.op = "gte" => image[q.y].single)
    => \A s \in Assignments : ~Solution(s)

\* The domain of the variable that is generated, and the values of it that
\* come before v: upwards from the left border, outwards from 0 without one.
Walked == image[walk.x]
Size(n) == IF n < 0 THEN -n ELSE n
Sooner(w, v) == IF Walked.l.t = "inf" THEN Size(w) < Size(v) \/ (w = -v /\ w > v)
                ELSE w < v
\* A domain that the walk is right about: not empty, and with a left border if
\* it has a right one.
Walkable == \/ Walked.single
            \/ Walked.l.t = "inf" /\ Walked.r.t = "inf"
            \/ /\ Walked.l.t # "inf"
               /\ \E n \in {Walked.l.n, Walked.l.n + 1} : Within(Walked, n)

\* The receiver gets values of the domain only, each once, and none before
\* those that come sooner.
InOrder ==
  Walkable =>
    \A j \in 1 .. Len(given) :
      /\ Check(Walked, given[j])
      /\ \A w \in Window :
           (Check(Walked, w) /\ Sooner(w, given[j]))
             <=> \E i \in 1 .. j - 1 : given[i] = w

\* A walk that ends by itself has given every value of the domain.
AllGiven ==
  (walk.k = "done" /\ Walkable) =>
    \A w \in Window : Check(Walked, w) => \E j \in 1 .. Len(given) : given[j] = w
=============================================================================
