--------------------------------- MODULE Arrays --------------------------------
(***************************************************************************)
(* The array predicates of src/std/array.c: append, by_idx, each, length.  *)
(* A known array is a length and a list of elements; the list may go on    *)
(* beyond the length, since the first part of a split is the same list as  *)
(* the whole.  An element is an image that arrays share, copies of an      *)
(* array included (image_deepcopy copies no element), and is the set of    *)
(* the values it may still have.                                           *)
(*                                                                         *)
(* A predicate answers at once, or gives each alternative in turn to the   *)
(* goals that follow (laure_start) and answers yield in the end.  What     *)
(* these goals answer is left open.                                        *)
(***************************************************************************)
EXTENDS Integers, Sequences, FiniteSets, SequencesExt

CONSTANTS
  Values,
  Calls,        \* [op, st]: the calls considered, with what they are given
  NoVar,        \* no variable is remembered as the length of an array
  MaxLen        \* bound on the lengths of arrays, for the properties

VARIABLES
  op,           \* "append", "by_idx", "each" or "length"
  st,           \* el: the elements, by address; and the images of the arguments
  was,          \* history: st when the predicate was called
  at,           \* the alternative a loop is at
  found,
  given,        \* history: st as each alternative gave it to the goals that follow
  answer,       \* "" while it runs
  scope         \* cctx->scope: "own", or "freed" when left on an alternative's

vars == <<op, st, was, at, found, given, answer, scope>>
-------------------------------------------------------------------------------
Known(len, list)    == [known |-> TRUE, len |-> len, list |-> list, type |-> Values]
Unknown(lens, type) == [known |-> FALSE, lens |-> lens, type |-> type]
IntOf(dom)          == [known |-> FALSE, dom |-> dom]
IntIs(n)            == [known |-> TRUE, dom |-> {n}]

Min2(m, n)  == IF m < n THEN m ELSE n
Cells(arr)  == Min2(arr.len, Len(arr.list))
Single(s)   == Cardinality(s) = 1
\* array_instantiated, of image_instantiated
Instantiated(s, arr) == arr.known /\ \A i \in 1..Cells(arr) : Single(s.el[arr.list[i]])

(* image_equals: both images become what they have in common; when they     *)
(* have nothing in common it is false, and what was narrowed before stays.  *)
Yes(s)    == [ok |-> TRUE, s |-> s]
No(s)     == [ok |-> FALSE, s |-> s]
ElementsEqual(s, a, b) ==
  LET both == s.el[a] \cap s.el[b]
  IN  IF both = {} THEN No(s) ELSE Yes([s EXCEPT !.el[a] = both, !.el[b] = both])
ListsEqual(s, pairs) ==
  FoldSeq(LAMBDA p, r : IF r.ok THEN ElementsEqual(r.s, p[1], p[2]) ELSE r, Yes(s), pairs)
Prefix(list, n)  == SubSeq(list, 1, Min2(n, Len(list)))
Suffix(list, n)  == SubSeq(list, Min2(n, Len(list)) + 1, Len(list))
Pairs(l, m)      == [i \in 1..Min2(Len(l), Len(m)) |-> <<l[i], m[i]>>]
\* array_eq of two known arrays
ArraysEqual(s, x, y) ==
  IF x.len # y.len THEN No(s) ELSE ListsEqual(s, Pairs(Prefix(x.list, x.len), Prefix(y.list, y.len)))
-------------------------------------------------------------------------------
Init ==
  /\ \E c \in Calls : op = c.op /\ st = c.st /\ was = c.st
  /\ at = 0 /\ found = FALSE /\ given = <<>> /\ answer = "" /\ scope = "own"

Running(o) == op = o /\ answer = ""
Starting(o) == Running(o) /\ at = 0 /\ given = <<>>

\* An answer that leaves the loops out.
Answer(r, s) ==
  /\ answer' = r /\ st' = s
  /\ given' = IF r = "true" THEN <<s>> ELSE <<>>
  /\ UNCHANGED <<op, was, at, found, scope>>
AnswerTo(r) == Answer(IF r.ok THEN "true" ELSE "false", r.s)

Continued == {"true", "false", "error", "stop"}
-------------------------------------------------------------------------------
(* append(to, with) = res                                                   *)
To   == st.to
With == st.with
Res  == st.res

AppendCheck ==
  /\ Starting("append") /\ To.known /\ With.known /\ Res.known
  /\ IF To.len + With.len # Res.len \/ To.len = 0 \/ Len(To.list) = 0
       THEN Answer(IF To.len + With.len # Res.len THEN "false" ELSE "true", st)
       ELSE AnswerTo(ListsEqual(st,
              Pairs(Prefix(Res.list, Res.len), Prefix(To.list, To.len) \o Prefix(With.list, With.len))))

\* The elements of `to' are followed to the end of its list, whatever its length.
Chained == IF To.list = <<>> THEN With.list ELSE To.list \o With.list
Concat  == Prefix(Chained, To.len + With.len)
AppendConcat ==
  /\ Starting("append") /\ To.known /\ With.known /\ ~Res.known
  /\ IF To.len + With.len \in Res.lens
       THEN Answer("true", [st EXCEPT !.res = Known(To.len + With.len, Concat)])
       ELSE Answer("false", st)

\* The lengths are unsigned: a difference below zero is none of a length's values.
\* Refused, the whole keeps the length it was given for the comparison.
AppendTail ==
  /\ Starting("append") /\ To.known /\ Res.known /\ ~With.known
  /\ IF Res.len - To.len \notin With.lens
       THEN Answer("false", st)
       ELSE LET r == ArraysEqual(st, [Res EXCEPT !.len = To.len], To) IN
              IF r.ok
                THEN Answer("true", [r.s EXCEPT !.with = Known(Res.len - To.len, Suffix(Res.list, To.len))])
                ELSE Answer("false", [r.s EXCEPT !.res.len = To.len])

HeadFromEnd == Suffix(Res.list, With.len)                 \* mutant: the wrong part compared
HeadCut     == Suffix(Res.list, Res.len - With.len)
AppendHead ==
  /\ Starting("append") /\ With.known /\ Res.known /\ ~To.known
  /\ IF Res.len - With.len \notin To.lens
       THEN Answer("false", st)
       ELSE LET r == ArraysEqual(st, Known(With.len, HeadCut), With) IN
              IF r.ok
                THEN Answer("true", [r.s EXCEPT !.to = Known(Res.len - With.len, Res.list)])
                ELSE Answer("false", r.s)

\* Every split of res is given to the goals that follow; what they answer only
\* decides `found': an error or a stop among them is lost.
SplitAt(n) ==
  [st EXCEPT !.to = Known(n, Res.list), !.with = Known(Res.len - n, Suffix(Res.list, n))]
Splitting == Running("append") /\ Res.known /\ ~was.to.known /\ ~was.with.known
StopsEarly == at < Res.len                                \* mutant: the whole list is not tried
SplitsLeft == at <= Res.len
AppendSplit(r) ==
  /\ Splitting /\ SplitsLeft
  /\ st' = SplitAt(at) /\ given' = Append(given, SplitAt(at))
  /\ found' = (found \/ r = "true") /\ at' = at + 1
  /\ UNCHANGED <<op, was, answer, scope>>
AppendSplitsDone ==
  /\ Splitting /\ ~SplitsLeft
  /\ answer' = (IF found THEN "yes" ELSE "no")
  /\ UNCHANGED <<op, st, was, at, found, given, scope>>

AppendAsks ==
  /\ Starting("append") /\ ~Res.known /\ ~(To.known /\ With.known)
  /\ Answer(IF Instantiated(st, To) THEN "instantiate 1" ELSE "instantiate 0", st)
-------------------------------------------------------------------------------
(* by_idx(arr, idx) = elt; elt is an element image that no array holds.     *)
Arr   == st.arr
Elt   == st.el[st.elt]
Idx   == st.idx
Asked == CHOOSE n \in Idx.dom : TRUE
AnyIdx(n)     == TRUE                                     \* mutant: no index refused
IdxAllowed(n) == n \in was.idx.dom

ByKnownIdx ==
  /\ Starting("by_idx") /\ Arr.known /\ Idx.known
  /\ IF Asked < 0 \/ Asked >= Cells(Arr)
       THEN Answer("false", st)
       ELSE AnswerTo(ElementsEqual(st, st.elt, Arr.list[Asked + 1]))

\* With the index unknown, an index that is not allowed is tried again for ever.
Searching == Running("by_idx") /\ Arr.known /\ ~was.idx.known
EltKnown  == Single(was.el[was.elt])
IdxAt(s)    == [s EXCEPT !.idx = IntIs(at)]
AnyElt(s)   == [s EXCEPT !.el[s.elt] = was.el[was.elt]]
InvalidIdx ==
  /\ Searching /\ at < Cells(Arr) /\ ~IdxAllowed(at)
  /\ UNCHANGED vars

MismatchAgain == at                                       \* mutant: it never moves on
AfterMismatch == at + 1
IdxOfKnown(r) ==
  /\ Searching /\ EltKnown /\ at < Cells(Arr) /\ IdxAllowed(at)
  /\ LET e == ElementsEqual(st, st.elt, Arr.list[at + 1]) IN
       IF ~e.ok
         THEN at' = AfterMismatch /\ UNCHANGED <<st, given, found, answer, scope>>
         ELSE /\ st' = IdxAt(e.s) /\ given' = Append(given, IdxAt(e.s))
              /\ found' = (found \/ r = "true")
              /\ IF r \in {"error", "stop"}
                   THEN /\ answer' = IF r = "error" THEN "error" ELSE IF found THEN "yes" ELSE "no"
                        /\ scope' = "freed" /\ UNCHANGED at
                   ELSE at' = at + 1 /\ UNCHANGED <<answer, scope>>
  /\ UNCHANGED <<op, was>>

\* With the element unknown as well, one that does not suit it is tried for ever.
IdxOfUnknown(r) ==
  /\ Searching /\ ~EltKnown /\ at < Cells(Arr) /\ IdxAllowed(at)
  /\ LET e == ElementsEqual(AnyElt(st), st.elt, Arr.list[at + 1]) IN
       IF ~e.ok
         THEN UNCHANGED <<st, given, found, at>>
         ELSE /\ st' = IdxAt(e.s) /\ given' = Append(given, IdxAt(e.s))
              /\ found' = (found \/ r = "true") /\ at' = at + 1
  /\ UNCHANGED <<op, was, answer, scope>>

IdxDone ==
  /\ Searching /\ at = Cells(Arr)
  /\ answer' = (IF found THEN "yes" ELSE "no")
  /\ UNCHANGED <<op, st, was, at, found, given, scope>>

\* The array unknown: it is longer than the index, and keeps a reference to elt.
ByIdxUnknown ==
  /\ Starting("by_idx") /\ ~Arr.known
  /\ IF Idx.known
       THEN Answer("true", [st EXCEPT !.arr.lens = {n \in @ : n > Asked},
                                      !.arr.refs = @ \cup {<<Asked, st.elt>>}])
       ELSE Answer(IF Single(Elt) THEN "instantiate 1" ELSE "instantiate 0", st)
-------------------------------------------------------------------------------
(* each(arr) = elt                                                          *)
EachKnown ==
  /\ Starting("each") /\ Instantiated(st, Arr) /\ Single(Elt)
  /\ AnswerTo(ListsEqual(st, [i \in 1..Cells(Arr) |-> <<st.elt, Arr.list[i]>>]))

Taking  == Running("each") /\ Instantiated(st, Arr) /\ ~Single(was.el[was.elt])
EachTaken(r) ==
  /\ Taking /\ at < Cells(Arr)
  /\ LET e == ElementsEqual(AnyElt(st), st.elt, Arr.list[at + 1]) IN
       IF e.ok THEN /\ st' = e.s /\ given' = Append(given, e.s) /\ found' = (found \/ r = "true")
               ELSE UNCHANGED <<st, given, found>>
  /\ at' = at + 1
  /\ UNCHANGED <<op, was, answer, scope>>
EachDone ==
  /\ Taking /\ at = Cells(Arr)
  /\ answer' = (IF found THEN "yes" ELSE "no")
  /\ UNCHANGED <<op, st, was, at, found, given, scope>>

\* Any other array: only the type of its elements is narrowed.
EachType ==
  /\ Starting("each") /\ ~Instantiated(st, Arr)
  /\ LET both == Arr.type \cap Elt IN
       IF ~Single(Elt) THEN Answer("true", [st EXCEPT !.arr.type = Elt])
       ELSE IF both # {} THEN Answer("true", [st EXCEPT !.arr.type = both])
       ELSE Answer("false", st)
-------------------------------------------------------------------------------
(* length(arr) = len; an unknown array may remember the variable that is    *)
(* its length.                                                              *)
Same(x, y) == x.dom \cap y.dom # {}

Agrees(n) == st.mem = NoVar \/ Same(st.mem, IntIs(n))
LengthKnown ==
  /\ Starting("length") /\ Instantiated(st, Arr)
  /\ IF Agrees(Arr.len) /\ Same(Idx, IntIs(Arr.len))
       THEN Answer("true", [st EXCEPT !.idx = IntIs(Arr.len)])
       ELSE Answer("false", st)

LengthsTaken == {Asked}
(* A list whose elements are not all known is taken for an unknown array:    *)
(* the length written through its domain is written through the list.       *)
LengthGiven ==
  /\ Starting("length") /\ ~Instantiated(st, Arr) /\ Idx.known
  /\ IF ~Agrees(Asked) THEN Answer("false", st)
     ELSE IF Arr.known THEN Answer("crash", st)
     ELSE Answer("true", [st EXCEPT !.arr.lens = LengthsTaken])

LengthUnknown ==
  /\ Starting("length") /\ ~Instantiated(st, Arr) /\ ~Idx.known
  /\ Answer("true", [st EXCEPT !.mem = Idx])
-------------------------------------------------------------------------------
Next ==
  \/ AppendCheck \/ AppendConcat \/ AppendTail \/ AppendHead \/ AppendSplitsDone \/ AppendAsks
  \/ ByKnownIdx \/ InvalidIdx \/ IdxDone \/ ByIdxUnknown
  \/ EachKnown \/ EachDone \/ EachType
  \/ LengthKnown \/ LengthGiven \/ LengthUnknown
  \/ \E r \in Continued : AppendSplit(r) \/ IdxOfKnown(r) \/ IdxOfUnknown(r) \/ EachTaken(r)

Spec     == Init /\ [][Next]_vars
\* A predicate that has been called runs.
FairSpec == Spec /\ WF_vars(Next)
-------------------------------------------------------------------------------
(* What the predicates mean: ground values v of the elements, the arrays and *)
(* the integers, those that a state still allows, and the relation asked.    *)
Ground == BoundedSeq(Values, MaxLen)

AllowsArray(s, v, arr, g) ==
  IF arr.known
    THEN g = [i \in 1..Cells(arr) |-> v.el[arr.list[i]]]
    ELSE /\ Len(g) \in arr.lens /\ \A i \in 1..Len(g) : g[i] \in arr.type
         /\ "refs" \in DOMAIN arr =>
              \A r \in arr.refs : r[1] \in 0..Len(g) - 1 /\ g[r[1] + 1] = v.el[r[2]]
AllowsElements(s, v) == \A a \in DOMAIN s.el : v.el[a] \in s.el[a]

Related(v) ==
  CASE op = "append" -> v.res = v.to \o v.with
    [] op = "by_idx" -> 0 <= v.idx /\ v.idx < Len(v.arr) /\ v.arr[v.idx + 1] = v.el[was.elt]
    [] op = "each"   -> \A i \in 1..Len(v.arr) : v.arr[i] = v.el[was.elt]
    [] op = "length" -> v.idx = Len(v.arr) /\ (was.mem # NoVar => v.idx \in was.mem.dom)
\* each gives the elements of a known array that suit elt, one after the other.
Taken(v) == \E i \in 1..Len(v.arr) : v.arr[i] = v.el[was.elt]
Means(v) == IF op = "each" /\ Instantiated(was, was.arr) /\ ~Single(was.el[was.elt])
              THEN Taken(v) ELSE Related(v)

Allows(s, v) ==
  /\ AllowsElements(s, v)
  /\ IF op = "append"
       THEN AllowsArray(s, v, s.to, v.to) /\ AllowsArray(s, v, s.with, v.with)
            /\ AllowsArray(s, v, s.res, v.res)
       ELSE AllowsArray(s, v, s.arr, v.arr) /\ (op # "each" => v.idx \in s.idx.dom)

Elements == {e \in [DOMAIN was.el -> Values] : \A a \in DOMAIN e : e[a] \in was.el[a]}
Candidates ==
  IF op = "append"
    THEN {[el |-> e, to |-> t, with |-> w, res |-> t \o w] : e \in Elements, t, w \in Ground}
    ELSE {[el |-> e, arr |-> g, idx |-> n] : e \in Elements, g \in Ground, n \in -1..MaxLen}
Solutions == {v \in Candidates : Allows(was, v) /\ Means(v)}
IsGround(s) ==
  IF op = "append" THEN Instantiated(s, s.to) /\ Instantiated(s, s.with) /\ Instantiated(s, s.res)
  ELSE Instantiated(s, s.arr) /\ (op # "each" => s.idx.known) /\ Single(s.el[s.elt])

Answered == answer \in {"true", "false", "yes", "no"} /\ scope = "own"

(* Where the code does not compute the relation, found by checking without   *)
(* these exceptions.                                                         *)
FirstPart(arr) == arr.known /\ arr.len < Len(arr.list)
\* The list of a first part is followed beyond its length: [1] of [1, 2] with [3] is [1, 2].
ConcatOfPart   == op = "append" /\ FirstPart(was.to) /\ was.with.known /\ ~was.res.known
\* Nothing of `with' is compared when `to' is empty.
NothingCompared == op = "append" /\ was.to.known /\ was.with.known /\ was.res.known /\ was.to.len = 0
\* The parts of a split get lengths that their types may not have.
SplitUnchecked == op = "append" /\ was.res.known /\ ~was.to.known /\ ~was.with.known
                  /\ (was.to.lens # 0..MaxLen \/ was.with.lens # 0..MaxLen)
\* Elements of one array become those of another whatever its type allows.
TypeUnchecked  == op = "append" /\ \E x \in {was.to, was.with, was.res} :
                                     ~x.known /\ x.type # Values
\* An alternative of an unknown index narrows elements of the array, which keep
\* that in the alternatives after it.
ElementsLeft   == op = "by_idx" /\ was.arr.known /\ ~was.idx.known /\ ~Instantiated(was, was.arr)
\* An array all of whose elements are elt may be empty: refused when elt is not of its type.
EmptyRefused   == op = "each" /\ ~was.arr.known /\ Single(was.el[was.elt])
                  /\ was.arr.type \cap was.el[was.elt] = {}
\* A length is given to an unknown array whatever the lengths of its type.
LengthForced   == op = "length" /\ ~Instantiated(was, was.arr) /\ was.idx.known
\* The elements of an unknown array take the type of elt, whatever their own was.
TypeReplaced   == op = "each" /\ ~Instantiated(was, was.arr) /\ ~Single(was.el[was.elt])

(* Every element has a value left, a known array the elements of its length, *)
(* and an answer is one of the protocol's.                                   *)
TypeOK ==
  /\ \A a \in DOMAIN st.el : st.el[a] # {} /\ st.el[a] \subseteq Values
  /\ \A x \in (IF op = "append" THEN {To, With, Res} ELSE {Arr}) :
       x.known => x.len = Cells(x) /\ \A i \in 1..Cells(x) : x.list[i] \in DOMAIN st.el
  /\ at \in 0..MaxLen + 1 /\ scope \in {"own", "freed"}
  /\ answer \in {"", "true", "false", "yes", "no", "error", "crash", "instantiate 0", "instantiate 1"}

(* No solution is lost: what a call of append, by_idx, each or length allows *)
(* and its relation accepts, one of the alternatives given to the goals that *)
(* follow still allows.                                                      *)
NothingLost ==
  Answered /\ ~ConcatOfPart /\ ~ElementsLeft /\ ~EmptyRefused =>
    \A v \in Solutions : \E i \in 1..Len(given) : Allows(given[i], v)

(* Nothing else is answered: an alternative all of whose arguments are known *)
(* is a solution of the call.                                                *)
OnlySolutions ==
  Answered /\ ~ConcatOfPart /\ ~NothingCompared /\ ~SplitUnchecked
  /\ ~TypeUnchecked =>
    \A i \in 1..Len(given) : IsGround(given[i]) =>
      \E v \in Solutions : Allows(given[i], v)

(* An alternative narrows: it allows no values that the call did not, known  *)
(* or not.  The elements are shared, so one comparison narrows other arrays. *)
AnswersNarrow ==
  Answered /\ ~SplitUnchecked /\ ~TypeUnchecked /\ ~LengthForced /\ ~TypeReplaced =>
    \A i \in 1..Len(given) : \A v \in Candidates : Allows(given[i], v) => Allows(was, v)

(* A predicate answers, unless it looks for an index among ones that are not *)
(* allowed, or among elements that do not suit an unknown element: neither   *)
(* loop moves on.                                                            *)
MovesOn ==
  op = "by_idx" /\ was.arr.known /\ ~was.idx.known =>
    /\ \A n \in 0..Cells(was.arr) - 1 : IdxAllowed(n)
    /\ EltKnown \/ \A i \in 1..Cells(was.arr) : was.el[was.arr.list[i]] \cap was.el[was.elt] # {}
Ends == <>(answer # "" \/ ~MovesOn)
===============================================================================
