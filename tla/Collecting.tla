------------------------------- MODULE Collecting ------------------------------
(***************************************************************************)
(* bagof and sized_bagof: __bag and __bag_sz of src/std/bag.c, with the    *)
(* pockets of src/instance.c.  A generator gives values to `from' and each *)
(* value runs the goals after it: the bags, then the rest.  The pockets    *)
(* belong to the query context the bags share, and outlive the values.     *)
(*                                                                         *)
(* A bag that is full sets this_break.  The end of a list of goals clears  *)
(* it, so that only a bag that was full already, and therefore fails,      *)
(* breaks the generator; and only one that looks at it: a unification or   *)
(* the instantiation of an argument, not the clauses of a predicate.       *)
(***************************************************************************)
EXTENDS Integers, Sequences, FiniteSets, SequencesExt

CONSTANTS
  Found,
  Variables,    \* links of the containers
  Setups,       \* [generator, endless, targets]: the queries considered; a target is
                \* [variable, size], size a number, or AnySize for bagof and an unknown size
  AnySize,
  Junk,         \* what an unset size of a new pocket may hold
  MaxValues     \* bound on the values generated

\* What an instance assumes of the constants: every bag of a query has a
\* container of its own.
CollectingAssumption ==
  /\ IsFiniteSet(Variables) /\ AnySize \in Int \ Nat /\ Junk \subseteq Int
  /\ \A s \in Setups :
       /\ s.targets \in Seq([variable : Variables, size : Nat \cup {AnySize}])
       /\ \A t, u \in 1..Len(s.targets) :
            s.targets[t].variable = s.targets[u].variable => t = u

VARIABLES
  setup,
  values,     \* history: what the generator gave
  reached,    \* history: the values that reached each target
  chain,      \* pockets: [variable, size, list, next]; next of the last is "null" or "wild"
  unset,      \* history: the unset size of a new pocket was taken for full
  goal,         \* 0 generating, else the target to run, or the goals after the last
  views,      \* what the targets of the current value became: [list, size]
  handed,      \* history: views as given to the rest
  ended       \* "running" | "broken" | "over" | "crash"

bagVars == <<setup, values, reached, chain, unset, goal, views, handed, ended>>
-------------------------------------------------------------------------------
Targets == setup.targets
Sized(t) == t.size # AnySize

BagInit ==
  /\ setup \in Setups
  /\ values = <<>> /\ reached = [t \in 1..Len(setup.targets) |-> <<>>]
  /\ chain = <<>> /\ unset = FALSE
  /\ goal = 0 /\ views = <<>> /\ handed = <<>> /\ ended = "running"

Generate(v) ==
  /\ ended = "running" /\ goal = 0 /\ Len(values) < MaxValues
  /\ values' = Append(values, v) /\ goal' = 1 /\ views' = <<>>
  /\ UNCHANGED <<setup, reached, chain, unset, handed, ended>>

NoMoreValues ==
  /\ ended = "running" /\ goal = 0 /\ ~setup.endless
  /\ ended' = "over"
  /\ UNCHANGED <<setup, values, reached, chain, unset, goal, views, handed>>

\* A value whose goals fail: the instantiation of an argument gives no more after it.
Failed == IF setup.generator = "default" THEN "over" ELSE "running"

(* pocket_get_or_new, of a malloc'ed pocket whose size and next are unset.   *)
PocketOf(var)  == {i \in 1..Len(chain) : chain[i].variable = var}
NewPocket(var) == [variable : {var}, size : Junk, list : {<<>>}, next : {"null", "wild"}]

\* Following a next that was never set.
Lost(var) == chain # <<>> /\ PocketOf(var) = {} /\ Last(chain).next = "wild"

Chains(var) ==
  IF PocketOf(var) # {} THEN {chain} ELSE {Append(chain, p) : p \in NewPocket(var)}

FullAlready(t, p) == Sized(t) /\ p.size >= t.size
CollectedInFront(p, v) == [p EXCEPT !.list = <<v>> \o @, !.size = IF p.list = <<>> THEN 1 ELSE @ + 1] \* mutant
Collected(p, v) == [p EXCEPT !.list = Append(@, v), !.size = IF p.list = <<>> THEN 1 ELSE @ + 1]

Bag ==
  /\ ended = "running" /\ goal \in 1..Len(Targets)
  /\ LET t == Targets[goal]
         v == Last(values) IN
       \/ /\ Lost(t.variable)
          /\ ended' = "crash" /\ UNCHANGED <<chain, unset, goal, views>>
       \/ /\ ~Lost(t.variable)
          /\ \E ps \in Chains(t.variable) :
               LET i == CHOOSE j \in 1..Len(ps) : ps[j].variable = t.variable
                   p == Collected(ps[i], v) IN
                 IF FullAlready(t, ps[i])
                   THEN /\ chain' = ps /\ unset' = (unset \/ ps[i].list = <<>>)
                        /\ ended' = IF setup.generator = "clauses" THEN "running" ELSE "broken"
                        /\ goal' = 0 /\ UNCHANGED views
                   ELSE /\ chain' = [ps EXCEPT ![i] = p]
                        /\ IF Sized(t) /\ p.size # t.size
                             THEN goal' = 0 /\ ended' = Failed /\ UNCHANGED views
                             ELSE /\ goal' = goal + 1 /\ UNCHANGED ended
                                  /\ views' = Append(views, [list |-> p.list, size |-> p.size])
                        /\ UNCHANGED unset
  /\ reached' = [reached EXCEPT ![goal] = Append(@, Last(values))]
  /\ UNCHANGED <<setup, values, handed>>

Rest(r) ==
  /\ ended = "running" /\ goal = Len(Targets) + 1
  /\ handed' = Append(handed, views) /\ goal' = 0
  /\ ended' = CASE r = "true" -> "running" [] r = "false" -> Failed [] r = "stop" -> "over"
  /\ UNCHANGED <<setup, values, reached, chain, unset, views>>

BagNext ==
  \/ \E v \in Found : Generate(v)
  \/ NoMoreValues \/ Bag
  \/ \E r \in {"true", "false", "stop"} : Rest(r)

BagFairness == WF_bagVars(BagNext)
-------------------------------------------------------------------------------
BagTypeOK ==
  /\ Len(chain) <= Cardinality(Variables)
  /\ \A i, j \in 1..Len(chain) : chain[i].variable = chain[j].variable => i = j
  /\ \A i \in 1..Len(chain) : chain[i].list # <<>> => chain[i].size = Len(chain[i].list)
  /\ goal \in 0..Len(Targets) + 1 /\ ended \in {"running", "broken", "over", "crash"}

(* A bag is given with the values that reached it, first to last, the        *)
(* current one included; one with a size has that many and is given once.    *)
(* The lists are shared: what a bag was given with is a prefix of its pocket.*)
BagsAreCollected ==
  \A g \in 1..Len(handed), t \in 1..Len(Targets) :
    LET view == handed[g][t] IN
      /\ view.size = Len(view.list) /\ view.list # <<>>
      /\ IsPrefix(view.list, reached[t])
      /\ Sized(Targets[t]) => view.size = Targets[t].size
      /\ \A h \in 1..Len(handed) : h < g => Len(handed[h][t].list) < Len(view.list)

(* A generator is broken off by a bag only after the bag was full and given  *)
(* on, unless what an unset size of the pocket held was taken for its size.  *)
BrokenAfterFull ==
  ended = "broken" /\ ~unset =>
    \E t \in 1..Len(Targets) : Sized(Targets[t])
      /\ (Targets[t].size = 0 \/ \E i \in PocketOf(Targets[t].variable) :
                                    chain[i].size = Targets[t].size)

(* A generator that never ends is ended by a first bag with a size.          *)
SizedBagEnds ==
  (setup.generator # "clauses" /\ Sized(Targets[1])) => <>(ended # "running")
===============================================================================
