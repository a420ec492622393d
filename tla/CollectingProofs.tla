--------------------------- MODULE CollectingProofs ---------------------------
(***************************************************************************)
(* Theorems about Collecting: what a bag is given with, and when it breaks *)
(* the generator off.  They hold for every query whose bags have           *)
(* containers of their own, for all sizes, generators and values, and      *)
(* whatever an unset size of a pocket holds.                               *)
(***************************************************************************)
EXTENDS Collecting, SequenceTheorems, FiniteSetTheorems, TLAPS

-----------------------------------------------------------------------------
(* The invariant *)

Pocket == [variable : Variables, size : Int, list : Seq(Found), next : {"null", "wild"}]
View   == [list : Seq(Found), size : Int]

\* The pockets of a chain: one for a container, whose size is that of its list.
Chained(c) ==
  /\ c \in Seq(Pocket)
  /\ \A i, j \in 1..Len(c) : c[i].variable = c[j].variable => i = j
  /\ \A i \in 1..Len(c) : c[i].list # <<>> => c[i].size = Len(c[i].list)

Types ==
  /\ setup \in Setups /\ values \in Seq(Found) /\ reached \in [1..Len(Targets) -> Seq(Found)]
  /\ Chained(chain) /\ unset \in BOOLEAN
  /\ goal \in 0..Len(Targets) + 1 /\ (goal # 0 => values # <<>> /\ Len(views) = goal - 1)
  /\ views \in Seq(View) /\ handed \in Seq([1..Len(Targets) -> View])
  /\ ended \in {"running", "broken", "over", "crash"}

\* The values of s are the first of r.
Begins(s, r) == Len(s) <= Len(r) /\ \A k \in 1..Len(s) : s[k] = r[k]

Of(c, t) == {i \in 1..Len(c) : c[i].variable = Targets[t].variable}
Fits(t, p) == Sized(t) /\ t.size # 0 /\ p.list # <<>> => p.size <= t.size

\* A pocket holds what reached its target, until it is full.
Holds(t, p, r) ==
  /\ Begins(p.list, r) /\ (p.list = r \/ FullAlready(t, p)) /\ Fits(t, p)
Collects(c, r) ==
  \A t \in 1..Len(Targets) :
    /\ \A i \in Of(c, t) : Holds(Targets[t], c[i], r[t])
    /\ Of(c, t) = {} => r[t] = <<>>

\* The targets that the current value has passed see their pockets as they are.
Sees(c, t) ==
  \E i \in Of(c, t) :
    /\ views[t].list = c[i].list /\ views[t].size = c[i].size /\ c[i].list # <<>>
    /\ Sized(Targets[t]) => c[i].size = Targets[t].size

\* What was given of a target is what it collected, and no more than it has;
\* less than what the current value sees of it.
GivenOf(view, t) ==
  /\ view.size = Len(view.list) /\ view.list # <<>> /\ Begins(view.list, reached[t])
  /\ Sized(Targets[t]) => view.size = Targets[t].size
Within(view, c, t) == \E i \in Of(c, t) : Len(view.list) <= Len(c[i].list)

Inv ==
  /\ Types
  /\ ended = "running" => Collects(chain, reached)
  /\ \A t \in 1..goal - 1 : Sees(chain, t)
  /\ \A g \in 1..Len(handed), t \in 1..Len(Targets) :
       /\ GivenOf(handed[g][t], t) /\ Within(handed[g][t], chain, t)
       /\ t < goal => Len(handed[g][t].list) < Len(views[t].list)
       /\ \A h \in 1..Len(handed) : h < g => Len(handed[h][t].list) < Len(handed[g][t].list)
  /\ BrokenAfterFull

-----------------------------------------------------------------------------
(* Sequences and pockets *)

\* Begins is the order of prefixes.
LEMMA BeginsIsPrefix ==
  ASSUME NEW S, NEW s \in Seq(S), NEW r \in Seq(S)
  PROVE  Begins(s, r) <=> IsPrefix(s, r)
<1>1. CASE Len(s) <= Len(r)
  <2>1. PICK n \in Nat : n = Len(s)
    OBVIOUS
  <2>2. /\ SubSeq(s, 1, n) \in Seq(S) /\ Len(SubSeq(s, 1, n)) = n
        /\ \A k \in 1..n : SubSeq(s, 1, n)[k] = s[k]
    BY <2>1, SubSeqProperties
  <2>3. /\ SubSeq(r, 1, n) \in Seq(S) /\ Len(SubSeq(r, 1, n)) = n
        /\ \A k \in 1..n : SubSeq(r, 1, n)[k] = r[k]
    <3>1. \A k \in 1..n : r[k] \in S
      BY <1>1, <2>1
    <3>. QED  BY <1>1, <2>1, <3>1, SubSeqProperties
  <2>4. (\A k \in 1..n : s[k] = r[k]) <=> SubSeq(s, 1, n) = SubSeq(r, 1, n)
    BY <2>2, <2>3, SeqEqual
  <2>. QED  BY <1>1, <2>1, <2>4 DEF Begins, IsPrefix
<1>2. CASE ~(Len(s) <= Len(r))
  BY <1>2 DEF Begins, IsPrefix
<1>. QED  BY <1>1, <1>2

LEMMA BeginsEmpty == Begins(<<>>, <<>>)
BY DEF Begins

LEMMA BeginsAppend ==
  ASSUME NEW S, NEW s \in Seq(S), NEW r \in Seq(S), NEW v \in S
  PROVE  /\ Begins(s, s) /\ (Begins(s, r) => Begins(s, Append(r, v)))
         /\ Append(s, v) # <<>> /\ Len(Append(s, v)) = Len(s) + 1
BY DEF Begins

\* The targets of a query have containers of their own.
LEMMA TargetsTyped ==
  ASSUME CollectingAssumption, setup \in Setups
  PROVE  /\ Targets \in Seq([variable : Variables, size : Nat \cup {AnySize}])
         /\ Len(Targets) \in Nat
         /\ \A t \in 1..Len(Targets) :
              /\ Targets[t] \in [variable : Variables, size : Nat \cup {AnySize}]
              /\ Targets[t].variable \in Variables
              /\ Targets[t].size \in Int /\ (Sized(Targets[t]) => Targets[t].size \in Nat)
         /\ \A t, u \in 1..Len(Targets) : Targets[t].variable = Targets[u].variable => t = u
<1>1. /\ Targets \in Seq([variable : Variables, size : Nat \cup {AnySize}])
      /\ \A t, u \in 1..Len(Targets) : Targets[t].variable = Targets[u].variable => t = u
  BY DEF CollectingAssumption, Targets
<1>2. \A t \in 1..Len(Targets) :
        Targets[t] \in [variable : Variables, size : Nat \cup {AnySize}]
  BY <1>1, ElementOfSeq
<1>. QED  BY <1>1, <1>2 DEF CollectingAssumption, Sized

\* The chain of a query.
LEMMA ChainTyped ==
  ASSUME Types
  PROVE  /\ setup \in Setups /\ Chained(chain) /\ chain \in Seq(Pocket) /\ Len(chain) \in Nat
         /\ \A i \in 1..Len(chain) : chain[i] \in Pocket
         /\ reached \in [1..Len(Targets) -> Seq(Found)]
<1>1. setup \in Setups /\ Chained(chain) /\ reached \in [1..Len(Targets) -> Seq(Found)]
  BY DEF Types
<1>2. chain \in Seq(Pocket)
  BY <1>1 DEF Chained
<1>. QED  BY <1>1, <1>2, ElementOfSeq

-----------------------------------------------------------------------------
(* pocket_get_or_new *)

\* The chain with the pocket of target t: a new one has collected nothing, and
\* the others are as they were.
LEMMA PocketThere ==
  ASSUME CollectingAssumption, Types, NEW t \in 1..Len(Targets),
         NEW ps \in Chains(Targets[t].variable)
  PROVE  /\ Chained(ps) /\ Len(chain) <= Len(ps)
         /\ \A i \in 1..Len(chain) : ps[i] = chain[i]
         /\ \E i \in Of(ps, t) : Of(chain, t) = {i} \/ (Of(chain, t) = {} /\ ps[i].list = <<>>)
         /\ \A u \in 1..Len(Targets) : u # t => Of(ps, u) = Of(chain, u)
<1>. DEFINE var == Targets[t].variable
<1>1. /\ chain \in Seq(Pocket) /\ Len(chain) \in Nat /\ var \in Variables
      /\ Chained(chain) /\ PocketOf(var) = Of(chain, t)
  BY ChainTyped, TargetsTyped DEF PocketOf, Of
<1>2. CASE PocketOf(var) # {}
  <2>1. ps = chain
    BY <1>2 DEF Chains
  <2>2. PICK i \in 1..Len(chain) : chain[i].variable = var
    BY <1>2 DEF PocketOf
  <2>3. Of(chain, t) = {i}
    BY <1>1, <2>2 DEF Chained, Of
  <2>. QED  BY <1>1, <2>1, <2>3
<1>3. CASE PocketOf(var) = {}
  <2>1. PICK p \in NewPocket(var) : ps = Append(chain, p)
    BY <1>3 DEF Chains
  <2>2. p \in Pocket /\ p.variable = var /\ p.list = <<>>
    <3>1. p \in [variable : {var}, size : Junk, list : {<<>>}, next : {"null", "wild"}]
      BY <2>1 DEF NewPocket
    <3>2. p.variable = var /\ p.list = <<>> /\ p.size \in Int
      BY <3>1 DEF CollectingAssumption
    <3>3. p \in [variable : Variables, size : Int, list : Seq(Found), next : {"null", "wild"}]
      <4>1. <<>> \in Seq(Found) /\ Junk \subseteq Int
        BY DEF CollectingAssumption
      <4>. QED  BY <1>1, <3>1, <4>1
    <3>. QED  BY <3>2, <3>3 DEF Pocket
  <2>3. /\ ps \in Seq(Pocket) /\ Len(ps) = Len(chain) + 1 /\ ps[Len(chain) + 1] = p
        /\ \A i \in 1..Len(chain) : ps[i] = chain[i]
    BY <1>1, <2>1, <2>2
  <2>4. \A i \in 1..Len(chain) : chain[i].variable # var
    BY <1>3 DEF PocketOf
  <2>5. Chained(ps)
    BY <1>1, <2>2, <2>3, <2>4 DEF Chained
  <2>6. Len(chain) + 1 \in Of(ps, t) /\ Of(chain, t) = {}
    BY <1>1, <1>3, <2>2, <2>3 DEF Of
  <2>7. ASSUME NEW u \in 1..Len(Targets), u # t  PROVE Of(ps, u) = Of(chain, u)
    <3>1. Targets[u].variable # var
      BY <2>7, TargetsTyped DEF Types
    <3>. QED  BY <1>1, <2>2, <2>3, <3>1 DEF Of
  <2>. QED  BY <1>1, <2>2, <2>3, <2>5, <2>6, <2>7
<1>. QED  BY <1>2, <1>3

\* The chain with it still holds what was collected.
LEMMA PocketsCollect ==
  ASSUME CollectingAssumption, Inv, ended = "running", NEW t \in 1..Len(Targets),
         NEW ps \in Chains(Targets[t].variable)
  PROVE  /\ Collects(ps, reached)
         /\ \A u \in 1..goal - 1 : u # t => Sees(ps, u)
         /\ \A g \in 1..Len(handed), u \in 1..Len(Targets) : Within(handed[g][u], ps, u)
<1>1. /\ Types /\ Collects(chain, reached) /\ Len(chain) \in Nat
      /\ reached \in [1..Len(Targets) -> Seq(Found)]
  BY ChainTyped DEF Inv
<1>2. /\ Chained(ps) /\ Len(chain) <= Len(ps)
      /\ \A i \in 1..Len(chain) : ps[i] = chain[i]
      /\ \E i \in Of(ps, t) : Of(chain, t) = {i} \/ (Of(chain, t) = {} /\ ps[i].list = <<>>)
      /\ \A u \in 1..Len(Targets) : u # t => Of(ps, u) = Of(chain, u)
  BY <1>1, PocketThere
<1>3. \A u \in 1..Len(Targets) : Of(chain, u) \subseteq 1..Len(chain) /\ Of(chain, u) \subseteq Of(ps, u)
  BY <1>1, <1>2 DEF Of
<1>4. \A i, j \in Of(ps, t) : i = j
  BY <1>2 DEF Chained, Of
<1>5. ASSUME NEW u \in 1..Len(Targets)
      PROVE  /\ \A i \in Of(ps, u) : Holds(Targets[u], ps[i], reached[u])
             /\ Of(ps, u) = {} => reached[u] = <<>>
  <2>1. CASE u # t \/ Of(chain, t) # {}
    <3>1. Of(ps, u) = Of(chain, u)
      BY <1>2, <1>4, <2>1
    <3>. QED  BY <1>1, <1>2, <1>3, <3>1 DEF Collects
  <2>2. CASE u = t /\ Of(chain, t) = {}
    <3>1. PICK i \in Of(ps, t) : ps[i].list = <<>> /\ Of(ps, t) = {i}
      BY <1>2, <1>4, <2>2
    <3>2. reached[t] = <<>>
      BY <1>1, <2>2 DEF Collects
    <3>3. Holds(Targets[t], ps[i], reached[t])
      <4>. Begins(ps[i].list, reached[t])
        BY <3>1, <3>2, BeginsEmpty
      <4>. QED  BY <3>1, <3>2 DEF Holds, Fits
    <3>. QED  BY <2>2, <3>1, <3>3
  <2>. QED  BY <2>1, <2>2
<1>6. ASSUME NEW u \in 1..goal - 1, u # t  PROVE Sees(ps, u)
  <2>1. u \in 1..Len(Targets)
    <3>1. goal \in 0..Len(Targets) + 1 /\ Len(Targets) \in Nat
      BY <1>1, ChainTyped, TargetsTyped DEF Types
    <3>2. goal \in Int /\ goal <= Len(Targets) + 1
      BY <3>1
    <3>3. u \in Int /\ 1 <= u /\ u <= goal - 1
      BY <1>6, <3>2
    <3>. QED  BY <3>1, <3>2, <3>3
  <2>2. Sees(chain, u)
    BY <1>6 DEF Inv
  <2>3. Of(ps, u) = Of(chain, u) /\ \A i \in Of(chain, u) : ps[i] = chain[i]
    BY <1>2, <1>3, <1>6, <2>1
  <2>. QED  BY <2>2, <2>3 DEF Sees
<1>7. ASSUME NEW g \in 1..Len(handed), NEW u \in 1..Len(Targets)
      PROVE  Within(handed[g][u], ps, u)
  BY <1>2, <1>3 DEF Inv, Within
<1>. QED  BY <1>5, <1>6, <1>7 DEF Collects

\* What a target does to its pocket: a full one stays, another gets the value.
Filled(t, p, v) == IF FullAlready(t, p) THEN p ELSE Collected(p, v)
LEMMA FilledHolds ==
  ASSUME CollectingAssumption, NEW t \in [variable : Variables, size : Nat \cup {AnySize}],
         NEW p \in Pocket, p.list # <<>> => p.size = Len(p.list),
         NEW v \in Found, NEW r \in Seq(Found), Holds(t, p, r)
  PROVE  LET q == Filled(t, p, v) IN
         /\ q \in Pocket /\ q.variable = p.variable
         /\ q.list # <<>> => q.size = Len(q.list)
         /\ Holds(t, q, Append(r, v)) /\ Len(p.list) <= Len(q.list)
         /\ ~FullAlready(t, p) => Len(p.list) < Len(q.list) /\ q.list = Append(r, v)
<1>1. /\ p.list \in Seq(Found) /\ p.size \in Int /\ t.size \in Int
      /\ Sized(t) => t.size \in Nat
  BY DEF Pocket, CollectingAssumption, Sized
<1>2. CASE FullAlready(t, p)
  <2>1. Filled(t, p, v) = p
    BY <1>2 DEF Filled
  <2>2. Begins(p.list, Append(r, v))
    BY <1>1, BeginsAppend DEF Holds
  <2>. QED  BY <1>1, <1>2, <2>1, <2>2 DEF Holds
<1>3. CASE ~FullAlready(t, p)
  <2>. DEFINE q == Collected(p, v)
  <2>1. Filled(t, p, v) = q
    BY <1>3 DEF Filled
  <2>2. /\ q.list = Append(p.list, v) /\ q.variable = p.variable /\ q.next = p.next
        /\ q.size = IF p.list = <<>> THEN 1 ELSE p.size + 1
    BY DEF Collected, Pocket
  <2>3. q.list \in Seq(Found) /\ Len(q.list) = Len(p.list) + 1 /\ q.list # <<>>
    BY <1>1, <2>2, BeginsAppend
  <2>4. q.size \in Int /\ q.size = Len(q.list)
    BY <1>1, <2>2, <2>3
  <2>5. q \in Pocket
    BY <1>1, <2>2, <2>3, <2>4 DEF Collected, Pocket
  <2>6. p.list = r /\ q.list = Append(r, v) /\ Begins(q.list, Append(r, v))
    BY <1>3, <2>2, <2>3, BeginsAppend DEF Holds
  <2>7. Fits(t, q)
    BY <1>1, <1>3, <2>2, <2>4 DEF Fits, FullAlready
  <2>8. Len(p.list) \in Nat
    BY <1>1
  <2>. HIDE DEF q
  <2>. QED  BY <1>3, <2>1, <2>2, <2>3, <2>4, <2>5, <2>6, <2>7, <2>8 DEF Holds
<1>. QED  BY <1>2, <1>3

-----------------------------------------------------------------------------
(* The steps *)

\* What is given and what reached the targets keeps its types.
LEMMA InitHolds == ASSUME CollectingAssumption, BagInit  PROVE Inv
<1>1. /\ setup \in Setups /\ values = <<>> /\ chain = <<>> /\ unset = FALSE /\ goal = 0
      /\ views = <<>> /\ handed = <<>> /\ ended = "running"
      /\ reached = [t \in 1..Len(Targets) |-> <<>>]
  BY DEF BagInit, Targets
<1>2. Len(Targets) \in Nat
  BY <1>1, TargetsTyped
<1>3. Types
  <2>1. Chained(chain)
    BY <1>1 DEF Chained
  <2>2. reached \in [1..Len(Targets) -> Seq(Found)]
    BY <1>1
  <2>3. views \in Seq(View) /\ handed \in Seq([1..Len(Targets) -> View]) /\ values \in Seq(Found)
    BY <1>1
  <2>4. goal \in 0..Len(Targets) + 1 /\ ended \in {"running", "broken", "over", "crash"}
    BY <1>1, <1>2
  <2>. QED  BY <1>1, <2>1, <2>2, <2>3, <2>4 DEF Types
<1>4. Collects(chain, reached)
  <2>1. \A t \in 1..Len(Targets) : Of(chain, t) = {} /\ reached[t] = <<>>
    BY <1>1 DEF Of
  <2>. QED  BY <2>1 DEF Collects
<1>5. BrokenAfterFull
  BY <1>1 DEF BrokenAfterFull
<1>6. Len(handed) = 0
  BY <1>1
<1>. QED  BY <1>1, <1>3, <1>4, <1>5, <1>6 DEF Inv

\* When the bags, what reached them and what was given stay, so does what is
\* said of them.
LEMMA BagsStay ==
  ASSUME Inv, Types', UNCHANGED <<setup, chain, reached, handed>>, goal' \in {0, 1},
         BrokenAfterFull', ended' = "running" => ended = "running"
  PROVE  Inv'
<1>1. Targets' = Targets
  BY DEF Targets
<1>2. Collects(chain, reached) => Collects(chain, reached)'
  BY <1>1 DEF Collects, Of, Holds, Begins, FullAlready, Fits, Sized
<1>3. 1..goal' - 1 = {}
  <2>1. CASE goal' = 0
    BY <2>1
  <2>2. CASE goal' = 1
    BY <2>2
  <2>. QED  BY <2>1, <2>2
<1>4. ASSUME NEW g \in 1..Len(handed'), NEW t \in 1..Len(Targets')
      PROVE  /\ GivenOf(handed[g][t], t)' /\ Within(handed[g][t], chain, t)'
             /\ ~(t < goal')
             /\ \A h \in 1..Len(handed') : h < g => Len(handed'[h][t].list) < Len(handed'[g][t].list)
  <2>1. g \in 1..Len(handed) /\ t \in 1..Len(Targets)
    BY <1>1, <1>4
  <2>2. GivenOf(handed[g][t], t) /\ Within(handed[g][t], chain, t)
    BY <2>1 DEF Inv
  <2>3. GivenOf(handed[g][t], t)' /\ Within(handed[g][t], chain, t)'
    BY <1>1, <2>2 DEF GivenOf, Within, Of, Begins, Sized
  <2>4. ~(t < goal')
    BY <2>1
  <2>5. \A h \in 1..Len(handed) : h < g => Len(handed[h][t].list) < Len(handed[g][t].list)
    BY <2>1 DEF Inv
  <2>. QED  BY <2>3, <2>4, <2>5
<1>. QED  BY <1>2, <1>3, <1>4 DEF Inv

LEMMA GenerateHolds ==
  ASSUME CollectingAssumption, Inv, NEW v \in Found, Generate(v)
  PROVE  Inv'
<1>1. /\ ended = "running" /\ values' = Append(values, v) /\ goal' = 1 /\ views' = <<>>
      /\ UNCHANGED <<setup, reached, chain, unset, handed, ended>> /\ Types
  BY DEF Generate, Inv
<1>2. values' \in Seq(Found) /\ values' # <<>>
  <2>1. values \in Seq(Found)
    BY <1>1 DEF Types
  <2>. QED  BY <1>1, <2>1
<1>3. Len(Targets) \in Nat /\ Targets' = Targets
  BY <1>1, TargetsTyped DEF Types, Targets
<1>4. views' \in Seq(View) /\ Len(views') = 0
  BY <1>1
<1>5. Chained(chain)'
  BY <1>1 DEF Types, Chained
<1>6. Types'
  BY <1>1, <1>2, <1>3, <1>4, <1>5 DEF Types
<1>7. BrokenAfterFull'
  BY <1>1 DEF BrokenAfterFull
<1>. QED  BY <1>1, <1>6, <1>7, BagsStay

LEMMA NoMoreValuesHolds ==
  ASSUME CollectingAssumption, Inv, NoMoreValues
  PROVE  Inv'
<1>1. /\ ended = "running" /\ ended' = "over" /\ goal = 0
      /\ UNCHANGED <<setup, values, reached, chain, unset, goal, views, handed>> /\ Types
  BY DEF NoMoreValues, Inv
<1>2. Targets' = Targets /\ Chained(chain)'
  BY <1>1 DEF Targets, Types, Chained
<1>3. Types'
  BY <1>1, <1>2 DEF Types
<1>4. BrokenAfterFull'
  BY <1>1 DEF BrokenAfterFull
<1>. QED  BY <1>1, <1>3, <1>4, BagsStay

\* A target as it is run: it follows a pocket that was never set, or has its
\* pocket, and is full already, does not suit the value or lets it pass.
Fails(t, p) == FullAlready(t, p) \/ (Sized(t) /\ Collected(p, Last(values)).size # t.size)
Passes(ps, i) ==
  /\ ~Fails(Targets[goal], ps[i]) /\ goal' = goal + 1 /\ ended' = ended
  /\ views' = Append(views, [list |-> chain'[i].list, size |-> chain'[i].size])
Breaks(ps, i) ==
  /\ FullAlready(Targets[goal], ps[i]) /\ goal' = 0 /\ UNCHANGED views
  /\ unset' = (unset \/ ps[i].list = <<>>) /\ ended' \in {"running", "broken"}
Refuses(ps, i) == 
  /\ Fails(Targets[goal], ps[i]) /\ ~FullAlready(Targets[goal], ps[i])
  /\ goal' = 0 /\ UNCHANGED views /\ ended' \in {"running", "over"}
Runs(ps, i) ==
  /\ ps \in Chains(Targets[goal].variable) /\ Of(ps, goal) = {i}
  /\ chain' = [ps EXCEPT ![i] = Filled(Targets[goal], ps[i], Last(values))]
  /\ \/ Breaks(ps, i)
     \/ (Refuses(ps, i) \/ Passes(ps, i)) /\ unset' = unset
Crashes == ended' = "crash" /\ UNCHANGED <<chain, unset, goal, views>>

LEMMA BagRuns ==
  ASSUME CollectingAssumption, Inv, Bag
  PROVE  /\ ended = "running" /\ goal \in 1..Len(Targets) /\ Last(values) \in Found
         /\ UNCHANGED <<setup, values, handed>>
         /\ reached' = [reached EXCEPT ![goal] = Append(@, Last(values))]
         /\ Crashes \/ \E ps, i : Runs(ps, i)
<1>. DEFINE t == Targets[goal]
<1>1. /\ ended = "running" /\ goal \in 1..Len(Targets) /\ UNCHANGED <<setup, values, handed>>
      /\ reached' = [reached EXCEPT ![goal] = Append(@, Last(values))] /\ Types
  BY DEF Bag, Inv
<1>2. values \in Seq(Found) /\ values # <<>>
  <2>1. goal # 0
    BY <1>1, TargetsTyped DEF Types
  <2>. QED  BY <1>1, <2>1 DEF Types
<1>3. Last(values) \in Found
  BY <1>2 DEF Last
<1>4. CASE ended' = "crash" /\ UNCHANGED <<chain, unset, goal, views>>
  BY <1>1, <1>3, <1>4 DEF Crashes
<1>5. ASSUME NEW ps \in Chains(t.variable), NEW i,
             i = CHOOSE j \in 1..Len(ps) : ps[j].variable = t.variable,
             IF FullAlready(t, ps[i])
               THEN /\ chain' = ps /\ unset' = (unset \/ ps[i].list = <<>>)
                    /\ ended' = IF setup.generator = "clauses" THEN "running" ELSE "broken"
                    /\ goal' = 0 /\ UNCHANGED views
               ELSE /\ chain' = [ps EXCEPT ![i] = Collected(ps[i], Last(values))]
                    /\ IF Sized(t) /\ Collected(ps[i], Last(values)).size # t.size
                         THEN goal' = 0 /\ ended' = Failed /\ UNCHANGED views
                         ELSE /\ goal' = goal + 1 /\ UNCHANGED ended
                              /\ views' = Append(views, [list |-> Collected(ps[i], Last(values)).list,
                                                         size |-> Collected(ps[i], Last(values)).size])
                    /\ UNCHANGED unset
      PROVE  Runs(ps, i)
  <2>1. Chained(ps) /\ Of(ps, goal) # {}
    BY <1>1, <1>5, PocketThere
  <2>2. i \in Of(ps, goal)
    BY <1>5, <2>1 DEF Of
  <2>3. Of(ps, goal) = {i}
    BY <2>1, <2>2 DEF Chained, Of
  <2>4. ps \in Seq(Pocket) /\ i \in 1..Len(ps)
    BY <2>1, <2>2 DEF Chained, Of
  <2>5. CASE FullAlready(t, ps[i])
    <3>1. ps = [ps EXCEPT ![i] = ps[i]]
      BY <2>4
    <3>2. chain' = [ps EXCEPT ![i] = Filled(t, ps[i], Last(values))]
      BY <1>5, <2>5, <3>1 DEF Filled
    <3>3. Breaks(ps, i)
      BY <1>5, <2>5 DEF Breaks
    <3>. QED  BY <1>5, <2>3, <3>2, <3>3 DEF Runs
  <2>6. CASE ~FullAlready(t, ps[i])
    <3>1. Filled(t, ps[i], Last(values)) = Collected(ps[i], Last(values))
      BY <2>6 DEF Filled
    <3>2. chain' = [ps EXCEPT ![i] = Filled(t, ps[i], Last(values))] /\ unset' = unset
      BY <1>5, <2>6, <3>1
    <3>3. chain'[i] = Collected(ps[i], Last(values))
      BY <2>4, <3>1, <3>2
    <3>4. CASE Sized(t) /\ Collected(ps[i], Last(values)).size # t.size
      <4>1. Refuses(ps, i)
        BY <1>5, <2>6, <3>4 DEF Refuses, Fails, Failed
      <4>. QED  BY <1>5, <2>3, <3>2, <4>1 DEF Runs
    <3>5. CASE ~(Sized(t) /\ Collected(ps[i], Last(values)).size # t.size)
      <4>1. Passes(ps, i)
        BY <1>5, <2>6, <3>3, <3>5 DEF Passes, Fails
      <4>. QED  BY <1>5, <2>3, <3>2, <4>1 DEF Runs
    <3>. QED  BY <3>4, <3>5
  <2>. QED  BY <2>5, <2>6
<1>. QED  BY <1>1, <1>3, <1>4, <1>5 DEF Bag

\* One pocket of a chain is filled.
LEMMA ChainedStays ==
  ASSUME NEW ps, Chained(ps), NEW i \in 1..Len(ps), NEW q \in Pocket,
         q.variable = ps[i].variable, q.list # <<>> => q.size = Len(q.list)
  PROVE  Chained([ps EXCEPT ![i] = q])
<1>. DEFINE c == [ps EXCEPT ![i] = q]
<1>1. ps \in Seq(Pocket) /\ Len(ps) \in Nat
  BY DEF Chained
<1>2. /\ c \in Seq(Pocket) /\ Len(c) = Len(ps) /\ c[i] = q
      /\ \A j \in 1..Len(ps) : j # i => c[j] = ps[j]
  BY <1>1
<1>3. \A j \in 1..Len(ps) : c[j].variable = ps[j].variable
  BY <1>2
<1>. HIDE DEF c
<1>. QED  BY <1>2, <1>3 DEF Chained

\* What reached the targets grows, and what was given stays the first of it.
LEMMA ReachedGrows ==
  ASSUME CollectingAssumption, Types, goal \in 1..Len(Targets), Last(values) \in Found,
         reached' = [reached EXCEPT ![goal] = Append(@, Last(values))], setup' = setup
  PROVE  /\ Targets' = Targets /\ reached' \in [1..Len(Targets) -> Seq(Found)]
         /\ reached'[goal] = Append(reached[goal], Last(values))
         /\ \A u \in 1..Len(Targets) : u # goal => reached'[u] = reached[u]
         /\ \A u \in 1..Len(Targets), s \in Seq(Found) :
              Begins(s, reached[u]) => Begins(s, reached'[u])
<1>1. reached \in [1..Len(Targets) -> Seq(Found)] /\ Targets' = Targets
  BY DEF Types, Targets
<1>2. /\ reached' \in [1..Len(Targets) -> Seq(Found)]
      /\ reached'[goal] = Append(reached[goal], Last(values))
      /\ \A u \in 1..Len(Targets) : u # goal => reached'[u] = reached[u]
  BY <1>1
<1>3. ASSUME NEW u \in 1..Len(Targets), NEW s \in Seq(Found), Begins(s, reached[u])
      PROVE  Begins(s, reached'[u])
  <2>1. CASE u = goal
    <3>1. reached[u] \in Seq(Found)
      BY <1>1
    <3>2. Begins(s, Append(reached[u], Last(values)))
      BY <1>3, <3>1, BeginsAppend
    <3>. QED  BY <1>2, <2>1, <3>2
  <2>2. CASE u # goal
    BY <1>2, <1>3, <2>2
  <2>. QED  BY <2>1, <2>2
<1>. QED  BY <1>1, <1>2, <1>3

\* What was given is typed.
LEMMA GivenTyped ==
  ASSUME Types
  PROVE  \A g \in 1..Len(handed), u \in 1..Len(Targets) :
           /\ handed[g][u] \in View /\ handed[g][u].list \in Seq(Found)
           /\ handed[g][u].size \in Int /\ Len(handed[g][u].list) \in Nat
<1>1. handed \in Seq([1..Len(Targets) -> View])
  BY DEF Types
<1>2. \A g \in 1..Len(handed) : handed[g] \in [1..Len(Targets) -> View]
  BY <1>1, ElementOfSeq
<1>3. \A g \in 1..Len(handed), u \in 1..Len(Targets) : handed[g][u] \in View
  BY <1>2
<1>. QED  BY <1>3 DEF View

\* A target runs: its pocket is filled, the others and what they hold stay.
LEMMA RunCollects ==
  ASSUME CollectingAssumption, Inv, Bag, NEW ps, NEW i, Runs(ps, i)
  PROVE  /\ Chained(chain)' /\ Collects(chain, reached)' /\ Of(ps, goal) = {i} /\ Chained(ps)
         /\ \A u \in 1..Len(Targets) : Of(chain, u)' = Of(ps, u)
         /\ \A u \in 1..Len(Targets) : \A j \in Of(ps, u) : u # goal => chain'[j] = ps[j]
         /\ ps[i] \in Pocket /\ chain'[i] \in Pocket
         /\ chain'[i] = Filled(Targets[goal], ps[i], Last(values))
         /\ Holds(Targets[goal], ps[i], reached[goal])
         /\ Len(ps[i].list) <= Len(chain'[i].list)
         /\ ~FullAlready(Targets[goal], ps[i]) =>
              Len(ps[i].list) < Len(chain'[i].list) /\ chain'[i].list # <<>>
         /\ \A u \in 1..goal - 1 : Sees(ps, u)
         /\ \A g \in 1..Len(handed), u \in 1..Len(Targets) : Within(handed[g][u], ps, u)
<1>. DEFINE v == Last(values)
            q == Filled(Targets[goal], ps[i], v)
<1>1. /\ ended = "running" /\ goal \in 1..Len(Targets) /\ v \in Found /\ Types
      /\ setup' = setup /\ reached' = [reached EXCEPT ![goal] = Append(@, v)]
  BY BagRuns DEF Inv
<1>2. ps \in Chains(Targets[goal].variable) /\ Of(ps, goal) = {i} /\ chain' = [ps EXCEPT ![i] = q]
  BY DEF Runs
<1>3. /\ Chained(ps) /\ ps \in Seq(Pocket) /\ i \in 1..Len(ps) /\ ps[i] \in Pocket
      /\ ps[i].variable = Targets[goal].variable /\ Len(ps) \in Nat
      /\ ps[i].list # <<>> => ps[i].size = Len(ps[i].list)
  <2>1. Chained(ps) /\ i \in Of(ps, goal)
    BY <1>1, <1>2, PocketThere
  <2>2. ps \in Seq(Pocket) /\ i \in 1..Len(ps) /\ ps[i].variable = Targets[goal].variable
    BY <2>1 DEF Chained, Of
  <2>. QED  BY <2>1, <2>2, ElementOfSeq DEF Chained
<1>4. /\ Collects(ps, reached) /\ \A u \in 1..goal - 1 : u # goal => Sees(ps, u)
      /\ \A g \in 1..Len(handed), u \in 1..Len(Targets) : Within(handed[g][u], ps, u)
  BY <1>1, <1>2, PocketsCollect
<1>5. /\ Targets' = Targets /\ Len(Targets) \in Nat /\ goal \in Nat
      /\ Targets[goal] \in [variable : Variables, size : Nat \cup {AnySize}]
      /\ reached[goal] \in Seq(Found) /\ reached'[goal] = Append(reached[goal], v)
      /\ \A u \in 1..Len(Targets) : u # goal => reached'[u] = reached[u]
  BY <1>1, ReachedGrows, TargetsTyped, ChainTyped
<1>6. Holds(Targets[goal], ps[i], reached[goal])
  BY <1>1, <1>2, <1>4 DEF Collects
<1>7. /\ q \in Pocket /\ q.variable = ps[i].variable /\ (q.list # <<>> => q.size = Len(q.list))
      /\ Holds(Targets[goal], q, Append(reached[goal], v)) /\ Len(ps[i].list) <= Len(q.list)
      /\ ~FullAlready(Targets[goal], ps[i]) => /\ Len(ps[i].list) < Len(q.list)
                                             /\ q.list = Append(reached[goal], v)
  BY <1>1, <1>3, <1>5, <1>6, FilledHolds
<1>14. Append(reached[goal], v) # <<>>
  BY <1>1, <1>5, BeginsAppend
<1>. HIDE DEF q
<1>8. Chained(chain)'
  <2>1. Chained([ps EXCEPT ![i] = q])
    BY <1>3, <1>7, ChainedStays
  <2>. QED  BY <1>2, <2>1 DEF Chained
<1>9. /\ chain' \in Seq(Pocket) /\ Len(chain') = Len(ps) /\ chain'[i] = q
      /\ \A j \in 1..Len(ps) : j # i => chain'[j] = ps[j]
  BY <1>2, <1>3, <1>7
<1>10. \A u \in 1..Len(Targets) : Of(chain, u)' = Of(ps, u)
  <2>1. \A j \in 1..Len(ps) : chain'[j].variable = ps[j].variable
    BY <1>7, <1>9
  <2>. QED  BY <1>5, <1>9, <2>1 DEF Of
<1>11. \A u \in 1..Len(Targets) : \A j \in Of(ps, u) : u # goal => chain'[j] = ps[j]
  <2>. SUFFICES ASSUME NEW u \in 1..Len(Targets), NEW j \in Of(ps, u), u # goal
                PROVE  chain'[j] = ps[j]
    OBVIOUS
  <2>1. j \in 1..Len(ps) /\ ps[j].variable = Targets[u].variable
    BY DEF Of
  <2>2. Targets[u].variable # Targets[goal].variable
    BY <1>1, TargetsTyped DEF Types
  <2>. QED  BY <1>3, <1>9, <2>1, <2>2
<1>12. Collects(chain, reached)'
  <2>. SUFFICES ASSUME NEW u \in 1..Len(Targets)
                PROVE  /\ \A j \in Of(ps, u) : Holds(Targets[u], chain'[j], reached'[u])
                       /\ Of(ps, u) = {} => reached'[u] = <<>>
    BY <1>5, <1>10 DEF Collects, Holds, Begins, FullAlready, Fits, Sized
  <2>1. CASE u = goal
    BY <1>2, <1>5, <1>7, <1>9, <2>1
  <2>2. CASE u # goal
    BY <1>4, <1>5, <1>11, <2>2 DEF Collects
  <2>. QED  BY <2>1, <2>2
<1>13. \A u \in 1..goal - 1 : Sees(ps, u)
  BY <1>4, <1>5
<1>15. chain'[i] \in Pocket
  BY <1>3, <1>7, <1>9
<1>16. /\ Len(ps[i].list) <= Len(chain'[i].list)
       /\ ~FullAlready(Targets[goal], ps[i]) =>
            Len(ps[i].list) < Len(chain'[i].list) /\ chain'[i].list # <<>>
  BY <1>7, <1>9, <1>14
<1>17. chain'[i] = Filled(Targets[goal], ps[i], Last(values))
  BY <1>9 DEF q
<1>. QED  BY <1>2, <1>3, <1>4, <1>6, <1>8, <1>10, <1>11, <1>12, <1>13, <1>15, <1>16, <1>17

\* It keeps its types.
LEMMA RunTyped ==
  ASSUME CollectingAssumption, Inv, Bag, NEW ps, NEW i, Runs(ps, i)
  PROVE  /\ Types' /\ Targets' = Targets /\ Len(Targets) \in Nat /\ goal \in 1..Len(Targets)
         /\ views \in Seq(View) /\ Len(views) = goal - 1
         /\ goal' = 0 \/ (Passes(ps, i) /\ goal' = goal + 1)
<1>1. /\ ended = "running" /\ goal \in 1..Len(Targets) /\ UNCHANGED <<setup, values, handed>>
      /\ reached' = [reached EXCEPT ![goal] = Append(@, Last(values))] /\ Last(values) \in Found
      /\ Types
  BY BagRuns DEF Inv
<1>2. /\ Targets' = Targets /\ Len(Targets) \in Nat /\ reached' \in [1..Len(Targets) -> Seq(Found)]
  BY <1>1, ReachedGrows, TargetsTyped DEF Types
<1>3. Chained(chain)' /\ chain'[i] \in Pocket
  BY RunCollects
<1>4. views \in Seq(View) /\ Len(views) = goal - 1 /\ unset \in BOOLEAN
  <2>1. goal # 0
    BY <1>1, <1>2
  <2>. QED  BY <1>1, <2>1 DEF Types
<1>5. CASE Passes(ps, i)
  <2>1. /\ goal' = goal + 1 /\ ended' = ended
        /\ views' = Append(views, [list |-> chain'[i].list, size |-> chain'[i].size])
    BY <1>5 DEF Passes
  <2>2. [list |-> chain'[i].list, size |-> chain'[i].size] \in View
    BY <1>3 DEF Pocket, View
  <2>3. views' \in Seq(View) /\ Len(views') = goal
    BY <1>1, <1>2, <1>4, <2>1, <2>2
  <2>4. unset' \in BOOLEAN
    BY <1>4 DEF Runs, Breaks
  <2>5. goal' \in 0..Len(Targets) + 1 /\ Len(views') = goal' - 1
    BY <1>1, <1>2, <2>1, <2>3
  <2>6. values' \in Seq(Found) /\ (goal' # 0 => values' # <<>>)
    <3>1. goal # 0
      BY <1>1, <1>2
    <3>. QED  BY <1>1, <3>1 DEF Types
  <2>7. Types'
    BY <1>1, <1>2, <1>3, <2>1, <2>3, <2>4, <2>5, <2>6 DEF Types
  <2>. QED  BY <1>1, <1>2, <1>4, <1>5, <2>1, <2>7
<1>6. CASE Refuses(ps, i) \/ Breaks(ps, i)
  <2>1. goal' = 0 /\ views' = views /\ ended' \in {"running", "over", "broken"}
    BY <1>6 DEF Refuses, Breaks
  <2>2. unset' \in BOOLEAN
    BY <1>4, <1>6 DEF Runs, Breaks
  <2>3. goal' \in 0..Len(Targets) + 1
    BY <1>2, <2>1
  <2>4. Types'
    BY <1>1, <1>2, <1>3, <1>4, <2>1, <2>2, <2>3 DEF Types
  <2>. QED  BY <1>1, <1>2, <1>4, <2>1, <2>4
<1>. QED  BY <1>5, <1>6 DEF Runs

\* The targets that are passed see their pockets.
LEMMA RunSees ==
  ASSUME CollectingAssumption, Inv, Bag, NEW ps, NEW i, Runs(ps, i)
  PROVE  \A u \in 1..goal' - 1 : Sees(chain, u)'
<1>1. /\ Types' /\ Targets' = Targets /\ Len(Targets) \in Nat /\ goal \in 1..Len(Targets)
      /\ views \in Seq(View) /\ Len(views) = goal - 1
      /\ goal' = 0 \/ (Passes(ps, i) /\ goal' = goal + 1)
  BY RunTyped
<1>2. SUFFICES ASSUME Passes(ps, i), goal' = goal + 1, NEW u \in 1..goal
               PROVE  Sees(chain, u)'
  <2>1. CASE goal' = 0
    BY <2>1
  <2>. QED  BY <1>1, <2>1
<1>3. /\ Of(chain, u)' = Of(ps, u) /\ Of(ps, goal) = {i} /\ chain'[i] \in Pocket
      /\ \A j \in Of(ps, u) : u # goal => chain'[j] = ps[j]
      /\ ~FullAlready(Targets[goal], ps[i])
      /\ chain'[i].list # <<>> /\ (\A w \in 1..goal - 1 : Sees(ps, w))
      /\ chain'[i] = Filled(Targets[goal], ps[i], Last(values))
  <2>1. u \in 1..Len(Targets) /\ ~FullAlready(Targets[goal], ps[i])
    BY <1>1, <1>2 DEF Passes, Fails
  <2>. QED  BY <2>1, RunCollects
<1>4. /\ views' = Append(views, [list |-> chain'[i].list, size |-> chain'[i].size])
      /\ (Sized(Targets[goal]) => Collected(ps[i], Last(values)).size = Targets[goal].size)
  BY <1>2 DEF Passes, Fails
<1>5. CASE u = goal
  <2>1. views'[u] = [list |-> chain'[i].list, size |-> chain'[i].size]
    BY <1>1, <1>4, <1>5, AppendProperties
  <2>2. Sized(Targets[u]) => chain'[i].size = Targets[u].size
    BY <1>3, <1>4, <1>5 DEF Filled
  <2>3. i \in Of(chain, u)' /\ views'[u].list = chain'[i].list /\ views'[u].size = chain'[i].size
    BY <1>3, <1>5, <2>1
  <2>4. Sized(Targets[u])' <=> Sized(Targets[u])
    BY <1>1 DEF Sized
  <2>. QED  BY <1>1, <1>3, <2>2, <2>3, <2>4 DEF Sees
<1>6. CASE u # goal
  <2>1. u \in 1..goal - 1
    BY <1>1, <1>6
  <2>2. Sees(ps, u) /\ views'[u] = views[u]
    BY <1>1, <1>3, <1>4, <2>1, AppendProperties
  <2>. QED  BY <1>1, <1>3, <1>6, <2>2 DEF Sees, Sized
<1>. QED  BY <1>5, <1>6

\* What was given is what its target collected first.
LEMMA RunGives ==
  ASSUME CollectingAssumption, Inv, Bag, NEW ps, NEW i, Runs(ps, i)
  PROVE  \A g \in 1..Len(handed'), t \in 1..Len(Targets') :
           /\ GivenOf(handed[g][t], t)' /\ Within(handed[g][t], chain, t)'
           /\ t < goal' => Len(handed'[g][t].list) < Len(views'[t].list)
           /\ \A h \in 1..Len(handed') : h < g => Len(handed'[h][t].list) < Len(handed'[g][t].list)
<1>1. /\ Types' /\ Targets' = Targets /\ Len(Targets) \in Nat /\ goal \in 1..Len(Targets)
      /\ views \in Seq(View) /\ Len(views) = goal - 1 /\ Types
      /\ goal' = 0 \/ (Passes(ps, i) /\ goal' = goal + 1)
      /\ handed' = handed
  BY RunTyped, BagRuns DEF Inv
<1>. SUFFICES ASSUME NEW g \in 1..Len(handed), NEW t \in 1..Len(Targets)
              PROVE  /\ GivenOf(handed[g][t], t)' /\ Within(handed[g][t], chain, t)'
                     /\ t < goal' => Len(handed[g][t].list) < Len(views'[t].list)
                     /\ \A h \in 1..Len(handed) : h < g => Len(handed[h][t].list) < Len(handed[g][t].list)
  BY <1>1, RunTyped, BagRuns
<1>2. /\ GivenOf(handed[g][t], t) /\ (t < goal => Len(handed[g][t].list) < Len(views[t].list))
      /\ \A h \in 1..Len(handed) : h < g => Len(handed[h][t].list) < Len(handed[g][t].list)
      /\ handed[g][t].list \in Seq(Found) /\ Len(handed[g][t].list) \in Nat
  BY <1>1, GivenTyped DEF Inv
<1>3. handed' = handed
  BY BagRuns
<1>4. GivenOf(handed[g][t], t)'
  <2>1. \A s \in Seq(Found) : Begins(s, reached[t]) => Begins(s, reached'[t])
    BY <1>1, BagRuns, ReachedGrows
  <2>2. Begins(handed[g][t].list, reached'[t])
    BY <1>2, <2>1 DEF GivenOf
  <2>. QED  BY <1>1, <1>2, <1>3, <2>2 DEF GivenOf, Sized, Begins
<1>5. /\ Within(handed[g][t], ps, t) /\ Of(chain, t)' = Of(ps, t) /\ Of(ps, goal) = {i}
      /\ \A j \in Of(ps, t) : t # goal => chain'[j] = ps[j]
      /\ ps[i] \in Pocket /\ chain'[i] \in Pocket /\ Len(ps[i].list) <= Len(chain'[i].list)
      /\ ~FullAlready(Targets[goal], ps[i]) => Len(ps[i].list) < Len(chain'[i].list)
  BY RunCollects
<1>6. PICK j \in Of(ps, t) : Len(handed[g][t].list) <= Len(ps[j].list)
  BY <1>5 DEF Within
<1>7. t = goal => j = i
  BY <1>5, <1>6
<1>8. Len(ps[i].list) \in Nat /\ Len(chain'[i].list) \in Nat
  BY <1>5 DEF Pocket
<1>9. Within(handed[g][t], chain, t)'
  <2>1. Len(handed[g][t].list) <= Len(chain'[j].list)
    <3>1. CASE t = goal
      <4>1. PICK x \in Nat, y \in Nat, z \in Nat :
              x = Len(handed[g][t].list) /\ y = Len(ps[i].list) /\ z = Len(chain'[i].list)
        BY <1>2, <1>8
      <4>2. x <= y /\ y <= z /\ j = i
        BY <1>5, <1>6, <1>7, <3>1, <4>1
      <4>3. x <= z
        BY <4>2
      <4>4. z = Len(chain'[j].list)
        BY <4>1, <4>2
      <4>. QED  BY <4>1, <4>3, <4>4, Zenon
    <3>2. CASE t # goal
      BY <1>5, <1>6, <3>2
    <3>. QED  BY <3>1, <3>2
  <2>. QED  BY <1>3, <1>5, <2>1 DEF Within
<1>10. t < goal' => Len(handed[g][t].list) < Len(views'[t].list)
  <2>. SUFFICES ASSUME t < goal'  PROVE Len(handed[g][t].list) < Len(views'[t].list)
    OBVIOUS
  <2>1. Passes(ps, i) /\ goal' = goal + 1
    BY <1>1
  <2>2. /\ views' = Append(views, [list |-> chain'[i].list, size |-> chain'[i].size])
        /\ ~FullAlready(Targets[goal], ps[i])
    BY <2>1 DEF Passes, Fails
  <2>3. CASE t = goal
    <3>1. views'[t] = [list |-> chain'[i].list, size |-> chain'[i].size]
      BY <1>1, <2>2, <2>3, AppendProperties
    <3>2. views'[t].list = chain'[i].list
      BY <3>1
    <3>3. Len(handed[g][t].list) <= Len(ps[i].list)
      BY <1>6, <1>7, <2>3
    <3>4. Len(ps[i].list) < Len(chain'[i].list)
      BY <1>5, <2>2
    <3>5. PICK a \in Nat : a = Len(handed[g][t].list)
      BY <1>2
    <3>6. PICK b \in Nat : b = Len(ps[i].list)
      BY <1>8
    <3>7. PICK c \in Nat : c = Len(chain'[i].list)
      BY <1>8
    <3>8. a <= b /\ b < c
      BY <3>3, <3>4, <3>5, <3>6, <3>7
    <3>9. a < c
      BY <3>8
    <3>. QED  BY <3>2, <3>5, <3>7, <3>9
  <2>4. CASE t # goal
    <3>1. t \in 1..goal - 1 /\ t < goal
      BY <1>1, <2>1, <2>4
    <3>2. views'[t] = views[t]
      BY <1>1, <2>2, <3>1, AppendProperties
    <3>. QED  BY <1>2, <3>1, <3>2
  <2>. QED  BY <2>3, <2>4
<1>. QED  BY <1>2, <1>4, <1>9, <1>10

LEMMA RunBreaks ==
  ASSUME CollectingAssumption, Inv, Bag, NEW ps, NEW i, Runs(ps, i)
  PROVE  BrokenAfterFull'
<1>. SUFFICES ASSUME ended' = "broken", ~unset'  PROVE BrokenAfterFull'
  BY DEF BrokenAfterFull
<1>1. /\ ended = "running" /\ goal \in 1..Len(Targets) /\ Targets' = Targets /\ Types
  BY BagRuns, RunTyped DEF Inv
<1>2. Breaks(ps, i)
  BY <1>1 DEF Runs, Refuses, Passes
<1>3. ps[i].list # <<>> /\ FullAlready(Targets[goal], ps[i])
  BY <1>2 DEF Breaks
<1>4. /\ Holds(Targets[goal], ps[i], reached[goal]) /\ ps[i] \in Pocket
      /\ chain'[i] = ps[i]
  BY <1>3, RunCollects DEF Filled
<1>5. Targets[goal].size \in Int /\ ps[i].size \in Int
  BY <1>1, <1>4, TargetsTyped DEF Types, Pocket
<1>6. Sized(Targets[goal]) /\ (Targets[goal].size = 0 \/ chain'[i].size = Targets[goal].size)
  BY <1>3, <1>4, <1>5 DEF Holds, Fits, FullAlready
<1>7. /\ i \in 1..Len(chain') /\ chain'[i].variable = Targets[goal].variable
  <2>1. PICK t \in 1..Len(Targets) : t = goal
    BY <1>1
  <2>2. Of(chain, t)' = Of(ps, t) /\ Of(ps, t) = {i}
    BY <2>1, RunCollects
  <2>. QED  BY <1>1, <2>1, <2>2 DEF Of
<1>8. PICK t \in 1..Len(Targets) : t = goal
  BY <1>1
<1>9. i \in PocketOf(Targets[t].variable)'
  BY <1>1, <1>7, <1>8 DEF PocketOf
<1>10. Sized(Targets[t])' /\ (Targets'[t].size = 0 \/ chain'[i].size = Targets'[t].size)
  BY <1>1, <1>6, <1>8 DEF Sized
<1>11. t \in 1..Len(Targets')
  BY <1>1
<1>. QED  BY <1>9, <1>10, <1>11 DEF BrokenAfterFull

LEMMA BagHolds ==
  ASSUME CollectingAssumption, Inv, Bag
  PROVE  Inv'
<1>1. CASE \E ps, i : Runs(ps, i)
  <2>1. PICK ps, i : Runs(ps, i)
    BY <1>1
  <2>2. Collects(chain, reached)'
    BY <2>1, RunCollects
  <2>. QED  BY <2>1, <2>2, RunTyped, RunSees, RunGives, RunBreaks DEF Inv
<1>2. CASE Crashes
  <2>1. /\ goal \in 1..Len(Targets) /\ Last(values) \in Found /\ Types
        /\ UNCHANGED <<setup, values, handed, chain, unset, goal, views>> /\ ended' = "crash"
        /\ reached' = [reached EXCEPT ![goal] = Append(@, Last(values))]
    BY <1>2, BagRuns DEF Crashes, Inv
  <2>2. /\ Targets' = Targets /\ reached' \in [1..Len(Targets) -> Seq(Found)]
        /\ \A u \in 1..Len(Targets), s \in Seq(Found) :
             Begins(s, reached[u]) => Begins(s, reached'[u])
    BY <2>1, ReachedGrows
  <2>3. Chained(chain)'
    BY <2>1 DEF Types, Chained
  <2>4. Types'
    BY <2>1, <2>2, <2>3 DEF Types
  <2>5. \A t \in 1..goal' - 1 : Sees(chain, t)'
    <3>1. \A t \in 1..goal - 1 : Sees(chain, t)
      BY DEF Inv
    <3>. QED  BY <2>1, <2>2, <3>1 DEF Sees, Of, Sized
  <2>6. ASSUME NEW g \in 1..Len(handed), NEW t \in 1..Len(Targets)
        PROVE  GivenOf(handed[g][t], t)' /\ Within(handed[g][t], chain, t)'
    <3>1. GivenOf(handed[g][t], t) /\ Within(handed[g][t], chain, t) /\ handed[g][t].list \in Seq(Found)
      BY <2>1, <2>6, GivenTyped DEF Inv
    <3>2. Begins(handed[g][t].list, reached'[t])
      BY <2>2, <2>6, <3>1 DEF GivenOf
    <3>. QED  BY <2>1, <2>2, <3>1, <3>2 DEF GivenOf, Within, Of, Sized, Begins
  <2>7. \A g \in 1..Len(handed), t \in 1..Len(Targets) :
          /\ t < goal => Len(handed[g][t].list) < Len(views[t].list)
          /\ \A h \in 1..Len(handed) : h < g => Len(handed[h][t].list) < Len(handed[g][t].list)
    BY DEF Inv
  <2>8. BrokenAfterFull'
    BY <2>1 DEF BrokenAfterFull
  <2>. QED  BY <2>1, <2>2, <2>4, <2>5, <2>6, <2>7, <2>8 DEF Inv
<1>. QED  BY <1>1, <1>2, BagRuns

\* The rest is given what the targets see: one more than what was given before.
LEMMA RestHolds ==
  ASSUME CollectingAssumption, Inv, NEW r \in {"true", "false", "stop"}, Rest(r)
  PROVE  Inv'
<1>1. /\ ended = "running" /\ goal = Len(Targets) + 1 /\ handed' = Append(handed, views) /\ goal' = 0
      /\ UNCHANGED <<setup, values, reached, chain, unset, views>> /\ Types
      /\ Collects(chain, reached) /\ ended' \in {"running", "over"}
  BY DEF Rest, Failed, Inv
<1>2. /\ Len(Targets) \in Nat /\ Targets' = Targets /\ goal # 0 /\ Chained(chain)
  BY <1>1, TargetsTyped DEF Types, Targets
<1>3. /\ handed \in Seq([1..Len(Targets) -> View]) /\ views \in Seq(View)
      /\ Len(views) = Len(Targets) /\ Len(handed) \in Nat
  BY <1>1, <1>2 DEF Types
<1>4. views \in [1..Len(Targets) -> View]
  BY <1>3
<1>5. /\ handed' \in Seq([1..Len(Targets) -> View]) /\ Len(handed') = Len(handed) + 1
      /\ handed'[Len(handed) + 1] = views /\ \A g \in 1..Len(handed) : handed'[g] = handed[g]
  BY <1>1, <1>3, <1>4, AppendProperties
<1>6. Types'
  <2>1. Chained(chain)' /\ goal' \in 0..Len(Targets) + 1
    BY <1>1, <1>2 DEF Chained
  <2>. QED  BY <1>1, <1>2, <1>5, <2>1 DEF Types
<1>7. Collects(chain, reached)'
  BY <1>1, <1>2 DEF Collects, Of, Holds, Begins, FullAlready, Fits, Sized
<1>8. BrokenAfterFull'
  BY <1>1 DEF BrokenAfterFull
<1>9. 1..goal' - 1 = {}
  BY <1>1
<1>10. ASSUME NEW t \in 1..Len(Targets)
       PROVE  GivenOf(views[t], t) /\ Within(views[t], chain, t)
  <2>1. PICK i \in Of(chain, t) :
          /\ views[t].list = chain[i].list /\ views[t].size = chain[i].size
          /\ chain[i].list # <<>> /\ (Sized(Targets[t]) => chain[i].size = Targets[t].size)
    <3>1. t \in 1..goal - 1
      BY <1>1, <1>2, <1>10
    <3>2. Sees(chain, t)
      BY <3>1 DEF Inv
    <3>. QED  BY <3>2 DEF Sees
  <2>2. i \in 1..Len(chain) /\ chain[i].size = Len(chain[i].list) /\ chain[i] \in Pocket
    BY <1>1, <1>2, <2>1, ChainTyped DEF Of, Chained
  <2>3. Begins(chain[i].list, reached[t])
    BY <1>1, <1>10, <2>1 DEF Collects, Holds
  <2>4. Len(chain[i].list) \in Nat
    BY <2>2 DEF Pocket
  <2>. QED  BY <2>1, <2>2, <2>3, <2>4 DEF GivenOf, Within
<1>11. ASSUME NEW g \in 1..Len(handed'), NEW t \in 1..Len(Targets)
       PROVE  GivenOf(handed'[g][t], t) /\ Within(handed'[g][t], chain, t)
  <2>1. CASE g \in 1..Len(handed)
    BY <1>5, <1>11, <2>1 DEF Inv
  <2>2. CASE g = Len(handed) + 1
    BY <1>5, <1>10, <1>11, <2>2
  <2>. QED  BY <1>3, <1>5, <2>1, <2>2
<1>12. ASSUME NEW g \in 1..Len(handed'), NEW t \in 1..Len(Targets), NEW h \in 1..Len(handed'), h < g
       PROVE  Len(handed'[h][t].list) < Len(handed'[g][t].list)
  <2>1. h \in 1..Len(handed) /\ handed'[h] = handed[h]
    BY <1>3, <1>5, <1>12
  <2>2. CASE g \in 1..Len(handed)
    BY <1>5, <1>12, <2>1, <2>2 DEF Inv
  <2>3. CASE g = Len(handed) + 1
    <3>1. t < goal
      BY <1>1, <1>2, <1>12
    <3>. QED  BY <1>5, <1>12, <2>1, <2>3, <3>1 DEF Inv
  <2>. QED  BY <1>3, <1>5, <2>2, <2>3
<1>13. ASSUME NEW g \in 1..Len(handed'), NEW t \in 1..Len(Targets)
       PROVE  GivenOf(handed[g][t], t)' /\ Within(handed[g][t], chain, t)' /\ ~(t < goal')
  BY <1>1, <1>2, <1>11, <1>13 DEF GivenOf, Within, Of, Begins, Sized
<1>. QED  BY <1>2, <1>6, <1>7, <1>8, <1>9, <1>12, <1>13 DEF Inv

LEMMA QuietHolds == ASSUME Inv, UNCHANGED bagVars  PROVE Inv'
<1>1. UNCHANGED <<setup, values, reached, chain, unset, goal, views, handed, ended>>
  BY DEF bagVars
<1>2. Targets' = Targets
  BY <1>1 DEF Targets
<1>3. Types'
  BY <1>1, <1>2 DEF Inv, Types, Chained
<1>4. Collects(chain, reached) => Collects(chain, reached)'
  BY <1>1, <1>2 DEF Collects, Of, Holds, Begins, FullAlready, Fits, Sized
<1>5. \A t \in 1..goal - 1 : Sees(chain, t)'
  BY <1>1, <1>2 DEF Inv, Sees, Of, Sized
<1>6. ASSUME NEW g \in 1..Len(handed), NEW t \in 1..Len(Targets)
      PROVE  /\ GivenOf(handed[g][t], t)' /\ Within(handed[g][t], chain, t)'
             /\ t < goal => Len(handed[g][t].list) < Len(views[t].list)
             /\ \A h \in 1..Len(handed) : h < g => Len(handed[h][t].list) < Len(handed[g][t].list)
  <2>1. GivenOf(handed[g][t], t) /\ Within(handed[g][t], chain, t)
    BY <1>6 DEF Inv
  <2>. QED  BY <1>1, <1>2, <1>6, <2>1 DEF GivenOf, Within, Of, Sized, Begins, Inv
<1>7. BrokenAfterFull'
  BY <1>1, <1>2 DEF Inv, BrokenAfterFull, PocketOf, Sized
<1>. QED  BY <1>1, <1>2, <1>3, <1>4, <1>5, <1>6, <1>7 DEF Inv

-----------------------------------------------------------------------------
(* The theorems *)

\* What the bags collect, see and give, at every point of a query.
THEOREM BagsHold == ASSUME CollectingAssumption  PROVE BagInit /\ [][BagNext]_bagVars => []Inv
<1>1. BagInit => Inv
  BY InitHolds
<1>2. Inv /\ [BagNext]_bagVars => Inv'
  <2>. SUFFICES ASSUME Inv, [BagNext]_bagVars  PROVE Inv'
    OBVIOUS
  <2>1. ASSUME NEW v \in Found, Generate(v)  PROVE Inv'
    BY <2>1, GenerateHolds
  <2>2. CASE NoMoreValues
    BY <2>2, NoMoreValuesHolds
  <2>3. CASE Bag
    BY <2>3, BagHolds
  <2>4. ASSUME NEW r \in {"true", "false", "stop"}, Rest(r)  PROVE Inv'
    BY <2>4, RestHolds
  <2>5. CASE UNCHANGED bagVars
    BY <2>5, QuietHolds
  <2>. QED  BY <2>1, <2>2, <2>3, <2>4, <2>5 DEF BagNext
<1>. QED  BY <1>1, <1>2, PTL

\* A bag is given with the values that reached it, first to last and the
\* current one included; one with a size has that many and is given once
\* (the lengths of what is given of it grow).
THEOREM BagsCollect ==
  ASSUME CollectingAssumption  PROVE BagInit /\ [][BagNext]_bagVars => []BagsAreCollected
<1>1. Inv => BagsAreCollected
  <2>. SUFFICES ASSUME Inv, NEW g \in 1..Len(handed), NEW t \in 1..Len(Targets)
                PROVE  LET view == handed[g][t] IN
                       /\ view.size = Len(view.list) /\ view.list # <<>>
                       /\ IsPrefix(view.list, reached[t])
                       /\ Sized(Targets[t]) => view.size = Targets[t].size
                       /\ \A h \in 1..Len(handed) : h < g => Len(handed[h][t].list) < Len(view.list)
    BY DEF BagsAreCollected
  <2>1. /\ GivenOf(handed[g][t], t)
        /\ \A h \in 1..Len(handed) : h < g => Len(handed[h][t].list) < Len(handed[g][t].list)
    BY DEF Inv
  <2>2. handed[g][t].list \in Seq(Found) /\ reached[t] \in Seq(Found)
    BY GivenTyped DEF Inv, Types
  <2>3. IsPrefix(handed[g][t].list, reached[t])
    BY <2>1, <2>2, BeginsIsPrefix DEF GivenOf
  <2>. QED  BY <2>1, <2>3 DEF GivenOf
<1>. QED  BY <1>1, BagsHold, PTL

\* A generator is broken off by a bag only after the bag was full, unless what
\* an unset size of its pocket held was taken for its size.
THEOREM BagsBreak ==
  ASSUME CollectingAssumption  PROVE BagInit /\ [][BagNext]_bagVars => []BrokenAfterFull
<1>1. Inv => BrokenAfterFull
  BY DEF Inv
<1>. QED  BY <1>1, BagsHold, PTL

\* A container has one pocket, whose size is that of its list.
THEOREM BagTypes ==
  ASSUME CollectingAssumption  PROVE BagInit /\ [][BagNext]_bagVars => []BagTypeOK
<1>1. Inv => BagTypeOK
  <2>. SUFFICES ASSUME Inv  PROVE BagTypeOK
    OBVIOUS
  <2>1. Types /\ Chained(chain) /\ Len(chain) \in Nat /\ \A i \in 1..Len(chain) : chain[i] \in Pocket
    BY ChainTyped DEF Inv
  <2>2. Len(chain) <= Cardinality(Variables)
    <3>. SUFFICES ASSUME Cardinality(Variables) < Len(chain)  PROVE FALSE
      <4>1. Cardinality(Variables) \in Nat
        BY FS_CardinalityType DEF CollectingAssumption
      <4>. QED  BY <2>1, <4>1
    <3>. DEFINE S == 1..Len(chain)
                f == [i \in S |-> chain[i].variable]
    <3>1. IsFiniteSet(S) /\ Cardinality(S) = Len(chain)
      BY <2>1, FS_Interval
    <3>2. f \in [S -> Variables]
      BY <2>1 DEF Pocket
    <3>3. \E x, y \in S : x # y /\ f[x] = f[y]
      <4>. HIDE DEF f, S
      <4>. QED  BY <3>1, <3>2, FS_PigeonHole DEF CollectingAssumption
    <3>. QED  BY <2>1, <3>3 DEF Chained
  <2>. QED  BY <2>1, <2>2 DEF BagTypeOK, Chained, Types
<1>. QED  BY <1>1, BagsHold, PTL
===============================================================================
