--------------------------- MODULE BindingProofs ---------------------------
(***************************************************************************)
(* Theorems about the bindings of the search engine: no instance of any    *)
(* copy of a scope ever runs out of values, a link that the query's scope  *)
(* hands out is one variable's in all its copies, and backtracking leaves  *)
(* the bindings of every activation that waits as they were.               *)
(***************************************************************************)
EXTENDS SearchProofs

-----------------------------------------------------------------------------
(* Scopes whose instances have values left *)

Full(s) == \A x \in Names : s.cell[x].link # 0 => s.cell[x].dom # {}
FullScope == {s \in Scope : Full(s)}

\* The inductive invariant: every live scope, reachable or not, is full.
FullInv == TypeInv /\ scopes \in Seq(FullScope)

\* The scope at a live address is full.
LEMMA FullAt ==
  ASSUME FullInv, NEW a \in 1 .. Len(scopes)
  PROVE  /\ scopes[a] \in FullScope /\ scopes[a] \in LiveScope(Len(scopes), nlink)
         /\ \A x \in Names : /\ scopes[a].cell[x] \in Cell
                             /\ scopes[a].cell[x].link # 0 => scopes[a].cell[x].dom # {}
<1>1. scopes[a] \in FullScope
  BY ElementOfSeq DEF FullInv
<1>2. scopes[a] \in LiveScope(Len(scopes), nlink)
  BY ScopeAt DEF FullInv
<1>. QED  BY <1>1, <1>2 DEF FullScope, Full, Scope

\* So are the global scope and the current one.
LEMMA HereFull ==
  ASSUME FullInv
  PROVE  /\ Here \in FullScope /\ scopes[1] \in FullScope
         /\ Len(scopes) \in Nat \ {0} /\ 1 \in 1 .. Len(scopes)
         /\ scope \in 1 .. Len(scopes) /\ scopes \in Seq(FullScope)
<1>1. Len(scopes) \in Nat /\ scope \in 1 .. Len(scopes)
  BY LenProperties DEF FullInv, TypeInv
<1>2. Len(scopes) \in Nat \ {0} /\ 1 \in 1 .. Len(scopes)
  BY <1>1
<1>. QED  BY <1>1, <1>2, FullAt DEF Here, FullInv

\* A full scope whose cell is replaced by one that has values is full.
LEMMA CellFull ==
  ASSUME NEW s \in FullScope, NEW x \in Names, NEW c \in Cell, c.dom # {}
  PROVE  [s EXCEPT !.cell[x] = c] \in FullScope
<1>. DEFINE cells == [s.cell EXCEPT ![x] = c]
<1>1. s \in Scope /\ s.cell \in [Names -> Cell]
  BY DEF FullScope, Scope
<1>2. /\ cells \in [Names -> Cell]
      /\ \A y \in Names : cells[y].link # 0 => cells[y].dom # {}
  BY <1>1 DEF FullScope, Full
<1>. HIDE DEF cells
<1>3. [s EXCEPT !.cell = cells] \in FullScope
  BY <1>1, <1>2 DEF FullScope, Full, Scope
<1>. QED  BY <1>3 DEF cells

\* Narrowing a cell to a set that is not empty leaves a full scope full.
LEMMA NarrowFull ==
  ASSUME NEW s \in FullScope, NEW x \in Names,
         NEW d \in SUBSET Vals, d # {}, NEW e \in BOOLEAN
  PROVE  /\ [s EXCEPT !.cell[x].dom = d] \in FullScope
         /\ [s EXCEPT !.cell[x] = Holding(@, d, e)] \in FullScope
<1>1. s.cell[x] \in Cell
  BY DEF FullScope, Scope
<1>2. /\ [s.cell[x] EXCEPT !.dom = d] \in Cell /\ [s.cell[x] EXCEPT !.dom = d].dom # {}
      /\ Holding(s.cell[x], d, e) \in Cell /\ Holding(s.cell[x], d, e).dom # {}
  BY <1>1 DEF Cell, Holding
<1>. QED  BY <1>2, CellFull

\* laure_safe_update with values: every scope stays full.
LEMMA AssignFull ==
  ASSUME FullInv, NEW a \in 1 .. Len(scopes), NEW x \in Names,
         NEW d \in SUBSET Vals, d # {}, NEW e \in BOOLEAN
  PROVE  /\ Assign(a, x, d, e) \in Seq(FullScope)
         /\ Len(Assign(a, x, d, e)) = Len(scopes)
<1>1. scopes \in Seq(FullScope) /\ scopes[a] \in FullScope
  BY FullAt DEF FullInv
<1>2. [scopes[a] EXCEPT !.cell[x] = Holding(@, d, e)] \in FullScope
  BY <1>1, NarrowFull
<1>3. LET t == [scopes[a] EXCEPT !.cell[x] = Holding(@, d, e)]
      IN  /\ [scopes EXCEPT ![a] = t] \in Seq(FullScope)
          /\ Len([scopes EXCEPT ![a] = t]) = Len(scopes)
  BY <1>1, <1>2, UpdateTyped
<1>. QED  BY <1>3 DEF Assign

\* A name that is found has values.
LEMMA FoundFull ==
  ASSUME FullInv, NEW x \in Names, Find(x) # 0
  PROVE  /\ Find(x) \in 1 .. Len(scopes)
         /\ scopes[Find(x)].cell[x] \in Cell
         /\ scopes[Find(x)].cell[x].link # 0
         /\ scopes[Find(x)].cell[x].dom # {}
<1>1. Find(x) \in 1 .. Len(scopes) /\ scopes[Find(x)].cell[x].link # 0
  BY HereFull DEF Find, Here
<1>. QED  BY <1>1, FullAt

-----------------------------------------------------------------------------
(* The initial state, and the steps that leave scopes alone or copy one *)

\* The variables declared before the query have the values of their type.
LEMMA InitFull ==
  ASSUME Init
  PROVE  FullInv
<1>1. TypeInv
  BY InitType
<1>2. Len(scopes) = 1 /\ scopes[1] \in Scope
  <2>1. Len(scopes) = 1
    BY DEF Init
  <2>. QED  BY <1>1, <2>1, ScopeAt
<1>3. Full(scopes[1])
  BY ValuesAssumption DEF Init, Full, NoCell
<1>4. scopes = <<scopes[1]>>
  BY DEF Init
<1>5. scopes[1] \in FullScope
  BY <1>2, <1>3 DEF FullScope
<1>6. <<scopes[1]>> \in Seq(FullScope)
  BY <1>5
<1>. QED  BY <1>1, <1>4, <1>6 DEF FullInv

\* A new scope that is full.
LEMMA CopyFull ==
  ASSUME FullInv, NEW s \in FullScope, scopes' = Append(scopes, s)
  PROVE  scopes' \in Seq(FullScope)
BY AppendTyped DEF FullInv

\* A copy of the current scope, whatever its counter and its caller.
LEMMA HereCopies ==
  ASSUME FullInv
  PROVE  /\ \A i \in Nat : [Here EXCEPT !.repeat = i] \in FullScope
         /\ [Here EXCEPT !.next = 0, !.repeat = 0] \in FullScope
         /\ Here.repeat \in Nat
<1>1. Here \in FullScope
  BY HereFull
<1>. QED  BY <1>1 DEF FullScope, Full, Scope

-----------------------------------------------------------------------------
(* Expressions that respond at once *)

\* atom_translator: a set of values is stored when it is a part of what is left.
LEMMA EvalAssertFull ==
  ASSUME FullInv, EvalAssert
  PROVE  scopes' \in Seq(FullScope)
<1>. DEFINE g == CurrentGoal
            one == \E v \in Vals : g.dom = {v}
<1>1. g \in Goal /\ g.op = "assert"
  BY CurrentTyped DEF EvalAssert, FullInv
<1>2. g.x \in Names /\ g.dom \in SUBSET Vals /\ g.dom # {}
  BY <1>1 DEF Goal
<1>3. \/ scopes' = scopes
      \/ Find(g.x) # 0 /\ scopes' = Assign(Find(g.x), g.x, g.dom, one)
  BY DEF EvalAssert
<1>4. one \in BOOLEAN
  OBVIOUS
<1>. HIDE DEF g, one
<1>5. Find(g.x) # 0 => Assign(Find(g.x), g.x, g.dom, one) \in Seq(FullScope)
  <2>1. Find(g.x) # 0 => Find(g.x) \in 1 .. Len(scopes)
    BY <1>2, FoundFull
  <2>. QED  BY <1>2, <1>4, <2>1, AssignFull
<1>. QED  BY <1>3, <1>5 DEF FullInv

\* `x = y`: a copy of a cell that has values, or the values that both have.
LEMMA EvalEqFull ==
  ASSUME FullInv, EvalEq
  PROVE  scopes' \in Seq(FullScope)
<1>. DEFINE x == CurrentGoal.x
            y == CurrentGoal.args[1]
            a == Find(x)
            b == Find(y)
            cx == scopes[a].cell[x]
            cy == scopes[b].cell[y]
            both == cx.dom \cap cy.dom
            LinkNew(n, c) == [scopes EXCEPT ![scope].cell[n] = [c EXCEPT !.link = nlink + 1]]
<1>1. x \in Names /\ y \in Names
  <2>1. CurrentGoal \in Goal /\ CurrentGoal.op = "eq"
    BY CurrentTyped DEF EvalEq, FullInv
  <2>2. CurrentGoal.args \in Seq(Names) /\ Len(CurrentGoal.args) = 1
    BY <2>1 DEF Goal
  <2>3. CurrentGoal.x \in Names
    BY <2>1 DEF Goal
  <2>. HIDE DEF CurrentGoal
  <2>. QED  BY <2>2, <2>3, ElementOfSeq
<1>2. \/ scopes' = scopes
      \/ a = 0 /\ b # 0 /\ scopes' = LinkNew(x, cy)
      \/ a # 0 /\ b = 0 /\ scopes' = LinkNew(y, cx)
      \/ /\ a # 0 /\ b # 0 /\ both # {}
         /\ scopes' = [Assign(a, x, both, TRUE) EXCEPT
                         ![b].cell[y] = Holding(@, both, TRUE)]
  BY DEF EvalEq
<1>3. /\ a # 0 => a \in 1 .. Len(scopes) /\ cx \in Cell /\ cx.dom # {}
      /\ b # 0 => b \in 1 .. Len(scopes) /\ cy \in Cell /\ cy.dom # {}
  BY <1>1, FoundFull
<1>. HIDE DEF x, y, a, b, cx, cy
<1>4. ASSUME NEW n \in Names, NEW c \in Cell, c.dom # {}
      PROVE  LinkNew(n, c) \in Seq(FullScope)
  <2>. DEFINE d == [c EXCEPT !.link = nlink + 1]
  <2>1. nlink + 1 \in Nat
    BY DEF FullInv, TypeInv
  <2>2. d \in Cell /\ d.dom # {}
    BY <1>4, <2>1 DEF Cell
  <2>. HIDE DEF d
  <2>3. [scopes[scope] EXCEPT !.cell[n] = d] \in FullScope /\ scope \in 1 .. Len(scopes)
    BY <2>2, HereFull, CellFull DEF Here
  <2>4. LET t == [scopes[scope] EXCEPT !.cell[n] = d]
        IN  [scopes EXCEPT ![scope] = t] \in Seq(FullScope)
    BY <2>3, HereFull, UpdateTyped
  <2>. QED  BY <2>4 DEF d
<1>5. CASE scopes' = scopes
  BY <1>5 DEF FullInv
<1>6. CASE b # 0 /\ scopes' = LinkNew(x, cy)
  BY <1>1, <1>3, <1>4, <1>6
<1>7. CASE a # 0 /\ scopes' = LinkNew(y, cx)
  BY <1>1, <1>3, <1>4, <1>7
<1>8. CASE /\ a # 0 /\ b # 0 /\ both # {}
           /\ scopes' = [Assign(a, x, both, TRUE) EXCEPT
                           ![b].cell[y] = Holding(@, both, TRUE)]
  <2>1. both \in SUBSET Vals
    BY <1>3, <1>8 DEF Cell
  <2>. HIDE DEF both
  <2>. DEFINE u == Assign(a, x, both, TRUE)
  <2>2. u \in Seq(FullScope) /\ Len(u) = Len(scopes)
    BY <1>1, <1>3, <1>8, <2>1, AssignFull
  <2>. HIDE DEF u
  <2>3. u[b] \in FullScope
    BY <1>3, <1>8, <2>2, ElementOfSeq
  <2>4. [u[b] EXCEPT !.cell[y] = Holding(@, both, TRUE)] \in FullScope
    BY <1>1, <1>8, <2>1, <2>3, NarrowFull
  <2>5. LET t == [u[b] EXCEPT !.cell[y] = Holding(@, both, TRUE)]
        IN  [u EXCEPT ![b] = t] \in Seq(FullScope)
    BY <1>3, <1>8, <2>2, <2>4, UpdateTyped
  <2>. QED  BY <1>8, <2>5 DEF u
<1>. QED  BY <1>2, <1>5, <1>6, <1>7, <1>8

-----------------------------------------------------------------------------
(* The end of a list *)

\* laure_safe_update: a cell whose values and those of the cells it is linked
\* to have nothing in common keeps its own.
LEMMA UpdatedFull ==
  ASSUME FullInv, NEW s \in FullScope
  PROVE  Updated(s) \in FullScope
<1>. DEFINE Linked(n) == {m \in Names :
                            Here.cell[m].link = s.cell[n].link /\ s.cell[n].link # 0}
            Met(n) == {v \in s.cell[n].dom : \A m \in Linked(n) : v \in Here.cell[m].dom}
            One(n) == s.cell[n].single \/ \E m \in Linked(n) : Here.cell[m].single
            cells == [n \in Names |->
                        IF Met(n) = {} THEN s.cell[n]
                        ELSE Holding(s.cell[n], Met(n), One(n))]
<1>1. Updated(s) = [s EXCEPT !.cell = cells]
  BY DEF Updated
<1>2. s \in Scope /\ s.cell \in [Names -> Cell]
  BY DEF FullScope, Scope
<1>3. ASSUME NEW n \in Names
      PROVE  cells[n] \in Cell /\ (cells[n].link # 0 => cells[n].dom # {})
  <2>1. Met(n) \in SUBSET Vals /\ One(n) \in BOOLEAN /\ s.cell[n] \in Cell
        /\ (s.cell[n].link # 0 => s.cell[n].dom # {})
    BY <1>2 DEF Cell, FullScope, Full
  <2>. HIDE DEF Met, One
  <2>. QED  BY <2>1 DEF Cell, Holding
<1>. HIDE DEF cells
<1>4. cells \in [Names -> Cell]
  BY <1>3 DEF cells
<1>. QED  BY <1>1, <1>2, <1>3, <1>4 DEF FullScope, Full, Scope

\* The continuation runs in the caller's scope, updated.
LEMMA ContinueFull ==
  ASSUME FullInv, Continue
  PROVE  scopes' \in Seq(FullScope)
<1>1. Here \in FullScope /\ scope \in 1 .. Len(scopes) /\ scopes \in Seq(FullScope)
  BY HereFull
<1>2. CASE Here.repeat > 0 /\ scopes' = [scopes EXCEPT ![scope].repeat = @ - 1]
  <2>1. Here.repeat - 1 \in Nat
    BY <1>2, HereCopies
  <2>2. [Here EXCEPT !.repeat = Here.repeat - 1] \in FullScope
    BY <2>1, HereCopies
  <2>3. LET t == [Here EXCEPT !.repeat = Here.repeat - 1]
        IN  [scopes EXCEPT ![scope] = t] \in Seq(FullScope)
    BY <1>1, <2>2, UpdateTyped
  <2>. QED  BY <1>2, <2>3 DEF Here
<1>3. CASE Here.next # 0 /\ scopes' = Append(scopes, Updated(scopes[Here.next]))
  <2>1. Here.next \in 1 .. Len(scopes)
    <3>1. Here.next \in 0 .. Len(scopes)
      BY HereTyped DEF FullInv, LiveScope
    <3>. QED  BY <1>3, <3>1
  <2>2. Updated(scopes[Here.next]) \in FullScope
    BY <2>1, FullAt, UpdatedFull
  <2>. QED  BY <1>3, <2>2, CopyFull
<1>4. CASE scopes' = scopes
  BY <1>1, <1>4
<1>. QED  BY <1>2, <1>3, <1>4 DEF Continue

-----------------------------------------------------------------------------
(* Calls: what the arguments of a call may be *)

\* The cells of one predicate's parameters: the arguments that a call has
\* accepted have values in the hint.
Meets(s, args, p) ==
  \A j \in 1 .. Len(args) :
    Seen(s, args[j]).link # 0 => Seen(s, args[j]).dom \cap p.hint # {}

\* A cell that is seen, here or in the global scope, has values.
LEMMA SeenFull ==
  ASSUME FullInv, NEW s \in FullScope, NEW x \in Names
  PROVE  /\ Seen(s, x) \in Cell
         /\ Seen(s, x).link # 0 => Seen(s, x).dom # {}
<1>1. scopes[1] \in FullScope
  BY HereFull
<1>. QED  BY <1>1 DEF Seen, FullScope, Full, Scope

\* The cell made of an argument has values when the argument is accepted, or
\* when it is passed to a predicate in C as it is.
LEMMA ArgCellFull ==
  ASSUME FullInv, NEW s \in FullScope, s \in LiveScope(Len(scopes), nlink),
         NEW args \in Seq(Names), NEW j \in 1 .. Len(args),
         NEW p, p.hint \in SUBSET Vals, p.hint # {}, NEW strict \in BOOLEAN,
         strict => Meets(s, args, p)
  PROVE  /\ ArgCell(s, args, j, p, strict) \in Cell
         /\ ArgCell(s, args, j, p, strict).dom # {}
<1>. DEFINE c == Seen(s, args[j])
<1>1. args[j] \in Names
  BY ElementOfSeq
<1>2. ArgCell(s, args, j, p, strict) \in Cell
  BY ArgCellTyped DEF FullInv
<1>3. c \in Cell /\ (c.link # 0 => c.dom # {})
  BY <1>1, SeenFull
<1>4. (strict /\ c.link # 0) => c.dom \cap p.hint # {}
  BY DEF Meets
<1>. HIDE DEF c
<1>5. CASE c.link # 0
  <2>1. ArgCell(s, args, j, p, strict)
          = [c EXCEPT !.dom = IF strict THEN @ \cap p.hint ELSE @]
    BY <1>5 DEF ArgCell, c
  <2>. QED  BY <1>2, <1>3, <1>4, <1>5, <2>1 DEF Cell
<1>6. CASE c.link = 0
  <2>1. ArgCell(s, args, j, p, strict).dom = p.hint
    BY <1>6 DEF ArgCell, c
  <2>. QED  BY <1>2, <2>1
<1>. QED  BY <1>5, <1>6

\* The scope of the call with its arguments.
LEMMA WithArgsFull ==
  ASSUME FullInv, NEW s \in FullScope, s \in LiveScope(Len(scopes), nlink),
         NEW args \in Seq(Names),
         NEW p, p.hint \in SUBSET Vals, p.hint # {}, NEW strict \in BOOLEAN,
         strict => Meets(s, args, p)
  PROVE  WithArgs(s, args, p, strict) \in FullScope
<1>. DEFINE At(n) == \E j \in 1 .. Len(args) :
                       args[j] = n /\ (s.cell[n].link # 0 \/ Seen(s, n).link = 0)
            J(n) == CHOOSE j \in 1 .. Len(args) : args[j] = n
            cells == [n \in Names |-> IF At(n) THEN ArgCell(s, args, J(n), p, strict)
                                      ELSE s.cell[n]]
<1>1. WithArgs(s, args, p, strict) = [s EXCEPT !.cell = cells]
  BY DEF WithArgs
<1>2. s \in Scope /\ s.cell \in [Names -> Cell]
  BY DEF FullScope, Scope
<1>3. ASSUME NEW n \in Names
      PROVE  cells[n] \in Cell /\ (cells[n].link # 0 => cells[n].dom # {})
  <2>1. CASE At(n)
    <3>1. J(n) \in 1 .. Len(args)
      BY <2>1
    <3>. HIDE DEF J
    <3>2. /\ ArgCell(s, args, J(n), p, strict) \in Cell
          /\ ArgCell(s, args, J(n), p, strict).dom # {}
      BY <3>1, ArgCellFull
    <3>. QED  BY <2>1, <3>2
  <2>2. CASE ~At(n)
    BY <1>2, <2>2 DEF FullScope, Full
  <2>. QED  BY <2>1, <2>2
<1>. HIDE DEF cells
<1>4. cells \in [Names -> Cell]
  BY <1>3 DEF cells
<1>. QED  BY <1>1, <1>2, <1>3, <1>4 DEF FullScope, Full, Scope

\* The global scope, where the arguments found there are narrowed.
LEMMA GlobalArgsFull ==
  ASSUME FullInv, NEW s \in FullScope, NEW args \in Seq(Names),
         NEW p, p.hint \in SUBSET Vals, Meets(s, args, p)
  PROVE  GlobalArgs(s, args, p, TRUE) \in FullScope
<1>. DEFINE g == scopes[1]
            Narrowed(n) == /\ TRUE /\ s.cell[n].link = 0 /\ g.cell[n].link # 0
                           /\ \E j \in 1 .. Len(args) : args[j] = n
            cells == [n \in Names |->
                        IF Narrowed(n) THEN [g.cell[n] EXCEPT !.dom = @ \cap p.hint]
                        ELSE g.cell[n]]
<1>1. GlobalArgs(s, args, p, TRUE) = [g EXCEPT !.cell = cells]
  BY DEF GlobalArgs
<1>2. g \in FullScope /\ g \in Scope /\ g.cell \in [Names -> Cell]
  BY HereFull DEF FullScope, Scope
<1>3. ASSUME NEW n \in Names
      PROVE  cells[n] \in Cell /\ (cells[n].link # 0 => cells[n].dom # {})
  <2>1. g.cell[n] \in Cell /\ (g.cell[n].link # 0 => g.cell[n].dom # {})
    BY <1>2 DEF FullScope, Full
  <2>2. CASE Narrowed(n)
    <3>1. g.cell[n] = Seen(s, n) /\ g.cell[n].link # 0
      BY <2>2 DEF Seen
    <3>2. g.cell[n].dom \cap p.hint # {}
      BY <2>2, <3>1 DEF Meets
    <3>3. cells[n] = [g.cell[n] EXCEPT !.dom = @ \cap p.hint]
      BY <2>2
    <3>. QED  BY <2>1, <3>2, <3>3 DEF Cell
  <2>3. CASE ~Narrowed(n)
    BY <2>1, <2>3
  <2>. QED  BY <2>2, <2>3
<1>. HIDE DEF cells, g
<1>4. cells \in [Names -> Cell]
  BY <1>3 DEF cells
<1>. QED  BY <1>1, <1>2, <1>3, <1>4 DEF FullScope, Full, Scope

\* The scope of the body, one cell for each parameter.
LEMMA BodyScopeFull ==
  ASSUME FullInv, NEW s \in FullScope, s \in LiveScope(Len(scopes), nlink),
         NEW args \in Seq(Names), NEW params \in Seq(Names), Len(params) = Len(args),
         NEW p, p.hint \in SUBSET Vals, p.hint # {}, Meets(s, args, p),
         NEW up \in Nat
  PROVE  BodyScope(s, args, params, p, up) \in FullScope
<1>. DEFINE J(n) == CHOOSE j \in 1 .. Len(params) : params[j] = n
            At(n) == \E j \in 1 .. Len(params) : params[j] = n
            cells == [n \in Names |-> IF At(n) THEN ArgCell(s, args, J(n), p, TRUE)
                                      ELSE NoCell]
<1>1. BodyScope(s, args, params, p, up)
        = [idx |-> s.idx + 1, repeat |-> 0, next |-> up, cell |-> cells]
  BY DEF BodyScope
<1>2. s.idx + 1 \in Nat
  BY DEF FullScope, Scope
<1>3. ASSUME NEW n \in Names
      PROVE  cells[n] \in Cell /\ (cells[n].link # 0 => cells[n].dom # {})
  <2>1. CASE At(n)
    <3>1. J(n) \in 1 .. Len(args)
      BY <2>1
    <3>. HIDE DEF J
    <3>2. /\ ArgCell(s, args, J(n), p, TRUE) \in Cell
          /\ ArgCell(s, args, J(n), p, TRUE).dom # {}
      BY <3>1, ArgCellFull
    <3>. QED  BY <2>1, <3>2
  <2>2. CASE ~At(n)
    BY <2>2 DEF NoCell, Cell
  <2>. QED  BY <2>1, <2>2
<1>. HIDE DEF cells
<1>4. cells \in [Names -> Cell]
  BY <1>3 DEF cells
<1>. QED  BY <1>1, <1>2, <1>3, <1>4 DEF FullScope, Full, Scope

-----------------------------------------------------------------------------
(* Calls: their steps *)

\* The call under way: its predicate, its arguments and the scope it starts in.
LEMMA CallFull ==
  ASSUME FullInv, stack # <<>>, Top.k = "call"
  PROVE  /\ Top \in LiveCall(Len(scopes), Len(qctxs))
         /\ Top.g.args \in Seq(Names) /\ Len(Top.g.args) \in Nat
         /\ PredOf(Top).hint \in SUBSET Vals /\ PredOf(Top).hint # {}
         /\ Top.at \in 1 .. Len(scopes) /\ scopes[Top.at] \in FullScope
         /\ scopes[Top.at] \in LiveScope(Len(scopes), nlink)
<1>1. TypeInv
  BY DEF FullInv
<1>2. /\ Top \in LiveCall(Len(scopes), Len(qctxs))
  BY <1>1, TopCall
<1>3. /\ Top.g \in Goal /\ Top.g.args \in Seq(Names) /\ PredOf(Top).hint \in SUBSET Vals
      /\ Top.at \in 1 .. Len(scopes) /\ PredOf(Top) = prog.pred[Top.g.pred]
  BY <1>1, <1>2, PredTyped
<1>4. PredOf(Top).hint # {}
  BY <1>1, <1>3 DEF TypeInv, Program, Goal
<1>5. Len(Top.g.args) \in Nat
  BY <1>3, LenProperties
<1>. QED  BY <1>2, <1>3, <1>4, <1>5, FullAt

\* The arguments that have been accepted meet the hint.
LEMMA AcceptedMeet ==
  ASSUME NEW f, f.g.args \in Seq(Names), NEW j \in 1 .. Len(f.g.args) + 1,
         Accepted(f, j)
  PROVE  Meets(scopes[f.at], SubSeq(f.g.args, 1, j - 1), PredOf(f))
<1>. DEFINE args == f.g.args
            n == j - 1
            done == SubSeq(args, 1, n)
<1>1. Len(args) \in Nat /\ n \in 0 .. Len(args)
  <2>1. Len(args) \in Nat
    BY LenProperties
  <2>. QED  BY <2>1
<1>. HIDE DEF args, n
<1>2. Len(done) = n /\ \A i \in 1 .. n : done[i] = args[i]
  BY <1>1, SubSeqProperties DEF args
<1>3. ASSUME NEW i \in 1 .. n
      PROVE  LET c == Seen(scopes[f.at], args[i])
             IN  c.link # 0 => c.dom \cap PredOf(f).hint # {}
  BY <1>3 DEF Accepted, Mismatch, n, args
<1>. HIDE DEF done
<1>4. Meets(scopes[f.at], done, PredOf(f))
  BY <1>2, <1>3 DEF Meets
<1>. QED  BY <1>4 DEF done, args, n

\* All of them, when the variation is entered.
LEMMA AllAcceptedMeet ==
  ASSUME NEW f, f.g.args \in Seq(Names), AllAccepted(f)
  PROVE  Meets(scopes[f.at], f.g.args, PredOf(f))
<1>1. Len(f.g.args) \in Nat
  BY LenProperties
<1>2. ASSUME NEW i \in 1 .. Len(f.g.args)
      PROVE  LET c == Seen(scopes[f.at], f.g.args[i])
             IN  c.link # 0 => c.dom \cap PredOf(f).hint # {}
  <2>1. i \in 1 .. Len(f.g.args) + 1 - 1
    BY <1>1
  <2>. QED  BY <2>1 DEF AllAccepted, Accepted, Mismatch
<1>. QED  BY <1>2 DEF Meets

\* The copy of the scope that a call starts from.
LEMMA EvalCallFull ==
  ASSUME FullInv, EvalCall
  PROVE  scopes' \in Seq(FullScope)
<1>1. CASE scopes' = scopes
  BY <1>1 DEF FullInv
<1>2. CASE scopes' = Append(scopes, Here)
  BY <1>2, HereFull, CopyFull
<1>. QED  BY <1>1, <1>2 DEF EvalCall

\* The arguments dealt with before the one that does not meet its hint.
LEMMA ArgMismatchFull ==
  ASSUME FullInv, ArgMismatch
  PROVE  scopes' \in Seq(FullScope)
<1>. DEFINE f == Top
            args == f.g.args
<1>1. stack # <<>> /\ Top.k = "call"
  BY DEF ArgMismatch, OnVariation, GoesOn
<1>2. PICK j \in 1 .. Len(args) :
        /\ Accepted(f, j)
        /\ scopes' = [scopes EXCEPT ![1] =
             GlobalArgs(scopes[f.at], SubSeq(args, 1, j - 1), PredOf(f), TRUE)]
  BY DEF ArgMismatch
<1>. DEFINE done == SubSeq(args, 1, j - 1)
<1>3. /\ args \in Seq(Names) /\ Len(args) \in Nat /\ PredOf(f).hint \in SUBSET Vals
      /\ scopes[f.at] \in FullScope
  BY <1>1, CallFull
<1>4. Meets(scopes[f.at], done, PredOf(f))
  <2>1. j \in 1 .. Len(args) + 1
    BY <1>3
  <2>. QED  BY <1>2, <1>3, <2>1, AcceptedMeet
<1>5. done \in Seq(Names)
  <2>. HIDE DEF f, args
  <2>1. \A i \in 1 .. j - 1 : args[i] \in Names
    BY <1>3, ElementOfSeq
  <2>. QED  BY <1>3, <2>1, SubSeqProperties
<1>. HIDE DEF f, args, done
<1>6. GlobalArgs(scopes[f.at], done, PredOf(f), TRUE) \in FullScope
  BY <1>3, <1>4, <1>5, GlobalArgsFull
<1>7. [scopes EXCEPT ![1] = GlobalArgs(scopes[f.at], done, PredOf(f), TRUE)]
        \in Seq(FullScope)
  BY <1>6, HereFull, UpdateTyped
<1>. QED  BY <1>2, <1>7 DEF done

\* The global scope, the caller's copy with its arguments and the body's scope.
LEMMA EnterInteriorFull ==
  ASSUME FullInv, EnterInterior
  PROVE  scopes' \in Seq(FullScope)
<1>. DEFINE f == Top
            v == VariationOf(f)
            p == PredOf(f)
            init == scopes[f.at]
            args == f.g.args
            prev == Len(scopes) + 1
            one == GlobalArgs(init, args, p, TRUE)
            two == WithArgs(init, args, p, TRUE)
            three == BodyScope(init, args, v.params, p, prev)
<1>1. /\ stack # <<>> /\ Top.k = "call" /\ Top.i <= Len(PredOf(Top).clauses)
      /\ AllAccepted(Top)
      /\ scopes' = [scopes EXCEPT ![1] = one] \o <<two, three>>
  BY DEF EnterInterior, OnVariation, GoesOn
<1>2. /\ f \in LiveCall(Len(scopes), Len(qctxs))
      /\ args \in Seq(Names) /\ p.hint \in SUBSET Vals /\ p.hint # {}
      /\ init \in FullScope /\ init \in LiveScope(Len(scopes), nlink)
  BY <1>1, CallFull
<1>3. v.params \in Seq(Names) /\ Len(v.params) = Len(args)
  BY <1>1, <1>2, VariationTyped DEF FullInv
<1>4. Meets(init, args, p)
  BY <1>1, <1>2, AllAcceptedMeet
<1>5. prev \in Nat
  BY HereFull
<1>. HIDE DEF f, v, p, init, args, prev
<1>6. one \in FullScope
  BY <1>2, <1>4, GlobalArgsFull
<1>7. two \in FullScope
  BY <1>2, <1>4, WithArgsFull
<1>8. three \in FullScope
  BY <1>2, <1>3, <1>4, <1>5, BodyScopeFull
<1>. HIDE DEF one, two, three
<1>9. [scopes EXCEPT ![1] = one] \in Seq(FullScope)
  BY <1>6, HereFull, UpdateTyped
<1>10. <<two, three>> \in Seq(FullScope)
  BY <1>7, <1>8, PairTyped
<1>. QED  BY <1>1, <1>9, <1>10, ConcatProperties

\* A variation in C narrows its first argument when something is left of it.
LEMMA CScopesFull ==
  ASSUME FullInv, NEW f, NEW prev \in FullScope, NEW x \in Names, x = f.g.args[1],
         Seen(prev, x).dom \cap VariationOf(f).dom # {}
  PROVE  CScopes(f, prev, "narrow") \in Seq(FullScope)
<1>. DEFINE u == Append(scopes, prev)
            a == IF prev.cell[x].link # 0 THEN Len(scopes) + 1 ELSE 1
            d == u[a].cell[x].dom \cap VariationOf(f).dom
            w == [u[a] EXCEPT !.cell[x].dom = d]
<1>1. /\ u \in Seq(FullScope) /\ Len(u) = Len(scopes) + 1
      /\ u[Len(scopes) + 1] = prev /\ u[1] = scopes[1]
  BY HereFull, AppendTyped
<1>2. a \in 1 .. Len(u)
  BY <1>1, HereFull
<1>3. u[a].cell[x] = Seen(prev, x)
  BY <1>1 DEF Seen
<1>. HIDE DEF u, a
<1>4. u[a] \in FullScope /\ u[a].cell[x] \in Cell
  BY <1>1, <1>2, ElementOfSeq DEF FullScope, Scope
<1>5. d \in SUBSET Vals /\ d # {}
  BY <1>3, <1>4 DEF Cell
<1>. HIDE DEF d
<1>6. w \in FullScope
  BY <1>4, <1>5, NarrowFull
<1>. HIDE DEF w
<1>7. [u EXCEPT ![a] = w] \in Seq(FullScope)
  BY <1>1, <1>2, <1>6, UpdateTyped
<1>8. CScopes(f, prev, "narrow") = [u EXCEPT ![a] = w]
  BY DEF CScopes, u, a, w, d
<1>. QED  BY <1>7, <1>8

\* A variation in C: the arguments as they are, the first one narrowed.
LEMMA CallCFull ==
  ASSUME FullInv, CallC
  PROVE  scopes' \in Seq(FullScope)
<1>. DEFINE f == Top
            p == PredOf(f)
            args == f.g.args
            x == args[1]
            prev == WithArgs(scopes[f.at], args, p, FALSE)
            outcome == COutcome(f, prev)
<1>1. /\ stack # <<>> /\ Top.k = "call" /\ Top.i <= Len(PredOf(Top).clauses)
      /\ scopes' = CScopes(f, prev, outcome)
  BY DEF CallC, OnVariation, GoesOn
<1>2. /\ f \in LiveCall(Len(scopes), Len(qctxs))
      /\ args \in Seq(Names) /\ p.hint \in SUBSET Vals /\ p.hint # {}
      /\ scopes[f.at] \in FullScope
      /\ scopes[f.at] \in LiveScope(Len(scopes), nlink)
  BY <1>1, CallFull
<1>3. prev \in FullScope
  <2>. HIDE DEF f, p, args
  <2>. QED  BY <1>2, WithArgsFull
<1>4. outcome \in {"narrow", "inst"} => x \in Names
  <2>. HIDE DEF prev
  <2>. QED  BY <1>1, <1>2, COutcomeTyped DEF FullInv
<1>5. CASE outcome = "narrow"
  <2>1. Seen(prev, x).dom \cap VariationOf(f).dom # {}
    <3>. HIDE DEF prev, f
    <3>1. VariationOf(f).c \notin {"succeed", "fail", "error", "stop"}
      BY <1>5 DEF COutcome
    <3>. QED  BY <1>5, <3>1 DEF COutcome, x, args
  <2>. HIDE DEF prev
  <2>2. CScopes(f, prev, "narrow") \in Seq(FullScope)
    BY <1>3, <1>4, <1>5, <2>1, CScopesFull
  <2>. QED  BY <1>1, <1>5, <2>2
<1>6. CASE outcome # "narrow"
  <2>. HIDE DEF prev
  <2>1. scopes' = Append(scopes, prev)
    BY <1>1, <1>6 DEF CScopes
  <2>. QED  BY <1>3, <2>1, CopyFull
<1>. QED  BY <1>5, <1>6

-----------------------------------------------------------------------------
(* Generators and copies of a scope *)

\* `x = y` with a choicepoint: both get the values that both have.
LEMMA EvalIntersectFull ==
  ASSUME FullInv, EvalIntersect
  PROVE  scopes' \in Seq(FullScope)
<1>. DEFINE x == CurrentGoal.x
            y == CurrentGoal.args[1]
            a == Find(x)
            b == Find(y)
            both == scopes[a].cell[x].dom \cap scopes[b].cell[y].dom
<1>1. x \in Names /\ y \in Names
  <2>1. CurrentGoal \in Goal /\ CurrentGoal.op = "eq"
    BY CurrentTyped DEF EvalIntersect, FullInv
  <2>2. CurrentGoal.args \in Seq(Names) /\ Len(CurrentGoal.args) = 1
    BY <2>1 DEF Goal
  <2>3. CurrentGoal.x \in Names
    BY <2>1 DEF Goal
  <2>. HIDE DEF CurrentGoal
  <2>. QED  BY <2>2, <2>3, ElementOfSeq
<1>2. /\ a # 0 /\ b # 0
      /\ \/ scopes' = scopes
         \/ /\ both # {}
            /\ scopes' = [Assign(a, x, both, FALSE) EXCEPT
                            ![b].cell[y] = Holding(@, both, FALSE)]
  BY DEF EvalIntersect
<1>3. a \in 1 .. Len(scopes) /\ b \in 1 .. Len(scopes) /\ both \in SUBSET Vals
  BY <1>1, <1>2, FoundFull DEF Cell
<1>. HIDE DEF x, y, a, b, both
<1>4. CASE scopes' = scopes
  BY <1>4 DEF FullInv
<1>5. CASE /\ both # {}
           /\ scopes' = [Assign(a, x, both, FALSE) EXCEPT
                           ![b].cell[y] = Holding(@, both, FALSE)]
  <2>. DEFINE u == Assign(a, x, both, FALSE)
  <2>1. u \in Seq(FullScope) /\ Len(u) = Len(scopes)
    BY <1>1, <1>3, <1>5, AssignFull
  <2>. HIDE DEF u
  <2>2. u[b] \in FullScope
    BY <1>3, <2>1, ElementOfSeq
  <2>3. [u[b] EXCEPT !.cell[y] = Holding(@, both, FALSE)] \in FullScope
    BY <1>1, <1>3, <1>5, <2>2, NarrowFull
  <2>4. LET t == [u[b] EXCEPT !.cell[y] = Holding(@, both, FALSE)]
        IN  [u EXCEPT ![b] = t] \in Seq(FullScope)
    BY <1>3, <2>1, <2>3, UpdateTyped
  <2>. QED  BY <1>5, <2>4 DEF u
<1>. QED  BY <1>2, <1>4, <1>5

\* The next value of a generator, and the copy of the scope it is tried in.
LEMMA NextValueFull ==
  ASSUME FullInv, NextValue
  PROVE  scopes' \in Seq(FullScope)
<1>1. PICK v \in Top.todo :
        LET set == Assign(Top.at, Top.x, {v}, TRUE)
        IN  scopes' = Append(set, set[scope])
  BY DEF NextValue
<1>2. Top \in LiveGen(Len(scopes), Len(qctxs)) /\ Top \in GenFrame
  BY TopGen DEF NextValue, GoesOn, FullInv
<1>3. /\ Top.at \in 1 .. Len(scopes) /\ Top.x \in Names
      /\ {v} \in SUBSET Vals /\ {v} # {}
  BY <1>1, <1>2 DEF LiveGen, GenFrame
<1>. DEFINE set == Assign(Top.at, Top.x, {v}, TRUE)
<1>4. set \in Seq(FullScope) /\ Len(set) = Len(scopes)
  BY <1>3, AssignFull
<1>5. scopes' = Append(set, set[scope])
  BY <1>1
<1>. HIDE DEF set
<1>6. set[scope] \in FullScope
  BY <1>4, HereFull, ElementOfSeq
<1>. QED  BY <1>4, <1>5, <1>6, AppendTyped

\* An implication, an alternative and an isolated set run in a copy of the scope.
LEMMA CopiesFull ==
  ASSUME FullInv, EvalImply \/ NextAlternative \/ EvalIsolated
  PROVE  scopes' \in Seq(FullScope)
<1>1. \/ \E i \in Nat : scopes' = Append(scopes, [Here EXCEPT !.repeat = i])
      \/ scopes' = Append(scopes, [Here EXCEPT !.next = 0, !.repeat = 0])
  <2>1. Here.repeat + 2 \in Nat /\ Here.repeat + 1 \in Nat
    BY HereCopies
  <2>. QED  BY <2>1 DEF EvalImply, NextAlternative, EvalIsolated
<1>. QED  BY <1>1, HereCopies, CopyFull

-----------------------------------------------------------------------------
(* The invariant *)

\* A step of the engine keeps every scope full.
LEMMA StepFull ==
  ASSUME FullInv, [Next]_vars
  PROVE  FullInv'
<1>1. TypeInv'
  BY StepType DEF FullInv
<1>2. CASE UNCHANGED scopes
  BY <1>1, <1>2 DEF FullInv
<1>. SUFFICES ASSUME ~UNCHANGED scopes
     PROVE  scopes' \in Seq(FullScope)
  BY <1>1, <1>2 DEF FullInv
<1>3. CASE Immediate
  <2>1. ~EvalRename /\ ~EvalCut
    BY DEF EvalRename, EvalCut, mem
  <2>. QED  BY <1>3, <2>1, EvalAssertFull, EvalEqFull DEF Immediate
<1>4. CASE LaureStart
  <2>1. /\ ~NextExpression /\ ~LeaveList /\ ~Silent /\ ~Showcast /\ ~Send
        /\ ~SendScope
    BY DEF NextExpression, LeaveList, Silent, Showcast, Send, SendScope, mem
  <2>. QED  BY <1>4, <2>1, ContinueFull DEF LaureStart
<1>5. CASE PredCall
  <2>1. ~BodyReturns /\ ~ContinuationReturns /\ ~InstReturns /\ ~Exhausted
    BY DEF BodyReturns, ContinuationReturns, InstReturns, Exhausted, mem
  <2>. QED  BY <1>5, <2>1, EvalCallFull, ArgMismatchFull, EnterInteriorFull, CallCFull
            DEF PredCall
<1>6. CASE Generators
  <2>1. ~EvalUnify /\ ~EvalQuant /\ ~ValueReturns /\ ~NoMoreValues
    BY DEF EvalUnify, EvalQuant, ValueReturns, NoMoreValues, mem
  <2>. QED  BY <1>6, <2>1, EvalIntersectFull, NextValueFull DEF Generators
<1>7. CASE Branching
  <2>1. /\ ~ImplyReturns /\ ~EvalChoice /\ ~AlternativeReturns /\ ~NoMoreAlternatives
        /\ ~EvalEmptySet /\ ~IsolatedReturns /\ ~EvalSet /\ ~SetReturns
    BY DEF ImplyReturns, EvalChoice, AlternativeReturns, NoMoreAlternatives,
           EvalEmptySet, IsolatedReturns, EvalSet, SetReturns, mem
  <2>. QED  BY <1>7, <2>1, CopiesFull DEF Branching
<1>8. ~CallCrashes /\ ~GoalCrashes /\ ~UNCHANGED vars
  BY DEF CallCrashes, GoalCrashes, Crash, mem, vars
<1>. QED  BY <1>3, <1>4, <1>5, <1>6, <1>7, <1>8 DEF Next, Finished

\* No instance runs out of values, in any copy of a scope, whatever the program:
\* an intersection with a hint, with a set of values, with another instance or
\* with what a body found is checked before it is stored (query.c, laure_eval_*
\* and laure_start).
THEOREM InstancesKeepValues == Spec => []NoEmptyInstance
<1>1. Init => FullInv
  BY InitFull
<1>2. FullInv /\ [Next]_vars => FullInv'
  BY StepFull
<1>3. FullInv => NoEmptyInstance
  BY FullAt DEF NoEmptyInstance
<1>. QED  BY <1>1, <1>2, <1>3, PTL DEF Spec

-----------------------------------------------------------------------------
(* The owner of a link: the variable it was handed out to, for the query's *)
(* level.  The global scope is at that level, and no body is.              *)

OwnScope(own) == {s \in Scope :
  /\ s.idx # 0
  /\ s.idx = 1 => \A n \in Names : s.cell[n].link # 0 => own[s.cell[n].link] = n}
OwnedBy(own, ss, tt) ==
  /\ ss \in Seq(OwnScope(own)) /\ ss[1].idx = 1
  /\ \A n \in Names : tt[n] # 0 => own[tt[n]] = n

\* The inductive invariant: every link has one owner.
LinkInv == TypeInv /\ \E own : OwnedBy(own, scopes, tracked)

\* Links of variables that have different owners are different.
LEMMA OwnersApart ==
  ASSUME LinkInv
  PROVE  QueryLinks
<1>1. PICK own : OwnedBy(own, scopes, tracked)
  BY DEF LinkInv
<1>2. ASSUME NEW n \in Names, NEW l \in LinksOf(n), l # 0
      PROVE  own[l] = n
  <2>1. CASE l = tracked[n]
    BY <1>1, <1>2, <2>1 DEF OwnedBy
  <2>2. CASE \E a \in 1 .. Len(scopes) : scopes[a].idx = 1 /\ l = scopes[a].cell[n].link
    <3>1. PICK a \in 1 .. Len(scopes) : scopes[a].idx = 1 /\ l = scopes[a].cell[n].link
      BY <2>2
    <3>2. scopes[a] \in OwnScope(own)
      BY <1>1, ElementOfSeq DEF OwnedBy
    <3>. QED  BY <1>2, <3>1, <3>2 DEF OwnScope
  <2>. QED  BY <1>2, <2>1, <2>2 DEF LinksOf
<1>. QED  BY <1>2 DEF QueryLinks

\* A scope whose cell at a name is replaced by one with a link of that name.
LEMMA CellOwn ==
  ASSUME NEW own, NEW s \in OwnScope(own), NEW x \in Names, NEW c \in Cell,
         (s.idx = 1 /\ c.link # 0) => own[c.link] = x
  PROVE  /\ [s EXCEPT !.cell[x] = c] \in OwnScope(own)
         /\ [s EXCEPT !.cell[x] = c].idx = s.idx
<1>. DEFINE cells == [s.cell EXCEPT ![x] = c]
<1>1. s \in Scope /\ s.cell \in [Names -> Cell]
  BY DEF OwnScope, Scope
<1>2. /\ cells \in [Names -> Cell]
      /\ s.idx = 1 => \A n \in Names : cells[n].link # 0 => own[cells[n].link] = n
  BY <1>1 DEF OwnScope
<1>. HIDE DEF cells
<1>3. /\ [s EXCEPT !.cell = cells] \in OwnScope(own)
      /\ [s EXCEPT !.cell = cells].idx = s.idx
  BY <1>1, <1>2 DEF OwnScope, Scope
<1>. QED  BY <1>3 DEF cells

\* A scope with a cell that holds other values.
Held(s, x, d, e) == [s EXCEPT !.cell[x] = Holding(@, d, e)]
Narrowed(s, x, d) == [s EXCEPT !.cell[x].dom = d]

\* Narrowing a cell leaves its link to its owner.
LEMMA NarrowOwn ==
  ASSUME NEW own, NEW s \in OwnScope(own), NEW x \in Names,
         NEW d \in SUBSET Vals, NEW e \in BOOLEAN
  PROVE  /\ Narrowed(s, x, d) \in OwnScope(own) /\ Narrowed(s, x, d).idx = s.idx
         /\ Held(s, x, d, e) \in OwnScope(own) /\ Held(s, x, d, e).idx = s.idx
<1>1. s.cell[x] \in Cell
  BY DEF OwnScope, Scope
<1>2. /\ [s.cell[x] EXCEPT !.dom = d] \in Cell
      /\ [s.cell[x] EXCEPT !.dom = d].link = s.cell[x].link
      /\ Holding(s.cell[x], d, e) \in Cell
      /\ Holding(s.cell[x], d, e).link = s.cell[x].link
  BY <1>1 DEF Cell, Holding
<1>3. (s.idx = 1 /\ s.cell[x].link # 0) => own[s.cell[x].link] = x
  BY DEF OwnScope
<1>4. ASSUME NEW c \in Cell, c.link = s.cell[x].link
      PROVE  [s EXCEPT !.cell[x] = c] \in OwnScope(own) /\ [s EXCEPT !.cell[x] = c].idx = s.idx
  <2>1. (s.idx = 1 /\ c.link # 0) => own[c.link] = x
    BY <1>3, <1>4
  <2>. QED  BY <2>1, CellOwn
<1>. QED  BY <1>2, <1>4 DEF Held, Narrowed

\* A scope object rewritten in place, at its level.
LEMMA PutOwn ==
  ASSUME NEW own, NEW u \in Seq(OwnScope(own)), u[1].idx = 1,
         NEW a \in 1 .. Len(u), NEW s \in OwnScope(own), s.idx = u[a].idx
  PROVE  /\ [u EXCEPT ![a] = s] \in Seq(OwnScope(own)) /\ [u EXCEPT ![a] = s][1].idx = 1
         /\ Len([u EXCEPT ![a] = s]) = Len(u)
<1>1. Len(u) \in Nat /\ 1 \in 1 .. Len(u)
  BY LenProperties
<1>. QED  BY <1>1, UpdateTyped

\* A new scope object.
LEMMA AddOwn ==
  ASSUME NEW own, NEW u \in Seq(OwnScope(own)), u[1].idx = 1, u # <<>>,
         NEW s \in OwnScope(own)
  PROVE  /\ Append(u, s) \in Seq(OwnScope(own)) /\ Append(u, s)[1].idx = 1
         /\ Append(u, s) # <<>>
<1>1. Len(u) \in Nat \ {0} /\ 1 \in 1 .. Len(u)
  BY EmptySeq, LenProperties
<1>. QED  BY <1>1, AppendTyped

\* The scopes that a step finds.
LEMMA OwnAt ==
  ASSUME LinkInv, NEW own, OwnedBy(own, scopes, tracked)
  PROVE  /\ scopes \in Seq(OwnScope(own)) /\ scopes[1].idx = 1 /\ scopes # <<>>
         /\ \A a \in 1 .. Len(scopes) : /\ scopes[a] \in OwnScope(own)
                                        /\ scopes[a].cell \in [Names -> Cell]
         /\ Here \in OwnScope(own) /\ scope \in 1 .. Len(scopes)
         /\ 1 \in 1 .. Len(scopes) /\ Len(scopes) \in Nat
<1>1. scopes \in Seq(OwnScope(own)) /\ scopes[1].idx = 1
  BY DEF OwnedBy
<1>2. Len(scopes) \in Nat /\ scope \in 1 .. Len(scopes)
  BY <1>1, LenProperties DEF LinkInv, TypeInv
<1>3. scopes # <<>> /\ 1 \in 1 .. Len(scopes)
  BY <1>1, <1>2, EmptySeq
<1>4. ASSUME NEW a \in 1 .. Len(scopes)
      PROVE  scopes[a] \in OwnScope(own) /\ scopes[a].cell \in [Names -> Cell]
  <2>1. scopes[a] \in OwnScope(own)
    BY <1>1, ElementOfSeq
  <2>. QED  BY <2>1 DEF OwnScope, Scope
<1>. QED  BY <1>1, <1>2, <1>3, <1>4 DEF Here

\* Links handed out to the names of args: older ones keep their owners.
Extended(own, args) ==
  [k \in Nat |-> IF k \in nlink + 1 .. nlink + Len(args) THEN args[k - nlink]
                 ELSE own[k]]
LEMMA OwnersGrow ==
  ASSUME LinkInv, NEW own, OwnedBy(own, scopes, tracked), NEW args \in Seq(Names)
  PROVE  /\ OwnedBy(Extended(own, args), scopes, tracked)
         /\ \A j \in 1 .. Len(args) : Extended(own, args)[nlink + j] = args[j]
         /\ \A k \in 0 .. nlink : Extended(own, args)[k] = own[k]
<1>. DEFINE new == Extended(own, args)
<1>1. nlink \in Nat /\ Len(args) \in Nat
  BY LenProperties DEF LinkInv, TypeInv
<1>2. \A j \in 1 .. Len(args) : new[nlink + j] = args[j]
  BY <1>1 DEF Extended
<1>3. \A k \in 0 .. nlink : new[k] = own[k]
  BY <1>1 DEF Extended
<1>. HIDE DEF new
<1>4. ASSUME NEW a \in 1 .. Len(scopes)
      PROVE  scopes[a] \in OwnScope(new)
  <2>1. \A n \in Names : scopes[a].cell[n].link \in 0 .. nlink
    BY ScopeAt DEF LinkInv
  <2>2. scopes[a] \in OwnScope(own)
    BY OwnAt
  <2>. QED  BY <1>3, <2>1, <2>2 DEF OwnScope
<1>5. scopes \in Seq(OwnScope(new))
  <2>1. scopes \in Seq(OwnScope(own))
    BY OwnAt
  <2>. QED  BY <1>4, <2>1, SeqDef
<1>6. \A n \in Names : tracked[n] # 0 => new[tracked[n]] = n
  BY <1>3 DEF OwnedBy, LinkInv, TypeInv
<1>7. OwnedBy(new, scopes, tracked)
  BY <1>5, <1>6, OwnAt DEF OwnedBy
<1>. QED  BY <1>2, <1>3, <1>7 DEF new

-----------------------------------------------------------------------------
(* Owners: the initial state and the expressions that respond at once *)

\* A variable declared before the query owns its place in the list of these.
LEMMA InitOwn ==
  ASSUME Init
  PROVE  LinkInv
<1>. DEFINE own == [k \in Nat |-> prog.imaged[k]]
            At(n) == \E j \in 1 .. Len(prog.imaged) : prog.imaged[j] = n
            J(n) == CHOOSE j \in 1 .. Len(prog.imaged) : prog.imaged[j] = n
<1>1. TypeInv
  BY InitType
<1>2. prog.imaged \in Seq(Names)
  BY ProgramsAssumption DEF Init, Program
<1>3. Len(prog.imaged) \in Nat
  BY <1>2, LenProperties
<1>4. Len(scopes) = 1 /\ scopes[1] \in Scope /\ scopes = <<scopes[1]>>
  <2>1. Len(scopes) = 1 /\ scopes = <<scopes[1]>>
    BY DEF Init
  <2>. QED  BY <1>1, <2>1, ScopeAt
<1>5. ASSUME NEW n \in Names, scopes[1].cell[n].link # 0
      PROVE  own[scopes[1].cell[n].link] = n
  <2>1. scopes[1].cell[n].link = (IF At(n) THEN J(n) ELSE 0)
    BY DEF Init, NoCell
  <2>2. At(n)
    BY <1>5, <2>1
  <2>3. J(n) \in 1 .. Len(prog.imaged) /\ prog.imaged[J(n)] = n
    BY <2>2
  <2>. HIDE DEF J, At
  <2>4. own[J(n)] = prog.imaged[J(n)]
    BY <1>3, <2>3
  <2>. QED  BY <2>1, <2>2, <2>3, <2>4
<1>6. scopes[1].idx = 1 /\ \A n \in Names : tracked[n] = 0
  BY DEF Init
<1>. HIDE DEF own
<1>7. scopes[1] \in OwnScope(own)
  BY <1>4, <1>5, <1>6 DEF OwnScope
<1>8. <<scopes[1]>> \in Seq(OwnScope(own))
  BY <1>7
<1>9. OwnedBy(own, scopes, tracked)
  BY <1>4, <1>6, <1>8 DEF OwnedBy
<1>. QED  BY <1>1, <1>9 DEF LinkInv

\* A cell that is narrowed in place.
HeldAt(u, a, x, d, e) == [u EXCEPT ![a] = Held(u[a], x, d, e)]
LEMMA HeldOwn ==
  ASSUME NEW own, NEW u \in Seq(OwnScope(own)), u[1].idx = 1,
         NEW a \in 1 .. Len(u), NEW x \in Names,
         NEW d \in SUBSET Vals, NEW e \in BOOLEAN
  PROVE  /\ HeldAt(u, a, x, d, e) \in Seq(OwnScope(own))
         /\ HeldAt(u, a, x, d, e)[1].idx = 1 /\ Len(HeldAt(u, a, x, d, e)) = Len(u)
<1>1. u[a] \in OwnScope(own)
  BY ElementOfSeq
<1>. DEFINE t == Held(u[a], x, d, e)
<1>2. t \in OwnScope(own) /\ t.idx = u[a].idx
  BY <1>1, NarrowOwn
<1>. HIDE DEF t
<1>3. /\ [u EXCEPT ![a] = t] \in Seq(OwnScope(own)) /\ [u EXCEPT ![a] = t][1].idx = 1
      /\ Len([u EXCEPT ![a] = t]) = Len(u)
  BY <1>2, PutOwn
<1>. QED  BY <1>3 DEF t, HeldAt

\* laure_safe_update with values leaves every link to its owner.
LEMMA AssignOwn ==
  ASSUME LinkInv, NEW own, OwnedBy(own, scopes, tracked),
         NEW a \in 1 .. Len(scopes), NEW x \in Names,
         NEW d \in SUBSET Vals, NEW e \in BOOLEAN
  PROVE  /\ Assign(a, x, d, e) \in Seq(OwnScope(own))
         /\ Len(Assign(a, x, d, e)) = Len(scopes) /\ Assign(a, x, d, e)[1].idx = 1
<1>1. Assign(a, x, d, e) = HeldAt(scopes, a, x, d, e)
  BY DEF Assign, HeldAt, Held
<1>2. scopes \in Seq(OwnScope(own)) /\ scopes[1].idx = 1
  BY OwnAt
<1>. QED  BY <1>1, <1>2, HeldOwn

\* The same for two variables that are made equal.
BothHeld(a, x, b, y, d, e) ==
  [Assign(a, x, d, e) EXCEPT ![b].cell[y] = Holding(@, d, e)]
LEMMA AssignBothOwn ==
  ASSUME LinkInv, NEW own, OwnedBy(own, scopes, tracked),
         NEW a \in 1 .. Len(scopes), NEW b \in 1 .. Len(scopes),
         NEW x \in Names, NEW y \in Names, NEW d \in SUBSET Vals, NEW e \in BOOLEAN
  PROVE  /\ BothHeld(a, x, b, y, d, e) \in Seq(OwnScope(own))
         /\ BothHeld(a, x, b, y, d, e)[1].idx = 1
<1>. DEFINE u == Assign(a, x, d, e)
<1>1. BothHeld(a, x, b, y, d, e) = HeldAt(u, b, y, d, e)
  BY DEF BothHeld, HeldAt, Held
<1>2. u \in Seq(OwnScope(own)) /\ Len(u) = Len(scopes) /\ u[1].idx = 1
  BY AssignOwn
<1>. HIDE DEF u
<1>. QED  BY <1>1, <1>2, HeldOwn

\* What leaves the scopes and the table alone leaves the links to their owners.
LEMMA SameOwn ==
  ASSUME LinkInv, UNCHANGED <<scopes, tracked>>
  PROVE  \E own : OwnedBy(own, scopes', tracked')
BY DEF LinkInv

\* A copy of the scope a, with its cells.
LEMMA CopyOwn ==
  ASSUME LinkInv, NEW a \in 1 .. Len(scopes), NEW s \in Scope,
         s.idx = scopes[a].idx, s.cell = scopes[a].cell,
         scopes' = Append(scopes, s), UNCHANGED tracked
  PROVE  \E own : OwnedBy(own, scopes', tracked')
<1>1. PICK own : OwnedBy(own, scopes, tracked)
  BY DEF LinkInv
<1>2. s \in OwnScope(own)
  <2>1. scopes[a] \in OwnScope(own)
    BY <1>1, OwnAt
  <2>. QED  BY <2>1 DEF OwnScope
<1>3. scopes' \in Seq(OwnScope(own)) /\ scopes'[1].idx = 1
  BY <1>1, <1>2, OwnAt, AddOwn
<1>. QED  BY <1>1, <1>3 DEF OwnedBy

\* The values of an assertion go where the name was found.
LEMMA EvalAssertOwn ==
  ASSUME LinkInv, EvalAssert
  PROVE  \E own : OwnedBy(own, scopes', tracked')
<1>. DEFINE g == CurrentGoal
            a == Find(g.x)
            one == \E v \in Vals : g.dom = {v}
<1>1. g.x \in Names /\ g.dom \in SUBSET Vals
  <2>1. g \in Goal
    BY CurrentTyped DEF EvalAssert, LinkInv
  <2>. QED  BY <2>1 DEF Goal
<1>2. /\ scopes' = scopes \/ (a # 0 /\ scopes' = Assign(a, g.x, g.dom, one))
      /\ UNCHANGED tracked
  BY DEF EvalAssert
<1>3. a \in 0 .. Len(scopes) /\ Len(scopes) \in Nat
  BY <1>1, FindTyped DEF LinkInv
<1>4. one \in BOOLEAN
  OBVIOUS
<1>. HIDE DEF g, a, one
<1>5. CASE scopes' = scopes
  BY <1>2, <1>5, SameOwn
<1>6. CASE a # 0 /\ scopes' = Assign(a, g.x, g.dom, one)
  <2>1. PICK own : OwnedBy(own, scopes, tracked)
    BY DEF LinkInv
  <2>2. a \in 1 .. Len(scopes)
    BY <1>3, <1>6
  <2>3. scopes' \in Seq(OwnScope(own)) /\ scopes'[1].idx = 1
    BY <1>1, <1>4, <1>6, <2>1, <2>2, AssignOwn
  <2>. QED  BY <1>2, <2>1, <2>3 DEF OwnedBy
<1>. QED  BY <1>2, <1>5, <1>6

\* `x = y`: an unknown variable gets a link of its own.
LEMMA EvalEqOwn ==
  ASSUME LinkInv, EvalEq
  PROVE  \E own : OwnedBy(own, scopes', tracked')
<1>. DEFINE x == CurrentGoal.x
            y == CurrentGoal.args[1]
            a == Find(x)
            b == Find(y)
            cx == scopes[a].cell[x]
            cy == scopes[b].cell[y]
            both == cx.dom \cap cy.dom
            LinkNew(n, c) == [scopes EXCEPT ![scope].cell[n] = [c EXCEPT !.link = nlink + 1]]
<1>1. x \in Names /\ y \in Names
  <2>1. CurrentGoal \in Goal /\ CurrentGoal.op = "eq"
    BY CurrentTyped DEF EvalEq, LinkInv
  <2>2. CurrentGoal.args \in Seq(Names) /\ Len(CurrentGoal.args) = 1
    BY <2>1 DEF Goal
  <2>3. CurrentGoal.x \in Names
    BY <2>1 DEF Goal
  <2>. HIDE DEF CurrentGoal
  <2>. QED  BY <2>2, <2>3, ElementOfSeq
<1>2. /\ \/ scopes' = scopes
         \/ b # 0 /\ scopes' = LinkNew(x, cy)
         \/ a # 0 /\ scopes' = LinkNew(y, cx)
         \/ /\ a # 0 /\ b # 0
            /\ scopes' = [Assign(a, x, both, TRUE) EXCEPT
                            ![b].cell[y] = Holding(@, both, TRUE)]
      /\ UNCHANGED tracked
  BY DEF EvalEq
<1>3. /\ a # 0 => a \in 1 .. Len(scopes) /\ cx \in Cell
      /\ b # 0 => b \in 1 .. Len(scopes) /\ cy \in Cell
  <2>1. a \in 0 .. Len(scopes) /\ b \in 0 .. Len(scopes) /\ Len(scopes) \in Nat
    BY <1>1, FindTyped DEF LinkInv
  <2>2. (a # 0 => a \in 1 .. Len(scopes)) /\ (b # 0 => b \in 1 .. Len(scopes))
    BY <2>1
  <2>. HIDE DEF a, b, x, y
  <2>. QED  BY <1>1, <2>2, ScopeAt DEF LinkInv
<1>. HIDE DEF x, y, a, b, cx, cy
<1>4. PICK old : OwnedBy(old, scopes, tracked)
  BY DEF LinkInv
<1>5. ASSUME NEW n \in Names, NEW c \in Cell, scopes' = LinkNew(n, c)
      PROVE  \E own : OwnedBy(own, scopes', tracked')
  <2>. DEFINE own == Extended(old, <<n>>)
              d == [c EXCEPT !.link = nlink + 1]
  <2>2. OwnedBy(own, scopes, tracked) /\ own[nlink + 1] = n
    <3>. DEFINE args == <<n>>
    <3>1. args \in Seq(Names) /\ 1 \in 1 .. Len(args) /\ args[1] = n
      OBVIOUS
    <3>. HIDE DEF args
    <3>2. /\ OwnedBy(Extended(old, args), scopes, tracked)
          /\ Extended(old, args)[nlink + 1] = args[1]
      BY <1>4, <3>1, OwnersGrow
    <3>. QED  BY <3>1, <3>2 DEF args
  <2>3. nlink + 1 \in Nat
    BY DEF LinkInv, TypeInv
  <2>4. d \in Cell /\ d.link = nlink + 1
    BY <2>3 DEF Cell
  <2>. HIDE DEF own, d
  <2>5. scopes[scope] \in OwnScope(own) /\ scope \in 1 .. Len(scopes)
    BY <2>2, OwnAt
  <2>6. /\ [scopes[scope] EXCEPT !.cell[n] = d] \in OwnScope(own)
        /\ [scopes[scope] EXCEPT !.cell[n] = d].idx = scopes[scope].idx
    BY <2>2, <2>4, <2>5, CellOwn
  <2>7. LET t == [scopes[scope] EXCEPT !.cell[n] = d]
        IN  /\ [scopes EXCEPT ![scope] = t] \in Seq(OwnScope(own))
            /\ [scopes EXCEPT ![scope] = t][1].idx = 1
    BY <2>2, <2>5, <2>6, OwnAt, PutOwn
  <2>8. scopes' \in Seq(OwnScope(own)) /\ scopes'[1].idx = 1
    BY <1>5, <2>7 DEF d
  <2>. QED  BY <1>2, <2>2, <2>8 DEF OwnedBy
<1>6. CASE scopes' = scopes
  BY <1>2, <1>6, SameOwn
<1>7. CASE b # 0 /\ scopes' = LinkNew(x, cy)
  BY <1>1, <1>3, <1>5, <1>7
<1>8. CASE a # 0 /\ scopes' = LinkNew(y, cx)
  BY <1>1, <1>3, <1>5, <1>8
<1>9. CASE /\ a # 0 /\ b # 0
           /\ scopes' = [Assign(a, x, both, TRUE) EXCEPT
                           ![b].cell[y] = Holding(@, both, TRUE)]
  <2>1. both \in SUBSET Vals
    BY <1>3, <1>9 DEF Cell
  <2>2. scopes' = BothHeld(a, x, b, y, both, TRUE)
    BY <1>9 DEF BothHeld
  <2>. HIDE DEF both
  <2>3. /\ BothHeld(a, x, b, y, both, TRUE) \in Seq(OwnScope(old))
        /\ BothHeld(a, x, b, y, both, TRUE)[1].idx = 1
    BY <1>1, <1>3, <1>4, <1>9, <2>1, AssignBothOwn
  <2>. QED  BY <1>2, <1>4, <2>2, <2>3 DEF OwnedBy
<1>. QED  BY <1>2, <1>6, <1>7, <1>8, <1>9

-----------------------------------------------------------------------------
(* Owners: the end of a list and the calls *)

\* laure_safe_update changes no link.
LEMMA UpdatedOwn ==
  ASSUME LinkInv, NEW own, NEW s \in OwnScope(own), s \in LiveScope(Len(scopes), nlink)
  PROVE  Updated(s) \in OwnScope(own)
<1>1. Updated(s) \in Scope
  BY UpdatedTyped DEF LinkInv, LiveScope
<1>2. Updated(s).idx = s.idx /\ \A n \in Names : Updated(s).cell[n].link = s.cell[n].link
  <2>1. s.cell \in [Names -> Cell] /\ s \in Scope
    BY DEF OwnScope, Scope
  <2>. QED  BY <2>1 DEF Updated, Holding, Cell, Scope
<1>. QED  BY <1>1, <1>2 DEF OwnScope

\* The continuation runs at the caller's level, with the caller's links.
LEMMA ContinueOwn ==
  ASSUME LinkInv, Continue
  PROVE  \E own : OwnedBy(own, scopes', tracked')
<1>1. PICK own : OwnedBy(own, scopes, tracked)
  BY DEF LinkInv
<1>2. Here \in OwnScope(own) /\ scope \in 1 .. Len(scopes) /\ UNCHANGED tracked
  BY <1>1, OwnAt DEF Continue
<1>3. CASE Here.repeat > 0 /\ scopes' = [scopes EXCEPT ![scope].repeat = @ - 1]
  <2>. DEFINE t == [Here EXCEPT !.repeat = Here.repeat - 1]
  <2>1. t \in OwnScope(own) /\ t.idx = scopes[scope].idx
    <3>1. Here.repeat \in Nat /\ Here.repeat - 1 \in Nat
      BY <1>2, <1>3 DEF OwnScope, Scope
    <3>. QED  BY <1>2, <3>1 DEF OwnScope, Scope, Here
  <2>2. scopes' = [scopes EXCEPT ![scope] = t]
    BY <1>3 DEF Here
  <2>. HIDE DEF t
  <2>3. scopes' \in Seq(OwnScope(own)) /\ scopes'[1].idx = 1
    BY <1>1, <1>2, <2>1, <2>2, OwnAt, PutOwn
  <2>. QED  BY <1>1, <1>2, <2>3 DEF OwnedBy
<1>4. CASE Here.next # 0 /\ scopes' = Append(scopes, Updated(scopes[Here.next]))
  <2>1. Here.next \in 1 .. Len(scopes)
    <3>1. Here.next \in 0 .. Len(scopes)
      BY HereTyped DEF LinkInv, LiveScope
    <3>. QED  BY <1>4, <3>1
  <2>2. Updated(scopes[Here.next]) \in OwnScope(own)
    BY <1>1, <2>1, OwnAt, ScopeAt, UpdatedOwn DEF LinkInv
  <2>3. scopes' \in Seq(OwnScope(own)) /\ scopes'[1].idx = 1
    BY <1>1, <1>4, <2>2, OwnAt, AddOwn
  <2>. QED  BY <1>1, <1>2, <2>3 DEF OwnedBy
<1>5. CASE scopes' = scopes
  BY <1>2, <1>5, SameOwn
<1>. QED  BY <1>3, <1>4, <1>5 DEF Continue

\* The link of an argument at the query's level is that of its variable: the
\* cell's own, the one under which it is tracked, or a new one.
LEMMA ArgCellOwn ==
  ASSUME LinkInv, NEW own, OwnedBy(own, scopes, tracked), NEW s \in OwnScope(own),
         s.idx = 1, NEW args \in Seq(Names), NEW j \in 1 .. Len(args),
         own[nlink + j] = args[j], NEW p, NEW strict \in BOOLEAN
  PROVE  own[ArgCell(s, args, j, p, strict).link] = args[j]
<1>. DEFINE n == args[j]
            c == Seen(s, n)
<1>1. n \in Names
  BY ElementOfSeq
<1>2. c.link # 0 => own[c.link] = n
  <2>1. scopes[1] \in OwnScope(own) /\ scopes[1].idx = 1
    BY OwnAt
  <2>. QED  BY <1>1, <2>1 DEF Seen, OwnScope
<1>3. c \in Cell
  <2>1. scopes[1] \in OwnScope(own)
    BY OwnAt
  <2>. QED  BY <1>1, <2>1 DEF Seen, OwnScope, Scope
<1>4. tracked[n] # 0 => own[tracked[n]] = n
  BY <1>1 DEF OwnedBy
<1>5. CASE c.link # 0
  <2>1. ArgCell(s, args, j, p, strict)
          = [c EXCEPT !.dom = IF strict THEN @ \cap p.hint ELSE @]
    BY <1>5 DEF ArgCell
  <2>. HIDE DEF c
  <2>2. ArgCell(s, args, j, p, strict).link = c.link
    BY <1>3, <2>1 DEF Cell
  <2>. QED  BY <1>2, <1>5, <2>2
<1>6. CASE c.link = 0
  <2>1. ArgCell(s, args, j, p, strict).link
          = IF tracked[n] # 0 THEN tracked[n] ELSE nlink + j
    BY <1>6 DEF ArgCell
  <2>. QED  BY <1>4, <2>1
<1>. QED  BY <1>5, <1>6

\* The scope of the call with its arguments.
LEMMA WithArgsOwn ==
  ASSUME LinkInv, NEW own, OwnedBy(own, scopes, tracked), NEW s \in OwnScope(own),
         s \in LiveScope(Len(scopes), nlink), NEW args \in Seq(Names),
         \A j \in 1 .. Len(args) : own[nlink + j] = args[j],
         NEW p, p.hint \in SUBSET Vals, NEW strict \in BOOLEAN
  PROVE  WithArgs(s, args, p, strict) \in OwnScope(own)
<1>. DEFINE At(n) == \E j \in 1 .. Len(args) :
                       args[j] = n /\ (s.cell[n].link # 0 \/ Seen(s, n).link = 0)
            J(n) == CHOOSE j \in 1 .. Len(args) : args[j] = n
            w == WithArgs(s, args, p, strict)
<1>1. w \in Scope
  BY WithArgsTyped DEF LinkInv, LiveScope
<1>2. s \in Scope
  BY DEF OwnScope
<1>3. /\ w.idx = s.idx
      /\ \A n \in Names : w.cell[n] = IF At(n) THEN ArgCell(s, args, J(n), p, strict)
                                      ELSE s.cell[n]
  BY <1>2 DEF WithArgs, Scope
<1>. HIDE DEF w
<1>4. ASSUME NEW n \in Names, s.idx = 1, w.cell[n].link # 0
      PROVE  own[w.cell[n].link] = n
  <2>1. CASE At(n)
    <3>1. J(n) \in 1 .. Len(args) /\ args[J(n)] = n
      BY <2>1
    <3>2. w.cell[n] = ArgCell(s, args, J(n), p, strict)
      BY <1>3, <2>1
    <3>. HIDE DEF J
    <3>3. own[ArgCell(s, args, J(n), p, strict).link] = args[J(n)]
      BY <1>4, <3>1, <3>2, ArgCellOwn
    <3>. QED  BY <3>1, <3>2, <3>3
  <2>2. CASE ~At(n)
    BY <1>3, <1>4, <2>2 DEF OwnScope
  <2>. QED  BY <2>1, <2>2
<1>5. w \in OwnScope(own)
  BY <1>1, <1>3, <1>4 DEF OwnScope
<1>. QED  BY <1>5 DEF w

\* The global scope keeps its links.
LEMMA GlobalArgsOwn ==
  ASSUME LinkInv, NEW own, OwnedBy(own, scopes, tracked),
         NEW s \in LiveScope(Len(scopes), nlink), NEW args \in Seq(Names),
         NEW p, p.hint \in SUBSET Vals, NEW strict \in BOOLEAN
  PROVE  /\ GlobalArgs(s, args, p, strict) \in OwnScope(own)
         /\ GlobalArgs(s, args, p, strict).idx = scopes[1].idx
<1>. DEFINE g == GlobalArgs(s, args, p, strict)
<1>1. g \in Scope
  BY GlobalArgsTyped DEF LinkInv, LiveScope
<1>2. scopes[1] \in OwnScope(own) /\ scopes[1].idx = 1
  BY OwnAt
<1>3. g.idx = scopes[1].idx /\ \A n \in Names : g.cell[n].link = scopes[1].cell[n].link
  <2>1. scopes[1].cell \in [Names -> Cell] /\ scopes[1] \in Scope
    BY <1>2 DEF OwnScope, Scope
  <2>. QED  BY <2>1 DEF GlobalArgs, Cell, Scope
<1>. HIDE DEF g
<1>4. g \in OwnScope(own) /\ g.idx = scopes[1].idx
  BY <1>1, <1>2, <1>3 DEF OwnScope
<1>. QED  BY <1>4 DEF g

\* cctx->tmp_answer_scope: a variable is tracked under a link of its own.
LEMMA TrackOwn ==
  ASSUME LinkInv, NEW own, OwnedBy(own, scopes, tracked), NEW s \in OwnScope(own),
         NEW args \in Seq(Names), \A j \in 1 .. Len(args) : own[nlink + j] = args[j],
         NEW p, NEW n \in Names, Track(s, args, p)[n] # 0
  PROVE  own[Track(s, args, p)[n]] = n
<1>. DEFINE J == CHOOSE j \in 1 .. Len(args) : args[j] = n
            new == s.idx = 1 /\ tracked[n] = 0 /\ \E j \in 1 .. Len(args) : args[j] = n
<1>1. Track(s, args, p)[n] = IF new THEN ArgCell(s, args, J, p, FALSE).link
                             ELSE tracked[n]
  BY DEF Track
<1>2. CASE new
  <2>1. J \in 1 .. Len(args) /\ args[J] = n
    BY <1>2
  <2>2. Track(s, args, p)[n] = ArgCell(s, args, J, p, FALSE).link
    BY <1>1, <1>2
  <2>. HIDE DEF J
  <2>3. own[ArgCell(s, args, J, p, FALSE).link] = args[J]
    <3>1. PICK j \in 1 .. Len(args) : j = J
      BY <2>1
    <3>2. s.idx = 1 /\ own[nlink + j] = args[j]
      BY <1>2
    <3>3. \A strict \in BOOLEAN : own[ArgCell(s, args, j, p, strict).link] = args[j]
      BY <3>2, ArgCellOwn
    <3>. QED  BY <3>1, <3>3
  <2>. QED  BY <2>1, <2>2, <2>3
<1>3. CASE ~new
  BY <1>1, <1>3 DEF OwnedBy
<1>. QED  BY <1>2, <1>3

\* The copy of the scope that a call starts from.
LEMMA EvalCallOwn ==
  ASSUME LinkInv, EvalCall
  PROVE  \E own : OwnedBy(own, scopes', tracked')
<1>1. Here \in Scope /\ scope \in 1 .. Len(scopes)
  BY HereTyped DEF LinkInv, LiveScope
<1>2. UNCHANGED tracked
  BY DEF EvalCall
<1>3. CASE scopes' = scopes
  BY <1>2, <1>3, SameOwn
<1>4. CASE scopes' = Append(scopes, Here)
  BY <1>1, <1>2, <1>4, CopyOwn DEF Here
<1>. QED  BY <1>3, <1>4 DEF EvalCall

\* The call under way.
LEMMA CallOwn ==
  ASSUME LinkInv, stack # <<>>, Top.k = "call"
  PROVE  /\ Top \in LiveCall(Len(scopes), Len(qctxs))
         /\ Top.g.args \in Seq(Names) /\ Len(Top.g.args) \in Nat
         /\ PredOf(Top).hint \in SUBSET Vals
         /\ Top.at \in 1 .. Len(scopes)
         /\ scopes[Top.at] \in LiveScope(Len(scopes), nlink)
<1>1. TypeInv
  BY DEF LinkInv
<1>2. Top \in LiveCall(Len(scopes), Len(qctxs))
  BY <1>1, TopCall
<1>3. /\ Top.g.args \in Seq(Names) /\ PredOf(Top).hint \in SUBSET Vals
      /\ Top.at \in 1 .. Len(scopes)
  BY <1>1, <1>2, PredTyped
<1>. QED  BY <1>1, <1>2, <1>3, LenProperties, ScopeAt

\* The table of tracked names and the global scope after the links of args have
\* been handed out to the call that starts from the scope s.
Handed(own, s, args, p) ==
  LET u == [scopes EXCEPT ![1] = GlobalArgs(s, args, p, TRUE)]
  IN  /\ OwnedBy(own, scopes, tracked)
      /\ \A j \in 1 .. Len(args) : own[nlink + j] = args[j]
      /\ \A n \in Names : Track(s, args, p)[n] # 0 => own[Track(s, args, p)[n]] = n
      /\ u \in Seq(OwnScope(own)) /\ u[1].idx = 1
LEMMA TrackedOwn ==
  ASSUME LinkInv, NEW a \in 1 .. Len(scopes), NEW args \in Seq(Names),
         NEW p, p.hint \in SUBSET Vals
  PROVE  \E own : Handed(own, scopes[a], args, p)
<1>1. PICK old : OwnedBy(old, scopes, tracked)
  BY DEF LinkInv
<1>. DEFINE own == Extended(old, args)
            s == scopes[a]
            g == GlobalArgs(s, args, p, TRUE)
<1>2. /\ OwnedBy(own, scopes, tracked)
      /\ \A j \in 1 .. Len(args) : own[nlink + j] = args[j]
  BY <1>1, OwnersGrow
<1>. HIDE DEF own
<1>3. s \in OwnScope(own) /\ s \in LiveScope(Len(scopes), nlink)
  BY <1>2, OwnAt, ScopeAt DEF LinkInv
<1>. HIDE DEF s
<1>4. \A n \in Names : Track(s, args, p)[n] # 0 => own[Track(s, args, p)[n]] = n
  BY <1>2, <1>3, TrackOwn
<1>5. \A strict \in BOOLEAN : /\ GlobalArgs(s, args, p, strict) \in OwnScope(own)
                              /\ GlobalArgs(s, args, p, strict).idx = scopes[1].idx
  BY <1>2, <1>3, GlobalArgsOwn
<1>6. g \in OwnScope(own) /\ g.idx = scopes[1].idx
  BY <1>5
<1>. HIDE DEF g
<1>7. [scopes EXCEPT ![1] = g] \in Seq(OwnScope(own)) /\ [scopes EXCEPT ![1] = g][1].idx = 1
  BY <1>2, <1>6, OwnAt, PutOwn
<1>8. Handed(own, s, args, p)
  BY <1>2, <1>4, <1>7 DEF g, Handed
<1>. QED  BY <1>8 DEF s

\* The arguments before the one that does not meet its hint are tracked.
LEMMA ArgMismatchOwn ==
  ASSUME LinkInv, ArgMismatch
  PROVE  \E own : OwnedBy(own, scopes', tracked')
<1>. DEFINE f == Top
            args == f.g.args
<1>1. stack # <<>> /\ Top.k = "call"
  BY DEF ArgMismatch, OnVariation, GoesOn
<1>2. PICK m \in 1 .. Len(args) :
        LET done == SubSeq(args, 1, m - 1)
        IN  /\ scopes' = [scopes EXCEPT ![1] =
                            GlobalArgs(scopes[f.at], done, PredOf(f), TRUE)]
            /\ tracked' = Track(scopes[f.at], done, PredOf(f))
  BY DEF ArgMismatch
<1>. DEFINE done == SubSeq(args, 1, m - 1)
<1>3. /\ args \in Seq(Names) /\ Len(args) \in Nat /\ PredOf(f).hint \in SUBSET Vals
      /\ f.at \in 1 .. Len(scopes)
  BY <1>1, CallOwn
<1>4. done \in Seq(Names)
  <2>. HIDE DEF f, args
  <2>1. \A i \in 1 .. m - 1 : args[i] \in Names
    BY <1>3, ElementOfSeq
  <2>. QED  BY <1>3, <2>1, SubSeqProperties
<1>5. /\ scopes' = [scopes EXCEPT ![1] = GlobalArgs(scopes[f.at], done, PredOf(f), TRUE)]
      /\ tracked' = Track(scopes[f.at], done, PredOf(f))
  BY <1>2
<1>. DEFINE p == PredOf(f)
            init == scopes[f.at]
            u == [scopes EXCEPT ![1] = GlobalArgs(init, done, p, TRUE)]
<1>. HIDE DEF f, args, done, p
<1>6. PICK own : Handed(own, init, done, p)
  <2>1. p.hint \in SUBSET Vals /\ f.at \in 1 .. Len(scopes)
    BY <1>3 DEF p
  <2>. QED  BY <1>4, <2>1, TrackedOwn
<1>7. scopes' = u /\ tracked' = Track(init, done, p)
  BY <1>5 DEF p
<1>. QED  BY <1>6, <1>7 DEF OwnedBy, Handed

\* The scope of a body is at a level below, where links may be shared.
LEMMA EnterInteriorOwn ==
  ASSUME LinkInv, EnterInterior
  PROVE  \E own : OwnedBy(own, scopes', tracked')
<1>. DEFINE f == Top
            v == VariationOf(f)
            p == PredOf(f)
            init == scopes[f.at]
            args == f.g.args
            prev == Len(scopes) + 1
            u == [scopes EXCEPT ![1] = GlobalArgs(init, args, p, TRUE)]
            two == WithArgs(init, args, p, TRUE)
            three == BodyScope(init, args, v.params, p, prev)
<1>1. /\ stack # <<>> /\ Top.k = "call" /\ Top.i <= Len(PredOf(Top).clauses)
      /\ scopes' = u \o <<two, three>> /\ tracked' = Track(init, args, p)
  BY DEF EnterInterior, OnVariation, GoesOn
<1>2. /\ f \in LiveCall(Len(scopes), Len(qctxs))
      /\ args \in Seq(Names) /\ p.hint \in SUBSET Vals /\ f.at \in 1 .. Len(scopes)
      /\ init \in LiveScope(Len(scopes), nlink) /\ Len(scopes) \in Nat
  BY <1>1, CallOwn, LenProperties DEF LinkInv, TypeInv
<1>3. v.params \in Seq(Names) /\ Len(v.params) = Len(args)
  BY <1>1, <1>2, VariationTyped DEF LinkInv
<1>4. prev \in 0 .. Len(scopes) + 1 /\ Len(scopes) + 1 \in Nat
  BY <1>2
<1>. HIDE DEF f, v, p, args, prev
<1>9. PICK own : Handed(own, init, args, p)
  BY <1>2, TrackedOwn
<1>5. /\ OwnedBy(own, scopes, tracked)
      /\ \A j \in 1 .. Len(args) : own[nlink + j] = args[j]
      /\ \A n \in Names : Track(init, args, p)[n] # 0
                            => own[Track(init, args, p)[n]] = n
      /\ u \in Seq(OwnScope(own)) /\ u[1].idx = 1
  BY <1>9 DEF Handed
<1>6. init \in OwnScope(own)
  BY <1>2, <1>5, OwnAt
<1>. HIDE DEF init, u, two, three
<1>7. two \in OwnScope(own)
  <2>1. \A strict \in BOOLEAN : WithArgs(init, args, p, strict) \in OwnScope(own)
    BY <1>2, <1>5, <1>6, WithArgsOwn
  <2>. QED  BY <2>1 DEF two
<1>8. three \in OwnScope(own)
  <2>1. three \in LiveScope(Len(scopes) + 1, nlink + Len(args))
    BY <1>2, <1>3, <1>4, BodyScopeTyped DEF LinkInv, three
  <2>2. three.idx # 0 /\ three.idx # 1
    <3>1. init.idx \in Nat /\ init.idx # 0
      BY <1>6 DEF OwnScope, Scope
    <3>2. three.idx = init.idx + 1
      BY DEF three, BodyScope
    <3>. QED  BY <3>1, <3>2
  <2>. QED  BY <2>1, <2>2 DEF OwnScope, LiveScope
<1>10. scopes' \in Seq(OwnScope(own)) /\ scopes'[1].idx = 1
  <2>1. u # <<>> /\ Len(u) \in Nat /\ 1 \in 1 .. Len(u)
    <3>1. Len(u) = Len(scopes) /\ 1 \in 1 .. Len(scopes)
      <4>1. scopes \in Seq(OwnScope(own)) /\ 1 \in 1 .. Len(scopes)
        BY <1>5, OwnAt
      <4>. QED  BY <4>1 DEF u
    <3>. QED  BY <1>2, <1>5, <3>1, EmptySeq
  <2>2. <<two, three>> \in Seq(OwnScope(own))
    BY <1>7, <1>8, PairTyped
  <2>3. scopes' \in Seq(OwnScope(own)) /\ scopes'[1] = u[1]
    BY <1>1, <1>5, <2>1, <2>2, ConcatProperties
  <2>. QED  BY <1>5, <2>3
<1>. QED  BY <1>1, <1>5, <1>10 DEF OwnedBy

\* A variation in C keeps the links of the scope it runs in.
LEMMA CScopesOwn ==
  ASSUME LinkInv, NEW own, OwnedBy(own, scopes, tracked), NEW f,
         NEW prev \in OwnScope(own), NEW outcome,
         outcome = "narrow" => f.g.args[1] \in Names
  PROVE  /\ CScopes(f, prev, outcome) \in Seq(OwnScope(own))
         /\ CScopes(f, prev, outcome)[1].idx = 1
<1>. DEFINE u == Append(scopes, prev)
            x == f.g.args[1]
            a == IF prev.cell[x].link # 0 THEN Len(scopes) + 1 ELSE 1
            d == u[a].cell[x].dom \cap VariationOf(f).dom
<1>1. /\ u \in Seq(OwnScope(own)) /\ u[1].idx = 1 /\ Len(u) = Len(scopes) + 1
      /\ Len(scopes) \in Nat
  BY OwnAt, AddOwn, AppendTyped
<1>2. CASE outcome # "narrow"
  BY <1>1, <1>2 DEF CScopes
<1>3. CASE outcome = "narrow"
  <2>1. x \in Names /\ a \in 1 .. Len(u)
    BY <1>1, <1>3
  <2>2. PICK r \in OwnScope(own), b \in 1 .. Len(u) : b = a /\ r = u[b]
    <3>. HIDE DEF u, a
    <3>. QED  BY <1>1, <2>1, ElementOfSeq
  <2>3. PICK e \in SUBSET Vals : e = d
    <3>1. r.cell[x] \in Cell
      BY <2>1 DEF OwnScope, Scope
    <3>2. d \in SUBSET Vals
      BY <2>2, <3>1 DEF Cell
    <3>. QED  BY <3>2
  <2>4. Narrowed(r, x, e) \in OwnScope(own) /\ Narrowed(r, x, e).idx = r.idx
    BY <2>1, NarrowOwn
  <2>. DEFINE t == Narrowed(r, x, e)
  <2>5. CScopes(f, prev, outcome) = [u EXCEPT ![b] = t]
    BY <1>3, <2>2, <2>3 DEF CScopes, Narrowed
  <2>. HIDE DEF u, t
  <2>6. [u EXCEPT ![b] = t] \in Seq(OwnScope(own)) /\ [u EXCEPT ![b] = t][1].idx = 1
    BY <1>1, <2>2, <2>4, PutOwn DEF t
  <2>. QED  BY <2>5, <2>6
<1>. QED  BY <1>2, <1>3

\* A variation in C: its arguments have their owners, whatever its outcome.
LEMMA CallCOwn ==
  ASSUME LinkInv, CallC
  PROVE  \E own : OwnedBy(own, scopes', tracked')
<1>. DEFINE f == Top
            p == PredOf(f)
            args == f.g.args
            init == scopes[f.at]
            prev == WithArgs(init, args, p, FALSE)
            outcome == COutcome(f, prev)
<1>1. /\ stack # <<>> /\ Top.k = "call" /\ Top.i <= Len(PredOf(Top).clauses)
      /\ scopes' = CScopes(f, prev, outcome) /\ tracked' = Track(init, args, p)
  BY DEF CallC, OnVariation, GoesOn
<1>2. /\ f \in LiveCall(Len(scopes), Len(qctxs))
      /\ args \in Seq(Names) /\ p.hint \in SUBSET Vals /\ f.at \in 1 .. Len(scopes)
      /\ init \in LiveScope(Len(scopes), nlink)
  BY <1>1, CallOwn
<1>3. outcome \in {"narrow", "inst"} => args[1] \in Names
  <2>. HIDE DEF prev
  <2>. QED  BY <1>1, <1>2, COutcomeTyped DEF LinkInv
<1>7. PICK own : Handed(own, init, args, p)
  <2>. HIDE DEF f, args, p
  <2>. QED  BY <1>2, TrackedOwn
<1>4. /\ OwnedBy(own, scopes, tracked)
      /\ \A j \in 1 .. Len(args) : own[nlink + j] = args[j]
      /\ \A n \in Names : Track(init, args, p)[n] # 0
                            => own[Track(init, args, p)[n]] = n
  BY <1>7 DEF Handed
<1>5. prev \in OwnScope(own)
  <2>1. init \in OwnScope(own)
    BY <1>2, <1>4, OwnAt
  <2>. HIDE DEF f, p, args, init
  <2>2. \A strict \in BOOLEAN : WithArgs(init, args, p, strict) \in OwnScope(own)
    BY <1>2, <1>4, <2>1, WithArgsOwn
  <2>. QED  BY <2>2
<1>. HIDE DEF prev, outcome
<1>6. scopes' \in Seq(OwnScope(own)) /\ scopes'[1].idx = 1
  BY <1>1, <1>3, <1>4, <1>5, CScopesOwn
<1>. QED  BY <1>1, <1>4, <1>6 DEF OwnedBy

-----------------------------------------------------------------------------
(* Owners: generators, copies of a scope, and the invariant *)

\* `x = y` with a choicepoint changes no link.
LEMMA EvalIntersectOwn ==
  ASSUME LinkInv, EvalIntersect
  PROVE  \E own : OwnedBy(own, scopes', tracked')
<1>. DEFINE x == CurrentGoal.x
            y == CurrentGoal.args[1]
            a == Find(x)
            b == Find(y)
            both == scopes[a].cell[x].dom \cap scopes[b].cell[y].dom
<1>1. x \in Names /\ y \in Names
  <2>1. CurrentGoal \in Goal /\ CurrentGoal.op = "eq"
    BY CurrentTyped DEF EvalIntersect, LinkInv
  <2>2. CurrentGoal.args \in Seq(Names) /\ Len(CurrentGoal.args) = 1
    BY <2>1 DEF Goal
  <2>3. CurrentGoal.x \in Names
    BY <2>1 DEF Goal
  <2>. HIDE DEF CurrentGoal
  <2>. QED  BY <2>2, <2>3, ElementOfSeq
<1>2. /\ a # 0 /\ b # 0 /\ UNCHANGED tracked
      /\ scopes' = scopes \/ scopes' = BothHeld(a, x, b, y, both, FALSE)
  BY DEF EvalIntersect, BothHeld
<1>3. a \in 1 .. Len(scopes) /\ b \in 1 .. Len(scopes)
  BY <1>1, <1>2, FindTyped DEF LinkInv
<1>4. both \in SUBSET Vals
  <2>. HIDE DEF a, b, x, y
  <2>. QED  BY <1>1, <1>3, ScopeAt DEF LinkInv
<1>. HIDE DEF x, y, a, b, both
<1>5. PICK own : OwnedBy(own, scopes, tracked)
  BY DEF LinkInv
<1>6. \A e \in BOOLEAN : /\ BothHeld(a, x, b, y, both, e) \in Seq(OwnScope(own))
                         /\ BothHeld(a, x, b, y, both, e)[1].idx = 1
  BY <1>1, <1>3, <1>4, <1>5, AssignBothOwn
<1>. QED  BY <1>2, <1>5, <1>6 DEF OwnedBy

\* The next value of a generator changes no link.
LEMMA NextValueOwn ==
  ASSUME LinkInv, NextValue
  PROVE  \E own : OwnedBy(own, scopes', tracked')
<1>1. PICK v \in Top.todo :
        LET set == Assign(Top.at, Top.x, {v}, TRUE)
        IN  scopes' = Append(set, set[scope])
  BY DEF NextValue
<1>2. Top \in LiveGen(Len(scopes), Len(qctxs)) /\ Top \in GenFrame
  BY TopGen DEF NextValue, GoesOn, LinkInv
<1>3. /\ Top.at \in 1 .. Len(scopes) /\ Top.x \in Names
      /\ {v} \in SUBSET Vals
  BY <1>1, <1>2 DEF LiveGen, GenFrame
<1>4. PICK own : OwnedBy(own, scopes, tracked)
  BY DEF LinkInv
<1>. DEFINE set == Assign(Top.at, Top.x, {v}, TRUE)
<1>5. set \in Seq(OwnScope(own)) /\ Len(set) = Len(scopes) /\ set[1].idx = 1
  BY <1>3, <1>4, AssignOwn
<1>6. scopes' = Append(set, set[scope])
  BY <1>1
<1>. HIDE DEF set
<1>7. /\ set[scope] \in OwnScope(own) /\ set # <<>>
  <2>1. scope \in 1 .. Len(set) /\ Len(set) \in Nat \ {0}
    BY <1>4, <1>5, OwnAt
  <2>. QED  BY <1>5, <2>1, ElementOfSeq, EmptySeq
<1>8. scopes' \in Seq(OwnScope(own)) /\ scopes'[1].idx = 1
  BY <1>5, <1>6, <1>7, AddOwn
<1>9. UNCHANGED tracked
  BY DEF NextValue
<1>. QED  BY <1>4, <1>8, <1>9 DEF OwnedBy

\* An implication, an alternative and an isolated set run in a copy of the scope.
LEMMA CopiesOwn ==
  ASSUME LinkInv, EvalImply \/ NextAlternative \/ EvalIsolated
  PROVE  \E own : OwnedBy(own, scopes', tracked')
<1>1. PICK s \in Scope :
        s.idx = Here.idx /\ s.cell = Here.cell /\ scopes' = Append(scopes, s)
  <2>1. Here \in Scope /\ Here.repeat + 2 \in Nat /\ Here.repeat + 1 \in Nat
    <3>1. Here \in Scope
      BY HereTyped DEF LinkInv, LiveScope
    <3>. QED  BY <3>1 DEF Scope
  <2>2. CASE EvalImply
    <3>1. [Here EXCEPT !.repeat = @ + 2] \in Scope
      BY <2>1 DEF Scope
    <3>. QED  BY <2>1, <2>2, <3>1 DEF EvalImply, Scope
  <2>3. CASE NextAlternative
    <3>1. [Here EXCEPT !.repeat = @ + 1] \in Scope
      BY <2>1 DEF Scope
    <3>. QED  BY <2>1, <2>3, <3>1 DEF NextAlternative, Scope
  <2>4. CASE EvalIsolated
    <3>1. [Here EXCEPT !.next = 0, !.repeat = 0] \in Scope
      BY <2>1 DEF Scope
    <3>. QED  BY <2>1, <2>4, <3>1 DEF EvalIsolated, Scope
  <2>. QED  BY <2>2, <2>3, <2>4
<1>2. scope \in 1 .. Len(scopes)
  BY HereTyped DEF LinkInv
<1>3. UNCHANGED tracked
  BY DEF EvalImply, NextAlternative, EvalIsolated
<1>. QED  BY <1>1, <1>2, <1>3, CopyOwn DEF Here

\* A step of the engine leaves every link to its owner.
LEMMA StepOwn ==
  ASSUME LinkInv, [Next]_vars
  PROVE  LinkInv'
<1>1. TypeInv'
  BY StepType DEF LinkInv
<1>2. CASE UNCHANGED <<scopes, tracked>>
  BY <1>1, <1>2, SameOwn DEF LinkInv
<1>. SUFFICES ASSUME ~UNCHANGED <<scopes, tracked>>
     PROVE  \E own : OwnedBy(own, scopes', tracked')
  BY <1>1, <1>2 DEF LinkInv
<1>3. CASE Immediate
  <2>1. ~EvalRename /\ ~EvalCut
    BY DEF EvalRename, EvalCut, mem
  <2>. QED  BY <1>3, <2>1, EvalAssertOwn, EvalEqOwn DEF Immediate
<1>4. CASE LaureStart
  <2>1. /\ ~NextExpression /\ ~LeaveList /\ ~Silent /\ ~Showcast /\ ~Send
        /\ ~SendScope
    BY DEF NextExpression, LeaveList, Silent, Showcast, Send, SendScope, mem
  <2>. QED  BY <1>4, <2>1, ContinueOwn DEF LaureStart
<1>5. CASE PredCall
  <2>1. ~BodyReturns /\ ~ContinuationReturns /\ ~InstReturns /\ ~Exhausted
    BY DEF BodyReturns, ContinuationReturns, InstReturns, Exhausted, mem
  <2>. QED  BY <1>5, <2>1, EvalCallOwn, ArgMismatchOwn, EnterInteriorOwn, CallCOwn
            DEF PredCall
<1>6. CASE Generators
  <2>1. ~EvalUnify /\ ~EvalQuant /\ ~ValueReturns /\ ~NoMoreValues
    BY DEF EvalUnify, EvalQuant, ValueReturns, NoMoreValues, mem
  <2>. QED  BY <1>6, <2>1, EvalIntersectOwn, NextValueOwn DEF Generators
<1>7. CASE Branching
  <2>1. /\ ~ImplyReturns /\ ~EvalChoice /\ ~AlternativeReturns /\ ~NoMoreAlternatives
        /\ ~EvalEmptySet /\ ~IsolatedReturns /\ ~EvalSet /\ ~SetReturns
    BY DEF ImplyReturns, EvalChoice, AlternativeReturns, NoMoreAlternatives,
           EvalEmptySet, IsolatedReturns, EvalSet, SetReturns, mem
  <2>. QED  BY <1>7, <2>1, CopiesOwn DEF Branching
<1>8. ~CallCrashes /\ ~GoalCrashes /\ ~UNCHANGED vars
  BY DEF CallCrashes, GoalCrashes, Crash, mem, vars
<1>. QED  BY <1>3, <1>4, <1>5, <1>6, <1>7, <1>8 DEF Next, Finished

\* At the query's level no two variables ever share a link, in any two copies of
\* the scope or in the table of tracked names: what the goals find for one
\* variable is not shown as, nor merged into, another (query.c, pred_call_procvar
\* and laure_eval_unify; the conjunct of LinksDistinct that holds of every
\* program, arguments that are repeated and global variables included).
THEOREM LinksHaveOneOwner == Spec => []QueryLinks
<1>1. Init => LinkInv
  BY InitOwn
<1>2. LinkInv /\ [Next]_vars => LinkInv'
  BY StepOwn
<1>3. LinkInv => QueryLinks
  BY OwnersApart
<1>. QED  BY <1>1, <1>2, <1>3, PTL DEF Spec

-----------------------------------------------------------------------------
(* Scopes and the activations that wait for what runs in their copies *)

\* The highest address of a scope that an activation leaves as it is.
Floor(f) == IF f.k = "call" THEN f.at ELSE f.sc
\* f works in scopes made after the address b, or in the global one.
Above(f, b) == f.sc > b /\ (f.k = "gen" => f.at = 1 \/ f.at > b)
\* A call has its copy of the caller's scope, whose bindings are those of the caller.
Placed(f, m) ==
  f.k = "call" => /\ f.sc < f.at
                  /\ f.sc # 1 => m[f.at] = m[f.sc]
                  /\ f.ph = "inst" => f.prev > f.at
\* An activation that is not the innermost one waits for what runs in a later scope.
Waits(f, a) == Copying(f) => (a > Floor(f) /\ (f.k = "call" => f.ph # "next"))
OnTop(f, a) == (f.k = "call" /\ f.ph = "next") => a = f.sc

ScopeInv ==
  /\ \A j \in 1 .. Len(stack) : Placed(stack[j], scopes)
  /\ \A j \in 1 .. Len(stack) - 1 : Waits(stack[j], scope)
  /\ \A j \in 1 .. Len(stack) - 1 : Copying(stack[j]) =>
       \A i \in j + 1 .. Len(stack) : Above(stack[i], Floor(stack[j]))
  /\ stack # <<>> => OnTop(Top, scope)

\* An address above everything that the activations below the top one rely on.
High(a) == \A j \in 1 .. Len(stack) - 1 : Copying(stack[j]) => a > Floor(stack[j])
\* A step that writes in place at w only, and in the global scope.
Spares(w) == /\ Len(scopes') \in Nat /\ Len(scopes) <= Len(scopes')
             /\ \A b \in 2 .. Len(scopes) : b # w => scopes'[b] = scopes[b]
Apart(w) == Spares(w) /\ (w = 1 \/ (High(w) /\ Top.k # "call"))

\* h is f as far as scopes are concerned.
Keeps(h, f) == /\ h.k = f.k /\ h.sc = f.sc
               /\ f.k = "call" => h.at = f.at /\ h.ph = f.ph /\ h.prev = f.prev
               /\ f.k = "gen" => h.at = f.at
Rises(f) == High(f.sc) /\ (f.k = "gen" => f.at = 1 \/ High(f.at))

\* What a step makes of the stack: the frames below the top one stay, and those in
\* place of the top one are above them.
Rebuilt ==
  /\ Len(stack') \in Nat /\ Len(stack) - 1 <= Len(stack')
  /\ \A j \in 1 .. Len(stack) - 1 : Keeps(stack'[j], stack[j])
  /\ \A i \in Len(stack) .. Len(stack') : Rises(stack'[i]) /\ Placed(stack'[i], scopes')
  /\ \A i \in Len(stack) .. Len(stack') - 1 :
       /\ Waits(stack'[i], scope')
       /\ Copying(stack'[i]) =>
            \A l \in i + 1 .. Len(stack') : Above(stack'[l], Floor(stack'[i]))
  /\ Len(stack) <= Len(stack') => OnTop(stack'[Len(stack')], scope')

\* The addresses in a frame are those of scopes.
LEMMA FramesPlaced ==
  ASSUME TypeInv, NEW j \in 1 .. Len(stack)
  PROVE  /\ Len(scopes) \in Nat /\ scope \in 1 .. Len(scopes)
         /\ stack[j].sc \in 1 .. Len(scopes)
         /\ stack[j].k = "call" => stack[j].at \in 1 .. Len(scopes) /\ stack[j].prev \in Nat
         /\ stack[j].k = "gen" => stack[j].at \in 1 .. Len(scopes)
         /\ Floor(stack[j]) \in 1 .. Len(scopes)
<1>1. stack[j] \in Frames /\ Len(scopes) \in Nat /\ Len(qctxs) \in Nat
      /\ scope \in 1 .. Len(scopes)
  BY ElementOfSeq, LenProperties DEF TypeInv
<1>2. stack[j].k = "call" => stack[j].at \in 1 .. Len(scopes) /\ stack[j].prev \in Nat
  BY <1>1, FrameKinds DEF Frames, LiveCall
<1>3. stack[j].k = "gen" => stack[j].at \in 1 .. Len(scopes)
  BY <1>1, FrameKinds DEF Frames, LiveGen
<1>4. stack[j].sc \in 1 .. Len(scopes)
  BY <1>1, FrameKinds DEF Frames
<1>. QED  BY <1>1, <1>2, <1>3, <1>4 DEF Floor

\* What is high when the invariant holds.
LEMMA Highs ==
  ASSUME TypeInv, ScopeInv, stack # <<>>
  PROVE  /\ High(scope) /\ Rises(Top) /\ Placed(Top, scopes)
         /\ Top.k = "call" => High(Top.at)
         /\ \A a \in Nat : a > Len(scopes) => High(a)
         /\ Len(stack) \in Nat \ {0} /\ Top = stack[Len(stack)]
<1>1. Len(stack) \in Nat \ {0} /\ Top = stack[Len(stack)]
  BY PopShape
<1>2. High(scope)
  BY DEF ScopeInv, Waits, High
<1>3. ASSUME NEW j \in 1 .. Len(stack) - 1, Copying(stack[j])
      PROVE  /\ Above(Top, Floor(stack[j])) /\ Floor(stack[j]) \in 1 .. Len(scopes)
  BY <1>1, <1>3, FramesPlaced DEF ScopeInv
<1>4. Rises(Top)
  BY <1>3 DEF Rises, High, Above
<1>5. Placed(Top, scopes)
  BY <1>1 DEF ScopeInv
<1>6. ASSUME Top.k = "call" PROVE High(Top.at)
  <2>1. Top.sc < Top.at /\ Top.at \in Nat /\ Top.sc \in Nat
    BY <1>1, <1>5, <1>6, FramesPlaced DEF Placed
  <2>2. ASSUME NEW j \in 1 .. Len(stack) - 1, Copying(stack[j])
        PROVE  Top.at > Floor(stack[j])
    BY <1>3, <2>1, <2>2 DEF Above
  <2>. QED  BY <2>2 DEF High
<1>7. ASSUME NEW a \in Nat, a > Len(scopes) PROVE High(a)
  <2>1. ASSUME NEW j \in 1 .. Len(stack) - 1, Copying(stack[j]) PROVE a > Floor(stack[j])
    BY <1>1, <1>3, <1>7, <2>1, LenProperties DEF TypeInv
  <2>. QED  BY <2>1 DEF High
<1>. QED  BY <1>1, <1>2, <1>4, <1>5, <1>6, <1>7

\* What is written apart leaves the scopes that a frame relies on.
LEMMA PlacedStays ==
  ASSUME TypeInv, ScopeInv, NEW w, Apart(w), NEW j \in 1 .. Len(stack),
         j < Len(stack) \/ w = 1
  PROVE  Placed(stack[j], scopes')
<1>. SUFFICES ASSUME stack[j].k = "call", stack[j].sc # 1
              PROVE  scopes'[stack[j].at] = scopes'[stack[j].sc]
  BY DEF ScopeInv, Placed
<1>1. /\ stack[j].sc \in 2 .. Len(scopes) /\ stack[j].at \in 2 .. Len(scopes)
      /\ stack[j].sc < stack[j].at /\ scopes[stack[j].at] = scopes[stack[j].sc]
      /\ Floor(stack[j]) = stack[j].at /\ Copying(stack[j])
  BY FramesPlaced DEF ScopeInv, Placed, Floor, Copying
<1>2. w # stack[j].sc /\ w # stack[j].at
  BY <1>1 DEF Apart, High
<1>. QED  BY <1>1, <1>2 DEF Apart, Spares

\* The same of the scopes that waiting activations were met in.
LEMMA CallersStay ==
  ASSUME TypeInv, ScopeInv, NEW w, Apart(w)
  PROVE  KeepsCallers
<1>1. Len(stack) \in Nat
  BY LenProperties DEF TypeInv
<1>2. ASSUME NEW j \in 1 .. Len(stack) - 1, Copying(stack[j]), stack[j].sc # 1
      PROVE  scopes'[stack[j].sc] = scopes[stack[j].sc]
  <2>1. stack[j].sc \in 2 .. Len(scopes) /\ Floor(stack[j]) \in 1 .. Len(scopes)
    BY <1>1, <1>2, FramesPlaced
  <2>2. stack[j].sc <= Floor(stack[j])
    BY <1>1, <2>1, FramesPlaced DEF ScopeInv, Placed, Floor
  <2>3. w # stack[j].sc
    BY <1>2, <2>1, <2>2 DEF Apart, High
  <2>. QED  BY <2>1, <2>3 DEF Apart, Spares
<1>3. ASSUME NEW j \in Calls PROVE scopes'[stack[j].at] = scopes[stack[j].at]
  <2>1. j \in 1 .. Len(stack) /\ stack[j].k = "call"
    BY DEF Calls
  <2>2. /\ stack[j].at \in 2 .. Len(scopes) /\ Floor(stack[j]) = stack[j].at
        /\ Copying(stack[j])
    BY <2>1, FramesPlaced DEF ScopeInv, Placed, Floor, Copying
  <2>3. w # stack[j].at
    <3>1. CASE j \in 1 .. Len(stack) - 1
      BY <2>2, <3>1 DEF Apart, High
    <3>2. CASE j = Len(stack)
      <4>1. Top.k = "call"
        BY <2>1, <3>2 DEF Top
      <4>. QED  BY <2>2, <4>1 DEF Apart
    <3>. QED  BY <1>1, <2>1, <3>1, <3>2
  <2>. QED  BY <2>2, <2>3 DEF Apart, Spares
<1>. QED  BY <1>2, <1>3 DEF KeepsCallers

\* Keeping the addresses of a frame keeps what is said of it.
LEMMA KeepsSays ==
  ASSUME NEW h, NEW f, Keeps(h, f)
  PROVE  /\ Floor(h) = Floor(f) /\ (Copying(h) <=> Copying(f))
         /\ \A b : Above(f, b) => Above(h, b)
         /\ \A m : Placed(f, m) => Placed(h, m)
         /\ \A a : Waits(f, a) => Waits(h, a)
         /\ \A a : OnTop(f, a) => OnTop(h, a)
         /\ Rises(f) => Rises(h)
<1>1. Floor(h) = Floor(f) /\ (Copying(h) <=> Copying(f))
  BY DEF Keeps, Floor, Copying
<1>2. \A b : Above(f, b) => Above(h, b)
  BY DEF Keeps, Above
<1>3. \A m : Placed(f, m) => Placed(h, m)
  BY DEF Keeps, Placed
<1>4. \A a : Waits(f, a) => Waits(h, a)
  BY <1>1 DEF Keeps, Waits
<1>5. \A a : OnTop(f, a) => OnTop(h, a)
  BY DEF Keeps, OnTop
<1>6. Rises(f) => Rises(h)
  BY DEF Keeps, Rises
<1>. QED  BY <1>1, <1>2, <1>3, <1>4, <1>5, <1>6

\* A stack rebuilt above what waits is one where everything waits for what is above.
LEMMA RebuiltHolds ==
  ASSUME TypeInv, ScopeInv, stack # <<>>, NEW w, Apart(w), High(scope'), Rebuilt,
         stack' \in Seq(Frames')
  PROVE  ScopeInv'
<1>. DEFINE n == Len(stack) - 1
            N == Len(stack')
<1>1. n \in Nat /\ N \in Nat /\ n <= N /\ Len(stack) = n + 1
  BY Highs DEF Rebuilt
<1>2. ASSUME NEW j \in 1 .. n
      PROVE  /\ Keeps(stack'[j], stack[j]) /\ Placed(stack[j], scopes')
             /\ Waits(stack[j], scope)
  BY <1>1, <1>2, PlacedStays DEF Rebuilt, ScopeInv
<1>3. ASSUME NEW j \in 1 .. N PROVE Placed(stack'[j], scopes')
  <2>1. CASE j \in 1 .. n
    BY <1>2, <2>1, KeepsSays
  <2>2. CASE j \in n + 1 .. N
    BY <1>1, <2>2 DEF Rebuilt
  <2>. QED  BY <1>1, <2>1, <2>2
<1>4. ASSUME NEW j \in 1 .. N - 1 PROVE Waits(stack'[j], scope')
  <2>1. CASE j \in 1 .. n
    <3>1. Waits(stack[j], scope')
      BY <1>2, <2>1 DEF Waits, High
    <3>. QED  BY <1>2, <2>1, <3>1, KeepsSays
  <2>2. CASE j \in n + 1 .. N - 1
    BY <1>1, <2>2 DEF Rebuilt
  <2>. QED  BY <1>1, <2>1, <2>2
<1>5. ASSUME NEW j \in 1 .. N - 1, Copying(stack'[j]), NEW i \in j + 1 .. N
      PROVE  Above(stack'[i], Floor(stack'[j]))
  <2>1. CASE j \in 1 .. n
    <3>1. Floor(stack'[j]) = Floor(stack[j]) /\ Copying(stack[j])
      BY <1>2, <1>5, <2>1, KeepsSays
    <3>2. CASE i \in 1 .. n
      <4>1. Above(stack[i], Floor(stack[j]))
        BY <1>1, <2>1, <3>1, <3>2 DEF ScopeInv
      <4>. QED  BY <1>2, <3>1, <3>2, <4>1, KeepsSays
    <3>3. CASE i \in n + 1 .. N
      <4>1. Rises(stack'[i])
        BY <1>1, <3>3 DEF Rebuilt
      <4>. QED  BY <2>1, <3>1, <4>1 DEF Rises, High, Above
    <3>. QED  BY <1>1, <2>1, <3>2, <3>3
  <2>2. CASE j \in n + 1 .. N - 1
    BY <1>1, <1>5, <2>2 DEF Rebuilt
  <2>. QED  BY <1>1, <2>1, <2>2
<1>6. ASSUME N > 0 PROVE OnTop(stack'[N], scope')
  <2>1. CASE n < N
    BY <1>1, <2>1 DEF Rebuilt
  <2>2. CASE n = N
    <3>1. N \in 1 .. n /\ stack[N] = stack[n]
      BY <1>1, <1>6, <2>2
    <3>2. Keeps(stack'[N], stack[N]) /\ Waits(stack[N], scope)
      BY <1>2, <3>1
    <3>3. stack[N].k = "call" => stack[N].ph # "next"
      BY <3>2 DEF Waits, Copying
    <3>. QED  BY <3>2, <3>3 DEF Keeps, OnTop
  <2>. HIDE DEF n, N
  <2>3. n < N \/ n = N
    BY <1>1
  <2>. QED  BY <2>1, <2>2, <2>3, Zenon
<1>7. stack' # <<>> => N > 0 /\ Top' = stack'[N]
  BY <1>1, EmptySeq DEF Top
<1>. HIDE DEF n
<1>. QED  BY <1>3, <1>4, <1>5, <1>6, <1>7 DEF ScopeInv

\* What is said of a call and of what waits for others says nothing of a list.
LEMMA ListsAreFree ==
  ASSUME NEW f, f.k # "call"
  PROVE  /\ \A m : Placed(f, m)
         /\ \A a : OnTop(f, a)
         /\ ~Copying(f) => \A a : Waits(f, a)
BY DEF Placed, OnTop, Waits

\* An activation ends.
LEMMA EndRebuilds ==
  ASSUME TypeInv, stack # <<>>, stack' = Callers
  PROVE  Rebuilt
<1>1. /\ Len(stack) \in Nat \ {0} /\ Len(stack') = Len(stack) - 1
      /\ \A j \in 1 .. Len(stack) - 1 : stack'[j] = stack[j]
  BY PopShape
<1>. QED  BY <1>1 DEF Rebuilt, Keeps

\* The innermost activation goes on.
LEMMA GoingOnRebuilds ==
  ASSUME TypeInv, stack # <<>>, NEW h, stack' = WithTop(h),
         Rises(h), Placed(h, scopes'), OnTop(h, scope')
  PROVE  Rebuilt
<1>1. /\ Len(stack) \in Nat \ {0} /\ Len(stack') = Len(stack)
      /\ \A j \in 1 .. Len(stack) - 1 : stack'[j] = stack[j]
      /\ stack'[Len(stack)] = h
  <2>. DEFINE t == WithTop(h)
  <2>1. /\ Len(t) = Len(stack)
        /\ \A j \in 1 .. Len(stack) : t[j] = IF j = Len(stack) THEN h ELSE stack[j]
    BY TopShape
  <2>2. stack' = t
    OBVIOUS
  <2>. HIDE DEF t
  <2>. QED  BY <2>1, <2>2, PopShape
<1>. QED  BY <1>1 DEF Rebuilt, Keeps

\* The innermost activation goes on and starts another one.
LEMMA StartRebuilds ==
  ASSUME TypeInv, stack # <<>>, NEW h, NEW e,
         \/ stack' = Append(WithTop(h), e)
         \/ stack' = Append(stack, e) /\ h = Top,
         Rises(h), Placed(h, scopes'), Waits(h, scope'),
         Copying(h) => Above(e, Floor(h)),
         Rises(e), Placed(e, scopes'), OnTop(e, scope')
  PROVE  Rebuilt
<1>1. /\ Len(stack) \in Nat \ {0} /\ Len(stack') = Len(stack) + 1
      /\ \A j \in 1 .. Len(stack) - 1 : stack'[j] = stack[j]
      /\ stack'[Len(stack)] = h /\ stack'[Len(stack) + 1] = e
  <2>1. CASE stack' = Append(WithTop(h), e)
    <3>. DEFINE t == Append(WithTop(h), e)
    <3>1. /\ Len(t) = Len(stack) + 1
          /\ \A j \in 1 .. Len(stack) : t[j] = IF j = Len(stack) THEN h ELSE stack[j]
          /\ t[Len(stack) + 1] = e
      BY TopPushShape
    <3>2. stack' = t
      BY <2>1
    <3>. HIDE DEF t
    <3>. QED  BY <3>1, <3>2, PopShape
  <2>2. CASE stack' = Append(stack, e) /\ h = Top
    BY <2>2, PopShape, PushShape
  <2>. QED  BY <2>1, <2>2
<1>2. \A i \in Len(stack) .. Len(stack') : i = Len(stack) \/ i = Len(stack) + 1
  BY <1>1
<1>3. \A i \in Len(stack) .. Len(stack') : Rises(stack'[i]) /\ Placed(stack'[i], scopes')
  BY <1>1, <1>2
<1>4. ASSUME NEW i \in Len(stack) .. Len(stack') - 1
      PROVE  /\ Waits(stack'[i], scope')
             /\ Copying(stack'[i]) =>
                  \A l \in i + 1 .. Len(stack') : Above(stack'[l], Floor(stack'[i]))
  <2>1. i = Len(stack) /\ \A l \in i + 1 .. Len(stack') : l = Len(stack) + 1
    BY <1>1, <1>4
  <2>. QED  BY <1>1, <2>1
<1>. QED  BY <1>1, <1>3, <1>4 DEF Rebuilt, Keeps

\* The list under evaluation waits for two more activations.
LEMMA PairRebuilds ==
  ASSUME TypeInv, stack # <<>>, NEW h, NEW e, stack' = stack \o <<h, e>>,
         Rises(Top), Top.k = "start",
         Rises(h), Placed(h, scopes'), Waits(h, scope'),
         Copying(h) => Above(e, Floor(h)),
         Rises(e), Placed(e, scopes'), OnTop(e, scope')
  PROVE  Rebuilt
<1>1. /\ Len(stack) \in Nat \ {0} /\ Len(stack') = Len(stack) + 2
      /\ \A j \in 1 .. Len(stack) : stack'[j] = stack[j]
      /\ stack'[Len(stack)] = Top
      /\ stack'[Len(stack) + 1] = h /\ stack'[Len(stack) + 2] = e
  BY PopShape, PairShape
<1>2. ~Copying(Top) /\ Placed(Top, scopes') /\ Waits(Top, scope')
  BY ListsAreFree DEF Copying
<1>3. \A i \in Len(stack) .. Len(stack') :
        i = Len(stack) \/ i = Len(stack) + 1 \/ i = Len(stack) + 2
  BY <1>1
<1>4. \A i \in Len(stack) .. Len(stack') : Rises(stack'[i]) /\ Placed(stack'[i], scopes')
  BY <1>1, <1>2, <1>3
<1>5. ASSUME NEW i \in Len(stack) .. Len(stack') - 1
      PROVE  /\ Waits(stack'[i], scope')
             /\ Copying(stack'[i]) =>
                  \A l \in i + 1 .. Len(stack') : Above(stack'[l], Floor(stack'[i]))
  <2>1. CASE i = Len(stack)
    BY <1>1, <1>2, <2>1
  <2>2. CASE i = Len(stack) + 1
    <3>1. \A l \in i + 1 .. Len(stack') : l = Len(stack) + 2
      BY <1>1, <2>2
    <3>. QED  BY <1>1, <2>2, <3>1
  <2>. QED  BY <1>1, <1>5, <2>1, <2>2
<1>6. \A j \in 1 .. Len(stack) - 1 : Keeps(stack'[j], stack[j])
  BY <1>1 DEF Keeps
<1>7. /\ Len(stack') \in Nat /\ Len(stack) - 1 <= Len(stack')
      /\ Len(stack) <= Len(stack') => OnTop(stack'[Len(stack')], scope')
  BY <1>1
<1>. QED  BY <1>4, <1>5, <1>6, <1>7 DEF Rebuilt

\* An expression that responds at once.
LEMMA StayingRebuilds ==
  ASSUME TypeInv, ScopeInv, stack # <<>>, Top.k = "start", Len(stack') = Len(stack),
         \A j \in 1 .. Len(stack) : Keeps(stack'[j], stack[j])
  PROVE  Rebuilt
<1>1. /\ Len(stack) \in Nat \ {0} /\ Top = stack[Len(stack)] /\ Rises(Top)
  BY Highs
<1>2. Keeps(stack'[Len(stack)], Top)
  BY <1>1
<1>3. Rises(stack'[Len(stack)]) /\ stack'[Len(stack)].k # "call"
  BY <1>1, <1>2, KeepsSays DEF Keeps
<1>4. \A i \in Len(stack) .. Len(stack') : i = Len(stack)
  BY <1>1
<1>. QED  BY <1>1, <1>3, <1>4, ListsAreFree DEF Rebuilt

\* What the steps do to the scopes: one of them is written, others are made.
LEMMA Written ==
  ASSUME NEW S, NEW s \in Seq(S), NEW w, NEW v
  PROVE  /\ Len([s EXCEPT ![w] = v]) = Len(s) /\ Len(s) \in Nat
         /\ [s EXCEPT ![w] = v] \in Seq(S \cup {v})
         /\ \A b \in 1 .. Len(s) : b # w => [s EXCEPT ![w] = v][b] = s[b]
<1>. DEFINE T == S \cup {v}
<1>1. s \in Seq(T) /\ v \in T
  BY SeqOfMore
<1>2. Len(s) \in Nat
  BY LenProperties
<1>. HIDE DEF T
<1>3. CASE w \in 1 .. Len(s)
  BY <1>1, <1>2, <1>3, UpdateTyped DEF T
<1>4. CASE w \notin 1 .. Len(s)
  <2>1. [s EXCEPT ![w] = v] = s
    BY <1>1, <1>4
  <2>. QED  BY <1>1, <1>2, <2>1 DEF T
<1>. QED  BY <1>3, <1>4

\* What appending an element makes.
LEMMA Made ==
  ASSUME NEW S, NEW s \in Seq(S), NEW e
  PROVE  /\ Len(Append(s, e)) = Len(s) + 1 /\ Len(s) \in Nat
         /\ \A b \in 1 .. Len(s) : Append(s, e)[b] = s[b]
         /\ Append(s, e)[Len(s) + 1] = e
<1>. DEFINE T == S \cup {e}
<1>1. s \in Seq(T) /\ e \in T
  BY SeqOfMore
<1>. HIDE DEF T
<1>. QED  BY <1>1, AppendTyped, LenProperties

\* A step that writes no scope, or makes one, or writes one that is high or global.
LEMMA SparesAll ==
  ASSUME TypeInv, \/ UNCHANGED scopes
                  \/ \E e : scopes' = Append(scopes, e)
  PROVE  Apart(1)
<1>. DEFINE S == LiveScope(Len(scopes), nlink)
<1>1. scopes \in Seq(S) /\ Len(scopes) \in Nat
  BY LenProperties DEF TypeInv
<1>. HIDE DEF S
<1>2. ASSUME NEW e, scopes' = Append(scopes, e) PROVE Apart(1)
  <2>1. /\ Len(scopes') = Len(scopes) + 1
        /\ \A b \in 1 .. Len(scopes) : scopes'[b] = scopes[b]
    BY <1>1, <1>2, Made
  <2>. QED  BY <1>1, <2>1 DEF Apart, Spares
<1>. QED  BY <1>1, <1>2 DEF Apart, Spares

\* A step that writes one scope, and may then make another, spares what is below it.
LEMMA SparesOthers ==
  ASSUME TypeInv, NEW w, w = 1 \/ (High(w) /\ Top.k # "call"), NEW v,
         \/ scopes' = [scopes EXCEPT ![w] = v]
         \/ \E e : scopes' = Append([scopes EXCEPT ![w] = v], e)
  PROVE  Apart(w)
<1>. DEFINE S == LiveScope(Len(scopes), nlink)
            T == S \cup {v}
            t == [scopes EXCEPT ![w] = v]
<1>1. scopes \in Seq(S)
  BY DEF TypeInv
<1>. HIDE DEF S
<1>2. /\ Len(t) = Len(scopes) /\ Len(scopes) \in Nat /\ t \in Seq(T)
      /\ \A b \in 1 .. Len(scopes) : b # w => t[b] = scopes[b]
  <2>1. /\ Len([scopes EXCEPT ![w] = v]) = Len(scopes) /\ Len(scopes) \in Nat
        /\ [scopes EXCEPT ![w] = v] \in Seq(S \cup {v})
    BY ONLY <1>1, Written
  <2>2. \A b \in 1 .. Len(scopes) : b # w => [scopes EXCEPT ![w] = v][b] = scopes[b]
    BY ONLY <1>1, Written
  <2>. QED  BY <2>1, <2>2
<1>3. scopes' = t \/ \E e : scopes' = Append(t, e)
  OBVIOUS
<1>. HIDE DEF t, T
<1>4. CASE scopes' = t
  BY <1>2, <1>4 DEF Apart, Spares
<1>5. ASSUME NEW e, scopes' = Append(t, e) PROVE Apart(w)
  <2>1. /\ Len(scopes') = Len(t) + 1
        /\ \A b \in 1 .. Len(t) : scopes'[b] = t[b]
    BY <1>2, <1>5, Made
  <2>. QED  BY <1>2, <2>1 DEF Apart, Spares
<1>. QED  BY <1>3, <1>4, <1>5

\* What a step has to do to keep bindings where they are: it writes in a scope that
\* nothing relies on, runs on in one, and rebuilds the stack.
Lands ==
  \/ stack' = <<>> /\ UNCHANGED scopes
  \/ stack # <<>> /\ (\E w : Apart(w)) /\ High(scope') /\ Rebuilt

\* A step that lands, in whichever way, keeps the invariant and what waits as it was.
LEMMA LandsHolds ==
  ASSUME TypeInv, ScopeInv, Lands, stack' \in Seq(Frames')
  PROVE  ScopeInv' /\ KeepsCallers
<1>1. CASE stack' = <<>> /\ UNCHANGED scopes
  <2>1. Len(stack') = 0
    BY <1>1
  <2>. QED  BY <1>1, <2>1 DEF ScopeInv, KeepsCallers
<1>2. ASSUME stack # <<>>, NEW w, Apart(w), High(scope'), Rebuilt
      PROVE  ScopeInv' /\ KeepsCallers
  BY <1>2, RebuiltHolds, CallersStay
<1>. QED  BY <1>1, <1>2 DEF Lands

\* An activation ends, and the scope is as it was or its own again.
LEMMA Leaving ==
  ASSUME TypeInv, ScopeInv, stack # <<>>, stack' = Callers, UNCHANGED scopes,
         scope' \in {scope, Top.sc}
  PROVE  Lands
<1>1. High(scope')
  BY Highs DEF Rises
<1>. QED  BY <1>1, EndRebuilds, SparesAll DEF Lands

\* A list is started or goes on.
LEMMA ListsRise ==
  ASSUME NEW list, NEW a
  PROVE  /\ Start(list, a).k = "start" /\ Start(list, a).sc = a
         /\ \A m : Placed(Start(list, a), m)
         /\ \A b : OnTop(Start(list, a), b)
         /\ ~Copying(Start(list, a))
         /\ High(a) => Rises(Start(list, a))
         /\ \A b : a > b => Above(Start(list, a), b)
<1>1. Start(list, a).k = "start" /\ Start(list, a).sc = a
  BY DEF Start
<1>. QED  BY <1>1, ListsAreFree DEF Copying, Rises, Above

\* An expression of a list responds, and starts nothing.
LEMMA Responds ==
  ASSUME TypeInv, ScopeInv, stack # <<>>, Top.k = "start", UNCHANGED scope,
         \/ stack' = stack
         \/ stack' = [j \in 1 .. Len(stack) |-> Commit(j)],
         NEW w, Apart(w)
  PROVE  Lands
<1>1. High(scope') /\ Len(stack) \in Nat
  BY Highs
<1>2. \A f : Keeps(f, f)
  BY DEF Keeps
<1>3. CASE stack' = stack
  <2>1. Len(stack') = Len(stack) /\ \A j \in 1 .. Len(stack) : Keeps(stack'[j], stack[j])
    BY <1>2, <1>3
  <2>. QED  BY <1>1, <2>1, StayingRebuilds DEF Lands
<1>4. CASE stack' = [j \in 1 .. Len(stack) |-> Commit(j)]
  <2>1. ASSUME NEW j \in 1 .. Len(stack) PROVE Keeps(Commit(j), stack[j])
    <3>1. stack[j] \in Frames
      BY ElementOfSeq DEF TypeInv
    <3>2. CASE stack[j].k = "call"
      <4>1. stack[j] \in CallFrame
        BY <3>1, <3>2, FrameKinds DEF Frames, LiveCall
      <4>. QED  BY <3>2, <4>1 DEF Commit, Keeps, CallFrame
    <3>3. CASE stack[j].k = "gen"
      <4>1. stack[j] \in GenFrame
        BY <3>1, <3>3, FrameKinds DEF Frames, LiveGen
      <4>. QED  BY <3>3, <4>1 DEF Commit, Keeps, GenFrame
    <3>4. CASE stack[j].k = "choice"
      <4>1. stack[j] \in ChoiceFrame
        BY <3>1, <3>4, FrameKinds DEF Frames, LiveChoice
      <4>. QED  BY <3>4, <4>1 DEF Commit, Keeps, ChoiceFrame
    <3>5. CASE stack[j].k \notin {"call", "gen", "choice"}
      BY <1>2, <3>5 DEF Commit
    <3>. QED  BY <3>2, <3>3, <3>4, <3>5
  <2>2. Len(stack') = Len(stack) /\ \A j \in 1 .. Len(stack) : Keeps(stack'[j], stack[j])
    BY <1>1, <1>4, <2>1
  <2>. QED  BY <1>1, <2>2, StayingRebuilds DEF Lands
<1>. QED  BY <1>3, <1>4

\* A name is found in the current scope or in the global one.
LEMMA FindHigh ==
  ASSUME TypeInv, ScopeInv, stack # <<>>, NEW x
  PROVE  Find(x) \in {0, 1, scope}
BY DEF Find

\* Both names of `x = y` are found: the two writes are in the current scope or in
\* the global one.
LEMMA BothWritten ==
  ASSUME TypeInv, ScopeInv, stack # <<>>, Top.k = "start",
         NEW a \in {1, scope}, NEW b \in {1, scope},
         NEW u, NEW v, scopes' = [[scopes EXCEPT ![a] = u] EXCEPT ![b] = v]
  PROVE  Apart(scope)
<1>. DEFINE S == LiveScope(Len(scopes), nlink)
            T == S \cup {u}
            t == [scopes EXCEPT ![a] = u]
<1>1. scopes \in Seq(S) /\ High(scope)
  BY Highs DEF TypeInv
<1>. HIDE DEF S
<1>2. /\ Len(t) = Len(scopes) /\ Len(scopes) \in Nat /\ t \in Seq(T)
      /\ \A c \in 1 .. Len(scopes) : c # a => t[c] = scopes[c]
  <2>1. /\ Len([scopes EXCEPT ![a] = u]) = Len(scopes) /\ Len(scopes) \in Nat
        /\ [scopes EXCEPT ![a] = u] \in Seq(S \cup {u})
    BY <1>1, Written
  <2>2. \A c \in 1 .. Len(scopes) : c # a => [scopes EXCEPT ![a] = u][c] = scopes[c]
    BY <1>1, Written
  <2>. QED  BY <2>1, <2>2
<1>. HIDE DEF T, t
<1>3. /\ Len([t EXCEPT ![b] = v]) = Len(t)
      /\ \A c \in 1 .. Len(t) : c # b => [t EXCEPT ![b] = v][c] = t[c]
  BY <1>2, Written
<1>4. scopes' = [t EXCEPT ![b] = v]
  BY DEF t
<1>5. Len(scopes') = Len(scopes)
  BY <1>2, <1>3, <1>4
<1>6. ASSUME NEW c \in 2 .. Len(scopes), c # scope PROVE scopes'[c] = scopes[c]
  <2>1. c \in 1 .. Len(scopes) /\ c # a /\ c # b
    BY <1>2, <1>6
  <2>. QED  BY <1>2, <1>3, <1>4, <2>1
<1>. QED  BY <1>1, <1>2, <1>5, <1>6 DEF Apart, Spares

\* Narrowing the variables of `x = y` in place.
BothAssigned(x, y, d, e) ==
  [Assign(Find(x), x, d, e) EXCEPT ![Find(y)].cell[y] = Holding(@, d, e)]
\* Both variables of a pair are assigned, and nothing below the scope changes.
LEMMA PairAssigned ==
  ASSUME TypeInv, ScopeInv, stack # <<>>, Top.k = "start", NEW x, NEW y, NEW d, NEW e,
         Find(x) # 0, Find(y) # 0, scopes' = BothAssigned(x, y, d, e)
  PROVE  Apart(scope)
<1>. DEFINE a == Find(x)
            b == Find(y)
            u == [scopes[a] EXCEPT !.cell[x] = Holding(@, d, e)]
            one == [scopes EXCEPT ![a] = u]
            v == [one[b] EXCEPT !.cell[y] = Holding(@, d, e)]
<1>1. a \in {1, scope} /\ b \in {1, scope}
  BY FindHigh
<1>2. scopes' = [one EXCEPT ![b] = v]
  BY DEF Assign, BothAssigned
<1>. HIDE DEF a, b, u, v
<1>. QED  BY <1>1, <1>2, BothWritten

\* An expression that responds at once, or for nothing, keeps what the others rely on.
LEMMA ImmediateLands ==
  ASSUME TypeInv, ScopeInv, Immediate \/ EvalEmptySet
  PROVE  Lands
<1>1. stack # <<>> /\ Top.k = "start" /\ UNCHANGED scope
      /\ \/ stack' = stack
         \/ stack' = [j \in 1 .. Len(stack) |-> Commit(j)]
  BY DEF Immediate, EvalAssert, EvalRename, EvalCut, EvalEq, EvalEmptySet,
         Evaluating, ctl
<1>2. CASE UNCHANGED scopes
  BY <1>1, <1>2, SparesAll, Responds
<1>3. CASE EvalAssert /\ scopes' # scopes
  <2>. DEFINE a == Find(CurrentGoal.x)
              x == CurrentGoal.x
              d == CurrentGoal.dom
              one == \E u \in Vals : CurrentGoal.dom = {u}
              v == [scopes[a] EXCEPT !.cell[x] = Holding(@, d, one)]
  <2>1. a # 0 /\ scopes' = Assign(a, x, d, one)
    BY <1>3 DEF EvalAssert
  <2>2. scopes' = [scopes EXCEPT ![a] = v]
    BY <2>1 DEF Assign
  <2>3. a = 1 \/ (High(a) /\ Top.k # "call")
    BY <1>1, <2>1, FindHigh, Highs
  <2>. HIDE DEF a, v
  <2>4. Apart(a)
    BY <2>2, <2>3, SparesOthers
  <2>. QED  BY <1>1, <2>4, Responds
<1>4. CASE EvalEq /\ scopes' # scopes
  <2>. DEFINE x == CurrentGoal.x
              y == CurrentGoal.args[1]
              a == Find(x)
              b == Find(y)
              cx == scopes[a].cell[x]
              cy == scopes[b].cell[y]
              both == cx.dom \cap cy.dom
              Bind(n, c) == [scopes EXCEPT ![scope].cell[n] =
                               [c EXCEPT !.link = nlink + 1]]
  <2>1. \/ scopes' = Bind(x, cy)
        \/ scopes' = Bind(y, cx)
        \/ a # 0 /\ b # 0 /\ scopes' = BothAssigned(x, y, both, TRUE)
    BY <1>4 DEF EvalEq, BothAssigned
  <2>2. ASSUME NEW n, NEW c, scopes' = Bind(n, c) PROVE Apart(scope)
    <3>. DEFINE v == [scopes[scope] EXCEPT !.cell[n] = [c EXCEPT !.link = nlink + 1]]
    <3>1. scopes' = [scopes EXCEPT ![scope] = v]
      BY <2>2
    <3>. HIDE DEF v
    <3>. QED  BY <1>1, <3>1, Highs, SparesOthers
  <2>3. ASSUME a # 0, b # 0, scopes' = BothAssigned(x, y, both, TRUE)
        PROVE  Apart(scope)
    <3>. HIDE DEF x, y, both
    <3>. QED  BY <1>1, <2>3, PairAssigned, Zenon
  <2>4. Apart(scope)
    <3>. HIDE DEF x, y, a, b, cx, cy, both, Bind
    <3>. QED  BY <2>1, <2>2, <2>3, Zenon
  <2>. QED  BY <1>1, <2>4, Responds
<1>. QED  BY <1>2, <1>3, <1>4
          DEF Immediate, EvalRename, EvalCut, EvalEmptySet, mem

\* So do the steps of laure_start.
LEMMA LaureStartLands ==
  ASSUME TypeInv, ScopeInv, LaureStart
  PROVE  Lands
<1>1. stack # <<>> /\ Top.k = "start"
  BY DEF LaureStart, NextExpression, LeaveList, Continue, Silent, Showcast, Send,
         SendScope, Answered, EndOfList, GoesOn
<1>2. High(scope) /\ Rises(Top) /\ High(Len(scopes) + 1)
  BY <1>1, Highs, LenProperties DEF TypeInv
<1>3. ASSUME NEW list, NEW a, High(a), stack' = WithTop(Start(list, a)),
             High(scope'), NEW w, Apart(w)
      PROVE  Lands
  <2>. DEFINE h == Start(list, a)
  <2>1. Rises(h) /\ Placed(h, scopes') /\ OnTop(h, scope') /\ stack' = WithTop(h)
    BY <1>3, ListsRise
  <2>. HIDE DEF h
  <2>2. Rebuilt
    BY <1>1, <2>1, GoingOnRebuilds
  <2>. QED  BY <1>1, <1>3, <2>2 DEF Lands
<1>4. CASE NextExpression
  <2>1. stack' = WithTop(Start(Rest, Top.sc)) /\ UNCHANGED <<scope, scopes>>
    BY <1>4 DEF NextExpression, mem, ctl
  <2>. QED  BY <1>2, <1>3, <2>1, SparesAll DEF Rises
<1>5. CASE LeaveList \/ Silent \/ Showcast \/ Send \/ SendScope
  <2>1. /\ UNCHANGED <<scope, scopes>>
        /\ stack' = Callers \/ stack' = <<>>
    BY <1>5 DEF LeaveList, Silent, Showcast, Send, SendScope, Returns, mem, ctl
  <2>. QED  BY <1>1, <2>1, Leaving DEF Lands
<1>6. CASE Continue
  <2>. DEFINE q == qctxs[qctx].next
              list == IF q = 0 THEN <<>> ELSE qctxs[q].expset
              copy == Len(scopes) + 1
              v == [scopes[scope] EXCEPT !.repeat = @ - 1]
  <2>1. \/ /\ scopes' = [scopes EXCEPT ![scope] = v]
           /\ scope' = scope /\ stack' = WithTop(Start(list, scope))
        \/ /\ scopes' = Append(scopes, Updated(scopes[Here.next]))
           /\ scope' = copy /\ stack' = WithTop(Start(list, copy))
        \/ /\ scopes' = scopes /\ scope' = scope
           /\ stack' = WithTop(Start(list, scope))
    BY <1>6 DEF Continue
  <2>. HIDE DEF list, v
  <2>2. CASE /\ scopes' = [scopes EXCEPT ![scope] = v]
             /\ scope' = scope /\ stack' = WithTop(Start(list, scope))
    <3>1. Apart(scope)
      BY <1>1, <1>2, <2>2, SparesOthers
    <3>. QED  BY <1>2, <1>3, <2>2, <3>1
  <2>3. CASE /\ scopes' = Append(scopes, Updated(scopes[Here.next]))
             /\ scope' = copy /\ stack' = WithTop(Start(list, copy))
    BY <1>2, <1>3, <2>3, SparesAll
  <2>4. CASE /\ scopes' = scopes /\ scope' = scope
             /\ stack' = WithTop(Start(list, scope))
    BY <1>2, <1>3, <2>4, SparesAll
  <2>. QED  BY <2>1, <2>2, <2>3, <2>4
<1>. QED  BY <1>4, <1>5, <1>6 DEF LaureStart

\* A call that goes on keeps its scopes.
SameCall(h, f) == h.k = "call" /\ h.sc = f.sc /\ h.at = f.at

\* What the innermost call relies on, when the step writes at most the global scope.
LEMMA CallPlaced ==
  ASSUME TypeInv, ScopeInv, stack # <<>>, Top.k = "call", Apart(1)
  PROVE  /\ Placed(Top, scopes') /\ Rises(Top) /\ High(Top.at)
         /\ Top.at \in 1 .. Len(scopes) /\ Top.sc < Top.at /\ Len(scopes) \in Nat
         /\ Top \in CallFrame
         /\ Top.ph = "inst" => Top.prev > Top.at /\ High(Top.prev) /\ Top.prev \in Nat
         /\ Top.ph = "next" => scope = Top.sc
<1>1. Len(stack) \in Nat \ {0} /\ Top = stack[Len(stack)] /\ Rises(Top) /\ High(Top.at)
  BY Highs
<1>2. Placed(Top, scopes')
  BY <1>1, PlacedStays
<1>3. /\ Top.at \in 1 .. Len(scopes) /\ Len(scopes) \in Nat /\ Top.prev \in Nat
      /\ \A j \in 1 .. Len(stack) : Floor(stack[j]) \in 1 .. Len(scopes)
  BY <1>1, FramesPlaced
<1>4. Top \in CallFrame
  BY TopCall DEF LiveCall
<1>5. ASSUME Top.ph = "inst" PROVE Top.prev > Top.at /\ High(Top.prev)
  <2>1. Top.prev > Top.at
    BY <1>2, <1>5 DEF Placed
  <2>2. ASSUME NEW j \in 1 .. Len(stack) - 1, Copying(stack[j])
        PROVE  Top.prev > Floor(stack[j])
    <3>1. Top.at > Floor(stack[j]) /\ j \in 1 .. Len(stack)
      BY <1>1, <2>2 DEF High
    <3>. QED  BY <1>3, <2>1, <3>1
  <2>. QED  BY <2>1, <2>2 DEF High
<1>6. Top.sc < Top.at
  BY <1>2 DEF Placed
<1>7. Top.ph = "next" => scope = Top.sc
  BY DEF ScopeInv, OnTop
<1>. QED  BY <1>1, <1>2, <1>3, <1>4, <1>5, <1>6, <1>7

\* A call goes on with the next variation, in the caller's scope.
LEMMA NextVariations ==
  ASSUME TypeInv, ScopeInv, stack # <<>>, Top.k = "call", Apart(1), NEW h,
         SameCall(h, Top), h.ph = "next", stack' = WithTop(h), scope' = Top.sc
  PROVE  Lands
<1>1. /\ Placed(Top, scopes') /\ Rises(Top)
  BY CallPlaced
<1>2. Rises(h) /\ Placed(h, scopes') /\ OnTop(h, scope')
  BY <1>1 DEF SameCall, Rises, Placed, OnTop
<1>. QED  BY <1>1, <1>2, GoingOnRebuilds DEF Lands, Rises

\* A call starts the goals of a variation, or what follows it, in a scope above its
\* own copy.
LEMMA StartedVariations ==
  ASSUME TypeInv, ScopeInv, stack # <<>>, Top.k = "call", Apart(1), NEW h, NEW e,
         SameCall(h, Top), h.ph # "next", h.ph = "inst" => h.prev > h.at,
         stack' = Append(WithTop(h), e),
         e.k \in {"start", "gen"}, e.sc = scope', e.k = "gen" => e.at \in {1, scope'},
         High(scope'), scope' > Top.at
  PROVE  Lands
<1>1. /\ Placed(Top, scopes') /\ Rises(Top)
  BY CallPlaced
<1>2. Rises(h) /\ Placed(h, scopes') /\ Waits(h, scope') /\ Floor(h) = Top.at
  BY <1>1 DEF SameCall, Rises, Placed, Waits, Floor
<1>3. Rises(e) /\ Placed(e, scopes') /\ OnTop(e, scope') /\ Above(e, Floor(h))
  BY <1>2 DEF Rises, Placed, OnTop, Above
<1>. QED  BY <1>1, <1>2, <1>3, StartRebuilds DEF Lands

\* Entering the body of a variation writes the global scope and makes two.
LEMMA SparesEntering ==
  ASSUME TypeInv, NEW v, NEW a, NEW b,
         scopes' = [scopes EXCEPT ![1] = v] \o <<a, b>>
  PROVE  Apart(1)
<1>. DEFINE S == LiveScope(Len(scopes), nlink)
            T == (S \cup {v}) \cup {a, b}
            t == [scopes EXCEPT ![1] = v]
<1>1. scopes \in Seq(S)
  BY DEF TypeInv
<1>2. /\ Len(t) = Len(scopes) /\ Len(scopes) \in Nat /\ t \in Seq(T)
      /\ \A c \in 1 .. Len(scopes) : c # 1 => t[c] = scopes[c]
  <2>. HIDE DEF S
  <2>1. /\ Len([scopes EXCEPT ![1] = v]) = Len(scopes) /\ Len(scopes) \in Nat
        /\ [scopes EXCEPT ![1] = v] \in Seq(S \cup {v})
    BY <1>1, Written
  <2>2. \A c \in 1 .. Len(scopes) : c # 1 => [scopes EXCEPT ![1] = v][c] = scopes[c]
    BY <1>1, Written
  <2>3. S \cup {v} \subseteq T
    OBVIOUS
  <2>. HIDE DEF T
  <2>4. t \in Seq(T)
    BY <2>1, <2>3, SeqOfMore
  <2>. QED  BY <2>1, <2>2, <2>4
<1>3. <<a, b>> \in Seq(T) /\ Len(<<a, b>>) = 2
  <2>1. a \in T /\ b \in T
    OBVIOUS
  <2>. HIDE DEF T
  <2>. QED  BY <2>1, PairTyped
<1>4. scopes' = t \o <<a, b>>
  OBVIOUS
<1>. HIDE DEF T, t
<1>5. /\ Len(scopes') = Len(scopes) + 2
      /\ \A c \in 1 .. Len(scopes) : scopes'[c] = t[c]
  BY <1>2, <1>3, <1>4, ConcatProperties
<1>. QED  BY <1>2, <1>5 DEF Apart, Spares

\* A variation in C makes a scope and writes in that one or in the global one.
LEMMA SparesC ==
  ASSUME TypeInv, NEW f, NEW prev, NEW outcome, scopes' = CScopes(f, prev, outcome)
  PROVE  Apart(1)
<1>. DEFINE S == LiveScope(Len(scopes), nlink)
            T == S \cup {prev}
            u == Append(scopes, prev)
            x == f.g.args[1]
            a == IF prev.cell[x].link # 0 THEN Len(scopes) + 1 ELSE 1
            w == [u[a] EXCEPT !.cell[x].dom = @ \cap VariationOf(f).dom]
<1>1. scopes \in Seq(S) /\ Len(scopes) \in Nat
  BY LenProperties DEF TypeInv
<1>2. CASE outcome # "narrow"
  BY <1>2, SparesAll DEF CScopes
<1>3. CASE outcome = "narrow"
  <2>1. /\ Len(u) = Len(scopes) + 1 /\ u \in Seq(T)
        /\ \A c \in 1 .. Len(scopes) : u[c] = scopes[c]
    <3>1. scopes \in Seq(T) /\ prev \in T
      BY <1>1, SeqOfMore
    <3>. HIDE DEF T
    <3>. QED  BY <3>1, AppendTyped
  <2>2. scopes' = [u EXCEPT ![a] = w]
    BY <1>3 DEF CScopes
  <2>3. a \in {1, Len(scopes) + 1}
    OBVIOUS
  <2>. HIDE DEF T, u, a, w
  <2>4. /\ Len(scopes') = Len(u)
        /\ \A c \in 1 .. Len(u) : c # a => scopes'[c] = u[c]
    BY <2>1, <2>2, Written
  <2>5. ASSUME NEW c \in 2 .. Len(scopes) PROVE scopes'[c] = scopes[c]
    <3>1. c \in 1 .. Len(scopes) /\ c \in 1 .. Len(u) /\ c # a
      BY <1>1, <2>1, <2>3, <2>5
    <3>. QED  BY <2>1, <2>4, <3>1
  <2>. QED  BY <1>1, <2>1, <2>4, <2>5 DEF Apart, Spares
<1>. QED  BY <1>2, <1>3

\* The steps of calls keep what the others rely on.
LEMMA EvalCallLands ==
  ASSUME TypeInv, ScopeInv, EvalCall
  PROVE  Lands
<1>1. stack # <<>> /\ Top.k = "start" /\ UNCHANGED scope
  BY DEF EvalCall, Evaluating
<1>2. CASE stack' = stack /\ scopes' = scopes
  BY <1>1, <1>2, SparesAll, Responds
<1>3. ASSUME NEW e, stack' = Append(stack, e), scopes' = Append(scopes, Here),
             e.k = "call", e.sc = scope, e.at = Len(scopes) + 1, e.ph = "next"
      PROVE  Lands
  <2>1. scope \in 1 .. Len(scopes) /\ Len(scopes) \in Nat
        /\ scopes \in Seq(LiveScope(Len(scopes), nlink))
    BY LenProperties DEF TypeInv
  <2>2. scopes'[Len(scopes) + 1] = Here /\ scopes'[scope] = Here
    BY <1>3, <2>1, Made DEF Here
  <2>3. High(scope) /\ Rises(Top)
    BY <1>1, Highs
  <2>4. Rises(e) /\ Placed(e, scopes') /\ OnTop(e, scope')
    BY <1>1, <1>3, <2>1, <2>2, <2>3 DEF Rises, Placed, OnTop
  <2>5. Placed(Top, scopes') /\ Waits(Top, scope') /\ ~Copying(Top)
    BY <1>1, ListsAreFree DEF Copying
  <2>6. Rebuilt
    BY <1>1, <1>3, <2>3, <2>4, <2>5, StartRebuilds
  <2>. QED  BY <1>1, <1>3, <2>3, <2>6, SparesAll DEF Lands
<1>. DEFINE e == [k |-> "call", g |-> CurrentGoal, code |-> Rest, sc |-> scope,
                  qc |-> qctx, at |-> Len(scopes) + 1, prev |-> 0, old |-> <<>>,
                  i |-> 1, save |-> cut, found |-> FALSE, ph |-> "next", d |-> depth,
                  committed |-> FALSE]
<1>4. \/ stack' = stack /\ scopes' = scopes
      \/ stack' = Append(stack, e) /\ scopes' = Append(scopes, Here)
  BY DEF EvalCall
<1>5. e.k = "call" /\ e.sc = scope /\ e.at = Len(scopes) + 1 /\ e.ph = "next"
  OBVIOUS
<1>. HIDE DEF e
<1>. QED  BY <1>2, <1>3, <1>4, <1>5

\* Every step of a call lands.
LEMMA PredCallLands ==
  ASSUME TypeInv, ScopeInv, PredCall \/ CallCrashes \/ GoalCrashes
  PROVE  Lands
<1>. DEFINE fresh == Len(scopes) + 1
<1>1. ASSUME stack # <<>>, Top.k = "call", Apart(1)
      PROVE  /\ Top \in CallFrame /\ Top.sc < Top.at
             /\ Top.at \in Nat /\ Top.at < fresh /\ fresh \in Nat
             /\ High(fresh) /\ High(fresh + 1)
  BY <1>1, Highs, CallPlaced
<1>2. CASE EvalCall
  BY <1>2, EvalCallLands
<1>3. CASE ArgMismatch
  <2>1. /\ stack # <<>> /\ Top.k = "call" /\ stack' = Callers /\ UNCHANGED scope
        /\ \E v : scopes' = [scopes EXCEPT ![1] = v]
    BY <1>3 DEF ArgMismatch, OnVariation, GoesOn, Returns, ctl
  <2>2. Apart(1) /\ High(scope')
    BY <2>1, SparesOthers, Highs
  <2>. QED  BY <2>1, <2>2, EndRebuilds DEF Lands
<1>4. CASE EnterInterior
  <2>. DEFINE h == [Top EXCEPT !.ph = "body", !.old = qctxs[Top.qc].expset]
  <2>1. /\ stack # <<>> /\ Top.k = "call" /\ scope' = fresh + 1
        /\ \E v, a, b : scopes' = [scopes EXCEPT ![1] = v] \o <<a, b>>
        /\ \E list : stack' = Append(WithTop(h), Start(list, fresh + 1))
    BY <1>4 DEF EnterInterior, OnVariation, GoesOn
  <2>2. Apart(1)
    BY <2>1, SparesEntering
  <2>3. SameCall(h, Top) /\ h.ph = "body"
    BY <1>1, <2>1, <2>2 DEF CallFrame, SameCall
  <2>. HIDE DEF h
  <2>4. PICK list : stack' = Append(WithTop(h), Start(list, fresh + 1))
    BY <2>1
  <2>. DEFINE e == Start(list, fresh + 1)
  <2>5. e.k = "start" /\ e.sc = fresh + 1 /\ stack' = Append(WithTop(h), e)
    BY <2>4, ListsRise
  <2>. HIDE DEF e, fresh
  <2>6. High(fresh + 1) /\ fresh + 1 > Top.at
    BY <1>1, <2>1, <2>2
  <2>. QED  BY <2>1, <2>2, <2>3, <2>5, <2>6, StartedVariations
<1>5. CASE CallC
  <2>. DEFINE f == Top
              prev == WithArgs(scopes[f.at], f.g.args, PredOf(f), FALSE)
              x == f.g.args[1]
              next == [f EXCEPT !.i = @ + 1]
              entered == [f EXCEPT !.ph = "c", !.old = qctxs[f.qc].expset]
              again == [f EXCEPT !.ph = "inst", !.prev = fresh]
              gen == [k |-> "gen", op |-> "inst", x |-> x,
                      code |-> <<f.g>> \o f.code, sc |-> fresh, qc |-> f.qc,
                      at |-> IF prev.cell[x].link # 0 THEN fresh ELSE 1,
                      todo |-> Seen(prev, x).dom, found |-> FALSE,
                      dp |-> doProcess, committed |-> FALSE]
  <2>1. /\ stack # <<>> /\ Top.k = "call" /\ Top.ph = "next"
        /\ \E p, o : scopes' = CScopes(f, p, o)
        /\ \/ stack' = WithTop(next) /\ UNCHANGED scope
           \/ stack' = Callers /\ UNCHANGED scope
           \/ stack' = Append(WithTop(entered), Start(f.code, fresh)) /\ scope' = fresh
           \/ stack' = Append(WithTop(again), gen) /\ scope' = fresh
    BY <1>5 DEF CallC, Returns, OnVariation, GoesOn
  <2>2. gen.k = "gen" /\ gen.sc = fresh /\ gen.at \in {1, fresh}
    OBVIOUS
  <2>3. Apart(1)
    BY <2>1, SparesC
  <2>4. /\ SameCall(next, Top) /\ next.ph = "next"
        /\ SameCall(entered, Top) /\ entered.ph = "c"
        /\ SameCall(again, Top) /\ again.ph = "inst" /\ again.prev = fresh
    BY <1>1, <2>1, <2>3 DEF CallFrame, SameCall
  <2>. HIDE DEF f, next, entered, again, gen, fresh
  <2>5. CASE stack' = Callers /\ UNCHANGED scope
    BY <2>1, <2>3, <2>5, EndRebuilds, Highs DEF Lands
  <2>6. CASE stack' = WithTop(next) /\ UNCHANGED scope
    BY <2>1, <2>3, <2>4, <2>6, CallPlaced, NextVariations
  <2>7. CASE stack' = Append(WithTop(entered), Start(f.code, fresh)) /\ scope' = fresh
    BY <1>1, <2>1, <2>3, <2>4, <2>7, ListsRise, StartedVariations
  <2>8. CASE stack' = Append(WithTop(again), gen) /\ scope' = fresh
    BY <1>1, <2>1, <2>2, <2>3, <2>4, <2>8, StartedVariations DEF SameCall
  <2>. QED  BY <2>1, <2>5, <2>6, <2>7, <2>8
<1>6. CASE BodyReturns \/ ContinuationReturns
  <2>1. stack # <<>> /\ Top.k = "call" /\ Judge(Top, ret) /\ UNCHANGED scopes
        /\ scope' = Top.sc
    BY <1>6 DEF BodyReturns, ContinuationReturns, Answered, BackTo
  <2>2. \/ stack' = Callers
        \/ \E b, c : stack' = WithTop([Top EXCEPT !.ph = "next", !.i = b, !.found = c])
    BY <2>1 DEF Judge, Returns, Over
  <2>3. ASSUME NEW b, NEW c,
               stack' = WithTop([Top EXCEPT !.ph = "next", !.i = b, !.found = c])
        PROVE  Lands
    <3>. DEFINE h == [Top EXCEPT !.ph = "next", !.i = b, !.found = c]
    <3>1. Apart(1)
      BY <2>1, SparesAll
    <3>2. SameCall(h, Top) /\ h.ph = "next"
      BY <1>1, <2>1, <3>1 DEF CallFrame, SameCall
    <3>3. stack' = WithTop(h)
      BY <2>3
    <3>. HIDE DEF h
    <3>. QED  BY <2>1, <3>1, <3>2, <3>3, NextVariations
  <2>. QED  BY <2>1, <2>2, <2>3, Leaving
<1>7. CASE InstReturns
  <2>. DEFINE c == Top.found \/ ret.pl = 1
              next == [Top EXCEPT !.ph = "next", !.i = @ + 1, !.found = c]
              entered == [Top EXCEPT !.ph = "c", !.old = qctxs[Top.qc].expset]
  <2>1. /\ stack # <<>> /\ Top.k = "call" /\ Top.ph = "inst" /\ UNCHANGED scopes
        /\ \/ stack' = Callers /\ scope' = Top.sc
           \/ /\ stack' = WithTop([Top EXCEPT !.ph = "next", !.i = @ + 1,
                                     !.found = @ \/ ret.pl = 1])
              /\ scope' = Top.sc
           \/ /\ stack' = Append(WithTop(entered), Start(Top.code, Top.prev))
              /\ scope' = Top.prev
    BY <1>7 DEF InstReturns, Answered, Returns
  <2>2. Apart(1)
    BY <2>1, SparesAll
  <2>3. Top \in CallFrame
    BY <1>1, <2>1, <2>2
  <2>4. [Top EXCEPT !.ph = "next", !.i = @ + 1, !.found = @ \/ ret.pl = 1] = next
    BY <2>3 DEF CallFrame
  <2>5. /\ SameCall(entered, Top) /\ entered.ph = "c"
        /\ SameCall(next, Top) /\ next.ph = "next"
    <3>. HIDE DEF c
    <3>. QED  BY <2>3 DEF CallFrame, SameCall
  <2>. HIDE DEF next, entered, c
  <2>6. CASE stack' = Callers /\ scope' = Top.sc
    BY <2>1, <2>6, Leaving
  <2>7. CASE stack' = WithTop(next) /\ scope' = Top.sc
    BY <2>1, <2>2, <2>5, <2>7, NextVariations
  <2>8. CASE /\ stack' = Append(WithTop(entered), Start(Top.code, Top.prev))
             /\ scope' = Top.prev
    BY <1>1, <2>1, <2>2, <2>5, <2>8, CallPlaced, ListsRise, StartedVariations
  <2>. QED  BY <2>1, <2>4, <2>6, <2>7, <2>8
<1>8. CASE Exhausted
  <2>1. stack # <<>> /\ stack' = Callers /\ UNCHANGED <<scope, scopes>>
    BY <1>8 DEF Exhausted, GoesOn, Over, Returns, mem
  <2>. QED  BY <2>1, Leaving
<1>9. CASE CallCrashes \/ GoalCrashes
  BY <1>9 DEF CallCrashes, GoalCrashes, Crash, Lands, mem
<1>. QED  BY <1>2, <1>3, <1>4, <1>5, <1>6, <1>7, <1>8, <1>9 DEF PredCall

\* A list starts a generator or a choice in its scope.
LEMMA StartsInPlace ==
  ASSUME TypeInv, ScopeInv, stack # <<>>, Top.k = "start", UNCHANGED scope,
         NEW e, stack' = Append(stack, e), e.k \in {"gen", "choice"}, e.sc = scope,
         e.k = "gen" => e.at \in {1, scope},
         NEW w, Apart(w)
  PROVE  Lands
<1>1. High(scope) /\ Rises(Top)
  BY Highs
<1>2. Placed(Top, scopes') /\ Waits(Top, scope') /\ ~Copying(Top)
  BY ListsAreFree DEF Copying
<1>3. Rises(e) /\ Placed(e, scopes') /\ OnTop(e, scope')
  BY <1>1, ListsAreFree DEF Rises
<1>4. Rebuilt
  BY <1>1, <1>2, <1>3, StartRebuilds
<1>. QED  BY <1>1, <1>4 DEF Lands

\* The innermost activation, not a call, runs a list in a new copy of the scope.
LEMMA RunsCopy ==
  ASSUME TypeInv, ScopeInv, stack # <<>>, Top.k \in {"gen", "choice"}, NEW h,
         h.k = Top.k, h.sc = Top.sc, h.k = "gen" => h.at = Top.at,
         NEW list, stack' = Append(WithTop(h), Start(list, Len(scopes) + 1)),
         scope' = Len(scopes) + 1, NEW w, Apart(w)
  PROVE  Lands
<1>. DEFINE e == Start(list, Len(scopes) + 1)
<1>1. /\ Rises(Top) /\ Len(stack) \in Nat \ {0} /\ Top = stack[Len(stack)]
      /\ High(scope') /\ Len(scopes) \in Nat
  BY Highs, LenProperties DEF TypeInv
<1>2. Top.sc \in 1 .. Len(scopes) /\ Len(scopes) \in Nat
  BY <1>1, FramesPlaced
<1>3. Rises(h) /\ Placed(h, scopes') /\ Waits(h, scope') /\ Floor(h) = Top.sc
  BY <1>1, <1>2 DEF Rises, Placed, Waits, Floor
<1>4. Rises(e) /\ Placed(e, scopes') /\ OnTop(e, scope') /\ Above(e, Floor(h))
      /\ stack' = Append(WithTop(h), e)
  BY <1>1, <1>2, <1>3, ListsRise
<1>. HIDE DEF e
<1>5. Rebuilt
  BY <1>3, <1>4, StartRebuilds
<1>. QED  BY <1>1, <1>5 DEF Lands

\* The innermost activation, not a call, goes on.
LEMMA GoesOnInPlace ==
  ASSUME TypeInv, ScopeInv, stack # <<>>, Top.k \in {"gen", "choice"}, NEW h,
         h.k = Top.k, h.sc = Top.sc, h.k = "gen" => h.at = Top.at,
         stack' = WithTop(h), scope' = Top.sc, UNCHANGED scopes
  PROVE  Lands
<1>1. Rises(Top) /\ High(scope')
  BY Highs DEF Rises
<1>2. Rises(h) /\ Placed(h, scopes') /\ OnTop(h, scope')
  BY <1>1 DEF Rises, Placed, OnTop
<1>3. Rebuilt
  BY <1>2, GoingOnRebuilds
<1>. QED  BY <1>1, <1>3, SparesAll DEF Lands

\* The steps of generators keep what the others rely on: a value is written where the
\* variable was found, and tried in a copy.
LEMMA GeneratorsLand ==
  ASSUME TypeInv, ScopeInv, Generators
  PROVE  Lands
<1>1. \A op, x, list, a, todo :
        LET e == Generator(op, x, list, a, todo)
        IN  e.k = "gen" /\ e.sc = scope /\ e.at = a
  BY DEF Generator
<1>2. ASSUME stack # <<>>, Top.k = "gen"
      PROVE  /\ Top \in GenFrame /\ (Top.at = 1 \/ High(Top.at))
  BY <1>2, TopGen, Highs DEF Rises
<1>3. CASE EvalUnify \/ EvalQuant
  <2>1. /\ stack # <<>> /\ Top.k = "start" /\ UNCHANGED <<scope, scopes>>
        /\ \/ stack' = stack
           \/ \E op, x, list, todo : stack' = Append(stack, Generator(op, x, list, scope, todo))
    BY <1>3 DEF EvalUnify, EvalQuant, Evaluating, mem, ctl
  <2>2. Apart(1)
    BY <2>1, SparesAll
  <2>3. ASSUME NEW op, NEW x, NEW list, NEW todo,
               stack' = Append(stack, Generator(op, x, list, scope, todo))
        PROVE  Lands
    <3>. DEFINE e == Generator(op, x, list, scope, todo)
    <3>1. e.k = "gen" /\ e.sc = scope /\ e.at = scope /\ stack' = Append(stack, e)
      BY <1>1, <2>3
    <3>. HIDE DEF e
    <3>. QED  BY <2>1, <2>2, <3>1, StartsInPlace
  <2>. QED  BY <2>1, <2>2, <2>3, Responds
<1>4. CASE EvalIntersect
  <2>. DEFINE x == CurrentGoal.x
              y == CurrentGoal.args[1]
              both == scopes[Find(x)].cell[x].dom \cap scopes[Find(y)].cell[y].dom
              e == Generator("eq", x, Rest, Find(x), both)
  <2>1. /\ stack # <<>> /\ Top.k = "start" /\ UNCHANGED scope
        /\ Find(x) # 0 /\ Find(y) # 0
        /\ \/ stack' = stack /\ UNCHANGED scopes
           \/ stack' = Append(stack, e) /\ scopes' = BothAssigned(x, y, both, FALSE)
    BY <1>4 DEF EvalIntersect, Evaluating, ctl, BothAssigned
  <2>2. e.k = "gen" /\ e.sc = scope /\ e.at = Find(x)
    BY <1>1
  <2>3. Find(x) \in {1, scope}
    BY <2>1, FindHigh
  <2>. HIDE DEF x, y, both, e
  <2>4. CASE stack' = stack /\ UNCHANGED scopes
    BY <2>1, <2>4, SparesAll, Responds
  <2>5. ASSUME stack' = Append(stack, e), scopes' = BothAssigned(x, y, both, FALSE)
        PROVE  Lands
    <3>1. Apart(scope)
      BY <2>1, <2>5, PairAssigned, Zenon
    <3>. QED  BY <2>1, <2>2, <2>3, <2>5, <3>1, StartsInPlace
  <2>. QED  BY <2>1, <2>4, <2>5, Zenon
<1>5. CASE NextValue
  <2>1. /\ stack # <<>> /\ Top.k = "gen" /\ scope' = Len(scopes) + 1
    BY <1>5 DEF NextValue, GoesOn
  <2>2. PICK v \in Top.todo :
          /\ LET set == Assign(Top.at, Top.x, {v}, TRUE)
             IN  scopes' = Append(set, set[scope])
          /\ stack' = Append(WithTop([Top EXCEPT !.todo = @ \ {v}]),
                             Start(Top.code, Len(scopes) + 1))
    BY <1>5 DEF NextValue
  <2>. DEFINE h == [Top EXCEPT !.todo = @ \ {v}]
              u == [scopes[Top.at] EXCEPT !.cell[Top.x] = Holding(@, {v}, TRUE)]
  <2>3. \E c : scopes' = Append([scopes EXCEPT ![Top.at] = u], c)
    BY <2>2 DEF Assign
  <2>4. h.k = "gen" /\ h.sc = Top.sc /\ h.at = Top.at
    BY <1>2, <2>1 DEF GenFrame
  <2>5. stack' = Append(WithTop(h), Start(Top.code, Len(scopes) + 1))
    BY <2>2
  <2>. HIDE DEF h, u
  <2>6. Apart(Top.at)
    BY <1>2, <2>1, <2>3, SparesOthers
  <2>. QED  BY <2>1, <2>4, <2>5, <2>6, RunsCopy
<1>6. CASE ValueReturns
  <2>. DEFINE flag == Top.found \/ Process(Top.op, ret).flag
              h == [Top EXCEPT !.found = flag]
  <2>1. /\ stack # <<>> /\ Top.k = "gen" /\ UNCHANGED scopes /\ scope' = Top.sc
        /\ stack' = WithTop(h) \/ stack' = Callers
    BY <1>6 DEF ValueReturns, Answered, GenEnds, Returns, mem
  <2>2. h.k = "gen" /\ h.sc = Top.sc /\ h.at = Top.at
    BY <1>2, <2>1 DEF GenFrame
  <2>. HIDE DEF h
  <2>. QED  BY <2>1, <2>2, GoesOnInPlace, Leaving
<1>7. CASE NoMoreValues
  <2>1. /\ stack # <<>> /\ stack' = Callers /\ UNCHANGED scopes /\ scope' = Top.sc
    BY <1>7 DEF NoMoreValues, GoesOn, GenEnds, Returns, mem
  <2>. QED  BY <2>1, Leaving
<1>. QED  BY <1>3, <1>4, <1>5, <1>6, <1>7 DEF Generators

\* An implication or a set starts its list, in a copy of the scope unless it is a set
\* that is not isolated.
LEMMA StartsPair ==
  ASSUME TypeInv, ScopeInv, stack # <<>>, Top.k = "start", NEW h, NEW list,
         h.k \in {"imply", "iso", "set"}, h.sc = scope,
         stack' = stack \o <<h, Start(list, scope')>>,
         \/ scope' = Len(scopes) + 1
         \/ h.k = "set" /\ UNCHANGED scope,
         NEW w, Apart(w)
  PROVE  Lands
<1>. DEFINE e == Start(list, scope')
<1>1. High(scope) /\ Rises(Top) /\ High(scope')
  BY Highs, LenProperties DEF TypeInv
<1>2. scope \in 1 .. Len(scopes) /\ Len(scopes) \in Nat
  BY LenProperties DEF TypeInv
<1>3. Rises(h) /\ Placed(h, scopes') /\ Floor(h) = scope
  BY <1>1, ListsAreFree DEF Rises, Floor
<1>4. Waits(h, scope') /\ (Copying(h) => scope' > Floor(h))
  BY <1>2, <1>3 DEF Waits, Copying
<1>5. Rises(e) /\ Placed(e, scopes') /\ OnTop(e, scope')
      /\ (Copying(h) => Above(e, Floor(h))) /\ stack' = stack \o <<h, e>>
  BY <1>1, <1>4, ListsRise
<1>. HIDE DEF e
<1>6. Rebuilt
  BY <1>1, <1>3, <1>4, <1>5, PairRebuilds
<1>. QED  BY <1>1, <1>6 DEF Lands

\* The steps of implications, choices and sets keep what the others rely on.
LEMMA BranchingLands ==
  ASSUME TypeInv, ScopeInv, Branching
  PROVE  Lands
<1>1. ASSUME stack # <<>>, Top.k = "choice" PROVE Top \in ChoiceFrame
  BY <1>1, TopChoice
<1>2. CASE EvalImply
  <2>. DEFINE h == [k |-> "imply", sc |-> scope, qc |-> qctx,
                    old |-> CurrentList, at |-> Len(qctxs) + 3]
  <2>1. /\ stack # <<>> /\ Top.k = "start" /\ scope' = Len(scopes) + 1
        /\ \E c : scopes' = Append(scopes, c)
        /\ \E list : stack' = stack \o <<h, Start(list, Len(scopes) + 1)>>
    BY <1>2 DEF EvalImply, Evaluating
  <2>2. h.k = "imply" /\ h.sc = scope
    OBVIOUS
  <2>. HIDE DEF h
  <2>3. PICK list : stack' = stack \o <<h, Start(list, scope')>>
    BY <2>1
  <2>4. Apart(1)
    BY <2>1, SparesAll
  <2>5. /\ stack # <<>> /\ Top.k = "start" /\ h.sc = scope
        /\ h.k \in {"imply", "iso", "set"}
        /\ scope' = Len(scopes) + 1 \/ (h.k = "set" /\ UNCHANGED scope)
    BY <2>1, <2>2
  <2>. QED  BY <2>3, <2>4, <2>5, StartsPair
<1>3. CASE EvalIsolated
  <2>. DEFINE h == [k |-> "iso", sc |-> scope, qc |-> qctx, old |-> CurrentList,
                    dp |-> doProcess]
  <2>1. /\ stack # <<>> /\ Top.k = "start" /\ scope' = Len(scopes) + 1
        /\ \E c : scopes' = Append(scopes, c)
        /\ \E list : stack' = stack \o <<h, Start(list, Len(scopes) + 1)>>
    BY <1>3 DEF EvalIsolated, EvaluatingSet, Evaluating
  <2>2. h.k = "iso" /\ h.sc = scope
    OBVIOUS
  <2>. HIDE DEF h
  <2>3. PICK list : stack' = stack \o <<h, Start(list, scope')>>
    BY <2>1
  <2>4. Apart(1)
    BY <2>1, SparesAll
  <2>5. /\ stack # <<>> /\ Top.k = "start" /\ h.sc = scope
        /\ h.k \in {"imply", "iso", "set"}
        /\ scope' = Len(scopes) + 1 \/ (h.k = "set" /\ UNCHANGED scope)
    BY <2>1, <2>2
  <2>. QED  BY <2>3, <2>4, <2>5, StartsPair
<1>4. CASE EvalSet
  <2>. DEFINE h == [k |-> "set", sc |-> scope, qc |-> qctx, old |-> CurrentList,
                    dp |-> doProcess]
  <2>1. /\ stack # <<>> /\ Top.k = "start" /\ UNCHANGED <<scope, scopes>>
        /\ \E list : stack' = stack \o <<h, Start(list, scope)>>
    BY <1>4 DEF EvalSet, EvaluatingSet, Evaluating
  <2>2. h.k = "set" /\ h.sc = scope
    OBVIOUS
  <2>. HIDE DEF h
  <2>3. PICK list : stack' = stack \o <<h, Start(list, scope')>>
    BY <2>1
  <2>. QED  BY <2>1, <2>2, <2>3, SparesAll, StartsPair
<1>5. CASE ImplyReturns \/ IsolatedReturns \/ SetReturns \/ NoMoreAlternatives
  <2>1. /\ stack # <<>> /\ stack' = Callers /\ UNCHANGED scopes
        /\ scope' \in {scope, Top.sc}
    BY <1>5 DEF ImplyReturns, IsolatedReturns, SetReturns, NoMoreAlternatives,
                Answered, GoesOn, Returns, BackTo, mem, ctl
  <2>. QED  BY <2>1, Leaving
<1>6. CASE EvalChoice
  <2>. DEFINE e == [k |-> "choice", g |-> CurrentGoal, code |-> Rest, sc |-> scope,
                    qc |-> qctx, old |-> <<>>, i |-> 1, save |-> cut,
                    committed |-> FALSE]
  <2>1. /\ stack # <<>> /\ Top.k = "start" /\ UNCHANGED <<scope, scopes>>
        /\ stack' = Append(stack, e)
    BY <1>6 DEF EvalChoice, Evaluating, mem, ctl
  <2>2. e.k = "choice" /\ e.sc = scope
    OBVIOUS
  <2>. HIDE DEF e
  <2>. QED  BY <2>1, <2>2, SparesAll, StartsInPlace
<1>7. CASE NextAlternative
  <2>. DEFINE h == [Top EXCEPT !.old = qctxs[Top.qc].expset]
  <2>1. /\ stack # <<>> /\ Top.k = "choice" /\ scope' = Len(scopes) + 1
        /\ \E c : scopes' = Append(scopes, c)
        /\ \E list : stack' = Append(WithTop(h), Start(list, Len(scopes) + 1))
    BY <1>7 DEF NextAlternative, GoesOn
  <2>2. h.k = "choice" /\ h.sc = Top.sc
    BY <1>1, <2>1 DEF ChoiceFrame
  <2>. HIDE DEF h
  <2>3. PICK list : stack' = Append(WithTop(h), Start(list, Len(scopes) + 1))
    BY <2>1
  <2>. QED  BY <2>1, <2>2, <2>3, SparesAll, RunsCopy
<1>8. CASE AlternativeReturns
  <2>. DEFINE h == [Top EXCEPT !.i = @ + 1]
  <2>1. /\ stack # <<>> /\ Top.k = "choice" /\ UNCHANGED scopes
        /\ \/ stack' = Callers /\ scope' \in {scope, Top.sc}
           \/ stack' = WithTop(h) /\ scope' = Top.sc
    BY <1>8 DEF AlternativeReturns, Answered, Returns, BackTo
  <2>2. h.k = "choice" /\ h.sc = Top.sc
    BY <1>1, <2>1 DEF ChoiceFrame
  <2>. HIDE DEF h
  <2>. QED  BY <2>1, <2>2, Leaving, GoesOnInPlace
<1>9. CASE EvalEmptySet
  BY <1>9, ImmediateLands
<1>. QED  BY <1>2, <1>3, <1>4, <1>5, <1>6, <1>7, <1>8, <1>9 DEF Branching

\* Every step of the engine does.
LEMMA StepLands ==
  ASSUME TypeInv, ScopeInv, [Next]_vars
  PROVE  ScopeInv' /\ KeepsCallers
<1>1. stack' \in Seq(Frames')
  BY StepType DEF TypeInv
<1>2. CASE UNCHANGED vars
  BY <1>2 DEF vars, ScopeInv, KeepsCallers, Placed, Waits, Above, OnTop, Floor,
              Copying, Top
<1>3. CASE Next /\ ~UNCHANGED vars
  <2>1. Lands
    BY <1>3, ImmediateLands, LaureStartLands, PredCallLands, GeneratorsLand,
       BranchingLands
    DEF Next, Finished
  <2>. QED  BY <1>1, <2>1, LandsHolds
<1>. QED  BY <1>2, <1>3

\* Backtracking restores the bindings of every scope but the global one, whatever the
\* program: a variation starts from the caller's bindings in a copy that never changes
\* while the call waits, and what runs under a call,
\* for a value, in an alternative, under an implication or in an isolated set leaves the
\* scope that these were met in as it was.
THEOREM BindingsAreRestored == Spec => BindingsReturn
<1>1. Init => ScopeInv
  <2>. SUFFICES ASSUME Init PROVE ScopeInv
    OBVIOUS
  <2>1. stack = <<Start(prog.query, 1)>> /\ Len(stack) = 1 /\ Top = Start(prog.query, 1)
    BY DEF Init, Top
  <2>2. \A j \in 1 .. Len(stack) : stack[j] = Top
    BY <2>1
  <2>3. Placed(Top, scopes) /\ OnTop(Top, scope)
    BY <2>1, ListsRise
  <2>. QED  BY <2>1, <2>2, <2>3 DEF ScopeInv
<1>2. TypeInv /\ ScopeInv /\ [Next]_vars => ScopeInv' /\ KeepsCallers
  BY StepLands
<1>3. TypeInv /\ ScopeInv => VariationsStartAlike
  <2>. SUFFICES ASSUME TypeInv, ScopeInv, stack # <<>>, Top.k = "call", Top.ph = "next"
                PROVE  scope = Top.sc /\ (Top.sc # 1 => scopes[Top.at] = scopes[Top.sc])
    BY DEF VariationsStartAlike, GoesOn
  <2>1. Placed(Top, scopes) /\ OnTop(Top, scope)
    BY Highs DEF ScopeInv
  <2>. QED  BY <2>1 DEF Placed, OnTop
<1>4. Spec => []ScopeInv
  BY <1>1, <1>2, LiveAddresses, PTL DEF Spec
<1>5. TypeInv /\ ScopeInv /\ [Next]_vars => [VariationsStartAlike /\ KeepsCallers]_vars
  BY <1>2, <1>3
<1>. QED  BY <1>4, <1>5, LiveAddresses, PTL DEF Spec, BindingsReturn
=============================================================================
