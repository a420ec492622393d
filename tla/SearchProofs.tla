---------------------------- MODULE SearchProofs ----------------------------
(***************************************************************************)
(* Theorems about the search engine: its type invariant, the recursion     *)
(* counter as a bound of the calls in progress, and the silence of the     *)
(* goals of quantifiers and isolated sets.                                 *)
(***************************************************************************)
EXTENDS Search, SequenceTheorems, TLAPS

-----------------------------------------------------------------------------
(* Sequences *)

\* A sequence over a set is one over a larger set.
LEMMA SeqOfMore ==
  ASSUME NEW S, NEW T, S \subseteq T, NEW s \in Seq(S)
  PROVE  s \in Seq(T)
BY SeqMonotonic

\* Append keeps the sort of the elements and adds one at the end.
LEMMA AppendTyped ==
  ASSUME NEW S, NEW s \in Seq(S), NEW e \in S
  PROVE  /\ Append(s, e) \in Seq(S)
         /\ Len(Append(s, e)) = Len(s) + 1
         /\ \A i \in 1 .. Len(s) : Append(s, e)[i] = s[i]
         /\ Append(s, e)[Len(s) + 1] = e
OBVIOUS

\* Replacing an element keeps the sort, the length and the other elements.
LEMMA UpdateTyped ==
  ASSUME NEW S, NEW s \in Seq(S), NEW i \in 1 .. Len(s), NEW e \in S
  PROVE  /\ [s EXCEPT ![i] = e] \in Seq(S)
         /\ Len([s EXCEPT ![i] = e]) = Len(s)
         /\ \A j \in 1 .. Len(s) :
              [s EXCEPT ![i] = e][j] = IF j = i THEN e ELSE s[j]
BY ExceptSeq

\* A sequence that is not empty has a last element.
LEMMA LastTyped ==
  ASSUME NEW S, NEW s \in Seq(S), s # <<>>
  PROVE  Len(s) \in 1 .. Len(s) /\ s[Len(s)] \in S
BY EmptySeq, LenProperties

\* All but the last element of a sequence, as Callers takes them.
LEMMA FrontTyped ==
  ASSUME NEW S, NEW s \in Seq(S), s # <<>>
  PROVE  /\ SubSeq(s, 1, Len(s) - 1) \in Seq(S)
         /\ Len(SubSeq(s, 1, Len(s) - 1)) = Len(s) - 1
         /\ \A i \in 1 .. Len(s) - 1 : SubSeq(s, 1, Len(s) - 1)[i] = s[i]
<1>1. Len(s) \in Nat \ {0}
  BY EmptySeq
<1>. DEFINE n == Len(s) - 1
<1>2. \A i \in 1 .. n : s[i] \in S
  BY <1>1, ElementOfSeq
<1>3. n \in Int
  BY <1>1
<1>. HIDE DEF n
<1>4. /\ SubSeq(s, 1, n) \in Seq(S)
      /\ Len(SubSeq(s, 1, n)) = IF 1 <= n THEN n - 1 + 1 ELSE 0
      /\ \A i \in 1 .. n - 1 + 1 : SubSeq(s, 1, n)[i] = s[1 + i - 1]
  BY <1>2, <1>3, SubSeqProperties
<1>5. n - 1 + 1 = n /\ \A i \in 1 .. n : 1 + i - 1 = i
  BY <1>3
<1>6. ASSUME NEW i \in 1 .. n PROVE SubSeq(s, 1, n)[i] = s[i]
  BY <1>4, <1>5
<1>7. Len(SubSeq(s, 1, n)) = n
  BY <1>1, <1>4, <1>5 DEF n
<1>. QED  BY <1>4, <1>6, <1>7 DEF n

\* Two elements make a sequence of length two.
LEMMA PairTyped ==
  ASSUME NEW S, NEW a \in S, NEW b \in S
  PROVE  <<a, b>> \in Seq(S) /\ Len(<<a, b>>) = 2
OBVIOUS

\* Three elements make a sequence of length three.
LEMMA TripleTyped ==
  ASSUME NEW S, NEW a \in S, NEW b \in S, NEW c \in S
  PROVE  <<a, b, c>> \in Seq(S) /\ Len(<<a, b, c>>) = 3
OBVIOUS

\* The empty sequence is one over every set.
LEMMA EmptyTyped ==
  ASSUME NEW S
  PROVE  <<>> \in Seq(S) /\ Len(<<>>) = 0
OBVIOUS

-----------------------------------------------------------------------------
(* The inductive type invariant: every address is the address of an object *)

LiveScope(n, l) == {s \in Scope : /\ s.next \in 0 .. n
                                 /\ \A x \in Names : s.cell[x].link \in 0 .. l}
LiveContext(m) == {q \in QContext : q.next \in 0 .. m}
LiveCall(n, m) == {f \in CallFrame :
  /\ f.sc \in 1 .. n /\ f.at \in 1 .. n /\ f.prev \in 0 .. n
  /\ f.qc \in 0 .. m /\ f.i \in Nat \ {0}
  /\ f.ph # "next" => f.qc # 0 /\ f.i <= Len(prog.pred[f.g.pred].clauses)
  /\ f.ph = "inst" => f.prev # 0
  /\ f.g.op = "call"}
LiveGen(n, m) == {f \in GenFrame :
  f.sc \in 1 .. n /\ f.at \in 1 .. n /\ f.qc \in 0 .. m}
LiveStart(n) == {f \in StartFrame : f.sc \in 1 .. n}
LiveImply(n, m) == {f \in ImplyFrame :
  f.sc \in 1 .. n /\ f.qc \in 1 .. m /\ f.at \in 1 .. m}
LiveChoice(n, m) == {f \in ChoiceFrame :
  f.sc \in 1 .. n /\ f.qc \in 1 .. m /\ f.i \in Nat \ {0}}
LiveSet(n, m) == {f \in SetFrame : f.sc \in 1 .. n /\ f.qc \in 1 .. m}
LiveFrame(n, m) == LiveStart(n) \cup LiveCall(n, m) \cup LiveGen(n, m)
  \cup LiveImply(n, m) \cup LiveChoice(n, m) \cup LiveSet(n, m)

Frames == LiveFrame(Len(scopes), Len(qctxs))
Given == [answer : [Names -> SUBSET Vals],
          reply : {";", ".", "...", "more", "enough"}]

TypeInv ==
  /\ prog \in Program /\ mode \in Modes
  /\ stack \in Seq(Frames)
  /\ scopes \in Seq(LiveScope(Len(scopes), nlink))
  /\ qctxs \in Seq(LiveContext(Len(qctxs)))
  /\ scope \in 1 .. Len(scopes) /\ qctx \in 0 .. Len(qctxs)
  /\ cut \in Nat /\ depth \in Int /\ doProcess \in BOOLEAN
  /\ nlink \in Nat /\ tracked \in [Names -> 0 .. nlink]
  /\ ret \in Resp
  /\ out \in Seq(Given)

\* A frame is of the kind its tag says.
LEMMA FrameKinds ==
  ASSUME NEW n, NEW m, NEW f \in LiveFrame(n, m)
  PROVE  /\ f.k = "start" => f \in LiveStart(n)
         /\ f.k = "call" => f \in LiveCall(n, m)
         /\ f.k = "gen" => f \in LiveGen(n, m)
         /\ f.k = "imply" => f \in LiveImply(n, m)
         /\ f.k = "choice" => f \in LiveChoice(n, m)
         /\ f.k \in {"iso", "set"} => f \in LiveSet(n, m)
         /\ f.k \in {"start", "call", "gen", "imply", "choice", "iso", "set"}
         /\ f.sc \in 1 .. n
BY DEF LiveFrame, LiveStart, LiveCall, LiveGen, LiveImply, LiveChoice, LiveSet,
       StartFrame, CallFrame, GenFrame, ImplyFrame, ChoiceFrame, SetFrame

\* Objects are never freed while the query runs: what was live stays live.
LEMMA StaysLive ==
  ASSUME NEW n \in Nat, NEW m \in Nat, NEW n2 \in Nat, NEW m2 \in Nat,
         n <= n2, m <= m2
  PROVE  LiveFrame(n, m) \subseteq LiveFrame(n2, m2)
BY DEF LiveFrame, LiveStart, LiveCall, LiveGen, LiveImply, LiveChoice, LiveSet

\* The same for scopes: new scopes and new links leave old scopes live.
LEMMA ScopesStayLive ==
  ASSUME NEW n \in Nat, NEW l \in Nat, NEW n2 \in Nat, NEW l2 \in Nat,
         n <= n2, l <= l2
  PROVE  LiveScope(n, l) \subseteq LiveScope(n2, l2)
BY DEF LiveScope

\* The same for qcontexts.
LEMMA ContextsStayLive ==
  ASSUME NEW m \in Nat, NEW m2 \in Nat, m <= m2
  PROVE  LiveContext(m) \subseteq LiveContext(m2)
BY DEF LiveContext

\* The frames of the stack, and what is left when the top one is replaced or
\* has returned.
LEMMA TopLive ==
  ASSUME TypeInv, stack # <<>>
  PROVE  /\ Len(stack) \in 1 .. Len(stack) /\ Top \in Frames
         /\ Callers \in Seq(Frames)
         /\ \A f \in Frames : WithTop(f) \in Seq(Frames)
<1>1. stack \in Seq(Frames)
  BY DEF TypeInv
<1>. QED  BY <1>1, LastTyped, FrontTyped, UpdateTyped DEF Top, Callers, WithTop

\* The expression under evaluation.
LEMMA CurrentTyped ==
  ASSUME TypeInv, NEW op, Evaluating(op)
  PROVE  /\ stack # <<>> /\ ret = NoResp
         /\ Top \in LiveStart(Len(scopes))
         /\ CurrentGoal \in Goal /\ CurrentGoal.op = op /\ Rest \in Seq(Goal)
<1>1. Top \in Frames /\ Top.k = "start" /\ Top.code # <<>>
  BY TopLive DEF Evaluating
<1>2. Top \in LiveStart(Len(scopes))
  BY <1>1, FrameKinds DEF Frames
<1>3. Top.code \in Seq(Goal)
  BY <1>2 DEF LiveStart, StartFrame
<1>. HIDE DEF Goal, Top
<1>4. Head(Top.code) \in Goal /\ Tail(Top.code) \in Seq(Goal)
  BY <1>1, <1>3, HeadTailProperties
<1>. QED  BY <1>1, <1>2, <1>4 DEF Evaluating, CurrentGoal, Rest

-----------------------------------------------------------------------------
(* Type correctness of the operators *)

\* Every response the evaluators build is a response.
LEMMA ResponsesTyped ==
  /\ NoResp \in Resp /\ ErrorResp \in Resp /\ StopResp \in Resp
  /\ Yield(TRUE) \in Resp /\ Yield(FALSE) \in Resp
  /\ Bool(TRUE) \in Resp /\ Bool(FALSE) \in Resp
  /\ \A st \in {"none", "true", "false", "yield", "error", "stop", "continue",
                 "crash", "abort"}, pl \in {0, 1, 9} : Respond(st, pl) \in Resp
BY DEF NoResp, ErrorResp, StopResp, Yield, Bool, Respond, Resp

\* A live address is that of a scope, whose links were handed out.
LEMMA ScopeAt ==
  ASSUME TypeInv, NEW a \in 1 .. Len(scopes)
  PROVE  /\ scopes[a] \in LiveScope(Len(scopes), nlink)
         /\ scopes[a] \in Scope
         /\ \A x \in Names : /\ scopes[a].cell[x] \in Cell
                             /\ scopes[a].cell[x].dom \in SUBSET Vals
                             /\ scopes[a].cell[x].link \in 0 .. nlink
<1>1. scopes[a] \in LiveScope(Len(scopes), nlink)
  BY ElementOfSeq DEF TypeInv
<1>. QED  BY <1>1 DEF LiveScope, Scope, Cell

\* A live address is that of a qcontext.
LEMMA ContextAt ==
  ASSUME TypeInv, NEW q \in 1 .. Len(qctxs)
  PROVE  /\ qctxs[q] \in LiveContext(Len(qctxs))
         /\ qctxs[q].expset \in Seq(Goal) /\ qctxs[q].next \in 0 .. Len(qctxs)
<1>1. qctxs[q] \in LiveContext(Len(qctxs))
  BY ElementOfSeq DEF TypeInv
<1>. QED  BY <1>1 DEF LiveContext, QContext

\* A search for a name ends in a scope that has it.
LEMMA FindTyped ==
  ASSUME TypeInv, NEW x \in Names
  PROVE  Find(x) \in 0 .. Len(scopes) /\ Len(scopes) \in Nat \ {0}
<1>1. Len(scopes) \in Nat /\ scope \in 1 .. Len(scopes)
  BY LenProperties DEF TypeInv
<1>. QED  BY <1>1 DEF Find

\* Narrowing a cell leaves a scope a scope.
LEMMA CellUpdate ==
  ASSUME NEW n, NEW l, NEW s \in LiveScope(n, l), NEW x \in Names,
         NEW d \in SUBSET Vals, NEW e \in BOOLEAN
  PROVE  /\ [s EXCEPT !.cell[x].dom = d] \in LiveScope(n, l)
         /\ [s EXCEPT !.cell[x] = Holding(@, d, e)] \in LiveScope(n, l)
<1>1. s.cell \in [Names -> Cell] /\ \A y \in Names : s.cell[y].link \in 0 .. l
  BY DEF LiveScope, Scope
<1>2. ASSUME NEW c \in Cell, c.link = s.cell[x].link
      PROVE  [s EXCEPT !.cell[x] = c] \in LiveScope(n, l)
  <2>. DEFINE cells == [s.cell EXCEPT ![x] = c]
  <2>1. cells \in [Names -> Cell] /\ \A y \in Names : cells[y].link \in 0 .. l
    BY <1>1, <1>2
  <2>. HIDE DEF cells
  <2>2. [s EXCEPT !.cell = cells] \in LiveScope(n, l)
    BY <2>1 DEF LiveScope, Scope
  <2>. QED  BY <2>2 DEF cells
<1>3. /\ [s.cell[x] EXCEPT !.dom = d] \in Cell
      /\ [s.cell[x] EXCEPT !.dom = d].link = s.cell[x].link
      /\ Holding(s.cell[x], d, e) \in Cell
      /\ Holding(s.cell[x], d, e).link = s.cell[x].link
  BY <1>1 DEF Cell, Holding
<1>. QED  BY <1>2, <1>3

\* Narrowing a variable in place keeps every scope a scope.
LEMMA AssignTyped ==
  ASSUME TypeInv, NEW a \in 1 .. Len(scopes), NEW x \in Names,
         NEW d \in SUBSET Vals, NEW e \in BOOLEAN
  PROVE  /\ Assign(a, x, d, e) \in Seq(LiveScope(Len(scopes), nlink))
         /\ Len(Assign(a, x, d, e)) = Len(scopes)
<1>. DEFINE S == LiveScope(Len(scopes), nlink)
<1>1. scopes \in Seq(S) /\ scopes[a] \in S
  BY ScopeAt DEF TypeInv
<1>2. [scopes[a] EXCEPT !.cell[x] = Holding(@, d, e)] \in S
  BY <1>1, CellUpdate
<1>. HIDE DEF S
<1>3. /\ [scopes EXCEPT ![a] = [scopes[a] EXCEPT !.cell[x] = Holding(@, d, e)]] \in Seq(S)
      /\ Len([scopes EXCEPT ![a] = [scopes[a] EXCEPT !.cell[x] = Holding(@, d, e)]])
           = Len(scopes)
  BY <1>1, <1>2, UpdateTyped
<1>. QED  BY <1>3 DEF Assign, S

-----------------------------------------------------------------------------
(* The initial state *)

\* laure_process_query starts in a state that has the types.
LEMMA InitType ==
  ASSUME Init
  PROVE  TypeInv
<1>1. prog \in Program /\ mode \in Modes
  BY ProgramsAssumption DEF Init
<1>2. prog.query \in Seq(Goal) /\ prog.imaged \in Seq(Names)
  BY <1>1 DEF Program
<1>3. nlink \in Nat
  BY <1>2, LenProperties DEF Init
<1>. DEFINE cells == [n \in Names |->
                 IF \E j \in 1 .. Len(prog.imaged) : prog.imaged[j] = n
                 THEN [link |-> CHOOSE j \in 1 .. Len(prog.imaged) :
                                  prog.imaged[j] = n,
                       dom |-> Vals, single |-> FALSE]
                 ELSE NoCell]
            first == [idx |-> 1, repeat |-> 0, next |-> 0, cell |-> cells]
<1>4. cells \in [Names -> Cell] /\ \A n \in Names : cells[n].link \in 0 .. nlink
  BY <1>3 DEF Init, Cell, NoCell
<1>. HIDE DEF cells
<1>5. first \in LiveScope(1, nlink)
  BY <1>4 DEF LiveScope, Scope
<1>6. NewQContext(prog.query, 0) \in LiveContext(1)
  BY <1>2 DEF NewQContext, LiveContext, QContext
<1>7. Start(prog.query, 1) \in LiveFrame(1, 1)
  BY <1>2 DEF Start, LiveFrame, LiveStart, StartFrame
<1>8. scopes = <<first>> /\ qctxs = <<NewQContext(prog.query, 0)>>
      /\ stack = <<Start(prog.query, 1)>>
  BY DEF Init, cells
<1>. HIDE DEF first
<1>9. Len(scopes) = 1 /\ Len(qctxs) = 1
  BY <1>8
<1>10. /\ scopes \in Seq(LiveScope(1, nlink)) /\ qctxs \in Seq(LiveContext(1))
       /\ stack \in Seq(LiveFrame(1, 1))
  BY <1>5, <1>6, <1>7, <1>8
<1>11. out \in Seq(Given) /\ tracked \in [Names -> 0 .. nlink] /\ ret \in Resp
  BY <1>3, EmptyTyped, ResponsesTyped DEF Init
<1>12. scope = 1 /\ qctx = 1 /\ cut = 0 /\ depth = 0 /\ doProcess = TRUE
  BY DEF Init
<1>. QED  BY <1>1, <1>3, <1>9, <1>10, <1>11, <1>12 DEF TypeInv, Frames

-----------------------------------------------------------------------------
(* Steps that only add objects *)

\* Where scopes and qcontexts are only added, the stack stays a stack.
LEMMA FramesGrow ==
  ASSUME TypeInv, prog' = prog, Len(scopes') \in Nat, Len(qctxs') \in Nat,
         Len(scopes) <= Len(scopes'), Len(qctxs) <= Len(qctxs')
  PROVE  /\ Frames \subseteq Frames'
         /\ \A s \in Seq(Frames) : s \in Seq(Frames')
<1>1. Len(scopes) \in Nat /\ Len(qctxs) \in Nat
  BY LenProperties DEF TypeInv
<1>2. Frames' = LiveFrame(Len(scopes'), Len(qctxs'))
  BY DEF Frames, LiveFrame, LiveCall
<1>3. Frames \subseteq Frames'
  BY <1>1, <1>2, StaysLive DEF Frames
<1>. QED  BY <1>3, SeqOfMore

-----------------------------------------------------------------------------
(* Immediate responses *)

\* An assertion keeps the types.
LEMMA EvalAssertType ==
  ASSUME TypeInv, EvalAssert
  PROVE  TypeInv'
<1>1. CurrentGoal \in Goal
  BY CurrentTyped DEF EvalAssert
<1>2. CurrentGoal.x \in Names /\ CurrentGoal.dom \in SUBSET Vals
  BY <1>1 DEF Goal
<1>. DEFINE a == Find(CurrentGoal.x)
            d == CurrentGoal.dom
            one == \E v \in Vals : d = {v}
<1>3. a \in 0 .. Len(scopes)
  BY <1>2, FindTyped
<1>4. /\ scopes' = scopes \/ (a # 0 /\ scopes' = Assign(a, CurrentGoal.x, d, one))
      /\ ret' \in {ErrorResp, Bool(FALSE), Bool(TRUE)}
  BY DEF EvalAssert
<1>5. d \in SUBSET Vals /\ one \in BOOLEAN
  BY <1>2
<1>. HIDE DEF a, d, one
<1>6. scopes' \in Seq(LiveScope(Len(scopes), nlink)) /\ Len(scopes') = Len(scopes)
  <2>1. CASE scopes' = scopes
    BY <2>1 DEF TypeInv
  <2>2. CASE a # 0 /\ scopes' = Assign(a, CurrentGoal.x, d, one)
    BY <1>2, <1>3, <1>5, <2>2, AssignTyped
  <2>. QED  BY <1>4, <2>1, <2>2
<1>7. ret' \in Resp
  BY <1>4, ResponsesTyped
<1>8. UNCHANGED <<stack, qctxs, nlink, tracked, ctl, env>>
  BY DEF EvalAssert
<1>. QED  BY <1>6, <1>7, <1>8 DEF TypeInv, Frames, LiveFrame, LiveCall, ctl, env

\* A rename keeps the types.
LEMMA EvalRenameType ==
  ASSUME TypeInv, EvalRename
  PROVE  TypeInv'
<1>1. UNCHANGED <<stack, mem, ctl, env>> /\ ret' = Bool(TRUE)
  BY DEF EvalRename
<1>. QED  BY <1>1, ResponsesTyped DEF TypeInv, Frames, LiveFrame, LiveCall, mem, ctl, env

\* A cut changes ghosts only in the frames.
LEMMA CommitLive ==
  ASSUME TypeInv, NEW j \in 1 .. Len(stack)
  PROVE  Commit(j) \in Frames
<1>. DEFINE f == stack[j]
            g == [f EXCEPT !.committed = TRUE]
<1>1. f \in Frames
  BY ElementOfSeq DEF TypeInv
<1>2. CASE f.k = "call"
  <2>1. f \in LiveCall(Len(scopes), Len(qctxs))
    BY <1>1, <1>2, FrameKinds DEF Frames
  <2>2. g \in LiveCall(Len(scopes), Len(qctxs))
    BY <2>1 DEF LiveCall, CallFrame
  <2>. QED  BY <1>1, <2>2 DEF Commit, Frames, LiveFrame
<1>3. CASE f.k = "gen"
  <2>1. f \in LiveGen(Len(scopes), Len(qctxs))
    BY <1>1, <1>3, FrameKinds DEF Frames
  <2>2. g \in LiveGen(Len(scopes), Len(qctxs))
    BY <2>1 DEF LiveGen, GenFrame
  <2>. QED  BY <1>1, <2>2 DEF Commit, Frames, LiveFrame
<1>4. CASE f.k = "choice"
  <2>1. f \in LiveChoice(Len(scopes), Len(qctxs))
    BY <1>1, <1>4, FrameKinds DEF Frames
  <2>2. g \in LiveChoice(Len(scopes), Len(qctxs))
    BY <2>1 DEF LiveChoice, ChoiceFrame
  <2>. QED  BY <1>1, <2>2 DEF Commit, Frames, LiveFrame
<1>5. CASE f.k \notin {"call", "gen", "choice"}
  BY <1>1, <1>5 DEF Commit
<1>. QED  BY <1>2, <1>3, <1>4, <1>5

\* A cut keeps the types.
LEMMA EvalCutType ==
  ASSUME TypeInv, EvalCut
  PROVE  TypeInv'
<1>1. /\ stack' = [j \in 1 .. Len(stack) |-> Commit(j)]
      /\ cut' = Here.idx /\ ret' = Bool(TRUE)
      /\ UNCHANGED <<mem, scope, qctx, depth, doProcess, env>>
  BY DEF EvalCut
<1>2. stack' \in Seq(Frames)
  <2>1. Len(stack) \in Nat /\ \A j \in 1 .. Len(stack) : Commit(j) \in Frames
    BY CommitLive, LenProperties DEF TypeInv
  <2>. QED  BY <1>1, <2>1
<1>3. Here.idx \in Nat
  BY ScopeAt DEF TypeInv, Here, Scope
<1>. QED  BY <1>1, <1>2, <1>3, ResponsesTyped
          DEF TypeInv, Frames, LiveFrame, LiveCall, mem, env

\* A new cell: its link is the next one.
LEMMA NewCellTyped ==
  ASSUME TypeInv, NEW x \in Names, NEW d \in Cell
  PROVE  LET new == [scopes EXCEPT ![scope].cell[x] =
                       [d EXCEPT !.link = nlink + 1]]
         IN  new \in Seq(LiveScope(Len(scopes), nlink + 1)) /\ Len(new) = Len(scopes)
<1>. DEFINE S == LiveScope(Len(scopes), nlink + 1)
            c == [d EXCEPT !.link = nlink + 1]
            s == scopes[scope]
            cells == [s.cell EXCEPT ![x] = c]
<1>1. scopes \in Seq(S) /\ scope \in 1 .. Len(scopes) /\ nlink \in Nat
  <2>1. nlink \in Nat /\ Len(scopes) \in Nat /\ scope \in 1 .. Len(scopes)
        /\ scopes \in Seq(LiveScope(Len(scopes), nlink))
    BY LenProperties DEF TypeInv
  <2>. QED  BY <2>1, ScopesStayLive, SeqOfMore
<1>2. s \in S
  BY <1>1, ElementOfSeq
<1>3. c \in Cell /\ c.link \in 0 .. nlink + 1
  BY <1>1 DEF Cell
<1>4. cells \in [Names -> Cell] /\ \A y \in Names : cells[y].link \in 0 .. nlink + 1
  BY <1>2, <1>3 DEF LiveScope, Scope
<1>. HIDE DEF c, cells
<1>5. [s EXCEPT !.cell = cells] \in S
  BY <1>2, <1>4 DEF LiveScope, Scope
<1>. HIDE DEF S
<1>6. /\ [scopes EXCEPT ![scope] = [s EXCEPT !.cell = cells]] \in Seq(S)
      /\ Len([scopes EXCEPT ![scope] = [s EXCEPT !.cell = cells]]) = Len(scopes)
  BY <1>1, <1>5, UpdateTyped
<1>. QED  BY <1>6 DEF S, c, cells

\* A unification without a choicepoint keeps the types.
LEMMA EvalEqType ==
  ASSUME TypeInv, EvalEq
  PROVE  TypeInv'
<1>. DEFINE x == CurrentGoal.x
            y == CurrentGoal.args[1]
            a == Find(x)
            b == Find(y)
            cx == scopes[a].cell[x]
            cy == scopes[b].cell[y]
            both == cx.dom \cap cy.dom
            New(n, c) == [scopes EXCEPT ![scope].cell[n] =
                            [c EXCEPT !.link = nlink + 1]]
<1>1. CurrentGoal \in Goal /\ CurrentGoal.op = "eq"
  BY CurrentTyped DEF EvalEq
<1>2. x \in Names /\ y \in Names
  BY <1>1, ElementOfSeq DEF Goal
<1>3. a \in 0 .. Len(scopes) /\ b \in 0 .. Len(scopes)
  BY <1>2, FindTyped
<1>4. (a # 0 => cx \in Cell) /\ (b # 0 => cy \in Cell)
  BY <1>2, <1>3, ScopeAt
<1>5. UNCHANGED <<stack, qctxs, tracked, ctl, env>>
  BY DEF EvalEq
<1>6. \/ /\ ret' = ErrorResp
         /\ UNCHANGED <<scopes, nlink>>
      \/ /\ (a = 0) # (b = 0)
         /\ scopes' = IF a = 0 THEN New(x, cy) ELSE New(y, cx)
         /\ nlink' = nlink + 1
         /\ ret' = Bool(TRUE)
      \/ /\ a # 0 /\ b # 0
         /\ ret' = Bool(both # {})
         /\ scopes' = IF both = {} THEN scopes
                      ELSE [Assign(a, x, both, TRUE) EXCEPT
                                ![b].cell[y] = Holding(@, both, TRUE)]
         /\ UNCHANGED nlink
  BY DEF EvalEq
<1>. HIDE DEF x, y, a, b
<1>7. CASE ret' = ErrorResp /\ UNCHANGED <<scopes, nlink>>
  BY <1>5, <1>7, ResponsesTyped
  DEF TypeInv, Frames, LiveFrame, LiveCall, ctl, env
<1>8. CASE /\ (a = 0) # (b = 0)
           /\ scopes' = IF a = 0 THEN New(x, cy) ELSE New(y, cx)
           /\ nlink' = nlink + 1
           /\ ret' = Bool(TRUE)
  <2>1. scopes' \in Seq(LiveScope(Len(scopes), nlink')) /\ Len(scopes') = Len(scopes)
    <3>1. CASE a = 0
      BY <1>2, <1>4, <1>8, <3>1, NewCellTyped
    <3>2. CASE a # 0
      BY <1>2, <1>4, <1>8, <3>2, NewCellTyped
    <3>. QED  BY <3>1, <3>2
  <2>2. nlink' \in Nat /\ tracked \in [Names -> 0 .. nlink']
    BY <1>8 DEF TypeInv
  <2>3. Len(scopes) \in Nat /\ Len(qctxs) \in Nat
    BY LenProperties DEF TypeInv
  <2>4. stack' \in Seq(Frames')
    BY <1>5, <2>1, <2>3, FramesGrow DEF TypeInv, env
  <2>. QED  BY <1>5, <1>8, <2>1, <2>2, <2>4, ResponsesTyped DEF TypeInv, ctl, env
<1>9. CASE /\ a # 0 /\ b # 0
           /\ ret' = Bool(both # {})
           /\ scopes' = IF both = {} THEN scopes
                        ELSE [Assign(a, x, both, TRUE) EXCEPT
                                ![b].cell[y] = Holding(@, both, TRUE)]
           /\ UNCHANGED nlink
  <2>. DEFINE S == LiveScope(Len(scopes), nlink)
              one == Assign(a, x, both, TRUE)
  <2>1. both \in SUBSET Vals /\ a \in 1 .. Len(scopes) /\ b \in 1 .. Len(scopes)
    <3>1. cx \in Cell
      BY <1>4, <1>9
    <3>. HIDE DEF cx
    <3>2. cx.dom \in SUBSET Vals
      BY <3>1 DEF Cell
    <3>3. both \in SUBSET Vals
      BY <3>2
    <3>. QED  BY <1>3, <1>9, <3>3
  <2>2. one \in Seq(S) /\ Len(one) = Len(scopes)
    BY <1>2, <2>1, AssignTyped
  <2>. HIDE DEF one, both
  <2>3. [one[b] EXCEPT !.cell[y] = Holding(@, both, TRUE)] \in S
    BY <1>2, <2>1, <2>2, ElementOfSeq, CellUpdate
  <2>. HIDE DEF S
  <2>4. /\ [one EXCEPT ![b] = [one[b] EXCEPT !.cell[y] = Holding(@, both, TRUE)]] \in Seq(S)
        /\ Len([one EXCEPT ![b] = [one[b] EXCEPT !.cell[y] = Holding(@, both, TRUE)]]) = Len(scopes)
    BY <2>1, <2>2, <2>3, UpdateTyped
  <2>5. scopes' \in Seq(S) /\ Len(scopes') = Len(scopes)
    BY <1>9, <2>4 DEF TypeInv, S, one, both
  <2>6. ret' \in Resp
    BY <1>9, ResponsesTyped
  <2>7. stack' = stack /\ qctxs' = qctxs /\ nlink' = nlink /\ prog' = prog
    BY <1>5, <1>9 DEF ctl, env
  <2>8. Len(scopes) \in Nat /\ Len(qctxs) \in Nat
    BY LenProperties DEF TypeInv
  <2>9. stack' \in Seq(Frames')
    BY <2>5, <2>7, <2>8, FramesGrow DEF TypeInv
  <2>10. scopes' \in Seq(LiveScope(Len(scopes'), nlink'))
    BY <2>5, <2>7 DEF S
  <2>. QED  BY <1>5, <2>5, <2>6, <2>7, <2>9, <2>10 DEF TypeInv, ctl, env
<1>. QED  BY <1>6, <1>7, <1>8, <1>9

-----------------------------------------------------------------------------
(* laure_start *)

\* An activation of laure_start in a live scope is live.
LEMMA StartLive ==
  ASSUME TypeInv, NEW list \in Seq(Goal), NEW n \in Nat, NEW m \in Nat,
         NEW a \in 1 .. n
  PROVE  Start(list, a) \in LiveFrame(n, m)
BY DEF Start, LiveFrame, LiveStart, StartFrame

\* Going on to the next expression keeps the types.
LEMMA NextExpressionType ==
  ASSUME TypeInv, NextExpression
  PROVE  TypeInv'
<1>1. /\ stack # <<>> /\ Top.k = "start" /\ ret' = NoResp /\ Top.code # <<>>
      /\ stack' = WithTop(Start(Rest, Top.sc))
      /\ UNCHANGED <<mem, ctl, env>>
  BY DEF NextExpression, Answered
<1>2. Top \in LiveStart(Len(scopes))
  BY <1>1, TopLive, FrameKinds DEF Frames
<1>3. Top.code \in Seq(Goal) /\ Top.sc \in 1 .. Len(scopes)
  BY <1>2 DEF LiveStart, StartFrame
<1>4. Rest \in Seq(Goal)
  BY <1>1, <1>3, HeadTailProperties DEF Rest
<1>5. Len(scopes) \in Nat /\ Len(qctxs) \in Nat
  BY LenProperties DEF TypeInv
<1>6. Start(Rest, Top.sc) \in Frames
  BY <1>3, <1>4, <1>5, StartLive DEF Frames
<1>7. stack' \in Seq(Frames)
  BY <1>1, <1>6, TopLive
<1>. QED  BY <1>1, <1>7, ResponsesTyped
          DEF TypeInv, Frames, LiveFrame, LiveCall, mem, ctl, env

\* An activation that returns and changes nothing else.
LEMMA ReturnType ==
  ASSUME TypeInv, stack # <<>>, NEW r \in Resp, Returns(r),
         UNCHANGED <<mem, ctl, env>>
  PROVE  TypeInv'
<1>1. stack' \in Seq(Frames) /\ ret' \in Resp
  BY TopLive DEF Returns
<1>. QED  BY <1>1 DEF TypeInv, Frames, LiveFrame, LiveCall, mem, ctl, env

\* Leaving a list early keeps the types.
LEMMA LeaveListType ==
  ASSUME TypeInv, LeaveList
  PROVE  TypeInv'
<1>1. ret \in Resp /\ stack # <<>>
  BY DEF TypeInv, LeaveList, Answered
<1>2. (IF ret.st = "false" THEN Yield(FALSE) ELSE ret) \in Resp
  BY <1>1, ResponsesTyped
<1>. QED  BY <1>1, <1>2, ReturnType DEF LeaveList

\* Setting flagme keeps every qcontext a qcontext.
LEMMA FlaggedTyped ==
  ASSUME TypeInv
  PROVE  Flagged \in Seq(LiveContext(Len(qctxs))) /\ Len(Flagged) = Len(qctxs)
<1>. DEFINE S == LiveContext(Len(qctxs))
<1>1. CASE qctx = 0
  BY <1>1 DEF Flagged, TypeInv
<1>2. CASE qctx # 0
  <2>1. qctx \in 1 .. Len(qctxs) /\ qctxs \in Seq(S)
    BY <1>2, LenProperties DEF TypeInv
  <2>2. [qctxs[qctx] EXCEPT !.flagme = TRUE] \in S
    BY <2>1, ContextAt DEF LiveContext, QContext
  <2>. HIDE DEF S
  <2>3. /\ [qctxs EXCEPT ![qctx] = [qctxs[qctx] EXCEPT !.flagme = TRUE]] \in Seq(S)
        /\ Len([qctxs EXCEPT ![qctx] = [qctxs[qctx] EXCEPT !.flagme = TRUE]])
             = Len(qctxs)
    BY <2>1, <2>2, UpdateTyped
  <2>. QED  BY <1>2, <2>3 DEF Flagged, S
<1>. QED  BY <1>1, <1>2

\* What laure_safe_update writes into a copy of the caller's scope are sets of
\* values: the copy is a scope.
LEMMA UpdatedTyped ==
  ASSUME TypeInv, NEW s \in LiveScope(Len(scopes), nlink)
  PROVE  Updated(s) \in LiveScope(Len(scopes), nlink)
<1>. DEFINE Linked(n) == {m \in Names :
                Here.cell[m].link = s.cell[n].link /\ s.cell[n].link # 0}
            Met(n) == {v \in s.cell[n].dom :
                         \A m \in Linked(n) : v \in Here.cell[m].dom}
            One(n) == s.cell[n].single \/ \E m \in Linked(n) : Here.cell[m].single
            cells == [n \in Names |->
              IF Met(n) = {} THEN s.cell[n] ELSE Holding(s.cell[n], Met(n), One(n))]
<1>1. /\ s.cell \in [Names -> Cell]
      /\ \A n \in Names : s.cell[n].link \in 0 .. nlink
  BY DEF LiveScope, Scope
<1>2. ASSUME NEW n \in Names
      PROVE  cells[n] \in Cell /\ cells[n].link = s.cell[n].link
  <2>1. Met(n) \in SUBSET Vals /\ s.cell[n] \in Cell
    BY <1>1 DEF Cell
  <2>2. One(n) \in BOOLEAN
    <3>1. s.cell[n].single \in BOOLEAN
      BY <2>1 DEF Cell
    <3>. QED  BY <3>1, Zenon
  <2>. HIDE DEF Met, One
  <2>3. Holding(s.cell[n], Met(n), One(n)) \in Cell
        /\ Holding(s.cell[n], Met(n), One(n)).link = s.cell[n].link
    BY <2>1, <2>2 DEF Cell, Holding
  <2>. QED  BY <2>1, <2>3
<1>3. cells \in [Names -> Cell] /\ \A n \in Names : cells[n].link \in 0 .. nlink
  <2>. HIDE DEF cells
  <2>1. DOMAIN cells = Names /\ cells = [n \in Names |-> cells[n]]
    BY DEF cells
  <2>. QED  BY <1>1, <1>2, <2>1
<1>4. Updated(s) = [s EXCEPT !.cell = cells]
  BY DEF Updated
<1>. HIDE DEF cells
<1>. QED  BY <1>3, <1>4 DEF LiveScope, Scope

\* The tail call of a continuation keeps the types.
LEMMA ContinueType ==
  ASSUME TypeInv, Continue
  PROVE  TypeInv'
<1>. DEFINE q == qctxs[qctx].next
            list == IF q = 0 THEN <<>> ELSE qctxs[q].expset
            copy == Len(scopes) + 1
            S == LiveScope(Len(scopes'), nlink)
<1>1. /\ stack # <<>> /\ Top.k = "start" /\ Top.code = <<>> /\ qctx # 0
      /\ qctx' = q /\ qctxs' = Flagged
      /\ UNCHANGED <<nlink, tracked, cut, depth, doProcess, ret, env>>
  BY DEF Continue, EndOfList, GoesOn, HasContinuation
<1>2. \/ /\ scopes' = [scopes EXCEPT ![scope].repeat = @ - 1]
         /\ Here.repeat > 0 /\ scope' = scope /\ stack' = WithTop(Start(list, scope))
      \/ /\ Here.repeat = 0 /\ Here.next # 0 /\ scope' = copy
         /\ scopes' = Append(scopes, Updated(scopes[Here.next]))
         /\ stack' = WithTop(Start(list, copy))
      \/ /\ scopes' = scopes /\ scope' = scope /\ stack' = WithTop(Start(list, scope))
  BY DEF Continue
<1>3. /\ Len(scopes) \in Nat \ {0} /\ Len(qctxs) \in Nat /\ qctx \in 1 .. Len(qctxs)
      /\ scope \in 1 .. Len(scopes) /\ nlink \in Nat
      /\ scopes \in Seq(LiveScope(Len(scopes), nlink))
  BY <1>1, LenProperties DEF TypeInv
<1>4. q \in 0 .. Len(qctxs) /\ list \in Seq(Goal)
  BY <1>3, ContextAt, EmptyTyped
<1>. HIDE DEF q, list
<1>5. qctxs' \in Seq(LiveContext(Len(qctxs'))) /\ Len(qctxs') = Len(qctxs)
  BY <1>1, FlaggedTyped
<1>6. Here \in LiveScope(Len(scopes), nlink)
  BY <1>3, ScopeAt DEF Here
<1>7. /\ scopes' \in Seq(S) /\ Len(scopes') \in Nat /\ Len(scopes) <= Len(scopes')
      /\ scope' \in 1 .. Len(scopes') /\ stack' = WithTop(Start(list, scope'))
  <2>1. CASE /\ scopes' = [scopes EXCEPT ![scope].repeat = @ - 1]
             /\ Here.repeat > 0 /\ scope' = scope
             /\ stack' = WithTop(Start(list, scope))
    <3>1. [Here EXCEPT !.repeat = @ - 1] \in LiveScope(Len(scopes), nlink)
      BY <1>6, <2>1 DEF LiveScope, Scope
    <3>2. /\ [scopes EXCEPT ![scope] = [Here EXCEPT !.repeat = @ - 1]]
               \in Seq(LiveScope(Len(scopes), nlink))
          /\ Len([scopes EXCEPT ![scope] = [Here EXCEPT !.repeat = @ - 1]])
               = Len(scopes)
      BY <1>3, <3>1, UpdateTyped
    <3>3. scopes' = [scopes EXCEPT ![scope] = [Here EXCEPT !.repeat = @ - 1]]
      BY <2>1 DEF Here
    <3>4. Len(scopes') = Len(scopes) /\ scopes' \in Seq(LiveScope(Len(scopes), nlink))
      BY <3>2, <3>3
    <3>. QED  BY <1>3, <2>1, <3>4
  <2>2. CASE /\ Here.repeat = 0 /\ Here.next # 0 /\ scope' = copy
             /\ scopes' = Append(scopes, Updated(scopes[Here.next]))
             /\ stack' = WithTop(Start(list, copy))
    <3>1. Here.next \in 1 .. Len(scopes)
      BY <1>6, <2>2 DEF LiveScope
    <3>2. Updated(scopes[Here.next]) \in LiveScope(Len(scopes), nlink)
      BY <3>1, ScopeAt, UpdatedTyped
    <3>3. LiveScope(Len(scopes), nlink) \subseteq LiveScope(copy, nlink)
      BY <1>3, ScopesStayLive
    <3>4. /\ scopes' \in Seq(LiveScope(Len(scopes), nlink)) /\ Len(scopes') = copy
      BY <1>3, <2>2, <3>2, AppendTyped
    <3>. QED  BY <1>3, <2>2, <3>3, <3>4, SeqOfMore
  <2>3. CASE scopes' = scopes /\ scope' = scope /\ stack' = WithTop(Start(list, scope))
    BY <1>3, <2>3
  <2>. QED  BY <1>2, <2>1, <2>2, <2>3
<1>8. stack' \in Seq(Frames')
  <2>1. Frames \subseteq Frames' /\ Len(qctxs') \in Nat
    BY <1>1, <1>3, <1>5, <1>7, FramesGrow DEF env
  <2>2. Start(list, scope') \in Frames'
    <3>1. Frames' = LiveFrame(Len(scopes'), Len(qctxs'))
      BY <1>1 DEF Frames, LiveFrame, LiveCall, env
    <3>2. Start(list, scope') \in LiveStart(Len(scopes'))
      BY <1>4, <1>7 DEF Start, LiveStart, StartFrame
    <3>. QED  BY <3>1, <3>2 DEF LiveFrame
  <2>3. stack \in Seq(Frames') /\ Len(stack) \in 1 .. Len(stack)
    BY <1>1, <2>1, SeqOfMore, TopLive DEF TypeInv
  <2>. QED  BY <1>7, <2>2, <2>3, UpdateTyped DEF WithTop
<1>. QED  BY <1>1, <1>3, <1>4, <1>5, <1>7, <1>8 DEF TypeInv, env

\* An answer gives a set of values to every name.
LEMMA AnswerTyped ==
  ASSUME TypeInv
  PROVE  Answer \in [Names -> SUBSET Vals]
<1>1. \A n \in Names : Here.cell[n].dom \in SUBSET Vals
  BY ScopeAt DEF TypeInv, Here
<1>. QED  BY <1>1 DEF Answer, Holder

\* The end of a branch: an answer may be given.
LEMMA BranchEnds ==
  ASSUME TypeInv, stack # <<>>, qctxs' = Flagged,
         UNCHANGED <<scopes, nlink, tracked, ctl, prog, mode>>,
         stack' \in {<<>>, Callers}, ret' \in Resp,
         \/ out' = out
         \/ \E r \in {";", ".", "...", "more", "enough"} : Shown(r)
  PROVE  TypeInv'
<1>1. /\ qctxs' \in Seq(LiveContext(Len(qctxs'))) /\ Len(qctxs') = Len(qctxs)
  BY FlaggedTyped
<1>2. Frames' = Frames
  BY <1>1 DEF Frames, LiveFrame, LiveCall
<1>3. stack' \in Seq(Frames')
  BY <1>2, TopLive, EmptyTyped
<1>4. out' \in Seq(Given)
  <2>1. CASE out' = out
    BY <2>1 DEF TypeInv
  <2>2. ASSUME NEW r \in {";", ".", "...", "more", "enough"}, Shown(r)
        PROVE  out' \in Seq(Given)
    <3>1. [answer |-> Answer, reply |-> r] \in Given /\ out \in Seq(Given)
      BY AnswerTyped DEF Given, TypeInv
    <3>. QED  BY <2>2, <3>1, AppendTyped DEF Shown
  <2>. QED  BY <2>1, <2>2
<1>. QED  BY <1>1, <1>3, <1>4 DEF TypeInv, ctl

\* Each of the four ends of a branch keeps the types.
LEMMA SolutionType ==
  ASSUME TypeInv, Silent \/ Showcast \/ Send \/ SendScope
  PROVE  TypeInv'
<1>1. stack # <<>> /\ qctxs' = Flagged
      /\ UNCHANGED <<scopes, nlink, tracked, ctl, prog, mode>>
  BY DEF Silent, Showcast, Send, SendScope, EndOfList, GoesOn, ctl, env
<1>2. CASE Silent
  BY <1>1, <1>2, BranchEnds, ResponsesTyped DEF Silent, Returns, env
<1>3. CASE Showcast
  BY <1>1, <1>3, BranchEnds, ResponsesTyped DEF Showcast, Returns
<1>4. CASE Send
  BY <1>1, <1>4, BranchEnds, ResponsesTyped DEF Send, Returns
<1>5. CASE SendScope
  BY <1>1, <1>5, BranchEnds, ResponsesTyped DEF SendScope, Returns
<1>. QED  BY <1>2, <1>3, <1>4, <1>5

-----------------------------------------------------------------------------
(* Predicate calls *)

\* The cell under which an argument is known, locally or globally, is a cell.
LEMMA SeenTyped ==
  ASSUME TypeInv, NEW s \in LiveScope(Len(scopes), nlink), NEW x \in Names
  PROVE  /\ Seen(s, x) \in Cell /\ Seen(s, x).link \in 0 .. nlink
         /\ Seen(s, x).dom \in SUBSET Vals
<1>1. 1 \in 1 .. Len(scopes)
  BY LenProperties DEF TypeInv
<1>2. s.cell[x] \in Cell /\ s.cell[x].link \in 0 .. nlink
  BY DEF LiveScope, Scope
<1>3. scopes[1].cell[x] \in Cell /\ scopes[1].cell[x].link \in 0 .. nlink
  BY <1>1, ScopeAt
<1>. QED  BY <1>2, <1>3 DEF Seen, Cell

\* The cell of an argument has a link below the counter after the call.
LEMMA ArgCellTyped ==
  ASSUME TypeInv, NEW s \in LiveScope(Len(scopes), nlink), NEW args \in Seq(Names),
         NEW j \in 1 .. Len(args), NEW p, p.hint \in SUBSET Vals,
         NEW strict \in BOOLEAN
  PROVE  LET c == ArgCell(s, args, j, p, strict)
         IN  /\ c \in Cell /\ c.link \in 0 .. nlink + Len(args)
             /\ c.link <= nlink + Len(args)
<1>. DEFINE c == Seen(s, args[j])
<1>1. args[j] \in Names /\ nlink \in Nat /\ Len(args) \in Nat
  BY ElementOfSeq, LenProperties DEF TypeInv
<1>2. c \in Cell /\ c.link \in 0 .. nlink
  BY <1>1, SeenTyped
<1>3. tracked[args[j]] \in 0 .. nlink
  BY <1>1 DEF TypeInv
<1>. HIDE DEF c
<1>4. [c EXCEPT !.dom = IF strict THEN @ \cap p.hint ELSE @] \in Cell
      /\ [c EXCEPT !.dom = IF strict THEN @ \cap p.hint ELSE @].link = c.link
  BY <1>2 DEF Cell
<1>5. ArgCell(s, args, j, p, strict) =
        IF c.link # 0 THEN [c EXCEPT !.dom = IF strict THEN @ \cap p.hint ELSE @]
        ELSE [link |-> IF s.idx = 1 /\ tracked[args[j]] # 0
                       THEN tracked[args[j]] ELSE nlink + j,
              dom |-> p.hint, single |-> FALSE]
  BY DEF ArgCell, c
<1>. QED  BY <1>1, <1>2, <1>3, <1>4, <1>5 DEF Cell

\* The scope of a call with its arguments in it is a scope.
LEMMA WithArgsTyped ==
  ASSUME TypeInv, NEW s \in LiveScope(Len(scopes), nlink), NEW args \in Seq(Names),
         NEW p, p.hint \in SUBSET Vals, NEW strict \in BOOLEAN
  PROVE  WithArgs(s, args, p, strict) \in LiveScope(Len(scopes), nlink + Len(args))
<1>. DEFINE Is(n, j) == args[j] = n /\ (s.cell[n].link # 0 \/ Seen(s, n).link = 0)
            cells == [n \in Names |->
     IF \E j \in 1 .. Len(args) :
          args[j] = n /\ (s.cell[n].link # 0 \/ Seen(s, n).link = 0)
     THEN ArgCell(s, args, CHOOSE j \in 1 .. Len(args) : args[j] = n, p, strict)
     ELSE s.cell[n]]
<1>1. nlink \in Nat /\ Len(args) \in Nat
  BY LenProperties DEF TypeInv
<1>2. /\ s.cell \in [Names -> Cell]
      /\ \A n \in Names : s.cell[n].link \in 0 .. nlink + Len(args)
  BY <1>1 DEF LiveScope, Scope
<1>3. ASSUME NEW n \in Names, NEW i \in 1 .. Len(args), args[i] = n
      PROVE  LET c == ArgCell(s, args, CHOOSE j \in 1 .. Len(args) : args[j] = n,
                              p, strict)
             IN  c \in Cell /\ c.link \in 0 .. nlink + Len(args)
  <2>1. (CHOOSE j \in 1 .. Len(args) : args[j] = n) \in 1 .. Len(args)
    BY <1>3
  <2>. QED  BY <2>1, ArgCellTyped
<1>4. /\ cells \in [Names -> Cell]
      /\ \A n \in Names : cells[n].link \in 0 .. nlink + Len(args)
  BY <1>2, <1>3
<1>5. WithArgs(s, args, p, strict) = [s EXCEPT !.cell = cells]
  BY DEF WithArgs
<1>. HIDE DEF cells
<1>. QED  BY <1>4, <1>5 DEF LiveScope, Scope

\* The global scope with its arguments narrowed is a scope.
LEMMA GlobalArgsTyped ==
  ASSUME TypeInv, NEW s \in LiveScope(Len(scopes), nlink), NEW args \in Seq(Names),
         NEW p, p.hint \in SUBSET Vals, NEW strict \in BOOLEAN
  PROVE  GlobalArgs(s, args, p, strict) \in LiveScope(Len(scopes), nlink)
<1>. DEFINE g == scopes[1]
            cells == [n \in Names |->
     IF /\ strict /\ s.cell[n].link = 0 /\ g.cell[n].link # 0
        /\ \E j \in 1 .. Len(args) : args[j] = n
     THEN [g.cell[n] EXCEPT !.dom = @ \cap p.hint] ELSE g.cell[n]]
<1>1. g \in LiveScope(Len(scopes), nlink)
  <2>1. 1 \in 1 .. Len(scopes)
    BY LenProperties DEF TypeInv
  <2>. QED  BY <2>1, ScopeAt
<1>2. g.cell \in [Names -> Cell] /\ \A n \in Names : g.cell[n].link \in 0 .. nlink
  BY <1>1 DEF LiveScope, Scope
<1>3. GlobalArgs(s, args, p, strict) = [g EXCEPT !.cell = cells]
  BY DEF GlobalArgs
<1>. HIDE DEF g
<1>4. cells \in [Names -> Cell] /\ \A n \in Names : cells[n].link \in 0 .. nlink
  BY <1>2 DEF Cell
<1>. HIDE DEF cells
<1>. QED  BY <1>1, <1>3, <1>4 DEF LiveScope, Scope

\* The links that laure_showcast looks for were handed out.
LEMMA TrackTyped ==
  ASSUME TypeInv, NEW s \in LiveScope(Len(scopes), nlink), NEW args \in Seq(Names),
         NEW p, p.hint \in SUBSET Vals
  PROVE  Track(s, args, p) \in [Names -> 0 .. nlink + Len(args)]
<1>1. nlink \in Nat /\ Len(args) \in Nat /\ tracked \in [Names -> 0 .. nlink]
  BY LenProperties DEF TypeInv
<1>2. ASSUME NEW n \in Names, NEW i \in 1 .. Len(args), args[i] = n
      PROVE  ArgCell(s, args, CHOOSE j \in 1 .. Len(args) : args[j] = n, p, FALSE).link
               \in 0 .. nlink + Len(args)
  <2>1. (CHOOSE j \in 1 .. Len(args) : args[j] = n) \in 1 .. Len(args)
    BY <1>2
  <2>. QED  BY <2>1, ArgCellTyped
<1>3. ASSUME NEW n \in Names
      PROVE  Track(s, args, p)[n] \in 0 .. nlink + Len(args)
  <2>1. CASE s.idx = 1 /\ tracked[n] = 0 /\ \E j \in 1 .. Len(args) : args[j] = n
    <3>1. Track(s, args, p)[n] =
            ArgCell(s, args, CHOOSE j \in 1 .. Len(args) : args[j] = n, p, FALSE).link
      BY <2>1 DEF Track
    <3>. QED  BY <1>2, <2>1, <3>1
  <2>2. CASE ~(s.idx = 1 /\ tracked[n] = 0 /\ \E j \in 1 .. Len(args) : args[j] = n)
    <3>1. Track(s, args, p)[n] = tracked[n]
      BY <2>2 DEF Track
    <3>. QED  BY <1>1, <3>1
  <2>. QED  BY <2>1, <2>2
<1>4. Track(s, args, p) = [n \in Names |-> Track(s, args, p)[n]]
  BY DEF Track
<1>. QED  BY <1>3, <1>4

\* The scope of a body is a scope.
LEMMA BodyScopeTyped ==
  ASSUME TypeInv, NEW s \in LiveScope(Len(scopes), nlink), NEW args \in Seq(Names),
         NEW params \in Seq(Names), Len(params) = Len(args),
         NEW p, p.hint \in SUBSET Vals, NEW n \in Nat, NEW up \in 0 .. n
  PROVE  BodyScope(s, args, params, p, up) \in LiveScope(n, nlink + Len(args))
<1>. DEFINE cells == [x \in Names |->
     IF \E j \in 1 .. Len(params) : params[j] = x
     THEN ArgCell(s, args, CHOOSE j \in 1 .. Len(params) : params[j] = x, p, TRUE)
     ELSE NoCell]
<1>1. nlink \in Nat /\ Len(args) \in Nat
  BY LenProperties DEF TypeInv
<1>2. ASSUME NEW x \in Names, NEW i \in 1 .. Len(params), params[i] = x
      PROVE  LET c == ArgCell(s, args, CHOOSE j \in 1 .. Len(params) : params[j] = x,
                              p, TRUE)
             IN  c \in Cell /\ c.link \in 0 .. nlink + Len(args)
  <2>1. (CHOOSE j \in 1 .. Len(params) : params[j] = x) \in 1 .. Len(args)
    BY <1>2
  <2>. QED  BY <2>1, ArgCellTyped
<1>3. NoCell \in Cell /\ NoCell.link \in 0 .. nlink + Len(args)
  BY <1>1 DEF NoCell, Cell
<1>4. /\ cells \in [Names -> Cell]
      /\ \A x \in Names : cells[x].link \in 0 .. nlink + Len(args)
  BY <1>2, <1>3
<1>5. s.idx + 1 \in Nat
  BY DEF LiveScope, Scope
<1>6. BodyScope(s, args, params, p, up) =
        [idx |-> s.idx + 1, repeat |-> 0, next |-> up, cell |-> cells]
  BY DEF BodyScope
<1>. HIDE DEF cells
<1>. QED  BY <1>4, <1>5, <1>6 DEF LiveScope, Scope

\* The renames in front of a body are expressions.
LEMMA RenamesTyped ==
  ASSUME NEW g \in Goal, NEW params \in Seq(Names)
  PROVE  Renames(g, params) \in Seq(Goal)
<1>1. \A x \in Names : [g EXCEPT !.op = "rename", !.x = x] \in Goal
  BY DEF Goal, Ops
<1>2. Len(params) \in Nat /\ \A j \in 1 .. Len(params) : params[j] \in Names
  BY ElementOfSeq, LenProperties
<1>. DEFINE r == [j \in 1 .. Len(params) |-> [g EXCEPT !.op = "rename", !.x = params[j]]]
<1>. HIDE DEF Goal
<1>3. \A j \in 1 .. Len(params) : r[j] \in Goal
  BY <1>1, <1>2
<1>4. r \in [1 .. Len(params) -> Goal]
  BY <1>3
<1>. HIDE DEF r
<1>5. r \in Seq(Goal)
  BY <1>2, <1>4, SeqDef
<1>. QED  BY <1>5 DEF r, Renames

\* The predicate of a call, with its hint and its variations.
LEMMA PredTyped ==
  ASSUME TypeInv, NEW f \in LiveCall(Len(scopes), Len(qctxs))
  PROVE  /\ f.g \in Goal /\ f.g.args \in Seq(Names)
         /\ Len(f.g.args) = Arity[f.g.pred]
         /\ PredOf(f).hint \in SUBSET Vals /\ PredOf(f).clauses \in Seq(Clause)
         /\ PredOf(f) = prog.pred[f.g.pred]
         /\ f.code \in Seq(Goal) /\ f.sc \in 1 .. Len(scopes)
         /\ f.at \in 1 .. Len(scopes) /\ f.qc \in 0 .. Len(qctxs)
<1>1. f.g \in Goal /\ f.g.op = "call" /\ f.code \in Seq(Goal)
  BY DEF LiveCall, CallFrame
<1>2. f.g.pred \in Preds /\ f.g.args \in Seq(Names) /\ Len(f.g.args) = Arity[f.g.pred]
  BY <1>1 DEF Goal
<1>3. prog.pred \in [Preds -> [hint : SUBSET Vals, clauses : Seq(Clause)]]
  BY DEF TypeInv, Program
<1>4. prog.pred[f.g.pred] \in [hint : SUBSET Vals, clauses : Seq(Clause)]
  BY <1>2, <1>3
<1>. QED  BY <1>1, <1>2, <1>4 DEF PredOf, LiveCall

\* The variation a call has come to, and the arity of the call.
LEMMA VariationTyped ==
  ASSUME TypeInv, NEW f \in LiveCall(Len(scopes), Len(qctxs)),
         f.i <= Len(PredOf(f).clauses)
  PROVE  /\ VariationOf(f) \in Clause /\ VariationOf(f).params \in Seq(Names)
         /\ Len(VariationOf(f).params) = Len(f.g.args)
         /\ VariationOf(f).body \in Blocks
         /\ VariationOf(f).dom \in SUBSET Vals
         /\ prog.block[VariationOf(f).body] \in Seq(Goal)
         /\ VariationOf(f).c \in {"narrow", "inst"} => Len(f.g.args) >= 1
<1>1. f.i \in 1 .. Len(PredOf(f).clauses) /\ f.g.pred \in Preds
  <2>1. f.i \in Nat \ {0} /\ Len(PredOf(f).clauses) \in Nat
    BY PredTyped, LenProperties DEF LiveCall
  <2>2. f.g.pred \in Preds
    BY PredTyped DEF Goal
  <2>. QED  BY <2>1, <2>2
<1>2. VariationOf(f) \in Clause
  BY <1>1, PredTyped, ElementOfSeq DEF VariationOf
<1>3. /\ Len(VariationOf(f).params) = Arity[f.g.pred]
      /\ VariationOf(f).c \in {"narrow", "inst"} => Arity[f.g.pred] >= 1
  BY <1>1 DEF TypeInv, Program, PredOf, VariationOf
<1>4. prog.block \in [Blocks -> Seq(Goal)]
  BY DEF TypeInv, Program
<1>5. /\ VariationOf(f).params \in Seq(Names) /\ VariationOf(f).body \in Blocks
      /\ VariationOf(f).dom \in SUBSET Vals
  BY <1>2 DEF Clause
<1>. QED  BY <1>2, <1>3, <1>4, <1>5, PredTyped

\* The call that is on top of the stack.
LEMMA TopCall ==
  ASSUME TypeInv, stack # <<>>, Top.k = "call"
  PROVE  /\ Top \in LiveCall(Len(scopes), Len(qctxs))
         /\ Len(scopes) \in Nat \ {0} /\ Len(qctxs) \in Nat
<1>1. scope \in 1 .. Len(scopes) /\ Len(scopes) \in Nat /\ Len(qctxs) \in Nat
  BY LenProperties DEF TypeInv
<1>. QED  BY <1>1, TopLive, FrameKinds DEF Frames

\* Entering a predicate keeps the types.
LEMMA EvalCallType ==
  ASSUME TypeInv, EvalCall
  PROVE  TypeInv'
<1>1. /\ UNCHANGED <<qctxs, nlink, tracked, scope, qctx, cut, doProcess, env>>
      /\ stack # <<>> /\ ret = NoResp
      /\ CurrentGoal \in Goal /\ CurrentGoal.op = "call" /\ Rest \in Seq(Goal)
  BY CurrentTyped DEF EvalCall
<1>2. CASE ret' = ErrorResp /\ UNCHANGED <<stack, scopes, depth>>
  BY <1>1, <1>2, ResponsesTyped DEF TypeInv, Frames, LiveFrame, LiveCall, env
<1>. DEFINE f == [k |-> "call", g |-> CurrentGoal, code |-> Rest, sc |-> scope,
              qc |-> qctx, at |-> Len(scopes) + 1, prev |-> 0, old |-> <<>>,
              i |-> 1, save |-> cut, found |-> FALSE, ph |-> "next", d |-> depth,
              committed |-> FALSE]
<1>3. CASE /\ depth' = depth + 1 /\ scopes' = Append(scopes, Here)
           /\ stack' = Append(stack, f) /\ UNCHANGED ret
  <2>1. /\ Len(scopes) \in Nat /\ scope \in 1 .. Len(scopes) /\ depth \in Int
        /\ Len(qctxs) \in Nat /\ nlink \in Nat /\ qctx \in 0 .. Len(qctxs) /\ cut \in Nat
        /\ scopes \in Seq(LiveScope(Len(scopes), nlink))
    BY LenProperties DEF TypeInv
  <2>2. Here \in LiveScope(Len(scopes), nlink)
    BY <2>1, ScopeAt DEF Here
  <2>3. /\ scopes' \in Seq(LiveScope(Len(scopes), nlink))
        /\ Len(scopes') = Len(scopes) + 1
    BY <1>3, <2>1, <2>2, AppendTyped
  <2>4. scopes' \in Seq(LiveScope(Len(scopes'), nlink'))
    BY <1>1, <2>1, <2>3, ScopesStayLive, SeqOfMore
  <2>. HIDE DEF Goal
  <2>5. f \in CallFrame
    BY <1>1, <2>1, EmptyTyped DEF CallFrame, TypeInv
  <2>. HIDE DEF CallFrame
  <2>6. f \in LiveCall(Len(scopes'), Len(qctxs'))
    BY <1>1, <2>1, <2>3, <2>5 DEF LiveCall
  <2>7. stack \in Seq(Frames') /\ Frames' = LiveFrame(Len(scopes'), Len(qctxs'))
    <3>1. prog' = prog /\ stack \in Seq(Frames)
      BY <1>1 DEF TypeInv, env
    <3>2. /\ Len(scopes') \in Nat /\ Len(qctxs') \in Nat
          /\ Len(scopes) <= Len(scopes') /\ Len(qctxs) <= Len(qctxs')
      BY <1>1, <2>1, <2>3
    <3>3. stack \in Seq(Frames')
      BY <3>1, <3>2, FramesGrow
    <3>4. Frames' = LiveFrame(Len(scopes'), Len(qctxs'))
      BY <3>1 DEF Frames, LiveFrame, LiveCall
    <3>. QED  BY <3>3, <3>4
  <2>. HIDE DEF f
  <2>8. stack' \in Seq(Frames')
    BY <1>3, <2>6, <2>7, AppendTyped DEF LiveFrame
  <2>. QED  BY <1>1, <1>3, <2>1, <2>3, <2>4, <2>8 DEF TypeInv, env
<1>. QED  BY <1>2, <1>3 DEF EvalCall

\* A call that is false for an argument keeps the types.
LEMMA ArgMismatchType ==
  ASSUME TypeInv, ArgMismatch
  PROVE  TypeInv'
<1>. DEFINE f == Top
            p == PredOf(f)
            init == scopes[f.at]
            args == f.g.args
<1>1. /\ stack # <<>> /\ Top.k = "call" /\ Returns(Bool(FALSE))
      /\ UNCHANGED <<qctxs, ctl, env>>
  BY DEF ArgMismatch, OnVariation, GoesOn
<1>2. PICK j \in 1 .. Len(args) :
        LET done == SubSeq(args, 1, j - 1)
        IN  /\ scopes' = [scopes EXCEPT ![1] = GlobalArgs(init, done, p, TRUE)]
            /\ tracked' = Track(init, done, p)
            /\ nlink' = nlink + Len(done)
  BY DEF ArgMismatch
<1>. DEFINE done == SubSeq(args, 1, j - 1)
            one == GlobalArgs(init, done, p, TRUE)
            l == nlink + Len(done)
<1>3. /\ f \in LiveCall(Len(scopes), Len(qctxs))
      /\ Len(scopes) \in Nat \ {0} /\ Len(qctxs) \in Nat /\ nlink \in Nat
      /\ scopes \in Seq(LiveScope(Len(scopes), nlink))
  BY <1>1, TopCall DEF TypeInv
<1>4. /\ done \in Seq(Names) /\ p.hint \in SUBSET Vals
      /\ init \in LiveScope(Len(scopes), nlink)
  <2>1. args \in Seq(Names) /\ p.hint \in SUBSET Vals /\ f.at \in 1 .. Len(scopes)
    BY <1>3, PredTyped
  <2>2. Len(args) \in Nat
    BY <2>1, LenProperties
  <2>. HIDE DEF f, p, args
  <2>3. \A i \in 1 .. j - 1 : args[i] \in Names
    BY <2>1, <2>2, ElementOfSeq
  <2>4. done \in Seq(Names)
    BY <2>1, <2>2, <2>3, SubSeqProperties
  <2>. QED  BY <2>1, <2>4, ScopeAt
<1>5. l \in Nat /\ nlink <= l /\ Len(done) \in Nat
  <2>. HIDE DEF done
  <2>. QED  BY <1>3, <1>4, LenProperties
<1>6. one \in LiveScope(Len(scopes), nlink) /\ tracked' \in [Names -> 0 .. l]
  <2>. HIDE DEF f, p, init, args, done
  <2>1. one \in LiveScope(Len(scopes), nlink)
    BY <1>4, GlobalArgsTyped
  <2>2. tracked' \in [Names -> 0 .. l]
    BY <1>2, <1>4, TrackTyped DEF done, args, init, p, f
  <2>. QED  BY <2>1, <2>2
<1>7. scopes' = [scopes EXCEPT ![1] = one] /\ nlink' = l
  BY <1>2
<1>. HIDE DEF one, l
<1>8. scopes' \in Seq(LiveScope(Len(scopes'), nlink')) /\ Len(scopes') = Len(scopes)
  <2>. DEFINE S == LiveScope(Len(scopes), l)
  <2>1. LiveScope(Len(scopes), nlink) \subseteq S
    BY <1>3, <1>5, ScopesStayLive
  <2>2. one \in S /\ scopes \in Seq(S) /\ 1 \in 1 .. Len(scopes)
    BY <1>3, <1>6, <2>1, SeqOfMore
  <2>. HIDE DEF S
  <2>3. scopes' \in Seq(S) /\ Len(scopes') = Len(scopes)
    BY <1>7, <2>2, UpdateTyped
  <2>. QED  BY <1>7, <2>3 DEF S
<1>9. stack' \in Seq(Frames') /\ ret' \in Resp
  <2>1. Frames' = Frames
    BY <1>1, <1>8 DEF Frames, LiveFrame, LiveCall, env
  <2>2. stack' = Callers /\ ret' = Bool(FALSE)
    BY <1>1 DEF Returns
  <2>. QED  BY <1>1, <2>1, <2>2, TopLive, ResponsesTyped
<1>. QED  BY <1>1, <1>5, <1>6, <1>7, <1>8, <1>9 DEF TypeInv, ctl, env

\* Activations that are pushed while objects may be added.
LEMMA PushTyped ==
  ASSUME TypeInv, stack # <<>>, prog' = prog,
         Len(scopes') \in Nat, Len(qctxs') \in Nat,
         Len(scopes) <= Len(scopes'), Len(qctxs) <= Len(qctxs'),
         NEW f \in LiveFrame(Len(scopes'), Len(qctxs')),
         NEW h \in LiveFrame(Len(scopes'), Len(qctxs'))
  PROVE  /\ stack \in Seq(Frames') /\ Callers \in Seq(Frames')
         /\ WithTop(f) \in Seq(Frames') /\ Append(stack, h) \in Seq(Frames')
         /\ Append(WithTop(f), h) \in Seq(Frames')
         /\ stack \o <<f, h>> \in Seq(Frames')
<1>1. Frames' = LiveFrame(Len(scopes'), Len(qctxs'))
  BY DEF Frames, LiveFrame, LiveCall
<1>2. stack \in Seq(Frames') /\ f \in Frames' /\ h \in Frames'
  BY <1>1, FramesGrow DEF TypeInv
<1>3. Len(stack) \in 1 .. Len(stack)
  BY TopLive
<1>4. WithTop(f) \in Seq(Frames')
  BY <1>2, <1>3, UpdateTyped DEF WithTop
<1>5. Callers \in Seq(Frames')
  BY <1>2, FrontTyped DEF Callers
<1>6. <<f, h>> \in Seq(Frames')
  BY <1>2, PairTyped
<1>. QED  BY <1>2, <1>4, <1>5, <1>6, AppendTyped, ConcatProperties

\* A call that moves on stays a live call.
LEMMA CallMoves ==
  ASSUME NEW n \in Nat, NEW m \in Nat, NEW n2 \in Nat, NEW m2 \in Nat,
         n <= n2, m <= m2, NEW f \in LiveCall(n, m), NEW h \in CallFrame,
         h.g = f.g, h.sc = f.sc, h.at = f.at, h.qc = f.qc,
         h.prev \in 0 .. n2, h.i \in Nat \ {0},
         h.ph # "next" => /\ h.qc # 0
                          /\ h.i <= Len(prog.pred[h.g.pred].clauses),
         h.ph = "inst" => h.prev # 0
  PROVE  h \in LiveCall(n2, m2) /\ h \in LiveFrame(n2, m2)
<1>1. /\ f.sc \in 1 .. n /\ f.at \in 1 .. n /\ f.qc \in 0 .. m /\ f.g.op = "call"
  BY DEF LiveCall
<1>2. /\ h.sc \in 1 .. n2 /\ h.at \in 1 .. n2 /\ h.qc \in 0 .. m2 /\ h.g.op = "call"
  BY <1>1
<1>3. h \in LiveCall(n2, m2)
  BY <1>2 DEF LiveCall
<1>. QED  BY <1>3 DEF LiveFrame

\* Entering the body of a variation keeps the types.
LEMMA EnterInteriorType ==
  ASSUME TypeInv, EnterInterior
  PROVE  TypeInv'
<1>. DEFINE f == Top
            v == VariationOf(f)
            p == PredOf(f)
            init == scopes[f.at]
            prev == Len(scopes) + 1
            list == Renames(f.g, v.params) \o prog.block[v.body]
            args == f.g.args
            h == [f EXCEPT !.ph = "body", !.old = qctxs[f.qc].expset]
            l == nlink + Len(args)
            one == GlobalArgs(init, args, p, TRUE)
            two == WithArgs(init, args, p, TRUE)
            three == BodyScope(init, args, v.params, p, prev)
<1>1. /\ stack # <<>> /\ Top.k = "call" /\ Top.ph = "next" /\ Top.qc # 0
      /\ Top.i <= Len(PredOf(Top).clauses)
      /\ scopes' = [scopes EXCEPT ![1] = one] \o <<two, three>>
      /\ nlink' = l /\ tracked' = Track(init, args, p)
      /\ qctxs' = Append([qctxs EXCEPT ![f.qc].expset = f.code],
                         NewQContext(list, f.qc))
      /\ scope' = prev + 1 /\ qctx' = Len(qctxs) + 1
      /\ stack' = Append(WithTop(h), Start(list, prev + 1))
      /\ UNCHANGED <<cut, depth, doProcess, ret, env>>
  BY DEF EnterInterior, OnVariation, GoesOn
<1>2. /\ f \in LiveCall(Len(scopes), Len(qctxs))
      /\ Len(scopes) \in Nat \ {0} /\ Len(qctxs) \in Nat /\ nlink \in Nat
      /\ scopes \in Seq(LiveScope(Len(scopes), nlink))
      /\ qctxs \in Seq(LiveContext(Len(qctxs)))
  BY <1>1, TopCall DEF TypeInv
<1>3. /\ args \in Seq(Names) /\ v.params \in Seq(Names) /\ Len(v.params) = Len(args)
      /\ p.hint \in SUBSET Vals /\ f.code \in Seq(Goal) /\ f.g \in Goal
      /\ f.qc \in 1 .. Len(qctxs) /\ f.sc \in 1 .. Len(scopes)
      /\ Len(args) \in Nat /\ prog.block[v.body] \in Seq(Goal)
  BY <1>1, <1>2, PredTyped, VariationTyped, LenProperties, SMTT(20)
<1>4. init \in LiveScope(Len(scopes), nlink)
  BY <1>2, PredTyped, ScopeAt
<1>5. list \in Seq(Goal)
  <2>. HIDE DEF Goal
  <2>. QED  BY <1>3, RenamesTyped, ConcatProperties
<1>. HIDE DEF v, p, init, args, list
<1>6. /\ one \in LiveScope(Len(scopes), nlink)
      /\ two \in LiveScope(Len(scopes), l)
      /\ three \in LiveScope(Len(scopes) + 2, l)
  <2>1. prev \in 0 .. Len(scopes) + 2 /\ Len(scopes) + 2 \in Nat
    BY <1>2
  <2>. HIDE DEF prev
  <2>2. one \in LiveScope(Len(scopes), nlink)
    BY <1>3, <1>4, GlobalArgsTyped
  <2>3. two \in LiveScope(Len(scopes), l)
    BY <1>3, <1>4, WithArgsTyped
  <2>4. three \in LiveScope(Len(scopes) + 2, l)
    BY <1>3, <1>4, <2>1, BodyScopeTyped
  <2>. QED  BY <2>2, <2>3, <2>4
<1>7. tracked' \in [Names -> 0 .. l]
  BY <1>1, <1>3, <1>4, TrackTyped
<1>. HIDE DEF one, two, three
<1>8. scopes' \in Seq(LiveScope(Len(scopes'), nlink')) /\ Len(scopes') = Len(scopes) + 2
  <2>. DEFINE S == LiveScope(Len(scopes) + 2, l)
  <2>1. /\ LiveScope(Len(scopes), nlink) \subseteq S
        /\ LiveScope(Len(scopes), l) \subseteq S
    <3>1. /\ Len(scopes) \in Nat /\ Len(scopes) + 2 \in Nat
          /\ Len(scopes) <= Len(scopes) + 2
      BY <1>2
    <3>2. nlink \in Nat /\ l \in Nat /\ nlink <= l
      BY <1>2, <1>3
    <3>. HIDE DEF l
    <3>3. LiveScope(Len(scopes), nlink) \subseteq LiveScope(Len(scopes) + 2, l)
      BY <3>1, <3>2, ScopesStayLive
    <3>4. LiveScope(Len(scopes), l) \subseteq LiveScope(Len(scopes) + 2, l)
      BY <3>1, <3>2, ScopesStayLive
    <3>. QED  BY <3>3, <3>4
  <2>2. one \in S /\ two \in S /\ three \in S /\ scopes \in Seq(S)
    BY <1>2, <1>6, <2>1, SeqOfMore
  <2>. HIDE DEF S
  <2>3. [scopes EXCEPT ![1] = one] \in Seq(S)
        /\ Len([scopes EXCEPT ![1] = one]) = Len(scopes)
    BY <1>2, <2>2, UpdateTyped
  <2>4. <<two, three>> \in Seq(S) /\ Len(<<two, three>>) = 2
    BY <2>2, PairTyped
  <2>5. scopes' \in Seq(S) /\ Len(scopes') = Len(scopes) + 2
    BY <1>1, <2>3, <2>4, ConcatProperties
  <2>. QED  BY <1>1, <2>5 DEF S
<1>9. qctxs' \in Seq(LiveContext(Len(qctxs'))) /\ Len(qctxs') = Len(qctxs) + 1
  <2>. DEFINE S == LiveContext(Len(qctxs) + 1)
  <2>1. LiveContext(Len(qctxs)) \subseteq S
    BY <1>2, ContextsStayLive
  <2>2. NewQContext(list, f.qc) \in S
    BY <1>2, <1>3, <1>5 DEF NewQContext, LiveContext, QContext
  <2>3. [qctxs[f.qc] EXCEPT !.expset = f.code] \in S
    BY <1>3, <2>1, ContextAt DEF LiveContext, QContext
  <2>4. qctxs \in Seq(S)
    BY <1>2, <2>1, SeqOfMore
  <2>. HIDE DEF S, f
  <2>. DEFINE u == [qctxs EXCEPT ![f.qc] = [qctxs[f.qc] EXCEPT !.expset = f.code]]
  <2>5. u \in Seq(S) /\ Len(u) = Len(qctxs)
    BY <1>3, <2>3, <2>4, UpdateTyped
  <2>6. qctxs' = Append(u, NewQContext(list, f.qc))
    BY <1>1
  <2>. HIDE DEF u
  <2>7. qctxs' \in Seq(S) /\ Len(qctxs') = Len(qctxs) + 1
    BY <2>2, <2>5, <2>6, AppendTyped
  <2>. QED  BY <2>7 DEF S
<1>10. stack' \in Seq(Frames')
  <2>1. prog' = prog
    BY <1>1 DEF env
  <2>2. f \in CallFrame /\ qctxs[f.qc].expset \in Seq(Goal)
    BY <1>2, <1>3, ContextAt DEF LiveCall
  <2>3. h \in LiveFrame(Len(scopes'), Len(qctxs'))
    <3>1. h \in CallFrame /\ h.ph = "body"
      BY <2>2 DEF CallFrame
    <3>2. f.i <= Len(prog.pred[f.g.pred].clauses)
      BY <1>1, <1>2, PredTyped
    <3>3. h.sc = f.sc /\ h.at = f.at /\ h.prev = f.prev /\ h.qc = f.qc
          /\ h.i = f.i /\ h.g = f.g
      BY <2>2 DEF CallFrame
    <3>4. f.prev \in 0 .. Len(scopes) /\ f.i \in Nat \ {0}
      BY <1>2 DEF LiveCall
    <3>5. /\ Len(scopes') \in Nat /\ Len(qctxs') \in Nat
          /\ Len(scopes) <= Len(scopes') /\ Len(qctxs) <= Len(qctxs')
      BY <1>2, <1>8, <1>9
    <3>. HIDE DEF h, f
    <3>6. h.prev \in 0 .. Len(scopes')
      BY <1>2, <3>3, <3>4, <3>5
    <3>7. /\ h.i \in Nat \ {0} /\ h.qc # 0 /\ h.ph # "inst"
          /\ h.i <= Len(prog.pred[h.g.pred].clauses)
      BY <1>3, <3>1, <3>2, <3>3, <3>4
    <3>8. Len(scopes) \in Nat /\ Len(qctxs) \in Nat
      BY <1>2
    <3>. QED  BY <1>2, <3>1, <3>3, <3>5, <3>6, <3>7, <3>8, CallMoves
  <2>4. Start(list, prev + 1) \in LiveFrame(Len(scopes'), Len(qctxs'))
    BY <1>2, <1>5, <1>8, <1>9, StartLive
  <2>. HIDE DEF h
  <2>. QED  BY <1>1, <1>2, <1>8, <1>9, <2>1, <2>3, <2>4, PushTyped
<1>11. /\ nlink' \in Nat /\ tracked' \in [Names -> 0 .. nlink']
       /\ scope' \in 1 .. Len(scopes') /\ qctx' \in 0 .. Len(qctxs')
  BY <1>1, <1>2, <1>3, <1>7, <1>8, <1>9
<1>12. UNCHANGED <<cut, depth, doProcess, ret, prog, mode, out>>
  BY <1>1 DEF env
<1>. QED  BY <1>8, <1>9, <1>10, <1>11, <1>12 DEF TypeInv

\* The caller's list becomes the continuation of its qcontext.
LEMMA ExpsetTyped ==
  ASSUME TypeInv, NEW q \in 1 .. Len(qctxs), NEW list \in Seq(Goal)
  PROVE  /\ [qctxs EXCEPT ![q].expset = list] \in Seq(LiveContext(Len(qctxs)))
         /\ Len([qctxs EXCEPT ![q].expset = list]) = Len(qctxs)
<1>. DEFINE S == LiveContext(Len(qctxs))
            c == [qctxs[q] EXCEPT !.expset = list]
<1>1. c \in S
  BY ContextAt DEF LiveContext, QContext
<1>2. qctxs \in Seq(S)
  BY DEF TypeInv
<1>. HIDE DEF S, c
<1>3. [qctxs EXCEPT ![q] = c] \in Seq(S) /\ Len([qctxs EXCEPT ![q] = c]) = Len(qctxs)
  BY <1>1, <1>2, UpdateTyped
<1>. QED  BY <1>3 DEF S, c

\* A qcontext is added.
LEMMA AddContextTyped ==
  ASSUME TypeInv, NEW u \in Seq(LiveContext(Len(qctxs))), Len(u) = Len(qctxs),
         NEW list \in Seq(Goal), NEW q \in 0 .. Len(qctxs)
  PROVE  /\ Append(u, NewQContext(list, q)) \in Seq(LiveContext(Len(qctxs) + 1))
         /\ Len(Append(u, NewQContext(list, q))) = Len(qctxs) + 1
<1>. DEFINE S == LiveContext(Len(qctxs) + 1)
<1>1. Len(qctxs) \in Nat
  BY LenProperties DEF TypeInv
<1>2. u \in Seq(S)
  BY <1>1, ContextsStayLive, SeqOfMore
<1>3. NewQContext(list, q) \in S
  BY <1>1 DEF NewQContext, LiveContext, QContext
<1>. HIDE DEF S
<1>4. Append(u, NewQContext(list, q)) \in Seq(S)
      /\ Len(Append(u, NewQContext(list, q))) = Len(u) + 1
  BY <1>2, <1>3, AppendTyped
<1>. QED  BY <1>4 DEF S

\* A scope is added.
LEMMA AddScopeTyped ==
  ASSUME TypeInv, NEW l \in Nat, nlink <= l,
         NEW u \in Seq(LiveScope(Len(scopes), l)), Len(u) = Len(scopes),
         NEW s \in LiveScope(Len(scopes), l)
  PROVE  /\ Append(u, s) \in Seq(LiveScope(Len(scopes) + 1, l))
         /\ Len(Append(u, s)) = Len(scopes) + 1
<1>. DEFINE S == LiveScope(Len(scopes) + 1, l)
<1>1. Len(scopes) \in Nat
  BY LenProperties DEF TypeInv
<1>2. u \in Seq(S) /\ s \in S
  BY <1>1, ScopesStayLive, SeqOfMore
<1>. HIDE DEF S
<1>3. Append(u, s) \in Seq(S) /\ Len(Append(u, s)) = Len(u) + 1
  BY <1>2, AppendTyped
<1>. QED  BY <1>3 DEF S

\* A variation in C has one of the outcomes.
LEMMA COutcomeTyped ==
  ASSUME TypeInv, NEW f \in LiveCall(Len(scopes), Len(qctxs)),
         f.i <= Len(PredOf(f).clauses), NEW prev
  PROVE  COutcome(f, prev) \in {"narrow", "inst"} => f.g.args[1] \in Names
<1>1. VariationOf(f).c \in CFuns
  BY VariationTyped DEF Clause
<1>2. COutcome(f, prev) \in {"narrow", "inst"}
        => VariationOf(f).c \in {"narrow", "inst"}
  BY <1>1 DEF COutcome, CFuns
<1>3. Len(f.g.args) >= 1 => f.g.args[1] \in Names
  BY PredTyped, ElementOfSeq, LenProperties
<1>. QED  BY <1>2, <1>3, VariationTyped

\* The scopes after a variation in C are scopes.
LEMMA CScopesTyped ==
  ASSUME TypeInv, NEW f, NEW l \in Nat, nlink <= l,
         NEW prev \in LiveScope(Len(scopes), l), NEW outcome,
         outcome = "narrow" => f.g.args[1] \in Names
  PROVE  /\ CScopes(f, prev, outcome) \in Seq(LiveScope(Len(scopes) + 1, l))
         /\ Len(CScopes(f, prev, outcome)) = Len(scopes) + 1
<1>. DEFINE S == LiveScope(Len(scopes) + 1, l)
            u == Append(scopes, prev)
            x == f.g.args[1]
            a == IF prev.cell[x].link # 0 THEN Len(scopes) + 1 ELSE 1
            d == u[a].cell[x].dom \cap VariationOf(f).dom
            w == [u[a] EXCEPT !.cell[x].dom = d]
<1>1. scopes \in Seq(LiveScope(Len(scopes), l)) /\ Len(scopes) \in Nat \ {0}
  <2>1. scopes \in Seq(LiveScope(Len(scopes), nlink)) /\ Len(scopes) \in Nat
        /\ nlink \in Nat /\ scope \in 1 .. Len(scopes)
    BY LenProperties DEF TypeInv
  <2>. QED  BY <2>1, ScopesStayLive, SeqOfMore
<1>2. u \in Seq(S) /\ Len(u) = Len(scopes) + 1
  BY <1>1, AddScopeTyped
<1>3. CASE outcome # "narrow"
  BY <1>2, <1>3 DEF CScopes
<1>4. CASE outcome = "narrow"
  <2>1. x \in Names /\ a \in 1 .. Len(u)
    BY <1>1, <1>2, <1>4
  <2>. HIDE DEF u, x, a
  <2>2. u[a] \in S
    BY <1>2, <2>1, ElementOfSeq
  <2>3. u[a].cell[x].dom \in SUBSET Vals
    BY <2>1, <2>2 DEF LiveScope, Scope, Cell
  <2>4. d \in SUBSET Vals
    BY <2>3
  <2>. HIDE DEF d
  <2>5. w \in S
    BY <2>1, <2>2, <2>4, CellUpdate
  <2>. HIDE DEF w
  <2>6. [u EXCEPT ![a] = w] \in Seq(S) /\ Len([u EXCEPT ![a] = w]) = Len(u)
    BY <1>2, <2>1, <2>5, UpdateTyped
  <2>7. CScopes(f, prev, outcome) = [u EXCEPT ![a] = w]
    BY <1>4 DEF CScopes, u, a, x, w, d
  <2>. QED  BY <1>2, <2>6, <2>7
<1>. QED  BY <1>3, <1>4

\* Running a variation in C keeps the types, whatever its outcome.
LEMMA CallCType ==
  ASSUME TypeInv, CallC
  PROVE  TypeInv'
<1>. DEFINE f == Top
            p == PredOf(f)
            args == f.g.args
            x == args[1]
            at == Len(scopes) + 1
            l == nlink + Len(args)
            prev == WithArgs(scopes[f.at], args, p, FALSE)
            outcome == COutcome(f, prev)
            list == <<f.g>> \o f.code
            entered == [f EXCEPT !.ph = "c", !.old = qctxs[f.qc].expset]
            again == [f EXCEPT !.ph = "inst", !.prev = at]
            gen == [k |-> "gen", op |-> "inst", x |-> x, code |-> list, sc |-> at,
                    qc |-> f.qc, at |-> IF prev.cell[x].link # 0 THEN at ELSE 1,
                    todo |-> Seen(prev, x).dom, found |-> FALSE,
                    dp |-> doProcess, committed |-> FALSE]
            skipped == [f EXCEPT !.i = @ + 1]
<1>1. /\ stack # <<>> /\ Top.k = "call" /\ Top.ph = "next"
      /\ Top.i <= Len(PredOf(Top).clauses)
      /\ scopes' = CScopes(f, prev, outcome)
      /\ nlink' = l /\ tracked' = Track(scopes[f.at], args, p)
      /\ UNCHANGED <<cut, depth, doProcess, env>>
  BY DEF CallC, OnVariation, GoesOn
<1>2. \/ /\ stack' = WithTop(skipped)
         /\ UNCHANGED <<qctxs, scope, qctx, ret>>
      \/ /\ stack' = Callers /\ ret' \in {StopResp, ErrorResp}
         /\ UNCHANGED <<qctxs, scope, qctx>>
      \/ /\ f.qc # 0
         /\ qctxs' = [qctxs EXCEPT ![f.qc].expset = f.code]
         /\ scope' = at
         /\ stack' = Append(WithTop(entered), Start(f.code, at))
         /\ UNCHANGED <<qctx, ret>>
      \/ /\ outcome = "inst" /\ f.qc # 0
         /\ qctxs' = Append(qctxs, NewQContext(list, qctxs[f.qc].next))
         /\ qctx' = Len(qctxs) + 1
         /\ scope' = at
         /\ stack' = Append(WithTop(again), gen)
         /\ UNCHANGED ret
  BY DEF CallC, Returns
<1>3. /\ f \in LiveCall(Len(scopes), Len(qctxs))
      /\ Len(scopes) \in Nat \ {0} /\ Len(qctxs) \in Nat /\ nlink \in Nat
      /\ scope \in 1 .. Len(scopes) /\ qctx \in 0 .. Len(qctxs)
      /\ qctxs \in Seq(LiveContext(Len(qctxs))) /\ doProcess \in BOOLEAN
  BY <1>1, TopCall DEF TypeInv
<1>4. /\ args \in Seq(Names) /\ p.hint \in SUBSET Vals /\ f.code \in Seq(Goal)
      /\ f.g \in Goal /\ f.sc \in 1 .. Len(scopes) /\ f.at \in 1 .. Len(scopes)
      /\ f.qc \in 0 .. Len(qctxs) /\ Len(args) \in Nat
      /\ f \in CallFrame /\ f.prev \in 0 .. Len(scopes) /\ f.i \in Nat \ {0}
      /\ f.i <= Len(prog.pred[f.g.pred].clauses)
  BY <1>1, <1>3, PredTyped, LenProperties DEF LiveCall
<1>5. /\ prev \in LiveScope(Len(scopes), l)
      /\ outcome \in {"narrow", "inst"} => x \in Names
  <2>1. scopes[f.at] \in LiveScope(Len(scopes), nlink)
    BY <1>4, ScopeAt
  <2>2. prev \in LiveScope(Len(scopes), l)
    BY <1>4, <2>1, WithArgsTyped
  <2>3. outcome \in {"narrow", "inst"} => x \in Names
    <3>. HIDE DEF prev
    <3>. QED  BY <1>1, <1>3, COutcomeTyped
  <2>. QED  BY <2>2, <2>3
<1>6. tracked' \in [Names -> 0 .. l] /\ l \in Nat /\ nlink <= l
  <2>1. scopes[f.at] \in LiveScope(Len(scopes), nlink)
    BY <1>4, ScopeAt
  <2>2. Track(scopes[f.at], args, p) \in [Names -> 0 .. l]
    BY <1>4, <2>1, TrackTyped
  <2>. QED  BY <1>1, <1>3, <1>4, <2>2, SMTT(20)
<1>7. prog' = prog /\ mode' = mode /\ out' = out
  BY <1>1 DEF env
<1>8. /\ skipped \in CallFrame /\ skipped.sc = f.sc /\ skipped.at = f.at
      /\ skipped.prev = f.prev /\ skipped.qc = f.qc /\ skipped.i = f.i + 1
      /\ skipped.g = f.g /\ skipped.ph = "next"
  <2>1. f.i + 1 \in Nat
    BY <1>4
  <2>2. f.ph = "next" /\ f \in CallFrame
    BY <1>1, <1>4
  <2>. HIDE DEF f
  <2>3. skipped \in CallFrame
    BY <2>1, <2>2 DEF CallFrame
  <2>4. /\ skipped.sc = f.sc /\ skipped.at = f.at /\ skipped.prev = f.prev
        /\ skipped.qc = f.qc /\ skipped.i = f.i + 1 /\ skipped.g = f.g
        /\ skipped.ph = f.ph
    BY <2>2 DEF CallFrame
  <2>. QED  BY <2>2, <2>3, <2>4
<1>9. f.qc # 0 =>
        /\ qctxs[f.qc].expset \in Seq(Goal) /\ qctxs[f.qc].next \in 0 .. Len(qctxs)
        /\ entered \in CallFrame /\ entered.sc = f.sc /\ entered.at = f.at
        /\ entered.prev = f.prev /\ entered.qc = f.qc /\ entered.i = f.i
        /\ entered.g = f.g /\ entered.ph = "c"
  <2>1. f.qc # 0 => qctxs[f.qc].expset \in Seq(Goal)
                    /\ qctxs[f.qc].next \in 0 .. Len(qctxs)
    BY <1>3, <1>4, ContextAt
  <2>. QED  BY <1>4, <2>1 DEF CallFrame
<1>10. /\ again \in CallFrame /\ again.sc = f.sc /\ again.at = f.at
       /\ again.prev = at /\ again.qc = f.qc /\ again.i = f.i
       /\ again.g = f.g /\ again.ph = "inst"
  <2>1. f \in CallFrame /\ at \in Nat
    BY <1>3, <1>4
  <2>. HIDE DEF f, at
  <2>2. again \in CallFrame
    BY <2>1 DEF CallFrame
  <2>3. /\ again.sc = f.sc /\ again.at = f.at /\ again.prev = at
        /\ again.qc = f.qc /\ again.i = f.i /\ again.g = f.g /\ again.ph = "inst"
    BY <2>1 DEF CallFrame
  <2>. QED  BY <2>2, <2>3
<1>. HIDE DEF outcome, x, p, skipped, entered, again
<1>17. 0 .. Len(scopes) \subseteq 0 .. at /\ Len(scopes) <= at
  BY <1>3
<1>11. Seen(prev, x).dom \in SUBSET Vals \/ x \notin Names
  <2>1. 1 \in 1 .. Len(scopes)
    BY <1>3
  <2>2. x \in Names => /\ prev.cell[x].dom \in SUBSET Vals
                       /\ scopes[1].cell[x].dom \in SUBSET Vals
    BY <1>5, <2>1, ScopeAt DEF LiveScope, Scope, Cell
  <2>. QED  BY <2>2 DEF Seen
<1>. HIDE DEF prev
<1>12. /\ scopes' \in Seq(LiveScope(Len(scopes'), nlink'))
       /\ Len(scopes') = at
  BY <1>1, <1>5, <1>6, CScopesTyped DEF x
<1>. HIDE DEF f
<1>13. CASE /\ stack' = WithTop(skipped)
            /\ UNCHANGED <<qctxs, scope, qctx, ret>>
  <2>1. /\ skipped.prev \in 0 .. at /\ skipped.i \in Nat \ {0}
    BY <1>3, <1>4, <1>8
  <2>2. skipped \in LiveFrame(Len(scopes'), Len(qctxs'))
    BY <1>3, <1>8, <1>12, <1>13, <2>1, CallMoves, SMTT(20)
  <2>3. stack' \in Seq(Frames')
    BY <1>1, <1>3, <1>7, <1>12, <1>13, <2>2, PushTyped
  <2>. QED  BY <1>1, <1>3, <1>6, <1>7, <1>12, <1>13, <2>3 DEF TypeInv
<1>14. CASE /\ stack' = Callers /\ ret' \in {StopResp, ErrorResp}
            /\ UNCHANGED <<qctxs, scope, qctx>>
  <2>1. Callers \in Seq(Frames) /\ ret' \in Resp
    BY <1>1, <1>14, TopLive, ResponsesTyped
  <2>2. stack' \in Seq(Frames')
    BY <1>3, <1>7, <1>12, <1>14, <2>1, FramesGrow
  <2>. QED  BY <1>1, <1>3, <1>6, <1>7, <1>12, <1>14, <2>1, <2>2 DEF TypeInv
<1>15. CASE /\ f.qc # 0
            /\ qctxs' = [qctxs EXCEPT ![f.qc].expset = f.code]
            /\ scope' = at
            /\ stack' = Append(WithTop(entered), Start(f.code, at))
            /\ UNCHANGED <<qctx, ret>>
  <2>1. f.qc \in 1 .. Len(qctxs)
    BY <1>3, <1>4, <1>15
  <2>2. /\ qctxs' \in Seq(LiveContext(Len(qctxs'))) /\ Len(qctxs') = Len(qctxs)
    BY <1>4, <1>15, <2>1, ExpsetTyped
  <2>3. /\ entered.prev \in 0 .. at /\ entered.i \in Nat \ {0} /\ entered.qc # 0
        /\ entered.i <= Len(prog.pred[entered.g.pred].clauses)
        /\ entered.ph # "inst"
    BY <1>4, <1>9, <1>15, <1>17
  <2>8. /\ Len(scopes') \in Nat /\ Len(qctxs') \in Nat
        /\ Len(scopes) <= Len(scopes') /\ Len(qctxs) <= Len(qctxs')
    BY <1>3, <1>12, <2>2
  <2>4. entered \in LiveFrame(Len(scopes'), Len(qctxs'))
    <3>1. /\ entered \in CallFrame /\ entered.sc = f.sc /\ entered.at = f.at
          /\ entered.qc = f.qc /\ entered.g = f.g
      BY <1>9, <1>15
    <3>. QED  BY <1>3, <1>12, <2>3, <2>8, <3>1, CallMoves
  <2>5. Start(f.code, at) \in LiveFrame(Len(scopes'), Len(qctxs'))
    BY <1>3, <1>4, <1>12, <2>2, StartLive
  <2>6. stack' \in Seq(Frames')
    BY <1>1, <1>3, <1>7, <1>12, <1>15, <2>2, <2>4, <2>5, PushTyped
  <2>7. /\ scope' \in 1 .. Len(scopes') /\ qctx' \in 0 .. Len(qctxs')
        /\ scopes' \in Seq(LiveScope(Len(scopes'), nlink'))
    BY <1>1, <1>3, <1>12, <1>15, <2>2, <2>8
  <2>. QED  BY <1>1, <1>3, <1>6, <1>7, <1>15, <2>2, <2>6, <2>7 DEF TypeInv
<1>16. CASE /\ outcome = "inst" /\ f.qc # 0
            /\ qctxs' = Append(qctxs, NewQContext(list, qctxs[f.qc].next))
            /\ qctx' = Len(qctxs) + 1
            /\ scope' = at
            /\ stack' = Append(WithTop(again), gen)
            /\ UNCHANGED ret
  <2>1. x \in Names /\ list \in Seq(Goal)
    <3>. HIDE DEF Goal
    <3>1. <<f.g>> \in Seq(Goal)
      BY <1>4
    <3>. QED  BY <1>4, <1>5, <1>16, <3>1, ConcatProperties
  <2>. HIDE DEF list
  <2>2. /\ qctxs' \in Seq(LiveContext(Len(qctxs'))) /\ Len(qctxs') = Len(qctxs) + 1
    BY <1>3, <1>9, <1>16, <2>1, AddContextTyped
  <2>3. /\ again.prev \in 0 .. at /\ again.i \in Nat \ {0} /\ again.qc # 0
        /\ again.prev # 0 /\ again.i <= Len(prog.pred[again.g.pred].clauses)
    BY <1>3, <1>4, <1>10, <1>16
  <2>8. /\ Len(scopes') \in Nat /\ Len(qctxs') \in Nat
        /\ Len(scopes) <= Len(scopes') /\ Len(qctxs) <= Len(qctxs')
    BY <1>3, <1>12, <2>2
  <2>4. again \in LiveFrame(Len(scopes'), Len(qctxs'))
    BY <1>3, <1>10, <1>12, <2>3, <2>8, CallMoves
  <2>5. gen \in GenFrame
    <3>1. at \in Nat /\ f.qc \in Nat /\ (IF prev.cell[x].link # 0 THEN at ELSE 1) \in Nat
      BY <1>3, <1>4
    <3>2. Seen(prev, x).dom \in SUBSET Vals
      BY <1>11, <2>1
    <3>. QED  BY <1>3, <2>1, <3>1, <3>2 DEF GenFrame
  <2>6. gen \in LiveFrame(Len(scopes'), Len(qctxs'))
    <3>1. gen.sc \in 1 .. at /\ gen.at \in 1 .. at /\ gen.qc \in 0 .. Len(qctxs) + 1
      BY <1>3, <1>4
    <3>. HIDE DEF gen
    <3>. QED  BY <1>3, <1>12, <2>2, <2>5, <3>1 DEF LiveFrame, LiveGen
  <2>. HIDE DEF gen
  <2>7. stack' \in Seq(Frames')
    BY <1>1, <1>3, <1>7, <1>12, <1>16, <2>2, <2>4, <2>6, PushTyped
  <2>. QED  BY <1>1, <1>3, <1>6, <1>7, <1>12, <1>16, <2>2, <2>7 DEF TypeInv
<1>. QED  BY <1>2, <1>13, <1>14, <1>15, <1>16

\* A call that goes on to its next variation.
LEMMA NextVariation ==
  ASSUME TypeInv, stack # <<>>, Top.k = "call", NEW found \in BOOLEAN,
         prog' = prog, Len(scopes') = Len(scopes), Len(qctxs') = Len(qctxs)
  PROVE  WithTop([Top EXCEPT !.ph = "next", !.i = @ + 1, !.found = found])
           \in Seq(Frames')
<1>. DEFINE f == Top
            h == [f EXCEPT !.ph = "next", !.i = @ + 1, !.found = found]
<1>1. /\ f \in LiveCall(Len(scopes), Len(qctxs)) /\ f \in CallFrame
      /\ Len(scopes) \in Nat /\ Len(qctxs) \in Nat
      /\ f.prev \in 0 .. Len(scopes) /\ f.i + 1 \in Nat \ {0}
  BY TopCall DEF LiveCall
<1>. HIDE DEF f
<1>2. h \in CallFrame
  BY <1>1 DEF CallFrame
<1>3. /\ h.sc = f.sc /\ h.at = f.at /\ h.prev = f.prev /\ h.qc = f.qc
      /\ h.i = f.i + 1 /\ h.g = f.g /\ h.ph = "next"
  BY <1>1 DEF CallFrame
<1>. HIDE DEF h
<1>4. h \in LiveFrame(Len(scopes), Len(qctxs))
  BY <1>1, <1>2, <1>3, CallMoves
<1>5. WithTop(h) \in Seq(Frames')
  BY <1>1, <1>4, PushTyped
<1>. QED  BY <1>5 DEF f, h

\* Judging the response of a variation leaves a stack, a response, a cut and a
\* counter.
LEMMA JudgeTyped ==
  ASSUME TypeInv, stack # <<>>, Top.k = "call", Judge(Top, ret),
         prog' = prog, Len(scopes') = Len(scopes), Len(qctxs') = Len(qctxs)
  PROVE  /\ stack' \in Seq(Frames') /\ ret' \in Resp
         /\ cut' \in Nat /\ depth' \in Int
<1>1. Top \in CallFrame /\ cut \in Nat /\ depth \in Int /\ ret \in Resp
  BY TopCall DEF LiveCall, TypeInv
<1>2. Top.save \in Nat /\ Top.found \in BOOLEAN
  BY <1>1 DEF CallFrame
<1>. DEFINE ok == ret.st \in {"true", "continue"} \/ ret = Yield(TRUE)
            either == Top.found \/ ok
            same == WithTop([Top EXCEPT !.ph = "next", !.i = @ + 1,
                               !.found = Top.found])
            more == WithTop([Top EXCEPT !.ph = "next", !.i = @ + 1,
                               !.found = either])
<1>3. \/ stack' = Callers /\ ret' = ret /\ cut' = cut /\ depth' = depth
      \/ /\ stack' = Callers /\ ret' = Yield(TRUE)
         /\ cut' = (IF cut = 0 THEN Top.save ELSE cut) /\ depth' = depth - 1
      \/ stack' = same /\ ret' = NoResp /\ cut' = 0 /\ depth' = depth
      \/ stack' = more /\ ret' = NoResp /\ cut' = cut /\ depth' = depth
  BY DEF Judge, Returns, Over
<1>4. either \in BOOLEAN
  OBVIOUS
<1>. HIDE DEF ok, either
<1>5. Callers \in Seq(Frames')
  <2>1. Callers \in Seq(Frames)
    BY TopLive
  <2>2. Len(scopes) \in Nat /\ Len(qctxs) \in Nat
    BY LenProperties DEF TypeInv
  <2>. QED  BY <2>1, <2>2, FramesGrow
<1>6. same \in Seq(Frames') /\ more \in Seq(Frames')
  BY <1>2, <1>4, NextVariation
<1>. HIDE DEF same, more
<1>7. stack' \in {Callers, same, more} /\ ret' \in {ret, Yield(TRUE), NoResp}
  BY <1>3
<1>8. cut' \in {cut, 0, Top.save} /\ depth' \in {depth, depth - 1}
  BY <1>3
<1>9. stack' \in Seq(Frames')
  BY <1>5, <1>6, <1>7
<1>10. ret' \in Resp
  BY <1>1, <1>7, ResponsesTyped
<1>11. cut' \in Nat /\ depth' \in Int
  BY <1>1, <1>2, <1>8
<1>. QED  BY <1>9, <1>10, <1>11

\* Returning from a body keeps the types.
LEMMA BodyReturnsType ==
  ASSUME TypeInv, BodyReturns \/ ContinuationReturns
  PROVE  TypeInv'
<1>1. /\ stack # <<>> /\ Top.k = "call" /\ Top.ph # "next" /\ Judge(Top, ret)
      /\ qctxs' = [qctxs EXCEPT ![Top.qc].expset = Top.old]
      /\ scope' = Top.sc /\ qctx' \in {Top.qc, qctx}
      /\ UNCHANGED <<scopes, nlink, tracked, doProcess, env>>
  BY DEF BodyReturns, ContinuationReturns, BackTo, Answered
<1>2. Top \in LiveCall(Len(scopes), Len(qctxs)) /\ Len(qctxs) \in Nat
  BY <1>1, TopCall
<1>3. /\ Top.qc \in 1 .. Len(qctxs) /\ Top.sc \in 1 .. Len(scopes)
      /\ Top.old \in Seq(Goal)
  BY <1>1, <1>2 DEF LiveCall, CallFrame
<1>4. qctxs' \in Seq(LiveContext(Len(qctxs'))) /\ Len(qctxs') = Len(qctxs)
  BY <1>1, <1>3, ExpsetTyped
<1>5. /\ stack' \in Seq(Frames') /\ ret' \in Resp
      /\ cut' \in Nat /\ depth' \in Int
  BY <1>1, <1>4, JudgeTyped DEF env
<1>6. qctx' \in 0 .. Len(qctxs') /\ scope' \in 1 .. Len(scopes')
  BY <1>1, <1>2, <1>3, <1>4 DEF TypeInv
<1>. QED  BY <1>1, <1>4, <1>5, <1>6 DEF TypeInv, env

\* Leaving a call after its last variation keeps the types.
LEMMA ExhaustedType ==
  ASSUME TypeInv, Exhausted
  PROVE  TypeInv'
<1>1. /\ stack # <<>> /\ Top.k = "call"
      /\ stack' = Callers /\ ret' = Yield(Top.found) /\ depth' = depth - 1
      /\ cut' = (IF cut = 0 THEN Top.save ELSE cut)
      /\ UNCHANGED <<mem, scope, qctx, doProcess, env>>
  BY DEF Exhausted, GoesOn, Over, Returns
<1>2. Top.save \in Nat /\ Callers \in Seq(Frames)
  BY <1>1, TopCall, TopLive DEF LiveCall, CallFrame
<1>3. ret' \in Resp
  BY <1>1, ResponsesTyped DEF Yield
<1>. QED  BY <1>1, <1>2, <1>3
          DEF TypeInv, Frames, LiveFrame, LiveCall, mem, env

\* The state after a NULL dereference has the types.
LEMMA CrashType ==
  ASSUME TypeInv, Crash
  PROVE  TypeInv'
<1>1. stack' = <<>> /\ ret' = Respond("crash", 9) /\ UNCHANGED <<mem, ctl, env>>
  BY DEF Crash
<1>. QED  BY <1>1, ResponsesTyped, EmptyTyped
          DEF TypeInv, Frames, LiveFrame, LiveCall, mem, ctl, env

\* Going on after an instantiation keeps the types.
LEMMA InstReturnsType ==
  ASSUME TypeInv, InstReturns
  PROVE  TypeInv'
<1>. DEFINE f == Top
            entered == [f EXCEPT !.ph = "c", !.old = qctxs[f.qc].expset]
            found == f.found \/ ret.pl = 1
<1>1. /\ stack # <<>> /\ Top.k = "call" /\ Top.ph = "inst" /\ qctx' = f.qc
      /\ UNCHANGED <<scopes, nlink, tracked, cut, depth, doProcess, env>>
      /\ \/ /\ stack' = Callers /\ ret' = ret /\ scope' = f.sc /\ qctxs' = qctxs
         \/ /\ stack' = WithTop([f EXCEPT !.ph = "next", !.i = @ + 1, !.found = found])
            /\ ret' = NoResp /\ scope' = f.sc /\ qctxs' = qctxs
         \/ /\ qctxs' = [qctxs EXCEPT ![f.qc].expset = f.code]
            /\ stack' = Append(WithTop(entered), Start(f.code, f.prev))
            /\ ret' = NoResp /\ scope' = f.prev
  BY DEF InstReturns, Answered, Returns
<1>2. /\ f \in LiveCall(Len(scopes), Len(qctxs)) /\ f \in CallFrame
      /\ Len(qctxs) \in Nat /\ Len(scopes) \in Nat /\ ret \in Resp
      /\ qctxs \in Seq(LiveContext(Len(qctxs)))
  BY <1>1, TopCall DEF LiveCall, TypeInv
<1>3. /\ f.qc \in 1 .. Len(qctxs) /\ f.sc \in 1 .. Len(scopes)
      /\ f.prev \in 1 .. Len(scopes) /\ f.i \in Nat \ {0} /\ f.code \in Seq(Goal)
      /\ f.i <= Len(prog.pred[f.g.pred].clauses)
  BY <1>1, <1>2 DEF LiveCall, CallFrame
<1>4. qctxs[f.qc].expset \in Seq(Goal)
  BY <1>3, ContextAt
<1>5. CASE stack' = Callers /\ ret' = ret /\ scope' = f.sc /\ qctxs' = qctxs
  <2>1. Callers \in Seq(Frames)
    BY <1>1, TopLive
  <2>. QED  BY <1>1, <1>2, <1>3, <1>5, <2>1
            DEF TypeInv, Frames, LiveFrame, LiveCall, env
<1>6. CASE /\ stack' = WithTop([f EXCEPT !.ph = "next", !.i = @ + 1, !.found = found])
           /\ ret' = NoResp /\ scope' = f.sc /\ qctxs' = qctxs
  <2>1. found \in BOOLEAN
    OBVIOUS
  <2>. HIDE DEF found
  <2>2. stack' \in Seq(Frames')
    BY <1>1, <1>6, <2>1, NextVariation DEF env
  <2>3. scope' \in 1 .. Len(scopes') /\ qctx' \in 0 .. Len(qctxs') /\ ret' \in Resp
    BY <1>1, <1>3, <1>6, ResponsesTyped
  <2>. HIDE DEF f
  <2>. QED  BY <1>1, <1>2, <1>6, <2>2, <2>3 DEF TypeInv, env
<1>7. CASE /\ qctxs' = [qctxs EXCEPT ![f.qc].expset = f.code]
           /\ stack' = Append(WithTop(entered), Start(f.code, f.prev))
           /\ ret' = NoResp /\ scope' = f.prev
  <2>1. qctxs' \in Seq(LiveContext(Len(qctxs'))) /\ Len(qctxs') = Len(qctxs)
    BY <1>3, <1>7, ExpsetTyped
  <2>2. entered \in CallFrame
    BY <1>2, <1>4 DEF CallFrame
  <2>3. /\ entered.sc = f.sc /\ entered.at = f.at /\ entered.prev = f.prev
        /\ entered.qc = f.qc /\ entered.i = f.i /\ entered.g = f.g
        /\ entered.ph = "c"
    BY <1>2 DEF CallFrame
  <2>. HIDE DEF entered
  <2>4. entered \in LiveFrame(Len(scopes), Len(qctxs))
    <3>1. entered.prev \in 0 .. Len(scopes) /\ entered.i \in Nat \ {0}
          /\ entered.qc # 0 /\ entered.i <= Len(prog.pred[entered.g.pred].clauses)
          /\ entered.ph # "inst"
      BY <1>2, <1>3, <2>3
    <3>2. /\ f \in LiveCall(Len(scopes), Len(qctxs))
          /\ Len(scopes) \in Nat /\ Len(qctxs) \in Nat
          /\ Len(scopes) <= Len(scopes) /\ Len(qctxs) <= Len(qctxs)
      BY <1>2
    <3>3. /\ entered.g = f.g /\ entered.sc = f.sc /\ entered.at = f.at
          /\ entered.qc = f.qc
      BY <2>3
    <3>. HIDE DEF f
    <3>. QED  BY <2>2, <3>1, <3>2, <3>3, CallMoves
  <2>5. Start(f.code, f.prev) \in LiveFrame(Len(scopes), Len(qctxs))
    BY <1>2, <1>3, StartLive
  <2>6. stack' \in Seq(Frames')
    BY <1>1, <1>2, <1>7, <2>1, <2>4, <2>5, PushTyped DEF env
  <2>7. scope' \in 1 .. Len(scopes') /\ qctx' \in 0 .. Len(qctxs') /\ ret' \in Resp
    BY <1>1, <1>2, <1>3, <1>7, <2>1, ResponsesTyped
  <2>. HIDE DEF f
  <2>. QED  BY <1>1, <2>1, <2>6, <2>7 DEF TypeInv, env
<1>. QED  BY <1>1, <1>5, <1>6, <1>7

-----------------------------------------------------------------------------
(* Generators *)

GenOps == {"unify", "eq", "inst", "all", "exists"}

\* A generator over a set of values is a live activation.
LEMMA GeneratorLive ==
  ASSUME TypeInv, NEW op \in GenOps, NEW x \in Names, NEW list \in Seq(Goal),
         NEW a \in 1 .. Len(scopes), NEW todo \in SUBSET Vals,
         NEW m \in Nat, Len(qctxs) <= m
  PROVE  Generator(op, x, list, a, todo) \in LiveFrame(Len(scopes), m)
<1>. DEFINE f == Generator(op, x, list, a, todo)
<1>1. /\ Len(scopes) \in Nat /\ Len(qctxs) \in Nat /\ scope \in 1 .. Len(scopes)
      /\ qctx \in 0 .. Len(qctxs) /\ doProcess \in BOOLEAN
  BY LenProperties DEF TypeInv
<1>2. f \in GenFrame
  BY <1>1 DEF Generator, GenFrame, GenOps
<1>3. f.sc = scope /\ f.at = a /\ f.qc = qctx
  BY DEF Generator
<1>. HIDE DEF f
<1>4. f \in LiveGen(Len(scopes), m)
  BY <1>1, <1>2, <1>3 DEF LiveGen
<1>. QED  BY <1>4 DEF f, LiveFrame

\* Starting `x?` keeps the types.
LEMMA EvalUnifyType ==
  ASSUME TypeInv, EvalUnify
  PROVE  TypeInv'
<1>. DEFINE x == CurrentGoal.x
            d == Here.cell[x].dom
<1>1. /\ stack # <<>> /\ ret = NoResp /\ UNCHANGED <<mem, ctl, env>>
      /\ \/ ret' = ErrorResp /\ stack' = stack
         \/ stack' = Append(stack, Generator("unify", x, Rest, scope, d)) /\ ret' = ret
  BY CurrentTyped DEF EvalUnify
<1>2. x \in Names /\ Rest \in Seq(Goal)
  BY CurrentTyped DEF EvalUnify, Goal
<1>3. d \in SUBSET Vals /\ scope \in 1 .. Len(scopes)
  BY <1>2, ScopeAt DEF Here, TypeInv
<1>4. Len(scopes) \in Nat /\ Len(qctxs) \in Nat
  BY LenProperties DEF TypeInv
<1>5. "unify" \in GenOps
  BY DEF GenOps
<1>6. Generator("unify", x, Rest, scope, d) \in Frames
  BY <1>2, <1>3, <1>4, <1>5, GeneratorLive DEF Frames
<1>. HIDE DEF x, d
<1>7. stack' \in Seq(Frames)
  BY <1>1, <1>6, AppendTyped DEF TypeInv
<1>8. ret' \in Resp
  BY <1>1, ResponsesTyped
<1>. QED  BY <1>1, <1>7, <1>8 DEF TypeInv, Frames, LiveFrame, LiveCall, mem, ctl, env

\* Unifying two uninstantiated variables keeps the types.
LEMMA EvalIntersectType ==
  ASSUME TypeInv, EvalIntersect
  PROVE  TypeInv'
<1>. DEFINE x == CurrentGoal.x
            y == CurrentGoal.args[1]
            a == Find(x)
            b == Find(y)
            both == scopes[a].cell[x].dom \cap scopes[b].cell[y].dom
            S == LiveScope(Len(scopes), nlink)
            one == Assign(a, x, both, FALSE)
            gen == Generator("eq", x, Rest, a, both)
<1>1. CurrentGoal \in Goal /\ CurrentGoal.op = "eq" /\ Rest \in Seq(Goal)
      /\ stack # <<>> /\ ret = NoResp
  BY CurrentTyped DEF EvalIntersect
<1>2. x \in Names /\ y \in Names
  BY <1>1, ElementOfSeq DEF Goal
<1>3. /\ a # 0 /\ b # 0
      /\ \/ ret' = Bool(FALSE) /\ UNCHANGED <<stack, scopes>>
         \/ /\ scopes' = [one EXCEPT ![b].cell[y] = Holding(@, both, FALSE)]
            /\ stack' = Append(stack, gen) /\ UNCHANGED ret
      /\ UNCHANGED <<qctxs, nlink, tracked, ctl, env>>
  BY DEF EvalIntersect
<1>4. a \in 1 .. Len(scopes) /\ b \in 1 .. Len(scopes)
      /\ Len(scopes) \in Nat /\ Len(qctxs) \in Nat
  <2>1. a \in 0 .. Len(scopes) /\ b \in 0 .. Len(scopes)
    BY <1>2, FindTyped
  <2>2. Len(scopes) \in Nat /\ Len(qctxs) \in Nat
    BY LenProperties DEF TypeInv
  <2>3. a # 0 /\ b # 0
    BY <1>3
  <2>. HIDE DEF a, b
  <2>. QED  BY <2>1, <2>2, <2>3
<1>5. both \in SUBSET Vals
  BY <1>2, <1>4, ScopeAt
<1>6. gen \in Frames
  <2>1. "eq" \in GenOps
    BY DEF GenOps
  <2>. HIDE DEF x, a, both
  <2>. QED  BY <1>1, <1>2, <1>4, <1>5, <2>1, GeneratorLive DEF Frames
<1>7. one \in Seq(S) /\ Len(one) = Len(scopes)
  BY <1>2, <1>4, <1>5, AssignTyped
<1>. HIDE DEF one, gen, a, b, x, y
<1>8. [one[b] EXCEPT !.cell[y] = Holding(@, both, FALSE)] \in S
  BY <1>2, <1>4, <1>5, <1>7, ElementOfSeq, CellUpdate
<1>. HIDE DEF S, both
<1>9. /\ [one EXCEPT ![b] = [one[b] EXCEPT !.cell[y] = Holding(@, both, FALSE)]] \in Seq(S)
      /\ Len([one EXCEPT ![b] = [one[b] EXCEPT !.cell[y] = Holding(@, both, FALSE)]]) = Len(scopes)
  BY <1>4, <1>7, <1>8, UpdateTyped
<1>10. scopes' \in Seq(S) /\ Len(scopes') = Len(scopes)
  BY <1>3, <1>9 DEF TypeInv, S
<1>11. ret' \in Resp
  BY <1>1, <1>3, ResponsesTyped
<1>12. stack' \in Seq(Frames)
  <2>1. stack \in Seq(Frames)
    BY DEF TypeInv
  <2>2. Append(stack, gen) \in Seq(Frames)
    BY <1>6, <2>1, AppendTyped
  <2>. QED  BY <1>3, <2>1, <2>2
<1>. QED  BY <1>3, <1>10, <1>11, <1>12
          DEF TypeInv, S, Frames, LiveFrame, LiveCall, ctl, env

\* Starting a quantifier keeps the types.
LEMMA EvalQuantType ==
  ASSUME TypeInv, EvalQuant
  PROVE  TypeInv'
<1>1. PICK op \in {"all", "exists"} :
        /\ Evaluating(op)
        /\ LET x == CurrentGoal.x
               list == prog.block[CurrentGoal.body[1]]
           IN  \/ ret' = ErrorResp /\ UNCHANGED <<stack, qctxs, qctx, doProcess>>
               \/ /\ stack' = Append(stack,
                       Generator(op, x, list, scope, Here.cell[x].dom))
                  /\ qctxs' = Append(qctxs, NewQContext(list, 0))
                  /\ qctx' = Len(qctxs) + 1
                  /\ doProcess' = FALSE
                  /\ UNCHANGED ret
  BY DEF EvalQuant
<1>. DEFINE x == CurrentGoal.x
            list == prog.block[CurrentGoal.body[1]]
            d == Here.cell[x].dom
            gen == Generator(op, x, list, scope, d)
<1>2. CurrentGoal \in Goal /\ CurrentGoal.op = op /\ stack # <<>> /\ ret = NoResp
  BY <1>1, CurrentTyped
<1>3. x \in Names /\ CurrentGoal.body[1] \in Blocks
  BY <1>2, ElementOfSeq DEF Goal
<1>4. /\ list \in Seq(Goal) /\ d \in SUBSET Vals /\ scope \in 1 .. Len(scopes)
      /\ Len(scopes) \in Nat /\ Len(qctxs) \in Nat /\ op \in GenOps
      /\ qctxs \in Seq(LiveContext(Len(qctxs)))
  BY <1>3, ScopeAt, LenProperties DEF TypeInv, Program, Here, GenOps
<1>5. UNCHANGED <<scopes, nlink, tracked, scope, cut, depth, env>>
  BY DEF EvalQuant
<1>. HIDE DEF x, list, d
<1>6. CASE ret' = ErrorResp /\ UNCHANGED <<stack, qctxs, qctx, doProcess>>
  BY <1>5, <1>6, ResponsesTyped DEF TypeInv, Frames, LiveFrame, LiveCall, env
<1>7. CASE /\ stack' = Append(stack, gen)
           /\ qctxs' = Append(qctxs, NewQContext(list, 0))
           /\ qctx' = Len(qctxs) + 1
           /\ doProcess' = FALSE
           /\ UNCHANGED ret
  <2>1. 0 \in 0 .. Len(qctxs)
    BY <1>4
  <2>2. qctxs' \in Seq(LiveContext(Len(qctxs'))) /\ Len(qctxs') = Len(qctxs) + 1
    BY <1>4, <1>7, <2>1, AddContextTyped
  <2>3. gen \in LiveFrame(Len(scopes'), Len(qctxs'))
    <3>1. /\ Len(qctxs) + 1 \in Nat /\ Len(qctxs) <= Len(qctxs) + 1
      BY <1>4
    <3>2. gen \in LiveFrame(Len(scopes), Len(qctxs) + 1)
      BY <1>3, <1>4, <3>1, GeneratorLive DEF x
    <3>. QED  BY <1>5, <2>2, <3>2
  <2>. HIDE DEF gen
  <2>4. stack' \in Seq(Frames')
    BY <1>2, <1>4, <1>5, <1>7, <2>2, <2>3, PushTyped DEF env
  <2>5. qctx' \in 0 .. Len(qctxs') /\ doProcess' \in BOOLEAN
    <3>1. qctx' = Len(qctxs) + 1 /\ doProcess' = FALSE
      BY <1>7
    <3>2. Len(qctxs') = Len(qctxs) + 1 /\ Len(qctxs) \in Nat
      BY <1>4, <2>2
    <3>3. qctx' \in 0 .. Len(qctxs')
      BY <3>1, <3>2
    <3>4. doProcess' \in BOOLEAN
      BY <3>1
    <3>. QED  BY <3>3, <3>4
  <2>6. UNCHANGED <<scopes, nlink, tracked, scope, cut, depth, env, ret>>
    BY <1>5, <1>7
  <2>. QED  BY <2>2, <2>4, <2>5, <2>6 DEF TypeInv, env
<1>. QED  BY <1>1, <1>6, <1>7 DEF x, list, d

\* The generator that is on top of the stack.
LEMMA TopGen ==
  ASSUME TypeInv, stack # <<>>, Top.k = "gen"
  PROVE  /\ Top \in LiveGen(Len(scopes), Len(qctxs)) /\ Top \in GenFrame
         /\ Len(scopes) \in Nat \ {0} /\ Len(qctxs) \in Nat
         /\ Top.op \in GenOps
<1>1. scope \in 1 .. Len(scopes) /\ Len(scopes) \in Nat /\ Len(qctxs) \in Nat
  BY LenProperties DEF TypeInv
<1>2. Top \in LiveGen(Len(scopes), Len(qctxs))
  BY TopLive, FrameKinds DEF Frames
<1>. QED  BY <1>1, <1>2 DEF LiveGen, GenFrame, GenOps

\* Generating a value keeps the types.
LEMMA NextValueType ==
  ASSUME TypeInv, NextValue
  PROVE  TypeInv'
<1>. DEFINE f == Top
            copy == Len(scopes) + 1
<1>1. PICK v \in f.todo :
        LET set == Assign(f.at, f.x, {v}, TRUE)
            h == [f EXCEPT !.todo = @ \ {v}]
        IN  /\ scopes' = Append(set, set[scope])
            /\ scope' = copy
            /\ stack' = Append(WithTop(h), Start(f.code, copy))
  BY DEF NextValue
<1>2. /\ stack # <<>> /\ Top.k = "gen"
      /\ UNCHANGED <<qctxs, nlink, tracked, qctx, cut, depth, doProcess, ret, env>>
  BY DEF NextValue, GoesOn
<1>. DEFINE set == Assign(f.at, f.x, {v}, TRUE)
            h == [f EXCEPT !.todo = @ \ {v}]
<1>3. /\ f \in LiveGen(Len(scopes), Len(qctxs)) /\ f \in GenFrame
      /\ Len(scopes) \in Nat \ {0} /\ Len(qctxs) \in Nat
      /\ scope \in 1 .. Len(scopes) /\ nlink \in Nat
  BY <1>2, TopGen DEF TypeInv
<1>4. /\ f.at \in 1 .. Len(scopes) /\ f.sc \in 1 .. Len(scopes)
      /\ f.x \in Names /\ f.todo \in SUBSET Vals /\ f.code \in Seq(Goal)
      /\ f.qc \in 0 .. Len(qctxs)
  BY <1>3 DEF LiveGen, GenFrame
<1>5. /\ set \in Seq(LiveScope(Len(scopes), nlink)) /\ Len(set) = Len(scopes)
  <2>1. {v} \in SUBSET Vals
    BY <1>4
  <2>. QED  BY <1>4, <2>1, AssignTyped
<1>6. h \in LiveGen(Len(scopes), Len(qctxs))
  <2>1. f.todo \ {v} \in SUBSET Vals
    BY <1>4
  <2>. HIDE DEF f
  <2>2. h \in GenFrame
    BY <1>3, <2>1 DEF GenFrame
  <2>3. h.sc = f.sc /\ h.at = f.at /\ h.qc = f.qc
    BY <1>3 DEF GenFrame
  <2>. HIDE DEF h
  <2>. QED  BY <1>4, <2>2, <2>3 DEF LiveGen
<1>7. scopes' = Append(set, set[scope]) /\ scope' = copy
      /\ stack' = Append(WithTop(h), Start(f.code, copy))
  BY <1>1
<1>. HIDE DEF f, set, h
<1>8. set[scope] \in LiveScope(Len(scopes), nlink)
  BY <1>3, <1>5, ElementOfSeq
<1>9. scopes' \in Seq(LiveScope(copy, nlink)) /\ Len(scopes') = copy
  BY <1>3, <1>5, <1>7, <1>8, AddScopeTyped
<1>10. h \in LiveFrame(copy, Len(qctxs))
  <2>1. h \in LiveFrame(Len(scopes), Len(qctxs))
    BY <1>6 DEF LiveFrame
  <2>2. copy \in Nat /\ Len(scopes) <= copy
    BY <1>3
  <2>. QED  BY <1>3, <2>1, <2>2, StaysLive
<1>11. Start(f.code, copy) \in LiveFrame(copy, Len(qctxs))
  BY <1>3, <1>4, StartLive
<1>12. stack' \in Seq(Frames')
  BY <1>2, <1>3, <1>7, <1>9, <1>10, <1>11, PushTyped DEF env
<1>13. scope' \in 1 .. Len(scopes')
  BY <1>3, <1>7, <1>9
<1>14. scopes' \in Seq(LiveScope(Len(scopes'), nlink'))
  BY <1>2, <1>9
<1>. QED  BY <1>2, <1>12, <1>13, <1>14 DEF TypeInv, env

\* The response of a value, and of the generator.
LEMMA ProcessTyped ==
  ASSUME NEW op \in GenOps, NEW r \in Resp
  PROVE  /\ Process(op, r).qr \in Resp /\ Process(op, r).r \in BOOLEAN
         /\ Process(op, r).flag \in BOOLEAN
<1>1. Yield(FALSE) \in Resp /\ Bool(r.pl # 0) \in Resp /\ Bool(r.pl = 1) \in Resp
  BY ResponsesTyped
<1>2. CASE op = "unify"
  <2>1. Process(op, r) = Unify(r)
    BY <1>2 DEF Process
  <2>2. Unify(r).qr \in Resp
    BY <1>1 DEF Unify
  <2>3. Unify(r).r \in BOOLEAN /\ Unify(r).flag \in BOOLEAN
    BY DEF Unify
  <2>. QED  BY <2>1, <2>2, <2>3
<1>3. CASE op \in {"eq", "inst"}
  <2>1. Process(op, r) = Default(r)
    BY <1>3 DEF Process
  <2>2. Default(r).qr = r /\ Default(r).r \in BOOLEAN /\ Default(r).flag = FALSE
    BY DEF Default
  <2>. QED  BY <2>1, <2>2
<1>4. CASE op = "all"
  <2>1. Process(op, r) = All(r)
    BY <1>4 DEF Process
  <2>2. All(r).qr \in Resp
    BY <1>1 DEF All
  <2>3. All(r).r \in BOOLEAN /\ All(r).flag \in BOOLEAN
    BY DEF All
  <2>. QED  BY <2>1, <2>2, <2>3
<1>5. CASE op = "exists"
  <2>1. Process(op, r) = Exists(r)
    BY <1>5 DEF Process
  <2>2. Exists(r).qr \in Resp
    BY <1>1 DEF Exists
  <2>3. Exists(r).r \in BOOLEAN /\ Exists(r).flag \in BOOLEAN
    BY DEF Exists
  <2>. QED  BY <2>1, <2>2, <2>3
<1>. QED  BY <1>2, <1>3, <1>4, <1>5 DEF GenOps

\* What an expression responds when its generator ends is a response.
LEMMA GeneratedTyped ==
  ASSUME NEW op \in GenOps, NEW gr, gr.qr \in Resp, NEW flag \in BOOLEAN
  PROVE  Generated(op, gr, flag) \in Resp
<1>1. /\ Yield(FALSE) \in Resp /\ Yield(TRUE) \in Resp
      /\ Bool(gr.r) \in Resp /\ Bool(~gr.r) \in Resp
  BY ResponsesTyped DEF Bool
<1>2. Respond("yield", gr.qr.pl) \in Resp
  BY DEF Respond, Resp
<1>3. CASE op = "unify"
  BY <1>1, <1>2, <1>3 DEF Generated
<1>4. CASE op \in {"eq", "inst"}
  BY <1>1, <1>4 DEF Generated
<1>5. CASE op = "all"
  BY <1>1, <1>5 DEF Generated
<1>6. CASE op = "exists"
  BY <1>1, <1>6 DEF Generated
<1>. QED  BY <1>3, <1>4, <1>5, <1>6 DEF GenOps

\* The end of a generator leaves live addresses.
LEMMA GenEndsTyped ==
  ASSUME TypeInv, stack # <<>>, Top.k = "gen",
         NEW gr, gr.qr \in Resp, NEW flag \in BOOLEAN, GenEnds(Top, gr, flag),
         UNCHANGED <<mem, cut, depth, env>>
  PROVE  TypeInv'
<1>1. /\ stack' = Callers /\ ret' = Generated(Top.op, gr, flag) /\ scope' = Top.sc
      /\ qctx' \in {Top.qc, qctx} /\ doProcess' \in {Top.dp, doProcess}
  BY DEF GenEnds, Returns
<1>2. /\ Top.op \in GenOps /\ Top.sc \in 1 .. Len(scopes)
      /\ Top.qc \in 0 .. Len(qctxs) /\ Top.dp \in BOOLEAN
  BY TopGen DEF LiveGen, GenFrame
<1>3. ret' \in Resp
  BY <1>1, <1>2, GeneratedTyped
<1>4. stack' \in Seq(Frames)
  BY <1>1, TopLive
<1>5. qctx' \in 0 .. Len(qctxs) /\ doProcess' \in BOOLEAN
  BY <1>1, <1>2 DEF TypeInv
<1>. QED  BY <1>1, <1>2, <1>3, <1>4, <1>5
          DEF TypeInv, Frames, LiveFrame, LiveCall, mem, env

\* Judging the response of a value keeps the types.
LEMMA ValueReturnsType ==
  ASSUME TypeInv, ValueReturns
  PROVE  TypeInv'
<1>. DEFINE f == Top
            gr == Process(f.op, ret)
            flag == f.found \/ gr.flag
            h == [f EXCEPT !.found = flag]
<1>1. /\ stack # <<>> /\ Top.k = "gen" /\ UNCHANGED <<mem, cut, depth, env>>
      /\ \/ /\ stack' = WithTop(h) /\ ret' = NoResp /\ scope' = f.sc
            /\ UNCHANGED <<qctx, doProcess>>
         \/ GenEnds(f, gr, flag)
  BY DEF ValueReturns, Answered
<1>2. f \in LiveGen(Len(scopes), Len(qctxs)) /\ f \in GenFrame /\ ret \in Resp
      /\ f.op \in GenOps
  BY <1>1, TopGen DEF TypeInv
<1>3. gr.qr \in Resp /\ flag \in BOOLEAN
  BY <1>2, ProcessTyped
<1>. HIDE DEF gr, flag
<1>4. CASE GenEnds(f, gr, flag)
  BY <1>1, <1>3, <1>4, GenEndsTyped
<1>5. CASE /\ stack' = WithTop(h) /\ ret' = NoResp /\ scope' = f.sc
           /\ UNCHANGED <<qctx, doProcess>>
  <2>1. f.sc \in 1 .. Len(scopes)
    BY <1>2 DEF LiveGen
  <2>2. h \in LiveGen(Len(scopes), Len(qctxs))
    <3>. HIDE DEF f
    <3>1. h \in GenFrame
      BY <1>2, <1>3 DEF GenFrame
    <3>2. h.sc = f.sc /\ h.at = f.at /\ h.qc = f.qc
      BY <1>2 DEF GenFrame
    <3>. HIDE DEF h
    <3>. QED  BY <1>2, <3>1, <3>2 DEF LiveGen
  <2>. HIDE DEF h
  <2>3. stack' \in Seq(Frames)
    BY <1>1, <1>5, <2>2, TopLive DEF Frames, LiveFrame
  <2>4. ret' \in Resp
    BY <1>5, ResponsesTyped
  <2>. QED  BY <1>1, <1>5, <2>1, <2>3, <2>4
            DEF TypeInv, Frames, LiveFrame, LiveCall, mem, env
<1>. QED  BY <1>1, <1>4, <1>5

\* Running out of values keeps the types.
LEMMA NoMoreValuesType ==
  ASSUME TypeInv, NoMoreValues
  PROVE  TypeInv'
<1>. DEFINE gr == [r |-> TRUE, qr |-> Yield(TRUE)]
<1>1. /\ stack # <<>> /\ Top.k = "gen" /\ GenEnds(Top, gr, Top.found)
      /\ UNCHANGED <<mem, cut, depth, env>>
  BY DEF NoMoreValues, GoesOn
<1>2. gr.qr \in Resp /\ Top.found \in BOOLEAN
  BY <1>1, TopGen, ResponsesTyped DEF GenFrame
<1>. HIDE DEF gr
<1>. QED  BY <1>1, <1>2, GenEndsTyped

-----------------------------------------------------------------------------
(* Implication, choice, sets *)

\* A copy of the current scope.
LEMMA CopyTyped ==
  ASSUME TypeInv, NEW s \in LiveScope(Len(scopes), nlink)
  PROVE  /\ Append(scopes, s) \in Seq(LiveScope(Len(scopes) + 1, nlink))
         /\ Len(Append(scopes, s)) = Len(scopes) + 1
<1>1. nlink \in Nat /\ scopes \in Seq(LiveScope(Len(scopes), nlink))
  BY DEF TypeInv
<1>. QED  BY <1>1, AddScopeTyped

\* The current scope is a live scope.
LEMMA HereTyped ==
  ASSUME TypeInv
  PROVE  /\ Here \in LiveScope(Len(scopes), nlink) /\ scope \in 1 .. Len(scopes)
         /\ Len(scopes) \in Nat /\ Len(qctxs) \in Nat /\ nlink \in Nat
         /\ qctxs \in Seq(LiveContext(Len(qctxs)))
         /\ \A i \in Nat : [Here EXCEPT !.repeat = i] \in LiveScope(Len(scopes), nlink)
         /\ [Here EXCEPT !.next = 0, !.repeat = 0] \in LiveScope(Len(scopes), nlink)
<1>1. /\ scope \in 1 .. Len(scopes) /\ Len(scopes) \in Nat /\ Len(qctxs) \in Nat
      /\ nlink \in Nat /\ qctxs \in Seq(LiveContext(Len(qctxs)))
  BY LenProperties DEF TypeInv
<1>2. Here \in LiveScope(Len(scopes), nlink)
  BY <1>1, ScopeAt DEF Here
<1>3. ASSUME NEW i \in Nat
      PROVE  [Here EXCEPT !.repeat = i] \in LiveScope(Len(scopes), nlink)
  BY <1>2 DEF LiveScope, Scope
<1>. DEFINE t == [Here EXCEPT !.next = 0, !.repeat = 0]
<1>4. t \in LiveScope(Len(scopes), nlink)
  <2>1. Here \in Scope /\ 0 \in 0 .. Len(scopes)
        /\ \A x \in Names : Here.cell[x].link \in 0 .. nlink
    BY <1>1, <1>2 DEF LiveScope
  <2>. HIDE DEF Here
  <2>2. t \in Scope /\ t.next = 0 /\ t.cell = Here.cell
    BY <2>1 DEF Scope
  <2>. HIDE DEF t
  <2>. QED  BY <2>1, <2>2 DEF LiveScope
<1>. QED  BY <1>1, <1>2, <1>3, <1>4

\* Starting an implication keeps the types.
LEMMA EvalImplyType ==
  ASSUME TypeInv, EvalImply
  PROVE  TypeInv'
<1>. DEFINE fact == prog.block[CurrentGoal.body[1]]
            for == prog.block[CurrentGoal.body[2]]
            n == Len(qctxs)
            f == [k |-> "imply", sc |-> scope, qc |-> qctx,
                  old |-> CurrentList, at |-> n + 3]
            copy == [Here EXCEPT !.repeat = @ + 2]
            u == [qctxs EXCEPT ![qctx].expset = Rest]
            a == NewQContext(Rest, qctxs[qctx].next)
            b == NewQContext(for, n + 1)
            c == NewQContext(fact, n + 2)
            S == LiveContext(n + 3)
<1>1. /\ stack # <<>> /\ qctx # 0
      /\ CurrentGoal \in Goal /\ CurrentGoal.op = "imply" /\ Rest \in Seq(Goal)
      /\ qctxs' = u \o <<a, b, c>> /\ qctx' = n + 3
      /\ scopes' = Append(scopes, copy) /\ scope' = Len(scopes) + 1
      /\ stack' = stack \o <<f, Start(fact, Len(scopes) + 1)>>
      /\ UNCHANGED <<nlink, tracked, cut, depth, doProcess, ret, env>>
  BY CurrentTyped DEF EvalImply
<1>2. CurrentGoal.body[1] \in Blocks /\ CurrentGoal.body[2] \in Blocks
  BY <1>1, ElementOfSeq DEF Goal
<1>3. fact \in Seq(Goal) /\ for \in Seq(Goal)
  BY <1>2 DEF TypeInv, Program
<1>4. /\ Here \in LiveScope(Len(scopes), nlink) /\ scope \in 1 .. Len(scopes)
      /\ Len(scopes) \in Nat /\ n \in Nat /\ qctx \in 1 .. n
      /\ qctxs \in Seq(LiveContext(n))
  BY <1>1, HereTyped DEF TypeInv
<1>5. /\ qctxs[qctx].next \in 0 .. n /\ CurrentList \in Seq(Goal)
  BY <1>4, ContextAt DEF CurrentList
<1>6. u \in Seq(LiveContext(n)) /\ Len(u) = n
  BY <1>1, <1>4, ExpsetTyped
<1>7. copy \in LiveScope(Len(scopes), nlink)
  <2>1. Here.repeat + 2 \in Nat
    BY <1>4 DEF LiveScope, Scope
  <2>. QED  BY <2>1, HereTyped
<1>. HIDE DEF fact, for, u, copy
<1>8. qctxs' \in Seq(S) /\ Len(qctxs') = n + 3
  <2>. HIDE DEF n
  <2>1. u \in Seq(S)
    BY <1>4, <1>6, ContextsStayLive, SeqOfMore
  <2>2. a \in S /\ b \in S /\ c \in S
    <3>1. ASSUME NEW list \in Seq(Goal), NEW q \in 0 .. n + 2
          PROVE  NewQContext(list, q) \in S
      BY <1>4 DEF NewQContext, LiveContext, QContext
    <3>2. qctxs[qctx].next \in 0 .. n + 2 /\ n + 1 \in 0 .. n + 2 /\ n + 2 \in 0 .. n + 2
      BY <1>4, <1>5
    <3>. HIDE DEF S
    <3>. QED  BY <1>1, <1>3, <3>1, <3>2
  <2>. HIDE DEF a, b, c, S
  <2>3. <<a, b, c>> \in Seq(S) /\ Len(<<a, b, c>>) = 3
    BY <2>2, TripleTyped
  <2>. QED  BY <1>1, <1>6, <2>1, <2>3, ConcatProperties
<1>9. /\ scopes' \in Seq(LiveScope(Len(scopes) + 1, nlink))
      /\ Len(scopes') = Len(scopes) + 1
  BY <1>1, <1>7, CopyTyped
<1>10. f \in LiveFrame(Len(scopes'), Len(qctxs'))
  <2>1. f \in ImplyFrame
    BY <1>4, <1>5 DEF ImplyFrame
  <2>2. /\ f.sc \in 1 .. Len(scopes) + 1 /\ f.qc \in 1 .. n + 3
        /\ f.at \in 1 .. n + 3
    BY <1>4
  <2>. HIDE DEF f, n
  <2>. QED  BY <1>8, <1>9, <2>1, <2>2 DEF LiveFrame, LiveImply
<1>11. Start(fact, Len(scopes) + 1) \in LiveFrame(Len(scopes'), Len(qctxs'))
  BY <1>3, <1>4, <1>8, <1>9, StartLive
<1>. HIDE DEF f
<1>12. stack' \in Seq(Frames')
  <2>1. /\ Len(scopes') \in Nat /\ Len(qctxs') \in Nat
        /\ Len(scopes) <= Len(scopes') /\ Len(qctxs) <= Len(qctxs')
    BY <1>4, <1>8, <1>9
  <2>. QED  BY <1>1, <1>10, <1>11, <2>1, PushTyped DEF env
<1>13. qctx' \in 0 .. Len(qctxs') /\ scope' \in 1 .. Len(scopes')
  <2>1. qctx' = n + 3 /\ Len(qctxs') = n + 3 /\ n \in Nat
    BY <1>1, <1>4, <1>8
  <2>2. scope' = Len(scopes) + 1 /\ Len(scopes') = Len(scopes) + 1
        /\ Len(scopes) \in Nat
    BY <1>1, <1>4, <1>9
  <2>. HIDE DEF n
  <2>. QED  BY <2>1, <2>2
<1>14. scopes' \in Seq(LiveScope(Len(scopes'), nlink'))
  BY <1>1, <1>9
<1>15. qctxs' \in Seq(LiveContext(Len(qctxs')))
  BY <1>8
<1>. QED  BY <1>1, <1>12, <1>13, <1>14, <1>15 DEF TypeInv, env

\* Returning from an implication keeps the types.
LEMMA ImplyReturnsType ==
  ASSUME TypeInv, ImplyReturns
  PROVE  TypeInv'
<1>. DEFINE f == Top
            r == IF ret.pl = 0 /\ ~qctxs[f.at].flagme THEN Bool(TRUE)
                 ELSE Respond("yield", ret.pl)
<1>1. /\ stack # <<>> /\ f.k = "imply" /\ stack' = Callers
      /\ UNCHANGED <<scopes, nlink, tracked, cut, depth, doProcess, env>>
      /\ \/ ret' = ret /\ UNCHANGED <<qctxs, qctx, scope>>
         \/ /\ ret' = r
            /\ qctxs' = [qctxs EXCEPT ![f.qc].expset = f.old]
            /\ scope' = f.sc /\ qctx' = f.qc
  BY DEF ImplyReturns, Answered, Returns, BackTo
<1>2. f \in LiveImply(Len(scopes), Len(qctxs)) /\ Callers \in Seq(Frames)
  BY <1>1, TopLive, FrameKinds DEF Frames
<1>3. /\ f.sc \in 1 .. Len(scopes) /\ f.qc \in 1 .. Len(qctxs) /\ f.old \in Seq(Goal)
  BY <1>2 DEF LiveImply, ImplyFrame
<1>. HIDE DEF f
<1>4. [qctxs EXCEPT ![f.qc].expset = f.old] \in Seq(LiveContext(Len(qctxs)))
      /\ Len([qctxs EXCEPT ![f.qc].expset = f.old]) = Len(qctxs)
  BY <1>3, ExpsetTyped
<1>5. r \in Resp
  <2>1. ret \in Resp
    BY DEF TypeInv
  <2>2. Respond("yield", ret.pl) \in Resp
    BY <2>1 DEF Respond, Resp
  <2>. QED  BY <2>2, ResponsesTyped
<1>. HIDE DEF r
<1>6. /\ qctxs' \in Seq(LiveContext(Len(qctxs))) /\ Len(qctxs') = Len(qctxs)
      /\ ret' \in Resp /\ scope' \in 1 .. Len(scopes)
      /\ qctx' \in 0 .. Len(qctxs)
  <2>1. CASE ret' = ret /\ UNCHANGED <<qctxs, qctx, scope>>
    BY <2>1 DEF TypeInv
  <2>2. CASE /\ ret' = r
             /\ qctxs' = [qctxs EXCEPT ![f.qc].expset = f.old]
             /\ scope' = f.sc /\ qctx' = f.qc
    <3>1. qctx' \in 0 .. Len(qctxs)
      BY <1>3, <2>2
    <3>. QED  BY <1>3, <1>4, <1>5, <2>2, <3>1
  <2>. QED  BY <1>1, <2>1, <2>2
<1>. QED  BY <1>1, <1>2, <1>6 DEF TypeInv, Frames, LiveFrame, LiveCall, env

\* Starting a choice keeps the types.
LEMMA EvalChoiceType ==
  ASSUME TypeInv, EvalChoice
  PROVE  TypeInv'
<1>. DEFINE f == [k |-> "choice", g |-> CurrentGoal, code |-> Rest, sc |-> scope,
                  qc |-> qctx, old |-> <<>>, i |-> 1, save |-> cut,
                  committed |-> FALSE]
<1>1. /\ stack # <<>> /\ qctx # 0 /\ CurrentGoal \in Goal /\ Rest \in Seq(Goal)
      /\ stack' = Append(stack, f) /\ UNCHANGED <<mem, ctl, ret, env>>
  BY CurrentTyped DEF EvalChoice
<1>2. /\ scope \in 1 .. Len(scopes) /\ qctx \in 0 .. Len(qctxs) /\ cut \in Nat
      /\ Len(scopes) \in Nat /\ Len(qctxs) \in Nat
  BY LenProperties DEF TypeInv
<1>3. f \in Frames
  <2>1. qctx \in 1 .. Len(qctxs)
    BY <1>1, <1>2
  <2>2. f \in ChoiceFrame
    BY <1>1, <1>2, <2>1, EmptyTyped DEF ChoiceFrame
  <2>3. f.sc = scope /\ f.qc = qctx /\ f.i = 1
    OBVIOUS
  <2>. HIDE DEF f
  <2>. QED  BY <1>2, <2>1, <2>2, <2>3 DEF Frames, LiveFrame, LiveChoice
<1>. HIDE DEF f
<1>4. stack' \in Seq(Frames)
  BY <1>1, <1>3, AppendTyped DEF TypeInv
<1>. QED  BY <1>1, <1>4 DEF TypeInv, Frames, LiveFrame, LiveCall, mem, ctl, env

\* An activation of kind choice is that of a choice.
LEMMA TopChoice ==
  ASSUME TypeInv, stack # <<>>, Top.k = "choice"
  PROVE  /\ Top \in ChoiceFrame /\ Top.g \in Goal /\ Top.code \in Seq(Goal)
         /\ Top.old \in Seq(Goal) /\ Top.sc \in 1 .. Len(scopes)
         /\ Top.qc \in 1 .. Len(qctxs) /\ Top.i \in Nat \ {0}
         /\ Len(scopes) \in Nat \ {0} /\ Len(qctxs) \in Nat
<1>1. scope \in 1 .. Len(scopes) /\ Len(scopes) \in Nat /\ Len(qctxs) \in Nat
  BY LenProperties DEF TypeInv
<1>2. Top \in LiveChoice(Len(scopes), Len(qctxs))
  BY TopLive, FrameKinds DEF Frames
<1>. QED  BY <1>1, <1>2 DEF LiveChoice, ChoiceFrame

\* A choice that moves on.
LEMMA ChoiceMoves ==
  ASSUME TypeInv, stack # <<>>, Top.k = "choice",
         NEW n \in Nat, NEW m \in Nat, Len(scopes) <= n, Len(qctxs) <= m
  PROVE  /\ \A list \in Seq(Goal) : [Top EXCEPT !.old = list] \in LiveFrame(n, m)
         /\ [Top EXCEPT !.i = @ + 1] \in LiveFrame(n, m)
<1>. DEFINE f == Top
<1>1. /\ f \in ChoiceFrame /\ f.sc \in 1 .. n /\ f.qc \in 1 .. m /\ f.i \in Nat \ {0}
      /\ f.i + 1 \in Nat \ {0}
  BY TopChoice
<1>. HIDE DEF f
<1>2. ASSUME NEW list \in Seq(Goal)
      PROVE  [f EXCEPT !.old = list] \in LiveChoice(n, m)
  <2>. DEFINE h == [f EXCEPT !.old = list]
  <2>1. h \in ChoiceFrame
    BY <1>1 DEF ChoiceFrame
  <2>2. h.sc = f.sc /\ h.qc = f.qc /\ h.i = f.i
    BY <1>1 DEF ChoiceFrame
  <2>. HIDE DEF h
  <2>3. h \in LiveChoice(n, m)
    BY <1>1, <2>1, <2>2 DEF LiveChoice
  <2>. QED  BY <2>3 DEF h
<1>3. [f EXCEPT !.i = @ + 1] \in LiveChoice(n, m)
  <2>. DEFINE h == [f EXCEPT !.i = @ + 1]
  <2>1. h \in ChoiceFrame
    BY <1>1 DEF ChoiceFrame
  <2>2. h.sc = f.sc /\ h.qc = f.qc /\ h.i = f.i + 1
    BY <1>1 DEF ChoiceFrame
  <2>. HIDE DEF h
  <2>3. h \in LiveChoice(n, m)
    BY <1>1, <2>1, <2>2 DEF LiveChoice
  <2>. QED  BY <2>3 DEF h
<1>. QED  BY <1>2, <1>3 DEF f, LiveFrame

\* Starting an alternative keeps the types.
LEMMA NextAlternativeType ==
  ASSUME TypeInv, NextAlternative
  PROVE  TypeInv'
<1>. DEFINE f == Top
            list == prog.block[f.g.body[f.i]]
            copy == Len(scopes) + 1
            s == [Here EXCEPT !.repeat = @ + 1]
            u == [qctxs EXCEPT ![f.qc].expset = f.code]
            h == [f EXCEPT !.old = qctxs[f.qc].expset]
<1>1. /\ stack # <<>> /\ Top.k = "choice" /\ f.i <= Len(f.g.body)
      /\ scopes' = Append(scopes, s) /\ scope' = copy
      /\ qctxs' = Append(u, NewQContext(list, f.qc)) /\ qctx' = Len(qctxs) + 1
      /\ stack' = Append(WithTop(h), Start(list, copy))
      /\ UNCHANGED <<nlink, tracked, cut, depth, doProcess, ret, env>>
  BY DEF NextAlternative, GoesOn
<1>2. /\ f.g \in Goal /\ f.code \in Seq(Goal) /\ f.sc \in 1 .. Len(scopes)
      /\ f.qc \in 1 .. Len(qctxs) /\ f.i \in Nat \ {0}
      /\ Len(scopes) \in Nat \ {0} /\ Len(qctxs) \in Nat
  BY <1>1, TopChoice
<1>3. list \in Seq(Goal)
  <2>1. f.g.body \in Seq(Blocks)
    BY <1>2 DEF Goal
  <2>2. f.g.body[f.i] \in Blocks
    <3>. HIDE DEF f
    <3>1. f.i \in 1 .. Len(f.g.body)
      BY <1>1, <1>2, <2>1, LenProperties
    <3>. QED  BY <2>1, <3>1, ElementOfSeq
  <2>. QED  BY <2>2 DEF TypeInv, Program
<1>4. s \in LiveScope(Len(scopes), nlink)
  <2>1. Here.repeat + 1 \in Nat
    BY HereTyped DEF LiveScope, Scope
  <2>. QED  BY <2>1, HereTyped
<1>. HIDE DEF list, s
<1>5. scopes' \in Seq(LiveScope(copy, nlink)) /\ Len(scopes') = copy
  BY <1>1, <1>4, CopyTyped
<1>6. u \in Seq(LiveContext(Len(qctxs))) /\ Len(u) = Len(qctxs)
  BY <1>2, ExpsetTyped
<1>. HIDE DEF u
<1>7. qctxs' \in Seq(LiveContext(Len(qctxs) + 1)) /\ Len(qctxs') = Len(qctxs) + 1
  <2>1. f.qc \in 0 .. Len(qctxs)
    BY <1>2
  <2>. QED  BY <1>1, <1>3, <1>6, <2>1, AddContextTyped
<1>8. h \in LiveFrame(Len(scopes'), Len(qctxs'))
  <2>1. qctxs[f.qc].expset \in Seq(Goal)
    BY <1>2, ContextAt
  <2>2. /\ Len(scopes') \in Nat /\ Len(qctxs') \in Nat
        /\ Len(scopes) <= Len(scopes') /\ Len(qctxs) <= Len(qctxs')
    BY <1>2, <1>5, <1>7
  <2>. QED  BY <1>1, <2>1, <2>2, ChoiceMoves
<1>9. Start(list, copy) \in LiveFrame(Len(scopes'), Len(qctxs'))
  BY <1>2, <1>3, <1>5, <1>7, StartLive
<1>. HIDE DEF f, h
<1>10. stack' \in Seq(Frames')
  BY <1>1, <1>2, <1>5, <1>7, <1>8, <1>9, PushTyped DEF env
<1>11. /\ qctx' \in 0 .. Len(qctxs') /\ scope' \in 1 .. Len(scopes')
       /\ scopes' \in Seq(LiveScope(Len(scopes'), nlink'))
       /\ qctxs' \in Seq(LiveContext(Len(qctxs')))
  BY <1>1, <1>2, <1>5, <1>7
<1>. QED  BY <1>1, <1>10, <1>11 DEF TypeInv, env

\* Judging the response of an alternative keeps the types.
LEMMA AlternativeReturnsType ==
  ASSUME TypeInv, AlternativeReturns
  PROVE  TypeInv'
<1>. DEFINE h == [Top EXCEPT !.i = @ + 1]
            u == [qctxs EXCEPT ![Top.qc].expset = Top.old]
<1>1. /\ stack # <<>> /\ Top.k = "choice"
      /\ stack' \in {Callers, WithTop(h)} /\ ret' \in {ret, Yield(TRUE), NoResp}
      /\ \/ UNCHANGED <<qctxs, qctx, scope>>
         \/ qctxs' = u /\ scope' = Top.sc /\ qctx' = Top.qc
      /\ UNCHANGED <<scopes, nlink, tracked, cut, depth, doProcess, env>>
  BY DEF AlternativeReturns, Answered, Returns, BackTo
<1>2. /\ Top.sc \in 1 .. Len(scopes) /\ Top.qc \in 1 .. Len(qctxs)
      /\ Top.old \in Seq(Goal) /\ Len(scopes) \in Nat /\ Len(qctxs) \in Nat
  BY <1>1, TopChoice
<1>3. u \in Seq(LiveContext(Len(qctxs))) /\ Len(u) = Len(qctxs)
  BY <1>2, ExpsetTyped
<1>4. h \in Frames
  BY <1>1, <1>2, ChoiceMoves DEF Frames
<1>. HIDE DEF h, u
<1>5. stack' \in Seq(Frames)
  BY <1>1, <1>4, TopLive
<1>6. ret' \in Resp
  BY <1>1, ResponsesTyped DEF TypeInv
<1>7. /\ qctxs' \in Seq(LiveContext(Len(qctxs))) /\ Len(qctxs') = Len(qctxs)
      /\ scope' \in 1 .. Len(scopes) /\ qctx' \in 0 .. Len(qctxs)
  <2>1. CASE UNCHANGED <<qctxs, qctx, scope>>
    BY <2>1 DEF TypeInv
  <2>2. CASE qctxs' = u /\ scope' = Top.sc /\ qctx' = Top.qc
    <3>1. qctx' \in 0 .. Len(qctxs)
      BY <1>2, <2>2
    <3>. QED  BY <1>2, <1>3, <2>2, <3>1
  <2>. QED  BY <1>1, <2>1, <2>2
<1>. QED  BY <1>1, <1>5, <1>6, <1>7 DEF TypeInv, Frames, LiveFrame, LiveCall, env

\* Running out of alternatives keeps the types.
LEMMA NoMoreAlternativesType ==
  ASSUME TypeInv, NoMoreAlternatives
  PROVE  TypeInv'
<1>1. stack # <<>>
  BY DEF NoMoreAlternatives, GoesOn
<1>. QED  BY <1>1, ReturnType, ResponsesTyped DEF NoMoreAlternatives

\* An empty set of goals keeps the types.
LEMMA EvalEmptySetType ==
  ASSUME TypeInv, EvalEmptySet
  PROVE  TypeInv'
<1>1. UNCHANGED <<stack, mem, ctl, env>> /\ ret' = Bool(TRUE)
  BY DEF EvalEmptySet
<1>. QED  BY <1>1, ResponsesTyped
          DEF TypeInv, Frames, LiveFrame, LiveCall, mem, ctl, env

\* The list of a set, and the frame that waits for it.
LEMMA SetTyped ==
  ASSUME TypeInv, NEW op \in {"iso", "set"}, EvaluatingSet(op), SetReady
  PROVE  /\ stack # <<>> /\ SetList \in Seq(Goal) /\ qctx \in 1 .. Len(qctxs)
         /\ [qctxs EXCEPT ![qctx].expset = Tail(@)] \in Seq(LiveContext(Len(qctxs)))
         /\ Len([qctxs EXCEPT ![qctx].expset = Tail(@)]) = Len(qctxs)
         /\ \A n, m \in Nat : Len(scopes) <= n /\ Len(qctxs) <= m =>
              [k |-> op, sc |-> scope, qc |-> qctx, old |-> CurrentList,
               dp |-> doProcess] \in LiveFrame(n, m)
<1>1. /\ stack # <<>> /\ CurrentGoal \in Goal /\ CurrentGoal.op = op
      /\ qctx # 0 /\ CurrentList # <<>>
  BY CurrentTyped DEF EvaluatingSet, SetReady
<1>2. SetList \in Seq(Goal)
  <2>1. CurrentGoal.body[1] \in Blocks
    BY <1>1, ElementOfSeq DEF Goal
  <2>. QED  BY <2>1 DEF TypeInv, Program, SetList
<1>3. /\ scope \in 1 .. Len(scopes) /\ qctx \in 1 .. Len(qctxs)
      /\ doProcess \in BOOLEAN /\ Len(scopes) \in Nat /\ Len(qctxs) \in Nat
  BY <1>1, LenProperties DEF TypeInv
<1>4. CurrentList \in Seq(Goal)
  BY <1>3, ContextAt DEF CurrentList
<1>5. Tail(CurrentList) \in Seq(Goal)
  <2>. HIDE DEF Goal
  <2>. QED  BY <1>1, <1>4, HeadTailProperties
<1>6. /\ [qctxs EXCEPT ![qctx].expset = Tail(@)] \in Seq(LiveContext(Len(qctxs)))
      /\ Len([qctxs EXCEPT ![qctx].expset = Tail(@)]) = Len(qctxs)
  <2>. DEFINE t == Tail(CurrentList)
  <2>1. [qctxs EXCEPT ![qctx].expset = Tail(@)] = [qctxs EXCEPT ![qctx].expset = t]
    BY DEF CurrentList
  <2>. HIDE DEF t
  <2>2. /\ [qctxs EXCEPT ![qctx].expset = t] \in Seq(LiveContext(Len(qctxs)))
        /\ Len([qctxs EXCEPT ![qctx].expset = t]) = Len(qctxs)
    BY <1>3, <1>5, ExpsetTyped DEF t
  <2>. QED  BY <2>1, <2>2
<1>7. ASSUME NEW n \in Nat, NEW m \in Nat, Len(scopes) <= n, Len(qctxs) <= m
      PROVE  [k |-> op, sc |-> scope, qc |-> qctx, old |-> CurrentList,
               dp |-> doProcess] \in LiveFrame(n, m)
  <2>. DEFINE f == [k |-> op, sc |-> scope, qc |-> qctx, old |-> CurrentList,
                    dp |-> doProcess]
  <2>1. f \in SetFrame
    BY <1>3, <1>4 DEF SetFrame
  <2>2. f.sc \in 1 .. n /\ f.qc \in 1 .. m
    BY <1>3, <1>7
  <2>. HIDE DEF f
  <2>3. f \in LiveSet(n, m)
    BY <2>1, <2>2 DEF LiveSet
  <2>. QED  BY <2>3 DEF f, LiveFrame
<1>. QED  BY <1>1, <1>2, <1>3, <1>6, <1>7

\* Starting a set of goals keeps the types.
LEMMA EvalSetType ==
  ASSUME TypeInv, EvalSet
  PROVE  TypeInv'
<1>. DEFINE u == [qctxs EXCEPT ![qctx].expset = Tail(@)]
            f == [k |-> "set", sc |-> scope, qc |-> qctx, old |-> CurrentList,
                  dp |-> doProcess]
<1>1. /\ EvaluatingSet("set") /\ SetReady
      /\ qctxs' = Append(u, NewQContext(SetList, qctx)) /\ qctx' = Len(qctxs) + 1
      /\ stack' = stack \o <<f, Start(SetList, scope)>>
      /\ UNCHANGED <<scopes, nlink, tracked, scope, cut, depth, doProcess, ret, env>>
  BY DEF EvalSet
<1>2. /\ scope \in 1 .. Len(scopes) /\ Len(scopes) \in Nat /\ Len(qctxs) \in Nat
  BY LenProperties DEF TypeInv
<1>3. /\ stack # <<>> /\ SetList \in Seq(Goal) /\ qctx \in 1 .. Len(qctxs)
      /\ u \in Seq(LiveContext(Len(qctxs))) /\ Len(u) = Len(qctxs)
      /\ \A n, m \in Nat : Len(scopes) <= n /\ Len(qctxs) <= m => f \in LiveFrame(n, m)
  BY <1>1, SetTyped
<1>. HIDE DEF u, f
<1>4. qctxs' \in Seq(LiveContext(Len(qctxs) + 1)) /\ Len(qctxs') = Len(qctxs) + 1
  <2>1. qctx \in 0 .. Len(qctxs)
    BY <1>2, <1>3
  <2>. QED  BY <1>1, <1>3, <2>1, AddContextTyped
<1>5. /\ Len(scopes') = Len(scopes) /\ Len(qctxs') \in Nat
      /\ Len(qctxs) <= Len(qctxs')
  BY <1>1, <1>2, <1>4
<1>6. f \in LiveFrame(Len(scopes'), Len(qctxs'))
  BY <1>2, <1>3, <1>5
<1>7. Start(SetList, scope) \in LiveFrame(Len(scopes'), Len(qctxs'))
  BY <1>2, <1>3, <1>5, StartLive
<1>8. stack' \in Seq(Frames')
  BY <1>1, <1>2, <1>3, <1>5, <1>6, <1>7, PushTyped DEF env
<1>9. qctx' \in 0 .. Len(qctxs') /\ qctxs' \in Seq(LiveContext(Len(qctxs')))
  BY <1>1, <1>2, <1>4
<1>. QED  BY <1>1, <1>8, <1>9 DEF TypeInv, env

\* Starting an isolated set keeps the types.
LEMMA EvalIsolatedType ==
  ASSUME TypeInv, EvalIsolated
  PROVE  TypeInv'
<1>. DEFINE u == [qctxs EXCEPT ![qctx].expset = Tail(@)]
            f == [k |-> "iso", sc |-> scope, qc |-> qctx, old |-> CurrentList,
                  dp |-> doProcess]
            s == [Here EXCEPT !.next = 0, !.repeat = 0]
            copy == Len(scopes) + 1
<1>1. /\ EvaluatingSet("iso") /\ SetReady
      /\ scopes' = Append(scopes, s) /\ scope' = copy
      /\ qctxs' = Append(u, NewQContext(SetList, 0)) /\ qctx' = Len(qctxs) + 1
      /\ doProcess' = FALSE
      /\ stack' = stack \o <<f, Start(SetList, copy)>>
      /\ UNCHANGED <<nlink, tracked, cut, depth, ret, env>>
  BY DEF EvalIsolated
<1>2. /\ scope \in 1 .. Len(scopes) /\ Len(scopes) \in Nat /\ Len(qctxs) \in Nat
      /\ s \in LiveScope(Len(scopes), nlink)
  BY HereTyped
<1>3. /\ stack # <<>> /\ SetList \in Seq(Goal)
      /\ u \in Seq(LiveContext(Len(qctxs))) /\ Len(u) = Len(qctxs)
      /\ \A n, m \in Nat : Len(scopes) <= n /\ Len(qctxs) <= m => f \in LiveFrame(n, m)
  BY <1>1, SetTyped
<1>. HIDE DEF u, f, s
<1>4. qctxs' \in Seq(LiveContext(Len(qctxs) + 1)) /\ Len(qctxs') = Len(qctxs) + 1
  <2>1. 0 \in 0 .. Len(qctxs)
    BY <1>2
  <2>. QED  BY <1>1, <1>3, <2>1, AddContextTyped
<1>5. scopes' \in Seq(LiveScope(copy, nlink)) /\ Len(scopes') = copy
  BY <1>1, <1>2, CopyTyped
<1>6. /\ Len(scopes') \in Nat /\ Len(qctxs') \in Nat
      /\ Len(scopes) <= Len(scopes') /\ Len(qctxs) <= Len(qctxs')
  BY <1>2, <1>4, <1>5
<1>7. f \in LiveFrame(Len(scopes'), Len(qctxs'))
  BY <1>3, <1>6
<1>8. Start(SetList, copy) \in LiveFrame(Len(scopes'), Len(qctxs'))
  <2>1. copy \in 1 .. Len(scopes')
    BY <1>2, <1>5
  <2>. QED  BY <1>3, <1>6, <2>1, StartLive
<1>9. stack' \in Seq(Frames')
  BY <1>1, <1>3, <1>6, <1>7, <1>8, PushTyped DEF env
<1>10. /\ qctx' \in 0 .. Len(qctxs') /\ scope' \in 1 .. Len(scopes')
       /\ scopes' \in Seq(LiveScope(Len(scopes'), nlink'))
       /\ qctxs' \in Seq(LiveContext(Len(qctxs'))) /\ doProcess' \in BOOLEAN
  <2>1. qctx' = Len(qctxs) + 1 /\ scope' = copy /\ doProcess' = FALSE
        /\ nlink' = nlink
    BY <1>1
  <2>2. doProcess' \in BOOLEAN
    BY <2>1
  <2>3. qctx' \in 0 .. Len(qctxs') /\ scope' \in 1 .. Len(scopes')
    BY <1>2, <1>4, <1>5, <2>1
  <2>. QED  BY <1>4, <1>5, <2>1, <2>2, <2>3
<1>. QED  BY <1>1, <1>9, <1>10 DEF TypeInv, env

\* An activation of kind set or iso is that of a set of goals.
LEMMA TopSet ==
  ASSUME TypeInv, stack # <<>>, Top.k \in {"iso", "set"}
  PROVE  /\ Top.sc \in 1 .. Len(scopes) /\ Top.qc \in 1 .. Len(qctxs)
         /\ Top.qc \in 0 .. Len(qctxs)
         /\ Top.old \in Seq(Goal) /\ Top.dp \in BOOLEAN
<1>1. Top \in LiveSet(Len(scopes), Len(qctxs)) /\ Len(qctxs) \in Nat
  BY TopLive, FrameKinds, LenProperties DEF Frames, TypeInv
<1>. QED  BY <1>1 DEF LiveSet, SetFrame

\* Returning from an isolated set keeps the types.
LEMMA IsolatedReturnsType ==
  ASSUME TypeInv, IsolatedReturns
  PROVE  TypeInv'
<1>1. /\ stack # <<>> /\ Top.k = "iso" /\ stack' = Callers
      /\ ret' = (IF ret.st = "yield" THEN Bool(ret.pl = 1) ELSE ret)
      /\ doProcess' = Top.dp /\ scope' = Top.sc /\ qctx' = Top.qc
      /\ UNCHANGED <<mem, cut, depth, env>>
  BY DEF IsolatedReturns, Answered, Returns, BackTo
<1>2. ret' \in Resp
  <2>1. Bool(ret.pl = 1) \in Resp /\ ret \in Resp
    BY ResponsesTyped DEF Bool, TypeInv
  <2>. QED  BY <1>1, <2>1
<1>3. stack' \in Seq(Frames) /\ doProcess' \in BOOLEAN
      /\ scope' \in 1 .. Len(scopes) /\ qctx' \in 0 .. Len(qctxs)
  BY <1>1, TopLive, TopSet
<1>. QED  BY <1>1, <1>2, <1>3 DEF TypeInv, Frames, LiveFrame, LiveCall, mem, env

\* Returning from a set of goals keeps the types.
LEMMA SetReturnsType ==
  ASSUME TypeInv, SetReturns
  PROVE  TypeInv'
<1>1. /\ stack # <<>> /\ Top.k = "set" /\ stack' = Callers /\ ret' = ret
      /\ qctxs' = [qctxs EXCEPT ![Top.qc].expset = Top.old] /\ qctx' = Top.qc
      /\ UNCHANGED <<scopes, nlink, tracked, scope, cut, depth, doProcess, env>>
  BY DEF SetReturns, Answered, Returns
<1>2. /\ Top.qc \in 1 .. Len(qctxs) /\ Top.qc \in 0 .. Len(qctxs)
      /\ Top.old \in Seq(Goal)
  BY <1>1, TopSet
<1>3. qctxs' \in Seq(LiveContext(Len(qctxs))) /\ Len(qctxs') = Len(qctxs)
  BY <1>1, <1>2, ExpsetTyped
<1>4. stack' \in Seq(Frames)
  BY <1>1, TopLive
<1>. QED  BY <1>1, <1>2, <1>3, <1>4 DEF TypeInv, Frames, LiveFrame, LiveCall, env

-----------------------------------------------------------------------------
(* Type correctness *)

\* The types are inductive: every step of the engine keeps them.
LEMMA StepType ==
  ASSUME TypeInv, [Next]_vars
  PROVE  TypeInv'
<1>1. CASE Immediate
  BY <1>1, EvalAssertType, EvalRenameType, EvalCutType, EvalEqType DEF Immediate
<1>2. CASE LaureStart
  BY <1>2, NextExpressionType, LeaveListType, ContinueType, SolutionType
  DEF LaureStart
<1>3. CASE PredCall
  BY <1>3, EvalCallType, ArgMismatchType, EnterInteriorType, CallCType,
     BodyReturnsType, InstReturnsType, ExhaustedType
  DEF PredCall
<1>4. CASE CallCrashes \/ GoalCrashes
  BY <1>4, CrashType DEF CallCrashes, GoalCrashes
<1>5. CASE Generators
  BY <1>5, EvalUnifyType, EvalIntersectType, EvalQuantType, NextValueType,
     ValueReturnsType, NoMoreValuesType
  DEF Generators
<1>6. CASE Branching
  BY <1>6, EvalImplyType, ImplyReturnsType, EvalChoiceType, NextAlternativeType,
     AlternativeReturnsType, NoMoreAlternativesType, EvalEmptySetType,
     EvalIsolatedType, IsolatedReturnsType, EvalSetType, SetReturnsType
  DEF Branching
<1>7. CASE UNCHANGED vars
  BY <1>7 DEF vars, TypeInv, Frames, LiveFrame, LiveCall
<1>. QED  BY <1>1, <1>2, <1>3, <1>4, <1>5, <1>6, <1>7 DEF Next, Finished

\* Every address that the engine keeps, in a frame, a scope or a qcontext, is
\* the address of an object, and every value has its type, in every reachable
\* state: the pointers that laure_eval_* follow after a NULL check are valid.
THEOREM LiveAddresses == Spec => []TypeInv
<1>1. Init => TypeInv
  BY InitType
<1>2. TypeInv /\ [Next]_vars => TypeInv'
  BY StepType
<1>. QED  BY <1>1, <1>2, PTL DEF Spec

\* The inductive invariant implies TypeOK.
LEMMA TypeInvImplies ==
  ASSUME TypeInv
  PROVE  TypeOK
<1>1. LiveFrame(Len(scopes), Len(qctxs)) \subseteq Frame
  BY DEF LiveFrame, LiveStart, LiveCall, LiveGen, LiveImply, LiveChoice, LiveSet, Frame
<1>2. LiveScope(Len(scopes), nlink) \subseteq Scope
      /\ LiveContext(Len(qctxs)) \subseteq QContext
  BY DEF LiveScope, LiveContext
<1>3. stack \in Seq(Frame)
  BY <1>1, SeqOfMore DEF TypeInv, Frames
<1>4. scopes \in Seq(Scope) /\ qctxs \in Seq(QContext)
  BY <1>2, SeqOfMore DEF TypeInv
<1>. QED  BY <1>3, <1>4 DEF TypeInv, TypeOK, Given

\* The variables of the engine keep their types, whatever the program.
THEOREM TypeCorrect == Spec => []TypeOK
<1>1. TypeInv => TypeOK
  BY TypeInvImplies
<1>. QED  BY <1>1, LiveAddresses, PTL

-----------------------------------------------------------------------------
(* What a step does to the stack: the activations that count for the       *)
(* recursion counter (calls) and for do_process (muting ones) come and go  *)
(* one at a time, each with its change of the counter or of the flag.      *)

Muting(f) == f.k = "iso" \/ (f.k = "gen" /\ Quantifier(f))
Plain(f) == f.k # "call" /\ ~Muting(f)
\* a is b, further on: what counts is the same.
Like(a, b) == /\ (a.k = "call") <=> (b.k = "call")
              /\ a.k = "call" => a.d = b.d
              /\ Muting(a) <=> Muting(b)
              /\ Muting(a) => (a.dp <=> b.dp)

Stays == /\ Len(stack') = Len(stack)
         /\ \A j \in 1 .. Len(stack) : Like(stack'[j], stack[j])
Pops == /\ stack # <<>> /\ Len(stack') = Len(stack) - 1
        /\ \A j \in 1 .. Len(stack) - 1 : stack'[j] = stack[j]
Pushes(m) == /\ stack # <<>> /\ Len(stack') = Len(stack) + m
             /\ \A j \in 1 .. Len(stack) : Like(stack'[j], stack[j])
New == stack'[Len(stack) + 1]

Moves ==
  \/ Stays /\ UNCHANGED <<depth, doProcess>>
  \/ Pops /\ Plain(Top) /\ UNCHANGED <<depth, doProcess>>
  \/ Pops /\ Top.k = "call" /\ depth' \in {depth, depth - 1} /\ UNCHANGED doProcess
  \/ Pops /\ Muting(Top) /\ doProcess' = Top.dp /\ UNCHANGED depth
  \/ Pushes(1) /\ Plain(New) /\ UNCHANGED <<depth, doProcess>>
  \/ /\ Pushes(1) /\ New.k = "call" /\ New.d = depth
     /\ depth < MaxDepth /\ depth' = depth + 1 /\ UNCHANGED doProcess
  \/ /\ Pushes(1) /\ Muting(New) /\ (New.dp <=> doProcess)
     /\ doProcess' = FALSE /\ UNCHANGED depth
  \/ /\ Pushes(2) /\ Plain(New) /\ Plain(stack'[Len(stack) + 2])
     /\ UNCHANGED <<depth, doProcess>>
  \/ /\ Pushes(2) /\ Muting(New) /\ Plain(stack'[Len(stack) + 2])
     /\ (New.dp <=> doProcess) /\ doProcess' = FALSE /\ UNCHANGED depth
  \/ stack' = <<>> /\ UNCHANGED depth

\* The shapes that the actions give to the stack, index by index.
LEMMA PopShape ==
  ASSUME TypeInv, stack # <<>>
  PROVE  /\ Len(stack) \in Nat \ {0} /\ Top = stack[Len(stack)]
         /\ Len(Callers) = Len(stack) - 1
         /\ \A j \in 1 .. Len(stack) - 1 : Callers[j] = stack[j]
<1>1. stack \in Seq(Frames)
  BY DEF TypeInv
<1>. QED  BY <1>1, FrontTyped, EmptySeq, LenProperties DEF Callers, Top

\* Replacing the innermost activation.
LEMMA TopShape ==
  ASSUME TypeInv, stack # <<>>, NEW h
  PROVE  /\ Len(WithTop(h)) = Len(stack)
         /\ \A j \in 1 .. Len(stack) :
              WithTop(h)[j] = IF j = Len(stack) THEN h ELSE stack[j]
         /\ WithTop(h) \in Seq(Frames \cup {h})
<1>. DEFINE S == Frames \cup {h}
<1>1. stack \in Seq(S) /\ h \in S /\ Len(stack) \in 1 .. Len(stack)
  BY SeqOfMore, PopShape DEF TypeInv
<1>. HIDE DEF S
<1>2. /\ WithTop(h) \in Seq(S) /\ Len(WithTop(h)) = Len(stack)
      /\ \A j \in 1 .. Len(stack) :
           WithTop(h)[j] = IF j = Len(stack) THEN h ELSE stack[j]
  BY <1>1, UpdateTyped DEF WithTop
<1>. QED  BY <1>2 DEF S

\* Starting one activation.
LEMMA PushShape ==
  ASSUME TypeInv, NEW e
  PROVE  /\ Len(Append(stack, e)) = Len(stack) + 1
         /\ \A j \in 1 .. Len(stack) : Append(stack, e)[j] = stack[j]
         /\ Append(stack, e)[Len(stack) + 1] = e
<1>. DEFINE S == Frames \cup {e}
<1>1. stack \in Seq(S) /\ e \in S
  BY SeqOfMore DEF TypeInv
<1>. HIDE DEF S
<1>. QED  BY <1>1, AppendTyped

\* Replacing the innermost activation and starting one.
LEMMA TopPushShape ==
  ASSUME TypeInv, stack # <<>>, NEW h, NEW e
  PROVE  /\ Len(Append(WithTop(h), e)) = Len(stack) + 1
         /\ \A j \in 1 .. Len(stack) :
              Append(WithTop(h), e)[j] = IF j = Len(stack) THEN h ELSE stack[j]
         /\ Append(WithTop(h), e)[Len(stack) + 1] = e
<1>. DEFINE S == (Frames \cup {h}) \cup {e}
            w == WithTop(h)
<1>1. w \in Seq(S) /\ e \in S
  <2>. DEFINE R == Frames \cup {h}
  <2>1. w \in Seq(R)
    BY TopShape
  <2>2. R \subseteq S /\ e \in S
    OBVIOUS
  <2>. HIDE DEF R, S, w
  <2>. QED  BY <2>1, <2>2, SeqOfMore
<1>2. /\ Len(w) = Len(stack)
      /\ \A j \in 1 .. Len(stack) : w[j] = IF j = Len(stack) THEN h ELSE stack[j]
  BY TopShape
<1>. HIDE DEF S, w
<1>3. /\ Len(Append(w, e)) = Len(w) + 1
      /\ \A j \in 1 .. Len(w) : Append(w, e)[j] = w[j]
      /\ Append(w, e)[Len(w) + 1] = e
  BY <1>1, AppendTyped
<1>4. /\ Len(Append(w, e)) = Len(stack) + 1
      /\ \A j \in 1 .. Len(stack) :
           Append(w, e)[j] = IF j = Len(stack) THEN h ELSE stack[j]
      /\ Append(w, e)[Len(stack) + 1] = e
  BY <1>2, <1>3
<1>. QED  BY <1>4 DEF w

\* Starting two activations.
LEMMA PairShape ==
  ASSUME TypeInv, NEW h, NEW e
  PROVE  /\ Len(stack \o <<h, e>>) = Len(stack) + 2
         /\ \A j \in 1 .. Len(stack) : (stack \o <<h, e>>)[j] = stack[j]
         /\ (stack \o <<h, e>>)[Len(stack) + 1] = h
         /\ (stack \o <<h, e>>)[Len(stack) + 2] = e
<1>. DEFINE S == Frames \cup {h, e}
<1>1. stack \in Seq(S) /\ h \in S /\ e \in S
  BY SeqOfMore DEF TypeInv
<1>. HIDE DEF S
<1>2. <<h, e>> \in Seq(S) /\ Len(<<h, e>>) = 2 /\ Len(stack) \in Nat
  BY <1>1, PairTyped, LenProperties
<1>. QED  BY <1>1, <1>2, ConcatProperties

\* The same, in terms of the definitions above.
LEMMA ShapesMove ==
  ASSUME TypeInv, stack # <<>>
  PROVE  /\ stack' = stack => Stays
         /\ stack' = Callers => Pops
         /\ \A h : stack' = WithTop(h) /\ Like(h, Top) => Stays
         /\ \A e : stack' = Append(stack, e) => Pushes(1) /\ New = e
         /\ \A h, e : stack' = Append(WithTop(h), e) /\ Like(h, Top)
                        => Pushes(1) /\ New = e
         /\ \A h, e : stack' = stack \o <<h, e>>
                        => Pushes(2) /\ New = h /\ stack'[Len(stack) + 2] = e
<1>1. \A f : Like(f, f)
  BY DEF Like
<1>2. stack' = stack => Stays
  BY <1>1 DEF Stays
<1>3. stack' = Callers => Pops
  BY PopShape DEF Pops
<1>4. ASSUME NEW h, stack' = WithTop(h), Like(h, Top) PROVE Stays
  <2>1. /\ Len(stack') = Len(stack) /\ Top = stack[Len(stack)]
        /\ \A j \in 1 .. Len(stack) :
             stack'[j] = IF j = Len(stack) THEN h ELSE stack[j]
    BY <1>4, PopShape, TopShape
  <2>. QED  BY <1>1, <1>4, <2>1 DEF Stays
<1>5. ASSUME NEW e, stack' = Append(stack, e) PROVE Pushes(1) /\ New = e
  BY <1>1, <1>5, PushShape DEF Pushes, New
<1>6. ASSUME NEW h, NEW e, stack' = Append(WithTop(h), e), Like(h, Top)
      PROVE  Pushes(1) /\ New = e
  <2>1. /\ Len(stack') = Len(stack) + 1 /\ Top = stack[Len(stack)]
        /\ \A j \in 1 .. Len(stack) :
             stack'[j] = IF j = Len(stack) THEN h ELSE stack[j]
        /\ stack'[Len(stack) + 1] = e
    <3>. DEFINE t == Append(WithTop(h), e)
    <3>1. /\ Len(t) = Len(stack) + 1
          /\ \A j \in 1 .. Len(stack) : t[j] = IF j = Len(stack) THEN h ELSE stack[j]
          /\ t[Len(stack) + 1] = e
      BY TopPushShape
    <3>2. stack' = t
      BY <1>6
    <3>. HIDE DEF t
    <3>. QED  BY <3>1, <3>2, PopShape
  <2>. QED  BY <1>1, <1>6, <2>1 DEF Pushes, New
<1>7. ASSUME NEW h, NEW e, stack' = stack \o <<h, e>>
      PROVE  Pushes(2) /\ New = h /\ stack'[Len(stack) + 2] = e
  BY <1>1, <1>7, PairShape DEF Pushes, New
<1>. QED  BY <1>2, <1>3, <1>4, <1>5, <1>6, <1>7

\* A call that goes on to another variation is still the call that was entered.
LEMMA CallLikes ==
  ASSUME NEW f \in CallFrame
  PROVE  /\ \A a, b : Like([f EXCEPT !.ph = a, !.old = b], f)
         /\ \A a, b : Like([f EXCEPT !.ph = a, !.prev = b], f)
         /\ \A a, b, c : Like([f EXCEPT !.ph = a, !.i = b, !.found = c], f)
         /\ \A a : Like([f EXCEPT !.i = a], f)
         /\ Like([f EXCEPT !.committed = TRUE], f)
<1>1. ASSUME NEW h, h.k = f.k, h.d = f.d PROVE Like(h, f)
  BY <1>1 DEF CallFrame, Like, Muting
<1>2. ASSUME NEW a, NEW b PROVE Like([f EXCEPT !.ph = a, !.old = b], f)
  <2>1. /\ [f EXCEPT !.ph = a, !.old = b].k = f.k
        /\ [f EXCEPT !.ph = a, !.old = b].d = f.d
    BY DEF CallFrame
  <2>. QED  BY <1>1, <2>1
<1>3. ASSUME NEW a, NEW b PROVE Like([f EXCEPT !.ph = a, !.prev = b], f)
  <2>1. /\ [f EXCEPT !.ph = a, !.prev = b].k = f.k
        /\ [f EXCEPT !.ph = a, !.prev = b].d = f.d
    BY DEF CallFrame
  <2>. QED  BY <1>1, <2>1
<1>4. ASSUME NEW a, NEW b, NEW c
      PROVE  Like([f EXCEPT !.ph = a, !.i = b, !.found = c], f)
  <2>1. /\ [f EXCEPT !.ph = a, !.i = b, !.found = c].k = f.k
        /\ [f EXCEPT !.ph = a, !.i = b, !.found = c].d = f.d
    BY DEF CallFrame
  <2>. QED  BY <1>1, <2>1
<1>5. ASSUME NEW a PROVE Like([f EXCEPT !.i = a], f)
  <2>1. [f EXCEPT !.i = a].k = f.k /\ [f EXCEPT !.i = a].d = f.d
    BY DEF CallFrame
  <2>. QED  BY <1>1, <2>1
<1>6. Like([f EXCEPT !.committed = TRUE], f)
  <2>1. /\ [f EXCEPT !.committed = TRUE].k = f.k
        /\ [f EXCEPT !.committed = TRUE].d = f.d
    BY DEF CallFrame
  <2>. QED  BY <1>1, <2>1
<1>. QED  BY <1>2, <1>3, <1>4, <1>5, <1>6

\* A generator that goes on to another value restores the same do_process.
LEMMA GenLikes ==
  ASSUME NEW f \in GenFrame
  PROVE  /\ \A a : Like([f EXCEPT !.todo = a], f)
         /\ \A a : Like([f EXCEPT !.found = a], f)
         /\ Like([f EXCEPT !.committed = TRUE], f)
<1>1. ASSUME NEW h, h.k = f.k, h.op = f.op, h.dp = f.dp PROVE Like(h, f)
  BY <1>1 DEF GenFrame, Like, Muting, Quantifier
<1>2. ASSUME NEW a PROVE Like([f EXCEPT !.todo = a], f)
  <2>1. /\ [f EXCEPT !.todo = a].k = f.k /\ [f EXCEPT !.todo = a].op = f.op
        /\ [f EXCEPT !.todo = a].dp = f.dp
    BY DEF GenFrame
  <2>. QED  BY <1>1, <2>1
<1>3. ASSUME NEW a PROVE Like([f EXCEPT !.found = a], f)
  <2>1. /\ [f EXCEPT !.found = a].k = f.k /\ [f EXCEPT !.found = a].op = f.op
        /\ [f EXCEPT !.found = a].dp = f.dp
    BY DEF GenFrame
  <2>. QED  BY <1>1, <2>1
<1>4. Like([f EXCEPT !.committed = TRUE], f)
  <2>1. /\ [f EXCEPT !.committed = TRUE].k = f.k
        /\ [f EXCEPT !.committed = TRUE].op = f.op
        /\ [f EXCEPT !.committed = TRUE].dp = f.dp
    BY DEF GenFrame
  <2>. QED  BY <1>1, <2>1
<1>. QED  BY <1>2, <1>3, <1>4

\* The activations that count neither for the counter nor for do_process.
LEMMA PlainKinds ==
  /\ \A f : f.k \in {"start", "imply", "choice", "set"} => Plain(f)
  /\ \A list, a : Plain(Start(list, a))
  /\ \A f, h : Plain(f) /\ Plain(h) => Like(h, f)
<1>1. \A f : f.k \in {"start", "imply", "choice", "set"} => Plain(f)
  BY DEF Plain, Muting
<1>2. \A list, a : Start(list, a).k = "start"
  BY DEF Start
<1>3. \A f, h : Plain(f) /\ Plain(h) => Like(h, f)
  BY DEF Plain, Like
<1>. QED  BY <1>1, <1>2, <1>3

\* An expression that responds at once starts and ends no activation.
LEMMA ImmediateMoves ==
  ASSUME TypeInv, Immediate \/ EvalEmptySet
  PROVE  Moves
<1>1. stack # <<>> /\ UNCHANGED <<depth, doProcess>>
  BY DEF Immediate, EvalAssert, EvalRename, EvalCut, EvalEq, EvalEmptySet,
         Evaluating, ctl
<1>2. CASE EvalCut
  <2>1. Len(stack) \in Nat
    BY LenProperties DEF TypeInv
  <2>2. /\ Len(stack') = Len(stack)
        /\ \A j \in 1 .. Len(stack) : stack'[j] = Commit(j)
    BY <1>2, <2>1 DEF EvalCut
  <2>3. ASSUME NEW j \in 1 .. Len(stack)
        PROVE  Like(Commit(j), stack[j])
    <3>1. stack[j] \in Frames
      BY ElementOfSeq DEF TypeInv
    <3>2. CASE stack[j].k = "call"
      <4>1. stack[j] \in CallFrame
        BY <3>1, <3>2, FrameKinds DEF Frames, LiveCall
      <4>. QED  BY <3>2, <4>1, CallLikes DEF Commit, Like
    <3>3. CASE stack[j].k = "gen"
      <4>1. stack[j] \in GenFrame
        BY <3>1, <3>3, FrameKinds DEF Frames, LiveGen
      <4>. QED  BY <3>3, <4>1, GenLikes DEF Commit, Like
    <3>4. CASE stack[j].k = "choice"
      <4>1. stack[j] \in ChoiceFrame
        BY <3>1, <3>4, FrameKinds DEF Frames, LiveChoice
      <4>2. [stack[j] EXCEPT !.committed = TRUE].k = "choice"
        BY <4>1 DEF ChoiceFrame
      <4>3. Plain(stack[j]) /\ Plain([stack[j] EXCEPT !.committed = TRUE])
        BY <3>4, <4>2 DEF Plain, Muting
      <4>4. Like([stack[j] EXCEPT !.committed = TRUE], stack[j])
        BY <4>3 DEF Plain, Like
      <4>. QED  BY <4>4 DEF Commit, Like
    <3>5. CASE stack[j].k \notin {"call", "gen", "choice"}
      BY <3>5 DEF Commit, Like
    <3>. QED  BY <3>2, <3>3, <3>4, <3>5
  <2>. QED  BY <1>1, <2>2, <2>3 DEF Moves, Stays
<1>3. CASE ~EvalCut
  <2>1. stack' = stack
    BY <1>3 DEF Immediate, EvalAssert, EvalRename, EvalEq, EvalEmptySet
  <2>. QED  BY <1>1, <2>1, ShapesMove DEF Moves
<1>. QED  BY <1>2, <1>3

\* laure_start goes on, or returns to its caller.
LEMMA LaureStartMoves ==
  ASSUME TypeInv, LaureStart
  PROVE  Moves
<1>1. /\ stack # <<>> /\ Top.k = "start" /\ UNCHANGED <<depth, doProcess>>
      /\ \/ stack' = Callers
         \/ \E list, a : stack' = WithTop(Start(list, a))
         \/ stack' = <<>>
  BY DEF LaureStart, NextExpression, LeaveList, Continue, Silent, Showcast, Send,
         SendScope, Answered, EndOfList, GoesOn, Returns, ctl
<1>2. Plain(Top) /\ \A list, a : Like(Start(list, a), Top)
  BY <1>1, PlainKinds
<1>. QED  BY <1>1, <1>2, ShapesMove DEF Moves

\* The top frame goes on, with or without a plain frame on top of it.
LEMMA TopGoesOn ==
  ASSUME TypeInv, stack # <<>>, NEW h, Like(h, Top), UNCHANGED <<depth, doProcess>>,
         \/ stack' = WithTop(h)
         \/ \E e : Plain(e) /\ stack' = Append(WithTop(h), e)
  PROVE  Moves
<1>1. CASE stack' = WithTop(h)
  BY <1>1, ShapesMove DEF Moves
<1>2. ASSUME NEW e, Plain(e), stack' = Append(WithTop(h), e) PROVE Moves
  <2>1. Pushes(1) /\ New = e
    BY <1>2, ShapesMove
  <2>. QED  BY <1>2, <2>1 DEF Moves
<1>. QED  BY <1>1, <1>2

\* Calls and what they start: only entering one increments the counter.
LEMMA PredCallMoves ==
  ASSUME TypeInv, PredCall \/ CallCrashes \/ GoalCrashes
  PROVE  Moves
<1>1. ASSUME stack # <<>>, Top.k = "call" PROVE Top \in CallFrame
  BY <1>1, TopCall DEF LiveCall
<1>2. CASE EvalCall
  <2>1. stack # <<>> /\ UNCHANGED doProcess
    BY <1>2 DEF EvalCall, Evaluating
  <2>2. CASE stack' = stack /\ depth' = depth
    BY <2>1, <2>2, ShapesMove DEF Moves
  <2>3. CASE /\ ~TooDeep /\ depth' = depth + 1
             /\ \E e : stack' = Append(stack, e) /\ e.k = "call" /\ e.d = depth
    <3>1. Pushes(1) /\ New.k = "call" /\ New.d = depth
      BY <2>1, <2>3, ShapesMove
    <3>2. depth < MaxDepth
      BY <2>3, DepthAssumption DEF TooDeep, TypeInv
    <3>. QED  BY <2>1, <2>3, <3>1, <3>2 DEF Moves
  <2>. QED  BY <1>2, <2>2, <2>3 DEF EvalCall
<1>3. CASE ArgMismatch
  <2>1. stack # <<>> /\ Top.k = "call" /\ stack' = Callers
        /\ UNCHANGED <<depth, doProcess>>
    BY <1>3 DEF ArgMismatch, OnVariation, GoesOn, Returns, ctl
  <2>. QED  BY <2>1, ShapesMove DEF Moves
<1>4. CASE EnterInterior
  <2>. DEFINE h == [Top EXCEPT !.ph = "body", !.old = qctxs[Top.qc].expset]
  <2>1. /\ stack # <<>> /\ Top.k = "call" /\ UNCHANGED <<depth, doProcess>>
        /\ \E list, at : stack' = Append(WithTop(h), Start(list, at))
    BY <1>4 DEF EnterInterior, OnVariation, GoesOn
  <2>2. Like(h, Top)
    BY <1>1, <2>1, CallLikes
  <2>. HIDE DEF h
  <2>. QED  BY <2>1, <2>2, PlainKinds, TopGoesOn
<1>5. CASE CallC
  <2>. DEFINE f == Top
              at == Len(scopes) + 1
              prev == WithArgs(scopes[f.at], f.g.args, PredOf(f), FALSE)
              x == f.g.args[1]
              next == [f EXCEPT !.i = @ + 1]
              entered == [f EXCEPT !.ph = "c", !.old = qctxs[f.qc].expset]
              again == [f EXCEPT !.ph = "inst", !.prev = at]
              gen == [k |-> "gen", op |-> "inst", x |-> x,
                      code |-> <<f.g>> \o f.code, sc |-> at, qc |-> f.qc,
                      at |-> IF prev.cell[x].link # 0 THEN at ELSE 1,
                      todo |-> Seen(prev, x).dom, found |-> FALSE,
                      dp |-> doProcess, committed |-> FALSE]
  <2>1. /\ stack # <<>> /\ Top.k = "call" /\ UNCHANGED <<depth, doProcess>>
        /\ \/ stack' = WithTop(next)
           \/ stack' = Callers
           \/ stack' = Append(WithTop(entered), Start(f.code, at))
           \/ stack' = Append(WithTop(again), gen)
    BY <1>5 DEF CallC, Returns, OnVariation, GoesOn
  <2>2. Plain(gen)
    BY DEF Plain, Muting, Quantifier
  <2>3. Like(next, Top) /\ Like(entered, Top) /\ Like(again, Top)
    BY <1>1, <2>1, CallLikes
  <2>. HIDE DEF f, next, entered, again, gen
  <2>4. CASE stack' = Callers
    BY <2>1, <2>4, ShapesMove DEF Moves
  <2>5. CASE stack' = WithTop(next)
    BY <2>1, <2>3, <2>5, TopGoesOn
  <2>6. CASE stack' = Append(WithTop(entered), Start(f.code, at))
    BY <2>1, <2>3, <2>6, PlainKinds, TopGoesOn
  <2>7. CASE stack' = Append(WithTop(again), gen)
    BY <2>1, <2>2, <2>3, <2>7, TopGoesOn
  <2>. QED  BY <2>1, <2>4, <2>5, <2>6, <2>7
<1>6. CASE BodyReturns \/ ContinuationReturns
  <2>1. stack # <<>> /\ Top.k = "call" /\ Judge(Top, ret) /\ UNCHANGED doProcess
    BY <1>6 DEF BodyReturns, ContinuationReturns, Answered
  <2>2. \/ stack' = Callers /\ depth' \in {depth, depth - 1}
        \/ /\ \E a, b, c : stack' = WithTop([Top EXCEPT !.ph = a, !.i = b, !.found = c])
           /\ depth' = depth
    BY <2>1 DEF Judge, Returns, Over
  <2>. QED  BY <1>1, <2>1, <2>2, CallLikes, ShapesMove DEF Moves
<1>7. CASE InstReturns
  <2>. DEFINE next == [Top EXCEPT !.ph = "next", !.i = @ + 1,
                         !.found = @ \/ ret.pl = 1]
              entered == [Top EXCEPT !.ph = "c", !.old = qctxs[Top.qc].expset]
  <2>1. /\ stack # <<>> /\ Top.k = "call" /\ UNCHANGED <<depth, doProcess>>
        /\ \/ stack' = Callers
           \/ stack' = WithTop(next)
           \/ stack' = Append(WithTop(entered), Start(Top.code, Top.prev))
    BY <1>7 DEF InstReturns, Answered, Returns
  <2>2. Like(entered, Top)
    BY <1>1, <2>1, CallLikes
  <2>3. Like(next, Top)
    <3>. DEFINE c == Top.found \/ ret.pl = 1
    <3>1. next = [Top EXCEPT !.ph = "next", !.i = Top.i + 1, !.found = c]
      BY <1>1, <2>1 DEF CallFrame
    <3>. HIDE DEF c, next
    <3>. QED  BY <1>1, <2>1, <3>1, CallLikes
  <2>. HIDE DEF next, entered
  <2>4. CASE stack' = Callers
    BY <2>1, <2>4, ShapesMove DEF Moves
  <2>5. CASE stack' = WithTop(next)
    BY <2>1, <2>3, <2>5, TopGoesOn
  <2>6. CASE stack' = Append(WithTop(entered), Start(Top.code, Top.prev))
    BY <2>1, <2>2, <2>6, PlainKinds, TopGoesOn
  <2>. QED  BY <2>1, <2>4, <2>5, <2>6
<1>8. CASE Exhausted
  <2>1. stack # <<>> /\ Top.k = "call" /\ stack' = Callers /\ depth' = depth - 1
        /\ UNCHANGED doProcess
    BY <1>8 DEF Exhausted, GoesOn, Over, Returns
  <2>. QED  BY <2>1, ShapesMove DEF Moves
<1>9. CASE CallCrashes \/ GoalCrashes
  BY <1>9 DEF CallCrashes, GoalCrashes, Crash, Moves, ctl
<1>. QED  BY <1>2, <1>3, <1>4, <1>5, <1>6, <1>7, <1>8, <1>9 DEF PredCall

\* Generators: a quantifier saves do_process when it starts and restores it
\* whenever it ends.
LEMMA GeneratorsMove ==
  ASSUME TypeInv, Generators
  PROVE  Moves
<1>1. ASSUME stack # <<>>, Top.k = "gen" PROVE Top \in GenFrame
  BY <1>1, TopGen
<1>2. \A op, x, list, a, todo :
        LET e == Generator(op, x, list, a, todo)
        IN  e.k = "gen" /\ e.op = op /\ e.dp = doProcess
  BY DEF Generator
<1>3. CASE EvalUnify \/ EvalIntersect
  <2>1. /\ stack # <<>> /\ UNCHANGED <<depth, doProcess>>
        /\ \/ stack' = stack
           \/ \E op, x, list, a, todo :
                /\ op \in {"unify", "eq"}
                /\ stack' = Append(stack, Generator(op, x, list, a, todo))
    <3>1. /\ stack # <<>> /\ UNCHANGED <<depth, doProcess>>
          /\ "unify" \in {"unify", "eq"} /\ "eq" \in {"unify", "eq"}
      BY <1>3 DEF EvalUnify, EvalIntersect, Evaluating, ctl
    <3>2. CASE EvalUnify
      BY <3>1, <3>2 DEF EvalUnify
    <3>3. CASE EvalIntersect
      <4>. DEFINE x == CurrentGoal.x
                  y == CurrentGoal.args[1]
                  both == scopes[Find(x)].cell[x].dom \cap scopes[Find(y)].cell[y].dom
      <4>1. \/ stack' = stack
            \/ stack' = Append(stack, Generator("eq", x, Rest, Find(x), both))
        BY <3>3 DEF EvalIntersect
      <4>. HIDE DEF x, both
      <4>. QED  BY <3>1, <4>1
    <3>. QED  BY <1>3, <3>2, <3>3
  <2>2. ASSUME NEW op \in {"unify", "eq"}, NEW x, NEW list, NEW a, NEW todo,
               stack' = Append(stack, Generator(op, x, list, a, todo))
        PROVE  Moves
    <3>1. Pushes(1) /\ New = Generator(op, x, list, a, todo)
      BY <2>1, <2>2, ShapesMove
    <3>2. Plain(New)
      BY <1>2, <3>1 DEF Plain, Muting, Quantifier
    <3>. QED  BY <2>1, <3>1, <3>2 DEF Moves
  <2>3. CASE stack' = stack
    <3>1. Stays
      BY <2>1, <2>3, ShapesMove
    <3>. QED  BY <2>1, <3>1 DEF Moves
  <2>. QED  BY <2>1, <2>2, <2>3
<1>4. CASE EvalQuant
  <2>1. /\ stack # <<>> /\ UNCHANGED depth
        /\ \/ stack' = stack /\ UNCHANGED doProcess
           \/ \E op, x, list, a, todo :
                /\ op \in {"all", "exists"} /\ doProcess' = FALSE
                /\ stack' = Append(stack, Generator(op, x, list, a, todo))
    BY <1>4 DEF EvalQuant, Evaluating
  <2>2. ASSUME NEW op \in {"all", "exists"}, NEW x, NEW list, NEW a, NEW todo,
               doProcess' = FALSE,
               stack' = Append(stack, Generator(op, x, list, a, todo))
        PROVE  Moves
    <3>1. Pushes(1) /\ New = Generator(op, x, list, a, todo)
      BY <2>1, <2>2, ShapesMove
    <3>2. Muting(New) /\ New.dp = doProcess
      BY <1>2, <3>1 DEF Muting, Quantifier
    <3>. QED  BY <2>1, <2>2, <3>1, <3>2 DEF Moves
  <2>. QED  BY <2>1, <2>2, ShapesMove DEF Moves
<1>5. CASE NextValue
  <2>1. PICK v \in Top.todo : \E list, a :
          stack' = Append(WithTop([Top EXCEPT !.todo = @ \ {v}]), Start(list, a))
    BY <1>5 DEF NextValue
  <2>2. stack # <<>> /\ Top.k = "gen" /\ UNCHANGED <<depth, doProcess>>
    BY <1>5 DEF NextValue, GoesOn
  <2>. DEFINE h == [Top EXCEPT !.todo = @ \ {v}]
  <2>3. Like(h, Top)
    BY <1>1, <2>2, GenLikes
  <2>. HIDE DEF h
  <2>. QED  BY <2>1, <2>2, <2>3, PlainKinds, TopGoesOn DEF h
<1>6. ASSUME stack # <<>>, Top.k = "gen", NEW gr, NEW flag, GenEnds(Top, gr, flag),
             UNCHANGED depth
      PROVE  Moves
  <2>1. Pops
    BY <1>6, ShapesMove DEF GenEnds, Returns
  <2>2. CASE Quantifier(Top)
    BY <1>6, <2>1, <2>2 DEF GenEnds, Moves, Muting
  <2>3. CASE ~Quantifier(Top)
    BY <1>6, <2>1, <2>3 DEF GenEnds, Moves, Muting, Plain
  <2>. QED  BY <2>2, <2>3
<1>7. CASE ValueReturns
  <2>. DEFINE flag == Top.found \/ Process(Top.op, ret).flag
              h == [Top EXCEPT !.found = flag]
  <2>1. /\ stack # <<>> /\ Top.k = "gen" /\ UNCHANGED depth
        /\ \/ stack' = WithTop(h) /\ UNCHANGED doProcess
           \/ GenEnds(Top, Process(Top.op, ret), flag)
    BY <1>7 DEF ValueReturns, Answered
  <2>. HIDE DEF flag
  <2>2. Like(h, Top)
    BY <1>1, <2>1, GenLikes
  <2>. HIDE DEF h
  <2>. QED  BY <1>6, <2>1, <2>2, TopGoesOn
<1>8. CASE NoMoreValues
  BY <1>6, <1>8 DEF NoMoreValues, GoesOn
<1>. QED  BY <1>3, <1>4, <1>5, <1>7, <1>8 DEF Generators

\* Implications, choices and sets: an isolated set saves and restores do_process.
LEMMA BranchingMoves ==
  ASSUME TypeInv, Branching
  PROVE  Moves
<1>. DEFINE Two(h) == \E list, a : stack' = stack \o <<h, Start(list, a)>>
<1>10. ASSUME stack # <<>>, UNCHANGED <<depth, doProcess>>,
              NEW h, h.k \in {"imply", "set"}, Two(h)
       PROVE  Moves
  <2>1. PICK list, a : stack' = stack \o <<h, Start(list, a)>>
    BY <1>10
  <2>2. /\ Pushes(2) /\ New = h /\ stack'[Len(stack) + 2] = Start(list, a)
    BY <1>10, <2>1, ShapesMove
  <2>3. Plain(New) /\ Plain(stack'[Len(stack) + 2])
    BY <1>10, <2>2, PlainKinds
  <2>. QED  BY <1>10, <2>2, <2>3 DEF Moves
<1>1. CASE EvalImply \/ EvalSet
  <2>1. stack # <<>> /\ UNCHANGED <<depth, doProcess>>
    BY <1>1 DEF EvalImply, EvalSet, EvaluatingSet, Evaluating
  <2>2. CASE EvalImply
    <3>. DEFINE h == [k |-> "imply", sc |-> scope, qc |-> qctx,
                      old |-> CurrentList, at |-> Len(qctxs) + 3]
    <3>1. Two(h)
      BY <2>2 DEF EvalImply
    <3>2. h.k \in {"imply", "set"}
      OBVIOUS
    <3>. HIDE DEF h, Two
    <3>. QED  BY <1>10, <2>1, <3>1, <3>2
  <2>3. CASE EvalSet
    <3>. DEFINE h == [k |-> "set", sc |-> scope, qc |-> qctx,
                      old |-> CurrentList, dp |-> doProcess]
    <3>1. Two(h)
      BY <2>3 DEF EvalSet
    <3>2. h.k \in {"imply", "set"}
      OBVIOUS
    <3>. HIDE DEF h, Two
    <3>. QED  BY <1>10, <2>1, <3>1, <3>2
  <2>. QED  BY <1>1, <2>2, <2>3
<1>2. CASE EvalIsolated
  <2>1. /\ stack # <<>> /\ UNCHANGED depth /\ doProcess' = FALSE
        /\ \E h, list, a : /\ h.k = "iso" /\ h.dp = doProcess
                           /\ stack' = stack \o <<h, Start(list, a)>>
    BY <1>2 DEF EvalIsolated, EvaluatingSet, Evaluating
  <2>2. PICK h, list, a : /\ h.k = "iso" /\ h.dp = doProcess
                          /\ stack' = stack \o <<h, Start(list, a)>>
    BY <2>1
  <2>3. /\ Pushes(2) /\ New = h /\ stack'[Len(stack) + 2] = Start(list, a)
    BY <2>1, <2>2, ShapesMove
  <2>4. Muting(New) /\ New.dp = doProcess /\ Plain(stack'[Len(stack) + 2])
    BY <2>2, <2>3, PlainKinds DEF Muting
  <2>. QED  BY <2>1, <2>3, <2>4 DEF Moves
<1>3. CASE IsolatedReturns
  <2>1. stack # <<>> /\ Top.k = "iso" /\ stack' = Callers /\ doProcess' = Top.dp
        /\ UNCHANGED depth
    BY <1>3 DEF IsolatedReturns, Answered, Returns
  <2>. QED  BY <2>1, ShapesMove DEF Moves, Muting
<1>4. CASE EvalChoice
  <2>1. /\ stack # <<>> /\ UNCHANGED <<depth, doProcess>>
        /\ \E e : e.k = "choice" /\ stack' = Append(stack, e)
    BY <1>4 DEF EvalChoice, Evaluating, ctl
  <2>2. PICK e : e.k = "choice" /\ stack' = Append(stack, e)
    BY <2>1
  <2>3. Pushes(1) /\ Plain(New)
    BY <2>1, <2>2, ShapesMove, PlainKinds
  <2>. QED  BY <2>1, <2>3 DEF Moves
<1>5. ASSUME stack # <<>>, Top.k = "choice" PROVE Top \in ChoiceFrame
  BY <1>5, TopChoice
<1>6. CASE NextAlternative
  <2>. DEFINE h == [Top EXCEPT !.old = qctxs[Top.qc].expset]
  <2>1. /\ stack # <<>> /\ Top.k = "choice" /\ UNCHANGED <<depth, doProcess>>
        /\ \E list, a : stack' = Append(WithTop(h), Start(list, a))
    BY <1>6 DEF NextAlternative, GoesOn
  <2>2. h.k = "choice"
    BY <1>5, <2>1 DEF ChoiceFrame
  <2>. HIDE DEF h
  <2>3. Like(h, Top)
    BY <2>1, <2>2, PlainKinds
  <2>. QED  BY <2>1, <2>3, PlainKinds, TopGoesOn
<1>7. CASE AlternativeReturns
  <2>. DEFINE h == [Top EXCEPT !.i = @ + 1]
  <2>1. /\ stack # <<>> /\ Top.k = "choice" /\ UNCHANGED <<depth, doProcess>>
        /\ stack' = Callers \/ stack' = WithTop(h)
    BY <1>7 DEF AlternativeReturns, Answered, Returns
  <2>2. h.k = "choice"
    BY <1>5, <2>1 DEF ChoiceFrame
  <2>. HIDE DEF h
  <2>3. Like(h, Top) /\ Plain(Top)
    BY <2>1, <2>2, PlainKinds
  <2>. QED  BY <2>1, <2>3, TopGoesOn, ShapesMove DEF Moves
<1>8. CASE ImplyReturns \/ NoMoreAlternatives \/ SetReturns
  <2>1. /\ stack # <<>> /\ Top.k \in {"imply", "choice", "set"} /\ stack' = Callers
        /\ UNCHANGED <<depth, doProcess>>
    BY <1>8 DEF ImplyReturns, NoMoreAlternatives, SetReturns, Answered, GoesOn,
                Returns, ctl
  <2>2. Plain(Top)
    BY <2>1, PlainKinds
  <2>. QED  BY <2>1, <2>2, ShapesMove DEF Moves
<1>9. CASE EvalEmptySet
  BY <1>9, ImmediateMoves
<1>. QED  BY <1>1, <1>2, <1>3, <1>4, <1>6, <1>7, <1>8, <1>9 DEF Branching

\* Every step of the engine is one of the moves.
LEMMA StepMoves ==
  ASSUME TypeInv, [Next]_vars
  PROVE  Moves
<1>1. CASE UNCHANGED vars
  BY <1>1 DEF vars, Moves, Stays, Like
<1>. QED  BY <1>1, ImmediateMoves, LaureStartMoves, PredCallMoves, GeneratorsMove,
             BranchingMoves
          DEF Next, Finished

-----------------------------------------------------------------------------
(* The recursion counter *)

\* DepthBounds with the lower bound that makes it inductive: a return may
\* decrement the counter only because the call was entered at 0 or above.
DepthInv ==
  /\ depth \in 0 .. MaxDepth
  /\ \A j \in Calls : stack[j].d \in 0 .. depth - 1
  /\ \A i, j \in Calls : i < j => stack[i].d < stack[j].d

\* The calls in progress are some that were in progress: the same bounds hold.
LEMMA FewerCalls ==
  ASSUME DepthInv, depth' \in 0 .. MaxDepth,
         \A j \in Calls' : /\ j \in Calls /\ stack'[j].d = stack[j].d
                           /\ stack[j].d \in 0 .. depth' - 1
  PROVE  DepthInv'
BY DEF DepthInv

\* The bounds of the recursion counter survive every move.
LEMMA StepDepth ==
  ASSUME TypeInv, DepthInv, Moves
  PROVE  DepthInv'
<1>1. /\ Len(stack) \in Nat /\ depth \in Int /\ depth \in 0 .. MaxDepth
      /\ MaxDepth \in Nat
  BY LenProperties, DepthAssumption DEF TypeInv, DepthInv
<1>2. \A j \in Calls : stack[j].d \in 0 .. depth - 1
  BY DEF DepthInv
<1>3. CASE Stays /\ UNCHANGED depth
  <2>1. \A j \in Calls' : j \in Calls /\ stack'[j].d = stack[j].d
    BY <1>3 DEF Calls, Stays, Like
  <2>. QED  BY <1>1, <1>2, <1>3, <2>1, FewerCalls
<1>4. CASE Pops /\ UNCHANGED depth
  <2>1. \A j \in Calls' : j \in Calls /\ stack'[j].d = stack[j].d
    BY <1>1, <1>4 DEF Calls, Pops
  <2>. QED  BY <1>1, <1>2, <1>4, <2>1, FewerCalls
<1>5. CASE Pops /\ Top.k = "call" /\ depth' = depth - 1
  <2>1. Len(stack) \in Calls /\ Len(stack) >= 1
    BY <1>1, <1>5, PopShape DEF Calls, Pops
  <2>2. \A j \in Calls' : /\ j \in Calls /\ stack'[j].d = stack[j].d
                          /\ j < Len(stack)
    BY <1>1, <1>5 DEF Calls, Pops
  <2>3. /\ stack[Len(stack)].d \in 0 .. depth - 1
        /\ \A j \in Calls : j < Len(stack) => stack[j].d < stack[Len(stack)].d
    BY <2>1 DEF DepthInv
  <2>4. \A j \in Calls' : stack[j].d \in 0 .. depth' - 1
    BY <1>1, <1>2, <1>5, <2>2, <2>3
  <2>5. depth' \in 0 .. MaxDepth
    BY <1>1, <1>5, <2>3
  <2>. QED  BY <2>2, <2>4, <2>5, FewerCalls
<1>6. CASE Pushes(1) /\ New.k # "call" /\ UNCHANGED depth
  <2>1. \A j \in Calls' : j \in Calls /\ stack'[j].d = stack[j].d
    BY <1>1, <1>6 DEF Calls, Pushes, New, Like
  <2>. QED  BY <1>1, <1>2, <1>6, <2>1, FewerCalls
<1>7. CASE /\ Pushes(2) /\ New.k # "call" /\ stack'[Len(stack) + 2].k # "call"
           /\ UNCHANGED depth
  <2>1. \A j \in Calls' : j \in Calls /\ stack'[j].d = stack[j].d
    BY <1>1, <1>7 DEF Calls, Pushes, New, Like
  <2>. QED  BY <1>1, <1>2, <1>7, <2>1, FewerCalls
<1>8. CASE /\ Pushes(1) /\ New.k = "call" /\ New.d = depth
           /\ depth < MaxDepth /\ depth' = depth + 1
  <2>1. \A j \in Calls' : \/ j \in Calls /\ stack'[j].d = stack[j].d
                          \/ j = Len(stack) + 1 /\ stack'[j].d = depth
    BY <1>1, <1>8 DEF Calls, Pushes, New, Like
  <2>2. depth' \in 0 .. MaxDepth
    BY <1>1, <1>8
  <2>3. \A j \in Calls' : stack'[j].d \in 0 .. depth' - 1
    BY <1>1, <1>2, <1>8, <2>1
  <2>4. ASSUME NEW i \in Calls', NEW j \in Calls', i < j
        PROVE  stack'[i].d < stack'[j].d
    <3>1. i \in Calls /\ stack'[i].d = stack[i].d
      <4>1. i # Len(stack) + 1
        BY <1>1, <1>8, <2>4 DEF Calls, Pushes
      <4>. QED  BY <2>1, <4>1
    <3>2. CASE j \in Calls /\ stack'[j].d = stack[j].d
      BY <2>4, <3>1, <3>2 DEF DepthInv
    <3>3. CASE j = Len(stack) + 1 /\ stack'[j].d = depth
      BY <1>1, <1>2, <3>1, <3>3
    <3>. QED  BY <2>1, <3>2, <3>3
  <2>. QED  BY <2>2, <2>3, <2>4 DEF DepthInv
<1>9. CASE stack' = <<>> /\ UNCHANGED depth
  <2>1. Calls' = {}
    BY <1>9, EmptySeq DEF Calls
  <2>. QED  BY <1>1, <1>9, <2>1, FewerCalls
<1>. QED  BY <1>3, <1>4, <1>5, <1>6, <1>7, <1>8, <1>9 DEF Moves, Plain, Muting

\* cctx->recursion_depth is between 0 and max_recursion_depth and above the
\* depth of every call in progress, for every program and every limit: it is a
\* bound for the C stack although some returns of laure_eval_pred_call skip
\* the decrement.
THEOREM DepthBounded == Spec => []DepthBounds
<1>1. Init => DepthInv
  <2>. SUFFICES ASSUME Init PROVE DepthInv
    OBVIOUS
  <2>1. Calls = {}
    BY DEF Init, Calls, Start
  <2>. QED  BY <2>1, DepthAssumption DEF Init, DepthInv
<1>2. TypeInv /\ DepthInv /\ [Next]_vars => DepthInv'
  BY StepMoves, StepDepth
<1>3. TypeInv /\ DepthInv => DepthBounds
  <2>. SUFFICES ASSUME TypeInv, DepthInv PROVE DepthBounds
    OBVIOUS
  <2>1. \A j \in Calls : stack[j].d < depth
    BY DEF DepthInv, TypeInv
  <2>. QED  BY <2>1 DEF DepthInv, DepthBounds
<1>. QED  BY <1>1, <1>2, <1>3, LiveAddresses, PTL DEF Spec

-----------------------------------------------------------------------------
(* do_process *)

\* Nothing below position j mutes the answers.
Open(j) == ~\E i \in 1 .. Len(stack) : i < j /\ Muting(stack[i])

\* Quiet, and that every muting activation saved the flag as it has to be
\* when it is gone.
QuietInv ==
  /\ stack # <<>> => (doProcess <=> Open(Len(stack) + 1))
  /\ \A j \in 1 .. Len(stack) : Muting(stack[j]) => (stack[j].dp <=> Open(j))

\* The value saved by the outermost muting activation is TRUE: QuietInv implies
\* Quiet.
LEMMA QuietInvImplies ==
  ASSUME TypeInv, QuietInv
  PROVE  Quiet
<1>1. Len(stack) \in Nat
  BY LenProperties DEF TypeInv
<1>2. Open(Len(stack) + 1) <=> ~Muted
  BY <1>1 DEF Open, Muted, Muting
<1>. QED  BY <1>2 DEF QuietInv, Quiet, Running

\* A muting activation of the new stack is one of the old stack, and the other
\* way round up to position n: the same positions are open.
LEMMA OpenSame ==
  ASSUME NEW n \in Nat, n <= Len(stack), n <= Len(stack'),
         Len(stack) \in Nat, Len(stack') \in Nat,
         \A i \in 1 .. n : Muting(stack'[i]) <=> Muting(stack[i])
  PROVE  \A j \in 1 .. n + 1 : Open(j)' <=> Open(j)
BY DEF Open

\* QuietInv survives every move.
LEMMA StepQuiet ==
  ASSUME TypeInv, QuietInv, Moves
  PROVE  QuietInv'
<1>1. PICK n \in Nat : n = Len(stack) /\ (stack # <<>> => n >= 1)
  BY EmptySeq, LenProperties DEF TypeInv
<1>. DEFINE Kept(m) == \A i \in 1 .. m :
                         /\ Muting(stack'[i]) <=> Muting(stack[i])
                         /\ Muting(stack[i]) => (stack'[i].dp <=> stack[i].dp)
            Same(m) == /\ \A j \in 1 .. m + 1 : Open(j)' <=> Open(j)
                       /\ \A j \in 1 .. m : Muting(stack'[j])
                                              => (stack'[j].dp <=> Open(j)')
<1>2. /\ stack # <<>> => (doProcess <=> Open(n + 1))
      /\ \A j \in 1 .. n : Muting(stack[j]) => (stack[j].dp <=> Open(j))
  BY <1>1 DEF QuietInv
<1>3. ASSUME NEW m \in Nat, m <= n, m <= Len(stack'), Len(stack') \in Nat, Kept(m)
      PROVE  Same(m)
  <2>1. \A j \in 1 .. m + 1 : Open(j)' <=> Open(j)
    BY <1>1, <1>3, OpenSame
  <2>2. ASSUME NEW j \in 1 .. m, Muting(stack'[j])
        PROVE  stack'[j].dp <=> Open(j)'
    <3>1. j \in 1 .. n /\ Muting(stack[j]) /\ (stack'[j].dp <=> stack[j].dp)
      BY <1>1, <1>3, <2>2
    <3>2. stack[j].dp <=> Open(j)
      BY <1>2, <3>1
    <3>3. Open(j)' <=> Open(j)
      BY <1>3, <2>1
    <3>. QED  BY <3>1, <3>2, <3>3
  <2>. QED  BY <2>1, <2>2
<1>4. Stays => Same(n) /\ Len(stack') = n
  <2>. SUFFICES ASSUME Stays PROVE Same(n) /\ Len(stack') = n
    OBVIOUS
  <2>1. Kept(n) /\ Len(stack') = n
    BY <1>1 DEF Stays, Like
  <2>. HIDE DEF Kept, Same
  <2>. QED  BY <1>1, <1>3, <2>1
<1>5. ASSUME NEW k \in {1, 2}, Pushes(k)
      PROVE  Same(n) /\ Len(stack') = n + k /\ stack # <<>>
  <2>1. Kept(n) /\ Len(stack') = n + k /\ stack # <<>>
    BY <1>1, <1>5 DEF Pushes, Like
  <2>. HIDE DEF Kept, Same
  <2>. QED  BY <1>1, <1>3, <2>1
<1>6. Pops => /\ Same(n - 1) /\ Len(stack') = n - 1 /\ stack # <<>>
              /\ n \in 1 .. n /\ n - 1 \in Nat
  <2>. SUFFICES ASSUME Pops
                PROVE  /\ Same(n - 1) /\ Len(stack') = n - 1 /\ stack # <<>>
                       /\ n \in 1 .. n /\ n - 1 \in Nat
    OBVIOUS
  <2>1. Kept(n - 1) /\ Len(stack') = n - 1 /\ stack # <<>>
    BY <1>1 DEF Pops
  <2>2. n - 1 \in Nat /\ n - 1 <= n /\ n \in 1 .. n
    BY <1>1, <2>1
  <2>. HIDE DEF Kept, Same
  <2>. QED  BY <1>1, <1>3, <2>1, <2>2
<1>7. CASE Stays /\ UNCHANGED doProcess
  <2>1. stack' # <<>> => stack # <<>>
    BY <1>1, <1>4, <1>7, EmptySeq DEF TypeInv
  <2>2. Open(n + 1)' <=> Open(n + 1)
    <3>1. n + 1 \in 1 .. n + 1
      BY <1>1
    <3>. QED  BY <1>4, <1>7, <3>1
  <2>. QED  BY <1>2, <1>4, <1>7, <2>1, <2>2 DEF QuietInv
<1>8. CASE /\ Pops
           /\ \/ ~Muting(Top) /\ UNCHANGED doProcess
              \/ Muting(Top) /\ doProcess' = Top.dp
  <2>1. Open(n)' <=> Open(n)
    <3>1. n \in 1 .. n - 1 + 1
      BY <1>6, <1>8
    <3>. QED  BY <1>6, <1>8, <3>1
  <2>2. /\ n - 1 + 1 = n /\ Top = stack[n]
        /\ \A j \in 1 .. n - 1 : Muting(stack'[j]) => (stack'[j].dp <=> Open(j)')
    BY <1>1, <1>6, <1>8 DEF Top
  <2>3. CASE ~Muting(Top) /\ UNCHANGED doProcess
    <3>1. Open(n + 1) <=> Open(n)
      BY <1>1, <2>2, <2>3 DEF Open
    <3>2. doProcess' <=> Open(n)'
      BY <1>2, <1>6, <1>8, <2>1, <2>3, <3>1
    <3>. QED  BY <1>6, <1>8, <2>2, <3>2 DEF QuietInv
  <2>4. CASE Muting(Top) /\ doProcess' = Top.dp
    <3>1. Top.dp <=> Open(n)
      BY <1>2, <1>6, <1>8, <2>2, <2>4
    <3>2. doProcess' <=> Open(n)'
      BY <2>1, <2>4, <3>1
    <3>. QED  BY <1>6, <1>8, <2>2, <3>2 DEF QuietInv
  <2>. QED  BY <1>8, <2>3, <2>4
<1>9. ASSUME NEW k \in {1, 2}, Pushes(k), ~Muting(New),
             k = 2 => ~Muting(stack'[n + 2]), UNCHANGED doProcess
      PROVE  QuietInv'
  <2>1. /\ Same(n) /\ Len(stack') = n + k /\ stack # <<>> /\ n + k \in Nat
        /\ ~Muting(stack'[n + 1])
    BY <1>1, <1>5, <1>9 DEF New
  <2>2. Open(n + 1)' <=> Open(n + 1)
    <3>1. n + 1 \in 1 .. n + 1
      BY <1>1
    <3>. QED  BY <2>1, <3>1
  <2>3. Open(n + k + 1)' <=> Open(n + 1)'
    BY <1>1, <1>9, <2>1 DEF Open
  <2>4. doProcess' <=> Open(n + k + 1)'
    BY <1>2, <1>9, <2>1, <2>2, <2>3
  <2>5. ASSUME NEW j \in 1 .. n + k, Muting(stack'[j])
        PROVE  stack'[j].dp <=> Open(j)'
    <3>1. j \in 1 .. n
      BY <1>1, <1>9, <2>1, <2>5
    <3>. QED  BY <2>1, <2>5, <3>1
  <2>. QED  BY <2>1, <2>4, <2>5 DEF QuietInv
<1>10. ASSUME NEW k \in {1, 2}, Pushes(k), Muting(New),
              k = 2 => ~Muting(stack'[n + 2]), New.dp <=> doProcess,
              doProcess' = FALSE
       PROVE  QuietInv'
  <2>1. /\ Same(n) /\ Len(stack') = n + k /\ stack # <<>> /\ n + k \in Nat
        /\ Muting(stack'[n + 1]) /\ (stack'[n + 1].dp <=> doProcess)
    BY <1>1, <1>5, <1>10 DEF New
  <2>2. Open(n + 1)' <=> Open(n + 1)
    <3>1. n + 1 \in 1 .. n + 1
      BY <1>1
    <3>. QED  BY <2>1, <3>1
  <2>3. ~Open(n + k + 1)'
    BY <1>1, <1>10, <2>1 DEF Open
  <2>4. stack'[n + 1].dp <=> Open(n + 1)'
    BY <1>2, <2>1, <2>2
  <2>5. ASSUME NEW j \in 1 .. n + k, Muting(stack'[j])
        PROVE  stack'[j].dp <=> Open(j)'
    <3>1. j \in 1 .. n \/ j = n + 1
      BY <1>1, <1>10, <2>1, <2>5
    <3>. QED  BY <2>1, <2>4, <2>5, <3>1
  <2>. QED  BY <1>10, <2>1, <2>3, <2>5 DEF QuietInv
<1>11. CASE stack' = <<>>
  BY <1>11 DEF QuietInv
<1>. HIDE DEF Same
<1>12. 1 \in {1, 2} /\ 2 \in {1, 2}
  OBVIOUS
<1>13. CASE Pushes(1) /\ Plain(New) /\ UNCHANGED <<depth, doProcess>>
  <2>1. ~Muting(New) /\ UNCHANGED doProcess /\ Pushes(1)
    BY <1>13 DEF Plain
  <2>. QED  BY <2>1, <1>9, <1>12
<1>14. CASE Pushes(1) /\ New.k = "call" /\ UNCHANGED doProcess
  <2>1. ~Muting(New) /\ UNCHANGED doProcess /\ Pushes(1)
    BY <1>14 DEF Muting
  <2>. QED  BY <2>1, <1>9, <1>12
<1>15. CASE /\ Pushes(1) /\ Muting(New) /\ (New.dp <=> doProcess)
            /\ doProcess' = FALSE
  <2>1. /\ Pushes(1) /\ Muting(New) /\ (New.dp <=> doProcess)
        /\ doProcess' = FALSE /\ 1 \in {1, 2}
        /\ (1 = 2 => ~Muting(stack'[n + 2]))
    BY <1>12, <1>15
  <2>. QED  BY <2>1, <1>10
<1>16. CASE /\ Pushes(2) /\ Plain(New) /\ Plain(stack'[Len(stack) + 2])
            /\ UNCHANGED <<depth, doProcess>>
  <2>1. ~Muting(New) /\ ~Muting(stack'[n + 2]) /\ UNCHANGED doProcess /\ Pushes(2)
    BY <1>1, <1>16 DEF Plain
  <2>. QED  BY <2>1, <1>9, <1>12
<1>17. CASE /\ Pushes(2) /\ Muting(New) /\ Plain(stack'[Len(stack) + 2])
            /\ (New.dp <=> doProcess) /\ doProcess' = FALSE
  <2>1. ~Muting(stack'[n + 2]) /\ Pushes(2) /\ Muting(New)
        /\ (New.dp <=> doProcess) /\ doProcess' = FALSE
    BY <1>1, <1>17 DEF Plain
  <2>. QED  BY <2>1, <1>10, <1>12
<1>18. CASE Pops /\ ~Muting(Top) /\ UNCHANGED doProcess
  BY <1>8, <1>18
<1>19. CASE Pops /\ Plain(Top) /\ UNCHANGED doProcess
  BY <1>18, <1>19 DEF Plain
<1>20. CASE Pops /\ Top.k = "call" /\ UNCHANGED doProcess
  BY <1>18, <1>20 DEF Muting
<1>21. CASE Pops /\ Muting(Top) /\ doProcess' = Top.dp
  BY <1>8, <1>21
<1>. QED
  BY <1>1, <1>7, <1>11, <1>13, <1>14, <1>15, <1>16, <1>17, <1>19, <1>20,
     <1>21 DEF Moves

\* vpk->do_process is off exactly while a quantifier or an isolated set is
\* under evaluation: each restores what it found, however its goals end.
THEOREM QuietHolds == Spec => []Quiet
<1>1. Init => QuietInv
  <2>. SUFFICES ASSUME Init PROVE QuietInv
    OBVIOUS
  <2>1. /\ Len(stack) = 1 /\ ~Muting(stack[1]) /\ doProcess = TRUE
    BY DEF Init, Start, Muting
  <2>. QED  BY <2>1 DEF QuietInv, Open
<1>2. TypeInv /\ QuietInv /\ [Next]_vars => QuietInv'
  BY StepMoves, StepQuiet
<1>3. TypeInv /\ QuietInv => Quiet
  BY QuietInvImplies
<1>. QED  BY <1>1, <1>2, <1>3, LiveAddresses, PTL DEF Spec

\* Nothing is shown or sent by a step that is taken inside a quantifier or an
\* isolated set (laure_showcast and laure_send under vpk->do_process).
THEOREM SilentInside == Spec => NoAnswerInside
<1>1. Quiet /\ [Next]_vars => [out' # out => ~Muted]_vars
  <2>. SUFFICES ASSUME Quiet, Next, out' # out PROVE ~Muted
    BY DEF vars
  <2>1. doProcess /\ stack # <<>>
    BY DEF Next, Immediate, EvalAssert, EvalRename, EvalCut, EvalEq, LaureStart,
           NextExpression, LeaveList, Continue, Silent, Showcast, Send, SendScope,
           PredCall, EvalCall, ArgMismatch, EnterInterior, CallC, BodyReturns,
           ContinuationReturns, InstReturns, Exhausted, CallCrashes, GoalCrashes,
           Crash, Generators, EvalUnify, EvalIntersect, EvalQuant, NextValue,
           ValueReturns, NoMoreValues, Branching, EvalImply, ImplyReturns,
           EvalChoice, NextAlternative, AlternativeReturns, NoMoreAlternatives,
           EvalEmptySet, EvalIsolated, IsolatedReturns, EvalSet, SetReturns,
           Finished, EndOfList, GoesOn, env, vars
  <2>. QED  BY <2>1 DEF Quiet, Running
<1>. QED  BY <1>1, QuietHolds, PTL DEF Spec, NoAnswerInside
=============================================================================
