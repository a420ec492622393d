------------------------------- MODULE Search -------------------------------
(***************************************************************************)
(* The search engine of laurelang (src/src/query.c).  laure_start walks a  *)
(* list of expressions and laure_eval_* evaluates one of them; the rest of *)
(* the proof runs inside that evaluation (continuation passing), so the C  *)
(* call stack is the current branch of the search tree.  Here the stack is *)
(* explicit: one frame per activation of laure_start, of a predicate call, *)
(* of a generator, of an implication, of a choice or of a set.             *)
(*                                                                         *)
(* Kept: the response states and payloads, the cut and recursion counters, *)
(* do_process, scope copies and their repeat counter, and the qcontext     *)
(* chain, whose expset fields are rewritten in place.                      *)
(* Abstracted: an instance is an atom image (instance.c), the set of       *)
(* values it may still take and whether it is instantiated; the values of  *)
(* a universe are numbers in the order in which it lists them.  A C        *)
(* predicate is its outcome; renames of arguments to parameters are no-ops *)
(* of the body.                                                            *)
(***************************************************************************)
EXTENDS Integers, Sequences, FiniteSets

CONSTANTS Names,     \* variable names
          Vals,      \* the values an instance may take, a set of numbers
          Preds,     \* predicate names
          Arity,     \* the number of arguments of each predicate
          Blocks,    \* names of expression lists other than the query
          MaxDepth,  \* max_recursion_depth of control_new
          Programs,  \* the programs that are run, each with its query
          Modes      \* var_process_kit modes: "interactive", "sender", "scope"

VARIABLES
  prog,      \* the program and the query
  mode,      \* vpk->mode
  stack,     \* activations, the innermost last
  scopes,    \* scope objects; an address is an index, 1 is the global scope
  qctxs,     \* qcontext objects; an address is an index
  scope,     \* cctx->scope
  qctx,      \* cctx->qctx, 0 when NULL
  cut,       \* cctx->cut, 0 when no cut is active
  depth,     \* cctx->recursion_depth
  doProcess, \* vpk->do_process
  nlink,     \* the link counter shared by all scopes
  tracked,   \* cctx->tmp_answer_scope: name |-> link, 0 when absent
  ret,       \* the response being returned, or NoResp; the verdict at the end
  out        \* the answers shown or sent so far, and what was replied

vars == <<prog, mode, stack, scopes, qctxs, scope, qctx, cut, depth,
          doProcess, nlink, tracked, ret, out>>
mem == <<scopes, qctxs, nlink, tracked>>
ctl == <<scope, qctx, cut, depth, doProcess>>
env == <<prog, mode, out>>

-----------------------------------------------------------------------------
(* Data *)

Ops == {"assert", "rename", "call", "eq", "unify", "all", "exists", "imply",
        "choice", "cut", "iso", "set"}
CFuns == {"succeed", "narrow", "inst", "fail", "error", "stop"}

\* laure_expression_t: op is its kind; x, dom, pred, args and body are the
\* parts that the kind uses, as many of them as the parser gives it.
Goal == {g \in [op : Ops, x : Names, dom : SUBSET Vals, pred : Preds,
                args : Seq(Names), body : Seq(Blocks)] :
          /\ g.op = "assert" => g.dom # {}
          /\ g.op = "eq" => Len(g.args) = 1
          /\ g.op = "call" => Len(g.args) = Arity[g.pred]
          /\ g.op \in {"all", "exists", "iso", "set"} => Len(g.body) = 1
          /\ g.op = "imply" => Len(g.body) = 2}

\* predfinal: an interior variation has a body, a C one has an outcome.
Clause == [kind : {"interior", "c"}, params : Seq(Names), body : Blocks,
           cutCase : BOOLEAN, c : CFuns, dom : SUBSET Vals]

\* shown: the variables the query mentions, imaged: those declared before it;
\* hint: what an instance of the declared type may be, at least one value.
Program == {P \in [query : Seq(Goal), imaged : Seq(Names), shown : SUBSET Names,
                   block : [Blocks -> Seq(Goal)],
                   pred : [Preds -> [hint : SUBSET Vals, clauses : Seq(Clause)]]] :
             \A p \in Preds :
               /\ P.pred[p].hint # {}
               /\ \A i \in 1 .. Len(P.pred[p].clauses) :
                    LET v == P.pred[p].clauses[i]
                    IN  /\ Len(v.params) = Arity[p]
                        /\ v.c \in {"narrow", "inst"} => Arity[p] >= 1}

ASSUME DepthAssumption == MaxDepth \in Nat
ASSUME ValuesAssumption == Vals \subseteq Nat /\ Vals # {}
ASSUME ArityAssumption == Arity \in [Preds -> Nat]
ASSUME ProgramsAssumption == Programs \subseteq Program

\* qresp: YIELD_FAIL is payload 0, YIELD_OK is 1, 9 is any other pointer.
\* "crash" is a NULL dereference, "abort" the longjmp to the prompt.
Resp == [st : {"none", "true", "false", "yield", "error", "stop", "continue",
               "crash", "abort"},
         pl : {0, 1, 9}]
Respond(s, p) == [st |-> s, pl |-> p]
NoResp == Respond("none", 0)
Yield(ok) == Respond("yield", IF ok THEN 1 ELSE 0)
Bool(b) == Respond(IF b THEN "true" ELSE "false", 0)
ErrorResp == Respond("error", 1)
StopResp == Respond("stop", 0)

\* laure_cell: link 0 when the scope has no cell of that name; dom and single
\* are the instance's image, which may have one value left and not be single.
Cell == [link : Nat, dom : SUBSET Vals, single : BOOLEAN]
NoCell == [link |-> 0, dom |-> {}, single |-> FALSE]
Holding(c, d, s) == [c EXCEPT !.dom = d, !.single = s]
\* laure_scope_t: next is the address of the caller's scope, 0 when NULL.
Scope == [idx : Nat, repeat : Nat, next : Nat, cell : [Names -> Cell]]
QContext == [expset : Seq(Goal), next : Nat, flagme : BOOLEAN]
NewQContext(list, next) == [expset |-> list, next |-> next, flagme |-> FALSE]

\* Activations.  code is what laure_start still has to run, or what follows
\* the expression g under evaluation; sc and qc are the scope and qcontext
\* that UNPACK_CCTX read; old is the saved qctx->expset.
StartFrame == [k : {"start"}, code : Seq(Goal), sc : Nat]
\* at: init_scope, prev: the variation's copy of it, save: cut_store; d and committed are ghosts: the recursion
\* depth at entry, and whether a cut of the running variation was evaluated.
CallFrame == [k : {"call"}, g : Goal, code : Seq(Goal), sc : Nat, qc : Nat,
              at : Nat, prev : Nat, old : Seq(Goal), i : Nat, save : Nat,
              found : BOOLEAN, ph : {"next", "body", "c", "inst"}, d : Int,
              committed : BOOLEAN]
\* at and x: where ctx->var is; todo: values not yet tried; found: ctx->flag.
GenFrame == [k : {"gen"}, op : {"unify", "eq", "inst", "all", "exists"},
             x : Names, code : Seq(Goal), sc : Nat, qc : Nat, at : Nat,
             todo : SUBSET Vals, found : BOOLEAN, dp : BOOLEAN,
             committed : BOOLEAN]
\* at: the address of fact_qctx.
ImplyFrame == [k : {"imply"}, sc : Nat, qc : Nat, old : Seq(Goal), at : Nat]
ChoiceFrame == [k : {"choice"}, g : Goal, code : Seq(Goal), sc : Nat,
                qc : Nat, old : Seq(Goal), i : Nat, save : Nat,
                committed : BOOLEAN]
SetFrame == [k : {"iso", "set"}, sc : Nat, qc : Nat, old : Seq(Goal),
             dp : BOOLEAN]
Frame == StartFrame \cup CallFrame \cup GenFrame \cup ImplyFrame
           \cup ChoiceFrame \cup SetFrame

Start(list, a) == [k |-> "start", code |-> list, sc |-> a]
Top == stack[Len(stack)]
Callers == SubSeq(stack, 1, Len(stack) - 1)
WithTop(f) == [stack EXCEPT ![Len(stack)] = f]
Here == scopes[scope]
CurrentGoal == Head(Top.code)
Rest == Tail(Top.code)
CurrentList == qctxs[qctx].expset

\* Control: an expression is about to be evaluated, an activation of kind k
\* goes on, or one gets a response.
Evaluating(op) == /\ ret = NoResp /\ stack # <<>> /\ Top.k = "start"
                  /\ Top.code # <<>> /\ CurrentGoal.op = op
GoesOn(k) == ret = NoResp /\ stack # <<>> /\ Top.k = k
Answered(k) == ret # NoResp /\ stack # <<>> /\ Top.k = k
Returns(r) == stack' = Callers /\ ret' = r
\* Mutants of BackTo: one of the two is forgotten, or the scope is left once too often.
BackToScope(f) == scope' = f.sc /\ UNCHANGED qctx
BackToContext(f) == qctx' = f.qc /\ UNCHANGED scope
BackToNext(f) == scope' = scopes[f.sc].next /\ qctx' = f.qc
\* Back in the scope and the qcontext of the activation.
BackTo(f) == scope' = f.sc /\ qctx' = f.qc
Crash == /\ stack' = <<>> /\ ret' = Respond("crash", 9)
         /\ UNCHANGED <<mem, ctl, env>>

\* laure_scope_find_by_key with search_glob: the scope that has the name, 0
\* if there is none; and its cell.
Find(x) == IF Here.cell[x].link # 0 THEN scope
           ELSE IF scopes[1].cell[x].link # 0 THEN 1 ELSE 0
Assign(a, x, d, s) == [scopes EXCEPT ![a].cell[x] = Holding(@, d, s)]

-----------------------------------------------------------------------------
(* Expressions that respond at once *)

\* `x = a` or `x = {a, b}`, atom_translator: the values have to be among those
\* that the instance may take; a single one instantiates it.
EvalAssert ==
  /\ Evaluating("assert")
  /\ LET g == CurrentGoal
         a == Find(g.x)
         one == \E v \in Vals : g.dom = {v}
     IN  IF a = 0 THEN ret' = ErrorResp /\ UNCHANGED scopes
         ELSE IF ~(g.dom \subseteq scopes[a].cell[g.x].dom)
         THEN ret' = Bool(FALSE) /\ UNCHANGED scopes
         ELSE ret' = Bool(TRUE) /\ scopes' = Assign(a, g.x, g.dom, one)
  /\ UNCHANGED <<stack, qctxs, nlink, tracked, ctl, env>>

\* The rename that get_pred_final puts in front of a body for each parameter.
EvalRename ==
  /\ Evaluating("rename")
  /\ ret' = Bool(TRUE)
  /\ UNCHANGED <<stack, mem, ctl, env>>

\* Ghost: the activations that a cut evaluated in this scope commits: the call
\* whose body this is and every choicepoint made since.
Committed(j) ==
  ~\E m \in j + 1 .. Len(stack) :
     /\ stack[m].k = "call" /\ stack[m].ph = "body"
     /\ scopes[stack[m].sc].idx + 1 = Here.idx
Commit(j) == IF stack[j].k \in {"call", "gen", "choice"} /\ Committed(j)
             THEN [stack[j] EXCEPT !.committed = TRUE] ELSE stack[j]

EvalCut ==
  /\ Evaluating("cut")
  /\ cut' = Here.idx
  /\ stack' = [j \in 1 .. Len(stack) |-> Commit(j)]
  /\ ret' = Bool(TRUE)
  /\ UNCHANGED <<mem, scope, qctx, depth, doProcess, env>>

\* `x = y` without a choicepoint: one of them undefined, or instantiated.
EvalEq ==
  /\ Evaluating("eq")
  /\ LET x == CurrentGoal.x
         y == CurrentGoal.args[1]
         a == Find(x)
         b == Find(y)
         cx == scopes[a].cell[x]
         cy == scopes[b].cell[y]
         both == cx.dom \cap cy.dom
         New(n, c) == [scopes EXCEPT ![scope].cell[n] =
                         [c EXCEPT !.link = nlink + 1]]
     IN  \/ /\ a = 0 /\ b = 0
            /\ ret' = ErrorResp
            /\ UNCHANGED <<scopes, nlink>>
         \/ /\ (a = 0) # (b = 0)
            /\ scopes' = IF a = 0 THEN New(x, cy) ELSE New(y, cx)
            /\ nlink' = nlink + 1
            /\ ret' = Bool(TRUE)
         \/ /\ a # 0 /\ b # 0 /\ (cx.single \/ cy.single)
            /\ ret' = Bool(both # {})
            /\ scopes' = IF both = {} THEN scopes
                         ELSE [Assign(a, x, both, TRUE) EXCEPT
                                 ![b].cell[y] = Holding(@, both, TRUE)]
            /\ UNCHANGED nlink
  /\ UNCHANGED <<stack, qctxs, tracked, ctl, env>>

Immediate == EvalAssert \/ EvalRename \/ EvalCut \/ EvalEq

-----------------------------------------------------------------------------
(* laure_start *)

\* true or continue: on to the next expression.
NextExpression ==
  /\ Answered("start") /\ ret.st \in {"true", "continue"}
  /\ Top.code # <<>>
  /\ stack' = WithTop(Start(Rest, Top.sc))
  /\ ret' = NoResp
  /\ UNCHANGED <<mem, ctl, env>>

\* Mutant of LeaveList: after an error the expression is evaluated again.
LeaveListAgain ==
  /\ Answered("start") /\ ret.st \in {"false", "yield", "error", "stop"}
  /\ \/ ret.st = "error" /\ ret' = NoResp /\ UNCHANGED stack
     \/ /\ ret.st # "error"
        /\ Returns(IF ret.st = "false" THEN Yield(FALSE) ELSE ret)
  /\ UNCHANGED <<mem, ctl, env>>

\* false becomes YIELD_FAIL; a yield, an error or a stop is returned as it is.
LeaveList ==
  /\ Answered("start") /\ ret.st \in {"false", "yield", "error", "stop"}
  /\ Returns(IF ret.st = "false" THEN Yield(FALSE) ELSE ret)
  /\ UNCHANGED <<mem, ctl, env>>

EndOfList == GoesOn("start") /\ Top.code = <<>>
HasContinuation ==
  /\ qctx # 0
  /\ (qctxs[qctx].next # 0 /\ Here.idx # 1) \/ Here.repeat > 0
Flagged == IF qctx = 0 THEN qctxs ELSE [qctxs EXCEPT ![qctx].flagme = TRUE]

\* laure_safe_update of the cells of the caller's scope that have the link of
\* a cell of this scope; a conflict is printed and the cell keeps its value.
Updated(s) ==
  LET Linked(n) == {m \in Names :
                      Here.cell[m].link = s.cell[n].link /\ s.cell[n].link # 0}
      Met(n) == {v \in s.cell[n].dom : \A m \in Linked(n) : v \in Here.cell[m].dom}
      One(n) == s.cell[n].single \/ \E m \in Linked(n) : Here.cell[m].single
  IN  [s EXCEPT !.cell = [n \in Names |->
         IF Met(n) = {} THEN s.cell[n] ELSE Holding(s.cell[n], Met(n), One(n))]]

\* The list is done: its continuation runs as a tail call.  Neither cctx->scope
\* nor cctx->qctx is restored by laure_start.
Continue ==
  /\ EndOfList /\ HasContinuation
  /\ LET q == qctxs[qctx].next
         list == IF q = 0 THEN <<>> ELSE qctxs[q].expset
         copy == Len(scopes) + 1
     IN  \/ /\ Here.repeat > 0
            /\ scopes' = [scopes EXCEPT ![scope].repeat = @ - 1]
            /\ UNCHANGED scope
            /\ stack' = WithTop(Start(list, scope))
            /\ qctx' = q
         \/ /\ Here.repeat = 0 /\ Here.next # 0
            /\ scopes' = Append(scopes, Updated(scopes[Here.next]))
            /\ scope' = copy
            /\ stack' = WithTop(Start(list, copy))
            /\ qctx' = q
         \/ /\ Here.repeat = 0 /\ Here.next = 0
            /\ UNCHANGED <<scopes, scope>>
            /\ stack' = WithTop(Start(list, scope))
            /\ qctx' = q
  /\ qctxs' = Flagged
  /\ UNCHANGED <<nlink, tracked, cut, depth, doProcess, ret, env>>

\* No continuation: a solution of the query, or of a quantified or isolated
\* goal, where nothing is shown.
Silent ==
  /\ EndOfList /\ ~HasContinuation /\ ~doProcess
  /\ Returns(Yield(TRUE))
  /\ qctxs' = Flagged
  /\ UNCHANGED <<scopes, nlink, tracked, ctl, env>>

\* The values, by link, of the query's variables that some call tracked.
Holder(x) == {m \in Names : Here.cell[m].link = tracked[x]}
Answer == [x \in Names |->
  IF x \in prog.shown /\ tracked[x] # 0
  THEN UNION {Here.cell[m].dom : m \in Holder(x)} ELSE {}]
NothingToShow == \A x \in Names : Answer[x] = {}

Shown(r) == out' = Append(out, [answer |-> Answer, reply |-> r])

\* laure_showcast and check_interactive: ";" asks for the next answer, "."
\* says that there is none, "..." leaves by longjmp.
Showcast ==
  /\ EndOfList /\ ~HasContinuation /\ doProcess /\ mode = "interactive"
  /\ \/ NothingToShow /\ Returns(Yield(TRUE)) /\ UNCHANGED out
     \/ /\ ~NothingToShow
        /\ \/ Shown(";") /\ Returns(Respond("continue", 0))
           \/ Shown(".") /\ Returns(Respond("continue", 9))
           \/ Shown("...") /\ stack' = <<>> /\ ret' = Respond("abort", 9)
  /\ qctxs' = Flagged
  /\ UNCHANGED <<scopes, nlink, tracked, ctl, prog, mode>>

\* laure_send: the receiver answers whether it wants more.
Send ==
  /\ EndOfList /\ ~HasContinuation /\ doProcess /\ mode = "sender"
  /\ \/ prog.shown = {} /\ Returns(Yield(TRUE)) /\ UNCHANGED out
     \/ prog.shown # {} /\ Shown("more") /\ Returns(Yield(TRUE))
     \/ prog.shown # {} /\ Shown("enough") /\ Returns(StopResp)
  /\ qctxs' = Flagged
  /\ UNCHANGED <<scopes, nlink, tracked, ctl, prog, mode>>

\* SENDSCOPE: the receiver gets the control context.
SendScope ==
  /\ EndOfList /\ ~HasContinuation /\ doProcess /\ mode = "scope"
  /\ Shown("more") /\ Returns(Respond("continue", 0))
  /\ qctxs' = Flagged
  /\ UNCHANGED <<scopes, nlink, tracked, ctl, prog, mode>>

LaureStart == NextExpression \/ LeaveList \/ Continue \/ Silent \/ Showcast
                \/ Send \/ SendScope

-----------------------------------------------------------------------------
(* Predicate calls *)

\* The cell an argument has in the caller's scope s or in the global one.
Seen(s, n) == IF s.cell[n].link # 0 THEN s.cell[n] ELSE scopes[1].cell[n]

\* Mutant of ArgCell: the new arguments of a call get one link.
ArgCellOneLink(s, args, j, p, strict) ==
  LET c == Seen(s, args[j])
  IN  IF c.link # 0
      THEN [c EXCEPT !.dom = IF strict THEN @ \cap p.hint ELSE @]
      ELSE [link |-> IF s.idx = 1 /\ tracked[args[j]] # 0
                     THEN tracked[args[j]] ELSE nlink + 1,
            dom |-> p.hint, single |-> FALSE]

\* pred_call_procvar: a known argument is narrowed to the hint, unless the
\* predicate is in C; an unknown one gets the hint and a link, at the query's
\* level the link under which it is tracked.
ArgCell(s, args, j, p, strict) ==
  LET c == Seen(s, args[j])
  IN  IF c.link # 0
      THEN [c EXCEPT !.dom = IF strict THEN @ \cap p.hint ELSE @]
      ELSE [link |-> IF s.idx = 1 /\ tracked[args[j]] # 0
                     THEN tracked[args[j]] ELSE nlink + j,
            dom |-> p.hint, single |-> FALSE]
\* s with its arguments: those of the global scope are not copied into s.
WithArgs(s, args, p, strict) ==
  [s EXCEPT !.cell = [n \in Names |->
     IF \E j \in 1 .. Len(args) :
          args[j] = n /\ (s.cell[n].link # 0 \/ Seen(s, n).link = 0)
     THEN ArgCell(s, args, CHOOSE j \in 1 .. Len(args) : args[j] = n, p, strict)
     ELSE s.cell[n]]]
GlobalArgs(s, args, p, strict) ==
  LET g == scopes[1]
      Narrowed(n) == /\ strict /\ s.cell[n].link = 0 /\ g.cell[n].link # 0
                     /\ \E j \in 1 .. Len(args) : args[j] = n
  IN  [g EXCEPT !.cell = [n \in Names |->
         IF Narrowed(n) THEN [g.cell[n] EXCEPT !.dom = @ \cap p.hint]
         ELSE g.cell[n]]]
\* cctx->tmp_answer_scope only grows, and only at the query's level.
Track(s, args, p) == [n \in Names |->
  IF s.idx = 1 /\ tracked[n] = 0 /\ \E j \in 1 .. Len(args) : args[j] = n
  THEN ArgCell(s, args, CHOOSE j \in 1 .. Len(args) : args[j] = n, p, FALSE).link
  ELSE tracked[n]]
\* The scope of the body: a cell per parameter, with its argument's link.
BodyScope(s, args, params, p, up) ==
  [idx |-> s.idx + 1, repeat |-> 0, next |-> up,
   cell |-> [n \in Names |->
     IF \E j \in 1 .. Len(params) : params[j] = n
     THEN ArgCell(s, args, CHOOSE j \in 1 .. Len(params) : params[j] = n, p, TRUE)
     ELSE NoCell]]
Renames(g, params) == [j \in 1 .. Len(params) |->
  [g EXCEPT !.op = "rename", !.x = params[j]]]

PredOf(f) == prog.pred[f.g.pred]
VariationOf(f) == PredOf(f).clauses[f.i]
OnVariation(kind) ==
  /\ GoesOn("call") /\ Top.ph = "next"
  /\ Top.i <= Len(PredOf(Top).clauses) /\ VariationOf(Top).kind = kind
\* Mutant of Mismatch: the first argument is not checked.
MismatchFromSecond(f, j) ==
  LET c == Seen(scopes[f.at], f.g.args[j])
  IN  j # 1 /\ c.link # 0 /\ c.dom \cap PredOf(f).hint = {}
\* The values of the jth argument do not meet the hint.
Mismatch(f, j) ==
  LET c == Seen(scopes[f.at], f.g.args[j])
  IN  c.link # 0 /\ c.dom \cap PredOf(f).hint = {}
\* The arguments before the jth are accepted.
Accepted(f, j) == \A i \in 1 .. j - 1 : ~Mismatch(f, i)
AllAccepted(f) == Accepted(f, Len(f.g.args) + 1)

\* Mutant of TooDeep: one call too many.
TooDeepLate == depth > MaxDepth
\* "Check recursion depth to prevent stack overflow"
TooDeep == depth >= MaxDepth

\* The recursion limit, then the counter, the cut and a copy of the scope.
EvalCall ==
  /\ Evaluating("call")
  /\ \/ /\ TooDeep
        /\ ret' = ErrorResp
        /\ UNCHANGED <<stack, scopes, depth>>
     \/ /\ ~TooDeep
        /\ depth' = depth + 1
        /\ scopes' = Append(scopes, Here)
        /\ stack' = Append(stack,
             [k |-> "call", g |-> CurrentGoal, code |-> Rest, sc |-> scope,
              qc |-> qctx, at |-> Len(scopes) + 1, prev |-> 0, old |-> <<>>,
              i |-> 1, save |-> cut, found |-> FALSE, ph |-> "next", d |-> depth,
              committed |-> FALSE])
        /\ UNCHANGED ret
  /\ UNCHANGED <<qctxs, nlink, tracked, scope, qctx, cut, doProcess, env>>

\* An argument does not meet its hint: the whole call is false, and the
\* recursion counter is not decremented.  The arguments before it have been
\* dealt with.
ArgMismatch ==
  /\ OnVariation("interior")
  /\ \E j \in 1 .. Len(Top.g.args) :
       /\ Mismatch(Top, j) /\ Accepted(Top, j)
       /\ LET init == scopes[Top.at]
              done == SubSeq(Top.g.args, 1, j - 1)
          IN  /\ scopes' = [scopes EXCEPT ![1] =
                              GlobalArgs(init, done, PredOf(Top), TRUE)]
              /\ tracked' = Track(init, done, PredOf(Top))
              /\ nlink' = nlink + Len(done)
  /\ Returns(Bool(FALSE))
  /\ UNCHANGED <<qctxs, ctl, env>>

EnterInterior ==
  /\ OnVariation("interior") /\ AllAccepted(Top) /\ Top.qc # 0
  /\ LET f == Top
         v == VariationOf(f)
         p == PredOf(f)
         init == scopes[f.at]
         prev == Len(scopes) + 1
         list == Renames(f.g, v.params) \o prog.block[v.body]
     IN  /\ scopes' = [scopes EXCEPT ![1] = GlobalArgs(init, f.g.args, p, TRUE)]
                        \o <<WithArgs(init, f.g.args, p, TRUE),
                             BodyScope(init, f.g.args, v.params, p, prev)>>
         /\ nlink' = nlink + Len(f.g.args)
         /\ tracked' = Track(init, f.g.args, p)
         /\ qctxs' = Append([qctxs EXCEPT ![f.qc].expset = f.code],
                            NewQContext(list, f.qc))
         /\ scope' = prev + 1
         /\ qctx' = Len(qctxs) + 1
         /\ stack' = Append(WithTop([f EXCEPT !.ph = "body",
                                       !.old = qctxs[f.qc].expset]),
                            Start(list, prev + 1))
  /\ UNCHANGED <<cut, depth, doProcess, ret, env>>

\* The variation in C, its outcome.  It acts on its first argument, in prev or
\* in the global scope.
COutcome(f, prev) ==
  LET v == VariationOf(f)
      c == Seen(prev, f.g.args[1])
  IN  CASE v.c \in {"succeed", "fail", "error", "stop"} -> v.c
        [] v.c = "inst" /\ ~c.single -> "inst"
        [] OTHER -> IF c.dom \cap v.dom = {} THEN "fail" ELSE "narrow"

\* What a variation in C leaves before it is run again or followed: prev, with
\* its first argument narrowed when it asks for that.
CScopes(f, prev, outcome) ==
  LET x == f.g.args[1]
      v == VariationOf(f)
      a == IF prev.cell[x].link # 0 THEN Len(scopes) + 1 ELSE 1
  IN  IF outcome = "narrow"
      THEN [Append(scopes, prev) EXCEPT ![a].cell[x].dom = @ \cap v.dom]
      ELSE Append(scopes, prev)

CallC ==
  /\ OnVariation("c")
  /\ LET f == Top
         p == PredOf(f)
         at == Len(scopes) + 1
         prev == WithArgs(scopes[f.at], f.g.args, p, FALSE)
         outcome == COutcome(f, prev)
         x == f.g.args[1]
     IN  /\ scopes' = CScopes(f, prev, outcome)
         /\ nlink' = nlink + Len(f.g.args)
         /\ tracked' = Track(scopes[f.at], f.g.args, p)
         /\ \/ /\ outcome = "fail"
               /\ stack' = WithTop([f EXCEPT !.i = @ + 1])
               /\ UNCHANGED <<qctxs, scope, qctx, ret>>
            \/ /\ outcome \in {"error", "stop"}
               /\ Returns(IF outcome = "stop" THEN StopResp ELSE ErrorResp)
               /\ UNCHANGED <<qctxs, scope, qctx>>
            \/ /\ outcome \in {"succeed", "narrow"} /\ f.qc # 0
               /\ qctxs' = [qctxs EXCEPT ![f.qc].expset = f.code]
               /\ scope' = at
               /\ stack' = Append(WithTop([f EXCEPT !.ph = "c",
                                             !.old = qctxs[f.qc].expset]),
                                  Start(f.code, at))
               /\ UNCHANGED <<qctx, ret>>
            \/ /\ outcome = "inst" /\ f.qc # 0
               /\ qctxs' = Append(qctxs, NewQContext(<<f.g>> \o f.code,
                                                     qctxs[f.qc].next))
               /\ qctx' = Len(qctxs) + 1
               /\ scope' = at
               /\ stack' = Append(WithTop([f EXCEPT !.ph = "inst", !.prev = at]),
                    [k |-> "gen", op |-> "inst", x |-> x,
                     code |-> <<f.g>> \o f.code, sc |-> at, qc |-> f.qc,
                     at |-> IF prev.cell[x].link # 0 THEN at ELSE 1,
                     todo |-> Seen(prev, x).dom, found |-> FALSE,
                     dp |-> doProcess, committed |-> FALSE])
               /\ UNCHANGED ret
  /\ UNCHANGED <<cut, depth, doProcess, env>>

\* Mutant of CutHere: the cuts of the body of this very call are not seen.
CutAbove(up) == cut # 0 /\ cut - 1 < up
\* A cut evaluated in the body of a call made at level up, or further out.
CutHere(up) == cut # 0 /\ cut - 1 <= up

\* Mutant of Over: a call that succeeds returns before the counter is restored.
OverOnSuccess(f, found) ==
  /\ Returns(Yield(found))
  /\ cut' = IF cut = 0 THEN f.save ELSE cut
  /\ depth' = IF found THEN depth ELSE depth - 1
\* The call is over: an inactive cut is put back, the counter decremented.
Over(f, found) ==
  /\ Returns(Yield(found))
  /\ cut' = IF cut = 0 THEN f.save ELSE cut
  /\ depth' = depth - 1

\* How the variation's response r is judged: the call is over, or goes on.
Judge(f, r) ==
  LET up == scopes[f.sc].idx
      ok == r.st \in {"true", "continue"} \/ r = Yield(TRUE)
      cutCase == f.ph = "body" /\ VariationOf(f).cutCase
      More(found) == /\ stack' = WithTop([f EXCEPT !.ph = "next", !.i = @ + 1,
                                             !.found = found])
                     /\ ret' = NoResp
  IN  \/ /\ r.st \in {"error", "stop"}
         /\ Returns(r)
         /\ UNCHANGED <<cut, depth>>
      \/ /\ r.st \notin {"error", "stop"} /\ CutHere(up)
         /\ Over(f, TRUE)
      \/ /\ r.st \notin {"error", "stop"} /\ cut # 0 /\ ~CutHere(up)
         /\ cut' = 0
         /\ More(f.found)
         /\ UNCHANGED depth
      \/ /\ r.st \notin {"error", "stop"} /\ cut = 0 /\ ok /\ cutCase
         /\ Over(f, TRUE)
      \/ /\ r.st \notin {"error", "stop"} /\ cut = 0 /\ ~(ok /\ cutCase)
         /\ More(f.found \/ ok)
         /\ UNCHANGED <<cut, depth>>

\* The body of an interior variation, with all that follows the call, is done.
BodyReturns ==
  /\ Answered("call") /\ Top.ph = "body"
  /\ Judge(Top, ret)
  /\ qctxs' = [qctxs EXCEPT ![Top.qc].expset = Top.old]
  /\ BackTo(Top)
  /\ UNCHANGED <<scopes, nlink, tracked, doProcess, env>>

\* What follows a variation in C is done: cctx->qctx is left as it is.
ContinuationReturns ==
  /\ Answered("call") /\ Top.ph = "c"
  /\ Judge(Top, ret)
  /\ qctxs' = [qctxs EXCEPT ![Top.qc].expset = Top.old]
  /\ scope' = Top.sc
  /\ UNCHANGED <<scopes, nlink, tracked, qctx, doProcess, env>>

\* The argument was instantiated and the call run again for each value.
InstReturns ==
  /\ Answered("call") /\ Top.ph = "inst"
  /\ LET f == Top
     IN  \/ /\ ret.st = "error"
            /\ Returns(ret)
            /\ scope' = f.sc
            /\ UNCHANGED qctxs
         \/ /\ ret.st = "yield"
            /\ stack' = WithTop([f EXCEPT !.ph = "next", !.i = @ + 1,
                                   !.found = @ \/ ret.pl = 1])
            /\ ret' = NoResp
            /\ scope' = f.sc
            /\ UNCHANGED qctxs
         \/ /\ ret.st = "continue"
            /\ qctxs' = [qctxs EXCEPT ![f.qc].expset = f.code]
            /\ stack' = Append(WithTop([f EXCEPT !.ph = "c",
                                          !.old = qctxs[f.qc].expset]),
                               Start(f.code, f.prev))
            /\ ret' = NoResp
            /\ scope' = f.prev
  /\ qctx' = Top.qc
  /\ UNCHANGED <<scopes, nlink, tracked, cut, depth, doProcess, env>>

Exhausted ==
  /\ GoesOn("call") /\ Top.ph = "next" /\ Top.i > Len(PredOf(Top).clauses)
  /\ Over(Top, Top.found)
  /\ UNCHANGED <<mem, scope, qctx, doProcess, env>>

\* The call writes qctx->expset of a NULL qcontext.
CallCrashes ==
  /\ \/ OnVariation("interior") /\ AllAccepted(Top)
     \/ /\ OnVariation("c")
        /\ COutcome(Top, WithArgs(scopes[Top.at], Top.g.args, PredOf(Top), FALSE))
             \in {"succeed", "narrow", "inst"}
  /\ Top.qc = 0
  /\ Crash

PredCall == EvalCall \/ ArgMismatch \/ EnterInterior \/ CallC \/ BodyReturns
              \/ ContinuationReturns \/ InstReturns \/ Exhausted

-----------------------------------------------------------------------------
(* Generators: image_rec_default under instance_generate *)

Generator(op, x, list, at, todo) ==
  [k |-> "gen", op |-> op, x |-> x, code |-> list, sc |-> scope, qc |-> qctx,
   at |-> at, todo |-> todo, found |-> FALSE, dp |-> doProcess,
   committed |-> FALSE]

\* `x?`: the name is looked up in the local scope only.
EvalUnify ==
  /\ Evaluating("unify")
  /\ LET x == CurrentGoal.x
     IN  \/ /\ Here.cell[x].link = 0
            /\ ret' = ErrorResp /\ UNCHANGED stack
         \/ /\ Here.cell[x].link # 0
            /\ stack' = Append(stack,
                 Generator("unify", x, Rest, scope, Here.cell[x].dom))
            /\ UNCHANGED ret
  /\ UNCHANGED <<mem, ctl, env>>

\* `x = y`, both uninstantiated: both are intersected and the values of one
\* are generated into the other.
EvalIntersect ==
  /\ Evaluating("eq")
  /\ LET x == CurrentGoal.x
         y == CurrentGoal.args[1]
         a == Find(x)
         b == Find(y)
         both == scopes[a].cell[x].dom \cap scopes[b].cell[y].dom
     IN  /\ a # 0 /\ b # 0
         /\ ~scopes[a].cell[x].single /\ ~scopes[b].cell[y].single
         /\ \/ /\ both = {}
               /\ ret' = Bool(FALSE) /\ UNCHANGED <<stack, scopes>>
            \/ /\ both # {}
               /\ scopes' = [Assign(a, x, both, FALSE) EXCEPT
                               ![b].cell[y] = Holding(@, both, FALSE)]
               /\ stack' = Append(stack, Generator("eq", x, Rest, a, both))
               /\ UNCHANGED ret
  /\ UNCHANGED <<qctxs, nlink, tracked, ctl, env>>

\* `&all x {...}`, `&exists x {...}`: the goals run in a qcontext without
\* continuation, and answers are not shown.
EvalQuant ==
  /\ \E op \in {"all", "exists"} :
       /\ Evaluating(op)
       /\ LET x == CurrentGoal.x
              list == prog.block[CurrentGoal.body[1]]
          IN  \/ /\ Here.cell[x].link = 0
                 /\ ret' = ErrorResp
                 /\ UNCHANGED <<stack, qctxs, qctx, doProcess>>
              \/ /\ Here.cell[x].link # 0
                 /\ stack' = Append(stack,
                      Generator(op, x, list, scope, Here.cell[x].dom))
                 /\ qctxs' = Append(qctxs, NewQContext(list, 0))
                 /\ qctx' = Len(qctxs) + 1
                 /\ doProcess' = FALSE
                 /\ UNCHANGED ret
  /\ UNCHANGED <<scopes, nlink, tracked, scope, cut, depth, env>>

\* The next value, in ascending order, in a copy of the scope.  cctx->qctx is
\* whatever the run for the previous value left there.
NextValue ==
  /\ GoesOn("gen") /\ Top.todo # {}
  /\ LET f == Top
         copy == Len(scopes) + 1
     IN  \E v \in f.todo :
           /\ \A w \in f.todo : v <= w
           /\ LET set == Assign(f.at, f.x, {v}, TRUE)
              IN  scopes' = Append(set, set[scope])
           /\ scope' = copy
           /\ stack' = Append(WithTop([f EXCEPT !.todo = @ \ {v}]),
                              Start(f.code, copy))
  /\ UNCHANGED <<qctxs, nlink, tracked, qctx, cut, depth, doProcess, ret, env>>

\* Mutant of Unify: a stop is taken for a failure.
UnifyOnStop(r) ==
  CASE r.st = "error" -> [r |-> FALSE, qr |-> r, flag |-> FALSE]
    [] r.st = "yield" -> [r |-> TRUE, qr |-> r, flag |-> r.pl = 1]
    [] OTHER -> [r |-> TRUE, qr |-> r, flag |-> FALSE]

\* qr_process of each generator on the response r of one value: whether to go
\* on, with which response, and whether a solution is flagged.
Unify(r) ==
  CASE r.st \in {"stop", "error"} -> [r |-> FALSE, qr |-> r, flag |-> FALSE]
    [] r.st = "yield" -> [r |-> TRUE, qr |-> r, flag |-> r.pl = 1]
    [] r.st = "true" -> IF cut # 0
                        THEN [r |-> FALSE, qr |-> Yield(FALSE), flag |-> FALSE]
                        ELSE [r |-> TRUE, qr |-> r, flag |-> TRUE]
    [] OTHER -> IF r.pl = 0 THEN [r |-> TRUE, qr |-> r, flag |-> FALSE]
                ELSE [r |-> FALSE, qr |-> Yield(FALSE), flag |-> FALSE]
Default(r) ==
  [r |-> /\ r.st = "yield" \/ (r.pl = 0 /\ r.st # "stop")
         /\ r # Yield(FALSE) /\ cut = 0,
   qr |-> r, flag |-> FALSE]
All(r) ==
  IF r.st = "yield"
  THEN [r |-> r.pl # 0, qr |-> Bool(r.pl # 0), flag |-> FALSE]
  ELSE [r |-> FALSE, qr |-> r, flag |-> FALSE]
Exists(r) ==
  CASE r.st = "error" -> [r |-> FALSE, qr |-> r, flag |-> FALSE]
    [] r.st = "yield" -> [r |-> r.pl # 1, qr |-> Bool(r.pl = 1), flag |-> FALSE]
    [] OTHER -> [r |-> TRUE, qr |-> r, flag |-> FALSE]
Process(op, r) == CASE op = "unify" -> Unify(r)
                    [] op \in {"eq", "inst"} -> Default(r)
                    [] op = "all" -> All(r)
                    [] op = "exists" -> Exists(r)

\* What the expression responds when its generator stopped with gr;
\* gen_resp_process makes YIELD_OK of every NULL payload.
Generated(op, gr, flag) ==
  CASE op = "unify" -> IF ~gr.r THEN gr.qr
                       ELSE IF ~flag THEN Yield(FALSE)
                       ELSE Respond("yield", gr.qr.pl)
    [] op \in {"eq", "inst"} -> IF gr.qr.pl = 0 THEN Yield(TRUE) ELSE gr.qr
    [] op = "all" -> Bool(gr.r)
    [] op = "exists" -> IF gr.qr.st = "error" THEN gr.qr ELSE Bool(~gr.r)
Quantifier(f) == f.op \in {"all", "exists"}
\* Mutant of GenEnds: do_process is switched on whatever it was before.
GenEndsLoudly(f, gr, flag) ==
  /\ Returns(Generated(f.op, gr, flag))
  /\ scope' = f.sc
  /\ qctx' = IF Quantifier(f) THEN f.qc ELSE qctx
  /\ doProcess' = IF Quantifier(f) THEN TRUE ELSE doProcess
GenEnds(f, gr, flag) ==
  /\ Returns(Generated(f.op, gr, flag))
  /\ scope' = f.sc
  /\ qctx' = IF Quantifier(f) THEN f.qc ELSE qctx
  /\ doProcess' = IF Quantifier(f) THEN f.dp ELSE doProcess

ValueReturns ==
  /\ Answered("gen")
  /\ LET f == Top
         gr == Process(f.op, ret)
         flag == f.found \/ gr.flag
     IN  \/ /\ gr.r
            /\ stack' = WithTop([f EXCEPT !.found = flag])
            /\ ret' = NoResp
            /\ scope' = f.sc
            /\ UNCHANGED <<qctx, doProcess>>
         \/ ~gr.r /\ GenEnds(f, gr, flag)
  /\ UNCHANGED <<mem, cut, depth, env>>

NoMoreValues ==
  /\ GoesOn("gen") /\ Top.todo = {}
  /\ GenEnds(Top, [r |-> TRUE, qr |-> Yield(TRUE)], Top.found)
  /\ UNCHANGED <<mem, cut, depth, env>>

Generators == EvalUnify \/ EvalIntersect \/ EvalQuant \/ NextValue
                \/ ValueReturns \/ NoMoreValues

-----------------------------------------------------------------------------
(* Implication, choice, sets *)

\* `cond -> goals`: three qcontexts on top of each other, and a scope that is
\* not left for the next two ends of a list.
EvalImply ==
  /\ Evaluating("imply") /\ qctx # 0
  /\ LET fact == prog.block[CurrentGoal.body[1]]
         for == prog.block[CurrentGoal.body[2]]
         n == Len(qctxs)
     IN  /\ qctxs' = [qctxs EXCEPT ![qctx].expset = Rest]
                       \o <<NewQContext(Rest, qctxs[qctx].next),
                            NewQContext(for, n + 1), NewQContext(fact, n + 2)>>
         /\ qctx' = n + 3
         /\ scopes' = Append(scopes, [Here EXCEPT !.repeat = @ + 2])
         /\ scope' = Len(scopes) + 1
         /\ stack' = stack \o
              <<[k |-> "imply", sc |-> scope, qc |-> qctx,
                 old |-> CurrentList, at |-> n + 3],
                Start(fact, Len(scopes) + 1)>>
  /\ UNCHANGED <<nlink, tracked, cut, depth, doProcess, ret, env>>

ImplyReturns ==
  /\ Answered("imply")
  /\ LET f == Top
     IN  \/ /\ ret.st \in {"error", "stop"}
            /\ Returns(ret)
            /\ UNCHANGED <<qctxs, qctx, scope>>
         \/ /\ ret.st \notin {"error", "stop"}
            /\ Returns(IF ret.pl = 0 /\ ~qctxs[f.at].flagme THEN Bool(TRUE)
                       ELSE Respond("yield", ret.pl))
            /\ qctxs' = [qctxs EXCEPT ![f.qc].expset = f.old]
            /\ BackTo(f)
  /\ UNCHANGED <<scopes, nlink, tracked, cut, depth, doProcess, env>>

\* `{...} | {...}`: the alternatives one after the other.
EvalChoice ==
  /\ Evaluating("choice") /\ qctx # 0
  /\ stack' = Append(stack,
       [k |-> "choice", g |-> CurrentGoal, code |-> Rest, sc |-> scope,
        qc |-> qctx, old |-> <<>>, i |-> 1, save |-> cut, committed |-> FALSE])
  /\ UNCHANGED <<mem, ctl, ret, env>>

NextAlternative ==
  /\ GoesOn("choice") /\ Top.i <= Len(Top.g.body)
  /\ LET f == Top
         list == prog.block[f.g.body[f.i]]
         copy == Len(scopes) + 1
     IN  /\ scopes' = Append(scopes, [Here EXCEPT !.repeat = @ + 1])
         /\ scope' = copy
         /\ qctxs' = Append([qctxs EXCEPT ![f.qc].expset = f.code],
                            NewQContext(list, f.qc))
         /\ qctx' = Len(qctxs) + 1
         /\ stack' = Append(WithTop([f EXCEPT !.old = qctxs[f.qc].expset]),
                            Start(list, copy))
  /\ UNCHANGED <<nlink, tracked, cut, depth, doProcess, ret, env>>

\* An error leaves everything as it is; a stop counts as a failure; a cut
\* evaluated in the alternative ends the choice.
AlternativeReturns ==
  /\ Answered("choice")
  /\ LET f == Top
         ok == ret.st = "true" \/ ret = Yield(TRUE)
     IN  \/ /\ ret.st = "error"
            /\ Returns(ret)
            /\ UNCHANGED <<qctxs, qctx, scope>>
         \/ /\ ret.st # "error"
            /\ \/ /\ ok /\ cut # f.save
                  /\ Returns(Yield(TRUE))
               \/ /\ ~(ok /\ cut # f.save)
                  /\ stack' = WithTop([f EXCEPT !.i = @ + 1])
                  /\ ret' = NoResp
            /\ qctxs' = [qctxs EXCEPT ![f.qc].expset = f.old]
            /\ BackTo(f)
  /\ UNCHANGED <<scopes, nlink, tracked, cut, depth, doProcess, env>>

NoMoreAlternatives ==
  /\ GoesOn("choice") /\ Top.i > Len(Top.g.body)
  /\ Returns(Yield(TRUE))
  /\ UNCHANGED <<mem, ctl, env>>

SetList == prog.block[CurrentGoal.body[1]]
EvaluatingSet(op) == Evaluating(op) /\ SetList # <<>>
SetReady == qctx # 0 /\ CurrentList # <<>>

\* `{}`
EvalEmptySet ==
  /\ \E op \in {"iso", "set"} : Evaluating(op) /\ SetList = <<>>
  /\ ret' = Bool(TRUE)
  /\ UNCHANGED <<stack, mem, ctl, env>>

\* `#{...}`: a private scope, nothing after it, nothing shown.
EvalIsolated ==
  /\ EvaluatingSet("iso") /\ SetReady
  /\ scopes' = Append(scopes, [Here EXCEPT !.next = 0, !.repeat = 0])
  /\ scope' = Len(scopes) + 1
  /\ qctxs' = Append([qctxs EXCEPT ![qctx].expset = Tail(@)],
                     NewQContext(SetList, 0))
  /\ qctx' = Len(qctxs) + 1
  /\ doProcess' = FALSE
  /\ stack' = stack \o
       <<[k |-> "iso", sc |-> scope, qc |-> qctx, old |-> CurrentList,
          dp |-> doProcess], Start(SetList, Len(scopes) + 1)>>
  /\ UNCHANGED <<nlink, tracked, cut, depth, ret, env>>

IsolatedReturns ==
  /\ Answered("iso")
  /\ Returns(IF ret.st = "yield" THEN Bool(ret.pl = 1) ELSE ret)
  /\ doProcess' = Top.dp
  /\ BackTo(Top)
  /\ UNCHANGED <<mem, cut, depth, env>>

\* `{...}`: what follows it is the tail of qctx->expset.
EvalSet ==
  /\ EvaluatingSet("set") /\ SetReady
  /\ qctxs' = Append([qctxs EXCEPT ![qctx].expset = Tail(@)],
                     NewQContext(SetList, qctx))
  /\ qctx' = Len(qctxs) + 1
  /\ stack' = stack \o
       <<[k |-> "set", sc |-> scope, qc |-> qctx, old |-> CurrentList,
          dp |-> doProcess], Start(SetList, scope)>>
  /\ UNCHANGED <<scopes, nlink, tracked, scope, cut, depth, doProcess, ret, env>>

SetReturns ==
  /\ Answered("set")
  /\ Returns(ret)
  /\ qctxs' = [qctxs EXCEPT ![Top.qc].expset = Top.old]
  /\ qctx' = Top.qc
  /\ UNCHANGED <<scopes, nlink, tracked, scope, cut, depth, doProcess, env>>

\* A NULL qcontext, or the tail of an expression list that has run out.
GoalCrashes ==
  /\ \/ qctx = 0 /\ (Evaluating("imply") \/ Evaluating("choice"))
     \/ ~SetReady /\ (EvaluatingSet("iso") \/ EvaluatingSet("set"))
  /\ Crash

Branching == EvalImply \/ ImplyReturns \/ EvalChoice \/ NextAlternative
  \/ AlternativeReturns \/ NoMoreAlternatives \/ EvalEmptySet \/ EvalIsolated
  \/ IsolatedReturns \/ EvalSet \/ SetReturns

-----------------------------------------------------------------------------
(* The specification *)

\* laure_process_query: the query runs in the session's global scope.
Init ==
  /\ prog \in Programs
  /\ mode \in Modes
  /\ scopes = <<[idx |-> 1, repeat |-> 0, next |-> 0,
                 cell |-> [n \in Names |->
                   IF \E j \in 1 .. Len(prog.imaged) : prog.imaged[j] = n
                   THEN [link |-> CHOOSE j \in 1 .. Len(prog.imaged) :
                                    prog.imaged[j] = n,
                         dom |-> Vals, single |-> FALSE]
                   ELSE NoCell]]>>
  /\ qctxs = <<NewQContext(prog.query, 0)>>
  /\ scope = 1 /\ qctx = 1
  /\ cut = 0 /\ depth = 0
  /\ doProcess = TRUE
  /\ nlink = Len(prog.imaged)
  /\ tracked = [n \in Names |-> 0]
  /\ stack = <<Start(prog.query, 1)>>
  /\ ret = NoResp
  /\ out = <<>>

\* The query is over; ret is its verdict.
Finished == stack = <<>> /\ UNCHANGED vars

Next == Immediate \/ LaureStart \/ PredCall \/ CallCrashes \/ Generators
          \/ Branching \/ GoalCrashes \/ Finished

Spec == Init /\ [][Next]_vars
FairSpec == Spec /\ WF_vars(Next)

-----------------------------------------------------------------------------
(* Properties *)

Running == stack # <<>>
Ended(st, pl) == ~Running /\ ret = Respond(st, pl)
Calls == {j \in 1 .. Len(stack) : stack[j].k = "call"}
\* laure_eval_quant and an isolated laure_eval_set: solutions of their goals
\* are not answers.
Muted == \E j \in 1 .. Len(stack) :
           stack[j].k = "iso" \/ (stack[j].k = "gen" /\ Quantifier(stack[j]))

\* The types of the variables.
TypeOK ==
  /\ mode \in Modes
  /\ stack \in Seq(Frame)
  /\ scopes \in Seq(Scope) /\ qctxs \in Seq(QContext)
  /\ scope \in 1 .. Len(scopes) /\ qctx \in 0 .. Len(qctxs)
  /\ cut \in Nat /\ depth \in Int /\ doProcess \in BOOLEAN
  /\ nlink \in Nat /\ tracked \in [Names -> 0 .. nlink]
  /\ ret \in Resp
  /\ out \in Seq([answer : [Names -> SUBSET Vals],
                 reply : {";", ".", "...", "more", "enough"}])

\* No instance runs out of values: the intersections with a hint, with a set
\* of values and with another instance are checked before they are stored, in
\* every copy of a scope.
NoEmptyInstance ==
  \A a \in 1 .. Len(scopes) : \A n \in Names :
    scopes[a].cell[n].link # 0 => scopes[a].cell[n].dom # {}

\* recursion_depth is a bound for the C stack: the calls in progress were
\* entered at different depths, each below the counter, and the counter never
\* exceeds max_recursion_depth, in spite of the returns that skip a decrement.
DepthBounds ==
  /\ depth \in 0 .. MaxDepth
  /\ \A j \in Calls : stack[j].d < depth
  /\ \A i, j \in Calls : i < j => stack[i].d < stack[j].d

\* A call gives back what it took: after a query that ends with a verdict the
\* recursion counter is zero again (laure_eval_pred_call's last lines).
DepthReleased == (~Running /\ ret.st = "yield") => depth = 0

\* vpk->do_process is off exactly while a quantifier or an isolated set is
\* being evaluated, whatever its goals return.
Quiet == Running => (doProcess <=> ~Muted)

\* Hence nothing inside a quantifier or an isolated set is shown or sent.
NoAnswerInside == [][out' # out => ~Muted]_vars

\* An expression is evaluated in the scope its list was started in: whatever
\* ran before it, further copies of scopes included, has been undone.  A
\* variation starts from the caller's bindings as they were, whatever the one
\* before did to them.
ScopeRestored ==
  /\ (GoesOn("start") /\ Top.code # <<>>) => scope = Top.sc
  /\ (GoesOn("call") /\ Top.ph = "next") => scopes[Top.at] = scopes[Top.sc]

\* The activations that run what they start in copies of their scope, which is all
\* but a list and a set that is not isolated.
Copying(f) == f.k \in {"call", "gen", "choice", "imply", "iso"}

\* Backtracking.  A variation starts in the caller's scope with the bindings the call
\* began with, whatever the variations before it did: the copy they are made from stays
\* as it is.  And nothing that runs inside a call, for a value, in an alternative, under
\* an implication or in an isolated set binds anything in the scope these were met in.
\* Only the global scope is written by name from anywhere.
VariationsStartAlike ==
  (GoesOn("call") /\ Top.ph = "next") =>
    /\ scope = Top.sc
    /\ Top.sc # 1 => scopes[Top.at] = scopes[Top.sc]
KeepsCallers ==
  /\ \A j \in Calls : scopes'[stack[j].at] = scopes[stack[j].at]
  /\ \A j \in 1 .. Len(stack) - 1 :
       (Copying(stack[j]) /\ stack[j].sc # 1)
         => scopes'[stack[j].sc] = scopes[stack[j].sc]
BindingsReturn == [][VariationsStartAlike /\ KeepsCallers]_vars

\* The list under evaluation is what remains of its context's list: a set
\* finds what follows it there, and so does the continuation of a body.
ContextOwnsList ==
  (GoesOn("start") /\ Top.code # <<>>) =>
    /\ qctx # 0
    /\ LET list == CurrentList
           k == Len(list) - Len(Top.code)
       IN  k >= 0 /\ Top.code = SubSeq(list, k + 1, Len(list))

\* Links identify variables: no two cells of a scope have the same one, so that
\* a binding found in a body reaches one cell of the caller.
ScopeLinks ==
  \A a \in 1 .. Len(scopes) : \A n, m \in Names :
    (n # m /\ scopes[a].cell[n].link # 0)
      => scopes[a].cell[n].link # scopes[a].cell[m].link

\* At the query's level a link is that of one variable in all the copies of the
\* scope and in the table of tracked names at once, so that an answer shows for
\* a variable what was found for it and for no other.
LinksOf(n) == {tracked[n]} \cup
  {scopes[a].cell[n].link : a \in {b \in 1 .. Len(scopes) : scopes[b].idx = 1}}
QueryLinks == \A n, m \in Names : n # m => LinksOf(n) \cap LinksOf(m) \subseteq {0}

LinksDistinct == ScopeLinks /\ QueryLinks

\* A call, a generator or a choice that a cut has committed starts nothing more
\* once it has control again.
CommittedStops ==
  (ret = NoResp /\ Running /\ Top.k \in {"call", "gen", "choice"} /\ Top.committed)
    => Len(stack') < Len(stack)

\* docs/tutor.md on the cut: it cannot be backtracked and other variations are
\* not run.
CutCommits == [][CommittedStops]_vars

\* Every query ends, by itself or at the recursion limit.
Terminates == <>(~Running)
=============================================================================
