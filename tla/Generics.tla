-------------------------------- MODULE Generics -------------------------------
(***************************************************************************)
(* The types of predicate calls: how laure_eval_pred_call (src/query.c)    *)
(* finds a type for every generic of a header, from the type clarification *)
(* of the call, its response, its arguments and the signatures of the      *)
(* predicates among them; how the arguments are then checked or, unknown,  *)
(* created; and how `q ~ p{T=int}' makes a predicate of bound types        *)
(* (laure_dom_predicate_bound_types, src/instance.c).                      *)
(*                                                                         *)
(* The header of a predicate, its args and resp, is shared by all copies   *)
(* of its instance (image_deepcopy copies the pointers): headers have      *)
(* addresses, and resolution writes to the headers of predicates passed to *)
(* a call.  Arrays made for a nesting are kept in the global scope by name *)
(* (get_nested_instance).  A query runs its goals one after another in one *)
(* scope; what the bodies of predicates do is the matter of Search.        *)
(***************************************************************************)
EXTENDS Naturals, Sequences, SequencesExt

CONSTANTS
  Letters,      \* names of generics
  TypeNames,    \* int, char: types of the global scope
  Declared,     \* [args, resp] of each predicate consulted, addressed 1..Len(Declared)
  Names,        \* names of these predicates, in the same order
  Scopes,       \* scopes of queries: the instance of each variable known
  Goals,        \* calls and clarifications a query may be made of
  Default,      \* [name of a predicate -> type name or ""]: the flags T:<predicate>
  NoIns,        \* no instance
  NoArg,        \* no response expression
  MaxGoals, MaxQueries

VARIABLES
  types,        \* types of the global scope by name, a name and its number of []
  headers,      \* headers by address
  scope,        \* of the query
  goal,         \* under evaluation, or NoGoal
  at,           \* the declaration of its header to come next
  generics,     \* Generics[]: an instance, or NoIns, for each letter
  bound,        \* what its arguments became: [ins, known, decl]
  phase,        \* "idle" | "resolve" | "bind" | an outcome
  asked,        \* goals and queries so far (bounded)
  made          \* history: clarified headers, [from, clar, to]

vars == <<types, headers, scope, goal, at, generics, bound, phase, asked, made>>
-------------------------------------------------------------------------------
(* Instances: a name, the name and kind of the innermost element and the     *)
(* depth of the array around it; a predicate has the address of its header.  *)
Ins(name, el, base, depth) == [name |-> name, el |-> el, base |-> base, depth |-> depth, header |-> 0]
Type(n)           == Ins(<<n, 0>>, <<n, 0>>, n, 0)
Pred(name, a)     == [Ins(<<name, 0>>, <<name, 0>>, "pred", 0) EXCEPT !.header = a]
IsCallable(ins)   == ins # NoIns /\ ins.base = "pred"

(* Declarations of a header.  "lent": an instance of Generics[], which       *)
(* belongs to the call that wrote it; "freed": it no longer does.            *)
Generic(g, n) == [t |-> "generic", g |-> g, ins |-> NoIns, nest |-> n]
Typed(ins, n) == [t |-> "instance", g |-> "", ins |-> ins, nest |-> n]
Lent(ins, n)  == [Typed(ins, n) EXCEPT !.t = "lent"]
Freed         == [Typed(NoIns, 0) EXCEPT !.t = "freed"]
NoDecl        == [Typed(NoIns, 0) EXCEPT !.t = "none"]
IsTyped(d)    == d.t \in {"instance", "lent"}
IsSignature(d) == IsTyped(d) /\ IsCallable(d.ins)

HasFreed(h)    == h.resp.t = "freed" \/ \E i \in 1..Len(h.args) : h.args[i].t = "freed"

NoGoal == [k |-> "none"]
Lookup(n) ==
  IF n \in DOMAIN scope THEN scope[n]
  ELSE IF \E i \in 1..Len(Names) : Names[i] = n
       THEN LET i == CHOOSE i \in 1..Len(Names) : Names[i] = n IN Pred(n, i)
       ELSE NoIns
TypeOf(ts, n) == IF <<n, 0>> \in DOMAIN ts THEN ts[<<n, 0>>] ELSE NoIns
\* laure_scope_find_by_key(scope, .., true) of the name of a type.
TypeNamed(ts, n) == IF n \in DOMAIN scope THEN scope[n] ELSE TypeOf(ts, n)

(* get_nested_instance: the array of so many brackets around an instance is  *)
(* found in the global scope, or made there, under the instance's name.      *)
Nest(ts, ins, n) ==
  LET key == <<ins.name[1], ins.name[2] + n>>
      new == [ins EXCEPT !.name = key, !.depth = @ + n, !.el = IF ins.depth = 0 THEN ins.name ELSE @]
  IN IF n = 0 THEN [types |-> ts, ins |-> ins]
     ELSE IF key \in DOMAIN ts THEN [types |-> ts, ins |-> ts[key]]
     ELSE [types |-> ts @@ (key :> new), ins |-> new]

\* laure_unwrap_nestings
Unwrapped(ins, n) ==
  IF ins.depth < n THEN NoIns
  ELSE IF n = 0 THEN ins
  ELSE Ins(<<ins.el[1], ins.depth - n>>, ins.el, ins.base, ins.depth - n)

(* get_derived_instance, get_array_derived: what an instance is of; an atom, *)
(* a union or a structure stands for itself, a predicate is of nothing.      *)
Derived(ts, ins) ==
  IF ins.depth > 0 THEN Nest(ts, Ins(ins.el, ins.el, ins.base, 0), ins.depth)
  ELSE [types |-> ts,
        ins |-> IF ins.base \in TypeNames THEN ts[<<ins.base, 0>>]
                ELSE IF IsCallable(ins) THEN NoIns ELSE ins]

\* prepare_T_instance
PreparedWhole(ts, ins, n) == Derived(ts, ins) \* mutant: the brackets are left on
Prepared(ts, ins, n) ==
  LET inner == Unwrapped(ins, n) IN
  IF inner = NoIns THEN [types |-> ts, ins |-> NoIns] ELSE Derived(ts, inner)
-------------------------------------------------------------------------------
(* Finding the types.  The work in progress is a record of types, headers,   *)
(* generics and ok, FALSE after a read of what is not there.                 *)
Work       == [types |-> types, headers |-> headers, g |-> generics, ok |-> TRUE]
Lost(s)    == [s EXCEPT !.ok = FALSE]
Set(s, g, r) == [s EXCEPT !.types = r.types, !.g[g] = r.ins]

(* One declaration of a signature against the same one, d, of the predicate  *)
(* passed (NoDecl: it has none).  A generic with a type is written to the    *)
(* predicate's header, whatever was declared there; one without takes the    *)
(* type it finds, less the brackets of the predicate's declaration.          *)
RECURSIVE Via(_, _, _)
\* mutant: a type that is found replaces the one there was
AgainstLast(s, sig, d) ==
  IF sig.t = "generic" /\ IsTyped(d)
  THEN [s |-> Set(s, sig.g, Prepared(s.types, d.ins, d.nest)), d |-> d]
  ELSE [s |-> s, d |-> d]
Against(s, sig, d) ==
  CASE d.t = "none" /\ (sig.t = "generic" \/ IsSignature(sig)) -> [s |-> Lost(s), d |-> d]
    [] sig.t = "generic" /\ s.g[sig.g] # NoIns -> [s |-> s, d |-> Lent(s.g[sig.g], d.nest)]
    [] sig.t = "generic" /\ IsTyped(d) ->
         [s |-> Set(s, sig.g, Prepared(s.types, d.ins, d.nest)), d |-> d]
    [] sig.t = "generic" /\ d.t = "freed" -> [s |-> Lost(s), d |-> d]
    [] IsSignature(sig) -> [s |-> IF IsSignature(d) THEN Via(s, sig.ins.header, d.ins.header) ELSE Lost(s),
                            d |-> d]
    [] sig.t = "freed" -> [s |-> Lost(s), d |-> d]
    [] OTHER -> [s |-> s, d |-> d]

(* resolve_via_signature: the header at a of a signature, against the header *)
(* at p of the predicate passed for it.                                      *)
Via(s, a, p) ==
  LET asArgument(r, i, d) == IF r.d = d THEN r.s ELSE [r.s EXCEPT !.headers[p].args[i] = r.d]
      argument(t, i) ==
        LET d == IF i <= Len(t.headers[p].args) THEN t.headers[p].args[i] ELSE NoDecl
        IN IF t.ok THEN asArgument(Against(t, t.headers[a].args[i], d), i, d) ELSE t
      asResponse(r, d) == IF r.d = d THEN r.s ELSE [r.s EXCEPT !.headers[p].resp = r.d]
      response(t) ==
        LET d == t.headers[p].resp
        IN IF t.ok THEN asResponse(Against(t, t.headers[a].resp, d), d) ELSE t
  IN response(FoldLeftDomain(argument, s, s.headers[a].args))

(* What a call says of its types: its response, of its own scope, and then   *)
(* its arguments, as far as they are variables that are known.               *)
Called == Lookup(goal.pred).header
Evidence(h) ==
  LET response == IF h.resp.t # "none" /\ goal.resp # NoArg /\ goal.resp.k = "name"
                  THEN IF goal.resp.n \in DOMAIN scope
                       THEN <<[decl |-> h.resp, ins |-> scope[goal.resp.n]]>> ELSE <<>>
                  ELSE <<>>
      argument(i) == [decl |-> h.args[i],
                      ins |-> IF goal.args[i].k = "name" THEN Lookup(goal.args[i].n) ELSE NoIns]
  IN SelectSeq(response \o [i \in 1..Len(h.args) |-> argument(i)], LAMBDA e : e.ins # NoIns)

(* resolve_generic_T: the first of these that is of the generic wanted, or a *)
(* predicate.  code is 1 if a variable was looked at.                        *)
Decides(e, g) == e.decl.t = "freed" \/ IsSignature(e.decl) \/ e.decl = Generic(g, e.decl.nest)
Resolved(s, g) ==
  LET found(v) == [s |-> v, ins |-> v.g[g], code |-> 0]
      by(e) ==
        IF e.decl.t = "generic"
        THEN LET r == Prepared(s.types, e.ins, e.decl.nest) IN
             [s |-> [s EXCEPT !.types = r.types], ins |-> r.ins, code |-> 1]
        ELSE IF ~IsSignature(e.decl) \/ ~IsCallable(e.ins) THEN [s |-> Lost(s), ins |-> NoIns, code |-> 0]
        ELSE found(Via(s, e.decl.ins.header, e.ins.header))
      first(deciding) ==
        IF deciding = <<>> THEN [s |-> s, ins |-> NoIns, code |-> 0] ELSE by(Head(deciding))
  IN first(SelectSeq(Evidence(s.headers[Called]), LAMBDA e : Decides(e, g)))

(* The clarification {..} of a call, but for a single name.  A name goes to  *)
(* the first argument's generic, if that has no type yet, or to the          *)
(* response's; it gets the brackets of the named one before it.              *)
OneClarifier(acc, c, h) ==
  LET s   == acc.s
      ins == IF c.g = "" THEN TypeOf(s.types, c.type) ELSE TypeNamed(s.types, c.type)
      n   == IF c.g = "" THEN acc.nest ELSE c.nest
      to  == IF c.g # "" THEN c.g
             ELSE IF h.args[1].t = "generic" /\ s.g[h.args[1].g] = NoIns THEN h.args[1].g
             ELSE h.resp.g
  IN IF acc.code # 0 THEN acc
     ELSE IF ins = NoIns THEN [acc EXCEPT !.code = 2]
     ELSE LET r == Nest(s.types, ins, n) IN
          [acc EXCEPT !.nest = n,
                      !.s = IF to = "" THEN [s EXCEPT !.types = r.types] ELSE Set(s, to, r)]
Clarified(s, h, clar) ==
  FoldLeft(LAMBDA acc, c : OneClarifier(acc, c, h), [s |-> s, code |-> 0, nest |-> 0], clar)
IsSingle(clar) == Len(clar) = 1 /\ clar[1].g = ""

(* generic_process: 0 when the declaration needs no type, or has got one.    *)
Unclarified(r, g) ==
  LET d == TypeNamed(r.s.types, Default[goal.pred]) IN
  IF r.ins # NoIns THEN [s |-> [r.s EXCEPT !.g[g] = r.ins], code |-> 0]
  ELSE IF ~r.s.ok \/ r.code = 1 THEN [s |-> r.s, code |-> 4]
  ELSE IF Default[goal.pred] = "" THEN [s |-> r.s, code |-> 3]
  ELSE IF d = NoIns THEN [s |-> r.s, code |-> 1]
  ELSE [s |-> [r.s EXCEPT !.g[g] = d], code |-> 0]
Processed(s, d) ==
  IF d.t # "generic" \/ s.g[d.g] # NoIns THEN [s |-> s, code |-> 0]
  ELSE IF IsSingle(goal.clar)
  THEN LET c == goal.clar[1] IN
       IF TypeOf(s.types, c.type) = NoIns THEN [s |-> s, code |-> 2]
       ELSE [s |-> Set(s, d.g, Nest(s.types, TypeOf(s.types, c.type), c.nest)), code |-> 0]
  ELSE LET acc == Clarified(s, s.headers[Called], goal.clar) IN
       IF acc.code # 0 \/ acc.s.g[d.g] # NoIns THEN [s |-> acc.s, code |-> acc.code]
       ELSE Unclarified(Resolved(acc.s, d.g), d.g)
-------------------------------------------------------------------------------
(* Arguments (pred_call_procvar).                                            *)

(* predicate_apply_generics: a copy of a header with the types found.  A     *)
(* signature within it is the same instance for both, and gets a copy itself *)
RECURSIVE Applied(_, _)
Applied(s, a) ==
  LET one(acc, d) ==
        IF d.t = "generic" /\ acc.s.g[d.g] # NoIns
        THEN LET r == Nest(acc.s.types, acc.s.g[d.g], d.nest) IN
             [s |-> [acc.s EXCEPT !.types = r.types], decls |-> Append(acc.decls, Typed(r.ins, d.nest))]
        ELSE IF IsSignature(d)
        THEN LET r == Applied(acc.s, d.ins.header) IN
             [s |-> [r.s EXCEPT !.headers[d.ins.header] = r.header], decls |-> Append(acc.decls, d)]
        ELSE [acc EXCEPT !.decls = Append(@, d)]
      h == s.headers[a]
      r == FoldLeft(one, [s |-> IF HasFreed(h) THEN Lost(s) ELSE s, decls |-> <<>>], Append(h.args, h.resp))
  IN [s |-> r.s, header |-> [h EXCEPT !.args = Front(r.decls), !.resp = Last(r.decls)]]

\* image_equals of uninstantiated images: of arrays, as far as the kind of the elements.
Head1(ins) == IF ins.depth = 0 THEN ins.base ELSE "array"
Element(ins) == [ins EXCEPT !.depth = @ - 1]
Alike(x, y) ==
  /\ Head1(x) = Head1(y)
  /\ x.depth > 0 => Head1(Element(x)) = Head1(Element(y))

\* The instance a declaration asks for, NoIns if there is none.
Hint(d) ==
  IF d.t # "generic" THEN [types |-> types, ins |-> d.ins]
  ELSE IF generics[d.g] = NoIns THEN [types |-> types, ins |-> NoIns]
  ELSE Nest(types, generics[d.g], d.nest)

Bound(d, ins, known) == bound' = Append(bound, [decl |-> d, ins |-> ins, known |-> known])
NewVariable(n, ins)  == [ins EXCEPT !.name = <<n, 0>>, !.el = IF ins.depth = 0 THEN <<n, 0>> ELSE @]

\* A known variable of the type asked for; for a signature, whatever it is.
BindKnown(d, e, hint) ==
  LET ins == Lookup(e.n) IN
  /\ e # NoArg /\ e.k = "name" /\ ins # NoIns
  /\ IF IsCallable(hint.ins) \/ Alike(ins, hint.ins)
     THEN Bound(d, ins, TRUE) /\ phase' = "bind"
     ELSE phase' = "false" /\ UNCHANGED bound
  /\ types' = hint.types
  /\ UNCHANGED <<headers, scope>>

\* An unknown variable becomes one of that type, in the scope of the query too.
BindUnknown(d, e, hint) ==
  /\ e # NoArg /\ e.k = "name" /\ Lookup(e.n) = NoIns
  /\ LET r   == Applied(Work, hint.ins.header)
         ins == IF IsCallable(hint.ins) THEN Pred(e.n, Len(headers) + 1) ELSE NewVariable(e.n, hint.ins)
     IN /\ scope' = scope @@ (e.n :> ins) /\ Bound(d, ins, FALSE)
        /\ IF ~IsCallable(hint.ins)
           THEN types' = hint.types /\ phase' = "bind" /\ UNCHANGED headers
           ELSE /\ headers' = Append(r.s.headers, r.header) /\ types' = r.s.types
                /\ phase' = IF r.s.ok THEN "bind" ELSE "undefined"

\* A value, translated by the type asked for.
BindValue(d, e, hint) ==
  /\ e # NoArg /\ e.k = "value"
  /\ IF e.base = hint.ins.base /\ e.depth = hint.ins.depth
     THEN Bound(d, hint.ins, FALSE) /\ phase' = "bind"
     ELSE phase' = "false" /\ UNCHANGED bound
  /\ types' = hint.types
  /\ UNCHANGED <<headers, scope>>

\* No expression: the response of its type, in the scope of the body only.
BindNothing(d, e, hint) ==
  /\ e = NoArg
  /\ Bound(d, hint.ins, FALSE) /\ phase' = "bind" /\ types' = hint.types
  /\ UNCHANGED <<headers, scope>>

(* What Generics[] has lent to headers is freed when the arguments are done, *)
(* and leaked, and alive, when the call is given up before.                  *)
Returned(h, alive) ==
  LET back(d) == IF d.t # "lent" THEN d ELSE IF alive THEN Typed(d.ins, d.nest) ELSE Freed IN
  [a \in 1..Len(h) |-> [h[a] EXCEPT !.args = [i \in DOMAIN @ |-> back(@[i])], !.resp = back(@)]]
-------------------------------------------------------------------------------
(* Clarification: q ~ p{..}, laure_dom_predicate_bound_types.                *)
RECURSIVE BoundTypes(_, _, _)

(* apply_clarifier: set is FALSE where there is nothing to clarify, and the  *)
(* declaration is then copied without its brackets.                          *)
\* mutant: the brackets of the declaration are forgotten
ApplyClarifierBare(s, d, ins, clar, check) ==
  [s |-> s, decl |-> Typed(ins, 0), set |-> d.t = "generic" /\ check, code |-> 0]
ApplyClarifier(s, d, ins, clar, check) ==
  IF d.t = "generic" /\ check
  THEN LET r == Nest(s.types, ins, d.nest) IN
       [s |-> [s EXCEPT !.types = r.types], decl |-> Typed(r.ins, 0), set |-> TRUE, code |-> 0]
  ELSE IF IsSignature(d)
  THEN LET r == BoundTypes(s, d.ins.header, clar) IN
       [s |-> r.s, decl |-> Typed([d.ins EXCEPT !.header = Len(r.s.headers)], 0),
        set |-> TRUE, code |-> r.code]
  ELSE [s |-> s, decl |-> d, set |-> FALSE, code |-> 0]

\* The copy in the making: NoDecl where a declaration is not set yet.
Unset(h) == {i \in 1..Len(h.args) : h.args[i] = NoDecl}
Place(acc, i, r) ==
  [acc EXCEPT !.s = r.s, !.code = r.code, !.copy.args[i] = IF r.set THEN r.decl ELSE @]
PlaceResp(acc, r, missed) ==
  [acc EXCEPT !.s = r.s, !.code = r.code, !.copy.resp = IF r.set THEN r.decl ELSE missed]

\* A name goes to the first declaration that is not set, and then to the response.
ByPosition(acc, unbound, ins, clar) ==
  IF Unset(acc.copy) # {}
  THEN LET i == CHOOSE j \in Unset(acc.copy) : \A k \in Unset(acc.copy) : j <= k IN
       Place(acc, i, ApplyClarifier(acc.s, unbound.args[i], ins, clar, TRUE))
  ELSE IF acc.copy.resp # NoDecl THEN [acc EXCEPT !.code = 5]
  ELSE IF unbound.resp = NoDecl THEN [acc EXCEPT !.s = Lost(@)]
  ELSE PlaceResp(acc, ApplyClarifier(acc.s, unbound.resp, ins, clar, TRUE), NoDecl)

(* T=name goes to every declaration of T.  A response that an earlier name   *)
(* has set is freed by one that it is not of, and counts as set.             *)
ByLetter(acc, unbound, g, ins, clar) ==
  LET one(b, i) ==
        IF b.code # 0 THEN b
        ELSE Place(b, i, ApplyClarifier(b.s, unbound.args[i], ins, clar, unbound.args[i].g = g))
      response(b) ==
        IF b.code # 0 \/ unbound.resp = NoDecl THEN b
        ELSE PlaceResp(b, ApplyClarifier(b.s, unbound.resp, ins, clar, unbound.resp.g = g),
                       IF b.copy.resp = NoDecl THEN NoDecl ELSE Freed)
  IN response(FoldLeftDomain(one, acc, unbound.args))

\* A single name is every generic's.
ToAll(acc, unbound, ins, clar) ==
  LET one(b, i) == IF b.code # 0 THEN b
                   ELSE Place(b, i, ApplyClarifier(b.s, unbound.args[i], ins, clar, TRUE))
      response(b) == IF b.code # 0 THEN b
                     ELSE PlaceResp(b, ApplyClarifier(b.s, unbound.resp, ins, clar, TRUE), NoDecl)
  IN response(FoldLeftDomain(one, acc, unbound.args))

BoundTypes(s, a, clar) ==
  LET unbound == s.headers[a]
      start == [s |-> IF HasFreed(unbound) THEN Lost(s) ELSE s, code |-> 0,
                copy |-> [unbound EXCEPT !.args = [i \in DOMAIN @ |-> NoDecl], !.resp = NoDecl]]
      one(acc, c) ==
        LET named == TypeNamed(acc.s.types, c.type)
            r     == Nest(acc.s.types, named, c.nest)
            next  == [acc EXCEPT !.s.types = r.types]
        IN IF acc.code # 0 \/ ~acc.s.ok THEN acc
           ELSE IF named = NoIns THEN [acc EXCEPT !.code = 1]
           ELSE IF IsSingle(clar) THEN ToAll(next, unbound, r.ins, clar)
           ELSE IF c.g = "" THEN ByPosition(next, unbound, r.ins, clar)
           ELSE ByLetter(next, unbound, c.g, r.ins, clar)
      kept(d, old) == IF d = NoDecl THEN [old EXCEPT !.nest = 0] ELSE d
      filled(copy) == [copy EXCEPT !.args = [i \in DOMAIN @ |-> kept(@[i], unbound.args[i])],
                                   !.resp = kept(@, unbound.resp)]
      end(acc) == [s |-> [acc.s EXCEPT !.headers = Append(@, filled(acc.copy))], code |-> acc.code]
  IN end(FoldLeft(one, start, clar))
-------------------------------------------------------------------------------
Nothing == [g \in Letters |-> NoIns]

GenericsInit ==
  /\ types = [n \in {<<t, 0>> : t \in TypeNames} |-> Type(n[1])]
  /\ headers = Declared
  /\ scope = <<>> /\ goal = NoGoal /\ at = 0 /\ generics = Nothing /\ bound = <<>>
  /\ phase = "over" /\ asked = [goals |-> 0, queries |-> 0] /\ made = <<>>

Query(sc) ==
  /\ phase = "over" /\ asked.queries < MaxQueries
  /\ scope' = sc /\ phase' = "idle" /\ asked' = [asked EXCEPT !.queries = @ + 1]
  /\ goal' = NoGoal /\ made' = <<>>
  /\ UNCHANGED <<types, headers, at, generics, bound>>

EndQuery ==
  /\ phase \in {"idle", "false", "error"} /\ phase' = "over"
  /\ UNCHANGED <<types, headers, scope, goal, at, generics, bound, asked, made>>

\* laure_typeset_all_instances: then nothing is resolved, the response included.
AllInstances(h) == \A i \in 1..Len(h.args) : h.args[i].t # "generic"
Declarations(h) == IF h.resp = NoDecl THEN h.args ELSE Append(h.args, h.resp)
Ask(gl) == goal' = gl /\ asked.goals < MaxGoals /\ asked' = [asked EXCEPT !.goals = @ + 1]

\* The call of a predicate; of anything else or a mere signature, an error.
Call(gl) ==
  /\ phase = "idle" /\ gl.k = "call"
  /\ Ask(gl)
  /\ LET h == headers[Lookup(gl.pred).header] IN
       phase' = IF ~IsCallable(Lookup(gl.pred)) \/ h.primitive \/ Len(gl.args) < Len(h.args) THEN "error"
                ELSE IF AllInstances(h) THEN "bind" ELSE "resolve"
  /\ at' = 1 /\ generics' = Nothing /\ bound' = <<>> /\ made' = <<>>
  /\ headers' = Returned(headers, TRUE)
  /\ UNCHANGED <<types, scope>>

\* The next declaration of the header gets its type, the response's the last.
Resolve ==
  /\ phase = "resolve" /\ at <= Len(Declarations(headers[Called]))
  /\ \E r \in {Processed(Work, Declarations(headers[Called])[at])} :
       /\ phase' = IF ~r.s.ok THEN "undefined"
                   ELSE IF r.code = 0 THEN "resolve" ELSE IF r.code = 4 THEN "false" ELSE "error"
       /\ types' = r.s.types /\ headers' = r.s.headers /\ generics' = r.s.g
  /\ at' = at + 1
  /\ UNCHANGED <<scope, goal, bound, asked, made>>

AllResolved ==
  /\ phase = "resolve" /\ at > Len(Declarations(headers[Called]))
  /\ phase' = "bind" /\ at' = 1
  /\ UNCHANGED <<types, headers, scope, goal, generics, bound, asked, made>>

\* The next argument, and last the response.
Expression == IF at <= Len(goal.args) THEN goal.args[at] ELSE goal.resp
Bind ==
  /\ phase = "bind" /\ at <= Len(Declarations(headers[Called]))
  /\ LET d == Declarations(headers[Called])[at]
         hint == Hint(d) IN
     /\ hint.ins # NoIns
     /\ \/ BindNothing(d, Expression, hint)
        \/ BindKnown(d, Expression, hint)
        \/ BindUnknown(d, Expression, hint)
        \/ BindValue(d, Expression, hint)
  /\ at' = at + 1
  /\ UNCHANGED <<goal, generics, asked, made>>

(* No hint: an assertion fails, but for a response without expression or     *)
(* brackets, which is an error.  Nothing is said of what follows the use of  *)
(* a freed declaration.                                                      *)
BindBreaks ==
  /\ phase = "bind" /\ at <= Len(Declarations(headers[Called]))
  /\ LET d == Declarations(headers[Called])[at] IN
       /\ Hint(d).ins = NoIns
       /\ phase' = IF d.t = "freed" THEN "undefined"
                   ELSE IF Expression = NoArg /\ d.nest = 0 THEN "error" ELSE "aborted"
  /\ UNCHANGED <<types, headers, scope, goal, at, generics, bound, asked, made>>

\* The arguments are done, Generics[] is freed, and the body runs.
Enter ==
  /\ phase = "bind" /\ at > Len(Declarations(headers[Called]))
  /\ headers' = Returned(headers, FALSE)
  /\ phase' = "entered"
  /\ UNCHANGED <<types, scope, goal, at, generics, bound, asked, made>>

Return ==
  /\ phase = "entered" /\ phase' = "idle"
  /\ UNCHANGED <<types, headers, scope, goal, at, generics, bound, asked, made>>

\* q ~ p{..}, of a predicate with clauses (laure_eval_image).
Clarify(gl) ==
  /\ phase = "idle" /\ gl.k = "clarify" /\ Lookup(gl.to) = NoIns
  /\ IsCallable(Lookup(gl.pred)) /\ ~headers[Lookup(gl.pred).header].primitive
  /\ Ask(gl)
  /\ \E a \in {Lookup(gl.pred).header} :
     \E r \in {BoundTypes([Work EXCEPT !.headers = Returned(@, TRUE)], a, gl.clar)} :
       /\ types' = r.s.types /\ headers' = r.s.headers
       /\ IF r.s.ok /\ r.code = 0
          THEN /\ scope' = scope @@ (gl.to :> Pred(gl.to, Len(r.s.headers)))
               /\ made' = <<[from |-> headers[a], to |-> Last(r.s.headers), clar |-> gl.clar]>>
               /\ phase' = phase
          ELSE /\ phase' = IF r.s.ok THEN "error" ELSE "undefined"
               /\ UNCHANGED <<scope, made>>
  /\ UNCHANGED <<at, generics, bound>>

GenericsNext ==
  \/ \E sc \in Scopes : Query(sc)
  \/ EndQuery
  \/ \E gl \in Goals : Call(gl) \/ Clarify(gl)
  \/ Resolve \/ AllResolved \/ Bind \/ BindBreaks \/ Enter \/ Return
GenericsSpec == GenericsInit /\ [][GenericsNext]_vars
-------------------------------------------------------------------------------
(* Properties.                                                               *)
Phases == {"over", "idle", "resolve", "bind", "entered", "false", "error", "aborted", "undefined"}
DeclOK(d) ==
  /\ d.t \in {"generic", "instance", "lent", "freed", "none"}
  /\ d.t = "generic" => d.g \in Letters
  /\ IsTyped(d) => d.ins # NoIns /\ d.ins.header \in 0..Len(headers)
GenericsTypeOK ==
  /\ phase \in Phases
  /\ \A n \in DOMAIN types : types[n].name = n /\ types[n].depth >= n[2]
  /\ \A a \in 1..Len(headers) : \A d \in Range(Append(headers[a].args, headers[a].resp)) : DeclOK(d)
  /\ \A n \in DOMAIN scope : scope[n].header \in 0..Len(headers)

(* When a body starts, what its call resolved, its variables and the types   *)
(* kept in the global scope fit together: a variable that was known is like  *)
(* its declared type, as far as images are compared, and one that was not    *)
(* has just that type.  A generic's is its type with the declaration's       *)
(* brackets, for a type that is not named after a variable.                  *)
Asked(d) ==
  IF d.t = "generic" THEN [generics[d.g] EXCEPT !.depth = @ + d.nest] ELSE d.ins
OfVariable(d) == d.t = "generic" /\ generics[d.g].name[1] \notin TypeNames
EnteredTyped ==
  phase = "entered" =>
    \A i \in 1..Len(bound) :
      LET b == bound[i] IN
      ~IsCallable(Asked(b.decl)) /\ ~OfVariable(b.decl) =>
        IF b.known THEN Alike(b.ins, Asked(b.decl))
        ELSE b.ins.base = Asked(b.decl).base /\ b.ins.depth = Asked(b.decl).depth

(* A call without clarification that is refused for its types, and passes no *)
(* predicate, could not have been accepted: no types of the generics make    *)
(* the variables known before it, and the values, fit the header.            *)
ExpressionAt(i) == IF i <= Len(goal.args) THEN goal.args[i] ELSE goal.resp
UnknownBefore(e) ==
  Lookup(e.n) = NoIns \/ \E j \in 1..Len(bound) : ExpressionAt(j) = e /\ ~bound[j].known
Fits(d, e, want) ==
  CASE e = NoArg -> TRUE
    [] e # NoArg /\ e.k = "value" -> e.base = want.base /\ e.depth = want.depth
    [] e # NoArg /\ e.k = "name" -> UnknownBefore(e) \/ Alike(Lookup(e.n), want)
PassesPredicate == \E e \in Range(goal.args) : e.k = "name" /\ IsCallable(Lookup(e.n))
Typeable ==
  LET ds == Declarations(headers[Called])
      used == {d.g : d \in {e \in Range(ds) : e.t = "generic"}}
      bases == {scope[n].base : n \in DOMAIN scope} \cup TypeNames
  IN \E f \in [used -> {Ins(<<b, k>>, <<b, 0>>, b, k) : b \in bases, k \in 0..2}] :
       \A i \in 1..Len(ds) :
         Fits(ds[i], ExpressionAt(i),
              IF ds[i].t = "generic" THEN [f[ds[i].g] EXCEPT !.depth = @ + ds[i].nest] ELSE ds[i].ins)
RefusedRightly ==
  phase = "false" /\ goal.clar = <<>> /\ ~PassesPredicate => ~Typeable

(* The assertion that a generic has a type fails for a response only, when   *)
(* all arguments have types of their own.                                    *)
OnlyResponsesAbort ==
  phase = "aborted" =>
    /\ AllInstances(headers[Called]) /\ at > Len(headers[Called].args)
    /\ headers[Called].resp.t = "generic"

(* q ~ p{T=int} and p{T=int}(..) name the same types: what the clarification *)
(* of the variable sets is what that of a call resolves.  A response that is *)
(* not of the last name given is lost.                                       *)
ForgottenResponse(m, d) ==
  \E i, j \in 1..Len(m.clar) : i < j /\ m.clar[i].g = d.g /\ m.clar[j].g # d.g
ClarifiedAlike ==
  made # <<>> /\ (\A i \in 1..Len(made[1].clar) : made[1].clar[i].g # "") =>
    LET m   == made[1]
        g   == Clarified([Work EXCEPT !.g = Nothing], m.from, m.clar).s.g
        old == Declarations(m.from)
        new == Declarations(m.to)
    IN \A i \in 1..Len(old) :
         old[i].t = "generic" /\ g[old[i].g] # NoIns =>
           \/ new[i] = Typed(Nest(types, g[old[i].g], old[i].nest).ins, 0)
           \/ new[i] = Freed /\ i > Len(m.from.args) /\ ForgottenResponse(m, old[i])

(* A type that a call has found for a generic stays, and the called header   *)
(* stays as it was declared, unless the predicate is passed to itself.       *)
PassesItself ==
  \E e \in Range(goal.args) :
    e.k = "name" /\ IsCallable(Lookup(e.n)) /\ Lookup(e.n).header = Called
KeepsTypes ==
  phase \in {"resolve", "bind"} =>
    /\ \A g \in Letters : generics[g] # NoIns => generics'[g] = generics[g]
    /\ ~PassesItself => headers'[Called] = headers[Called]
TypesAreKept == [][KeepsTypes]_vars
===============================================================================
