------------------------------ MODULE Clients -------------------------------
(***************************************************************************)
(* The functions of the interpreter that use a cleanup context, as what    *)
(* they do with memory, line by line (see Memguard for the steps).         *)
(***************************************************************************)
EXTENDS Naturals, Sequences, TLC

Line(op, x) == [op |-> op, x |-> x, xs |-> {}, f |-> "", deep |-> FALSE, fails |-> FALSE, cleanup |-> FALSE]

(* laure_alloc, or a function that makes something, whose result the code  *)
(* checks; and one whose result it does not check.                         *)
MayBeNull(x) == [Line("acquire", x) EXCEPT !.fails = TRUE]
Made(x) == Line("acquire", x)

(* Give up with MEMGUARD_CLEANUP, with nothing, or after freeing xs. *)
CheckOrCleanup(x) == [Line("check", x) EXCEPT !.cleanup = TRUE]
CheckOrReturn(x) == Line("check", x)
CheckOrFree(x, xs) == [Line("check", x) EXCEPT !.xs = xs]
TestOrCleanup == [Line("test", "a") EXCEPT !.cleanup = TRUE]

Register(x) == Line("register", x)
RegisterDeep(x) == [Line("register", x) EXCEPT !.deep = TRUE]

(* MEMGUARD_ALLOC, and its check. *)
Alloc(x) == <<MayBeNull(x), Register(x), CheckOrCleanup(x)>>

Owns(x, xs) == [Line("own", x) EXCEPT !.xs = xs]
Calls(f, x) == [Line("call", x) EXCEPT !.f = f]

(* MEMGUARD_TRANSFER_OWNERSHIP; MEMGUARD_CLEANUP; return x *)
HandOver(x) == <<Line("transfer", x), Line("destroy", x), Line("return", x)>>

------------------------------------------------------------------------------

(* laure_vpk_create: the array of names is reallocated for each of the     *)
(* query's variables, but it is registered under its first address.        *)
VpkCreate(variables) ==
  Alloc("a") \o [v \in 1 .. variables |-> Line("grow", "a")] \o Alloc("b") \o <<Owns("b", {"a"})>> \o HandOver("b")

(* control_new: the context, its answer scope and its weighted search. *)
ControlNew ==
  Alloc("a") \o <<MayBeNull("b"), CheckOrCleanup("b"), Register("b"), MayBeNull("c"), CheckOrCleanup("c"), Register("c"), Owns("a", {"b", "c"})>> \o HandOver("a")

(* instance_deepcopy: the instance and its image. *)
InstanceDeepcopy ==
  Alloc("a") \o <<MayBeNull("b"), CheckOrCleanup("b"), RegisterDeep("b"), Owns("a", {"b"})>> \o HandOver("a")

(* search_path: a buffer, and a copy of it if there is such a file. *)
SearchPath == Alloc("a") \o <<TestOrCleanup, Made("b"), Line("destroy", "b"), Line("return", "b")>>

(* One side of a range: the number and its words. *)
Bound(x, words) == Alloc(x) \o <<Made(words), Owns("c", {x, words})>>

(* int_translator on l..r: two strings, then a domain with the bounds. *)
IntTranslator(left, right) ==
  Alloc("a") \o Alloc("b") \o <<TestOrCleanup, TestOrCleanup, MayBeNull("c"), CheckOrCleanup("c"), Register("c")>>
    \o (IF left THEN Bound("d", "e") ELSE <<>>) \o (IF right THEN Bound("g", "h") ELSE <<>>) \o HandOver("c")

(* create_union_from_clarifiers of two names, and of more: what it has is  *)
(* freed by hand.                                                          *)
UnionOfTwo ==
  <<MayBeNull("a"), CheckOrReturn("a"), MayBeNull("b"), CheckOrFree("b", {"a"}), Made("c"), Owns("c", {"a", "b"}), Line("return", "c")>>
UnionOfMore(next) ==
  <<MayBeNull("a"), CheckOrReturn("a"), Calls(next, "d"), CheckOrFree("d", {"a"}), Made("b"), Owns("b", {"d"}),
    Made("c"), Owns("c", {"a", "b"}), Line("return", "c")>>

(* create_union_from_clarifiers_safe: nothing is freed when a name is not  *)
(* found or the rest of the union fails.                                   *)
SafeJoin == <<MayBeNull("c"), CheckOrCleanup("c"), Owns("c", {"a", "b"})>> \o HandOver("c")
SafeUnionOfTwo ==
  <<MayBeNull("a"), CheckOrReturn("a"), RegisterDeep("a"), MayBeNull("b"), CheckOrReturn("b"), RegisterDeep("b")>> \o SafeJoin
SafeUnionOfMore(next) ==
  <<MayBeNull("a"), CheckOrReturn("a"), RegisterDeep("a"), Calls(next, "d"), CheckOrReturn("d"),
    MayBeNull("b"), CheckOrReturn("b"), Owns("b", {"d"}), RegisterDeep("b")>> \o SafeJoin

------------------------------------------------------------------------------
ClientLocals == {"a", "b", "c", "d", "e", "g", "h"}

ClientFunctions ==
  "laure_vpk_create" :> VpkCreate(0) @@ "laure_vpk_create of two" :> VpkCreate(2)
  @@ "control_new" :> ControlNew @@ "instance_deepcopy" :> InstanceDeepcopy @@ "search_path" :> SearchPath
  @@ "int_translator" :> IntTranslator(TRUE, TRUE) @@ "int_translator of l.." :> IntTranslator(TRUE, FALSE)
  @@ "int_translator of ..r" :> IntTranslator(FALSE, TRUE)
  @@ "union of two" :> UnionOfTwo @@ "union of three" :> UnionOfMore("union of two")
  @@ "union of four" :> UnionOfMore("union of three")
  @@ "safe union of two" :> SafeUnionOfTwo @@ "safe union of three" :> SafeUnionOfMore("safe union of two")
=============================================================================
