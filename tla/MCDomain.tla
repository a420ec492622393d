------------------------------ MODULE MCDomain ------------------------------
(***************************************************************************)
(* Programs for TLC: x and y are open integers, c and d are instantiated,  *)
(* and the program makes its requests in any order.                        *)
(***************************************************************************)
EXTENDS Domain

MCVars == {"x", "y", "c", "d"}
MCWindow == -2 .. 6
MCStart == [v \in MCVars |-> IF v = "c" THEN Single(3) ELSE IF v = "d" THEN Single(5)
                             ELSE Open(Inf, Inf)]

R == [op |-> "is", x |-> "x", y |-> "y", n |-> 0, l |-> Inf, r |-> Inf]
Is(x, n) == [R EXCEPT !.x = x, !.n = n]
In(x, l, r) == [R EXCEPT !.op = "in", !.x = x, !.l = l, !.r = r]
Gt(x, y) == [R EXCEPT !.op = "gt", !.x = x, !.y = y]
Gte(x, y) == [R EXCEPT !.op = "gte", !.x = x, !.y = y]
Eq(x, y) == [R EXCEPT !.op = "eq", !.x = x, !.y = y]

\* x and y above, below, between and equal to c, d and each other
NarrowRequests ==
  {Gt("x", "c"), Gte("x", "c"), Gt("d", "x"), Gt("y", "c"), Gte("y", "d"),
   Gt("d", "y"), Gt("c", "x"), Eq("x", "y"), Eq("c", "y"), Gt("x", "y"),
   Is("x", 4), In("x", Inc(4), Sec(6)), In("y", Sec(-1), Inc(4)),
   Gte("d", "y"), Gte("x", "y")}
=============================================================================
