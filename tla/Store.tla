--------------------------------- MODULE Store ---------------------------------
(***************************************************************************)
(* What a scope promises to the evaluator: a value for each name it holds, *)
(* that no other scope can change.  A copy starts from the same values and *)
(* goes its own way; this is what makes an abandoned branch harmless.      *)
(***************************************************************************)
EXTENDS Functions

CONSTANTS Scopes, Names, Values, NoStore

VARIABLE store   \* [Scopes -> a function from some of Names to Values, or NoStore]

Held(s) == DOMAIN store[s]
Live(s) == store[s] # NoStore

Init == \E g \in Scopes : store = [s \in Scopes |-> IF s = g THEN <<>> ELSE NoStore]

Set(s, n, v) == [store EXCEPT ![s] = [m \in Held(s) \cup {n} |-> IF m = n THEN v ELSE store[s][m]]]

Declare(s, n, v) == Live(s) /\ n \notin Held(s) /\ store' = Set(s, n, v)
Assign(s, n, v)  == Live(s) /\ n \in Held(s) /\ store' = Set(s, n, v)
Rename(s, n, m)  == /\ Live(s) /\ n \in Held(s) /\ m \notin Held(s)
                    /\ store' = [store EXCEPT ![s] =
                         [k \in (Held(s) \ {n}) \cup {m} |-> store[s][IF k = m THEN n ELSE k]]]
Open(s)          == ~Live(s) /\ store' = [store EXCEPT ![s] = <<>>]
Copy(s, t)       == Live(s) /\ ~Live(t) /\ store' = [store EXCEPT ![t] = store[s]]
Close(s)         == Live(s) /\ store' = [store EXCEPT ![s] = NoStore]

Next ==
  \/ \E s \in Scopes, n \in Names, v \in Values : Declare(s, n, v) \/ Assign(s, n, v)
  \/ \E s \in Scopes, n, m \in Names : Rename(s, n, m)
  \/ \E s \in Scopes : Open(s) \/ Close(s)
  \/ \E s, t \in Scopes : Copy(s, t)

Spec == Init /\ [][Next]_store
===============================================================================
