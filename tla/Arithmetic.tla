----------------------------- MODULE Arithmetic -----------------------------
(***************************************************************************)
(* What integers and the predicates on them promise (lib/lib.l: `a + b = c`*)
(* and `+(a, b) = c`, multiplication, `sqrt`): a variable holds an integer *)
(* or none yet, and an equation that is answered yes holds of the integers *)
(* that its variables then have; one that is refused cannot hold.          *)
(***************************************************************************)
EXTENDS Integers

CONSTANTS Vars, NoInt

VARIABLES worth, asked, said

Known(v) == v # NoInt

\* s is the square root of n, rounded down or up.
Root(n, s, up) == IF up THEN s * s >= n /\ (s = 0 \/ (s - 1) * (s - 1) < n)
                  ELSE s * s <= n /\ (s + 1) * (s + 1) > n

\* Of the integers v of the arguments, the equation q holds.
Holds(q, v) ==
  CASE q.op = "is"   -> v[q.x] = q.n
    [] q.op = "eq"   -> v[q.x] = v[q.y]
    [] q.op = "plus" -> v[q.x] + v[q.y] = v[q.z]
    [] q.op = "mul"  -> v[q.x] * v[q.y] = v[q.z]
    [] q.op = "mod"  -> v[q.x] * v[q.y] + v[q.r] = v[q.z]
    [] q.op = "sqrt" -> Root(v[q.x], v[q.z], q.up)

Args(q) == CASE q.op = "is" -> {q.x}
             [] q.op = "eq" -> {q.x, q.y}
             [] q.op = "sqrt" -> {q.x, q.z}
             [] q.op = "mod" -> {q.x, q.y, q.z, q.r}
             [] OTHER -> {q.x, q.y, q.z}
AllKnown(q, v) == \A x \in Args(q) : Known(v[x])

\* What is promised of no answer.  A product and a factor that is zero do not
\* give the other factor; a remainder is computed, not asked for, and only
\* where something is divided; roots are those of numbers that are not
\* negative; a square that more than a word holds is rounded up past its root.
NoPromise(q, v, word) ==
  \/ q.op \in {"mul", "mod"} /\ Known(v[q.z])
     /\ (Known(v[q.x]) # Known(v[q.y])) /\ 0 \in {v[q.x], v[q.y]} \ {NoInt}
  \/ /\ q.op = "mod"
     /\ Known(v[q.r]) \/ ~Known(v[q.z]) \/ (Known(v[q.x]) = Known(v[q.y]))
  \/ q.op = "sqrt" /\ \E x \in {q.x, q.z} : Known(v[x]) /\ v[x] < 0
  \/ q.op = "sqrt" /\ q.up /\ Known(v[q.x]) /\ v[q.x] >= word

\* The remainder of a division is less, of either sign, than what was known to
\* divide.
Less(m, n) == \/ m < n /\ -m < n
              \/ m < -n /\ -m < -n
RemainderIsLess(q, v, u) ==
  q.op = "mod" => \A x \in {q.x, q.y} : Known(v[x]) => Less(u[q.r], v[x])

Keeps == \A x \in Vars : Known(worth[x]) => worth'[x] = worth[x]

\* An integer is not changed by an answer, and what is answered is true.
Says(q, word) ==
  \/ /\ said' = "true" /\ Keeps
     /\ AllKnown(q, worth') => Holds(q, worth') /\ RemainderIsLess(q, worth, worth')
  \/ said' = "false" /\ worth' = worth
     /\ (AllKnown(q, worth) => ~Holds(q, worth))
     /\ \E x \in Args(q) : Known(worth[x])
  \/ said' = "first" /\ worth' = worth /\ ~AllKnown(q, worth)
  \/ NoPromise(q, worth, word)
=============================================================================
