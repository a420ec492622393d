--------------------------------- MODULE Scopes --------------------------------
(***************************************************************************)
(* Scopes as src/scope.c keeps them (the array of cells, the build without *)
(* SCOPE_LINKED): a cell holds a link and a pointer to an instance; a name *)
(* is the instance's, and is looked for from the oldest cell on, then in   *)
(* the global scope.  Copying a scope copies the instances and keeps the   *)
(* links, so that a link names the same variable in every copy.            *)
(* The operations are those query.c performs on scopes: a variable is      *)
(* inserted where its name was not found, an argument under the link it    *)
(* has in the caller, an assertion writes through the pointer found.       *)
(***************************************************************************)
EXTENDS Naturals, Sequences, FiniteSets

CONSTANTS
  Scopes,      \* where a laure_scope_t can lie
  Pointers,    \* where an Instance can lie
  Names, Values,
  MaxCells,    \* max_cells: a scope holds one fewer
  MaxLink,     \* bound on links generated
  Glob,        \* the global scope
  None

ASSUME ScopesAssumption ==
  /\ Glob \in Scopes
  /\ None \notin Seq([ptr : Pointers, link : 1..MaxLink])
  /\ None \notin [name : Names, val : Values, locked : BOOLEAN]
  /\ \A held \in SUBSET Names : None \notin [held -> Values]
  /\ MaxCells \in Nat \ {0} /\ MaxLink \in Nat \ {0}

VARIABLES
  scopes,   \* [Scopes -> Seq(cell), or None when not allocated]
  heap,     \* [Pointers -> instance, or None when not allocated]
  nlink,    \* *LAURE_LINK_ID
  exited    \* the limit was exceeded: exit(0)

vars == <<scopes, heap, nlink, exited>>
-------------------------------------------------------------------------------
Allocated  == {s \in Scopes : scopes[s] # None}
Cells(s)   == scopes[s]
Indices(s) == 1..Len(scopes[s])
NameAt(s, i) == heap[scopes[s][i].ptr].name
Instance_(n, v, locked) == [name |-> n, val |-> v, locked |-> locked]

\* laure_scope_find: the first cell of which the checker finds v, or 0.
FirstCell(found, v) ==
  IF \E i \in DOMAIN found : found[i] = v
    THEN CHOOSE i \in DOMAIN found : found[i] = v /\ \A j \in 1..i - 1 : found[j] # v
    ELSE 0
KeyAt(s, n)  == FirstCell([i \in Indices(s) |-> NameAt(s, i)], n)
LinkAt(s, l) == FirstCell([i \in Indices(s) |-> scopes[s][i].link], l)
\* laure_scope_find_by_key with search_glob
Where(s, n)  == IF KeyAt(s, n) # 0 THEN s ELSE Glob
Holds(s, n)  == KeyAt(Where(s, n), n) # 0
FoundPtr(s, n) == scopes[Where(s, n)][KeyAt(Where(s, n), n)].ptr

\* laure_alloc gives memory that nothing owns; which does not matter.
Fresh(p)      == heap[p] = None
-------------------------------------------------------------------------------
Init ==
  /\ scopes = [s \in Scopes |-> IF s = Glob THEN <<>> ELSE None]
  /\ heap = [p \in Pointers |-> None]
  /\ nlink = 1 /\ exited = FALSE

New(t) ==
  /\ ~exited /\ t \notin Allocated
  /\ scopes' = [scopes EXCEPT ![t] = <<>>]
  /\ UNCHANGED <<heap, nlink, exited>>

\* laure_scope_insert_l: the last cell of the array is never used.
Full(s) == Len(scopes[s]) = MaxCells - 1
InsertL(s, instance, link) ==
  IF Full(s)
    THEN exited' = TRUE /\ UNCHANGED <<scopes, heap>>
    ELSE \E p \in Pointers :
           /\ Fresh(p)
           /\ scopes' = [scopes EXCEPT ![s] = Append(@, [ptr |-> p, link |-> link])]
           /\ heap' = [heap EXCEPT ![p] = instance]
           /\ UNCHANGED exited

SameLink == nlink                                \* mutant: the generator does not advance
NextLink == nlink + 1
\* laure_scope_insert, of a variable not found; names of the global scope may be locked.
Declare(s, n, v, locked) ==
  /\ ~exited /\ s \in Allocated /\ KeyAt(s, n) = 0 /\ nlink < MaxLink
  /\ locked => s = Glob
  /\ InsertL(s, Instance_(n, v, locked), nlink)
  /\ nlink' = NextLink

\* An argument of a call: the callee has its own copy, under the caller's link.
Pass(s, n, t, m) ==
  /\ ~exited /\ {s, t} \subseteq Allocated /\ s # t /\ t # Glob /\ Holds(s, n) /\ KeyAt(t, m) = 0
  /\ LET cell == scopes[Where(s, n)][KeyAt(Where(s, n), n)] IN
       /\ LinkAt(t, cell.link) = 0
       /\ InsertL(t, Instance_(m, heap[cell.ptr].val, FALSE), cell.link)
  /\ UNCHANGED nlink

Assign(s, n, v) ==
  /\ ~exited /\ s \in Allocated /\ Holds(s, n) /\ ~heap[FoundPtr(s, n)].locked
  /\ heap' = [heap EXCEPT ![FoundPtr(s, n)].val = v]
  /\ UNCHANGED <<scopes, nlink, exited>>

\* laure_eval_rename, of a name that is held to one that is not.
Rename(s, n, m) ==
  /\ ~exited /\ s \in Allocated /\ KeyAt(s, n) # 0 /\ KeyAt(s, m) = 0
  /\ ~(Holds(s, m) /\ heap[FoundPtr(s, m)].locked)
  /\ heap' = [heap EXCEPT ![scopes[s][KeyAt(s, n)].ptr].name = m]
  /\ UNCHANGED <<scopes, nlink, exited>>

\* laure_scope_create_copy: instance_deepcopy of each cell, the links kept.
ShortBy(cells, at) ==                            \* mutant: all cells but the last
  [i \in 1..Len(cells) - 1 |-> [cells[i] EXCEPT !.ptr = at[i]]]
Deep(cells, at)    == [i \in 1..Len(cells) |-> [cells[i] EXCEPT !.ptr = at[i]]]
Copy(s, t) ==
  /\ ~exited /\ s \in Allocated /\ t \notin Allocated
  /\ \E at \in [Indices(s) -> {p \in Pointers : Fresh(p)}] :
       /\ \A i, j \in Indices(s) : at[i] = at[j] => i = j
       /\ scopes' = [scopes EXCEPT ![t] = Deep(scopes[s], at)]
       /\ heap' = [p \in Pointers |->
            IF \E i \in Indices(s) : at[i] = p
              THEN heap[scopes[s][CHOOSE i \in Indices(s) : at[i] = p].ptr]
              ELSE heap[p]]
  /\ UNCHANGED <<nlink, exited>>

\* laure_scope_free frees the instance of every cell.
Freed(s) == {scopes[s][i].ptr : i \in Indices(s)}
Free(s) ==
  /\ ~exited /\ s \in Allocated \ {Glob}
  /\ scopes' = [scopes EXCEPT ![s] = None]
  /\ heap' = [p \in Pointers |-> IF p \in Freed(s) THEN None ELSE heap[p]]
  /\ UNCHANGED <<nlink, exited>>

Next ==
  \/ \E s \in Scopes : New(s) \/ Free(s)
  \/ \E s \in Scopes, n \in Names, v \in Values, locked \in BOOLEAN : Declare(s, n, v, locked)
  \/ \E s, t \in Scopes, n, m \in Names : Pass(s, n, t, m)
  \/ \E s \in Scopes, n \in Names, v \in Values : Assign(s, n, v)
  \/ \E s \in Scopes, n, m \in Names : Rename(s, n, m)
  \/ \E s, t \in Scopes : Copy(s, t)

Spec == Init /\ [][Next]_vars
-------------------------------------------------------------------------------
CellType == [ptr : Pointers, link : 1..MaxLink]
InstanceType == [name : Names, val : Values, locked : BOOLEAN]

TypeOK ==
  /\ scopes \in [Scopes -> Seq(CellType) \cup {None}]
  /\ heap \in [Pointers -> InstanceType \cup {None}]
  /\ nlink \in 1..MaxLink /\ exited \in BOOLEAN
  /\ scopes[Glob] # None /\ \A s \in Allocated : Len(scopes[s]) < MaxCells

\* Every cell has an instance of its own, and it is allocated: freeing a scope,
\* or narrowing a variable in it, touches nothing that another scope holds.
OwnInstances ==
  \A s, t \in Allocated : \A i \in Indices(s), j \in Indices(t) :
    /\ heap[scopes[s][i].ptr] # None
    /\ scopes[s][i].ptr = scopes[t][j].ptr => s = t /\ i = j

\* A link stands for one variable of a scope, so that find_by_link after
\* find_by_key leads back to the variable: what the evaluator relies on when it
\* carries a binding from a callee, a copy or the answer scope back by its link.
LinksFindTheirName ==
  \A s \in Allocated : \A i \in Indices(s) :
    /\ LinkAt(s, scopes[s][i].link) = i /\ KeyAt(s, NameAt(s, i)) = i
    /\ scopes[s][i].link < nlink

\* Cells, instances and links are those of one variable each.
ScopesSound == TypeOK /\ OwnInstances /\ LinksFindTheirName

\* The store that the evaluator sees.
Held(s) == {NameAt(s, i) : i \in Indices(s)}
Valued  == [s \in Scopes |->
  IF scopes[s] = None THEN None
  ELSE [n \in Held(s) |-> heap[scopes[s][KeyAt(s, n)].ptr].val]]
S == INSTANCE Store WITH store <- Valued, NoStore <- None

\* Scopes hold names and values that nothing but themselves changes.
IsStore == S!Spec
===============================================================================
