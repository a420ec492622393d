----------------------------- MODULE StorageProofs -----------------------------
(***************************************************************************)
(* Scopes with their instances and links (Scopes, src/scope.c) implement   *)
(* stores of named values (Store), for all scopes, names and values, and   *)
(* whatever the size of a scope.  The inductive invariant Inv: each cell   *)
(* has an instance of its own, and in a scope no name and no link occurs   *)
(* twice.                                                                  *)
(*                                                                         *)
(* Trace: what is printed with an error is the end of the path that led to *)
(* it.  This holds for all goals, depths and paths, and for every window   *)
(* of at least three entries that fits its chain.                          *)
(*                                                                         *)
(* Browser: the item that Enter shows is the one highlighted among the     *)
(* lines drawn, for every scope and height and whatever keys are pressed.  *)
(***************************************************************************)
EXTENDS Scopes, Trace, Browser, TLAPS, SequenceTheorems, WellFoundedInduction

\* No name occurs twice in a scope.
NamesOnce ==
  \A s \in Allocated : \A i, j \in Indices(s) : NameAt(s, i) = NameAt(s, j) => i = j
\* No link occurs twice in a scope, and each was handed out.
LinksOnce ==
  \A s \in Allocated : \A i, j \in Indices(s) :
    /\ scopes[s][i].link < nlink
    /\ scopes[s][i].link = scopes[s][j].link => i = j
\* The inductive invariant.
Inv == TypeOK /\ OwnInstances /\ NamesOnce /\ LinksOnce
-------------------------------------------------------------------------------
\* The cells of a scope are cells.
LEMMA CellsTyped ==
  ASSUME TypeOK, NEW s \in Allocated
  PROVE  /\ s \in Scopes /\ scopes[s] \in Seq(CellType) /\ Len(scopes[s]) \in Nat
         /\ Len(scopes[s]) < MaxCells
         /\ \A i \in Indices(s) : /\ i \in Nat \ {0}
                                  /\ scopes[s][i] \in CellType
                                  /\ scopes[s][i].ptr \in Pointers
                                  /\ scopes[s][i].link \in 1..MaxLink
<1>1. s \in Scopes /\ scopes[s] # None
  BY DEF Allocated
<1>2. scopes[s] \in Seq(CellType)
  BY <1>1 DEF TypeOK
<1>3. Len(scopes[s]) \in Nat
  BY <1>2
<1>4. Len(scopes[s]) < MaxCells
  BY DEF TypeOK
<1>5. \A i \in Indices(s) : i \in Nat \ {0} /\ scopes[s][i] \in CellType
  BY <1>2, <1>3 DEF Indices
<1>6. \A i \in Indices(s) : scopes[s][i].ptr \in Pointers /\ scopes[s][i].link \in 1..MaxLink
  BY <1>5 DEF CellType
<1> QED  BY <1>1, <1>2, <1>3, <1>4, <1>5, <1>6

\* FirstCell finds what occurs once, wherever it is.
LEMMA FirstFound ==
  ASSUME NEW n \in Nat, NEW found, NEW v, DOMAIN found = 1..n,
         \A i, j \in 1..n : found[i] = found[j] => i = j
  PROVE  /\ FirstCell(found, v) = 0 => \A i \in 1..n : found[i] # v
         /\ FirstCell(found, v) # 0 => FirstCell(found, v) \in 1..n /\ found[FirstCell(found, v)] = v
         /\ \A i \in 1..n : found[i] = v => FirstCell(found, v) = i
<1>2. CASE \E i \in 1..n : found[i] = v
  <2>1. PICK i \in 1..n : found[i] = v
    BY <1>2
  <2>2. \A j \in 1..n : found[j] = v => j = i
    BY <2>1
  <2>3. \A j \in 1..i - 1 : found[j] # v
    BY <2>1, <2>2
  <2>4. FirstCell(found, v) = CHOOSE k \in 1..n : found[k] = v /\ \A j \in 1..k - 1 : found[j] # v
    BY <1>2 DEF FirstCell
  <2>5. FirstCell(found, v) \in 1..n /\ found[FirstCell(found, v)] = v
    BY <2>1, <2>3, <2>4
  <2> QED  BY <2>2, <2>5
<1>3. CASE ~ \E i \in 1..n : found[i] = v
  <2>1. FirstCell(found, v) = 0
    BY <1>3 DEF FirstCell
  <2> QED  BY <1>3, <2>1
<1> QED  BY <1>2, <1>3

\* A name is found where it is held (laure_scope_find_by_key).
LEMMA KeyFound ==
  ASSUME TypeOK, NamesOnce, NEW s \in Allocated, NEW n
  PROVE  /\ KeyAt(s, n) = 0 => \A i \in Indices(s) : NameAt(s, i) # n
         /\ KeyAt(s, n) # 0 => KeyAt(s, n) \in Indices(s) /\ NameAt(s, KeyAt(s, n)) = n
         /\ \A i \in Indices(s) : NameAt(s, i) = n => KeyAt(s, n) = i
<1> DEFINE names == [i \in Indices(s) |-> NameAt(s, i)]
<1>1. Len(scopes[s]) \in Nat
  BY CellsTyped
<1>2. /\ DOMAIN names = 1..Len(scopes[s])
      /\ \A i, j \in 1..Len(scopes[s]) : names[i] = names[j] => i = j
      /\ \A i \in Indices(s) : names[i] = NameAt(s, i)
  BY DEF Indices, NamesOnce
<1>3. KeyAt(s, n) = FirstCell(names, n)
  BY DEF KeyAt
<1> HIDE DEF names
<1> QED  BY <1>1, <1>2, <1>3, FirstFound DEF Indices

\* A link is found where it is held (laure_scope_find_by_link).
LEMMA LinkFound ==
  ASSUME TypeOK, LinksOnce, NEW s \in Allocated, NEW l
  PROVE  /\ LinkAt(s, l) = 0 => \A i \in Indices(s) : scopes[s][i].link # l
         /\ LinkAt(s, l) # 0 => LinkAt(s, l) \in Indices(s) /\ scopes[s][LinkAt(s, l)].link = l
         /\ \A i \in Indices(s) : scopes[s][i].link = l => LinkAt(s, l) = i
<1> DEFINE links == [i \in Indices(s) |-> scopes[s][i].link]
<1>1. Len(scopes[s]) \in Nat
  BY CellsTyped
<1>2. /\ DOMAIN links = 1..Len(scopes[s])
      /\ \A i, j \in 1..Len(scopes[s]) : links[i] = links[j] => i = j
      /\ \A i \in Indices(s) : links[i] = scopes[s][i].link
  BY DEF Indices, LinksOnce
<1>3. LinkAt(s, l) = FirstCell(links, l)
  BY DEF LinkAt
<1> HIDE DEF links
<1> QED  BY <1>1, <1>2, <1>3, FirstFound DEF Indices

\* Under the invariant, the first cell with a name or a link is the one.
LEMMA InvImplies ==
  ASSUME Inv PROVE LinksFindTheirName
BY KeyFound, LinkFound DEF Inv, LinksFindTheirName, LinksOnce

-------------------------------------------------------------------------------
\* The invariant holds at the start.
LEMMA InitInv ==
  ASSUME Init PROVE Inv
<1>1. <<>> \in Seq(CellType) /\ Len(<<>>) = 0
  OBVIOUS
<1>2. <<>> # None
  BY <1>1, ScopesAssumption DEF CellType
<1>3. Allocated = {Glob} /\ Indices(Glob) = {}
  BY <1>1, <1>2, ScopesAssumption DEF Init, Allocated, Indices
<1>4. TypeOK
  <2>1. scopes \in [Scopes -> Seq(CellType) \cup {None}] /\ scopes[Glob] = <<>>
    BY <1>1, ScopesAssumption DEF Init
  <2>2. heap \in [Pointers -> InstanceType \cup {None}]
    BY DEF Init
  <2>3. nlink \in 1..MaxLink
    BY ScopesAssumption DEF Init
  <2>5. exited \in BOOLEAN
    BY DEF Init
  <2>4. \A s \in Allocated : Len(scopes[s]) < MaxCells
    BY <1>1, <1>3, <2>1, ScopesAssumption
  <2> QED  BY <1>2, <2>1, <2>2, <2>3, <2>4, <2>5 DEF TypeOK
<1> QED  BY <1>3, <1>4 DEF Inv, OwnInstances, NamesOnce, LinksOnce

\* Inserting a new name under a new link keeps the invariant (laure_scope_insert_l).
LEMMA InsertInv ==
  ASSUME Inv, NEW s \in Allocated, NEW instance \in InstanceType, NEW link \in 1..MaxLink,
         nlink' \in 1..MaxLink, nlink <= nlink', link < nlink',
         \A i \in Indices(s) : NameAt(s, i) # instance.name /\ scopes[s][i].link # link,
         exited \in BOOLEAN, InsertL(s, instance, link)
  PROVE  Inv'
<1> USE DEF Inv
<1>0. nlink \in 1..MaxLink /\ MaxLink \in Nat
  BY ScopesAssumption DEF TypeOK
<1>1. CASE Full(s)
  <2>1. UNCHANGED <<scopes, heap>> /\ exited' \in BOOLEAN
    BY <1>1 DEF InsertL
  <2>2. TypeOK'
    BY <2>1 DEF TypeOK, Allocated
  <2>3. OwnInstances' /\ NamesOnce'
    BY <2>1 DEF OwnInstances, NamesOnce, Allocated, Indices, NameAt
  <2>4. LinksOnce'
    <3> SUFFICES ASSUME NEW t \in Allocated, NEW i \in Indices(t), NEW j \in Indices(t)
                 PROVE  /\ scopes[t][i].link < nlink'
                        /\ scopes[t][i].link = scopes[t][j].link => i = j
      BY <2>1 DEF LinksOnce, Allocated, Indices
    <3>1. scopes[t][i].link \in 1..MaxLink
      BY CellsTyped
    <3> QED  BY <3>1, <1>0 DEF LinksOnce
  <2> QED  BY <2>2, <2>3, <2>4
<1>2. CASE ~Full(s)
  <2>1. PICK p \in Pointers :
          /\ heap[p] = None
          /\ scopes' = [scopes EXCEPT ![s] = Append(@, [ptr |-> p, link |-> link])]
          /\ heap' = [heap EXCEPT ![p] = instance]
          /\ exited' = exited
    BY <1>2 DEF InsertL, Fresh
  <2> DEFINE n == Len(scopes[s])  cell == [ptr |-> p, link |-> link]
  <2>2. s \in Scopes /\ scopes[s] \in Seq(CellType) /\ n \in Nat /\ n < MaxCells - 1
    <3>1. s \in Scopes /\ scopes[s] \in Seq(CellType) /\ n \in Nat /\ n < MaxCells
      BY CellsTyped
    <3> QED  BY <3>1, <1>2, ScopesAssumption DEF Full
  <2>3. scopes \in [Scopes -> Seq(CellType) \cup {None}] /\ heap \in [Pointers -> InstanceType \cup {None}]
    BY DEF TypeOK
  <2>4. cell \in CellType /\ cell.ptr = p /\ cell.link = link
    BY DEF CellType
  <2>5. /\ scopes'[s] = Append(scopes[s], cell)
        /\ \A t \in Scopes : t # s => scopes'[t] = scopes[t]
    BY <2>1, <2>2, <2>3
  <2>6. /\ scopes'[s] \in Seq(CellType) /\ Len(scopes'[s]) = n + 1
        /\ \A i \in 1..n : scopes'[s][i] = scopes[s][i]
        /\ scopes'[s][n + 1] = cell
    BY <2>2, <2>4, <2>5
  <2>7. scopes'[s] # None
    BY <2>6, ScopesAssumption DEF CellType
  <2>8. Allocated' = Allocated
    BY <2>2, <2>5, <2>7 DEF Allocated
  <2>9. heap'[p] = instance /\ \A q \in Pointers : q # p => heap'[q] = heap[q]
    BY <2>1, <2>3
  <2>10. instance # None
    BY ScopesAssumption DEF InstanceType
  <2>11. TypeOK'
    <3>1. scopes' \in [Scopes -> Seq(CellType) \cup {None}]
      BY <2>1, <2>2, <2>3, <2>5, <2>6
    <3>2. heap' \in [Pointers -> InstanceType \cup {None}]
      BY <2>1, <2>3
    <3>3. \A t \in Allocated : Len(scopes'[t]) < MaxCells
      <4> TAKE t \in Allocated
      <4>1. CASE t = s
        BY <4>1, <2>2, <2>6, ScopesAssumption
      <4>2. CASE t # s
        BY <4>2, <2>5, CellsTyped
      <4> QED  BY <4>1, <4>2
    <3>4. scopes'[Glob] # None
      BY <2>5, <2>7, ScopesAssumption DEF TypeOK
    <3> QED  BY <3>1, <3>2, <3>3, <3>4, <2>1, <2>8 DEF TypeOK
  <2>12. \A t \in Allocated : \A i \in Indices(t) :
           scopes[t][i].ptr \in Pointers /\ scopes[t][i].ptr # p
    <3> TAKE t \in Allocated
    <3> TAKE i \in Indices(t)
    <3>1. scopes[t][i].ptr \in Pointers
      BY CellsTyped
    <3>2. heap[scopes[t][i].ptr] # None
      BY DEF OwnInstances
    <3> QED  BY <3>1, <3>2, <2>1
  \* A cell is an old one, or the new one.
  <2>13. \A t \in Allocated : \A i \in Indices(t)' :
           \/ /\ i \in Indices(t) /\ scopes'[t][i] = scopes[t][i]
              /\ heap'[scopes'[t][i].ptr] = heap[scopes[t][i].ptr]
           \/ t = s /\ i = n + 1 /\ scopes'[t][i] = cell
    <3> TAKE t \in Allocated
    <3> TAKE i \in Indices(t)'
    <3>0. t \in Scopes
      BY CellsTyped
    <3>1. CASE t # s
      <4>1. scopes'[t] = scopes[t] /\ i \in Indices(t)
        BY <3>0, <3>1, <2>5 DEF Indices
      <4> QED  BY <4>1, <2>9, <2>12
    <3>2. CASE t = s
      <4>1. i \in 1..n + 1
        BY <3>2, <2>6 DEF Indices
      <4>2. CASE i = n + 1
        BY <4>2, <3>2, <2>6
      <4>3. CASE i # n + 1
        <5>1. i \in 1..n /\ i \in Indices(t)
          BY <4>1, <4>3, <3>2, <2>2 DEF Indices
        <5> QED  BY <5>1, <3>2, <2>6, <2>9, <2>12
      <4> QED  BY <4>2, <4>3
    <3> QED  BY <3>1, <3>2
  <2> HIDE DEF n, cell
  <2>14. OwnInstances'
    <3> SUFFICES ASSUME NEW t \in Allocated, NEW u \in Allocated,
                        NEW i \in Indices(t)', NEW j \in Indices(u)'
                 PROVE  /\ heap'[scopes'[t][i].ptr] # None
                        /\ scopes'[t][i].ptr = scopes'[u][j].ptr => t = u /\ i = j
      BY <2>8 DEF OwnInstances
    <3>1. heap'[scopes'[t][i].ptr] # None
      BY <2>13, <2>4, <2>9, <2>10 DEF OwnInstances
    <3>2. scopes'[t][i].ptr = scopes'[u][j].ptr => t = u /\ i = j
      <4>1. CASE i \in Indices(t) /\ scopes'[t][i] = scopes[t][i]
        BY <4>1, <2>13, <2>4, <2>12 DEF OwnInstances
      <4>2. CASE t = s /\ i = n + 1 /\ scopes'[t][i] = cell
        BY <4>2, <2>13, <2>4, <2>12
      <4> QED  BY <4>1, <4>2, <2>13
    <3> QED  BY <3>1, <3>2
  <2>15. \A i \in Indices(s) : i # n + 1 /\ i \in 1..n
    BY <2>2 DEF Indices, n
  <2>16. NamesOnce'
    <3> SUFFICES ASSUME NEW t \in Allocated, NEW i \in Indices(t)', NEW j \in Indices(t)',
                        heap'[scopes'[t][i].ptr].name = heap'[scopes'[t][j].ptr].name
                 PROVE  i = j
      BY <2>8 DEF NamesOnce, NameAt
    <3>1. CASE i \in Indices(t) /\ heap'[scopes'[t][i].ptr] = heap[scopes[t][i].ptr]
      BY <3>1, <2>13, <2>4, <2>9 DEF NamesOnce, NameAt
    <3>2. CASE t = s /\ i = n + 1 /\ scopes'[t][i] = cell
      BY <3>2, <2>13, <2>4, <2>9 DEF NameAt
    <3> QED  BY <3>1, <3>2, <2>13
  <2>17. LinksOnce'
    <3> SUFFICES ASSUME NEW t \in Allocated, NEW i \in Indices(t)', NEW j \in Indices(t)'
                 PROVE  /\ scopes'[t][i].link < nlink'
                        /\ scopes'[t][i].link = scopes'[t][j].link => i = j
      BY <2>8 DEF LinksOnce
    <3>1. CASE i \in Indices(t) /\ scopes'[t][i] = scopes[t][i]
      <4>1. scopes[t][i].link \in 1..MaxLink /\ scopes[t][i].link < nlink
        BY <3>1, CellsTyped DEF LinksOnce
      <4>2. scopes[t][i].link < nlink'
        BY <4>1, <1>0
      <4> QED  BY <3>1, <4>2, <2>13, <2>4 DEF LinksOnce
    <3>2. CASE t = s /\ i = n + 1 /\ scopes'[t][i] = cell
      BY <3>2, <2>13, <2>4
    <3> QED  BY <3>1, <3>2, <2>13
  <2> QED  BY <2>11, <2>14, <2>16, <2>17
<1> QED  BY <1>1, <1>2

\* So does opening a scope,
LEMMA NewInv ==
  ASSUME Inv, NEW t \in Scopes, New(t)
  PROVE  Inv'
<1> USE DEF Inv
<1>1. /\ t \notin Allocated /\ scopes' = [scopes EXCEPT ![t] = <<>>]
      /\ UNCHANGED <<heap, nlink, exited>>
  BY DEF New
<1>2. <<>> \in Seq(CellType) /\ Len(<<>>) = 0
  OBVIOUS
<1>3. <<>> # None
  BY <1>2, ScopesAssumption DEF CellType
<1>4. scopes \in [Scopes -> Seq(CellType) \cup {None}]
  BY DEF TypeOK
<1>5. scopes'[t] = <<>> /\ \A s \in Scopes : s # t => scopes'[s] = scopes[s]
  BY <1>1, <1>4
<1>6. Allocated' = Allocated \cup {t}
  BY <1>3, <1>5 DEF Allocated
<1>7. Indices(t)' = {} /\ \A s \in Allocated : s # t /\ scopes'[s] = scopes[s] /\ Indices(s)' = Indices(s)
  BY <1>1, <1>2, <1>5 DEF Indices, Allocated
<1>8. TypeOK'
  <2>1. scopes' \in [Scopes -> Seq(CellType) \cup {None}]
    BY <1>1, <1>2, <1>4
  <2>2. \A s \in Allocated' : Len(scopes'[s]) < MaxCells
    BY <1>2, <1>5, <1>6, <1>7, CellsTyped, ScopesAssumption
  <2>3. scopes'[Glob] # None
    BY <1>3, <1>5, ScopesAssumption DEF TypeOK
  <2> QED  BY <2>1, <2>2, <2>3, <1>1 DEF TypeOK
<1>9. OwnInstances'
  BY <1>1, <1>6, <1>7 DEF OwnInstances
<1>10. NamesOnce'
  BY <1>1, <1>6, <1>7 DEF NamesOnce, NameAt
<1>11. LinksOnce'
  BY <1>1, <1>6, <1>7 DEF LinksOnce
<1> QED  BY <1>8, <1>9, <1>10, <1>11

\* freeing one: no other scope has its instances,
LEMMA FreeInv ==
  ASSUME Inv, NEW t \in Scopes, Free(t)
  PROVE  Inv'
<1> USE DEF Inv
<1>1. /\ t \in Allocated /\ t # Glob /\ scopes' = [scopes EXCEPT ![t] = None]
      /\ heap' = [p \in Pointers |-> IF p \in Freed(t) THEN None ELSE heap[p]]
      /\ UNCHANGED <<nlink, exited>>
  BY DEF Free
<1>2. scopes \in [Scopes -> Seq(CellType) \cup {None}] /\ heap \in [Pointers -> InstanceType \cup {None}]
  BY DEF TypeOK
<1>3. scopes'[t] = None /\ \A s \in Scopes : s # t => scopes'[s] = scopes[s]
  BY <1>1, <1>2
<1>4. Allocated' = Allocated \ {t}
  BY <1>3 DEF Allocated
<1>5. \A s \in Allocated' : /\ s \in Allocated /\ s # t
                            /\ scopes'[s] = scopes[s] /\ Indices(s)' = Indices(s)
  BY <1>3, <1>4 DEF Indices, Allocated
<1>6. \A s \in Allocated' : \A i \in Indices(s) : heap'[scopes[s][i].ptr] = heap[scopes[s][i].ptr]
  <2> TAKE s \in Allocated'
  <2> TAKE i \in Indices(s)
  <2>1. scopes[s][i].ptr \in Pointers
    BY <1>5, CellsTyped
  <2>2. scopes[s][i].ptr \notin Freed(t)
    BY <1>1, <1>5 DEF Freed, OwnInstances
  <2> QED  BY <1>1, <2>1, <2>2
<1>7. TypeOK'
  <2>1. scopes' \in [Scopes -> Seq(CellType) \cup {None}]
    BY <1>1, <1>2
  <2>2. heap' \in [Pointers -> InstanceType \cup {None}]
    BY <1>1, <1>2
  <2>3. \A s \in Allocated' : Len(scopes'[s]) < MaxCells
    BY <1>5 DEF TypeOK
  <2>4. scopes'[Glob] # None
    BY <1>1, <1>3, ScopesAssumption DEF TypeOK
  <2> QED  BY <2>1, <2>2, <2>3, <2>4, <1>1 DEF TypeOK
<1>8. OwnInstances'
  BY <1>5, <1>6 DEF OwnInstances
<1>9. NamesOnce'
  BY <1>5, <1>6 DEF NamesOnce, NameAt
<1>10. LinksOnce'
  BY <1>1, <1>5 DEF LinksOnce
<1> QED  BY <1>7, <1>8, <1>9, <1>10

\* A step that changes instances only, and leaves every cell a name of its own.
LEMMA WriteInv ==
  ASSUME Inv, NEW s \in Allocated, NEW k \in Indices(s), NEW instance \in InstanceType,
         instance.name # NameAt(s, k) => \A i \in Indices(s) : NameAt(s, i) # instance.name,
         heap' = [heap EXCEPT ![scopes[s][k].ptr] = instance],
         UNCHANGED <<scopes, nlink, exited>>
  PROVE  Inv'
<1> USE DEF Inv
<1> DEFINE p == scopes[s][k].ptr
<1>1. p \in Pointers
  BY CellsTyped
<1>2. heap'[p] = instance /\ \A q \in Pointers : q # p => heap'[q] = heap[q]
  BY <1>1 DEF TypeOK
<1>3. Allocated' = Allocated /\ \A t : Indices(t)' = Indices(t)
  BY DEF Allocated, Indices
<1>4. instance # None
  BY ScopesAssumption DEF InstanceType
<1>5. TypeOK'
  BY <1>3 DEF TypeOK
<1>6. \A t \in Allocated : \A i \in Indices(t) :
        \/ t = s /\ i = k /\ heap'[scopes[t][i].ptr] = instance
        \/ heap'[scopes[t][i].ptr] = heap[scopes[t][i].ptr] /\ ~(t = s /\ i = k)
  <2> TAKE t \in Allocated
  <2> TAKE i \in Indices(t)
  <2>1. scopes[t][i].ptr \in Pointers
    BY CellsTyped
  <2>2. scopes[t][i].ptr = p => t = s /\ i = k
    BY DEF OwnInstances
  <2> QED  BY <1>2, <2>1, <2>2
<1>7. OwnInstances'
  BY <1>3, <1>4, <1>6 DEF OwnInstances
<1>8. NamesOnce'
  BY <1>3, <1>6 DEF NamesOnce, NameAt
<1>9. LinksOnce'
  BY <1>3 DEF LinksOnce
<1> QED  BY <1>5, <1>7, <1>8, <1>9

\* What a scope holds is found in it or in the global scope.
LEMMA FoundIn ==
  ASSUME Inv, NEW s \in Allocated, NEW n, Holds(s, n)
  PROVE  /\ Where(s, n) \in Allocated /\ KeyAt(Where(s, n), n) \in Indices(Where(s, n))
         /\ NameAt(Where(s, n), KeyAt(Where(s, n), n)) = n
<1>1. Glob \in Allocated
  BY ScopesAssumption DEF Inv, TypeOK, Allocated
<1>2. Where(s, n) \in Allocated
  BY <1>1 DEF Where
<1> QED  BY <1>2, KeyFound DEF Holds, Inv

\* The instance of a cell is an instance.
LEMMA InstanceTyped ==
  ASSUME Inv, NEW s \in Allocated, NEW i \in Indices(s)
  PROVE  heap[scopes[s][i].ptr] \in InstanceType
<1>1. scopes[s][i].ptr \in Pointers
  BY CellsTyped DEF Inv
<1> QED  BY <1>1 DEF Inv, TypeOK, OwnInstances

\* Declaring a variable keeps the invariant: the link is new,
LEMMA DeclareInv ==
  ASSUME Inv, NEW s \in Scopes, NEW n \in Names, NEW v \in Values, NEW locked \in BOOLEAN,
         Declare(s, n, v, locked)
  PROVE  Inv'
<1>1. /\ s \in Allocated /\ KeyAt(s, n) = 0 /\ nlink < MaxLink
      /\ InsertL(s, Instance_(n, v, locked), nlink) /\ nlink' = NextLink
  BY DEF Declare
<1>2. Instance_(n, v, locked) \in InstanceType /\ Instance_(n, v, locked).name = n
  BY DEF Instance_, InstanceType
<1>3. nlink \in 1..MaxLink /\ MaxLink \in Nat /\ exited \in BOOLEAN
  BY ScopesAssumption DEF Inv, TypeOK
<1>4. nlink' \in 1..MaxLink /\ nlink <= nlink' /\ nlink < nlink'
  BY <1>1, <1>3 DEF NextLink
<1>5. \A i \in Indices(s) : scopes[s][i].link # nlink
  BY <1>1, <1>3, CellsTyped DEF Inv, LinksOnce
<1>6. \A i \in Indices(s) : NameAt(s, i) # n
  BY <1>1, KeyFound DEF Inv
<1> QED  BY <1>1, <1>2, <1>3, <1>4, <1>5, <1>6, InsertInv

\* so does passing an argument under the link that it has,
LEMMA PassInv ==
  ASSUME Inv, NEW s \in Scopes, NEW t \in Scopes, NEW n \in Names, NEW m \in Names,
         Pass(s, n, t, m)
  PROVE  Inv'
<1> DEFINE w == Where(s, n)  k == KeyAt(w, n)  cell == scopes[w][k]
           copy == Instance_(m, heap[cell.ptr].val, FALSE)
<1>1. /\ s \in Allocated /\ t \in Allocated /\ Holds(s, n) /\ KeyAt(t, m) = 0
      /\ LinkAt(t, cell.link) = 0 /\ InsertL(t, copy, cell.link) /\ nlink' = nlink
  BY DEF Pass
<1>2. w \in Allocated /\ k \in Indices(w)
  BY <1>1, FoundIn
<1>3. cell.link \in 1..MaxLink /\ cell.link < nlink
  BY <1>2, CellsTyped DEF Inv, LinksOnce
<1>4. heap[cell.ptr] \in InstanceType
  BY <1>2, InstanceTyped
<1>5. copy \in InstanceType /\ copy.name = m
  BY <1>4 DEF Instance_, InstanceType
<1>6. nlink \in 1..MaxLink /\ MaxLink \in Nat /\ exited \in BOOLEAN
  BY ScopesAssumption DEF Inv, TypeOK
<1>7. \A i \in Indices(t) : NameAt(t, i) # m /\ scopes[t][i].link # cell.link
  BY <1>1, KeyFound, LinkFound DEF Inv
<1> HIDE DEF w, k, cell, copy
<1> QED  BY <1>1, <1>3, <1>5, <1>6, <1>7, InsertInv

\* assigning to a variable,
LEMMA AssignInv ==
  ASSUME Inv, NEW s \in Scopes, NEW n \in Names, NEW v \in Values, Assign(s, n, v)
  PROVE  Inv'
<1> DEFINE w == Where(s, n)  k == KeyAt(w, n)  p == scopes[w][k].ptr
           instance == [heap[p] EXCEPT !.val = v]
<1>1. /\ s \in Allocated /\ Holds(s, n) /\ heap' = [heap EXCEPT ![p] = instance]
      /\ UNCHANGED <<scopes, nlink, exited>>
  BY DEF Assign, FoundPtr
<1>2. w \in Allocated /\ k \in Indices(w)
  BY <1>1, FoundIn
<1>3. heap[p] \in InstanceType
  BY <1>2, InstanceTyped
<1>4. instance \in InstanceType /\ instance.name = NameAt(w, k)
  BY <1>3 DEF InstanceType, NameAt
<1> HIDE DEF w, k, instance
<1> QED  BY <1>1, <1>2, <1>4, WriteInv

\* renaming one to a name not held,
LEMMA RenameInv ==
  ASSUME Inv, NEW s \in Scopes, NEW n \in Names, NEW m \in Names, Rename(s, n, m)
  PROVE  Inv'
<1> DEFINE k == KeyAt(s, n)  p == scopes[s][k].ptr
           instance == [heap[p] EXCEPT !.name = m]
<1>1. /\ s \in Allocated /\ k # 0 /\ KeyAt(s, m) = 0 /\ heap' = [heap EXCEPT ![p] = instance]
      /\ UNCHANGED <<scopes, nlink, exited>>
  BY DEF Rename
<1>2. k \in Indices(s) /\ \A i \in Indices(s) : NameAt(s, i) # m
  BY <1>1, KeyFound DEF Inv
<1>3. heap[p] \in InstanceType
  BY <1>1, <1>2, InstanceTyped
<1>4. instance \in InstanceType /\ instance.name = m
  BY <1>3 DEF InstanceType
<1> HIDE DEF k, instance
<1> QED  BY <1>1, <1>2, <1>4, WriteInv

\* and copying a scope: the copy has instances of its own under the links of the original.
LEMMA CopyInv ==
  ASSUME Inv, NEW s \in Scopes, NEW t \in Scopes, Copy(s, t)
  PROVE  Inv'
<1> USE DEF Inv
<1>1. s \in Allocated /\ t \notin Allocated /\ s # t /\ UNCHANGED <<nlink, exited>>
  BY DEF Copy
<1>2. PICK at \in [Indices(s) -> {p \in Pointers : heap[p] = None}] :
        /\ \A i, j \in Indices(s) : at[i] = at[j] => i = j
        /\ scopes' = [scopes EXCEPT ![t] = Deep(scopes[s], at)]
        /\ heap' = [p \in Pointers |->
             IF \E i \in Indices(s) : at[i] = p
               THEN heap[scopes[s][CHOOSE i \in Indices(s) : at[i] = p].ptr]
               ELSE heap[p]]
  BY DEF Copy, Fresh
<1> DEFINE copied == Deep(scopes[s], at)
<1>3. \A i \in Indices(s) : at[i] \in Pointers /\ heap[at[i]] = None
  BY <1>2
<1>4. scopes[s] \in Seq(CellType) /\ Len(scopes[s]) \in Nat /\ Len(scopes[s]) < MaxCells
  BY <1>1, CellsTyped
<1>5. /\ copied \in Seq(CellType) /\ Len(copied) = Len(scopes[s])
      /\ \A i \in Indices(s) : copied[i].ptr = at[i] /\ copied[i].link = scopes[s][i].link
  <2>1. \A i \in Indices(s) : /\ [scopes[s][i] EXCEPT !.ptr = at[i]] \in CellType
                              /\ [scopes[s][i] EXCEPT !.ptr = at[i]].ptr = at[i]
                              /\ [scopes[s][i] EXCEPT !.ptr = at[i]].link = scopes[s][i].link
    BY <1>1, <1>3, CellsTyped DEF CellType
  <2>2. copied = [i \in 1..Len(scopes[s]) |-> [scopes[s][i] EXCEPT !.ptr = at[i]]]
    BY DEF Deep
  <2> HIDE DEF copied
  <2>3. copied \in Seq(CellType) /\ Len(copied) = Len(scopes[s])
    BY <2>1, <2>2, <1>4 DEF Indices
  <2> QED  BY <2>1, <2>2, <2>3 DEF Indices
<1> HIDE DEF copied
<1>6. scopes \in [Scopes -> Seq(CellType) \cup {None}] /\ heap \in [Pointers -> InstanceType \cup {None}]
  BY DEF TypeOK
<1>7. scopes' = [scopes EXCEPT ![t] = copied]
  BY <1>2 DEF copied
<1>8. scopes'[t] = copied /\ \A u \in Scopes : u # t => scopes'[u] = scopes[u]
  BY <1>6, <1>7
<1>9. copied # None
  BY <1>5, ScopesAssumption DEF CellType
<1>10. Allocated' = Allocated \cup {t} /\ Indices(t)' = Indices(s)
  BY <1>5, <1>8, <1>9 DEF Allocated, Indices
<1>11. \A u \in Allocated : u # t /\ u \in Scopes /\ scopes'[u] = scopes[u] /\ Indices(u)' = Indices(u)
  BY <1>1, <1>8 DEF Indices, Allocated
<1>12. \A u \in Allocated : \A i \in Indices(u) :
         /\ scopes[u][i].ptr \in Pointers /\ heap[scopes[u][i].ptr] # None
         /\ heap'[scopes[u][i].ptr] = heap[scopes[u][i].ptr]
  <2> TAKE u \in Allocated
  <2> TAKE i \in Indices(u)
  <2>1. scopes[u][i].ptr \in Pointers
    BY CellsTyped
  <2>2. heap[scopes[u][i].ptr] # None
    BY DEF OwnInstances
  <2>3. ~ \E j \in Indices(s) : at[j] = scopes[u][i].ptr
    BY <2>2, <1>3
  <2> QED  BY <2>1, <2>2, <2>3, <1>2
<1>13. \A i \in Indices(s) : heap'[at[i]] = heap[scopes[s][i].ptr]
  <2> TAKE i \in Indices(s)
  <2>1. (CHOOSE j \in Indices(s) : at[j] = at[i]) = i
    BY <1>2
  <2> QED  BY <2>1, <1>2, <1>3
<1>14. TypeOK'
  <2>1. scopes' \in [Scopes -> Seq(CellType) \cup {None}]
    BY <1>5, <1>6, <1>7
  <2>2. heap' \in [Pointers -> InstanceType \cup {None}]
    <3>1. \A p \in Pointers : heap'[p] \in InstanceType \cup {None}
      <4> TAKE p \in Pointers
      <4>1. CASE \E i \in Indices(s) : at[i] = p
        BY <4>1, <1>1, <1>13, InstanceTyped
      <4>2. CASE ~ \E i \in Indices(s) : at[i] = p
        BY <4>2, <1>2, <1>6
      <4> QED  BY <4>1, <4>2
    <3>2. heap' = [p \in Pointers |-> heap'[p]]
      BY <1>2
    <3> QED  BY <3>1, <3>2
  <2>3. \A u \in Allocated' : Len(scopes'[u]) < MaxCells
    BY <1>4, <1>5, <1>8, <1>10, <1>11, CellsTyped
  <2>4. scopes'[Glob] # None
    BY <1>8, <1>9, ScopesAssumption DEF TypeOK
  <2> QED  BY <2>1, <2>2, <2>3, <2>4, <1>1 DEF TypeOK
<1>15. OwnInstances'
  <2> SUFFICES ASSUME NEW u \in Allocated', NEW v \in Allocated', NEW i \in Indices(u)', NEW j \in Indices(v)'
               PROVE  /\ heap'[scopes'[u][i].ptr] # None
                      /\ scopes'[u][i].ptr = scopes'[v][j].ptr => u = v /\ i = j
    BY DEF OwnInstances
  <2>1. \A w \in Allocated' : \A k \in Indices(w)' :
          \/ w = t /\ k \in Indices(s) /\ scopes'[w][k].ptr = at[k]
          \/ w # t /\ w \in Allocated /\ k \in Indices(w) /\ scopes'[w][k] = scopes[w][k]
    BY <1>5, <1>8, <1>10, <1>11
  <2>2. heap'[scopes'[u][i].ptr] # None
    BY <2>1, <1>1, <1>12, <1>13
  <2>3. scopes'[u][i].ptr = scopes'[v][j].ptr => u = v /\ i = j
    <3>1. CASE u = t /\ v = t
      BY <3>1, <2>1, <1>2
    <3>2. CASE u = t /\ v # t
      BY <3>2, <2>1, <1>3, <1>12
    <3>3. CASE u # t /\ v = t
      BY <3>3, <2>1, <1>3, <1>12
    <3>4. CASE u # t /\ v # t
      BY <3>4, <2>1 DEF OwnInstances
    <3> QED  BY <3>1, <3>2, <3>3, <3>4
  <2> QED  BY <2>2, <2>3
<1>16. NamesOnce'
  <2> SUFFICES ASSUME NEW u \in Allocated', NEW i \in Indices(u)', NEW j \in Indices(u)',
                      heap'[scopes'[u][i].ptr].name = heap'[scopes'[u][j].ptr].name
               PROVE  i = j
    BY DEF NamesOnce, NameAt
  <2>1. CASE u = t
    BY <2>1, <1>1, <1>5, <1>8, <1>10, <1>13 DEF NamesOnce, NameAt
  <2>2. CASE u # t
    BY <2>2, <1>10, <1>11, <1>12 DEF NamesOnce, NameAt
  <2> QED  BY <2>1, <2>2
<1>17. LinksOnce'
  <2> SUFFICES ASSUME NEW u \in Allocated', NEW i \in Indices(u)', NEW j \in Indices(u)'
               PROVE  /\ scopes'[u][i].link < nlink
                      /\ scopes'[u][i].link = scopes'[u][j].link => i = j
    BY <1>1 DEF LinksOnce
  <2>1. CASE u = t
    BY <2>1, <1>1, <1>5, <1>8, <1>10 DEF LinksOnce
  <2>2. CASE u # t
    BY <2>2, <1>10, <1>11 DEF LinksOnce
  <2> QED  BY <2>1, <2>2
<1> QED  BY <1>14, <1>15, <1>16, <1>17

\* And so does a stutter.
LEMMA StutterInv ==
  ASSUME Inv, UNCHANGED vars
  PROVE  Inv'
BY DEF Inv, vars, TypeOK, OwnInstances, NamesOnce, LinksOnce, Allocated, Indices, NameAt

\* In every reachable state each cell has an instance of its own, which is
\* allocated, and in a scope no name and no link occurs twice (src/scope.c).
THEOREM StoreInv == Spec => []Inv
<1>1. Init => Inv
  BY InitInv
<1>2. Inv /\ [Next]_vars => Inv'
  BY NewInv, FreeInv, DeclareInv, PassInv, AssignInv, RenameInv, CopyInv, StutterInv DEF Next
<1> QED  BY <1>1, <1>2, PTL DEF Spec

\* Freeing a scope, or narrowing a variable in it, touches nothing that another
\* scope holds (laure_scope_free, laure_scope_create_copy).
THEOREM InstancesAreOwn == Spec => []OwnInstances
<1>1. Inv => OwnInstances
  BY DEF Inv
<1> QED  BY <1>1, StoreInv, PTL

\* A link leads to the variable that a name leads to: what is bound in a copy or
\* in a callee comes back to its variable (laure_scope_find_by_link).
THEOREM LinksFind == Spec => []LinksFindTheirName
BY InvImplies, StoreInv, PTL

\* Every cell is typed, has an instance of its own and is found by its link and
\* by its name, whatever is declared, passed, copied and freed.
THEOREM ScopesAreSound == Spec => []ScopesSound
<1>1. Inv => ScopesSound
  BY InvImplies DEF Inv, ScopesSound
<1> QED  BY <1>1, StoreInv, PTL
-------------------------------------------------------------------------------

\* What scopes are worth (Valued), cell by cell.
ValuedShape ==
  /\ DOMAIN Valued = Scopes /\ Valued = [s \in Scopes |-> Valued[s]]
  /\ \A s \in Scopes \ Allocated : Valued[s] = None
  /\ \A s \in Allocated :
       /\ s \in Scopes
       /\ Valued[s] \in [Held(s) -> Values] /\ Valued[s] # None
       /\ \A i \in Indices(s) : Valued[s][NameAt(s, i)] = heap[scopes[s][i].ptr].val

\* What scopes are worth: a function from the names held to the values of their instances.
LEMMA Shape == Inv => ValuedShape
<1> SUFFICES ASSUME Inv PROVE ValuedShape
  OBVIOUS
<1>1. DOMAIN Valued = Scopes /\ Valued = [s \in Scopes |-> Valued[s]]
  BY DEF Valued
<1>2. \A s \in Scopes \ Allocated : Valued[s] = None
  BY DEF Valued, Allocated
<1>3. ASSUME NEW s \in Allocated
      PROVE  /\ s \in Scopes
             /\ Valued[s] \in [Held(s) -> Values] /\ Valued[s] # None
             /\ \A i \in Indices(s) : Valued[s][NameAt(s, i)] = heap[scopes[s][i].ptr].val
  <2>1. s \in Scopes /\ Valued[s] = [n \in Held(s) |-> heap[scopes[s][KeyAt(s, n)].ptr].val]
    BY DEF Valued, Allocated
  <2>2. \A i \in Indices(s) : /\ heap[scopes[s][i].ptr] \in InstanceType
                              /\ heap[scopes[s][i].ptr].val \in Values /\ NameAt(s, i) \in Names
    BY InstanceTyped DEF InstanceType, NameAt
  <2>3. \A i \in Indices(s) : NameAt(s, i) \in Held(s) /\ KeyAt(s, NameAt(s, i)) = i
    BY KeyFound DEF Held, Inv
  <2>4. \A n \in Held(s) : KeyAt(s, n) \in Indices(s)
    BY <2>3 DEF Held
  <2>5. Valued[s] \in [Held(s) -> Values]
    BY <2>1, <2>2, <2>4
  <2>6. Held(s) \in SUBSET Names
    BY <2>2 DEF Held
  <2>7. Valued[s] # None
    BY <2>5, <2>6, ScopesAssumption
  <2> QED  BY <2>1, <2>3, <2>5, <2>7
<1> QED  BY <1>1, <1>2, <1>3 DEF ValuedShape

\* The same after a step.
LEMMA ShapeNext == Inv' => ValuedShape'
BY Shape, PTL

\* A scope whose cells have the names and values they had is worth the same.
LEMMA SameValued ==
  ASSUME Inv, Inv', NEW s \in Allocated, s \in Allocated', Indices(s)' = Indices(s),
         \A i \in Indices(s) : /\ NameAt(s, i)' = NameAt(s, i)
                               /\ heap'[scopes'[s][i].ptr].val = heap[scopes[s][i].ptr].val
  PROVE  Valued'[s] = Valued[s]
<1>1. Held(s)' = Held(s)
  BY DEF Held
<1>2. Valued[s] \in [Held(s) -> Values] /\ Valued'[s] \in [Held(s) -> Values]
  BY <1>1, Shape, ShapeNext DEF ValuedShape
<1>3. \A i \in Indices(s) : Valued'[s][NameAt(s, i)] = Valued[s][NameAt(s, i)]
  BY Shape, ShapeNext DEF ValuedShape
<1>4. \A n \in Held(s) : Valued'[s][n] = Valued[s][n]
  BY <1>3 DEF Held
<1> QED  BY <1>2, <1>4

\* A step that changes what one scope is worth.
LEMMA ChangesOne ==
  ASSUME Inv, Inv', NEW s \in Scopes, NEW F,
         \A t \in Scopes \ {s} : Valued'[t] = Valued[t], Valued'[s] = F
  PROVE  Valued' = [Valued EXCEPT ![s] = F]
<1>1. /\ Valued = [t \in Scopes |-> Valued[t]]
      /\ Valued' = [t \in Scopes |-> Valued'[t]]
  BY Shape, ShapeNext DEF ValuedShape
<1> DEFINE new == [Valued EXCEPT ![s] = F]
<1>2. new = [t \in Scopes |-> IF t = s THEN F ELSE Valued[t]]
  BY <1>1
<1> QED  BY <1>1, <1>2

LEMMA SameCells ==
  ASSUME Inv, Inv', NEW s \in Scopes, scopes'[s] = scopes[s],
         s \in Allocated => \A i \in Indices(s) : heap'[scopes[s][i].ptr] = heap[scopes[s][i].ptr]
  PROVE  Valued'[s] = Valued[s]
<1>1. CASE s \in Allocated
  <2>1. s \in Allocated' /\ Indices(s)' = Indices(s)
    BY <1>1 DEF Allocated, Indices
  <2> QED  BY <1>1, <2>1, SameValued DEF NameAt
<1>2. CASE s \notin Allocated
  <2>1. s \notin Allocated'
    BY <1>2 DEF Allocated
  <2> QED  BY <1>2, <2>1, Shape, ShapeNext DEF ValuedShape
<1> QED  BY <1>1, <1>2

\* At the start there is one scope, which holds nothing.
LEMMA InitStore ==
  ASSUME Init
  PROVE  S!Init
<1>1. <<>> \in Seq(CellType) /\ Len(<<>>) = 0
  OBVIOUS
<1>2. <<>> # None
  BY <1>1, ScopesAssumption DEF CellType
<1>3. /\ scopes[Glob] = <<>> /\ \A s \in Scopes : s # Glob => scopes[s] = None
  BY ScopesAssumption DEF Init
<1>4. Held(Glob) = {}
  BY <1>1, <1>3 DEF Held, Indices
<1>5. [n \in Held(Glob) |-> heap[scopes[Glob][KeyAt(Glob, n)].ptr].val] = <<>>
  BY <1>4
<1>6. Valued = [s \in Scopes |-> IF s = Glob THEN <<>> ELSE None]
  BY <1>2, <1>3, <1>5 DEF Valued
<1> QED  BY <1>6, ScopesAssumption DEF S!Init

\* A new scope is an empty store.
LEMMA NewStore ==
  ASSUME Inv, Inv', NEW t \in Scopes, New(t)
  PROVE  S!Open(t)
<1>1. /\ t \notin Allocated /\ scopes' = [scopes EXCEPT ![t] = <<>>] /\ heap' = heap
  BY DEF New
<1>2. scopes'[t] = <<>> /\ \A s \in Scopes \ {t} : scopes'[s] = scopes[s]
  BY <1>1 DEF Inv, TypeOK
<1>3. \A s \in Scopes \ {t} : Valued'[s] = Valued[s]
  BY <1>1, <1>2, SameCells
<1>4. <<>> \in Seq(CellType) /\ Len(<<>>) = 0
  OBVIOUS
<1>5. <<>> # None
  BY <1>4, ScopesAssumption DEF CellType
<1>6. Held(t)' = {}
  BY <1>2, <1>4 DEF Held, Indices
<1>7. Valued'[t] = [n \in Held(t)' |-> heap'[scopes'[t][KeyAt(t, n)'].ptr].val]
  BY <1>2, <1>5 DEF Valued
<1>8. Valued'[t] = <<>>
  BY <1>6, <1>7
<1>9. Valued[t] = None
  BY <1>1, Shape DEF ValuedShape
<1> QED  BY <1>3, <1>8, <1>9, ChangesOne DEF S!Open, S!Live

\* Freeing a scope closes its store and changes no other.
LEMMA FreeStore ==
  ASSUME Inv, Inv', NEW t \in Scopes, Free(t)
  PROVE  S!Close(t)
<1>1. /\ t \in Allocated /\ scopes' = [scopes EXCEPT ![t] = None]
      /\ heap' = [p \in Pointers |-> IF p \in Freed(t) THEN None ELSE heap[p]]
  BY DEF Free
<1>2. scopes'[t] = None /\ \A s \in Scopes \ {t} : scopes'[s] = scopes[s]
  BY <1>1 DEF Inv, TypeOK
<1>3. \A s \in Allocated \ {t} : \A i \in Indices(s) : heap'[scopes[s][i].ptr] = heap[scopes[s][i].ptr]
  <2> TAKE s \in Allocated \ {t}
  <2> TAKE i \in Indices(s)
  <2>1. scopes[s][i].ptr \in Pointers
    BY CellsTyped DEF Inv
  <2>2. scopes[s][i].ptr \notin Freed(t)
    BY <1>1 DEF Freed, OwnInstances, Inv
  <2> QED  BY <1>1, <2>1, <2>2
<1>4. \A s \in Scopes \ {t} : Valued'[s] = Valued[s]
  BY <1>2, <1>3, SameCells
<1>5. Valued'[t] = None
  BY <1>2 DEF Valued
<1>6. Valued[t] # None
  BY <1>1, Shape DEF ValuedShape
<1> QED  BY <1>4, <1>5, <1>6, ChangesOne DEF S!Close, S!Live

\* An insertion declares a value, unless the scope is full, when nothing changes but that the process exits.
LEMMA InsertStore ==
  ASSUME Inv, Inv', NEW s \in Allocated, NEW instance \in InstanceType, NEW link \in 1..MaxLink,
         \A i \in Indices(s) : NameAt(s, i) # instance.name,
         InsertL(s, instance, link)
  PROVE  Valued' = Valued \/ S!Declare(s, instance.name, instance.val)
<1>0. s \in Scopes
  BY CellsTyped DEF Inv
<1>1. CASE Full(s)
  <2>1. UNCHANGED <<scopes, heap>>
    BY <1>1 DEF InsertL
  <2>2. \A t \in Scopes : Valued'[t] = Valued[t]
    BY <2>1, SameCells
  <2> QED  BY <2>2, Shape, ShapeNext DEF ValuedShape
<1>2. CASE ~Full(s)
  <2> DEFINE m == instance.name  v == instance.val
  <2>0. PICK n \in Nat : n = Len(scopes[s])
    BY CellsTyped DEF Inv
  <2>1. PICK p \in Pointers :
          /\ heap[p] = None
          /\ scopes' = [scopes EXCEPT ![s] = Append(@, [ptr |-> p, link |-> link])]
          /\ heap' = [heap EXCEPT ![p] = instance]
    BY <1>2 DEF InsertL, Fresh
  <2>2. scopes[s] \in Seq(CellType) /\ Len(scopes[s]) = n
    BY <2>0, CellsTyped DEF Inv
  <2>3. /\ scopes'[s] = Append(scopes[s], [ptr |-> p, link |-> link])
        /\ \A t \in Scopes \ {s} : scopes'[t] = scopes[t]
    BY <1>0, <2>1 DEF Inv, TypeOK
  <2>4. \A t \in Allocated : \A i \in Indices(t) :
          heap'[scopes[t][i].ptr] = heap[scopes[t][i].ptr]
    <3> TAKE t \in Allocated
    <3> TAKE i \in Indices(t)
    <3>1. scopes[t][i].ptr \in Pointers
      BY CellsTyped DEF Inv
    <3>2. heap[scopes[t][i].ptr] # None
      BY DEF OwnInstances, Inv
    <3> QED  BY <3>1, <3>2, <2>1 DEF Inv, TypeOK
  <2>5. \A t \in Scopes \ {s} : Valued'[t] = Valued[t]
    BY <2>3, <2>4, SameCells
  <2>6. /\ Len(scopes'[s]) = n + 1 /\ \A i \in 1..n : scopes'[s][i] = scopes[s][i]
        /\ scopes'[s][n + 1] = [ptr |-> p, link |-> link] /\ s \in Allocated'
    <3>1. [ptr |-> p, link |-> link] \in CellType
      BY DEF CellType
    <3>2. scopes'[s] \in Seq(CellType)
      BY <2>2, <2>3, <3>1
    <3>3. s \in Allocated'
      BY <1>0, <3>2, ScopesAssumption DEF Allocated, CellType
    <3> QED  BY <2>2, <2>3, <3>1, <3>3
  <2>7. heap'[p] = instance
    BY <2>1 DEF Inv, TypeOK
  <2>8. \A i \in Indices(s) : NameAt(s, i)' = NameAt(s, i) /\ i \in Indices(s)' /\ i \in 1..n
    BY <2>2, <2>4, <2>6 DEF NameAt, Indices
  <2>9. n + 1 \in Indices(s)' /\ NameAt(s, n + 1)' = m
    <3>1. n + 1 \in 1..n + 1
      BY <2>2
    <3>2. Indices(s)' = 1..n + 1
      BY <2>6 DEF Indices
    <3>3. heap'[scopes'[s][n + 1].ptr] = instance
      BY <2>6, <2>7
    <3> QED  BY <3>1, <3>2, <3>3 DEF NameAt
  <2>10. \A i \in Indices(s)' : i \in Indices(s) \/ i = n + 1
    BY <2>2, <2>6 DEF Indices
  <2>11. Held(s)' = Held(s) \cup {m}
    <3>1. Held(s)' = {NameAt(s, i)' : i \in Indices(s)'}
      BY DEF Held
    <3>2. Held(s) = {NameAt(s, i)' : i \in Indices(s)}
      BY <2>8 DEF Held
    <3>3. Indices(s)' = Indices(s) \cup {n + 1}
      BY <2>8, <2>9, <2>10
    <3> HIDE DEF m
    <3> QED  BY <2>9, <3>1, <3>2, <3>3
  <2>12. m \notin Held(s)
    BY DEF Held
  <2>13. Valued[s] \in [Held(s) -> Values] /\ Valued[s] # None /\ Valued'[s] \in [Held(s) \cup {m} -> Values]
    BY <2>6, <2>11, Shape, ShapeNext DEF ValuedShape
  <2>14. Valued'[s][m] = v
    <3>1. Valued'[s][NameAt(s, n + 1)'] = heap'[scopes'[s][n + 1].ptr].val
      BY <2>6, <2>9, ShapeNext DEF ValuedShape
    <3> QED  BY <2>6, <2>7, <2>9, <3>1
  <2>15. \A i \in Indices(s) : Valued'[s][NameAt(s, i)] = Valued[s][NameAt(s, i)]
    BY <2>4, <2>6, <2>8, Shape, ShapeNext DEF ValuedShape
  <2>16. \A k \in Held(s) : Valued'[s][k] = Valued[s][k]
    BY <2>15 DEF Held
  <2> HIDE DEF m, v
  <2>17. Valued'[s] = [k \in Held(s) \cup {m} |-> IF k = m THEN v ELSE Valued[s][k]]
    BY <2>12, <2>13, <2>14, <2>16
  <2>18. DOMAIN Valued[s] = Held(s)
    BY <2>13
  <2>19. Valued' = [Valued EXCEPT ![s] = [k \in Held(s) \cup {m} |-> IF k = m THEN v ELSE Valued[s][k]]]
    BY <1>0, <2>5, <2>17, ChangesOne
  <2> QED  BY <2>12, <2>13, <2>18, <2>19 DEF S!Declare, S!Set, S!Held, S!Live, m, v
<1> QED  BY <1>1, <1>2

\* Declaring a variable declares it in the store.
LEMMA DeclareStore ==
  ASSUME Inv, Inv', NEW s \in Scopes, NEW n \in Names, NEW v \in Values, NEW locked \in BOOLEAN,
         Declare(s, n, v, locked)
  PROVE  Valued' = Valued \/ S!Declare(s, n, v)
<1>1. /\ s \in Allocated /\ KeyAt(s, n) = 0 /\ InsertL(s, Instance_(n, v, locked), nlink)
  BY DEF Declare
<1>2. /\ Instance_(n, v, locked) \in InstanceType /\ Instance_(n, v, locked).name = n
      /\ Instance_(n, v, locked).val = v
  BY DEF Instance_, InstanceType
<1>3. \A i \in Indices(s) : NameAt(s, i) # n
  BY <1>1, KeyFound DEF Inv
<1>4. nlink \in 1..MaxLink
  BY DEF Inv, TypeOK
<1> QED  BY <1>1, <1>2, <1>3, <1>4, InsertStore

\* An argument is declared in the callee's store.
LEMMA PassStore ==
  ASSUME Inv, Inv', NEW s \in Scopes, NEW t \in Scopes, NEW n \in Names, NEW m \in Names,
         Pass(s, n, t, m)
  PROVE  Valued' = Valued \/ \E v \in Values : S!Declare(t, m, v)
<1> DEFINE w == Where(s, n)  k == KeyAt(w, n)  cell == scopes[w][k]
           copy == Instance_(m, heap[cell.ptr].val, FALSE)
<1>1. /\ s \in Allocated /\ t \in Allocated /\ Holds(s, n) /\ KeyAt(t, m) = 0
      /\ InsertL(t, copy, cell.link)
  BY DEF Pass
<1>2. w \in Allocated /\ k \in Indices(w)
  BY <1>1, FoundIn
<1>3. cell.link \in 1..MaxLink
  BY <1>2, CellsTyped DEF Inv
<1>4. heap[cell.ptr] \in InstanceType
  BY <1>2, InstanceTyped
<1>5. copy \in InstanceType /\ copy.name = m /\ copy.val \in Values
  BY <1>4 DEF Instance_, InstanceType
<1>6. \A i \in Indices(t) : NameAt(t, i) # m
  BY <1>1, KeyFound DEF Inv
<1> HIDE DEF w, k, cell, copy
<1>7. Valued' = Valued \/ S!Declare(t, copy.name, copy.val)
  BY <1>1, <1>3, <1>5, <1>6, InsertStore
<1> QED  BY <1>5, <1>7

\* A step that writes one instance changes what its scope is worth, and no other.
LEMMA WriteElsewhere ==
  ASSUME Inv, Inv', NEW s \in Allocated, NEW k \in Indices(s), NEW instance,
         heap' = [heap EXCEPT ![scopes[s][k].ptr] = instance], scopes' = scopes
  PROVE  /\ \A t \in Scopes \ {s} : Valued'[t] = Valued[t]
         /\ \A i \in Indices(s) : heap'[scopes[s][i].ptr] =
                                  IF i = k THEN instance ELSE heap[scopes[s][i].ptr]
         /\ s \in Allocated' /\ Indices(s)' = Indices(s)
<1> DEFINE p == scopes[s][k].ptr
<1>1. p \in Pointers
  BY CellsTyped DEF Inv
<1>2. heap'[p] = instance /\ \A q \in Pointers : q # p => heap'[q] = heap[q]
  BY <1>1 DEF Inv, TypeOK
<1>3. \A t \in Allocated : \A i \in Indices(t) :
        /\ scopes[t][i].ptr \in Pointers
        /\ scopes[t][i].ptr = p => t = s /\ i = k
  BY CellsTyped DEF Inv, OwnInstances
<1>4. \A t \in Scopes \ {s} : Valued'[t] = Valued[t]
  BY <1>2, <1>3, SameCells
<1>5. s \in Allocated' /\ Indices(s)' = Indices(s)
  BY DEF Allocated, Indices
<1> QED  BY <1>2, <1>3, <1>4, <1>5

\* An assignment through the pointer found assigns in the scope that holds the name.
LEMMA AssignStore ==
  ASSUME Inv, Inv', NEW s \in Scopes, NEW n \in Names, NEW v \in Values, Assign(s, n, v)
  PROVE  \E t \in Scopes : S!Assign(t, n, v)
<1>1. PICK w \in Allocated : w = Where(s, n) /\ Holds(s, n)
  BY FoundIn DEF Assign
<1>2. PICK k \in Indices(w) : k = KeyAt(w, n) /\ NameAt(w, k) = n
  BY <1>1, FoundIn DEF Assign
<1>3. PICK instance : instance = [heap[scopes[w][k].ptr] EXCEPT !.val = v]
  OBVIOUS
<1>4. heap' = [heap EXCEPT ![scopes[w][k].ptr] = instance] /\ scopes' = scopes
  BY <1>1, <1>2, <1>3 DEF Assign, FoundPtr
<1>5. heap[scopes[w][k].ptr] \in InstanceType
  BY InstanceTyped
<1>6. instance.name = n /\ instance.val = v
  BY <1>2, <1>3, <1>5 DEF InstanceType, NameAt
<1>7. /\ \A t \in Scopes \ {w} : Valued'[t] = Valued[t]
      /\ \A i \in Indices(w) : heap'[scopes[w][i].ptr] =
                               IF i = k THEN instance ELSE heap[scopes[w][i].ptr]
      /\ w \in Allocated' /\ Indices(w)' = Indices(w)
  BY <1>4, WriteElsewhere
<1>8. \A i \in Indices(w) : NameAt(w, i)' = NameAt(w, i) /\ (NameAt(w, i) = n => i = k)
  BY <1>2, <1>4, <1>6, <1>7 DEF NameAt, Inv, NamesOnce
<1>9. Held(w)' = Held(w) /\ n \in Held(w)
  BY <1>2, <1>7, <1>8 DEF Held
<1>10. /\ w \in Scopes /\ Valued[w] \in [Held(w) -> Values] /\ Valued[w] # None
       /\ Valued'[w] \in [Held(w) -> Values]
  BY <1>7, <1>9, Shape, ShapeNext DEF ValuedShape
<1>11. \A i \in Indices(w) : Valued'[w][NameAt(w, i)] = IF i = k THEN v ELSE Valued[w][NameAt(w, i)]
  <2> TAKE i \in Indices(w)
  <2>1. Valued'[w][NameAt(w, i)] = heap'[scopes[w][i].ptr].val
    BY <1>4, <1>7, <1>8, ShapeNext DEF ValuedShape
  <2>2. Valued[w][NameAt(w, i)] = heap[scopes[w][i].ptr].val
    BY Shape DEF ValuedShape
  <2> QED  BY <2>1, <2>2, <1>6, <1>7
<1>12. \A m \in Held(w) : Valued'[w][m] = IF m = n THEN v ELSE Valued[w][m]
  BY <1>2, <1>8, <1>11 DEF Held
<1>13. Valued'[w] = [m \in Held(w) \cup {n} |-> IF m = n THEN v ELSE Valued[w][m]]
  BY <1>9, <1>10, <1>12
<1>14. Valued' = [Valued EXCEPT ![w] = [m \in Held(w) \cup {n} |-> IF m = n THEN v ELSE Valued[w][m]]]
  BY <1>7, <1>10, <1>13, ChangesOne
<1>15. DOMAIN Valued[w] = Held(w)
  BY <1>10
<1> QED  BY <1>9, <1>10, <1>14, <1>15 DEF S!Assign, S!Set, S!Held, S!Live

\* Renaming a variable renames it in its store.
LEMMA RenameStore ==
  ASSUME Inv, Inv', NEW s \in Scopes, NEW n \in Names, NEW m \in Names, Rename(s, n, m)
  PROVE  S!Rename(s, n, m)
<1>1. s \in Allocated /\ KeyAt(s, n) # 0 /\ KeyAt(s, m) = 0 /\ scopes' = scopes
  BY DEF Rename
<1>2. PICK k \in Indices(s) : k = KeyAt(s, n) /\ NameAt(s, k) = n
  BY <1>1, KeyFound DEF Inv
<1>3. PICK instance : instance = [heap[scopes[s][k].ptr] EXCEPT !.name = m]
  OBVIOUS
<1>4. heap' = [heap EXCEPT ![scopes[s][k].ptr] = instance]
  BY <1>2, <1>3 DEF Rename
<1>5. heap[scopes[s][k].ptr] \in InstanceType
  BY <1>1, InstanceTyped
<1>6. instance.name = m /\ instance.val = heap[scopes[s][k].ptr].val
  BY <1>3, <1>5 DEF InstanceType
<1>7. /\ \A t \in Scopes \ {s} : Valued'[t] = Valued[t]
      /\ \A i \in Indices(s) : heap'[scopes[s][i].ptr] =
                               IF i = k THEN instance ELSE heap[scopes[s][i].ptr]
      /\ s \in Allocated' /\ Indices(s)' = Indices(s)
  BY <1>1, <1>4, WriteElsewhere
<1>8. \A i \in Indices(s) : /\ NameAt(s, i)' = IF i = k THEN m ELSE NameAt(s, i)
                            /\ NameAt(s, i) # m /\ (NameAt(s, i) = n => i = k)
  BY <1>1, <1>2, <1>6, <1>7, KeyFound DEF NameAt, Inv, NamesOnce
<1>9. Held(s)' = (Held(s) \ {n}) \cup {m} /\ n \in Held(s) /\ m \notin Held(s)
  <2>1. Held(s) = {NameAt(s, i) : i \in Indices(s)} /\ Held(s)' = {NameAt(s, i)' : i \in Indices(s)}
    BY <1>7 DEF Held
  <2> QED  BY <1>2, <1>8, <2>1
<1>10. /\ s \in Scopes /\ Valued[s] \in [Held(s) -> Values] /\ Valued[s] # None
       /\ Valued'[s] \in [(Held(s) \ {n}) \cup {m} -> Values]
  BY <1>1, <1>7, <1>9, Shape, ShapeNext DEF ValuedShape
<1>11. \A i \in Indices(s) : Valued'[s][NameAt(s, i)'] = Valued[s][NameAt(s, i)]
  <2> TAKE i \in Indices(s)
  <2>1. Valued'[s][NameAt(s, i)'] = heap'[scopes[s][i].ptr].val
    BY <1>1, <1>7, ShapeNext DEF ValuedShape
  <2>2. Valued[s][NameAt(s, i)] = heap[scopes[s][i].ptr].val
    BY <1>1, Shape DEF ValuedShape
  <2> QED  BY <2>1, <2>2, <1>6, <1>7
<1>12. \A l \in (Held(s) \ {n}) \cup {m} : Valued'[s][l] = Valued[s][IF l = m THEN n ELSE l]
  <2> TAKE l \in (Held(s) \ {n}) \cup {m}
  <2>1. CASE l = m
    BY <2>1, <1>2, <1>8, <1>11
  <2>2. CASE l # m
    <3>1. PICK i \in Indices(s) : NameAt(s, i) = l /\ i # k
      BY <2>2, <1>2 DEF Held
    <3> QED  BY <2>2, <3>1, <1>8, <1>11
  <2> QED  BY <2>1, <2>2
<1>13. Valued'[s] = [l \in (Held(s) \ {n}) \cup {m} |-> Valued[s][IF l = m THEN n ELSE l]]
  BY <1>10, <1>12
<1>14. Valued' = [Valued EXCEPT ![s] = [l \in (Held(s) \ {n}) \cup {m} |-> Valued[s][IF l = m THEN n ELSE l]]]
  BY <1>7, <1>10, <1>13, ChangesOne
<1>15. DOMAIN Valued[s] = Held(s)
  BY <1>10
<1> QED  BY <1>9, <1>10, <1>14, <1>15 DEF S!Rename, S!Held, S!Live

\* A copy of a scope is worth the same.
LEMMA CopyStore ==
  ASSUME Inv, Inv', NEW s \in Scopes, NEW t \in Scopes, Copy(s, t)
  PROVE  S!Copy(s, t)
<1>1. s \in Allocated /\ t \notin Allocated /\ s # t
  BY DEF Copy
<1>2. PICK at \in [Indices(s) -> {p \in Pointers : heap[p] = None}] :
        /\ \A i, j \in Indices(s) : at[i] = at[j] => i = j
        /\ scopes' = [scopes EXCEPT ![t] = Deep(scopes[s], at)]
        /\ heap' = [p \in Pointers |->
             IF \E i \in Indices(s) : at[i] = p
               THEN heap[scopes[s][CHOOSE i \in Indices(s) : at[i] = p].ptr]
               ELSE heap[p]]
  BY DEF Copy, Fresh
<1>3. /\ scopes'[t] = Deep(scopes[s], at)
      /\ \A u \in Scopes \ {t} : scopes'[u] = scopes[u]
  BY <1>2 DEF Inv, TypeOK
<1>4. \A i \in Indices(s) : at[i] \in Pointers /\ heap[at[i]] = None
  BY <1>2
<1>5. \A u \in Allocated : \A i \in Indices(u) : heap'[scopes[u][i].ptr] = heap[scopes[u][i].ptr]
  <2> TAKE u \in Allocated
  <2> TAKE i \in Indices(u)
  <2>1. scopes[u][i].ptr \in Pointers
    BY CellsTyped DEF Inv
  <2>2. heap[scopes[u][i].ptr] # None
    BY DEF OwnInstances, Inv
  <2>3. ~ \E j \in Indices(s) : at[j] = scopes[u][i].ptr
    BY <2>2, <1>4
  <2> QED  BY <2>1, <2>3, <1>2
<1>6. \A u \in Scopes \ {t} : Valued'[u] = Valued[u]
  BY <1>3, <1>5, SameCells
<1>7. \A i \in Indices(s) : heap'[at[i]] = heap[scopes[s][i].ptr]
  <2> TAKE i \in Indices(s)
  <2>1. (CHOOSE j \in Indices(s) : at[j] = at[i]) = i
    BY <1>2
  <2> QED  BY <2>1, <1>2, <1>4
<1>8. /\ scopes'[t] \in Seq(CellType) /\ Len(scopes'[t]) = Len(scopes[s])
      /\ \A i \in Indices(s) : scopes'[t][i].ptr = at[i]
  <2>1. \A i \in Indices(s) : /\ [scopes[s][i] EXCEPT !.ptr = at[i]] \in CellType
                              /\ [scopes[s][i] EXCEPT !.ptr = at[i]].ptr = at[i]
    BY <1>1, <1>4, CellsTyped DEF CellType, Inv
  <2>2. scopes'[t] = [i \in 1..Len(scopes[s]) |-> [scopes[s][i] EXCEPT !.ptr = at[i]]]
    BY <1>3 DEF Deep
  <2>3. Len(scopes[s]) \in Nat
    BY <1>1, CellsTyped DEF Inv
  <2>4. scopes'[t] \in Seq(CellType) /\ Len(scopes'[t]) = Len(scopes[s])
    BY <2>1, <2>2, <2>3 DEF Indices
  <2> QED  BY <2>1, <2>2, <2>4 DEF Indices
<1>9. t \in Allocated' /\ Indices(t)' = Indices(s)
  BY <1>8, ScopesAssumption DEF Allocated, Indices, CellType
<1>10. \A i \in Indices(s) : NameAt(t, i)' = NameAt(s, i)
  BY <1>7, <1>8 DEF NameAt
<1>11. Held(t)' = Held(s)
  BY <1>9, <1>10 DEF Held
<1>12. Valued[s] \in [Held(s) -> Values] /\ Valued[s] # None /\ Valued'[t] \in [Held(s) -> Values]
  BY <1>1, <1>9, <1>11, Shape, ShapeNext DEF ValuedShape
<1>13. \A i \in Indices(s) : Valued'[t][NameAt(s, i)] = Valued[s][NameAt(s, i)]
  <2> TAKE i \in Indices(s)
  <2>1. Valued'[t][NameAt(t, i)'] = heap'[scopes'[t][i].ptr].val
    BY <1>9, ShapeNext DEF ValuedShape
  <2>2. Valued[s][NameAt(s, i)] = heap[scopes[s][i].ptr].val
    BY <1>1, Shape DEF ValuedShape
  <2> QED  BY <2>1, <2>2, <1>7, <1>8, <1>10
<1>14. Valued'[t] = Valued[s]
  BY <1>12, <1>13 DEF Held
<1>15. Valued[t] = None
  BY <1>1, Shape DEF ValuedShape
<1>16. Valued' = [Valued EXCEPT ![t] = Valued[s]]
  BY <1>6, <1>14, ChangesOne
<1> QED  BY <1>12, <1>15, <1>16 DEF S!Copy, S!Live

\* Every step is a step of the stores, or changes none.
LEMMA StepStore ==
  ASSUME Inv, Inv', [Next]_vars
  PROVE  [S!Next]_Valued
<1>1. CASE UNCHANGED vars
  <2>1. \A t \in Scopes : Valued'[t] = Valued[t]
    BY <1>1, SameCells DEF vars
  <2> QED  BY <2>1, Shape, ShapeNext DEF ValuedShape
<1>2. CASE \E s \in Scopes : New(s) \/ Free(s)
  BY <1>2, NewStore, FreeStore DEF S!Next
<1>3. CASE \E s \in Scopes, n \in Names, v \in Values, locked \in BOOLEAN : Declare(s, n, v, locked)
  BY <1>3, DeclareStore DEF S!Next
<1>4. CASE \E s, t \in Scopes, n, m \in Names : Pass(s, n, t, m)
  BY <1>4, PassStore DEF S!Next
<1>5. CASE \E s \in Scopes, n \in Names, v \in Values : Assign(s, n, v)
  BY <1>5, AssignStore DEF S!Next
<1>6. CASE \E s \in Scopes, n, m \in Names : Rename(s, n, m)
  BY <1>6, RenameStore DEF S!Next
<1>7. CASE \E s, t \in Scopes : Copy(s, t)
  BY <1>7, CopyStore DEF S!Next
<1> QED  BY <1>1, <1>2, <1>3, <1>4, <1>5, <1>6, <1>7 DEF Next

\* The array of cells implements stores of named values that only change by what
\* is asked of them: a copy goes its own way, whatever is done to the original.
THEOREM ScopesAreStores == Spec => IsStore
<1>1. Init => S!Init
  BY InitStore
<1>2. Inv /\ Inv' /\ [Next]_vars => [S!Next]_Valued
  BY StepStore
<1> QED  BY <1>1, <1>2, StoreInv, PTL DEF Spec, IsStore, S!Spec

-----------------------------------------------------------------------------
(* The window on the path *)

\* The first c entries of the chain are the end of the first n goals of the
\* path: all of them, or as many as the window keeps.
Shows(c, n) ==
  /\ c \in 0..n
  /\ c >= IF n < Limit - 1 THEN n ELSE Limit - 1
  /\ \A k \in 0..c - 1 : chain[k] = path[n - c + 1 + k]

\* A call in progress noted no longer a path than the calls in it.  If the
\* window did not slide since it was entered, it did not since the calls in it
\* were, and neither they nor the present are at a cursor before its own.
Nested ==
  /\ \A i \in 1..Len(saved) :
       saved[i].len <= Len(path) /\ (~saved[i].slid => saved[i].cursor <= cursor)
  /\ \A i, j \in 1..Len(saved) : i < j =>
       /\ saved[i].len <= saved[j].len
       /\ ~saved[i].slid => ~saved[j].slid /\ saved[i].cursor <= saved[j].cursor

\* What is at the cursor is the path, and at a cursor that was noted in a
\* window that did not slide since, the path of then.
Follows ==
  ~drifted =>
    /\ Shows(cursor, Len(path))
    /\ \A i \in 1..Len(saved) : ~saved[i].slid => Shows(saved[i].cursor, saved[i].len)

TraceInv == TraceTypeOK /\ Len(path) <= MaxPath /\ Nested /\ Follows

-----------------------------------------------------------------------------
(* The steps *)

\* The window of the next goal is typed, and does not pass the limit.
LEMMA WindowTyped ==
  ASSUME TraceTypeOK
  PROVE  /\ Window \in [0..Capacity - 1 -> Goals \cup {NoGoal}]
         /\ AtEnd \in 0..Limit - 1 /\ Kept \in 0..Limit - 1
         /\ AtEnd = IF Slides THEN Limit - 1 ELSE cursor
<1>1. /\ Limit \in Nat /\ Capacity \in Nat /\ 3 <= Limit /\ Limit < Capacity
      /\ cursor \in 0..Limit /\ chain \in [0..Capacity - 1 -> Goals \cup {NoGoal}]
  BY TraceAssumption DEF TraceTypeOK
<1>2. Kept \in 0..Limit - 1 /\ Start \in 0..1 /\ (Kept + Start <= Limit)
  BY <1>1 DEF Kept, Start, Slides
<1>3. Slid \in [0..Capacity - 1 -> Goals \cup {NoGoal}]
  <2>1. \A i \in 0..Capacity - 1 : i < Kept => chain[Start + i] \in Goals \cup {NoGoal}
    BY <1>1, <1>2
  <2>. QED  BY <2>1 DEF Slid
<1>4. AtEnd = IF Slides THEN Limit - 1 ELSE cursor
  BY <1>1 DEF AtEnd, Kept, Slides
<1>. QED  BY <1>1, <1>2, <1>3, <1>4 DEF Window, AtEnd, Slides

\* Without a slide the entries below the cursor stay.
LEMMA WindowKeeps ==
  ASSUME TraceTypeOK, ~Slides
  PROVE  \A k \in 0..cursor - 1 : Window[k] = chain[k]
<1>1. /\ Limit \in Nat /\ Capacity \in Nat /\ 3 <= Limit /\ Limit < Capacity
      /\ cursor \in 0..Limit
  BY TraceAssumption DEF TraceTypeOK
<1>2. Kept = cursor /\ Start = 0
  BY DEF Kept, Start
<1>3. \A k \in 0..cursor - 1 : Slid[k] = chain[k]
  BY <1>1, <1>2 DEF Slid
<1>4. Window = Slid \/ Window = chain
  BY DEF Window
<1>. QED  BY <1>3, <1>4

\* A slide drops one entry, and keeps the others in their order.
LEMMA WindowSlides ==
  ASSUME TraceTypeOK, Slides
  PROVE  cursor = Limit /\ \A k \in 0..Limit - 2 : Window[k] = chain[k + 1]
<1>1. /\ Limit \in Nat /\ Capacity \in Nat /\ 3 <= Limit /\ Limit < Capacity
      /\ cursor \in 0..Limit
  BY TraceAssumption DEF TraceTypeOK
<1>2. cursor = Limit /\ Kept = Limit - 1 /\ Start = 1
  BY <1>1 DEF Kept, Start, Slides
<1>3. \A k \in 0..Limit - 2 : Slid[k] = chain[k + 1]
  BY <1>1, <1>2 DEF Slid
<1>. QED  BY <1>1, <1>2, <1>3 DEF Window

\* The path grows by a goal that is not its last, and keeps what it has.
Longer(g) == IF path # <<>> /\ path[Len(path)] = g THEN path ELSE Append(path, g)
LEMMA LongerTyped ==
  ASSUME path \in Seq(Goals), NEW g \in Goals
  PROVE  /\ Longer(g) \in Seq(Goals)
         /\ Len(Longer(g)) \in {Len(path), Len(path) + 1}
         /\ Longer(g) # <<>> /\ Longer(g)[Len(Longer(g))] = g
         /\ \A k \in 1..Len(path) : Longer(g)[k] = path[k]
<1>1. CASE path # <<>> /\ path[Len(path)] = g
  BY <1>1 DEF Longer
<1>2. CASE ~(path # <<>> /\ path[Len(path)] = g)
  <2>1. Longer(g) = Append(path, g)
    BY <1>2 DEF Longer
  <2>. QED  BY <2>1
<1>. QED  BY <1>1, <1>2

\* What a predicate call notes.
Notes == [cursor : 0..Limit, len : 0..MaxPath, slid : BOOLEAN]
Marked(note) == [note EXCEPT !.slid = @ \/ Slides]
LEMMA NotesTyped ==
  ASSUME TraceTypeOK
  PROVE  /\ saved \in Seq(Notes) /\ Len(saved) \in Nat /\ DOMAIN saved = 1..Len(saved)
         /\ \A i \in 1..Len(saved) : saved[i] \in Notes
<1>1. saved \in Seq(Notes)
  BY DEF TraceTypeOK, Notes
<1>. QED  BY <1>1, ElementOfSeq

LEMMA MarkedFields ==
  ASSUME NEW note \in Notes
  PROVE  /\ Marked(note) \in Notes /\ note.slid \in BOOLEAN
         /\ note.len \in 0..MaxPath /\ note.cursor \in 0..Limit
         /\ Marked(note).len = note.len /\ Marked(note).cursor = note.cursor
         /\ Marked(note).slid = (note.slid \/ Slides)
BY DEF Notes, Marked, Slides

\* The window shows a path as long as neither changes up to there.
LEMMA ShowsKept ==
  ASSUME NEW c \in Nat, NEW n \in Nat, Shows(c, n),
         \A k \in 0..c - 1 : chain'[k] = chain[k],
         \A k \in 1..n : path'[k] = path[k]
  PROVE  /\ c \in 0..n
         /\ c >= IF n < Limit - 1 THEN n ELSE Limit - 1
         /\ \A k \in 0..c - 1 : chain'[k] = path'[n - c + 1 + k]
<1>1. c <= n /\ \A k \in 0..c - 1 : n - c + 1 + k \in 1..n
  BY DEF Shows
<1>. QED  BY <1>1 DEF Shows

\* A query starts with an empty window.
LEMMA InitHolds == ASSUME TraceInit  PROVE TraceInv
<1>1. TraceTypeOK
  <2>1. saved \in Seq([cursor : 0..Limit, len : 0..MaxPath, slid : BOOLEAN])
    BY DEF TraceInit
  <2>2. chain \in [0..Capacity - 1 -> Goals \cup {NoGoal}]
    BY DEF TraceInit, Nulls
  <2>. QED  BY <2>1, <2>2, TraceAssumption DEF TraceInit, TraceTypeOK
<1>2. Shows(0, 0)
  BY TraceAssumption DEF Shows
<1>. QED  BY <1>1, <1>2, TraceAssumption DEF TraceInit, TraceInv, Nested, Follows

\* laure_backtrace_add keeps the types, and with a repeated goal the window.
LEMMA AddTyped ==
  ASSUME TraceInv, NEW g \in Goals, Add(g)
  PROVE  /\ TraceTypeOK' /\ path' = Longer(g) /\ Len(path') <= MaxPath
         /\ Len(saved') = Len(saved)
         /\ \A i \in 1..Len(saved) : saved[i] \in Notes /\ saved'[i] = Marked(saved[i])
<1>1. /\ Limit \in Nat /\ Capacity \in Nat /\ MaxPath \in Nat /\ 3 <= Limit /\ Limit < Capacity
      /\ TraceTypeOK
  BY TraceAssumption DEF TraceInv
<1>2. Window \in [0..Capacity - 1 -> Goals \cup {NoGoal}] /\ AtEnd \in 0..Limit - 1
  BY <1>1, WindowTyped
<1>3. chain' \in [0..Capacity - 1 -> Goals \cup {NoGoal}] /\ cursor' \in 0..Limit
  BY <1>1, <1>2 DEF Add
<1>4. path' = Longer(g) /\ Len(path') <= MaxPath /\ path' \in Seq(Goals)
  BY <1>1, LongerTyped DEF Add, Longer, TraceTypeOK
<1>5. /\ DOMAIN saved = 1..Len(saved) /\ Len(saved) \in Nat
      /\ \A i \in 1..Len(saved) : saved[i] \in Notes
  BY <1>1, NotesTyped
<1>6. saved' = [i \in 1..Len(saved) |-> Marked(saved[i])]
  BY <1>5 DEF Add, Marked
<1>7. \A i \in 1..Len(saved) : Marked(saved[i]) \in Notes
  BY <1>5, MarkedFields
<1>8. saved' \in Seq(Notes) /\ Len(saved') = Len(saved)
  BY <1>5, <1>6, <1>7
<1>9. drifted' \in BOOLEAN
  BY <1>1 DEF Add, TraceTypeOK
<1>. QED  BY <1>3, <1>4, <1>5, <1>6, <1>8, <1>9 DEF TraceTypeOK, Notes

\* The calls in progress stay nested when a goal is added.
LEMMA AddNested ==
  ASSUME TraceInv, NEW g \in Goals, Add(g)
  PROVE  Nested'
<1>1. /\ Len(path) \in Nat /\ Len(path') \in {Len(path), Len(path) + 1}
      /\ Len(saved') = Len(saved) /\ Len(saved) \in Nat
  BY AddTyped, LongerTyped DEF TraceInv, TraceTypeOK
<1>2. \A i \in 1..Len(saved) : saved[i] \in Notes /\ saved'[i] = Marked(saved[i])
  BY AddTyped
<1>3. \A i \in 1..Len(saved) :
        /\ saved'[i].len = saved[i].len /\ saved'[i].cursor = saved[i].cursor
        /\ saved'[i].slid = (saved[i].slid \/ Slides) /\ saved[i].len \in Nat
        /\ saved[i].slid \in BOOLEAN
  BY <1>2, MarkedFields, TraceAssumption
<1>4. ~Slides => cursor' >= cursor
  <2>1. ~Slides => AtEnd = cursor /\ AtEnd \in Nat
    BY WindowTyped, TraceAssumption DEF TraceInv
  <2>. QED  BY <2>1 DEF Add
<1>5. \A i \in 1..Len(saved) : saved[i].cursor \in Nat /\ cursor \in Nat /\ cursor' \in Nat
  BY <1>2, MarkedFields, AddTyped, TraceAssumption DEF TraceInv, TraceTypeOK
<1>6. \A i \in 1..Len(saved') :
        saved'[i].len <= Len(path') /\ (~saved'[i].slid => saved'[i].cursor <= cursor')
  <2>. SUFFICES ASSUME NEW i \in 1..Len(saved)
                PROVE  /\ saved'[i].len <= Len(path')
                       /\ ~saved'[i].slid => saved'[i].cursor <= cursor'
    BY <1>1
  <2>1. saved[i].len <= Len(path) /\ (~saved[i].slid => saved[i].cursor <= cursor)
    BY DEF TraceInv, Nested
  <2>2. ~saved'[i].slid => ~saved[i].slid /\ ~Slides
    BY <1>3
  <2>3. /\ saved'[i].len = saved[i].len /\ saved'[i].cursor = saved[i].cursor
        /\ saved[i].len \in Nat
    BY <1>3
  <2>. QED  BY <1>1, <1>4, <1>5, <2>1, <2>2, <2>3
<1>. QED  BY <1>1, <1>3, <1>6 DEF TraceInv, Nested

\* The window follows the path when a goal is added.
LEMMA AddFollows ==
  ASSUME TraceInv, NEW g \in Goals, Add(g)
  PROVE  Follows'
<1>. SUFFICES ASSUME ~drifted  PROVE Follows'
  BY DEF Add, Follows
<1>1. /\ Limit \in Nat /\ 3 <= Limit /\ Limit < Capacity /\ Capacity \in Nat
      /\ TraceTypeOK /\ path \in Seq(Goals) /\ Len(path) \in Nat /\ cursor \in 0..Limit
  BY TraceAssumption DEF TraceInv, TraceTypeOK
<1>2. Shows(cursor, Len(path))
  BY DEF TraceInv, Follows
<1>3. /\ Window \in [0..Capacity - 1 -> Goals \cup {NoGoal}] /\ AtEnd \in 0..Limit - 1
      /\ AtEnd = IF Slides THEN Limit - 1 ELSE cursor
  BY <1>1, WindowTyped
<1>4. \A k \in 0..AtEnd - 1 : Window[k] = path[Len(path) - AtEnd + 1 + k]
  <2>1. CASE Slides
    <3>1. cursor = Limit /\ \A k \in 0..Limit - 2 : Window[k] = chain[k + 1]
      BY <1>1, <2>1, WindowSlides
    <3>. QED  BY <1>1, <1>2, <1>3, <2>1, <3>1 DEF Shows
  <2>2. CASE ~Slides
    BY <1>1, <1>2, <1>3, <2>2, WindowKeeps DEF Shows
  <2>. QED  BY <2>1, <2>2
<1>5. AtEnd \in 0..Len(path) /\ AtEnd >= IF Len(path) < Limit - 1 THEN Len(path) ELSE Limit - 1
  BY <1>1, <1>2, <1>3 DEF Shows, Slides
<1>6. Repeats(g) <=> path # <<>> /\ path[Len(path)] = g
  <2>1. AtEnd # 0 <=> path # <<>>
    BY <1>1, <1>5
  <2>2. AtEnd # 0 => Window[AtEnd - 1] = path[Len(path)]
    BY <1>1, <1>4, <1>5
  <2>. QED  BY <2>1, <2>2 DEF Repeats
<1>7. Shows(cursor, Len(path))'
  <2>1. CASE Repeats(g)
    <3>1. chain' = Window /\ cursor' = AtEnd /\ path' = path
      BY <1>6, <2>1 DEF Add
    <3>. QED  BY <1>4, <1>5, <3>1 DEF Shows
  <2>2. CASE ~Repeats(g)
    <3>1. /\ chain' = [Window EXCEPT ![AtEnd] = g] /\ cursor' = AtEnd + 1
          /\ path' = Append(path, g)
      BY <1>6, <2>2 DEF Add
    <3>2. /\ Len(path') = Len(path) + 1 /\ path'[Len(path) + 1] = g
          /\ \A k \in 1..Len(path) : path'[k] = path[k]
      BY <1>1, <3>1
    <3>3. \A k \in 0..AtEnd : chain'[k] = IF k = AtEnd THEN g ELSE Window[k]
      BY <1>1, <1>3, <3>1
    <3>4. AtEnd \in Nat /\ AtEnd <= Len(path)
      BY <1>1, <1>5
    <3>5. \A k \in 0..AtEnd : chain'[k] = path'[Len(path') - cursor' + 1 + k]
      <4>. TAKE k \in 0..AtEnd
      <4>1. Len(path') - cursor' + 1 + k = Len(path) - AtEnd + 1 + k
        BY <1>1, <3>1, <3>2, <3>4
      <4>2. CASE k = AtEnd
        <5>1. Len(path) - AtEnd + 1 + k = Len(path) + 1
          BY <1>1, <3>4, <4>2
        <5>. QED  BY <3>2, <3>3, <4>1, <4>2, <5>1
      <4>3. CASE k # AtEnd
        <5>1. k \in 0..AtEnd - 1 /\ Len(path) - AtEnd + 1 + k \in 1..Len(path)
          BY <1>1, <3>4, <4>3
        <5>. QED  BY <1>4, <3>2, <3>3, <4>1, <4>3, <5>1
      <4>. QED  BY <4>2, <4>3
    <3>6. cursor' \in 0..Len(path')
      BY <1>1, <3>1, <3>2, <3>4
    <3>7. cursor' >= IF Len(path') < Limit - 1 THEN Len(path') ELSE Limit - 1
      BY <1>1, <1>5, <3>1, <3>2, <3>4
    <3>8. cursor' - 1 = AtEnd
      BY <3>1, <3>4
    <3>. QED  BY <3>5, <3>6, <3>7, <3>8 DEF Shows
  <2>. QED  BY <2>1, <2>2
<1>8. \A i \in 1..Len(saved) : ~saved'[i].slid => Shows(saved[i].cursor, saved[i].len)'
  <2>. SUFFICES ASSUME NEW i \in 1..Len(saved), ~saved'[i].slid
                PROVE  Shows(saved[i].cursor, saved[i].len)'
    OBVIOUS
  <2>1. saved[i] \in Notes /\ saved'[i] = Marked(saved[i])
    BY AddTyped
  <2>2. /\ saved'[i].len = saved[i].len /\ saved'[i].cursor = saved[i].cursor
        /\ ~saved[i].slid /\ ~Slides
        /\ saved[i].len \in 0..MaxPath /\ saved[i].cursor \in 0..Limit
    BY <2>1, MarkedFields
  <2>3. /\ saved[i].cursor <= cursor /\ Shows(saved[i].cursor, saved[i].len)
        /\ saved[i].len <= Len(path) /\ saved[i].len \in Nat /\ saved[i].cursor \in Nat
    BY <2>2, TraceAssumption DEF TraceInv, Follows, Nested
  <2>4. AtEnd = cursor /\ \A k \in 0..cursor - 1 : Window[k] = chain[k]
    BY <1>1, <1>3, <2>2, WindowKeeps
  <2>5. cursor' >= cursor /\ \A k \in 0..cursor - 1 : chain'[k] = chain[k]
    BY <1>1, <1>3, <2>4 DEF Add
  <2>6. \A k \in 1..Len(path) : path'[k] = path[k]
    <3>1. path' = Longer(g)
      BY AddTyped
    <3>. QED  BY <1>1, <3>1, LongerTyped
  <2>7. Shows(saved[i].cursor, saved[i].len)'
    <3>1. PICK c \in Nat, n \in Nat : c = saved[i].cursor /\ n = saved[i].len
      BY <2>3
    <3>2. Shows(c, n) /\ c <= cursor /\ n <= Len(path)
      BY <2>3, <3>1
    <3>3. /\ \A k \in 0..c - 1 : chain'[k] = chain[k]
          /\ \A k \in 1..n : path'[k] = path[k]
      BY <1>1, <2>5, <2>6, <3>2
    <3>4. /\ c \in 0..n
          /\ c >= IF n < Limit - 1 THEN n ELSE Limit - 1
          /\ \A k \in 0..c - 1 : chain'[k] = path'[n - c + 1 + k]
      BY <3>2, <3>3, ShowsKept
    <3>5. saved'[i].cursor = c /\ saved'[i].len = n
      BY <2>2, <3>1
    <3>. QED  BY <3>4, <3>5 DEF Shows
  <2>. QED  BY <2>7
<1>9. Len(saved') = Len(saved)
  BY AddTyped
<1>. QED  BY <1>7, <1>8, <1>9 DEF Follows

\* A call that is entered notes the window as it is.
LEMMA EnterHolds ==
  ASSUME TraceInv, Enter
  PROVE  TraceInv'
<1>. DEFINE note == [cursor |-> cursor, len |-> Len(path), slid |-> FALSE]
<1>1. /\ Limit \in Nat /\ MaxPath \in Nat /\ Len(path) \in 0..MaxPath /\ cursor \in 0..Limit
      /\ TraceTypeOK
  BY TraceAssumption DEF TraceInv, TraceTypeOK
<1>2. note \in Notes /\ note.cursor = cursor /\ note.len = Len(path) /\ note.slid = FALSE
  BY <1>1 DEF Notes
<1>3. saved' = Append(saved, note) /\ UNCHANGED <<chain, cursor, path, drifted>>
  BY DEF Enter
<1>. HIDE DEF note
<1>4. /\ saved \in Seq(Notes) /\ Len(saved) \in Nat
      /\ \A i \in 1..Len(saved) : saved[i] \in Notes
  BY <1>1, NotesTyped
<1>5. /\ saved' \in Seq(Notes) /\ Len(saved') = Len(saved) + 1
      /\ saved'[Len(saved) + 1] = note
      /\ \A i \in 1..Len(saved) : saved'[i] = saved[i]
  BY <1>2, <1>3, <1>4
<1>6. TraceTypeOK'
  BY <1>1, <1>3, <1>5 DEF TraceTypeOK, Notes
<1>7. Nested'
  <2>1. \A i \in 1..Len(saved) :
          saved[i].len <= Len(path) /\ (~saved[i].slid => saved[i].cursor <= cursor)
    BY DEF TraceInv, Nested
  <2>2. \A i \in 1..Len(saved') :
          saved'[i].len <= Len(path') /\ (~saved'[i].slid => saved'[i].cursor <= cursor')
    BY <1>1, <1>2, <1>3, <1>4, <1>5, <2>1
  <2>3. \A i, j \in 1..Len(saved') : i < j =>
          /\ saved'[i].len <= saved'[j].len
          /\ ~saved'[i].slid => ~saved'[j].slid /\ saved'[i].cursor <= saved'[j].cursor
    <3>. SUFFICES ASSUME NEW i \in 1..Len(saved'), NEW j \in 1..Len(saved'), i < j
                  PROVE  /\ saved'[i].len <= saved'[j].len
                         /\ ~saved'[i].slid =>
                              ~saved'[j].slid /\ saved'[i].cursor <= saved'[j].cursor
      OBVIOUS
    <3>1. CASE j = Len(saved) + 1
      <4>1. i \in 1..Len(saved) /\ saved'[i] = saved[i] /\ saved'[j] = note
        BY <1>4, <1>5, <3>1
      <4>. QED  BY <1>2, <2>1, <4>1
    <3>2. CASE j # Len(saved) + 1
      <4>1. /\ i \in 1..Len(saved) /\ j \in 1..Len(saved)
            /\ saved'[i] = saved[i] /\ saved'[j] = saved[j]
        BY <1>4, <1>5, <3>2
      <4>. QED  BY <4>1 DEF TraceInv, Nested
    <3>. QED  BY <3>1, <3>2
  <2>. QED  BY <2>2, <2>3 DEF Nested
<1>8. Follows'
  <2>. SUFFICES ASSUME ~drifted  PROVE Follows'
    BY <1>3 DEF Follows
  <2>1. Shows(cursor, Len(path)) /\ Shows(cursor, Len(path))'
    BY <1>3 DEF TraceInv, Follows, Shows
  <2>2. ASSUME NEW i \in 1..Len(saved'), ~saved'[i].slid
        PROVE  Shows(saved[i].cursor, saved[i].len)'
    <3>1. CASE i = Len(saved) + 1
      BY <1>2, <1>3, <1>5, <2>1, <3>1 DEF Shows
    <3>2. CASE i # Len(saved) + 1
      <4>1. i \in 1..Len(saved) /\ saved'[i] = saved[i]
        BY <1>4, <1>5, <3>2
      <4>2. Shows(saved[i].cursor, saved[i].len)
        BY <2>2, <4>1 DEF TraceInv, Follows
      <4>. QED  BY <1>3, <4>1, <4>2 DEF Shows
    <3>. QED  BY <3>1, <3>2
  <2>. QED  BY <2>1, <2>2 DEF Follows
<1>. QED  BY <1>1, <1>3, <1>6, <1>7, <1>8 DEF TraceInv

\* The stack without its last call.
LEMMA LeftTyped ==
  ASSUME TraceTypeOK, saved # <<>>
  PROVE  /\ Len(saved) \in Nat \ {0} /\ Noted \in Notes /\ Noted = saved[Len(saved)]
         /\ Left \in Seq(Notes) /\ Len(Left) = Len(saved) - 1
         /\ \A i \in 1..Len(Left) : i \in 1..Len(saved) /\ Left[i] = saved[i]
<1>1. /\ saved \in Seq(Notes) /\ Len(saved) \in Nat
      /\ \A i \in 1..Len(saved) : saved[i] \in Notes
  BY NotesTyped
<1>2. Len(saved) \in Nat \ {0}
  BY <1>1
<1>3. /\ Left \in Seq(Notes) /\ Len(Left) = Len(saved) - 1
      /\ \A i \in 1..Len(saved) - 1 : Left[i] = saved[i]
  <2>1. PICK n \in Nat : n = Len(saved) - 1
    BY <1>2
  <2>2. \A i \in 1..n : saved[i] \in Notes
    BY <1>1, <2>1
  <2>3. /\ SubSeq(saved, 1, n) \in Seq(Notes)
        /\ Len(SubSeq(saved, 1, n)) = IF 1 <= n THEN n - 1 + 1 ELSE 0
        /\ \A i \in 1..n - 1 + 1 : SubSeq(saved, 1, n)[i] = saved[1 + i - 1]
    BY <2>2, SubSeqProperties
  <2>. QED  BY <2>1, <2>3 DEF Left
<1>4. Noted = saved[Len(saved)]
  BY DEF Noted
<1>. QED  BY <1>1, <1>2, <1>3, <1>4

\* A call that failed leaves the window, and one fewer to put it back.
LEMMA FailsHolds ==
  ASSUME TraceInv, Fails
  PROVE  TraceInv'
<1>1. saved # <<>> /\ saved' = Left /\ UNCHANGED <<chain, cursor, path, drifted>> /\ TraceTypeOK
  BY DEF Fails, TraceInv
<1>2. /\ saved' \in Seq(Notes) /\ Len(saved') \in Nat /\ Len(saved) \in Nat
      /\ \A i \in 1..Len(saved') : i \in 1..Len(saved) /\ saved'[i] = saved[i]
  BY <1>1, LeftTyped
<1>3. TraceTypeOK'
  BY <1>1, <1>2 DEF TraceTypeOK, Notes
<1>4. Nested'
  BY <1>1, <1>2 DEF TraceInv, Nested
<1>5. Follows'
  <2>. SUFFICES ASSUME ~drifted  PROVE Follows'
    BY <1>1 DEF Follows
  <2>1. Shows(cursor, Len(path))'
    BY <1>1 DEF TraceInv, Follows, Shows
  <2>2. ASSUME NEW i \in 1..Len(saved'), ~saved'[i].slid
        PROVE  Shows(saved[i].cursor, saved[i].len)'
    BY <1>1, <1>2, <2>2 DEF TraceInv, Follows, Shows
  <2>. QED  BY <2>1, <2>2 DEF Follows
<1>. QED  BY <1>1, <1>3, <1>4, <1>5 DEF TraceInv

\* A body that succeeded puts the cursor back where the path of then ended,
\* unless the window slid in between.
LEMMA SucceedsHolds ==
  ASSUME TraceInv, NEW ends \in BOOLEAN, Succeeds(ends)
  PROVE  TraceInv'
<1>. DEFINE last == Len(saved)
<1>1. /\ saved # <<>> /\ TraceTypeOK /\ MaxPath \in Nat /\ Limit \in Nat
      /\ path \in Seq(Goals) /\ Len(path) \in 0..MaxPath
  BY TraceAssumption DEF Succeeds, TraceInv, TraceTypeOK
<1>2. /\ last \in Nat \ {0} /\ last \in 1..Len(saved)
      /\ Noted = saved[last] /\ saved[last] \in Notes
      /\ saved[last].cursor \in 0..Limit /\ saved[last].len \in 0..MaxPath
      /\ saved[last].slid \in BOOLEAN
  BY <1>1, LeftTyped, MarkedFields
<1>3. /\ cursor' = saved[last].cursor /\ path' = SubSeq(path, 1, saved[last].len)
      /\ drifted' = (drifted \/ saved[last].slid) /\ chain' = chain
      /\ saved' = IF ends THEN Left ELSE saved
  BY <1>2 DEF Succeeds, PutBack
<1>4. /\ saved' \in Seq(Notes) /\ Len(saved') \in Nat
      /\ \A i \in 1..Len(saved') : i \in 1..last /\ saved'[i] = saved[i]
  BY <1>1, <1>2, <1>3, LeftTyped, NotesTyped
<1>5. saved[last].len <= Len(path)
  BY <1>2 DEF TraceInv, Nested
<1>6. /\ path' \in Seq(Goals) /\ Len(path') = saved[last].len
      /\ \A k \in 1..saved[last].len : path'[k] = path[k]
  BY <1>1, <1>2, <1>3, <1>5
<1>7. TraceTypeOK'
  BY <1>1, <1>2, <1>3, <1>4, <1>6 DEF TraceTypeOK, Notes
<1>8. \A i \in 1..last : i = last \/
        /\ saved[i].len <= saved[last].len
        /\ ~saved[i].slid => ~saved[last].slid /\ saved[i].cursor <= saved[last].cursor
  BY <1>2 DEF TraceInv, Nested
<1>9. \A i \in 1..last : /\ saved[i].len <= saved[last].len
                         /\ ~saved[i].slid => saved[i].cursor <= saved[last].cursor
  BY <1>2, <1>8, TraceAssumption
<1>10. Nested'
  <2>1. \A i \in 1..Len(saved') :
          saved'[i].len <= Len(path') /\ (~saved'[i].slid => saved'[i].cursor <= cursor')
    BY <1>3, <1>4, <1>6, <1>9
  <2>2. \A i, j \in 1..Len(saved') : i < j =>
          /\ saved'[i].len <= saved'[j].len
          /\ ~saved'[i].slid => ~saved'[j].slid /\ saved'[i].cursor <= saved'[j].cursor
    BY <1>4 DEF TraceInv, Nested
  <2>. QED  BY <2>1, <2>2 DEF Nested
<1>11. Follows'
  <2>. SUFFICES ASSUME ~drifted, ~saved[last].slid  PROVE Follows'
    BY <1>3 DEF Follows
  <2>1. ASSUME NEW i \in 1..last, ~saved[i].slid
        PROVE  /\ saved[i].cursor \in 0..saved[i].len
               /\ saved[i].cursor >=
                    IF saved[i].len < Limit - 1 THEN saved[i].len ELSE Limit - 1
               /\ \A k \in 0..saved[i].cursor - 1 :
                    chain'[k] = path'[saved[i].len - saved[i].cursor + 1 + k]
    <3>1. saved[i].cursor \in Nat /\ saved[i].len \in Nat
      BY <1>1, NotesTyped, MarkedFields, TraceAssumption
    <3>2. PICK c \in Nat, n \in Nat : c = saved[i].cursor /\ n = saved[i].len
      BY <3>1
    <3>3. Shows(c, n) /\ n <= saved[last].len
      BY <1>9, <2>1, <3>2 DEF TraceInv, Follows
    <3>4. /\ \A k \in 0..c - 1 : chain'[k] = chain[k]
          /\ \A k \in 1..n : path'[k] = path[k]
      BY <1>2, <1>3, <1>6, <3>3
    <3>5. /\ c \in 0..n
          /\ c >= IF n < Limit - 1 THEN n ELSE Limit - 1
          /\ \A k \in 0..c - 1 : chain'[k] = path'[n - c + 1 + k]
      BY <3>3, <3>4, ShowsKept
    <3>. QED  BY <3>2, <3>5
  <2>2. Shows(cursor, Len(path))'
    BY <1>2, <1>3, <1>6, <2>1 DEF Shows
  <2>3. ASSUME NEW i \in 1..Len(saved'), ~saved'[i].slid
        PROVE  Shows(saved[i].cursor, saved[i].len)'
    <3>1. i \in 1..last /\ saved'[i] = saved[i] /\ ~saved[i].slid
      BY <1>4, <2>3
    <3>. QED  BY <2>1, <3>1 DEF Shows
  <2>. QED  BY <2>2, <2>3 DEF Follows
<1>. QED  BY <1>1, <1>2, <1>6, <1>7, <1>10, <1>11 DEF TraceInv

\* laure_backtrace_nullify empties the window for the next query.
LEMMA QueryHolds ==
  ASSUME TraceInv, Query
  PROVE  TraceInv'
<1>1. /\ chain' = Nulls /\ cursor' = 0 /\ path' = <<>> /\ drifted' = FALSE /\ saved' = <<>>
  BY DEF Query
<1>2. TraceTypeOK'
  <2>1. saved' \in Seq([cursor : 0..Limit, len : 0..MaxPath, slid : BOOLEAN])
    BY <1>1
  <2>2. Nulls \in [0..Capacity - 1 -> Goals \cup {NoGoal}]
    BY DEF Nulls
  <2>. QED  BY <1>1, <2>1, <2>2, TraceAssumption DEF TraceTypeOK
<1>3. Shows(cursor, Len(path))'
  BY <1>1, TraceAssumption DEF Shows
<1>. QED  BY <1>1, <1>2, <1>3, TraceAssumption DEF TraceInv, Nested, Follows

\* No variable changes.
LEMMA StutterHolds ==
  ASSUME TraceInv, UNCHANGED traceVars  PROVE TraceInv'
BY DEF TraceInv, traceVars, TraceTypeOK, Nested, Follows, Shows

-----------------------------------------------------------------------------
(* The theorems *)

\* The window is typed, the calls are nested and what the cursors mean is the
\* path, always.
THEOREM WindowFollows == TraceSpec => []TraceInv
<1>1. TraceInit => TraceInv
  BY InitHolds
<1>2. TraceInv /\ [TraceNext]_traceVars => TraceInv'
  <2>. SUFFICES ASSUME TraceInv, [TraceNext]_traceVars  PROVE TraceInv'
    OBVIOUS
  <2>1. ASSUME NEW g \in Goals, Add(g)  PROVE TraceInv'
    BY <2>1, AddTyped, AddNested, AddFollows DEF TraceInv
  <2>2. CASE Enter
    BY <2>2, EnterHolds
  <2>3. CASE Fails
    BY <2>3, FailsHolds
  <2>4. CASE Query
    BY <2>4, QueryHolds
  <2>5. ASSUME NEW ends \in BOOLEAN, Succeeds(ends)  PROVE TraceInv'
    BY <2>5, SucceedsHolds
  <2>6. CASE UNCHANGED traceVars
    BY <2>6, StutterHolds
  <2>. QED  BY <2>1, <2>2, <2>3, <2>4, <2>5, <2>6 DEF TraceNext
<1>. QED  BY <1>1, <1>2, PTL DEF TraceSpec

\* The types of the backtrace's state: the cursor never passes the limit, and
\* the entry written is one of the chain's (src/backtrace.c).
THEOREM WindowTypes == TraceSpec => []TraceTypeOK
<1>1. TraceInv => TraceTypeOK
  BY DEF TraceInv
<1>. QED  BY <1>1, WindowFollows, PTL

\* laure_backtrace_print goes to the cursor when the entries before it are goals.
LEMMA PrintsToCursor ==
  ASSUME cursor \in Nat, \A k \in 0..cursor - 1 : chain[k] # NoGoal
  PROVE  PrintedTo = cursor
<1>. DEFINE Stops(n) == /\ \A i \in 0..n - 1 : chain[i] # NoGoal
                        /\ n = cursor \/ chain[n] = NoGoal
<1>1. Stops(cursor)
  OBVIOUS
<1>2. \A n \in 0..cursor : Stops(n) => n = cursor
  OBVIOUS
<1>3. PrintedTo = CHOOSE n \in 0..cursor : Stops(n)
  BY DEF PrintedTo
<1>. HIDE DEF Stops
<1>. QED  BY <1>1, <1>2, <1>3

\* What laure_backtrace_print shows of an error is the end of the path to the
\* goal that raised it, and all of it when it fits in the window - unless the
\* window slid during a call that put the cursor back.
THEOREM PrintedIsPath == TraceSpec => []TraceIsPath
<1>1. TraceInv => TraceIsPath
  <2>. SUFFICES ASSUME TraceInv, ~drifted
                PROVE  /\ Printed = SubSeq(path, Len(path) - Len(Printed) + 1, Len(path))
                       /\ Len(Printed) >= IF Len(path) < Limit - 1 THEN Len(path) ELSE Limit - 1
    BY DEF TraceIsPath
  <2>1. /\ Limit \in Nat /\ cursor \in 0..Limit /\ path \in Seq(Goals) /\ Len(path) \in Nat
        /\ NoGoal \notin Goals
    BY TraceAssumption DEF TraceInv, TraceTypeOK
  <2>2. /\ cursor \in 0..Len(path)
        /\ cursor >= IF Len(path) < Limit - 1 THEN Len(path) ELSE Limit - 1
        /\ \A k \in 0..cursor - 1 : chain[k] = path[Len(path) - cursor + 1 + k]
    BY DEF TraceInv, Follows, Shows
  <2>3. \A k \in 0..cursor - 1 : chain[k] \in Goals
    <3>. TAKE k \in 0..cursor - 1
    <3>1. Len(path) - cursor + 1 + k \in 1..Len(path)
      BY <2>1, <2>2
    <3>2. path[Len(path) - cursor + 1 + k] \in Goals
      BY <2>1, <3>1, ElementOfSeq
    <3>3. chain[k] = path[Len(path) - cursor + 1 + k]
      BY <2>2
    <3>. QED  BY <3>2, <3>3
  <2>4. PrintedTo = cursor
    BY <2>1, <2>3, PrintsToCursor
  <2>5. Printed = [i \in 1..cursor |-> chain[i - 1]]
    BY <2>4 DEF Printed
  <2>6. Printed \in Seq(Goals) /\ Len(Printed) = cursor
    <3>1. \A i \in 1..cursor : chain[i - 1] \in Goals
      BY <2>1, <2>3
    <3>. QED  BY <2>1, <2>5, <3>1
  <2>7. \A i \in 1..cursor : Printed[i] = path[Len(path) - cursor + i]
    <3>. TAKE i \in 1..cursor
    <3>1. i - 1 \in 0..cursor - 1 /\ Len(path) - cursor + 1 + (i - 1) = Len(path) - cursor + i
      BY <2>1
    <3>. QED  BY <2>2, <2>5, <3>1
  <2>. DEFINE end == SubSeq(path, Len(path) - cursor + 1, Len(path))
  <2>8. end \in Seq(Goals) /\ Len(end) = cursor
        /\ \A i \in 1..cursor : end[i] = path[Len(path) - cursor + i]
    BY <2>1, <2>2
  <2>9. Printed = end
    BY <2>6, <2>7, <2>8, SeqEqual
  <2>. QED  BY <2>2, <2>6, <2>9
<1>. QED  BY <1>1, WindowFollows, PTL
\* The window keeps within its limit and prints the end of the path.
THEOREM WindowIsKept == TraceSpec => []WindowIsRight
<1>1. TraceTypeOK /\ TraceIsPath => WindowIsRight
  BY DEF WindowIsRight
<1>. QED  BY <1>1, WindowTypes, PrintedIsPath, PTL

-----------------------------------------------------------------------------
(* Induction, and functions that are defined upward *)

\* A set of naturals that is not empty has a least member.
LEMMA LeastOf ==
  ASSUME NEW T \in SUBSET Nat, T # {}
  PROVE  \E n \in T : \A k \in T : n <= k
<1>1. PICK n \in T : \A k \in T : ~(<<k, n>> \in OpToRel(<, Nat))
  BY NatLessThanWellFounded, WFMin
<1>2. ASSUME NEW k \in T PROVE n <= k
  <2>1. ~(<<k, n>> \in OpToRel(<, Nat))
    BY <1>1
  <2>2. ~(k < n)
    BY <2>1 DEF OpToRel
  <2> QED BY <2>2
<1> QED BY <1>2

\* What holds of zero and of the next of what it holds of, holds of all.
LEMMA Induction ==
  ASSUME NEW T, 0 \in T, \A i \in Nat : i \in T => i + 1 \in T
  PROVE  \A i \in Nat : i \in T
<1> DEFINE F == {i \in Nat : i \notin T}
<1> SUFFICES ASSUME F # {} PROVE FALSE
  OBVIOUS
<1>1. PICK i \in F : \A k \in F : i <= k
  <2>1. F \in SUBSET Nat
    OBVIOUS
  <2> HIDE DEF F
  <2> QED BY <2>1, LeastOf
<1>2. i \in Nat /\ i \notin T /\ i # 0
  OBVIOUS
<1>3. i - 1 \in Nat /\ ~(i <= i - 1) /\ (i - 1) + 1 = i
  BY <1>2
<1>4. i - 1 \in T
  BY <1>1, <1>3
<1>5. i \in T
  BY <1>3, <1>4
<1> QED BY <1>2, <1>5

\* The values of a function that is defined upward.
Upward(n, f, base, next) ==
  f[0] = base /\ \A i \in 1..n : f[i] = next[<<i, f[i - 1]>>]

\* From a base and a function for the next value there is a function upward.
LEMMA UpwardExists ==
  ASSUME NEW n \in Nat, NEW Dom, NEW base \in Dom, NEW next \in [(1..n) \X Dom -> Dom]
  PROVE  \E f \in [0..n -> Dom] : Upward(n, f, base, next)
<1> DEFINE T == {k \in Nat : k <= n => \E f \in [0..k -> Dom] : Upward(k, f, base, next)}
<1>1. 0 \in T
  <2>1. [i \in 0..0 |-> base] \in [0..0 -> Dom]
    OBVIOUS
  <2>2. Upward(0, [i \in 0..0 |-> base], base, next)
    BY DEF Upward
  <2> QED BY <2>1, <2>2
<1>2. ASSUME NEW k \in Nat, k \in T PROVE k + 1 \in T
  <2> SUFFICES ASSUME k + 1 <= n
               PROVE  \E f \in [0..(k + 1) -> Dom] : Upward(k + 1, f, base, next)
    OBVIOUS
  <2>1. PICK f \in [0..k -> Dom] : Upward(k, f, base, next)
    BY <1>2
  <2> DEFINE g == [i \in 0..(k + 1) |-> IF i = k + 1 THEN next[<<k + 1, f[k]>>] ELSE f[i]]
  <2>2. k \in 0..k /\ k + 1 \in 1..n /\ k + 1 \in 0..(k + 1)
    OBVIOUS
  <2>3. <<k + 1, f[k]>> \in (1..n) \X Dom
    BY <2>2
  <2>4. next[<<k + 1, f[k]>>] \in Dom
    BY <2>3
  <2>5. \A i \in 0..(k + 1) : i = k + 1 \/ i \in 0..k
    OBVIOUS
  <2>6. g \in [0..(k + 1) -> Dom]
    BY <2>4, <2>5
  <2>7. \A i \in 0..k : i \in 0..(k + 1) /\ i # k + 1
    OBVIOUS
  <2>8. (\A i \in 0..k : g[i] = f[i]) /\ g[k + 1] = next[<<k + 1, f[k]>>]
    BY <2>2, <2>7
  <2> HIDE DEF g
  <2>9. g[0] = base
    BY <2>1, <2>8 DEF Upward
  <2>10. ASSUME NEW i \in 1..(k + 1) PROVE g[i] = next[<<i, g[i - 1]>>]
    <3>1. CASE i = k + 1
      <4>1. i - 1 = k
        BY <3>1
      <4> QED BY <4>1, <3>1, <2>2, <2>8
    <3>2. CASE i # k + 1
      <4>1. i \in 1..k /\ i \in 0..k /\ i - 1 \in 0..k
        BY <3>2
      <4>2. f[i] = next[<<i, f[i - 1]>>]
        BY <4>1, <2>1 DEF Upward
      <4> QED BY <4>1, <4>2, <2>8
    <3> QED BY <3>1, <3>2
  <2>11. Upward(k + 1, g, base, next)
    BY <2>9, <2>10 DEF Upward
  <2> QED BY <2>6, <2>11
<1>3. \A k \in Nat : k \in T
  <2> HIDE DEF T
  <2> QED BY <1>1, <1>2, Induction
<1>4. n \in T
  BY <1>3
<1>5. n <= n
  OBVIOUS
<1> QED BY <1>4, <1>5

-----------------------------------------------------------------------------
(* What the browser lists *)

Item == [name : Seq(STRING), desc : Seq(STRING)]

LEMMA FilterTyped ==
  ASSUME NEW l \in Seq(Item), NEW x \in Item, NEW s, NEW b
  PROVE  Filter(l, x, s, b) \in Seq(Item) /\ Len(Filter(l, x, s, b)) <= Len(l) + 1
<1>1. Append(l, x) \in Seq(Item) /\ Len(Append(l, x)) = Len(l) + 1
  OBVIOUS
<1>. QED  BY <1>1 DEF Filter

\* The list up to each item of F: items, no more of them than were looked at.
Filters(F, n) == \A k \in 0..n : F[k] \in Seq(Item) /\ Len(F[k]) <= k

LEMMA FilteredUnfolds ==
  ASSUME NEW list \in Seq(Item), NEW s, NEW b, NEW n \in Nat, n = Len(list),
         NEW F, F = FilteredTo(list, s, b)
  PROVE  Filters(F, n)
<1> DEFINE Dom == Seq(Item)
           next == [p \in (1..n) \X Dom |-> Filter(p[2], list[p[1]], s, b)]
<1>1. next \in [(1..n) \X Dom -> Dom]
  <2>1. ASSUME NEW p \in (1..n) \X Dom PROVE Filter(p[2], list[p[1]], s, b) \in Dom
    <3>1. p[1] \in 1..n /\ p[2] \in Dom
      OBVIOUS
    <3>2. list[p[1]] \in Item
      BY <3>1, ElementOfSeq
    <3> QED BY <3>1, <3>2, FilterTyped
  <2> QED BY <2>1
<1>2. PICK f \in [0..n -> Dom] : Upward(n, f, <<>>, next)
  <2> HIDE DEF next
  <2>1. <<>> \in Dom
    OBVIOUS
  <2> HIDE DEF Dom
  <2> QED BY <1>1, <2>1, UpwardExists
<1>3. f[0] = <<>>
  BY <1>2 DEF Upward
<1>4. ASSUME NEW k \in 1..n PROVE f[k] = Filter(f[k - 1], list[k], s, b)
  <2>1. k - 1 \in 0..n
    OBVIOUS
  <2>2. f[k - 1] \in Dom
    BY <1>2, <2>1
  <2>3. <<k, f[k - 1]>> \in (1..n) \X Dom
    BY <2>2
  <2>4. f[k] = next[<<k, f[k - 1]>>]
    BY <1>2 DEF Upward
  <2> HIDE DEF Dom
  <2> QED BY <2>3, <2>4
<1>5. f = [i \in 0..n |-> IF i = 0 THEN <<>> ELSE Filter(f[i - 1], list[i], s, b)]
  <2>1. f = [i \in 0..n |-> f[i]]
    BY <1>2
  <2>2. \A i \in 0..n : f[i] = IF i = 0 THEN <<>> ELSE Filter(f[i - 1], list[i], s, b)
    BY <1>3, <1>4
  <2> QED BY <2>1, <2>2
<1>6. F = [i \in 0..n |-> IF i = 0 THEN <<>> ELSE Filter(F[i - 1], list[i], s, b)]
  <2> HIDE DEF Dom, next
  <2> QED BY <1>5, Zenon DEF FilteredTo
<1>7. \A i \in 0..n : F[i] = IF i = 0 THEN <<>> ELSE Filter(F[i - 1], list[i], s, b)
  BY <1>6
<1>8. F[0] = <<>> /\ \A k \in 1..n : F[k] = Filter(F[k - 1], list[k], s, b)
  BY <1>7
<1> DEFINE T == {k \in Nat : k <= n => F[k] \in Dom /\ Len(F[k]) <= k}
<1>9. 0 \in T
  <2>1. <<>> \in Dom /\ Len(<<>>) = 0
    OBVIOUS
  <2> HIDE DEF Dom
  <2> QED BY <1>8, <2>1
<1>10. ASSUME NEW k \in Nat, k \in T PROVE k + 1 \in T
  <2> SUFFICES ASSUME k + 1 <= n PROVE F[k + 1] \in Dom /\ Len(F[k + 1]) <= k + 1
    OBVIOUS
  <2>1. k + 1 \in 1..n /\ (k + 1) - 1 = k /\ F[k] \in Dom /\ Len(F[k]) <= k
    BY <1>10
  <2>2. F[k + 1] = Filter(F[k], list[k + 1], s, b)
    BY <2>1, <1>8
  <2>3. list[k + 1] \in Item
    BY <2>1, ElementOfSeq
  <2>4. PICK l : l = F[k]
    OBVIOUS
  <2>5. Filter(l, list[k + 1], s, b) \in Dom /\ Len(Filter(l, list[k + 1], s, b)) <= Len(l) + 1
    BY <2>1, <2>3, <2>4, FilterTyped
  <2>6. Len(l) \in Nat /\ Len(F[k + 1]) \in Nat
    BY <2>1, <2>2, <2>4, <2>5
  <2> QED BY <2>1, <2>2, <2>4, <2>5, <2>6
<1>11. \A k \in Nat : k \in T
  <2> HIDE DEF T
  <2> QED BY <1>9, <1>10, Induction
<1>12. \A k \in 0..n : F[k] \in Dom /\ Len(F[k]) <= k
  BY <1>11
<1> QED BY <1>12 DEF Filters

LEMMA FilteredTyped ==
  ASSUME items \in Seq(Item), NEW s, NEW b
  PROVE  Filtered(s, b) \in Seq(Item) /\ Len(Filtered(s, b)) <= Len(items)
<1>1. PICK n \in Nat : n = Len(items)
  OBVIOUS
<1>2. PICK F : F = FilteredTo(items, s, b)
  OBVIOUS
<1>3. Filters(F, n) /\ n \in 0..n
  BY <1>1, <1>2, FilteredUnfolds
<1>. QED  BY <1>1, <1>2, <1>3 DEF Filters, Filtered

-----------------------------------------------------------------------------
(* The selection is one of the rows *)

Framed(n, sel, scr) ==
  /\ sel \in Nat /\ scr \in Nat /\ scr <= sel /\ sel < scr + height
  /\ sel < n \/ (n = 0 /\ sel = 0)

LEMMA RedrawFrames ==
  ASSUME items \in Seq(Item), height \in Nat \ {0}, NEW sel \in Nat, NEW scr \in Nat,
         NEW s, NEW b, Redraw(s, sel, scr, b)
  PROVE  Framed(Len(Filtered(s, b)), selected', scroll')
<1>1. PICK n \in Nat : n = Len(Filtered(s, b))
  BY FilteredTyped
<1>2. selected' = Valid(sel, n) /\ scroll' = Scrolled(scr, selected')
  BY <1>1 DEF Redraw
<1>3. selected' \in Nat /\ (selected' < n \/ (n = 0 /\ selected' = 0))
  BY <1>2 DEF Valid
<1>. QED  BY <1>1, <1>2, <1>3 DEF Framed, Scrolled

LEMMA FramedShows ==
  ASSUME items \in Seq(Item), height \in Nat \ {0}, Framed(Len(Current), selected, scroll)
  PROVE  SelectionIsShown
<1>. SUFFICES ASSUME Current # <<>>
     PROVE  /\ 0 <= selected - scroll /\ selected - scroll < Len(Rows)
            /\ Rows[selected - scroll + 1] = Current[selected + 1]
  BY DEF SelectionIsShown
<1>1. Current \in Seq(Item)
  BY FilteredTyped DEF Current
<1>2. PICK n \in Nat : n = Len(Current)
  BY <1>1
<1>3. n # 0
  BY <1>1, <1>2
<1>4. /\ selected \in Nat /\ scroll \in Nat /\ scroll <= selected /\ selected < scroll + height
      /\ selected < n
  BY <1>2, <1>3 DEF Framed
<1>5. PICK m : m = LastRow
  OBVIOUS
<1>6. m \in Nat /\ selected < m /\ m <= n
  BY <1>2, <1>4, <1>5 DEF LastRow
<1>7. scroll + 1 \in 1..n + 1 /\ m \in scroll..n
  BY <1>4, <1>6
<1>8. Rows = SubSeq(Current, scroll + 1, m)
  BY <1>5 DEF Rows
<1>9. Rows = [i \in 1..m - scroll |-> Current[i + scroll]]
  BY <1>1, <1>2, <1>4, <1>6, <1>8
<1>10. Len(Rows) = m - scroll
  BY <1>4, <1>6, <1>9
<1>11. selected - scroll + 1 \in 1..m - scroll /\ selected - scroll + 1 + scroll = selected + 1
  BY <1>4, <1>6
<1>. QED  BY <1>4, <1>6, <1>9, <1>10, <1>11
-----------------------------------------------------------------------------
(* The lines of the detail view *)

Text == Seq(STRING)

\* A set of naturals with a bound that is not empty has a greatest member.
LEMMA GreatestOf ==
  ASSUME NEW b \in Nat, NEW T \in SUBSET (0..b), T # {}
  PROVE  \E n \in T : \A k \in T : k <= n
<1> DEFINE U == {b - k : k \in T}
<1>1. U \in SUBSET Nat /\ U # {}
  <2>1. \A k \in T : k \in 0..b
    OBVIOUS
  <2>2. \A k \in T : b - k \in Nat
    BY <2>1
  <2>3. PICK k : k \in T
    OBVIOUS
  <2>. QED  BY <2>2, <2>3
<1>2. PICK m \in U : \A k \in U : m <= k
  <2> HIDE DEF U
  <2> QED BY <1>1, LeastOf
<1>3. PICK n \in T : m = b - n
  OBVIOUS
<1>4. ASSUME NEW k \in T PROVE k <= n
  <2>1. b - k \in U
    OBVIOUS
  <2>2. b - n <= b - k
    BY <1>2, <1>3, <2>1
  <2>. QED  BY <2>2
<1>. QED  BY <1>4

LEMMA LineEnds ==
  ASSUME NEW text \in Text, NEW i \in 1..Len(text)
  PROVE  LineEnd(text, i) \in i..Len(text) /\ LineEnd(text, i) < i + Width
<1>1. PICK n \in Nat : n = Len(text)
  OBVIOUS
<1>2. i \in Nat /\ i >= 1 /\ i <= n /\ Width \in Nat /\ Width >= 1
  BY <1>1, BrowserAssumption
<1>3. CASE n - i < Width
  BY <1>1, <1>2, <1>3 DEF LineEnd
<1>4. CASE ~(n - i < Width) /\ Spaces(text, i) = {}
  BY <1>1, <1>2, <1>4 DEF LineEnd
<1>5. CASE ~(n - i < Width) /\ Spaces(text, i) # {}
  <2>1. Spaces(text, i) \in SUBSET (0..i + Width - 1) /\ i + Width - 1 \in Nat
    BY <1>2 DEF Spaces
  <2>2. \E j \in Spaces(text, i) : \A k \in Spaces(text, i) : k <= j
    BY <1>5, <2>1, GreatestOf
  <2>3. LineEnd(text, i) = CHOOSE j \in Spaces(text, i) : \A k \in Spaces(text, i) : k <= j
    BY <1>1, <1>5 DEF LineEnd
  <2>4. LineEnd(text, i) \in Spaces(text, i)
    BY <2>2, <2>3
  <2>5. LineEnd(text, i) \in i + 1..i + Width - 1
    BY <2>4 DEF Spaces
  <2>. QED  BY <1>1, <1>2, <1>5, <2>5
<1>. QED  BY <1>3, <1>4, <1>5

LEMMA NextLineIs ==
  ASSUME NEW text \in Text, NEW i \in 1..Len(text)
  PROVE  /\ NextLine(text, i) \in LineEnd(text, i) + 1..Len(text) + 1
         /\ \A k \in LineEnd(text, i) + 1..NextLine(text, i) - 1 : text[k] = Space
<1>1. PICK n \in Nat : n = Len(text)
  OBVIOUS
<1>2. PICK e \in Nat : e = LineEnd(text, i) /\ e <= n
  BY LineEnds, <1>1
<1> DEFINE T == {j \in e + 1..n + 1 : j <= n => text[j] # Space}
<1>3. T \in SUBSET Nat /\ n + 1 \in T
  BY <1>2
<1>4. PICK m \in T : \A k \in T : m <= k
  <2> HIDE DEF T
  <2> QED BY <1>3, LeastOf
<1>5. ASSUME NEW k \in e + 1..m - 1 PROVE text[k] = Space
  <2>1. k \notin T /\ k \in e + 1..n + 1 /\ k <= n
    BY <1>4
  <2>. QED  BY <2>1
<1>6. \E j \in e + 1..n + 1 : (j <= n => text[j] # Space) /\ \A k \in e + 1..j - 1 : text[k] = Space
  BY <1>4, <1>5
<1>7. NextLine(text, i) = CHOOSE j \in e + 1..n + 1 :
        (j <= n => text[j] # Space) /\ \A k \in e + 1..j - 1 : text[k] = Space
  BY <1>1, <1>2 DEF NextLine
<1>8. /\ NextLine(text, i) \in e + 1..n + 1
      /\ \A k \in e + 1..NextLine(text, i) - 1 : text[k] = Space
  <2> HIDE DEF T
  <2> QED BY <1>6, <1>7
<1>. QED  BY <1>1, <1>2, <1>8

\* Where lines begin: each past the one before, until the text is over.
Begins(B, text, n) ==
  /\ B[0] = 1
  /\ \A k \in 0..n : B[k] \in 1..n + 1
  /\ \A k \in 1..n : B[k] = Moved(text, B[k - 1])

LEMMA LineStartUnfolds ==
  ASSUME NEW text \in Text, NEW n \in Nat, n = Len(text), NEW B, B = LineStart(text)
  PROVE  Begins(B, text, n)
<1> DEFINE Dom == 1..n + 1
           next == [p \in (1..n) \X Dom |-> Moved(text, p[2])]
<1>1. \A i \in Dom : Moved(text, i) \in Dom
  <2>1. ASSUME NEW i \in Dom, i \in 1..n PROVE NextLine(text, i) \in Dom
    BY <2>1, NextLineIs, LineEnds
  <2> QED BY <2>1 DEF Moved
<1>2. next \in [(1..n) \X Dom -> Dom]
  BY <1>1
<1>3. PICK f \in [0..n -> Dom] : Upward(n, f, 1, next)
  <2> HIDE DEF next
  <2>1. 1 \in Dom
    OBVIOUS
  <2> HIDE DEF Dom
  <2> QED BY <1>2, <2>1, UpwardExists
<1>4. f[0] = 1
  BY <1>3 DEF Upward
<1>5. ASSUME NEW k \in 1..n PROVE f[k] = Moved(text, f[k - 1])
  <2>1. k - 1 \in 0..n
    OBVIOUS
  <2>2. f[k - 1] \in Dom
    BY <1>3, <2>1
  <2>3. <<k, f[k - 1]>> \in (1..n) \X Dom
    BY <2>2
  <2>4. f[k] = next[<<k, f[k - 1]>>]
    BY <1>3 DEF Upward
  <2> HIDE DEF Dom
  <2> QED BY <2>3, <2>4
<1>6. f = [k \in 0..n |-> IF k = 0 THEN 1 ELSE Moved(text, f[k - 1])]
  <2>1. f = [k \in 0..n |-> f[k]]
    BY <1>3
  <2>2. \A k \in 0..n : f[k] = IF k = 0 THEN 1 ELSE Moved(text, f[k - 1])
    BY <1>4, <1>5
  <2> QED BY <2>1, <2>2
<1>7. B = [k \in 0..n |-> IF k = 0 THEN 1 ELSE Moved(text, B[k - 1])]
  <2> HIDE DEF Dom, next
  <2> QED BY <1>6, Zenon DEF LineStart
<1>8. \A k \in 0..n : B[k] = IF k = 0 THEN 1 ELSE Moved(text, B[k - 1])
  BY <1>7
<1>9. B[0] = 1 /\ \A k \in 1..n : B[k] = Moved(text, B[k - 1])
  BY <1>8
<1> DEFINE T == {k \in Nat : k <= n => B[k] \in Dom}
<1>10. 0 \in T
  BY <1>9
<1>11. ASSUME NEW k \in Nat, k \in T PROVE k + 1 \in T
  <2> SUFFICES ASSUME k + 1 <= n PROVE B[k + 1] \in Dom
    OBVIOUS
  <2>1. k + 1 \in 1..n /\ (k + 1) - 1 = k /\ B[k] \in Dom
    BY <1>11
  <2>2. B[k + 1] = Moved(text, B[k])
    BY <2>1, <1>9
  <2> HIDE DEF Dom
  <2> QED BY <2>1, <2>2, <1>1
<1>12. \A k \in Nat : k \in T
  <2> HIDE DEF T
  <2> QED BY <1>10, <1>11, Induction
<1>13. \A k \in 0..n : B[k] \in Dom
  BY <1>12
<1> QED BY <1>9, <1>13 DEF Begins

\* After each turn a line more was begun, or the text is over.
LEMMA LinesEnd ==
  ASSUME NEW text \in Text, NEW n \in Nat, n = Len(text), NEW B, Begins(B, text, n)
  PROVE  B[n] = n + 1
<1> DEFINE T == {k \in Nat : k <= n => B[k] > k}
<1>1. 0 \in T
  BY DEF Begins
<1>2. ASSUME NEW k \in Nat, k \in T PROVE k + 1 \in T
  <2> SUFFICES ASSUME k + 1 <= n PROVE B[k + 1] > k + 1
    OBVIOUS
  <2>1. k + 1 \in 1..n /\ (k + 1) - 1 = k /\ k \in 0..n
    OBVIOUS
  <2>2. PICK b : b = B[k]
    OBVIOUS
  <2>3. b \in 1..n + 1 /\ b > k /\ B[k + 1] = Moved(text, b)
    BY <1>2, <2>1, <2>2 DEF Begins
  <2>4. CASE b > n
    BY <2>3, <2>4 DEF Moved
  <2>5. CASE ~(b > n)
    <3>1. b \in 1..Len(text)
      BY <2>3, <2>5
    <3>2. NextLine(text, b) > b
      BY <3>1, LineEnds, NextLineIs
    <3>. QED  BY <2>3, <2>5, <3>2, <3>1, NextLineIs, LineEnds DEF Moved
  <2>. QED  BY <2>4, <2>5
<1>3. \A k \in Nat : k \in T
  <2> HIDE DEF T
  <2> QED BY <1>1, <1>2, Induction
<1>4. B[n] > n /\ B[n] \in 1..n + 1
  BY <1>3 DEF Begins
<1>. QED  BY <1>4

LEMMA TurnsAre ==
  ASSUME NEW text \in Text, NEW n \in Nat, n = Len(text), NEW B, B = LineStart(text)
  PROVE  Turns(text) \in 0..n /\ B[Turns(text)] = n + 1 /\ \A k \in 0..Turns(text) - 1 : B[k] <= n
<1>1. Begins(B, text, n)
  BY LineStartUnfolds
<1>2. B[n] = n + 1
  BY <1>1, LinesEnd
<1> DEFINE T == {k \in 0..n : B[k] > n}
<1>3. T \in SUBSET Nat /\ n \in T
  BY <1>2
<1>4. PICK m \in T : \A k \in T : m <= k
  <2> HIDE DEF T
  <2> QED BY <1>3, LeastOf
<1>5. m \in 0..n /\ B[m] > n
  BY <1>4
<1>6. ASSUME NEW k \in 0..m - 1 PROVE B[k] <= n
  <2>1. k \notin T /\ k \in 0..n
    BY <1>4, <1>5
  <2>2. B[k] \in 1..n + 1
    BY <1>1, <2>1 DEF Begins
  <2>. QED  BY <2>1, <2>2
<1>7. \E t \in 0..n : B[t] > n /\ \A k \in 0..t - 1 : B[k] <= n
  BY <1>5, <1>6
<1>8. Turns(text) = CHOOSE t \in 0..n : B[t] > n /\ \A k \in 0..t - 1 : B[k] <= n
  BY Zenon DEF Turns
<1>9. Turns(text) \in 0..n /\ B[Turns(text)] > n /\ \A k \in 0..Turns(text) - 1 : B[k] <= n
  <2> HIDE DEF T
  <2> QED BY <1>7, <1>8
<1>10. B[Turns(text)] \in 1..n + 1
  BY <1>1, <1>9 DEF Begins
<1>. QED  BY <1>9, <1>10
\* The text before the n-th beginning is spaces or on a line.
OnLines(B, text, n) ==
  \A k \in 1..B[n] - 1 : text[k] # Space =>
    \E m \in 1..n : k \in B[m - 1]..LineEnd(text, B[m - 1])

LEMMA LinesHold ==
  ASSUME NEW text \in Text, NEW n \in Nat, n = Len(text), NEW B, Begins(B, text, n),
         NEW t \in 0..n, \A k \in 0..t - 1 : B[k] <= n
  PROVE  OnLines(B, text, t)
<1> DEFINE T == {k \in Nat : k <= t => OnLines(B, text, k)}
<1>1. 0 \in T
  BY DEF Begins, OnLines
<1>2. ASSUME NEW k \in Nat, k \in T PROVE k + 1 \in T
  <2> SUFFICES ASSUME k + 1 <= t PROVE OnLines(B, text, k + 1)
    OBVIOUS
  <2>1. OnLines(B, text, k) /\ k \in 0..t - 1 /\ k \in 0..n /\ k + 1 \in 1..n /\ (k + 1) - 1 = k
    BY <1>2
  <2>2. PICK b : b = B[k]
    OBVIOUS
  <2>3. b \in 1..n /\ B[k + 1] = NextLine(text, b)
    BY <2>1, <2>2 DEF Begins, Moved
  <2>4. PICK e : e = LineEnd(text, b)
    OBVIOUS
  <2>5. /\ e \in b..n /\ B[k + 1] \in e + 1..n + 1
        /\ \A j \in e + 1..B[k + 1] - 1 : text[j] = Space
    BY <2>3, <2>4, LineEnds, NextLineIs
  <2>6. ASSUME NEW j \in 1..B[k + 1] - 1, text[j] # Space
        PROVE  \E m \in 1..k + 1 : j \in B[m - 1]..LineEnd(text, B[m - 1])
    <3>1. j \in Nat /\ j >= 1 /\ j <= B[k + 1] - 1
      BY <2>5
    <3>2. CASE j <= b - 1
      <4>1. PICK m \in 1..k : j \in B[m - 1]..LineEnd(text, B[m - 1])
        BY <2>1, <2>2, <2>3, <2>6, <3>1, <3>2 DEF OnLines
      <4>2. m \in 1..k + 1
        OBVIOUS
      <4>. QED  BY <4>1, <4>2
    <3>3. CASE b <= j /\ j <= e
      <4>1. k + 1 \in 1..k + 1 /\ j \in b..e
        BY <2>3, <2>5, <3>1, <3>3
      <4>. QED  BY <4>1, <2>1, <2>2, <2>4
    <3>4. CASE e < j
      <4>1. j \in e + 1..B[k + 1] - 1
        BY <2>5, <3>1, <3>4
      <4>. QED  BY <4>1, <2>5, <2>6
    <3>. QED  BY <2>3, <2>5, <3>1, <3>2, <3>3, <3>4
  <2>. QED  BY <2>6 DEF OnLines
<1>3. \A k \in Nat : k \in T
  <2> HIDE DEF T
  <2> QED BY <1>1, <1>2, Induction
<1>. QED  BY <1>3

\* What Whole says of the lines shown, of any lines.
WholeLines(text, lines) ==
  /\ \A n \in 1..Len(lines) :
       /\ 1 <= lines[n].from /\ lines[n].from <= lines[n].to /\ lines[n].to <= Len(text)
       /\ lines[n].to < lines[n].from + Width
       /\ n < Len(lines) => lines[n].to < lines[n + 1].from
  /\ \A k \in 1..Len(text) : text[k] # Space =>
       \E n \in 1..Len(lines) : k \in lines[n].from..lines[n].to

LEMMA WrappedIsWhole ==
  ASSUME NEW text \in Text
  PROVE  Wrapped(text) \in Seq(Line) /\ WholeLines(text, Wrapped(text))
<1>1. PICK n \in Nat : n = Len(text)
  BY DEF Text
<1>2. PICK B : B = LineStart(text)
  OBVIOUS
<1>3. PICK t : t = Turns(text)
  OBVIOUS
<1>4. Begins(B, text, n)
  BY <1>1, <1>2, LineStartUnfolds
<1>5. t \in 0..n /\ B[t] = n + 1 /\ \A k \in 0..t - 1 : B[k] <= n
  BY <1>1, <1>2, <1>3, TurnsAre
<1>6. OnLines(B, text, t)
  BY <1>1, <1>4, <1>5, LinesHold
<1>7. PICK lines : lines = [k \in 1..t |-> [from |-> B[k - 1], to |-> LineEnd(text, B[k - 1])]]
  OBVIOUS
<1>8. Wrapped(text) = lines
  BY <1>2, <1>3, <1>7 DEF Wrapped
<1>9. ASSUME NEW k \in 1..t
      PROVE  /\ B[k - 1] \in 1..n /\ LineEnd(text, B[k - 1]) \in B[k - 1]..n
             /\ LineEnd(text, B[k - 1]) < B[k - 1] + Width
             /\ LineEnd(text, B[k - 1]) < B[k]
  <2>1. k - 1 \in 0..n /\ k - 1 \in 0..t - 1 /\ k \in 1..n
    BY <1>5
  <2>2. PICK b : b = B[k - 1]
    OBVIOUS
  <2>3. b \in 1..n
    BY <1>4, <1>5, <2>1, <2>2 DEF Begins
  <2>4. b \in 1..Len(text)
    BY <1>1, <2>3
  <2>5. LineEnd(text, b) \in b..n /\ LineEnd(text, b) < b + Width
    BY <1>1, <2>4, LineEnds
  <2>6. B[k] = NextLine(text, b)
    BY <1>1, <1>4, <2>1, <2>2, <2>3 DEF Begins, Moved
  <2>7. NextLine(text, b) \in LineEnd(text, b) + 1..n + 1
    BY <1>1, <2>4, NextLineIs
  <2>. QED  BY <2>2, <2>3, <2>5, <2>6, <2>7
<1>10. lines \in Seq(Line) /\ Len(lines) = t
  <2>1. ASSUME NEW k \in 1..t
        PROVE  [from |-> B[k - 1], to |-> LineEnd(text, B[k - 1])] \in Line
    BY <1>9 DEF Line
  <2>2. lines \in [1..t -> Line]
    BY <1>7, <2>1
  <2>. QED  BY <1>5, <2>2
<1>11. \A k \in 1..t : lines[k].from = B[k - 1] /\ lines[k].to = LineEnd(text, B[k - 1])
  BY <1>7
<1>12. ASSUME NEW k \in 1..t
       PROVE  /\ 1 <= lines[k].from /\ lines[k].from <= lines[k].to /\ lines[k].to <= n
              /\ lines[k].to < lines[k].from + Width
              /\ k < t => lines[k].to < lines[k + 1].from
  <2>1. lines[k].from = B[k - 1] /\ lines[k].to = LineEnd(text, B[k - 1])
    BY <1>11
  <2>2. k < t => lines[k + 1].from = B[k]
    <3>1. k < t => k + 1 \in 1..t /\ (k + 1) - 1 = k
      BY <1>5
    <3>. QED  BY <3>1, <1>11
  <2>3. PICK b : b = B[k - 1]
    OBVIOUS
  <2>4. PICK e : e = LineEnd(text, b)
    OBVIOUS
  <2>5. b \in 1..n /\ e \in b..n /\ e < b + Width /\ e < B[k]
    BY <1>9, <2>3, <2>4
  <2>. QED  BY <2>1, <2>2, <2>3, <2>4, <2>5
<1>13. ASSUME NEW k \in 1..n, text[k] # Space
       PROVE  \E m \in 1..t : k \in lines[m].from..lines[m].to
  <2>1. k \in 1..B[t] - 1
    BY <1>5
  <2>2. PICK m \in 1..t : k \in B[m - 1]..LineEnd(text, B[m - 1])
    BY <1>6, <1>13, <2>1 DEF OnLines
  <2>. QED  BY <2>2, <1>11
<1>. QED  BY <1>1, <1>8, <1>10, <1>12, <1>13 DEF WholeLines

-----------------------------------------------------------------------------
(* The invariant of the browser *)

BrowserInv ==
  /\ BrowserTypeOK /\ Framed(Len(Current), selected, scroll) /\ DescriptionIsWhole

LEMMA BrowserTypes ==
  ASSUME BrowserTypeOK
  PROVE  /\ items \in Seq(Item) /\ height \in Nat \ {0}
         /\ Current \in Seq(Item) /\ Len(Current) <= Len(items)
<1>1. items \in Seq(Item) /\ height \in Nat \ {0}
  BY BrowserAssumption DEF BrowserTypeOK, Item
<1>. QED  BY <1>1, FilteredTyped DEF Current

LEMMA BrowserBegins == BrowserInit => BrowserInv
<1>. SUFFICES ASSUME BrowserInit PROVE BrowserInv
  OBVIOUS
<1>1. BrowserTypeOK
  <2>1. search \in Seq(Keys \ Controls) /\ Len(search) = 0 /\ shown \in Seq(Line)
    BY DEF BrowserInit
  <2>2. items \in Seq(Item)
    BY BrowserAssumption DEF BrowserInit, Item
  <2>3. 0 \in 0..Len(items) /\ Len(search) <= MaxSearch
    BY <2>1, <2>2, BrowserAssumption
  <2>. QED  BY <2>1, <2>3 DEF BrowserInit, BrowserTypeOK
<1>2. PICK n \in Nat : n = Len(Current)
  BY <1>1, BrowserTypes
<1>3. Framed(n, selected, scroll)
  BY <1>1, BrowserTypes DEF BrowserInit, Framed
<1>. QED  BY <1>1, <1>2, <1>3 DEF BrowserInit, BrowserInv, DescriptionIsWhole

\* After a redrawing the selection is framed by the rows and within the list.
LEMMA Redrawn ==
  ASSUME BrowserInv, UNCHANGED <<items, height>>, NEW s \in Seq(Keys \ Controls), Len(s) <= MaxSearch,
         NEW sel \in Nat, NEW scr \in Nat, NEW b \in BOOLEAN, Redraw(s, sel, scr, b),
         shown' \in Seq(Line), screen' \in {"list", "esc", "csi", "closed"}
  PROVE  BrowserInv'
<1>1. items \in Seq(Item) /\ height \in Nat \ {0}
  BY BrowserTypes DEF BrowserInv
<1>2. PICK l : l = Filtered(s, b)
  OBVIOUS
<1>3. l \in Seq(Item) /\ Len(l) <= Len(items) /\ Framed(Len(l), selected', scroll')
  BY <1>1, <1>2, FilteredTyped, RedrawFrames
<1>4. search' = s /\ show_internal' = b
  BY DEF Redraw
<1>5. Current' = l
  BY <1>2, <1>4 DEF Current, Filtered
<1>6. Framed(Len(Current), selected, scroll)'
  BY <1>3, <1>5 DEF Framed
<1>7. selected' \in 0..Len(items) /\ scroll' \in 0..Len(items)
  BY <1>1, <1>3 DEF Framed
<1>8. BrowserTypeOK'
  BY <1>4, <1>7 DEF BrowserTypeOK, BrowserInv
<1>. QED  BY <1>6, <1>8 DEF BrowserInv, DescriptionIsWhole

\* Where nothing is redrawn the list stays.
LEMMA NotRedrawn ==
  ASSUME BrowserInv, UNCHANGED <<items, height, search, selected, scroll, show_internal>>,
         shown' \in Seq(Line), screen' \in {"list", "esc", "csi", "closed"}
  PROVE  BrowserInv'
<1>1. Current' = Current
  BY DEF Current, Filtered
<1>2. Framed(Len(Current), selected, scroll)'
  BY <1>1 DEF Framed, BrowserInv
<1>3. BrowserTypeOK'
  BY DEF BrowserTypeOK, BrowserInv
<1>. QED  BY <1>2, <1>3 DEF BrowserInv, DescriptionIsWhole

LEMMA DetailHolds == ASSUME BrowserInv, Detail  PROVE BrowserInv'
<1>1. CASE ~(selected < Len(Current))
  BY <1>1, Redrawn DEF Detail, Same, BrowserInv, BrowserTypeOK, Framed, Pressed
<1>2. CASE selected < Len(Current)
  <2>1. Current' = Current
    BY <1>2 DEF Detail, Current, Filtered
  <2>2. PICK d : d = Current[selected + 1].desc
    OBVIOUS
  <2>3. d \in Text
    <3>1. selected + 1 \in 1..Len(Current)
      BY <1>2, BrowserTypes DEF BrowserInv, Framed
    <3>2. Current[selected + 1] \in Item
      BY <3>1, BrowserTypes, ElementOfSeq DEF BrowserInv
    <3>. QED  BY <2>2, <3>2 DEF Item, Text
  <2>4. PICK text : text = Copied(d)
    OBVIOUS
  <2>5. text \in Text
    <3>1. PICK m \in Nat : m = (IF Len(d) < CopyRoom THEN Len(d) ELSE CopyRoom) /\ m <= Len(d)
      BY <2>3, BrowserAssumption DEF Text
    <3>2. text = SubSeq(d, 1, m)
      BY <2>4, <3>1 DEF Copied
    <3>3. SubSeq(d, 1, m) \in Seq(STRING)
      BY <2>3, <3>1 DEF Text
    <3>. QED  BY <3>2, <3>3 DEF Text
  <2>6. shown' = Wrapped(text)
    BY <1>2, <2>2, <2>4 DEF Detail
  <2>7. shown' \in Seq(Line) /\ WholeLines(text, shown')
    BY <2>5, <2>6, WrappedIsWhole
  <2>8. DescriptionIsWhole'
    <3>1. selected' = selected
      BY <1>2 DEF Detail
    <3>2. Copied(Current[selected + 1].desc)' = text
      BY <2>1, <2>2, <2>4, <3>1 DEF Copied
    <3>. QED  BY <2>7, <3>2 DEF DescriptionIsWhole, Whole, WholeLines
  <2>9. Framed(Len(Current), selected, scroll)'
    BY <1>2, <2>1 DEF Framed, BrowserInv, Detail
  <2>10. BrowserTypeOK'
    BY <1>2, <2>7 DEF BrowserTypeOK, BrowserInv, Detail
  <2>. QED  BY <2>8, <2>9, <2>10 DEF BrowserInv
<1>. QED  BY <1>1, <1>2

LEMMA ArrowHolds == ASSUME BrowserInv, NEW k \in Keys, Arrow(k)  PROVE BrowserInv'
<1>1. /\ UNCHANGED <<items, height, shown>> /\ screen' = "list" /\ shown \in Seq(Line)
      /\ search \in Seq(Keys \ Controls) /\ Len(search) <= MaxSearch /\ show_internal \in BOOLEAN
      /\ selected \in Nat /\ scroll \in Nat /\ DownHeight \in Nat \ {0}
  BY BrowserAssumption DEF Arrow, BrowserInv, BrowserTypeOK, Framed
<1>2. PICK sel \in Nat, scr \in Nat : Redraw(search, sel, scr, show_internal)
  <2>1. CASE k = "A" /\ UpRoom
    <3>1. PICK scr : scr = (IF selected - 1 < scroll THEN selected - 1 ELSE scroll)
      OBVIOUS
    <3>2. selected - 1 \in Nat /\ scr \in Nat
      BY <1>1, <2>1, <3>1 DEF UpRoom
    <3>3. Redraw(search, selected - 1, scr, show_internal)
      BY <2>1, <3>1 DEF Arrow
    <3>. QED  BY <3>2, <3>3
  <2>2. CASE k = "B" /\ selected < Len(Current) - 1
    <3>1. PICK down : down = selected + 1
      OBVIOUS
    <3>2. PICK scr : scr = (IF down >= scroll + DownHeight THEN down - DownHeight + 1 ELSE scroll)
      OBVIOUS
    <3>3. down \in Nat /\ scr \in Nat
      BY <1>1, <3>1, <3>2
    <3>4. Redraw(search, down, scr, show_internal)
      BY <2>2, <3>1, <3>2 DEF Arrow
    <3>. QED  BY <3>3, <3>4
  <2>3. CASE ~(k = "A" /\ UpRoom) /\ ~(k = "B" /\ selected < Len(Current) - 1)
    BY <1>1, <2>3 DEF Arrow, Same
  <2>. QED  BY <2>1, <2>2, <2>3
<1>. QED  BY <1>1, <1>2, Redrawn

LEMMA BrowserStays == ASSUME BrowserInv, [BrowserNext]_browserVars  PROVE BrowserInv'
<1>1. /\ search \in Seq(Keys \ Controls) /\ Len(search) <= MaxSearch /\ show_internal \in BOOLEAN
      /\ selected \in Nat /\ scroll \in Nat /\ shown \in Seq(Line)
  BY DEF BrowserInv, BrowserTypeOK, Framed
<1>2. CASE UNCHANGED browserVars
  <2>1. Current' = Current
    BY <1>2 DEF browserVars, Current, Filtered
  <2>2. DescriptionIsWhole'
    BY <1>2, <2>1 DEF browserVars, BrowserInv, DescriptionIsWhole, Whole, Copied
  <2>. QED  BY <1>2, <2>1, <2>2 DEF browserVars, BrowserInv, BrowserTypeOK, Framed
<1>3. CASE Quit
  BY <1>1, <1>3, NotRedrawn DEF Quit
<1>4. CASE Toggle
  <2>1. (~show_internal) \in BOOLEAN /\ 0 \in Nat
    BY <1>1
  <2>. QED  BY <1>1, <1>4, <2>1, Redrawn DEF Toggle, Pressed
<1>5. CASE Detail
  BY <1>5, DetailHolds
<1>6. CASE Return
  <2>1. <<>> \in Seq(Line)
    OBVIOUS
  <2>. QED  BY <1>1, <1>6, <2>1, Redrawn DEF Return, Same
<1>7. CASE Backspace
  <2>1. CASE search # <<>>
    <3>1. PICK s : s = SubSeq(search, 1, Len(search) - 1)
      OBVIOUS
    <3>2. s \in Seq(Keys \ Controls) /\ Len(s) <= MaxSearch
      BY <1>1, <2>1, <3>1, BrowserAssumption
    <3>3. Redraw(s, 0, 0, show_internal)
      BY <1>7, <2>1, <3>1 DEF Backspace
    <3>. QED  BY <1>1, <1>7, <3>2, <3>3, Redrawn DEF Backspace, Pressed
  <2>2. CASE search = <<>>
    BY <1>1, <1>7, <2>2, Redrawn DEF Backspace, Pressed, Same
  <2>. QED  BY <2>1, <2>2
<1>8. CASE Escape
  BY <1>1, <1>8, NotRedrawn DEF Escape
<1>9. ASSUME NEW k \in Keys, Type(k)  PROVE BrowserInv'
  <2>1. CASE Len(search) < MaxSearch
    <3>1. PICK s : s = Append(search, k)
      OBVIOUS
    <3>2. k \in Keys \ Controls
      BY <1>9 DEF Type
    <3>3. s \in Seq(Keys \ Controls) /\ Len(s) <= MaxSearch
      BY <1>1, <2>1, <3>1, <3>2, BrowserAssumption
    <3>4. Redraw(s, 0, 0, show_internal)
      BY <1>9, <2>1, <3>1 DEF Type
    <3>. QED  BY <1>1, <1>9, <3>3, <3>4, Redrawn DEF Type, Pressed
  <2>2. CASE ~(Len(search) < MaxSearch)
    BY <1>1, <1>9, <2>2, Redrawn DEF Type, Pressed, Same
  <2>. QED  BY <2>1, <2>2
<1>10. ASSUME NEW k \in Keys, AfterEscape(k)  PROVE BrowserInv'
  BY <1>1, <1>10, NotRedrawn DEF AfterEscape
<1>11. ASSUME NEW k \in Keys, Arrow(k)  PROVE BrowserInv'
  BY <1>11, ArrowHolds
<1>. QED  BY <1>2, <1>3, <1>4, <1>5, <1>6, <1>7, <1>8, <1>9, <1>10, <1>11 DEF BrowserNext

\* Whatever a scope lists, whatever is typed and however many lines of it are drawn,
\* the item that is highlighted is among them, and Enter shows its description whole.
THEOREM SelectionIsRight == BrowserSpec => []BrowserIsRight
<1>1. BrowserInv => BrowserIsRight
  BY FramedShows, BrowserTypes DEF BrowserInv, BrowserIsRight
<1>. QED  BY <1>1, BrowserBegins, BrowserStays, PTL DEF BrowserSpec
=============================================================================
