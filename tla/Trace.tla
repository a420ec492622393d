--------------------------------- MODULE Trace ---------------------------------
(***************************************************************************)
(* The backtrace of src/backtrace.c: a chain of the goals being evaluated, *)
(* of which a window is kept.  laure_start adds every goal; a predicate    *)
(* call notes the cursor on entry and puts it back when a body succeeded   *)
(* or was cut (query.c), not when it failed or ended in an error.          *)
(***************************************************************************)
EXTENDS Naturals, Sequences

CONSTANTS
  Goals,     \* goals that are backtraced and not internal, told apart by their text
  Limit,     \* BACKTRACE_CHAIN_LIMIT
  Capacity,  \* BACKTRACE_CHAIN_CAPACITY
  MaxDepth,  \* bound on nested predicate calls
  MaxPath,   \* bound on the goals added
  NoGoal     \* an entry of zeroes

ASSUME TraceAssumption ==
  /\ Limit \in Nat /\ Capacity \in Nat /\ MaxDepth \in Nat /\ MaxPath \in Nat
  /\ 3 <= Limit /\ Limit < Capacity
  /\ NoGoal \notin Goals

VARIABLES
  chain,    \* [0..Capacity - 1 -> goal or NoGoal]; how often in a row is left out
  cursor,
  saved,    \* what each predicate call in progress noted: the cursor, and for the
            \* properties the length of path and whether the window slid since
  path,     \* history: the goals added, less those of bodies that succeeded
  drifted   \* history: a cursor was put back in a window that had slid

traceVars == <<chain, cursor, saved, path, drifted>>
-------------------------------------------------------------------------------
Nulls == [i \in 0..Capacity - 1 |-> NoGoal]

TraceInit ==
  /\ chain = Nulls /\ cursor = 0
  /\ saved = <<>> /\ path = <<>> /\ drifted = FALSE

\* The slide of laure_backtrace_add: only at Limit does it drop anything.
Slides == cursor >= Limit
Kept      == IF Slides THEN Limit - 1 ELSE cursor
StartLate == IF Slides THEN cursor - Limit + 2 ELSE 0         \* mutant: one too many dropped
Start     == IF Slides THEN cursor - Limit + 1 ELSE 0
Slid   == [i \in 0..Capacity - 1 |-> IF i < Kept THEN chain[Start + i] ELSE NoGoal]
Window == IF cursor >= Limit - 2 THEN Slid ELSE chain
AtEnd  == IF cursor >= Limit - 2 THEN Kept ELSE cursor
Repeats(g) == AtEnd # 0 /\ Window[AtEnd - 1] = g

Add(g) ==
  /\ IF Repeats(g)
       THEN chain' = Window /\ cursor' = AtEnd
       ELSE /\ AtEnd < Capacity
            /\ chain' = [Window EXCEPT ![AtEnd] = g]
            /\ cursor' = AtEnd + 1
  /\ path' = IF path # <<>> /\ path[Len(path)] = g THEN path ELSE Append(path, g)
  /\ Len(path') <= MaxPath
  /\ saved' = [i \in DOMAIN saved |-> [saved[i] EXCEPT !.slid = @ \/ Slides]]
  /\ UNCHANGED drifted

\* laure_eval_pred_call
Enter ==
  /\ Len(saved) < MaxDepth
  /\ saved' = Append(saved, [cursor |-> cursor, len |-> Len(path), slid |-> FALSE])
  /\ UNCHANGED <<chain, cursor, path, drifted>>

\* A body succeeded, or was cut off; the call goes on to its next body or ends.
Noted   == saved[Len(saved)]
PutBack == Noted.cursor
Left    == SubSeq(saved, 1, Len(saved) - 1)
Succeeds(ends) ==
  /\ saved # <<>>
  /\ cursor' = PutBack
  /\ path' = SubSeq(path, 1, Noted.len)
  /\ drifted' = (drifted \/ Noted.slid)
  /\ saved' = IF ends THEN Left ELSE saved
  /\ UNCHANGED chain

\* Every body failed: the cursor stays where it is.
Fails ==
  /\ saved # <<>> /\ saved' = Left
  /\ UNCHANGED <<chain, cursor, path, drifted>>

\* The prompt calls laure_backtrace_nullify before it starts a query.
Query ==
  /\ saved = <<>>
  /\ chain' = Nulls /\ cursor' = 0 /\ path' = <<>> /\ drifted' = FALSE
  /\ UNCHANGED saved

TraceNext ==
  \/ \E g \in Goals : Add(g)
  \/ Enter \/ Fails \/ Query
  \/ \E ends \in BOOLEAN : Succeeds(ends)

TraceSpec == TraceInit /\ [][TraceNext]_traceVars

\* laure_backtrace_print stops at the cursor or at the first empty entry.
PrintedTo == CHOOSE n \in 0..cursor :
  /\ \A i \in 0..n - 1 : chain[i] # NoGoal
  /\ n = cursor \/ chain[n] = NoGoal
Printed == [i \in 1..PrintedTo |-> chain[i - 1]]
-------------------------------------------------------------------------------
TraceTypeOK ==
  /\ chain \in [0..Capacity - 1 -> Goals \cup {NoGoal}]
  /\ cursor \in 0..Limit
  /\ saved \in Seq([cursor : 0..Limit, len : 0..MaxPath, slid : BOOLEAN])
  /\ path \in Seq(Goals) /\ drifted \in BOOLEAN

\* What is printed with an error is the end of the path that led to it, as much
\* of it as the window holds - unless the window slid while a call was running
\* that put the cursor back: then the cursor means other entries, or none.
TraceIsPath ==
  ~drifted =>
    /\ Printed = SubSeq(path, Len(path) - Len(Printed) + 1, Len(path))
    /\ Len(Printed) >= IF Len(path) < Limit - 1 THEN Len(path) ELSE Limit - 1

\* The window is kept within its limit, and what it prints is the path.
WindowIsRight == TraceTypeOK /\ TraceIsPath
===============================================================================
