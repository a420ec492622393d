------------------------------ MODULE Memguard ------------------------------
(***************************************************************************)
(* Cleanup contexts (src/memguard.c) and the functions that use one.       *)
(*                                                                         *)
(* A function that acquires several things registers each with a context;  *)
(* when it gives up it destroys the context, which frees what is           *)
(* registered, and when it succeeds it first forgets the registrations     *)
(* (MEMGUARD_TRANSFER_OWNERSHIP).  Here a function is the list of what it  *)
(* does with memory, and any of the calls the code checks may fail.        *)
(***************************************************************************)
EXTENDS Naturals, Sequences, FiniteSets, SequencesExt

CONSTANTS Functions,     \* the functions by name, each a sequence of steps
          Called,        \* those that are called from outside
          Names,         \* their local variables
          FirstCapacity  \* slots of a context that grows for the first time

NULL == 0

(* What a line does with the variable x: acquire a block for it, register  *)
(* it with the context, let realloc move it, give it the blocks of the     *)
(* variables in xs, check that it is not NULL, test some other condition,  *)
(* call a function for it, forget or free what is registered, return it.   *)
Operations == {"acquire", "register", "grow", "own", "check", "test", "call", "transfer", "destroy", "return"}

(* fails: there may be no memory.  deep: the destructor also frees what    *)
(* the block owns.  When a check or a test fails, the function frees the   *)
(* variables in xs, destroys its context if cleanup says so, and returns   *)
(* NULL.                                                                   *)
Step == [op : Operations, x : Names, xs : SUBSET Names, f : DOMAIN Functions \union {""},
         deep : BOOLEAN, fails : BOOLEAN, cleanup : BOOLEAN]

MemguardAssumption ==
  /\ \A f \in DOMAIN Functions :
       /\ Functions[f] \in Seq(Step)
       /\ Functions[f] # <<>>
       /\ Last(Functions[f]).op = "return"
  /\ Called \subseteq DOMAIN Functions
  /\ FirstCapacity \in Nat \ {0}

VARIABLES
  called,  \* the outermost function
  heap,    \* the blocks by address: in use or not, and what each owns
  frames,  \* the functions in progress, innermost last
  given,   \* what the outermost function returned
  misused  \* the blocks that were freed or moved when no longer in use

vars == <<called, heap, frames, given, misused>>

Addresses == 1 .. Len(heap)

Block == [live : BOOLEAN, owns : SUBSET Nat]

(* What ptrs and destructors hold at one index. *)
Registration == [ptr : Nat, deep : BOOLEAN]

(* cleanup_ctx_t: slots has capacity entries, of which count are in use. *)
Context == [slots : Seq(Registration), count : Nat, capacity : Nat]

Frame == [f : DOMAIN Functions, pc : Nat, var : [Names -> Nat], ctx : Context]

(* A function begins with an empty context: cleanup_ctx_init. *)
Enter(f) == [f |-> f, pc |-> 1, var |-> [n \in Names |-> NULL],
             ctx |-> [slots |-> <<>>, count |-> 0, capacity |-> 0]]

Init == /\ heap = <<>>
        /\ given = NULL
        /\ misused = {}
        /\ called \in Called
        /\ frames = <<Enter(called)>>

------------------------------------------------------------------------------
(* Memory. *)

Blocks(v, xs) == {v[x] : x \in xs} \ {NULL}

Closure(bs) == bs \union UNION {heap[b].owns : b \in bs}

(* The blocks bs are freed, some of them twice. *)
Freed(bs, twice) ==
  /\ heap' = [b \in Addresses |-> [heap[b] EXCEPT !.live = @ /\ b \notin bs]]
  /\ misused' = misused \union twice \union {b \in bs : ~heap[b].live}

Allocated == Append(heap, [live |-> TRUE, owns |-> {}])

------------------------------------------------------------------------------
(* Contexts. *)

DoubleCapacity(c) == IF c.capacity = 0 THEN FirstCapacity ELSE 2 * c.capacity

(* The arrays after laure_realloc: what they held, and slots not set yet. *)
Grown(c) ==
  IF c.count < c.capacity THEN c
  ELSE [c EXCEPT !.capacity = DoubleCapacity(c),
                 !.slots = [i \in 1 .. DoubleCapacity(c) |->
                              IF i <= Len(@) THEN @[i] ELSE [ptr |-> NULL, deep |-> FALSE]]]

(* cleanup_ctx_register *)
Registered(c, ptr, deep) ==
  IF ptr = NULL THEN c
  ELSE LET g == Grown(c) IN [g EXCEPT !.slots[g.count + 1] = [ptr |-> ptr, deep |-> deep], !.count = @ + 1]

(* A mutant: the registrations are kept. *)
NotTransferred(c) == c

(* MEMGUARD_TRANSFER_OWNERSHIP *)
Transferred(c) == [c EXCEPT !.count = 0]

(* What the destructor at index i frees, and the whole loop. *)
Releases(c, i) == IF c.slots[i].deep THEN Closure({c.slots[i].ptr}) ELSE {c.slots[i].ptr}
ReleasedShort(c) == UNION {Releases(c, i) : i \in 2 .. c.count}   (* a mutant: not the first *)
Released(c) == UNION {Releases(c, i) : i \in 1 .. c.count}
ReleasedTwice(c) == UNION {Releases(c, i) \intersect Releases(c, j) : <<i, j>> \in {p \in (1 .. c.count) \X (1 .. c.count) : p[1] < p[2]}}

------------------------------------------------------------------------------
(* One line of a function. *)

Running == frames # <<>>
Top == Last(frames)
Line == Functions[Top.f][Top.pc]
At(op) == Running /\ Line.op = op

Proceed(var, ctx) == frames' = Front(frames) \o <<[Top EXCEPT !.pc = @ + 1, !.var = var, !.ctx = ctx]>>

(* To the caller, which has the result in the variable of its call. *)
Leave(result) ==
  IF Len(frames) = 1 THEN frames' = <<>> /\ given' = result
  ELSE LET caller == frames[Len(frames) - 1]
           call == Functions[caller.f][caller.pc]
       IN  /\ frames' = Front(Front(frames)) \o <<[caller EXCEPT !.pc = @ + 1, !.var[call.x] = result]>>
           /\ UNCHANGED given

(* A check or a test fails: what the line frees, and the context. *)
GiveUp ==
  /\ LET own == Closure(Blocks(Top.var, Line.xs)) IN
     IF Line.cleanup
     THEN Freed(own \union Released(Top.ctx), ReleasedTwice(Top.ctx) \union (own \intersect Released(Top.ctx)))
     ELSE Freed(own, {})
  /\ Leave(NULL)

Acquire ==
  /\ At("acquire")
  /\ heap' = Allocated
  /\ Proceed([Top.var EXCEPT ![Line.x] = Len(heap) + 1], Top.ctx)
  /\ UNCHANGED <<given, misused>>

AcquireFails ==
  /\ At("acquire") /\ Line.fails
  /\ Proceed(Top.var, Top.ctx)
  /\ UNCHANGED <<heap, given, misused>>

Register ==
  /\ At("register")
  /\ Proceed(Top.var, Registered(Top.ctx, Top.var[Line.x], Line.deep))
  /\ UNCHANGED <<heap, given, misused>>

(* laure_realloc moves a block: its old address is free. *)
Grow ==
  /\ At("grow")
  /\ LET b == Top.var[Line.x] IN
     /\ heap' = Append([heap EXCEPT ![b].live = FALSE], [live |-> TRUE, owns |-> heap[b].owns])
     /\ misused' = misused \union (IF heap[b].live THEN {} ELSE {b})
     /\ Proceed([Top.var EXCEPT ![Line.x] = Len(heap) + 1], Top.ctx)
     /\ UNCHANGED given

(* laure_realloc finds room where the block is. *)
GrowInPlace ==
  /\ At("grow")
  /\ Proceed(Top.var, Top.ctx)
  /\ UNCHANGED <<heap, given, misused>>

Own ==
  /\ At("own")
  /\ heap' = [heap EXCEPT ![Top.var[Line.x]].owns = @ \union Closure(Blocks(Top.var, Line.xs))]
  /\ Proceed(Top.var, Top.ctx)
  /\ UNCHANGED <<given, misused>>

Holds ==
  /\ \/ At("check") /\ Top.var[Line.x] # NULL
     \/ At("test")
  /\ Proceed(Top.var, Top.ctx)
  /\ UNCHANGED <<heap, given, misused>>

Fails ==
  /\ \/ At("check") /\ Top.var[Line.x] = NULL
     \/ At("test")
  /\ GiveUp

Call ==
  /\ At("call")
  /\ frames' = Append(frames, Enter(Line.f))
  /\ UNCHANGED <<heap, given, misused>>

Transfer ==
  /\ At("transfer")
  /\ Proceed(Top.var, Transferred(Top.ctx))
  /\ UNCHANGED <<heap, given, misused>>

(* cleanup_ctx_destroy *)
Destroy ==
  /\ At("destroy")
  /\ Freed(Released(Top.ctx), ReleasedTwice(Top.ctx))
  /\ Proceed(Top.var, [slots |-> <<>>, count |-> 0, capacity |-> 0])
  /\ UNCHANGED given

Return ==
  /\ At("return")
  /\ Leave(Top.var[Line.x])
  /\ UNCHANGED <<heap, misused>>

Next ==
  /\ \/ Acquire \/ AcquireFails \/ Register \/ Grow \/ GrowInPlace \/ Own
     \/ Holds \/ Fails \/ Call \/ Transfer \/ Destroy \/ Return
  /\ UNCHANGED called

Spec == Init /\ [][Next]_vars

------------------------------------------------------------------------------
(* Properties. *)

(* Every variable has its type, and a context room for what is registered. *)
TypeOK ==
  /\ \A i \in 1 .. Len(frames) : LET c == frames[i].ctx IN
       c.count <= c.capacity /\ Len(c.slots) = c.capacity
  /\ called \in Called
  /\ heap \in Seq(Block)
  /\ frames \in Seq(Frame)
  /\ given \in 0 .. Len(heap)
  /\ misused \subseteq Addresses

(* Nothing is freed, or given to realloc, that is not in use: not by a     *)
(* context (memguard.c:57), not by the function that registered it.        *)
FreedOnce == misused = {}

(* What a context would free is in use and registered there only: the      *)
(* block has not been moved or freed behind its back.                      *)
RegistrationsLive ==
  \A i \in 1 .. Len(frames) : LET c == frames[i].ctx IN
    \A j \in 1 .. c.count : /\ heap[c.slots[j].ptr].live
                            /\ \A k \in 1 .. c.count : c.slots[k].ptr = c.slots[j].ptr => k = j

(* When the outermost function has returned, whichever of its calls        *)
(* failed, every block still in use belongs to its result.                 *)
NothingLeaks ==
  frames = <<>> => {b \in Addresses : heap[b].live} = (IF given = NULL THEN {} ELSE Closure({given}))
=============================================================================
