------------------------------- MODULE MCStorage -------------------------------
(* Scopes, the scope browser, the backtrace and the functions that use        *)
(* cleanup contexts on small instances; one of them is explored in each       *)
(* behaviour.                                                                 *)
EXTENDS Scopes, Trace, Browser, TLC

VARIABLES part, called, blocks, frames, given, misused

MCItem(name, desc) == [name |-> name, desc |-> desc]
MCLists ==
  { <<>>,
    << MCItem(<<"a">>, <<"x", " ", "x", "x", "x", "x", "x">>),
       MCItem(<<"_", "a">>, <<>>),
       MCItem(<<"b", "a">>, <<"x", "x", "x", " ", " ", "x">>),
       MCItem(<<"b">>, <<"x", "x", "x", "x">>),
       MCItem(<<"b", "b">>, <<" ", "x", "x", "x", "x", "x">>),
       MCItem(<<"a", "b">>, <<"x">>) >> }
MCKeys == {"a", "b", "q", "[", "A", "B", "tab", "enter", "esc", "back"}

Cl == INSTANCE Clients
Mem == INSTANCE Memguard WITH Functions <- Cl!ClientFunctions, Called <- DOMAIN Cl!ClientFunctions,
                              Names <- Cl!ClientLocals, FirstCapacity <- 2,
                              heap <- blocks

ASSUME MCPartsAssumption == Mem!MemguardAssumption

memoryVars  == <<called, blocks, frames, given, misused>>
all == <<part, vars, browserVars, traceVars, memoryVars>>

BrowserIdle ==
  /\ items = <<>> /\ height = 2 /\ search = <<>> /\ selected = 0 /\ scroll = 0
  /\ show_internal = FALSE /\ screen = "list" /\ shown = <<>>
MemoryIdle ==
  called = "control_new" /\ blocks = <<>> /\ frames = <<>> /\ given = 0 /\ misused = {}

MCInit ==
  \/ part = "scopes" /\ Init /\ BrowserIdle /\ TraceInit /\ MemoryIdle
  \/ part = "browser" /\ Init /\ BrowserInit /\ TraceInit /\ MemoryIdle
  \/ part = "trace" /\ Init /\ BrowserIdle /\ TraceInit /\ MemoryIdle
  \/ part = "memory" /\ Init /\ BrowserIdle /\ TraceInit /\ Mem!Init

MCNext ==
  \/ part = "scopes" /\ Next /\ UNCHANGED <<part, browserVars, traceVars, memoryVars>>
  \/ part = "browser" /\ BrowserNext /\ UNCHANGED <<part, vars, traceVars, memoryVars>>
  \/ part = "trace" /\ TraceNext /\ UNCHANGED <<part, vars, browserVars, memoryVars>>
  \/ part = "memory" /\ Mem!Next /\ UNCHANGED <<part, vars, browserVars, traceVars>>

MCSymmetry == Permutations(Pointers) \cup Permutations(Names)

MCSpec == MCInit /\ [][MCNext]_all

\* laure_vpk_create registers a block that laure_realloc may move after that: a
\* check that fails then frees the block at its old address, and nobody the one
\* at the new (query.c:622).
Reallocating == {"laure_vpk_create of two"}
\* What a cleanup context registers is alive and is freed once, however a
\* function is left, unless it reallocates what it has registered.
MemorySafe ==
  Mem!TypeOK /\ (called \notin Reallocating => Mem!FreedOnce /\ Mem!RegistrationsLive)

\* int_translator forgets the texts of a range (the run `leaks'); nothing calls
\* the safe unions, which return without destroying their context.
Forgetful == {"int_translator", "int_translator of l..", "int_translator of ..r",
              "safe union of two", "safe union of three"}
\* What is in use when a function returns belongs to its result, for all
\* functions but these and whichever of their allocations fails.
NothingElseLeaks ==
  called \notin Forgetful \cup Reallocating => Mem!NothingLeaks
===============================================================================
