# A verification development for laurelang

laurelang is a logic programming language: a C interpreter (about 17,000 lines
under `src/src/`, with `src/laure.c`, `src/std/` and `src/api/c/`) that reads
predicates and answers queries by depth-first search over *instances*, variables
that hold a set of possible values and are narrowed until one value is left.
These modules model the interpreter, check it with TLC on small programs, and
prove with TLAPS, for all programs and inputs, what can be proved about the search,
the integer domains, the scopes and their browser, big integers, bags, consulting and
the backtrace.

## 1. The system

| Component | Code | State it keeps | Operations |
|---|---|---|---|
| search engine | `src/src/query.c` | the C stack; `cctx->scope`, `qctx`, `cut`, `recursion_depth`, `vpk->do_process`, `tmp_answer_scope` | `laure_start`, `laure_eval` and an evaluator per expression kind |
| scope | `src/src/scope.c` | cells (name, link, instance) in a bounded array, `next`, `repeat`, the shared link counter, heap values and owners | insert, find by key or link, copy, copy with values, iterate, free |
| session and entry | `src/laure.c`, `src/src/session.c` | the global scope, the verdict of the last query, flags | start, query, close |
| instances and images | `src/src/instance.c` | images of integers, arrays, strings, atoms, structures, unions, predicates; multiplicities | generate, equals, copy, translate, instantiate |
| integer domains | `src/src/domain.c` | borders, with or without the end point, or infinite | check, intersect, `gt`, `lt`, generate |
| body ordering | `src/src/order.c` | masks of instantiated arguments, a tree of orders already computed | reorder a body, look an order up |
| bag, name observers | `src/std/bag.c`, `query.c` 40-110 | a pocket of solutions in the next qcontext; observers by link | collect, count, notify |
| standard predicates | `src/std/*.c` | none | integer, array, map, union, utility predicates |
| big integers | `src/src/bigint.c` | words in base 2^32 | arithmetic, comparison, conversion |
| memory guard | `src/src/memguard.c`, `alloc.c` | cleanup contexts, reference counts, arenas, counters | push, register, release, cleanup |
| backtrace | `src/src/backtrace.c` | a sliding window of calls with a cursor | add, dump |
| weighted search | `src/src/weight.c` | transistors, a vector of weighted branches | create, expand, choose |
| types of calls | `query.c` 1449-2004, `instance.c` 3398-3558, `apply.c` 140-200 | headers of predicates (arguments and response), `Generics[]`, nested types kept in the global scope | resolve, bind arguments, clarify |
| parser | `src/src/parser.c`, `string.c` | none | text to expressions; bracket and quote scanner |
| consulting, imports | `src/src/apply.c`, `import.c` | predicates with their variations, included files | consult, declare, append a variation |
| builtins, prompt, printing | `builtin.c`, `repl.c`, `pprint.c`, `error.c` | terminal state | tables, line editing, layout |
| C interface | `src/api/c/api.c` | a session | wrappers |

How they interact.  A line of text goes from the prompt, a file or the C
interface to the parser; declarations go to *consulting*, queries to
`laure_process_query`, which makes a qcontext with the expressions of the query
and calls `laure_start` in the session's global *scope*.  The engine is written
in continuation-passing style: `laure_start` evaluates one expression; the
evaluator of an expression that makes a choicepoint calls `laure_start` for
everything that follows, once for each choice, from inside.  At the end of a
list of expressions `laure_start` looks for a continuation in the chain of
qcontexts and, when there is none, shows the answer (`laure_showcast`) or sends
it (`laure_send`).  *Instances* are enumerated through a callback per value
(`image_rec_default` from the generator of its type).  Predicates written in C are
called with a view of the scope and may ask the engine to instantiate an
argument and call them again.  All of it runs in one thread.

What is hard.  Nothing is concurrent, persistent or remote; what is hard is
*shared mutable control state under deep recursion*: `cctx->scope`,
`cctx->qctx`, `qctx->expset`, `cctx->cut`, `recursion_depth` and `do_process`
are each written by every evaluator, moved by tail calls that do not put them
back, and have to be right again at the moment the next alternative is tried,
after success, failure, error, stop, cut or early exit.  A response is a pair
(state, payload) that ten evaluators judge each in its own way.  `PROJECT.json`
lists the places under "hazards".

What makes each component correct:

- *search engine*: the answers are those of the program, in order, none twice,
  none left out while more are asked for; each alternative starts from the
  caller's bindings; a cut commits; a quantifier or an isolated set shows
  nothing; the recursion limit bounds the C stack and every query ends; the
  response of the user or the receiver is obeyed.
- *scope*: links identify variables; a copy is independent of its original;
  a name is found where it was inserted until the scope is freed.
- *instances, domains*: narrowing keeps exactly the values that satisfy both
  sides; generation gives each value of the domain once, in order, and ends
  when the domain is finite.
- *ordering*: a reordered body has the solutions of the body; a computed order
  is found again under the mask it was computed for.
- *bag, observers*: a bag holds the solutions of its search, once each.
- *big integers*: the operations agree with integer arithmetic.
- *memory guard*: what was registered is released once, inner contexts first.
- *backtrace*: the window holds the most recent calls in order.
- *predicates*: an answer narrows, no solution is lost, only solutions are given.
- *types of calls*: a type found for a generic is kept through the call, an argument
  that is bound has the type the header asks for, a refusal is right, and a
  clarified predicate says what a clarified call does.
- *consulting*: a variation is only added to a predicate with a header, a file
  is consulted once.

## 2. Modules

| Module | What it is |
|---|---|
| `Search` | the search engine: state, one action per evaluator and per way it goes on, properties |
| `Reference` | what a query means: solutions by direct enumeration, without scopes, qcontexts or cuts |
| `Answers` | what a session promises its user: the answers in order, and an end |
| `Domain` | integer images: what assertions and constraints make of a domain, and how its values are generated |
| `Images` | the images of characters, texts, atoms, arrays, structures, unions and linked fields: assertion, equality, copy, generation |
| `BigInt` | integers as words: sums, Karatsuba products, quotients, roots, comparison, text |
| `Arithmetic`, `Calculator` | what `+`, `*`, division and `sqrt` promise of integers; the predicates of `std/integer.c` on the words of `BigInt`, which implement it |
| `Memguard`, `Clients` | cleanup contexts and functions that use memory; the functions of the interpreter that have a context, line by line |
| `Consulting`, `Lines` | sources, packages and imports, statement by statement; how the lines of a source become statements and documentation |
| `Ordering` | the order in which the goals of a body are run, for each mask of known arguments |
| `Store`, `Scopes` | named values that change only by what is asked of them; the array of cells with instances and links, which implements it |
| `Browser`, `Trace` | the interactive list of a scope's variables; the backtrace window |
| `Arrays`, `Collecting`, `Mapping` | `append`, `by_idx`, `length`, `each`; `bag` and `bagof`; `map` |
| `Generics` | how a call finds the types of a generic header, binds its arguments, and how a predicate is clarified |
| `SearchProofs`, `BindingProofs` | theorems about `Search`: control (addresses, depth, silence) and bindings (values, links, backtracking) |
| `DomainProofs`, `CollectingProofs`, `ConsultingProofs` | theorems about the module of each name |
| `StorageProofs`, `ReadingProofs` | theorems about `Scopes`, `Trace` and `Browser`; about `Lines` and `Ordering` |
| `NumbersProofs` | theorems about `BigInt` and `Calculator` |
| `MCSearch`, `MCDomain`, `MCImages`, `MCNumbers`, `MCMemory`, `MCConsulting`, `MCStorage`, `MCPredicates`, `MCGenerics` | instances for TLC |

How they compose.  `MCSearch` puts `Search` against `Reference` and `Answers`;
`Calculator` is `BigInt` with variables, against `Arithmetic`; `Memguard` runs the
functions of `Clients`; `Scopes` is the detail of `Store`.  The others are checked
each by itself, along the cut the code has: the search sees an instance as a set
of values that is narrowed and generated, and `Domain` and `Images` show what
that means for each kind of image; it sees a predicate written in C as its answer,
and `Calculator`, `Arrays`, `Collecting` and `Mapping` are those predicates, with
the goals that follow free to answer anything; it sees a scope as cells, and
`Scopes` shows how they are kept; the types of its calls are right, and
`Generics` shows how they are found.  `MCConsulting` and `MCPredicates` hold three
small systems each and `MCStorage` four: a behaviour takes one `part` and leaves
the variables of the others at rest.  `MCStorage` extends `Scopes`, `Trace` and `Browser`, `MCPredicates`
extends `Arrays` and `Collecting`; the others are instances.

### Search and the code

| Variable | Code |
|---|---|
| `stack` | the C call stack: one frame per activation of `laure_start`, `laure_eval_pred_call`, a generator (`instance_generate` with its callback's context), an implication, a choice, a set |
| `scopes`, `scope` | the `laure_scope_t` objects, by address, and `cctx->scope`; `cell` maps a name to its link and its image: the values it may take and whether it is `single` |
| `qctxs`, `qctx` | the `qcontext` objects, by address, and `cctx->qctx` (0 when NULL) |
| `cut`, `depth`, `doProcess` | `cctx->cut`, `cctx->recursion_depth`, `vpk->do_process` |
| `nlink`, `tracked` | the link counter, `cctx->tmp_answer_scope` by name |
| `ret` | the `qresp` on its way to the innermost activation; the verdict when the stack is empty |
| `prog`, `mode`, `out` | the program with its query; the mode of `var_process_kit`; what was shown or sent, with what was replied |

A step is what happens between two calls or returns: `EvalCall` is the entry of
`laure_eval_pred_call`, `EnterInterior` everything from the choice of a
variation to the call of `laure_start` for its body, `BodyReturns` everything
from that call's return to the next variation.  In a frame, `sc` and `qc` are
the scope and the qcontext `UNPACK_CCTX` read on entry, `old` the saved
`qctx->expset`, `save` the saved cut, `dp` the saved `do_process`.

| Actions | Code in `query.c` |
|---|---|
| `EvalAssert`, `EvalEq`, `EvalIntersect`, `EvalUnify`, `EvalCut`, `EvalRename` | `laure_eval_assert`, `_unify`, `_cut`, `_name` on pairs of variables |
| `NextExpression`, `LeaveList`, `Continue`, `Silent`, `Showcast`, `Send`, `SendScope` | `laure_start`, `laure_showcast`, `laure_send`, `check_interactive` |
| `EvalCall`, `ArgMismatch`, `EnterInterior`, `CallC`, `BodyReturns`, `ContinuationReturns`, `InstReturns`, `Exhausted` | `laure_eval_pred_call`, `pred_call_procvar` |
| `EvalQuant`, `NextValue`, `ValueReturns`, `NoMoreValues` | `laure_eval_quant`, `image_rec_default`, `atom_generate`, the four `qr_process_*` |
| `EvalImply`, `ImplyReturns`, `EvalChoice`, `NextAlternative`, `AlternativeReturns`, `NoMoreAlternatives` | `laure_eval_imply`, `laure_eval_choice` |
| `EvalSet`, `EvalIsolated`, `EvalEmptySet`, `SetReturns`, `IsolatedReturns` | `laure_eval_set` |
| `CallCrashes`, `GoalCrashes` | a NULL qcontext or an empty `expset` followed without a check |

Abstractions.  Instances are atoms (`struct AtomImage`): the set of names one may
take, and the flag `single` that says it is instantiated.  The two differ: an
intersection may leave one value and no `single`, as in the code, and `x = y` is
then still a choicepoint.  The names of a universe are numbers, in the order in
which the universe lists them, and sets of them are listed in that order.  An
assertion of several names needs all of them to be possible, as
`atom_translator` does.  A C predicate is its outcome: it succeeds, narrows its first
argument, asks for its instantiation, fails, errs or stops.  Objects are never
reused: addresses are indices, and `free` is left out.  The user and the
receiver are free to reply anything the code accepts.  Two fields are ghosts:
`d`, the recursion depth a call was entered at, and `committed`, set by a cut in
the activations it commits.

The programs of the model are those the parser makes: a call has as many
arguments as its predicate has parameters (`ArityAssumption`,
`ProgramsAssumption`), the parameters of a variation are distinct.  A call's
arguments are distinct variables: the model writes one cell per argument.  Not
in the model, and not in its programs: response arguments, UUIDs, constraints,
weights, structures, arrays, names and commands as goals; generics are in
`Generics`.

### Domain and the code

| Variable | Code |
|---|---|
| `image` | `struct IntImage` of each variable: `single` when its state is `I`, then `n` is `i_data`; otherwise the borders of `u_data`, each `inf`, `inc` or `sec` with its number |
| `asked`, `said` | the requests made so far (a ghost) and the response to the last one |
| `walk` | `value`, `bounded`, `bound` and `f` of `int_domain_generate`: `inc` and `jump` are its two ways, `once` is a single integer |
| `given` | the values the receiver was called with |

| Actions | Code |
|---|---|
| `AssertNumber`, `AssertRange` | `int_translator` (`instance.c`) |
| `Equal` | `int_eq` |
| `ConstraintGt`, `ConstraintGte` | `laure_constraint_gt`, `laure_constraint_gte` on integers (`std/integer.c`) |
| `Generate`, `Receive`, `ReceiveLast`, `ReceiveAndStop` | `int_generate`, `int_domain_generate`: its head, and one turn of its loop that goes on, ends at the bound, or is ended by the receiver |

`int_domain_gt`, `int_domain_lt`, `int_domain_check`, `int_check` and `int_jump` are the
operators `DomainGt`, `DomainLt`, `Within`, `Check` and `Jump`.  Integers are
mathematical, as big integers are meant to be.  The generator adds to a border in
place, but on a copy (`image_generate`), so that `image` does not change during a
walk.  The branch of `int_domain_generate` that walks downwards is never taken
(`from_r` stays false) and has no action.  The two arguments of a constraint or
an equality are different variables (`RequestAssumption`).  What a program
means is `Holds`, over the integers, which shares only the meaning of a border with
the operators of the code.

### Images and the code

| Variable | Code |
|---|---|
| `store` | `h` is the heap of images by address, `root` the image of each variable, `locked` the variables that are types or headers; an array holds the addresses of its elements and of the image they are copied from (`arr_el`), a structure those of its fields, a union those of its members |
| `asked`, `said`, `given`, `count` | the last request, its answer, what a generator gave, the requests so far |

| Actions and operators | Code in `instance.c` |
|---|---|
| `AssertLiteral` with `Translate` and its cases | `char_translator`, `atom_translator`, `array_translator`, `string_translator`, `structure_translator`, `union_translator` |
| `Equate` with `Equals` and its cases | `image_equals`, `char_eq`, `atom_eq`, `array_eq`, `structure_eq`, `union_eq` |
| `Generate` with `Values` | `image_generate` and the generator of each kind |
| `Copy`, `Instantiated` | `image_deepcopy`, `instantiated` |

A locked variable is told nothing, gives its image to others as it is, and is equated
with a field as a copy.  Translation and equality write into the images as they go, and an error half-way
leaves what was written: the operators carry the store through.  Integers are sets
here (their borders are `Domain`); what a literal denotes is `Describes`, and what
an image may be is `Ground`, neither of which uses the operators of the code.

### Numbers and the code

`BigInt` has an operator for each function of `bigint.c` with its loop as a function
of the turns made, and powers as products: `Add`, `Sub`, `Mul` with the split at `Threshold` and its scratch
space, `DivMod` and `Sqrt` bit by bit, with the numbers whose root the code cannot take
(`SqrtFaults`: `bigint_sqrt` shifts a number that has no words), `Cmp`, shifts,
`FromDigits`, `Write` into a buffer, and the conversion to a double that
`bigint_double` makes of the words.  `Calculator` keeps `int`, an image of each
variable, and `said`, which is "crash" when a root ended the program; its actions are `AssertInteger`, `Equate`, `Plus`, `Multiply` (with the
remainder of division) and `SquareRoot` of `std/integer.c`, each with its
branches on which arguments are known.

### Memory and the code

A function is the list of what it does with memory; `Clients` gives that list for
`laure_vpk_create`, `control_new`, `instance_deepcopy`, the search path of an
import, `int_translator`, and the unions of images.  `heap`
holds the blocks, live or not, with what each owns; a frame has the function's
variables, its line and its `cleanup_ctx_t`.  `Register`, `Transfer` and `Destroy`
are `cleanup_ctx_register`, `MEMGUARD_TRANSFER_OWNERSHIP` and
`cleanup_ctx_destroy`; `AcquireFails` is an allocation that finds no memory, and
`Grow` a `laure_realloc` that moves the block.  `MCStorage` runs every function,
`MCMemory` the ranges of `int_translator` alone.

### Consulting, lines, ordering and the code

`Consulting` keeps `stack`, the calls of `consult_single` whose file is being
read; `included`, the session's table of paths; `address`, the current address
imports are relative to; `doc`, the documentation read so far; `names` and
`clauses`, what was declared.  Its actions are the branches of
`laure_consult_recursive` and `consult_single` (`AlreadyConsulted`, `Overrun`,
`OpenPackage`, `OpenSource`, `EndOfFile`, `GivenUp`), one action per kind of
statement of `laure_apply` (`ApplyHeader`, `ApplyClause`, `ApplyParam`, `ApplyGoal`,
`ApplyDoc`) and the command `use` (`ApplyUse`, `UseMod`, `ModConsulted`, `ModFailed`).
A path is a file with the number of hops by which it was spelled: the table compares spellings.

`Lines` is the reader of `consult_single`: `Skip`, `Comment` and `Text` are its
three branches for a line, `buff` the statement under way.  `Ordering` is
`order.c`: `Take` is one turn of `generate_linked_permutation`, `Initialization`
the share of a goal's variables that is known, `mock` the mock scope.

### Scopes, browser, backtrace and the code

`Scopes` has a `laure_scope_t` at each address as a sequence of cells, `heap` of
instances and the link counter.  `New`, `Declare`, `Pass`, `Assign`, `Rename`,
`Copy` and `Free` are what `query.c` does with scopes: insert where a name was not
found, insert an argument under the link it has in the caller, write through the
pointer found, rename, `laure_scope_create_copy`, free.  `Browser` is
`laure_scope_show_interactive`: an action per key and per byte of an escape
sequence.  The size of the terminal is asked for once, at the start (`scope.c:541`), so
`height` is chosen there from `Heights`; a description is copied as far as `CopyRoom`
(999 in the code), and a line of it is the pair of places where it begins and ends.  `Trace` is `backtrace.c` with the calls that move its cursor: `Add`,
`Enter`, `Succeeds`, `Fails`, `Query`.

### Predicates and the code

`Arrays` has an action for each branch of `std/array.c`, chosen by what is known;
the branches that call the engine back (`AppendSplit`, `IdxOfKnown`, `IdxOfUnknown`, `EachTaken`)
take the answer of the goals that follow as a parameter.  An element is an address
in `st.el`, so that arrays share elements as they do in the code.  `Collecting` is
`std/bag.c`: `chain` holds the pockets of the next qcontext, with the `size` and
`next` a new pocket leaves unset; `Mapping` is `std/map.c`: `cells` and `write`
are the list cells and the places they are linked from.

### Types of calls and the code

| Variable | Code |
|---|---|
| `headers` | the `predicate_header` objects by address; copies of a predicate's instance share them.  A declaration is a generic, an instance, one lent by `Generics[]` of the call that wrote it, or freed since |
| `types` | the types of the global scope, with the arrays `get_nested_instance` adds under names like `int[]` |
| `scope` | the query's scope: the instance of each variable |
| `goal`, `at`, `phase`, `asked` | the expression under evaluation, the declaration that comes next, where the call stands, the bounds |
| `generics`, `bound` | `Generics[]`; the arguments the body would start with |
| `made` | history: the clarification just made, with the header before and after |

| Actions and operators | Code |
|---|---|
| `Call`, `Resolve`, `AllResolved` | the head of `laure_eval_pred_call`, `pred_call_procvar`'s loop over the header; `Processed` is `generic_process`, `Resolved` `resolve_generic_T`, `Via` `resolve_via_signature` |
| `Bind` with `BindNothing`, `BindKnown`, `BindUnknown`, `BindValue`; `BindBreaks` | `pred_call_procvar`; `Applied` is `predicate_apply_generics` |
| `Enter`, `Return` | the arguments are done and lent instances freed (`query.c:2441`); the body returns |
| `Clarify` | `laure_dom_predicate_bound_types` |
| `Query`, `EndQuery` | a query begins with a scope and ends; headers and types stay |

One variation per call: another would resolve the same header again.  An instance
is its name, the kind of its innermost element and the depth of the array around
it; values are `Domain` and `Images`.  "undefined" ends a session in which the
code would read an instance that was freed or follow a null pointer.  Not in the
model: strings as a type, namespaces of types (`query.c:2294` reads `Generics[]`
before anything fills it and always errs), responses that are `auto` or UUIDs,
locked arguments, and literals where a signature is expected.

## 3. Runs

| Run | Checks | Shows |
|---|---|---|
| `answers` | `GivesBack`, `ImplementsSession` | for every pair of bodies without control and seven queries, the prompt and a receiver that may stop get the answers of `Reference`, in order, each once, and all if all are asked for; scope, the context's list and the recursion depth are given back (`GivesBack`) |
| `features` | `TypeOK`, `NoEmptyInstance`, `LinksDistinct`, `DepthBounds`, `NoAnswerInside`, `CutsCommit`, `BindingsReturn`, `Terminates` | every pair of 22 goals in a body, cuts under every choicepoint, direct and mutual recursion: no instance loses its last value, two variables never share a link, quantifiers and isolated sets are silent, a cut ends what it should, backtracking restores the bindings, the counter bounds the calls, every query ends |
| `narrowing` | `NothingLost`, `RefusedRightly`, `InOrder`, `AllGiven` | whatever is asked of integers, every solution is still within the images, and a refused program has none; a receiver gets the values of a domain in order, each once, and all when the walk ends by itself |
| `numbers` | `NumbersSound`, `WrittenAndRead`, `ScratchIsEnough`, `AnswersAreRight` | words carry, borrow, split and divide as integers; what is written is read back; the buffer of the product suffices; an answer holds of the integers, and only a root of more than one word may end the program instead |
| `images` | `ImagesSound`, `GeneratesEach`, `ImagesNarrow`, `OthersStay` | assertion and equality keep what both sides allow, refuse rightly and touch nothing else; generation gives each value once |
| `consulting` | `ConsultingSound`, `TreesLoad`, `LinesAreRead`, `OrderIsKept`, `Ends` | sources that form a tree load whole; statements are what stands outside comments; an ordered body has the goals of the body, and overtaking needs a greater share of known arguments; consulting ends, whatever imports what |
| `storage` | `ScopesSound`, `BrowserIsRight`, `WindowIsRight`, `MemorySafe`, `NothingElseLeaks`, `IsStore` | copies and frees of scopes implement stores of named values; the highlighted line is among those drawn and Enter shows its description whole; the window holds the end of the path; whichever allocation fails, what a context holds is alive and freed once, and what is in use at the end belongs to the result |
| `predicates` | `PredicatesSound`, `ArraySolutions`, `BagsAreCollected`, `PredicatesEnd` | no solution of `append`, `by_idx`, `length` and `each` is lost and only solutions are given; a bag is what reached it; `map` gives every choice of results once; calls end |
| `generics` | `GenericsSound`, `CallsAreTyped`, `TypesAreKept` | what a body starts with has the types its call resolved; a call that is refused for its types fits none; a type once found stays and the called header is not written to; `q ~ p{T=int}` names the types of `p{T=int}(..)` |

Three runs end in a counterexample, each a disagreement between the code and what
is said of it, quoted in `PROJECT.json` under "findings":

| Run | Property | What the counterexample is |
|---|---|---|
| `nested_cut` | `CutCommits` | a callee's cut replaces the caller's in the one register there is, and the caller's other variation runs |
| `leaks` | `NothingLeaks` | a range whose right bound finds no memory leaks the words of its left bound |
| `imports` | `SharedModulesLoad` | passing over a module already consulted counts as a failure: the second of two sources that import it is given up at its import |

### What the passing runs leave out

A property is checked where the code is meant to have it.  Where it has not, the
exception is written in the property or in the programs, and is one of these.

*Search.*  The tail call in `image_rec_default` moves `cctx->qctx` and does not put
it back, so that after `x?` with goals to follow the second value skips them
(`query.c:206`): the queries of `answers` end with `x?`.  `;` on the last answer is
answered by true (`docs/tutor.md:61` says false), and `Answers` allows it.  A choice
takes a stop for a failure (`query.c:2780`), and `gen_resp_process` makes one a
YIELD_OK (`query.c:2249`): receivers that stop have no choice in a body.  Calls that
fail on an argument keep their recursion depth (`query.c:2391`); `GivesBack`
is checked of programs without them.  `x = y` of two variables writes each value to one of them
(`query.c:851`), and the model does the same.  `CutsCommit` speaks of programs with
cuts in the first variation and none after a choicepoint of the same body.

*Domain.*  `x < 3` is walked outwards from 0 past its right border (`domain.c:249`),
`x >= 3; x > 3` keeps 3, a walk of `x < 5; x > 5` never ends: `Walkable` asks for
a domain that is not empty and has a left border if it has a right one.
`x < 3; 5 >= x` is refused, since 5 itself is checked against the domain of `x`:
`RefusedRightly` leaves out a `>=` with an open right-hand side.  `x = l..r` replaces
the domain (`instance.c:242`), so that values come back that a constraint had
excluded: nothing is lost by it, and no property says that a domain only shrinks.

*Numbers.*  `Arithmetic!NoPromise` lists it: a product known to be zero with one
factor unknown, a zero factor of a division, a remainder that is computed rather
than checked, roots of negative numbers, and rounding up the root of a square of more
than one word: it adds one whatever remains, to a number that is not initialised
(`bigint.c:1023`), so that it may also end the program, or write where it should not,
which is outside the model.  `bigint_sqrt` ends the program for every number
of more than one word that is an even number of bits long: the first candidate is greater
than the number, and the root so far, which has no words yet, is shifted
(`bigint.c:1018`), so that `bigint_raw_shift_right` reads behind nothing (`bigint.c:730`) and fails
`BIGINT_ASSERT(i, <, n_dst)` (`bigint.c:739`).  No test takes a root that long (`tests/math.l:84-92`).
`AnswersAreRight` allows an end in these two cases (`MayCrash`) and in no
other, and `RootsAreRight` proves that the first fails always, and every other root is
right. `ShiftRight` is used of words only; `ShiftFaults` says where it is not. A sum of
which nothing is known is answered by true. A number longer than the buffer it is written to
loses its high digits (`WrittenAndRead` says how long).

*Images.*  `Narrowing`, `Comparable` and `Unshared` name the pairs of which nothing
is promised, among them: a set of characters asserted of another set, a set of
names of an atom that is already single or lacks one, names within an array that
has elements, a text with an array whose characters are unknown, two arrays whose elements
are of different types, unions with unions.  One image shared by several `_` is
narrowed once for all.  `structure_eq` that fails leaves the field that differs
narrowed.  `InstantiatedIsOne` leaves out structures and links.  Of a structure whose fields
are all told, `AssertionsNarrow` says that it counts as instantiated only if one value is
left; not of one that was told `_` or a name that is a link, since a link counts as
instantiated whatever its field is (`instance.c:1808`).  Nothing stops an array from being made an
element of itself, through a link to its own field; no store and literal of the
run does, since the code then never ends.  Characters of state 0, of which nothing is
known, generate nothing.

*Memory.*  `laure_vpk_create` registers a block that a later `laure_realloc` may move
(`query.c:622`): with variables it is left out of `MemorySafe` and `NothingElseLeaks` by name.  `int_translator` forgets the texts of a range with its domain
(`instance.c:245`).  The safe unions return without destroying their context, and
nobody calls them.

*Consulting.*  `TreesLoad` is about statements that are no error by themselves and
modules that are imported once.  A file given up half-way leaves the current
address and the documentation buffer as they are, and the next statements use
them (`DocsAreOwn`, `AddressIsOwn`).  `Lines` speaks of files that are `Tidy`: a
comment inside a statement is indented and outside is not, and a block comment
is not closed on the line that opens it; otherwise text is lost or doubled.
A goal that is not a call counts as fully known, so that a cut overtakes the
calls before it: `OvertakesKnown` says this and no more.

*Storage.*  Once the window of the backtrace slides while a call runs that puts
the cursor back, the cursor means other entries (`drifted`): what is printed then is
promised nothing, so that of this hazard the properties show only when it begins.
The values of `Scopes` are opaque: that a copy is independent says nothing of elements
which the image of an array shares with its copy (`instance.c:2434`); those are in `Images`,
where `OthersStay` excepts them.  `Browser` draws at least five lines of the list, and ten
others around it: a terminal that has fewer scrolls some off, and "drawn" does not mean "visible" there.

*Predicates.*  `Arrays` names each exception where it defines it: `append` of a first part
follows the list past its length, compares nothing when `to` is empty, gives parts
lengths and elements that their types exclude; `by_idx` narrows elements for one
alternative and keeps it for the next, and never moves on past an index that is not
allowed; `each` refuses an empty array, and replaces the type of elements; `length`
forces a length.  A bag reads the unset size of a new pocket (`BrokenAfterFull`
leaves that out), and is not ended by a size when the generator is a predicate with clauses
(`SizedBagEnds`).  `map` links shared cells anew when an element after the first
has several answers (`ResultsStay`).

*Types of calls.*  A type found in an atom or a structure is named after the
variable, and the array made of it is found again by that name in a later query,
where the variable may be of another kind: `CallsAreTyped` leaves such types out
(`OfVariable`).  Passing a predicate writes the types of the call to its header, even over
declared ones (`query.c:1517`), and frees what it wrote once the arguments are bound
(`query.c:2441`); the next call that reads it ends the session in the model.
`RefusedRightly` speaks of calls without clarification that pass no predicate.
A response whose generic no argument shares, with arguments that have types of
their own, fails the `assert(T)` of `query.c:2317`; `OnlyResponsesAbort` says that no other
does.  A name without a letter in a clarification looks at the first argument
only (`query.c:1945`), so that the two kinds of clarification differ there, and a
second name given to a variable frees the response the first one set
(`instance.c:3541`): `ClarifiedAlike` is about names with letters and knows of the
loss.  `TypesAreKept` leaves out a predicate passed to itself.

### Bounds

| Run | Bounds, and why they are enough |
|---|---|
| `answers` | two names (enough for a binding to reach the wrong one), three values (one choicepoint neither first nor last), two variations (the second sees what the first left), lists of at most three goals; `MaxDepth` 8, which these programs do not reach |
| `features` | the same with `MaxDepth` 4, where recursion is meant to hit the limit |
| `narrowing` | `MaxAsked` 3: a border takes two requests to be replaced and a third to be used; `MaxGiven` 6, when a receiver has enough of an endless walk; `Window` -2..6 has values on both sides of 0 and of 3, 4 and 5 |
| `numbers` | words of 4 bits (32), `Threshold` 4 words (20), so that products of up to seven words (`MaxWords`) are split once and recombined; `Base` 3, `Buffer` 9, `Mantissa` 8 put each limit within the reach of four requests; 225 and 324 are squares of two and of three words, eight bits and nine: one whose root ends the program and one whose root does not |
| `images` | three variables, thirteen stores with every kind of image, a locked variable and structures of one field among them, eighteen literals, `MaxAsked` 3 |
| `consulting` | sources at home, in the library and of a package, and a package without an initial file, 450 ways to fill them; `MaxIncluded` 6 so that a file that imports itself fills the table; four lines of a source; bodies of three and four goals |
| `storage` | two scopes of two cells (`MaxCells` 3, one is never used, `scope.c:866`), four pointers, four links; browser heights 2 and 4 with six variables and with none, internal names among them, and descriptions longer than the `Width` of a line and than `CopyRoom`; window `Limit` 4, `Capacity` 6 (100 in the code), paths of five goals; `FirstCapacity` 2 (8 in the code), so that contexts grow with three registrations, and every function whole |
| `predicates` | arrays of up to three elements and three values, indices -1 to 3; two bags and three values; `map` of three elements with up to three answers |
| `generics` | `int` and `char`, nine predicates whose headers have arrays, signatures and signatures within signatures, three scopes; `MaxGoals` 2 and `MaxQueries` 2: what a goal writes to a header is read by the next, and by another query |

Symmetry is used in `storage` only, over pointers and names: they are compared for
equality alone.  Runs that say `CHECK_DEADLOCK FALSE` end by an answer, a
refusal or the bound on requests.

### Fairness

`FairSpec` of `Search` asks for weak fairness of the next-state relation, no more:
the interpreter is one thread that runs until the query is over, and waiting for
the user or the receiver is a step they take.  A user who never replies is not
modelled, since the code would simply wait.  `MCConsulting` asks the same of the
steps of consulting, not of the one who asks for another file, and `MCPredicates` of its
next-state relation: the goals that follow do answer, if only by a failure.
`Terminates`, `Ends` and `PredicatesEnd` are the properties that need it.

### Refinements

`MCSearch` instantiates `Answers` with the program for the query, `out` for the
answers given and an empty stack for the end.  Every step of the engine is a
stutter, an answer or the end; after `;` or "more" the next answer has to be the
next in the enumeration of `Reference`, and the session may not end by itself
before all were given.  A `.` (which claims there are no more) and answers shown
after it may skip others: the code goes on with another variation and answers
true in the end, where docs/tutor.md says false.

`Calculator` instantiates `Arithmetic` with the integers its words stand for
(`Worth`); `AnswersAreRight` says that every answer is one of `Says`, and is proved.  `Scopes`
instantiates `Store` with the value each scope has under each name (`Valued`),
and `IsStore` is checked and proved: links, the order of cells, instances and the
counter are hidden, and a copy is a store of its own.

## 4. Proofs

`SearchProofs` proves for every set of names and values, every program, every
mode and every recursion limit:

| Theorem | Statement |
|---|---|
| `LiveAddresses` | `Spec => []TypeInv`: every address kept in a frame, a scope or a qcontext is that of an object; links in use were handed out |
| `TypeCorrect` | `Spec => []TypeOK` |
| `DepthBounded` | `Spec => []DepthBounds` |
| `QuietHolds` | `Spec => []Quiet`, from which silence follows (no run checks it by itself) |
| `SilentInside` | `Spec => NoAnswerInside` |

Assumptions: `DepthAssumption` (the limit is a natural number),
`ValuesAssumption` (values are numbers), `ArityAssumption`,
`ProgramsAssumption` (programs are well formed).  TLC evaluates them in every
run.

The argument.  `TypeOK` alone is not inductive: after a return the engine goes
on at addresses it read before the call, so these have to be live then.
`TypeInv` says that they are (`LiveFrame`, `LiveScope`, `LiveContext`), that a
call which waits for a body or a continuation has a qcontext that is not NULL
and an `i` within its variations, and that links are at most `nlink`; objects
are only added, so what is live stays live (`StaysLive`).  One lemma per action
(`EvalAssertType` ... `SetReturnsType`) gives `StepType`.

The other two invariants depend only on which activations come and go.
`Moves` lists ten ways a step may change the stack together with `depth` and
`doProcess`, and `StepMoves` proves that every step is one of them, from
lemmas per group of actions.  `DepthInv` adds to `DepthBounds` that calls were
entered at depth 0 or above, without which a return that decrements could leave
the bound; `StepDepth` proves it for each move.  `QuietInv` says that the flag
is on if and only if nothing below mutes, *for every prefix of the stack*: the
`dp` saved by a muting activation is the value for the prefix below it, which
is what its end restores; `StepQuiet` proves it for each move, and at the top of the
stack it is `Quiet`.

`DomainProofs` proves for every set of variables, every program, every
`Window` and both bounds:

| Theorem | Statement |
|---|---|
| `DomainTyped` | `Spec => []TypeOK` |
| `NothingIsLost` | `Spec => []NothingLost` |
| `RefusalsAreRight` | `Spec => []RefusedRightly` |
| `WalksInPlace` | `Spec => []WalkInv`, the invariant of generation |
| `ValuesInOrder` | `Spec => []InOrder` |
| `EveryValueGiven` | `Spec => []AllGiven` |

Assumptions: `StartAssumption` (every variable starts with an image),
`RequestAssumption`, `WindowAssumption` (a set of integers) and
`BoundAssumption`.

The argument.  `NothingLost` is inductive once a request is known to keep what
satisfies it.  That is `Narrows`, and `Refuses` says that a refusal is right for
the images at hand; one lemma per action proves both, from `GtKeeps`, `LtKeeps`
and `MeetKeeps`: a border that replaces another keeps the values both allow.  A
refusal that is right for the images is right for the program, since by
`NothingLost` the images hold every solution, and it changes no image
(`RefusalKeeps`).  For generation, `Rank` gives
each integer its place in the walk; `WalkInv` says that the j-th value given has
place j and the next value the next place.  `RankOrders` shows that places are
distinct and ordered as the values come, `RankEnds` and `RankJumps` that the
walk begins at place 1 and goes from place to place within the domain.  `InOrder`
follows for the values given, and `AllGiven` because no value of the domain is
past the bound.

`StorageProofs` proves of `Scopes`, for every set of scopes, pointers, names and values, and
both limits:

| Theorem | Statement |
|---|---|
| `StoreInv` | `Spec => []Inv`, the inductive invariant |
| `InstancesAreOwn` | `Spec => []OwnInstances` |
| `LinksFind` | `Spec => []LinksFindTheirName` |
| `ScopesAreSound` | `Spec => []ScopesSound`, both and the types |
| `ScopesAreStores` | `Spec => IsStore`: the refinement of `Store` |

Assumption: `ScopesAssumption` (the limits are positive, the mark for a scope or
an instance that is not there is none of the values it stands beside).

The argument.  `Inv` joins to `TypeOK` that every cell of every scope has an
allocated instance of its own (`OwnInstances`, which the free of a scope or a
write through a cell needs not to reach another scope) and that within a scope no
name and no link occurs twice (`NamesOnce`, `LinksOnce`, without which the first cell found
is not the variable meant).  `ValuedShape` says what a scope holds in terms of cells;
one lemma per action shows that `Inv` is kept, and one that the
action is the step of `Store` of its name, or a stutter.

`BindingProofs` proves for every program, every mode and every recursion limit:

| Theorem | Statement |
|---|---|
| `InstancesKeepValues` | `Spec => []NoEmptyInstance` |
| `LinksHaveOneOwner` | `Spec => []QueryLinks`, the part of `LinksDistinct` that is about the query's variables |
| `BindingsAreRestored` | `Spec => BindingsReturn` |

Assumptions: those of `SearchProofs`; `ValuesAssumption` has a value at least, and
the instance of a declared type (`hint` in `Program`) may be something.  The argument.
`FullInv` says that *every* scope object, reachable or not, has values for each of
its cells: a step may go back to any of them.  Each evaluator checks an
intersection before it stores it, and what it stores it stores in a copy.  For links,
`LinkInv` says that there is a function from links to names, the owner, that every scope
of the query's level and the table of tracked names agree on: the function is the
same before and after a step unless a link is handed out, when it is updated at
the new link.  Which scopes have the query's level does not change, since a
body's scope has another index.

`BindingsReturn` says that a variation starts in the caller's scope with the bindings
the call began with, and that no step binds anything in the copy that the variations
of a waiting call are made from, nor in the scope that a waiting call, generator,
choice, implication or isolated set was met in.  Its inductive invariant `ScopeInv`
gives each of these activations a floor, the address of a call's copy (`at`) and of
the others' own scope: all that waits or runs above it on the stack is in scopes made
later, and so is the current scope.  A step writes in place in the current scope or
in the global one only (`Apart`), so nothing at or below a floor changes
(`CallersStay`, `PlacedStays`), and one lemma per kind of step shows that the
stack it leaves is one where all waits above its floors (`RebuiltHolds`).  The global
scope is excepted: a name declared there is written there from anywhere.  A set that
is not isolated runs in the scope it was met in, and the stronger fact that a list
always finds the scope it left (`ScopeRestored`) does not hold of all programs: a
set that is not the last goal of a body runs what follows in the caller's scope
(`query.c:2858`).

`StorageProofs` proves of `Trace`, for every window of at least three entries and every path:

| Theorem | Statement |
|---|---|
| `WindowTypes`, `WindowFollows` | `TraceTypeOK`; the invariant `TraceInv` |
| `PrintedIsPath`, `WindowIsKept` | `TraceSpec => []TraceIsPath`; with the types, `TraceSpec => []WindowIsRight` |

`TraceIsPath` is about the cursor at hand, but a call that fails puts back the cursor
noted on entry: `Follows` says of each noted cursor what the path was then, and
`Nested` that a later note has a longer path and, as long as nothing slid, a cursor not
before it.  `TraceAssumption` (a limit of three or more, a chain with room past it)
is evaluated by `storage`.

And of `Browser`, for all lists of variables, keys, heights of the terminal, room for the
search and the copy, and widths of a line:

| Theorem | Statement |
|---|---|
| `SelectionIsRight` | `BrowserSpec => []BrowserIsRight`: the types, `SelectionIsShown`, `DescriptionIsWhole` |

Every key but Enter and the bytes of an arrow redraws, or leaves what is drawn as it
is, so what is to be shown is that a redraw frames the selection (`Framed`, by
`RedrawFrames`): it is one of the list, if there is any, and
`scroll <= selected < scroll + height`.  Nothing is asked of the window that was there
before, so that the 20 lines the Down key assumes do no harm.  For a description,
`LineStart` is a recursive function, which `LineStartUnfolds` unfolds with the induction
of `Upward`; a line begins past the end of the one before
(`NextLineIs`), so that as many turns as there are characters reach the end (`LinesEnd`);
what lies between two lines is spaces, so that every other character is on a line
(`LinesHold`).  `BrowserAssumption`: heights, the Down key's lines and the width are
positive, what is listed are names with descriptions.

`CollectingProofs`, for all values, sizes, generators and answers:

| Theorem | Statement |
|---|---|
| `BagsHold` | `[]Inv` |
| `BagsCollect` | `[]BagsAreCollected` |
| `BagsBreak`, `BagTypes` | `[]BrokenAfterFull`, `[]BagTypeOK` |

`CollectingAssumption`: every bag of a query has a container of its own.  The
invariant relates a pocket to what reached it, not to what was given: a pocket
holds all of it, or its first part and is full (`Collects`); what the current value has
seen on its way through the bags is what the pockets hold now (`Sees`), so that what is
given of two bags is of one moment.

`ConsultingProofs`, for every disk, search path and table size:

| Theorem | Statement |
|---|---|
| `ConsultingHolds`, `ConsultingTyped` | `[]Base`, `[]TypeOK` |
| `AddressesAreOwn`, `DocumentedByOwn`, `ConsultingIsSound` | `[]AddressIsOwn`, `[]DocsAreOwn`; with the types, `[]ConsultingSound` |
| `SoundTreesLoad` | `Spec => []TreesLoad`: sound sources that form a tree are consulted whole |

`ConsultingAssumption` says what a disk is.  `TreesLoad` says something only when nothing
is being read; `Loads` says it at every point.  What has been read of the
files (`PastOf`) is told by the table of paths and the stack; every file in the
table, except those that were started, was asked for by an import that has been
handed on (`Came`), every import handed on is of a file in the table or about to
be (`Coming`), and the names and clauses are those of the statements read
(`Declared`, `Claused`).  In a tree a file has one import, so that none is in the
table twice (`Apart`) and no import finds its file consulted already, which is
what gives sources up (run `imports`).

`ReadingProofs`, for sources of every length, and for bodies and predicates of every size:

| Theorem | Statement |
|---|---|
| `LinesAreReadRight` | `LinesSpec => []LinesAreRead`: statements are the text, documentation the comments |
| `OrderingIsRight` | `OrderSpec => []OrderIsKept`: the goals of the body, each moved ahead for a reason |

Assumptions: `LinesAssumption` (what an empty line may end as) and
`OrderingAssumption` (arguments have names, bodies are made of goals); no bound on either.

The argument.  *Lines.*  What the reader remembers has to be what a reading of the
whole file says of the line it stands at: in a readable file, `block` and
`in_comment` are on exactly inside a comment outside or inside a statement, and
something is in `buff` exactly when a statement is under way, that is when a text
line came after the last stop.  The text handed over with the text in `buff` is
the text read so far; each branch of the loop adds a line to the one side it
belongs to, and a statement handed over has its only stop at the end because the
lines that wait have none.  *Ordering.*  `SameGoals` is inductive: unlinking the
i-th goal takes one from what is left and the same one is added to what is
ordered.  `OvertakesKnown` is not: a goal could be found behind one it overtook
only if what is left kept the order of the body, so the invariant has an
increasing function from the places of `rest` to those of `body`, and if the mock
scope is the one the goals taken make (`Replayed`).  That the goal chosen is above
all those before it that compare is an induction over the loop of
`get_most_initted`, with the product of fractions in place of the quotient.

`NumbersProofs`, for every width of a word, every threshold, base and mantissa, and
every set of requests:

| Theorem | Statement |
|---|---|
| `ScratchFits`, `TmpIsEnough` | `Scratch[m] <= TmpBound(m)` for every `m`; `Spec => []ScratchIsEnough` |
| `ComparingIsRight` | `Cmp` orders numbers as the integers they stand for |
| `AddingIsRight` | `Add` and `Sub` are the sum and the difference, in normal form |
| `MultiplyingIsRight` | `Mul` is the product, whether or not the factors are split |
| `DividingIsRight` | `DivMod` is quotient and remainder, less than the divisor, in each of its three ways |
| `RootsAreRight` | `SqrtFaults` holds of exactly the numbers of more than one word and an even number of bits; of the others `Sqrt` is the root rounded down, and of one word rounded up |
| `NumbersAreSound` | `Spec => []NumbersSound` |
| `WritingIsRead` | `Spec => []WrittenAndRead` |
| `AnswersAreThePromised` | `Spec => AnswersAreRight`: every answer of `Calculator` is one of `Arithmetic`; only a root of more than one word, an even number of bits long or rounded up, may end the program instead |

Assumptions: `WidthAssumption` (an even number of bits), `ThresholdAssumption`,
`BaseAssumption` (a base is less than half a word, which `bigint_div_mod_half_word` asserts of a divisor),
`MantissaAssumption` (a mantissa is longer than a word, as 52 and 32 are),
`VarsAssumption`, `BoundsAssumption`, and `RequestsAssumption`: a request names variables of
the program, the number of a literal is that of its digits, and a remainder goes to a
variable that is no argument.  Powers of two are a recursive function (`Power`), since
of `^` the provers know nothing; what is needed of them is `PowerUnfolds`.

The argument.  A recursive function is shown to exist as its unfolding says
(`UpwardExists`), and induction comes from the least element of a set (`LeastOf`,
`Induction`, `Downward`): no library theorem that takes an operator is needed.

*Scratch space.*  `ScratchFits` is by induction on the longest factor; the bound of
the code is not inductive by itself, since a half may be a word longer than half, so
the invariant is sharper (`Level`).

*Sums and comparison.*  `Above(w, i)` is the integer of the words from `i` up.  One
step of a walk keeps "what was written and the carry are what was read" (`AddSteps`,
`SubSteps`, `MulSteps`, `MulAddSteps`), from `AddCarryIsRight`, `SubCarryIsRight` and
`MulHiLo`, and summed downward from the top word it is the statement about the whole.
Numbers that begin with a word other than zero are greater when they are longer
(`LongerIsGreater`), which is what makes comparison right and the borrow at the end of
a difference zero.

*Products.*  A product row by row is a sum of walks (`MulAddIsRight`).  Of
Karatsuba's recursion: the parts of a factor are it (`HalvesAreWhole`), what is moved
up is multiplied (`ShiftedIsRight`), and three right products make a right one
(`KaratsubaStep`); since normal words of one value are the same words
(`SameValueSameWords`), the function that multiplies row by row satisfies the
recursion's equation (`KaratsubaUnfolds`), and by induction on the longer factor any that
does is it (`KaratsubaMultiplies`).  This needs the parts to be shorter, even with the
word that a sum may have more, which is why a threshold of four or more is assumed.

*Quotients and roots.*  By half a word, the remainders of the high words are those of the
integer they stand for (`DivModHalfIsRight`).  Bit by bit, after each turn the quotient
so far times the divisor, with what remains, is the dividend, the quotient has no bit below
the turn's, so that a bit is set where none is, and what remains is less than the divisor
where it now stands (`DivLongIsRight`); the root is the same with its square (`SoFar`).  The root
so far has no words after a turn exactly if it had none and the number is less than the turn's
candidate, a power of four; the first candidate is greater than a number of an even number of bits,
and none is greater than one of an odd number (`RootsFault`).

*Digits.*  After each division of `bigint_write_base` what is left, times a power of the base,
with the digits so far is the number; in as many divisions as the number has bits nothing
is left.  Reading the digits is the same from the high one on, so what is written is read
(`ReadAsWritten`), and the words reserved for them are enough (`DigitsBoundIsEnough`).  A
double's mantissa is a shift by a power of two (`DoubleIsExact`).

*Answers.*  `CalcInv` says that every variable holds a sound number (normal words), and that
is inductive because each of the operators above returns one.  Given it, each branch of
a predicate is a case: the integer it computes is the one `Arithmetic!Says` speaks of
(`AssertAnswers`, `EquateAnswers`, `PlusAnswers`, `MultiplyAnswers`, `SqrtAnswers`,
together `NextAnswers`; a root may crash by `RootsFault`), and an answer of comparison is right by `ComparingIsRight`.

What stays with TLC:

- liveness (`Terminates`, `Ends`, `PredicatesEnd`, `SizedBagEnds`), which the provers do not
  reach, and `ENABLED`;
- `ImplementsSession`, whose abstract side is the recursive `Reference`, and the other
  modules with RECURSIVE operators (`Images`, `Mapping`, `Generics`);
- what the folds of the community modules compute, whose definitions are not of the
  project: `Arrays`;
- what does not hold of all programs: of `Search`, `GivesBack` (`ScopeRestored`,
  `ContextOwnsList`, `DepthReleased`) holds in the fragment of its run only, `CutsCommit` names its programs, and `ScopeLinks`
  (in `LinksDistinct`) is about bodies, where two parameters that are given one
  variable share its link until the scope is left;
- `Memguard`, whose properties depend on each function of `Clients`: the run has all of them.

## 5. Not modelled

- *parser*, *string scanner*: text to expressions, without state; a property would
  be about the characters of a text.  The programs of the models are what it makes.
- *response arguments, UUIDs, constraint-type variations, names and
  structures as goals*: parts of `query.c` that `Search` leaves out; *namespaces*
  and *literals for signatures*, which `Generics` leaves out.
- *observers of names* and the branch of a bag whose array is known; `map` with
  both arrays known.
- *the linked build of scopes* (`SCOPE_LINKED`): off in the build.
- *weighted search*: off unless enabled, and there is no statement of which
  branches it should take.  `vector_expand` (`weight.c:42`) is listed as a hazard.
- *reference counts, arenas, pools, debug mode* of `memguard.c`, and *gcd, primes,
  modular powers, random numbers* of `bigint.c`: nothing calls them.
- *builtins, prompt, printing, error texts, C interface*: tables, layout and
  wrappers.  `union.c` and `utility.c` print, sleep and name types.
- *session flags and the command line*.

## 6. Plan

1. `Search`, `Domain`, `Scopes` with their theorems: done.  The other components
   above: modelled and checked.
   The theorems of section 4: done.
2. To prove next: `Arrays`, `Mapping` and `Generics`, with functions in place of their
   folds and recursive operators.
3. To model next: response arguments and names as goals in `Search`, observers with
   bags in the chain of qcontexts, several queries in one session.

## 7. Running

    tlc -config answers.cfg    MCSearch.tla        (features, nested_cut)
    tlc -config narrowing.cfg  MCDomain.tla
    tlc -config leaks.cfg      MCMemory.tla
    tlc -config numbers.cfg    MCNumbers.tla
    tlc -config images.cfg     MCImages.tla
    tlc -config consulting.cfg MCConsulting.tla    (imports)
    tlc -config storage.cfg    MCStorage.tla
    tlc -config predicates.cfg MCPredicates.tla
    tlc -config generics.cfg   MCGenerics.tla
    tlapm SearchProofs.tla
    tlapm DomainProofs.tla
    tlapm StorageProofs.tla      (and the other modules named ...Proofs)

In parentheses, the other configurations of a module.  The runs take from seconds
to about two minutes; the proofs of a module from one minute to about fifteen.
