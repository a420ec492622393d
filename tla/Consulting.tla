------------------------------ MODULE Consulting ------------------------------
(***************************************************************************)
(* Consulting of knowledge bases: laure_consult_recursive and              *)
(* consult_single of src/apply.c, the statements laure_apply applies, and  *)
(* the `!use` command of src/query.c with laure_import_use_mod of          *)
(* src/import.c, which consults further files from inside a statement.     *)
(*                                                                         *)
(* A file is known to the session by the path it was opened with, a string *)
(* compared with str_eq.  get_work_dir_path leaves a slash at its end and  *)
(* laure_import_get_use_path puts another one, so that a file imported     *)
(* from one that was imported is named with one slash more: `hops' counts  *)
(* them, and two paths are the same string iff file and hops are.          *)
(***************************************************************************)
EXTENDS Naturals, Sequences, FiniteSets, SequencesExt

CONSTANTS
  Files,        \* what the disk holds: sources and packages (directories)
  Packages,     \* the packages among them
  InitFile,     \* [Packages -> Files \cup {NoFile}]: the source named as its package
  DirOf,        \* [Files -> Dirs]: where a file lies
  Listing,      \* [Dirs -> [Modules -> Files \cup {NoFile}]]
  Lib,          \* the directory of the standard library
  Disks,        \* the contents considered: [Files \ Packages -> Seq of statements]
  Started,      \* the files one may ask to consult
  MaxIncluded,  \* included_fp_max
  NoFile, NoDoc, NoPath

Dirs    == DOMAIN Listing
Modules == DOMAIN Listing[Lib]

\* Statements of a source, as far as consulting tells them apart.
Header(p)   == [kind |-> "header", name |-> p]            \* : ?p(...)
Clause(p)   == [kind |-> "clause", name |-> p]            \* ?p(...) { ... }
Template(p) == [kind |-> "template", name |-> p]          \* a header with a body of its own
Param(t, p) == [kind |-> "param", type |-> t, name |-> p]
Goal(r)     == [kind |-> "goal", result |-> r]            \* a goal; r is true, false or error
Doc         == [kind |-> "doc"]                           \* a documenting comment
Use(mods)   == [kind |-> "use", mods |-> mods]            \* !use m, std:n
Local(n)    == [std |-> FALSE, name |-> n]
Std(n)      == [std |-> TRUE, name |-> n]

Statements ==
  [kind : {"header", "clause", "template"}, name : STRING]
  \cup [kind : {"param"}, type : STRING, name : STRING]
  \cup [kind : {"goal"}, result : {"true", "false", "error"}] \cup [kind : {"doc"}]
  \cup [kind : {"use"}, mods : Seq([std : BOOLEAN, name : Modules])]

ASSUME ConsultingAssumption ==
  /\ Packages \subseteq Files /\ Started \subseteq Files
  /\ NoFile \notin Files
  /\ InitFile \in [Packages -> (Files \ Packages) \cup {NoFile}]
  /\ Lib \in Dirs /\ DirOf \in [Files -> Dirs]
  /\ Listing \in [Dirs -> [Modules -> Files \cup {NoFile}]]
  /\ Disks \subseteq [Files \ Packages -> Seq(Statements)]
  /\ MaxIncluded \in Nat \ {0}
  /\ NoPath \notin [file : Files, hops : Nat]

VARIABLES
  disk,       \* [Files \ Packages -> Seq(statement)]
  included,   \* session->_included_filepaths
  next,       \* the path the loop of laure_consult_recursive consults, or NoPath
  stack,      \* calls of consult_single whose file is being read, outermost first
  returned,   \* what the consult that just ended left in *failed: ok or failed; none
  address,    \* LAURE_CURRENT_ADDRESS
  names,      \* [name -> the documentation it has]: the global scope
  clauses,    \* bodies added, in order: [name, by]
  doc,        \* LAURE_DOC_BUFF: NoDoc, or the files its text comes from
  abandoned,  \* history: paths whose consulting stopped at a statement
  status      \* "running", or "overrun" when _included_filepaths is full

vars == <<disk, included, next, stack, returned, address, names, clauses, doc,
          abandoned, status>>
session == <<names, clauses, doc>>
-------------------------------------------------------------------------------
PathTo(f, hops) == [file |-> f, hops |-> hops]
Known(p)  == \E i \in 1..Len(included) : included[i] = p

Top       == Last(stack)
Replace(frame) == [stack EXCEPT ![Len(stack)] = frame]
NoMods    == <<>>
Frame(p)  == [path |-> p, rest |-> disk[p.file], old |-> NoPath, mods |-> NoMods]

Reading   == status = "running" /\ next = NoPath /\ returned = "none" /\ stack # <<>>
Importing == Reading /\ Top.mods # NoMods
Ready     == Reading /\ Top.mods = NoMods
-------------------------------------------------------------------------------
Init ==
  /\ disk \in Disks
  /\ included = <<>> /\ stack = <<>> /\ next = NoPath /\ returned = "none"
  /\ address = NoPath
  /\ names = <<>> /\ clauses = <<>> /\ doc = NoDoc
  /\ abandoned = {} /\ status = "running"

\* laure.c resolves what it was given with realpath and consults it.
Ask(f) ==
  /\ status = "running" /\ stack = <<>> /\ next = NoPath /\ returned = "none"
  /\ next' = PathTo(f, 0)
  /\ UNCHANGED <<disk, included, stack, returned, address, names, clauses, doc,
                 abandoned, status>>

(* The loop of consult_single over _included_filepaths, up to the first     *)
(* free slot, then the three kinds of path.                                 *)
AlreadyConsulted ==
  /\ status = "running" /\ next # NoPath /\ Known(next)
  /\ next' = NoPath /\ returned' = "failed"
  /\ UNCHANGED <<disk, included, stack, address, session, abandoned, status>>

Overrun ==
  /\ status = "running" /\ next # NoPath /\ ~Known(next) /\ Len(included) = MaxIncluded
  /\ status' = "overrun"
  /\ UNCHANGED <<disk, included, next, stack, returned, address, session, abandoned>>

Registered    == Append(included, next)

Opened ==
  /\ status = "running" /\ next # NoPath /\ ~Known(next) /\ Len(included) < MaxIncluded
  /\ included' = Registered

OpenPackage ==
  /\ Opened /\ next.file \in Packages
  /\ IF InitFile[next.file] = NoFile
       THEN next' = NoPath /\ returned' = "failed"
       ELSE next' = PathTo(InitFile[next.file], next.hops) /\ UNCHANGED returned
  /\ UNCHANGED <<disk, stack, address, session, abandoned, status>>

OpenSource ==
  /\ Opened /\ next.file \notin Packages
  /\ stack' = Append(stack, Frame(next)) /\ next' = NoPath
  /\ UNCHANGED <<disk, returned, address, session, abandoned, status>>
-------------------------------------------------------------------------------
(* A statement that succeeds gives the address back and the next one is     *)
(* read; the first that does not ends the file: *failed = 0, the address    *)
(* and the documentation stay, and what follows is never read.              *)
After(frame, rest) == [frame EXCEPT !.rest = rest, !.mods = NoMods, !.old = NoPath]
NextAgain(frame)   == After(frame, frame.rest)                         \* mutant: not advanced
NextButOne(frame)  == After(frame, SubSeq(frame.rest, 3, Len(frame.rest)))  \* mutant: one skipped
Next_(frame)       == After(frame, Tail(frame.rest))
RestoredNot        == address                                          \* mutant: left as it is
Restored           == Top.old
DocAfter           == NoDoc

Applied ==
  /\ stack' = Replace(Next_(Top))
  /\ UNCHANGED <<disk, included, next, returned, address, abandoned, status>>

ErrorReturn == "ok"

GivenUp(at) ==
  /\ stack' = Front(stack) /\ returned' = ErrorReturn
  /\ address' = at /\ abandoned' = abandoned \cup {Top.path}
  /\ UNCHANGED <<disk, included, next, status, session>>

Statement(kind) == Ready /\ Top.rest # <<>> /\ Head(Top.rest).kind = kind

Named == Head(Top.rest).name
Declare(n, text) == names' = [m \in DOMAIN names \cup {n} |-> IF m = n THEN text ELSE names[m]]

\* laure_consult_predicate, and reset_comment after a statement that succeeded
ApplyHeader ==
  /\ Statement("header") \/ Statement("template")
  /\ IF Named \in DOMAIN names
       THEN GivenUp(Top.path)
       ELSE /\ Applied /\ Declare(Named, doc) /\ doc' = DocAfter
            /\ clauses' = IF Head(Top.rest).kind = "template"
                            THEN Append(clauses, [name |-> Named, by |-> Top.path]) ELSE clauses

ApplyClause ==
  /\ Statement("clause")
  /\ IF Named \notin DOMAIN names
       THEN GivenUp(Top.path)
       ELSE /\ Applied /\ doc' = NoDoc /\ UNCHANGED names
            /\ clauses' = Append(clauses, [name |-> Named, by |-> Top.path])

(* laure_resolve_parameter asks until the answer suits the type; it returns *)
(* before reset_comment.                                                    *)
ApplyParam ==
  /\ Statement("param")
  /\ IF Head(Top.rest).type \notin DOMAIN names \/ Named \in DOMAIN names
       THEN GivenUp(Top.path)
       ELSE Applied /\ Declare(Named, NoDoc) /\ UNCHANGED <<clauses, doc>>

\* A goal that is false is no error: only q_error ends the file.
ApplyGoal ==
  /\ Statement("goal")
  /\ IF Head(Top.rest).result = "error"
       THEN GivenUp(Top.path)
       ELSE Applied /\ doc' = NoDoc /\ UNCHANGED <<names, clauses>>

ApplyDoc ==
  /\ Statement("doc")
  /\ Applied /\ UNCHANGED <<names, clauses>>
  /\ doc' = (IF doc = NoDoc THEN {} ELSE doc) \cup {Top.path.file}
-------------------------------------------------------------------------------
(* laure_eval_command, command_use: each module named is looked for from    *)
(* the address, whatever it is by then, and consulted at once.              *)
ApplyUse ==
  /\ Statement("use")
  /\ IF Head(Top.rest).mods = NoMods
       THEN Applied /\ doc' = NoDoc /\ UNCHANGED <<names, clauses>>
       ELSE /\ stack' = Replace([Top EXCEPT !.mods = Head(Top.rest).mods, !.old = address])
            /\ address' = Top.path
            /\ UNCHANGED <<disk, included, next, returned, session, abandoned, status>>

Found(mod)   == Listing[IF mod.std THEN Lib ELSE DirOf[address.file]][mod.name]
Spelled(mod) == PathTo(Found(mod), IF mod.std THEN 0 ELSE address.hops + 1)

UseMod ==
  /\ Importing
  /\ LET mod == Head(Top.mods) IN
       IF Found(mod) = NoFile
         THEN GivenUp(address)
         ELSE next' = Spelled(mod)
              /\ UNCHANGED <<disk, included, stack, returned, address, session, abandoned, status>>

UsesLeft == Tail(Top.mods)

ModConsulted ==
  /\ status = "running" /\ next = NoPath /\ returned = "ok" /\ stack # <<>>
  /\ returned' = "none"
  /\ IF UsesLeft # NoMods
       THEN stack' = Replace([Top EXCEPT !.mods = UsesLeft]) /\ UNCHANGED <<address, doc>>
       ELSE stack' = Replace(Next_(Top)) /\ address' = Restored /\ doc' = NoDoc
  /\ UNCHANGED <<disk, included, next, names, clauses, abandoned, status>>

ModFailed ==
  /\ status = "running" /\ next = NoPath /\ returned = "failed" /\ stack # <<>>
  /\ GivenUp(address)

EndOfFile ==
  /\ Ready /\ Top.rest = <<>>
  /\ stack' = Front(stack) /\ returned' = "ok"
  /\ UNCHANGED <<disk, included, next, address, session, abandoned, status>>

Report ==
  /\ status = "running" /\ next = NoPath /\ returned # "none" /\ stack = <<>>
  /\ returned' = "none"
  /\ UNCHANGED <<disk, included, next, stack, address, session, abandoned, status>>

Step ==
  \/ AlreadyConsulted \/ Overrun \/ OpenPackage \/ OpenSource
  \/ ApplyHeader \/ ApplyClause \/ ApplyParam \/ ApplyGoal \/ ApplyDoc
  \/ ApplyUse \/ UseMod \/ ModConsulted \/ ModFailed \/ EndOfFile \/ Report

Next == Step \/ \E f \in Started : Ask(f)

Spec     == Init /\ [][Next]_vars
\* The interpreter runs a consult to its end; whether one is asked is up to the user.
FairSpec == Spec /\ WF_vars(Step)
-------------------------------------------------------------------------------
At(f)      == {<<f, i>> : i \in 1..Len(disk[f])}
Places     == UNION {At(f) : f \in Files \ Packages}
Stmt(pl)   == disk[pl[1]][pl[2]]
Declares(s, n) == s.kind \in {"header", "template", "param"} /\ s.name = n
Asks(pl)   == IF Stmt(pl).kind = "use"
                THEN {<<pl, k>> : k \in 1..Len(Stmt(pl).mods)} ELSE {}
TargetOf(ask) == LET mod == Stmt(ask[1]).mods[ask[2]]
                 IN  Listing[IF mod.std THEN Lib ELSE DirOf[ask[1][1]]][mod.name]

Hollow(f) == f \in Packages /\ InitFile[f] = NoFile

\* Statements that are no error by themselves: every name is declared once, above
\* its clauses in its own file, no goal ends in an error, every module is there.
Sound ==
  /\ \A p, q \in Places : p # q /\ Stmt(p).kind \in {"header", "template", "param"}
        => ~Declares(Stmt(q), Stmt(p).name)
  /\ \A p \in Places :
       /\ Stmt(p).kind = "goal" => Stmt(p).result # "error"
       /\ Stmt(p).kind = "clause" =>
            \E j \in 1..p[2] - 1 : Declares(disk[p[1]][j], Stmt(p).name)
       /\ Stmt(p).kind = "param" => \E j \in 1..p[2] - 1 : Declares(disk[p[1]][j], Stmt(p).type)
       /\ \A ask \in Asks(p) : TargetOf(ask) # NoFile /\ ~Hollow(TargetOf(ask))

AllAsks     == UNION {Asks(p) : p \in Places}
\* To open g is to read its file, or that named as the package it is.
Opens(g, f) == g = f \/ (g \in Packages /\ InitFile[g] = f)
To(f)       == {a \in AllAsks : Opens(TargetOf(a), f)}
Roots       == {f \in Files : \E g \in Started : Opens(g, f)}

\* No file is imported by two statements, nor imported and asked for.
Tree == \A f \in Files : (\A a, b \in To(f) : a = b) /\ (f \in Roots => To(f) = {})

Idle == stack = <<>> /\ next = NoPath

TypeOK ==
  /\ disk \in Disks /\ status \in {"running", "overrun"}
  /\ returned \in {"none", "ok", "failed"}
  /\ Len(included) <= MaxIncluded
  /\ \A i, j \in 1..Len(included) : included[i] = included[j] => i = j
  /\ \A i \in 1..Len(stack) : \E j \in 1..Len(included) : stack[i].path = included[j]

\* A module named by a statement is looked for beside the file the statement is
\* in, because LAURE_CURRENT_ADDRESS is that file - unless an earlier module of
\* the same statement was given up half-way, which leaves the address on it
\* (consult_single returns without restoring it).
AddressIsOwn == Importing => address = Top.path \/ address \in abandoned

\* Sources that are sound and import each other as a tree are consulted whole:
\* none is given up, and every clause of every source opened is there in the end.
TreesLoad ==
  Sound /\ Tree =>
    /\ abandoned = {}
    /\ Idle => \A i \in 1..Len(included) :
         LET f == included[i].file IN
           f \notin Packages => \A j \in 1..Len(disk[f]) :
             disk[f][j].kind = "clause" =>
               \E k \in 1..Len(clauses) :
                 clauses[k] = [name |-> disk[f][j].name, by |-> included[i]]

\* A header takes its documentation from comments of its own file, where a
\* comment is always followed by what it documents; what a file given up had
\* left in the buffer goes to the next header, wherever that is.
Documented ==
  \A p \in Places : Stmt(p).kind = "doc" =>
    p[2] < Len(disk[p[1]]) /\ disk[p[1]][p[2] + 1].kind \in {"header", "template", "doc"}
DocsAreOwn ==
  Documented => \A n \in DOMAIN names : names[n] # NoDoc =>
    \A f \in names[n] : \/ \E i \in 1..Len(disk[f]) : Declares(disk[f][i], n)
                        \/ \E q \in abandoned : q.file = f

\* Paths are known once; a file's goals see that file's address, and its
\* predicates that file's documentation.
ConsultingSound == TypeOK /\ AddressIsOwn /\ DocsAreOwn

\* Consulting comes to an end whatever the files import, a file that imports
\* itself included: by then the table of paths is full.
Ends == []<>(Idle \/ status = "overrun")

\* A module that several sources import is consulted once and passed over after
\* that ("was already consulted, skipping", apply.c).
SharedModulesLoad == Sound => abandoned = {}
===============================================================================
