----------------------------- MODULE MCConsulting -----------------------------
(* Consulting, the reading of lines and body ordering on small instances; one *)
(* of the three is explored in each behaviour.                                *)
EXTENDS Consulting, Lines, Ordering, TLC

VARIABLE part

MCFiles    == {"main", "a", "b", "pkg", "hollow", "pkg_init"}
MCPackages == {"pkg", "hollow"}
MCInitFile == [p \in MCPackages |-> IF p = "pkg" THEN "pkg_init" ELSE NoFile]
MCDirOf    == [f \in MCFiles |-> IF f \in {"pkg_init", "b"} THEN "lib" ELSE "home"]
MCListing  ==
  [d \in {"home", "lib"} |-> [n \in {"main", "a", "b", "pkg", "hollow", "none"} |->
     IF d = "home" /\ n \in {"main", "a", "pkg", "hollow"} THEN n
     ELSE IF d = "lib" /\ n \in {"b"} THEN n
     ELSE NoFile]]

MainBodies == {
  << Doc, Header("p"), Clause("p"), Use(<<Local("a"), Std("b")>>), Clause("p") >>,
  << Use(<<Std("b"), Local("a")>>), Doc, Header("p"), Clause("p"), Goal("true") >>,
  << Use(<<Local("pkg"), Local("a")>>), Template("p"), Param("p", "x") >>,
  << Use(<<Local("hollow")>>), Header("p") >>,
  << Use(<<Local("main")>>), Header("p") >>,
  << Use(<<Local("none")>>), Header("p") >> }
ABodies == {
  << Header("q"), Clause("q") >>,
  << Use(<<Std("b")>>), Doc, Template("q"), Clause("q") >>,
  << Doc, Doc, Header("p"), Goal("false") >>,
  << Use(<<Local("main")>>), Header("q"), Param("r", "x") >>,
  << Header("q"), Goal("error"), Clause("q") >> }
BBodies == {
  << Header("r"), Goal("false"), Clause("r") >>,
  << Clause("none") >>,
  << Use(<<Local("b")>>), Doc, Header("r") >>,
  << Use(NoMods), Doc, Header("r") >>,
  << Doc >> }
InitBodies == {
  << Header("s"), Clause("s"), Use(<<Local("b")>>) >>,
  << Header("s"), Clause("s") >>,
  << Goal("error"), Header("s") >> }
MCDisks == [main : MainBodies, a : ABodies, b : BBodies, pkg_init : InitBodies]

Goal1 == { [t |-> "pred_call", args |-> a] : a \in {<<"$a1">>, <<"$a2", "v">>, <<"v", "lit">>, <<>>} }
Goal2 == { [t |-> "assert", l |-> "v", r |-> "$R"], [t |-> "unify", s |-> "$a1"],
           [t |-> "rename", l |-> "v", r |-> "w"], [t |-> "rename", l |-> "$a2", r |-> "v"],
           [t |-> "cut"] }
MCOrderBodies ==
  [1..3 -> Goal1 \cup Goal2] \cup { << g, h, k, [t |-> "cut"] >> : g, h, k \in Goal1 }
MCMaxLines  == 4
MCBlankEnds == {FALSE}

MCArity   == 2
MCArgName == <<"$a1", "$a2">>

all == <<part, vars, lines, order>>

IdleDisk == CHOOSE d \in MCDisks : TRUE
FilesIdle ==
  /\ disk = IdleDisk /\ included = <<>> /\ stack = <<>> /\ next = NoPath /\ returned = "none"
  /\ address = NoPath /\ names = <<>> /\ clauses = <<>> /\ doc = NoDoc
  /\ abandoned = {} /\ status = "running"
LinesIdle ==
  /\ file = <<>> /\ at = 1 /\ buff = <<>> /\ in_comment = FALSE /\ block = FALSE
  /\ given = <<>> /\ docs = <<>>
IdleBody == [i \in 1..3 |-> [t |-> "cut"]]
OrderIdle ==
  /\ body = IdleBody /\ has_resp = FALSE /\ mask = <<TRUE, TRUE>> /\ resp = FALSE
  /\ mock = MockOf(mask, resp) /\ rest = <<>> /\ ordered = body

MCInit ==
  \/ part = "files" /\ Init /\ LinesIdle /\ OrderIdle
  \/ part = "lines" /\ FilesIdle /\ LinesInit /\ OrderIdle
  \/ part = "order" /\ FilesIdle /\ LinesIdle /\ OrderInit

FilesStep == part = "files" /\ Step /\ UNCHANGED <<part, lines, order>>
MCNext ==
  \/ FilesStep
  \/ part = "files" /\ (\E f \in Started : Ask(f)) /\ UNCHANGED <<part, lines, order>>
  \/ part = "lines" /\ ReadLine /\ UNCHANGED <<part, vars, order>>
  \/ part = "order" /\ Take /\ UNCHANGED <<part, vars, lines>>

MCSpec == MCInit /\ [][MCNext]_all /\ WF_all(FilesStep)
===============================================================================
