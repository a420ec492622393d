-------------------------------- MODULE Lines ---------------------------------
(***************************************************************************)
(* Reading the lines of a source file: the loop of consult_single          *)
(* (src/apply.c) that joins lines into statements and passes over          *)
(* comments, and the two ways laure_apply keeps a documenting comment.     *)
(*                                                                         *)
(* A line is what these tests see of it: whether spaces precede its text,  *)
(* what it begins with and what its last character is.  A statement is the *)
(* sequence of the numbers of the lines whose text it is made of.          *)
(***************************************************************************)
EXTENDS Naturals, Sequences

CONSTANTS
  MaxLines,
  BlankEnds    \* what an empty line may end as: lastc of "" reads the byte before the buffer

ASSUME LinesAssumption == MaxLines \in Nat /\ BlankEnds \subseteq BOOLEAN

LineStarts == {"text", "--", "*--"}     \* "-- " and "*-- " with something after them
LineEnds   == {"plain", "stop", "--*"}  \* a stop is one of `.', `}' and `%'
Line   == [indented : BOOLEAN, start : LineStarts, end : LineEnds] \cup {[blank |-> TRUE]}
IsBlank(l) == "blank" \in DOMAIN l

VARIABLES
  file,        \* the lines of the source
  at,          \* the line read next
  buff,        \* the lines joined so far
  in_comment,  \* the local of consult_single: inside a comment inside a statement
  block,       \* LAURE_IN_COMMENT: inside a comment outside statements
  given,       \* the statements handed to laure_apply, in order
  docs         \* the lines that reached LAURE_DOC_BUFF, in order

lines == <<file, at, buff, in_comment, block, given, docs>>

LinesInit ==
  /\ file \in UNION {[1..n -> Line] : n \in 0..MaxLines}
  /\ at = 1 /\ buff = <<>> /\ in_comment = FALSE /\ block = FALSE
  /\ given = <<>> /\ docs = <<>>
-------------------------------------------------------------------------------
l == file[at]

\* Only the last line may lack its newline, so that endswith can see `--*' there alone.
ClosesHere == at = Len(file) /\ l.end = "--*"

NoteInStatement  == buff # <<>> /\ ~IsBlank(l) /\ l.indented /\ l.start = "--"
OpensInStatement == buff # <<>> /\ ~IsBlank(l) /\ l.indented /\ l.start = "*--"

\* The three tests that pass over a line, in their order: the new in_comment, or none.
SkipsTo ==
  IF NoteInStatement THEN {in_comment}
  ELSE IF OpensInStatement THEN {TRUE}
  ELSE IF in_comment THEN {~IsBlank(l) /\ ClosesHere}
  ELSE {}

Skip ==
  /\ SkipsTo # {} /\ in_comment' \in SkipsTo
  /\ UNCHANGED <<buff, block, given, docs>>

\* The line joined to what came before begins as a comment.
Comments == buff = <<>> /\ (block \/ (~IsBlank(l) /\ ~l.indented /\ l.start \in {"--", "*--"}))

\* laure_apply of a comment: a line of a block, or the line that begins one.
BlockAfterOne == ~block /\ l.start = "*--"         \* mutant: over after one line
BlockAfter == IF block THEN IsBlank(l) \/ l.end # "--*" ELSE l.start = "*--"

Comment ==
  /\ SkipsTo = {} /\ Comments
  /\ docs' = Append(docs, at) /\ block' = BlockAfter
  /\ UNCHANGED <<buff, in_comment, given>>

Joined  == IF IsBlank(l) THEN buff ELSE Append(buff, at)
Stopped == IF IsBlank(l) THEN BlankEnds ELSE {l.end = "stop"}

Text ==
  /\ SkipsTo = {} /\ ~Comments
  /\ \E stop \in Stopped :
       IF stop THEN given' = Append(given, Joined) /\ buff' = <<>>
               ELSE buff' = Joined /\ UNCHANGED given
  /\ UNCHANGED <<in_comment, block, docs>>

ReadLine ==
  /\ at <= Len(file) /\ at' = at + 1 /\ UNCHANGED file
  /\ Skip \/ Comment \/ Text

LinesSpec == LinesInit /\ [][ReadLine]_lines
-------------------------------------------------------------------------------
(* The reading the comments of the language are meant to have: a comment    *)
(* goes from its mark to the end of its line, or from *-- to the line that  *)
(* ends in --*, wherever it stands.                                         *)
Blocks(inside, x) ==
  IF IsBlank(x) THEN inside ELSE (inside \/ x.start = "*--") /\ x.end # "--*"
InBlock[i \in 0..Len(file)] == IF i = 0 THEN FALSE ELSE Blocks(InBlock[i - 1], file[i])

IsText(i) == ~IsBlank(file[i]) /\ ~InBlock[i - 1] /\ file[i].start = "text"

(* What the reader is not made for.  A comment on its own that is indented, *)
(* and one in a statement that is not, are taken for text; a block in a     *)
(* statement is over after one line more, unless that bears a mark too; a   *)
(* block is not closed by the line that opens it.                           *)
Within(i) == \E j \in 1..i-1 : IsText(j) /\ \A k \in j..i-1 : IsText(k) => file[k].end # "stop"
Tidy ==
  \A i \in 1..Len(file) :
    /\ ~IsBlank(file[i]) /\ ~InBlock[i - 1] /\ file[i].start # "text" =>
         /\ file[i].indented <=> Within(i)
         /\ file[i].start = "*--" => file[i].end # "--*"
    /\ Within(i) /\ InBlock[i] => /\ i < Len(file) /\ ~IsBlank(file[i + 1])
                                  /\ file[i + 1].end = "--*" /\ file[i + 1].start = "text"

Readable == Tidy /\ TRUE \notin BlankEnds

\* The first i lines that are text, and those that are comments outside statements.
IsDoc(i) == ~IsText(i) /\ ~Within(i) /\ (InBlock[i - 1] \/ ~IsBlank(file[i]))
WithText(s, i) == IF IsText(i) THEN Append(s, i) ELSE s
WithDoc(s, i)  == IF IsDoc(i) THEN Append(s, i) ELSE s
TextTo[i \in 0..Len(file)] == IF i = 0 THEN <<>> ELSE WithText(TextTo[i - 1], i)
DocsTo[i \in 0..Len(file)] == IF i = 0 THEN <<>> ELSE WithDoc(DocsTo[i - 1], i)
\* The lines of the first k statements, one after the other.
InTurn(statements) ==
  LET upto[k \in 0..Len(statements)] == IF k = 0 THEN <<>> ELSE upto[k - 1] \o statements[k] IN upto

\* What was handed over and what waits is the text read so far, in its order,
\* and every statement ends at its only stop: no comment is part of one and no
\* text is lost, in the files whose comments stand where the reader wants them.
TextIsRead ==
  Readable =>
    /\ InTurn(given)[Len(given)] \o buff = TextTo[at - 1]
    /\ \A n \in 1..Len(given) : \A k \in 1..Len(given[n]) :
         (file[given[n][k]].end = "stop") <=> (k = Len(given[n]))

\* Only comments, and all those outside statements, become documentation.
DocsAreComments == Readable => docs = DocsTo[at - 1]

LinesTypeOK ==
  /\ file \in Seq(Line) /\ Len(file) <= MaxLines /\ at \in 1..Len(file) + 1
  /\ buff \in Seq(1..MaxLines) /\ given \in Seq(Seq(1..MaxLines)) /\ docs \in Seq(1..MaxLines)
  /\ in_comment \in BOOLEAN /\ block \in BOOLEAN

\* Statements are the text outside comments, documentation the text inside.
LinesAreRead == LinesTypeOK /\ TextIsRead /\ DocsAreComments
===============================================================================
