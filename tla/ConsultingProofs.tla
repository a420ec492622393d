---------------------------- MODULE ConsultingProofs ---------------------------
(***************************************************************************)
(* Theorems about Consulting, for every disk, every search path and every  *)
(* size of the table of paths: the address and the documentation a         *)
(* statement sees are those of its file, and sound sources that import     *)
(* each other as a tree are consulted whole.                               *)
(***************************************************************************)
EXTENDS Consulting, Integers, SequenceTheorems, TLAPS

-----------------------------------------------------------------------------
(* Frames *)

Source    == Files \ Packages
Path      == [file : Files, hops : Nat]
Mods      == [std : BOOLEAN, name : Modules]
FrameType == [path : Path, rest : Seq(Statements), old : Path \cup {NoPath}, mods : Seq(Mods)]

\* What is left of a frame is the end of its file, and the modules left to
\* import are the last of those the statement at hand names.
Follows(d, fr) ==
  /\ fr.path.file \in Source
  /\ Len(fr.rest) <= Len(d[fr.path.file])
  /\ \A i \in 1..Len(fr.rest) :
       fr.rest[i] = d[fr.path.file][Len(d[fr.path.file]) - Len(fr.rest) + i]
  /\ fr.mods # <<>> =>
       /\ fr.rest # <<>> /\ fr.rest[1].kind = "use" /\ Len(fr.mods) <= Len(fr.rest[1].mods)
       /\ \A k \in 1..Len(fr.mods) :
            fr.mods[k] = fr.rest[1].mods[Len(fr.rest[1].mods) - Len(fr.mods) + k]

\* The last frame of a stack.
LEMMA StackTop ==
  ASSUME NEW S, NEW st \in Seq(S), st # <<>>
  PROVE  /\ Len(st) \in Nat \ {0} /\ Last(st) = st[Len(st)] /\ Last(st) \in S
         /\ Front(st) \in Seq(S) /\ Len(Front(st)) = Len(st) - 1
         /\ \A i \in 1..Len(st) - 1 : Front(st)[i] = st[i]
<1>1. Len(st) \in Nat \ {0} /\ Last(st) = st[Len(st)]
  BY EmptySeq DEF Last
<1>2. PICK n \in Nat : n = Len(st) - 1
  BY <1>1
<1>3. \A i \in 1..n : st[i] \in S
  BY <1>1, <1>2, ElementOfSeq
<1>4. /\ SubSeq(st, 1, n) \in Seq(S) /\ Len(SubSeq(st, 1, n)) = n
      /\ \A i \in 1..n : SubSeq(st, 1, n)[i] = st[i]
  BY <1>2, <1>3, SubSeqProperties
<1>. QED  BY <1>1, <1>2, <1>4 DEF Front

\* A frame takes the place of the last.
LEMMA StackSet ==
  ASSUME NEW S, NEW st \in Seq(S), st # <<>>, NEW fr \in S
  PROVE  /\ [st EXCEPT ![Len(st)] = fr] \in Seq(S) /\ Len([st EXCEPT ![Len(st)] = fr]) = Len(st)
         /\ [st EXCEPT ![Len(st)] = fr][Len(st)] = fr
         /\ \A i \in 1..Len(st) - 1 : [st EXCEPT ![Len(st)] = fr][i] = st[i]
<1>1. Len(st) \in 1..Len(st)
  BY EmptySeq
<1>. QED  BY <1>1

LEMMA FrameFields ==
  ASSUME NEW fr \in FrameType
  PROVE  /\ fr.path \in Path /\ fr.path.file \in Files /\ fr.path.hops \in Nat
         /\ fr.rest \in Seq(Statements) /\ Len(fr.rest) \in Nat
         /\ fr.old \in Path \cup {NoPath} /\ fr.mods \in Seq(Mods) /\ Len(fr.mods) \in Nat
BY DEF FrameType, Path

LEMMA StatementKinds ==
  ASSUME NEW s \in Statements
  PROVE  /\ s.kind \in {"header", "clause", "template", "param", "goal", "doc", "use"}
         /\ s.kind = "use" => s.mods \in Seq(Mods)
         /\ s.kind \in {"header", "clause", "template", "param"} => s.name \in STRING
         /\ s.kind = "param" => s.type \in STRING
BY DEF Statements, Mods

LEMMA Constants ==
  /\ Packages \subseteq Files /\ Started \subseteq Files /\ NoFile \notin Files
  /\ InitFile \in [Packages -> Source \cup {NoFile}]
  /\ Lib \in Dirs /\ DirOf \in [Files -> Dirs]
  /\ Listing \in [Dirs -> [Modules -> Files \cup {NoFile}]]
  /\ MaxIncluded \in Nat /\ NoPath \notin Path
  /\ \A f \in Files, h \in Nat : PathTo(f, h) \in Path /\ PathTo(f, h) # NoPath
  /\ \A p \in Path : p.file \in Files /\ p.hops \in Nat /\ PathTo(p.file, p.hops) = p
BY ConsultingAssumption DEF Source, Path, PathTo

LEMMA DiskTyped ==
  ASSUME disk \in Disks
  PROVE  \A f \in Source : /\ disk[f] \in Seq(Statements) /\ Len(disk[f]) \in Nat
                           /\ \A j \in 1..Len(disk[f]) : disk[f][j] \in Statements
<1>1. \A f \in Source : disk[f] \in Seq(Statements)
  BY ConsultingAssumption DEF Source
<1>. QED  BY <1>1, ElementOfSeq

-----------------------------------------------------------------------------
(* Types *)

\* The files being read are known, and all but the last are importing.
StackOK(d, inc, st) ==
  /\ st \in Seq(FrameType)
  /\ \A i \in 1..Len(st) :
       /\ Follows(d, st[i]) /\ \E j \in 1..Len(inc) : st[i].path = inc[j]
       /\ i < Len(st) => st[i].mods # <<>>

IncludedOK(inc) ==
  /\ inc \in Seq(Path) /\ Len(inc) <= MaxIncluded
  /\ \A i, j \in 1..Len(inc) : inc[i] = inc[j] => i = j

\* A path is consulted, or one that was is reported on, for the last file.
Busy == next # NoPath \/ returned # "none"

Types ==
  /\ disk \in Disks /\ status \in {"running", "overrun"} /\ returned \in {"none", "ok", "failed"}
  /\ IncludedOK(included) /\ StackOK(disk, included, stack)
  /\ next \in Path \cup {NoPath} /\ address \in Path \cup {NoPath}
  /\ Busy => /\ stack # <<>> => Top.mods # <<>>
             /\ next = NoPath \/ returned = "none"
  /\ abandoned \subseteq Path

\* The address is that of the file whose modules are imported, or was left by
\* a file that was given up; so is the one each statement gives back.
AddressOK(st, ad, gone) ==
  /\ \A i \in 2..Len(st) : st[i].mods # <<>> => st[i].old \in {st[i - 1].path} \cup gone
  /\ st # <<>> => IF Last(st).mods # <<>> THEN ad \in {Last(st).path} \cup gone
                  ELSE Len(st) > 1 => ad \in {st[Len(st) - 1].path} \cup gone
Addresses == AddressOK(stack, address, abandoned)

\* The top of the stack, as a step finds it.
LEMMA TopTyped ==
  ASSUME Types, stack # <<>>
  PROVE  /\ Len(stack) \in Nat \ {0} /\ Top = stack[Len(stack)] /\ Top \in FrameType
         /\ Follows(disk, Top) /\ \E j \in 1..Len(included) : Top.path = included[j]
         /\ Front(stack) \in Seq(FrameType) /\ Len(Front(stack)) = Len(stack) - 1
         /\ \A i \in 1..Len(stack) - 1 : Front(stack)[i] = stack[i] /\ stack[i].mods # <<>>
         /\ \A fr \in FrameType :
              /\ Replace(fr) \in Seq(FrameType) /\ Len(Replace(fr)) = Len(stack)
              /\ Replace(fr) # <<>> /\ Replace(fr)[Len(stack)] = fr
              /\ \A i \in 1..Len(stack) - 1 : Replace(fr)[i] = stack[i]
<1>1. stack \in Seq(FrameType)
  BY DEF Types, StackOK
<1>2. /\ Len(stack) \in Nat \ {0} /\ Top = stack[Len(stack)] /\ Top \in FrameType
      /\ Front(stack) \in Seq(FrameType) /\ Len(Front(stack)) = Len(stack) - 1
      /\ \A i \in 1..Len(stack) - 1 : Front(stack)[i] = stack[i]
  BY <1>1, StackTop DEF Top
<1>3. /\ Follows(disk, stack[Len(stack)]) /\ \E j \in 1..Len(included) : stack[Len(stack)].path = included[j]
      /\ \A i \in 1..Len(stack) - 1 : stack[i].mods # <<>>
  BY <1>2 DEF Types, StackOK
<1>4. ASSUME NEW fr \in FrameType
      PROVE  /\ Replace(fr) \in Seq(FrameType) /\ Len(Replace(fr)) = Len(stack)
             /\ Replace(fr)[Len(stack)] = fr
             /\ \A i \in 1..Len(stack) - 1 : Replace(fr)[i] = stack[i]
  BY <1>1, <1>4, StackSet DEF Replace
<1>5. ASSUME NEW fr \in FrameType  PROVE Replace(fr) # <<>>
  BY <1>2, <1>4, <1>5, EmptySeq
<1>. QED  BY <1>2, <1>3, <1>4, <1>5

\* A frame goes on with the next statement, or with the next module.
LEMMA FrameAdvances ==
  ASSUME disk \in Disks, NEW fr \in FrameType, Follows(disk, fr), fr.rest # <<>>
  PROVE  /\ Next_(fr) \in FrameType /\ Follows(disk, Next_(fr)) /\ Next_(fr).path = fr.path
         /\ Next_(fr).mods = <<>> /\ Next_(fr).rest = Tail(fr.rest)
         /\ Len(Tail(fr.rest)) = Len(fr.rest) - 1
<1>1. /\ Tail(fr.rest) \in Seq(Statements) /\ Len(Tail(fr.rest)) = Len(fr.rest) - 1
      /\ \A i \in 1..Len(Tail(fr.rest)) : Tail(fr.rest)[i] = fr.rest[i + 1]
      /\ Len(fr.rest) \in Nat \ {0}
  BY FrameFields, HeadTailProperties, EmptySeq
<1>2. /\ Next_(fr) \in FrameType /\ Next_(fr).path = fr.path /\ Next_(fr).mods = <<>>
      /\ Next_(fr).rest = Tail(fr.rest)
  <2>1. fr = [path |-> fr.path, rest |-> fr.rest, old |-> fr.old, mods |-> fr.mods]
    BY DEF FrameType
  <2>2. Next_(fr) = [path |-> fr.path, rest |-> Tail(fr.rest), old |-> NoPath, mods |-> <<>>]
    <3>1. Next_(fr) = [[[fr EXCEPT !.rest = Tail(fr.rest)] EXCEPT !.mods = <<>>] EXCEPT !.old = NoPath]
      BY DEF Next_, After, NoMods
    <3>. QED  BY <2>1, <3>1
  <2>3. <<>> \in Seq(Mods)
    OBVIOUS
  <2>. QED  BY <1>1, <2>2, <2>3, FrameFields DEF FrameType
<1>3. fr.path.file \in Source /\ Len(disk[fr.path.file]) \in Nat
  BY DiskTyped DEF Follows
<1>4. \A i \in 1..Len(Tail(fr.rest)) :
         Tail(fr.rest)[i] = disk[fr.path.file][Len(disk[fr.path.file]) - Len(Tail(fr.rest)) + i]
  <2>. SUFFICES ASSUME NEW i \in 1..Len(Tail(fr.rest))
                PROVE  Tail(fr.rest)[i]
                         = disk[fr.path.file][Len(disk[fr.path.file]) - Len(Tail(fr.rest)) + i]
    OBVIOUS
  <2>1. i + 1 \in 1..Len(fr.rest)
    BY <1>1
  <2>2. Tail(fr.rest)[i] = disk[fr.path.file][Len(disk[fr.path.file]) - Len(fr.rest) + (i + 1)]
    BY <1>1, <2>1 DEF Follows
  <2>3. Len(disk[fr.path.file]) - Len(fr.rest) + (i + 1)
          = Len(disk[fr.path.file]) - Len(Tail(fr.rest)) + i
    <3>1. PICK a \in Nat, b \in Nat, c \in Nat :
            a = Len(disk[fr.path.file]) /\ b = Len(fr.rest) /\ c = Len(Tail(fr.rest)) /\ c = b - 1
      BY <1>1, <1>3
    <3>2. i \in Int /\ c = b - 1
      BY <3>1
    <3>3. a - b + (i + 1) = a - c + i
      BY <3>2
    <3>. QED  BY <3>1, <3>3
  <2>. QED  BY <2>2, <2>3
<1>5. Len(Tail(fr.rest)) <= Len(disk[fr.path.file])
  BY <1>1, <1>3 DEF Follows
<1>. QED  BY <1>1, <1>2, <1>3, <1>4, <1>5 DEF Follows

\* A frame whose statement at hand imports these modules.
With(fr, ms, old) == [fr EXCEPT !.mods = ms, !.old = old]

LEMMA FrameImports ==
  ASSUME NEW fr \in FrameType, Follows(disk, fr), fr.rest # <<>>,
         NEW ms \in Seq(Mods), NEW old \in Path \cup {NoPath},
         fr.rest[1].kind = "use", Len(ms) <= Len(fr.rest[1].mods),
         \A k \in 1..Len(ms) : ms[k] = fr.rest[1].mods[Len(fr.rest[1].mods) - Len(ms) + k]
  PROVE  /\ With(fr, ms, old) \in FrameType /\ Follows(disk, With(fr, ms, old))
         /\ With(fr, ms, old).path = fr.path /\ With(fr, ms, old).rest = fr.rest
         /\ With(fr, ms, old).mods = ms /\ With(fr, ms, old).old = old
<1>1. /\ With(fr, ms, old) \in FrameType /\ With(fr, ms, old).path = fr.path
      /\ With(fr, ms, old).rest = fr.rest
      /\ With(fr, ms, old).mods = ms /\ With(fr, ms, old).old = old
  BY DEF FrameType, With
<1>2. Follows(disk, With(fr, ms, old))
  BY <1>1 DEF Follows
<1>. QED  BY <1>1, <1>2

\* The next of the modules that its statement names.
LEMMA NextModule ==
  ASSUME NEW fr \in FrameType, Follows(disk, fr), fr.mods # <<>>,
         NEW ms, ms = Tail(fr.mods), ms # <<>>
  PROVE  /\ With(fr, ms, fr.old) \in FrameType /\ Follows(disk, With(fr, ms, fr.old))
         /\ With(fr, ms, fr.old).path = fr.path /\ With(fr, ms, fr.old).rest = fr.rest
         /\ With(fr, ms, fr.old).mods = ms /\ With(fr, ms, fr.old).old = fr.old
         /\ ms \in Seq(Mods) /\ Len(ms) = Len(fr.mods) - 1
<1>1. /\ fr.rest # <<>> /\ fr.rest[1].kind = "use" /\ Len(fr.mods) <= Len(fr.rest[1].mods)
      /\ \A k \in 1..Len(fr.mods) :
           fr.mods[k] = fr.rest[1].mods[Len(fr.rest[1].mods) - Len(fr.mods) + k]
  BY DEF Follows
<1>2. fr.mods \in Seq(Mods) /\ fr.rest[1] \in Statements /\ fr.old \in Path \cup {NoPath}
  BY <1>1, FrameFields, EmptySeq, ElementOfSeq
<1>3. /\ ms \in Seq(Mods) /\ Len(ms) = Len(fr.mods) - 1
      /\ \A k \in 1..Len(ms) : ms[k] = fr.mods[k + 1]
  BY <1>2, HeadTailProperties
<1>4. fr.rest[1].mods \in Seq(Mods)
  BY <1>1, <1>2, StatementKinds
<1>5. PICK a \in Nat, b \in Nat, c \in Nat :
        /\ a = Len(fr.rest[1].mods) /\ b = Len(fr.mods) /\ c = Len(ms) /\ b <= a /\ c = b - 1
  <2>1. Len(fr.rest[1].mods) \in Nat /\ Len(fr.mods) \in Nat /\ Len(ms) \in Nat
    BY <1>2, <1>3, <1>4
  <2>. QED  BY <1>1, <1>3, <2>1
<1>6. b <= a /\ c = b - 1
  BY <1>5
<1>7. ASSUME NEW k \in 1..c  PROVE ms[k] = fr.rest[1].mods[a - c + k]
  <2>1. k + 1 \in 1..b /\ a - b + (k + 1) = a - c + k
    BY ONLY <1>6, <1>7, a \in Nat, b \in Nat, c \in Nat
  <2>2. fr.mods[k + 1] = fr.rest[1].mods[a - b + (k + 1)]
    BY <1>1, <1>5, <2>1
  <2>. QED  BY <1>3, <1>5, <2>1, <2>2
<1>8. c <= a
  BY ONLY <1>6, a \in Nat, b \in Nat, c \in Nat
<1>9. /\ Len(ms) <= Len(fr.rest[1].mods)
      /\ \A k \in 1..Len(ms) : ms[k] = fr.rest[1].mods[Len(fr.rest[1].mods) - Len(ms) + k]
  BY <1>5, <1>7, <1>8
<1>10. PICK old \in Path \cup {NoPath} : old = fr.old
  BY <1>2
<1>11. /\ With(fr, ms, old) \in FrameType /\ Follows(disk, With(fr, ms, old))
       /\ With(fr, ms, old).path = fr.path /\ With(fr, ms, old).rest = fr.rest
       /\ With(fr, ms, old).mods = ms /\ With(fr, ms, old).old = old
  BY <1>1, <1>3, <1>9, FrameImports
<1>. QED  BY <1>3, <1>10, <1>11

-----------------------------------------------------------------------------
(* What is done to the stack *)

\* The last frame is replaced by another of its file.
LEMMA Replaced ==
  ASSUME Types, stack # <<>>, NEW fr \in FrameType, Follows(disk, fr), fr.path = Top.path
  PROVE  /\ StackOK(disk, included, Replace(fr)) /\ Replace(fr) # <<>> /\ Last(Replace(fr)) = fr
         /\ \A ad, gone :
              /\ Addresses /\ abandoned \subseteq gone
              /\ fr.mods # <<>> /\ Len(stack) > 1 => fr.old \in {stack[Len(stack) - 1].path} \cup gone
              /\ IF fr.mods # <<>> THEN ad \in {fr.path} \cup gone
                 ELSE Len(stack) > 1 => ad \in {stack[Len(stack) - 1].path} \cup gone
              => AddressOK(Replace(fr), ad, gone)
<1>. DEFINE n == Len(stack)
            st == Replace(fr)
<1>1. /\ n \in Nat \ {0} /\ st \in Seq(FrameType) /\ Len(st) = n /\ st # <<>> /\ st[n] = fr
      /\ \A i \in 1..n - 1 : st[i] = stack[i] /\ stack[i].mods # <<>>
      /\ \E j \in 1..Len(included) : Top.path = included[j]
  BY TopTyped
<1>2. \A i \in 1..n : /\ Follows(disk, stack[i])
                      /\ \E j \in 1..Len(included) : stack[i].path = included[j]
  BY DEF Types, StackOK
<1>. HIDE DEF st
<1>3. Last(st) = fr
  BY <1>1 DEF Last
<1>4. ASSUME NEW i \in 1..n
      PROVE  /\ Follows(disk, st[i]) /\ \E j \in 1..Len(included) : st[i].path = included[j]
             /\ i < n => st[i].mods # <<>>
  <2>1. CASE i = n
    BY <1>1, <2>1
  <2>2. CASE i # n
    <3>1. i \in 1..n - 1
      BY <1>1, <1>4, <2>2
    <3>. QED  BY <1>1, <1>2, <3>1
  <2>. QED  BY <2>1, <2>2
<1>5. StackOK(disk, included, st)
  BY <1>1, <1>4 DEF StackOK
<1>6. ASSUME NEW ad, NEW gone, Addresses, abandoned \subseteq gone,
             fr.mods # <<>> /\ Len(stack) > 1 => fr.old \in {stack[Len(stack) - 1].path} \cup gone,
             IF fr.mods # <<>> THEN ad \in {fr.path} \cup gone
             ELSE Len(stack) > 1 => ad \in {stack[Len(stack) - 1].path} \cup gone
      PROVE  AddressOK(st, ad, gone)
  <2>1. ASSUME NEW i \in 2..n, st[i].mods # <<>>
        PROVE  st[i].old \in {st[i - 1].path} \cup gone
    <3>1. st[i - 1] = stack[i - 1]
      BY <1>1, <2>1
    <3>2. CASE i = n
      BY <1>1, <1>6, <2>1, <3>1, <3>2
    <3>3. CASE i # n
      <4>1. st[i] = stack[i] /\ stack[i].mods # <<>>
        BY <1>1, <2>1, <3>3
      <4>. QED  BY <1>6, <2>1, <3>1, <4>1 DEF Addresses, AddressOK
    <3>. QED  BY <3>2, <3>3
  <2>2. n > 1 => st[n - 1] = stack[n - 1]
    BY <1>1
  <2>. QED  BY <1>1, <1>3, <1>6, <2>1, <2>2 DEF AddressOK
<1>. QED  BY <1>1, <1>3, <1>5, <1>6 DEF st

\* The last frame is left, with the address at that of its file or where it was.
LEMMA Popped ==
  ASSUME Types, stack # <<>>
  PROVE  /\ StackOK(disk, included, Front(stack))
         /\ Front(stack) # <<>> => Last(Front(stack)).mods # <<>>
         /\ \A ad, gone :
              /\ Addresses /\ abandoned \subseteq gone
              /\ ad \in gone \/ (ad = address /\ (Top.mods = <<>> \/ Top.path \in gone))
              => AddressOK(Front(stack), ad, gone)
<1>. DEFINE n == Len(stack)
            st == Front(stack)
<1>1. /\ n \in Nat \ {0} /\ st \in Seq(FrameType) /\ Len(st) = n - 1 /\ Top = Last(stack)
      /\ \A i \in 1..n - 1 : st[i] = stack[i] /\ stack[i].mods # <<>>
  BY TopTyped DEF Top
<1>2. \A i \in 1..n : /\ Follows(disk, stack[i])
                      /\ \E j \in 1..Len(included) : stack[i].path = included[j]
  BY DEF Types, StackOK
<1>. HIDE DEF st
<1>3. StackOK(disk, included, st)
  BY <1>1, <1>2 DEF StackOK
<1>4. st # <<>> => n > 1 /\ Last(st) = stack[n - 1] /\ Last(st).mods # <<>>
  <2>1. st # <<>> => Len(st) > 0
    BY <1>1, EmptySeq
  <2>. QED  BY <1>1, <2>1 DEF Last
<1>5. ASSUME NEW ad, NEW gone, Addresses, abandoned \subseteq gone,
             ad \in gone \/ (ad = address /\ (Top.mods = <<>> \/ Top.path \in gone))
      PROVE  AddressOK(st, ad, gone)
  <2>1. ASSUME NEW i \in 2..Len(st), st[i].mods # <<>>
        PROVE  st[i].old \in {st[i - 1].path} \cup gone
    <3>1. st[i] = stack[i] /\ st[i - 1] = stack[i - 1] /\ i \in 2..n
      BY <1>1, <2>1
    <3>. QED  BY <1>5, <2>1, <3>1 DEF Addresses, AddressOK
  <2>2. ASSUME st # <<>>  PROVE ad \in {Last(st).path} \cup gone
    <3>1. CASE ad \in gone
      BY <3>1
    <3>2. CASE ad = address /\ Top.mods = <<>>
      BY <1>1, <1>4, <1>5, <2>2, <3>2 DEF Addresses, AddressOK
    <3>3. CASE ad = address /\ Top.mods # <<>> /\ Top.path \in gone
      BY <1>1, <1>4, <1>5, <2>2, <3>3 DEF Addresses, AddressOK
    <3>. QED  BY <1>5, <3>1, <3>2, <3>3
  <2>. QED  BY <1>4, <2>1, <2>2 DEF AddressOK
<1>. QED  BY <1>3, <1>4, <1>5 DEF st

\* A file is opened: it becomes the last frame, with everything to read.
LEMMA Pushed ==
  ASSUME Types, Addresses, next \in Path, next.file \in Source, ~Known(next),
         Len(included) < MaxIncluded, stack # <<>> => Top.mods # <<>>
  PROVE  LET st == Append(stack, Frame(next)) IN
         /\ StackOK(disk, Append(included, next), st) /\ st # <<>>
         /\ Last(st) = Frame(next) /\ Frame(next).path = next /\ Frame(next).mods = <<>>
         /\ Frame(next).rest = disk[next.file]
         /\ AddressOK(st, address, abandoned)
<1>. DEFINE st == Append(stack, Frame(next))
            n == Len(stack)
            fr == Frame(next)
<1>1. /\ stack \in Seq(FrameType) /\ n \in Nat /\ included \in Seq(Path) /\ Len(included) \in Nat
      /\ disk[next.file] \in Seq(Statements) /\ Len(disk[next.file]) \in Nat
  BY DiskTyped DEF Types, StackOK, IncludedOK
<1>2. /\ fr \in FrameType /\ fr.path = next /\ fr.mods = <<>> /\ fr.rest = disk[next.file]
  <2>1. <<>> \in Seq(Mods)
    OBVIOUS
  <2>. QED  BY <1>1, <2>1 DEF Frame, FrameType, NoMods
<1>3. Follows(disk, fr)
  <2>1. /\ fr.path.file = next.file /\ Len(fr.rest) = Len(disk[next.file])
    BY <1>2
  <2>2. \A i \in 1..Len(fr.rest) :
          fr.rest[i] = disk[next.file][Len(disk[next.file]) - Len(fr.rest) + i]
    BY <1>1, <1>2
  <2>3. Len(disk[next.file]) <= Len(disk[next.file])
    BY <1>1
  <2>. QED  BY <1>2, <2>1, <2>2, <2>3 DEF Follows
<1>. HIDE DEF fr
<1>4. /\ st \in Seq(FrameType) /\ Len(st) = n + 1 /\ st[n + 1] = fr
      /\ \A i \in 1..n : st[i] = stack[i]
  BY <1>1, <1>2, AppendProperties DEF fr
<1>5. /\ \A j \in 1..Len(included) : Append(included, next)[j] = included[j]
      /\ Append(included, next)[Len(included) + 1] = next
      /\ Len(Append(included, next)) = Len(included) + 1
  BY <1>1, AppendProperties
<1>. HIDE DEF st
<1>6. st # <<>> /\ Last(st) = fr
  BY <1>1, <1>4, EmptySeq DEF Last
<1>7. ASSUME NEW i \in 1..n
      PROVE  /\ Follows(disk, stack[i]) /\ \E j \in 1..Len(included) : stack[i].path = included[j]
             /\ stack[i].mods # <<>>
  <2>1. /\ Follows(disk, stack[i]) /\ \E j \in 1..Len(included) : stack[i].path = included[j]
        /\ i < n => stack[i].mods # <<>>
    BY <1>7 DEF Types, StackOK
  <2>2. stack # <<>>
    BY <1>1, <1>7, EmptySeq
  <2>3. Top = stack[n]
    BY <1>1, <2>2, StackTop DEF Top
  <2>. QED  BY <1>1, <1>7, <2>1, <2>2, <2>3
<1>8. ASSUME NEW i \in 1..n + 1
      PROVE  /\ Follows(disk, st[i])
             /\ \E j \in 1..Len(Append(included, next)) : st[i].path = Append(included, next)[j]
             /\ i < n + 1 => st[i].mods # <<>>
  <2>1. CASE i \in 1..n
    <3>1. st[i] = stack[i]
      BY <1>4, <2>1
    <3>2. PICK j \in 1..Len(included) : stack[i].path = included[j]
      BY <1>7, <2>1
    <3>3. j \in 1..Len(Append(included, next))
      BY <1>1, <1>5, <3>2
    <3>. QED  BY <1>5, <1>7, <2>1, <3>1, <3>2, <3>3
  <2>2. CASE i = n + 1
    <3>1. Len(included) + 1 \in 1..Len(Append(included, next))
      BY <1>1, <1>5
    <3>. QED  BY <1>2, <1>3, <1>4, <1>5, <2>2, <3>1
  <2>. QED  BY <1>1, <1>8, <2>1, <2>2
<1>9. StackOK(disk, Append(included, next), st)
  BY <1>4, <1>8 DEF StackOK
<1>10. AddressOK(st, address, abandoned)
  <2>1. ASSUME NEW i \in 2..Len(st), st[i].mods # <<>>
        PROVE  st[i].old \in {st[i - 1].path} \cup abandoned
    <3>1. i \in 2..n
      BY <1>1, <1>2, <1>4, <2>1
    <3>2. st[i] = stack[i] /\ st[i - 1] = stack[i - 1]
      BY <1>1, <1>4, <3>1
    <3>. QED  BY <2>1, <3>1, <3>2 DEF Addresses, AddressOK
  <2>2. ASSUME Len(st) > 1  PROVE address \in {st[Len(st) - 1].path} \cup abandoned
    <3>1. n \in 1..n /\ Len(st) - 1 = n
      BY <1>1, <1>4, <2>2
    <3>2. stack # <<>>
      BY <1>1, <3>1, EmptySeq
    <3>3. Last(stack) = stack[n] /\ stack[n].mods # <<>> /\ st[n] = stack[n]
      BY <1>1, <1>4, <1>7, <3>1, <3>2, StackTop
    <3>. QED  BY <3>1, <3>2, <3>3 DEF Addresses, AddressOK
  <2>. QED  BY <1>2, <1>6, <2>1, <2>2 DEF AddressOK
<1>. QED  BY <1>2, <1>6, <1>9, <1>10 DEF st, fr

\* Its path is remembered.
LEMMA Remembered ==
  ASSUME Types, next \in Path, ~Known(next), Len(included) < MaxIncluded
  PROVE  /\ IncludedOK(Append(included, next))
         /\ Len(Append(included, next)) = Len(included) + 1 /\ Len(included) \in Nat
         /\ Append(included, next)[Len(included) + 1] = next
         /\ \A j \in 1..Len(included) : Append(included, next)[j] = included[j]
<1>. DEFINE m == Len(included)
<1>1. /\ included \in Seq(Path) /\ m \in Nat /\ MaxIncluded \in Nat
      /\ \A i, j \in 1..m : included[i] = included[j] => i = j
      /\ \A i \in 1..m : included[i] # next
  BY Constants DEF Types, IncludedOK, Known
<1>2. /\ Append(included, next) \in Seq(Path) /\ Len(Append(included, next)) = m + 1
      /\ Append(included, next)[m + 1] = next
      /\ \A j \in 1..m : Append(included, next)[j] = included[j]
  BY <1>1, AppendProperties
<1>3. ASSUME NEW i \in 1..m + 1, NEW j \in 1..m + 1,
             Append(included, next)[i] = Append(included, next)[j]
      PROVE  i = j
  <2>1. CASE i \in 1..m /\ j \in 1..m
    BY <1>1, <1>2, <1>3, <2>1
  <2>2. CASE i = m + 1 /\ j = m + 1
    BY <2>2
  <2>3. CASE i = m + 1 /\ j \in 1..m
    BY <1>1, <1>2, <1>3, <2>3
  <2>4. CASE i \in 1..m /\ j = m + 1
    BY <1>1, <1>2, <1>3, <2>4
  <2>. QED  BY <1>1, <1>3, <2>1, <2>2, <2>3, <2>4
<1>. QED  BY <1>1, <1>2, <1>3 DEF IncludedOK

-----------------------------------------------------------------------------
(* Documentation *)

Gone(ab, f)  == \E q \in ab : q.file = f
\* A comment of f is what was read last.
Fresh(st, f) ==
  /\ st # <<>> /\ Last(st).path.file = f /\ Last(st).mods = <<>>
  /\ Len(Last(st).rest) < Len(disk[f])
  /\ disk[f][Len(disk[f]) - Len(Last(st).rest)].kind = "doc"

\* The buffer holds the comments just read and what files given up left there.
DocOK(st, ab, text) == text # NoDoc => \A f \in text : Gone(ab, f) \/ Fresh(st, f)
NamesOK(ab, nm) ==
  \A n \in DOMAIN nm : nm[n] # NoDoc =>
    \A f \in nm[n] : Gone(ab, f) \/ \E i \in 1..Len(disk[f]) : Declares(disk[f][i], n)

Docs == Documented => DocOK(stack, abandoned, doc) /\ NamesOK(abandoned, names)
Base == Types /\ Addresses /\ Docs

LEMMA DocsNext ==
  ASSUME UNCHANGED disk,
         Documented => DocOK(stack', abandoned', doc') /\ NamesOK(abandoned', names')
  PROVE  Docs'
<1>1. Documented' <=> Documented
  BY DEF Documented, Places, At, Stmt
<1>2. DocOK(stack', abandoned', doc') => DocOK(stack, abandoned, doc)'
  BY DEF DocOK, Gone, Fresh
<1>3. NamesOK(abandoned', names') => NamesOK(abandoned, names)'
  BY DEF NamesOK, Gone, Declares
<1>. QED  BY <1>1, <1>2, <1>3 DEF Docs

\* The statement at hand is the one after those that were read.
LEMMA AtHand ==
  ASSUME Types, stack # <<>>, Top.rest # <<>>
  PROVE  /\ Top.path.file \in Source /\ Len(Top.rest) \in Nat \ {0}
         /\ Len(disk[Top.path.file]) - Len(Top.rest) \in Nat
         /\ Len(disk[Top.path.file]) - Len(Top.rest) + 1 \in 1..Len(disk[Top.path.file])
         /\ Head(Top.rest) = disk[Top.path.file][Len(disk[Top.path.file]) - Len(Top.rest) + 1]
         /\ Head(Top.rest) = Top.rest[1] /\ Head(Top.rest) \in Statements
<1>1. Top \in FrameType /\ Follows(disk, Top)
  BY TopTyped
<1>2. /\ Top.rest \in Seq(Statements) /\ Len(Top.rest) \in Nat \ {0} /\ Top.path.file \in Source
      /\ Head(Top.rest) = Top.rest[1] /\ Head(Top.rest) \in Statements
  BY <1>1, FrameFields, EmptySeq, HeadTailProperties DEF Follows
<1>3. Len(disk[Top.path.file]) \in Nat
  BY <1>2, DiskTyped DEF Types
<1>4. Len(Top.rest) <= Len(disk[Top.path.file])
  BY <1>1 DEF Follows
<1>5. 1 \in 1..Len(Top.rest)
  BY <1>2
<1>6. Top.rest[1] = disk[Top.path.file][Len(disk[Top.path.file]) - Len(Top.rest) + 1]
  BY <1>1, <1>5 DEF Follows
<1>7. PICK a \in Nat, b \in Nat : a = Len(disk[Top.path.file]) /\ b = Len(Top.rest)
  BY <1>2, <1>3
<1>8. b <= a /\ b # 0
  BY <1>2, <1>4, <1>7
<1>9. a - b \in Nat /\ a - b + 1 \in 1..a
  BY <1>8
<1>. QED  BY <1>2, <1>6, <1>7, <1>9

\* After a comment comes what it documents, or another.
LEMMA DocNext ==
  ASSUME Types, Documented, NEW f, Fresh(stack, f)
  PROVE  /\ stack # <<>> /\ Top.path.file = f /\ Top.mods = <<>> /\ Top.rest # <<>>
         /\ Head(Top.rest).kind \in {"header", "template", "doc"}
<1>1. /\ stack # <<>> /\ Top.path.file = f /\ Top.mods = <<>>
      /\ Len(Top.rest) < Len(disk[f]) /\ disk[f][Len(disk[f]) - Len(Top.rest)].kind = "doc"
  BY DEF Fresh, Top
<1>2. f \in Source /\ Len(Top.rest) \in Nat /\ Len(disk[f]) \in Nat
  BY <1>1, TopTyped, FrameFields, DiskTyped DEF Types, Follows
<1>3. PICK j \in 1..Len(disk[f]) : j = Len(disk[f]) - Len(Top.rest)
  BY <1>1, <1>2
<1>4. <<f, j>> \in Places /\ Stmt(<<f, j>>).kind = "doc"
  BY <1>1, <1>2, <1>3 DEF Places, At, Stmt, Source
<1>5. j < Len(disk[f]) /\ disk[f][j + 1].kind \in {"header", "template", "doc"}
  BY <1>4 DEF Documented
<1>6. Top.rest # <<>>
  <2>1. PICK a \in Nat, b \in Nat : a = Len(disk[f]) /\ b = Len(Top.rest)
    BY <1>2
  <2>2. j = a - b /\ j < a
    BY <1>3, <1>5, <2>1
  <2>3. b # 0
    BY <2>2
  <2>. QED  BY <2>1, <2>3
<1>7. Head(Top.rest) = disk[f][Len(disk[f]) - Len(Top.rest) + 1]
  BY <1>1, <1>6, AtHand
<1>. QED  BY <1>1, <1>3, <1>5, <1>6, <1>7

-----------------------------------------------------------------------------
(* Every step keeps the types, the addresses and the documentation *)

\* The stack stays, and more paths may be known.
LEMMA Kept ==
  ASSUME Base, UNCHANGED <<disk, stack, address, session, abandoned>>,
         IncludedOK(included'), Len(included) <= Len(included'),
         \A j \in 1..Len(included) : included'[j] = included[j],
         next' \in Path \cup {NoPath}, returned' \in {"none", "ok", "failed"},
         status' \in {"running", "overrun"}, next' = NoPath \/ returned' = "none",
         Busy' /\ stack # <<>> => Top.mods # <<>>
  PROVE  Base'
<1>1. /\ Types /\ Addresses /\ Docs /\ UNCHANGED <<disk, stack, address, names, doc, abandoned>>
  BY DEF Base, session
<1>2. /\ Len(included) \in Nat /\ Len(included') \in Nat
  BY <1>1 DEF Types, IncludedOK
<1>3. StackOK(disk, included', stack)
  <2>1. \A i \in 1..Len(stack) : \E j \in 1..Len(included') : stack[i].path = included'[j]
    <3>. SUFFICES ASSUME NEW i \in 1..Len(stack)
                  PROVE  \E j \in 1..Len(included') : stack[i].path = included'[j]
      OBVIOUS
    <3>1. PICK j \in 1..Len(included) : stack[i].path = included[j]
      BY <1>1 DEF Types, StackOK
    <3>2. j \in 1..Len(included')
      BY <1>2
    <3>. QED  BY <3>1, <3>2
  <2>. QED  BY <1>1, <2>1 DEF Types, StackOK
<1>4. Types'
  BY <1>1, <1>3 DEF Types, Busy, Top
<1>5. Addresses'
  BY <1>1 DEF Addresses
<1>6. Docs'
  BY <1>1, DocsNext DEF Docs
<1>. QED  BY <1>4, <1>5, <1>6 DEF Base

LEMMA AskHolds == ASSUME Base, NEW f \in Started, Ask(f)  PROVE Base'
<1>1. /\ Types /\ stack = <<>> /\ next' = PathTo(f, 0) /\ returned = "none"
      /\ UNCHANGED <<disk, included, stack, returned, address, session, abandoned, status>>
  BY DEF Base, Ask, session
<1>2. PathTo(f, 0) \in Path
  BY Constants
<1>3. IncludedOK(included') /\ Len(included) <= Len(included')
  BY <1>1 DEF Types, IncludedOK
<1>. QED  BY <1>1, <1>2, <1>3, Kept DEF Types

LEMMA AlreadyConsultedHolds == ASSUME Base, AlreadyConsulted  PROVE Base'
<1>1. /\ Types /\ next # NoPath /\ next' = NoPath /\ returned' = "failed"
      /\ UNCHANGED <<disk, included, stack, address, session, abandoned, status>>
  BY DEF Base, AlreadyConsulted
<1>2. IncludedOK(included') /\ Len(included) <= Len(included')
  BY <1>1 DEF Types, IncludedOK
<1>3. stack # <<>> => Top.mods # <<>>
  BY <1>1 DEF Types, Busy
<1>. QED  BY <1>1, <1>2, <1>3, Kept DEF Types

LEMMA OverrunHolds == ASSUME Base, Overrun  PROVE Base'
<1>1. /\ Types /\ next # NoPath /\ status' = "overrun"
      /\ UNCHANGED <<disk, included, next, stack, returned, address, session, abandoned>>
  BY DEF Base, Overrun
<1>2. IncludedOK(included') /\ Len(included) <= Len(included')
  BY <1>1 DEF Types, IncludedOK
<1>3. /\ stack # <<>> => Top.mods # <<>>
      /\ next \in Path \cup {NoPath} /\ returned \in {"none", "ok", "failed"} /\ returned = "none"
  BY <1>1 DEF Types, Busy
<1>. QED  BY <1>1, <1>2, <1>3, Kept

\* The path being consulted, as the opening of what it names finds it.
LEMMA Opening ==
  ASSUME Types, Opened
  PROVE  /\ next \in Path /\ ~Known(next) /\ Len(included) < MaxIncluded
         /\ included' = Append(included, next) /\ returned = "none" /\ status = "running"
         /\ stack # <<>> => Top.mods # <<>>
         /\ IncludedOK(included') /\ Len(included') = Len(included) + 1 /\ Len(included) \in Nat
         /\ included'[Len(included) + 1] = next
         /\ \A j \in 1..Len(included) : included'[j] = included[j]
<1>1. /\ next \in Path /\ ~Known(next) /\ Len(included) < MaxIncluded
      /\ included' = Append(included, next) /\ returned = "none" /\ status = "running"
      /\ stack # <<>> => Top.mods # <<>>
  BY DEF Opened, Registered, Types, Busy
<1>. QED  BY <1>1, Remembered

LEMMA OpenPackageHolds == ASSUME Base, OpenPackage  PROVE Base'
<1>1. /\ Types /\ Opened /\ next.file \in Packages
      /\ UNCHANGED <<disk, stack, address, session, abandoned, status>>
      /\ IF InitFile[next.file] = NoFile
           THEN next' = NoPath /\ returned' = "failed"
           ELSE next' = PathTo(InitFile[next.file], next.hops) /\ returned' = returned
  BY DEF Base, OpenPackage
<1>2. /\ next \in Path /\ IncludedOK(included') /\ Len(included) <= Len(included')
      /\ returned = "none" /\ status = "running" /\ (stack # <<>> => Top.mods # <<>>)
      /\ \A j \in 1..Len(included) : included'[j] = included[j]
  BY <1>1, Opening
<1>3. next' \in Path \cup {NoPath} /\ (next' = NoPath \/ returned' = "none")
      /\ returned' \in {"none", "failed"}
  <2>1. CASE InitFile[next.file] = NoFile
    BY <1>1, <2>1
  <2>2. CASE InitFile[next.file] # NoFile
    <3>1. InitFile[next.file] \in Files /\ next.hops \in Nat
      BY <1>1, <1>2, <2>2, Constants DEF Source
    <3>2. PathTo(InitFile[next.file], next.hops) \in Path
      BY <3>1, Constants
    <3>. QED  BY <1>1, <1>2, <2>2, <3>2
  <2>. QED  BY <2>1, <2>2
<1>. QED  BY <1>1, <1>2, <1>3, Kept

LEMMA OpenSourceHolds == ASSUME Base, OpenSource  PROVE Base'
<1>1. /\ Types /\ Addresses /\ Docs /\ Opened /\ next.file \notin Packages
      /\ stack' = Append(stack, Frame(next)) /\ next' = NoPath
      /\ UNCHANGED <<disk, returned, address, names, doc, abandoned, status>>
  BY DEF Base, OpenSource, session
<1>2. /\ next \in Path /\ ~Known(next) /\ Len(included) < MaxIncluded /\ IncludedOK(included')
      /\ included' = Append(included, next) /\ returned = "none" /\ status = "running"
      /\ stack # <<>> => Top.mods # <<>>
  BY <1>1, Opening
<1>3. next.file \in Source
  BY <1>1, <1>2, Constants DEF Source
<1>4. StackOK(disk, included', stack') /\ AddressOK(stack', address, abandoned)
  BY <1>1, <1>2, <1>3, Pushed
<1>5. Types'
  BY <1>1, <1>2, <1>4 DEF Types, Busy
<1>6. Addresses'
  BY <1>1, <1>4 DEF Addresses
<1>7. Documented => DocOK(stack', abandoned', doc') /\ NamesOK(abandoned', names')
  <2>. SUFFICES ASSUME Documented, NEW f, doc # NoDoc, f \in doc  PROVE Gone(abandoned, f)
    BY <1>1 DEF Docs, DocOK
  <2>1. ~Fresh(stack, f)
    BY <1>1, <1>2, DocNext
  <2>. QED  BY <1>1, <2>1 DEF Docs, DocOK
<1>. QED  BY <1>1, <1>5, <1>6, <1>7, DocsNext DEF Base

\* The file at hand is given up, at the address of its statement.
LEMMA GivenUpHolds ==
  ASSUME Base, stack # <<>>, next = NoPath, NEW at, GivenUp(at), at \in {Top.path} \cup abandoned
  PROVE  Base'
<1>1. /\ Types /\ Addresses /\ Docs /\ stack' = Front(stack) /\ returned' = "ok" /\ address' = at
      /\ abandoned' = abandoned \cup {Top.path}
      /\ UNCHANGED <<disk, included, next, status, names, clauses, doc>>
  BY DEF Base, GivenUp, ErrorReturn, session
<1>2. Top.path \in Path /\ abandoned \subseteq Path
  BY <1>1, TopTyped, FrameFields DEF Types
<1>3. /\ StackOK(disk, included', stack') /\ AddressOK(stack', address', abandoned')
      /\ stack' # <<>> => Last(stack').mods # <<>>
  BY <1>1, Popped
<1>4. Types'
  BY <1>1, <1>2, <1>3 DEF Types, Busy, Top
<1>5. Addresses'
  BY <1>1, <1>3 DEF Addresses
<1>6. Documented => DocOK(stack', abandoned', doc') /\ NamesOK(abandoned', names')
  <2>1. \A f : Gone(abandoned, f) \/ Fresh(stack, f) => Gone(abandoned', f)
    BY <1>1 DEF Gone, Fresh, Top
  <2>. QED  BY <1>1, <2>1 DEF Docs, DocOK, NamesOK
<1>. QED  BY <1>1, <1>4, <1>5, <1>6, DocsNext DEF Base

\* The statement at hand succeeds: the next one is read.
LEMMA AppliedHolds ==
  ASSUME Base, Ready, Top.rest # <<>>, Applied
  PROVE  /\ Types' /\ Addresses' /\ UNCHANGED <<disk, abandoned, included>>
         /\ stack' # <<>> /\ Last(stack') = Next_(Top)
<1>1. /\ Types /\ Addresses /\ stack # <<>> /\ Top.mods = <<>> /\ next = NoPath /\ returned = "none"
      /\ status = "running" /\ stack' = Replace(Next_(Top))
      /\ UNCHANGED <<disk, included, next, returned, address, abandoned, status>>
  BY DEF Base, Applied, Ready, Reading, NoMods
<1>2. Top \in FrameType /\ Follows(disk, Top) /\ disk \in Disks /\ Top = Last(stack)
  BY <1>1, TopTyped DEF Types, Top
<1>3. /\ Next_(Top) \in FrameType /\ Follows(disk, Next_(Top)) /\ Next_(Top).path = Top.path
      /\ Next_(Top).mods = <<>>
  BY <1>2, FrameAdvances
<1>4. Len(stack) > 1 => address \in {stack[Len(stack) - 1].path} \cup abandoned
  BY <1>1, <1>2 DEF Addresses, AddressOK
<1>5. /\ StackOK(disk, included, stack') /\ AddressOK(stack', address, abandoned)
      /\ stack' # <<>> /\ Last(stack') = Next_(Top)
  BY <1>1, <1>3, <1>4, Replaced
<1>6. Types'
  BY <1>1, <1>5 DEF Types, Busy
<1>7. Addresses'
  BY <1>1, <1>5 DEF Addresses
<1>. QED  BY <1>1, <1>5, <1>6, <1>7

\* What a statement that succeeds leaves in the buffer: nothing, or what a
\* statement that is no comment's leaves alone.
LEMMA AppliedDocs ==
  ASSUME Base, Ready, Top.rest # <<>>, Applied,
         \/ doc' = NoDoc
         \/ doc' = doc /\ Head(Top.rest).kind \notin {"header", "template", "doc"}
  PROVE  Documented => DocOK(stack', abandoned', doc')
<1>. SUFFICES ASSUME Documented, NEW f, doc' # NoDoc, f \in doc'  PROVE Gone(abandoned', f)
  BY DEF DocOK
<1>1. doc' = doc /\ Head(Top.rest).kind \notin {"header", "template", "doc"} /\ abandoned' = abandoned
  BY DEF Applied
<1>2. ~Fresh(stack, f)
  BY <1>1, DocNext DEF Base
<1>. QED  BY <1>1, <1>2 DEF Base, Docs, DocOK

LEMMA ApplyHeaderHolds == ASSUME Base, ApplyHeader  PROVE Base'
<1>1. /\ Ready /\ stack # <<>> /\ next = NoPath /\ Top.rest # <<>> /\ Head(Top.rest).kind \in {"header", "template"}
      /\ Named = Head(Top.rest).name
  BY DEF ApplyHeader, Statement, Ready, Reading, Named
<1>2. CASE Named \in DOMAIN names
  BY <1>1, <1>2, GivenUpHolds DEF ApplyHeader
<1>3. CASE Named \notin DOMAIN names
  <2>1. Applied /\ Declare(Named, doc) /\ doc' = NoDoc
    BY <1>3 DEF ApplyHeader, DocAfter
  <2>2. Types' /\ Addresses' /\ UNCHANGED <<disk, abandoned>>
    BY <1>1, <2>1, AppliedHolds
  <2>3. /\ DOMAIN names' = DOMAIN names \cup {Named} /\ names'[Named] = doc
        /\ \A m \in DOMAIN names : m # Named => names'[m] = names[m]
    BY <1>3, <2>1 DEF Declare
  <2>4. Documented => DocOK(stack', abandoned', doc')
    BY <1>1, <2>1, AppliedDocs
  <2>5. Documented => NamesOK(abandoned', names')
    <3>. SUFFICES ASSUME Documented, NEW n \in DOMAIN names', names'[n] # NoDoc, NEW f \in names'[n]
                  PROVE  Gone(abandoned, f) \/ \E i \in 1..Len(disk[f]) : Declares(disk[f][i], n)
      BY <2>2 DEF NamesOK
    <3>1. CASE n # Named
      BY <2>3, <3>1 DEF Base, Docs, NamesOK
    <3>2. CASE n = Named
      <4>1. Gone(abandoned, f) \/ Fresh(stack, f)
        BY <2>3, <3>2 DEF Base, Docs, DocOK
      <4>2. ASSUME Fresh(stack, f)  PROVE \E i \in 1..Len(disk[f]) : Declares(disk[f][i], n)
        <5>1. Top.path.file = f
          BY <4>2, DocNext DEF Base
        <5>2. \E i \in 1..Len(disk[f]) : Head(Top.rest) = disk[f][i]
          BY <1>1, <5>1, AtHand DEF Base
        <5>. QED  BY <1>1, <3>2, <5>2 DEF Declares
      <4>. QED  BY <4>1, <4>2
    <3>. QED  BY <3>1, <3>2
  <2>. QED  BY <2>2, <2>4, <2>5, DocsNext DEF Base
<1>. QED  BY <1>2, <1>3

LEMMA ApplyClauseHolds == ASSUME Base, ApplyClause  PROVE Base'
<1>1. /\ Ready /\ stack # <<>> /\ next = NoPath /\ Top.rest # <<>> /\ Head(Top.rest).kind = "clause"
  BY DEF ApplyClause, Statement, Ready, Reading
<1>2. CASE Named \notin DOMAIN names
  BY <1>1, <1>2, GivenUpHolds DEF ApplyClause
<1>3. CASE Named \in DOMAIN names
  <2>1. Applied /\ doc' = NoDoc /\ names' = names
    BY <1>3 DEF ApplyClause
  <2>. QED  BY <1>1, <2>1, AppliedHolds, AppliedDocs, DocsNext DEF Base, Docs
<1>. QED  BY <1>2, <1>3

LEMMA ApplyParamHolds == ASSUME Base, ApplyParam  PROVE Base'
<1>1. /\ Ready /\ stack # <<>> /\ next = NoPath /\ Top.rest # <<>> /\ Head(Top.rest).kind = "param"
  BY DEF ApplyParam, Statement, Ready, Reading
<1>2. CASE Head(Top.rest).type \notin DOMAIN names \/ Named \in DOMAIN names
  BY <1>1, <1>2, GivenUpHolds DEF ApplyParam
<1>3. CASE ~(Head(Top.rest).type \notin DOMAIN names \/ Named \in DOMAIN names)
  <2>1. Applied /\ doc' = doc /\ Declare(Named, NoDoc)
    BY <1>3 DEF ApplyParam
  <2>2. Types' /\ Addresses' /\ UNCHANGED <<disk, abandoned>>
    BY <1>1, <2>1, AppliedHolds
  <2>3. /\ DOMAIN names' = DOMAIN names \cup {Named} /\ names'[Named] = NoDoc
        /\ \A m \in DOMAIN names : m # Named => names'[m] = names[m]
    BY <1>3, <2>1 DEF Declare
  <2>4. Documented => DocOK(stack', abandoned', doc')
    BY <1>1, <2>1, AppliedDocs
  <2>5. Documented => NamesOK(abandoned', names')
    BY <2>2, <2>3 DEF Base, Docs, NamesOK
  <2>. QED  BY <2>2, <2>4, <2>5, DocsNext DEF Base
<1>. QED  BY <1>2, <1>3

LEMMA ApplyGoalHolds == ASSUME Base, ApplyGoal  PROVE Base'
<1>1. /\ Ready /\ stack # <<>> /\ next = NoPath /\ Top.rest # <<>>
  BY DEF ApplyGoal, Statement, Ready, Reading
<1>2. CASE Head(Top.rest).result = "error"
  BY <1>1, <1>2, GivenUpHolds DEF ApplyGoal
<1>3. CASE Head(Top.rest).result # "error"
  <2>1. Applied /\ doc' = NoDoc /\ names' = names
    BY <1>3 DEF ApplyGoal
  <2>. QED  BY <1>1, <2>1, AppliedHolds, AppliedDocs, DocsNext DEF Base, Docs
<1>. QED  BY <1>2, <1>3

LEMMA ApplyDocHolds == ASSUME Base, ApplyDoc  PROVE Base'
<1>1. /\ Ready /\ stack # <<>> /\ Top.rest # <<>> /\ Head(Top.rest).kind = "doc" /\ Applied
      /\ names' = names /\ doc' = (IF doc = NoDoc THEN {} ELSE doc) \cup {Top.path.file}
  BY DEF ApplyDoc, Statement, Ready, Reading
<1>2. /\ Types' /\ Addresses' /\ UNCHANGED <<disk, abandoned>>
      /\ stack' # <<>> /\ Last(stack') = Next_(Top)
  BY <1>1, AppliedHolds
<1>3. Fresh(stack', Top.path.file)
  <2>1. Top \in FrameType /\ Follows(disk, Top) /\ disk \in Disks
    BY <1>1, TopTyped DEF Base, Types
  <2>2. /\ Next_(Top).path = Top.path /\ Next_(Top).mods = <<>> /\ Next_(Top).rest = Tail(Top.rest)
        /\ Len(Tail(Top.rest)) = Len(Top.rest) - 1
    BY <1>1, <2>1, FrameAdvances
  <2>3. /\ Len(Top.rest) \in Nat \ {0} /\ Top.path.file \in Source
        /\ Len(disk[Top.path.file]) - Len(Top.rest) \in Nat
        /\ Head(Top.rest) = disk[Top.path.file][Len(disk[Top.path.file]) - Len(Top.rest) + 1]
    BY <1>1, AtHand DEF Base
  <2>4. PICK a \in Nat, b \in Nat : a = Len(disk[Top.path.file]) /\ b = Len(Top.rest)
    BY <2>1, <2>3, DiskTyped
  <2>5. b # 0 /\ a - b \in Nat
    BY <2>3, <2>4
  <2>6. a - b + 1 = a - (b - 1) /\ b - 1 < a
    BY <2>5
  <2>. QED  BY <1>1, <1>2, <2>2, <2>3, <2>4, <2>6 DEF Fresh
<1>4. Documented => DocOK(stack', abandoned', doc')
  <2>. SUFFICES ASSUME Documented, NEW f \in doc'  PROVE Gone(abandoned', f) \/ Fresh(stack', f)
    BY DEF DocOK
  <2>1. CASE f = Top.path.file
    BY <1>3, <2>1
  <2>2. CASE f # Top.path.file
    <3>1. doc # NoDoc /\ f \in doc
      BY <1>1, <2>2
    <3>2. ~Fresh(stack, f)
      BY <2>2 DEF Fresh, Top
    <3>. QED  BY <1>2, <3>1, <3>2 DEF Base, Docs, DocOK
  <2>. QED  BY <2>1, <2>2
<1>. QED  BY <1>1, <1>2, <1>4, DocsNext DEF Base, Docs

\* Nothing in the buffer is of a file that imports, or has been read.
LEMMA NotFresh ==
  ASSUME Base, Documented, stack # <<>>,
         \/ Top.mods # <<>> \/ Top.rest = <<>>
         \/ Head(Top.rest).kind \notin {"header", "template", "doc"}
  PROVE  \A st : DocOK(st, abandoned, doc)
<1>. SUFFICES ASSUME NEW st, doc # NoDoc, NEW f \in doc  PROVE Gone(abandoned, f)
  BY DEF DocOK
<1>1. ~Fresh(stack, f)
  BY DocNext DEF Base
<1>. QED  BY <1>1 DEF Base, Docs, DocOK

LEMMA ApplyUseHolds == ASSUME Base, ApplyUse  PROVE Base'
<1>1. /\ Ready /\ stack # <<>> /\ Top.rest # <<>> /\ Head(Top.rest).kind = "use" /\ Types
      /\ next = NoPath /\ returned = "none" /\ status = "running" /\ Addresses /\ Top.mods = <<>>
  BY DEF ApplyUse, Statement, Ready, Reading, Base, NoMods
<1>2. CASE Head(Top.rest).mods = NoMods
  <2>1. Applied /\ doc' = NoDoc /\ names' = names
    BY <1>2 DEF ApplyUse
  <2>. QED  BY <1>1, <2>1, AppliedHolds, AppliedDocs, DocsNext DEF Base, Docs
<1>3. CASE Head(Top.rest).mods # NoMods
  <2>. PICK ms : ms = Head(Top.rest).mods
    OBVIOUS
  <2>. PICK fr : fr = With(Top, ms, address)
    OBVIOUS
  <2>1. /\ stack' = Replace(fr) /\ address' = Top.path
        /\ UNCHANGED <<disk, included, next, returned, names, doc, abandoned, status>>
    BY <1>3 DEF ApplyUse, session, With
  <2>2. Top \in FrameType /\ Follows(disk, Top) /\ Top = Last(stack) /\ Top.path \in Path
    BY <1>1, TopTyped, FrameFields DEF Top
  <2>3. Head(Top.rest) = Top.rest[1] /\ ms \in Seq(Mods) /\ ms # <<>> /\ Len(ms) \in Nat
    BY <1>1, <1>3, AtHand, StatementKinds DEF NoMods
  <2>4. /\ Len(ms) <= Len(Top.rest[1].mods)
        /\ \A k \in 1..Len(ms) : ms[k] = Top.rest[1].mods[Len(Top.rest[1].mods) - Len(ms) + k]
    BY <2>3
  <2>5. /\ fr \in FrameType /\ Follows(disk, fr) /\ fr.path = Top.path /\ fr.mods = ms
        /\ fr.old = address
    BY <1>1, <2>2, <2>3, <2>4, FrameImports DEF Types
  <2>6. Len(stack) > 1 => address \in {stack[Len(stack) - 1].path} \cup abandoned
    BY <1>1, <2>2 DEF Addresses, AddressOK
  <2>7. /\ StackOK(disk, included, stack') /\ AddressOK(stack', address', abandoned)
        /\ stack' # <<>> /\ Last(stack') = fr
    BY <1>1, <2>1, <2>3, <2>5, <2>6, Replaced
  <2>8. Types'
    BY <1>1, <2>1, <2>2, <2>7 DEF Types, Busy
  <2>9. Addresses'
    BY <2>1, <2>7 DEF Addresses
  <2>10. Documented => DocOK(stack', abandoned', doc') /\ NamesOK(abandoned', names')
    BY <1>1, <2>1, NotFresh DEF Base, Docs
  <2>. QED  BY <2>1, <2>8, <2>9, <2>10, DocsNext DEF Base
<1>. QED  BY <1>2, <1>3

\* The address while modules are imported.
LEMMA AddressThere ==
  ASSUME Types, Addresses, stack # <<>>, Top.mods # <<>>
  PROVE  address \in {Top.path} \cup abandoned /\ address \in Path
<1>1. Top = Last(stack) /\ Top.path \in Path
  BY TopTyped, FrameFields DEF Top
<1>2. address \in {Top.path} \cup abandoned
  BY <1>1 DEF Addresses, AddressOK
<1>. QED  BY <1>1, <1>2 DEF Types

\* What a statement names is a file, if it is there.
LEMMA FoundFile ==
  ASSUME address \in Path, NEW mod \in Mods
  PROVE  /\ Found(mod) \in Files \cup {NoFile}
         /\ Found(mod) \in Files => Spelled(mod) \in Path /\ Spelled(mod) # NoPath
<1>1. /\ DirOf[address.file] \in Dirs /\ mod.name \in Modules /\ Lib \in Dirs /\ address.hops + 1 \in Nat
  BY Constants DEF Mods
<1>2. Found(mod) \in Files \cup {NoFile}
  BY <1>1, Constants DEF Found
<1>3. ASSUME Found(mod) \in Files  PROVE Spelled(mod) \in Path /\ Spelled(mod) # NoPath
  BY <1>1, <1>3, Constants DEF Spelled
<1>. QED  BY <1>2, <1>3

LEMMA UseModHolds == ASSUME Base, UseMod  PROVE Base'
<1>. DEFINE mod == Head(Top.mods)
<1>1. /\ Types /\ Addresses /\ stack # <<>> /\ Top.mods # <<>>
      /\ next = NoPath /\ returned = "none" /\ status = "running"
  BY DEF UseMod, Importing, Reading, Base, NoMods
<1>2. address \in {Top.path} \cup abandoned /\ address \in Path
  BY <1>1, AddressThere
<1>3. mod \in Mods
  BY <1>1, TopTyped, FrameFields, HeadTailProperties
<1>4. CASE Found(mod) = NoFile
  BY <1>1, <1>2, <1>4, GivenUpHolds DEF UseMod
<1>5. CASE Found(mod) # NoFile
  <2>1. /\ next' = Spelled(mod)
        /\ UNCHANGED <<disk, included, stack, returned, address, session, abandoned, status>>
    BY <1>5 DEF UseMod
  <2>2. next' \in Path
    BY <1>2, <1>3, <1>5, <2>1, FoundFile
  <2>3. IncludedOK(included') /\ Len(included) <= Len(included')
    BY <1>1, <2>1 DEF Types, IncludedOK
  <2>. QED  BY <1>1, <2>1, <2>2, <2>3, Kept
<1>. QED  BY <1>4, <1>5

LEMMA ModFailedHolds == ASSUME Base, ModFailed  PROVE Base'
<1>1. Types /\ Addresses /\ stack # <<>> /\ next = NoPath /\ Top.mods # <<>>
  BY DEF ModFailed, Base, Types, Busy
<1>. QED  BY <1>1, AddressThere, GivenUpHolds DEF ModFailed

\* A module of a statement has been imported: the next one is, or the statement
\* has succeeded and gives back the address it found.
LEMMA ModConsultedHolds == ASSUME Base, ModConsulted  PROVE Base'
<1>1. /\ Types /\ Addresses /\ stack # <<>> /\ next = NoPath /\ returned = "ok" /\ returned' = "none"
      /\ status = "running" /\ Top.mods # <<>> /\ Top.rest # <<>> /\ Top.rest[1].kind = "use"
      /\ UNCHANGED <<disk, included, next, names, abandoned, status>>
  <2>1. Types /\ stack # <<>> /\ Top.mods # <<>>
    BY DEF ModConsulted, Base, Types, Busy
  <2>. QED  BY <2>1, TopTyped DEF ModConsulted, Base, Follows
<1>2. /\ Top \in FrameType /\ Follows(disk, Top) /\ Top = Last(stack) /\ Len(stack) \in Nat
      /\ Top.path \in Path /\ Top.old \in Path \cup {NoPath} /\ disk \in Disks
      /\ Top.mods \in Seq(Mods)
  BY <1>1, TopTyped, FrameFields DEF Top, Types
<1>3. /\ address \in {Top.path} \cup abandoned /\ address \in Path
      /\ Len(stack) > 1 => Top.old \in {stack[Len(stack) - 1].path} \cup abandoned
  <2>1. Len(stack) > 1 => Top.old \in {stack[Len(stack) - 1].path} \cup abandoned
    <3>. SUFFICES ASSUME Len(stack) > 1
                  PROVE  Top.old \in {stack[Len(stack) - 1].path} \cup abandoned
      OBVIOUS
    <3>1. Len(stack) \in 2..Len(stack) /\ Top = stack[Len(stack)]
      BY <1>1, <1>2, TopTyped
    <3>. QED  BY <1>1, <3>1 DEF Addresses, AddressOK
  <2>. QED  BY <1>1, <2>1, AddressThere
<1>4. CASE UsesLeft # NoMods
  <2>. PICK ms : ms = Tail(Top.mods)
    OBVIOUS
  <2>. PICK fr : fr = With(Top, ms, Top.old)
    OBVIOUS
  <2>1. stack' = Replace(fr) /\ UNCHANGED <<address, doc>>
    <3>1. fr = [Top EXCEPT !.mods = ms]
      BY <1>2 DEF FrameType, With
    <3>. QED  BY <1>4, <3>1 DEF ModConsulted, UsesLeft
  <2>2. /\ ms \in Seq(Mods) /\ ms # <<>> /\ Len(ms) = Len(Top.mods) - 1
        /\ \A k \in 1..Len(ms) : ms[k] = Top.mods[k + 1]
    BY <1>1, <1>2, <1>4, HeadTailProperties DEF UsesLeft, NoMods
  <2>4. /\ fr \in FrameType /\ Follows(disk, fr) /\ fr.path = Top.path /\ fr.mods = ms
        /\ fr.old = Top.old
    BY <1>1, <1>2, <2>2, NextModule
  <2>5. /\ StackOK(disk, included, stack') /\ AddressOK(stack', address, abandoned)
        /\ stack' # <<>> /\ Last(stack') = fr
    BY <1>1, <1>3, <2>1, <2>2, <2>4, Replaced
  <2>6. Types'
    BY <1>1, <2>1, <2>5 DEF Types, Busy
  <2>7. Addresses'
    BY <1>1, <2>1, <2>5 DEF Addresses
  <2>8. Documented => DocOK(stack', abandoned', doc') /\ NamesOK(abandoned', names')
    BY <1>1, <2>1, NotFresh DEF Base, Docs
  <2>. QED  BY <1>1, <2>6, <2>7, <2>8, DocsNext DEF Base
<1>5. CASE UsesLeft = NoMods
  <2>1. stack' = Replace(Next_(Top)) /\ address' = Top.old /\ doc' = NoDoc
    BY <1>5 DEF ModConsulted, Restored
  <2>2. /\ Next_(Top) \in FrameType /\ Follows(disk, Next_(Top)) /\ Next_(Top).path = Top.path
        /\ Next_(Top).mods = <<>>
    BY <1>1, <1>2, FrameAdvances
  <2>3. /\ StackOK(disk, included, stack') /\ AddressOK(stack', address', abandoned)
    BY <1>1, <1>3, <2>1, <2>2, Replaced
  <2>4. Types'
    BY <1>1, <1>2, <2>1, <2>3 DEF Types, Busy
  <2>5. Addresses'
    BY <1>1, <2>3 DEF Addresses
  <2>6. Documented => DocOK(stack', abandoned', doc') /\ NamesOK(abandoned', names')
    BY <1>1, <2>1 DEF Base, Docs, DocOK
  <2>. QED  BY <1>1, <2>4, <2>5, <2>6, DocsNext DEF Base
<1>. QED  BY <1>4, <1>5

LEMMA EndOfFileHolds == ASSUME Base, EndOfFile  PROVE Base'
<1>1. /\ Types /\ Addresses /\ stack # <<>> /\ next = NoPath /\ Top.rest = <<>> /\ Top.mods = <<>>
      /\ stack' = Front(stack) /\ returned' = "ok"
      /\ UNCHANGED <<disk, included, next, address, names, doc, abandoned, status>>
  BY DEF EndOfFile, Ready, Reading, Base, NoMods, session
<1>2. /\ StackOK(disk, included, stack') /\ AddressOK(stack', address, abandoned)
      /\ stack' # <<>> => Last(stack').mods # <<>>
  BY <1>1, Popped
<1>3. Types'
  BY <1>1, <1>2 DEF Types, Busy, Top
<1>4. Addresses'
  BY <1>1, <1>2 DEF Addresses
<1>5. Documented => DocOK(stack', abandoned', doc') /\ NamesOK(abandoned', names')
  BY <1>1, NotFresh DEF Base, Docs
<1>. QED  BY <1>1, <1>3, <1>4, <1>5, DocsNext DEF Base

LEMMA ReportHolds == ASSUME Base, Report  PROVE Base'
<1>1. /\ Types /\ stack = <<>> /\ next = NoPath /\ returned' = "none"
      /\ UNCHANGED <<disk, included, next, stack, address, session, abandoned, status>>
  BY DEF Base, Report
<1>2. IncludedOK(included') /\ Len(included) <= Len(included')
  BY <1>1 DEF Types, IncludedOK
<1>. QED  BY <1>1, <1>2, Kept DEF Types

-----------------------------------------------------------------------------
(* The theorems about addresses and documentation *)

LEMMA BaseStarts == ASSUME Init  PROVE Base
<1>1. /\ disk \in Disks /\ included = <<>> /\ stack = <<>> /\ next = NoPath /\ returned = "none"
      /\ address = NoPath /\ names = <<>> /\ doc = NoDoc /\ abandoned = {} /\ status = "running"
  BY DEF Init
<1>2. StackOK(disk, included, stack) /\ IncludedOK(included)
  BY <1>1, Constants DEF StackOK, IncludedOK
<1>3. Types
  BY <1>1, <1>2 DEF Types, Busy
<1>4. Addresses
  BY <1>1 DEF Addresses, AddressOK
<1>5. Docs
  BY <1>1 DEF Docs, DocOK, NamesOK
<1>. QED  BY <1>3, <1>4, <1>5 DEF Base

LEMMA BaseStays == ASSUME Base, [Next]_vars  PROVE Base'
<1>1. CASE UNCHANGED vars
  <2>1. Types'
    BY <1>1 DEF vars, Base, Types, Busy, Top
  <2>2. Addresses'
    BY <1>1 DEF vars, Base, Addresses
  <2>. QED  BY <1>1, <2>1, <2>2, DocsNext DEF vars, Base, Docs
<1>2. ASSUME NEW f \in Started, Ask(f)  PROVE Base'
  BY <1>2, AskHolds
<1>3. CASE Step
  BY <1>3, AlreadyConsultedHolds, OverrunHolds, OpenPackageHolds, OpenSourceHolds,
     ApplyHeaderHolds, ApplyClauseHolds, ApplyParamHolds, ApplyGoalHolds, ApplyDocHolds,
     ApplyUseHolds, UseModHolds, ModConsultedHolds, ModFailedHolds, EndOfFileHolds, ReportHolds
     DEF Step
<1>. QED  BY <1>1, <1>2, <1>3 DEF Next

\* The types of the session, the address and the documentation of each
\* statement, at every point of consulting.
THEOREM ConsultingHolds == Spec => []Base
<1>. QED  BY BaseStarts, BaseStays, PTL DEF Spec

\* Every path is known once, within the room there is for them, and so is that
\* of every file being read.
THEOREM ConsultingTyped == Spec => []TypeOK
<1>1. Base => TypeOK
  BY DEF Base, Types, IncludedOK, StackOK, TypeOK
<1>. QED  BY <1>1, ConsultingHolds, PTL

\* A module is looked for beside the file whose statement names it, or beside a
\* file that was given up.
THEOREM AddressesAreOwn == Spec => []AddressIsOwn
<1>1. Base => AddressIsOwn
  BY AddressThere DEF Base, AddressIsOwn, Importing, Reading, NoMods
<1>. QED  BY <1>1, ConsultingHolds, PTL

\* A header is documented by comments of its own file or of files given up.
THEOREM DocumentedByOwn == Spec => []DocsAreOwn
<1>1. Base => DocsAreOwn
  BY DEF Base, Docs, NamesOK, Gone, DocsAreOwn
<1>. QED  BY <1>1, ConsultingHolds, PTL

\* At every point of consulting a path is known once, a goal sees its own
\* file's address and a predicate has its own file's documentation.
THEOREM ConsultingIsSound == Spec => []ConsultingSound
<1>1. TypeOK /\ AddressIsOwn /\ DocsAreOwn => ConsultingSound
  BY DEF ConsultingSound
<1>. QED  BY <1>1, ConsultingTyped, AddressesAreOwn, DocumentedByOwn, PTL

-----------------------------------------------------------------------------
(* What has been read of a file, and what has been begun of its imports *)

Extent(fr)      == Len(disk[fr.path.file])
HereNo(fr)      == Extent(fr) - Len(fr.rest) + 1
ReadIn(fr, j)   == j < HereNo(fr)
\* Of the modules a statement names, so many were imported, or one more of them
\* was handed to be consulted.
Mod(fr)            == Len(disk[fr.path.file][HereNo(fr)].mods) - Len(fr.mods) + 1
ImportedIn(fr, j, k) == ReadIn(fr, j) \/ (j = HereNo(fr) /\ fr.mods # <<>> /\ k < Mod(fr))
HandedIn(fr, j, k)   == ReadIn(fr, j) \/ (j = HereNo(fr) /\ fr.mods # <<>> /\ k <= Mod(fr))

\* A frame that is being read.
Frame_(fr) == fr \in FrameType /\ Follows(disk, fr) /\ disk \in Disks

LEMMA FrameNumbers ==
  ASSUME NEW fr, Frame_(fr)
  PROVE  /\ Extent(fr) \in Nat /\ Len(fr.rest) \in Nat /\ HereNo(fr) \in Nat \ {0}
         /\ HereNo(fr) <= Extent(fr) + 1 /\ fr.path.file \in Source
         /\ fr.rest # <<>> => /\ HereNo(fr) \in 1..Extent(fr)
                              /\ fr.rest[1] = disk[fr.path.file][HereNo(fr)]
         /\ fr.rest = <<>> => HereNo(fr) = Extent(fr) + 1
<1>1. /\ Extent(fr) \in Nat /\ fr.rest \in Seq(Statements) /\ Len(fr.rest) \in Nat
      /\ fr.path.file \in Source /\ Len(fr.rest) <= Extent(fr)
      /\ \A i \in 1..Len(fr.rest) : fr.rest[i] = disk[fr.path.file][Extent(fr) - Len(fr.rest) + i]
  BY FrameFields, DiskTyped DEF Frame_, Follows, Extent
<1>2. PICK a \in Nat, b \in Nat : a = Extent(fr) /\ b = Len(fr.rest) /\ b <= a
  BY <1>1
<1>3. HereNo(fr) = a - b + 1
  BY <1>2 DEF HereNo
<1>4. a - b + 1 \in Nat \ {0} /\ a - b + 1 <= a + 1 /\ (b # 0 => a - b + 1 \in 1..a)
  BY <1>2
<1>5. fr.rest # <<>> <=> b # 0
  BY <1>1, <1>2, EmptySeq
<1>6. b # 0 => 1 \in 1..b
  BY <1>2
<1>. QED  BY <1>1, <1>2, <1>3, <1>4, <1>5, <1>6

LEMMA FrameMods ==
  ASSUME NEW fr, Frame_(fr), fr.mods # <<>>
  PROVE  /\ fr.rest # <<>> /\ fr.rest[1].kind = "use" /\ fr.rest[1].mods \in Seq(Mods)
         /\ Len(fr.mods) \in Nat \ {0} /\ fr.mods \in Seq(Mods)
         /\ Len(disk[fr.path.file][HereNo(fr)].mods) \in Nat
         /\ Mod(fr) \in 1..Len(fr.rest[1].mods) /\ fr.mods[1] = fr.rest[1].mods[Mod(fr)]
<1>1. /\ fr.rest # <<>> /\ fr.rest[1].kind = "use" /\ Len(fr.mods) <= Len(fr.rest[1].mods)
      /\ \A k \in 1..Len(fr.mods) :
           fr.mods[k] = fr.rest[1].mods[Len(fr.rest[1].mods) - Len(fr.mods) + k]
  BY DEF Frame_, Follows
<1>2. fr.rest[1] = disk[fr.path.file][HereNo(fr)]
  BY <1>1, FrameNumbers
<1>3. fr.rest[1].mods \in Seq(Mods) /\ fr.mods \in Seq(Mods) /\ Len(fr.mods) # 0
  <2>1. fr.rest \in Seq(Statements) /\ fr.mods \in Seq(Mods)
    BY FrameFields DEF Frame_
  <2>2. fr.rest[1] \in Statements
    BY <1>1, <2>1, EmptySeq, ElementOfSeq
  <2>. QED  BY <1>1, <2>1, <2>2, StatementKinds, EmptySeq
<1>4. PICK a \in Nat, b \in Nat : a = Len(fr.rest[1].mods) /\ b = Len(fr.mods) /\ b <= a /\ b # 0
  BY <1>1, <1>3
<1>5. Mod(fr) = a - b + 1
  BY <1>2, <1>4 DEF Mod
<1>6. a - b + 1 \in 1..a /\ 1 \in 1..b
  <2>1. b <= a /\ b # 0
    BY <1>4
  <2>. QED  BY ONLY <2>1, a \in Nat, b \in Nat
<1>7. fr.mods[1] = fr.rest[1].mods[a - b + 1]
  BY <1>1, <1>4, <1>6
<1>8. /\ Len(disk[fr.path.file][HereNo(fr)].mods) \in Nat /\ Len(fr.mods) \in Nat \ {0}
      /\ Mod(fr) \in 1..Len(fr.rest[1].mods)
  BY <1>2, <1>4, <1>5, <1>6
<1>. QED  BY <1>1, <1>3, <1>5, <1>7, <1>8

\* The next statement is at hand.
LEMMA ReadAdvances ==
  ASSUME NEW fr, Frame_(fr), fr.rest # <<>>
  PROVE  /\ HereNo(Next_(fr)) = HereNo(fr) + 1
         /\ \A j \in Nat : ReadIn(Next_(fr), j) <=> ReadIn(fr, j) \/ j = HereNo(fr)
         /\ \A j \in Nat, k \in Nat : HandedIn(fr, j, k) => ImportedIn(Next_(fr), j, k)
<1>1. /\ Next_(fr).path = fr.path /\ Next_(fr).rest = Tail(fr.rest)
      /\ Len(Tail(fr.rest)) = Len(fr.rest) - 1
  BY FrameAdvances DEF Frame_
<1>2. PICK a \in Nat, b \in Nat, c \in Nat :
        a = Extent(fr) /\ b = Len(fr.rest) /\ HereNo(fr) = c /\ c = a - b + 1
  BY FrameNumbers DEF HereNo
<1>3. HereNo(Next_(fr)) = a - (b - 1) + 1
  BY <1>1, <1>2 DEF HereNo, Extent
<1>4. HereNo(Next_(fr)) = c + 1
  <2>1. a - (b - 1) + 1 = a - b + 1 + 1
    BY <1>2
  <2>. QED  BY <1>2, <1>3, <2>1
<1>5. \A j \in Nat : j < c + 1 <=> j < c \/ j = c
  OBVIOUS
<1>6. \A j \in Nat : ReadIn(Next_(fr), j) <=> ReadIn(fr, j) \/ j = HereNo(fr)
  BY <1>2, <1>4, <1>5 DEF ReadIn
<1>7. \A j \in Nat, k \in Nat : HandedIn(fr, j, k) => ImportedIn(Next_(fr), j, k)
  BY <1>6 DEF HandedIn, ImportedIn
<1>. QED  BY <1>2, <1>4, <1>6, <1>7

\* Modules of the statement at hand are imported.
LEMMA ReadImports ==
  ASSUME NEW fr, NEW new, Frame_(fr), Frame_(new), new.path = fr.path, new.rest = fr.rest
  PROVE  /\ HereNo(new) = HereNo(fr)
         /\ \A j \in Nat : ReadIn(new, j) <=> ReadIn(fr, j)
         /\ fr.mods = <<>> => \A j \in Nat, k \in Nat : ImportedIn(fr, j, k) => ImportedIn(new, j, k)
         /\ new.mods # <<>> /\ fr.mods # <<>> /\ Len(new.mods) = Len(fr.mods) - 1 =>
              \A j \in Nat, k \in Nat : HandedIn(fr, j, k) => ImportedIn(new, j, k)
<1>1. HereNo(new) = HereNo(fr)
  BY DEF HereNo, Extent
<1>2. \A j \in Nat : ReadIn(new, j) <=> ReadIn(fr, j)
  BY <1>1 DEF ReadIn
<1>3. fr.mods = <<>> => \A j \in Nat, k \in Nat : ImportedIn(fr, j, k) => ImportedIn(new, j, k)
  BY <1>2 DEF ImportedIn
<1>4. ASSUME new.mods # <<>>, fr.mods # <<>>, Len(new.mods) = Len(fr.mods) - 1,
             NEW j \in Nat, NEW k \in Nat, HandedIn(fr, j, k)
      PROVE  ImportedIn(new, j, k)
  <2>1. PICK a \in Nat, b \in Nat : /\ a = Len(disk[fr.path.file][HereNo(fr)].mods) /\ b = Len(fr.mods)
                                    /\ Len(new.mods) = b - 1
    BY <1>4, FrameMods
  <2>2. Mod(fr) = a - b + 1 /\ Mod(new) = a - (b - 1) + 1
    BY <1>1, <2>1 DEF Mod
  <2>3. k <= a - b + 1 => k < a - (b - 1) + 1
    <3>. k \in Nat
      BY <1>4
    <3>. QED  BY ONLY a \in Nat, b \in Nat, k \in Nat
  <2>4. k <= Mod(fr) => k < Mod(new)
    BY <2>2, <2>3
  <2>5. CASE ReadIn(fr, j)
    BY <1>2, <1>4, <2>5 DEF ImportedIn
  <2>6. CASE j = HereNo(fr) /\ k <= Mod(fr)
    BY <1>1, <1>4, <2>4, <2>6 DEF ImportedIn
  <2>. QED  BY <1>4, <2>5, <2>6 DEF HandedIn
<1>. QED  BY <1>1, <1>2, <1>3, <1>4

LEMMA HandedImported ==
  ASSUME NEW fr, Frame_(fr), NEW j \in Nat, NEW k \in Nat, ImportedIn(fr, j, k)
  PROVE  HandedIn(fr, j, k)
<1>1. fr.mods # <<>> => Mod(fr) \in Nat
  BY FrameMods
<1>. QED  BY <1>1 DEF ImportedIn, HandedIn

-----------------------------------------------------------------------------
(* What has been read of every file, and what has been begun of all imports *)

Filed(inc)     == {inc[i].file : i \in 1..Len(inc)}
ReadTo(st, pl) == \A i \in 1..Len(st) : st[i].path.file = pl[1] => ReadIn(st[i], pl[2])
\* The statements that were read.
PastOf(inc, st) == {pl \in Places : pl[1] \in Filed(inc) /\ ReadTo(st, pl)}

HandedTo(st, a)   == \A i \in 1..Len(st) :
                       st[i].path.file = a[1][1] => HandedIn(st[i], a[1][2], a[2])
ImportedTo(st, a) == \A i \in 1..Len(st) : st[i].path.file = a[1][1] =>
                       IF i < Len(st) THEN HandedIn(st[i], a[1][2], a[2])
                       ELSE ImportedIn(st[i], a[1][2], a[2])
\* The modules that were handed to be consulted: that of the last file that is
\* read too, or only those of the others.
HandedOf(inc, st)   == {a \in AllAsks : a[1][1] \in Filed(inc) /\ HandedTo(st, a)}
ImportedOf(inc, st) == {a \in AllAsks : a[1][1] \in Filed(inc) /\ ImportedTo(st, a)}

LEMMA FiledGrows ==
  ASSUME NEW inc, NEW new, Len(inc) \in Nat, Len(new) \in Nat, Len(inc) <= Len(new),
         \A j \in 1..Len(inc) : new[j] = inc[j]
  PROVE  Filed(inc) \subseteq Filed(new)
<1>1. \A j \in 1..Len(inc) : j \in 1..Len(new)
  OBVIOUS
<1>. QED  BY <1>1 DEF Filed

LEMMA PlaceFields ==
  /\ \A pl \in Places : /\ pl = <<pl[1], pl[2]>> /\ pl[1] \in Source /\ pl[2] \in 1..Len(disk[pl[1]])
                        /\ Stmt(pl) = disk[pl[1]][pl[2]]
  /\ \A f \in Source : \A j \in 1..Len(disk[f]) :
       /\ <<f, j>> \in Places /\ Stmt(<<f, j>>) = disk[f][j]
       /\ <<f, j>>[1] = f /\ <<f, j>>[2] = j
BY DEF Places, At, Stmt, Source

LEMMA AskFields ==
  /\ \A a \in AllAsks : /\ a[1] \in Places /\ a[1] = <<a[1][1], a[1][2]>> /\ a = <<a[1], a[2]>>
                        /\ Stmt(a[1]).kind = "use" /\ a[2] \in 1..Len(Stmt(a[1]).mods)
                        /\ a \in Asks(a[1])
  /\ \A pl \in Places : \A k \in 1..Len(Stmt(pl).mods) :
       Stmt(pl).kind = "use" => <<pl, k>> \in AllAsks /\ <<pl, k>>[1] = pl /\ <<pl, k>>[2] = k
<1>1. ASSUME NEW a \in AllAsks
      PROVE  /\ a[1] \in Places /\ a[1] = <<a[1][1], a[1][2]>> /\ a = <<a[1], a[2]>>
             /\ Stmt(a[1]).kind = "use" /\ a[2] \in 1..Len(Stmt(a[1]).mods)
             /\ a \in Asks(a[1])
  <2>1. PICK pl \in Places : a \in Asks(pl)
    BY <1>1 DEF AllAsks
  <2>2. Stmt(pl).kind = "use"
    BY <2>1 DEF Asks
  <2>3. PICK k \in 1..Len(Stmt(pl).mods) : a = <<pl, k>>
    BY <2>1, <2>2 DEF Asks
  <2>4. a[1] = pl /\ a[2] = k
    BY <2>3
  <2>. QED  BY <2>1, <2>2, <2>3, <2>4, PlaceFields
<1>2. ASSUME NEW pl \in Places, NEW k \in 1..Len(Stmt(pl).mods), Stmt(pl).kind = "use"
      PROVE  <<pl, k>> \in AllAsks /\ <<pl, k>>[1] = pl /\ <<pl, k>>[2] = k
  BY <1>2 DEF AllAsks, Asks
<1>. QED  BY <1>1, <1>2

\* An ask's numbers.
LEMMA AskNumbers ==
  ASSUME disk \in Disks, NEW a \in AllAsks
  PROVE  /\ a[1][1] \in Source /\ a[1][2] \in 1..Len(disk[a[1][1]]) /\ a[1][2] \in Nat
         /\ a[2] \in Nat
<1>1. a[1] \in Places
  BY AskFields
<1>2. a[1][1] \in Source /\ a[1][2] \in 1..Len(disk[a[1][1]])
  BY <1>1, PlaceFields
<1>3. Stmt(a[1]) = disk[a[1][1]][a[1][2]]
  BY <1>1, PlaceFields
<1>4. Stmt(a[1]).mods \in Seq(Mods)
  BY <1>2, <1>3, AskFields, DiskTyped, StatementKinds
<1>5. Len(Stmt(a[1]).mods) \in Nat /\ Len(disk[a[1][1]]) \in Nat
  BY <1>2, <1>4, DiskTyped
<1>6. a[2] \in 1..Len(Stmt(a[1]).mods)
  BY AskFields
<1>. QED  BY <1>2, <1>5, <1>6

LEMMA ImportedHanded ==
  ASSUME Types
  PROVE  /\ ImportedOf(included, stack) \subseteq HandedOf(included, stack)
         /\ stack = <<>> => HandedOf(included, stack) \subseteq ImportedOf(included, stack)
<1>1. ASSUME NEW a \in ImportedOf(included, stack), NEW i \in 1..Len(stack),
             stack[i].path.file = a[1][1]
      PROVE  HandedIn(stack[i], a[1][2], a[2])
  <2>1. Frame_(stack[i])
    <3>1. stack[i] \in FrameType
      BY <1>1, ElementOfSeq DEF Types, StackOK
    <3>. QED  BY <1>1, <3>1 DEF Types, StackOK, Frame_
  <2>2. a \in AllAsks /\ a[1][2] \in Nat /\ a[2] \in Nat
    BY <1>1, AskNumbers DEF ImportedOf, Types
  <2>3. HandedIn(stack[i], a[1][2], a[2]) \/ ImportedIn(stack[i], a[1][2], a[2])
    BY <1>1 DEF ImportedOf, ImportedTo
  <2>. QED  BY <2>1, <2>2, <2>3, HandedImported
<1>2. ImportedOf(included, stack) \subseteq HandedOf(included, stack)
  BY <1>1 DEF ImportedOf, HandedOf, HandedTo
<1>3. stack = <<>> => HandedOf(included, stack) \subseteq ImportedOf(included, stack)
  BY DEF ImportedOf, HandedOf, ImportedTo
<1>. QED  BY <1>2, <1>3

\* More paths are known.
LEMMA MoreKnown ==
  ASSUME NEW inc, NEW new, NEW st, Filed(inc) \subseteq Filed(new)
  PROVE  HandedOf(inc, st) \subseteq HandedOf(new, st)
BY DEF HandedOf

\* The last frame is replaced by one of its file.
LEMMA BegunReplaced ==
  ASSUME Types, stack # <<>>, NEW fr \in FrameType, fr.path = Top.path
  PROVE  /\ (\A j \in Nat, k \in Nat : ImportedIn(Top, j, k) => ImportedIn(fr, j, k)) =>
              ImportedOf(included, stack) \subseteq ImportedOf(included, Replace(fr))
         /\ (\A j \in Nat, k \in Nat : HandedIn(Top, j, k) => ImportedIn(fr, j, k)) =>
              HandedOf(included, stack) \subseteq ImportedOf(included, Replace(fr))
<1>. DEFINE n == Len(stack)
<1>1. /\ n \in Nat \ {0} /\ Len(Replace(fr)) = n /\ Replace(fr)[n] = fr /\ Top = stack[n]
      /\ \A i \in 1..n - 1 : Replace(fr)[i] = stack[i]
  BY TopTyped
<1>2. \A i \in 1..n : i = n \/ (i \in 1..n - 1 /\ i < n)
  BY <1>1
<1>3. n \in 1..n /\ ~(n < n)
  BY <1>1
<1>4. \A a \in AllAsks : a[1][2] \in Nat /\ a[2] \in Nat
  BY AskNumbers DEF Types
<1>. HIDE DEF n
<1>5. ASSUME \A j \in Nat, k \in Nat : ImportedIn(Top, j, k) => ImportedIn(fr, j, k),
             NEW a \in AllAsks, ImportedTo(stack, a)
      PROVE  ImportedTo(Replace(fr), a)
  <2>1. ASSUME NEW i \in 1..n, Replace(fr)[i].path.file = a[1][1]
        PROVE  IF i < n THEN HandedIn(Replace(fr)[i], a[1][2], a[2])
               ELSE ImportedIn(Replace(fr)[i], a[1][2], a[2])
    <3>1. CASE i = n
      BY <1>1, <1>3, <1>4, <1>5, <2>1, <3>1 DEF ImportedTo, n
    <3>2. CASE i \in 1..n - 1 /\ i < n
      BY <1>1, <1>5, <2>1, <3>2 DEF ImportedTo, n
    <3>. QED  BY <1>2, <3>1, <3>2
  <2>. QED  BY <1>1, <2>1 DEF ImportedTo
<1>6. ASSUME \A j \in Nat, k \in Nat : HandedIn(Top, j, k) => ImportedIn(fr, j, k),
             NEW a \in AllAsks, HandedTo(stack, a)
      PROVE  ImportedTo(Replace(fr), a)
  <2>1. ASSUME NEW i \in 1..n, Replace(fr)[i].path.file = a[1][1]
        PROVE  IF i < n THEN HandedIn(Replace(fr)[i], a[1][2], a[2])
               ELSE ImportedIn(Replace(fr)[i], a[1][2], a[2])
    <3>1. CASE i = n
      BY <1>1, <1>3, <1>4, <1>6, <2>1, <3>1 DEF HandedTo, n
    <3>2. CASE i \in 1..n - 1 /\ i < n
      BY <1>1, <1>6, <2>1, <3>2 DEF HandedTo, n
    <3>. QED  BY <1>2, <3>1, <3>2
  <2>. QED  BY <1>1, <2>1 DEF ImportedTo
<1>. QED  BY <1>5, <1>6 DEF ImportedOf, HandedOf

LEMMA TopFrame ==
  ASSUME Types, stack # <<>>
  PROVE  /\ Frame_(Top) /\ Top = stack[Len(stack)] /\ Len(stack) \in 1..Len(stack)
         /\ Top.path.file \in Filed(included)
BY TopTyped DEF Frame_, Filed, Types

\* Files are opened once, and read by one call.
Apart(inc, st) ==
  /\ \A i, j \in 1..Len(inc) : inc[i].file = inc[j].file => i = j
  /\ \A i, j \in 1..Len(st) : st[i].path.file = st[j].path.file => i = j

Here == <<Top.path.file, HereNo(Top)>>

LEMMA PastReplaced ==
  ASSUME Types, stack # <<>>, Apart(included, stack), NEW fr \in FrameType, fr.path = Top.path
  PROVE  /\ Apart(included, Replace(fr))
         /\ (\A j \in Nat : ReadIn(fr, j) <=> ReadIn(Top, j)) =>
              PastOf(included, Replace(fr)) = PastOf(included, stack)
         /\ Top.rest # <<>> /\ (\A j \in Nat : ReadIn(fr, j) <=> ReadIn(Top, j) \/ j = HereNo(Top)) =>
              PastOf(included, Replace(fr)) = PastOf(included, stack) \cup {Here}
<1>. DEFINE n == Len(stack)
<1>1. /\ n \in Nat \ {0} /\ Len(Replace(fr)) = n /\ Replace(fr)[n] = fr /\ Top = stack[n]
      /\ \A i \in 1..n - 1 : Replace(fr)[i] = stack[i]
  BY TopTyped
<1>2. \A i \in 1..n : i = n \/ (i \in 1..n - 1 /\ i < n)
  BY <1>1
<1>3. n \in 1..n
  BY <1>1
<1>4. \A pl \in Places : pl[2] \in Nat
  <2>1. \A f \in Source : Len(disk[f]) \in Nat
    BY DiskTyped DEF Types
  <2>. QED  BY <2>1, PlaceFields
<1>5. \A i \in 1..n : Replace(fr)[i].path = stack[i].path
  BY <1>1, <1>2
<1>6. Apart(included, Replace(fr))
  BY <1>1, <1>5 DEF Apart
<1>7. ASSUME \A j \in Nat : ReadIn(fr, j) <=> ReadIn(Top, j), NEW pl \in Places
      PROVE  ReadTo(Replace(fr), pl) <=> ReadTo(stack, pl)
  BY <1>1, <1>2, <1>4, <1>5, <1>7 DEF ReadTo
<1>8. ASSUME Top.rest # <<>>, \A j \in Nat : ReadIn(fr, j) <=> ReadIn(Top, j) \/ j = HereNo(Top)
      PROVE  PastOf(included, Replace(fr)) = PastOf(included, stack) \cup {Here}
  <2>1. /\ HereNo(Top) \in 1..Extent(Top) /\ Top.path.file \in Source
        /\ Top.path.file \in Filed(included)
    BY <1>8, TopFrame, FrameNumbers
  <2>2. Here \in Places /\ Here[1] = Top.path.file /\ Here[2] = HereNo(Top)
    BY <2>1, PlaceFields DEF Here, Extent
  <2>3. ReadTo(Replace(fr), Here)
    <3>. SUFFICES ASSUME NEW i \in 1..n, stack[i].path.file = Top.path.file
                  PROVE  ReadIn(Replace(fr)[i], HereNo(Top))
      BY <1>1, <1>5, <2>2 DEF ReadTo
    <3>1. i = n
      BY <1>1, <1>3 DEF Apart
    <3>. QED  BY <1>1, <1>4, <1>8, <2>2, <3>1
  <2>4. ASSUME NEW pl \in Places, ReadTo(stack, pl)  PROVE ReadTo(Replace(fr), pl)
    BY <1>1, <1>2, <1>4, <1>5, <1>8, <2>4 DEF ReadTo
  <2>5. ASSUME NEW pl \in Places, ReadTo(Replace(fr), pl), ~ReadTo(stack, pl)  PROVE pl = Here
    <3>1. PICK i \in 1..n : stack[i].path.file = pl[1] /\ ~ReadIn(stack[i], pl[2])
      BY <2>5 DEF ReadTo
    <3>2. ReadIn(Replace(fr)[i], pl[2])
      BY <1>1, <1>5, <2>5, <3>1 DEF ReadTo
    <3>3. i = n
      BY <1>1, <1>2, <3>1, <3>2
    <3>4. pl[1] = Top.path.file /\ pl[2] = HereNo(Top)
      BY <1>1, <1>4, <1>8, <3>1, <3>2, <3>3
    <3>. QED  BY <3>4, PlaceFields DEF Here
  <2>. QED  BY <2>1, <2>2, <2>3, <2>4, <2>5 DEF PastOf
<1>. QED  BY <1>6, <1>7, <1>8 DEF PastOf

\* The statement at hand was not read.
LEMMA HereIsNext ==
  ASSUME Types, stack # <<>>, Top.rest # <<>>
  PROVE  /\ Here \in Places /\ Here \notin PastOf(included, stack) /\ Stmt(Here) = Head(Top.rest)
         /\ Here[1] = Top.path.file /\ Here[2] = HereNo(Top)
<1>1. /\ Top = stack[Len(stack)] /\ Len(stack) \in 1..Len(stack)
      /\ HereNo(Top) \in 1..Extent(Top) /\ HereNo(Top) \in Nat /\ Top.path.file \in Source
      /\ Top.rest[1] = disk[Top.path.file][HereNo(Top)]
  BY TopFrame, FrameNumbers
<1>2. Here \in Places /\ Here[1] = Top.path.file /\ Here[2] = HereNo(Top)
  BY <1>1, PlaceFields DEF Here, Extent
<1>3. Stmt(Here) = disk[Top.path.file][HereNo(Top)]
  BY <1>2, PlaceFields
<1>4. Head(Top.rest) = Top.rest[1]
  BY AtHand
<1>5. ~ReadIn(Top, HereNo(Top))
  BY <1>1 DEF ReadIn
<1>. QED  BY <1>1, <1>2, <1>3, <1>4, <1>5 DEF PastOf, ReadTo

\* What comes before it was.
LEMMA BeforeHere ==
  ASSUME Types, stack # <<>>, Apart(included, stack), Top.rest # <<>>,
         NEW j \in 1..HereNo(Top) - 1
  PROVE  /\ <<Top.path.file, j>> \in PastOf(included, stack)
         /\ Stmt(<<Top.path.file, j>>) = disk[Top.path.file][j]
<1>1. /\ Top = stack[Len(stack)] /\ Len(stack) \in 1..Len(stack) /\ Frame_(Top)
      /\ Top.path.file \in Filed(included)
  BY TopFrame
<1>2. /\ HereNo(Top) \in 1..Extent(Top) /\ Top.path.file \in Source /\ Extent(Top) \in Nat
      /\ HereNo(Top) \in Nat
  BY <1>1, FrameNumbers
<1>3. j \in 1..Extent(Top) /\ j < HereNo(Top)
  BY <1>2
<1>4. /\ <<Top.path.file, j>> \in Places /\ Stmt(<<Top.path.file, j>>) = disk[Top.path.file][j]
      /\ <<Top.path.file, j>>[1] = Top.path.file /\ <<Top.path.file, j>>[2] = j
  BY <1>2, <1>3, PlaceFields DEF Extent
<1>5. \A i \in 1..Len(stack) : stack[i].path.file = Top.path.file => stack[i] = Top
  BY <1>1 DEF Apart
<1>6. ReadTo(stack, <<Top.path.file, j>>)
  BY <1>3, <1>4, <1>5 DEF ReadTo, ReadIn
<1>. QED  BY <1>1, <1>4, <1>6 DEF PastOf

\* A file that was read to its end is left.
LEMMA PastPopped ==
  ASSUME Types, stack # <<>>, Apart(included, stack), Top.rest = <<>>
  PROVE  /\ Apart(included, Front(stack))
         /\ PastOf(included, Front(stack)) = PastOf(included, stack)
         /\ ImportedOf(included, stack) \subseteq HandedOf(included, Front(stack))
<1>. DEFINE n == Len(stack)
<1>1. /\ n \in Nat \ {0} /\ Len(Front(stack)) = n - 1 /\ Top = stack[n]
      /\ \A i \in 1..n - 1 : Front(stack)[i] = stack[i]
  BY TopTyped
<1>2. \A i \in 1..n : i = n \/ i \in 1..n - 1
  BY <1>1
<1>3. \A i \in 1..n - 1 : i \in 1..n /\ i < n
  BY <1>1
<1>4. Apart(included, Front(stack))
  BY <1>1, <1>3 DEF Apart
<1>5. \A pl \in Places : pl[1] = Top.path.file => ReadIn(Top, pl[2])
  <2>. SUFFICES ASSUME NEW pl \in Places, pl[1] = Top.path.file  PROVE ReadIn(Top, pl[2])
    OBVIOUS
  <2>1. HereNo(Top) = Extent(Top) + 1 /\ Extent(Top) \in Nat
    BY TopFrame, FrameNumbers
  <2>2. pl[2] \in 1..Extent(Top)
    BY PlaceFields DEF Extent
  <2>. QED  BY <2>1, <2>2 DEF ReadIn
<1>6. ASSUME NEW pl \in Places  PROVE ReadTo(Front(stack), pl) <=> ReadTo(stack, pl)
  BY <1>1, <1>2, <1>3, <1>5, <1>6 DEF ReadTo
<1>7. ASSUME NEW a, ImportedTo(stack, a)  PROVE HandedTo(Front(stack), a)
  BY <1>1, <1>3, <1>7 DEF ImportedTo, HandedTo
<1>. QED  BY <1>4, <1>6, <1>7 DEF PastOf, ImportedOf, HandedOf

\* A file is opened.
LEMMA PastPushed ==
  ASSUME Types, Apart(included, stack), next \in Path, next.file \in Source,
         next.file \notin Filed(included)
  PROVE  LET inc == Append(included, next)
             st  == Append(stack, Frame(next)) IN
         /\ Apart(inc, st) /\ PastOf(inc, st) = PastOf(included, stack)
         /\ HandedOf(included, stack) \subseteq ImportedOf(inc, st)
<1>. PICK inc : inc = Append(included, next)
  OBVIOUS
<1>. PICK st : st = Append(stack, Frame(next))
  OBVIOUS
<1>. DEFINE n == Len(stack)
            m == Len(included)
            fr == Frame(next)
<1>1. /\ stack \in Seq(FrameType) /\ n \in Nat /\ included \in Seq(Path) /\ m \in Nat
      /\ disk[next.file] \in Seq(Statements) /\ Len(disk[next.file]) \in Nat
      /\ \A i \in 1..n : stack[i].path.file \in Filed(included)
  <2>1. stack \in Seq(FrameType) /\ included \in Seq(Path)
    BY DEF Types, StackOK, IncludedOK
  <2>2. \A i \in 1..n : stack[i].path.file \in Filed(included)
    BY DEF Types, StackOK, Filed
  <2>3. disk[next.file] \in Seq(Statements) /\ Len(disk[next.file]) \in Nat
    BY DiskTyped DEF Types
  <2>. QED  BY <2>1, <2>2, <2>3
<1>2. fr.path = next /\ fr.rest = disk[next.file]
  BY DEF Frame
<1>3. HereNo(fr) = 1
  <2>1. PICK a \in Nat : a = Extent(fr) /\ a = Len(fr.rest)
    BY <1>1, <1>2 DEF Extent
  <2>. QED  BY <2>1 DEF HereNo
<1>. HIDE DEF fr
<1>4. /\ Len(st) = n + 1 /\ st[n + 1] = fr /\ \A i \in 1..n : st[i] = stack[i]
  BY <1>1, AppendProperties DEF fr
<1>5. /\ Len(inc) = m + 1 /\ inc[m + 1] = next /\ \A i \in 1..m : inc[i] = included[i]
  BY <1>1, AppendProperties
<1>6. /\ \A i \in 1..n + 1 : i = n + 1 \/ (i \in 1..n /\ i < n + 1)
      /\ \A i \in 1..m + 1 : i = m + 1 \/ i \in 1..m
      /\ n + 1 \in 1..n + 1 /\ m + 1 \in 1..m + 1
      /\ \A i \in 1..n : i \in 1..n + 1 /\ i < n + 1
      /\ \A i \in 1..m : i \in 1..m + 1
  BY <1>1
<1>7. Filed(inc) = Filed(included) \cup {next.file}
  BY <1>5, <1>6 DEF Filed
<1>8. Apart(inc, st)
  <2>1. ASSUME NEW i \in 1..m + 1, NEW j \in 1..m + 1, inc[i].file = inc[j].file  PROVE i = j
    <3>1. \A k \in 1..m : included[k].file # next.file
      BY DEF Filed
    <3>. QED  BY <1>5, <1>6, <2>1, <3>1 DEF Apart
  <2>2. ASSUME NEW i \in 1..n + 1, NEW j \in 1..n + 1, st[i].path.file = st[j].path.file  PROVE i = j
    <3>1. \A k \in 1..n : stack[k].path.file # next.file
      BY <1>1
    <3>. QED  BY <1>2, <1>4, <1>6, <2>2, <3>1 DEF Apart
  <2>. QED  BY <1>4, <1>5, <2>1, <2>2 DEF Apart
<1>9. ASSUME NEW pl \in PastOf(inc, st)  PROVE pl \in PastOf(included, stack)
  <2>1. pl \in Places /\ pl[1] \in Filed(inc) /\ ReadTo(st, pl)
    BY <1>9 DEF PastOf
  <2>2. pl[1] # next.file
    <3>. SUFFICES ASSUME pl[1] = next.file  PROVE FALSE
      OBVIOUS
    <3>1. ReadIn(fr, pl[2])
      BY <1>2, <1>4, <1>6, <2>1 DEF ReadTo
    <3>2. pl[2] \in 1..Len(disk[next.file])
      BY <2>1, PlaceFields
    <3>. QED  BY <1>1, <1>3, <3>1, <3>2 DEF ReadIn
  <2>3. ReadTo(stack, pl)
    BY <1>4, <1>6, <2>1 DEF ReadTo
  <2>. QED  BY <1>7, <2>1, <2>2, <2>3 DEF PastOf
<1>10. ASSUME NEW pl \in PastOf(included, stack)  PROVE pl \in PastOf(inc, st)
  <2>1. pl \in Places /\ pl[1] \in Filed(included) /\ ReadTo(stack, pl)
    BY <1>10 DEF PastOf
  <2>2. pl[1] # next.file
    BY <2>1
  <2>3. ReadTo(st, pl)
    BY <1>2, <1>4, <1>6, <2>1, <2>2 DEF ReadTo
  <2>. QED  BY <1>7, <2>1, <2>3 DEF PastOf
<1>11. ASSUME NEW a \in HandedOf(included, stack)  PROVE a \in ImportedOf(inc, st)
  <2>1. a \in AllAsks /\ a[1][1] \in Filed(included) /\ HandedTo(stack, a)
    BY <1>11 DEF HandedOf
  <2>2. a[1][1] # next.file
    BY <2>1
  <2>3. ImportedTo(st, a)
    <3>. SUFFICES ASSUME NEW i \in 1..n + 1, st[i].path.file = a[1][1]
                  PROVE  IF i < n + 1 THEN HandedIn(st[i], a[1][2], a[2])
                         ELSE ImportedIn(st[i], a[1][2], a[2])
      BY <1>4 DEF ImportedTo
    <3>1. i \in 1..n /\ i < n + 1 /\ st[i] = stack[i]
      BY <1>2, <1>4, <1>6, <2>2
    <3>. QED  BY <2>1, <3>1 DEF HandedTo
  <2>. QED  BY <1>7, <2>1, <2>3 DEF ImportedOf
<1>. QED  BY <1>8, <1>9, <1>10, <1>11

-----------------------------------------------------------------------------
(* Sound sources that import each other as a tree *)

\* A file asked for by the user.
Rooted(p) == p.file \in Roots /\ p.hops = 0
\* The imports that were begun.
Begun(inc, st, nx, ret) ==
  IF nx # NoPath \/ ret # "none" THEN HandedOf(inc, st) ELSE ImportedOf(inc, st)
Asked(p, asks) == \E a \in asks : Opens(TargetOf(a), p.file)
\* Every file known was asked for, or an import that was begun opens it.
Came(inc, asks) == \A i \in 1..Len(inc) : Rooted(inc[i]) \/ Asked(inc[i], asks)
\* So does the next; what an import opens is not known yet.
Coming(inc, st, nx) ==
  nx # NoPath => IF st = <<>> THEN Rooted(nx)
                 ELSE /\ ~Hollow(nx.file) /\ Asked(nx, HandedOf(inc, st))
                      /\ \A g \in Files : Opens(nx.file, g) => g \notin Filed(inc)
\* The names there are those declared by what was read.
Declaring == {"header", "template", "param"}
Declared(past, nm) ==
  /\ \A n \in DOMAIN nm : \E pl \in past : Declares(Stmt(pl), n)
  /\ \A pl \in past : Stmt(pl).kind \in Declaring => Stmt(pl).name \in DOMAIN nm
\* The clauses read were added.
ClauseOf(n, p) == [name |-> n, by |-> p]
Added(cl, c) == \E k \in 1..Len(cl) : cl[k] = c
Claused(past, inc, cl) ==
  \A pl \in past : Stmt(pl).kind = "clause" =>
    \A i \in 1..Len(inc) : inc[i].file = pl[1] => Added(cl, ClauseOf(Stmt(pl).name, inc[i]))

Whole(inc, st, nx, ret, nm, cl) ==
  /\ Apart(inc, st) /\ (ret = "failed" => st = <<>>)
  /\ Came(inc, Begun(inc, st, nx, ret)) /\ Coming(inc, st, nx)
  /\ Declared(PastOf(inc, st), nm)
  /\ cl \in Seq([name : STRING, by : Path]) /\ Claused(PastOf(inc, st), inc, cl)

Loads ==
  Sound /\ Tree => abandoned = {} /\ Whole(included, stack, next, returned, names, clauses)

LEMMA LoadsNext ==
  ASSUME UNCHANGED disk,
         Sound /\ Tree =>
           abandoned' = {} /\ Whole(included', stack', next', returned', names', clauses')
  PROVE  Loads'
<1>1. Places' = Places /\ \A pl : Stmt(pl)' = Stmt(pl)
  BY DEF Places, At, Stmt
<1>2. /\ \A pl : Asks(pl)' = Asks(pl)
      /\ \A a : TargetOf(a)' = TargetOf(a)
  BY <1>1 DEF Asks, TargetOf
<1>3. AllAsks' = AllAsks
  BY <1>1, <1>2 DEF AllAsks
<1>4. \A f : To(f)' = To(f)
  BY <1>2, <1>3 DEF To, Opens
<1>5. Tree' <=> Tree
  BY <1>4 DEF Tree, Roots, Opens
<1>6. Sound' <=> Sound
  BY <1>1, <1>2 DEF Sound, Declares, Hollow
<1>7. /\ \A fr, j : ReadIn(fr, j)' <=> ReadIn(fr, j)
      /\ \A fr, j, k : /\ HandedIn(fr, j, k)' <=> HandedIn(fr, j, k)
                       /\ ImportedIn(fr, j, k)' <=> ImportedIn(fr, j, k)
  BY DEF ReadIn, HandedIn, ImportedIn, HereNo, Extent, Mod
<1>8. /\ \A st, pl : ReadTo(st, pl)' <=> ReadTo(st, pl)
      /\ \A st, a : HandedTo(st, a)' <=> HandedTo(st, a)
      /\ \A st, a : ImportedTo(st, a)' <=> ImportedTo(st, a)
  BY <1>7 DEF ReadTo, HandedTo, ImportedTo
<1>9. \A inc, st : /\ PastOf(inc, st)' = PastOf(inc, st)
                   /\ HandedOf(inc, st)' = HandedOf(inc, st)
                   /\ ImportedOf(inc, st)' = ImportedOf(inc, st)
  BY <1>1, <1>3, <1>8 DEF PastOf, HandedOf, ImportedOf
<1>10. /\ \A p, asks : Asked(p, asks)' <=> Asked(p, asks)
       /\ \A past, nm : Declared(past, nm)' <=> Declared(past, nm)
       /\ \A past, inc, cl : Claused(past, inc, cl)' <=> Claused(past, inc, cl)
       /\ \A inc, st, nx, ret : Begun(inc, st, nx, ret)' = Begun(inc, st, nx, ret)
  BY <1>1, <1>2, <1>9 DEF Asked, Declared, Claused, Begun, Declares
<1>11. /\ \A inc, asks : Came(inc, asks)' <=> Came(inc, asks)
       /\ \A inc, st, nx : Coming(inc, st, nx)' <=> Coming(inc, st, nx)
  BY <1>9, <1>10 DEF Came, Coming
<1>12. \A inc, st, nx, ret, nm, cl :
         Whole(inc, st, nx, ret, nm, cl)' <=> Whole(inc, st, nx, ret, nm, cl)
  BY <1>9, <1>10, <1>11 DEF Whole
<1>. QED  BY <1>5, <1>6, <1>12 DEF Loads

\* A file is opened by one import or asked for.
LEMMA OpenedOnce ==
  ASSUME Tree, NEW f \in Files, NEW a \in AllAsks, Opens(TargetOf(a), f)
  PROVE  f \notin Roots /\ \A b \in AllAsks : Opens(TargetOf(b), f) => a = b
<1>1. \A b \in AllAsks : Opens(TargetOf(b), f) => b \in To(f)
  BY DEF To
<1>. QED  BY <1>1 DEF Tree

LEMMA SoundAsks ==
  ASSUME Sound, NEW a \in AllAsks
  PROVE  TargetOf(a) # NoFile /\ ~Hollow(TargetOf(a))
BY AskFields DEF Sound

\* The module at hand.
AskNow == <<Here, Mod(Top)>>

LEMMA AskAtHand ==
  ASSUME Types, stack # <<>>, Top.mods # <<>>, Apart(included, stack)
  PROVE  /\ AskNow \in HandedOf(included, stack) /\ AskNow \notin ImportedOf(included, stack)
         /\ AskNow \in AllAsks
         /\ address = Top.path => TargetOf(AskNow) = Found(Head(Top.mods))
<1>. DEFINE n == Len(stack)
<1>1. /\ Frame_(Top) /\ Top = stack[n] /\ n \in 1..n /\ Top.path.file \in Filed(included)
      /\ n \in Nat
  BY TopFrame, TopTyped
<1>2. /\ Top.rest # <<>> /\ Top.rest[1].kind = "use" /\ Mod(Top) \in 1..Len(Top.rest[1].mods)
      /\ Top.mods \in Seq(Mods) /\ Top.mods[1] = Top.rest[1].mods[Mod(Top)]
      /\ Top.rest[1].mods \in Seq(Mods)
  BY <1>1, FrameMods
<1>3. /\ Here \in Places /\ Here[1] = Top.path.file /\ Here[2] = HereNo(Top)
      /\ Stmt(Here) = Top.rest[1] /\ HereNo(Top) \in Nat
  BY <1>1, <1>2, HereIsNext, AtHand, FrameNumbers
<1>4. AskNow \in AllAsks /\ AskNow[1] = Here /\ AskNow[2] = Mod(Top)
  BY <1>2, <1>3, AskFields DEF AskNow
<1>5. \A i \in 1..n : stack[i].path.file = Here[1] => i = n
  BY <1>1, <1>3 DEF Apart
<1>6. Mod(Top) \in Nat /\ ~(n < n) /\ ~(HereNo(Top) < HereNo(Top)) /\ Mod(Top) <= Mod(Top)
      /\ ~(Mod(Top) < Mod(Top))
  <2>1. Len(Top.rest[1].mods) \in Nat
    BY <1>2
  <2>2. Mod(Top) \in Nat
    BY <1>2, <2>1
  <2>. QED  BY <1>1, <1>3, <2>2
<1>7. HandedIn(Top, HereNo(Top), Mod(Top)) /\ ~ImportedIn(Top, HereNo(Top), Mod(Top))
  BY <1>6 DEF HandedIn, ImportedIn, ReadIn
<1>8. HandedTo(stack, AskNow)
  BY <1>1, <1>3, <1>4, <1>5, <1>7 DEF HandedTo
<1>9. ~ImportedTo(stack, AskNow)
  BY <1>1, <1>3, <1>4, <1>6, <1>7 DEF ImportedTo
<1>10. ASSUME address = Top.path  PROVE TargetOf(AskNow) = Found(Head(Top.mods))
  <2>1. Head(Top.mods) = Stmt(AskNow[1]).mods[AskNow[2]]
    BY <1>2, <1>3, <1>4, HeadTailProperties
  <2>2. AskNow[1][1] = address.file
    BY <1>3, <1>4, <1>10
  <2>. QED  BY <2>1, <2>2 DEF TargetOf, Found
<1>. QED  BY <1>1, <1>3, <1>4, <1>8, <1>9, <1>10 DEF HandedOf, ImportedOf

\* What an invariant under sound sources says of a step.
Inv == Base /\ Loads

LEMMA InvParts ==
  ASSUME Inv, Sound, Tree
  PROVE  /\ Types /\ Addresses /\ abandoned = {} /\ Apart(included, stack)
         /\ returned = "failed" => stack = <<>>
         /\ Came(included, Begun(included, stack, next, returned))
         /\ Coming(included, stack, next)
         /\ Declared(PastOf(included, stack), names)
         /\ clauses \in Seq([name : STRING, by : Path])
         /\ Claused(PastOf(included, stack), included, clauses)
BY DEF Inv, Base, Loads, Whole

LEMMA CameMore ==
  ASSUME NEW inc, NEW a, NEW b, Came(inc, a), a \subseteq b
  PROVE  Came(inc, b)
BY DEF Came, Asked

LEMMA AskLoads == ASSUME Inv, NEW f \in Started, Ask(f)  PROVE Loads'
<1>1. /\ stack = <<>> /\ next = NoPath /\ returned = "none" /\ next' = PathTo(f, 0)
      /\ UNCHANGED <<disk, included, stack, returned, names, clauses, abandoned>>
  BY DEF Ask
<1>2. f \in Files /\ next' # NoPath
  BY <1>1, Constants
<1>. SUFFICES ASSUME Sound, Tree
              PROVE  abandoned' = {} /\ Whole(included', stack', next', returned', names', clauses')
  BY <1>1, LoadsNext
<1>3. Came(included, HandedOf(included, stack))
  BY <1>1, InvParts, ImportedHanded, CameMore DEF Begun
<1>4. Rooted(next')
  BY <1>1, <1>2 DEF Rooted, Roots, Opens, PathTo
<1>. QED  BY <1>1, <1>2, <1>3, <1>4, InvParts DEF Whole, Begun, Coming

LEMMA AlreadyConsultedLoads == ASSUME Inv, AlreadyConsulted  PROVE Loads'
<1>1. /\ next # NoPath /\ Known(next) /\ next' = NoPath /\ returned' = "failed"
      /\ UNCHANGED <<disk, included, stack, names, clauses, abandoned>>
  BY DEF AlreadyConsulted, session
<1>. SUFFICES ASSUME Sound, Tree
              PROVE  abandoned' = {} /\ Whole(included', stack', next', returned', names', clauses')
  BY <1>1, LoadsNext
<1>2. stack = <<>>
  <2>1. next.file \in Filed(included) /\ next.file \in Files
    BY <1>1, InvParts, Constants DEF Known, Filed, Types
  <2>. QED  BY <1>1, <2>1, InvParts DEF Coming, Opens
<1>3. Begun(included', stack', next', returned') = Begun(included, stack, next, returned)
  BY <1>1 DEF Begun
<1>. QED  BY <1>1, <1>2, <1>3, InvParts DEF Whole, Coming

LEMMA OverrunLoads == ASSUME Inv, Overrun  PROVE Loads'
<1>1. UNCHANGED <<disk, included, next, stack, returned, names, clauses, abandoned>>
  BY DEF Overrun, session
<1>. QED  BY <1>1, LoadsNext DEF Inv, Loads

\* Only the package of that name opens what is a package.
LEMMA OpensPackage ==
  ASSUME NEW f \in Packages, NEW g, Opens(g, f)
  PROVE  g = f
BY Constants DEF Opens, Source

\* The file to be consulted was not opened yet.
LEMMA NotFiled ==
  ASSUME Inv, Sound, Tree, next \in Path, ~Known(next)
  PROVE  next.file \notin Filed(included)
<1>. SUFFICES ASSUME NEW i \in 1..Len(included), included[i].file = next.file  PROVE FALSE
  BY DEF Filed
<1>1. next # NoPath /\ next.file \in Files /\ included[i] \in Path
  BY Constants, ElementOfSeq, InvParts DEF Types, IncludedOK
<1>2. CASE stack # <<>>
  BY <1>1, <1>2, InvParts DEF Coming, Opens, Filed
<1>3. CASE stack = <<>>
  <2>1. Rooted(next)
    BY <1>1, <1>3, InvParts DEF Coming
  <2>2. CASE Rooted(included[i])
    <3>1. included[i] = next
      BY <1>1, <2>1, <2>2 DEF Rooted, Path
    <3>. QED  BY <3>1 DEF Known
  <2>3. CASE Asked(included[i], Begun(included, stack, next, returned))
    <3>1. PICK a \in HandedOf(included, stack) : Opens(TargetOf(a), next.file)
      BY <1>1, <2>3 DEF Asked, Begun
    <3>2. a \in AllAsks
      BY DEF HandedOf
    <3>. QED  BY <1>1, <2>1, <3>1, <3>2, OpenedOnce DEF Rooted
  <2>. QED  BY <2>2, <2>3, InvParts DEF Came
<1>. QED  BY <1>2, <1>3

\* One more path is known.
LEMMA OneMore ==
  ASSUME Inv, Sound, Tree, Opened
  PROVE  /\ next \in Path /\ ~Known(next) /\ next.file \notin Filed(included)
         /\ Apart(included', stack) /\ Filed(included') = Filed(included) \cup {next.file}
         /\ Came(included', HandedOf(included', stack))
         /\ HandedOf(included, stack) \subseteq HandedOf(included', stack)
         /\ Claused(PastOf(included, stack), included', clauses)
<1>. DEFINE m == Len(included)
<1>1. /\ next \in Path /\ ~Known(next) /\ m \in Nat /\ Len(included') = m + 1
      /\ included'[m + 1] = next /\ \A j \in 1..m : included'[j] = included[j]
  BY Opening DEF Inv, Base
<1>2. next.file \notin Filed(included)
  BY <1>1, NotFiled
<1>3. /\ \A i \in 1..m + 1 : i = m + 1 \/ i \in 1..m
      /\ m + 1 \in 1..m + 1 /\ \A i \in 1..m : i \in 1..m + 1
  BY <1>1
<1>4. Filed(included') = Filed(included) \cup {next.file}
  BY <1>1, <1>3 DEF Filed
<1>5. \A j \in 1..m : included[j].file # next.file
  BY <1>2 DEF Filed
<1>6. Apart(included', stack)
  <2>1. ASSUME NEW i \in 1..m + 1, NEW j \in 1..m + 1, included'[i].file = included'[j].file
        PROVE  i = j
    BY <1>1, <1>3, <1>5, <2>1, InvParts DEF Apart
  <2>2. Apart(included, stack)
    BY InvParts
  <2>. QED  BY <1>1, <2>1, <2>2 DEF Apart
<1>7. HandedOf(included, stack) \subseteq HandedOf(included', stack)
  BY <1>4, MoreKnown
<1>8. next # NoPath
  BY <1>1, Constants
<1>9. Came(included, HandedOf(included', stack))
  <2>1. Came(included, HandedOf(included, stack))
    BY <1>8, InvParts DEF Begun
  <2>. QED  BY <1>7, <2>1, CameMore
<1>10. Rooted(next) \/ Asked(next, HandedOf(included', stack))
  BY <1>7, <1>8, InvParts DEF Coming, Asked
<1>11. Came(included', HandedOf(included', stack))
  BY <1>1, <1>3, <1>9, <1>10 DEF Came
<1>12. Claused(PastOf(included, stack), included', clauses)
  <2>. SUFFICES ASSUME NEW pl \in PastOf(included, stack), Stmt(pl).kind = "clause",
                       NEW i \in 1..m + 1, included'[i].file = pl[1]
                PROVE  Added(clauses, ClauseOf(Stmt(pl).name, included'[i]))
    BY <1>1 DEF Claused
  <2>1. pl[1] \in Filed(included)
    BY DEF PastOf
  <2>2. i \in 1..m /\ included'[i] = included[i]
    BY <1>1, <1>2, <1>3, <2>1
  <2>. QED  BY <2>2, InvParts DEF Claused
<1>. QED  BY <1>1, <1>2, <1>4, <1>6, <1>7, <1>11, <1>12

LEMMA OpenPackageLoads == ASSUME Inv, OpenPackage  PROVE Loads'
<1>1. /\ Opened /\ next.file \in Packages /\ next # NoPath
      /\ UNCHANGED <<disk, stack, names, clauses, abandoned>>
      /\ IF InitFile[next.file] = NoFile
           THEN next' = NoPath /\ returned' = "failed"
           ELSE next' = PathTo(InitFile[next.file], next.hops) /\ returned' = returned
  BY DEF OpenPackage, session, Opened
<1>. SUFFICES ASSUME Sound, Tree
              PROVE  abandoned' = {} /\ Whole(included', stack', next', returned', names', clauses')
  BY <1>1, LoadsNext
<1>2. /\ next \in Path /\ next.file \notin Filed(included)
      /\ Apart(included', stack) /\ Filed(included') = Filed(included) \cup {next.file}
      /\ Came(included', HandedOf(included', stack))
      /\ HandedOf(included, stack) \subseteq HandedOf(included', stack)
      /\ Claused(PastOf(included, stack), included', clauses)
  BY <1>1, OneMore
<1>3. PastOf(included', stack) = PastOf(included, stack)
  <2>1. \A pl \in Places : pl[1] # next.file
    BY <1>1, PlaceFields DEF Source
  <2>. QED  BY <1>2, <2>1 DEF PastOf
<1>4. Coming(included, stack, next)
  BY InvParts
<1>5. CASE InitFile[next.file] = NoFile
  <2>1. stack = <<>> /\ next' = NoPath /\ returned' = "failed"
    BY <1>1, <1>4, <1>5 DEF Coming, Hollow
  <2>. QED  BY <1>1, <1>2, <1>3, <2>1, InvParts DEF Whole, Begun, Coming
<1>6. CASE InitFile[next.file] # NoFile
  <2>. DEFINE f == InitFile[next.file]
  <2>1. /\ next' = PathTo(f, next.hops) /\ returned' = returned /\ f \in Files /\ f \notin Packages
        /\ next' # NoPath /\ next'.file = f /\ next'.hops = next.hops
    BY <1>1, <1>2, <1>6, Constants DEF Source, PathTo
  <2>2. returned = "none"
    BY <1>1, Opening DEF Inv, Base
  <2>3. Opens(next.file, f)
    BY <1>1 DEF Opens
  <2>4. ASSUME stack = <<>>  PROVE Rooted(next')
    <3>1. Rooted(next)
      BY <1>1, <1>4, <2>4 DEF Coming
    <3>2. PICK g \in Started : Opens(g, next.file)
      BY <3>1 DEF Rooted, Roots
    <3>3. g = next.file
      BY <1>1, <3>2, OpensPackage
    <3>. QED  BY <2>1, <2>3, <3>1, <3>2, <3>3 DEF Rooted, Roots
  <2>5. ASSUME stack # <<>>
        PROVE  /\ ~Hollow(next'.file) /\ Asked(next', HandedOf(included', stack))
               /\ \A g \in Files : Opens(next'.file, g) => g \notin Filed(included')
    <3>1. /\ Asked(next, HandedOf(included, stack))
          /\ \A g \in Files : Opens(next.file, g) => g \notin Filed(included)
      BY <1>1, <1>4, <2>5 DEF Coming
    <3>2. PICK a \in HandedOf(included, stack) : Opens(TargetOf(a), next.file)
      BY <3>1 DEF Asked
    <3>3. TargetOf(a) = next.file
      BY <1>1, <3>2, OpensPackage
    <3>4. Asked(next', HandedOf(included', stack))
      BY <1>2, <2>1, <2>3, <3>3 DEF Asked
    <3>5. f \notin Filed(included')
      BY <1>1, <1>2, <2>1, <2>3, <3>1
    <3>6. \A g \in Files : Opens(f, g) => g = f
      BY <2>1 DEF Opens
    <3>. QED  BY <2>1, <3>4, <3>5, <3>6 DEF Hollow
  <2>. HIDE DEF f
  <2>6. Coming(included', stack, next')
    BY <2>4, <2>5 DEF Coming
  <2>. QED  BY <1>1, <1>2, <1>3, <2>1, <2>2, <2>6, InvParts DEF Whole, Begun
<1>. QED  BY <1>5, <1>6

LEMMA OpenSourceLoads == ASSUME Inv, OpenSource  PROVE Loads'
<1>1. /\ Opened /\ next.file \notin Packages /\ next # NoPath
      /\ stack' = Append(stack, Frame(next)) /\ next' = NoPath
      /\ UNCHANGED <<disk, returned, names, clauses, abandoned>>
  BY DEF OpenSource, session, Opened
<1>2. included' = Append(included, next) /\ returned = "none" /\ next \in Path /\ Types
  BY <1>1, Opening DEF Inv, Base
<1>. SUFFICES ASSUME Sound, Tree
              PROVE  abandoned' = {} /\ Whole(included', stack', next', returned', names', clauses')
  BY <1>1, LoadsNext
<1>3. /\ next.file \notin Filed(included)
      /\ Claused(PastOf(included, stack), included', clauses)
  BY <1>1, OneMore
<1>4. next.file \in Source
  BY <1>1, <1>2, Constants DEF Source
<1>5. /\ Apart(included', stack') /\ PastOf(included', stack') = PastOf(included, stack)
      /\ HandedOf(included, stack) \subseteq ImportedOf(included', stack')
  BY <1>1, <1>2, <1>3, <1>4, PastPushed, InvParts
<1>6. Came(included', ImportedOf(included', stack'))
  <2>1. Came(included, HandedOf(included, stack))
    BY <1>1, InvParts DEF Begun
  <2>2. Came(included, ImportedOf(included', stack'))
    BY <1>5, <2>1, CameMore
  <2>3. Rooted(next) \/ Asked(next, ImportedOf(included', stack'))
    BY <1>1, <1>5, InvParts DEF Coming, Asked
  <2>4. /\ Len(included') = Len(included) + 1 /\ Len(included) \in Nat
        /\ included'[Len(included) + 1] = next
        /\ \A j \in 1..Len(included) : included'[j] = included[j]
    BY <1>1, <1>2, Opening
  <2>5. \A i \in 1..Len(included) + 1 : i = Len(included) + 1 \/ i \in 1..Len(included)
    BY <2>4
  <2>. QED  BY <2>2, <2>3, <2>4, <2>5 DEF Came
<1>. QED  BY <1>1, <1>2, <1>3, <1>5, <1>6, InvParts DEF Whole, Begun, Coming

\* A statement succeeds.
LEMMA AppliedLoads ==
  ASSUME Inv, Sound, Tree, Ready, Top.rest # <<>>, Applied,
         Declared(PastOf(included, stack) \cup {Here}, names'),
         clauses' \in Seq([name : STRING, by : Path]),
         Claused(PastOf(included, stack) \cup {Here}, included, clauses')
  PROVE  abandoned' = {} /\ Whole(included', stack', next', returned', names', clauses')
<1>1. /\ stack # <<>> /\ next = NoPath /\ returned = "none" /\ Top.mods = <<>>
      /\ stack' = Replace(Next_(Top)) /\ UNCHANGED <<included, next, returned, abandoned>>
  BY DEF Ready, Reading, Applied, NoMods
<1>2. Types /\ Apart(included, stack) /\ Frame_(Top)
  BY <1>1, InvParts, TopFrame
<1>3. Next_(Top) \in FrameType /\ Next_(Top).path = Top.path
  BY <1>2, FrameAdvances DEF Frame_
<1>4. /\ \A j \in Nat : ReadIn(Next_(Top), j) <=> ReadIn(Top, j) \/ j = HereNo(Top)
      /\ \A j \in Nat, k \in Nat : HandedIn(Top, j, k) => ImportedIn(Next_(Top), j, k)
  BY <1>2, ReadAdvances
<1>5. \A j \in Nat, k \in Nat : ImportedIn(Top, j, k) => ImportedIn(Next_(Top), j, k)
  BY <1>2, <1>4, HandedImported
<1>6. ImportedOf(included, stack) \subseteq ImportedOf(included, stack')
  BY <1>1, <1>2, <1>3, <1>5, BegunReplaced
<1>7. /\ Apart(included, stack')
      /\ PastOf(included, stack') = PastOf(included, stack) \cup {Here}
  BY <1>1, <1>2, <1>3, <1>4, PastReplaced
<1>8. Came(included, ImportedOf(included, stack'))
  <2>1. Came(included, ImportedOf(included, stack))
    BY <1>1, InvParts DEF Begun
  <2>. QED  BY <1>6, <2>1, CameMore
<1>. QED  BY <1>1, <1>7, <1>8, InvParts DEF Whole, Begun, Coming

LEMMA AddedStays ==
  ASSUME NEW S, NEW cl \in Seq(S), NEW c \in S
  PROVE  /\ Append(cl, c) \in Seq(S) /\ Added(Append(cl, c), c)
         /\ \A x : Added(cl, x) => Added(Append(cl, c), x)
<1>1. /\ Append(cl, c) \in Seq(S) /\ Len(Append(cl, c)) = Len(cl) + 1 /\ Append(cl, c)[Len(cl) + 1] = c
      /\ \A i \in 1..Len(cl) : Append(cl, c)[i] = cl[i]
      /\ Len(cl) \in Nat
  BY AppendProperties
<1>2. Len(cl) + 1 \in 1..Len(cl) + 1 /\ \A i \in 1..Len(cl) : i \in 1..Len(cl) + 1
  BY <1>1
<1>. QED  BY <1>1, <1>2 DEF Added

\* Only a clause adds a clause.
LEMMA ClausedHere ==
  ASSUME NEW past, NEW inc, NEW old, NEW cl, NEW pl, Claused(past, inc, old),
         \A x : Added(old, x) => Added(cl, x),
         Stmt(pl).kind = "clause" => \A i \in 1..Len(inc) :
           inc[i].file = pl[1] => Added(cl, ClauseOf(Stmt(pl).name, inc[i]))
  PROVE  Claused(past \cup {pl}, inc, cl)
BY DEF Claused

\* The name a statement declares is that of no other.
LEMMA NewName ==
  ASSUME Inv, Sound, Tree, stack # <<>>, Top.rest # <<>>, Head(Top.rest).kind \in Declaring
  PROVE  Named \notin DOMAIN names
<1>. SUFFICES ASSUME Named \in DOMAIN names  PROVE FALSE
  OBVIOUS
<1>1. PICK pl \in PastOf(included, stack) : Declares(Stmt(pl), Named)
  BY InvParts DEF Declared
<1>2. Here \in Places /\ Here # pl /\ Stmt(Here) = Head(Top.rest) /\ pl \in Places
  BY HereIsNext, InvParts DEF PastOf
<1>. QED  BY <1>1, <1>2 DEF Sound, Named, Declaring

\* What is declared above the statement at hand is there.
LEMMA DeclaredAbove ==
  ASSUME Inv, Sound, Tree, stack # <<>>, Top.rest # <<>>, NEW n,
         \E j \in 1..Here[2] - 1 : Declares(disk[Here[1]][j], n)
  PROVE  n \in DOMAIN names
<1>1. Here[1] = Top.path.file /\ Here[2] = HereNo(Top)
  BY HereIsNext, InvParts
<1>2. PICK j \in 1..HereNo(Top) - 1 : Declares(disk[Top.path.file][j], n)
  BY <1>1
<1>3. /\ <<Top.path.file, j>> \in PastOf(included, stack)
      /\ Stmt(<<Top.path.file, j>>) = disk[Top.path.file][j]
  BY BeforeHere, InvParts
<1>4. PICK pl \in PastOf(included, stack) : Declares(Stmt(pl), n)
  BY <1>2, <1>3
<1>. QED  BY <1>4, InvParts DEF Declared, Declares, Declaring

\* The names after a statement that declares one, and after one that does not.
LEMMA DeclaredHere ==
  ASSUME NEW past, NEW pl, NEW nm, NEW new, Declared(past, nm),
         \/ Stmt(pl).kind \notin Declaring /\ new = nm
         \/ Stmt(pl).kind \in Declaring /\ DOMAIN new = DOMAIN nm \cup {Stmt(pl).name}
  PROVE  Declared(past \cup {pl}, new)
BY DEF Declared, Declares, Declaring

\* The statement at hand.
LEMMA AtReady ==
  ASSUME Inv, Sound, Tree, Ready, Top.rest # <<>>
  PROVE  /\ stack # <<>> /\ Types /\ Here \in Places /\ Stmt(Here) = Head(Top.rest)
         /\ Here[1] = Top.path.file /\ Head(Top.rest) \in Statements /\ Top.path \in Path
         /\ \A i \in 1..Len(included) : included[i].file = Here[1] => included[i] = Top.path
<1>1. stack # <<>> /\ Types /\ Apart(included, stack)
  BY InvParts DEF Ready, Reading
<1>2. /\ Here \in Places /\ Stmt(Here) = Head(Top.rest) /\ Here[1] = Top.path.file
      /\ Head(Top.rest) \in Statements
  BY <1>1, HereIsNext, AtHand
<1>3. Top.path \in Path /\ \E j \in 1..Len(included) : Top.path = included[j]
  BY <1>1, TopTyped, FrameFields
<1>4. \A i \in 1..Len(included) : included[i].file = Here[1] => included[i] = Top.path
  BY <1>1, <1>2, <1>3 DEF Apart
<1>. QED  BY <1>1, <1>2, <1>3, <1>4

\* A statement that adds no clause, and one that adds one.
LEMMA NothingAdded ==
  ASSUME Inv, Sound, Tree, Ready, Top.rest # <<>>, Head(Top.rest).kind # "clause"
  PROVE  Claused(PastOf(included, stack) \cup {Here}, included, clauses)
<1>1. Stmt(Here).kind # "clause" /\ Claused(PastOf(included, stack), included, clauses)
  BY AtReady, InvParts
<1>. QED  BY <1>1, ClausedHere

LEMMA OneAdded ==
  ASSUME Inv, Sound, Tree, Ready, Top.rest # <<>>,
         Head(Top.rest).kind \in {"clause", "template"},
         clauses' = Append(clauses, ClauseOf(Named, Top.path))
  PROVE  /\ clauses' \in Seq([name : STRING, by : Path])
         /\ Claused(PastOf(included, stack) \cup {Here}, included, clauses')
<1>1. /\ Stmt(Here) = Head(Top.rest) /\ Head(Top.rest) \in Statements /\ Top.path \in Path
      /\ \A i \in 1..Len(included) : included[i].file = Here[1] => included[i] = Top.path
  BY AtReady
<1>2. ClauseOf(Named, Top.path) \in [name : STRING, by : Path]
  BY <1>1, StatementKinds DEF ClauseOf, Named
<1>3. clauses \in Seq([name : STRING, by : Path])
  BY InvParts
<1>4. /\ clauses' \in Seq([name : STRING, by : Path]) /\ Added(clauses', ClauseOf(Named, Top.path))
      /\ \A x : Added(clauses, x) => Added(clauses', x)
  <2>1. PICK S, c : S = [name : STRING, by : Path] /\ c = ClauseOf(Named, Top.path)
    OBVIOUS
  <2>2. clauses \in Seq(S) /\ c \in S /\ clauses' = Append(clauses, c)
    BY <1>2, <1>3, <2>1
  <2>3. /\ Append(clauses, c) \in Seq(S) /\ Added(Append(clauses, c), c)
        /\ \A x : Added(clauses, x) => Added(Append(clauses, c), x)
    BY <2>2, AddedStays
  <2>. QED  BY <2>1, <2>2, <2>3
<1>5. \A i \in 1..Len(included) :
        included[i].file = Here[1] => Added(clauses', ClauseOf(Stmt(Here).name, included[i]))
  BY <1>1, <1>4 DEF Named
<1>6. Claused(PastOf(included, stack), included, clauses)
  BY InvParts
<1>. QED  BY <1>4, <1>5, <1>6, ClausedHere

LEMMA ApplyHeaderLoads == ASSUME Inv, ApplyHeader  PROVE Loads'
<1>1. /\ Ready /\ Top.rest # <<>> /\ Head(Top.rest).kind \in {"header", "template"} /\ stack # <<>>
  BY DEF ApplyHeader, Statement, Ready, Reading
<1>2. UNCHANGED disk
  BY DEF ApplyHeader, GivenUp, Applied
<1>. SUFFICES ASSUME Sound, Tree
              PROVE  abandoned' = {} /\ Whole(included', stack', next', returned', names', clauses')
  BY <1>2, LoadsNext
<1>3. Named \notin DOMAIN names
  BY <1>1, NewName DEF Declaring
<1>4. /\ Applied /\ Declare(Named, doc)
      /\ clauses' = IF Head(Top.rest).kind = "template"
                      THEN Append(clauses, ClauseOf(Named, Top.path)) ELSE clauses
  BY <1>3 DEF ApplyHeader, ClauseOf
<1>5. Declared(PastOf(included, stack) \cup {Here}, names')
  <2>1. Stmt(Here) = Head(Top.rest) /\ Declared(PastOf(included, stack), names)
    BY <1>1, AtReady, InvParts
  <2>2. DOMAIN names' = DOMAIN names \cup {Stmt(Here).name}
    BY <1>4, <2>1 DEF Declare, Named
  <2>3. Stmt(Here).kind \in Declaring
    BY <1>1, <2>1 DEF Declaring
  <2>. QED  BY <2>1, <2>2, <2>3, DeclaredHere
<1>6. /\ clauses' \in Seq([name : STRING, by : Path])
      /\ Claused(PastOf(included, stack) \cup {Here}, included, clauses')
  <2>1. CASE Head(Top.rest).kind = "template"
    BY <1>1, <1>4, <2>1, OneAdded
  <2>2. CASE Head(Top.rest).kind # "template"
    BY <1>1, <1>4, <2>2, NothingAdded, InvParts
  <2>. QED  BY <2>1, <2>2
<1>. QED  BY <1>1, <1>4, <1>5, <1>6, AppliedLoads

LEMMA ApplyClauseLoads == ASSUME Inv, ApplyClause  PROVE Loads'
<1>1. /\ Ready /\ Top.rest # <<>> /\ Head(Top.rest).kind = "clause" /\ stack # <<>>
  BY DEF ApplyClause, Statement, Ready, Reading
<1>2. UNCHANGED disk
  BY DEF ApplyClause, GivenUp, Applied
<1>. SUFFICES ASSUME Sound, Tree
              PROVE  abandoned' = {} /\ Whole(included', stack', next', returned', names', clauses')
  BY <1>2, LoadsNext
<1>3. Here \in Places /\ Stmt(Here) = Head(Top.rest)
  BY <1>1, AtReady
<1>4. Named \in DOMAIN names
  <2>1. \E j \in 1..Here[2] - 1 : Declares(disk[Here[1]][j], Named)
    BY <1>1, <1>3 DEF Sound, Named
  <2>. QED  BY <1>1, <2>1, DeclaredAbove
<1>5. Applied /\ names' = names /\ clauses' = Append(clauses, ClauseOf(Named, Top.path))
  BY <1>4 DEF ApplyClause, ClauseOf
<1>6. Declared(PastOf(included, stack) \cup {Here}, names')
  <2>1. Stmt(Here).kind \notin Declaring
    BY <1>1, <1>3 DEF Declaring
  <2>2. Declared(PastOf(included, stack), names)
    BY InvParts
  <2>. QED  BY <1>5, <2>1, <2>2, DeclaredHere
<1>7. /\ clauses' \in Seq([name : STRING, by : Path])
      /\ Claused(PastOf(included, stack) \cup {Here}, included, clauses')
  BY <1>1, <1>5, OneAdded
<1>. QED  BY <1>1, <1>5, <1>6, <1>7, AppliedLoads

LEMMA ApplyParamLoads == ASSUME Inv, ApplyParam  PROVE Loads'
<1>1. /\ Ready /\ Top.rest # <<>> /\ Head(Top.rest).kind = "param" /\ stack # <<>>
  BY DEF ApplyParam, Statement, Ready, Reading
<1>2. UNCHANGED disk
  BY DEF ApplyParam, GivenUp, Applied
<1>. SUFFICES ASSUME Sound, Tree
              PROVE  abandoned' = {} /\ Whole(included', stack', next', returned', names', clauses')
  BY <1>2, LoadsNext
<1>3. Here \in Places /\ Stmt(Here) = Head(Top.rest)
  BY <1>1, AtReady
<1>4. Head(Top.rest).type \in DOMAIN names /\ Named \notin DOMAIN names
  <2>1. \E j \in 1..Here[2] - 1 : Declares(disk[Here[1]][j], Head(Top.rest).type)
    BY <1>1, <1>3 DEF Sound
  <2>2. Head(Top.rest).type \in DOMAIN names
    BY <1>1, <2>1, DeclaredAbove
  <2>. QED  BY <1>1, <2>2, NewName DEF Declaring
<1>5. Applied /\ Declare(Named, NoDoc) /\ clauses' = clauses
  BY <1>4 DEF ApplyParam
<1>6. Declared(PastOf(included, stack) \cup {Here}, names')
  <2>1. Stmt(Here).kind \in Declaring
    BY <1>1, <1>3 DEF Declaring
  <2>2. DOMAIN names' = DOMAIN names \cup {Stmt(Here).name}
    BY <1>3, <1>5 DEF Declare, Named
  <2>3. Declared(PastOf(included, stack), names)
    BY InvParts
  <2>. QED  BY <2>1, <2>2, <2>3, DeclaredHere
<1>7. /\ clauses' \in Seq([name : STRING, by : Path])
      /\ Claused(PastOf(included, stack) \cup {Here}, included, clauses')
  BY <1>1, <1>5, NothingAdded, InvParts
<1>. QED  BY <1>1, <1>5, <1>6, <1>7, AppliedLoads

\* Statements that declare nothing and add no clause.
LEMMA PassedOver ==
  ASSUME Inv, Sound, Tree, Ready, Top.rest # <<>>, Applied, names' = names, clauses' = clauses,
         Head(Top.rest).kind \in {"goal", "doc", "use"}
  PROVE  abandoned' = {} /\ Whole(included', stack', next', returned', names', clauses')
<1>1. Stmt(Here).kind \notin Declaring
  BY AtReady DEF Declaring
<1>2. Declared(PastOf(included, stack), names) /\ clauses \in Seq([name : STRING, by : Path])
  BY InvParts
<1>3. Declared(PastOf(included, stack) \cup {Here}, names')
  BY <1>1, <1>2, DeclaredHere
<1>4. Claused(PastOf(included, stack) \cup {Here}, included, clauses')
  BY NothingAdded
<1>. QED  BY <1>2, <1>3, <1>4, AppliedLoads

LEMMA ApplyGoalLoads == ASSUME Inv, ApplyGoal  PROVE Loads'
<1>1. Ready /\ Top.rest # <<>> /\ Head(Top.rest).kind = "goal"
  BY DEF ApplyGoal, Statement
<1>2. UNCHANGED disk
  BY DEF ApplyGoal, GivenUp, Applied
<1>. SUFFICES ASSUME Sound, Tree
              PROVE  abandoned' = {} /\ Whole(included', stack', next', returned', names', clauses')
  BY <1>2, LoadsNext
<1>3. Here \in Places /\ Stmt(Here) = Head(Top.rest)
  BY <1>1, AtReady
<1>4. Head(Top.rest).result # "error"
  BY <1>1, <1>3 DEF Sound
<1>. QED  BY <1>1, <1>4, PassedOver DEF ApplyGoal

LEMMA ApplyDocLoads == ASSUME Inv, ApplyDoc  PROVE Loads'
<1>1. /\ Ready /\ Top.rest # <<>> /\ Head(Top.rest).kind = "doc" /\ Applied
      /\ UNCHANGED <<disk, names, clauses>>
  BY DEF ApplyDoc, Statement, Applied
<1>. QED  BY <1>1, PassedOver, LoadsNext

LEMMA ApplyUseLoads == ASSUME Inv, ApplyUse  PROVE Loads'
<1>1. /\ Ready /\ Top.rest # <<>> /\ Head(Top.rest).kind = "use" /\ stack # <<>> /\ Top.mods = <<>>
      /\ next = NoPath /\ returned = "none" /\ Types
  BY DEF ApplyUse, Statement, Ready, Reading, NoMods, Inv, Base
<1>2. UNCHANGED disk
  BY DEF ApplyUse, Applied
<1>. SUFFICES ASSUME Sound, Tree
              PROVE  abandoned' = {} /\ Whole(included', stack', next', returned', names', clauses')
  BY <1>2, LoadsNext
<1>3. CASE Head(Top.rest).mods = NoMods
  BY <1>1, <1>3, PassedOver DEF ApplyUse
<1>4. CASE Head(Top.rest).mods # NoMods
  <2>1. PICK fr : fr = With(Top, Head(Top.rest).mods, address)
    OBVIOUS
  <2>2. /\ stack' = Replace(fr)
        /\ UNCHANGED <<included, next, returned, names, clauses, abandoned>>
    BY <1>4, <2>1 DEF ApplyUse, session, With
  <2>3. fr \in FrameType /\ Follows(disk, fr) /\ fr.path = Top.path /\ fr.rest = Top.rest
    <3>1. Top \in FrameType /\ Follows(disk, Top) /\ address \in Path \cup {NoPath}
      BY <1>1, TopTyped DEF Types
    <3>2. PICK ms : ms = Head(Top.rest).mods
      OBVIOUS
    <3>3. Head(Top.rest) = Top.rest[1] /\ ms \in Seq(Mods) /\ Len(ms) \in Nat
      BY <1>1, <3>2, AtHand, StatementKinds
    <3>4. /\ Len(ms) <= Len(Top.rest[1].mods)
          /\ \A k \in 1..Len(ms) : ms[k] = Top.rest[1].mods[Len(Top.rest[1].mods) - Len(ms) + k]
      BY <3>2, <3>3
    <3>. QED  BY <1>1, <2>1, <3>1, <3>2, <3>3, <3>4, FrameImports
  <2>4. Frame_(Top) /\ Frame_(fr) /\ Apart(included, stack)
    BY <1>1, <2>3, TopFrame, InvParts DEF Frame_, Types
  <2>5. /\ \A j \in Nat : ReadIn(fr, j) <=> ReadIn(Top, j)
        /\ \A j \in Nat, k \in Nat : ImportedIn(Top, j, k) => ImportedIn(fr, j, k)
    BY <1>1, <2>3, <2>4, ReadImports
  <2>6. /\ Apart(included, stack') /\ PastOf(included, stack') = PastOf(included, stack)
        /\ ImportedOf(included, stack) \subseteq ImportedOf(included, stack')
    BY <1>1, <2>2, <2>3, <2>4, <2>5, PastReplaced, BegunReplaced
  <2>7. Came(included, ImportedOf(included, stack'))
    BY <1>1, <2>6, CameMore, InvParts DEF Begun
  <2>. QED  BY <1>1, <2>2, <2>6, <2>7, InvParts DEF Whole, Begun, Coming
<1>. QED  BY <1>3, <1>4

LEMMA UseModLoads == ASSUME Inv, UseMod  PROVE Loads'
<1>1. /\ stack # <<>> /\ Top.mods # <<>> /\ next = NoPath /\ returned = "none" /\ Types /\ Addresses
  BY DEF UseMod, Importing, Reading, NoMods, Inv, Base
<1>2. UNCHANGED disk
  BY DEF UseMod, GivenUp
<1>. SUFFICES ASSUME Sound, Tree
              PROVE  abandoned' = {} /\ Whole(included', stack', next', returned', names', clauses')
  BY <1>2, LoadsNext
<1>3. address = Top.path /\ address \in Path
  BY <1>1, AddressThere, InvParts
<1>4. /\ AskNow \in HandedOf(included, stack) /\ AskNow \notin ImportedOf(included, stack)
      /\ AskNow \in AllAsks /\ TargetOf(AskNow) = Found(Head(Top.mods))
  BY <1>1, <1>3, AskAtHand, InvParts
<1>5. Found(Head(Top.mods)) # NoFile /\ ~Hollow(Found(Head(Top.mods)))
  BY <1>4, SoundAsks
<1>6. /\ next' = Spelled(Head(Top.mods))
      /\ UNCHANGED <<included, stack, returned, names, clauses, abandoned>>
  BY <1>5 DEF UseMod, session
<1>7. next'.file = TargetOf(AskNow)
  BY <1>4, <1>6 DEF Spelled, PathTo
<1>8. Asked(next', HandedOf(included, stack))
  BY <1>4, <1>7 DEF Asked, Opens
<1>9. ASSUME NEW g \in Files, Opens(next'.file, g)  PROVE g \notin Filed(included)
  <2>1. g \notin Roots /\ \A b \in AllAsks : Opens(TargetOf(b), g) => AskNow = b
    BY <1>4, <1>7, <1>9, OpenedOnce
  <2>2. ASSUME NEW i \in 1..Len(included), included[i].file = g  PROVE FALSE
    <3>1. Asked(included[i], ImportedOf(included, stack))
      BY <1>1, <2>1, <2>2, InvParts DEF Came, Begun, Rooted
    <3>2. PICK b \in ImportedOf(included, stack) : Opens(TargetOf(b), g)
      BY <2>2, <3>1 DEF Asked
    <3>. QED  BY <1>4, <2>1, <3>2 DEF ImportedOf
  <2>. QED  BY <2>2 DEF Filed
<1>10. Came(included, HandedOf(included, stack))
  BY <1>1, ImportedHanded, CameMore, InvParts DEF Begun
<1>11. Coming(included, stack, next')
  BY <1>1, <1>5, <1>4, <1>7, <1>8, <1>9 DEF Coming
<1>12. returned' # "failed"
  BY <1>1, <1>6
<1>13. Came(included, Begun(included, stack, next', returned'))
  BY <1>1, <1>6, <1>10, InvParts DEF Begun
<1>. QED  BY <1>6, <1>11, <1>12, <1>13, InvParts DEF Whole

LEMMA ModConsultedLoads == ASSUME Inv, ModConsulted  PROVE Loads'
<1>1. /\ stack # <<>> /\ next = NoPath /\ returned = "ok" /\ returned' = "none"
      /\ UNCHANGED <<disk, included, next, names, clauses, abandoned>>
      /\ Types /\ Top.mods # <<>>
  BY DEF ModConsulted, Inv, Base, Types, Busy
<1>. SUFFICES ASSUME Sound, Tree
              PROVE  abandoned' = {} /\ Whole(included', stack', next', returned', names', clauses')
  BY <1>1, LoadsNext
<1>2. Frame_(Top) /\ Apart(included, stack)
  BY <1>1, TopFrame, InvParts
<1>3. /\ Top.mods \in Seq(Mods) /\ Top.rest # <<>> /\ Top.rest[1].kind = "use"
  BY <1>1, <1>2, FrameMods
<1>4. Came(included, HandedOf(included, stack))
  BY <1>1, InvParts DEF Begun
<1>5. CASE UsesLeft # NoMods
  <2>1. PICK ms : ms = Tail(Top.mods)
    OBVIOUS
  <2>2. PICK fr : fr = With(Top, ms, Top.old)
    OBVIOUS
  <2>3. stack' = Replace(fr)
    <3>1. fr = [Top EXCEPT !.mods = ms]
      BY <1>2, <2>2 DEF Frame_, FrameType, With
    <3>. QED  BY <1>5, <2>1, <3>1 DEF ModConsulted, UsesLeft
  <2>4. ms # <<>> /\ Len(ms) = Len(Top.mods) - 1
    BY <1>1, <1>3, <1>5, <2>1, HeadTailProperties DEF UsesLeft, NoMods
  <2>5. /\ fr \in FrameType /\ Follows(disk, fr) /\ fr.path = Top.path /\ fr.rest = Top.rest
        /\ fr.mods = ms
    BY <1>1, <1>2, <1>3, <2>1, <2>2, <2>4, NextModule DEF Frame_
  <2>6. Frame_(fr)
    BY <1>2, <2>5 DEF Frame_
  <2>7. /\ \A j \in Nat : ReadIn(fr, j) <=> ReadIn(Top, j)
        /\ \A j \in Nat, k \in Nat : HandedIn(Top, j, k) => ImportedIn(fr, j, k)
    BY <1>1, <1>2, <2>4, <2>5, <2>6, ReadImports
  <2>8. /\ Apart(included, stack') /\ PastOf(included, stack') = PastOf(included, stack)
        /\ HandedOf(included, stack) \subseteq ImportedOf(included, stack')
    BY <1>1, <1>2, <2>3, <2>5, <2>7, PastReplaced, BegunReplaced
  <2>9. Came(included, ImportedOf(included, stack'))
    BY <1>4, <2>8, CameMore
  <2>. QED  BY <1>1, <2>8, <2>9, InvParts DEF Whole, Begun, Coming
<1>6. CASE UsesLeft = NoMods
  <2>1. stack' = Replace(Next_(Top))
    BY <1>6 DEF ModConsulted
  <2>2. Next_(Top) \in FrameType /\ Next_(Top).path = Top.path
    BY <1>2, <1>3, FrameAdvances DEF Frame_
  <2>3. /\ \A j \in Nat : ReadIn(Next_(Top), j) <=> ReadIn(Top, j) \/ j = HereNo(Top)
        /\ \A j \in Nat, k \in Nat : HandedIn(Top, j, k) => ImportedIn(Next_(Top), j, k)
    BY <1>2, <1>3, ReadAdvances
  <2>4. /\ Apart(included, stack')
        /\ PastOf(included, stack') = PastOf(included, stack) \cup {Here}
        /\ HandedOf(included, stack) \subseteq ImportedOf(included, stack')
    BY <1>1, <1>2, <1>3, <2>1, <2>2, <2>3, PastReplaced, BegunReplaced
  <2>5. Stmt(Here).kind = "use"
    BY <1>1, <1>3, HereIsNext, AtHand
  <2>6. Declared(PastOf(included, stack) \cup {Here}, names)
    <3>1. Stmt(Here).kind \notin Declaring
      BY <2>5 DEF Declaring
    <3>. QED  BY <3>1, DeclaredHere, InvParts
  <2>7. Claused(PastOf(included, stack) \cup {Here}, included, clauses)
    BY <2>5, ClausedHere, InvParts
  <2>8. Came(included, ImportedOf(included, stack'))
    BY <1>4, <2>4, CameMore
  <2>. QED  BY <1>1, <2>4, <2>6, <2>7, <2>8, InvParts DEF Whole, Begun, Coming
<1>. QED  BY <1>5, <1>6

LEMMA ModFailedLoads == ASSUME Inv, ModFailed  PROVE Loads'
<1>1. stack # <<>> /\ returned = "failed" /\ UNCHANGED disk
  BY DEF ModFailed, GivenUp
<1>2. ~(Sound /\ Tree)
  BY <1>1, InvParts
<1>. QED  BY <1>1, <1>2, LoadsNext

LEMMA EndOfFileLoads == ASSUME Inv, EndOfFile  PROVE Loads'
<1>1. /\ stack # <<>> /\ next = NoPath /\ returned = "none" /\ Top.rest = <<>> /\ Types
      /\ stack' = Front(stack) /\ returned' = "ok"
      /\ UNCHANGED <<disk, included, next, names, clauses, abandoned>>
  BY DEF EndOfFile, Ready, Reading, session, Inv, Base
<1>. SUFFICES ASSUME Sound, Tree
              PROVE  abandoned' = {} /\ Whole(included', stack', next', returned', names', clauses')
  BY <1>1, LoadsNext
<1>2. /\ Apart(included, stack') /\ PastOf(included, stack') = PastOf(included, stack)
      /\ ImportedOf(included, stack) \subseteq HandedOf(included, stack')
  BY <1>1, PastPopped, InvParts
<1>3. Came(included, HandedOf(included, stack'))
  BY <1>1, <1>2, CameMore, InvParts DEF Begun
<1>. QED  BY <1>1, <1>2, <1>3, InvParts DEF Whole, Begun, Coming

LEMMA ReportLoads == ASSUME Inv, Report  PROVE Loads'
<1>1. /\ stack = <<>> /\ next = NoPath /\ returned # "none" /\ returned' = "none" /\ Types
      /\ UNCHANGED <<disk, included, next, stack, names, clauses, abandoned>>
  BY DEF Report, session, Inv, Base
<1>. SUFFICES ASSUME Sound, Tree
              PROVE  abandoned' = {} /\ Whole(included', stack', next', returned', names', clauses')
  BY <1>1, LoadsNext
<1>2. Came(included, ImportedOf(included, stack))
  BY <1>1, ImportedHanded, CameMore, InvParts DEF Begun
<1>. QED  BY <1>1, <1>2, InvParts DEF Whole, Begun, Coming

-----------------------------------------------------------------------------
(* The theorem about sound sources *)

LEMMA LoadsStarts == ASSUME Init  PROVE Loads
<1>1. /\ included = <<>> /\ stack = <<>> /\ next = NoPath /\ returned = "none"
      /\ names = <<>> /\ clauses = <<>> /\ abandoned = {}
  BY DEF Init
<1>2. Apart(included, stack) /\ Filed(included) = {}
  BY <1>1 DEF Apart, Filed
<1>3. PastOf(included, stack) = {}
  BY <1>2 DEF PastOf
<1>4. /\ Came(included, Begun(included, stack, next, returned)) /\ Coming(included, stack, next)
      /\ Declared({}, names) /\ Claused({}, included, clauses)
      /\ clauses \in Seq([name : STRING, by : Path])
  BY <1>1 DEF Came, Coming, Declared, Claused
<1>. QED  BY <1>1, <1>2, <1>3, <1>4 DEF Loads, Whole

LEMMA LoadsStays == ASSUME Inv, [Next]_vars  PROVE Loads'
<1>1. CASE UNCHANGED vars
  BY <1>1, LoadsNext DEF vars, Inv, Loads
<1>2. ASSUME NEW f \in Started, Ask(f)  PROVE Loads'
  BY <1>2, AskLoads
<1>3. CASE Step
  BY <1>3, AlreadyConsultedLoads, OverrunLoads, OpenPackageLoads, OpenSourceLoads,
     ApplyHeaderLoads, ApplyClauseLoads, ApplyParamLoads, ApplyGoalLoads, ApplyDocLoads,
     ApplyUseLoads, UseModLoads, ModConsultedLoads, ModFailedLoads, EndOfFileLoads, ReportLoads
     DEF Step
<1>. QED  BY <1>1, <1>2, <1>3 DEF Next

\* When nothing is being read, what was opened has been read to its end.
LEMMA IdleIsRead ==
  ASSUME Inv, Sound, Tree, Idle, NEW i \in 1..Len(included), included[i].file \notin Packages,
         NEW j \in 1..Len(disk[included[i].file]), disk[included[i].file][j].kind = "clause"
  PROVE  Added(clauses, ClauseOf(disk[included[i].file][j].name, included[i]))
<1>. PICK f : f = included[i].file
  OBVIOUS
<1>1. included[i] \in Path
  BY ElementOfSeq, InvParts DEF Types, IncludedOK
<1>2. f \in Source
  BY <1>1, Constants DEF Source
<1>3. /\ <<f, j>> \in Places /\ Stmt(<<f, j>>) = disk[f][j] /\ <<f, j>>[1] = f
  BY <1>2, PlaceFields
<1>4. <<f, j>> \in PastOf(included, stack)
  BY <1>3 DEF PastOf, ReadTo, Filed, Idle
<1>5. PICK pl \in PastOf(included, stack) : pl[1] = f /\ Stmt(pl) = disk[f][j]
  BY <1>3, <1>4
<1>. QED  BY <1>5, InvParts DEF Claused

\* Sources that are sound and import each other as a tree are consulted whole:
\* none is given up, and once nothing is being read every clause of every source
\* that was opened has been added.
THEOREM SoundTreesLoad == Spec => []TreesLoad
<1>1. Init => Inv
  BY BaseStarts, LoadsStarts DEF Inv
<1>2. Inv /\ [Next]_vars => Inv'
  BY BaseStays, LoadsStays DEF Inv
<1>3. Inv => TreesLoad
  BY IdleIsRead, InvParts DEF TreesLoad, Added, ClauseOf
<1>. QED  BY <1>1, <1>2, <1>3, PTL DEF Spec
===============================================================================
