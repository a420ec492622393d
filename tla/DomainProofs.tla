---------------------------- MODULE DomainProofs ----------------------------
(***************************************************************************)
(* Theorems about Domain: narrowing drops no solution, a request is        *)
(* refused for a reason, and a generator gives a domain's values in order, *)
(* each once, and all of them when it ends.  They hold for all variables,  *)
(* requests and bounds, and for every set of integers as Window.           *)
(***************************************************************************)
EXTENDS Domain, TLAPS

-----------------------------------------------------------------------------
(* Borders *)

\* The images of the module are images.
LEMMA ImagesTyped ==
  ASSUME NEW n \in Int, NEW l \in Border, NEW r \in Border
  PROVE  /\ Single(n) \in Image /\ Open(l, r) \in Image
         /\ Inf \in Border /\ Inc(n) \in Border /\ Sec(n) \in Border
BY DEF Single, Open, Image, Border, Inf, Inc, Sec

\* A new left border keeps the values that are above it.
LEMMA GtKeeps ==
  ASSUME NEW im \in Image, NEW b \in Border
  PROVE  /\ DomainGt(im, b) \in Image /\ DomainGt(im, b).single = im.single
         /\ \A n \in Int : Within(im, n) /\ Above(b, n) => Within(DomainGt(im, b), n)
<1>1. DomainGt(im, b) \in {im, [im EXCEPT !.l = b]}
  BY DEF DomainGt
<1>2. [im EXCEPT !.l = b] \in Image /\ [im EXCEPT !.l = b].l = b
      /\ [im EXCEPT !.l = b].r = im.r /\ [im EXCEPT !.l = b].single = im.single
  BY DEF Image
<1>. QED  BY <1>1, <1>2 DEF Within

\* A new right border keeps the values that are below it.
LEMMA LtKeeps ==
  ASSUME NEW im \in Image, NEW b \in Border
  PROVE  /\ DomainLt(im, b) \in Image /\ DomainLt(im, b).single = im.single
         /\ \A n \in Int : Within(im, n) /\ Below(b, n) => Within(DomainLt(im, b), n)
<1>1. DomainLt(im, b) \in {im, [im EXCEPT !.r = b]}
  BY DEF DomainLt
<1>2. [im EXCEPT !.r = b] \in Image /\ [im EXCEPT !.r = b].r = b
      /\ [im EXCEPT !.r = b].l = im.l /\ [im EXCEPT !.r = b].single = im.single
  BY DEF Image
<1>. QED  BY <1>1, <1>2 DEF Within

\* What two domains have in common is kept when one meets the other.
LEMMA MeetKeeps ==
  ASSUME NEW im \in Image, NEW other \in Image
  PROVE  /\ Meet(im, other) \in Image /\ Meet(im, other).single = im.single
         /\ \A n \in Int : Within(im, n) /\ Within(other, n)
                             => Within(Meet(im, other), n)
<1>1. other.l \in Border /\ other.r \in Border
  BY DEF Image
<1>. DEFINE half == MeetL(im, other.l)
<1>2. /\ half \in Image /\ half.single = im.single
      /\ \A n \in Int : Within(im, n) /\ Within(other, n) => Within(half, n)
  BY <1>1, GtKeeps DEF MeetL, Within
<1>. HIDE DEF half
<1>3. /\ MeetR(half, other.r) \in Image /\ MeetR(half, other.r).single = half.single
      /\ \A n \in Int : Within(half, n) /\ Within(other, n)
                          => Within(MeetR(half, other.r), n)
  BY <1>1, <1>2, LtKeeps DEF MeetR, Within
<1>. QED  BY <1>2, <1>3 DEF Meet, half

-----------------------------------------------------------------------------
(* Narrowing *)

\* The assignment s is within the images im of the variables.
Fits(im, s) == \A v \in Vars : Check(im[v], s[v])

\* What a step that answers request q does to the assignments that fit.
Narrows(q) ==
  /\ image' \in [Vars -> Image]
  /\ \A s \in Assignments : Fits(image, s) /\ Holds(q, s) => Fits(image', s)
Refuses(q) ==
  said' = "false" => \A s \in Assignments : Fits(image, s) => ~Holds(q, s)

\* The right-hand side of `x >= y` is instantiated.
BoundKnown(q) == q.op = "gte" => image[q.y].single

\* An assignment gives every variable an integer, and so it fits a variable's
\* new image if it fits that image alone.
LEMMA AssignmentTyped ==
  ASSUME NEW s \in Assignments
  PROVE  \A v \in Vars : s[v] \in Int
BY WindowAssumption DEF Assignments

LEMMA FitsUpdate ==
  ASSUME TypeOK, NEW x \in Vars, NEW im \in Image, NEW s, Fits(image, s),
         Check(im, s[x])
  PROVE  [image EXCEPT ![x] = im] \in [Vars -> Image]
         /\ Fits([image EXCEPT ![x] = im], s)
BY DEF TypeOK, Fits

\* A request: its variables, and the images that they have.
LEMMA RequestTyped ==
  ASSUME TypeOK, NEW q \in Requests
  PROVE  /\ q \in Request
         /\ q.x \in Vars /\ q.y \in Vars /\ q.n \in Int
         /\ q.l \in Border /\ q.r \in Border
         /\ image[q.x] \in Image /\ image[q.y] \in Image
         /\ q.op \in {"gt", "gte", "eq"} => q.x # q.y
<1>1. q \in Request /\ (q.op \in {"gt", "gte", "eq"} => q.x # q.y)
  BY RequestAssumption
<1>. QED  BY <1>1 DEF Request, TypeOK

\* `x = n` keeps what satisfies it, and is refused when nothing does.
LEMMA NumberNarrows ==
  ASSUME TypeOK, AssertNumber
  PROVE  \E q \in Requests : Asks(q) /\ Narrows(q) /\ Refuses(q)
<1>1. PICK q \in Requests :
        /\ q.op = "is" /\ Asks(q)
        /\ \/ Check(image[q.x], q.n) /\ Accept([image EXCEPT ![q.x] = Single(q.n)])
           \/ ~Check(image[q.x], q.n) /\ Refuse
  BY DEF AssertNumber
<1>2. q.x \in Vars /\ q.n \in Int /\ Single(q.n) \in Image
  BY RequestTyped, ImagesTyped, <1>1
<1>3. \A s \in Assignments : Holds(q, s) <=> s[q.x] = q.n
  BY <1>1 DEF Holds
<1>4. Check(Single(q.n), q.n)
  BY DEF Check, Single
<1>5. CASE Check(image[q.x], q.n) /\ Accept([image EXCEPT ![q.x] = Single(q.n)])
  <2>1. Narrows(q)
    BY <1>2, <1>3, <1>4, <1>5, FitsUpdate DEF Narrows, Accept, TypeOK
  <2>2. Refuses(q)
    BY <1>5 DEF Refuses, Accept
  <2>. QED  BY <1>1, <2>1, <2>2
<1>6. CASE ~Check(image[q.x], q.n) /\ Refuse
  <2>1. Narrows(q)
    BY <1>6 DEF Narrows, Refuse, TypeOK
  <2>2. Refuses(q)
    BY <1>2, <1>3, <1>6 DEF Refuses, Fits
  <2>. QED  BY <1>1, <2>1, <2>2
<1>. QED  BY <1>1, <1>5, <1>6

\* `x = l..r` replaces the domain by one that keeps what satisfies it.
LEMMA RangeNarrows ==
  ASSUME TypeOK, AssertRange
  PROVE  \E q \in Requests : Asks(q) /\ Narrows(q) /\ Refuses(q)
<1>. DEFINE new(q) == Meet(Open(Inf, Inf), Open(q.l, q.r))
<1>1. PICK q \in Requests :
        q.op = "in" /\ Asks(q) /\ Accept([image EXCEPT ![q.x] = new(q)])
  BY DEF AssertRange
<1>2. q.x \in Vars /\ q.l \in Border /\ q.r \in Border
  BY RequestTyped
<1>3. /\ Open(Inf, Inf) \in Image /\ Open(q.l, q.r) \in Image
      /\ ~Open(Inf, Inf).single
      /\ \A n \in Int : Within(Open(Inf, Inf), n)
      /\ \A n \in Int : Above(q.l, n) /\ Below(q.r, n) => Within(Open(q.l, q.r), n)
  <2>1. Inf \in Border
    BY DEF Inf, Border
  <2>. QED  BY <1>2, <2>1 DEF Open, Image, Within, Above, Below, Inf
<1>4. /\ new(q) \in Image
      /\ \A n \in Int : Above(q.l, n) /\ Below(q.r, n) => Check(new(q), n)
  BY <1>3, MeetKeeps DEF Check
<1>. HIDE DEF new
<1>5. \A s \in Assignments : Holds(q, s) => Check(new(q), s[q.x])
  BY <1>1, <1>2, <1>4, AssignmentTyped DEF Holds
<1>6. Narrows(q)
  BY <1>1, <1>2, <1>4, <1>5, FitsUpdate DEF Narrows, Accept, TypeOK
<1>7. Refuses(q)
  BY <1>1 DEF Refuses, Accept
<1>. QED  BY <1>1, <1>6, <1>7

\* A bound by an instantiated variable keeps what satisfies it: one lemma for
\* a new left border of x, one for a new right border of y.
LEMMA LeftNarrows ==
  ASSUME TypeOK, NEW q \in Requests, NEW b \in Border,
         ~image[q.x].single, image[q.y].single,
         \A s \in Assignments : Holds(q, s) => (s[q.y] = image[q.y].n => Above(b, s[q.x])),
         Accept([image EXCEPT ![q.x] = DomainGt(@, b)])
  PROVE  Narrows(q) /\ Refuses(q)
<1>. DEFINE im == DomainGt(image[q.x], b)
<1>1. q.x \in Vars /\ q.y \in Vars /\ image[q.x] \in Image
  BY RequestTyped
<1>2. im \in Image /\ ~im.single
      /\ \A n \in Int : Within(image[q.x], n) /\ Above(b, n) => Within(im, n)
  BY <1>1, GtKeeps
<1>3. image' = [image EXCEPT ![q.x] = im] /\ said' = "true"
  BY DEF Accept
<1>. HIDE DEF im
<1>4. ASSUME NEW s \in Assignments, Fits(image, s), Holds(q, s)
      PROVE  Check(im, s[q.x])
  <2>1. s[q.x] \in Int /\ s[q.y] = image[q.y].n /\ Within(image[q.x], s[q.x])
    BY <1>1, <1>4, AssignmentTyped DEF Fits, Check
  <2>2. Above(b, s[q.x])
    BY <1>4, <2>1
  <2>. QED  BY <1>2, <2>1, <2>2 DEF Check
<1>. QED  BY <1>1, <1>2, <1>3, <1>4, FitsUpdate DEF Narrows, Refuses, TypeOK

LEMMA RightNarrows ==
  ASSUME TypeOK, NEW q \in Requests, NEW b \in Border,
         image[q.x].single, ~image[q.y].single,
         \A s \in Assignments : Holds(q, s) => (s[q.x] = image[q.x].n => Below(b, s[q.y])),
         Accept([image EXCEPT ![q.y] = DomainLt(@, b)])
  PROVE  Narrows(q) /\ Refuses(q)
<1>. DEFINE im == DomainLt(image[q.y], b)
<1>1. q.x \in Vars /\ q.y \in Vars /\ image[q.y] \in Image
  BY RequestTyped
<1>2. im \in Image /\ ~im.single
      /\ \A n \in Int : Within(image[q.y], n) /\ Below(b, n) => Within(im, n)
  BY <1>1, LtKeeps
<1>3. image' = [image EXCEPT ![q.y] = im] /\ said' = "true"
  BY DEF Accept
<1>. HIDE DEF im
<1>4. ASSUME NEW s \in Assignments, Fits(image, s), Holds(q, s)
      PROVE  Check(im, s[q.y])
  <2>1. s[q.y] \in Int /\ s[q.x] = image[q.x].n /\ Within(image[q.y], s[q.y])
    BY <1>1, <1>4, AssignmentTyped DEF Fits, Check
  <2>2. Below(b, s[q.y])
    BY <1>4, <2>1
  <2>. QED  BY <1>2, <2>1, <2>2 DEF Check
<1>. QED  BY <1>1, <1>2, <1>3, <1>4, FitsUpdate DEF Narrows, Refuses, TypeOK

\* A request that leaves the images alone narrows nothing.
LEMMA SameNarrows ==
  ASSUME TypeOK, NEW q, image' = image
  PROVE  Narrows(q) /\ (said' # "false" => Refuses(q))
BY DEF Narrows, Refuses, TypeOK

\* What an assignment that fits says of the variables of a request.
LEMMA FitsAt ==
  ASSUME TypeOK, NEW q \in Requests, NEW s \in Assignments, Fits(image, s)
  PROVE  /\ s[q.x] \in Int /\ s[q.y] \in Int
         /\ image[q.x].single => s[q.x] = image[q.x].n
         /\ image[q.y].single => s[q.y] = image[q.y].n
         /\ ~image[q.x].single => Within(image[q.x], s[q.x])
         /\ ~image[q.y].single => Within(image[q.y], s[q.y])
BY RequestTyped, AssignmentTyped DEF Fits, Check

\* `x > y` keeps what satisfies it, and is refused when nothing does.
LEMMA GtNarrows ==
  ASSUME TypeOK, ConstraintGt
  PROVE  \E q \in Requests : Asks(q) /\ Narrows(q) /\ Refuses(q)
<1>1. PICK q \in Requests :
        /\ q.op = "gt" /\ Asks(q)
        /\ \/ /\ image[q.x].single /\ image[q.y].single /\ image[q.x].n > image[q.y].n
              /\ Accept(image)
           \/ /\ image[q.x].single /\ image[q.y].single /\ image[q.x].n <= image[q.y].n
              /\ Refuse
           \/ /\ ~image[q.x].single /\ image[q.y].single
              /\ \/ Accept(image)
                 \/ EndsBefore(image[q.x], image[q.y].n) /\ Refuse
                 \/ Accept([image EXCEPT ![q.x] = DomainGt(@, Sec(image[q.y].n))])
           \/ /\ image[q.x].single /\ ~image[q.y].single
              /\ Accept([image EXCEPT ![q.y] = DomainLt(@, Sec(image[q.x].n))])
           \/ said' = "error" /\ UNCHANGED image
  BY DEF ConstraintGt
<1>2. /\ \A s \in Assignments : Holds(q, s) <=> s[q.x] > s[q.y]
      /\ \A s \in Assignments : s[q.x] \in Int /\ s[q.y] \in Int
      /\ image[q.x] \in Image /\ image[q.y] \in Image
  BY <1>1, RequestTyped, AssignmentTyped DEF Holds
<1>3. /\ Sec(image[q.x].n) \in Border /\ Sec(image[q.y].n) \in Border
      /\ image[q.x].n \in Int /\ image[q.y].n \in Int
  BY <1>2 DEF Image, Sec, Border
<1>4. CASE Accept(image)
  BY <1>1, <1>4, SameNarrows DEF Accept
<1>5. CASE said' = "error" /\ UNCHANGED image
  BY <1>1, <1>5, SameNarrows
<1>6. CASE image[q.x].single /\ image[q.y].single
           /\ image[q.x].n <= image[q.y].n /\ Refuse
  <2>1. Refuses(q)
    BY <1>2, <1>3, <1>6, FitsAt DEF Refuses
  <2>. QED  BY <1>1, <1>6, <2>1, SameNarrows DEF Refuse
<1>7. CASE ~image[q.x].single /\ image[q.y].single
           /\ EndsBefore(image[q.x], image[q.y].n) /\ Refuse
  <2>1. image[q.x].r \in Border
    BY <1>2 DEF Image
  <2>2. ASSUME NEW s \in Assignments, Fits(image, s)
        PROVE  ~Holds(q, s)
    <3>1. Within(image[q.x], s[q.x]) /\ s[q.y] = image[q.y].n
      BY <1>7, <2>2, FitsAt
    <3>. QED  BY <1>2, <1>3, <1>7, <2>1, <3>1 DEF Within, Below, EndsBefore, Border
  <2>3. Refuses(q)
    BY <2>2 DEF Refuses
  <2>. QED  BY <1>1, <1>7, <2>3, SameNarrows DEF Refuse
<1>8. CASE ~image[q.x].single /\ image[q.y].single
           /\ Accept([image EXCEPT ![q.x] = DomainGt(@, Sec(image[q.y].n))])
  <2>1. \A s \in Assignments :
          Holds(q, s) => (s[q.y] = image[q.y].n => Above(Sec(image[q.y].n), s[q.x]))
    BY <1>2 DEF Above, Sec
  <2>. QED  BY <1>1, <1>3, <1>8, <2>1, LeftNarrows
<1>9. CASE image[q.x].single /\ ~image[q.y].single
           /\ Accept([image EXCEPT ![q.y] = DomainLt(@, Sec(image[q.x].n))])
  <2>1. \A s \in Assignments :
          Holds(q, s) => (s[q.x] = image[q.x].n => Below(Sec(image[q.x].n), s[q.y]))
    BY <1>2 DEF Below, Sec
  <2>. QED  BY <1>1, <1>3, <1>9, <2>1, RightNarrows
<1>. QED  BY <1>1, <1>4, <1>5, <1>6, <1>7, <1>8, <1>9

\* `x >= y` keeps what satisfies it, and is refused when nothing does, unless
\* x is the instantiated one.
LEMMA GteNarrows ==
  ASSUME TypeOK, ConstraintGte
  PROVE  \E q \in Requests : /\ q.op = "gte" /\ Asks(q) /\ Narrows(q)
                             /\ image[q.y].single => Refuses(q)
<1>1. PICK q \in Requests :
        /\ q.op = "gte" /\ Asks(q)
        /\ \/ Accept(image)
           \/ /\ image[q.x].single /\ image[q.y].single /\ image[q.x].n < image[q.y].n
              /\ Refuse
           \/ /\ ~image[q.x].single /\ image[q.y].single
              /\ image[q.x].r.t # "inf" /\ image[q.x].r.n < image[q.y].n
              /\ Refuse
           \/ /\ ~image[q.x].single /\ image[q.y].single
              /\ Accept([image EXCEPT ![q.x] = DomainGt(@, Inc(image[q.y].n))])
           \/ ~image[q.y].single /\ Refuse
           \/ /\ image[q.x].single /\ ~image[q.y].single
              /\ Accept([image EXCEPT ![q.y] = DomainLt(@, Inc(image[q.x].n))])
           \/ said' = "error" /\ UNCHANGED image
  BY DEF ConstraintGte
<1>2. /\ \A s \in Assignments : Holds(q, s) <=> s[q.x] >= s[q.y]
      /\ \A s \in Assignments : s[q.x] \in Int /\ s[q.y] \in Int
      /\ image[q.x] \in Image /\ image[q.y] \in Image
  BY <1>1, RequestTyped, AssignmentTyped DEF Holds
<1>3. /\ Inc(image[q.x].n) \in Border /\ Inc(image[q.y].n) \in Border
      /\ image[q.x].n \in Int /\ image[q.y].n \in Int
  BY <1>2 DEF Image, Inc, Border
<1>4. CASE Accept(image)
  BY <1>1, <1>4, SameNarrows DEF Accept
<1>5. CASE said' = "error" /\ UNCHANGED image
  BY <1>1, <1>5, SameNarrows
<1>6. CASE image[q.x].single /\ image[q.y].single
           /\ image[q.x].n < image[q.y].n /\ Refuse
  <2>1. Refuses(q)
    BY <1>2, <1>3, <1>6, FitsAt DEF Refuses
  <2>. QED  BY <1>1, <1>6, <2>1, SameNarrows DEF Refuse
<1>7. CASE /\ ~image[q.x].single /\ image[q.y].single
           /\ image[q.x].r.t # "inf" /\ image[q.x].r.n < image[q.y].n
           /\ Refuse
  <2>1. image[q.x].r \in Border
    BY <1>2 DEF Image
  <2>2. ASSUME NEW s \in Assignments, Fits(image, s)
        PROVE  ~Holds(q, s)
    <3>1. Within(image[q.x], s[q.x]) /\ s[q.y] = image[q.y].n
      BY <1>7, <2>2, FitsAt
    <3>. QED  BY <1>2, <1>3, <1>7, <2>1, <3>1 DEF Within, Below, Border
  <2>3. Refuses(q)
    BY <2>2 DEF Refuses
  <2>. QED  BY <1>1, <1>7, <2>3, SameNarrows DEF Refuse
<1>8. CASE ~image[q.x].single /\ image[q.y].single
           /\ Accept([image EXCEPT ![q.x] = DomainGt(@, Inc(image[q.y].n))])
  <2>1. \A s \in Assignments :
          Holds(q, s) => (s[q.y] = image[q.y].n => Above(Inc(image[q.y].n), s[q.x]))
    BY <1>2 DEF Above, Inc
  <2>. QED  BY <1>1, <1>3, <1>8, <2>1, LeftNarrows
<1>9. CASE image[q.x].single /\ ~image[q.y].single
           /\ Accept([image EXCEPT ![q.y] = DomainLt(@, Inc(image[q.x].n))])
  <2>1. \A s \in Assignments :
          Holds(q, s) => (s[q.x] = image[q.x].n => Below(Inc(image[q.x].n), s[q.y]))
    BY <1>2 DEF Below, Inc
  <2>. QED  BY <1>1, <1>3, <1>9, <2>1, RightNarrows
<1>10. CASE ~image[q.y].single /\ Refuse
  BY <1>1, <1>10, SameNarrows DEF Refuse
<1>. QED  BY <1>1, <1>4, <1>5, <1>6, <1>7, <1>8, <1>9, <1>10

\* `x = y` keeps what satisfies it, and is refused when nothing does.
LEMMA EqualNarrows ==
  ASSUME TypeOK, Equal
  PROVE  \E q \in Requests : Asks(q) /\ Narrows(q) /\ Refuses(q)
<1>. DEFINE met(q) == Meet(image[q.x], image[q.y])
            back(q) == Meet(image[q.y], met(q))
<1>1. PICK q \in Requests :
        /\ q.op = "eq" /\ Asks(q)
        /\ \/ /\ image[q.x].single
              /\ Accept([image EXCEPT ![q.y] = Single(image[q.x].n)])
           \/ /\ ~image[q.x].single /\ image[q.y].single
              /\ Accept([image EXCEPT ![q.x] = Single(image[q.y].n)])
           \/ /\ \/ image[q.x].single /\ ~Check(image[q.y], image[q.x].n)
                 \/ image[q.y].single /\ ~Check(image[q.x], image[q.y].n)
              /\ Refuse
           \/ /\ ~image[q.x].single /\ ~image[q.y].single
              /\ Accept([image EXCEPT ![q.x] = met(q), ![q.y] = back(q)])
  BY DEF Equal
<1>2. /\ \A s \in Assignments : Holds(q, s) <=> s[q.x] = s[q.y]
      /\ \A s \in Assignments : s[q.x] \in Int /\ s[q.y] \in Int
      /\ q.x \in Vars /\ q.y \in Vars /\ q.x # q.y
      /\ image[q.x] \in Image /\ image[q.y] \in Image
  BY <1>1, RequestTyped, AssignmentTyped DEF Holds
<1>3. /\ Single(image[q.x].n) \in Image /\ Single(image[q.y].n) \in Image
      /\ \A n \in Int : Check(Single(n), n)
  BY <1>2 DEF Image, Single, Check, Border, Inf
<1>4. CASE image[q.x].single
           /\ Accept([image EXCEPT ![q.y] = Single(image[q.x].n)])
  <2>1. ASSUME NEW s \in Assignments, Fits(image, s), Holds(q, s)
        PROVE  Fits(image', s)
    <3>1. s[q.x] = image[q.x].n /\ s[q.y] = s[q.x] /\ s[q.x] \in Int
      BY <1>2, <1>4, <2>1, FitsAt
    <3>. QED  BY <1>2, <1>3, <1>4, <2>1, <3>1, FitsUpdate DEF Accept
  <2>2. image' \in [Vars -> Image] /\ said' = "true"
    BY <1>2, <1>3, <1>4 DEF Accept, TypeOK
  <2>. QED  BY <1>1, <2>1, <2>2 DEF Narrows, Refuses
<1>5. CASE image[q.y].single
           /\ Accept([image EXCEPT ![q.x] = Single(image[q.y].n)])
  <2>1. ASSUME NEW s \in Assignments, Fits(image, s), Holds(q, s)
        PROVE  Fits(image', s)
    <3>1. s[q.y] = image[q.y].n /\ s[q.y] = s[q.x] /\ s[q.x] \in Int
      BY <1>2, <1>5, <2>1, FitsAt
    <3>. QED  BY <1>2, <1>3, <1>5, <2>1, <3>1, FitsUpdate DEF Accept
  <2>2. image' \in [Vars -> Image] /\ said' = "true"
    BY <1>2, <1>3, <1>5 DEF Accept, TypeOK
  <2>. QED  BY <1>1, <2>1, <2>2 DEF Narrows, Refuses
<1>6. CASE /\ \/ image[q.x].single /\ ~Check(image[q.y], image[q.x].n)
              \/ image[q.y].single /\ ~Check(image[q.x], image[q.y].n)
           /\ Refuse
  <2>1. ASSUME NEW s \in Assignments, Fits(image, s)
        PROVE  ~Holds(q, s)
    BY <1>2, <1>6, <2>1, FitsAt DEF Fits
  <2>2. Refuses(q)
    BY <2>1 DEF Refuses
  <2>. QED  BY <1>1, <1>6, <2>2, SameNarrows DEF Refuse
<1>7. CASE /\ ~image[q.x].single /\ ~image[q.y].single
           /\ Accept([image EXCEPT ![q.x] = met(q), ![q.y] = back(q)])
  <2>1. /\ met(q) \in Image /\ ~met(q).single
        /\ \A n \in Int : Within(image[q.x], n) /\ Within(image[q.y], n)
                            => Within(met(q), n)
    BY <1>2, <1>7, MeetKeeps
  <2>. HIDE DEF met
  <2>2. /\ back(q) \in Image /\ ~back(q).single
        /\ \A n \in Int : Within(image[q.y], n) /\ Within(met(q), n)
                            => Within(back(q), n)
    BY <1>2, <1>7, <2>1, MeetKeeps
  <2>. HIDE DEF back
  <2>3. ASSUME NEW s \in Assignments, Fits(image, s), Holds(q, s)
        PROVE  Check(met(q), s[q.x]) /\ Check(back(q), s[q.y])
    <3>1. /\ Within(image[q.x], s[q.x]) /\ Within(image[q.y], s[q.y])
          /\ s[q.x] = s[q.y] /\ s[q.x] \in Int
      BY <1>2, <1>7, <2>3, FitsAt
    <3>. QED  BY <2>1, <2>2, <3>1 DEF Check
  <2>4. image' \in [Vars -> Image] /\ said' = "true"
        /\ image' = [image EXCEPT ![q.x] = met(q), ![q.y] = back(q)]
    BY <1>2, <1>7, <2>1, <2>2 DEF Accept, TypeOK
  <2>5. \A s : Fits(image, s) /\ Check(met(q), s[q.x]) /\ Check(back(q), s[q.y])
                 => Fits(image', s)
    BY <1>2, <2>4 DEF Fits, TypeOK
  <2>. QED  BY <1>1, <2>3, <2>4, <2>5 DEF Narrows, Refuses
<1>. HIDE DEF met, back
<1>. QED  BY <1>1, <1>4, <1>5, <1>6, <1>7

\* Whatever the program asks, the images keep what satisfies it.
LEMMA NarrowNarrows ==
  ASSUME TypeOK, Narrow
  PROVE  \E q \in Requests : /\ Asks(q) /\ Narrows(q)
                             /\ BoundKnown(q) => Refuses(q)
BY NumberNarrows, RangeNarrows, GtNarrows, GteNarrows, EqualNarrows
DEF Narrow, BoundKnown

-----------------------------------------------------------------------------
(* Types *)

\* Every request gets one of three answers.
LEMMA SaidTyped ==
  ASSUME Narrow
  PROVE  said' \in {"true", "false", "error"}
BY DEF Narrow, AssertNumber, AssertRange, ConstraintGt, ConstraintGte, Equal,
       Accept, Refuse

\* The program starts with images, and nothing is generated.
LEMMA InitTyped ==
  ASSUME Init
  PROVE  TypeOK
<1>1. (CHOOSE x \in Vars : TRUE) \in Vars
  BY StartAssumption
<1>2. walk \in Walk
  BY <1>1 DEF Init, Walk
<1>. QED  BY <1>2, StartAssumption DEF Init, TypeOK

\* Where a walk goes is an integer.
LEMMA WalkTyped ==
  ASSUME TypeOK, Generate \/ Receive \/ ReceiveLast \/ ReceiveAndStop
  PROVE  TypeOK'
<1>1. CASE Generate
  <2>1. PICK x \in Vars :
          walk' \in {[k |-> "once", x |-> x, value |-> image[x].n,
                      bounded |-> TRUE, bound |-> image[x].n],
                     [k |-> "jump", x |-> x, value |-> 0,
                      bounded |-> FALSE, bound |-> 0],
                     [k |-> "inc", x |-> x, value |-> First(image[x].l),
                      bounded |-> image[x].r.t # "inf", bound |-> Last(image[x].r)]}
    BY <1>1 DEF Generate
  <2>2. image[x].n \in Int /\ First(image[x].l) \in Int /\ Last(image[x].r) \in Int
    BY DEF TypeOK, Image, Border, First, Last
  <2>3. (image[x].r.t # "inf") \in BOOLEAN
    OBVIOUS
  <2>4. walk' \in Walk
    <3>1. \A k \in {"once", "jump", "inc"}, v \in Int, b \in BOOLEAN, n \in Int :
            [k |-> k, x |-> x, value |-> v, bounded |-> b, bound |-> n] \in Walk
      BY DEF Walk
    <3>. HIDE DEF Walk
    <3>2. /\ [k |-> "once", x |-> x, value |-> image[x].n,
              bounded |-> TRUE, bound |-> image[x].n] \in Walk
          /\ [k |-> "jump", x |-> x, value |-> 0,
              bounded |-> FALSE, bound |-> 0] \in Walk
      BY <2>2, <3>1, 0 \in Int, TRUE \in BOOLEAN, FALSE \in BOOLEAN, Zenon
    <3>3. [k |-> "inc", x |-> x, value |-> First(image[x].l),
           bounded |-> image[x].r.t # "inf", bound |-> Last(image[x].r)] \in Walk
      BY <2>2, <2>3, <3>1, Zenon
    <3>. QED  BY <2>1, <3>2, <3>3, Zenon
  <2>. QED  BY <1>1, <2>4 DEF Generate, TypeOK
<1>2. CASE Receive \/ ReceiveLast \/ ReceiveAndStop
  <2>1. walk.value \in Int /\ walk.value + 1 \in Int /\ Jump(walk.value) \in Int
    BY DEF TypeOK, Walk, Jump
  <2>2. walk' \in Walk
    <3>1. \A k \in {"none", "done"} : [walk EXCEPT !.k = k] \in Walk
      BY DEF TypeOK, Walk
    <3>2. \A n \in Int : [walk EXCEPT !.value = n] \in Walk
      BY DEF TypeOK, Walk
    <3>. QED  BY <1>2, <2>1, <3>1, <3>2 DEF Receive, ReceiveLast, ReceiveAndStop
  <2>3. given' \in Seq(Int)
    <3>1. given' = Append(given, walk.value)
      BY <1>2 DEF Receive, ReceiveLast, ReceiveAndStop
    <3>. QED  BY <2>1, <3>1 DEF TypeOK
  <2>. QED  BY <1>2, <2>2, <2>3 DEF Receive, ReceiveLast, ReceiveAndStop, TypeOK
<1>. QED  BY <1>1, <1>2

\* Every step keeps the types.
LEMMA StepTyped ==
  ASSUME TypeOK, [Next]_vars
  PROVE  TypeOK'
<1>1. CASE Narrow
  <2>1. PICK q \in Requests : Asks(q) /\ Narrows(q)
    BY <1>1, NarrowNarrows
  <2>. QED  BY <1>1, <2>1, SaidTyped DEF Asks, Narrows, TypeOK
<1>2. CASE Generate \/ Receive \/ ReceiveLast \/ ReceiveAndStop
  BY <1>2, WalkTyped
<1>3. CASE UNCHANGED vars
  BY <1>3 DEF vars, TypeOK
<1>. QED  BY <1>1, <1>2, <1>3 DEF Next

\* Every variable keeps its type, in every behaviour.
THEOREM DomainTyped == Spec => []TypeOK
<1>1. Init => TypeOK
  BY InitTyped
<1>2. TypeOK /\ [Next]_vars => TypeOK'
  BY StepTyped
<1>. QED  BY <1>1, <1>2, PTL DEF Spec

-----------------------------------------------------------------------------
(* Nothing is lost, and refusals are right *)

\* A request keeps every solution within the images.
LEMMA StepLosesNothing ==
  ASSUME TypeOK, NothingLost, [Next]_vars
  PROVE  NothingLost'
<1>1. CASE Narrow
  <2>1. PICK q \in Requests : Asks(q) /\ Narrows(q)
    BY <1>1, NarrowNarrows
  <2>2. ASSUME NEW s \in Assignments, Solution(s)'
        PROVE  Fits(image', s)
    <3>1. Solution(s) /\ Holds(q, s)
      BY <2>1, <2>2 DEF Asks, Solution
    <3>2. Fits(image, s)
      BY <3>1 DEF NothingLost, Fits
    <3>. QED  BY <2>1, <3>1, <3>2 DEF Narrows
  <2>. QED  BY <2>2 DEF NothingLost, Fits, Solution
<1>2. CASE UNCHANGED <<image, asked>>
  BY <1>2 DEF NothingLost, Solution
<1>. QED  BY <1>1, <1>2
          DEF Next, Generate, Receive, ReceiveLast, ReceiveAndStop, vars

\* Narrowing never drops a solution, for every program and every integer.
THEOREM NothingIsLost == Spec => []NothingLost
<1>1. Init => NothingLost
  BY DEF Init, NothingLost, Assignments
<1>2. TypeOK /\ NothingLost /\ [Next]_vars => NothingLost'
  BY StepLosesNothing
<1>. QED  BY <1>1, <1>2, DomainTyped, PTL DEF Spec

\* The right-hand side of every `x >= y` is instantiated.
BoundsKnown == \A q \in asked : BoundKnown(q)

\* A refusal leaves the images alone.
LEMMA RefusalKeeps ==
  ASSUME Narrow, said' = "false"
  PROVE  image' = image
BY DEF Narrow, AssertNumber, AssertRange, ConstraintGt, ConstraintGte, Equal,
       Accept, Refuse

\* A request is refused only when nothing satisfies it together with what was
\* asked before, unless the right-hand side of some `x >= y` is open.
THEOREM RefusalsAreRight == Spec => []RefusedRightly
<1>1. Init => RefusedRightly
  BY DEF Init, RefusedRightly
<1>2. ASSUME TypeOK, NothingLost, RefusedRightly, [Next]_vars
      PROVE  RefusedRightly'
  <2>1. CASE Narrow
    <3>1. PICK q \in Requests :
            /\ Asks(q) /\ Narrows(q)
            /\ BoundKnown(q) => Refuses(q)
      BY <1>2, <2>1, NarrowNarrows
    <3>2. ASSUME said' = "false", BoundsKnown', NEW s \in Assignments, Solution(s)'
          PROVE  FALSE
      <4>1. q \in asked' /\ image' = image
        BY <2>1, <3>1, <3>2, RefusalKeeps DEF Asks
      <4>2. Refuses(q)
        BY <3>1, <3>2, <4>1 DEF BoundsKnown, BoundKnown
      <4>3. Solution(s) /\ Holds(q, s)
        BY <3>1, <3>2 DEF Asks, Solution
      <4>4. Fits(image, s)
        BY <1>2, <4>3 DEF NothingLost, Fits
      <4>. QED  BY <3>2, <4>2, <4>3, <4>4 DEF Refuses
    <3>. QED  BY <3>2 DEF RefusedRightly, BoundsKnown, BoundKnown, Solution
  <2>2. CASE UNCHANGED <<image, asked>> /\ (said' = "false" => said = "false")
    BY <1>2, <2>2 DEF RefusedRightly, Solution
  <2>. QED  BY <1>2, <2>1, <2>2
            DEF Next, Generate, Receive, ReceiveLast, ReceiveAndStop, vars
<1>3. TypeOK /\ NothingLost /\ RefusedRightly /\ [Next]_vars => RefusedRightly'
  BY <1>2
<1>. QED  BY <1>1, <1>3, DomainTyped, NothingIsLost, PTL DEF Spec

-----------------------------------------------------------------------------
(* The walk *)

\* The place of v in the walk through im: v is the Rank(im, v)-th value.
Rank(im, v) ==
  IF im.single THEN v - im.n + 1
  ELSE IF im.l.t = "inf" THEN IF v > 0 THEN 2 * v ELSE 1 - 2 * v
  ELSE v - First(im.l) + 1

\* Walkable and Sooner, of any image.
Fine(im) == \/ im.single
            \/ im.l.t = "inf" /\ im.r.t = "inf"
            \/ /\ im.l.t # "inf"
               /\ \E n \in {im.l.n, im.l.n + 1} : Within(im, n)
Before(im, w, v) == IF im.l.t = "inf" THEN Size(w) < Size(v) \/ (w = -v /\ w > v)
                    ELSE w < v

\* No two values have one place, those of the image have places from 1 on, and
\* what has a lower place comes sooner.
LEMMA RankOrders ==
  ASSUME NEW im \in Image, NEW v \in Int, NEW w \in Int
  PROVE  /\ Rank(im, v) \in Int
         /\ Rank(im, v) = Rank(im, w) => v = w
         /\ Check(im, v) => Rank(im, v) >= 1
         /\ Check(im, v) /\ Check(im, w) =>
              (Before(im, w, v) <=> Rank(im, w) < Rank(im, v))
<1>1. im.n \in Int /\ im.l \in Border /\ im.r \in Border
  BY DEF Image
<1>2. CASE im.single
  BY <1>1, <1>2 DEF Rank, Check, Before, Size
<1>3. CASE ~im.single /\ im.l.t = "inf"
  BY <1>1, <1>3 DEF Rank, Before, Size
<1>4. CASE ~im.single /\ im.l.t # "inf"
  BY <1>1, <1>4 DEF Rank, Check, Within, Above, Before, First, Border
<1>. QED  BY <1>2, <1>3, <1>4

\* The borders of the walk: the first value of a left border has place 1, and
\* nothing of the image is past the last of a right border.
LEMMA RankEnds ==
  ASSUME NEW im \in Image, ~im.single, im.l.t # "inf"
  PROVE  /\ First(im.l) \in Int /\ Last(im.r) \in Int
         /\ Rank(im, First(im.l)) = 1
         /\ Fine(im) => Check(im, First(im.l))
         /\ \A v \in Int : Rank(im, v + 1) = Rank(im, v) + 1
         /\ im.r.t # "inf" => \A v \in Int : Check(im, v) => v <= Last(im.r)
         /\ \A v \in Int : Check(im, v) /\ (im.r.t # "inf" => v # Last(im.r))
              => Check(im, v + 1)
<1>1. im.n \in Int /\ im.l \in Border /\ im.r \in Border
  BY DEF Image
<1>2. First(im.l) \in Int /\ Last(im.r) \in Int
  BY <1>1 DEF First, Last, Border
<1>3. Rank(im, First(im.l)) = 1
      /\ \A v \in Int : Rank(im, v + 1) = Rank(im, v) + 1
  BY <1>2 DEF Rank
<1>4. Fine(im) => Check(im, First(im.l))
  BY <1>1 DEF Fine, Check, Within, Above, Below, First, Border
<1>5. im.r.t # "inf" => \A v \in Int : Check(im, v) => v <= Last(im.r)
  BY <1>1 DEF Check, Within, Below, Last, Border
<1>6. \A v \in Int : Check(im, v) /\ (im.r.t # "inf" => v # Last(im.r))
        => Check(im, v + 1)
  BY <1>1 DEF Check, Within, Above, Below, Last, Border
<1>. QED  BY <1>2, <1>3, <1>4, <1>5, <1>6

\* The jumps of a walk without a left border.
LEMMA RankJumps ==
  ASSUME NEW im \in Image, ~im.single, im.l.t = "inf"
  PROVE  /\ Rank(im, 0) = 1
         /\ \A v \in Int : Jump(v) \in Int /\ Rank(im, Jump(v)) = Rank(im, v) + 1
         /\ Fine(im) => \A v \in Int : Check(im, v)
<1>1. \A v \in Int : Jump(v) \in Int /\ Rank(im, Jump(v)) = Rank(im, v) + 1
  BY DEF Rank, Jump
<1>. QED  BY <1>1 DEF Rank, Fine, Check, Within, Above, Below

\* What was given has its place, and is of the domain.
Placed ==
  \A j \in 1 .. Len(given) :
    /\ Rank(Walked, given[j]) = j
    /\ Fine(Walked) => Check(Walked, given[j])
\* A walk under way goes on with the next place, towards the bound.
Running == walk.k \in {"inc", "jump", "once"}
OnTheWay ==
  Running =>
    /\ Rank(Walked, walk.value) = Len(given) + 1
    /\ Fine(Walked) => Check(Walked, walk.value)
    /\ \/ /\ walk.k = "once" /\ Walked.single
          /\ walk.bounded /\ walk.bound = Walked.n /\ walk.value = Walked.n
       \/ /\ walk.k = "jump" /\ ~Walked.single /\ Walked.l.t = "inf"
          /\ ~walk.bounded
       \/ /\ walk.k = "inc" /\ ~Walked.single /\ Walked.l.t # "inf"
          /\ walk.bounded <=> Walked.r.t # "inf"
          /\ walk.bound = Last(Walked.r)
\* A walk that ended by itself gave its bound last.
AtTheEnd ==
  walk.k = "done" =>
    /\ Len(given) > 0
    /\ \/ Walked.single /\ given[Len(given)] = Walked.n
       \/ /\ ~Walked.single /\ Walked.l.t # "inf" /\ Walked.r.t # "inf"
          /\ given[Len(given)] = Last(Walked.r)
\* Before a walk nothing is given.
NotYet == walk.k = "none" /\ said # "stopped" => given = <<>>
WalkInv == Placed /\ OnTheWay /\ AtTheEnd /\ NotYet

\* The next value takes its place after what was given.
LEMMA GivesNext ==
  ASSUME TypeOK, WalkInv, Running, given' = Append(given, walk.value),
         UNCHANGED image, walk'.x = walk.x
  PROVE  Placed' /\ Len(given') = Len(given) + 1 /\ given'[Len(given')] = walk.value
<1>1. given \in Seq(Int) /\ walk.value \in Int
  BY DEF TypeOK, Walk
<1>2. /\ Len(given') = Len(given) + 1 /\ Len(given) \in Nat
      /\ given'[Len(given) + 1] = walk.value
      /\ \A j \in 1 .. Len(given) : given'[j] = given[j]
  BY <1>1
<1>3. Walked' = Walked
  BY DEF Walked
<1>4. \A j \in 1 .. Len(given') : j \in 1 .. Len(given) \/ j = Len(given) + 1
  BY <1>2
<1>5. ASSUME NEW j \in 1 .. Len(given')
      PROVE  /\ Rank(Walked, given'[j]) = j
             /\ Fine(Walked) => Check(Walked, given'[j])
  BY <1>2, <1>4, <1>5 DEF WalkInv, Placed, OnTheWay
<1>6. Placed'
  BY <1>3, <1>5 DEF Placed
<1>. QED  BY <1>2, <1>6

\* A walk begins with place 1.
LEMMA GenerateWalks ==
  ASSUME TypeOK, WalkInv, Generate
  PROVE  WalkInv'
<1>1. PICK x \in Vars :
        walk' = IF image[x].single
                THEN [k |-> "once", x |-> x, value |-> image[x].n,
                      bounded |-> TRUE, bound |-> image[x].n]
                ELSE IF image[x].l.t = "inf"
                THEN [k |-> "jump", x |-> x, value |-> 0,
                      bounded |-> FALSE, bound |-> 0]
                ELSE [k |-> "inc", x |-> x, value |-> First(image[x].l),
                      bounded |-> image[x].r.t # "inf", bound |-> Last(image[x].r)]
  BY DEF Generate
<1>2. given = <<>> /\ given' = given /\ image' = image
  BY DEF Generate, WalkInv, NotYet
<1>3. image[x] \in Image /\ image[x].n \in Int
  BY DEF TypeOK, Image
<1>. DEFINE im == image[x]
<1>4. Walked' = im
  BY <1>1, <1>2 DEF Walked
<1>5. Placed' /\ NotYet' /\ Len(given') = 0
  BY <1>2 DEF Placed, NotYet
<1>6. CASE im.single
  <2>1. /\ walk'.k = "once" /\ walk'.value = im.n /\ walk'.bounded
        /\ walk'.bound = im.n
    BY <1>1, <1>6
  <2>2. Rank(im, im.n) = 1 /\ Check(im, im.n)
    BY <1>3, <1>6 DEF Rank, Check
  <2>. QED  BY <1>4, <1>5, <1>6, <2>1, <2>2 DEF WalkInv, OnTheWay, AtTheEnd
<1>7. CASE ~im.single /\ im.l.t = "inf"
  <2>1. walk'.k = "jump" /\ walk'.value = 0 /\ ~walk'.bounded
    BY <1>1, <1>7
  <2>2. Rank(im, 0) = 1 /\ (Fine(im) => Check(im, 0))
    BY <1>3, <1>7, RankJumps
  <2>. QED  BY <1>4, <1>5, <1>7, <2>1, <2>2 DEF WalkInv, OnTheWay, AtTheEnd
<1>8. CASE ~im.single /\ im.l.t # "inf"
  <2>1. /\ walk'.k = "inc" /\ walk'.value = First(im.l)
        /\ walk'.bounded <=> im.r.t # "inf"
        /\ walk'.bound = Last(im.r)
    BY <1>1, <1>8
  <2>2. Rank(im, First(im.l)) = 1 /\ (Fine(im) => Check(im, First(im.l)))
    BY <1>3, <1>8, RankEnds
  <2>. QED  BY <1>4, <1>5, <1>8, <2>1, <2>2 DEF WalkInv, OnTheWay, AtTheEnd
<1>. QED  BY <1>6, <1>7, <1>8

\* A value that is not the last is followed by the next place.
LEMMA ReceiveWalks ==
  ASSUME TypeOK, WalkInv, Receive
  PROVE  WalkInv'
<1>1. /\ Running /\ given' = Append(given, walk.value) /\ UNCHANGED <<image, said>>
      /\ walk' = [walk EXCEPT !.value = IF walk.k = "inc" THEN @ + 1 ELSE Jump(@)]
      /\ ~(walk.bounded /\ walk.value = walk.bound)
  BY DEF Receive, Running, AtBound
<1>2. walk \in Walk /\ Walked \in Image /\ walk.value \in Int
  BY DEF TypeOK, Walk, Walked
<1>3. /\ walk'.x = walk.x /\ walk'.k = walk.k
      /\ walk'.bounded = walk.bounded /\ walk'.bound = walk.bound
      /\ walk'.value = IF walk.k = "inc" THEN walk.value + 1 ELSE Jump(walk.value)
  BY <1>1, <1>2 DEF Walk
<1>4. Walked' = Walked
  BY <1>1, <1>3 DEF Walked
<1>5. Placed' /\ Len(given') = Len(given) + 1
  BY <1>1, <1>3, GivesNext
<1>6. NotYet' /\ AtTheEnd'
  BY <1>1, <1>3 DEF NotYet, AtTheEnd, Running
<1>7. CASE walk.k = "jump"
  <2>1. ~Walked.single /\ Walked.l.t = "inf" /\ ~walk.bounded
    BY <1>1, <1>7 DEF WalkInv, OnTheWay
  <2>2. /\ Rank(Walked, walk'.value) = Rank(Walked, walk.value) + 1
        /\ Fine(Walked) => Check(Walked, walk'.value)
    BY <1>2, <1>3, <1>7, <2>1, RankJumps
  <2>3. OnTheWay'
    BY <1>1, <1>3, <1>4, <1>5, <1>7, <2>1, <2>2 DEF WalkInv, OnTheWay
  <2>. QED  BY <1>5, <1>6, <2>3 DEF WalkInv
<1>8. CASE walk.k = "inc"
  <2>1. /\ ~Walked.single /\ Walked.l.t # "inf"
        /\ walk.bounded <=> Walked.r.t # "inf"
        /\ walk.bound = Last(Walked.r)
    BY <1>1, <1>8 DEF WalkInv, OnTheWay
  <2>2. Rank(Walked, walk'.value) = Rank(Walked, walk.value) + 1
    BY <1>2, <1>3, <1>8, <2>1, RankEnds
  <2>3. Fine(Walked) => Check(Walked, walk'.value)
    <3>1. Fine(Walked) => Check(Walked, walk.value)
      BY <1>1 DEF WalkInv, OnTheWay
    <3>. QED  BY <1>1, <1>2, <1>3, <1>8, <2>1, <3>1, RankEnds
  <2>4. OnTheWay'
    BY <1>1, <1>3, <1>4, <1>5, <1>8, <2>1, <2>2, <2>3 DEF WalkInv, OnTheWay
  <2>. QED  BY <1>5, <1>6, <2>4 DEF WalkInv
<1>9. walk.k # "once"
  BY <1>1 DEF WalkInv, OnTheWay
<1>. QED  BY <1>1, <1>7, <1>8, <1>9 DEF Running

\* The value that is the bound ends the walk.
LEMMA LastWalks ==
  ASSUME TypeOK, WalkInv, ReceiveLast \/ ReceiveAndStop
  PROVE  WalkInv'
<1>1. /\ Running /\ given' = Append(given, walk.value) /\ UNCHANGED image
      /\ \/ /\ walk' = [walk EXCEPT !.k = "done"]
            /\ walk.bounded /\ walk.value = walk.bound
         \/ walk' = [walk EXCEPT !.k = "none"] /\ said' = "stopped"
  BY DEF ReceiveLast, ReceiveAndStop, Running, AtBound
<1>2. walk'.x = walk.x /\ walk'.k \in {"none", "done"}
      /\ (walk'.k = "none" => said' = "stopped")
      /\ (walk'.k = "done" => walk.bounded /\ walk.value = walk.bound)
  BY <1>1 DEF TypeOK, Walk
<1>3. Walked' = Walked
  BY <1>1, <1>2 DEF Walked
<1>4. Placed' /\ Len(given') = Len(given) + 1 /\ given'[Len(given')] = walk.value
  BY <1>1, <1>2, GivesNext
<1>5. Len(given) \in Nat
  BY DEF TypeOK
<1>6. AtTheEnd'
  BY <1>1, <1>2, <1>3, <1>4, <1>5 DEF AtTheEnd, WalkInv, OnTheWay
<1>. QED  BY <1>2, <1>4, <1>6 DEF WalkInv, OnTheWay, NotYet, Running

\* Every step keeps the walk in its place.
LEMMA StepWalks ==
  ASSUME TypeOK, WalkInv, [Next]_vars
  PROVE  WalkInv'
<1>1. CASE Narrow
  <2>1. /\ said = "true" /\ walk.k = "none" /\ UNCHANGED <<walk, given>>
    BY <1>1, NarrowNarrows DEF Asks
  <2>2. given' = <<>> /\ walk'.k = "none"
    BY <2>1 DEF WalkInv, NotYet
  <2>. QED  BY <2>2 DEF WalkInv, Placed, OnTheWay, AtTheEnd, NotYet, Running
<1>2. CASE UNCHANGED vars
  BY <1>2 DEF vars, WalkInv, Placed, OnTheWay, AtTheEnd, NotYet, Running, Walked
<1>. QED  BY <1>1, <1>2, GenerateWalks, ReceiveWalks, LastWalks DEF Next

\* Walks stay in their places, in every behaviour.
THEOREM WalksInPlace == Spec => []WalkInv
<1>1. Init => WalkInv
  BY DEF Init, WalkInv, Placed, OnTheWay, AtTheEnd, NotYet, Running
<1>2. TypeOK /\ WalkInv /\ [Next]_vars => WalkInv'
  BY StepWalks
<1>. QED  BY <1>1, <1>2, DomainTyped, PTL DEF Spec

\* The value at a place was given once the walk is that far.
LEMMA GivenAt ==
  ASSUME TypeOK, WalkInv, NEW w \in Int, Check(Walked, w),
         Rank(Walked, w) <= Len(given)
  PROVE  /\ Rank(Walked, w) \in 1 .. Len(given)
         /\ given[Rank(Walked, w)] = w
<1>1. Walked \in Image /\ given \in Seq(Int)
  BY DEF TypeOK, Walk, Walked
<1>2. Rank(Walked, w) \in Int /\ Rank(Walked, w) >= 1
  BY <1>1, RankOrders
<1>. DEFINE j == Rank(Walked, w)
<1>3. j \in 1 .. Len(given) /\ given[j] \in Int
  BY <1>1, <1>2
<1>4. Rank(Walked, given[j]) = Rank(Walked, w)
  BY <1>3 DEF WalkInv, Placed
<1>. QED  BY <1>1, <1>3, <1>4, RankOrders

\* A receiver gets the values of a domain in order, each once: upwards from a
\* left border, outwards from 0 where there is none.
THEOREM ValuesInOrder == Spec => []InOrder
<1>1. ASSUME TypeOK, WalkInv
      PROVE  InOrder
  <2>1. Walked \in Image /\ given \in Seq(Int)
    BY <1>1 DEF TypeOK, Walk, Walked
  <2>2. Walkable <=> Fine(Walked)
    BY DEF Walkable, Fine
  <2>3. \A w, v : Sooner(w, v) <=> Before(Walked, w, v)
    BY DEF Sooner, Before
  <2>4. ASSUME Fine(Walked), NEW j \in 1 .. Len(given)
        PROVE  /\ Check(Walked, given[j])
               /\ \A w \in Window :
                    (Check(Walked, w) /\ Before(Walked, w, given[j]))
                      <=> \E i \in 1 .. j - 1 : given[i] = w
    <3>1. /\ Check(Walked, given[j]) /\ Rank(Walked, given[j]) = j
          /\ given[j] \in Int /\ Len(given) \in Nat
      BY <1>1, <2>1, <2>4 DEF WalkInv, Placed
    <3>2. ASSUME NEW w \in Window, Check(Walked, w), Before(Walked, w, given[j])
          PROVE  \E i \in 1 .. j - 1 : given[i] = w
      <4>1. w \in Int
        BY WindowAssumption
      <4>2. Rank(Walked, w) < j
        BY <2>1, <3>1, <3>2, <4>1, RankOrders
      <4>3. Rank(Walked, w) \in Int
        BY <2>1, <4>1, RankOrders
      <4>4. Rank(Walked, w) \in 1 .. j - 1 /\ given[Rank(Walked, w)] = w
        BY <1>1, <3>1, <3>2, <4>1, <4>2, <4>3, GivenAt
      <4>. QED  BY <4>4
    <3>3. ASSUME NEW w \in Window, NEW i \in 1 .. j - 1, given[i] = w
          PROVE  Check(Walked, w) /\ Before(Walked, w, given[j])
      <4>1. i \in 1 .. Len(given) /\ i < j /\ w \in Int
        BY <3>1, WindowAssumption
      <4>2. Check(Walked, w) /\ Rank(Walked, w) = i
        BY <1>1, <2>4, <3>3, <4>1 DEF WalkInv, Placed
      <4>. QED  BY <2>1, <3>1, <4>1, <4>2, RankOrders
    <3>. QED  BY <3>1, <3>2, <3>3
  <2>. QED  BY <2>2, <2>3, <2>4 DEF InOrder
<1>2. TypeOK /\ WalkInv => InOrder
  BY <1>1
<1>. QED  BY <1>2, DomainTyped, WalksInPlace, PTL

\* A walk that ends by itself has given every value of the domain.
THEOREM EveryValueGiven == Spec => []AllGiven
<1>1. ASSUME TypeOK, WalkInv, walk.k = "done", NEW w \in Window,
             Check(Walked, w)
      PROVE  \E j \in 1 .. Len(given) : given[j] = w
  <2>1. Walked \in Image /\ given \in Seq(Int) /\ w \in Int
    BY <1>1, WindowAssumption DEF TypeOK, Walk, Walked
  <2>. DEFINE last == given[Len(given)]
  <2>2. Len(given) \in 1 .. Len(given) /\ last \in Int
        /\ Rank(Walked, last) = Len(given)
    BY <1>1, <2>1 DEF WalkInv, Placed, AtTheEnd
  <2>3. \/ Walked.single /\ last = Walked.n
        \/ /\ ~Walked.single /\ Walked.l.t # "inf" /\ Walked.r.t # "inf"
           /\ last = Last(Walked.r)
    BY <1>1 DEF WalkInv, AtTheEnd
  <2>4. w <= last
    <3>1. CASE Walked.single
      BY <1>1, <2>1, <2>2, <2>3, <3>1 DEF Check
    <3>2. CASE ~Walked.single
      BY <1>1, <2>1, <2>3, <3>2, RankEnds
    <3>. QED  BY <3>1, <3>2
  <2>5. Rank(Walked, w) <= Rank(Walked, last)
    <3>1. First(Walked.l) \in Int /\ Walked.n \in Int
      BY <2>1 DEF Image, Border, First
    <3>. QED  BY <2>1, <2>2, <2>3, <2>4, <3>1 DEF Rank
  <2>. QED  BY <1>1, <2>1, <2>2, <2>5, GivenAt
<1>2. TypeOK /\ WalkInv => AllGiven
  BY <1>1 DEF AllGiven
<1>. QED  BY <1>2, DomainTyped, WalksInPlace, PTL
=============================================================================
