-------------------------------- MODULE Browser --------------------------------
(***************************************************************************)
(* laure_scope_interactive of src/scope.c: the full-screen list of a scope *)
(* with its search field.  A state is the browser waiting in getchar, the  *)
(* screen drawn; an action is one key, and the redrawing that follows it.  *)
(* The height of the terminal is asked for once, at the start.  Names and   *)
(* descriptions are short sequences of characters.                         *)
(***************************************************************************)
EXTENDS Integers, Sequences

CONSTANTS
  Lists,       \* the scopes considered: Seq([name, desc]), in the order of the cells
  Keys,        \* the keys pressed; one that is no control key is a character
  Heights,     \* display_height, of the sizes a terminal may have
  DownHeight,  \* the 20 lines that the Down key assumes
  MaxSearch,   \* room of search_buffer, less the terminator
  CopyRoom,    \* room of desc_copy, less the terminator
  Width        \* max_line_content of the detail view

Controls  == {"tab", "enter", "esc", "back"}
Underline == "_"
Space     == " "

ASSUME BrowserAssumption ==
  /\ Lists \subseteq Seq([name : Seq(STRING), desc : Seq(STRING)])
  /\ Heights \subseteq Nat \ {0} /\ DownHeight \in Nat \ {0}
  /\ MaxSearch \in Nat /\ CopyRoom \in Nat /\ Width \in Nat \ {0}

VARIABLES
  items, height,
  search, selected, scroll, show_internal,
  screen,     \* what getchar waits for: list, esc (after ESC), csi (after ESC [),
              \* detail (any key returns) or closed
  shown       \* the lines of the detail view: the part of the description on each

browserVars == <<items, height, search, selected, scroll, show_internal, screen, shown>>
-------------------------------------------------------------------------------
IsInternal(item) == item.name # <<>> /\ Head(item.name) = Underline
Found(item, s)   == \E i \in 0..Len(item.name) - Len(s) :
                      SubSeq(item.name, i + 1, i + Len(s)) = s

Listed(item, s, internal) == (internal \/ ~IsInternal(item)) /\ Found(item, s)

\* filtered_indices
Filter(l, item, s, internal) == IF Listed(item, s, internal) THEN Append(l, item) ELSE l
FilteredTo(list, s, internal) ==
  LET upto[i \in 0..Len(list)] ==
        IF i = 0 THEN <<>> ELSE Filter(upto[i - 1], list[i], s, internal)
  IN  upto
Filtered(s, internal) == FilteredTo(items, s, internal)[Len(items)]

\* The start of the loop: the selection is made valid and scrolled into view.
Valid(sel, n) == IF n = 0 THEN 0 ELSE IF sel >= n THEN n - 1 ELSE sel
ScrolledLate(scr, sel) ==                           \* mutant: one line below the last
  IF sel < scr THEN sel ELSE IF sel > scr + height THEN sel - height + 1 ELSE scr
Scrolled(scr, sel) ==
  IF sel < scr THEN sel ELSE IF sel >= scr + height THEN sel - height + 1 ELSE scr

Redraw(s, sel, scr, internal) ==
  /\ search' = s /\ show_internal' = internal
  /\ selected' = Valid(sel, Len(Filtered(s, internal)))
  /\ scroll' = Scrolled(scr, selected')

Current == Filtered(search, show_internal)
Same    == Redraw(search, selected, scroll, show_internal)
LastRow == IF scroll + height < Len(Current) THEN scroll + height ELSE Len(Current)
Rows    == SubSeq(Current, scroll + 1, LastRow)
-------------------------------------------------------------------------------
(* The detail view copies the description as far as there is room and breaks *)
(* it at the last space that fits.                                           *)
Copied(desc) == SubSeq(desc, 1, IF Len(desc) < CopyRoom THEN Len(desc) ELSE CopyRoom)

\* Where the line that begins at i ends, and where the next one begins.
Spaces(text, i) == {j \in i + 1..i + Width - 1 : text[j] = Space}
LineEnd(text, i) ==
  IF Len(text) - i < Width THEN Len(text)
  ELSE IF Spaces(text, i) = {} THEN i + Width - 1
  ELSE CHOOSE j \in Spaces(text, i) : \A k \in Spaces(text, i) : k <= j
NextLine(text, i) ==
  CHOOSE j \in LineEnd(text, i) + 1..Len(text) + 1 :
    /\ j <= Len(text) => text[j] # Space
    /\ \A k \in LineEnd(text, i) + 1..j - 1 : text[k] = Space

\* line_start after n turns, and when nothing follows it.
Moved(text, i) == IF i > Len(text) THEN i ELSE NextLine(text, i)
LineStart(text) ==
  LET from[n \in 0..Len(text)] == IF n = 0 THEN 1 ELSE Moved(text, from[n - 1]) IN from
Turns(text) ==
  CHOOSE n \in 0..Len(text) :
    LineStart(text)[n] > Len(text) /\ \A k \in 0..n - 1 : LineStart(text)[k] <= Len(text)
Wrapped(text) ==
  [n \in 1..Turns(text) |->
     [from |-> LineStart(text)[n - 1], to |-> LineEnd(text, LineStart(text)[n - 1])]]
-------------------------------------------------------------------------------
BrowserInit ==
  /\ items \in Lists /\ height \in Heights
  /\ search = <<>> /\ selected = 0 /\ scroll = 0 /\ show_internal = FALSE
  /\ screen = "list" /\ shown = <<>>

Pressed(k) == screen = "list" /\ k \in Keys

Quit ==
  /\ Pressed("q") /\ screen' = "closed"
  /\ UNCHANGED <<items, height, search, selected, scroll, show_internal, shown>>

Toggle ==
  /\ Pressed("tab") /\ Redraw(search, 0, 0, ~show_internal)
  /\ UNCHANGED <<items, height, screen, shown>>

Detail ==
  /\ Pressed("enter")
  /\ IF selected < Len(Current)
       THEN /\ screen' = "detail" /\ shown' = Wrapped(Copied(Current[selected + 1].desc))
            /\ UNCHANGED <<search, selected, scroll, show_internal>>
       ELSE Same /\ UNCHANGED <<screen, shown>>
  /\ UNCHANGED <<items, height>>

Return ==
  /\ screen = "detail" /\ screen' = "list" /\ shown' = <<>>
  /\ Same /\ UNCHANGED <<items, height>>

Type(k) ==
  /\ Pressed(k) /\ k \notin Controls \cup {"q"}
  /\ IF Len(search) < MaxSearch
       THEN Redraw(Append(search, k), 0, 0, show_internal)
       ELSE Same
  /\ UNCHANGED <<items, height, screen, shown>>

Backspace ==
  /\ Pressed("back")
  /\ IF search # <<>> THEN Redraw(SubSeq(search, 1, Len(search) - 1), 0, 0, show_internal) ELSE Same
  /\ UNCHANGED <<items, height, screen, shown>>

\* An arrow is ESC [ A or ESC [ B; after ESC anything but [ closes the browser.
Escape ==
  /\ Pressed("esc") /\ screen' = "esc"
  /\ UNCHANGED <<items, height, search, selected, scroll, show_internal, shown>>

AfterEscape(k) ==
  /\ screen = "esc" /\ k \in Keys /\ screen' = IF k = "[" THEN "csi" ELSE "closed"
  /\ UNCHANGED <<items, height, search, selected, scroll, show_internal, shown>>

UpRoom   == selected > 0
Arrow(k) ==
  /\ screen = "csi" /\ k \in Keys /\ screen' = "list"
  /\ LET down == selected + 1 IN
       \/ /\ k = "A" /\ UpRoom
          /\ Redraw(search, selected - 1,
                    IF selected - 1 < scroll THEN selected - 1 ELSE scroll, show_internal)
       \/ /\ k = "B" /\ selected < Len(Current) - 1
          /\ Redraw(search, down,
                    IF down >= scroll + DownHeight THEN down - DownHeight + 1 ELSE scroll,
                    show_internal)
       \/ /\ ~(k = "A" /\ UpRoom) /\ ~(k = "B" /\ selected < Len(Current) - 1)
          /\ Same
  /\ UNCHANGED <<items, height, shown>>

BrowserNext ==
  \/ Quit \/ Toggle \/ Detail \/ Return \/ Backspace \/ Escape
  \/ \E k \in Keys : Type(k) \/ AfterEscape(k) \/ Arrow(k)

BrowserSpec == BrowserInit /\ [][BrowserNext]_browserVars
-------------------------------------------------------------------------------
Line == [from : Nat, to : Nat]
BrowserTypeOK ==
  /\ items \in Lists /\ height \in Heights
  /\ search \in Seq(Keys \ Controls) /\ Len(search) <= MaxSearch
  /\ selected \in 0..Len(items) /\ scroll \in 0..Len(items)
  /\ show_internal \in BOOLEAN
  /\ screen \in {"list", "esc", "csi", "detail", "closed"} /\ shown \in Seq(Line)

\* Whatever is listed, scrolled and filtered, the item that Enter shows is the one
\* highlighted, among the lines drawn.
SelectionIsShown ==
  Current # <<>> =>
    /\ 0 <= selected - scroll /\ selected - scroll < Len(Rows)
    /\ Rows[selected - scroll + 1] = Current[selected + 1]

\* The lines of a description fit the table and follow each other, and whatever
\* was copied of it and is no space is on one of them.
Whole(text) ==
  /\ \A n \in 1..Len(shown) :
       /\ 1 <= shown[n].from /\ shown[n].from <= shown[n].to /\ shown[n].to <= Len(text)
       /\ shown[n].to < shown[n].from + Width
       /\ n < Len(shown) => shown[n].to < shown[n + 1].from
  /\ \A k \in 1..Len(text) : text[k] # Space =>
       \E n \in 1..Len(shown) : k \in shown[n].from..shown[n].to
DescriptionIsWhole == screen = "detail" => Whole(Copied(Current[selected + 1].desc))

\* Whatever keys are pressed, the highlighted item is among the lines drawn of the
\* list, and its description is shown whole.  (Five lines at least are drawn, and
\* ten around the list: a terminal that is lower scrolls some off.)
BrowserIsRight == BrowserTypeOK /\ SelectionIsShown /\ DescriptionIsWhole
===============================================================================
