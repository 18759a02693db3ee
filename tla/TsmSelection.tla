---------------------------- MODULE TsmSelection ----------------------------
(***************************************************************************)
(* libtsm/tsm/tsm-selection.c: the text the user marks with the mouse.     *)
(* Three algorithms go over its two ends: selection_age notes which cells  *)
(* must be drawn again, tsm_screen_draw finds out which to highlight and   *)
(* tsm_screen_selection_copy takes the text.  The mouse, TERM_handlemouse  *)
(* of src/term-gc.c, marks while output scrolls what is marked up, into    *)
(* the scrollback and out of it at the top, and the view moves over it.    *)
(*                                                                         *)
(* The scrollback is a number of lines, sb_ids and pointers are positions  *)
(* in it (TsmScrollback: NumberedInOrder).  Of the text it matters where   *)
(* the words are, as a bound in the same columns of every line.  The size  *)
(* does not change.                                                        *)
(***************************************************************************)
EXTENDS Integers, FiniteSets

CONSTANTS SizeX, SizeY,  \* con->size_x and size_y
          SbMax,         \* con->sb_max
          Letters        \* the columns that hold letters

ASSUME SelectionAssumption ==
    /\ {SizeX, SizeY} \subseteq Nat \ {0} /\ SbMax \in Nat
    /\ Letters \subseteq 0..(SizeX - 1)

VARIABLES con,    \* struct tsm_screen: the scrollback, the view and the selection
          due,    \* cells whose age is greater than td_Age
          shown,  \* cells that are highlighted in the window
          mouse   \* td_MouseMode, td_NumClicks, td_MouseX and Y, td_PrevX and Y

vars == <<con, due, shown, mouse>>

Columns == 0..(SizeX - 1)
Rows == 0..(SizeY - 1)
Cells == Rows \X Columns

TOP == -1   \* SELECTION_TOP
NULL == 0   \* no line of the scrollback; they are numbered from 1

Least(a, b) == IF a < b THEN a ELSE b
Greatest(a, b) == IF a < b THEN b ELSE a
Odd(n) == n % 2 = 1

-----------------------------------------------------------------------------
(* Rows of the display. *)

\* The loops of tsm_screen_draw and selection_age: row i is the line `iter` of the
\* scrollback, or the next of the screen, of which there have been k by then.
LineAt(c, i) == IF c.pos # NULL /\ c.pos + i <= c.count THEN c.pos + i ELSE NULL
Taken(c, i) == IF c.pos = NULL THEN i + 1
               ELSE Greatest(0, i + 1 - (c.count - c.pos + 1))

\* sel_start and sel_end.  While k is 0, y == k - 1 for an end that is at the top of
\* everything: -1 as an unsigned is what k - 1 wraps to.
IsAt(c, end, i) == IF end.line # NULL THEN end.line = LineAt(c, i)
                   ELSE end.y = Taken(c, i) - 1

\* The end is above the view.
IsAbove(c, end) == IF end.line # NULL THEN c.pos = NULL \/ end.line < c.pos
                   ELSE end.y = TOP

-----------------------------------------------------------------------------
(* tsm_screen_draw: in_sel is toggled by each end that is above the view, and at the *)
(* cell of each end, which is highlighted itself whichever way.                      *)

Ends(c) == {<<"start", c.start>>, <<"end", c.end>>}
Marks(c, cell) == {e \in Ends(c) : IsAt(c, e[2], cell[1]) /\ e[2].x = cell[2]}
Before(a, b) == a[1] < b[1] \/ (a[1] = b[1] /\ a[2] < b[2])

InSel(c, cell) ==
    Odd(Cardinality({e \in Ends(c) : IsAbove(c, e[2])}) +
        Cardinality({p \in Cells \X Ends(c) :
                        Before(p[1], cell) /\ p[2] \in Marks(c, p[1])}))

Highlighted(c) ==
    IF c.active THEN {cell \in Cells : Marks(c, cell) # {} \/ InSel(c, cell)} ELSE {}

-----------------------------------------------------------------------------
(* tsm_screen_selection_copy. *)

AtTop(end) == end.line = NULL /\ end.y = TOP

\* The mutant: rows are compared without regard to the columns.
RowsFirst(a, b) ==
    \/ AtTop(a)
    \/ /\ ~AtTop(b)
       /\ \/ a.line # NULL /\ (b.line = NULL \/ a.line <= b.line)
          \/ a.line = NULL /\ b.line = NULL /\ a.y <= b.y

\* Whether end a comes first.
ComesFirst(a, b) ==
    \/ AtTop(a)
    \/ /\ ~AtTop(b)
       /\ \/ a.line # NULL /\ b.line = NULL
          \/ /\ a.line # NULL /\ b.line # NULL
             /\ a.line < b.line \/ (a.line = b.line /\ a.x < b.x)
          \/ /\ a.line = NULL /\ b.line = NULL
             /\ a.y < b.y \/ (a.y = b.y /\ a.x < b.x)

\* What is copied: cells of lines of the scrollback, then of rows of the screen, which
\* are numbered on from those.
Copied(c) ==
    LET startFirst == ComesFirst(c.start, c.end)
        start == IF startFirst THEN c.start ELSE c.end
        end == IF startFirst THEN c.end ELSE c.start
        lines == (IF start.line # NULL THEN start.line
                  ELSE IF AtTop(start) THEN 1 ELSE c.count + 1)
                 ..(IF end.line # NULL THEN end.line ELSE c.count)
        rows == IF end.line # NULL THEN {}
                ELSE (IF start.line # NULL \/ AtTop(start) THEN 0 ELSE start.y)..end.y
        From(own) == IF own THEN start.x ELSE 0
        To(own) == IF own THEN end.x ELSE SizeX - 1
    IN  IF ~c.active \/ (AtTop(c.start) /\ AtTop(c.end)) THEN {}
        ELSE {p \in lines \X Columns :
                 From(p[1] = start.line) <= p[2] /\ p[2] <= To(p[1] = end.line)}
             \cup {<<c.count + 1 + p[1], p[2]>> : p \in
                 {q \in rows \X Columns : /\ From(start.line = NULL /\ q[1] = start.y) <= q[2]
                                           /\ q[2] <= To(q[1] = end.y)}}

-----------------------------------------------------------------------------
(* selection_age: the cells from one end to the other. *)

AgedCells(c, start, end) ==
    LET above == {e \in {1, 2} : IsAbove(c, IF e = 1 THEN start ELSE end)}
        One(i) == IsAt(c, start, i) # IsAt(c, end, i)
        inSel(i) == Odd(Cardinality(above) + Cardinality({r \in Rows : r < i /\ One(r)}))
        Aged(i, x) ==
            IF IsAt(c, start, i) /\ IsAt(c, end, i)
            THEN Least(start.x, end.x) <= x /\ x <= Greatest(start.x, end.x)
            ELSE IF One(i)
            THEN LET mark == IF IsAt(c, start, i) THEN start.x ELSE end.x
                 IN  IF inSel(i) THEN x <= mark ELSE x >= mark
            ELSE inSel(i)
    IN  IF Cardinality(above) = 2 THEN {} ELSE {cell \in Cells : Aged(cell[1], cell[2])}

\* The display: a screen, the cells that are due and what the window shows.  `fresh`
\* says that the age counter has moved since the last draw; cells that are given an
\* age before it has are not due.
Display == [con |-> con, due |-> due, shown |-> shown]

IncAge(d) == [d EXCEPT !.con.fresh = TRUE]
AllAged(d) == [d EXCEPT !.due = Cells]
SelectionAge(d, start, end) ==
    IF d.con.fresh THEN [d EXCEPT !.due = @ \cup AgedCells(d.con, start, end)] ELSE d
OldAge(d) == IF d.con.active THEN SelectionAge(d, d.con.start, d.con.end) ELSE d

\* render_cells, of the rows from miny to maxy.
Rendered(d, miny, maxy) ==
    LET drawn == {cell \in d.due : miny <= cell[1] /\ cell[1] <= maxy}
    IN  [con |-> [d.con EXCEPT !.fresh = FALSE],
         due |-> {},
         shown |-> (d.shown \ drawn) \cup (Highlighted(d.con) \cap drawn)]

RenderUpdate(d) == Rendered(d, 0, SizeY - 1)

RenderScroll(d, delta) ==
    LET raster == {cell \in Cells :
                      IF cell[1] + delta \in Rows THEN <<cell[1] + delta, cell[2]>> \in d.shown
                      ELSE cell \in d.shown}
        scrolled == [d EXCEPT !.shown = raster]
    IN  IF delta < 0 THEN Rendered(scrolled, 0, 1 - delta)
        ELSE Rendered(scrolled, SizeY - delta, SizeY - 1)

Becomes(d) == con' = d.con /\ due' = d.due /\ shown' = d.shown

-----------------------------------------------------------------------------
(* The calls of the mouse. *)

\* selection_set
SelectionSet(c, x, y) ==
    IF c.pos # NULL /\ c.pos + y <= c.count THEN [line |-> c.pos + y, x |-> x, y |-> 0]
    ELSE [line |-> NULL, x |-> x,
          y |-> IF c.pos = NULL THEN y ELSE y - (c.count - c.pos + 1)]

Selected(d, start, end) ==
    LET s == [d EXCEPT !.con = [@ EXCEPT !.active = TRUE, !.start = start, !.end = end]]
    IN  SelectionAge(s, start, end)

\* tsm_screen_selection_reset
ResetSelection(d) ==
    IF d.con.active THEN [OldAge(IncAge(d)) EXCEPT !.con.active = FALSE] ELSE d

\* tsm_screen_selection_start
StartSelection(d, x, y) ==
    LET start == SelectionSet(d.con, x, y)
    IN  Selected(OldAge(IncAge(d)), start, start)

\* The mutant: what the selection has lost is not drawn again.
TargetNewEnd(d, x, y) ==
    LET end == SelectionSet(d.con, x, y)
    IN  IF d.con.active THEN Selected(IncAge(d), d.con.start, end) ELSE d

\* tsm_screen_selection_target: the cells between the old end and the new one.
TargetSelection(d, x, y) ==
    LET end == SelectionSet(d.con, x, y)
        aged == SelectionAge(IncAge([d EXCEPT !.con.end = end]), d.con.end, end)
    IN  IF d.con.active THEN aged ELSE d

\* tsm_screen_selection_word: the counter moves after the old selection has been aged,
\* and only when there is a word.
Wordful(x, to) == \A i \in Least(x, to)..Greatest(x, to) : i \in Letters

SelectWord(d, x, y) ==
    LET first == CHOOSE i \in 0..x : Wordful(i, x) /\ ~(i > 0 /\ Wordful(i - 1, x))
        last == CHOOSE i \in x..(SizeX - 1) :
                    Wordful(x, i) /\ ~(i < SizeX - 1 /\ Wordful(x, i + 1))
        start == SelectionSet(d.con, first, y)
    IN  IF x \in Letters
        THEN Selected(IncAge(OldAge(d)), start, [start EXCEPT !.x = last])
        ELSE OldAge(d)

\* tsm_screen_selection_line
SelectLine(d, y) ==
    LET start == SelectionSet(d.con, 0, y)
    IN  Selected(OldAge(IncAge(d)), start, [start EXCEPT !.x = SizeX - 1])

-----------------------------------------------------------------------------
(* The gadget. *)

Init ==
    /\ con = [count |-> 0, pos |-> NULL, active |-> FALSE, fresh |-> FALSE,
              start |-> [line |-> NULL, x |-> 0, y |-> 0],
              end |-> [line |-> NULL, x |-> 0, y |-> 0]]
    /\ due = {} /\ shown = {}
    /\ mouse = [mode |-> "default", clicks |-> 0, at |-> <<0, 0>>, prev |-> <<0, 0>>]

\* SELECTDOWN somewhere else, or after a while.
Press == \E cell \in Cells :
    /\ Becomes(RenderUpdate(ResetSelection(Display)))
    /\ mouse' = [mouse EXCEPT !.mode = "movecursor", !.clicks = 1, !.at = cell]

\* SELECTDOWN again on the same cell: a double and then a triple click.
DoubleClick ==
    /\ mouse.clicks = 1
    /\ Becomes(RenderUpdate(SelectWord(Display, mouse.at[2], mouse.at[1])))
    /\ mouse' = [mouse EXCEPT !.clicks = 2]

TripleClick ==
    /\ mouse.clicks = 2
    /\ Becomes(RenderUpdate(SelectLine(Display, mouse.at[1])))
    /\ mouse' = [mouse EXCEPT !.clicks = 0]

Release == /\ mouse.mode # "default"
           /\ mouse' = [mouse EXCEPT !.mode = "default"]
           /\ UNCHANGED <<con, due, shown>>

\* The mouse has moved by more than 3 pixels, maybe within the cell.
Mark ==
    /\ mouse.mode = "movecursor"
    /\ Becomes(RenderUpdate(StartSelection(Display, mouse.at[2], mouse.at[1])))
    /\ mouse' = [mouse EXCEPT !.mode = "marktext", !.prev = mouse.at]

Drag == \E cell \in Cells \ {mouse.prev} :
    /\ mouse.mode = "marktext"
    /\ Becomes(RenderUpdate(TargetSelection(Display, cell[2], cell[1])))
    /\ mouse' = [mouse EXCEPT !.prev = cell]

-----------------------------------------------------------------------------
(* Output and the view. *)

\* The mutant: the scrollback grows one line beyond its limit.
BeyondFull(c) == c.count > SbMax
Full(c) == c.count >= SbMax

\* The end's line goes to the scrollback or the scrollback's first line, which may be
\* the end's, goes for good (link_to_scrollback and screen_scroll_up, of one line of
\* the whole screen).
EndMoved(end, count, evicted) ==
    IF end.line # NULL
    THEN IF end.line > evicted THEN [end EXCEPT !.line = @ - evicted]
         ELSE [end EXCEPT !.line = NULL, !.y = TOP]
    ELSE IF end.y > 0 THEN [end EXCEPT !.y = @ - 1]
    ELSE IF end.y = 0 THEN [end EXCEPT !.line = count, !.y = TOP]
    ELSE end

\* A line feed on the last row, and the refresh.
Output ==
    LET evicted == IF Full(con) THEN 1 ELSE 0
        count == con.count + 1 - evicted
        c == [con EXCEPT !.count = count,
                         !.start = IF con.active THEN EndMoved(@, count, evicted) ELSE @,
                         !.end = IF con.active THEN EndMoved(@, count, evicted) ELSE @]
    IN  /\ Becomes(RenderUpdate(AllAged(IncAge([Display EXCEPT !.con = c]))))
        /\ UNCHANGED mouse

\* The scroller: tsm_screen_sb_up and tsm_screen_sb_down.
ScrollView == \E delta \in -SbMax..SbMax :
    LET top == (IF con.pos = NULL THEN con.count + 1 ELSE con.pos) + delta
        c == [con EXCEPT !.pos = IF top = con.count + 1 THEN NULL ELSE top]
        d == AllAged(IncAge([Display EXCEPT !.con = c]))
    IN  /\ delta # 0 /\ top \in 1..(con.count + 1)
        /\ Becomes(IF delta \in -SizeY..SizeY /\ delta \notin {-SizeY, SizeY}
                   THEN RenderScroll(d, delta) ELSE RenderUpdate(d))
        /\ UNCHANGED mouse

Next == \/ Press \/ DoubleClick \/ TripleClick \/ Release \/ Mark \/ Drag
        \/ Output \/ ScrollView

Spec == Init /\ [][Next]_vars

-----------------------------------------------------------------------------
(* The properties. *)

\* An end is on a line of the scrollback, on a row or at the top of everything.
EndOK(end) ==
    /\ end.x \in Columns
    /\ \/ end.line \in 1..con.count /\ end.y \in {0, TOP}
       \/ end.line = NULL /\ end.y \in (-1)..(SizeY - 1)

TypeOK ==
    /\ con.count \in 0..SbMax /\ con.pos \in 0..con.count
    /\ {con.active, con.fresh} \subseteq BOOLEAN
    /\ con.active => EndOK(con.start) /\ EndOK(con.end)
    /\ due \subseteq Cells /\ shown \subseteq Cells
    /\ mouse.mode \in {"default", "movecursor", "marktext"} /\ mouse.clicks \in 0..2
    /\ {mouse.at, mouse.prev} \subseteq Cells

\* The number of the line a row of the display shows.
LineShown(i) == (IF con.pos = NULL THEN con.count + 1 ELSE con.pos) + i

CopiedInView == {cell \in Cells : <<LineShown(cell[1]), cell[2]>> \in Copied(con)}

\* The selection ends above the first line and the view is in the scrollback.
TopInView == con.pos # NULL /\ (AtTop(con.start) \/ AtTop(con.end))

\* What is highlighted is what is copied, whichever way it was marked, whatever has
\* scrolled since and wherever the view is: "This selection takes also care of
\* scrollback-buffer selections and correctly moves selection state along"
\* (tsm-selection.c).  With TopInView every row of the scrollback is taken for the end
\* above it, and it is not.
HighlightIsCopied == con.active /\ ~TopInView => Highlighted(con) = CopiedInView

\* The window shows the selection.
Drawn == shown = Highlighted(con)

\* What was marked before does not stay highlighted, and what is marked now is: every
\* call draws the cells that change and the window scrolls with the rest, unless a
\* double click takes a word that leaves out a part of what was marked.
OnlyWordsLeaveTraces ==
    [][Drawn /\ ~Drawn' => DoubleClick \/ TopInView \/ TopInView']_vars

=============================================================================
