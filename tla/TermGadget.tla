----------------------------- MODULE TermGadget -----------------------------
(***************************************************************************)
(* src/term-gc.c, the gadget that shows a terminal: what of the screen it  *)
(* has drawn (tsm_screen_draw and the ages of libtsm), what it remembers   *)
(* of the scrollback for the scroller beside it, and when it brings either *)
(* up to date.  src/termwin.c calls it without a GadgetInfo while output   *)
(* comes in, and with one, if the window is open, afterwards.              *)
(*                                                                         *)
(* Three tasks meet here.  The program reads output, keys and menus; the   *)
(* scroller, the mouse wheel and the layout of the window run on tasks of  *)
(* the system between any two calls of the program.  A call is one step.   *)
(*                                                                         *)
(* A line has a text, which blinks or not, and an age: the latest of its   *)
(* own and its cells'.  The cursor, the selection and columns are left out.*)
(***************************************************************************)
EXTENDS Integers, Sequences

CONSTANTS Heights,  \* rows the window may have room for
          Maxima,   \* values of TERM_MaxScrollback
          Wheel,    \* how far the wheel turns: numbers of lines
          AgeMod,   \* what the age counter wraps at, 2^32 in the program
          MaxCalls  \* bound: calls of the gadget

ASSUME GadgetAssumption ==
    /\ Heights # {} /\ Heights \subseteq Nat \ {0} /\ Maxima \subseteq Nat
    /\ Wheel \subseteq Nat \ {0} /\ AgeMod \in Nat \ {0, 1} /\ MaxCalls \in Nat

VARIABLES con,      \* struct tsm_screen
          td,       \* struct TermData
          shown,    \* what each row of the window looks like
          open,     \* the window is not iconified
          reading,  \* the program is between termwin_write and termwin_refresh
          calls     \* of the gadget so far

vars == <<con, td, shown, open, reading, calls>>

Texts == {"plain", "blink"}
Ages == 0..(AgeMod - 1)
Line == [text : Texts, age : Ages]

SB == INSTANCE Scrollback WITH sb <- con.sb, Moves <- Wheel

Greatest(a, b) == IF a < b THEN b ELSE a
Least(a, b) == IF a < b THEN a ELSE b
Abs(n) == IF n < 0 THEN -n ELSE n

-----------------------------------------------------------------------------
(* The screen. *)

\* screen_inc_age
IncAge(c) == IF c.age_cnt + 1 = AgeMod THEN [c EXCEPT !.age_cnt = 1, !.age_reset = TRUE]
             ELSE [c EXCEPT !.age_cnt = @ + 1]

\* con->age = con->age_cnt: every row has changed.
AllAged(c) == [c EXCEPT !.age = c.age_cnt]

Size(c) == Len(c.rows)

NewLine(c) == [text |-> "plain", age |-> c.age_cnt]

\* Row i of the display, from 1: a line of the scrollback below the view, or of the
\* screen.
Visible(c, i) ==
    LET n == c.sb.top + i
        depth == Len(c.sb.lines)
    IN  IF n <= depth THEN c.sb.lines[n] ELSE c.rows[n - depth]

\* The mutant: the top is that of the main screen.
ScrollerOfMain(c) ==
    [top |-> c.sb.top, visible |-> Size(c),
     total |-> Size(c) + (IF c.alternate THEN 0 ELSE Len(c.sb.lines))]

\* tsm_screen_get_sb_top, _visible and _total
ScrollerOf(c) ==
    [top |-> IF c.alternate THEN 0 ELSE c.sb.top,
     visible |-> Size(c),
     total |-> Size(c) + (IF c.alternate THEN 0 ELSE Len(c.sb.lines))]

\* A row is written, erased or edited; the screen scrolls up, as a bound by one or
\* two rows at once; the other buffer is taken, whatever there is on it, as a bound
\* the same in every row; the scrollback is cleared by a reset.
Other(text) == IF text = "plain" THEN "blink" ELSE "plain"

Written(c, i) == [c EXCEPT !.rows[i] = [text |-> Other(@.text), age |-> c.age_cnt]]

ScrolledUp(c, num) ==
    AllAged([c EXCEPT
        !.rows = [i \in DOMAIN @ |-> IF i + num \in DOMAIN @ THEN @[i + num] ELSE NewLine(c)],
        !.sb = IF c.alternate THEN @
               ELSE SB!Pushed(@, SubSeq(c.rows, 1, num), FALSE)])

Switched(c, text) ==
    AllAged([c EXCEPT !.alternate = ~@,
                      !.rows = [i \in DOMAIN @ |-> [text |-> text, age |-> c.age_cnt]]])

SbCleared(c) == AllAged([c EXCEPT !.sb = SB!Cleared(@)])

\* tsm_vte_input of one character or sequence that changes the screen.
Outputs ==
    LET c == IncAge(con)
    IN  {Written(c, i) : i \in 1..Size(c)}
            \cup {ScrolledUp(c, num) : num \in 1..Least(2, Size(c))} \cup {SbCleared(c)}
            \cup {Switched(c, t) : t \in Texts}

\* tsm_screen_resize: `back` lines come back from the scrollback, at the top, and
\* then `lost` rows scroll off there, on the alternate screen for good.  Empty rows
\* are dropped or added at the bottom.
Resized(c, rows, back, lost) ==
    LET b == IncAge(c)
        depth == Len(b.sb.lines)
        all == SubSeq(b.sb.lines, depth - back + 1, depth) \o b.rows
        rest == SubSeq(all, lost + 1, Len(all))
        fit == [b EXCEPT
                  !.rows = [i \in 1..rows |-> IF i <= Len(rest) THEN rest[i] ELSE NewLine(b)],
                  !.sb = IF b.alternate THEN @
                         ELSE SB!Pushed(SB!Pulled(@, back), SubSeq(all, 1, lost), FALSE)]
    IN  IF back + lost > 0 THEN AllAged(fit) ELSE fit

MayComeBack(c, rows) == IF c.alternate THEN {0} ELSE 0..Least(rows, Len(c.sb.lines))
MayBeLost(c, rows) == 0..Greatest(0, Size(c) - rows)

\* tsm_screen_sb_up and tsm_screen_sb_down
SbMoved(c, delta) ==
    IF delta = 0 THEN c
    ELSE AllAged([IncAge(c) EXCEPT !.sb = IF delta < 0 THEN SB!Up(@, -delta)
                                          ELSE SB!Down(@, delta)])

\* tsm_screen_sb_reset
SbReset(c) == IF SB!Live(c.sb) THEN c
              ELSE AllAged([IncAge(c) EXCEPT !.sb = SB!Reset(@)])

\* tsm_screen_blink: the blinking lines on display get older.
Blinking(c) == {i \in 1..Size(c) : Visible(c, i).text = "blink"}

Blinked(c) ==
    LET b == IncAge(c)
        depth == Len(b.sb.lines)
        Aged(line) == IF line.text = "blink" THEN [line EXCEPT !.age = b.age_cnt] ELSE line
    IN  IF Blinking(c) = {} THEN c
        ELSE [b EXCEPT !.sb.lines = [n \in DOMAIN @ |->
                            IF n \in (b.sb.top + 1)..(b.sb.top + Size(b))
                            THEN Aged(@[n]) ELSE @[n]],
                       !.rows = [k \in DOMAIN @ |->
                            IF k + depth <= b.sb.top + Size(b) THEN Aged(@[k]) ELSE @[k]]]

-----------------------------------------------------------------------------
(* Drawing. *)

\* What tsm_draw_cb makes of a line: one that blinks is lit or not.
Look(line, blinkstate) == IF line.text = "plain" THEN "plain"
                          ELSE IF blinkstate THEN "dark" ELSE "lit"

\* The mutant: a draw does not notice that the counter has wrapped.
AgeNoReset(c, i) == Greatest(Visible(c, i).age, c.age)

\* The age tsm_screen_draw gives a row, and whether tsm_draw_cb takes the row for one
\* it has not drawn yet.
AgeOf(c, i) == IF c.age_reset THEN 0 ELSE Greatest(Visible(c, i).age, c.age)
Due(c, t, i) == AgeOf(c, i) = 0 \/ AgeOf(c, i) > t.age

\* render_cells: the rows from miny to maxy that are due are drawn, and td_Age is as
\* recent as the screen.
Rendered(d, miny, maxy) ==
    [con |-> [d.con EXCEPT !.age_reset = FALSE],
     td |-> [d.td EXCEPT !.age = IF d.con.age_reset THEN 0 ELSE d.con.age_cnt],
     shown |-> [i \in 1..Size(d.con) |->
                   IF miny <= i - 1 /\ i - 1 <= maxy /\ Due(d.con, d.td, i)
                   THEN Look(Visible(d.con, i), d.td.blinkstate)
                   ELSE d.shown[i]]]

\* TERM_render for GREDRAW_UPDATE, GREDRAW_REDRAW and GREDRAW_SCROLL.  Scrolling
\* moves what the window shows and draws the rows that have come in.
RenderUpdate(d) == Rendered(d, 0, d.td.rows - 1)

RenderRedraw(d) ==
    RenderUpdate([con |-> d.con, td |-> [d.td EXCEPT !.age = 0],
                  shown |-> [i \in 1..Size(d.con) |-> "old"]])

RenderScroll(d, delta) ==
    LET raster == [i \in 1..Size(d.con) |->
                      IF i + delta \in 1..Size(d.con) THEN d.shown[i + delta]
                      ELSE d.shown[i]]
        scrolled == [d EXCEPT !.shown = raster]
    IN  IF delta < 0 THEN Rendered(scrolled, 0, 1 - delta)
        ELSE Rendered(scrolled, d.td.rows - delta, d.td.rows - 1)

\* DoRender draws with a GadgetInfo only, which there is while the window is open.
DoRender(d) == IF open THEN RenderUpdate(d) ELSE d

\* update_scroller: what the gadget remembers, and the scroller shows.
WithScroller(d) == [d EXCEPT !.td = [@ EXCEPT !.sb = ScrollerOf(d.con)]]

Display == [con |-> con, td |-> td, shown |-> shown]
Becomes(d) == con' = d.con /\ td' = d.td /\ shown' = d.shown

-----------------------------------------------------------------------------
(* The program, and what the system calls. *)

\* tsm_screen_new, TERM_new with its TERM_set, which asks for a new limit only,
\* TERM_layout and the first GREDRAW_REDRAW.
Init ==
    /\ \E rows \in Heights, max \in Maxima :
          LET new == [sb |-> SB!Empty,
                      rows |-> [i \in 1..rows |-> [text |-> "plain", age |-> 1]],
                      alternate |-> FALSE,
                      age |-> 0, age_cnt |-> 1, age_reset |-> FALSE]
              limited == AllAged([IncAge(new) EXCEPT !.sb = SB!Limited(@, max)])
          IN  /\ con = [IF max = 0 THEN new ELSE limited EXCEPT !.age_reset = FALSE]
              /\ td = [rows |-> rows, age |-> con.age_cnt, blinkstate |-> FALSE,
                       maxsb |-> max,
                       sb |-> [top |-> 0, visible |-> rows, total |-> rows]]
              /\ shown = [i \in 1..rows |-> "plain"]
    /\ open = TRUE /\ reading = FALSE /\ calls = 0

\* termwin_write: TM_INPUT without a GadgetInfo.
Write ==
    /\ con' \in Outputs
    /\ reading' = TRUE
    /\ UNCHANGED <<td, shown, open>>

\* termwin_refresh: TM_INPUT of nothing, with one if there is a window.
Refresh ==
    /\ Becomes(DoRender(IF open THEN WithScroller(Display) ELSE Display))
    /\ reading' = FALSE
    /\ UNCHANGED open

\* TERM_handlekeyboard: a key takes the view back to the screen.
Key ==
    /\ ~reading
    /\ con' = SbReset(con)
    /\ UNCHANGED <<td, shown, open, reading>>

\* The mutant: the scroller is left as it is.
ClearSbAlone ==
    /\ ~reading
    /\ Becomes(DoRender([Display EXCEPT !.con = SbCleared(IncAge(con))]))
    /\ UNCHANGED <<open, reading>>

\* TERM_clearsb
ClearSb ==
    /\ ~reading
    /\ LET d == [Display EXCEPT !.con = SbCleared(IncAge(con))]
       IN  Becomes(DoRender(IF open THEN WithScroller(d) ELSE d))
    /\ UNCHANGED <<open, reading>>

\* The mutant: the screen is not told.
SetMaxSbAlone == \E max \in Maxima :
    /\ ~reading /\ max # td.maxsb
    /\ Becomes(WithScroller(DoRender([Display EXCEPT !.td = [@ EXCEPT !.maxsb = max]])))
    /\ UNCHANGED <<open, reading>>

\* TERM_set of TERM_MaxScrollback
SetMaxSb == \E max \in Maxima :
    /\ ~reading /\ max # td.maxsb
    /\ LET c == AllAged([IncAge(con) EXCEPT !.sb = SB!Limited(@, max)])
           d == [con |-> c, td |-> [td EXCEPT !.maxsb = max], shown |-> shown]
       IN  Becomes(WithScroller(DoRender(d)))
    /\ UNCHANGED <<open, reading>>

\* TERM_blink
Blink ==
    /\ ~reading
    /\ LET d == [con |-> Blinked(con), td |-> [td EXCEPT !.blinkstate = ~@], shown |-> shown]
       IN  Becomes(IF Blinking(con) = {} THEN d ELSE DoRender(d))
    /\ UNCHANGED <<open, reading>>

\* termwin_iconify and termwin_uniconify: a window that opens lays its gadgets out,
\* to the size they had, and draws them.
Iconify ==
    /\ ~reading /\ open
    /\ open' = FALSE
    /\ UNCHANGED <<con, td, shown, reading>>

Uniconify ==
    /\ ~reading /\ ~open
    /\ Becomes(RenderRedraw(Display))
    /\ open' = TRUE
    /\ UNCHANGED reading

\* TERM_set of TERM_SBTop: the view is moved as far as the new top is from the one
\* the gadget remembers.  A notification of the scroller, OM_UPDATE, does not
\* set the scroller.
SBTop(t, update) ==
    LET top == Least(Greatest(t, 0), td.sb.total - td.sb.visible)
        delta == top - td.sb.top
        d == [con |-> SbMoved(con, delta), td |-> [td EXCEPT !.sb = [@ EXCEPT !.top = top]],
              shown |-> shown]
        drawn == IF Abs(delta) >= td.rows THEN RenderUpdate(d) ELSE RenderScroll(d, delta)
    IN  /\ open /\ delta # 0
        /\ Becomes(IF update THEN drawn ELSE WithScroller(drawn))
        /\ UNCHANGED <<open, reading>>

\* The user drags the scroller; TERM_handlescroll.
DragScroller == \E t \in 0..(td.sb.total - td.sb.visible) : SBTop(t, TRUE)
TurnWheel == \E n \in Wheel : SBTop(td.sb.top + n, FALSE) \/ SBTop(td.sb.top - n, FALSE)

\* TERM_layout of a window that has got another size, and the GREDRAW_REDRAW that
\* follows.
Layout == \E rows \in Heights \ {td.rows} :
    \E back \in MayComeBack(con, rows), lost \in MayBeLost(con, rows) :
        LET c == Resized(con, rows, back, lost)
            s == ScrollerOf(c)
            above == Greatest(0, s.top + s.visible - s.total)
            d == [con |-> SbMoved(c, -above),
                  td |-> [td EXCEPT !.rows = rows, !.sb = [s EXCEPT !.top = @ - above]],
                  shown |-> shown]
        IN  /\ open
            /\ Becomes(RenderRedraw(d))
            /\ UNCHANGED <<open, reading>>

Program == Write \/ Refresh \/ Key \/ ClearSb \/ SetMaxSb \/ Blink \/ Iconify \/ Uniconify
System == DragScroller \/ TurnWheel \/ Layout

Next == /\ calls < MaxCalls /\ calls' = calls + 1
        /\ Program \/ System

Spec == Init /\ [][Next]_vars

-----------------------------------------------------------------------------
(* The properties. *)

TypeOK ==
    /\ con.rows \in Seq(Line) /\ Size(con) \in Heights
    /\ con.sb.lines \in Seq(Line) /\ Len(con.sb.lines) <= con.sb.max
    /\ con.sb.top \in 0..Len(con.sb.lines) /\ con.sb.max = td.maxsb
    /\ {con.age, con.age_cnt, td.age} \subseteq Ages
    /\ {con.alternate, con.age_reset, td.blinkstate, open, reading} \subseteq BOOLEAN
    /\ td.rows = Size(con) /\ Len(shown) = td.rows

\* td_SBTotal - td_SBVisible, which TERM_set and TERM_handlescroll clamp the new top
\* with, does not wrap, and the top is within it.
ScrollerInRange ==
    td.sb.visible <= td.sb.total /\ td.sb.top \in 0..(td.sb.total - td.sb.visible)

\* What the gadget remembers is so.
Synced == td.sb = ScrollerOf(con)

\* The scroller and the view part only by output that has yet to be refreshed, by a
\* key, or while there is no window to refresh: dragging, the wheel, blinking, a new
\* size and a new limit never set them apart, in whatever order they come.
ScrollerFollows ==
    [][Synced /\ ~Synced' => ~open \/ (reading' /\ ~System) \/ Key]_vars

\* Each row shows what is there or is due to be drawn with the next refresh.
Right == \A i \in 1..Size(con) : shown[i] = Look(Visible(con, i), td.blinkstate)
                                  \/ Due(con, td, i)

Settled == Synced /\ \A i \in 1..Size(con) : ~Due(con, td, i)

\* A row that is wrong stays wrong until it changes again, for no refresh draws it.
\* Nothing makes one wrong, not a wrap of the age counter nor the phase of the
\* blinking, but this: the window is scrolled, which draws the rows that come in and
\* calls all of them current, while output has not been refreshed or the scroller is
\* not where the view is.
OnlyScrollingTears ==
    [][open /\ open' /\ Right /\ ~Right' => ~Settled /\ (DragScroller \/ TurnWheel)]_vars

=============================================================================
