----------------------------- MODULE TsmScreen -----------------------------
(***************************************************************************)
(* libtsm/tsm/tsm-screen.c, and the end points tsm-selection.c keeps: the  *)
(* main and the alternate screen, the scrollback, the cursor, the margins  *)
(* and the selection, one action for each call a terminal makes.           *)
(*                                                                         *)
(* The struct is the record `con`.  Rows and columns count from 0, as in   *)
(* the code: row y is element y + 1 of a sequence of lines.  A cell is     *)
(* inked or not; attributes and ages are left out.  A pointer to a line    *)
(* (sb_pos, sel_start.line, sel_end.line) is a mark in the line's `ptr`,   *)
(* which moves and dies with the line: what tells lines apart is only who  *)
(* points at them.  The marks in Anchor are not the code's: they stay on   *)
(* the text the user put an end of the selection on.                       *)
(***************************************************************************)
EXTENDS Integers, Sequences

CONSTANT Clients  \* the terminals: what each of them asks of its screen

\* A client has, of the interface: the size of a new screen (80 x 24), the
\* widths, heights, scrollback limits, counts and modes it asks for, the groups of
\* calls it makes, whether line_new may find no memory, and, as a bound, how many
\* rows an end of its selection may drift down.
ASSUME ScreenAssumption ==
    \A c \in Clients :
        /\ {c.new_x, c.new_y} \subseteq Nat \ {0}
        /\ c.widths \subseteq Nat \ {0} /\ c.heights \subseteq Nat \ {0}
        /\ c.sb_maxes \subseteq Nat
        /\ c.counts \subseteq Nat \ {0}
        /\ c.flags \subseteq {"ALTERNATE", "AUTO_WRAP", "REL_ORIGIN",
                              "INSERT_MODE", "FIXED_POS"}
        /\ c.memory_fails \in BOOLEAN
        /\ c.max_sel_y \in Nat

VARIABLES con,     \* the struct
          client   \* whose screen it is

Ends == {"sel_start", "sel_end"}
Pointer == Ends \cup {"sb_pos"}
AnchorOf(e) == IF e = "sel_start" THEN "text_start" ELSE "text_end"
Anchor == {AnchorOf(e) : e \in Ends}

SelectionTop == -1

Lesser(a, b) == IF a < b THEN a ELSE b
Greater(a, b) == IF a < b THEN b ELSE a

Columns(n) == 0..(n - 1)
Rows(c) == 1..c.size_y

-----------------------------------------------------------------------------
(* Lines. *)

\* line_new: a line of blank cells nobody points at.
NewLine(width) == [size |-> width, ink |-> {}, ptr |-> {}]

\* A line whose cells in `cells` screen_cell_init has reset, and one of which it
\* has left only those.
Erased(line, cells) == [line EXCEPT !.ink = @ \ cells]
Clipped(line, cells) == [line EXCEPT !.ink = @ \cap cells]

\* A line pointed at by p as well, and one without the pointers in `ptr`.
Pointed(line, p) == [line EXCEPT !.ptr = @ \cup {p}]
Parted(line, ptr) == [line EXCEPT !.ptr = @ \ ptr]

\* A line the screen uses again for other text: its cells are reset, and the
\* text the user selected on it is gone.
Recycled(c, line) == Parted(Erased(line, Columns(c.size_x)), Anchor)

\* con->lines: the name of the buffer in use.
Active(c) == IF "ALTERNATE" \in c.flags THEN "alt" ELSE "main"
Lines(c) == c[Active(c)]

\* line_is_empty
LineIsEmpty(c, line) == line.ink \cap Columns(c.size_x) = {}

\* The scrollback followed by the main screen, oldest line first.
Document(c) == c.sb \o SubSeq(c.main, 1, c.size_y)

\* Where pointer p points: an index of the scrollback or of the main lines,
\* 0 when it is NULL or points elsewhere.
InSb(c, p) == IF \E i \in DOMAIN c.sb : p \in c.sb[i].ptr
              THEN CHOOSE i \in DOMAIN c.sb : p \in c.sb[i].ptr ELSE 0
InMain(c, p) == IF \E i \in DOMAIN c.main : p \in c.main[i].ptr
                THEN CHOOSE i \in DOMAIN c.main : p \in c.main[i].ptr ELSE 0

\* Whether pointer p is NULL: no line has it, not even one already freed.
IsNull(c, p) == InSb(c, p) = 0 /\ InMain(c, p) = 0 /\ p \notin c.dangling

\* No line is pointed at by p; line i is as well, if there is one.
Unpointed(s, p) == [i \in DOMAIN s |-> Parted(s[i], {p})]
PointedAt(s, i, p) == [j \in DOMAIN s |-> IF j = i THEN Pointed(s[j], p) ELSE s[j]]

\* The pointers of the code to any of `lines`.
PointersTo(lines) == (UNION {lines[i].ptr : i \in DOMAIN lines}) \ Anchor

\* p = NULL, and p = the i-th line of the scrollback (NULL when i is 0).
ToNull(c, p) == [c EXCEPT !.sb = Unpointed(@, p), !.main = Unpointed(@, p),
                          !.dangling = @ \ {p}]
ToSb(c, p, i) == [ToNull(c, p) EXCEPT !.sb = PointedAt(@, i, p)]

-----------------------------------------------------------------------------
(* The scrollback. *)

\* The mutant: the selection is left alone.
FreedUnseen(c, gone) ==
    [c EXCEPT !.dangling = @ \cup PointersTo(gone)]

\* The pointers of `gone` lines that are left behind when they are freed: the
\* code moves an active selection to the top, and nothing else.
Freed(c, gone) ==
    LET left == PointersTo(gone)
        sel == IF c.sel_active THEN left \cap Ends ELSE {}
    IN  [c EXCEPT !.dangling = @ \cup (left \ sel),
                  !.y = [e \in Ends |-> IF e \in sel THEN SelectionTop ELSE @[e]]]

\* link_to_scrollback for each of `pushed` in turn.  Every line beyond sb_max
\* evicts the oldest one.  The view moves along one line for every eviction,
\* or with FIXED_POS only when its own line goes.
LinkToScrollback(c, pushed) ==
    LET all == c.sb \o pushed
        evicted == Greater(0, Len(all) - c.sb_max)
        pos == InSb(c, "sb_pos")
        next == IF pos = 0 \/ c.sb_max = 0 THEN 0
                ELSE IF "FIXED_POS" \in c.flags THEN Greater(pos, evicted + 1)
                ELSE pos + evicted
        linked == [c EXCEPT !.sb = all]
        moved == IF next = 0 THEN linked ELSE ToSb(linked, "sb_pos", next)
    IN  [Freed(moved, SubSeq(moved.sb, 1, evicted)) EXCEPT
            !.sb = SubSeq(moved.sb, evicted + 1, Len(all))]

\* The mutant: the lines above the region move as well.
ShiftedUpFromAbove(s, top, max, num, cache) ==
    [i \in DOMAIN s |->
        IF i <= top + max - num THEN s[i + num]
        ELSE IF i <= top + max THEN cache[i - (top + max - num)]
        ELSE s[i]]

\* The move of lines by screen_scroll_up in the `max` rows from row `top` on:
\* up by num, with `cache` at the bottom.
ShiftedUp(s, top, max, num, cache) ==
    [i \in DOMAIN s |->
        IF top < i /\ i <= top + max - num THEN s[i + num]
        ELSE IF top + max - num < i /\ i <= top + max
             THEN cache[i - (top + max - num)]
        ELSE s[i]]

\* The same for screen_scroll_down: down by num, with `cache` at the top.
ShiftedDown(s, top, max, num, cache) ==
    [i \in DOMAIN s |->
        IF top < i /\ i <= top + num THEN cache[i - top]
        ELSE IF top + num < i /\ i <= top + max THEN s[i - num]
        ELSE s[i]]

-----------------------------------------------------------------------------
(* Scrolling. *)

\* The mutant: the line just above the screen is taken to be the second last.
SelectionUpOneMore(c, e, num) ==
    LET y == c.y[e] - num
    IN  IF ~c.sel_active \/ ~IsNull(c, e) \/ c.y[e] < 0 THEN c
        ELSE IF y >= 0 THEN [c EXCEPT !.y[e] = y]
        ELSE [ToSb(c, e, Greater(0, Len(c.sb) + y)) EXCEPT !.y[e] = SelectionTop]

\* What screen_scroll_up does to the end e of an active selection that lies
\* on the screen: it moves up with the rows, and beyond row 0 it becomes a
\* pointer to the scrollback line as many lines from its end.
SelectionUp(c, e, num) ==
    LET y == c.y[e] - num
    IN  IF ~c.sel_active \/ ~IsNull(c, e) \/ c.y[e] < 0 THEN c
        ELSE IF y >= 0 THEN [c EXCEPT !.y[e] = y]
        ELSE [ToSb(c, e, Greater(0, Len(c.sb) + 1 + y))
                 EXCEPT !.y[e] = SelectionTop]

\* The mutant: rows of the alternate screen go to the scrollback too.
ReusedOnFailure(c, num, failed) == failed

\* The rows scrolled off by screen_scroll_up that are used again.
Reused(c, num, failed) == IF Active(c) = "alt" THEN 1..num ELSE failed

\* The lines at the indices that are not in `kept`, in their order.
Without(lines, kept) ==
    LET upto[k \in 0..Len(lines)] ==
            IF k = 0 THEN << >>
            ELSE IF k \in kept THEN upto[k - 1]
            ELSE Append(upto[k - 1], lines[k])
    IN  upto[Len(lines)]

\* screen_scroll_up.  Rows of the main screen go to the scrollback and new
\* lines take their place; where line_new fails (the rows in `failed`, counted
\* from 1), and on the alternate screen, the old line is wiped and used again.
ScrollUp(c, count, failed) ==
    LET max == c.margin_bottom + 1 - c.margin_top
        num == Lesser(count, max)
        old == SubSeq(Lines(c), c.margin_top + 1, c.margin_top + num)
        kept == Reused(c, num, failed)
        cache == [i \in 1..num |->
                     IF i \in kept THEN Recycled(c, old[i]) ELSE NewLine(c.size_x)]
        moved == [c EXCEPT ![Active(c)] =
                     ShiftedUp(@, c.margin_top, max, num, cache)]
        linked == LinkToScrollback(moved, Without(old, kept))
    IN  SelectionUp(SelectionUp(linked, "sel_start", num), "sel_end", num)

\* screen_scroll_down: the rows at the bottom are wiped and come back on top.
\* An end of the selection moves down with them, beyond the screen as well.
ScrollDown(c, count) ==
    LET max == c.margin_bottom + 1 - c.margin_top
        num == Lesser(count, max)
        cache == [i \in 1..num |->
                     Recycled(c, Lines(c)[c.margin_bottom + 2 - i])]
        moved == [c EXCEPT ![Active(c)] =
                     ShiftedDown(@, c.margin_top, max, num, cache)]
    IN  [moved EXCEPT !.y = [e \in Ends |->
            IF c.sel_active /\ IsNull(c, e) /\ @[e] >= 0 THEN @[e] + num ELSE @[e]]]

\* The num lines from the cursor to the bottom margin of tsm_screen_insert_lines
\* and tsm_screen_delete_lines, whose cells are wiped: they only change places
\* when there are other lines in the region.
InsertLines(c, count) ==
    LET max == c.margin_bottom - c.cursor_y + 1
        num == Lesser(count, max)
        cache == [i \in 1..num |->
                     Recycled(c, Lines(c)[c.margin_bottom + 2 - i])]
        wiped == [i \in DOMAIN Lines(c) |->
                     IF c.cursor_y < i /\ i <= c.margin_bottom + 1
                     THEN Recycled(c, Lines(c)[i]) ELSE Lines(c)[i]]
    IN  [c EXCEPT !.cursor_x = 0,
                  ![Active(c)] = IF num < max
                                 THEN ShiftedDown(@, c.cursor_y, max, num, cache)
                                 ELSE wiped]

DeleteLines(c, count) ==
    LET max == c.margin_bottom - c.cursor_y + 1
        num == Lesser(count, max)
        cache == [i \in 1..num |-> Recycled(c, Lines(c)[c.cursor_y + i])]
        wiped == [i \in DOMAIN Lines(c) |->
                     IF c.cursor_y < i /\ i <= c.margin_bottom + 1
                     THEN Recycled(c, Lines(c)[i]) ELSE Lines(c)[i]]
    IN  [c EXCEPT !.cursor_x = 0,
                  ![Active(c)] = IF num < max
                                 THEN ShiftedUp(@, c.cursor_y, max, num, cache)
                                 ELSE wiped]

-----------------------------------------------------------------------------
(* Cells.  Ink on the alternate screen is not tracked: nothing depends on it. *)

\* The ink of the line in row y replaced by f of it; cells beyond the end of
\* the line are not its own.
WithInk(c, y, ink) ==
    IF Active(c) = "alt" THEN c
    ELSE [c EXCEPT !.main[y + 1].ink = ink \cap Columns(c.main[y + 1].size)]

\* screen_write of a character `len` cells wide; INSERT_MODE moves the rest of
\* the line to the right when it fits.  (On a screen narrower than the character
\* `size_x - len` wraps and the memmove leaves the line: Write excludes that.)
WriteCell(c, len) ==
    LET x == c.cursor_x
        ink == Lines(c)[c.cursor_y + 1].ink
        rest == IF "INSERT_MODE" \in c.flags /\ x + len < c.size_x
                THEN {i \in ink : i < x + len \/ i >= c.size_x}
                     \cup ({i + len : i \in ink \ Columns(x)} \cap Columns(c.size_x))
                ELSE ink
    IN  WithInk(c, c.cursor_y, rest \cup {x})

\* screen_erase_region from <<x0, y0>> to <<x1, y1>>, clipped to the screen.
EraseRegion(c, x0, y0, x1, y1) ==
    LET From(y) == IF y = y0 THEN x0 ELSE 0
        To(y) == IF y = Lesser(y1, c.size_y - 1)
                 THEN Lesser(x1, c.size_x - 1) ELSE c.size_x - 1
    IN  IF Active(c) = "alt" THEN c
        ELSE [c EXCEPT !.main = [i \in DOMAIN @ |->
                IF y0 < i /\ i <= Lesser(y1, c.size_y - 1) + 1
                THEN Erased(@[i], From(i - 1)..To(i - 1))
                ELSE @[i]]]

-----------------------------------------------------------------------------
(* tsm_screen_resize, step by step. *)

\* New rows for a height above line_num, the first n of them when line_new
\* then fails, wide enough for the old and the new width.
WithRows(c, x, n) ==
    LET new == [i \in 1..n |-> NewLine(Greater(x, c.size_x))]
    IN  [c EXCEPT !.main = @ \o new, !.alt = @ \o new]

\* line_resize of the first n main lines and the first m alternate ones.
Widened(c, x, n, m) ==
    LET Wide(line) == [line EXCEPT !.size = Greater(@, x)]
    IN  [c EXCEPT !.main = [i \in DOMAIN @ |-> IF i <= n THEN Wide(@[i]) ELSE @[i]],
                  !.alt = [i \in DOMAIN @ |-> IF i <= m THEN Wide(@[i]) ELSE @[i]]]

\* The cells outside the area that the old and the new screen share are reset;
\* rows below the screen lose everything.
PaddingCleared(c, x) ==
    LET shared == Columns(Lesser(x, c.size_x))
    IN  [c EXCEPT !.main = [i \in DOMAIN @ |->
            Clipped(@[i], IF i <= c.size_y THEN shared ELSE {})]]

\* The last of the first n main lines that has text, 0 when none has.
LastInked(c, n) ==
    IF \E i \in 1..n : ~LineIsEmpty(c, c.main[i])
    THEN CHOOSE i \in 1..n : /\ ~LineIsEmpty(c, c.main[i])
                             /\ \A j \in (i + 1)..n : LineIsEmpty(c, c.main[j])
    ELSE 0

\* The mutant: the last line with text counts as well.
EmptyBelowOneMore(c, n) == n + 1 - Greater(1, LastInked(c, n))

\* Number of empty lines at the end of the first n main lines.
EmptyBelow(c, n) == n - LastInked(c, n)

\* `num` lines moved from the end of the scrollback to the first rows, off
\* which the pointers in `nulled` are taken; as many lines at the end of the
\* array are freed to make room.
Pulled(c, num, nulled) ==
    LET keep == Len(c.sb) - num
        last == Len(c.main) - num
        freed == SubSeq(c.main, last + 1, Len(c.main))
    IN  [c EXCEPT !.dangling = @ \cup PointersTo(freed),
                  !.main = [i \in 1..num |-> Parted(c.sb[keep + i], nulled)]
                           \o SubSeq(@, 1, last),
                  !.sb = SubSeq(@, 1, keep)]

\* The mutants: the cursor stays in its row; the view stays on a line that is
\* taken back.
TakenBackSameCursor(c, num) == Pulled(c, num, {"sb_pos"})
TakenBackInView(c, num) == [Pulled(c, num, {}) EXCEPT !.cursor_y = @ + num]

\* Lines taken back from the scrollback; the cursor stays on its text.
TakenBack(c, num) == [Pulled(c, num, {"sb_pos"}) EXCEPT !.cursor_y = @ + num]

\* On the main screen, empty lines at the bottom give way: a lower screen just
\* drops those below the cursor, for the others lines come back from the
\* scrollback.
EmptyLinesUsed(c, y) ==
    LET empty == EmptyBelow(c, Greater(y, c.size_y))
        dropped == Lesser(empty, Lesser(Greater(0, c.size_y - y),
                                        Greater(0, c.size_y - 1 - c.cursor_y)))
        num == Lesser(empty - dropped, Len(c.sb))
    IN  IF Active(c) = "alt" THEN c
        ELSE TakenBack([c EXCEPT !.size_y = @ - dropped], num)

\* A lower screen scrolls the rows that are too many off the top.
Lowered(c, y, failed) ==
    LET diff == c.size_y - y
        up == ScrollUp(c, diff, failed)
    IN  IF diff <= 0 THEN c
        ELSE [up EXCEPT !.cursor_y = IF @ > diff THEN @ - diff ELSE 0]

\* tsm_screen_resize up to its last rows, which it scrolls off with margins as
\* high as the screen is by then.
Fitted(c, x, y, failed) ==
    LET rows == WithRows(c, x, Greater(0, y - Len(c.main)))
        wide == IF x > c.size_x
                THEN Widened(rows, x, Len(rows.main), Len(rows.main)) ELSE rows
        taken == EmptyLinesUsed(PaddingCleared(wide, x), y)
        ready == [taken EXCEPT !.margin_top = 0,
                               !.margin_bottom = taken.size_y - 1,
                               !.size_x = x,
                               !.cursor_x = Lesser(@, x - 1)]
    IN  [Lowered(ready, y, failed) EXCEPT !.size_y = y,
                                          !.cursor_y = Lesser(@, y - 1)]

\* The mutant: the bottom margin stays where the rows were scrolled.
ResizedMarginKept(c, x, y, failed) == Fitted(c, x, y, failed)

\* tsm_screen_resize
Resized(c, x, y, failed) ==
    [Fitted(c, x, y, failed) EXCEPT !.margin_bottom = y - 1]

\* The states tsm_screen_resize can leave behind when an allocation fails:
\* some rows were added, or all of them and some lines were made wider.
ResizeFailures(c, x, y) ==
    LET more == Greater(0, y - Len(c.main))
        rows == WithRows(c, x, more)
    IN  {WithRows(c, x, n) : n \in 0..(more - 1)}
        \cup (IF x > c.size_x
              THEN {Widened(rows, x, nm[1], nm[2]) :
                       nm \in {p \in (0..Len(rows.main)) \X (0..(Len(rows.main) - 1)) :
                                  p[2] = p[1] \/ p[2] = p[1] - 1}}
              ELSE {})

-----------------------------------------------------------------------------
(* The cursor. *)

MovedTo(c, x, y) == [c EXCEPT !.cursor_x = x, !.cursor_y = y]

\* tsm_screen_move_down and tsm_screen_move_up: a move past the margin stops
\* there, and scrolls by what is left when `scroll` says so.
MovedDown(c, num, scroll, failed) ==
    LET size == IF c.cursor_y <= c.margin_bottom THEN c.margin_bottom + 1
                ELSE c.size_y
        diff == size - c.cursor_y - 1
    IN  IF num <= diff THEN MovedTo(c, c.cursor_x, c.cursor_y + num)
        ELSE MovedTo(IF scroll THEN ScrollUp(c, num - diff, failed) ELSE c,
                     c.cursor_x, size - 1)

MovedUp(c, num, scroll) ==
    LET size == IF c.cursor_y >= c.margin_top THEN c.margin_top ELSE 0
        diff == c.cursor_y - size
    IN  IF num <= diff THEN MovedTo(c, c.cursor_x, c.cursor_y - num)
        ELSE MovedTo(IF scroll THEN ScrollDown(c, num - diff) ELSE c,
                     c.cursor_x, size)

\* tsm_screen_write up to the cell: a pending new-line is taken, and below the
\* last row of the region the region scrolls.
ReadyToWrite(c, failed) ==
    LET last == IF c.cursor_y <= c.margin_bottom \/ c.cursor_y >= c.size_y
                THEN c.margin_bottom ELSE c.size_y - 1
        wrapped == IF c.cursor_x < c.size_x THEN c
                   ELSE IF "AUTO_WRAP" \in c.flags THEN MovedTo(c, 0, c.cursor_y + 1)
                   ELSE MovedTo(c, c.size_x - 1, c.cursor_y)
    IN  IF wrapped.cursor_y > last
        THEN ScrollUp(MovedTo(wrapped, wrapped.cursor_x, last), 1, failed)
        ELSE wrapped

-----------------------------------------------------------------------------
(* The calls.  `failed` are the rows line_new has no memory for. *)

Failed == IF client.memory_fails THEN SUBSET client.counts ELSE {{}}

\* tsm_screen_new
Init ==
    /\ client \in Clients
    /\ con = [main |-> [i \in 1..client.new_y |-> NewLine(client.new_x)],
              alt |-> [i \in 1..client.new_y |-> NewLine(client.new_x)],
              sb |-> << >>, sb_max |-> 0,
              size_x |-> client.new_x, size_y |-> client.new_y,
              margin_top |-> 0, margin_bottom |-> client.new_y - 1,
              cursor_x |-> 0, cursor_y |-> 0,
              flags |-> {},
              sel_active |-> FALSE,
              y |-> [e \in Ends |-> 0],
              dangling |-> {}]

\* tsm_screen_write
Write == \E len \in 1..2, failed \in Failed :
    LET c == ReadyToWrite(con, failed)
    IN  /\ "INSERT_MODE" \in con.flags => len <= con.size_x
        /\ con' = MovedTo(WriteCell(c, len), c.cursor_x + len, c.cursor_y)

\* tsm_screen_newline
Newline == \E failed \in Failed :
    LET c == MovedDown(con, 1, TRUE, failed)
    IN  con' = MovedTo(c, 0, c.cursor_y)

\* tsm_screen_move_to: within the margins with REL_ORIGIN.
MoveTo == \E x \in Columns(con.size_x), y \in Columns(con.size_y) :
    LET rel == "REL_ORIGIN" \in con.flags
        last == IF rel THEN con.margin_bottom ELSE con.size_y - 1
        row == IF rel THEN con.margin_top + y ELSE y
    IN  con' = MovedTo(con, x, Lesser(row, last))

MoveDown == \E num \in client.counts, scroll \in BOOLEAN, failed \in Failed :
    con' = MovedDown(con, num, scroll, failed)

MoveUp == \E num \in client.counts, scroll \in BOOLEAN :
    con' = MovedUp(con, num, scroll)

\* tsm_screen_move_left and tsm_screen_move_right: a pending new-line is
\* forgotten.
MoveLeft == \E num \in client.counts :
    LET x == Lesser(con.cursor_x, con.size_x - 1)
    IN  con' = MovedTo(con, Greater(0, x - num), con.cursor_y)

MoveRight == \E num \in client.counts :
    con' = MovedTo(con, Lesser(con.cursor_x + num, con.size_x - 1), con.cursor_y)

MoveLineEnd == con' = MovedTo(con, con.size_x - 1, con.cursor_y)

MoveLineHome == con' = MovedTo(con, 0, con.cursor_y)

\* tsm_screen_tab_right and tsm_screen_tab_left, whatever tab stops are set.
\* (After a wide character in the last column, tab_left looks at the ruler one
\* column beyond its end, and may stop there.)
TabRight == \E x \in Columns(con.size_x) :
    /\ x > con.cursor_x \/ x = con.size_x - 1
    /\ con' = MovedTo(con, x, con.cursor_y)

TabLeft == \E x \in Columns(Greater(1, con.cursor_x)) :
    con' = MovedTo(con, x, con.cursor_y)

\* tsm_screen_scroll_up, tsm_screen_scroll_down
ScrollUpCall == \E num \in client.counts, failed \in Failed :
    con' = ScrollUp(con, num, failed)

ScrollDownCall == \E num \in client.counts : con' = ScrollDown(con, num)

InRegion == con.margin_top <= con.cursor_y /\ con.cursor_y <= con.margin_bottom

\* tsm_screen_insert_lines, tsm_screen_delete_lines
InsertLinesCall == \E num \in client.counts : InRegion /\ con' = InsertLines(con, num)

DeleteLinesCall == \E num \in client.counts : InRegion /\ con' = DeleteLines(con, num)

\* tsm_screen_insert_chars, tsm_screen_delete_chars: the rest of the line moves.
InsertChars == \E num \in client.counts :
    LET x == Lesser(con.cursor_x, con.size_x - 1)
        ink == Lines(con)[con.cursor_y + 1].ink
        Beyond == {i \in ink : i >= con.size_x}
    IN  con' = WithInk(MovedTo(con, x, con.cursor_y), con.cursor_y,
                       {i \in ink : i < x} \cup Beyond
                       \cup ({i + num : i \in ink \ Columns(x)} \cap Columns(con.size_x)))

DeleteChars == \E num \in client.counts :
    LET x == Lesser(con.cursor_x, con.size_x - 1)
        ink == Lines(con)[con.cursor_y + 1].ink
        Beyond == {i \in ink : i >= con.size_x}
    IN  con' = WithInk(MovedTo(con, x, con.cursor_y), con.cursor_y,
                       {i \in ink : i < x} \cup Beyond
                       \cup {i - num : i \in {j \in ink : /\ j >= x + num
                                                          /\ j < con.size_x}})

\* The erase calls: the line, the screen, and their parts before and after the
\* cursor.
Erase ==
    LET x == Lesser(con.cursor_x, con.size_x - 1)
        y == con.cursor_y
        right == con.size_x - 1
        bottom == con.size_y - 1
    IN  \/ con' = EraseRegion(con, x, y, x, y)
        \/ \E num \in client.counts : con' = EraseRegion(con, x, y, x + num - 1, y)
        \/ con' = EraseRegion(con, x, y, right, y)
        \/ con' = EraseRegion(con, 0, y, con.cursor_x, y)
        \/ con' = EraseRegion(con, 0, y, right, y)
        \/ con' = EraseRegion(con, 0, 0, con.cursor_x, y)
        \/ con' = EraseRegion(con, x, y, right, bottom)
        \/ con' = EraseRegion(con, 0, 0, right, bottom)

\* tsm_screen_set_margins: an order or a height that makes no sense means the
\* whole screen.
SetMargins == \E t, b \in 0..con.size_y :
    LET top == Greater(1, t)
        whole == b <= top \/ b > con.size_y
    IN  con' = [con EXCEPT !.margin_top = IF whole THEN 0 ELSE top - 1,
                           !.margin_bottom = IF whole THEN con.size_y - 1 ELSE b - 1]

\* tsm_screen_set_flags, tsm_screen_reset_flags
SetFlag == \E f \in client.flags : con' = [con EXCEPT !.flags = @ \cup {f}]

ResetFlag == \E f \in client.flags : con' = [con EXCEPT !.flags = @ \ {f}]

\* tsm_screen_reset: neither the cursor nor the view of the scrollback moves.
Reset == con' = [con EXCEPT !.flags = {}, !.margin_top = 0,
                            !.margin_bottom = con.size_y - 1]

\* tsm_screen_resize
Resize == \E x \in client.widths, y \in client.heights :
    /\ x # con.size_x \/ y # con.size_y
    /\ \/ \E failed \in Failed : con' = Resized(con, x, y, failed)
       \/ client.memory_fails /\ con' \in ResizeFailures(con, x, y)

\* tsm_screen_set_max_sb: the oldest lines go, the view stays in the scrollback.
SetMaxSb == \E max \in client.sb_maxes :
    LET gone == Greater(0, Len(con.sb) - max)
        pos == InSb(con, "sb_pos")
        moved == IF pos = 0 \/ pos > gone THEN con
                 ELSE ToSb(con, "sb_pos", IF gone < Len(con.sb) THEN gone + 1 ELSE 0)
    IN  con' = [Freed(moved, SubSeq(moved.sb, 1, gone)) EXCEPT
                    !.sb = SubSeq(moved.sb, gone + 1, Len(moved.sb)),
                    !.sb_max = max]

\* tsm_screen_clear_sb: every selection end that is a pointer goes to the top,
\* those to lines that are back on the screen too.
ClearSb ==
    LET nulled == {"sb_pos"} \cup (IF con.sel_active THEN Ends ELSE {})
    IN  con' = [con EXCEPT
                   !.sb = << >>,
                   !.main = [i \in DOMAIN @ |-> Parted(@[i], nulled)],
                   !.dangling = (@ \cup PointersTo(con.sb)) \ nulled,
                   !.y = [e \in Ends |-> IF con.sel_active /\ ~IsNull(con, e)
                                         THEN SelectionTop ELSE @[e]]]

\* tsm_screen_sb_up, tsm_screen_sb_down and the page calls: line by line until
\* the first line, or past the last one back to the screen.
SbUp == \E num \in client.counts :
    LET pos == InSb(con, "sb_pos")
        from == IF pos = 0 THEN Len(con.sb) + 1 ELSE pos
    IN  con' = ToSb(con, "sb_pos", IF con.sb = << >> THEN 0 ELSE Greater(1, from - num))

SbDown == \E num \in client.counts :
    LET pos == InSb(con, "sb_pos")
    IN  con' = ToSb(con, "sb_pos", IF pos = 0 \/ pos + num > Len(con.sb)
                                   THEN 0 ELSE pos + num)

\* tsm_screen_sb_reset
SbReset == con' = ToNull(con, "sb_pos")

\* selection_set: the end e on the row y of what is shown, a scrollback line
\* or, with y counted from the first row of the screen, a row of it.
EndSet(c, e, row) ==
    LET pos == InSb(c, "sb_pos")
        shown == IF pos = 0 THEN 0 ELSE Len(c.sb) + 1 - pos
        y == Greater(0, row - shown)
        free == [c EXCEPT
                    !.sb = Unpointed(@, AnchorOf(e)),
                    !.main = Unpointed(@, AnchorOf(e))]
        set == [ToSb(free, e, IF row < shown THEN pos + row ELSE 0) EXCEPT !.y[e] = y]
    IN  IF row < shown THEN [set EXCEPT !.sb = PointedAt(@, pos + row, AnchorOf(e))]
        ELSE IF Active(c) = "alt" THEN set
        ELSE [set EXCEPT !.main = PointedAt(@, y + 1, AnchorOf(e))]

\* tsm_screen_selection_start, selection_word and selection_line: both ends on
\* one row.
SelectionStart == \E row \in Columns(con.size_y) :
    con' = [EndSet(EndSet(con, "sel_start", row), "sel_end", row)
               EXCEPT !.sel_active = TRUE]

\* tsm_screen_selection_target
SelectionTarget == \E row \in Columns(con.size_y) :
    con.sel_active /\ con' = EndSet(con, "sel_end", row)

\* tsm_screen_selection_reset: the pointers stay as they are.
SelectionReset ==
    LET Forget(s) == [i \in DOMAIN s |-> Parted(s[i], Anchor)]
    IN  con' = [con EXCEPT !.sel_active = FALSE,
                           !.sb = Forget(@), !.main = Forget(@)]

DriftBounded == \A e \in Ends : con'.y[e] <= client.max_sel_y

Text == Write \/ Newline \/ Erase
EditChars == InsertChars \/ DeleteChars
Move == \/ MoveTo \/ MoveDown \/ MoveUp \/ MoveLeft \/ MoveRight
        \/ MoveLineEnd \/ MoveLineHome \/ TabRight \/ TabLeft
Scroll == ScrollUpCall \/ ScrollDownCall
EditLines == InsertLinesCall \/ DeleteLinesCall
Mode == SetFlag \/ ResetFlag \/ Reset
View == SbUp \/ SbDown \/ SbReset
Select == SelectionStart \/ SelectionTarget \/ SelectionReset

Next == /\ \/ "text" \in client.calls /\ Text
           \/ "chars" \in client.calls /\ EditChars
           \/ "move" \in client.calls /\ Move
           \/ "scroll" \in client.calls /\ Scroll
           \/ "lines" \in client.calls /\ EditLines
           \/ "margins" \in client.calls /\ SetMargins
           \/ "mode" \in client.calls /\ Mode
           \/ "resize" \in client.calls /\ Resize
           \/ SetMaxSb
           \/ "clear" \in client.calls /\ ClearSb
           \/ "view" \in client.calls /\ View
           \/ "select" \in client.calls /\ Select
        /\ DriftBounded
        /\ UNCHANGED client

Spec == Init /\ [][Next]_<<con, client>>

-----------------------------------------------------------------------------
(* Properties. *)

LineOK(line) == /\ line.size \in Nat \ {0}
                /\ line.ink \subseteq Columns(line.size)
                /\ line.ptr \subseteq Pointer \cup Anchor

TypeOK ==
    /\ \A s \in {con.main, con.alt, con.sb} : \A i \in DOMAIN s : LineOK(s[i])
    /\ {con.size_x, con.size_y} \subseteq Nat \ {0}
    /\ {con.cursor_x, con.cursor_y, con.margin_top, con.margin_bottom,
        con.sb_max} \subseteq Nat
    /\ con.flags \subseteq client.flags
    /\ con.sel_active \in BOOLEAN
    /\ con.y \in [Ends -> -1..client.max_sel_y]
    /\ con.dangling \subseteq Pointer

\* Every row that is drawn or written exists in both buffers, the cursor is in
\* one of them (libtsm-int.h: "positions are always in-bound, but cursor_x
\* might be bigger than size_x"), and the margins enclose a region of the
\* screen: what screen_write, the scrolls and the line edits index with.
InBounds ==
    /\ TypeOK
    /\ Len(con.main) = Len(con.alt) /\ con.size_y <= Len(con.main)
    /\ con.cursor_y < con.size_y
    /\ con.cursor_x <= con.size_x + 1
    /\ con.margin_top <= con.margin_bottom /\ con.margin_bottom < con.size_y

Resizing == <<con'.size_x, con'.size_y>> # <<con.size_x, con.size_y>>

\* Text outside the scrolling region is safe from everything but an erase and
\* a resize: a step changes it only on the row the cursor leaves or reaches.
\* Only screen_write and the scrolls step from one row to the next.
RegionKeepsTheRest ==
    [][\/ Resizing \/ Erase
       \/ \A i \in Rows(con) :
             \/ con.margin_top < i /\ i <= con.margin_bottom + 1
             \/ i - 1 \in {con.cursor_y, con'.cursor_y}
             \/ con'.main[i].ink = con.main[i].ink]_con

\* The scrollback never holds more than its limit, and the view is a line that
\* is in it: a line that is evicted, cleared or taken back never stays behind
\* in sb_pos.
ViewInScrollback ==
    /\ Len(con.sb) <= con.sb_max
    /\ InMain(con, "sb_pos") = 0 /\ "sb_pos" \notin con.dangling

\* No end of an active selection points at a line that has been freed.
SelectionIsLive == con.sel_active => con.dangling \cap Ends = {}

\* tsm_screen_resize says "This will guarantee that all lines are big enough so
\* we can resize the buffer without reallocating them later": every line of the
\* screen has a cell for every column.
LinesWideEnough ==
    \A i \in Rows(con) : /\ con.main[i].size >= con.size_x
                         /\ con.alt[i].size >= con.size_x

\* Where the line of the selection end e is in the document, -1 for the top.
EndAt(e) ==
    IF InSb(con, e) # 0 THEN InSb(con, e)
    ELSE IF InMain(con, e) # 0 THEN Len(con.sb) + InMain(con, e)
    ELSE IF con.y[e] = SelectionTop THEN SelectionTop
    ELSE Len(con.sb) + con.y[e] + 1

\* As long as the text the user put the end e on is on the main screen or in the
\* scrollback, that is where e is.
OnItsText(e) ==
    \A i \in DOMAIN Document(con) : AnchorOf(e) \in Document(con)[i].ptr => EndAt(e) = i

\* What loses the text of a selection in this code, and is not asked for: a resize, which
\* brings lines back from the scrollback; tsm_screen_insert_lines and
\* tsm_screen_delete_lines, which no end follows, although tsm-selection.c says that the
\* start moves along with "any scroll-operations or inserts/deletes"; a region, whose
\* rows scroll while the ends count rows of the screen; the alternate screen, whose scrolls
\* move the ends as well; and rows that are used again when line_new fails, so that fewer
\* lines than rows go to the scrollback.
Followed == /\ client.calls \cap {"resize", "lines", "margins"} = {}
            /\ "ALTERNATE" \notin client.flags
            /\ ~client.memory_fails

\* screen_scroll_up and screen_scroll_down take an active selection along, over the edge of
\* the screen, along the scrollback and out of it: both ends stay on their text in a
\* terminal that scrolls as a whole, moves its view, writes, clears and changes limits.
SelectionFollowsScrolls ==
    Followed /\ con.sel_active => \A e \in Ends : OnItsText(e)

\* The text of the document, line by line, with `width` columns of the screen;
\* below its last line there is nothing.
TextOf(c, width) ==
    [i \in DOMAIN Document(c) |->
        IF i <= Len(c.sb) THEN c.sb[i].ink
        ELSE Document(c)[i].ink \cap Columns(width)]
Inks(s) == [i \in DOMAIN s |-> s[i].ink]
LineOf(text, i) == IF i \in DOMAIN text THEN text[i] ELSE {}

\* A resize that has the memory it needs loses no text but what the scrollback
\* has no room for: the lines, those without text between them included, stay in
\* their order, cut to the columns that remain; some go only at the top of a full
\* scrollback, and only lines without text at the bottom.
KeepsText(c, d) ==
    LET before == TextOf(c, Lesser(c.size_x, d.size_x))
        after == Inks(Document(d))
    IN  \E lost \in 0..Len(Document(c)) :
            /\ lost > 0 => Len(d.sb) = d.sb_max
            /\ \A i \in DOMAIN before \cup DOMAIN after :
                  LineOf(after, i) = LineOf(before, i + lost)

EnoughMemory == Resizing /\ con' = Resized(con, con'.size_x, con'.size_y, {})

\* On the main screen, where the lines that no longer fit are scrolled off.
ResizeKeepsText ==
    [][EnoughMemory /\ "ALTERNATE" \notin con.flags => KeepsText(con, con')]_con

\* The cursor is on the last line with text: where a shell leaves it.
AtPrompt(c, width) ==
    /\ c.main[c.cursor_y + 1].ink \cap Columns(width) # {}
    /\ \A i \in (c.cursor_y + 2)..c.size_y : c.main[i].ink \cap Columns(width) = {}

\* A resize of the main screen, whatever it takes from the scrollback or gives
\* to it and whether or not the memory lasts, leaves the cursor on the line it
\* was on when that is the last one with text.
ResizeKeepsPrompt ==
    [][/\ Resizing
       /\ "ALTERNATE" \notin con.flags
       /\ AtPrompt(con, Lesser(con.size_x, con'.size_x))
       => AtPrompt(con', con'.size_x)]_con

\* Nothing a program does on the alternate screen reaches the main screen or,
\* unless it clears it, the scrollback; only the user's window and settings do.
AlternateLeavesMain ==
    [][/\ "ALTERNATE" \in con.flags \cap con'.flags
       /\ <<con.size_x, con.size_y, con.sb_max>>
            = <<con'.size_x, con'.size_y, con'.sb_max>>
       => /\ \A i \in Rows(con) : con'.main[i].ink = con.main[i].ink
          /\ con'.sb = << >> \/ Inks(con'.sb) = Inks(con.sb)]_con
=============================================================================
