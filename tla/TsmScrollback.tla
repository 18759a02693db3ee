--------------------------- MODULE TsmScrollback ---------------------------
(***************************************************************************)
(* The scrollback of libtsm/tsm/tsm-screen.c as it is built: a doubly      *)
(* linked list of the very lines the screen was made of, numbered as they  *)
(* come in, with a pointer to the line the view starts at.  It implements  *)
(* Scrollback.                                                             *)
(*                                                                         *)
(* A line is an address.  Memory is the set `free` of those nobody has,    *)
(* and `screen` is main_lines, scrolled as a whole; the cells of a line,   *)
(* the margins and the selection are left to TsmScreen.                    *)
(***************************************************************************)
EXTENDS Integers, Sequences, FiniteSets, Functions, FiniteSetsExt

CONSTANTS Line,     \* addresses of lines
          NULL,
          Maxima,   \* what tsm_screen_set_max_sb is called with
          Counts,   \* what sb_up, sb_down and their page variants are called with
          Size_y,   \* rows of the screen
          MaxId     \* bound: lines ever linked

\* There is memory for a screen.
ASSUME ListAssumption ==
    /\ NULL \notin Line /\ IsFiniteSet(Line) /\ Cardinality(Line) >= Size_y
    /\ Maxima \subseteq Nat
    /\ Counts \subseteq Nat \ {0} /\ Size_y \in Nat \ {0} /\ MaxId \in Nat

VARIABLES con,      \* the members of struct tsm_screen about the scrollback
          node,     \* next, prev and sb_id of every line
          screen,   \* main_lines, top row first
          free      \* lines that are not allocated

vars == <<con, node, screen, free>>

Fresh == [next |-> NULL, prev |-> NULL, sb_id |-> 0]

\* tsm_screen_new, with a flag the program never sets.
Init ==
    /\ con \in [sb_count : {0}, sb_first : {NULL}, sb_last : {NULL}, sb_max : {0},
                sb_pos : {NULL}, sb_last_id : {0}, fixed_pos : BOOLEAN]
    /\ node = [l \in Line |-> Fresh]
    /\ screen = CHOOSE s \in [1..Size_y -> Line] : IsInjective(s)
    /\ free = Line \ Range(screen)

-----------------------------------------------------------------------------
(* Steps of the operations, on h = [con, node]. *)

Heap == [con |-> con, node |-> node]

Lines == Line \cup {NULL}
Cons == [sb_count : Nat, sb_first : Lines, sb_last : Lines, sb_max : Nat,
         sb_pos : Lines, sb_last_id : Nat, fixed_pos : BOOLEAN]
Nodes == [Line -> [next : Lines, prev : Lines, sb_id : Nat]]
Heaps == [con : Cons, node : Nodes]

\* What num applications of the function `step` make of x.
Iterated(step, x, num) ==
    LET f[n \in 0..num] == IF n = 0 THEN x ELSE step[f[n - 1]] IN f[num]

Forward == [line \in Lines |-> IF line = NULL THEN NULL ELSE node[line].next]
Backward == [line \in Lines |-> IF line = NULL THEN NULL ELSE node[line].prev]

\* The lines from sb_first on, as far as the next pointers go.
Linked ==
    LET Nth(n) == Iterated(Forward, con.sb_first, n - 1)
    IN  [i \in 1..Cardinality({n \in 1..Cardinality(Line) : Nth(n) # NULL}) |-> Nth(i)]

\* The line num before `line`.
Earlier(line, num) == Iterated(Backward, line, num)

\* The mutants: the line that is now the first still has a line before it; lines
\* are numbered by how many there are.
HalfUnlinked(h) ==
    LET next == h.node[h.con.sb_first].next
    IN  [h EXCEPT !.con.sb_first = next,
                  !.con.sb_last = IF next = NULL THEN NULL ELSE @,
                  !.con.sb_count = @ - 1]

CountedLast(h, line) ==
    LET last == h.con.sb_last
        linked == [h.node EXCEPT ![line] = [next |-> NULL, prev |-> last,
                                            sb_id |-> h.con.sb_count + 1]]
    IN  [con |-> [h.con EXCEPT !.sb_last_id = @ + 1,
                               !.sb_first = IF last = NULL THEN line ELSE @,
                               !.sb_last = line,
                               !.sb_count = @ + 1],
         node |-> IF last = NULL THEN linked ELSE [linked EXCEPT ![last].next = line]]

\* sb_first goes: the list from its next on.
WithoutFirst(h) ==
    LET next == h.node[h.con.sb_first].next
    IN  [con |-> [h.con EXCEPT !.sb_first = next,
                               !.sb_last = IF next = NULL THEN NULL ELSE @,
                               !.sb_count = @ - 1],
         node |-> IF next = NULL THEN h.node ELSE [h.node EXCEPT ![next].prev = NULL]]

\* The mutant: a view that is not fixed stays on its line, which may be the one
\* that goes.
StayingView(h, line) == h

\* What the first line's going does to the view, just before `line` is linked.
MovedView(h, line) ==
    LET pos == h.con.sb_pos
        gone == Heap.con.sb_first
    IN  IF pos = NULL \/ (pos # gone /\ h.con.fixed_pos) THEN h
        ELSE [h EXCEPT !.con.sb_pos =
                 IF h.node[pos].next # NULL THEN h.node[pos].next ELSE line]

\* `line` is linked in as the newest.
WithLast(h, line) ==
    LET last == h.con.sb_last
        linked == [h.node EXCEPT ![line] = [next |-> NULL, prev |-> last,
                                            sb_id |-> h.con.sb_last_id + 1]]
    IN  [con |-> [h.con EXCEPT !.sb_last_id = @ + 1,
                               !.sb_first = IF last = NULL THEN line ELSE @,
                               !.sb_last = line,
                               !.sb_count = @ + 1],
         node |-> IF last = NULL THEN linked ELSE [linked EXCEPT ![last].next = line]]

Put(h) == con' = h.con /\ node' = h.node

-----------------------------------------------------------------------------
(* The operations. *)

\* line_new, from malloc.  The code never compares two addresses but for equality:
\* which it gets does not matter.
LineNew == CHOOSE l \in free : TRUE

\* screen_scroll_up of one row, with link_to_scrollback: line_new is the row that
\* comes in at the bottom.
LinkToScrollback ==
    LET line == Head(screen)
        new == LineNew
        full == con.sb_count >= con.sb_max
        gone == IF con.sb_max = 0 THEN {line} ELSE IF full THEN {con.sb_first} ELSE {}
        evicted == IF full THEN MovedView(WithoutFirst(Heap), line) ELSE Heap
    IN  /\ free # {} /\ con.sb_last_id < MaxId
        /\ Put(IF con.sb_max = 0 THEN Heap ELSE WithLast(evicted, line))
        /\ screen' = Append(Tail(screen), new)
        /\ free' = (free \ {new}) \cup gone

\* The body of the loop that moves a line from the scrollback to the screen: sb_last
\* leaves the list.
WithoutLast(h) ==
    LET line == h.con.sb_last
    IN  [con |-> [h.con EXCEPT !.sb_pos = IF @ = line THEN NULL ELSE @,
                               !.sb_last = h.node[line].prev,
                               !.sb_count = @ - 1],
         node |-> [h.node EXCEPT ![line] = Fresh]]

\* What is left of h after its num newest lines are gone.
Shortened(h, num) == Iterated([g \in Heaps |-> WithoutLast(g)], h, num)

\* After the loop, the list is closed at its new end.
Closed(h) ==
    LET last == h.con.sb_last
    IN  IF last = NULL THEN [h EXCEPT !.con.sb_first = NULL]
        ELSE [h EXCEPT !.node[last].next = NULL]

\* tsm_screen_resize: as many empty rows at the end of the screen are freed as
\* lines are taken back.
TakeBack == \E num \in 1..Min({con.sb_count, Size_y}) :
    LET taken == [i \in 1..num |-> Earlier(con.sb_last, num - i)]
    IN  /\ Put(Closed(Shortened(Heap, num)))
        /\ screen' = taken \o SubSeq(screen, 1, Size_y - num)
        /\ free' = free \cup Range(SubSeq(screen, Size_y - num + 1, Size_y))

\* The body of the loop of tsm_screen_set_max_sb, which a view on the line that goes
\* leaves for the next, and what num times of it leave.
WithoutOldest(h) ==
    LET rest == WithoutFirst(h)
    IN  [rest EXCEPT !.con.sb_pos = IF @ = h.con.sb_first THEN rest.con.sb_first ELSE @]

Lowered(h, num) == Iterated([g \in Heaps |-> WithoutOldest(g)], h, num)

\* tsm_screen_set_max_sb
SetMaxSb == \E max \in Maxima :
    LET num == Max({0, con.sb_count - max})
    IN  /\ Put([Lowered(Heap, num) EXCEPT !.con.sb_max = max])
        /\ free' = free \cup Range(SubSeq(Linked, 1, num))
        /\ UNCHANGED screen

\* tsm_screen_clear_sb
ClearSb ==
    /\ con' = [con EXCEPT !.sb_first = NULL, !.sb_last = NULL,
                          !.sb_count = 0, !.sb_pos = NULL]
    /\ free' = free \cup Range(Linked)
    /\ UNCHANGED <<node, screen>>

\* tsm_screen_sb_up: num steps towards the oldest line, the first of them from the
\* screen to sb_last.
UpFrom(pos, num) ==
    LET older == [line \in Line |-> IF node[line].prev = NULL THEN line ELSE node[line].prev]
    IN  IF pos # NULL THEN Iterated(older, pos, num)
        ELSE IF con.sb_last = NULL THEN NULL ELSE Iterated(older, con.sb_last, num - 1)

DownFrom(pos, num) == Iterated(Forward, pos, num)

\* A page is as many rows as the screen has.
Steps == Counts \cup {n * Size_y : n \in Counts}

ViewAt(pos) == /\ con' = [con EXCEPT !.sb_pos = pos]
               /\ UNCHANGED <<node, screen, free>>

SbUp == \E num \in Steps : ViewAt(UpFrom(con.sb_pos, num))
SbDown == \E num \in Steps : ViewAt(DownFrom(con.sb_pos, num))
SbReset == ViewAt(NULL)

Next == \/ LinkToScrollback \/ TakeBack \/ SetMaxSb \/ ClearSb
        \/ SbUp \/ SbDown \/ SbReset

Spec == Init /\ [][Next]_vars

-----------------------------------------------------------------------------
(* The properties. *)

TypeOK ==
    /\ Heap \in Heaps /\ con.sb_last_id <= MaxId
    /\ screen \in [1..Size_y -> Line] /\ free \subseteq Line

\* The list reads the same from both ends, its length is sb_count, and no line is
\* in it twice, on the screen as well or freed: whatever the screen shows or frees
\* is not also in the scrollback, and nothing is lost.  (link_to_scrollback and the
\* loop of tsm_screen_resize that takes lines back.)
LinesHaveOnePlace ==
    LET list == Linked
    IN  /\ TypeOK
        /\ Len(list) = con.sb_count /\ IsInjective(list)
        /\ con.sb_last = IF list = << >> THEN NULL ELSE list[Len(list)]
        /\ \A i \in DOMAIN list :
               node[list[i]].prev = IF i = 1 THEN NULL ELSE list[i - 1]
        /\ IsInjective(screen) /\ Range(list) \cap Range(screen) = {}
        /\ free = Line \ (Range(list) \cup Range(screen))

\* Drawing and copying a selection decide by sb_id which of two lines of the
\* scrollback is the older (tsm-render.c, tsm-selection.c): the numbers increase
\* along the list, although lines leave it at both ends and come back.
NumberedInOrder ==
    LET list == Linked
    IN  \A i, j \in DOMAIN list : i < j => node[list[i]].sb_id < node[list[j]].sb_id

\* tsm_screen_get_sb_top, of the main screen.
SbTop ==
    LET list == Linked
    IN  IF con.sb_pos = NULL THEN con.sb_count
        ELSE Cardinality({i \in DOMAIN list : \A j \in 1..i : list[j] # con.sb_pos})

\* The list implements a sequence with a view of it, and what the gadget is told of
\* the view is where it is.
Abstract == INSTANCE Scrollback WITH
    sb <- [lines |-> Linked, top |-> SbTop, max |-> con.sb_max], Moves <- Steps
ImplementsScrollback == Abstract!Spec

=============================================================================
