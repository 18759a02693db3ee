----------------------------- MODULE Scrollback -----------------------------
(***************************************************************************)
(* What the scrollback of libtsm/tsm/tsm-screen.c promises: a sequence of  *)
(* lines that have scrolled off the screen, oldest first and at most `max` *)
(* of them, and a view of it.  `top` is the line of the scrollback the     *)
(* view starts at, counted from 0; the view is live, all of it on the      *)
(* screen, when that is the number of lines.                               *)
(***************************************************************************)
EXTENDS Integers, Sequences

CONSTANTS Line,    \* lines of text
          Maxima,  \* limits the user may set
          Moves    \* how far the view may be asked to move

VARIABLE sb        \* [lines, top, max]

Smaller(a, b) == IF a < b THEN a ELSE b
Larger(a, b) == IF a < b THEN b ELSE a

Scrollbacks == [lines : Seq(Line), top : Nat, max : Nat]

Live(s) == s.top = Len(s.lines)

Empty == [lines |-> << >>, top |-> 0, max |-> 0]

\* Lines scroll off.  A live view stays live.  Any other stays as far from the top
\* as it is, so that the text moves under it once the scrollback is full; when it
\* is `fixed` it stays on its text as long as there is that text.
Pushed(s, new, fixed) ==
    LET all == s.lines \o new
        gone == Larger(0, Len(all) - s.max)
        kept == SubSeq(all, gone + 1, Len(all))
    IN  IF s.max = 0 THEN s
        ELSE [s EXCEPT !.lines = kept,
                       !.top = IF Live(s) THEN Len(kept)
                               ELSE IF fixed THEN Larger(0, @ - gone) ELSE @]

\* The newest lines go back to a screen that grows.
Pulled(s, num) ==
    [lines |-> SubSeq(s.lines, 1, Len(s.lines) - num),
     top |-> Smaller(s.top, Len(s.lines) - num),
     max |-> s.max]

Limited(s, max) ==
    LET gone == Larger(0, Len(s.lines) - max)
    IN  [lines |-> SubSeq(s.lines, gone + 1, Len(s.lines)),
         top |-> Larger(0, s.top - gone),
         max |-> max]

Cleared(s) == [lines |-> << >>, top |-> 0, max |-> s.max]

Up(s, num) == [s EXCEPT !.top = Larger(0, @ - num)]
Down(s, num) == [s EXCEPT !.top = Smaller(@ + num, Len(s.lines))]
Reset(s) == [s EXCEPT !.top = Len(s.lines)]

Init == sb = Empty

Next == \/ \E line \in Line, fixed \in BOOLEAN : sb' = Pushed(sb, <<line>>, fixed)
        \/ \E num \in 1..Len(sb.lines) : sb' = Pulled(sb, num)
        \/ \E max \in Maxima : sb' = Limited(sb, max)
        \/ sb' = Cleared(sb)
        \/ \E num \in Moves : sb' = Up(sb, num) \/ sb' = Down(sb, num)
        \/ sb' = Reset(sb)

Spec == Init /\ [][Next]_sb

=============================================================================
