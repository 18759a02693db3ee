--------------------------- MODULE TermGadget_proof ---------------------------
(***************************************************************************)
(* The gadget of src/term-gc.c, for windows, scrollbacks and age counters  *)
(* of any size and any order of calls.  The scroller never points outside  *)
(* of what it scrolls: td_SBTotal - td_SBVisible does not wrap.  It and    *)
(* the view part by output and keys alone.  And what the window shows is   *)
(* right or due to be drawn, but after scrolling that came too early.      *)
(*                                                                         *)
(* The invariants build on each other: GInv has a sound screen and a       *)
(* scroller within it, TInv one size and one limit for the screen, the     *)
(* gadget and the window, AInv a gadget that is never more recent than the *)
(* counter, unless that has wrapped.                                       *)
(***************************************************************************)
EXTENDS TermGadget, TLAPS

-----------------------------------------------------------------------------
(* Scrollbacks. *)

\* A scrollback whose view starts on one of its lines or on the screen.
Scrollable(s) ==
    /\ s \in [lines : Seq(Line), top : Nat, max : Nat]
    /\ s.top <= Len(s.lines) /\ Len(s.lines) <= s.max

LEMMA ScrollableRecord ==
    ASSUME NEW lines \in Seq(Line), NEW top \in Nat, NEW max \in Nat,
           top <= Len(lines), Len(lines) <= max
    PROVE  Scrollable([lines |-> lines, top |-> top, max |-> max])
BY DEF Scrollable

LEMMA ScrollableFields ==
    ASSUME NEW s, Scrollable(s)
    PROVE  /\ s.lines \in Seq(Line) /\ Len(s.lines) \in Nat
           /\ s.top \in Nat /\ s.max \in Nat
           /\ s.top <= Len(s.lines) /\ Len(s.lines) <= s.max
           /\ s = [lines |-> s.lines, top |-> s.top, max |-> s.max]
BY DEF Scrollable

LEMMA EmptyScrollable == Scrollable(SB!Empty)
BY DEF Scrollable, SB!Empty

LEMMA PushedScrollable ==
    ASSUME NEW s, Scrollable(s), NEW new \in Seq(Line)
    PROVE  Scrollable(SB!Pushed(s, new, FALSE))
<1>1. CASE s.max = 0
  BY <1>1 DEF SB!Pushed
<1>2. CASE s.max # 0
  <2> DEFINE all == s.lines \o new
             gone == SB!Larger(0, Len(all) - s.max)
             kept == SubSeq(all, gone + 1, Len(all))
             top == IF SB!Live(s) THEN Len(kept) ELSE s.top
  <2>1. all \in Seq(Line) /\ Len(all) = Len(s.lines) + Len(new)
    BY DEF Scrollable
  <2>2. gone \in Nat /\ gone <= Len(all) /\ Len(all) - gone <= s.max
      /\ (Len(all) - gone = Len(all) \/ Len(all) - gone = s.max)
    BY <2>1 DEF SB!Larger, Scrollable
  <2>3. kept \in Seq(Line) /\ Len(kept) = Len(all) - gone
    BY <2>1, <2>2
  <2>4. SB!Pushed(s, new, FALSE) = [lines |-> kept, top |-> top, max |-> s.max]
    BY <1>2 DEF Scrollable, SB!Pushed
  <2>5. top \in Nat /\ top <= Len(kept) /\ Len(kept) <= s.max
    <3>1. /\ s.top \in Nat /\ Len(s.lines) \in Nat /\ Len(new) \in Nat /\ s.max \in Nat
          /\ s.top <= Len(s.lines) /\ Len(s.lines) <= s.max
      BY ScrollableFields
    <3>2. Len(kept) \in Nat /\ Len(kept) <= s.max
          /\ (Len(kept) = Len(s.lines) + Len(new) \/ Len(kept) = s.max)
      BY <2>1, <2>2, <2>3, <3>1
    <3> HIDE DEF all, gone, kept
    <3>3. CASE SB!Live(s)
      BY <3>2, <3>3
    <3>4. CASE ~SB!Live(s)
      <4>1. top = s.top
        BY <3>4
      <4> HIDE DEF top
      <4> QED
        BY <3>1, <3>2, <4>1
    <3> QED
      BY <3>3, <3>4
  <2>6. s.max \in Nat
    BY DEF Scrollable
  <2>7. Scrollable([lines |-> kept, top |-> top, max |-> s.max])
    BY <2>3, <2>5, <2>6, ScrollableRecord
  <2>8. QED
    BY <2>4, <2>7
<1>3. QED
  BY <1>1, <1>2

LEMMA PulledScrollable ==
    ASSUME NEW s, Scrollable(s), NEW num \in 0..Len(s.lines)
    PROVE  Scrollable(SB!Pulled(s, num))
<1> DEFINE kept == SubSeq(s.lines, 1, Len(s.lines) - num)
           top == SB!Smaller(s.top, Len(s.lines) - num)
<1>1. kept \in Seq(Line) /\ Len(kept) = Len(s.lines) - num
  BY DEF Scrollable
<1>2. top \in Nat /\ top <= Len(kept) /\ Len(kept) <= s.max /\ s.max \in Nat
  BY <1>1 DEF Scrollable, SB!Smaller
<1>3. SB!Pulled(s, num) = [lines |-> kept, top |-> top, max |-> s.max]
  BY DEF SB!Pulled
<1>4. QED
  BY <1>1, <1>2, <1>3, ScrollableRecord

LEMMA LimitedScrollable ==
    ASSUME NEW s, Scrollable(s), NEW max \in Nat
    PROVE  Scrollable(SB!Limited(s, max))
<1> DEFINE gone == SB!Larger(0, Len(s.lines) - max)
           kept == SubSeq(s.lines, gone + 1, Len(s.lines))
           top == SB!Larger(0, s.top - gone)
<1>1. gone \in Nat /\ gone <= Len(s.lines) /\ Len(s.lines) - gone <= max
  BY DEF Scrollable, SB!Larger
<1>2. kept \in Seq(Line) /\ Len(kept) = Len(s.lines) - gone
  BY <1>1 DEF Scrollable
<1>3. top \in Nat /\ top <= Len(s.lines) - gone
  <2> HIDE DEF gone
  <2>1. QED
    BY <1>1, ScrollableFields DEF SB!Larger
<1>4. SB!Limited(s, max) = [lines |-> kept, top |-> top, max |-> max]
  BY DEF SB!Limited
<1> HIDE DEF kept, top
<1>5. QED
  BY <1>1, <1>2, <1>3, <1>4, ScrollableRecord

LEMMA ClearedScrollable ==
    ASSUME NEW s, Scrollable(s)
    PROVE  Scrollable(SB!Cleared(s))
<1>1. << >> \in Seq(Line) /\ Len(<< >>) = 0
  OBVIOUS
<1>2. SB!Cleared(s) = [lines |-> << >>, top |-> 0, max |-> s.max]
  BY DEF SB!Cleared
<1>3. s.max \in Nat /\ 0 <= s.max
  BY DEF Scrollable
<1> DEFINE none == << >>
<1>4. none \in Seq(Line) /\ 0 \in Nat /\ 0 <= Len(none) /\ Len(none) <= s.max
  BY <1>1, <1>3
<1> HIDE DEF none
<1>5. Scrollable([lines |-> none, top |-> 0, max |-> s.max])
  BY <1>3, <1>4, ScrollableRecord
<1>6. QED
  BY <1>2, <1>5 DEF none

LEMMA MovedScrollable ==
    ASSUME NEW s, Scrollable(s), NEW num \in Nat
    PROVE  /\ Scrollable(SB!Up(s, num))
           /\ Scrollable(SB!Down(s, num))
           /\ Scrollable(SB!Reset(s))
BY DEF Scrollable, SB!Up, SB!Down, SB!Reset, SB!Larger, SB!Smaller

-----------------------------------------------------------------------------
(* Screens. *)

Screens == [sb : [lines : Seq(Line), top : Nat, max : Nat], rows : Seq(Line),
            alternate : BOOLEAN, age : Ages, age_cnt : Ages, age_reset : BOOLEAN]

Sound(c) == c \in Screens /\ Scrollable(c.sb)

LEMMA ZeroIsAge == 0 \in Ages /\ 1 \in Ages
BY GadgetAssumption DEF Ages

LEMMA SoundFields ==
    ASSUME NEW c, Sound(c)
    PROVE  /\ Scrollable(c.sb) /\ c.rows \in Seq(Line) /\ Size(c) \in Nat
           /\ c.age_cnt \in Ages /\ c.alternate \in BOOLEAN
BY DEF Sound, Screens, Size

LEMMA IncAgeSound ==
    ASSUME NEW c, Sound(c)
    PROVE  Sound(IncAge(c)) /\ IncAge(c).alternate = c.alternate
                /\ IncAge(c).rows = c.rows /\ IncAge(c).sb = c.sb
<1>1. CASE c.age_cnt + 1 = AgeMod
  <2>1. IncAge(c) = [c EXCEPT !.age_cnt = 1, !.age_reset = TRUE]
    BY <1>1 DEF IncAge
  <2>2. 1 \in Ages /\ TRUE \in BOOLEAN
    BY GadgetAssumption DEF Ages
  <2>3. [c EXCEPT !.age_cnt = 1, !.age_reset = TRUE] \in Screens
    BY <2>2 DEF Sound, Screens
  <2>4. QED
    BY <2>1, <2>3 DEF Sound, Screens
<1>2. CASE c.age_cnt + 1 # AgeMod
  <2>1. IncAge(c) = [c EXCEPT !.age_cnt = c.age_cnt + 1]
    BY <1>2 DEF IncAge, Sound, Screens
  <2>2. c.age_cnt + 1 \in Ages
    BY <1>2, GadgetAssumption DEF Sound, Screens, Ages
  <2>3. QED
    BY <2>1, <2>2 DEF Sound, Screens
<1>3. QED
  BY <1>1, <1>2

LEMMA AllAgedSound ==
    ASSUME NEW c, Sound(c)
    PROVE  Sound(AllAged(c))
BY DEF Sound, Screens, AllAged

LEMMA OtherScrollback ==
    ASSUME NEW c, Sound(c), NEW s, Scrollable(s)
    PROVE  Sound([c EXCEPT !.sb = s])
BY DEF Sound, Screens, Scrollable

LEMMA OtherRows ==
    ASSUME NEW c, Sound(c), NEW rows \in Seq(Line), NEW alternate \in BOOLEAN
    PROVE  Sound([c EXCEPT !.alternate = alternate, !.rows = rows])
BY DEF Sound, Screens

LEMMA LinesOfRows ==
    ASSUME NEW n \in Nat, NEW f(_), \A i \in 1..n : f(i) \in Line
    PROVE  [i \in 1..n |-> f(i)] \in Seq(Line)
OBVIOUS

LEMMA NewLineIsLine ==
    ASSUME NEW c, Sound(c)
    PROVE  NewLine(c) \in Line
BY DEF Sound, Screens, NewLine, Line, Texts

LEMMA WrittenSound ==
    ASSUME NEW c, Sound(c), NEW i \in 1..Size(c)
    PROVE  Sound(Written(c, i))
<1>1. [text |-> Other(c.rows[i].text), age |-> c.age_cnt] \in Line
  BY DEF Sound, Screens, Line, Texts, Other
<1> DEFINE line == [text |-> Other(c.rows[i].text), age |-> c.age_cnt]
           rows == [c.rows EXCEPT ![i] = line]
<1> HIDE DEF line
<1>2. rows \in Seq(Line)
  BY <1>1, SoundFields DEF Size, line
<1>3. Sound([c EXCEPT !.rows = rows])
  <2> HIDE DEF rows
  <2>1. QED
    BY <1>2 DEF Sound, Screens
<1>4. QED
  BY <1>3 DEF Written, line, Sound, Screens

LEMMA ScrolledUpSound ==
    ASSUME NEW c, Sound(c), NEW num \in 1..Size(c)
    PROVE  Sound(ScrolledUp(c, num))
<1> DEFINE rows == [i \in DOMAIN c.rows |-> IF i + num \in DOMAIN c.rows THEN c.rows[i + num]
                                            ELSE NewLine(c)]
           sb == IF c.alternate THEN c.sb ELSE SB!Pushed(c.sb, SubSeq(c.rows, 1, num), FALSE)
<1>1. rows \in Seq(Line)
  <2>1. DOMAIN c.rows = 1..Size(c)
    BY SoundFields DEF Size
  <2>2. \A i \in 1..Size(c) :
           (IF i + num \in DOMAIN c.rows THEN c.rows[i + num] ELSE NewLine(c)) \in Line
    BY <2>1, SoundFields, NewLineIsLine DEF Size
  <2> DEFINE row(i) == IF i + num \in DOMAIN c.rows THEN c.rows[i + num] ELSE NewLine(c)
  <2>3. rows = [i \in 1..Size(c) |-> row(i)] /\ \A i \in 1..Size(c) : row(i) \in Line
    BY <2>1, <2>2
  <2>4. Size(c) \in Nat
    BY SoundFields
  <2> HIDE DEF rows, row
  <2>5. QED
    BY <2>3, <2>4
<1>2. Scrollable(sb)
  <2>1. SubSeq(c.rows, 1, num) \in Seq(Line)
    BY SoundFields DEF Size
  <2>2. QED
    BY <2>1, SoundFields, PushedScrollable
<1> HIDE DEF rows, sb
<1>3. Sound([c EXCEPT !.rows = rows, !.sb = sb])
  BY <1>1, <1>2 DEF Sound, Screens, Scrollable
<1>4. ScrolledUp(c, num) = AllAged([c EXCEPT !.rows = rows, !.sb = sb])
  BY DEF ScrolledUp, rows, sb, Sound, Screens
<1>5. QED
  BY <1>3, <1>4, AllAgedSound

LEMMA SwitchedSound ==
    ASSUME NEW c, Sound(c), NEW text \in Texts
    PROVE  Sound(Switched(c, text))
<1> DEFINE rows == [i \in DOMAIN c.rows |-> [text |-> text, age |-> c.age_cnt]]
           alternate == ~c.alternate
<1>1. rows \in Seq(Line)
  <2>1. [text |-> text, age |-> c.age_cnt] \in Line
    BY SoundFields DEF Line
  <2>2. QED
    BY <2>1, SoundFields DEF Size
<1>2. alternate \in BOOLEAN
  OBVIOUS
<1> HIDE DEF rows, alternate
<1>3. Sound([c EXCEPT !.alternate = alternate, !.rows = rows])
  BY <1>1, <1>2, OtherRows
<1>4. Switched(c, text) = AllAged([c EXCEPT !.alternate = alternate, !.rows = rows])
  BY DEF Switched, rows, alternate, Sound, Screens
<1>5. QED
  BY <1>3, <1>4, AllAgedSound

LEMMA SbClearedSound ==
    ASSUME NEW c, Sound(c)
    PROVE  Sound(SbCleared(c))
<1>1. Sound([c EXCEPT !.sb = SB!Cleared(c.sb)])
  BY SoundFields, ClearedScrollable, OtherScrollback
<1>2. QED
  BY <1>1, AllAgedSound DEF SbCleared, Sound, Screens

LEMMA OutputsSound ==
    ASSUME Sound(con), NEW c \in Outputs
    PROVE  Sound(c)
<1> DEFINE b == IncAge(con)
<1>1. Sound(b)
  BY IncAgeSound
<1> HIDE DEF b
<1>2. \/ \E i \in 1..Size(b) : c = Written(b, i)
      \/ \E num \in 1..Size(b) : c = ScrolledUp(b, num)
      \/ c = SbCleared(b)
      \/ \E t \in Texts : c = Switched(b, t)
  BY <1>1, SoundFields DEF Outputs, b, Least
<1>3. QED
  BY <1>1, <1>2, WrittenSound, ScrolledUpSound, SbClearedSound, SwitchedSound

LEMMA LimitedSound ==
    ASSUME NEW c, Sound(c), NEW max \in Nat
    PROVE  Sound(AllAged([IncAge(c) EXCEPT !.sb = SB!Limited(@, max)]))
<1> DEFINE b == IncAge(c)
<1>1. Sound(b)
  BY IncAgeSound
<1> HIDE DEF b
<1>2. Sound([b EXCEPT !.sb = SB!Limited(b.sb, max)])
  BY <1>1, SoundFields, LimitedScrollable, OtherScrollback
<1>3. [b EXCEPT !.sb = SB!Limited(@, max)] = [b EXCEPT !.sb = SB!Limited(b.sb, max)]
  BY <1>1 DEF Sound, Screens
<1>4. QED
  BY <1>2, <1>3, AllAgedSound DEF b

LEMMA SbMovedSound ==
    ASSUME NEW c, Sound(c), NEW delta \in Int
    PROVE  Sound(SbMoved(c, delta))
<1> DEFINE b == IncAge(c)
           s == IF delta < 0 THEN SB!Up(b.sb, -delta) ELSE SB!Down(b.sb, delta)
<1>1. Sound(b) /\ Scrollable(b.sb)
  BY IncAgeSound, SoundFields
<1> HIDE DEF b
<1>2. Scrollable(s)
  <2>1. CASE delta < 0
    BY <2>1, <1>1, MovedScrollable
  <2>2. CASE ~(delta < 0)
    BY <2>2, <1>1, MovedScrollable
  <2>3. QED
    BY <2>1, <2>2
<1>3. [b EXCEPT !.sb = IF delta < 0 THEN SB!Up(@, -delta) ELSE SB!Down(@, delta)]
         = [b EXCEPT !.sb = s]
  BY <1>1 DEF Sound, Screens
<1> HIDE DEF s
<1>4. Sound(AllAged([b EXCEPT !.sb = s]))
  BY <1>1, <1>2, OtherScrollback, AllAgedSound
<1>5. QED
  BY <1>3, <1>4 DEF SbMoved, b

LEMMA SbResetSound ==
    ASSUME NEW c, Sound(c)
    PROVE  Sound(SbReset(c))
<1> DEFINE b == IncAge(c)
<1>1. Sound(b) /\ Scrollable(b.sb)
  BY IncAgeSound, SoundFields
<1> HIDE DEF b
<1>2. Sound(AllAged([b EXCEPT !.sb = SB!Reset(b.sb)]))
  BY <1>1, 0 \in Nat, MovedScrollable, OtherScrollback, AllAgedSound
<1>3. [b EXCEPT !.sb = SB!Reset(@)] = [b EXCEPT !.sb = SB!Reset(b.sb)]
  BY <1>1 DEF Sound, Screens
<1>4. QED
  BY <1>2, <1>3 DEF SbReset, b

LEMMA ResizedSound ==
    ASSUME NEW c, Sound(c), NEW rows \in Nat,
           NEW back \in MayComeBack(c, rows), NEW lost \in MayBeLost(c, rows)
    PROVE  Sound(Resized(c, rows, back, lost))
<1> DEFINE b == IncAge(c)
           depth == Len(b.sb.lines)
           all == SubSeq(b.sb.lines, depth - back + 1, depth) \o b.rows
           rest == SubSeq(all, lost + 1, Len(all))
           new == [i \in 1..rows |-> IF i <= Len(rest) THEN rest[i] ELSE NewLine(b)]
           sb == IF b.alternate THEN b.sb
                 ELSE SB!Pushed(SB!Pulled(b.sb, back), SubSeq(all, 1, lost), FALSE)
           fit == [b EXCEPT !.rows = new, !.sb = sb]
<1>1. Sound(b) /\ b.rows = c.rows /\ b.sb = c.sb
  BY IncAgeSound
<1> HIDE DEF b
<1>2. back \in 0..Len(b.sb.lines)
  BY <1>1, SoundFields, ScrollableFields DEF MayComeBack, Least
<1>3. all \in Seq(Line) /\ Len(all) = back + Size(c)
  <2>1. b.sb.lines \in Seq(Line) /\ b.rows \in Seq(Line) /\ Len(b.rows) = Size(c)
    BY <1>1, SoundFields, ScrollableFields DEF Size
  <2>2. SubSeq(b.sb.lines, depth - back + 1, depth) \in Seq(Line)
      /\ Len(SubSeq(b.sb.lines, depth - back + 1, depth)) = back
    BY <1>2, <2>1
  <2>3. QED
    BY <2>1, <2>2
<1> HIDE DEF all
<1>4. lost \in 0..Len(all)
  <2>1. lost \in 0..Size(c)
    BY SoundFields DEF MayBeLost, Greatest
  <2>2. back \in Nat /\ Size(c) \in Nat
    BY <1>1, <1>2, SoundFields, ScrollableFields
  <2>3. QED
    BY <1>3, <2>1, <2>2
<1>5. rest \in Seq(Line) /\ SubSeq(all, 1, lost) \in Seq(Line)
  BY <1>3, <1>4
<1> HIDE DEF rest
<1>6. new \in Seq(Line)
  <2>1. \A i \in 1..rows : (IF i <= Len(rest) THEN rest[i] ELSE NewLine(b)) \in Line
    BY <1>1, <1>5, NewLineIsLine
  <2>2. QED
    BY <2>1
<1>7. Scrollable(sb)
  <2>1. Scrollable(SB!Pulled(b.sb, back))
    BY <1>1, <1>2, SoundFields, PulledScrollable
  <2>2. Scrollable(SB!Pushed(SB!Pulled(b.sb, back), SubSeq(all, 1, lost), FALSE))
    BY <1>5, <2>1, PushedScrollable
  <2>3. QED
    BY <1>1, <2>2, SoundFields
<1>8. [b EXCEPT !.rows = new,
                !.sb = IF b.alternate THEN @
                       ELSE SB!Pushed(SB!Pulled(@, back), SubSeq(all, 1, lost), FALSE)] = fit
  BY <1>1 DEF Sound, Screens
<1>9. Sound(fit)
  <2> HIDE DEF new, sb
  <2>1. QED
    BY <1>1, <1>6, <1>7 DEF Sound, Screens, Scrollable
<1>10. Resized(c, rows, back, lost) = IF back + lost > 0 THEN AllAged(fit) ELSE fit
  BY <1>8 DEF Resized, b, all, rest
<1>11. QED
  BY <1>9, <1>10, AllAgedSound

LEMMA BlinkedSound ==
    ASSUME NEW c, Sound(c)
    PROVE  Sound(Blinked(c))
<1> DEFINE b == IncAge(c)
           depth == Len(b.sb.lines)
           Aged(line) == IF line.text = "blink" THEN [line EXCEPT !.age = b.age_cnt] ELSE line
           lines == [n \in DOMAIN b.sb.lines |->
                        IF n \in (b.sb.top + 1)..(b.sb.top + Size(b))
                        THEN Aged(b.sb.lines[n]) ELSE b.sb.lines[n]]
           rows == [k \in DOMAIN b.rows |->
                        IF k + depth <= b.sb.top + Size(b) THEN Aged(b.rows[k]) ELSE b.rows[k]]
           sb == [b.sb EXCEPT !.lines = lines]
<1>1. Sound(b)
  BY IncAgeSound
<1> HIDE DEF b
<1>2. \A line \in Line : Aged(line) \in Line
  BY <1>1, SoundFields DEF Line
<1> HIDE DEF Aged
<1>3. lines \in Seq(Line) /\ Len(lines) = Len(b.sb.lines)
  <2>1. b.sb.lines \in Seq(Line)
    BY <1>1, SoundFields, ScrollableFields
  <2>2. QED
    BY <1>2, <2>1
<1>4. rows \in Seq(Line)
  <2>1. b.rows \in Seq(Line)
    BY <1>1, SoundFields
  <2>2. \A k \in DOMAIN b.rows : b.rows[k] \in Line
    BY <2>1
  <2> DEFINE below(k) == k + depth <= b.sb.top + Size(b)
  <2> HIDE DEF below
  <2>3. rows = [k \in DOMAIN b.rows |-> IF below(k) THEN Aged(b.rows[k]) ELSE b.rows[k]]
    BY DEF below
  <2> HIDE DEF rows
  <2>4. QED
    BY <1>2, <2>1, <2>2, <2>3
<1>5. Scrollable(sb)
  <2> HIDE DEF lines
  <2>1. QED
    BY <1>1, <1>3, SoundFields DEF Scrollable
<1>6. Sound([b EXCEPT !.sb = sb, !.rows = rows])
  <2> HIDE DEF rows, sb
  <2>1. QED
    BY <1>1, <1>4, <1>5 DEF Sound, Screens, Scrollable
<1>7. Blinked(c) = IF Blinking(c) = {} THEN c ELSE [b EXCEPT !.sb = sb, !.rows = rows]
  BY <1>1 DEF Blinked, b, Aged, Sound, Screens, Scrollable
<1>8. QED
  BY <1>6, <1>7

-----------------------------------------------------------------------------
(* What the gadget remembers of a screen. *)

Scrollers == [top : Nat, visible : Nat, total : Nat]

Within(s) == s \in Scrollers /\ s.visible <= s.total /\ s.top <= s.total - s.visible

Gadgets == [rows : Nat, age : Ages, blinkstate : BOOLEAN, maxsb : Nat, sb : Scrollers]

LEMMA ScrollerOfWithin ==
    ASSUME NEW c, Sound(c)
    PROVE  Within(ScrollerOf(c))
BY SoundFields, ScrollableFields DEF Within, Scrollers, ScrollerOf

\* What a call leaves: a screen, a gadget and a window.
Fine(d) == /\ d = [con |-> d.con, td |-> d.td, shown |-> d.shown]
           /\ Sound(d.con)
           /\ d.td \in Gadgets /\ Within(d.td.sb)

LEMMA OtherScreen ==
    ASSUME NEW d, Fine(d), NEW c, Sound(c)
    PROVE  Fine([d EXCEPT !.con = c])
BY DEF Fine

LEMMA OtherGadget ==
    ASSUME NEW d, Fine(d), NEW t \in Gadgets, Within(t.sb)
    PROVE  Fine([d EXCEPT !.td = t])
BY DEF Fine

LEMMA WithScrollerFine ==
    ASSUME NEW d, Fine(d)
    PROVE  Fine(WithScroller(d))
<1>1. Within(ScrollerOf(d.con))
  BY ScrollerOfWithin DEF Fine
<1> DEFINE s == ScrollerOf(d.con)
<1> HIDE DEF s
<1>2. [d.td EXCEPT !.sb = s] \in Gadgets /\ [d.td EXCEPT !.sb = s].sb = s
  BY <1>1 DEF Fine, Gadgets, Within, s
<1>3. Fine([d EXCEPT !.td = [d.td EXCEPT !.sb = s]])
  BY <1>1, <1>2, OtherGadget DEF s
<1>4. QED
  BY <1>3 DEF WithScroller, Fine, s

LEMMA RenderedFine ==
    ASSUME NEW d, Fine(d), NEW miny, NEW maxy
    PROVE  Fine(Rendered(d, miny, maxy))
<1> DEFINE shows == [i \in 1..Size(d.con) |->
                        IF miny <= i - 1 /\ i - 1 <= maxy /\ Due(d.con, d.td, i)
                        THEN Look(Visible(d.con, i), d.td.blinkstate)
                        ELSE d.shown[i]]
           age == IF d.con.age_reset THEN 0 ELSE d.con.age_cnt
           t == [d.td EXCEPT !.age = age]
           c == [d.con EXCEPT !.age_reset = FALSE]
<1>1. age \in Ages
  BY ZeroIsAge DEF Fine, Sound, Screens
<1> HIDE DEF shows, age
<1>2. t \in Gadgets /\ Within(t.sb)
  BY <1>1 DEF Fine, Gadgets, Within
<1>3. Sound(c)
  BY DEF Fine, Sound, Screens
<1>4. Rendered(d, miny, maxy) = [con |-> c, td |-> t, shown |-> shows]
  BY DEF Rendered, shows, age
<1> HIDE DEF t, c
<1>5. QED
  BY <1>2, <1>3, <1>4 DEF Fine

LEMMA RenderUpdateFine ==
    ASSUME NEW d, Fine(d)
    PROVE  Fine(RenderUpdate(d))
BY RenderedFine DEF RenderUpdate

LEMMA RenderRedrawFine ==
    ASSUME NEW d, Fine(d)
    PROVE  Fine(RenderRedraw(d))
<1> DEFINE blank == [i \in 1..Size(d.con) |-> "old"]
           t == [d.td EXCEPT !.age = 0]
<1>1. t \in Gadgets /\ Within(t.sb)
  BY ZeroIsAge DEF Fine, Gadgets, Within
<1>2. Fine([con |-> d.con, td |-> t, shown |-> blank])
  <2> HIDE DEF blank, t
  <2>1. QED
    BY <1>1 DEF Fine
<1>3. QED
  BY <1>2, RenderUpdateFine DEF RenderRedraw

LEMMA RenderScrollFine ==
    ASSUME NEW d, Fine(d), NEW delta
    PROVE  Fine(RenderScroll(d, delta))
<1> DEFINE raster == [i \in 1..Size(d.con) |->
                         IF i + delta \in 1..Size(d.con) THEN d.shown[i + delta]
                         ELSE d.shown[i]]
           scrolled == [d EXCEPT !.shown = raster]
<1>1. Fine(scrolled)
  <2> HIDE DEF raster
  <2>1. QED
    BY DEF Fine
<1> HIDE DEF scrolled
<1>2. QED
  BY <1>1, RenderedFine DEF RenderScroll, scrolled

LEMMA DisplayFine ==
    ASSUME Sound(con), td \in Gadgets, Within(td.sb),
           NEW c, Sound(c), NEW t \in Gadgets, Within(t.sb)
    PROVE  /\ Fine(Display) /\ Fine([Display EXCEPT !.con = c])
           /\ Fine([con |-> c, td |-> t, shown |-> shown])
           /\ Fine([Display EXCEPT !.td = t])
BY DEF Display, Fine

-----------------------------------------------------------------------------
(* The invariant. *)

GInv == Sound(con) /\ td \in Gadgets /\ Within(td.sb)

LEMMA BecomesFine ==
    ASSUME NEW d, Fine(d), Becomes(d)
    PROVE  GInv'
BY DEF Fine, Becomes, GInv

LEMMA DrawnFine ==
    ASSUME NEW d, Fine(d)
    PROVE  /\ Fine(DoRender(d))
           /\ Fine(IF open THEN WithScroller(d) ELSE d)
           /\ Fine(DoRender(IF open THEN WithScroller(d) ELSE d))
BY WithScrollerFine, RenderUpdateFine DEF DoRender

\* TERM_new makes an empty screen and limits its scrollback.
LEMMA GInvInit == Init => GInv
<1> SUFFICES ASSUME Init PROVE GInv
  OBVIOUS
<1>1. PICK rows \in Heights, max \in Maxima :
         LET new == [sb |-> SB!Empty,
                     rows |-> [i \in 1..rows |-> [text |-> "plain", age |-> 1]],
                     alternate |-> FALSE,
                     age |-> 0, age_cnt |-> 1, age_reset |-> FALSE]
             limited == AllAged([IncAge(new) EXCEPT !.sb = SB!Limited(@, max)])
         IN  /\ con = [IF max = 0 THEN new ELSE limited EXCEPT !.age_reset = FALSE]
             /\ td = [rows |-> rows, age |-> con.age_cnt, blinkstate |-> FALSE,
                      maxsb |-> max,
                      sb |-> [top |-> 0, visible |-> rows, total |-> rows]]
  BY DEF Init
<1> DEFINE lines == [i \in 1..rows |-> [text |-> "plain", age |-> 1]]
           new == [sb |-> SB!Empty, rows |-> lines, alternate |-> FALSE,
                   age |-> 0, age_cnt |-> 1, age_reset |-> FALSE]
           limited == AllAged([IncAge(new) EXCEPT !.sb = SB!Limited(@, max)])
<1>2. rows \in Nat /\ max \in Nat
  BY GadgetAssumption
<1>3. lines \in Seq(Line)
  <2>1. [text |-> "plain", age |-> 1] \in Line
    BY ZeroIsAge DEF Line, Texts
  <2>2. QED
    BY <1>2, <2>1
<1>4. Sound(new)
  <2> HIDE DEF lines
  <2>1. QED
    BY <1>3, ZeroIsAge, EmptyScrollable DEF Sound, Screens, Scrollable
<1>5. con = [IF max = 0 THEN new ELSE limited EXCEPT !.age_reset = FALSE]
  BY <1>1
<1>6. td = [rows |-> rows, age |-> con.age_cnt, blinkstate |-> FALSE, maxsb |-> max,
            sb |-> [top |-> 0, visible |-> rows, total |-> rows]]
  BY <1>1
<1> HIDE DEF new
<1>7. Sound(limited)
  BY <1>2, <1>4, LimitedSound
<1> HIDE DEF limited
<1>8. Sound(con)
  BY <1>4, <1>5, <1>7 DEF Sound, Screens
<1>9. td \in Gadgets /\ Within(td.sb)
  BY <1>2, <1>6, <1>8 DEF Gadgets, Within, Scrollers, Sound, Screens
<1>10. QED
  BY <1>8, <1>9 DEF GInv

\* TERM_set clamps the new top to what the gadget remembers and moves the view by
\* the difference.
LEMMA SBTopKeeps ==
    ASSUME GInv, NEW t \in Int, NEW update \in BOOLEAN, SBTop(t, update)
    PROVE  GInv'
<1> DEFINE top == Least(Greatest(t, 0), td.sb.total - td.sb.visible)
           delta == top - td.sb.top
           moved == [td EXCEPT !.sb = [td.sb EXCEPT !.top = top]]
           d == [con |-> SbMoved(con, delta), td |-> moved, shown |-> shown]
           drawn == IF Abs(delta) >= td.rows THEN RenderUpdate(d) ELSE RenderScroll(d, delta)
<1>1. Sound(con) /\ td \in Gadgets /\ Within(td.sb)
  BY DEF GInv
<1>2. top \in Nat /\ top <= td.sb.total - td.sb.visible /\ delta \in Int
  BY <1>1 DEF Within, Scrollers, Least, Greatest
<1> HIDE DEF top
<1>3. moved \in Gadgets /\ Within(moved.sb)
  BY <1>1, <1>2 DEF Gadgets, Within, Scrollers
<1>4. Sound(SbMoved(con, delta))
  BY <1>1, <1>2, SbMovedSound
<1>5. Fine(d)
  <2> HIDE DEF moved, delta
  <2>1. QED
    BY <1>1, <1>3, <1>4, DisplayFine
<1>6. Becomes(IF update THEN drawn ELSE WithScroller(drawn))
  BY <1>1 DEF SBTop, top, Gadgets
<1> HIDE DEF d, delta
<1>7. Fine(drawn)
  BY <1>5, RenderUpdateFine, RenderScrollFine
<1>8. QED
  BY <1>6, <1>7, WithScrollerFine, BecomesFine

\* TERM_layout: the view of a screen that has been resized is within it, so that the
\* gadget takes nothing back.
LEMMA LayoutKeeps ==
    ASSUME GInv, Layout
    PROVE  GInv'
<1>1. PICK rows \in Heights \ {td.rows} :
        \E back \in MayComeBack(con, rows), lost \in MayBeLost(con, rows) :
        LET c == Resized(con, rows, back, lost)
            s == ScrollerOf(c)
            above == Greatest(0, s.top + s.visible - s.total)
            d == [con |-> SbMoved(c, -above),
                  td |-> [td EXCEPT !.rows = rows, !.sb = [s EXCEPT !.top = @ - above]],
                  shown |-> shown]
        IN  Becomes(RenderRedraw(d))
  BY DEF Layout
<1>2. PICK back \in MayComeBack(con, rows), lost \in MayBeLost(con, rows) :
        LET c == Resized(con, rows, back, lost)
            s == ScrollerOf(c)
            above == Greatest(0, s.top + s.visible - s.total)
            d == [con |-> SbMoved(c, -above),
                  td |-> [td EXCEPT !.rows = rows, !.sb = [s EXCEPT !.top = @ - above]],
                  shown |-> shown]
        IN  Becomes(RenderRedraw(d))
  BY <1>1
<1> DEFINE c == Resized(con, rows, back, lost)
           s == ScrollerOf(c)
           above == Greatest(0, s.top + s.visible - s.total)
           t == [td EXCEPT !.rows = rows, !.sb = [s EXCEPT !.top = @ - above]]
           d == [con |-> SbMoved(c, -above), td |-> t, shown |-> shown]
<1>3. Becomes(RenderRedraw(d))
  BY <1>2
<1>4. rows \in Nat /\ Sound(con) /\ td \in Gadgets /\ Within(td.sb)
  BY GadgetAssumption DEF GInv
<1>5. Sound(c)
  BY <1>4, ResizedSound
<1> HIDE DEF c
<1>6. Within(s)
  BY <1>5, ScrollerOfWithin
<1> HIDE DEF s
<1>7. above = 0
  BY <1>6 DEF Within, Scrollers, Greatest
<1> HIDE DEF above
<1>8. t \in Gadgets /\ Within(t.sb)
  <2>1. [s EXCEPT !.top = @ - above] = s
    BY <1>6, <1>7 DEF Within, Scrollers
  <2>2. t = [td EXCEPT !.rows = rows, !.sb = s]
    BY <2>1
  <2>3. QED
    BY <1>4, <1>6, <2>2 DEF Gadgets, Within
<1>9. Sound(SbMoved(c, -above))
  BY <1>5, <1>7, SbMovedSound
<1>10. Fine(d)
  <2> HIDE DEF t
  <2>1. QED
    BY <1>4, <1>8, <1>9, DisplayFine
<1> HIDE DEF d
<1>11. QED
  BY <1>3, <1>10, RenderRedrawFine, BecomesFine

LEMMA GInvNext == GInv /\ [Next]_vars => GInv'
<1> SUFFICES ASSUME GInv, [Next]_vars PROVE GInv'
  OBVIOUS
<1>0. Sound(con) /\ td \in Gadgets /\ Within(td.sb)
  BY DEF GInv
<1>d. Fine(Display)
  BY <1>0, DisplayFine
<1>1. CASE Write
  BY <1>0, <1>1, OutputsSound DEF Write, GInv
<1>2. CASE Refresh
  BY <1>d, <1>2, DrawnFine, BecomesFine DEF Refresh
<1>3. CASE Key
  BY <1>0, <1>3, SbResetSound DEF Key, GInv
<1>4. CASE ClearSb
  <2>1. Fine([Display EXCEPT !.con = SbCleared(IncAge(con))])
    BY <1>0, IncAgeSound, SbClearedSound, DisplayFine
  <2>2. QED
    BY <1>4, <2>1, DrawnFine, BecomesFine DEF ClearSb
<1>5. CASE SetMaxSb
  <2>1. PICK max \in Maxima :
          LET c == AllAged([IncAge(con) EXCEPT !.sb = SB!Limited(@, max)])
              d == [con |-> c, td |-> [td EXCEPT !.maxsb = max], shown |-> shown]
          IN  Becomes(WithScroller(DoRender(d)))
    BY <1>5 DEF SetMaxSb
  <2> DEFINE c == AllAged([IncAge(con) EXCEPT !.sb = SB!Limited(@, max)])
             t == [td EXCEPT !.maxsb = max]
             d == [con |-> c, td |-> t, shown |-> shown]
  <2>2. Becomes(WithScroller(DoRender(d)))
    BY <2>1
  <2>3. max \in Nat
    BY GadgetAssumption
  <2>4. Sound(c)
    BY <1>0, <2>3, LimitedSound
  <2>5. t \in Gadgets /\ Within(t.sb)
    BY <1>0, <2>3 DEF Gadgets, Within
  <2>6. Fine(d)
    <3> HIDE DEF c, t
    <3>1. QED
      BY <1>0, <2>4, <2>5, DisplayFine
  <2> HIDE DEF d
  <2>7. QED
    BY <2>2, <2>6, DrawnFine, WithScrollerFine, BecomesFine
<1>6. CASE Blink
  <2> DEFINE t == [td EXCEPT !.blinkstate = ~@]
             d == [con |-> Blinked(con), td |-> t, shown |-> shown]
  <2>1. Becomes(IF Blinking(con) = {} THEN d ELSE DoRender(d))
    BY <1>6 DEF Blink
  <2>2. t \in Gadgets /\ Within(t.sb)
    BY <1>0 DEF Gadgets, Within
  <2>3. Fine(d)
    <3> HIDE DEF t
    <3>1. QED
      BY <1>0, <2>2, BlinkedSound, DisplayFine
  <2> HIDE DEF d
  <2>4. QED
    BY <2>1, <2>3, DrawnFine, BecomesFine
<1>7. CASE Iconify
  BY <1>0, <1>7 DEF Iconify, GInv
<1>8. CASE Uniconify
  BY <1>d, <1>8, RenderRedrawFine, BecomesFine DEF Uniconify
<1>9. CASE DragScroller
  <2>1. PICK t \in 0..(td.sb.total - td.sb.visible) : SBTop(t, TRUE)
    BY <1>9 DEF DragScroller
  <2>2. t \in Int
    BY <1>0 DEF Within, Scrollers
  <2>3. QED
    BY <2>1, <2>2, SBTopKeeps
<1>10. CASE TurnWheel
  <2>1. PICK n \in Wheel : SBTop(td.sb.top + n, FALSE) \/ SBTop(td.sb.top - n, FALSE)
    BY <1>10 DEF TurnWheel
  <2>2. td.sb.top + n \in Int /\ td.sb.top - n \in Int
    BY <1>0, GadgetAssumption DEF Within, Scrollers
  <2>3. QED
    BY <2>1, <2>2, SBTopKeeps
<1>11. CASE Layout
  BY <1>11, LayoutKeeps
<1>12. CASE UNCHANGED vars
  BY <1>0, <1>12 DEF vars, GInv
<1>13. QED
  BY <1>1, <1>2, <1>3, <1>4, <1>5, <1>6, <1>7, <1>8, <1>9, <1>10, <1>11, <1>12
  DEF Next, Program, System

\* td_SBTotal - td_SBVisible does not wrap and the scroller's top is within it,
\* whatever the sizes, the limits, the wheel and the counter, and however the calls
\* of the program and of the system's tasks come.
THEOREM ScrollerStaysInRange == Spec => []ScrollerInRange
<1>1. GInv => ScrollerInRange
  BY DEF GInv, Within, Scrollers, ScrollerInRange
<1>2. QED
  BY <1>1, GInvInit, GInvNext, PTL DEF Spec

-----------------------------------------------------------------------------
(* What a window is made for: the screen has as many rows as the gadget and the *)
(* window, and the scrollback the limit the gadget has been given.              *)

LEMMA PushedMax ==
    ASSUME NEW s, Scrollable(s), NEW new
    PROVE  SB!Pushed(s, new, FALSE).max = s.max
BY ScrollableFields DEF SB!Pushed, Scrollable

LEMMA PulledMax ==
    ASSUME NEW s, NEW num
    PROVE  SB!Pulled(s, num).max = s.max
BY DEF SB!Pulled

LEMMA LimitedMax ==
    ASSUME NEW s, NEW max
    PROVE  SB!Limited(s, max).max = max
BY DEF SB!Limited

LEMMA ClearedMax ==
    ASSUME NEW s
    PROVE  SB!Cleared(s).max = s.max
BY DEF SB!Cleared

LEMMA MovedMax ==
    ASSUME NEW s, Scrollable(s), NEW num
    PROVE  SB!Up(s, num).max = s.max /\ SB!Down(s, num).max = s.max
           /\ SB!Reset(s).max = s.max
BY DEF SB!Up, SB!Down, SB!Reset, Scrollable

\* Of the same size, and with the same limit.
Alike(c, e) == Size(e) = Size(c) /\ e.sb.max = c.sb.max

LEMMA AgedAlike ==
    ASSUME NEW c, Sound(c)
    PROVE  Alike(c, IncAge(c)) /\ Alike(c, AllAged(c))
BY IncAgeSound DEF Alike, Size, AllAged, Sound, Screens

LEMMA OtherScrollbackAlike ==
    ASSUME NEW c, Sound(c), NEW s
    PROVE  /\ Size([c EXCEPT !.sb = s]) = Size(c)
           /\ [c EXCEPT !.sb = s].sb = s
BY DEF Sound, Screens, Size

LEMMA LengthOfRows ==
    ASSUME NEW n \in Nat, NEW f(_)
    PROVE  Len([i \in 1..n |-> f(i)]) = n
OBVIOUS

LEMMA WrittenAlike ==
    ASSUME NEW c, Sound(c), NEW i \in 1..Size(c)
    PROVE  Alike(c, Written(c, i))
<1>1. Written(c, i).sb = c.sb /\ DOMAIN Written(c, i).rows = DOMAIN c.rows
  BY DEF Written, Sound, Screens
<1>2. Written(c, i).rows \in Seq(Line) /\ c.rows \in Seq(Line)
  BY WrittenSound, SoundFields
<1>3. QED
  BY <1>1, <1>2 DEF Alike, Size

LEMMA ScrolledUpAlike ==
    ASSUME NEW c, Sound(c), NEW num \in 1..Size(c)
    PROVE  Alike(c, ScrolledUp(c, num))
<1>1. /\ DOMAIN ScrolledUp(c, num).rows = DOMAIN c.rows
      /\ ScrolledUp(c, num).sb = IF c.alternate THEN c.sb
                                 ELSE SB!Pushed(c.sb, SubSeq(c.rows, 1, num), FALSE)
  BY DEF ScrolledUp, AllAged, Sound, Screens
<1>2. ScrolledUp(c, num).rows \in Seq(Line) /\ c.rows \in Seq(Line) /\ Scrollable(c.sb)
  BY ScrolledUpSound, SoundFields
<1>3. ScrolledUp(c, num).sb.max = c.sb.max
  BY <1>1, <1>2, PushedMax
<1>4. Len(ScrolledUp(c, num).rows) = Len(c.rows)
  BY <1>1, <1>2
<1>5. QED
  BY <1>3, <1>4 DEF Alike, Size

LEMMA SwitchedAlike ==
    ASSUME NEW c, Sound(c), NEW text \in Texts
    PROVE  Alike(c, Switched(c, text))
<1>1. Switched(c, text).sb = c.sb /\ DOMAIN Switched(c, text).rows = DOMAIN c.rows
  BY DEF Switched, AllAged, Sound, Screens
<1>2. Switched(c, text).rows \in Seq(Line) /\ c.rows \in Seq(Line)
  BY SwitchedSound, SoundFields
<1>3. QED
  BY <1>1, <1>2 DEF Alike, Size

LEMMA SbClearedAlike ==
    ASSUME NEW c, Sound(c)
    PROVE  Alike(c, SbCleared(c))
BY ClearedMax DEF Alike, Size, SbCleared, AllAged, Sound, Screens

LEMMA OutputsAlike ==
    ASSUME Sound(con), NEW c \in Outputs
    PROVE  Alike(con, c)
<1> DEFINE b == IncAge(con)
<1>1. Sound(b) /\ Alike(con, b)
  BY IncAgeSound, AgedAlike
<1> HIDE DEF b
<1>2. \/ \E i \in 1..Size(b) : c = Written(b, i)
      \/ \E num \in 1..Size(b) : c = ScrolledUp(b, num)
      \/ c = SbCleared(b)
      \/ \E t \in Texts : c = Switched(b, t)
  BY <1>1, SoundFields DEF Outputs, b, Least
<1>3. Alike(b, c)
  BY <1>1, <1>2, WrittenAlike, ScrolledUpAlike, SbClearedAlike, SwitchedAlike
<1>4. QED
  BY <1>1, <1>3 DEF Alike

LEMMA LimitedAlike ==
    ASSUME NEW c, Sound(c), NEW max \in Nat
    PROVE  LET e == AllAged([IncAge(c) EXCEPT !.sb = SB!Limited(@, max)])
           IN  Size(e) = Size(c) /\ e.sb.max = max
<1> DEFINE b == IncAge(c)
<1>1. Sound(b) /\ Alike(c, b)
  BY IncAgeSound, AgedAlike
<1> HIDE DEF b
<1>2. Scrollable(b.sb)
  BY <1>1, SoundFields
<1>3. SB!Limited(b.sb, max).max = max
  BY LimitedMax
<1>4. LET e == AllAged([b EXCEPT !.sb = SB!Limited(@, max)])
      IN  Size(e) = Size(b) /\ e.sb = SB!Limited(b.sb, max)
  BY <1>1 DEF AllAged, Size, Sound, Screens
<1>5. QED
  BY <1>1, <1>3, <1>4 DEF b, Alike

LEMMA SbMovedAlike ==
    ASSUME NEW c, Sound(c), NEW delta \in Int
    PROVE  Alike(c, SbMoved(c, delta))
<1> DEFINE b == IncAge(c)
           s == IF delta < 0 THEN SB!Up(b.sb, -delta) ELSE SB!Down(b.sb, delta)
<1>1. Sound(b) /\ Alike(c, b) /\ Scrollable(b.sb)
  BY IncAgeSound, AgedAlike, SoundFields
<1> HIDE DEF b
<1>2. s.max = b.sb.max
  BY <1>1, MovedMax
<1> HIDE DEF s
<1>3. SbMoved(c, delta) = IF delta = 0 THEN c ELSE AllAged([b EXCEPT !.sb = s])
  BY <1>1 DEF SbMoved, b, s, Sound, Screens
<1>4. Alike(b, AllAged([b EXCEPT !.sb = s]))
  BY <1>1, <1>2 DEF Alike, AllAged, Size, Sound, Screens
<1>5. QED
  BY <1>1, <1>3, <1>4 DEF Alike

LEMMA SbResetAlike ==
    ASSUME NEW c, Sound(c)
    PROVE  Alike(c, SbReset(c))
<1> DEFINE b == IncAge(c)
           s == SB!Reset(b.sb)
<1>1. Sound(b) /\ Alike(c, b) /\ Scrollable(b.sb)
  BY IncAgeSound, AgedAlike, SoundFields
<1> HIDE DEF b
<1>2. s.max = b.sb.max
  BY <1>1, 0 \in Nat, MovedMax
<1> HIDE DEF s
<1>3. SbReset(c) = IF SB!Live(c.sb) THEN c ELSE AllAged([b EXCEPT !.sb = s])
  BY <1>1 DEF SbReset, b, s, Sound, Screens
<1>4. Alike(b, AllAged([b EXCEPT !.sb = s]))
  BY <1>1, <1>2 DEF Alike, AllAged, Size, Sound, Screens
<1>5. QED
  BY <1>1, <1>3, <1>4 DEF Alike

LEMMA BlinkedAlike ==
    ASSUME NEW c, Sound(c)
    PROVE  Alike(c, Blinked(c))
<1> DEFINE b == IncAge(c)
<1>1. Sound(b) /\ Alike(c, b)
  BY IncAgeSound, AgedAlike
<1>2. Blinked(c) = c \/ (/\ Blinked(c).sb.max = b.sb.max
                         /\ DOMAIN Blinked(c).rows = DOMAIN b.rows)
  <2> HIDE DEF b
  <2>1. QED
    BY <1>1 DEF Blinked, b, Sound, Screens
<1>3. Blinked(c).rows \in Seq(Line) /\ b.rows \in Seq(Line)
  BY <1>1, BlinkedSound, SoundFields
<1>4. QED
  BY <1>1, <1>2, <1>3 DEF Alike, Size

\* tsm_screen_resize makes it the size it has been asked for.
LEMMA ResizedSize ==
    ASSUME NEW c, Sound(c), NEW rows \in Nat,
           NEW back \in MayComeBack(c, rows), NEW lost \in MayBeLost(c, rows)
    PROVE  Size(Resized(c, rows, back, lost)) = rows
           /\ Resized(c, rows, back, lost).sb.max = c.sb.max
<1> DEFINE b == IncAge(c)
           r == Resized(c, rows, back, lost)
           depth == Len(b.sb.lines)
           all == SubSeq(b.sb.lines, depth - back + 1, depth) \o b.rows
           rest == SubSeq(all, lost + 1, Len(all))
           row(i) == IF i <= Len(rest) THEN rest[i] ELSE NewLine(b)
           gone == SubSeq(all, 1, lost)
<1>1. Sound(b) /\ Alike(c, b) /\ b.sb = c.sb /\ Scrollable(b.sb)
  BY IncAgeSound, AgedAlike, SoundFields
<1>2. /\ r.rows = [i \in 1..rows |-> row(i)]
      /\ r.sb = IF b.alternate THEN b.sb
                ELSE SB!Pushed(SB!Pulled(b.sb, back), gone, FALSE)
  <2> HIDE DEF b
  <2>1. QED
    BY <1>1 DEF Resized, b, AllAged, Sound, Screens
<1> HIDE DEF b, r, gone, row
<1>3. Size(r) = rows
  BY <1>2, LengthOfRows DEF Size
<1>4. back \in 0..Len(b.sb.lines)
  BY <1>1, SoundFields, ScrollableFields DEF MayComeBack, Least
<1>5. Scrollable(SB!Pulled(b.sb, back)) /\ SB!Pulled(b.sb, back).max = b.sb.max
  BY <1>1, <1>4, PulledScrollable, PulledMax
<1>6. SB!Pushed(SB!Pulled(b.sb, back), gone, FALSE).max = b.sb.max
  BY <1>5, PushedMax
<1>7. r.sb.max = c.sb.max
  BY <1>1, <1>2, <1>6
<1>8. QED
  BY <1>3, <1>7 DEF r

\* The gadget has the size and the limit of its screen, one the window may have.
Fitting(d) == /\ Size(d.con) \in Heights /\ d.td.rows = Size(d.con)
              /\ d.con.sb.max = d.td.maxsb

\* And so has what the window shows.
Filled(d) == Len(d.shown) = Size(d.con)

LEMMA RenderedFits ==
    ASSUME NEW d, Fine(d), Fitting(d), NEW miny, NEW maxy
    PROVE  Fitting(Rendered(d, miny, maxy)) /\ Filled(Rendered(d, miny, maxy))
<1> DEFINE look(i) == IF miny <= i - 1 /\ i - 1 <= maxy /\ Due(d.con, d.td, i)
                      THEN Look(Visible(d.con, i), d.td.blinkstate)
                      ELSE d.shown[i]
           r == Rendered(d, miny, maxy)
<1>1. /\ r.con = [d.con EXCEPT !.age_reset = FALSE]
      /\ r.td = [d.td EXCEPT !.age = IF d.con.age_reset THEN 0 ELSE d.con.age_cnt]
      /\ r.shown = [i \in 1..Size(d.con) |-> look(i)]
  BY DEF Rendered
<1> HIDE DEF r, look
<1>2. Size(r.con) = Size(d.con) /\ r.con.sb = d.con.sb
  BY <1>1 DEF Fine, Sound, Screens, Size
<1>3. r.td.rows = d.td.rows /\ r.td.maxsb = d.td.maxsb
  BY <1>1 DEF Fine, Gadgets
<1>4. Size(d.con) \in Nat
  BY SoundFields DEF Fine
<1>5. Len(r.shown) = Size(d.con)
  BY <1>1, <1>4, LengthOfRows
<1>6. QED
  BY <1>2, <1>3, <1>5 DEF Fitting, Filled, r

LEMMA RenderUpdateFits ==
    ASSUME NEW d, Fine(d), Fitting(d)
    PROVE  Fitting(RenderUpdate(d)) /\ Filled(RenderUpdate(d))
BY RenderedFits DEF RenderUpdate

LEMMA RenderRedrawFits ==
    ASSUME NEW d, Fine(d), Fitting(d)
    PROVE  Fitting(RenderRedraw(d)) /\ Filled(RenderRedraw(d))
<1> DEFINE blank == [i \in 1..Size(d.con) |-> "old"]
           t == [d.td EXCEPT !.age = 0]
           old == [con |-> d.con, td |-> t, shown |-> blank]
<1>1. t \in Gadgets /\ Within(t.sb) /\ t.rows = d.td.rows /\ t.maxsb = d.td.maxsb
  BY ZeroIsAge DEF Fine, Gadgets, Within
<1>2. Fine(old) /\ Fitting(old)
  <2> HIDE DEF blank, t
  <2>1. QED
    BY <1>1 DEF Fine, Fitting
<1>3. RenderRedraw(d) = RenderUpdate(old)
  BY DEF RenderRedraw
<1> HIDE DEF old
<1>4. QED
  BY <1>2, <1>3, RenderUpdateFits

LEMMA RenderScrollFits ==
    ASSUME NEW d, Fine(d), Fitting(d), NEW delta
    PROVE  Fitting(RenderScroll(d, delta)) /\ Filled(RenderScroll(d, delta))
<1> DEFINE raster == [i \in 1..Size(d.con) |->
                         IF i + delta \in 1..Size(d.con) THEN d.shown[i + delta]
                         ELSE d.shown[i]]
           scrolled == [d EXCEPT !.shown = raster]
<1>1. Fine(scrolled) /\ Fitting(scrolled)
  <2> HIDE DEF raster
  <2>1. QED
    BY DEF Fine, Fitting
<1> HIDE DEF scrolled
<1>2. QED
  BY <1>1, RenderedFits DEF RenderScroll, scrolled

LEMMA WithScrollerFits ==
    ASSUME NEW d, Fine(d), Fitting(d)
    PROVE  Fitting(WithScroller(d)) /\ (Filled(d) => Filled(WithScroller(d)))
<1> DEFINE s == ScrollerOf(d.con)
<1> HIDE DEF s
<1>1. WithScroller(d) = [d EXCEPT !.td = [d.td EXCEPT !.sb = s]]
  BY DEF WithScroller, Fine, s
<1>2. /\ WithScroller(d).con = d.con /\ WithScroller(d).shown = d.shown
      /\ WithScroller(d).td = [d.td EXCEPT !.sb = s]
  BY <1>1 DEF Fine
<1>3. QED
  BY <1>2 DEF Fitting, Filled, Fine, Gadgets

LEMMA DrawnFits ==
    ASSUME NEW d, Fine(d), Fitting(d), Filled(d)
    PROVE  /\ Fitting(DoRender(d)) /\ Filled(DoRender(d))
           /\ Fitting(IF open THEN WithScroller(d) ELSE d)
           /\ Filled(IF open THEN WithScroller(d) ELSE d)
           /\ Fitting(DoRender(IF open THEN WithScroller(d) ELSE d))
           /\ Filled(DoRender(IF open THEN WithScroller(d) ELSE d))
BY WithScrollerFine, WithScrollerFits, RenderUpdateFits DEF DoRender

TInv == /\ GInv /\ Fitting(Display) /\ Filled(Display)
        /\ open \in BOOLEAN /\ reading \in BOOLEAN

LEMMA BecomesFits ==
    ASSUME NEW d, Fitting(d), Filled(d), Becomes(d)
    PROVE  Fitting(Display)' /\ Filled(Display)'
BY DEF Fitting, Filled, Becomes, Display, Size

LEMMA DisplayFits ==
    ASSUME Fitting(Display), Filled(Display), NEW c, Alike(con, c)
    PROVE  /\ Fitting([con |-> c, td |-> td, shown |-> shown])
           /\ Filled([con |-> c, td |-> td, shown |-> shown])
BY DEF Fitting, Filled, Display, Alike

LEMMA TInvInit == Init => TInv
<1> SUFFICES ASSUME Init PROVE TInv
  OBVIOUS
<1>0. GInv
  BY GInvInit
<1>1. PICK rows \in Heights, max \in Maxima :
         LET new == [sb |-> SB!Empty,
                     rows |-> [i \in 1..rows |-> [text |-> "plain", age |-> 1]],
                     alternate |-> FALSE,
                     age |-> 0, age_cnt |-> 1, age_reset |-> FALSE]
             limited == AllAged([IncAge(new) EXCEPT !.sb = SB!Limited(@, max)])
         IN  /\ con = [IF max = 0 THEN new ELSE limited EXCEPT !.age_reset = FALSE]
             /\ td = [rows |-> rows, age |-> con.age_cnt, blinkstate |-> FALSE,
                      maxsb |-> max,
                      sb |-> [top |-> 0, visible |-> rows, total |-> rows]]
             /\ shown = [i \in 1..rows |-> "plain"]
  BY DEF Init
<1> DEFINE lines == [i \in 1..rows |-> [text |-> "plain", age |-> 1]]
           new == [sb |-> SB!Empty, rows |-> lines, alternate |-> FALSE,
                   age |-> 0, age_cnt |-> 1, age_reset |-> FALSE]
           limited == AllAged([IncAge(new) EXCEPT !.sb = SB!Limited(@, max)])
<1>2. rows \in Nat /\ max \in Nat
  BY GadgetAssumption
<1>3. lines \in Seq(Line) /\ Len(lines) = rows
  <2>1. [text |-> "plain", age |-> 1] \in Line
    BY ZeroIsAge DEF Line, Texts
  <2>2. QED
    BY <1>2, <2>1
<1> HIDE DEF lines
<1>4. Sound(new) /\ Size(new) = rows /\ new.sb.max = 0
  BY <1>3, ZeroIsAge, EmptyScrollable DEF Sound, Screens, Scrollable, Size, SB!Empty
<1>5. con = [IF max = 0 THEN new ELSE limited EXCEPT !.age_reset = FALSE]
  BY <1>1 DEF lines
<1>6. td.rows = rows /\ td.maxsb = max /\ shown = [i \in 1..rows |-> "plain"]
  BY <1>1
<1> HIDE DEF new
<1>7. Sound(limited) /\ Size(limited) = rows /\ limited.sb.max = max
  BY <1>2, <1>4, LimitedSound, LimitedAlike
<1> HIDE DEF limited
<1>8. Size(con) = rows /\ con.sb.max = max
  BY <1>4, <1>5, <1>7 DEF Sound, Screens, Size
<1>9. Len(shown) = rows
  BY <1>2, <1>6
<1>10. open \in BOOLEAN /\ reading \in BOOLEAN
  BY DEF Init
<1>11. QED
  BY <1>0, <1>6, <1>8, <1>9, <1>10 DEF TInv, Fitting, Filled, Display

LEMMA SBTopFits ==
    ASSUME TInv, NEW t \in Int, NEW update \in BOOLEAN, SBTop(t, update)
    PROVE  Fitting(Display)' /\ Filled(Display)'
<1> DEFINE top == Least(Greatest(t, 0), td.sb.total - td.sb.visible)
           delta == top - td.sb.top
           moved == [td EXCEPT !.sb = [td.sb EXCEPT !.top = top]]
           d == [con |-> SbMoved(con, delta), td |-> moved, shown |-> shown]
           drawn == IF Abs(delta) >= td.rows THEN RenderUpdate(d) ELSE RenderScroll(d, delta)
<1>1. Sound(con) /\ td \in Gadgets /\ Within(td.sb) /\ Fitting(Display) /\ Filled(Display)
  BY DEF TInv, GInv
<1>2. top \in Nat /\ top <= td.sb.total - td.sb.visible /\ delta \in Int
  BY <1>1 DEF Within, Scrollers, Least, Greatest
<1> HIDE DEF top
<1>3. moved \in Gadgets /\ Within(moved.sb) /\ moved.rows = td.rows /\ moved.maxsb = td.maxsb
  BY <1>1, <1>2 DEF Gadgets, Within, Scrollers
<1>4. Sound(SbMoved(con, delta)) /\ Alike(con, SbMoved(con, delta))
  BY <1>1, <1>2, SbMovedSound, SbMovedAlike
<1>5. Fine(d) /\ Fitting(d)
  <2> HIDE DEF moved, delta
  <2>1. Fine(d)
    BY <1>1, <1>3, <1>4, DisplayFine
  <2>2. Fitting(d)
    BY <1>1, <1>3, <1>4 DEF Fitting, Display, Alike
  <2>3. QED
    BY <2>1, <2>2
<1>6. Becomes(IF update THEN drawn ELSE WithScroller(drawn))
  BY <1>1 DEF SBTop, top, Gadgets
<1> HIDE DEF d, delta
<1>7. Fine(drawn) /\ Fitting(drawn) /\ Filled(drawn)
  BY <1>5, RenderUpdateFine, RenderScrollFine, RenderUpdateFits, RenderScrollFits
<1> HIDE DEF drawn
<1>8. QED
  BY <1>6, <1>7, WithScrollerFits, BecomesFits

\* What the gadget remembers of the screen is so.
InStep(c, t) == t.sb = ScrollerOf(c)

\* What TERM_layout draws: a screen of the new size, and a gadget that knows it.
LEMMA LayoutDraws ==
    ASSUME TInv, Layout
    PROVE  \E d : Fine(d) /\ Fitting(d) /\ InStep(d.con, d.td) /\ Becomes(RenderRedraw(d))
<1>1. PICK rows \in Heights \ {td.rows} :
        \E back \in MayComeBack(con, rows), lost \in MayBeLost(con, rows) :
        LET c == Resized(con, rows, back, lost)
            s == ScrollerOf(c)
            above == Greatest(0, s.top + s.visible - s.total)
            d == [con |-> SbMoved(c, -above),
                  td |-> [td EXCEPT !.rows = rows, !.sb = [s EXCEPT !.top = @ - above]],
                  shown |-> shown]
        IN  Becomes(RenderRedraw(d))
  BY DEF Layout
<1>2. PICK back \in MayComeBack(con, rows), lost \in MayBeLost(con, rows) :
        LET c == Resized(con, rows, back, lost)
            s == ScrollerOf(c)
            above == Greatest(0, s.top + s.visible - s.total)
            d == [con |-> SbMoved(c, -above),
                  td |-> [td EXCEPT !.rows = rows, !.sb = [s EXCEPT !.top = @ - above]],
                  shown |-> shown]
        IN  Becomes(RenderRedraw(d))
  BY <1>1
<1> DEFINE c == Resized(con, rows, back, lost)
           s == ScrollerOf(c)
           above == Greatest(0, s.top + s.visible - s.total)
           t == [td EXCEPT !.rows = rows, !.sb = [s EXCEPT !.top = @ - above]]
           d == [con |-> SbMoved(c, -above), td |-> t, shown |-> shown]
<1>3. Becomes(RenderRedraw(d))
  BY <1>2
<1>4. rows \in Nat /\ Sound(con) /\ td \in Gadgets /\ Within(td.sb) /\ Fitting(Display)
  BY GadgetAssumption DEF TInv, GInv
<1>5. Sound(c) /\ Size(c) = rows /\ c.sb.max = con.sb.max
  BY <1>4, ResizedSound, ResizedSize
<1> HIDE DEF c
<1>6. Within(s)
  BY <1>5, ScrollerOfWithin
<1>a. s = ScrollerOf(c)
  OBVIOUS
<1> HIDE DEF s
<1>7. above = 0
  BY <1>6 DEF Within, Scrollers, Greatest
<1> HIDE DEF above
<1>8. t \in Gadgets /\ Within(t.sb) /\ t.rows = rows /\ t.maxsb = td.maxsb /\ t.sb = s
  <2>1. [s EXCEPT !.top = @ - above] = s
    BY <1>6, <1>7 DEF Within, Scrollers
  <2>2. t = [td EXCEPT !.rows = rows, !.sb = s]
    BY <2>1
  <2>3. QED
    BY <1>4, <1>6, <2>2 DEF Gadgets, Within
<1>9. Sound(SbMoved(c, -above)) /\ SbMoved(c, -above) = c
  <2>1. -above = 0
    <3>1. above \in Int /\ above <= 0 /\ above >= 0
      BY <1>7
    <3> HIDE <1>7
    <3>2. QED
      BY <3>1
  <2>2. SbMoved(c, -above) = c
    BY <2>1 DEF SbMoved
  <2>3. QED
    BY <1>5, <2>2
<1>10. Fine(d) /\ Fitting(d) /\ InStep(d.con, d.td)
  <2> HIDE DEF t
  <2>1. Fine(d)
    BY <1>4, <1>8, <1>9, DisplayFine
  <2>2. Fitting(d)
    BY <1>4, <1>5, <1>8, <1>9 DEF Fitting, Display
  <2>3. InStep(d.con, d.td)
    BY <1>a, <1>8, <1>9 DEF InStep
  <2>4. QED
    BY <2>1, <2>2, <2>3
<1> HIDE DEF d
<1>11. QED
  BY <1>3, <1>10

LEMMA LayoutFits ==
    ASSUME TInv, Layout
    PROVE  Fitting(Display)' /\ Filled(Display)'
<1>1. PICK d : Fine(d) /\ Fitting(d) /\ Becomes(RenderRedraw(d))
  BY LayoutDraws
<1>2. QED
  BY <1>1, RenderRedrawFits, BecomesFits

LEMMA TInvNext == TInv /\ [Next]_vars => TInv'
<1> SUFFICES ASSUME TInv, [Next]_vars PROVE TInv'
  OBVIOUS
<1>0. /\ Sound(con) /\ td \in Gadgets /\ Within(td.sb)
      /\ Fitting(Display) /\ Filled(Display)
      /\ open \in BOOLEAN /\ reading \in BOOLEAN
  BY DEF TInv, GInv
<1>d. Fine(Display)
  BY <1>0, DisplayFine
<1>e. ASSUME NEW c, Sound(c), Alike(con, c)
      PROVE  /\ Fine([con |-> c, td |-> td, shown |-> shown])
             /\ Fitting([con |-> c, td |-> td, shown |-> shown])
             /\ Filled([con |-> c, td |-> td, shown |-> shown])
  BY <1>0, <1>e, DisplayFine, DisplayFits
<1>f. GInv'
  BY GInvNext DEF TInv
<1>1. CASE Write
  <2>1. Sound(con') /\ Alike(con, con')
    BY <1>0, <1>1, OutputsSound, OutputsAlike DEF Write
  <2>2. Becomes([con |-> con', td |-> td, shown |-> shown]) /\ open' = open /\ reading' = TRUE
    BY <1>1 DEF Write, Becomes
  <2>3. QED
    BY <1>0, <1>f, <2>1, <2>2 DEF TInv, Becomes, Fitting, Filled, Display, Alike, Size
<1>2. CASE Refresh
  <2>1. Fitting(Display)' /\ Filled(Display)'
    BY <1>0, <1>d, <1>2, DrawnFits, BecomesFits DEF Refresh
  <2>2. QED
    BY <1>0, <1>2, <1>f, <2>1 DEF TInv, Refresh
<1>3. CASE Key
  <2>1. Alike(con, con') /\ UNCHANGED <<td, shown, open, reading>>
    BY <1>0, <1>3, SbResetAlike DEF Key
  <2>2. QED
    BY <1>0, <1>f, <2>1 DEF TInv, Fitting, Filled, Display, Alike, Size
<1>4. CASE ClearSb
  <2> DEFINE d == [con |-> SbCleared(IncAge(con)), td |-> td, shown |-> shown]
  <2>1. Becomes(DoRender(IF open THEN WithScroller(d) ELSE d))
        /\ open' = open /\ reading' = reading
    BY <1>4 DEF ClearSb, Display
  <2>2. Sound(IncAge(con)) /\ Alike(con, IncAge(con))
    BY <1>0, IncAgeSound, AgedAlike
  <2>3. Sound(SbCleared(IncAge(con))) /\ Alike(con, SbCleared(IncAge(con)))
    BY <2>2, SbClearedSound, SbClearedAlike DEF Alike
  <2>4. Fine(d) /\ Fitting(d) /\ Filled(d)
    BY <2>3, <1>e
  <2> HIDE DEF d
  <2>5. Fitting(Display)' /\ Filled(Display)'
    BY <2>1, <2>4, DrawnFits, BecomesFits
  <2>6. QED
    BY <1>0, <1>f, <2>1, <2>5 DEF TInv
<1>5. CASE SetMaxSb
  <2>1. PICK max \in Maxima :
          LET c == AllAged([IncAge(con) EXCEPT !.sb = SB!Limited(@, max)])
              d == [con |-> c, td |-> [td EXCEPT !.maxsb = max], shown |-> shown]
          IN  Becomes(WithScroller(DoRender(d)))
    BY <1>5 DEF SetMaxSb
  <2> DEFINE c == AllAged([IncAge(con) EXCEPT !.sb = SB!Limited(@, max)])
             t == [td EXCEPT !.maxsb = max]
             d == [con |-> c, td |-> t, shown |-> shown]
  <2>2. Becomes(WithScroller(DoRender(d)))
    BY <2>1
  <2>3. max \in Nat
    BY GadgetAssumption
  <2>4. Sound(c) /\ Size(c) = Size(con) /\ c.sb.max = max
    BY <1>0, <2>3, LimitedSound, LimitedAlike
  <2>5. t \in Gadgets /\ Within(t.sb) /\ t.rows = td.rows /\ t.maxsb = max
    BY <1>0, <2>3 DEF Gadgets, Within
  <2>6. Fine(d) /\ Fitting(d) /\ Filled(d)
    <3> HIDE DEF c, t
    <3>1. Fine(d)
      BY <1>0, <2>4, <2>5, DisplayFine
    <3>2. Fitting(d) /\ Filled(d)
      BY <1>0, <2>4, <2>5 DEF Fitting, Filled, Display
    <3>3. QED
      BY <3>1, <3>2
  <2> HIDE DEF d
  <2>7. Fine(DoRender(d)) /\ Fitting(DoRender(d)) /\ Filled(DoRender(d))
    BY <2>6, DrawnFine, DrawnFits
  <2>8. Fitting(Display)' /\ Filled(Display)'
    BY <2>2, <2>7, WithScrollerFits, BecomesFits
  <2>9. QED
    BY <1>0, <1>5, <1>f, <2>8 DEF TInv, SetMaxSb
<1>6. CASE Blink
  <2> DEFINE t == [td EXCEPT !.blinkstate = ~@]
             d == [con |-> Blinked(con), td |-> t, shown |-> shown]
  <2>1. Becomes(IF Blinking(con) = {} THEN d ELSE DoRender(d))
    BY <1>6 DEF Blink
  <2>2. t \in Gadgets /\ Within(t.sb) /\ t.rows = td.rows /\ t.maxsb = td.maxsb
    BY <1>0 DEF Gadgets, Within
  <2>3. Sound(Blinked(con)) /\ Alike(con, Blinked(con))
    BY <1>0, BlinkedSound, BlinkedAlike
  <2>4. Fine(d) /\ Fitting(d) /\ Filled(d)
    <3> HIDE DEF t
    <3>1. Fine(d)
      BY <1>0, <2>2, <2>3, DisplayFine
    <3>2. Fitting(d) /\ Filled(d)
      BY <1>0, <2>2, <2>3 DEF Fitting, Filled, Display, Alike
    <3>3. QED
      BY <3>1, <3>2
  <2> HIDE DEF d
  <2>5. Fitting(Display)' /\ Filled(Display)'
    BY <2>1, <2>4, DrawnFits, BecomesFits
  <2>6. QED
    BY <1>0, <1>6, <1>f, <2>5 DEF TInv, Blink
<1>7. CASE Iconify
  BY <1>0, <1>7, <1>f DEF Iconify, TInv, Fitting, Filled, Display, Size
<1>8. CASE Uniconify
  <2>1. Fitting(Display)' /\ Filled(Display)'
    BY <1>0, <1>d, <1>8, RenderRedrawFits, BecomesFits DEF Uniconify
  <2>2. QED
    BY <1>0, <1>8, <1>f, <2>1 DEF TInv, Uniconify
<1>9. CASE DragScroller
  <2>1. PICK t \in 0..(td.sb.total - td.sb.visible) : SBTop(t, TRUE)
    BY <1>9 DEF DragScroller
  <2>2. t \in Int
    BY <1>0 DEF Within, Scrollers
  <2>3. Fitting(Display)' /\ Filled(Display)'
    BY <2>1, <2>2, SBTopFits
  <2>4. UNCHANGED <<open, reading>>
    BY <2>1 DEF SBTop
  <2>5. QED
    BY <1>0, <1>f, <2>3, <2>4 DEF TInv
<1>10. CASE TurnWheel
  <2>1. PICK n \in Wheel : SBTop(td.sb.top + n, FALSE) \/ SBTop(td.sb.top - n, FALSE)
    BY <1>10 DEF TurnWheel
  <2>2. td.sb.top + n \in Int /\ td.sb.top - n \in Int
    BY <1>0, GadgetAssumption DEF Within, Scrollers
  <2>3. Fitting(Display)' /\ Filled(Display)'
    BY <2>1, <2>2, SBTopFits
  <2>4. UNCHANGED <<open, reading>>
    BY <2>1 DEF SBTop
  <2>5. QED
    BY <1>0, <1>f, <2>3, <2>4 DEF TInv
<1>11. CASE Layout
  <2>1. Fitting(Display)' /\ Filled(Display)'
    BY <1>11, LayoutFits
  <2>2. UNCHANGED <<open, reading>>
    BY <1>11 DEF Layout
  <2>3. QED
    BY <1>0, <1>f, <2>1, <2>2 DEF TInv
<1>12. CASE UNCHANGED vars
  BY <1>0, <1>12, <1>f DEF vars, TInv, Fitting, Filled, Display, Size
<1>13. QED
  BY <1>1, <1>2, <1>3, <1>4, <1>5, <1>6, <1>7, <1>8, <1>9, <1>10, <1>11, <1>12
  DEF Next, Program, System

\* The screen, the gadget and the window stay of one size, one the window may have,
\* the scrollback within the limit the gadget was given last and the view within the
\* scrollback, the ages below what the counter wraps at: for windows, limits and
\* counters of any size.
THEOREM GadgetTypes == Spec => []TypeOK
<1>1. TInv => TypeOK
  <2> SUFFICES ASSUME TInv PROVE TypeOK
    OBVIOUS
  <2>1. Sound(con) /\ td \in Gadgets /\ Fitting(Display) /\ Filled(Display)
        /\ open \in BOOLEAN /\ reading \in BOOLEAN
    BY DEF TInv, GInv
  <2>2. /\ con.rows \in Seq(Line) /\ con.age \in Ages /\ con.age_cnt \in Ages
        /\ con.alternate \in BOOLEAN /\ con.age_reset \in BOOLEAN
    BY <2>1 DEF Sound, Screens
  <2>3. /\ con.sb.lines \in Seq(Line) /\ Len(con.sb.lines) <= con.sb.max
        /\ con.sb.top \in 0..Len(con.sb.lines)
    BY <2>1, ScrollableFields DEF Sound
  <2>4. td.age \in Ages /\ td.blinkstate \in BOOLEAN
    BY <2>1 DEF Gadgets
  <2>5. Size(con) \in Heights /\ td.rows = Size(con) /\ con.sb.max = td.maxsb
        /\ Len(shown) = Size(con)
    BY <2>1 DEF Fitting, Filled, Display
  <2>6. QED
    BY <2>1, <2>2, <2>3, <2>4, <2>5 DEF TypeOK
<1>2. QED
  BY <1>1, TInvInit, TInvNext, PTL DEF Spec

-----------------------------------------------------------------------------
(* The scroller. *)

LEMMA RenderedInStep ==
    ASSUME NEW d, Fine(d), NEW miny, NEW maxy
    PROVE  InStep(d.con, d.td) => InStep(Rendered(d, miny, maxy).con, Rendered(d, miny, maxy).td)
BY DEF Rendered, InStep, ScrollerOf, Size, Fine, Sound, Screens, Gadgets

LEMMA RedrawInStep ==
    ASSUME NEW d, Fine(d), InStep(d.con, d.td)
    PROVE  InStep(RenderUpdate(d).con, RenderUpdate(d).td)
           /\ InStep(RenderRedraw(d).con, RenderRedraw(d).td)
<1> DEFINE blank == [i \in 1..Size(d.con) |-> "old"]
           t == [d.td EXCEPT !.age = 0]
           old == [con |-> d.con, td |-> t, shown |-> blank]
<1>1. t \in Gadgets /\ Within(t.sb) /\ t.sb = d.td.sb
  BY ZeroIsAge DEF Fine, Gadgets, Within
<1>2. Fine(old) /\ InStep(old.con, old.td)
  <2> HIDE DEF blank, t
  <2>1. QED
    BY <1>1 DEF Fine, InStep
<1>3. RenderRedraw(d) = RenderUpdate(old)
  BY DEF RenderRedraw
<1> HIDE DEF old
<1>4. QED
  BY <1>2, <1>3, RenderedInStep DEF RenderUpdate

LEMMA ScrollInStep ==
    ASSUME NEW d, Fine(d), InStep(d.con, d.td), NEW delta
    PROVE  InStep(RenderScroll(d, delta).con, RenderScroll(d, delta).td)
<1> DEFINE raster == [i \in 1..Size(d.con) |->
                         IF i + delta \in 1..Size(d.con) THEN d.shown[i + delta]
                         ELSE d.shown[i]]
           scrolled == [d EXCEPT !.shown = raster]
<1>1. Fine(scrolled) /\ InStep(scrolled.con, scrolled.td)
  <2> HIDE DEF raster
  <2>1. QED
    BY DEF Fine
<1> HIDE DEF scrolled
<1>2. QED
  BY <1>1, RenderedInStep DEF RenderScroll, scrolled

LEMMA WithScrollerInStep ==
    ASSUME NEW d, Fine(d)
    PROVE  InStep(WithScroller(d).con, WithScroller(d).td)
<1> DEFINE s == ScrollerOf(d.con)
<1> HIDE DEF s
<1>1. WithScroller(d) = [d EXCEPT !.td = [d.td EXCEPT !.sb = s]]
  BY DEF WithScroller, Fine, s
<1>2. WithScroller(d).con = d.con /\ WithScroller(d).td = [d.td EXCEPT !.sb = s]
  BY <1>1 DEF Fine
<1>3. [d.td EXCEPT !.sb = s].sb = s
  BY DEF Fine, Gadgets
<1>4. QED
  BY <1>2, <1>3 DEF InStep, s

LEMMA BecomesInStep ==
    ASSUME NEW d, Becomes(d), InStep(d.con, d.td)
    PROVE  Synced'
BY DEF Becomes, InStep, Synced, ScrollerOf, Size

\* The view of the main screen moves as far as it is asked to, within the scrollback.
LEMMA SbMovedTop ==
    ASSUME NEW c, Sound(c), NEW delta \in Int,
           0 <= c.sb.top + delta, c.sb.top + delta <= Len(c.sb.lines)
    PROVE  /\ SbMoved(c, delta).sb = [c.sb EXCEPT !.top = c.sb.top + delta]
           /\ SbMoved(c, delta).rows = c.rows
           /\ SbMoved(c, delta).alternate = c.alternate
<1> DEFINE b == IncAge(c)
<1>1. Sound(b) /\ b.sb = c.sb /\ b.rows = c.rows /\ b.alternate = c.alternate
  BY IncAgeSound
<1>2. c.sb \in [lines : Seq(Line), top : Nat, max : Nat]
  BY DEF Sound, Scrollable
<1>3. CASE delta = 0
  BY <1>2, <1>3 DEF SbMoved
<1>4. CASE delta < 0
  <2>1. SB!Up(c.sb, -delta) = [c.sb EXCEPT !.top = c.sb.top + delta]
    BY <1>2, <1>4 DEF SB!Up, SB!Larger
  <2> HIDE DEF b
  <2>2. SbMoved(c, delta) = AllAged([b EXCEPT !.sb = SB!Up(c.sb, -delta)])
    BY <1>1, <1>4 DEF SbMoved, b, Sound, Screens
  <2>3. QED
    BY <1>1, <2>1, <2>2 DEF AllAged, Sound, Screens
<1>5. CASE delta > 0
  <2>1. SB!Down(c.sb, delta) = [c.sb EXCEPT !.top = c.sb.top + delta]
    BY <1>2, <1>5 DEF SB!Down, SB!Smaller
  <2> HIDE DEF b
  <2>a. delta # 0 /\ ~(delta < 0)
    BY <1>5
  <2>2. SbMoved(c, delta) = AllAged([b EXCEPT !.sb = SB!Down(c.sb, delta)])
    BY <1>1, <2>a DEF SbMoved, b, Sound, Screens
  <2>3. QED
    BY <1>1, <2>1, <2>2 DEF AllAged, Sound, Screens
<1>6. QED
  BY <1>3, <1>4, <1>5

\* When the scroller is where the view is, a new top of the one is that of the other;
\* the alternate screen has but one.
LEMMA ClampedTop ==
    ASSUME NEW c, Sound(c), NEW t \in Int,
           Least(Greatest(t, 0), ScrollerOf(c).total - ScrollerOf(c).visible)
               # ScrollerOf(c).top
    PROVE  LET top == Least(Greatest(t, 0), ScrollerOf(c).total - ScrollerOf(c).visible)
           IN  /\ ~c.alternate /\ ScrollerOf(c).top = c.sb.top
               /\ top \in 0..Len(c.sb.lines)
<1>1. Size(c) \in Nat /\ Len(c.sb.lines) \in Nat /\ c.sb.top \in Nat /\ c.alternate \in BOOLEAN
  BY SoundFields, ScrollableFields
<1>2. CASE c.alternate
  BY <1>1, <1>2 DEF ScrollerOf, Least, Greatest
<1>3. CASE ~c.alternate
  BY <1>1, <1>3 DEF ScrollerOf, Least, Greatest
<1>4. QED
  BY <1>1, <1>2, <1>3

\* Dragging and the wheel keep the scroller where the view is.
LEMMA SBTopSynced ==
    ASSUME TInv, Synced, NEW t \in Int, NEW update \in BOOLEAN, SBTop(t, update)
    PROVE  Synced'
<1> DEFINE top == Least(Greatest(t, 0), td.sb.total - td.sb.visible)
           delta == top - td.sb.top
           moved == [td EXCEPT !.sb = [td.sb EXCEPT !.top = top]]
           d == [con |-> SbMoved(con, delta), td |-> moved, shown |-> shown]
           drawn == IF Abs(delta) >= td.rows THEN RenderUpdate(d) ELSE RenderScroll(d, delta)
<1>1. Sound(con) /\ td \in Gadgets /\ Within(td.sb) /\ td.sb = ScrollerOf(con)
  BY DEF TInv, GInv, Synced
<1>2. top \in Nat /\ top <= td.sb.total - td.sb.visible /\ delta \in Int /\ td.sb.top \in Nat
  BY <1>1 DEF Within, Scrollers, Least, Greatest
<1>3. delta # 0 /\ Becomes(IF update THEN drawn ELSE WithScroller(drawn))
  BY <1>1 DEF SBTop, Gadgets
<1>4. ~con.alternate /\ td.sb.top = con.sb.top /\ top \in 0..Len(con.sb.lines)
  <2>1. top # td.sb.top
    BY <1>2, <1>3
  <2>2. QED
    BY <1>1, <2>1, ClampedTop
<1> HIDE DEF top
<1>5. moved \in Gadgets /\ Within(moved.sb) /\ moved.sb = [td.sb EXCEPT !.top = top]
  BY <1>1, <1>2 DEF Gadgets, Within, Scrollers
<1>6. Sound(SbMoved(con, delta))
  BY <1>1, <1>2, SbMovedSound
<1>7. Len(con.sb.lines) \in Nat
  BY <1>1, SoundFields, ScrollableFields
<1>8. con.sb.top + delta = top
  BY <1>2, <1>4
<1>9. /\ SbMoved(con, delta).sb = [con.sb EXCEPT !.top = top]
      /\ SbMoved(con, delta).rows = con.rows
      /\ SbMoved(con, delta).alternate = con.alternate
  <2> HIDE DEF delta
  <2>1. 0 <= con.sb.top + delta /\ con.sb.top + delta <= Len(con.sb.lines)
    BY <1>4, <1>8
  <2>2. QED
    BY <1>1, <1>2, <1>8, <2>1, SbMovedTop
<1>10. Fine(d) /\ InStep(d.con, d.td)
  <2> HIDE DEF moved, delta
  <2>1. Fine(d)
    BY <1>1, <1>5, <1>6, DisplayFine
  <2>2. ScrollerOf(SbMoved(con, delta)) = [td.sb EXCEPT !.top = top]
    <3>1. con.sb \in [lines : Seq(Line), top : Nat, max : Nat]
      BY <1>1 DEF Sound, Scrollable
    <3>2. [con.sb EXCEPT !.top = top].lines = con.sb.lines
          /\ [con.sb EXCEPT !.top = top].top = top
      BY <3>1
    <3> DEFINE all == Len(con.rows) + Len(con.sb.lines)
    <3> HIDE DEF all
    <3>3. ScrollerOf(SbMoved(con, delta)) = [top |-> top, visible |-> Len(con.rows), total |-> all]
      BY <1>4, <1>9, <3>2 DEF ScrollerOf, Size, all
    <3>4. td.sb = [top |-> con.sb.top, visible |-> Len(con.rows), total |-> all]
      BY <1>1, <1>4 DEF ScrollerOf, Size, all
    <3>5. QED
      BY <3>3, <3>4
  <2>3. QED
    BY <1>5, <2>1, <2>2 DEF InStep
<1> HIDE DEF d, delta
<1>11. Fine(drawn) /\ InStep(drawn.con, drawn.td)
  BY <1>10, RenderUpdateFine, RenderScrollFine, RedrawInStep, ScrollInStep
<1> HIDE DEF drawn
<1>12. QED
  BY <1>3, <1>11, WithScrollerInStep, BecomesInStep

\* And a new size sets it there.
LEMMA LayoutSynced ==
    ASSUME TInv, Layout
    PROVE  Synced'
<1>1. PICK d : Fine(d) /\ InStep(d.con, d.td) /\ Becomes(RenderRedraw(d))
  BY LayoutDraws
<1>2. QED
  BY <1>1, RedrawInStep, BecomesInStep

LEMMA SystemSynced ==
    ASSUME TInv, Synced, System
    PROVE  Synced'
<1>0. td \in Gadgets /\ Within(td.sb)
  BY DEF TInv, GInv
<1>1. CASE DragScroller
  <2>1. PICK t \in 0..(td.sb.total - td.sb.visible) : SBTop(t, TRUE)
    BY <1>1 DEF DragScroller
  <2>2. t \in Int
    BY <1>0 DEF Within, Scrollers
  <2>3. QED
    BY <2>1, <2>2, SBTopSynced
<1>2. CASE TurnWheel
  <2>1. PICK n \in Wheel : SBTop(td.sb.top + n, FALSE) \/ SBTop(td.sb.top - n, FALSE)
    BY <1>2 DEF TurnWheel
  <2>2. td.sb.top + n \in Int /\ td.sb.top - n \in Int
    BY <1>0, GadgetAssumption DEF Within, Scrollers
  <2>3. QED
    BY <2>1, <2>2, SBTopSynced
<1>3. CASE Layout
  BY <1>3, LayoutSynced
<1>4. QED
  BY <1>1, <1>2, <1>3 DEF System

LEMMA DrawnInStep ==
    ASSUME NEW d, Fine(d), open
    PROVE  LET r == DoRender(IF open THEN WithScroller(d) ELSE d)
           IN  InStep(r.con, r.td)
BY WithScrollerFine, WithScrollerInStep, RedrawInStep DEF DoRender

\* Of the program's calls only output and a key set the scroller and the view apart, and
\* any while there is no window.
LEMMA ProgramSynced ==
    ASSUME TInv, Synced, Program, open
    PROVE  Synced' \/ Key \/ Write
<1>0. /\ Sound(con) /\ td \in Gadgets /\ Within(td.sb)
      /\ Fitting(Display) /\ Filled(Display) /\ td.sb = ScrollerOf(con)
  BY DEF TInv, GInv, Synced
<1>d. Fine(Display)
  BY <1>0, DisplayFine
<1>1. CASE Refresh
  BY <1>d, <1>1, DrawnInStep, BecomesInStep DEF Refresh
<1>2. CASE ClearSb
  <2>1. Fine([Display EXCEPT !.con = SbCleared(IncAge(con))])
    BY <1>0, IncAgeSound, SbClearedSound, DisplayFine
  <2>2. QED
    BY <1>2, <2>1, DrawnInStep, BecomesInStep DEF ClearSb
<1>3. CASE SetMaxSb
  <2>1. PICK max \in Maxima :
          LET c == AllAged([IncAge(con) EXCEPT !.sb = SB!Limited(@, max)])
              d == [con |-> c, td |-> [td EXCEPT !.maxsb = max], shown |-> shown]
          IN  Becomes(WithScroller(DoRender(d)))
    BY <1>3 DEF SetMaxSb
  <2> DEFINE c == AllAged([IncAge(con) EXCEPT !.sb = SB!Limited(@, max)])
             t == [td EXCEPT !.maxsb = max]
             d == [con |-> c, td |-> t, shown |-> shown]
  <2>2. Becomes(WithScroller(DoRender(d)))
    BY <2>1
  <2>3. max \in Nat
    BY GadgetAssumption
  <2>4. Sound(c)
    BY <1>0, <2>3, LimitedSound
  <2>5. t \in Gadgets /\ Within(t.sb)
    BY <1>0, <2>3 DEF Gadgets, Within
  <2>6. Fine(d)
    <3> HIDE DEF c, t
    <3>1. QED
      BY <1>0, <2>4, <2>5, DisplayFine
  <2> HIDE DEF d
  <2>7. QED
    BY <2>2, <2>6, DrawnFine, WithScrollerInStep, BecomesInStep
<1>4. CASE Blink
  <2> DEFINE t == [td EXCEPT !.blinkstate = ~@]
             d == [con |-> Blinked(con), td |-> t, shown |-> shown]
  <2>1. Becomes(IF Blinking(con) = {} THEN d ELSE DoRender(d))
    BY <1>4 DEF Blink
  <2>2. t \in Gadgets /\ Within(t.sb) /\ t.sb = td.sb
    BY <1>0 DEF Gadgets, Within
  <2>3. Sound(Blinked(con)) /\ ScrollerOf(Blinked(con)) = ScrollerOf(con)
    <3>1. Sound(Blinked(con)) /\ Alike(con, Blinked(con))
      BY <1>0, BlinkedSound, BlinkedAlike
    <3> DEFINE b == IncAge(con)
    <3>2. Sound(b) /\ b.alternate = con.alternate /\ b.sb = con.sb
      BY <1>0, IncAgeSound
    <3> HIDE DEF b
    <3>3. \/ Blinked(con) = con
          \/ /\ Blinked(con).alternate = con.alternate
             /\ Blinked(con).sb.top = con.sb.top
             /\ DOMAIN Blinked(con).sb.lines = DOMAIN con.sb.lines
      BY <3>2 DEF Blinked, b, Sound, Screens
    <3>4. Blinked(con).sb.lines \in Seq(Line) /\ con.sb.lines \in Seq(Line)
      BY <1>0, <3>1, SoundFields, ScrollableFields
    <3>5. Len(Blinked(con).sb.lines) = Len(con.sb.lines)
      BY <3>3, <3>4
    <3>6. QED
      BY <3>1, <3>3, <3>5 DEF ScrollerOf, Alike
  <2>4. Fine(d) /\ InStep(d.con, d.td)
    <3> HIDE DEF t
    <3>1. Fine(d)
      BY <1>0, <2>2, <2>3, DisplayFine
    <3>2. QED
      BY <1>0, <2>2, <2>3, <3>1 DEF InStep
  <2> HIDE DEF d
  <2>5. QED
    BY <2>1, <2>4, RedrawInStep, BecomesInStep DEF DoRender
<1>5. CASE Iconify
  BY <1>5 DEF Iconify, Synced, ScrollerOf, Size
<1>6. ~Uniconify
  BY DEF Uniconify
<1>7. QED
  BY <1>1, <1>2, <1>3, <1>4, <1>5, <1>6 DEF Program

\* The scroller and the view part only by output that has yet to be refreshed, by a
\* key, or while there is no window: for every height, limit and turn of the wheel.
THEOREM ScrollerKeepsUp == Spec => ScrollerFollows
<1> DEFINE Follows == Synced /\ ~Synced' => ~open \/ (reading' /\ ~System) \/ Key
<1>1. ASSUME TInv, [Next]_vars
      PROVE  Follows
  <2>1. SUFFICES ASSUME Synced, ~Synced', open, ~Key
                 PROVE  reading' /\ ~System
    BY DEF TInv
  <2>2. CASE Next
    <3>1. ~System
      BY <1>1, <2>1, SystemSynced
    <3>2. Program
      BY <2>2, <3>1 DEF Next
    <3>3. Write
      BY <1>1, <2>1, <3>2, ProgramSynced
    <3>4. QED
      BY <3>1, <3>3 DEF Write
  <2>3. CASE UNCHANGED vars
    BY <2>1, <2>3 DEF vars, Synced, ScrollerOf, Size
  <2>4. QED
    BY <1>1, <2>2, <2>3
<1>2. ASSUME TInv, [Next]_vars
      PROVE  [Follows]_vars
  BY <1>1, <1>2
<1> HIDE DEF Follows
<1>3. TInv /\ [Next]_vars => [Follows]_vars
  BY <1>2
<1>4. Spec => [][Follows]_vars
  BY <1>3, TInvInit, TInvNext, PTL DEF Spec
<1>5. QED
  BY <1>4 DEF Follows, ScrollerFollows

-----------------------------------------------------------------------------
(* Ages. *)

\* The gadget is not ahead of the counter, unless that has wrapped; and is behind it.
Current(c, t) == c.age_reset \/ t.age <= c.age_cnt
Fresh(c, t) == c.age_reset \/ t.age < c.age_cnt

\* Each row is right or due.
RightOn(c, t, shows) ==
    \A i \in 1..Size(c) : shows[i] = Look(Visible(c, i), t.blinkstate) \/ Due(c, t, i)

LEMMA AgesAreNumbers == Ages \subseteq Nat
BY GadgetAssumption DEF Ages

LEMMA VisibleIsLine ==
    ASSUME NEW c, Sound(c), NEW i \in 1..Size(c)
    PROVE  Visible(c, i) \in Line /\ Visible(c, i).age \in Nat
<1>1. /\ c.rows \in Seq(Line) /\ Size(c) \in Nat /\ c.sb.lines \in Seq(Line)
      /\ Len(c.sb.lines) \in Nat /\ c.sb.top \in Nat /\ c.sb.top <= Len(c.sb.lines)
  BY SoundFields, ScrollableFields
<1>2. ASSUME c.sb.top + i <= Len(c.sb.lines)
      PROVE  Visible(c, i) \in Line
  <2>1. Visible(c, i) = c.sb.lines[c.sb.top + i]
    BY <1>2 DEF Visible
  <2>2. c.sb.top + i \in 1..Len(c.sb.lines)
    BY <1>1, <1>2
  <2>3. QED
    BY <1>1, <2>1, <2>2
<1>3. ASSUME ~(c.sb.top + i <= Len(c.sb.lines))
      PROVE  Visible(c, i) \in Line
  <2> DEFINE k == (c.sb.top + i) - Len(c.sb.lines)
  <2>1. Visible(c, i) = c.rows[k]
    BY <1>1, <1>3 DEF Visible
  <2>2. k \in 1..Len(c.rows)
    BY <1>1, <1>3 DEF Size
  <2> HIDE DEF k
  <2>3. QED
    BY <1>1, <2>1, <2>2
<1>4. Visible(c, i) \in Line
  BY <1>2, <1>3
<1>5. QED
  BY <1>4, AgesAreNumbers DEF Line

\* The counter goes on, or wraps, which makes every row due.
LEMMA IncAgeFresh ==
    ASSUME NEW c, Sound(c), NEW t \in Gadgets, Current(c, t)
    PROVE  /\ Fresh(IncAge(c), t) /\ IncAge(c).age = c.age
           /\ c.age_reset => IncAge(c).age_reset
<1>1. c.age_cnt \in Nat /\ t.age \in Nat
  BY DEF Sound, Screens, Gadgets, Ages
<1>2. CASE c.age_cnt + 1 = AgeMod
  BY <1>2 DEF IncAge, Fresh, Sound, Screens
<1>3. CASE c.age_cnt + 1 # AgeMod
  <2>1. /\ IncAge(c).age_cnt = c.age_cnt + 1 /\ IncAge(c).age_reset = c.age_reset
        /\ IncAge(c).age = c.age
    BY <1>3 DEF IncAge, Sound, Screens
  <2>2. QED
    BY <1>1, <2>1 DEF Fresh, Current
<1>4. QED
  BY <1>2, <1>3

\* con->age = con->age_cnt
Renewed(c, e) == e.age = c.age_cnt /\ e.age_cnt = c.age_cnt /\ e.age_reset = c.age_reset

LEMMA RenewedIsDue ==
    ASSUME NEW c, Sound(c), NEW t \in Gadgets, Fresh(c, t), NEW e, Sound(e), Renewed(c, e)
    PROVE  /\ Current(e, t)
           /\ \A i \in 1..Size(e) : Due(e, t, i)
<1>1. c.age_cnt \in Nat /\ t.age \in Nat
  BY DEF Sound, Screens, Gadgets, Ages
<1>2. Current(e, t)
  BY <1>1 DEF Fresh, Current, Renewed
<1>3. ASSUME NEW i \in 1..Size(e)
      PROVE  Due(e, t, i)
  <2>1. Visible(e, i).age \in Nat
    BY VisibleIsLine
  <2>2. CASE e.age_reset
    BY <2>2 DEF Due, AgeOf
  <2>3. CASE ~e.age_reset
    <3>1. t.age < e.age /\ e.age \in Nat
      BY <1>1, <2>3 DEF Fresh, Renewed
    <3>2. AgeOf(e, i) = Greatest(Visible(e, i).age, e.age)
      BY <2>3 DEF AgeOf
    <3>3. AgeOf(e, i) > t.age
      BY <1>1, <2>1, <3>1, <3>2 DEF Greatest
    <3>4. QED
      BY <3>3 DEF Due
  <2>4. QED
    BY <2>2, <2>3
<1>4. QED
  BY <1>2, <1>3

LEMMA ScrolledUpRenewed ==
    ASSUME NEW c, Sound(c), NEW num \in 1..Size(c)
    PROVE  Renewed(c, ScrolledUp(c, num))
BY DEF Renewed, ScrolledUp, AllAged, Sound, Screens

LEMMA SwitchedRenewed ==
    ASSUME NEW c, Sound(c), NEW text
    PROVE  Renewed(c, Switched(c, text))
BY DEF Renewed, Switched, AllAged, Sound, Screens

LEMMA SbClearedRenewed ==
    ASSUME NEW c, Sound(c)
    PROVE  Renewed(c, SbCleared(c))
BY DEF Renewed, SbCleared, AllAged, Sound, Screens

LEMMA OtherScrollbackRenewed ==
    ASSUME NEW c, Sound(c), NEW s
    PROVE  Renewed(c, AllAged([c EXCEPT !.sb = s]))
BY DEF Renewed, AllAged, Sound, Screens

\* A row that has changed is due, and one that was due still is.
LEMMA WrittenRight ==
    ASSUME NEW c, Sound(c), NEW t \in Gadgets, Fresh(c, t), NEW shows, RightOn(c, t, shows),
           NEW k \in 1..Size(c)
    PROVE  Current(Written(c, k), t) /\ RightOn(Written(c, k), t, shows)
<1> DEFINE e == Written(c, k)
           line == [text |-> Other(c.rows[k].text), age |-> c.age_cnt]
<1>1. c.age_cnt \in Nat /\ t.age \in Nat /\ c.age \in Nat
  BY DEF Sound, Screens, Gadgets, Ages
<1>2. /\ e.age_cnt = c.age_cnt /\ e.age_reset = c.age_reset /\ e.age = c.age /\ e.sb = c.sb
      /\ e.rows = [c.rows EXCEPT ![k] = line]
  BY DEF Written, Sound, Screens
<1>3. Size(e) = Size(c) /\ Sound(e)
  BY WrittenAlike, WrittenSound DEF Alike
<1>a. line.age = c.age_cnt
  OBVIOUS
<1> HIDE DEF e, line
<1>4. Current(e, t)
  BY <1>1, <1>2 DEF Current, Fresh
<1>5. ASSUME NEW i \in 1..Size(c)
      PROVE  \/ Visible(e, i) = Visible(c, i)
             \/ Visible(e, i) = line
  <2>1. /\ c.rows \in Seq(Line) /\ Size(c) \in Nat /\ c.sb.lines \in Seq(Line)
        /\ Len(c.sb.lines) \in Nat /\ c.sb.top \in Nat /\ c.sb.top <= Len(c.sb.lines)
    BY SoundFields, ScrollableFields
  <2>2. c.sb.top + i <= Len(c.sb.lines)
        \/ c.sb.top + i - Len(c.sb.lines) \in 1..Len(c.rows)
    <3>1. i \in 1..Len(c.rows) /\ Len(c.rows) \in Nat
      BY <2>1 DEF Size
    <3>2. ASSUME NEW top \in Nat, NEW depth \in Nat, NEW size \in Nat, NEW j \in 1..size,
                 top <= depth
          PROVE  top + j <= depth \/ top + j - depth \in 1..size
      BY <3>2
    <3>3. QED
      BY <2>1, <3>1, <3>2
  <2>3. DOMAIN c.rows = 1..Len(c.rows)
    BY <2>1
  <2>4. QED
    BY <1>2, <2>2, <2>3 DEF Visible
<1>6. ASSUME NEW i \in 1..Size(c)
      PROVE  shows[i] = Look(Visible(e, i), t.blinkstate) \/ Due(e, t, i)
  <2>1. CASE c.age_reset
    BY <1>2, <2>1 DEF Due, AgeOf
  <2>2. CASE ~c.age_reset /\ Visible(e, i) = Visible(c, i)
    <3>1. shows[i] = Look(Visible(c, i), t.blinkstate) \/ Due(c, t, i)
      BY DEF RightOn
    <3>2. AgeOf(e, i) = AgeOf(c, i)
      BY <1>2, <2>2 DEF AgeOf
    <3>3. QED
      BY <2>2, <3>1, <3>2 DEF Due
  <2>3. CASE ~c.age_reset /\ Visible(e, i) = line
    <3>1. t.age < c.age_cnt
      BY <2>3 DEF Fresh
    <3>2. AgeOf(e, i) = Greatest(c.age_cnt, c.age)
      BY <1>2, <1>a, <2>3 DEF AgeOf
    <3>3. AgeOf(e, i) > t.age
      BY <1>1, <3>1, <3>2 DEF Greatest
    <3>4. QED
      BY <3>3 DEF Due
  <2>4. QED
    BY <1>5, <2>1, <2>2, <2>3
<1>7. QED
  BY <1>3, <1>4, <1>6 DEF RightOn, e

LEMMA WrittenCurrent ==
    ASSUME NEW c, Sound(c), NEW t \in Gadgets, Fresh(c, t), NEW k \in 1..Size(c)
    PROVE  Current(Written(c, k), t)
<1>1. c.age_cnt \in Nat /\ t.age \in Nat
  BY AgesAreNumbers DEF Sound, Screens, Gadgets
<1>2. Written(c, k).age_cnt = c.age_cnt /\ Written(c, k).age_reset = c.age_reset
  BY DEF Written, Sound, Screens
<1>3. QED
  BY <1>1, <1>2 DEF Current, Fresh

\* The counter alone changes nothing.
LEMMA IncAgeRight ==
    ASSUME NEW c, Sound(c), NEW t \in Gadgets, Current(c, t),
           NEW shows, RightOn(c, t, shows)
    PROVE  RightOn(IncAge(c), t, shows)
<1> DEFINE b == IncAge(c)
<1>1. b.sb = c.sb /\ b.rows = c.rows /\ b.age = c.age /\ (c.age_reset => b.age_reset)
  BY IncAgeSound, IncAgeFresh
<1> HIDE DEF b
<1>2. Size(b) = Size(c) /\ \A i : Visible(b, i) = Visible(c, i)
  BY <1>1 DEF Size, Visible
<1>3. \A i : AgeOf(b, i) = 0 \/ AgeOf(b, i) = AgeOf(c, i)
  BY <1>1, <1>2 DEF AgeOf
<1>4. \A i : Due(c, t, i) => Due(b, t, i)
  BY <1>3 DEF Due
<1>5. QED
  BY <1>2, <1>4 DEF RightOn, b

\* A blink makes the lines that blink look different, and due.
LEMMA BlinkedRight ==
    ASSUME NEW c, Sound(c), NEW t \in Gadgets, Current(c, t)
    PROVE  LET u == [t EXCEPT !.blinkstate = ~@]
           IN  /\ Current(Blinked(c), u)
               /\ \A shows : RightOn(c, t, shows) => RightOn(Blinked(c), u, shows)
<1> DEFINE u == [t EXCEPT !.blinkstate = ~@]
           e == Blinked(c)
           b == IncAge(c)
<1>1. u.age = t.age /\ t.age \in Nat
  BY AgesAreNumbers DEF Gadgets
<1> HIDE DEF u
<1>2. CASE Blinking(c) = {}
  <2>1. e = c
    BY <1>2 DEF Blinked
  <2>2. \A i \in 1..Size(c) : Visible(c, i).text = "plain"
    <3>1. \A i \in 1..Size(c) : Visible(c, i).text \in {"plain", "blink"}
      BY VisibleIsLine DEF Line, Texts
    <3>2. QED
      BY <1>2, <3>1 DEF Blinking
  <2>3. \A i \in 1..Size(c) :
           Look(Visible(c, i), u.blinkstate) = Look(Visible(c, i), t.blinkstate)
    BY <2>2 DEF Look
  <2>4. \A i : Due(c, u, i) <=> Due(c, t, i)
    BY <1>1 DEF Due
  <2>5. Current(c, u)
    BY <1>1 DEF Current
  <2> HIDE DEF e
  <2>6. QED
    BY <2>1, <2>3, <2>4, <2>5 DEF RightOn, e, u
<1>3. CASE Blinking(c) # {}
  <2>1. /\ Sound(b) /\ b.sb = c.sb /\ b.rows = c.rows /\ b.age = c.age
        /\ Fresh(b, t) /\ (c.age_reset => b.age_reset) /\ b.age_cnt \in Nat
        /\ Size(b) = Size(c)
    BY IncAgeSound, IncAgeFresh, SoundFields, AgesAreNumbers DEF Size
  <2> HIDE DEF b
  <2> DEFINE Aged(line) == IF line.text = "blink" THEN [line EXCEPT !.age = b.age_cnt] ELSE line
  <2>2. /\ e.age_cnt = b.age_cnt /\ e.age_reset = b.age_reset /\ e.age = b.age
        /\ e.sb.top = c.sb.top /\ Len(e.sb.lines) = Len(c.sb.lines)
        /\ \A n \in DOMAIN c.sb.lines :
              e.sb.lines[n] = IF n \in (c.sb.top + 1)..(c.sb.top + Size(c))
                              THEN Aged(c.sb.lines[n]) ELSE c.sb.lines[n]
        /\ \A k \in DOMAIN c.rows :
              e.rows[k] = IF k + Len(c.sb.lines) <= c.sb.top + Size(c)
                          THEN Aged(c.rows[k]) ELSE c.rows[k]
    <3> DEFINE lines == [n \in DOMAIN b.sb.lines |->
                            IF n \in (b.sb.top + 1)..(b.sb.top + Size(b))
                            THEN Aged(b.sb.lines[n]) ELSE b.sb.lines[n]]
               rows == [k \in DOMAIN b.rows |->
                            IF k + Len(b.sb.lines) <= b.sb.top + Size(b)
                            THEN Aged(b.rows[k]) ELSE b.rows[k]]
    <3>1. e = [b EXCEPT !.sb = [b.sb EXCEPT !.lines = lines], !.rows = rows]
      BY <1>3, <2>1 DEF Blinked, b, Sound, Screens, Scrollable
    <3>2. DOMAIN lines = DOMAIN c.sb.lines /\ DOMAIN rows = DOMAIN c.rows
      BY <2>1
    <3> HIDE DEF lines, rows, e
    <3>3. /\ e.age_cnt = b.age_cnt /\ e.age_reset = b.age_reset /\ e.age = b.age
          /\ e.sb.top = c.sb.top /\ e.sb.lines = lines /\ e.rows = rows
      BY <2>1, <3>1 DEF Sound, Screens, Scrollable
    <3>4. e.sb.lines \in Seq(Line) /\ c.sb.lines \in Seq(Line)
      BY BlinkedSound, SoundFields, ScrollableFields DEF e
    <3>5. Len(e.sb.lines) = Len(c.sb.lines)
      BY <3>2, <3>3, <3>4
    <3> HIDE DEF Aged
    <3>6. \A n \in DOMAIN c.sb.lines :
              e.sb.lines[n] = IF n \in (c.sb.top + 1)..(c.sb.top + Size(c))
                              THEN Aged(c.sb.lines[n]) ELSE c.sb.lines[n]
      BY <2>1, <3>3 DEF lines
    <3>7. \A k \in DOMAIN c.rows :
              e.rows[k] = IF k + Len(c.sb.lines) <= c.sb.top + Size(c)
                          THEN Aged(c.rows[k]) ELSE c.rows[k]
      BY <2>1, <3>3 DEF rows
    <3>8. QED
      BY <3>3, <3>5, <3>6, <3>7
  <2>3. Size(e) = Size(c)
    BY BlinkedAlike DEF Alike
  <2> HIDE DEF e, Aged
  <2>4. ASSUME NEW i \in 1..Size(c)
        PROVE  Visible(e, i) = Aged(Visible(c, i))
    <3>1. /\ c.rows \in Seq(Line) /\ Size(c) \in Nat /\ c.sb.lines \in Seq(Line)
          /\ Len(c.sb.lines) \in Nat /\ c.sb.top \in Nat /\ c.sb.top <= Len(c.sb.lines)
          /\ Len(c.rows) = Size(c)
      BY SoundFields, ScrollableFields DEF Size
    <3>2. CASE c.sb.top + i <= Len(c.sb.lines)
      <4> DEFINE n == c.sb.top + i
      <4>1. n \in (c.sb.top + 1)..(c.sb.top + Size(c)) /\ n \in DOMAIN c.sb.lines
        BY <3>1, <3>2
      <4>2. Visible(c, i) = c.sb.lines[n] /\ Visible(e, i) = e.sb.lines[n]
        BY <2>2, <3>2 DEF Visible
      <4> HIDE DEF n
      <4>3. QED
        BY <2>2, <4>1, <4>2
    <3>3. CASE ~(c.sb.top + i <= Len(c.sb.lines))
      <4> DEFINE k == (c.sb.top + i) - Len(c.sb.lines)
      <4>1. k \in DOMAIN c.rows /\ k + Len(c.sb.lines) <= c.sb.top + Size(c)
        BY <3>1, <3>3
      <4>a. e.sb.top = c.sb.top /\ Len(e.sb.lines) = Len(c.sb.lines)
        BY <2>2
      <4>b. e.sb.top + i = c.sb.top + i
            /\ (e.sb.top + i) - Len(e.sb.lines) = (c.sb.top + i) - Len(c.sb.lines)
        BY <4>a
      <4>c. ~(e.sb.top + i <= Len(e.sb.lines))
        BY <3>3, <4>a
      <4>d. Visible(e, i) = e.rows[(e.sb.top + i) - Len(e.sb.lines)]
        BY <4>c DEF Visible
      <4>e. Visible(c, i) = c.rows[k]
        BY <3>1, <3>3 DEF Visible
      <4>2. Visible(c, i) = c.rows[k] /\ Visible(e, i) = e.rows[k]
        BY <4>b, <4>d, <4>e
      <4> HIDE DEF k
      <4>3. QED
        BY <2>2, <4>1, <4>2
    <3>4. QED
      BY <3>2, <3>3
  <2>5. Current(e, u)
    BY <1>1, <2>1, <2>2 DEF Current, Fresh
  <2>6. ASSUME NEW shows, RightOn(c, t, shows), NEW i \in 1..Size(c)
        PROVE  shows[i] = Look(Visible(e, i), u.blinkstate) \/ Due(e, u, i)
    <3>1. Visible(c, i) \in Line /\ Visible(c, i).age \in Nat
      BY VisibleIsLine
    <3>2. CASE b.age_reset
      BY <2>2, <3>2 DEF Due, AgeOf
    <3>3. CASE ~b.age_reset /\ Visible(c, i).text = "blink"
      <4>1. Visible(e, i).age = b.age_cnt
        BY <2>4, <3>1, <3>3 DEF Aged, Line
      <4>2. t.age < b.age_cnt /\ e.age \in Nat
        BY <2>1, <2>2, <3>3, AgesAreNumbers DEF Fresh, Sound, Screens
      <4>3. AgeOf(e, i) > u.age
        BY <1>1, <2>1, <2>2, <3>3, <4>1, <4>2 DEF AgeOf, Greatest
      <4>4. QED
        BY <4>3 DEF Due
    <3>4. CASE ~b.age_reset /\ Visible(c, i).text # "blink"
      <4>1. Visible(e, i) = Visible(c, i) /\ Visible(c, i).text = "plain"
        BY <2>4, <3>1, <3>4 DEF Aged, Line, Texts
      <4>2. AgeOf(e, i) = AgeOf(c, i)
        BY <2>1, <2>2, <3>4, <4>1 DEF AgeOf
      <4>3. shows[i] = Look(Visible(c, i), t.blinkstate) \/ Due(c, t, i)
        BY <2>6 DEF RightOn
      <4>4. Look(Visible(c, i), t.blinkstate) = Look(Visible(e, i), u.blinkstate)
        BY <4>1 DEF Look
      <4>5. QED
        BY <1>1, <4>2, <4>3, <4>4 DEF Due
    <3>5. QED
      BY <3>2, <3>3, <3>4
  <2>7. QED
    BY <2>3, <2>5, <2>6 DEF RightOn, e, u
<1>4. QED
  BY <1>2, <1>3

\* What is drawn is right, and the gadget is as recent as the screen.
LEMMA RenderedRight ==
    ASSUME NEW d, Fine(d), NEW miny, NEW maxy
    PROVE  LET r == Rendered(d, miny, maxy)
               Drawn(i) == miny <= i - 1 /\ i - 1 <= maxy /\ Due(d.con, d.td, i)
           IN  /\ Current(r.con, r.td)
               /\ (\A i \in 1..Size(d.con) :
                      Drawn(i) \/ d.shown[i] = Look(Visible(d.con, i), d.td.blinkstate))
                     => RightOn(r.con, r.td, r.shown)
<1> DEFINE r == Rendered(d, miny, maxy)
           Drawn(i) == miny <= i - 1 /\ i - 1 <= maxy /\ Due(d.con, d.td, i)
           age == IF d.con.age_reset THEN 0 ELSE d.con.age_cnt
<1>1. /\ r.con = [d.con EXCEPT !.age_reset = FALSE]
      /\ r.td = [d.td EXCEPT !.age = age]
      /\ r.shown = [i \in 1..Size(d.con) |->
                       IF Drawn(i) THEN Look(Visible(d.con, i), d.td.blinkstate)
                       ELSE d.shown[i]]
  BY DEF Rendered
<1>2. d.con.age_cnt \in Nat /\ d.con \in Screens /\ d.td \in Gadgets
  BY AgesAreNumbers DEF Fine, Sound, Screens
<1>3. age \in Nat /\ age <= d.con.age_cnt
  BY <1>2
<1> HIDE DEF r, age, Drawn
<1>4. /\ r.con.age_cnt = d.con.age_cnt /\ r.con.sb = d.con.sb /\ r.con.rows = d.con.rows
      /\ r.td.age = age /\ r.td.blinkstate = d.td.blinkstate
  BY <1>1, <1>2 DEF Screens, Gadgets
<1>5. Current(r.con, r.td)
  BY <1>3, <1>4 DEF Current
<1>6. Size(r.con) = Size(d.con) /\ \A i : Visible(r.con, i) = Visible(d.con, i)
  BY <1>4 DEF Size, Visible
<1>7. ASSUME \A i \in 1..Size(d.con) :
                Drawn(i) \/ d.shown[i] = Look(Visible(d.con, i), d.td.blinkstate)
      PROVE  RightOn(r.con, r.td, r.shown)
  BY <1>1, <1>4, <1>6, <1>7 DEF RightOn
<1>8. QED
  BY <1>5, <1>7 DEF r, Drawn

LEMMA RenderUpdateRight ==
    ASSUME NEW d, Fine(d), Fitting(d)
    PROVE  LET r == RenderUpdate(d)
           IN  /\ Current(r.con, r.td)
               /\ RightOn(d.con, d.td, d.shown) => RightOn(r.con, r.td, r.shown)
<1>1. d.td.rows = Size(d.con) /\ Size(d.con) \in Nat
  BY SoundFields DEF Fine, Fitting
<1>2. \A i \in 1..Size(d.con) : 0 <= i - 1 /\ i - 1 <= d.td.rows - 1
  BY <1>1
<1>3. RightOn(d.con, d.td, d.shown) =>
        \A i \in 1..Size(d.con) :
            \/ 0 <= i - 1 /\ i - 1 <= d.td.rows - 1 /\ Due(d.con, d.td, i)
            \/ d.shown[i] = Look(Visible(d.con, i), d.td.blinkstate)
  BY <1>2 DEF RightOn
<1>4. QED
  BY <1>3, RenderedRight DEF RenderUpdate

LEMMA RenderRedrawRight ==
    ASSUME NEW d, Fine(d), Fitting(d)
    PROVE  LET r == RenderRedraw(d)
           IN  Current(r.con, r.td) /\ RightOn(r.con, r.td, r.shown)
<1> DEFINE blank == [i \in 1..Size(d.con) |-> "old"]
           t == [d.td EXCEPT !.age = 0]
           old == [con |-> d.con, td |-> t, shown |-> blank]
<1>1. t \in Gadgets /\ Within(t.sb) /\ t.rows = d.td.rows /\ t.maxsb = d.td.maxsb /\ t.age = 0
  BY ZeroIsAge DEF Fine, Gadgets, Within
<1> HIDE DEF blank, t
<1>2. Fine(old) /\ Fitting(old)
  BY <1>1 DEF Fine, Fitting
<1>3. ASSUME NEW i \in 1..Size(d.con)
      PROVE  Due(d.con, t, i)
  <2>1. Visible(d.con, i).age \in Nat /\ d.con.age \in Nat
    BY VisibleIsLine, AgesAreNumbers DEF Fine, Sound, Screens
  <2>2. AgeOf(d.con, i) \in Nat
    BY <2>1 DEF AgeOf, Greatest
  <2>3. QED
    BY <1>1, <2>2 DEF Due
<1>4. RightOn(old.con, old.td, old.shown)
  BY <1>3 DEF RightOn
<1>5. RenderRedraw(d) = RenderUpdate(old)
  BY DEF RenderRedraw, t, blank
<1> HIDE DEF old
<1>6. QED
  BY <1>2, <1>4, <1>5, RenderUpdateRight

LEMMA WithScrollerRight ==
    ASSUME NEW d, Fine(d)
    PROVE  LET r == WithScroller(d)
           IN  /\ Current(d.con, d.td) => Current(r.con, r.td)
               /\ RightOn(d.con, d.td, d.shown) => RightOn(r.con, r.td, r.shown)
<1> DEFINE s == ScrollerOf(d.con)
           r == WithScroller(d)
<1> HIDE DEF s
<1>1. r = [d EXCEPT !.td = [d.td EXCEPT !.sb = s]]
  BY DEF WithScroller, Fine, s
<1> HIDE DEF r
<1>2. r.con = d.con /\ r.shown = d.shown /\ r.td = [d.td EXCEPT !.sb = s]
  BY <1>1 DEF Fine
<1>3. r.td.age = d.td.age /\ r.td.blinkstate = d.td.blinkstate
  BY <1>2 DEF Fine, Gadgets
<1>4. Current(d.con, d.td) => Current(r.con, r.td)
  BY <1>2, <1>3 DEF Current
<1>5. \A i : Due(r.con, r.td, i) <=> Due(d.con, d.td, i)
  BY <1>2, <1>3 DEF Due
<1>6. QED
  BY <1>2, <1>3, <1>4, <1>5 DEF RightOn, r

LEMMA DrawnRight ==
    ASSUME NEW d, Fine(d), Fitting(d), Current(d.con, d.td)
    PROVE  /\ Current(DoRender(d).con, DoRender(d).td)
           /\ RightOn(d.con, d.td, d.shown) =>
                 RightOn(DoRender(d).con, DoRender(d).td, DoRender(d).shown)
<1>1. CASE open
  BY <1>1, RenderUpdateRight DEF DoRender
<1>2. CASE ~open
  BY <1>2 DEF DoRender
<1>3. QED
  BY <1>1, <1>2

\* The same with update_scroller first, if there is a window.
LEMMA ScrolledAndDrawnRight ==
    ASSUME NEW d, Fine(d), Fitting(d), Current(d.con, d.td)
    PROVE  LET r == DoRender(IF open THEN WithScroller(d) ELSE d)
           IN  /\ Current(r.con, r.td)
               /\ RightOn(d.con, d.td, d.shown) => RightOn(r.con, r.td, r.shown)
<1> DEFINE w == IF open THEN WithScroller(d) ELSE d
<1>1. Fine(w) /\ Fitting(w)
  BY WithScrollerFine, WithScrollerFits
<1>2. Current(w.con, w.td)
      /\ (RightOn(d.con, d.td, d.shown) => RightOn(w.con, w.td, w.shown))
  BY WithScrollerRight, SMTT(20)
<1> HIDE DEF w
<1>3. QED
  BY <1>1, <1>2, DrawnRight DEF w

LEMMA BecomesRight ==
    ASSUME NEW d, Becomes(d)
    PROVE  /\ Current(d.con, d.td) => Current(con, td)'
           /\ RightOn(d.con, d.td, d.shown) => Right'
BY DEF Becomes, Current, Right, RightOn, Due, AgeOf, Visible, Size, Greatest, Look

\* The invariant: the gadget is never ahead of the counter.
AInv == TInv /\ Current(con, td)

LEMMA AInvInit == Init => AInv
<1>1. Init => TInv
  BY TInvInit
<1>2. Init => td.age = con.age_cnt
  BY DEF Init
<1>3. TInv => con.age_cnt \in Nat
  BY AgesAreNumbers DEF TInv, GInv, Sound, Screens
<1>4. QED
  BY <1>1, <1>2, <1>3 DEF AInv, Current

LEMMA RenewedRight ==
    ASSUME NEW c, Sound(c), NEW t \in Gadgets, Current(c, t), NEW e, Sound(e),
           Renewed(IncAge(c), e)
    PROVE  Current(e, t) /\ \A shows : RightOn(e, t, shows)
<1>1. Sound(IncAge(c)) /\ Fresh(IncAge(c), t)
  BY IncAgeSound, IncAgeFresh
<1>2. QED
  BY <1>1, RenewedIsDue DEF RightOn

\* termwin_write
LEMMA WriteRight ==
    ASSUME AInv, Write
    PROVE  Current(con, td)' /\ (Right => Right')
<1> DEFINE b == IncAge(con)
<1>1. Sound(con) /\ td \in Gadgets /\ Current(con, td)
  BY DEF AInv, TInv, GInv
<1>2. Sound(b) /\ Fresh(b, td) /\ (Right => RightOn(b, td, shown))
  BY <1>1, IncAgeSound, IncAgeFresh, IncAgeRight DEF Right, RightOn
<1>3. con' \in Outputs /\ td' = td /\ shown' = shown
  BY DEF Write
<1>4. Sound(con')
  BY <1>1, <1>3, OutputsSound
<1> HIDE DEF b
<1>5. \/ \E i \in 1..Size(b) : con' = Written(b, i)
      \/ \E num \in 1..Size(b) : con' = ScrolledUp(b, num)
      \/ con' = SbCleared(b)
      \/ \E t \in Texts : con' = Switched(b, t)
  BY <1>2, <1>3, SoundFields DEF Outputs, b, Least
<1>6. Current(con', td) /\ (Right => RightOn(con', td, shown))
  <2>1. CASE \E i \in 1..Size(b) : con' = Written(b, i)
    BY <1>1, <1>2, <2>1, WrittenRight, WrittenCurrent
  <2>2. CASE Renewed(b, con')
    BY <1>1, <1>2, <1>4, <2>2, RenewedIsDue, SMTT(20) DEF RightOn
  <2>3. QED
    BY <1>2, <1>5, <2>1, <2>2, ScrolledUpRenewed, SbClearedRenewed, SwitchedRenewed
<1>7. QED
  BY <1>3, <1>6
  DEF Current, Right, RightOn, Due, AgeOf, Visible, Size, Greatest, Look

LEMMA KeyRight ==
    ASSUME AInv, Key
    PROVE  Current(con, td)' /\ (Right => Right')
<1>1. Sound(con) /\ td \in Gadgets /\ Current(con, td)
  BY DEF AInv, TInv, GInv
<1>2. con' = SbReset(con) /\ td' = td /\ shown' = shown
  BY DEF Key
<1>3. Sound(con')
  BY <1>1, <1>2, SbResetSound
<1>4. con' = con \/ Renewed(IncAge(con), con')
  <2> DEFINE b == IncAge(con)
             s == SB!Reset(b.sb)
  <2>1. Sound(b)
    BY <1>1, IncAgeSound
  <2> HIDE DEF b
  <2>2. con' = con \/ con' = AllAged([b EXCEPT !.sb = s])
    BY <1>2 DEF SbReset, b
  <2> HIDE DEF s
  <2>3. QED
    BY <2>1, <2>2, OtherScrollbackRenewed DEF b
<1>5. Current(con', td) /\ (Right => RightOn(con', td, shown))
  BY <1>1, <1>3, <1>4, RenewedRight DEF Right, RightOn
<1>6. QED
  BY <1>2, <1>5
  DEF Current, Right, RightOn, Due, AgeOf, Visible, Size, Greatest, Look

\* TERM_clearsb
LEMMA ClearSbRight ==
    ASSUME AInv, ClearSb
    PROVE  Current(con, td)' /\ (Right => Right')
<1> DEFINE c == SbCleared(IncAge(con))
           d == [con |-> c, td |-> td, shown |-> shown]
<1>0. /\ Sound(con) /\ td \in Gadgets /\ Within(td.sb) /\ Current(con, td)
      /\ Fitting(Display) /\ Filled(Display)
  BY DEF AInv, TInv, GInv
<1>1. Becomes(DoRender(IF open THEN WithScroller(d) ELSE d))
  BY DEF ClearSb, Display
<1>2. Sound(IncAge(con)) /\ Alike(con, IncAge(con))
  BY <1>0, IncAgeSound, AgedAlike
<1>3. Sound(c) /\ Alike(con, c) /\ Renewed(IncAge(con), c)
  BY <1>2, SbClearedSound, SbClearedAlike, SbClearedRenewed DEF Alike
<1> HIDE DEF c
<1>4. Fine(d) /\ Fitting(d)
  BY <1>0, <1>3, DisplayFine, DisplayFits
<1>5. Current(d.con, d.td) /\ RightOn(d.con, d.td, d.shown)
  BY <1>0, <1>3, RenewedRight
<1> HIDE DEF d
<1>6. QED
  BY <1>1, <1>4, <1>5, ScrolledAndDrawnRight, BecomesRight

\* TERM_set of TERM_MaxScrollback
LEMMA SetMaxSbRight ==
    ASSUME AInv, SetMaxSb
    PROVE  Current(con, td)' /\ (Right => Right')
<1>0. /\ Sound(con) /\ td \in Gadgets /\ Within(td.sb) /\ Current(con, td)
      /\ Fitting(Display) /\ Filled(Display)
  BY DEF AInv, TInv, GInv
<1>1. PICK max \in Maxima :
        LET c == AllAged([IncAge(con) EXCEPT !.sb = SB!Limited(@, max)])
            d == [con |-> c, td |-> [td EXCEPT !.maxsb = max], shown |-> shown]
        IN  Becomes(WithScroller(DoRender(d)))
  BY DEF SetMaxSb
<1> DEFINE c == AllAged([IncAge(con) EXCEPT !.sb = SB!Limited(@, max)])
           t == [td EXCEPT !.maxsb = max]
           d == [con |-> c, td |-> t, shown |-> shown]
<1>2. Becomes(WithScroller(DoRender(d)))
  BY <1>1
<1>3. max \in Nat
  BY GadgetAssumption
<1>4. Sound(c) /\ Size(c) = Size(con) /\ c.sb.max = max
  BY <1>0, <1>3, LimitedSound, LimitedAlike
<1>5. Renewed(IncAge(con), c)
  <2> DEFINE b == IncAge(con)
             s == SB!Limited(b.sb, max)
  <2>1. Sound(b)
    BY <1>0, IncAgeSound
  <2> HIDE DEF b
  <2>2. c = AllAged([b EXCEPT !.sb = s])
    BY <2>1 DEF b, Sound, Screens
  <2> HIDE DEF s, c
  <2>3. QED
    BY <2>1, <2>2, OtherScrollbackRenewed DEF b
<1> HIDE DEF c
<1>6. t \in Gadgets /\ Within(t.sb) /\ t.rows = td.rows /\ t.maxsb = max /\ t.age = td.age
  BY <1>0, <1>3 DEF Gadgets, Within
<1> HIDE DEF t
<1>7. Fine(d) /\ Fitting(d)
  <2>1. Fine(d)
    BY <1>0, <1>4, <1>6, DisplayFine
  <2>2. Fitting(d)
    BY <1>0, <1>4, <1>6 DEF Fitting, Display
  <2>3. QED
    BY <2>1, <2>2
<1>8. Current(con, t)
  BY <1>0, <1>6 DEF Current
<1>9. Current(d.con, d.td) /\ RightOn(d.con, d.td, d.shown)
  BY <1>0, <1>4, <1>5, <1>6, <1>8, RenewedRight
<1> HIDE DEF d
<1> DEFINE r == DoRender(d)
<1>10. Fine(r) /\ Current(r.con, r.td) /\ RightOn(r.con, r.td, r.shown)
  BY <1>7, <1>9, DrawnFine, DrawnRight
<1> HIDE DEF r
<1>11. QED
  BY <1>2, <1>10, WithScrollerRight, BecomesRight DEF r

LEMMA BlinkRight ==
    ASSUME AInv, Blink
    PROVE  Current(con, td)' /\ (Right => Right')
<1>0. /\ Sound(con) /\ td \in Gadgets /\ Within(td.sb) /\ Current(con, td)
      /\ Fitting(Display) /\ Filled(Display)
  BY DEF AInv, TInv, GInv
<1> DEFINE t == [td EXCEPT !.blinkstate = ~@]
           d == [con |-> Blinked(con), td |-> t, shown |-> shown]
<1>1. Becomes(IF Blinking(con) = {} THEN d ELSE DoRender(d))
  BY DEF Blink
<1>2. t \in Gadgets /\ Within(t.sb) /\ t.rows = td.rows /\ t.maxsb = td.maxsb
  BY <1>0 DEF Gadgets, Within
<1>3. Sound(Blinked(con)) /\ Alike(con, Blinked(con))
  BY <1>0, BlinkedSound, BlinkedAlike
<1>4. Current(Blinked(con), t) /\ (Right => RightOn(Blinked(con), t, shown))
  BY <1>0, BlinkedRight DEF Right, RightOn
<1> HIDE DEF t
<1>5. Fine(d) /\ Fitting(d)
  <2>1. Fine(d)
    BY <1>0, <1>2, <1>3, DisplayFine
  <2>2. Fitting(d)
    BY <1>0, <1>2, <1>3 DEF Fitting, Display, Alike
  <2>3. QED
    BY <2>1, <2>2
<1>6. Current(d.con, d.td) /\ (Right => RightOn(d.con, d.td, d.shown))
  BY <1>4
<1> HIDE DEF d
<1>7. QED
  BY <1>1, <1>5, <1>6, DrawnRight, BecomesRight

LEMMA RefreshRight ==
    ASSUME AInv, Refresh
    PROVE  Current(con, td)' /\ (Right => Right')
<1>0. /\ Sound(con) /\ td \in Gadgets /\ Within(td.sb) /\ Current(con, td)
      /\ Fitting(Display) /\ Filled(Display)
  BY DEF AInv, TInv, GInv
<1> DEFINE d == Display
<1>1. Becomes(DoRender(IF open THEN WithScroller(d) ELSE d))
  BY DEF Refresh
<1>2. Fine(d) /\ Fitting(d)
  BY <1>0, DisplayFine
<1>3. Current(d.con, d.td) /\ (Right => RightOn(d.con, d.td, d.shown))
  BY <1>0 DEF Display, Right, RightOn
<1> HIDE DEF d
<1>4. QED
  BY <1>1, <1>2, <1>3, ScrolledAndDrawnRight, BecomesRight

LEMMA UniconifyRight ==
    ASSUME AInv, Uniconify
    PROVE  Current(con, td)' /\ Right'
<1>1. Sound(con) /\ td \in Gadgets /\ Within(td.sb) /\ Fitting(Display)
  BY DEF AInv, TInv, GInv
<1>2. Fine(Display)
  BY <1>1, DisplayFine
<1>3. QED
  BY <1>1, <1>2, RenderRedrawRight, BecomesRight DEF Uniconify

LEMMA LayoutRight ==
    ASSUME AInv, Layout
    PROVE  Current(con, td)' /\ Right'
<1>1. PICK d : Fine(d) /\ Fitting(d) /\ Becomes(RenderRedraw(d))
  BY LayoutDraws DEF AInv
<1>2. QED
  BY <1>1, RenderRedrawRight, BecomesRight

\* However the window is scrolled, the gadget is as recent as the screen afterwards.
LEMMA RenderScrollCurrent ==
    ASSUME NEW d, Fine(d), NEW delta
    PROVE  Current(RenderScroll(d, delta).con, RenderScroll(d, delta).td)
<1> DEFINE raster == [i \in 1..Size(d.con) |->
                         IF i + delta \in 1..Size(d.con) THEN d.shown[i + delta]
                         ELSE d.shown[i]]
           scrolled == [d EXCEPT !.shown = raster]
<1>1. Fine(scrolled)
  <2> HIDE DEF raster
  <2>1. QED
    BY DEF Fine
<1> HIDE DEF scrolled
<1>2. QED
  BY <1>1, RenderedRight DEF RenderScroll, scrolled

\* Scrolling by less than the height moves what is shown as far as the view moves, and
\* draws what comes in: everything is right when everything was.
LEMMA RenderScrollRight ==
    ASSUME NEW d, Fine(d), Fitting(d), NEW delta \in Int,
           \A i \in 1..Size(d.con) : Due(d.con, d.td, i),
           \A i \in 1..Size(d.con) :
              i + delta \in 1..Size(d.con) =>
                 d.shown[i + delta] = Look(Visible(d.con, i), d.td.blinkstate)
    PROVE  LET r == RenderScroll(d, delta) IN RightOn(r.con, r.td, r.shown)
<1> DEFINE raster == [i \in 1..Size(d.con) |->
                         IF i + delta \in 1..Size(d.con) THEN d.shown[i + delta]
                         ELSE d.shown[i]]
           scrolled == [d EXCEPT !.shown = raster]
<1>1. /\ Fine(scrolled) /\ scrolled.con = d.con /\ scrolled.td = d.td
      /\ scrolled.shown = raster
  <2> HIDE DEF raster
  <2>1. QED
    BY DEF Fine
<1>2. d.td.rows = Size(d.con) /\ Size(d.con) \in Nat
  BY SoundFields DEF Fine, Fitting
<1>3. ASSUME NEW i \in 1..Size(d.con), i + delta \in 1..Size(d.con)
      PROVE  raster[i] = Look(Visible(d.con, i), d.td.blinkstate)
  BY <1>3
<1> HIDE DEF raster
<1> HIDE DEF scrolled
<1>4. CASE delta < 0
  <2>1. ASSUME NEW i \in 1..Size(d.con)
        PROVE  \/ 0 <= i - 1 /\ i - 1 <= 1 - delta
               \/ i + delta \in 1..Size(d.con)
    BY <1>2, <1>4
  <2>2. \A i \in 1..Size(scrolled.con) :
           \/ 0 <= i - 1 /\ i - 1 <= 1 - delta /\ Due(scrolled.con, scrolled.td, i)
           \/ scrolled.shown[i] = Look(Visible(scrolled.con, i), scrolled.td.blinkstate)
    BY <1>1, <1>3, <2>1
  <2>3. RenderScroll(d, delta) = Rendered(scrolled, 0, 1 - delta)
    BY <1>4 DEF RenderScroll, scrolled, raster
  <2>4. QED
    BY <1>1, <2>2, <2>3, RenderedRight
<1>5. CASE ~(delta < 0)
  <2>1. ASSUME NEW i \in 1..Size(d.con)
        PROVE  \/ d.td.rows - delta <= i - 1 /\ i - 1 <= d.td.rows - 1
               \/ i + delta \in 1..Size(d.con)
    BY <1>2, <1>5
  <2>2. \A i \in 1..Size(scrolled.con) :
           \/ /\ d.td.rows - delta <= i - 1 /\ i - 1 <= d.td.rows - 1
              /\ Due(scrolled.con, scrolled.td, i)
           \/ scrolled.shown[i] = Look(Visible(scrolled.con, i), scrolled.td.blinkstate)
    BY <1>1, <1>3, <2>1
  <2>3. RenderScroll(d, delta) = Rendered(scrolled, d.td.rows - delta, d.td.rows - 1)
    BY <1>5 DEF RenderScroll, scrolled, raster
  <2>4. QED
    BY <1>1, <2>2, <2>3, RenderedRight
<1>6. QED
  BY <1>4, <1>5

LEMMA SBTopRight ==
    ASSUME AInv, NEW t \in Int, NEW update \in BOOLEAN, SBTop(t, update)
    PROVE  Current(con, td)' /\ (Right /\ Settled => Right')
<1> DEFINE top == Least(Greatest(t, 0), td.sb.total - td.sb.visible)
           delta == top - td.sb.top
           moved == [td EXCEPT !.sb = [td.sb EXCEPT !.top = top]]
           d == [con |-> SbMoved(con, delta), td |-> moved, shown |-> shown]
           drawn == IF Abs(delta) >= td.rows THEN RenderUpdate(d) ELSE RenderScroll(d, delta)
<1>1. /\ Sound(con) /\ td \in Gadgets /\ Within(td.sb) /\ Fitting(Display)
      /\ Current(con, td)
  BY DEF AInv, TInv, GInv
<1>2. top \in Nat /\ top <= td.sb.total - td.sb.visible /\ delta \in Int /\ td.sb.top \in Nat
  BY <1>1 DEF Within, Scrollers, Least, Greatest
<1>3. delta # 0 /\ Becomes(IF update THEN drawn ELSE WithScroller(drawn))
  BY <1>1 DEF SBTop, Gadgets
<1>4. Settled => ~con.alternate /\ td.sb.top = con.sb.top /\ top \in 0..Len(con.sb.lines)
  <2>1. top # td.sb.top
    BY <1>2, <1>3
  <2>2. QED
    BY <1>1, <2>1, ClampedTop DEF Settled, Synced
<1> HIDE DEF top
<1>5. /\ moved \in Gadgets /\ Within(moved.sb) /\ moved.rows = td.rows
      /\ moved.maxsb = td.maxsb /\ moved.age = td.age /\ moved.blinkstate = td.blinkstate
  BY <1>1, <1>2 DEF Gadgets, Within, Scrollers
<1> HIDE DEF moved
<1> DEFINE c == SbMoved(con, delta)
<1>6. Sound(c) /\ Alike(con, c)
  BY <1>1, <1>2, SbMovedSound, SbMovedAlike
<1>7. Renewed(IncAge(con), c)
  <2> DEFINE b == IncAge(con)
             s == IF delta < 0 THEN SB!Up(b.sb, -delta) ELSE SB!Down(b.sb, delta)
  <2> HIDE DEF delta
  <2>1. Sound(b)
    BY <1>1, IncAgeSound
  <2> HIDE DEF b
  <2>2. c = AllAged([b EXCEPT !.sb = s])
    BY <1>3, <2>1 DEF SbMoved, b, Sound, Screens
  <2> HIDE DEF s, c
  <2>3. QED
    BY <2>1, <2>2, OtherScrollbackRenewed DEF b
<1>8. Settled => /\ c.sb.top = con.sb.top + delta /\ c.sb.lines = con.sb.lines
                 /\ c.rows = con.rows
  <2> HIDE DEF delta
  <2>1. SUFFICES ASSUME Settled
                 PROVE  /\ c.sb.top = con.sb.top + delta /\ c.sb.lines = con.sb.lines
                        /\ c.rows = con.rows
    OBVIOUS
  <2>2. Len(con.sb.lines) \in Nat /\ con.sb.top \in Nat
    BY <1>1, SoundFields, ScrollableFields
  <2>3. con.sb.top + delta = top
    BY <1>2, <1>4, <2>1, <2>2 DEF delta
  <2>4. 0 <= con.sb.top + delta /\ con.sb.top + delta <= Len(con.sb.lines)
    BY <1>4, <2>1, <2>2, <2>3
  <2>5. c.sb = [con.sb EXCEPT !.top = con.sb.top + delta] /\ c.rows = con.rows
    BY <1>1, <1>2, <2>4, SbMovedTop
  <2>6. con.sb \in [lines : Seq(Line), top : Nat, max : Nat]
    BY <1>1 DEF Sound, Scrollable
  <2> HIDE DEF c
  <2>7. QED
    BY <2>5, <2>6
<1> HIDE DEF c
<1>9. Fine(d) /\ Fitting(d)
  <2>1. Fine(d)
    BY <1>1, <1>5, <1>6, DisplayFine DEF c
  <2>2. Fitting(d)
    BY <1>1, <1>5, <1>6 DEF Fitting, Display, Alike, c
  <2>3. QED
    BY <2>1, <2>2
<1>10. \A i \in 1..Size(c) : Due(c, moved, i)
  <2>1. Fresh(IncAge(con), td) /\ Sound(IncAge(con))
    BY <1>1, IncAgeFresh, IncAgeSound
  <2>2. Fresh(IncAge(con), moved)
    BY <1>5, <2>1 DEF Fresh
  <2>3. QED
    BY <1>5, <1>6, <1>7, <2>1, <2>2, RenewedIsDue
<1>11. d.con = c /\ d.td = moved /\ d.shown = shown
  BY DEF c
<1> HIDE DEF d, delta
<1>12. Fine(drawn) /\ Current(drawn.con, drawn.td)
  BY <1>9, RenderUpdateFine, RenderScrollFine, RenderUpdateRight, RenderScrollCurrent
<1>13. Right /\ Settled => RightOn(drawn.con, drawn.td, drawn.shown)
  <2>1. SUFFICES ASSUME Right, Settled
                 PROVE  RightOn(drawn.con, drawn.td, drawn.shown)
    OBVIOUS
  <2>2. RightOn(d.con, d.td, d.shown)
    BY <1>10, <1>11 DEF RightOn
  <2>3. ASSUME NEW i \in 1..Size(c), i + delta \in 1..Size(c)
        PROVE  shown[i + delta] = Look(Visible(c, i), moved.blinkstate)
    <3>1. i + delta \in 1..Size(con)
      BY <1>6, <2>3 DEF Alike
    <3>2. shown[i + delta] = Look(Visible(con, i + delta), td.blinkstate)
      BY <2>1, <3>1 DEF Right, Settled
    <3>3. Visible(c, i) = Visible(con, i + delta)
      <4>1. con.sb.top \in Nat /\ Len(con.sb.lines) \in Nat
        BY <1>1, SoundFields, ScrollableFields
      <4>2. c.sb.top + i = con.sb.top + (i + delta)
        BY <1>2, <1>8, <2>1, <4>1
      <4>3. c.sb.lines = con.sb.lines /\ c.rows = con.rows
        BY <1>8, <2>1
      <4>4. QED
        BY <4>2, <4>3 DEF Visible
    <3>4. QED
      BY <1>5, <3>2, <3>3
  <2>4. \A i \in 1..Size(d.con) :
           i + delta \in 1..Size(d.con) =>
              d.shown[i + delta] = Look(Visible(d.con, i), d.td.blinkstate)
    BY <1>11, <2>3
  <2>5. \A i \in 1..Size(d.con) : Due(d.con, d.td, i)
    BY <1>10, <1>11
  <2>6. QED
    BY <1>2, <1>9, <2>2, <2>4, <2>5, RenderUpdateRight, RenderScrollRight
<1> HIDE DEF drawn
<1>14. QED
  BY <1>3, <1>12, <1>13, WithScrollerRight, BecomesRight

\* Of the calls only the scrolling of a window that is not settled may tear.
LEMMA StepRight ==
    ASSUME AInv, Next
    PROVE  /\ Current(con, td)'
           /\ open /\ Right => Right' \/ (~Settled /\ (DragScroller \/ TurnWheel))
<1>0. td \in Gadgets /\ Within(td.sb) /\ Current(con, td)
  BY DEF AInv, TInv, GInv
<1>1. CASE Write
  BY <1>1, WriteRight
<1>2. CASE Refresh
  BY <1>2, RefreshRight
<1>3. CASE Key
  BY <1>3, KeyRight
<1>4. CASE ClearSb
  BY <1>4, ClearSbRight
<1>5. CASE SetMaxSb
  BY <1>5, SetMaxSbRight
<1>6. CASE Blink
  BY <1>6, BlinkRight
<1>7. CASE Iconify
  BY <1>0, <1>7
  DEF Iconify, Current, Right, RightOn, Due, AgeOf, Visible, Size, Greatest, Look
<1>8. CASE Uniconify
  BY <1>8, UniconifyRight
<1>9. CASE DragScroller
  <2>1. PICK t \in 0..(td.sb.total - td.sb.visible) : SBTop(t, TRUE)
    BY <1>9 DEF DragScroller
  <2>2. t \in Int
    BY <1>0 DEF Within, Scrollers
  <2>3. Current(con, td)' /\ (Right /\ Settled => Right')
    BY <2>1, <2>2, SBTopRight
  <2>4. QED
    BY <1>9, <2>3
<1>10. CASE TurnWheel
  <2>1. PICK n \in Wheel : SBTop(td.sb.top + n, FALSE) \/ SBTop(td.sb.top - n, FALSE)
    BY <1>10 DEF TurnWheel
  <2>2. td.sb.top + n \in Int /\ td.sb.top - n \in Int
    BY <1>0, GadgetAssumption DEF Within, Scrollers
  <2>3. Current(con, td)' /\ (Right /\ Settled => Right')
    BY <2>1, <2>2, SBTopRight
  <2>4. QED
    BY <1>10, <2>3
<1>11. CASE Layout
  BY <1>11, LayoutRight
<1>12. QED
  BY <1>1, <1>2, <1>3, <1>4, <1>5, <1>6, <1>7, <1>8, <1>9, <1>10, <1>11
  DEF Next, Program, System

LEMMA StutterRight ==
    ASSUME AInv, UNCHANGED vars
    PROVE  Current(con, td)' /\ (Right => Right')
BY DEF vars, AInv, Current, Right, RightOn, Due, AgeOf, Visible, Size, Greatest, Look

LEMMA AInvNext == AInv /\ [Next]_vars => AInv'
<1> SUFFICES ASSUME AInv, [Next]_vars PROVE AInv'
  OBVIOUS
<1>1. TInv'
  BY TInvNext DEF AInv
<1>2. Current(con, td)'
  BY StepRight, StutterRight
<1>3. QED
  BY <1>1, <1>2 DEF AInv

\* No row of an open window that is right becomes wrong without being due, but for one
\* that is scrolled while it is not settled: not by a counter that wraps, nor by the
\* phase of the blinking, a new size, a new limit, a window that opens or output, for
\* every height, limit, counter and turn of the wheel.
THEOREM WindowStaysRight == Spec => OnlyScrollingTears
<1> DEFINE Tears == open /\ open' /\ Right /\ ~Right'
                        => ~Settled /\ (DragScroller \/ TurnWheel)
<1>1. AInv /\ [Next]_vars => [Tears]_vars
  BY StepRight, StutterRight
<1> HIDE DEF Tears
<1>2. Spec => [][Tears]_vars
  BY <1>1, AInvInit, AInvNext, PTL DEF Spec
<1>3. QED
  BY <1>2 DEF Tears, OnlyScrollingTears

=============================================================================
