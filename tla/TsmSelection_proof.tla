-------------------------- MODULE TsmSelection_proof --------------------------
(***************************************************************************)
(* The two algorithms that find out what is selected agree, for screens    *)
(* and scrollbacks of every size.                                          *)
(***************************************************************************)
EXTENDS TsmSelection, FiniteSetTheorems, WellFoundedInduction, TLAPS

-----------------------------------------------------------------------------
(* Where an end is: the number of its line, with those of the screen counted on from *)
(* the scrollback's and 0 for the top of everything.                                  *)

Number(c, end) == IF end.line # NULL THEN end.line
                  ELSE IF end.y = TOP THEN 0 ELSE c.count + 1 + end.y

FirstShown(c) == IF c.pos = NULL THEN c.count + 1 ELSE c.pos

\* The struct, and what EndOK says of its ends.
EndType == [line : Nat, x : Columns, y : Int]
ConType == [count : 0..SbMax, pos : Nat, active : BOOLEAN, fresh : BOOLEAN,
            start : EndType, end : EndType]

EndIn(c, end) ==
    \/ end.line \in 1..c.count /\ end.y \in {0, TOP}
    \/ end.line = NULL /\ end.y \in (-1)..(SizeY - 1)

Sound(c) ==
    /\ c \in ConType /\ c.pos <= c.count
    /\ c.active => EndIn(c, c.start) /\ EndIn(c, c.end)

\* An end the drawing loop can place.
Placed(c, end) == /\ end \in EndType /\ EndIn(c, end)
                  /\ ~(c.pos # NULL /\ AtTop(end))

\* The row an end is on is the one its line is shown in.
LEMMA AtIsNumber ==
    ASSUME NEW c, Sound(c), NEW end, Placed(c, end), NEW i \in Rows
    PROVE  IsAt(c, end, i) <=> Number(c, end) = FirstShown(c) + i
BY SelectionAssumption
   DEF Sound, ConType, Placed, EndType, EndIn, AtTop, IsAt, LineAt, Taken, Number,
       FirstShown, Rows, Greatest, NULL, TOP

LEMMA AboveIsNumber ==
    ASSUME NEW c, Sound(c), NEW end, Placed(c, end)
    PROVE  IsAbove(c, end) <=> Number(c, end) < FirstShown(c)
BY SelectionAssumption
   DEF Sound, ConType, Placed, EndType, EndIn, AtTop, IsAbove, Number, FirstShown,
       Rows, NULL, TOP

LEMMA NumberType ==
    ASSUME NEW c, Sound(c), NEW end, end \in EndType, EndIn(c, end)
    PROVE  Number(c, end) \in Nat /\ FirstShown(c) \in Nat
BY SelectionAssumption DEF Sound, ConType, EndType, EndIn, Number, FirstShown, NULL, TOP

\* How many of two things are in a set of them.
LEMMA PairCount ==
    ASSUME NEW u, NEW v, u # v, NEW S, S \subseteq {u, v}
    PROVE  Cardinality(S) = (IF u \in S THEN 1 ELSE 0) + (IF v \in S THEN 1 ELSE 0)
<1>1. CASE S = {} BY <1>1, FS_EmptySet
<1>2. CASE S = {u}
  <2>1. Cardinality({u}) = 1 BY FS_Singleton
  <2> QED BY <1>2, <2>1
<1>3. CASE S = {v}
  <2>1. Cardinality({v}) = 1 BY FS_Singleton
  <2> QED BY <1>3, <2>1
<1>4. CASE S = {u, v}
  <2>1. IsFiniteSet({u}) /\ Cardinality({u}) = 1 BY FS_Singleton
  <2>2. Cardinality({u} \cup {v}) = 2 BY <2>1, FS_AddElement
  <2>3. {u} \cup {v} = {u, v} OBVIOUS
  <2> QED BY <1>4, <2>2, <2>3
<1> QED BY <1>1, <1>2, <1>3, <1>4

\* The end comes before cell x of the line n.
Passed(c, end, n, x) == Number(c, end) < n \/ (Number(c, end) = n /\ end.x < x)
On(c, end, n, x) == Number(c, end) = n /\ end.x = x

LEMMA OddUpToTwo == ~Odd(0) /\ Odd(1) /\ ~Odd(2)
BY DEF Odd

\* in_sel at a cell: one of the ends comes before it.
LEMMA InSelIsBetween ==
    ASSUME NEW c, Sound(c), Placed(c, c.start), Placed(c, c.end),
           NEW i \in Rows, NEW x \in Columns
    PROVE  InSel(c, <<i, x>>) <=>
               (Passed(c, c.start, FirstShown(c) + i, x) # Passed(c, c.end, FirstShown(c) + i, x))
<1> DEFINE cell == <<i, x>>
           S == <<"start", c.start>>
           E == <<"end", c.end>>
           Row(end) == Number(c, end) - FirstShown(c)
           Spot(end) == <<Row(end), end.x>>
           above == {e \in Ends(c) : IsAbove(c, e[2])}
           before == {p \in Cells \X Ends(c) : Before(p[1], cell) /\ p[2] \in Marks(c, p[1])}
           One(b) == IF b THEN 1 ELSE 0
           Later(end) == ~IsAbove(c, end) /\ Before(Spot(end), cell)
<1>1. S # E /\ Ends(c) = {S, E} /\ S[2] = c.start /\ E[2] = c.end BY DEF Ends
<1>2. \A end : Placed(c, end) => /\ Number(c, end) \in Nat /\ FirstShown(c) \in Nat
                                 /\ end.x \in Columns /\ Row(end) \in Int
      BY NumberType DEF Placed, EndType
<1>3. Cardinality(above) = One(IsAbove(c, c.start)) + One(IsAbove(c, c.end))
  <2>1. above \subseteq {S, E} BY <1>1
  <2>2. S \in above <=> IsAbove(c, c.start) BY <1>1
  <2>3. E \in above <=> IsAbove(c, c.end) BY <1>1
  <2> HIDE DEF above, S, E
  <2> QED BY <1>1, <2>1, <2>2, <2>3, PairCount
<1>4. ASSUME NEW tag, NEW end, Placed(c, end), <<tag, end>> \in Ends(c)
      PROVE  /\ \A m \in Cells : <<m, <<tag, end>>>> \in before => m = Spot(end)
             /\ <<Spot(end), <<tag, end>>>> \in before <=> Later(end)
  <2>1. ASSUME NEW m \in Cells
        PROVE  <<tag, end>> \in Marks(c, m) <=> m = Spot(end)
    <3>1. m[1] \in Rows /\ m[2] \in Columns /\ m = <<m[1], m[2]>> BY DEF Cells
    <3>2. <<tag, end>> \in Marks(c, m) <=> IsAt(c, end, m[1]) /\ end.x = m[2]
          BY <1>4 DEF Marks
    <3>3. IsAt(c, end, m[1]) <=> Number(c, end) = FirstShown(c) + m[1]
          BY <1>4, <3>1, AtIsNumber
    <3>4. Number(c, end) = FirstShown(c) + m[1] <=> m[1] = Row(end)
          BY <1>2, <1>4, <3>1 DEF Rows
    <3> QED BY <3>1, <3>2, <3>3, <3>4
  <2>2. \A m : <<m, <<tag, end>>>> \in before <=>
                   m \in Cells /\ Before(m, cell) /\ <<tag, end>> \in Marks(c, m)
        BY <1>4
  <2>3. Later(end) => Spot(end) \in Cells
    <3> SUFFICES ASSUME Later(end) PROVE Spot(end) \in Cells OBVIOUS
    <3>1. Number(c, end) >= FirstShown(c) BY <1>2, <1>4, AboveIsNumber
    <3>2. Row(end) >= 0 BY <3>1, <1>2, <1>4
    <3>3. Row(end) <= i BY <1>2, <1>4 DEF Before, Rows
    <3> QED BY <1>2, <1>4, <3>2, <3>3, SelectionAssumption DEF Cells, Rows
  <2>4. Spot(end) \in Cells => ~IsAbove(c, end)
        BY <1>2, <1>4, AboveIsNumber DEF Cells, Rows
  <2> QED BY <2>1, <2>2, <2>3, <2>4
<1>5. Cardinality(before) = One(Later(c.start)) + One(Later(c.end))
  <2> DEFINE u == <<Spot(c.start), S>>
             v == <<Spot(c.end), E>>
  <2>1. before \subseteq {u, v}
    <3> SUFFICES ASSUME NEW p \in before PROVE p \in {u, v} OBVIOUS
    <3>1. p \in Cells \X Ends(c) /\ p = <<p[1], p[2]>> OBVIOUS
    <3>2. p[1] \in Cells /\ p[2] \in {S, E} BY <1>1, <3>1
    <3>3. <<p[1], p[2]>> \in before BY <3>1
    <3> HIDE DEF before
    <3>4. p[2] = S => p = u BY <1>1, <1>4, <3>1, <3>2, <3>3
    <3>5. p[2] = E => p = v BY <1>1, <1>4, <3>1, <3>2, <3>3
    <3> QED BY <3>2, <3>4, <3>5
  <2>2. u \in before <=> Later(c.start) BY <1>1, <1>4
  <2>3. v \in before <=> Later(c.end) BY <1>1, <1>4
  <2>4. u # v BY <1>1
  <2> HIDE DEF before, u, v, Later
  <2> QED BY <2>1, <2>2, <2>3, <2>4, PairCount
<1>6. ASSUME NEW end, Placed(c, end)
      PROVE  /\ ~(IsAbove(c, end) /\ Later(end))
             /\ Passed(c, end, FirstShown(c) + i, x) <=> IsAbove(c, end) \/ Later(end)
  <2>1. IsAbove(c, end) <=> Number(c, end) < FirstShown(c) BY <1>6, AboveIsNumber
  <2> QED BY <2>1, <1>2, <1>6 DEF Passed, Before, Rows, Columns
<1>7. One(IsAbove(c, c.start)) + One(IsAbove(c, c.end)) + (One(Later(c.start)) + One(Later(c.end)))
         = One(Passed(c, c.start, FirstShown(c) + i, x)) + One(Passed(c, c.end, FirstShown(c) + i, x))
  <2> HIDE DEF Later
  <2> QED BY <1>6
<1>8. InSel(c, cell) <=> Odd(Cardinality(above) + Cardinality(before)) BY DEF InSel
<1> HIDE DEF above, before, Later
<1>9. InSel(c, cell) <=> Odd(One(Passed(c, c.start, FirstShown(c) + i, x))
                             + One(Passed(c, c.end, FirstShown(c) + i, x)))
      BY <1>3, <1>5, <1>7, <1>8
<1> QED BY <1>9, OddUpToTwo DEF Passed

-----------------------------------------------------------------------------
(* What is copied. *)

\* The cell x of the line n is between two ends, or at one of them.
Between(c, first, last, n, x) ==
    /\ Passed(c, first, n, x) \/ On(c, first, n, x)
    /\ ~Passed(c, last, n, x)

\* ComesFirst is the order of the ends.
LEMMA FirstIsBefore ==
    ASSUME NEW c, Sound(c), NEW a, NEW b, Placed(c, a), Placed(c, b), ~(AtTop(a) /\ AtTop(b))
    PROVE  /\ ComesFirst(a, b) => \/ Number(c, a) < Number(c, b)
                                  \/ Number(c, a) = Number(c, b) /\ a.x <= b.x
           /\ ~ComesFirst(a, b) => \/ Number(c, b) < Number(c, a)
                                   \/ Number(c, a) = Number(c, b) /\ b.x <= a.x
           /\ ComesFirst(a, b) => ~AtTop(b)
           /\ ~ComesFirst(a, b) => ~AtTop(a)
BY SelectionAssumption
   DEF Sound, ConType, Placed, EndType, EndIn, AtTop, ComesFirst, Number, Columns, NULL, TOP

\* What is copied when `first` and `last` are the ends in their order.
CopiedFrom(c, start, end) ==
    LET lines == (IF start.line # NULL THEN start.line
                  ELSE IF AtTop(start) THEN 1 ELSE c.count + 1)
                 ..(IF end.line # NULL THEN end.line ELSE c.count)
        rows == IF end.line # NULL THEN {}
                ELSE (IF start.line # NULL \/ AtTop(start) THEN 0 ELSE start.y)..end.y
        From(own) == IF own THEN start.x ELSE 0
        To(own) == IF own THEN end.x ELSE SizeX - 1
    IN  {p \in lines \X Columns :
             From(p[1] = start.line) <= p[2] /\ p[2] <= To(p[1] = end.line)}
        \cup {<<c.count + 1 + p[1], p[2]>> : p \in
             {q \in rows \X Columns : /\ From(start.line = NULL /\ q[1] = start.y) <= q[2]
                                       /\ q[2] <= To(q[1] = end.y)}}

LEMMA CopiedIsFrom ==
    ASSUME NEW c, c.active, ~(AtTop(c.start) /\ AtTop(c.end))
    PROVE  Copied(c) = IF ComesFirst(c.start, c.end) THEN CopiedFrom(c, c.start, c.end)
                       ELSE CopiedFrom(c, c.end, c.start)
BY ZenonT(30) DEF Copied, CopiedFrom

LEMMA CopiedIsBetween ==
    ASSUME NEW c, Sound(c), NEW first, NEW last, Placed(c, first), Placed(c, last),
           ~AtTop(last),
           \/ Number(c, first) < Number(c, last)
           \/ Number(c, first) = Number(c, last) /\ first.x <= last.x,
           NEW n \in Nat \ {0}, NEW x \in Columns
    PROVE  <<n, x>> \in CopiedFrom(c, first, last) <=> Between(c, first, last, n, x)
<1> DEFINE low == IF first.line # NULL THEN first.line
                  ELSE IF AtTop(first) THEN 1 ELSE c.count + 1
           high == IF last.line # NULL THEN last.line ELSE c.count
           top == IF first.line # NULL \/ AtTop(first) THEN 0 ELSE first.y
           rows == IF last.line # NULL THEN {} ELSE top..last.y
           From(own) == IF own THEN first.x ELSE 0
           To(own) == IF own THEN last.x ELSE SizeX - 1
           inSb == {p \in (low..high) \X Columns :
                       From(p[1] = first.line) <= p[2] /\ p[2] <= To(p[1] = last.line)}
           inRows == {q \in rows \X Columns :
                         /\ From(first.line = NULL /\ q[1] = first.y) <= q[2]
                         /\ q[2] <= To(q[1] = last.y)}
           y == n - c.count - 1
<1>1. CopiedFrom(c, first, last) = inSb \cup {<<c.count + 1 + p[1], p[2]>> : p \in inRows}
      BY DEF CopiedFrom
<1>2. /\ c.count \in Nat /\ SizeX \in Nat /\ SizeY \in Nat
      /\ first.x \in Columns /\ last.x \in Columns
      /\ first.line \in Nat /\ last.line \in Nat /\ first.y \in Int /\ last.y \in Int
      BY SelectionAssumption DEF Sound, ConType, Placed, EndType
<1>3. <<n, x>> \in inSb <=> /\ n \in low..high
                           /\ From(n = first.line) <= x /\ x <= To(n = last.line)
      OBVIOUS
<1>4. <<n, x>> \in {<<c.count + 1 + p[1], p[2]>> : p \in inRows}
        <=> y \in rows /\ From(first.line = NULL /\ y = first.y) <= x /\ x <= To(y = last.y)
  <2>1. ASSUME NEW p \in inRows, <<n, x>> = <<c.count + 1 + p[1], p[2]>>
        PROVE  p = <<y, x>>
    <3>1. p \in rows \X Columns /\ p = <<p[1], p[2]>> OBVIOUS
    <3>2. p[1] \in Int BY <3>1, <1>2
    <3>3. p[1] = y /\ p[2] = x BY <2>1, <3>2, <1>2
    <3> QED BY <3>1, <3>3
  <2>2. <<y, x>> \in inRows => <<n, x>> \in {<<c.count + 1 + p[1], p[2]>> : p \in inRows}
    <3>1. c.count + 1 + y = n BY <1>2
    <3>2. SUFFICES ASSUME <<y, x>> \in inRows
                   PROVE  \E p \in inRows : <<n, x>> = <<c.count + 1 + p[1], p[2]>>
          OBVIOUS
    <3>3. <<n, x>> = <<c.count + 1 + <<y, x>>[1], <<y, x>>[2]>> BY <3>1
    <3> QED BY <3>2, <3>3
  <2>3. <<n, x>> \in {<<c.count + 1 + p[1], p[2]>> : p \in inRows} <=> <<y, x>> \in inRows
    <3> HIDE DEF inRows
    <3> QED BY <2>1, <2>2
  <2>4. <<y, x>> \in inRows <=> /\ y \in rows
                              /\ From(first.line = NULL /\ y = first.y) <= x
                              /\ x <= To(y = last.y)
        OBVIOUS
  <2> QED BY <2>3, <2>4
<1>5. \/ first.line \in 1..c.count /\ Number(c, first) = first.line
      \/ first.line = NULL /\ first.y = TOP /\ Number(c, first) = 0
      \/ first.line = NULL /\ first.y \in Nat /\ Number(c, first) = c.count + 1 + first.y
      BY <1>2 DEF Placed, EndIn, Number, NULL, TOP
<1>6. \/ last.line \in 1..c.count /\ Number(c, last) = last.line
      \/ last.line = NULL /\ last.y \in Nat /\ Number(c, last) = c.count + 1 + last.y
      BY <1>2 DEF Placed, EndIn, Number, AtTop, NULL, TOP
<1>7. AtTop(first) <=> first.line = NULL /\ first.y = TOP BY DEF AtTop
<1>8. x \in 0..(SizeX - 1) /\ first.x \in 0..(SizeX - 1) /\ last.x \in 0..(SizeX - 1)
      BY <1>2 DEF Columns
<1>9. CASE n <= c.count
  <2>1. y \notin rows BY <1>2, <1>5, <1>6, <1>7, <1>9, SMTT(20) DEF NULL, TOP
  <2>2. <<n, x>> \in CopiedFrom(c, first, last) <=>
            n \in low..high /\ From(n = first.line) <= x /\ x <= To(n = last.line)
        BY <1>1, <1>3, <1>4, <2>1
  <2>3. n \in low..high <=> Number(c, first) <= n /\ n <= Number(c, last)
        BY <1>2, <1>5, <1>6, <1>7, <1>9 DEF NULL, TOP
  <2>4. n = first.line <=> n = Number(c, first)
        BY <1>2, <1>5, <1>9 DEF NULL, TOP
  <2>5. n = last.line <=> n = Number(c, last)
        BY <1>2, <1>6, <1>9 DEF NULL, TOP
  <2>6. Number(c, first) \in Nat /\ Number(c, last) \in Nat
        BY <1>2, <1>5, <1>6
  <2> HIDE DEF low, high
  <2> QED BY <1>2, <1>8, <2>2, <2>3, <2>4, <2>5, <2>6 DEF Between, Passed, On
<1>10. CASE n > c.count
  <2>1. n \notin low..high BY <1>2, <1>5, <1>6, <1>7, <1>10 DEF NULL, TOP
  <2>2. <<n, x>> \in CopiedFrom(c, first, last) <=>
            /\ y \in rows
            /\ From(first.line = NULL /\ y = first.y) <= x
            /\ x <= To(y = last.y)
        BY <1>1, <1>3, <1>4, <2>1
  <2>3. y \in rows <=> Number(c, first) <= n /\ n <= Number(c, last)
    <3>1. CASE last.line \in 1..c.count
          BY <1>2, <1>6, <1>10, <3>1 DEF NULL, TOP
    <3>2. CASE last.line = NULL /\ last.y \in Nat /\ Number(c, last) = c.count + 1 + last.y
      <4>1. rows = top..last.y BY <3>2
      <4>2. top \in Int BY <1>2
      <4>3. y \in rows <=> top <= y /\ y <= last.y BY <4>1, <4>2, <1>2
      <4>4. top <= y <=> Number(c, first) <= n
            BY <1>2, <1>5, <1>7, <1>10 DEF NULL, TOP
      <4>5. y <= last.y <=> n <= Number(c, last) BY <1>2, <3>2
      <4> QED BY <4>3, <4>4, <4>5
    <3> QED BY <1>6, <3>1, <3>2
  <2>4. first.line = NULL /\ y = first.y <=> n = Number(c, first)
        BY <1>2, <1>5, <1>10 DEF NULL, TOP
  <2>5. y \in rows => (y = last.y <=> n = Number(c, last))
        BY <1>2, <1>6, <1>10 DEF NULL, TOP
  <2>6. Number(c, first) \in Nat /\ Number(c, last) \in Nat
        BY <1>2, <1>5, <1>6
  <2> HIDE DEF rows, y
  <2> QED BY <1>2, <1>8, <2>2, <2>3, <2>4, <2>5, <2>6 DEF Between, Passed, On
<1> QED BY <1>2, <1>9, <1>10

\* Between the ends in their order is: one of them, or one of the two has been passed.
LEMMA BetweenIsOdd ==
    ASSUME NEW c, Sound(c), NEW first, NEW last, Placed(c, first), Placed(c, last),
           \/ Number(c, first) < Number(c, last)
           \/ Number(c, first) = Number(c, last) /\ first.x <= last.x,
           NEW n \in Nat, NEW x \in Columns
    PROVE  Between(c, first, last, n, x) <=>
               \/ On(c, first, n, x) \/ On(c, last, n, x)
               \/ Passed(c, first, n, x) # Passed(c, last, n, x)
<1>1. /\ Number(c, first) \in Nat /\ Number(c, last) \in Nat
      /\ first.x \in Nat /\ last.x \in Nat /\ x \in Nat
      BY NumberType DEF Placed, EndType, Columns
<1> QED BY <1>1 DEF Between, On, Passed

LEMMA HighlightedIsBetween ==
    ASSUME NEW c, Sound(c), c.active, Placed(c, c.start), Placed(c, c.end),
           NEW i \in Rows, NEW x \in Columns
    PROVE  <<i, x>> \in Highlighted(c) <=>
               LET n == FirstShown(c) + i
               IN  \/ On(c, c.start, n, x) \/ On(c, c.end, n, x)
                   \/ Passed(c, c.start, n, x) # Passed(c, c.end, n, x)
<1>1. Marks(c, <<i, x>>) # {} <=>
          \/ IsAt(c, c.start, i) /\ c.start.x = x
          \/ IsAt(c, c.end, i) /\ c.end.x = x
  <2>1. ASSUME NEW e \in Ends(c)
        PROVE  e \in Marks(c, <<i, x>>) <=> IsAt(c, e[2], i) /\ e[2].x = x
        BY DEF Marks
  <2>2. Ends(c) = {<<"start", c.start>>, <<"end", c.end>>} BY DEF Ends
  <2>3. Marks(c, <<i, x>>) \subseteq Ends(c) BY DEF Marks
  <2> QED BY <2>1, <2>2, <2>3
<1>2. /\ IsAt(c, c.start, i) <=> Number(c, c.start) = FirstShown(c) + i
      /\ IsAt(c, c.end, i) <=> Number(c, c.end) = FirstShown(c) + i
      BY AtIsNumber
<1>3. <<i, x>> \in Cells BY DEF Cells
<1>4. <<i, x>> \in Highlighted(c) <=> Marks(c, <<i, x>>) # {} \/ InSel(c, <<i, x>>)
      BY <1>3 DEF Highlighted
<1> QED BY <1>1, <1>2, <1>4, InSelIsBetween DEF On

\* The screen and the clipboard agree on a screen that is sound.
LEMMA SoundIsCopied ==
    ASSUME NEW c, Sound(c), c.active, Placed(c, c.start), Placed(c, c.end),
           NEW i \in Rows, NEW x \in Columns
    PROVE  <<i, x>> \in Highlighted(c) <=> <<FirstShown(c) + i, x>> \in Copied(c)
<1> DEFINE n == FirstShown(c) + i
<1>1. n \in Nat \ {0} BY SelectionAssumption DEF Sound, ConType, FirstShown, Rows, NULL
<1>2. CASE AtTop(c.start) /\ AtTop(c.end)
  <2>1. Copied(c) = {} BY <1>2 DEF Copied
  <2>2. Number(c, c.start) = 0 /\ Number(c, c.end) = 0 BY <1>2 DEF Number, AtTop
  <2>3. /\ ~On(c, c.start, n, x) /\ ~On(c, c.end, n, x)
        /\ Passed(c, c.start, n, x) /\ Passed(c, c.end, n, x)
        BY <1>1, <2>2 DEF On, Passed
  <2>4. <<i, x>> \notin Highlighted(c) BY <2>3, HighlightedIsBetween DEF Passed
  <2> QED BY <2>1, <2>4
<1>3. CASE ~(AtTop(c.start) /\ AtTop(c.end)) /\ ComesFirst(c.start, c.end)
  <2>1. <<n, x>> \in Copied(c) <=> Between(c, c.start, c.end, n, x)
        BY <1>1, <1>3, CopiedIsFrom, CopiedIsBetween, FirstIsBefore
  <2>2. Between(c, c.start, c.end, n, x) <=>
            \/ On(c, c.start, n, x) \/ On(c, c.end, n, x)
            \/ Passed(c, c.start, n, x) # Passed(c, c.end, n, x)
        BY <1>1, <1>3, FirstIsBefore, BetweenIsOdd
  <2> QED BY <2>1, <2>2, HighlightedIsBetween
<1>4. CASE ~(AtTop(c.start) /\ AtTop(c.end)) /\ ~ComesFirst(c.start, c.end)
  <2>1. \/ Number(c, c.end) < Number(c, c.start)
        \/ Number(c, c.end) = Number(c, c.start) /\ c.end.x <= c.start.x
        BY <1>4, FirstIsBefore
  <2>2. <<n, x>> \in Copied(c) <=> Between(c, c.end, c.start, n, x)
        BY <1>1, <1>4, <2>1, CopiedIsFrom, CopiedIsBetween, FirstIsBefore
  <2>3. Between(c, c.end, c.start, n, x) <=>
            \/ On(c, c.end, n, x) \/ On(c, c.start, n, x)
            \/ Passed(c, c.end, n, x) # Passed(c, c.start, n, x)
        BY <1>1, <2>1, BetweenIsOdd
  <2> QED BY <2>2, <2>3, HighlightedIsBetween
<1> QED BY <1>2, <1>3, <1>4

-----------------------------------------------------------------------------
(* The calls keep the screen sound. *)

DisplayType == [con : ConType, due : SUBSET Cells, shown : SUBSET Cells]

DisplayOK(d) == d \in DisplayType /\ Sound(d.con)

IInv ==
    /\ DisplayOK(Display)
    /\ mouse \in [mode : {"default", "movecursor", "marktext"}, clicks : 0..2,
                   at : Cells, prev : Cells]

LEMMA SetIsIn ==
    ASSUME NEW c, Sound(c), NEW x \in Columns, NEW y \in Rows
    PROVE  SelectionSet(c, x, y) \in EndType /\ EndIn(c, SelectionSet(c, x, y))
<1>1. SelectionAssumption BY SelectionAssumption
<1>2. CASE c.pos # NULL /\ c.pos + y <= c.count
      BY <1>1, <1>2 DEF SelectionSet, EndType, EndIn, Sound, ConType, Rows, NULL, TOP
<1>3. CASE ~(c.pos # NULL /\ c.pos + y <= c.count) /\ c.pos = NULL
      BY <1>1, <1>3 DEF SelectionSet, EndType, EndIn, Sound, ConType, Rows, NULL, TOP
<1>4. CASE ~(c.pos # NULL /\ c.pos + y <= c.count) /\ c.pos # NULL
      BY <1>1, <1>4 DEF SelectionSet, EndType, EndIn, Sound, ConType, Rows, NULL, TOP
<1> QED BY <1>2, <1>3, <1>4

LEMMA SelectionAgeOK ==
    ASSUME NEW d, DisplayOK(d), NEW start, NEW end
    PROVE  DisplayOK(SelectionAge(d, start, end)) /\ SelectionAge(d, start, end).con = d.con
<1>1. AgedCells(d.con, start, end) \subseteq Cells BY DEF AgedCells
<1> QED BY <1>1 DEF DisplayOK, DisplayType, SelectionAge

LEMMA AgedOK ==
    ASSUME NEW d, DisplayOK(d)
    PROVE  /\ DisplayOK(IncAge(d)) /\ DisplayOK(AllAged(d)) /\ DisplayOK(OldAge(d))
           /\ OldAge(d).con = d.con
           /\ IncAge(d).con = [d.con EXCEPT !.fresh = TRUE]
<1>1. DisplayOK(IncAge(d)) /\ IncAge(d).con = [d.con EXCEPT !.fresh = TRUE]
      BY DEF DisplayOK, DisplayType, IncAge, Sound, ConType, EndIn
<1>2. DisplayOK(AllAged(d)) BY DEF DisplayOK, DisplayType, AllAged
<1>3. DisplayOK(OldAge(d)) /\ OldAge(d).con = d.con BY SelectionAgeOK DEF OldAge
<1> QED BY <1>1, <1>2, <1>3

LEMMA RenderedOK ==
    ASSUME NEW d, DisplayOK(d), NEW miny, NEW maxy
    PROVE  DisplayOK(Rendered(d, miny, maxy)) /\ DisplayOK(RenderUpdate(d))
<1>1. ASSUME NEW a, NEW b PROVE DisplayOK(Rendered(d, a, b))
  <2>1. Highlighted(d.con) \subseteq Cells BY DEF Highlighted
  <2> QED BY <2>1 DEF Rendered, DisplayOK, DisplayType, Sound, ConType, EndIn
<1> QED BY <1>1 DEF RenderUpdate

LEMMA ScrolledOK ==
    ASSUME NEW d, DisplayOK(d), NEW delta \in Int
    PROVE  DisplayOK(RenderScroll(d, delta))
<1> DEFINE raster == {cell \in Cells :
                         IF cell[1] + delta \in Rows
                         THEN <<cell[1] + delta, cell[2]>> \in d.shown
                         ELSE cell \in d.shown}
           scrolled == [d EXCEPT !.shown = raster]
<1>1. DisplayOK(scrolled)
  <2>1. raster \subseteq Cells OBVIOUS
  <2> HIDE DEF raster
  <2> QED BY <2>1 DEF DisplayOK, DisplayType
<1>2. RenderScroll(d, delta) = IF delta < 0 THEN Rendered(scrolled, 0, 1 - delta)
                               ELSE Rendered(scrolled, SizeY - delta, SizeY - 1)
      BY DEF RenderScroll
<1> HIDE DEF scrolled
<1> QED BY <1>1, <1>2, RenderedOK

LEMMA SelectedOK ==
    ASSUME NEW d, DisplayOK(d), NEW start \in EndType, NEW end \in EndType,
           EndIn(d.con, start), EndIn(d.con, end)
    PROVE  DisplayOK(Selected(d, start, end))
<1> DEFINE s == [d EXCEPT !.con = [@ EXCEPT !.active = TRUE, !.start = start, !.end = end]]
<1>1. DisplayOK(s) BY DEF DisplayOK, DisplayType, Sound, ConType, EndIn
<1>2. Selected(d, start, end) = SelectionAge(s, start, end) BY DEF Selected
<1> HIDE DEF s
<1> QED BY <1>1, <1>2, SelectionAgeOK

\* A set of numbers has a least one: what induction over a word rests on.
LEMMA NatLeast ==
    ASSUME NEW T \in SUBSET Nat, T # {}
    PROVE  \E n \in T : \A m \in T : n <= m
<1> DEFINE R == {ss \in Nat \X Nat : ss[1] < ss[2]}
<1>1. IsWellFoundedOn(R, Nat) BY NatLessThanWellFounded DEF OpToRel
<1>2. PICK n \in T : \A m \in T : ~(<<m, n>> \in R) BY <1>1, WFMin, Zenon
<1>3. ASSUME NEW m \in T PROVE n <= m
  <2>1. ~(<<m, n>> \in R) /\ m \in Nat /\ n \in Nat BY <1>2
  <2> QED BY <2>1
<1> QED BY <1>2, <1>3

\* A letter has a word around it, with a first and a last column.
LEMMA WordHasEnds ==
    ASSUME NEW x \in Columns, x \in Letters
    PROVE  /\ \E i \in 0..x : Wordful(i, x) /\ ~(i > 0 /\ Wordful(i - 1, x))
           /\ \E i \in x..(SizeX - 1) :
                 Wordful(x, i) /\ ~(i < SizeX - 1 /\ Wordful(x, i + 1))
<1>1. SizeX \in Nat /\ x \in Nat /\ x < SizeX BY SelectionAssumption DEF Columns
<1>2. Wordful(x, x) BY <1>1 DEF Wordful, Least, Greatest
<1>3. \E i \in 0..x : Wordful(i, x) /\ ~(i > 0 /\ Wordful(i - 1, x))
  <2> DEFINE T == {i \in 0..x : Wordful(i, x)}
  <2>1. T \in SUBSET Nat /\ x \in T BY <1>1, <1>2
  <2>2. PICK i \in T : \A j \in T : i <= j BY <2>1, NatLeast
  <2>3. i > 0 => i - 1 \notin T /\ i - 1 \in 0..x BY <1>1, <2>2
  <2> QED BY <2>2, <2>3
<1>4. \E i \in x..(SizeX - 1) : Wordful(x, i) /\ ~(i < SizeX - 1 /\ Wordful(x, i + 1))
  <2> DEFINE T == {n \in 0..(SizeX - 1 - x) : Wordful(x, SizeX - 1 - n)}
  <2>1. SizeX - 1 - (SizeX - 1 - x) = x /\ SizeX - 1 - x \in Nat BY <1>1
  <2>2. T \in SUBSET Nat /\ SizeX - 1 - x \in T BY <1>1, <1>2, <2>1
  <2>3. PICK n \in T : \A m \in T : n <= m BY <2>2, NatLeast
  <2>4. n > 0 => n - 1 \notin T /\ n - 1 \in 0..(SizeX - 1 - x) BY <1>1, <2>3
  <2>5. SizeX - 1 - (n - 1) = SizeX - 1 - n + 1 BY <1>1, <2>3
  <2>6. SizeX - 1 - n \in x..(SizeX - 1) /\ (n = 0 <=> SizeX - 1 - n = SizeX - 1)
        BY <1>1, <2>3
  <2>7. LET i == SizeX - 1 - n
        IN  i \in x..(SizeX - 1) /\ Wordful(x, i) /\ ~(i < SizeX - 1 /\ Wordful(x, i + 1))
        BY <1>1, <2>3, <2>4, <2>5, <2>6
  <2> QED BY <2>7
<1> QED BY <1>3, <1>4

\* Each call of the mouse keeps the display sound.
LEMMA CallsOK ==
    ASSUME NEW d, DisplayOK(d), NEW cell \in Cells
    PROVE  /\ DisplayOK(ResetSelection(d))
           /\ DisplayOK(StartSelection(d, cell[2], cell[1]))
           /\ DisplayOK(TargetSelection(d, cell[2], cell[1]))
           /\ DisplayOK(SelectWord(d, cell[2], cell[1]))
           /\ DisplayOK(SelectLine(d, cell[1]))
<1> DEFINE x == cell[2]
           y == cell[1]
<1>1. x \in Columns /\ y \in Rows BY DEF Cells
<1>2. Sound(d.con) /\ d.con \in ConType BY DEF DisplayOK, Sound
<1>3. 0 \in Columns /\ SizeX - 1 \in Columns BY SelectionAssumption DEF Columns
<1>4. ASSUME NEW e, DisplayOK(e), e.con.count = d.con.count,
             NEW start \in EndType, NEW end \in EndType, EndIn(d.con, start), EndIn(d.con, end)
      PROVE  DisplayOK(Selected(e, start, end))
      BY <1>4, SelectedOK DEF EndIn
<1>5. \A z \in Columns : SelectionSet(d.con, z, y) \in EndType
                         /\ EndIn(d.con, SelectionSet(d.con, z, y))
      BY <1>1, <1>2, SetIsIn
<1>6. /\ DisplayOK(OldAge(IncAge(d))) /\ OldAge(IncAge(d)).con.count = d.con.count
      /\ DisplayOK(IncAge(OldAge(d))) /\ IncAge(OldAge(d)).con.count = d.con.count
  <2>1. DisplayOK(IncAge(d)) /\ IncAge(d).con = [d.con EXCEPT !.fresh = TRUE] BY AgedOK
  <2>2. DisplayOK(OldAge(d)) /\ OldAge(d).con = d.con BY AgedOK
  <2>3. IncAge(d).con.count = d.con.count BY <1>2, <2>1 DEF ConType
  <2>4. DisplayOK(OldAge(IncAge(d))) /\ OldAge(IncAge(d)).con = IncAge(d).con
        BY <2>1, AgedOK
  <2>5. /\ DisplayOK(IncAge(OldAge(d)))
        /\ IncAge(OldAge(d)).con = [OldAge(d).con EXCEPT !.fresh = TRUE]
        BY <2>2, AgedOK
  <2>6. IncAge(OldAge(d)).con.count = d.con.count BY <1>2, <2>2, <2>5 DEF ConType
  <2> QED BY <2>3, <2>4, <2>5, <2>6
<1>7. DisplayOK(ResetSelection(d))
  <2> DEFINE o == OldAge(IncAge(d))
  <2>1. DisplayOK(o) BY <1>6
  <2>2. DisplayOK([o EXCEPT !.con.active = FALSE])
        BY <2>1 DEF DisplayOK, DisplayType, Sound, ConType
  <2> QED BY <2>2 DEF ResetSelection
<1>8. DisplayOK(StartSelection(d, x, y))
      BY <1>1, <1>4, <1>5, <1>6 DEF StartSelection
<1>9. DisplayOK(TargetSelection(d, x, y))
  <2> DEFINE end == SelectionSet(d.con, x, y)
             moved == [d EXCEPT !.con.end = end]
  <2>1. end \in EndType /\ EndIn(d.con, end) BY <1>1, <1>5
  <2>2. DisplayOK(moved)
    <3> HIDE DEF end
    <3> QED BY <2>1 DEF DisplayOK, DisplayType, Sound, ConType, EndIn
  <2>3. DisplayOK(IncAge(moved)) BY <2>2, AgedOK
  <2>4. DisplayOK(SelectionAge(IncAge(moved), d.con.end, end)) BY <2>3, SelectionAgeOK
  <2> QED BY <2>4 DEF TargetSelection
<1>10. DisplayOK(SelectLine(d, y))
  <2> DEFINE start == SelectionSet(d.con, 0, y)
             end == [start EXCEPT !.x = SizeX - 1]
  <2>1. start \in EndType /\ EndIn(d.con, start) BY <1>3, <1>5
  <2>2. end \in EndType /\ EndIn(d.con, end)
    <3> HIDE DEF start
    <3> QED BY <1>3, <2>1 DEF EndType, EndIn
  <2>3. DisplayOK(Selected(OldAge(IncAge(d)), start, end)) BY <1>4, <1>6, <2>1, <2>2
  <2> QED BY <2>3 DEF SelectLine
<1>11. DisplayOK(SelectWord(d, x, y))
  <2>1. CASE x \notin Letters BY <2>1, AgedOK DEF SelectWord
  <2>2. CASE x \in Letters
    <3> DEFINE first == CHOOSE i \in 0..x : Wordful(i, x) /\ ~(i > 0 /\ Wordful(i - 1, x))
               last == CHOOSE i \in x..(SizeX - 1) :
                          Wordful(x, i) /\ ~(i < SizeX - 1 /\ Wordful(x, i + 1))
               start == SelectionSet(d.con, first, y)
               end == [start EXCEPT !.x = last]
    <3>1. first \in 0..x /\ last \in x..(SizeX - 1) BY <1>1, <2>2, WordHasEnds
    <3> HIDE DEF first, last
    <3>2. first \in Columns /\ last \in Columns
          BY <1>1, <3>1, SelectionAssumption DEF Columns
    <3>3. start \in EndType /\ EndIn(d.con, start) BY <1>5, <3>2
    <3>4. end \in EndType /\ EndIn(d.con, end)
      <4> HIDE DEF start
      <4> QED BY <3>2, <3>3 DEF EndType, EndIn
    <3>5. DisplayOK(Selected(IncAge(OldAge(d)), start, end)) BY <1>4, <1>6, <3>3, <3>4
    <3> QED BY <2>2, <3>5 DEF SelectWord, first, last
  <2> QED BY <2>1, <2>2
<1> QED BY <1>7, <1>8, <1>9, <1>10, <1>11

-----------------------------------------------------------------------------
(* Output, and the theorems. *)

\* An end that moves with its line stays an end: on a line that is still there, on a
\* row, or at the top.
LEMMA EndMovedIn ==
    ASSUME NEW c, NEW end, end \in EndType, EndIn(c, end), c.count \in 0..SbMax,
           NEW evicted \in {0, 1}, evicted = 1 <=> c.count >= SbMax,
           NEW count, count = c.count + 1 - evicted
    PROVE  /\ EndMoved(end, count, evicted) \in EndType
           /\ \/ EndMoved(end, count, evicted).line \in 1..count
                 /\ EndMoved(end, count, evicted).y \in {0, TOP}
              \/ EndMoved(end, count, evicted).line = NULL
                 /\ EndMoved(end, count, evicted).y \in (-1)..(SizeY - 1)
<1>1. /\ SbMax \in Nat /\ SizeY \in Nat \ {0} /\ c.count \in Nat /\ count \in Nat
      /\ end = [line |-> end.line, x |-> end.x, y |-> end.y]
      /\ end.line \in Nat /\ end.x \in Columns /\ end.y \in Int
      BY SelectionAssumption DEF EndType
<1>2. CASE end.line # NULL /\ end.line > evicted
  <2>1. EndMoved(end, count, evicted) = [line |-> end.line - evicted, x |-> end.x, y |-> end.y]
        BY <1>1, <1>2 DEF EndMoved
  <2>2. end.line \in 1..c.count /\ end.y \in {0, TOP} BY <1>2 DEF EndIn
  <2>3. end.line - evicted \in 1..count BY <1>1, <1>2, <2>2
  <2> QED BY <1>1, <2>1, <2>2, <2>3 DEF EndType
<1>3. CASE end.line # NULL /\ ~(end.line > evicted)
  <2>1. EndMoved(end, count, evicted) = [line |-> NULL, x |-> end.x, y |-> TOP]
        BY <1>1, <1>3 DEF EndMoved
  <2> QED BY <1>1, <2>1 DEF EndType, NULL, TOP
<1>4. CASE end.line = NULL /\ end.y > 0
  <2>1. EndMoved(end, count, evicted) = [line |-> NULL, x |-> end.x, y |-> end.y - 1]
        BY <1>1, <1>4 DEF EndMoved
  <2>2. end.y \in (-1)..(SizeY - 1) BY <1>4 DEF EndIn, NULL
  <2> QED BY <1>1, <1>4, <2>1, <2>2 DEF EndType, NULL, TOP
<1>5. CASE end.line = NULL /\ end.y = 0
  <2>1. EndMoved(end, count, evicted) = [line |-> count, x |-> end.x, y |-> TOP]
    <3>1. ~(end.line # NULL) /\ ~(end.y > 0) BY <1>5
    <3>2. EndMoved(end, count, evicted) = [end EXCEPT !.line = count, !.y = TOP]
          BY <1>5, <3>1 DEF EndMoved
    <3> QED BY <1>1, <3>2
  <2>2. count = 0 \/ count \in 1..count BY <1>1
  <2> QED BY <1>1, <2>1, <2>2 DEF EndType, NULL, TOP
<1>6. CASE end.line = NULL /\ end.y < 0
  <2>1. EndMoved(end, count, evicted) = end BY <1>1, <1>6 DEF EndMoved
  <2>2. end.y \in (-1)..(SizeY - 1) BY <1>6 DEF EndIn, NULL
  <2> QED BY <1>1, <1>6, <2>1, <2>2 DEF EndType, NULL, TOP
<1> QED BY <1>1, <1>2, <1>3, <1>4, <1>5, <1>6

LEMMA OutputDraws ==
    ASSUME IInv, Output
    PROVE  /\ \E d : DisplayOK(d) /\ Becomes(RenderUpdate(AllAged(IncAge(d))))
           /\ UNCHANGED mouse
<1> DEFINE evicted == IF Full(con) THEN 1 ELSE 0
           count == con.count + 1 - evicted
           Moved(end) == IF con.active THEN EndMoved(end, count, evicted) ELSE end
           c == [con EXCEPT !.count = count, !.start = Moved(@), !.end = Moved(@)]
           d == [Display EXCEPT !.con = c]
<1>1. /\ con \in ConType /\ con.pos <= con.count /\ due \subseteq Cells /\ shown \subseteq Cells
      /\ con.active => EndIn(con, con.start) /\ EndIn(con, con.end)
      BY DEF IInv, DisplayOK, DisplayType, Display, Sound
<1>2. /\ con.count \in 0..SbMax /\ con.pos \in Nat /\ con.active \in BOOLEAN
      /\ con.fresh \in BOOLEAN /\ con.start \in EndType /\ con.end \in EndType
      /\ SbMax \in Nat
      BY <1>1, SelectionAssumption DEF ConType
<1>3. /\ evicted \in {0, 1} /\ (evicted = 1 <=> con.count >= SbMax)
      /\ count \in 0..SbMax /\ con.count <= count
      BY <1>2 DEF Full
<1>4. ASSUME NEW end \in EndType, con.active => EndIn(con, end)
      PROVE  /\ Moved(end) \in EndType
             /\ con.active => \/ Moved(end).line \in 1..count /\ Moved(end).y \in {0, TOP}
                              \/ Moved(end).line = NULL /\ Moved(end).y \in (-1)..(SizeY - 1)
  <2> HIDE DEF evicted
  <2>1. CASE con.active BY <1>2, <1>3, <1>4, <2>1, EndMovedIn
  <2>2. CASE ~con.active BY <1>4, <2>2
  <2> QED BY <2>1, <2>2
<1>5. /\ Moved(con.start) \in EndType /\ Moved(con.end) \in EndType
      /\ con.active =>
             /\ \/ Moved(con.start).line \in 1..count /\ Moved(con.start).y \in {0, TOP}
                \/ Moved(con.start).line = NULL /\ Moved(con.start).y \in (-1)..(SizeY - 1)
             /\ \/ Moved(con.end).line \in 1..count /\ Moved(con.end).y \in {0, TOP}
                \/ Moved(con.end).line = NULL /\ Moved(con.end).y \in (-1)..(SizeY - 1)
      BY <1>1, <1>2, <1>4
<1> HIDE DEF evicted, count, Moved
<1>6. /\ c \in ConType
      /\ c.count = count /\ c.pos = con.pos /\ c.active = con.active
      /\ c.start = Moved(con.start) /\ c.end = Moved(con.end)
  <2> DEFINE s == Moved(con.start)
             e == Moved(con.end)
  <2>1. s \in EndType /\ e \in EndType BY <1>5
  <2>2. c = [con EXCEPT !.count = count, !.start = s, !.end = e] OBVIOUS
  <2> HIDE DEF s, e
  <2>3. /\ c \in ConType /\ c.count = count /\ c.pos = con.pos /\ c.active = con.active
        /\ c.start = s /\ c.end = e
        BY <1>1, <1>3, <2>1, <2>2 DEF ConType
  <2> QED BY <2>3 DEF s, e
<1>8. c.pos <= c.count BY <1>1, <1>2, <1>3, <1>6
<1>9. c.active => EndIn(c, c.start) /\ EndIn(c, c.end) BY <1>5, <1>6 DEF EndIn
<1> HIDE DEF c
<1>10. DisplayOK(d) BY <1>1, <1>6, <1>8, <1>9 DEF DisplayOK, DisplayType, Display, Sound
<1>11. Becomes(RenderUpdate(AllAged(IncAge(d)))) /\ UNCHANGED mouse
       BY DEF Output, c, Moved, count, evicted
<1> HIDE DEF d
<1> QED BY <1>10, <1>11

LEMMA OutputOK == ASSUME IInv, Output PROVE IInv'
<1>1. PICK d : DisplayOK(d) /\ Becomes(RenderUpdate(AllAged(IncAge(d)))) BY OutputDraws
<1>2. DisplayOK(RenderUpdate(AllAged(IncAge(d)))) BY <1>1, AgedOK, RenderedOK
<1>3. DisplayOK(Display)'
      BY <1>1, <1>2 DEF Becomes, Display, DisplayOK, DisplayType
<1> QED BY <1>3, OutputDraws DEF IInv

LEMMA ScrollViewOK == ASSUME IInv, ScrollView PROVE IInv'
<1>1. PICK delta \in -SbMax..SbMax :
          LET top == (IF con.pos = NULL THEN con.count + 1 ELSE con.pos) + delta
              c == [con EXCEPT !.pos = IF top = con.count + 1 THEN NULL ELSE top]
              d == AllAged(IncAge([Display EXCEPT !.con = c]))
          IN  /\ delta # 0 /\ top \in 1..(con.count + 1)
              /\ Becomes(IF delta \in -SizeY..SizeY /\ delta \notin {-SizeY, SizeY}
                         THEN RenderScroll(d, delta) ELSE RenderUpdate(d))
              /\ UNCHANGED mouse
      BY DEF ScrollView
<1> DEFINE top == (IF con.pos = NULL THEN con.count + 1 ELSE con.pos) + delta
           pos == IF top = con.count + 1 THEN NULL ELSE top
           c == [con EXCEPT !.pos = pos]
           d == [Display EXCEPT !.con = c]
           e == AllAged(IncAge(d))
<1>2. /\ con \in ConType /\ due \subseteq Cells /\ shown \subseteq Cells
      /\ con.active => EndIn(con, con.start) /\ EndIn(con, con.end)
      BY DEF IInv, DisplayOK, DisplayType, Display, Sound
<1>3. con.count \in Nat /\ con.pos \in Nat /\ delta \in Int /\ SbMax \in Nat
      BY <1>2, SelectionAssumption DEF ConType
<1>4. pos \in 0..con.count BY <1>1, <1>3 DEF NULL
<1> HIDE DEF pos
<1>5. c \in ConType /\ Sound(c) BY <1>2, <1>3, <1>4 DEF ConType, Sound, EndIn
<1> HIDE DEF c
<1>6. DisplayOK(d) BY <1>2, <1>5 DEF DisplayOK, DisplayType, Display
<1> HIDE DEF d
<1>7. DisplayOK(e) BY <1>6, AgedOK
<1>8. /\ \/ Becomes(RenderScroll(e, delta)) \/ Becomes(RenderUpdate(e))
      /\ UNCHANGED mouse
      BY <1>1 DEF d, c, pos
<1> HIDE DEF e
<1>9. DisplayOK(RenderScroll(e, delta)) /\ DisplayOK(RenderUpdate(e))
      BY <1>3, <1>7, ScrolledOK, RenderedOK
<1>10. DisplayOK(Display)' BY <1>8, <1>9 DEF Becomes, Display, DisplayOK, DisplayType
<1> QED BY <1>8, <1>10 DEF IInv

\* Whatever the mouse and the output do.
LEMMA StepOK == ASSUME IInv, [Next]_vars PROVE IInv'
<1>1. DisplayOK(Display) BY DEF IInv
<1>2. mouse \in [mode : {"default", "movecursor", "marktext"}, clicks : 0..2,
                 at : Cells, prev : Cells]
      BY DEF IInv
<1>3. ASSUME NEW d, DisplayOK(d), Becomes(RenderUpdate(d))
      PROVE  DisplayOK(Display)'
  <2>1. DisplayOK(RenderUpdate(d)) BY <1>3, RenderedOK
  <2> QED BY <1>3, <2>1 DEF Becomes, Display, DisplayOK, DisplayType
<1>4. mouse.at \in Cells BY <1>2
<1>5. ASSUME Press PROVE IInv'
  <2>1. PICK cell \in Cells :
            /\ Becomes(RenderUpdate(ResetSelection(Display)))
            /\ mouse' = [mouse EXCEPT !.mode = "movecursor", !.clicks = 1, !.at = cell]
        BY <1>5 DEF Press
  <2>2. DisplayOK(ResetSelection(Display)) BY <1>1, CallsOK
  <2>3. DisplayOK(Display)' BY <1>3, <2>1, <2>2
  <2>4. mouse' \in [mode : {"default", "movecursor", "marktext"}, clicks : 0..2,
                    at : Cells, prev : Cells]
    <3>1. mouse' = [mouse EXCEPT !.mode = "movecursor", !.clicks = 1, !.at = cell] BY <2>1
    <3>2. cell \in Cells /\ 1 \in 0..2 OBVIOUS
    <3> QED BY <1>2, <3>1, <3>2
  <2> QED BY <2>3, <2>4 DEF IInv
<1>6. ASSUME DoubleClick PROVE IInv'
      BY <1>1, <1>2, <1>3, <1>4, <1>6, CallsOK DEF IInv, DoubleClick
<1>7. ASSUME TripleClick PROVE IInv'
      BY <1>1, <1>2, <1>3, <1>4, <1>7, CallsOK DEF IInv, TripleClick
<1>8. ASSUME Release PROVE IInv'
  <2>1. DisplayOK(Display)' BY <1>1, <1>8 DEF Release, Display, DisplayOK, DisplayType, Sound,
                                            ConType, EndIn
  <2> QED BY <1>2, <1>8, <2>1 DEF IInv, Release
<1>9. ASSUME Mark PROVE IInv'
      BY <1>1, <1>2, <1>3, <1>4, <1>9, CallsOK DEF IInv, Mark
<1>10. ASSUME Drag PROVE IInv'
  <2>1. PICK cell \in Cells :
            /\ Becomes(RenderUpdate(TargetSelection(Display, cell[2], cell[1])))
            /\ mouse' = [mouse EXCEPT !.prev = cell]
        BY <1>10 DEF Drag
  <2>2. DisplayOK(TargetSelection(Display, cell[2], cell[1])) BY <1>1, CallsOK
  <2>3. DisplayOK(Display)' BY <1>3, <2>1, <2>2
  <2>4. mouse' \in [mode : {"default", "movecursor", "marktext"}, clicks : 0..2,
                    at : Cells, prev : Cells]
    <3>1. mouse' = [mouse EXCEPT !.prev = cell] BY <2>1
    <3>2. cell \in Cells OBVIOUS
    <3> QED BY <1>2, <3>1, <3>2
  <2> QED BY <2>3, <2>4 DEF IInv
<1>11. ASSUME UNCHANGED vars PROVE IInv'
       BY <1>11 DEF vars, IInv, Display, DisplayOK, DisplayType, Sound, ConType, EndIn
<1> QED BY <1>5, <1>6, <1>7, <1>8, <1>9, <1>10, <1>11, OutputOK, ScrollViewOK DEF Next

LEMMA InitOK == Init => IInv
<1> SUFFICES ASSUME Init PROVE IInv OBVIOUS
<1>1. 0 \in Columns /\ 0 \in Rows /\ SbMax \in Nat
      BY SelectionAssumption DEF Columns, Rows
<1>2. Sound(con) BY <1>1 DEF Init, Sound, ConType, EndType, NULL
<1>3. <<0, 0>> \in Cells BY <1>1 DEF Cells
<1> QED BY <1>2, <1>3 DEF Init, IInv, DisplayOK, DisplayType, Display, Sound

LEMMA Inductive == Spec => []IInv
BY InitOK, StepOK, PTL DEF Spec

\* Ends stay on lines, rows and columns there are, and what is due or shown is a cell,
\* for every size, however long output scrolls and the mouse marks (tsm-selection.c).
THEOREM SelectionTypes == Spec => []TypeOK
<1>1. IInv => TypeOK
      BY DEF IInv, DisplayOK, DisplayType, Display, Sound, ConType, EndType, EndIn, TypeOK, EndOK
<1> QED BY <1>1, Inductive, PTL

\* What is highlighted is what is copied: the loop of tsm_screen_draw that toggles at
\* each end it meets, and tsm_screen_selection_copy, which puts the ends in order
\* first, find the same cells (tsm-render.c:85, tsm-selection.c:304).
THEOREM HighlightMeansCopied == Spec => []HighlightIsCopied
<1>1. IInv => HighlightIsCopied
  <2> SUFFICES ASSUME IInv, con.active, ~TopInView
               PROVE  Highlighted(con) = CopiedInView
      BY DEF HighlightIsCopied
  <2>1. Sound(con) BY DEF IInv, DisplayOK, Display
  <2>2. Placed(con, con.start) /\ Placed(con, con.end)
        BY <2>1 DEF Sound, ConType, Placed, TopInView
  <2>3. ASSUME NEW cell \in Cells
        PROVE  cell \in Highlighted(con) <=> cell \in CopiedInView
    <3>1. cell[1] \in Rows /\ cell[2] \in Columns /\ cell = <<cell[1], cell[2]>> BY DEF Cells
    <3>2. LineShown(cell[1]) = FirstShown(con) + cell[1] BY DEF LineShown, FirstShown
    <3> QED BY <2>1, <2>2, <3>1, <3>2, SoundIsCopied DEF CopiedInView
  <2>4. Highlighted(con) \subseteq Cells /\ CopiedInView \subseteq Cells
        BY DEF Highlighted, CopiedInView
  <2> QED BY <2>3, <2>4
<1> QED BY <1>1, Inductive, PTL

-----------------------------------------------------------------------------
(* The window. *)

\* The cell x of line n is at one of two ends, or between them, in whichever order.
Mid(c, a, b, n, x) ==
    \/ On(c, a, n, x) \/ On(c, b, n, x)
    \/ Passed(c, a, n, x) # Passed(c, b, n, x)

\* selection_age: a row begins between the ends when one of them is above it.
LEMMA AgedIsBetween ==
    ASSUME NEW c, Sound(c), NEW a, NEW b, Placed(c, a), Placed(c, b),
           NEW i \in Rows, NEW x \in Columns
    PROVE  <<i, x>> \in AgedCells(c, a, b) <=> Mid(c, a, b, FirstShown(c) + i, x)
<1> DEFINE n == FirstShown(c) + i
           above == {e \in {1, 2} : IsAbove(c, IF e = 1 THEN a ELSE b)}
           Single(r) == IsAt(c, a, r) # IsAt(c, b, r)
           rows == {r \in Rows : r < i /\ Single(r)}
           inSel == Odd(Cardinality(above) + Cardinality(rows))
           Row(end) == Number(c, end) - FirstShown(c)
           One(p) == IF p THEN 1 ELSE 0
<1>1. /\ Number(c, a) \in Nat /\ Number(c, b) \in Nat /\ FirstShown(c) \in Nat
      /\ a.x \in Columns /\ b.x \in Columns /\ i \in Nat /\ n \in Nat
      /\ Row(a) \in Int /\ Row(b) \in Int
      BY NumberType DEF Placed, EndType, Rows
<1>2. \A r \in Rows : /\ IsAt(c, a, r) <=> Row(a) = r
                      /\ IsAt(c, b, r) <=> Row(b) = r
  <2> SUFFICES ASSUME NEW r \in Rows PROVE /\ IsAt(c, a, r) <=> Row(a) = r
                                           /\ IsAt(c, b, r) <=> Row(b) = r
      OBVIOUS
  <2>1. /\ IsAt(c, a, r) <=> Number(c, a) = FirstShown(c) + r
        /\ IsAt(c, b, r) <=> Number(c, b) = FirstShown(c) + r
        BY AtIsNumber
  <2> QED BY <1>1, <2>1 DEF Rows
<1>12. \A r \in Rows : Single(r) <=> ~(Row(a) = r <=> Row(b) = r)
  <2>1. \A r : IsAt(c, a, r) \in BOOLEAN /\ IsAt(c, b, r) \in BOOLEAN BY DEF IsAt
  <2> QED BY <1>2, <2>1
<1>3. /\ IsAbove(c, a) <=> Row(a) < 0
      /\ IsAbove(c, b) <=> Row(b) < 0
  <2>1. /\ IsAbove(c, a) <=> Number(c, a) < FirstShown(c)
        /\ IsAbove(c, b) <=> Number(c, b) < FirstShown(c)
        BY AboveIsNumber
  <2> QED BY <1>1, <2>1
<1>4. Cardinality(above) = One(Row(a) < 0) + One(Row(b) < 0)
  <2> DEFINE u == 1
             v == 2
  <2>1. u \in above <=> Row(a) < 0 BY <1>3
  <2>2. v \in above <=> Row(b) < 0 BY <1>3
  <2>3. above \subseteq {u, v} /\ u # v OBVIOUS
  <2> HIDE DEF above, Row, u, v
  <2> QED BY <2>1, <2>2, <2>3, PairCount
<1> DEFINE Early(end) == 0 <= Row(end) /\ Row(end) < i
<1>5. Cardinality(rows) = IF Row(a) = Row(b) THEN 0 ELSE One(Early(a)) + One(Early(b))
  <2>1. CASE Row(a) = Row(b)
    <3>1. rows = {} BY <1>12, <2>1
    <3> HIDE DEF rows
    <3> QED BY <2>1, <3>1, FS_EmptySet
  <2>2. CASE Row(a) # Row(b)
    <3>1. \A r \in Int : r \in Rows /\ r < i <=> 0 <= r /\ r < i
          BY SelectionAssumption DEF Rows
    <3>2. Row(a) \in rows <=> Early(a) BY <1>1, <1>12, <2>2, <3>1
    <3>3. Row(b) \in rows <=> Early(b) BY <1>1, <1>12, <2>2, <3>1
    <3>4. rows \subseteq {Row(a), Row(b)} BY <1>12
    <3> HIDE DEF rows, Row, Early
    <3> QED BY <2>2, <3>2, <3>3, <3>4, PairCount
  <2> QED BY <2>1, <2>2
<1>6. inSel <=> (Row(a) < i) # (Row(b) < i)
  <2>1. CASE Row(a) = Row(b)
    <3>1. Cardinality(above) + Cardinality(rows) \in {0, 2} BY <1>4, <1>5, <2>1
    <3> HIDE DEF above, rows, Row
    <3> QED BY <2>1, <3>1, OddUpToTwo
  <2>2. CASE Row(a) # Row(b)
    <3>1. Cardinality(above) + Cardinality(rows) = One(Row(a) < i) + One(Row(b) < i)
          BY <1>1, <1>4, <1>5, <2>2
    <3> HIDE DEF above, rows, Row
    <3> QED BY <3>1, OddUpToTwo
  <2> QED BY <2>1, <2>2
<1>7. Cardinality(above) = 2 <=> Row(a) < 0 /\ Row(b) < 0 BY <1>4
<1>8. <<i, x>> \in AgedCells(c, a, b) <=>
          /\ Cardinality(above) # 2
          /\ IF IsAt(c, a, i) /\ IsAt(c, b, i)
             THEN Least(a.x, b.x) <= x /\ x <= Greatest(a.x, b.x)
             ELSE IF Single(i)
             THEN IF inSel THEN x <= (IF IsAt(c, a, i) THEN a.x ELSE b.x)
                  ELSE x >= (IF IsAt(c, a, i) THEN a.x ELSE b.x)
             ELSE inSel
  <2>1. <<i, x>> \in Cells BY DEF Cells
  <2> QED BY <2>1 DEF AgedCells
<1>9. /\ IsAt(c, a, i) <=> Row(a) = i
      /\ IsAt(c, b, i) <=> Row(b) = i
      BY <1>2
<1>10. /\ Passed(c, a, n, x) <=> Row(a) < i \/ (Row(a) = i /\ a.x < x)
       /\ Passed(c, b, n, x) <=> Row(b) < i \/ (Row(b) = i /\ b.x < x)
       /\ On(c, a, n, x) <=> Row(a) = i /\ a.x = x
       /\ On(c, b, n, x) <=> Row(b) = i /\ b.x = x
       BY <1>1 DEF Passed, On
<1>11. x \in Nat /\ a.x \in Nat /\ b.x \in Nat BY <1>1 DEF Columns
<1> HIDE DEF above, rows, inSel, Row, n
<1>13. Single(i) <=> ~(Row(a) = i <=> Row(b) = i) BY <1>12
<1>14. Mid(c, a, b, n, x) <=>
          \/ Row(a) = i /\ a.x = x
          \/ Row(b) = i /\ b.x = x
          \/ ~((Row(a) < i \/ (Row(a) = i /\ a.x < x)) <=> (Row(b) < i \/ (Row(b) = i /\ b.x < x)))
  <2>1. /\ Passed(c, a, n, x) \in BOOLEAN /\ Passed(c, b, n, x) \in BOOLEAN
        BY DEF Passed
  <2> QED BY <1>10, <2>1 DEF Mid
<1> HIDE DEF Single
<1>15. <<i, x>> \in AgedCells(c, a, b) <=>
          /\ ~(Row(a) < 0 /\ Row(b) < 0)
          /\ IF Row(a) = i /\ Row(b) = i
             THEN Least(a.x, b.x) <= x /\ x <= Greatest(a.x, b.x)
             ELSE IF ~(Row(a) = i <=> Row(b) = i)
             THEN IF inSel THEN x <= (IF Row(a) = i THEN a.x ELSE b.x)
                  ELSE x >= (IF Row(a) = i THEN a.x ELSE b.x)
             ELSE inSel
       BY <1>7, <1>8, <1>9, <1>13
<1>16. <<i, x>> \in AgedCells(c, a, b) <=> Mid(c, a, b, n, x)
  <2>1. CASE Row(a) = i /\ Row(b) = i
        BY <1>1, <1>11, <1>14, <1>15, <2>1 DEF Least, Greatest
  <2>2. CASE Row(a) = i /\ Row(b) # i
        BY <1>1, <1>6, <1>11, <1>14, <1>15, <2>2
  <2>3. CASE Row(a) # i /\ Row(b) = i
        BY <1>1, <1>6, <1>11, <1>14, <1>15, <2>3
  <2>4. CASE Row(a) # i /\ Row(b) # i
        BY <1>1, <1>6, <1>14, <1>15, <2>4
  <2> QED BY <2>1, <2>2, <2>3, <2>4
<1> QED BY <1>16 DEF n

LEMMA HighlightedIsMid ==
    ASSUME NEW c, Sound(c), c.active, Placed(c, c.start), Placed(c, c.end),
           NEW cell \in Cells
    PROVE  cell \in Highlighted(c) <=> Mid(c, c.start, c.end, FirstShown(c) + cell[1], cell[2])
<1>1. cell[1] \in Rows /\ cell[2] \in Columns /\ cell = <<cell[1], cell[2]>> BY DEF Cells
<1> QED BY <1>1, HighlightedIsBetween DEF Mid

\* A cell that is due, or right already, is right after the next drawing.
LEMMA DrawingShows ==
    ASSUME NEW d, DisplayOK(d), NEW miny, NEW maxy,
           \A cell \in Cells : (cell \in d.due /\ miny <= cell[1] /\ cell[1] <= maxy)
                               \/ (cell \in d.shown <=> cell \in Highlighted(d.con))
    PROVE  Rendered(d, miny, maxy).shown = Highlighted(Rendered(d, miny, maxy).con)
<1> DEFINE r == Rendered(d, miny, maxy)
<1>1. r.con = [d.con EXCEPT !.fresh = FALSE] BY DEF Rendered
<1>2. Highlighted(r.con) = Highlighted(d.con)
  <2>1. /\ r.con.active = d.con.active /\ r.con.start = d.con.start /\ r.con.end = d.con.end
        /\ r.con.pos = d.con.pos /\ r.con.count = d.con.count
        BY <1>1 DEF DisplayOK, Sound, ConType
  <2> HIDE DEF r
  <2> QED BY <2>1 DEF Highlighted, InSel, Marks, Ends, IsAt, IsAbove, LineAt, Taken
<1>3. Highlighted(d.con) \subseteq Cells /\ d.shown \subseteq Cells
      BY DEF Highlighted, DisplayOK, DisplayType
<1>4. r.shown = (d.shown \ {cell \in d.due : miny <= cell[1] /\ cell[1] <= maxy})
                \cup (Highlighted(d.con) \cap {cell \in d.due : miny <= cell[1] /\ cell[1] <= maxy})
      BY DEF Rendered
<1> HIDE DEF r
<1>5. \A cell \in Cells : cell \in r.shown <=> cell \in Highlighted(d.con) BY <1>4
<1>6. r.shown \subseteq Cells BY <1>3, <1>4
<1> QED BY <1>2, <1>3, <1>5, <1>6 DEF r

LEMMA UpdateShows ==
    ASSUME NEW d, DisplayOK(d),
           \A cell \in Cells : cell \in d.due \/ (cell \in d.shown <=> cell \in Highlighted(d.con))
    PROVE  RenderUpdate(d).shown = Highlighted(RenderUpdate(d).con)
<1>1. \A cell \in Cells : 0 <= cell[1] /\ cell[1] <= SizeY - 1
      BY SelectionAssumption DEF Cells, Rows
<1> QED BY <1>1, DrawingShows DEF RenderUpdate

\* What was highlighted is due once the old selection has been aged.
LEMMA OldIsDue ==
    ASSUME NEW d, DisplayOK(d), d.shown = Highlighted(d.con),
           d.con.active => Placed(d.con, d.con.start) /\ Placed(d.con, d.con.end)
    PROVE  LET o == OldAge(IncAge(d))
           IN  /\ DisplayOK(o) /\ o.shown = d.shown /\ o.con = [d.con EXCEPT !.fresh = TRUE]
               /\ \A cell \in d.shown : cell \in o.due
<1> DEFINE f == IncAge(d)
           o == OldAge(f)
<1>1. DisplayOK(f) /\ f.con = [d.con EXCEPT !.fresh = TRUE] /\ f.shown = d.shown
      BY AgedOK DEF DisplayOK, DisplayType, IncAge
<1>2. /\ f.con.start = d.con.start /\ f.con.end = d.con.end /\ f.con.active = d.con.active
      /\ f.con.pos = d.con.pos /\ f.con.count = d.con.count /\ f.con.fresh
      BY <1>1 DEF DisplayOK, Sound, ConType
<1> HIDE DEF f
<1>3. DisplayOK(o) /\ o.con = f.con BY <1>1, AgedOK
<1>4. o.shown = f.shown BY DEF OldAge, SelectionAge, DisplayOK, DisplayType
<1>5. CASE ~d.con.active
  <2>1. d.shown = {} BY <1>5 DEF Highlighted
  <2> QED BY <1>1, <1>3, <1>4, <2>1 DEF f
<1>6. CASE d.con.active
  <2>1. o.due = f.due \cup AgedCells(f.con, f.con.start, f.con.end)
        BY <1>1, <1>2, <1>6 DEF OldAge, SelectionAge, DisplayOK, DisplayType
  <2>2. Sound(d.con) /\ Sound(f.con) BY <1>1 DEF DisplayOK
  <2>3. Placed(d.con, d.con.start) /\ Placed(d.con, d.con.end) BY <1>6
  <2>4. Placed(f.con, d.con.start) /\ Placed(f.con, d.con.end)
        BY <1>2, <2>3 DEF Placed, EndIn
  <2>5. ASSUME NEW cell \in d.shown PROVE cell \in o.due
    <3>1. cell \in Cells BY DEF Highlighted
    <3>2. cell[1] \in Rows /\ cell[2] \in Columns /\ cell = <<cell[1], cell[2]>>
          BY <3>1 DEF Cells
    <3>3. Mid(d.con, d.con.start, d.con.end, FirstShown(d.con) + cell[1], cell[2])
          BY <1>6, <2>2, <2>3, <3>1, HighlightedIsMid
    <3>4. Mid(f.con, d.con.start, d.con.end, FirstShown(f.con) + cell[1], cell[2])
          BY <1>2, <3>3 DEF Mid, On, Passed, Number, FirstShown
    <3>5. cell \in AgedCells(f.con, d.con.start, d.con.end)
          BY <2>2, <2>4, <3>2, <3>4, AgedIsBetween
    <3> QED BY <1>2, <2>1, <3>5
  <2> QED BY <1>1, <1>3, <1>4, <2>5 DEF f
<1> QED BY <1>5, <1>6

\* The new selection is due once it is set.
LEMMA NewIsDue ==
    ASSUME NEW d, DisplayOK(d), d.con.fresh = TRUE, d.shown \subseteq d.due,
           NEW start, NEW end, Placed(d.con, start), Placed(d.con, end)
    PROVE  LET s == Selected(d, start, end)
           IN  RenderUpdate(s).shown = Highlighted(RenderUpdate(s).con)
<1> DEFINE n == [d.con EXCEPT !.active = TRUE, !.start = start, !.end = end]
           m == [d EXCEPT !.con = n]
           s == Selected(d, start, end)
<1>1. /\ start \in EndType /\ end \in EndType
      /\ EndIn(d.con, start) /\ EndIn(d.con, end)
      BY DEF Placed
<1>2. DisplayOK(s) BY <1>1, SelectedOK
<1>3. /\ n.active /\ n.start = start /\ n.end = end /\ n.fresh
      /\ n.pos = d.con.pos /\ n.count = d.con.count
      BY DEF DisplayOK, DisplayType, ConType
<1>4. /\ m.con = n /\ m.due = d.due /\ m.shown = d.shown /\ s = SelectionAge(m, start, end)
      BY DEF DisplayOK, DisplayType, Selected
<1>5. m \in DisplayType BY <1>1 DEF DisplayOK, DisplayType, ConType
<1> HIDE DEF n, m, s
<1>6. s.con = n /\ s.shown = d.shown /\ s.due = d.due \cup AgedCells(n, start, end)
      BY <1>3, <1>4, <1>5 DEF SelectionAge, DisplayType
<1>7. Sound(n) /\ Placed(n, start) /\ Placed(n, end)
      BY <1>2, <1>3, <1>6 DEF DisplayOK, Placed, EndIn
<1>8. ASSUME NEW cell \in Cells
      PROVE  cell \in s.due \/ (cell \in s.shown <=> cell \in Highlighted(s.con))
  <2>1. cell[1] \in Rows /\ cell[2] \in Columns /\ cell = <<cell[1], cell[2]>> BY DEF Cells
  <2>2. cell \in Highlighted(n) => cell \in AgedCells(n, start, end)
        BY <1>3, <1>7, <2>1, HighlightedIsMid, AgedIsBetween
  <2> QED BY <1>6, <2>2
<1> QED BY <1>2, <1>8, UpdateShows DEF s

\* The button selects places, not the top of everything.
LEMMA SetIsPlaced ==
    ASSUME NEW c, Sound(c), NEW x \in Columns, NEW y \in Rows
    PROVE  Placed(c, SelectionSet(c, x, y))
<1>1. SelectionSet(c, x, y) \in EndType /\ EndIn(c, SelectionSet(c, x, y)) BY SetIsIn
<1>2. ~AtTop(SelectionSet(c, x, y))
      BY SelectionAssumption DEF SelectionSet, AtTop, Sound, ConType, Rows, NULL, TOP
<1> QED BY <1>1, <1>2 DEF Placed

LEMMA StartShows ==
    ASSUME NEW d, DisplayOK(d), d.shown = Highlighted(d.con),
           d.con.active => Placed(d.con, d.con.start) /\ Placed(d.con, d.con.end),
           NEW x \in Columns, NEW y \in Rows
    PROVE  LET s == RenderUpdate(StartSelection(d, x, y)) IN s.shown = Highlighted(s.con)
<1> DEFINE o == OldAge(IncAge(d))
           e == SelectionSet(d.con, x, y)
<1>1. /\ DisplayOK(o) /\ o.shown = d.shown /\ o.con = [d.con EXCEPT !.fresh = TRUE]
      /\ o.shown \subseteq o.due
      BY OldIsDue
<1> HIDE DEF o
<1>2. o.con.fresh = TRUE /\ o.con.pos = d.con.pos /\ o.con.count = d.con.count
      BY <1>1 DEF DisplayOK, DisplayType, ConType
<1>3. Placed(d.con, e) BY SetIsPlaced DEF DisplayOK
<1> HIDE DEF e
<1>4. Placed(o.con, e) BY <1>2, <1>3 DEF Placed, EndIn
<1>5. StartSelection(d, x, y) = Selected(o, e, e) BY DEF StartSelection, o, e
<1>6. RenderUpdate(Selected(o, e, e)).shown = Highlighted(RenderUpdate(Selected(o, e, e)).con)
  <2>1. DisplayOK(o) BY <1>1
  <2>2. o.con.fresh = TRUE BY <1>2
  <2>3. o.shown \subseteq o.due BY <1>1
  <2>4. Placed(o.con, e) BY <1>4
  <2> QED BY <2>1, <2>2, <2>3, <2>4, NewIsDue
<1> QED BY <1>5, <1>6

LEMMA LineShows ==
    ASSUME NEW d, DisplayOK(d), d.shown = Highlighted(d.con),
           d.con.active => Placed(d.con, d.con.start) /\ Placed(d.con, d.con.end),
           NEW y \in Rows
    PROVE  LET s == RenderUpdate(SelectLine(d, y)) IN s.shown = Highlighted(s.con)
<1> DEFINE o == OldAge(IncAge(d))
           a == SelectionSet(d.con, 0, y)
           b == [a EXCEPT !.x = SizeX - 1]
<1>1. /\ DisplayOK(o) /\ o.shown = d.shown /\ o.con = [d.con EXCEPT !.fresh = TRUE]
      /\ o.shown \subseteq o.due
      BY OldIsDue
<1> HIDE DEF o
<1>2. o.con.fresh = TRUE /\ o.con.pos = d.con.pos /\ o.con.count = d.con.count
      BY <1>1 DEF DisplayOK, DisplayType, ConType
<1>3. 0 \in Columns /\ SizeX - 1 \in Columns BY SelectionAssumption DEF Columns
<1>4. Placed(d.con, a) BY <1>3, SetIsPlaced DEF DisplayOK
<1>5. SelectLine(d, y) = Selected(o, a, b) BY DEF SelectLine, o
<1> HIDE DEF a
<1>6. Placed(d.con, b) BY <1>3, <1>4 DEF Placed, EndType, EndIn, AtTop
<1> HIDE DEF b
<1>7. Placed(o.con, a) /\ Placed(o.con, b) BY <1>2, <1>4, <1>6 DEF Placed, EndIn
<1>8. RenderUpdate(Selected(o, a, b)).shown = Highlighted(RenderUpdate(Selected(o, a, b)).con)
  <2>1. DisplayOK(o) BY <1>1
  <2>2. o.con.fresh = TRUE BY <1>2
  <2>3. o.shown \subseteq o.due BY <1>1
  <2> QED BY <1>7, <2>1, <2>2, <2>3, NewIsDue
<1> QED BY <1>5, <1>8 DEF b

LEMMA ResetShows ==
    ASSUME NEW d, DisplayOK(d), d.shown = Highlighted(d.con),
           d.con.active => Placed(d.con, d.con.start) /\ Placed(d.con, d.con.end)
    PROVE  LET s == RenderUpdate(ResetSelection(d)) IN s.shown = Highlighted(s.con)
<1> DEFINE o == OldAge(IncAge(d))
           r == [o EXCEPT !.con.active = FALSE]
<1>1. CASE ~d.con.active
  <2>1. ResetSelection(d) = d BY <1>1 DEF ResetSelection
  <2> QED BY <2>1, UpdateShows
<1>2. CASE d.con.active
  <2>1. /\ DisplayOK(o) /\ o.shown = d.shown /\ o.con = [d.con EXCEPT !.fresh = TRUE]
        /\ o.shown \subseteq o.due
        BY OldIsDue
  <2>2. ResetSelection(d) = r BY <1>2 DEF ResetSelection
  <2> HIDE DEF o
  <2>3. r.con.active = FALSE /\ r.shown = o.shown /\ r.due = o.due /\ DisplayOK(r)
        BY <2>1 DEF DisplayOK, DisplayType, Sound, ConType
  <2> HIDE DEF r
  <2>4. Highlighted(r.con) = {} BY <2>3 DEF Highlighted
  <2>5. \A cell \in Cells : cell \in r.due \/ (cell \in r.shown <=> cell \in Highlighted(r.con))
        BY <2>1, <2>3, <2>4
  <2> QED BY <2>2, <2>3, <2>5, UpdateShows
<1> QED BY <1>1, <1>2

\* The end moves: what is between the old one and the new one changes, and nothing else.
LEMMA TargetShows ==
    ASSUME NEW d, DisplayOK(d), d.shown = Highlighted(d.con),
           d.con.active => Placed(d.con, d.con.start) /\ Placed(d.con, d.con.end),
           NEW x \in Columns, NEW y \in Rows
    PROVE  LET s == RenderUpdate(TargetSelection(d, x, y)) IN s.shown = Highlighted(s.con)
<1>1. CASE ~d.con.active
  <2>1. TargetSelection(d, x, y) = d BY <1>1 DEF TargetSelection
  <2> QED BY <2>1, UpdateShows
<1>2. CASE d.con.active
  <2> DEFINE old == d.con.end
             new == SelectionSet(d.con, x, y)
             n == [d.con EXCEPT !.end = new, !.fresh = TRUE]
             m == IncAge([d EXCEPT !.con.end = new])
             t == TargetSelection(d, x, y)
  <2>1. Placed(d.con, d.con.start) /\ Placed(d.con, old) /\ Placed(d.con, new)
        BY <1>2, SetIsPlaced DEF DisplayOK
  <2>2. t = SelectionAge(m, old, new) BY <1>2 DEF TargetSelection
  <2> HIDE DEF new
  <2>3. /\ n.active /\ n.start = d.con.start /\ n.end = new /\ n.fresh
        /\ n.pos = d.con.pos /\ n.count = d.con.count
        BY <1>2 DEF DisplayOK, DisplayType, ConType
  <2>4. m.con = n /\ m.due = d.due /\ m.shown = d.shown
        BY DEF IncAge, DisplayOK, DisplayType, ConType
  <2>5. m \in DisplayType
        BY <2>1 DEF IncAge, DisplayOK, DisplayType, ConType, Placed
  <2>6. n \in ConType BY <2>4, <2>5 DEF DisplayType
  <2> HIDE DEF n, m, t, old
  <2>7. Sound(d.con) BY DEF DisplayOK
  <2>8. Sound(n) BY <2>1, <2>3, <2>6, <2>7 DEF Sound, Placed, EndIn
  <2>9. Placed(n, d.con.start) /\ Placed(n, old) /\ Placed(n, new)
        BY <2>1, <2>3 DEF Placed, EndIn
  <2>10. t.con = n /\ t.shown = d.shown /\ t.due = d.due \cup AgedCells(n, old, new)
         BY <2>2, <2>3, <2>4, <2>5 DEF SelectionAge, DisplayType
  <2>11. DisplayOK(m) BY <2>4, <2>5, <2>8 DEF DisplayOK
  <2>12. DisplayOK(t) BY <2>2, <2>11, SelectionAgeOK
  <2>13. ASSUME NEW cell \in Cells, cell \notin t.due
         PROVE  cell \in t.shown <=> cell \in Highlighted(t.con)
    <3> DEFINE k == FirstShown(n) + cell[1]
    <3>1. cell[1] \in Rows /\ cell[2] \in Columns /\ cell = <<cell[1], cell[2]>> BY DEF Cells
    <3>2. ~Mid(n, old, new, k, cell[2])
          BY <2>8, <2>9, <2>10, <2>13, <3>1, AgedIsBetween
    <3>3. cell \in Highlighted(n) <=> Mid(n, n.start, new, k, cell[2])
          BY <2>3, <2>8, <2>9, HighlightedIsMid
    <3>4. cell \in Highlighted(d.con) <=>
              Mid(d.con, d.con.start, old, FirstShown(d.con) + cell[1], cell[2])
          BY <1>2, <2>1, <2>7, HighlightedIsMid DEF old
    <3>5. Mid(d.con, d.con.start, old, FirstShown(d.con) + cell[1], cell[2])
             <=> Mid(n, n.start, old, k, cell[2])
          BY <2>3 DEF Mid, On, Passed, Number, FirstShown
    <3>6. Mid(n, n.start, old, k, cell[2]) <=> Mid(n, n.start, new, k, cell[2])
      <4> HIDE DEF k
      <4> QED BY <3>2 DEF Mid, On, Passed
    <3> QED BY <2>10, <3>3, <3>4, <3>5, <3>6
  <2> QED BY <2>12, <2>13, UpdateShows DEF t
<1> QED BY <1>1, <1>2

\* The view moves: the rows that stay shift with their lines, the others are drawn.
LEMMA ScrollShows ==
    ASSUME NEW d, DisplayOK(d), d.shown = Highlighted(d.con),
           d.con.active => Placed(d.con, d.con.start) /\ Placed(d.con, d.con.end),
           NEW delta \in (-SizeY..SizeY) \ {-SizeY, SizeY},
           NEW pos \in Nat, pos <= d.con.count,
           LET c == [d.con EXCEPT !.pos = pos]
           IN  /\ FirstShown(c) = FirstShown(d.con) + delta
               /\ c.active => Placed(c, c.start) /\ Placed(c, c.end)
    PROVE  LET s == RenderScroll(AllAged(IncAge([d EXCEPT !.con.pos = pos])), delta)
           IN  s.shown = Highlighted(s.con)
<1> DEFINE c == [d.con EXCEPT !.pos = pos]
           a == AllAged(IncAge([d EXCEPT !.con.pos = pos]))
           n == a.con
           raster == {cell \in Cells :
                         IF cell[1] + delta \in Rows
                         THEN <<cell[1] + delta, cell[2]>> \in a.shown
                         ELSE cell \in a.shown}
           m == [a EXCEPT !.shown = raster]
<1>1. a \in DisplayType /\ a.due = Cells /\ a.shown = d.shown
      BY DEF AllAged, IncAge, DisplayOK, DisplayType, Sound, ConType
<1>2. /\ n.start = d.con.start /\ n.end = d.con.end /\ n.active = d.con.active
      /\ n.pos = pos /\ n.count = d.con.count
      /\ c.start = d.con.start /\ c.end = d.con.end /\ c.active = d.con.active
      /\ c.pos = pos /\ c.count = d.con.count
      BY DEF AllAged, IncAge, DisplayOK, DisplayType, Sound, ConType
<1>3. RenderScroll(a, delta) = IF delta < 0 THEN Rendered(m, 0, 1 - delta)
                               ELSE Rendered(m, SizeY - delta, SizeY - 1)
      BY DEF RenderScroll
<1> HIDE DEF a
<1>4. Sound(d.con) BY DEF DisplayOK
<1>5. Sound(n) BY <1>1, <1>2, <1>4 DEF Sound, DisplayType, EndIn
<1>6. m.con = n /\ m.due = Cells /\ m.shown = raster /\ DisplayOK(m)
      BY <1>1, <1>5 DEF DisplayType, DisplayOK
<1>7. FirstShown(n) = FirstShown(d.con) + delta BY <1>2 DEF FirstShown
<1>8. n.active => /\ Placed(n, n.start) /\ Placed(n, n.end)
                  /\ Placed(d.con, d.con.start) /\ Placed(d.con, d.con.end)
      BY <1>2 DEF Placed, EndIn
<1>9. ASSUME NEW cell \in Cells, cell[1] + delta \in Rows
      PROVE  cell \in raster <=> cell \in Highlighted(n)
  <2> DEFINE from == <<cell[1] + delta, cell[2]>>
  <2>1. from \in Cells /\ from[1] = cell[1] + delta /\ from[2] = cell[2]
        BY <1>9 DEF Cells
  <2>2. cell \in raster <=> from \in Highlighted(d.con) BY <1>1, <1>9
  <2> HIDE DEF raster, from, n
  <2>3. CASE ~n.active BY <1>2, <2>2, <2>3 DEF Highlighted
  <2>4. CASE n.active
    <3>1. from \in Highlighted(d.con) <=>
              Mid(d.con, d.con.start, d.con.end, FirstShown(d.con) + from[1], from[2])
          BY <1>2, <1>4, <1>8, <2>1, <2>4, HighlightedIsMid
    <3>2. cell \in Highlighted(n) <=>
              Mid(n, n.start, n.end, FirstShown(n) + cell[1], cell[2])
          BY <1>5, <1>8, <2>4, HighlightedIsMid
    <3>3. FirstShown(d.con) \in Int /\ cell[1] \in Int
          BY <1>4 DEF Sound, ConType, FirstShown, Cells, Rows
    <3>4. FirstShown(n) + cell[1] = FirstShown(d.con) + from[1]
          BY <1>7, <2>1, <3>3
    <3>5. Mid(n, n.start, n.end, FirstShown(n) + cell[1], cell[2]) <=>
              Mid(d.con, d.con.start, d.con.end, FirstShown(d.con) + from[1], from[2])
          BY <1>2, <2>1, <3>4 DEF Mid, On, Passed, Number
    <3> QED BY <2>2, <3>1, <3>2, <3>5
  <2> QED BY <2>3, <2>4
<1>10. \A cell \in Cells : cell[1] \in 0..(SizeY - 1) BY DEF Cells, Rows
<1>11. SizeY \in Nat /\ delta \in Int BY SelectionAssumption
<1> HIDE DEF m, n, raster, a
<1>12. CASE delta < 0
  <2>1. ASSUME NEW cell \in Cells
        PROVE  (cell \in m.due /\ 0 <= cell[1] /\ cell[1] <= 1 - delta)
               \/ (cell \in m.shown <=> cell \in Highlighted(m.con))
    <3>1. cell[1] <= 1 - delta \/ cell[1] + delta \in Rows BY <1>10, <1>11, <1>12 DEF Rows
    <3> QED BY <1>6, <1>9, <1>10, <3>1
  <2>2. Rendered(m, 0, 1 - delta).shown = Highlighted(Rendered(m, 0, 1 - delta).con)
        BY <1>6, <2>1, DrawingShows
  <2> QED BY <1>3, <1>12, <2>2 DEF a
<1>13. CASE delta >= 0
  <2>1. ASSUME NEW cell \in Cells
        PROVE  (cell \in m.due /\ SizeY - delta <= cell[1] /\ cell[1] <= SizeY - 1)
               \/ (cell \in m.shown <=> cell \in Highlighted(m.con))
    <3>1. (SizeY - delta <= cell[1] /\ cell[1] <= SizeY - 1) \/ cell[1] + delta \in Rows
          BY <1>10, <1>11, <1>13 DEF Rows
    <3> QED BY <1>6, <1>9, <3>1
  <2>2. /\ Rendered(m, SizeY - delta, SizeY - 1).shown
           = Highlighted(Rendered(m, SizeY - delta, SizeY - 1).con)
        BY <1>6, <2>1, DrawingShows
  <2> QED BY <1>3, <1>11, <1>13, <2>2 DEF a
<1> QED BY <1>11, <1>12, <1>13

\* Everything is drawn after output and after a jump of the view.
LEMMA AllShows ==
    ASSUME NEW d, DisplayOK(d)
    PROVE  LET s == RenderUpdate(AllAged(IncAge(d))) IN s.shown = Highlighted(s.con)
<1> DEFINE a == AllAged(IncAge(d))
<1>1. a.due = Cells BY DEF AllAged, IncAge, DisplayOK, DisplayType
<1>2. DisplayOK(a) BY AgedOK
<1> HIDE DEF a
<1>3. RenderUpdate(a).shown = Highlighted(RenderUpdate(a).con) BY <1>1, <1>2, UpdateShows
<1> QED BY <1>3 DEF a

LEMMA ScrollViewShows ==
    ASSUME IInv, ScrollView, Drawn, ~TopInView, ~TopInView' PROVE Drawn'
<1>1. PICK delta \in -SbMax..SbMax :
          LET top == (IF con.pos = NULL THEN con.count + 1 ELSE con.pos) + delta
              c == [con EXCEPT !.pos = IF top = con.count + 1 THEN NULL ELSE top]
              d == AllAged(IncAge([Display EXCEPT !.con = c]))
          IN  /\ delta # 0 /\ top \in 1..(con.count + 1)
              /\ Becomes(IF delta \in -SizeY..SizeY /\ delta \notin {-SizeY, SizeY}
                         THEN RenderScroll(d, delta) ELSE RenderUpdate(d))
      BY DEF ScrollView
<1> DEFINE top == (IF con.pos = NULL THEN con.count + 1 ELSE con.pos) + delta
           pos == IF top = con.count + 1 THEN NULL ELSE top
           c == [con EXCEPT !.pos = pos]
           d == [Display EXCEPT !.con = c]
           e == AllAged(IncAge(d))
<1>2. /\ DisplayOK(Display) /\ con \in ConType /\ due \subseteq Cells /\ shown \subseteq Cells
      /\ Sound(con) /\ Display.con = con /\ Display.shown = shown
      /\ con.active => EndIn(con, con.start) /\ EndIn(con, con.end)
      BY DEF IInv, DisplayOK, DisplayType, Display, Sound
<1>3. con.count \in Nat /\ con.pos \in Nat /\ delta \in Int /\ SbMax \in Nat
      BY <1>2, SelectionAssumption DEF ConType
<1>4. pos \in 0..con.count BY <1>1, <1>3 DEF NULL
<1>5. FirstShown(con) = top - delta /\ (IF pos = NULL THEN con.count + 1 ELSE pos) = top
      BY <1>1, <1>3 DEF FirstShown, NULL
<1>6. Becomes(IF delta \in -SizeY..SizeY /\ delta \notin {-SizeY, SizeY}
              THEN RenderScroll(e, delta) ELSE RenderUpdate(e))
      BY <1>1 DEF d, c, pos
<1> HIDE DEF pos
<1>7. c.pos = pos /\ c.count = con.count /\ c.active = con.active
      /\ c.start = con.start /\ c.end = con.end
      BY <1>2 DEF ConType
<1>8. c \in ConType /\ Sound(c) BY <1>2, <1>3, <1>4 DEF ConType, Sound, EndIn
<1>9. /\ con'.pos = pos /\ con'.start = con.start /\ con'.end = con.end
  <2>1. con' = [e.con EXCEPT !.fresh = FALSE]
        BY <1>6 DEF Becomes, RenderScroll, RenderUpdate, Rendered
  <2>2. e.con = [c EXCEPT !.fresh = TRUE]
        BY <1>2, <1>8 DEF AllAged, IncAge, Display
  <2> HIDE DEF c, e
  <2> QED BY <1>7, <1>8, <2>1, <2>2 DEF ConType
<1>10. con.active => Placed(con, con.start) /\ Placed(con, con.end)
       BY <1>2 DEF TopInView, Placed, ConType
<1>11. con.active => Placed(c, c.start) /\ Placed(c, c.end)
  <2>1. pos # NULL => ~AtTop(con.start) /\ ~AtTop(con.end)
        BY <1>9 DEF TopInView, AtTop
  <2> HIDE DEF c
  <2> QED BY <1>2, <1>7, <2>1 DEF Placed, ConType, EndIn
<1>12. DisplayOK(d) BY <1>2, <1>8 DEF DisplayOK, DisplayType, Display
<1>13. FirstShown(c) = FirstShown(con) + delta
  <2>1. top \in Int BY <1>3
  <2> HIDE DEF c, top
  <2> QED BY <1>3, <1>5, <1>7, <2>1 DEF FirstShown
<1>14. CASE delta \in -SizeY..SizeY /\ delta \notin {-SizeY, SizeY}
  <2>1. RenderScroll(e, delta).shown = Highlighted(RenderScroll(e, delta).con)
    <3>1. d = [Display EXCEPT !.con.pos = pos] BY DEF Display
    <3>2. c = [Display.con EXCEPT !.pos = pos] BY <1>2
    <3>3. delta \in (-SizeY..SizeY) \ {-SizeY, SizeY} BY <1>14
    <3>4. pos \in Nat /\ pos <= Display.con.count BY <1>2, <1>3, <1>4
    <3>5. Display.shown = Highlighted(Display.con) BY <1>2 DEF Drawn
    <3> HIDE DEF c, d, top
    <3> QED BY <1>2, <1>7, <1>10, <1>11, <1>13, <3>1, <3>2, <3>3, <3>4, <3>5, ScrollShows
  <2> QED BY <1>6, <1>14, <2>1 DEF Becomes, Drawn, Highlighted, InSel
<1>15. CASE ~(delta \in -SizeY..SizeY /\ delta \notin {-SizeY, SizeY})
  <2>1. RenderUpdate(e).shown = Highlighted(RenderUpdate(e).con) BY <1>12, AllShows
  <2> QED BY <1>6, <1>15, <2>1 DEF Becomes, Drawn
<1> QED BY <1>14, <1>15

\* The window shows the selection after every step, unless a double click takes a word
\* or an end has gone above the first line of the scrollback in view: what selection_age
\* finds covers what tsm_screen_draw highlights or stops highlighting
\* (tsm-selection.c:49, tsm-render.c:85), and the window scrolls with the lines.
THEOREM WindowShowsSelection == Spec => OnlyWordsLeaveTraces
<1>1. ASSUME IInv, [Next]_vars, Drawn, ~DoubleClick, ~TopInView, ~TopInView'
      PROVE  Drawn'
  <2>13. DisplayOK(Display) BY <1>1 DEF IInv
  <2>1. DisplayOK(Display) /\ Display.con = con /\ Display.shown = shown
    <3>1. Display.con = con /\ Display.shown = shown BY DEF Display
    <3> QED BY <2>13, <3>1
  <2>2. Display.shown = Highlighted(Display.con) BY <1>1, <2>1 DEF Drawn
  <2>3. Display.con.active => /\ Placed(Display.con, Display.con.start)
                              /\ Placed(Display.con, Display.con.end)
        BY <1>1, <2>1 DEF DisplayOK, Sound, ConType, TopInView, Placed
  <2>4. mouse.at[1] \in Rows /\ mouse.at[2] \in Columns BY <1>1 DEF IInv, Cells
  <2>5. ASSUME NEW d, Becomes(RenderUpdate(d)),
               RenderUpdate(d).shown = Highlighted(RenderUpdate(d).con)
        PROVE  Drawn'
        BY <2>5 DEF Becomes, Drawn
  <2>6. CASE Press
    <3>1. Becomes(RenderUpdate(ResetSelection(Display))) BY <2>6 DEF Press
    <3> QED BY <2>1, <2>2, <2>3, <2>5, <3>1, ResetShows
  <2>7. CASE TripleClick
    <3>1. Becomes(RenderUpdate(SelectLine(Display, mouse.at[1]))) BY <2>7 DEF TripleClick
    <3> QED BY <2>1, <2>2, <2>3, <2>4, <2>5, <3>1, LineShows
  <2>8. CASE Mark
    <3>1. Becomes(RenderUpdate(StartSelection(Display, mouse.at[2], mouse.at[1])))
          BY <2>8 DEF Mark
    <3> QED BY <2>1, <2>2, <2>3, <2>4, <2>5, <3>1, StartShows
  <2>9. CASE Drag
    <3>1. PICK cell \in Cells :
              Becomes(RenderUpdate(TargetSelection(Display, cell[2], cell[1])))
          BY <2>9 DEF Drag
    <3>2. cell[1] \in Rows /\ cell[2] \in Columns BY DEF Cells
    <3> QED BY <2>1, <2>2, <2>3, <2>5, <3>1, <3>2, TargetShows
  <2>10. CASE Output
    <3>1. PICK d : DisplayOK(d) /\ Becomes(RenderUpdate(AllAged(IncAge(d))))
          BY <1>1, <2>10, OutputDraws
    <3> QED BY <2>5, <3>1, AllShows
  <2>11. CASE ScrollView BY <1>1, <2>11, ScrollViewShows
  <2>12. CASE Release \/ UNCHANGED vars
    <3>1. con' = con /\ shown' = shown BY <2>12 DEF Release, vars
    <3> QED BY <1>1, <3>1 DEF Drawn
  <2> QED BY <1>1, <2>6, <2>7, <2>8, <2>9, <2>10, <2>11, <2>12 DEF Next
<1>2. IInv /\ [Next]_vars => (Drawn /\ ~Drawn' => DoubleClick \/ TopInView \/ TopInView')
      BY <1>1
<1> QED BY <1>2, Inductive, PTL DEF Spec, OnlyWordsLeaveTraces

=============================================================================
