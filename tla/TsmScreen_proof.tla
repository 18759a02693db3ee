--------------------------- MODULE TsmScreen_proof ---------------------------
(***************************************************************************)
(* The screen of libtsm/tsm/tsm-screen.c stays in bounds, its view stays   *)
(* in the scrollback, and scrolling moves what it should: for every size,  *)
(* every limit of the scrollback and every count.                          *)
(*                                                                         *)
(* Sound(c) says what the index arithmetic of the code relies on; there is *)
(* a lemma for each operator that makes a screen of a screen, in the order *)
(* in which the model defines them.                                        *)
(***************************************************************************)
EXTENDS TsmScreen, TLAPS, SequenceTheorems, WellFoundedInduction

-----------------------------------------------------------------------------
(* Screens. *)

Flags == {"ALTERNATE", "AUTO_WRAP", "REL_ORIGIN", "INSERT_MODE", "FIXED_POS"}
Marks == Pointer \cup Anchor
Line == {l \in [size : Nat \ {0}, ink : SUBSET Nat, ptr : SUBSET Marks] :
            l.ink \subseteq Columns(l.size)}
RowOrTop == Nat \cup {SelectionTop}

Cons ==
    [main : Seq(Line), alt : Seq(Line), sb : Seq(Line), sb_max : Nat,
     size_x : Nat \ {0}, size_y : Nat \ {0}, margin_top : Nat, margin_bottom : Nat,
     cursor_x : Nat, cursor_y : Nat, flags : SUBSET Flags, sel_active : BOOLEAN,
     y : [Ends -> RowOrTop], dangling : SUBSET Pointer]

\* The rows of the screen are in both buffers, and the region is on the screen.
Sound(c) ==
    /\ c \in Cons
    /\ Len(c.main) = Len(c.alt) /\ c.size_y <= Len(c.main)
    /\ c.margin_top <= c.margin_bottom /\ c.margin_bottom < c.size_y

\* The settings that no movement of lines changes.
Same(c, d) ==
    /\ d.size_x = c.size_x /\ d.size_y = c.size_y
    /\ d.margin_top = c.margin_top /\ d.margin_bottom = c.margin_bottom
    /\ d.cursor_x = c.cursor_x /\ d.cursor_y = c.cursor_y
    /\ d.flags = c.flags /\ d.sb_max = c.sb_max /\ d.sel_active = c.sel_active
    /\ Len(d.main) = Len(c.main) /\ Len(d.alt) = Len(c.alt)

\* ViewInScrollback, and SelectionIsLive, of any screen.  The view is one line:
\* tsm_screen_set_max_sb moves it only when that one is evicted.
Unmarked(s, p) == \A i \in DOMAIN s : p \notin s[i].ptr
Sole(s, p) == \A i, j \in DOMAIN s : p \in s[i].ptr /\ p \in s[j].ptr => i = j
Viewed(c) == /\ Len(c.sb) <= c.sb_max
             /\ Unmarked(c.main, "sb_pos") /\ "sb_pos" \notin c.dangling
             /\ Sole(c.sb, "sb_pos")
Live(c) == c.sel_active => c.dangling \cap Ends = {}

Kept(c, d) == (Viewed(c) => Viewed(d)) /\ (Live(c) => Live(d))

\* s and t have the same text.
SameInk(s, t) == Len(s) = Len(t) /\ \A i \in 1..Len(s) : t[i].ink = s[i].ink

-----------------------------------------------------------------------------
(* Lines and sequences of lines. *)

LEMMA MarkNames ==
    /\ Ends = {"sel_start", "sel_end"}
    /\ Pointer = {"sel_start", "sel_end", "sb_pos"}
    /\ Anchor = {"text_start", "text_end"}
    /\ Marks = {"sel_start", "sel_end", "sb_pos", "text_start", "text_end"}
    /\ AnchorOf("sel_start") = "text_start" /\ AnchorOf("sel_end") = "text_end"
<1>1. AnchorOf("sel_start") = "text_start" /\ AnchorOf("sel_end") = "text_end"
  BY DEF AnchorOf
<1>2. Anchor = {"text_start", "text_end"}
  BY <1>1 DEF Anchor, Ends
<1> QED
  BY <1>1, <1>2 DEF Ends, Pointer, Marks

LEMMA LineFields ==
    ASSUME NEW l \in Line
    PROVE  /\ l.size \in Nat \ {0} /\ l.ink \subseteq Columns(l.size) /\ l.ink \subseteq Nat
           /\ l.ptr \subseteq Marks
           /\ l \in [size : Nat \ {0}, ink : SUBSET Nat, ptr : SUBSET Marks]
BY DEF Line

LEMMA LineMarked ==
    ASSUME NEW l \in Line, NEW p, p \subseteq Marks
    PROVE  /\ [l EXCEPT !.ptr = p] \in Line
           /\ [l EXCEPT !.ptr = p].ptr = p
           /\ [l EXCEPT !.ptr = p].ink = l.ink /\ [l EXCEPT !.ptr = p].size = l.size
BY DEF Line

LEMMA LineInked ==
    ASSUME NEW l \in Line, NEW k, k \subseteq Columns(l.size)
    PROVE  /\ [l EXCEPT !.ink = k] \in Line
           /\ [l EXCEPT !.ink = k].ptr = l.ptr
           /\ [l EXCEPT !.ink = k].ink = k /\ [l EXCEPT !.ink = k].size = l.size
<1>1. k \subseteq Nat
  BY DEF Line, Columns
<1> QED
  BY <1>1 DEF Line

LEMMA NewLineType ==
    ASSUME NEW w \in Nat \ {0}
    PROVE  NewLine(w) \in Line /\ NewLine(w).ink = {} /\ NewLine(w).ptr = {}
BY DEF NewLine, Line

LEMMA PartedType ==
    ASSUME NEW l \in Line, NEW p
    PROVE  /\ Parted(l, p) \in Line /\ Parted(l, p).ptr = l.ptr \ p
           /\ Parted(l, p).ink = l.ink /\ Parted(l, p).size = l.size
BY LineFields, LineMarked DEF Parted

LEMMA PointedType ==
    ASSUME NEW l \in Line, NEW p \in Marks
    PROVE  /\ Pointed(l, p) \in Line /\ Pointed(l, p).ptr = l.ptr \cup {p}
           /\ Pointed(l, p).ink = l.ink /\ Pointed(l, p).size = l.size
BY LineFields, LineMarked DEF Pointed

LEMMA ErasedType ==
    ASSUME NEW l \in Line, NEW k
    PROVE  /\ Erased(l, k) \in Line /\ Erased(l, k).ptr = l.ptr
           /\ Erased(l, k).ink = l.ink \ k /\ Erased(l, k).size = l.size
BY LineFields, LineInked DEF Erased

LEMMA ClippedType ==
    ASSUME NEW l \in Line, NEW k
    PROVE  /\ Clipped(l, k) \in Line /\ Clipped(l, k).ptr = l.ptr
           /\ Clipped(l, k).ink = l.ink \cap k /\ Clipped(l, k).size = l.size
BY LineFields, LineInked DEF Clipped

LEMMA RecycledType ==
    ASSUME NEW c, NEW l \in Line
    PROVE  Recycled(c, l) \in Line /\ Recycled(c, l).ptr = l.ptr \ Anchor
BY ErasedType, PartedType DEF Recycled

\* A sequence of lines is a function on its indices.
LEMMA SeqLines ==
    ASSUME NEW s \in Seq(Line)
    PROVE  /\ Len(s) \in Nat /\ DOMAIN s = 1..Len(s)
           /\ \A i \in 1..Len(s) : s[i] \in Line
           /\ \A i \in DOMAIN s : i \in Int /\ s[i] \in Line
BY LenProperties, ElementOfSeq

LEMMA LinesSeq ==
    ASSUME NEW n \in Nat, NEW f \in [1..n -> Line]
    PROVE  f \in Seq(Line) /\ Len(f) = n /\ DOMAIN f = 1..n
<1>1. f \in Seq(Line)
  BY SeqDef
<1> QED
  BY <1>1, LenProperties

\* A sequence of lines with other marks.
Remark(s, p) == [i \in DOMAIN s |-> [s[i] EXCEPT !.ptr = p[i]]]

LEMMA Remarked ==
    ASSUME NEW s \in Seq(Line), NEW p \in [DOMAIN s -> SUBSET Marks]
    PROVE  /\ Remark(s, p) \in Seq(Line) /\ SameInk(s, Remark(s, p))
           /\ DOMAIN Remark(s, p) = DOMAIN s
           /\ \A i \in DOMAIN s : Remark(s, p)[i].ptr = p[i]
<1> DEFINE t == [i \in DOMAIN s |-> [s[i] EXCEPT !.ptr = p[i]]]
<1>1. Len(s) \in Nat /\ DOMAIN s = 1..Len(s) /\ \A i \in DOMAIN s : s[i] \in Line
  BY SeqLines
<1>2. ASSUME NEW i \in DOMAIN s
      PROVE  t[i] \in Line /\ t[i].ptr = p[i] /\ t[i].ink = s[i].ink /\ t[i].size = s[i].size
  BY <1>1, LineMarked
<1>3. t \in [1..Len(s) -> Line]
  <2>1. ASSUME NEW i \in DOMAIN s PROVE [s[i] EXCEPT !.ptr = p[i]] \in Line
    BY <1>1, LineMarked
  <2>2. t \in [DOMAIN s -> Line]
    BY <2>1
  <2> QED
    BY <1>1, <2>2
<1>4. t \in Seq(Line) /\ Len(t) = Len(s) /\ DOMAIN t = 1..Len(s)
  BY <1>1, <1>3, LinesSeq
<1> HIDE DEF t
<1>5. SameInk(s, t)
  BY <1>1, <1>2, <1>4 DEF SameInk
<1> QED
  BY <1>1, <1>2, <1>4, <1>5 DEF t, Remark

LEMMA UnpointedType ==
    ASSUME NEW s \in Seq(Line), NEW p
    PROVE  /\ Unpointed(s, p) \in Seq(Line) /\ SameInk(s, Unpointed(s, p))
           /\ DOMAIN Unpointed(s, p) = DOMAIN s
           /\ Len(Unpointed(s, p)) = Len(s)
           /\ \A i \in DOMAIN s : Unpointed(s, p)[i].ptr = s[i].ptr \ {p}
<1> DEFINE f == [i \in DOMAIN s |-> s[i].ptr \ {p}]
<1>1. f \in [DOMAIN s -> SUBSET Marks]
  BY SeqLines, LineFields
<1>2. Unpointed(s, p) = Remark(s, f)
  BY DEF Unpointed, Remark, Parted
<1>3. \A i \in DOMAIN s : f[i] = s[i].ptr \ {p}
  OBVIOUS
<1> HIDE DEF f
<1>4. /\ Unpointed(s, p) \in Seq(Line) /\ SameInk(s, Unpointed(s, p))
      /\ DOMAIN Unpointed(s, p) = DOMAIN s
      /\ \A i \in DOMAIN s : Unpointed(s, p)[i].ptr = f[i]
  BY <1>1, <1>2, Remarked
<1> QED
  BY <1>3, <1>4 DEF SameInk

LEMMA ToNullType ==
    ASSUME NEW c \in Cons, NEW p \in Pointer
    PROVE  /\ ToNull(c, p) \in Cons /\ Same(c, ToNull(c, p))
           /\ ToNull(c, p).alt = c.alt /\ ToNull(c, p).y = c.y
           /\ ToNull(c, p).dangling = c.dangling \ {p}
           /\ ToNull(c, p).sb = Unpointed(c.sb, p)
           /\ ToNull(c, p).main = Unpointed(c.main, p)
<1> DEFINE s == Unpointed(c.sb, p)
           m == Unpointed(c.main, p)
<1>1. c.sb \in Seq(Line) /\ c.main \in Seq(Line)
  BY DEF Cons
<1>2. s \in Seq(Line) /\ m \in Seq(Line) /\ Len(m) = Len(c.main)
  BY <1>1, UnpointedType
<1> HIDE DEF s, m
<1>3. ToNull(c, p) = [c EXCEPT !.sb = s, !.main = m, !.dangling = @ \ {p}]
  BY DEF ToNull, s, m
<1> QED
  BY <1>2, <1>3 DEF Cons, Same, s, m

\* d is c with pointer p on line i of the scrollback, if there is such a line.
Pointing(c, p, i, d) ==
    /\ d \in Cons /\ Same(c, d) /\ d.alt = c.alt /\ d.y = c.y
    /\ d.dangling = c.dangling \ {p}
    /\ SameInk(c.sb, d.sb) /\ SameInk(c.main, d.main)
    /\ DOMAIN d.sb = DOMAIN c.sb /\ DOMAIN d.main = DOMAIN c.main
    /\ \A j \in DOMAIN c.main : d.main[j].ptr = c.main[j].ptr \ {p}
    /\ \A j \in DOMAIN c.sb :
          d.sb[j].ptr = IF j = i THEN c.sb[j].ptr \cup {p} ELSE c.sb[j].ptr \ {p}

LEMMA ToSbType ==
    ASSUME NEW c \in Cons, NEW p \in Pointer, NEW i
    PROVE  Pointing(c, p, i, ToSb(c, p, i))
<1> DEFINE n == ToNull(c, p)
           f == [j \in DOMAIN n.sb |-> IF j = i THEN n.sb[j].ptr \cup {p} ELSE n.sb[j].ptr]
           t == Remark(n.sb, f)
           u == [j \in DOMAIN n.sb |->
                    IF j = i THEN Pointed(n.sb[j], p) ELSE n.sb[j]]
<1>0. ToSb(c, p, i) = [n EXCEPT !.sb = u]
  BY DEF ToSb, PointedAt
<1>1. c.sb \in Seq(Line) /\ c.main \in Seq(Line)
  BY DEF Cons
<1>2. /\ n \in Cons /\ Same(c, n) /\ n.alt = c.alt /\ n.y = c.y
      /\ n.dangling = c.dangling \ {p}
      /\ n.sb = Unpointed(c.sb, p) /\ n.main = Unpointed(c.main, p)
  BY ToNullType
<1>3. /\ n.sb \in Seq(Line) /\ SameInk(c.sb, n.sb) /\ DOMAIN n.sb = DOMAIN c.sb
      /\ \A j \in DOMAIN c.sb : n.sb[j].ptr = c.sb[j].ptr \ {p}
      /\ SameInk(c.main, n.main) /\ DOMAIN n.main = DOMAIN c.main
      /\ \A j \in DOMAIN c.main : n.main[j].ptr = c.main[j].ptr \ {p}
  BY <1>1, <1>2, UnpointedType
<1> HIDE DEF n
<1>4. \A j \in DOMAIN n.sb : n.sb[j] \in Line /\ n.sb[j].ptr \subseteq Marks
  BY <1>3, SeqLines, LineFields
<1>5. p \in Marks
  BY DEF Marks
<1>6. f \in [DOMAIN n.sb -> SUBSET Marks]
  BY <1>4, <1>5
<1>7. t = u
  <2>1. ASSUME NEW j \in DOMAIN n.sb
        PROVE  t[j] = u[j]
    <3>1. [n.sb[j] EXCEPT !.ptr = n.sb[j].ptr] = n.sb[j]
      BY <1>4 DEF Line
    <3> QED
      BY <3>1 DEF Remark, Pointed
  <2>2. t = [j \in DOMAIN n.sb |-> t[j]]
    BY DEF Remark
  <2> QED
    BY <2>1, <2>2
<1>8. \A j \in DOMAIN n.sb : f[j] = IF j = i THEN n.sb[j].ptr \cup {p} ELSE n.sb[j].ptr
  OBVIOUS
<1> HIDE DEF f
<1>9. /\ t \in Seq(Line) /\ SameInk(n.sb, t) /\ DOMAIN t = DOMAIN n.sb
      /\ \A j \in DOMAIN n.sb : t[j].ptr = f[j]
  BY <1>3, <1>6, Remarked
<1>10. ToSb(c, p, i) = [n EXCEPT !.sb = t]
  BY <1>0, <1>7
<1> HIDE DEF t
<1> DEFINE d == [n EXCEPT !.sb = t]
<1>11. /\ d \in Cons /\ Same(n, d) /\ d.sb = t /\ d.main = n.main
       /\ d.alt = n.alt /\ d.y = n.y /\ d.dangling = n.dangling
  BY <1>2, <1>9 DEF Cons, Same
<1> HIDE DEF d
<1>12. Same(c, d) /\ d.alt = c.alt /\ d.y = c.y /\ d.dangling = c.dangling \ {p}
  BY <1>2, <1>11 DEF Same
<1>13. SameInk(c.sb, d.sb) /\ DOMAIN d.sb = DOMAIN c.sb
  BY <1>3, <1>9, <1>11 DEF SameInk
<1>14. \A j \in DOMAIN c.sb :
           d.sb[j].ptr = IF j = i THEN c.sb[j].ptr \cup {p} ELSE c.sb[j].ptr \ {p}
  BY <1>3, <1>8, <1>9, <1>11
<1>15. /\ SameInk(c.main, d.main) /\ DOMAIN d.main = DOMAIN c.main
       /\ \A j \in DOMAIN c.main : d.main[j].ptr = c.main[j].ptr \ {p}
  BY <1>3, <1>11
<1>16. Pointing(c, p, i, d)
  BY <1>11, <1>12, <1>13, <1>14, <1>15 DEF Pointing
<1> QED
  BY <1>10, <1>16 DEF d

-----------------------------------------------------------------------------
(* Pointers. *)

LEMMA InSbType ==
    ASSUME NEW c, c.sb \in Seq(Line), NEW p
    PROVE  /\ InSb(c, p) \in 0..Len(c.sb) /\ InSb(c, p) \in Nat
           /\ InSb(c, p) = 0 <=> Unmarked(c.sb, p)
           /\ InSb(c, p) # 0 => InSb(c, p) \in DOMAIN c.sb /\ p \in c.sb[InSb(c, p)].ptr
<1>1. DOMAIN c.sb = 1..Len(c.sb) /\ Len(c.sb) \in Nat
  BY SeqLines
<1>2. CASE \E i \in DOMAIN c.sb : p \in c.sb[i].ptr
  <2>1. InSb(c, p) = CHOOSE i \in DOMAIN c.sb : p \in c.sb[i].ptr
    BY <1>2 DEF InSb
  <2>2. InSb(c, p) \in DOMAIN c.sb /\ p \in c.sb[InSb(c, p)].ptr
    BY <1>2, <2>1
  <2> QED
    BY <1>1, <2>2 DEF Unmarked
<1>3. CASE ~\E i \in DOMAIN c.sb : p \in c.sb[i].ptr
  <2>1. InSb(c, p) = 0
    BY <1>3 DEF InSb
  <2> QED
    BY <1>1, <1>3, <2>1 DEF Unmarked
<1> QED
  BY <1>2, <1>3

LEMMA InMainType ==
    ASSUME NEW c, c.main \in Seq(Line), NEW p
    PROVE  /\ InMain(c, p) \in 0..Len(c.main) /\ InMain(c, p) \in Nat
           /\ InMain(c, p) = 0 <=> Unmarked(c.main, p)
           /\ InMain(c, p) # 0 => /\ InMain(c, p) \in DOMAIN c.main
                                  /\ p \in c.main[InMain(c, p)].ptr
<1>1. DOMAIN c.main = 1..Len(c.main) /\ Len(c.main) \in Nat
  BY SeqLines
<1>2. CASE \E i \in DOMAIN c.main : p \in c.main[i].ptr
  <2>1. InMain(c, p) = CHOOSE i \in DOMAIN c.main : p \in c.main[i].ptr
    BY <1>2 DEF InMain
  <2>2. InMain(c, p) \in DOMAIN c.main /\ p \in c.main[InMain(c, p)].ptr
    BY <1>2, <2>1
  <2> QED
    BY <1>1, <2>2 DEF Unmarked
<1>3. CASE ~\E i \in DOMAIN c.main : p \in c.main[i].ptr
  <2>1. InMain(c, p) = 0
    BY <1>3 DEF InMain
  <2> QED
    BY <1>1, <1>3, <2>1 DEF Unmarked
<1> QED
  BY <1>2, <1>3

\* c becomes d and stays what it was, but for lines that move.
Moves(c, d) == d \in Cons /\ Same(c, d) /\ Kept(c, d)

LEMMA MovesTwice ==
    ASSUME NEW c, NEW d, NEW e, Moves(c, d), Moves(d, e)
    PROVE  Moves(c, e)
BY DEF Moves, Same, Kept

\* A pointer that is set neither leaves the scrollback nor dangles.
LEMMA ToSbMoves ==
    ASSUME NEW c \in Cons, NEW p \in Pointer, NEW i
    PROVE  Moves(c, ToSb(c, p, i))
<1> DEFINE d == ToSb(c, p, i)
<1>1. Pointing(c, p, i, d)
  BY ToSbType
<1> HIDE DEF d
<1>2. Viewed(c) => Viewed(d)
  <2>1. Sole(c.sb, "sb_pos") => Sole(d.sb, "sb_pos")
    <3>0. /\ DOMAIN d.sb = DOMAIN c.sb
          /\ \A j \in DOMAIN d.sb :
                d.sb[j].ptr = IF j = i THEN c.sb[j].ptr \cup {p} ELSE c.sb[j].ptr \ {p}
      BY <1>1 DEF Pointing
    <3>1. CASE p = "sb_pos"
      <4>1. \A j \in DOMAIN d.sb : "sb_pos" \in d.sb[j].ptr => j = i
        BY <3>0, <3>1
      <4> QED
        BY <4>1 DEF Sole
    <3>2. CASE p # "sb_pos"
      <4>1. ASSUME NEW j \in DOMAIN d.sb, "sb_pos" \in d.sb[j].ptr
            PROVE  "sb_pos" \in c.sb[j].ptr
        <5>1. d.sb[j].ptr = c.sb[j].ptr \cup {p} \/ d.sb[j].ptr = c.sb[j].ptr \ {p}
          BY <3>0
        <5> QED
          BY <3>2, <4>1, <5>1
      <4> QED
        BY <3>0, <4>1 DEF Sole
    <3> QED
      BY <3>1, <3>2
  <2> QED
    BY <1>1, <2>1 DEF Pointing, Viewed, Unmarked, Same, SameInk
<1>3. Live(c) => Live(d)
  BY <1>1 DEF Pointing, Live, Same
<1>4. Moves(c, d)
  BY <1>1, <1>2, <1>3 DEF Moves, Kept, Pointing
<1> QED
  BY <1>4 DEF d

LEMMA ToNullMoves ==
    ASSUME NEW c \in Cons, NEW p \in Pointer
    PROVE  /\ Moves(c, ToNull(c, p))
           /\ SameInk(c.sb, ToNull(c, p).sb) /\ SameInk(c.main, ToNull(c, p).main)
<1> DEFINE d == ToNull(c, p)
<1>1. /\ d \in Cons /\ Same(c, d) /\ d.dangling = c.dangling \ {p}
      /\ d.sb = Unpointed(c.sb, p) /\ d.main = Unpointed(c.main, p)
  BY ToNullType
<1>2. c.sb \in Seq(Line) /\ c.main \in Seq(Line)
  BY DEF Cons
<1>3. /\ SameInk(c.sb, d.sb) /\ SameInk(c.main, d.main) /\ DOMAIN d.main = DOMAIN c.main
      /\ Len(d.sb) = Len(c.sb) /\ DOMAIN d.sb = DOMAIN c.sb
      /\ \A i \in DOMAIN c.main : d.main[i].ptr = c.main[i].ptr \ {p}
      /\ \A i \in DOMAIN c.sb : d.sb[i].ptr = c.sb[i].ptr \ {p}
  BY <1>1, <1>2, UnpointedType
<1> HIDE DEF d
<1>4. Viewed(c) => Viewed(d)
  <2>1. Sole(c.sb, "sb_pos") => Sole(d.sb, "sb_pos")
    BY <1>3 DEF Sole
  <2> QED
    BY <1>1, <1>3, <2>1 DEF Viewed, Unmarked, Same
<1>5. Live(c) => Live(d)
  BY <1>1 DEF Live, Same
<1>6. Moves(c, d) /\ SameInk(c.sb, d.sb) /\ SameInk(c.main, d.main)
  BY <1>1, <1>3, <1>4, <1>5 DEF Moves, Kept
<1> QED
  BY <1>6 DEF d

LEMMA PointersType ==
    ASSUME NEW s \in Seq(Line)
    PROVE  /\ PointersTo(s) \subseteq Pointer
           /\ Unmarked(s, "sb_pos") => "sb_pos" \notin PointersTo(s)
<1>1. \A i \in DOMAIN s : s[i].ptr \subseteq Marks
  BY SeqLines, LineFields
<1>2. \A p \in PointersTo(s) : p \notin Anchor /\ \E i \in DOMAIN s : p \in s[i].ptr
  BY DEF PointersTo
<1> QED
  BY <1>1, <1>2 DEF Marks, Unmarked

\* Lines that are freed leave pointers behind, but not the ends of an active
\* selection.
LEMMA FreedMoves ==
    ASSUME NEW c \in Cons, NEW gone \in Seq(Line)
    PROVE  /\ Freed(c, gone) \in Cons /\ Same(c, Freed(c, gone))
           /\ Freed(c, gone).sb = c.sb /\ Freed(c, gone).main = c.main
           /\ Freed(c, gone).alt = c.alt
           /\ Live(c) => Live(Freed(c, gone))
           /\ "sb_pos" \notin c.dangling /\ Unmarked(gone, "sb_pos")
                  => "sb_pos" \notin Freed(c, gone).dangling
           /\ \A p \in Ends :
                 Freed(c, gone).y[p] =
                     IF c.sel_active /\ \E i \in DOMAIN gone : p \in gone[i].ptr
                     THEN SelectionTop ELSE c.y[p]
<1> DEFINE left == PointersTo(gone)
           sel == IF c.sel_active THEN left \cap Ends ELSE {}
           dang == c.dangling \cup (left \ sel)
           rows == [e \in Ends |-> IF e \in sel THEN SelectionTop ELSE c.y[e]]
           d == [c EXCEPT !.dangling = dang, !.y = rows]
<1>1. Freed(c, gone) = d
  BY DEF Freed
<1>2. left \subseteq Pointer
  BY PointersType
<1>3. Unmarked(gone, "sb_pos") => "sb_pos" \notin left
  BY PointersType
<1> HIDE DEF left
<1>4. dang \in SUBSET Pointer
  BY <1>2 DEF Cons
<1>5. rows \in [Ends -> RowOrTop]
  BY DEF Cons, RowOrTop
<1>6. c.sel_active /\ c.dangling \cap Ends = {} => dang \cap Ends = {}
  OBVIOUS
<1>7. "sb_pos" \notin c.dangling /\ "sb_pos" \notin left => "sb_pos" \notin dang
  OBVIOUS
<1> HIDE DEF dang, rows, sel
<1>8. /\ d \in Cons /\ Same(c, d) /\ d.sb = c.sb /\ d.main = c.main /\ d.alt = c.alt
      /\ d.dangling = dang /\ d.y = rows
  BY <1>4, <1>5 DEF Cons, Same
<1> HIDE DEF d
<1>9. Live(c) => Live(d)
  BY <1>6, <1>8 DEF Live, Same
<1>10. \A p \in Ends : d.y[p] = IF p \in sel THEN SelectionTop ELSE c.y[p]
  BY <1>8 DEF rows
<1>11. \A p \in Ends : p \in left <=> \E i \in DOMAIN gone : p \in gone[i].ptr
  BY MarkNames DEF left, PointersTo
<1>12. \A p \in Ends : p \in sel <=> c.sel_active /\ \E i \in DOMAIN gone : p \in gone[i].ptr
  BY <1>11 DEF sel
<1> QED
  BY <1>1, <1>3, <1>7, <1>8, <1>9, <1>10, <1>12

\* Lines cut in two.
LEMMA CutType ==
    ASSUME NEW s \in Seq(Line), NEW k \in 0..Len(s)
    PROVE  /\ SubSeq(s, 1, k) \in Seq(Line) /\ Len(SubSeq(s, 1, k)) = k
           /\ DOMAIN SubSeq(s, 1, k) = 1..k
           /\ \A i \in 1..k : SubSeq(s, 1, k)[i] = s[i]
           /\ SubSeq(s, k + 1, Len(s)) \in Seq(Line)
           /\ Len(SubSeq(s, k + 1, Len(s))) = Len(s) - k
           /\ DOMAIN SubSeq(s, k + 1, Len(s)) = 1..(Len(s) - k)
           /\ \A i \in 1..(Len(s) - k) : SubSeq(s, k + 1, Len(s))[i] = s[i + k]
<1> DEFINE n == Len(s)
           gone == SubSeq(s, 1, k)
           rest == SubSeq(s, k + 1, n)
<1>1. n \in Nat /\ k \in Nat /\ k <= n /\ \A i \in 1..n : s[i] \in Line
  BY SeqLines
<1> HIDE DEF n
<1>2. /\ gone \in Seq(Line) /\ Len(gone) = k /\ DOMAIN gone = 1..k
      /\ \A i \in 1..k : gone[i] = s[i]
  <2>1. \A i \in 1..k : s[i] \in Line
    BY <1>1
  <2>2. /\ gone \in Seq(Line) /\ Len(gone) = IF 1 <= k THEN k - 1 + 1 ELSE 0
        /\ \A i \in 1..(k - 1 + 1) : gone[i] = s[1 + i - 1]
    BY <1>1, <2>1, SubSeqProperties
  <2>3. Len(gone) = k
    BY <1>1, <2>2
  <2>4. DOMAIN gone = 1..k
    BY <2>2, <2>3, SeqLines
  <2>5. \A i \in 1..k : 1 + i - 1 = i /\ i \in 1..(k - 1 + 1)
    BY <1>1
  <2> QED
    BY <2>2, <2>3, <2>4, <2>5
<1>3. /\ rest \in Seq(Line) /\ Len(rest) = n - k /\ DOMAIN rest = 1..(n - k)
      /\ \A i \in 1..(n - k) : rest[i] = s[i + k]
  <2>1. \A i \in (k + 1)..n : s[i] \in Line
    BY <1>1
  <2>2. /\ rest \in Seq(Line)
        /\ Len(rest) = IF k + 1 <= n THEN n - (k + 1) + 1 ELSE 0
        /\ \A i \in 1..(n - (k + 1) + 1) : rest[i] = s[k + 1 + i - 1]
    BY <1>1, <2>1, SubSeqProperties
  <2>3. Len(rest) = n - k
    BY <1>1, <2>2
  <2>4. DOMAIN rest = 1..(n - k)
    BY <2>2, <2>3, SeqLines
  <2>5. \A i \in 1..(n - k) : k + 1 + i - 1 = i + k /\ i \in 1..(n - (k + 1) + 1)
    BY <1>1
  <2> QED
    BY <2>2, <2>3, <2>4, <2>5
<1> QED
  BY <1>2, <1>3 DEF n

-----------------------------------------------------------------------------
(* The scrollback. *)

\* Two lines that differ in the mark of the view at most.
Alike(l, m) == l.ink = m.ink /\ l.ptr \ {"sb_pos"} = m.ptr \ {"sb_pos"}

\* What linking lines to the scrollback comes to: the oldest ones go.
Evicted(c, n) == Greater(0, Len(c.sb) + n - c.sb_max)

Linked(c, pushed, d) ==
    LET all == c.sb \o pushed
        e == Evicted(c, Len(pushed))
    IN  /\ Len(d.sb) = Len(all) - e
        /\ \A i \in DOMAIN d.sb : Alike(d.sb[i], all[i + e])
        /\ Len(d.main) = Len(c.main)
        /\ \A i \in DOMAIN d.main : Alike(d.main[i], c.main[i])
        /\ d.alt = c.alt
        /\ \A p \in Ends :
              d.y[p] = IF c.sel_active /\ \E i \in 1..e : p \in all[i].ptr
                       THEN SelectionTop ELSE c.y[p]

LEMMA LinkMoves ==
    ASSUME NEW c \in Cons, NEW pushed \in Seq(Line)
    PROVE  /\ LinkToScrollback(c, pushed) \in Cons /\ Same(c, LinkToScrollback(c, pushed))
           /\ Live(c) => Live(LinkToScrollback(c, pushed))
           /\ Viewed(c) /\ Unmarked(pushed, "sb_pos") => Viewed(LinkToScrollback(c, pushed))
           /\ Linked(c, pushed, LinkToScrollback(c, pushed))
<1> DEFINE all == c.sb \o pushed
           n == Len(all)
           evicted == Greater(0, n - c.sb_max)
           pos == InSb(c, "sb_pos")
           next == IF pos = 0 \/ c.sb_max = 0 THEN 0
                   ELSE IF "FIXED_POS" \in c.flags THEN Greater(pos, evicted + 1)
                   ELSE pos + evicted
           linked == [c EXCEPT !.sb = all]
           moved == IF next = 0 THEN linked ELSE ToSb(linked, "sb_pos", next)
           gone == SubSeq(moved.sb, 1, evicted)
           rest == SubSeq(moved.sb, evicted + 1, n)
           freed == Freed(moved, gone)
           d == [freed EXCEPT !.sb = rest]
<1>1. /\ c.sb \in Seq(Line) /\ c.main \in Seq(Line) /\ c.sb_max \in Nat
      /\ Len(c.sb) \in Nat /\ Len(pushed) \in Nat
      /\ DOMAIN c.sb = 1..Len(c.sb) /\ DOMAIN pushed = 1..Len(pushed)
  BY SeqLines DEF Cons
<1>2. /\ all \in Seq(Line) /\ n = Len(c.sb) + Len(pushed) /\ DOMAIN all = 1..n
      /\ \A i \in 1..n : all[i] = IF i <= Len(c.sb) THEN c.sb[i] ELSE pushed[i - Len(c.sb)]
  <2>1. all \in Seq(Line) /\ n = Len(c.sb) + Len(pushed)
        /\ \A i \in 1..(Len(c.sb) + Len(pushed)) :
               all[i] = IF i <= Len(c.sb) THEN c.sb[i] ELSE pushed[i - Len(c.sb)]
    BY <1>1, ConcatProperties
  <2> QED
    BY <2>1, SeqLines
<1>3. LinkToScrollback(c, pushed) = d
  BY DEF LinkToScrollback
<1>4. evicted = Evicted(c, Len(pushed))
  <2>1. n - c.sb_max = Len(c.sb) + Len(pushed) - c.sb_max
    BY <1>1, <1>2
  <2> QED
    BY <2>1 DEF Evicted
<1>5. /\ next \in Nat /\ (next = 0 \/ next > evicted) /\ evicted \in 0..n
      /\ next = 0 => pos = 0 \/ c.sb_max = 0
  <2>1. pos \in Nat
    BY <1>1, InSbType
  <2>2. n \in Nat
    BY <1>1, <1>2
  <2> HIDE DEF pos, n
  <2>3. c.sb_max \in Nat
    BY <1>1
  <2>4. evicted \in 0..n /\ evicted \in Nat
    BY <2>2, <2>3 DEF Greater
  <2> HIDE DEF evicted
  <2>5. Greater(pos, evicted + 1) \in Nat /\ Greater(pos, evicted + 1) > evicted
    BY <2>1, <2>4 DEF Greater
  <2>6. pos # 0 => pos + evicted \in Nat /\ pos + evicted > evicted
    BY <2>1, <2>4
  <2> QED
    BY <2>4, <2>5, <2>6
<1>6. pos = 0 <=> Unmarked(c.sb, "sb_pos")
  BY <1>1, InSbType
<1> HIDE DEF all, n, evicted, pos, next
<1>7. /\ linked \in Cons /\ Same(c, linked) /\ linked.sb = all /\ linked.main = c.main
      /\ linked.alt = c.alt /\ linked.y = c.y /\ linked.dangling = c.dangling
  BY <1>2 DEF Cons, Same
<1> HIDE DEF linked
<1>8. /\ moved \in Cons /\ Same(c, moved) /\ moved.alt = c.alt /\ moved.y = c.y
      /\ moved.dangling \subseteq c.dangling
      /\ c.dangling \cap Ends = moved.dangling \cap Ends
      /\ Len(moved.sb) = n /\ DOMAIN moved.sb = 1..n /\ DOMAIN moved.main = DOMAIN c.main
      /\ \A i \in 1..n : Alike(moved.sb[i], all[i])
      /\ \A i \in DOMAIN c.main : /\ Alike(moved.main[i], c.main[i])
                                  /\ moved.main[i].ptr \subseteq c.main[i].ptr
      /\ Viewed(c) /\ Unmarked(pushed, "sb_pos")
            => /\ \A i \in 1..evicted : "sb_pos" \notin moved.sb[i].ptr
               /\ Sole(moved.sb, "sb_pos")
  <2>1. CASE next = 0
    <3>1. moved = linked
      BY <2>1
    <3>2. Viewed(c) => Unmarked(c.sb, "sb_pos")
      BY <1>1, <1>5, <1>6, <2>1 DEF Viewed, Unmarked
    <3>3. Viewed(c) /\ Unmarked(pushed, "sb_pos") => \A i \in 1..n : "sb_pos" \notin all[i].ptr
      <4> SUFFICES ASSUME Viewed(c), Unmarked(pushed, "sb_pos"), NEW i \in 1..n PROVE "sb_pos" \notin all[i].ptr
        OBVIOUS
      <4>1. CASE i <= Len(c.sb)
        <5>1. all[i] = c.sb[i]
          BY <1>2, <4>1
        <5>2. i \in 1..Len(c.sb)
          BY <1>1, <4>1
        <5> QED
          BY <1>1, <3>2, <5>1, <5>2 DEF Unmarked
      <4>2. CASE ~(i <= Len(c.sb))
        <5>1. all[i] = pushed[i - Len(c.sb)]
          BY <1>2, <4>2
        <5>2. i - Len(c.sb) \in 1..Len(pushed)
          BY <1>1, <1>2, <4>2
        <5> QED
          BY <1>1, <5>1, <5>2 DEF Unmarked
      <4> QED
        BY <4>1, <4>2
    <3>4. \A i \in 1..evicted : i \in 1..n
      BY <1>1, <1>2, <1>5
    <3> HIDE DEF moved
    <3>5. Viewed(c) /\ Unmarked(pushed, "sb_pos") => Sole(moved.sb, "sb_pos")
      BY <1>2, <1>7, <3>1, <3>3 DEF Sole
    <3> QED
      BY <1>2, <1>7, <3>1, <3>3, <3>4, <3>5 DEF Alike, n
  <2>2. CASE next # 0
    <3>1. Pointing(linked, "sb_pos", next, moved)
      <4>1. "sb_pos" \in Pointer
        BY DEF Pointer
      <4> QED
        BY <1>7, <2>2, <4>1, ToSbType
    <3> HIDE DEF moved
    <3>2. /\ moved \in Cons /\ Same(c, moved) /\ moved.alt = c.alt /\ moved.y = c.y
          /\ moved.dangling = c.dangling \ {"sb_pos"}
          /\ Len(moved.sb) = n /\ DOMAIN moved.sb = 1..n /\ DOMAIN moved.main = DOMAIN c.main
      BY <1>2, <1>7, <3>1 DEF Pointing, Same, SameInk, n
    <3>3. \A i \in 1..n : /\ moved.sb[i].ink = all[i].ink
                          /\ moved.sb[i].ptr = IF i = next THEN all[i].ptr \cup {"sb_pos"}
                                               ELSE all[i].ptr \ {"sb_pos"}
      BY <1>2, <1>7, <3>1 DEF Pointing, SameInk, n
    <3>4. \A i \in 1..evicted : i \in 1..n /\ i # next
      BY <1>1, <1>2, <1>5, <2>2
    <3>5. \A i \in DOMAIN c.main : /\ moved.main[i].ink = c.main[i].ink
                                   /\ moved.main[i].ptr = c.main[i].ptr \ {"sb_pos"}
      BY <1>1, <1>7, <3>1, SeqLines DEF Pointing, SameInk
    <3>6. \A i \in 1..n : Alike(moved.sb[i], all[i])
      BY <3>3 DEF Alike
    <3>7. c.dangling \cap Ends = moved.dangling \cap Ends
      BY <3>2 DEF Ends
    <3>8. Sole(moved.sb, "sb_pos")
      BY <3>2, <3>3 DEF Sole
    <3>9. \A i \in DOMAIN c.main : /\ Alike(moved.main[i], c.main[i])
                                   /\ moved.main[i].ptr \subseteq c.main[i].ptr
      BY <3>5 DEF Alike
    <3>10. \A i \in 1..evicted : "sb_pos" \notin moved.sb[i].ptr
      BY <3>3, <3>4
    <3> QED
      BY <3>2, <3>6, <3>7, <3>8, <3>9, <3>10
  <2> QED
    BY <2>1, <2>2
<1> HIDE DEF moved
<1>9. moved.sb \in Seq(Line)
  BY <1>8 DEF Cons
<1>10. \A i \in 1..n : moved.sb[i] \in Line
  BY <1>8, <1>9, SeqLines
<1>11. /\ n \in Nat /\ evicted \in Nat /\ evicted <= n
  BY <1>1, <1>2, <1>5
<1>12. /\ gone \in Seq(Line) /\ DOMAIN gone = 1..evicted
       /\ \A i \in 1..evicted : gone[i] = moved.sb[i]
       /\ rest \in Seq(Line) /\ Len(rest) = n - evicted /\ DOMAIN rest = 1..(n - evicted)
       /\ \A i \in 1..(n - evicted) : rest[i] = moved.sb[i + evicted]
  <2>1. Len(moved.sb) = n /\ evicted \in 0..Len(moved.sb)
    BY <1>8, <1>11
  <2>2. gone = SubSeq(moved.sb, 1, evicted) /\ rest = SubSeq(moved.sb, evicted + 1, Len(moved.sb))
    BY <2>1
  <2> HIDE DEF gone, rest
  <2> QED
    BY <1>9, <2>1, <2>2, CutType
<1>13. rest \in Seq(Line) /\ Len(rest) = n - evicted /\ DOMAIN rest = 1..(n - evicted)
  BY <1>12
<1>14. /\ freed \in Cons /\ Same(moved, freed) /\ freed.main = moved.main
       /\ freed.alt = moved.alt
       /\ Live(moved) => Live(freed)
       /\ "sb_pos" \notin moved.dangling /\ Unmarked(gone, "sb_pos")
              => "sb_pos" \notin freed.dangling
       /\ \A p \in Ends : freed.y[p] = IF moved.sel_active /\ \E i \in DOMAIN gone : p \in gone[i].ptr
                                       THEN SelectionTop ELSE moved.y[p]
  <2>1. moved \in Cons /\ gone \in Seq(Line)
    BY <1>8, <1>12
  <2> HIDE DEF gone
  <2> QED
    BY <2>1, FreedMoves
<1> HIDE DEF gone, rest, freed
<1>15. /\ d \in Cons /\ Same(freed, d) /\ d.sb = rest /\ d.main = freed.main
       /\ d.alt = freed.alt /\ d.dangling = freed.dangling /\ d.y = freed.y
  BY <1>13, <1>14 DEF Cons, Same
<1> HIDE DEF d
<1>16. Same(c, d)
  BY <1>8, <1>14, <1>15 DEF Same
<1>17. Live(c) => Live(d)
  BY <1>8, <1>14, <1>15 DEF Live, Same
<1>18. Viewed(c) /\ Unmarked(pushed, "sb_pos") => Viewed(d)
  <2> SUFFICES ASSUME Viewed(c), Unmarked(pushed, "sb_pos") PROVE Viewed(d)
    OBVIOUS
  <2>1. Unmarked(gone, "sb_pos")
    BY <1>8, <1>12 DEF Unmarked
  <2>2. "sb_pos" \notin d.dangling
    BY <1>8, <1>14, <1>15, <2>1 DEF Viewed
  <2>3. Len(d.sb) <= d.sb_max
    <3>1. n - evicted <= c.sb_max
      BY <1>1, <1>11 DEF evicted, Greater
    <3> QED
      BY <1>13, <1>15, <1>16, <3>1 DEF Same
  <2>4. Unmarked(d.main, "sb_pos")
    BY <1>8, <1>14, <1>15 DEF Unmarked, Viewed
  <2>5. Sole(d.sb, "sb_pos")
    <3>1. Sole(moved.sb, "sb_pos") /\ DOMAIN moved.sb = 1..n
      BY <1>8
    <3>2. ASSUME NEW i \in DOMAIN d.sb
          PROVE  i \in Int /\ i + evicted \in DOMAIN moved.sb
                 /\ d.sb[i] = moved.sb[i + evicted]
      BY <1>11, <1>12, <1>15, <3>1
    <3>3. ASSUME NEW i \in DOMAIN d.sb, NEW j \in DOMAIN d.sb,
                 "sb_pos" \in d.sb[i].ptr, "sb_pos" \in d.sb[j].ptr
          PROVE  i = j
      <4>1. i + evicted = j + evicted
        BY <3>1, <3>2, <3>3 DEF Sole
      <4> QED
        BY <1>11, <3>2, <4>1
    <3> QED
      BY <3>3 DEF Sole
  <2> QED
    BY <2>2, <2>3, <2>4, <2>5 DEF Viewed
<1>19. Linked(c, pushed, d)
  <2>1. Len(d.sb) = n - evicted /\ DOMAIN d.sb = 1..(n - evicted)
    BY <1>13, <1>15
  <2>2. ASSUME NEW i \in DOMAIN d.sb PROVE Alike(d.sb[i], all[i + evicted])
    <3>1. i + evicted \in 1..n
      BY <1>11, <2>1
    <3> QED
      BY <1>8, <1>12, <1>15, <2>1, <3>1
  <2>3. /\ Len(d.main) = Len(c.main) /\ d.alt = c.alt
        /\ \A i \in DOMAIN d.main : Alike(d.main[i], c.main[i])
    BY <1>8, <1>14, <1>15, <1>16 DEF Same
  <2>4. ASSUME NEW p \in Ends
        PROVE  d.y[p] = IF c.sel_active /\ \E i \in 1..evicted : p \in all[i].ptr
                        THEN SelectionTop ELSE c.y[p]
    <3>1. \A i \in 1..evicted : i \in 1..n
      BY <1>11
    <3>2. p # "sb_pos"
      BY DEF Ends
    <3>3. \A i \in 1..evicted : p \in gone[i].ptr <=> p \in all[i].ptr
      BY <1>8, <1>12, <3>1, <3>2 DEF Alike
    <3>4. moved.sel_active = c.sel_active /\ moved.y = c.y
      BY <1>8 DEF Same
    <3>5. DOMAIN gone = 1..evicted
      BY <1>12
    <3>6. d.y[p] = IF moved.sel_active /\ \E i \in DOMAIN gone : p \in gone[i].ptr
                   THEN SelectionTop ELSE moved.y[p]
      BY <1>14, <1>15
    <3> QED
      BY <3>3, <3>4, <3>5, <3>6
  <2> QED
    BY <1>4, <2>1, <2>2, <2>3, <2>4 DEF Linked, all, n
<1> QED
  BY <1>3, <1>15, <1>16, <1>17, <1>18, <1>19

(* Loops. *)

LEMMA NatSet ==
    ASSUME NEW S, 0 \in S, \A n \in Nat : n \in S => n + 1 \in S
    PROVE  Nat \subseteq S
<1> DEFINE T == {n \in Nat : n \notin S}
           R == {ss \in Nat \X Nat : ss[1] < ss[2]}
<1>1. SUFFICES ASSUME T # {} PROVE FALSE
  OBVIOUS
<1>2. IsWellFoundedOn(R, Nat)
  BY NatLessThanWellFounded DEF OpToRel
<1>3. PICK n \in T : \A m \in T : ~(<<m, n>> \in R)
  BY <1>1, <1>2, WFMin, Zenon
<1>4. n \in Nat /\ n \notin S
  BY <1>3
<1>5. n # 0
  BY <1>4
<1>6. n - 1 \in Nat /\ <<n - 1, n>> \in R
  BY <1>4, <1>5
<1>7. n - 1 \in S
  BY <1>3, <1>6
<1> QED
  BY <1>4, <1>6, <1>7

\* A loop whose rounds stay within D has a course for every number of rounds.
Course(D, x, step, n, f) ==
    f \in [0..n -> D]
    /\ \A k \in 0..n : f[k] = IF k = 0 THEN x ELSE step[<<f[k - 1], k - 1>>]

LEMMA CourseExists ==
    ASSUME NEW D, NEW x \in D, NEW step, \A p \in D \X Nat : step[p] \in D, NEW n \in Nat
    PROVE  \E f : Course(D, x, step, n, f)
<1> DEFINE T == {i \in Nat : \E f : Course(D, x, step, i, f)}
<1>1. 0 \in T
  <2>1. Course(D, x, step, 0, [k \in 0..0 |-> x])
    BY DEF Course
  <2> QED
    BY <2>1
<1>2. ASSUME NEW i \in Nat, i \in T PROVE i + 1 \in T
  <2>1. PICK f : Course(D, x, step, i, f)
    BY <1>2
  <2> DEFINE last == step[<<f[i], i>>]
             g == [k \in 0..(i + 1) |-> IF k <= i THEN f[k] ELSE last]
  <2>2. f[i] \in D /\ last \in D
    <3>1. f[i] \in D
      BY <2>1 DEF Course
    <3> QED
      BY <3>1
  <2>3. g \in [0..(i + 1) -> D]
    <3>1. \A k \in 0..(i + 1) : k <= i => f[k] \in D
      BY <2>1 DEF Course
    <3> HIDE DEF last
    <3> QED
      BY <2>2, <3>1
  <2>4. ASSUME NEW k \in 0..(i + 1)
        PROVE  g[k] = IF k = 0 THEN x ELSE step[<<g[k - 1], k - 1>>]
    <3>1. CASE k = 0
      <4>1. 0 \in 0..i /\ 0 \in 0..(i + 1) /\ 0 <= i
        OBVIOUS
      <4>2. f[0] = x
        BY <2>1, <4>1 DEF Course
      <4>3. g[0] = f[0]
        BY <4>1
      <4> HIDE DEF g
      <4> QED
        BY <3>1, <4>2, <4>3
    <3>2. CASE k # 0 /\ k <= i
      <4>1. k \in 0..i /\ k - 1 \in 0..(i + 1) /\ k - 1 <= i
        BY <3>2
      <4>2. f[k] = step[<<f[k - 1], k - 1>>]
        BY <2>1, <3>2, <4>1 DEF Course
      <4> QED
        BY <3>2, <4>1, <4>2
    <3>3. CASE k = i + 1
      <4>1. ~(i + 1 <= i) /\ i \in 0..(i + 1) /\ i <= i /\ (i + 1) - 1 = i /\ i + 1 # 0
        OBVIOUS
      <4>2. g[k] = last /\ g[k - 1] = f[i]
        BY <3>3, <4>1
      <4> HIDE DEF g
      <4> QED
        BY <3>3, <4>1, <4>2
    <3> QED
      BY <3>1, <3>2, <3>3
  <2> HIDE DEF g
  <2>5. Course(D, x, step, i + 1, g)
    BY <2>3, <2>4 DEF Course
  <2> QED
    BY <2>5
<1> HIDE DEF T
<1>3. Nat \subseteq T
  BY <1>1, <1>2, NatSet
<1> QED
  BY <1>3 DEF T

LEMMA WithoutType ==
    ASSUME NEW lines \in Seq(Line), NEW kept
    PROVE  /\ Without(lines, kept) \in Seq(Line)
           /\ \A i \in DOMAIN Without(lines, kept) :
                 \E j \in DOMAIN lines : Without(lines, kept)[i] = lines[j]
           /\ DOMAIN lines \subseteq kept => Without(lines, kept) = << >>
           /\ DOMAIN lines \cap kept = {} => Without(lines, kept) = lines
<1> DEFINE D == Seq(Line)
           n == Len(lines)
           One(s, k) == IF k \in kept THEN s ELSE Append(s, lines[k])
           F(f) == f = [k \in 0..n |-> IF k = 0 THEN << >>
                                       ELSE IF k \in kept THEN f[k - 1]
                                       ELSE Append(f[k - 1], lines[k])]
           step == [p \in D \X Nat |-> IF p[2] + 1 \in 1..n THEN One(p[1], p[2] + 1) ELSE p[1]]
           g == CHOOSE f : F(f)
<1>1. Without(lines, kept) = g[n]
  BY DEF Without
<1>2. n \in Nat /\ DOMAIN lines = 1..n /\ \A i \in 1..n : lines[i] \in Line
  BY SeqLines
<1>3. ASSUME NEW s \in D, NEW k \in 1..n PROVE One(s, k) \in D
  BY <1>2, <1>3
<1>4. << >> \in D
  OBVIOUS
<1> HIDE DEF n, g
<1>5. \E f : F(f)
  <2>1. \A p \in D \X Nat : step[p] \in D
    <3> HIDE DEF D, One
    <3> QED
      BY <1>3
  <2> HIDE DEF step, D
  <2>2. PICK f : Course(D, << >>, step, n, f)
    BY <1>2, <1>4, <2>1, CourseExists
  <2>3. ASSUME NEW k \in 0..n
        PROVE  f[k] = IF k = 0 THEN << >> ELSE One(f[k - 1], k)
    <3>1. CASE k = 0
      BY <2>2, <3>1 DEF Course
    <3>2. CASE k # 0
      <4>1. k - 1 \in 0..n /\ k - 1 \in Nat /\ (k - 1) + 1 = k /\ k \in 1..n
        BY <1>2, <3>2
      <4>2. f[k - 1] \in D /\ f[k] = step[<<f[k - 1], k - 1>>]
        BY <2>2, <3>2, <4>1 DEF Course
      <4> HIDE DEF One
      <4> QED
        BY <3>2, <4>1, <4>2 DEF step
    <3> QED
      BY <3>1, <3>2
  <2>4. f = [k \in 0..n |-> f[k]]
    BY <2>2 DEF Course
  <2>5. F(f)
    BY <2>3, <2>4
  <2> QED
    BY <2>5
<1>6. F(g)
  BY <1>5 DEF g
<1> DEFINE S == {k \in Nat : k <= n =>
                    /\ g[k] \in Seq(Line)
                    /\ \A i \in DOMAIN g[k] : \E j \in 1..n : g[k][i] = lines[j]
                    /\ 1..n \subseteq kept => g[k] = << >>
                    /\ (1..n) \cap kept = {} =>
                          Len(g[k]) = k /\ \A i \in 1..k : g[k][i] = lines[i]}
<1>7. 0 \in S
  <2>1. g[0] = << >>
    BY <1>2, <1>6
  <2>2. << >> \in Seq(Line) /\ Len(<< >>) = 0 /\ DOMAIN << >> = {}
    BY EmptySeq, LenProperties
  <2>3. \A i \in 1..0 : FALSE
    OBVIOUS
  <2> HIDE DEF F
  <2> QED
    BY <2>1, <2>2, <2>3
<1>8. ASSUME NEW k \in Nat, k \in S PROVE k + 1 \in S
  <2> SUFFICES ASSUME k + 1 <= n
               PROVE  /\ g[k + 1] \in Seq(Line)
                      /\ \A i \in DOMAIN g[k + 1] : \E j \in 1..n : g[k + 1][i] = lines[j]
                      /\ 1..n \subseteq kept => g[k + 1] = << >>
                      /\ (1..n) \cap kept = {} =>
                            /\ Len(g[k + 1]) = k + 1
                            /\ \A i \in 1..(k + 1) : g[k + 1][i] = lines[i]
    OBVIOUS
  <2>1. /\ g[k] \in Seq(Line)
        /\ \A i \in DOMAIN g[k] : \E j \in 1..n : g[k][i] = lines[j]
        /\ 1..n \subseteq kept => g[k] = << >>
        /\ (1..n) \cap kept = {} => Len(g[k]) = k /\ \A i \in 1..k : g[k][i] = lines[i]
    BY <1>2, <1>8
  <2>2. k + 1 \in 0..n /\ k + 1 # 0 /\ (k + 1) - 1 = k /\ k + 1 \in 1..n
    BY <1>2
  <2>3. g[k + 1] = IF k + 1 \in kept THEN g[k] ELSE Append(g[k], lines[k + 1])
    BY <1>6, <2>2
  <2> HIDE DEF F
  <2>4. CASE k + 1 \in kept
    BY <2>1, <2>2, <2>3, <2>4
  <2>5. CASE k + 1 \notin kept
    <3> DEFINE s == g[k]
               x == lines[k + 1]
    <3>1. s \in Seq(Line) /\ x \in Line /\ Len(s) \in Nat /\ DOMAIN s = 1..Len(s)
      BY <1>2, <2>1, <2>2, SeqLines
    <3>2. g[k + 1] = Append(s, x)
      BY <2>3, <2>5
    <3> HIDE DEF s, x
    <3>3. /\ Append(s, x) \in Seq(Line) /\ Len(Append(s, x)) = Len(s) + 1
          /\ DOMAIN Append(s, x) = 1..(Len(s) + 1)
          /\ \A i \in 1..Len(s) : Append(s, x)[i] = s[i]
          /\ Append(s, x)[Len(s) + 1] = x
      BY <3>1
    <3>4. \A i \in DOMAIN Append(s, x) : \E j \in 1..n : Append(s, x)[i] = lines[j]
      <4> SUFFICES ASSUME NEW i \in 1..(Len(s) + 1)
                   PROVE  \E j \in 1..n : Append(s, x)[i] = lines[j]
        BY <3>3
      <4>1. CASE i = Len(s) + 1
        BY <2>2, <3>3, <4>1 DEF x
      <4>2. CASE i # Len(s) + 1
        <5>1. i \in 1..Len(s)
          BY <3>1, <4>2
        <5> QED
          BY <2>1, <3>1, <3>3, <5>1 DEF s
      <4> QED
        BY <4>1, <4>2
    <3>5. (1..n) \cap kept = {} =>
              /\ Len(Append(s, x)) = k + 1
              /\ \A i \in 1..(k + 1) : Append(s, x)[i] = lines[i]
      <4> SUFFICES ASSUME (1..n) \cap kept = {}
                   PROVE  /\ Len(Append(s, x)) = k + 1
                          /\ \A i \in 1..(k + 1) : Append(s, x)[i] = lines[i]
        OBVIOUS
      <4>1. Len(s) = k /\ \A i \in 1..k : s[i] = lines[i]
        BY <2>1 DEF s
      <4>2. \A i \in 1..(k + 1) : i = k + 1 \/ i \in 1..k
        OBVIOUS
      <4> QED
        BY <3>3, <4>1, <4>2 DEF x
    <3> QED
      BY <2>2, <2>5, <3>2, <3>3, <3>4, <3>5
  <2> QED
    BY <2>4, <2>5
<1> HIDE DEF S
<1>9. Nat \subseteq S
  BY <1>7, <1>8, NatSet
<1>10. n \in S
  BY <1>2, <1>9
<1>11. /\ g[n] \in Seq(Line)
       /\ \A i \in DOMAIN g[n] : \E j \in 1..n : g[n][i] = lines[j]
       /\ 1..n \subseteq kept => g[n] = << >>
       /\ (1..n) \cap kept = {} => Len(g[n]) = n /\ \A i \in 1..n : g[n][i] = lines[i]
  BY <1>2, <1>10 DEF S
<1>12. (1..n) \cap kept = {} => g[n] = lines
  <2> SUFFICES ASSUME (1..n) \cap kept = {} PROVE g[n] = lines
    OBVIOUS
  <2>1. Len(g[n]) = Len(lines) /\ \A i \in 1..Len(g[n]) : g[n][i] = lines[i]
    BY <1>11 DEF n
  <2> QED
    BY <1>11, <2>1, SeqEqual
<1> QED
  BY <1>1, <1>2, <1>11, <1>12

-----------------------------------------------------------------------------
(* Scrolling. *)

LEMMA LinesType ==
    ASSUME NEW c \in Cons
    PROVE  /\ Lines(c) \in Seq(Line)
           /\ "ALTERNATE" \in c.flags => Active(c) = "alt" /\ Lines(c) = c.alt
           /\ "ALTERNATE" \notin c.flags => Active(c) = "main" /\ Lines(c) = c.main
BY DEF Cons, Lines, Active

\* t in the place of the lines in use.
PutLines(c, t, d) ==
    /\ d \in Cons /\ Same(c, d) /\ d.sb = c.sb /\ d.y = c.y /\ d.dangling = c.dangling
    /\ "ALTERNATE" \in c.flags => d.alt = t /\ d.main = c.main
    /\ "ALTERNATE" \notin c.flags => d.main = t /\ d.alt = c.alt

LEMMA PuttingLines ==
    ASSUME NEW c \in Cons, NEW t \in Seq(Line), Len(t) = Len(Lines(c))
    PROVE  PutLines(c, t, [c EXCEPT ![Active(c)] = t])
<1> DEFINE d == [c EXCEPT ![Active(c)] = t]
<1>1. CASE "ALTERNATE" \in c.flags
  <2>1. d = [c EXCEPT !.alt = t] /\ Len(t) = Len(c.alt)
    BY <1>1, LinesType
  <2> QED
    BY <1>1, <2>1 DEF Cons, Same, PutLines
<1>2. CASE "ALTERNATE" \notin c.flags
  <2>1. d = [c EXCEPT !.main = t] /\ Len(t) = Len(c.main)
    BY <1>2, LinesType
  <2> QED
    BY <1>2, <2>1 DEF Cons, Same, PutLines
<1> QED
  BY <1>1, <1>2

\* Lines move within the rows from top to top + max, and `cache` fills the gap.
LEMMA ShiftedUpType ==
    ASSUME NEW s \in Seq(Line), NEW top \in Nat, NEW max \in Nat, NEW num \in 0..max,
           top + max <= Len(s), NEW cache, \A i \in 1..num : cache[i] \in Line
    PROVE  /\ ShiftedUp(s, top, max, num, cache) \in Seq(Line)
           /\ Len(ShiftedUp(s, top, max, num, cache)) = Len(s)
           /\ \A i \in 1..Len(s) :
                 i <= top \/ i > top + max => ShiftedUp(s, top, max, num, cache)[i] = s[i]
           /\ \A i \in 1..Len(s) :
                 top < i /\ i <= top + max - num
                     => ShiftedUp(s, top, max, num, cache)[i] = s[i + num]
           /\ \A p : Unmarked(s, p) /\ (\A i \in 1..num : p \notin cache[i].ptr)
                         => Unmarked(ShiftedUp(s, top, max, num, cache), p)
<1> DEFINE e(i) == IF top < i /\ i <= top + max - num THEN s[i + num]
                   ELSE IF top + max - num < i /\ i <= top + max
                        THEN cache[i - (top + max - num)]
                   ELSE s[i]
           n == Len(s)
           t == [i \in 1..n |-> e(i)]
<1>1. n \in Nat /\ DOMAIN s = 1..n /\ \A i \in 1..n : s[i] \in Line
  BY SeqLines
<1>2. ShiftedUp(s, top, max, num, cache) = t
  BY <1>1 DEF ShiftedUp
<1> HIDE DEF n
<1>3. ASSUME NEW i \in 1..n
      PROVE  \/ \E j \in 1..n : e(i) = s[j]
             \/ \E j \in 1..num : e(i) = cache[j]
  <2>1. top + max <= n
    BY DEF n
  <2>2. CASE top < i /\ i <= top + max - num
    <3>1. i + num \in 1..n
      BY <1>1, <2>1, <2>2
    <3> QED
      BY <2>2, <3>1
  <2>3. CASE ~(top < i /\ i <= top + max - num) /\ top + max - num < i /\ i <= top + max
    <3>1. i - (top + max - num) \in 1..num
      BY <1>1, <2>1, <2>3
    <3> QED
      BY <2>3, <3>1
  <2>4. CASE ~(top < i /\ i <= top + max - num) /\ ~(top + max - num < i /\ i <= top + max)
    BY <2>4
  <2> QED
    BY <2>2, <2>3, <2>4
<1>4. \A i \in 1..n : /\ i <= top \/ i > top + max => e(i) = s[i]
                      /\ top < i /\ i <= top + max - num => e(i) = s[i + num]
  OBVIOUS
<1> HIDE DEF e
<1>5. \A i \in 1..n : e(i) \in Line
  BY <1>1, <1>3
<1>6. t \in [1..n -> Line]
  BY <1>5
<1>7. t \in Seq(Line) /\ Len(t) = n /\ DOMAIN t = 1..n
  BY <1>1, <1>6, LinesSeq
<1>8. ASSUME NEW p, Unmarked(s, p), \A i \in 1..num : p \notin cache[i].ptr
      PROVE  Unmarked(t, p)
  BY <1>1, <1>3, <1>7, <1>8 DEF Unmarked
<1>9. \A i \in 1..n : t[i] = e(i)
  OBVIOUS
<1> HIDE DEF t
<1> QED
  BY <1>2, <1>4, <1>7, <1>8, <1>9 DEF n

LEMMA ShiftedDownType ==
    ASSUME NEW s \in Seq(Line), NEW top \in Nat, NEW max \in Nat, NEW num \in 0..max,
           top + max <= Len(s), NEW cache, \A i \in 1..num : cache[i] \in Line
    PROVE  /\ ShiftedDown(s, top, max, num, cache) \in Seq(Line)
           /\ Len(ShiftedDown(s, top, max, num, cache)) = Len(s)
           /\ \A i \in 1..Len(s) :
                 i <= top \/ i > top + max => ShiftedDown(s, top, max, num, cache)[i] = s[i]
           /\ \A p : Unmarked(s, p) /\ (\A i \in 1..num : p \notin cache[i].ptr)
                         => Unmarked(ShiftedDown(s, top, max, num, cache), p)
<1> DEFINE e(i) == IF top < i /\ i <= top + num THEN cache[i - top]
                   ELSE IF top + num < i /\ i <= top + max THEN s[i - num]
                   ELSE s[i]
           n == Len(s)
           t == [i \in 1..n |-> e(i)]
<1>1. n \in Nat /\ DOMAIN s = 1..n /\ \A i \in 1..n : s[i] \in Line
  BY SeqLines
<1>2. ShiftedDown(s, top, max, num, cache) = t
  BY <1>1 DEF ShiftedDown
<1> HIDE DEF n
<1>3. ASSUME NEW i \in 1..n
      PROVE  \/ \E j \in 1..n : e(i) = s[j]
             \/ \E j \in 1..num : e(i) = cache[j]
  <2>1. top + max <= n
    BY DEF n
  <2>2. CASE top < i /\ i <= top + num
    <3>1. i - top \in 1..num
      BY <1>1, <2>1, <2>2
    <3> QED
      BY <2>2, <3>1
  <2>3. CASE ~(top < i /\ i <= top + num) /\ top + num < i /\ i <= top + max
    <3>1. i - num \in 1..n
      BY <1>1, <2>1, <2>3
    <3> QED
      BY <2>3, <3>1
  <2>4. CASE ~(top < i /\ i <= top + num) /\ ~(top + num < i /\ i <= top + max)
    BY <2>4
  <2> QED
    BY <2>2, <2>3, <2>4
<1>4. \A i \in 1..n : i <= top \/ i > top + max => e(i) = s[i]
  OBVIOUS
<1> HIDE DEF e
<1>5. \A i \in 1..n : e(i) \in Line
  BY <1>1, <1>3
<1>6. t \in [1..n -> Line]
  BY <1>5
<1>7. t \in Seq(Line) /\ Len(t) = n /\ DOMAIN t = 1..n
  BY <1>1, <1>6, LinesSeq
<1>8. ASSUME NEW p, Unmarked(s, p), \A i \in 1..num : p \notin cache[i].ptr
      PROVE  Unmarked(t, p)
  BY <1>1, <1>3, <1>7, <1>8 DEF Unmarked
<1>9. \A i \in 1..n : t[i] = e(i)
  OBVIOUS
<1> HIDE DEF t
<1> QED
  BY <1>2, <1>4, <1>7, <1>8, <1>9 DEF n

\* Text moves only in the rows of the region, and none of the main screen or of the
\* scrollback while the alternate screen is in use.
Outside(c, d) ==
    \A i \in DOMAIN c.main :
        i <= c.margin_top \/ i > c.margin_bottom + 1 => d.main[i].ink = c.main[i].ink
Apart(c, d) ==
    "ALTERNATE" \in c.flags =>
        SameInk(c.main, d.main) /\ (Viewed(c) => SameInk(c.sb, d.sb))

Scrolls(c, d) == Moves(c, d) /\ Outside(c, d) /\ Apart(c, d)

LEMMA ScrollsTwice ==
    ASSUME NEW c, NEW d, NEW e, c \in Cons, Scrolls(c, d), Scrolls(d, e)
    PROVE  Scrolls(c, e)
<1>1. Moves(c, e)
  BY MovesTwice DEF Scrolls
<1>2. /\ Same(c, d) /\ d \in Cons /\ Kept(c, d)
  BY DEF Scrolls, Moves
<1>3. /\ DOMAIN c.main = 1..Len(c.main) /\ DOMAIN d.main = 1..Len(d.main)
      /\ Len(d.main) = Len(c.main)
  BY <1>2, SeqLines DEF Cons, Same
<1>4. Outside(c, e)
  BY <1>2, <1>3 DEF Scrolls, Outside, Same
<1>5. Apart(c, e)
  BY <1>2 DEF Scrolls, Apart, Same, Kept, SameInk
<1> QED
  BY <1>1, <1>4, <1>5 DEF Scrolls

\* An end of the selection in another row.
LEMMA RowSet ==
    ASSUME NEW c \in Cons, NEW e \in Ends, NEW y \in RowOrTop,
           NEW d, d = [c EXCEPT !.y[e] = y]
    PROVE  /\ d \in Cons /\ Same(c, d) /\ d.main = c.main /\ d.alt = c.alt /\ d.sb = c.sb
           /\ d.dangling = c.dangling
           /\ \A p \in Ends : d.y[p] = IF p = e THEN y ELSE c.y[p]
<1>1. c.y \in [Ends -> RowOrTop]
  BY DEF Cons
<1>2. d = [c EXCEPT !.y = [c.y EXCEPT ![e] = y]]
  BY DEF Cons
<1>3. [c.y EXCEPT ![e] = y] \in [Ends -> RowOrTop]
  BY <1>1
<1>4. \A p \in Ends : [c.y EXCEPT ![e] = y][p] = IF p = e THEN y ELSE c.y[p]
  BY <1>1
<1> QED
  BY <1>2, <1>3, <1>4 DEF Cons, Same

LEMMA RowSetMoves ==
    ASSUME NEW c \in Cons, NEW e \in Ends, NEW y \in RowOrTop
    PROVE  Scrolls(c, [c EXCEPT !.y[e] = y])
<1> DEFINE d == [c EXCEPT !.y[e] = y]
<1>1. /\ d \in Cons /\ Same(c, d) /\ d.main = c.main /\ d.alt = c.alt /\ d.sb = c.sb
      /\ d.dangling = c.dangling
  BY RowSet
<1> HIDE DEF d
<1>2. Scrolls(c, d)
  BY <1>1 DEF Scrolls, Moves, Kept, Viewed, Live, Outside, Apart, SameInk, Same
<1> QED
  BY <1>2 DEF d

LEMMA ToSbScrolls ==
    ASSUME NEW c \in Cons, NEW p \in Pointer, NEW i
    PROVE  Scrolls(c, ToSb(c, p, i))
<1>1. Pointing(c, p, i, ToSb(c, p, i)) /\ Moves(c, ToSb(c, p, i))
  BY ToSbType, ToSbMoves
<1>2. DOMAIN c.main = 1..Len(c.main)
  BY SeqLines DEF Cons
<1> QED
  BY <1>1, <1>2 DEF Scrolls, Pointing, SameInk, Outside, Apart

LEMMA SelectionUpScrolls ==
    ASSUME NEW c \in Cons, NEW e \in Ends, NEW num \in Nat
    PROVE  Scrolls(c, SelectionUp(c, e, num))
<1> DEFINE y == c.y[e] - num
           k == Greater(0, Len(c.sb) + 1 + y)
           t == ToSb(c, e, k)
<1>1. e \in Pointer
  BY DEF Pointer
<1>2. Scrolls(c, t) /\ t \in Cons
  BY <1>1, ToSbScrolls DEF Scrolls, Moves
<1>3. Scrolls(c, c)
  BY DEF Scrolls, Moves, Kept, Same, Outside, Apart, SameInk
<1>4. c.y[e] \in RowOrTop
  BY DEF Cons
<1> HIDE DEF t, k
<1>5. SelectionTop \in RowOrTop
  BY DEF RowOrTop
<1>6. Scrolls(c, [t EXCEPT !.y[e] = SelectionTop])
  BY <1>2, <1>5, RowSetMoves, ScrollsTwice
<1>7. y >= 0 => Scrolls(c, [c EXCEPT !.y[e] = y])
  <2> SUFFICES ASSUME y >= 0 PROVE Scrolls(c, [c EXCEPT !.y[e] = y])
    OBVIOUS
  <2>1. y \in RowOrTop
    BY <1>4 DEF RowOrTop, SelectionTop
  <2> HIDE DEF y
  <2> QED
    BY <2>1, RowSetMoves
<1>8. SelectionUp(c, e, num) = IF ~c.sel_active \/ ~IsNull(c, e) \/ c.y[e] < 0 THEN c
                               ELSE IF y >= 0 THEN [c EXCEPT !.y[e] = y]
                               ELSE [t EXCEPT !.y[e] = SelectionTop]
  BY DEF SelectionUp, t, k
<1> HIDE DEF y
<1> QED
  BY <1>3, <1>6, <1>7, <1>8

LEMMA ScrollUpScrolls ==
    ASSUME NEW c, Sound(c), NEW count \in Nat, NEW failed
    PROVE  Scrolls(c, ScrollUp(c, count, failed))
<1> DEFINE top == c.margin_top
           max == c.margin_bottom + 1 - c.margin_top
           num == Lesser(count, max)
           old == SubSeq(Lines(c), c.margin_top + 1, c.margin_top + num)
           kept == Reused(c, num, failed)
           cache == [i \in 1..num |->
                        IF i \in kept THEN Recycled(c, old[i]) ELSE NewLine(c.size_x)]
           t == ShiftedUp(Lines(c), top, max, num, cache)
           moved == [c EXCEPT ![Active(c)] = t]
           linked == LinkToScrollback(moved, Without(old, kept))
           first == SelectionUp(linked, "sel_start", num)
<1>1. /\ c \in Cons /\ Lines(c) \in Seq(Line) /\ Len(Lines(c)) = Len(c.main)
      /\ top \in Nat /\ max \in Nat /\ top + max <= Len(Lines(c))
      /\ top + max = c.margin_bottom + 1
      /\ c.size_x \in Nat \ {0} /\ Len(c.main) \in Nat /\ DOMAIN c.main = 1..Len(c.main)
      /\ "sel_start" \in Ends /\ "sel_end" \in Ends
  <2>1. c \in Cons /\ Lines(c) \in Seq(Line)
    BY LinesType DEF Sound
  <2>2. Len(Lines(c)) = Len(c.main)
    BY <2>1, LinesType DEF Sound
  <2>3. Len(c.main) \in Nat /\ DOMAIN c.main = 1..Len(c.main)
    BY <2>1, SeqLines DEF Cons
  <2> QED
    BY <2>1, <2>2, <2>3 DEF Sound, Cons, Ends
<1>2. ScrollUp(c, count, failed) = SelectionUp(first, "sel_end", num)
  BY DEF ScrollUp, Lines
<1>3. num \in Nat /\ num <= max /\ num \in 0..max
  BY <1>1 DEF Lesser
<1> HIDE DEF max, num
<1>4. /\ old \in Seq(Line) /\ DOMAIN old = 1..num
      /\ \A i \in 1..num : old[i] = Lines(c)[top + i] /\ top + i \in 1..Len(Lines(c))
  <2>1. \A i \in (top + 1)..(top + num) : Lines(c)[i] \in Line
    BY <1>1, <1>3, SeqLines
  <2>2. /\ old \in Seq(Line)
        /\ Len(old) = IF top + 1 <= top + num THEN (top + num) - (top + 1) + 1 ELSE 0
        /\ \A i \in 1..((top + num) - (top + 1) + 1) : old[i] = Lines(c)[(top + 1) + i - 1]
    <3>1. top + 1 \in Int /\ top + num \in Int
      BY <1>1, <1>3
    <3> HIDE DEF top
    <3> QED
      BY <2>1, <3>1, SubSeqProperties DEF old, top
  <2>3. Len(old) = num /\ (top + num) - (top + 1) + 1 = num
    BY <1>1, <1>3, <2>2
  <2>4. \A i \in 1..num : (top + 1) + i - 1 = top + i /\ top + i \in 1..Len(Lines(c))
    BY <1>1, <1>3
  <2> QED
    BY <2>2, <2>3, <2>4, SeqLines
<1> HIDE DEF old
<1>5. \A i \in 1..num : old[i] \in Line
  BY <1>4, SeqLines
<1>6. \A i \in 1..num : /\ cache[i] \in Line
                        /\ cache[i].ptr \subseteq old[i].ptr
  BY <1>1, <1>5, RecycledType, NewLineType
<1> HIDE DEF cache, kept
<1>7. /\ t \in Seq(Line) /\ Len(t) = Len(Lines(c))
      /\ \A i \in 1..Len(Lines(c)) : i <= top \/ i > top + max => t[i] = Lines(c)[i]
      /\ \A p : Unmarked(Lines(c), p) /\ (\A i \in 1..num : p \notin cache[i].ptr)
                    => Unmarked(t, p)
  <2> DEFINE s == Lines(c)
             u == ShiftedUp(s, top, max, num, cache)
  <2>1. /\ s \in Seq(Line) /\ top \in Nat /\ max \in Nat /\ num \in 0..max
        /\ top + max <= Len(s) /\ \A i \in 1..num : cache[i] \in Line
    BY <1>1, <1>3, <1>6
  <2> HIDE DEF top, s, t
  <2>2. u \in Seq(Line) /\ Len(u) = Len(s)
    BY <2>1, ShiftedUpType
  <2>3. \A i \in 1..Len(s) : i <= top \/ i > top + max => u[i] = s[i]
    BY <2>1, ShiftedUpType
  <2>4. \A p : Unmarked(s, p) /\ (\A i \in 1..num : p \notin cache[i].ptr) => Unmarked(u, p)
    BY <2>1, ShiftedUpType
  <2>5. t = u
    BY DEF s, t
  <2> HIDE DEF u
  <2> QED
    BY <2>2, <2>3, <2>4, <2>5 DEF s
<1> HIDE DEF t
<1>8. /\ moved \in Cons /\ Same(c, moved) /\ moved.sb = c.sb /\ moved.y = c.y
      /\ moved.dangling = c.dangling
      /\ "ALTERNATE" \in c.flags => moved.alt = t /\ moved.main = c.main
      /\ "ALTERNATE" \notin c.flags => moved.main = t /\ moved.alt = c.alt
  BY <1>1, <1>7, PuttingLines DEF PutLines
<1> HIDE DEF moved
<1>9. Viewed(c) => Viewed(moved)
  <2> SUFFICES ASSUME Viewed(c) PROVE Unmarked(moved.main, "sb_pos")
    BY <1>8 DEF Viewed, Same
  <2>1. CASE "ALTERNATE" \in c.flags
    BY <1>8, <2>1 DEF Viewed
  <2>2. CASE "ALTERNATE" \notin c.flags
    <3>1. Lines(c) = c.main /\ Unmarked(Lines(c), "sb_pos")
      BY <1>1, <2>2, LinesType DEF Viewed
    <3>2. \A i \in 1..num : "sb_pos" \notin cache[i].ptr
      BY <1>1, <1>4, <1>6, <3>1 DEF Unmarked
    <3> QED
      BY <1>7, <1>8, <2>2, <3>1, <3>2
  <2> QED
    BY <2>1, <2>2
<1>10. Scrolls(c, moved)
  <2>1. Moves(c, moved)
    BY <1>8, <1>9 DEF Moves, Kept, Live, Same
  <2>2. Outside(c, moved)
    <3>1. CASE "ALTERNATE" \in c.flags
      BY <1>8, <3>1 DEF Outside
    <3>2. CASE "ALTERNATE" \notin c.flags
      <4>1. Lines(c) = c.main /\ moved.main = t
        BY <1>1, <1>8, <3>2, LinesType
      <4> QED
        BY <1>1, <1>7, <4>1 DEF Outside
    <3> QED
      BY <3>1, <3>2
  <2>3. Apart(c, moved)
    BY <1>8 DEF Apart, SameInk
  <2> QED
    BY <2>1, <2>2, <2>3 DEF Scrolls
<1>11. /\ Without(old, kept) \in Seq(Line)
       /\ \A i \in DOMAIN Without(old, kept) : \E j \in 1..num : Without(old, kept)[i] = old[j]
       /\ "ALTERNATE" \in c.flags => Without(old, kept) = << >>
  <2>1. "ALTERNATE" \in c.flags => 1..num \subseteq kept
    BY DEF kept, Reused, Active
  <2>2. /\ Without(old, kept) \in Seq(Line)
        /\ \A i \in DOMAIN Without(old, kept) :
              \E j \in DOMAIN old : Without(old, kept)[i] = old[j]
        /\ DOMAIN old \subseteq kept => Without(old, kept) = << >>
    BY <1>4, WithoutType
  <2> QED
    BY <1>4, <2>1, <2>2
<1>12. Viewed(c) => Unmarked(Without(old, kept), "sb_pos")
  <2>1. CASE "ALTERNATE" \in c.flags
    BY <1>11, <2>1 DEF Unmarked
  <2>2. CASE "ALTERNATE" \notin c.flags
    <3>1. Lines(c) = c.main
      BY <1>1, <2>2, LinesType
    <3>2. Viewed(c) => \A i \in 1..num : "sb_pos" \notin old[i].ptr
      BY <1>1, <1>4, <3>1 DEF Unmarked, Viewed
    <3> QED
      BY <1>11, <3>2 DEF Unmarked
  <2> QED
    BY <2>1, <2>2
<1>13. /\ linked \in Cons /\ Same(moved, linked) /\ (Live(moved) => Live(linked))
       /\ Viewed(moved) /\ Unmarked(Without(old, kept), "sb_pos") => Viewed(linked)
       /\ Linked(moved, Without(old, kept), linked)
  BY <1>8, <1>11, LinkMoves
<1> HIDE DEF linked
<1>14. Moves(c, linked)
  <2>1. Viewed(c) => Viewed(linked)
    BY <1>9, <1>12, <1>13
  <2>2. Live(c) => Live(linked)
    BY <1>10, <1>13 DEF Scrolls, Moves, Kept
  <2> QED
    BY <1>8, <1>13, <2>1, <2>2 DEF Moves, Kept, Same
<1>15. Scrolls(c, linked) /\ linked \in Cons
  <2>1. moved.sb \in Seq(Line) /\ moved.main \in Seq(Line) /\ linked.main \in Seq(Line)
    BY <1>8, <1>13 DEF Cons
  <2>2. SameInk(moved.main, linked.main)
    BY <1>13, <2>1, SeqLines DEF Linked, Alike, SameInk
  <2>3. Len(moved.main) = Len(c.main)
    BY <1>8 DEF Same
  <2>4. Outside(c, linked)
    BY <1>1, <1>10, <2>2, <2>3 DEF Scrolls, Outside, SameInk
  <2>5. "ALTERNATE" \in c.flags => SameInk(c.main, linked.main)
    BY <1>10, <2>2 DEF Scrolls, Apart, SameInk
  <2>6. "ALTERNATE" \in c.flags /\ Viewed(c) => SameInk(c.sb, linked.sb)
    <3> SUFFICES ASSUME "ALTERNATE" \in c.flags, Viewed(c)
                 PROVE  SameInk(c.sb, linked.sb)
      OBVIOUS
    <3>1. Without(old, kept) = << >> /\ Len(Without(old, kept)) = 0
      BY <1>11
    <3>2. moved.sb \o Without(old, kept) = c.sb
      BY <1>8, <2>1, <3>1, ConcatEmptySeq
    <3>3. c.sb_max \in Nat /\ Len(c.sb) \in Nat /\ Len(c.sb) <= c.sb_max
      <4>1. c.sb_max \in Nat /\ c.sb \in Seq(Line)
        BY <1>1 DEF Cons
      <4> QED
        BY <4>1, SeqLines DEF Viewed
    <3>4. Len(c.sb) + 0 - c.sb_max <= 0
      BY <3>3
    <3>5. Evicted(moved, 0) = 0
      BY <1>8, <3>3, <3>4 DEF Evicted, Greater, Same
    <3>6. linked.sb \in Seq(Line) /\ DOMAIN linked.sb = 1..Len(linked.sb)
      BY <1>13, SeqLines DEF Cons
    <3>7. Len(linked.sb) = Len(c.sb)
      BY <1>13, <3>1, <3>2, <3>3, <3>5 DEF Linked
    <3>8. \A i \in DOMAIN linked.sb : Alike(linked.sb[i], c.sb[i + 0])
      BY <1>13, <3>1, <3>2, <3>5 DEF Linked
    <3>9. \A i \in DOMAIN linked.sb : i + 0 = i
      BY <3>6, SeqLines
    <3> QED
      BY <3>6, <3>7, <3>8, <3>9 DEF SameInk, Alike
  <2> QED
    BY <1>13, <1>14, <2>4, <2>5, <2>6 DEF Scrolls, Apart
<1>16. Scrolls(linked, first)
  BY <1>1, <1>3, <1>15, SelectionUpScrolls
<1> HIDE DEF first
<1>17. Scrolls(c, first) /\ first \in Cons
  BY <1>1, <1>15, <1>16, ScrollsTwice DEF Scrolls, Moves
<1>18. Scrolls(first, SelectionUp(first, "sel_end", num))
  BY <1>1, <1>3, <1>17, SelectionUpScrolls
<1> QED
  BY <1>1, <1>2, <1>17, <1>18, ScrollsTwice

\* Lines that replace those in use, with no text moved outside the region and no mark
\* gained.
LEMMA PutScrolls ==
    ASSUME NEW c, Sound(c), NEW t \in Seq(Line), Len(t) = Len(Lines(c)),
           \A i \in 1..Len(t) : i <= c.margin_top \/ i > c.margin_bottom + 1
                                    => t[i] = Lines(c)[i],
           Unmarked(Lines(c), "sb_pos") => Unmarked(t, "sb_pos")
    PROVE  /\ Scrolls(c, [c EXCEPT ![Active(c)] = t])
           /\ PutLines(c, t, [c EXCEPT ![Active(c)] = t])
<1> DEFINE d == [c EXCEPT ![Active(c)] = t]
<1>1. c \in Cons /\ PutLines(c, t, d)
  BY PuttingLines DEF Sound
<1> HIDE DEF d
<1>2. DOMAIN c.main = 1..Len(c.main)
  BY <1>1, SeqLines DEF Cons
<1>3. CASE "ALTERNATE" \in c.flags
  <2>1. /\ d \in Cons /\ Same(c, d) /\ d.sb = c.sb /\ d.dangling = c.dangling
        /\ d.main = c.main
    BY <1>1, <1>3 DEF PutLines
  <2>2. Scrolls(c, d)
    BY <1>2, <2>1 DEF Scrolls, Moves, Kept, Viewed, Live, Same, Outside, Apart, SameInk
  <2> QED
    BY <1>1, <2>2 DEF d
<1>4. CASE "ALTERNATE" \notin c.flags
  <2>1. /\ d \in Cons /\ Same(c, d) /\ d.sb = c.sb /\ d.dangling = c.dangling
        /\ d.main = t /\ Lines(c) = c.main
    BY <1>1, <1>4, LinesType DEF PutLines
  <2>2. Viewed(c) => Viewed(d)
    BY <2>1 DEF Viewed, Same
  <2>3. Outside(c, d)
    BY <1>2, <2>1 DEF Outside
  <2>4. Scrolls(c, d)
    BY <1>4, <2>1, <2>2, <2>3 DEF Scrolls, Moves, Kept, Live, Same, Apart
  <2> QED
    BY <1>1, <2>4 DEF d
<1> QED
  BY <1>3, <1>4

LEMMA ScrollDownScrolls ==
    ASSUME NEW c, Sound(c), NEW count \in Nat
    PROVE  Scrolls(c, ScrollDown(c, count))
<1> DEFINE top == c.margin_top
           max == c.margin_bottom + 1 - c.margin_top
           num == Lesser(count, max)
           cache == [i \in 1..num |-> Recycled(c, Lines(c)[c.margin_bottom + 2 - i])]
           t == ShiftedDown(Lines(c), top, max, num, cache)
           moved == [c EXCEPT ![Active(c)] = t]
           rows == [e \in Ends |-> IF c.sel_active /\ IsNull(c, e) /\ moved.y[e] >= 0
                                   THEN moved.y[e] + num ELSE moved.y[e]]
           d == [moved EXCEPT !.y = rows]
<1>1. /\ c \in Cons /\ Lines(c) \in Seq(Line) /\ Len(Lines(c)) = Len(c.main)
      /\ top \in Nat /\ max \in Nat /\ top + max <= Len(Lines(c))
      /\ top + max = c.margin_bottom + 1
      /\ Len(Lines(c)) \in Nat /\ DOMAIN Lines(c) = 1..Len(Lines(c))
      /\ c.margin_bottom \in Nat /\ c.margin_bottom < Len(Lines(c))
  <2>1. c \in Cons /\ Lines(c) \in Seq(Line)
    BY LinesType DEF Sound
  <2>2. Len(Lines(c)) = Len(c.main)
    BY <2>1, LinesType DEF Sound
  <2>3. Len(Lines(c)) \in Nat /\ DOMAIN Lines(c) = 1..Len(Lines(c))
    BY <2>1, SeqLines
  <2> QED
    BY <2>1, <2>2, <2>3 DEF Sound, Cons
<1>2. ScrollDown(c, count) = d
  BY DEF ScrollDown, Lines
<1>3. num \in Nat /\ num <= max /\ num \in 0..max
  BY <1>1 DEF Lesser
<1> HIDE DEF num, max
<1>4. ASSUME NEW i \in 1..num
      PROVE  /\ cache[i] \in Line
             /\ Unmarked(Lines(c), "sb_pos") => "sb_pos" \notin cache[i].ptr
  <2>1. c.margin_bottom + 2 - i \in 1..Len(Lines(c))
    <3>1. i \in Nat /\ 1 <= i /\ i <= num /\ num <= max /\ max <= c.margin_bottom + 1
      BY <1>1, <1>3
    <3>2. i <= c.margin_bottom + 1
      BY <1>1, <1>3, <3>1
    <3> QED
      BY <1>1, <3>1, <3>2
  <2>2. Lines(c)[c.margin_bottom + 2 - i] \in Line
    BY <1>1, <2>1, SeqLines
  <2>3. /\ cache[i] = Recycled(c, Lines(c)[c.margin_bottom + 2 - i])
        /\ cache[i] \in Line
        /\ cache[i].ptr \subseteq Lines(c)[c.margin_bottom + 2 - i].ptr
    BY <2>2, RecycledType
  <2> QED
    BY <1>1, <2>1, <2>3 DEF Unmarked
<1> HIDE DEF cache
<1>5. /\ t \in Seq(Line) /\ Len(t) = Len(Lines(c))
      /\ \A i \in 1..Len(Lines(c)) : i <= top \/ i > top + max => t[i] = Lines(c)[i]
      /\ \A p : Unmarked(Lines(c), p) /\ (\A i \in 1..num : p \notin cache[i].ptr)
                    => Unmarked(t, p)
  <2>1. \A i \in 1..num : cache[i] \in Line
    BY <1>4
  <2> HIDE DEF top, max
  <2> QED
    BY <1>1, <1>3, <2>1, ShiftedDownType
<1> HIDE DEF t
<1>6. Scrolls(c, moved) /\ PutLines(c, t, moved)
  <2>1. Unmarked(Lines(c), "sb_pos") => Unmarked(t, "sb_pos")
    BY <1>4, <1>5
  <2>2. \A i \in 1..Len(t) : i <= c.margin_top \/ i > c.margin_bottom + 1
                                 => t[i] = Lines(c)[i]
    BY <1>1, <1>5
  <2> QED
    BY <1>5, <2>1, <2>2, PutScrolls
<1> HIDE DEF moved
<1>7. moved \in Cons /\ moved.y = c.y /\ c.y \in [Ends -> RowOrTop]
  BY <1>1, <1>6 DEF PutLines, Cons
<1>8. rows \in [Ends -> RowOrTop]
  <2>1. ASSUME NEW e \in Ends, moved.y[e] >= 0 PROVE moved.y[e] + num \in RowOrTop
    <3>1. moved.y[e] \in RowOrTop
      BY <1>7
    <3> QED
      BY <1>3, <2>1, <3>1 DEF RowOrTop, SelectionTop
  <2> QED
    BY <1>7, <2>1
<1> HIDE DEF rows
<1>9. /\ d \in Cons /\ Same(moved, d) /\ d.main = moved.main /\ d.sb = moved.sb
      /\ d.dangling = moved.dangling
  BY <1>7, <1>8 DEF Cons, Same
<1> HIDE DEF d
<1>10. Scrolls(moved, d)
  BY <1>9 DEF Scrolls, Moves, Kept, Viewed, Live, Same, Outside, Apart, SameInk
<1> QED
  BY <1>1, <1>2, <1>6, <1>10, ScrollsTwice

\* The cursor is on the screen, maybe beyond its last column.
Placed(c) == c.cursor_y < c.size_y /\ c.cursor_x <= c.size_x + 1

LEMMA MovedToType ==
    ASSUME NEW c, Sound(c), NEW x \in Nat, NEW y \in Nat
    PROVE  /\ Sound(MovedTo(c, x, y))
           /\ MovedTo(c, x, y).cursor_x = x /\ MovedTo(c, x, y).cursor_y = y
           /\ MovedTo(c, x, y).main = c.main /\ MovedTo(c, x, y).sb = c.sb
           /\ MovedTo(c, x, y).alt = c.alt
           /\ MovedTo(c, x, y).size_x = c.size_x /\ MovedTo(c, x, y).size_y = c.size_y
           /\ MovedTo(c, x, y).margin_top = c.margin_top
           /\ MovedTo(c, x, y).margin_bottom = c.margin_bottom
           /\ MovedTo(c, x, y).flags = c.flags /\ MovedTo(c, x, y).sb_max = c.sb_max
           /\ MovedTo(c, x, y).sel_active = c.sel_active
           /\ MovedTo(c, x, y).dangling = c.dangling /\ MovedTo(c, x, y).y = c.y
BY DEF Sound, Cons, MovedTo

LEMMA ScrollsSound ==
    ASSUME NEW c, Sound(c), NEW d, Moves(c, d)
    PROVE  Sound(d) /\ (Placed(c) => Placed(d))
BY DEF Sound, Moves, Same, Placed

-----------------------------------------------------------------------------
(* The cursor and the cells. *)

\* c becomes d, with other text in the region and in the rows R only.
Steady(c, d) ==
    /\ d.size_x = c.size_x /\ d.size_y = c.size_y
    /\ d.margin_top = c.margin_top /\ d.margin_bottom = c.margin_bottom
    /\ d.flags = c.flags /\ d.sb_max = c.sb_max /\ d.sel_active = c.sel_active
    /\ Len(d.main) = Len(c.main)

Writes(c, d, R) ==
    /\ Sound(d) /\ Steady(c, d) /\ Kept(c, d) /\ Apart(c, d)
    /\ \A i \in DOMAIN c.main \ R :
          i <= c.margin_top \/ i > c.margin_bottom + 1 => d.main[i].ink = c.main[i].ink

LEMMA WritesTwice ==
    ASSUME NEW c, NEW d, NEW e, NEW R, Sound(c), Writes(c, d, R), Writes(d, e, R)
    PROVE  Writes(c, e, R)
<1>1. /\ Sound(d) /\ Steady(c, d) /\ Kept(c, d) /\ Apart(c, d)
      /\ Sound(e) /\ Steady(d, e) /\ Kept(d, e) /\ Apart(d, e)
  BY DEF Writes
<1>2. DOMAIN c.main = 1..Len(c.main) /\ DOMAIN d.main = 1..Len(d.main)
  BY <1>1, SeqLines DEF Sound, Cons
<1>3. Steady(c, e) /\ Kept(c, e)
  BY <1>1 DEF Steady, Kept
<1>4. Apart(c, e)
  BY <1>1 DEF Apart, SameInk, Steady, Kept
<1>5. \A i \in DOMAIN c.main \ R :
          i <= c.margin_top \/ i > c.margin_bottom + 1 => e.main[i].ink = c.main[i].ink
  BY <1>1, <1>2 DEF Steady, Writes
<1> QED
  BY <1>1, <1>3, <1>4, <1>5 DEF Writes

LEMMA ScrollsWrites ==
    ASSUME NEW c, NEW d, NEW R, Sound(c), Scrolls(c, d)
    PROVE  /\ Writes(c, d, R) /\ d.cursor_x = c.cursor_x /\ d.cursor_y = c.cursor_y
BY ScrollsSound DEF Scrolls, Moves, Same, Steady, Writes, Outside

LEMMA MovedToWrites ==
    ASSUME NEW c, Sound(c), NEW x \in Nat, NEW y \in Nat, NEW R
    PROVE  /\ Writes(c, MovedTo(c, x, y), R) /\ Sound(MovedTo(c, x, y))
           /\ MovedTo(c, x, y).cursor_x = x /\ MovedTo(c, x, y).cursor_y = y
           /\ MovedTo(c, x, y).size_x = c.size_x /\ MovedTo(c, x, y).size_y = c.size_y
<1> DEFINE d == MovedTo(c, x, y)
<1>1. /\ Sound(d) /\ d.main = c.main /\ d.sb = c.sb
      /\ d.size_x = c.size_x /\ d.size_y = c.size_y
      /\ d.margin_top = c.margin_top /\ d.margin_bottom = c.margin_bottom
      /\ d.flags = c.flags /\ d.sb_max = c.sb_max /\ d.sel_active = c.sel_active
      /\ d.dangling = c.dangling /\ d.cursor_x = x /\ d.cursor_y = y
  BY MovedToType
<1> HIDE DEF d
<1>2. Steady(c, d)
  BY <1>1 DEF Steady
<1>3. Kept(c, d)
  BY <1>1 DEF Kept, Viewed, Live
<1>4. Apart(c, d)
  BY <1>1 DEF Apart, SameInk
<1>5. Writes(c, d, R)
  BY <1>1, <1>2, <1>3, <1>4 DEF Writes
<1> QED
  BY <1>1, <1>5 DEF d

\* Ink in one row.
LEMMA WithInkWrites ==
    ASSUME NEW c, Sound(c), NEW y \in 0..(c.size_y - 1), NEW ink, NEW R, y + 1 \in R
    PROVE  /\ Writes(c, WithInk(c, y, ink), R)
           /\ WithInk(c, y, ink).cursor_x = c.cursor_x
           /\ WithInk(c, y, ink).cursor_y = c.cursor_y
<1> DEFINE l == c.main[y + 1]
           k == ink \cap Columns(l.size)
           m == [l EXCEPT !.ink = k]
           s == [c.main EXCEPT ![y + 1] = m]
           d == [c EXCEPT !.main = s]
<1>1. /\ c \in Cons /\ c.main \in Seq(Line) /\ DOMAIN c.main = 1..Len(c.main)
      /\ Len(c.main) \in Nat /\ y + 1 \in 1..Len(c.main) /\ l \in Line
  <2>1. c \in Cons /\ c.main \in Seq(Line) /\ c.size_y \in Nat /\ c.size_y <= Len(c.main)
    BY DEF Sound, Cons
  <2>2. DOMAIN c.main = 1..Len(c.main) /\ Len(c.main) \in Nat
    BY <2>1, SeqLines
  <2>3. y + 1 \in 1..Len(c.main)
    BY <2>1, <2>2
  <2> QED
    BY <2>1, <2>2, <2>3, SeqLines
<1>2. CASE Active(c) = "alt"
  <2>1. WithInk(c, y, ink) = c
    BY <1>2 DEF WithInk
  <2>2. Writes(c, c, R)
    BY DEF Writes, Steady, Kept, Apart, SameInk
  <2> QED
    BY <2>1, <2>2
<1>3. CASE Active(c) # "alt"
  <2>1. "ALTERNATE" \notin c.flags
    BY <1>3 DEF Active
  <2>2. WithInk(c, y, ink) = d
    BY <1>3, <1>1 DEF WithInk, Cons
  <2>3. m \in Line /\ m.ptr = l.ptr
    BY <1>1, LineInked
  <2> HIDE DEF m
  <2>4. /\ s \in Seq(Line) /\ Len(s) = Len(c.main)
        /\ \A i \in 1..Len(c.main) : s[i] = IF i = y + 1 THEN m ELSE c.main[i]
    BY <1>1, <2>3, ExceptSeq
  <2>5. DOMAIN s = 1..Len(c.main)
    BY <2>4, SeqLines
  <2> HIDE DEF s
  <2>6. /\ d \in Cons /\ d.main = s /\ d.alt = c.alt /\ d.sb = c.sb
        /\ d.dangling = c.dangling /\ d.size_y = c.size_y /\ Steady(c, d)
        /\ d.cursor_x = c.cursor_x /\ d.cursor_y = c.cursor_y
    BY <1>1, <2>4 DEF Cons, Steady
  <2> HIDE DEF d
  <2>7. Unmarked(c.main, "sb_pos") => Unmarked(d.main, "sb_pos")
    BY <1>1, <2>3, <2>4, <2>5, <2>6 DEF Unmarked
  <2>8. Kept(c, d)
    BY <2>6, <2>7 DEF Kept, Viewed, Live, Steady
  <2>9. Sound(d)
    BY <2>6 DEF Sound, Steady
  <2>10. \A i \in DOMAIN c.main \ R : d.main[i].ink = c.main[i].ink
    BY <1>1, <2>4, <2>6
  <2>11. Writes(c, d, R)
    BY <2>1, <2>6, <2>8, <2>9, <2>10 DEF Writes, Apart
  <2> QED
    BY <2>2, <2>6, <2>11
<1> QED
  BY <1>2, <1>3

\* What a call does that writes or moves the cursor.
TextStep(c, d) == Placed(d) /\ Writes(c, d, {c.cursor_y + 1, d.cursor_y + 1})

LEMMA SoundNumbers ==
    ASSUME NEW c, Sound(c)
    PROVE  /\ c \in Cons /\ c.size_x \in Nat \ {0} /\ c.size_y \in Nat \ {0}
           /\ c.cursor_x \in Nat /\ c.cursor_y \in Nat
           /\ c.margin_top \in Nat /\ c.margin_bottom \in Nat
           /\ c.margin_top <= c.margin_bottom /\ c.margin_bottom < c.size_y
           /\ c.sb_max \in Nat
BY DEF Sound, Cons

\* The cursor in its place after lines have scrolled.
LEMMA ScrolledTo ==
    ASSUME NEW c, Sound(c), NEW d, Scrolls(c, d), NEW x \in 0..(c.size_x + 1),
           NEW y \in 0..(c.size_y - 1), NEW R
    PROVE  /\ Writes(c, MovedTo(d, x, y), R) /\ Placed(MovedTo(d, x, y))
           /\ MovedTo(d, x, y).cursor_x = x /\ MovedTo(d, x, y).cursor_y = y
<1>1. Writes(c, d, R) /\ Sound(d) /\ x \in Nat /\ y \in Nat
  BY ScrollsWrites, SoundNumbers DEF Writes
<1>2. /\ Writes(d, MovedTo(d, x, y), R)
      /\ MovedTo(d, x, y).cursor_x = x /\ MovedTo(d, x, y).cursor_y = y
  BY <1>1, MovedToWrites
<1>3. MovedTo(d, x, y).size_x = c.size_x /\ MovedTo(d, x, y).size_y = c.size_y
  BY <1>1, <1>2 DEF Writes, Steady
<1>4. Placed(MovedTo(d, x, y))
  BY <1>2, <1>3, SoundNumbers DEF Placed
<1> QED
  BY <1>1, <1>2, <1>4, WritesTwice

LEMMA NoScroll == ASSUME NEW c, Sound(c) PROVE Scrolls(c, c)
BY DEF Sound, Scrolls, Moves, Kept, Same, Outside, Apart, SameInk

LEMMA MovedDownStep ==
    ASSUME NEW c, Sound(c), Placed(c), NEW num \in Nat, NEW scroll \in BOOLEAN, NEW failed,
           NEW R
    PROVE  /\ Writes(c, MovedDown(c, num, scroll, failed), R)
           /\ Placed(MovedDown(c, num, scroll, failed))
           /\ MovedDown(c, num, scroll, failed).cursor_y \in 0..(c.size_y - 1)
<1> DEFINE size == IF c.cursor_y <= c.margin_bottom THEN c.margin_bottom + 1 ELSE c.size_y
           diff == size - c.cursor_y - 1
           s == IF scroll THEN ScrollUp(c, num - diff, failed) ELSE c
<1>1. /\ c.cursor_y \in Nat /\ c.cursor_x \in 0..(c.size_x + 1)
      /\ size \in Nat /\ c.cursor_y < size /\ size <= c.size_y /\ c.size_y \in Nat
  BY SoundNumbers DEF Placed
<1>2. diff \in Nat /\ diff = size - (c.cursor_y + 1)
  BY <1>1
<1>3. MovedDown(c, num, scroll, failed) =
          IF num <= diff THEN MovedTo(c, c.cursor_x, c.cursor_y + num)
          ELSE MovedTo(s, c.cursor_x, size - 1)
  BY DEF MovedDown
<1> HIDE DEF size, diff
<1>4. CASE num <= diff
  <2> DEFINE y == c.cursor_y + num
  <2>1. y \in 0..(c.size_y - 1)
    BY <1>1, <1>2, <1>4
  <2> HIDE DEF y
  <2>2. /\ Writes(c, MovedTo(c, c.cursor_x, y), R) /\ Placed(MovedTo(c, c.cursor_x, y))
        /\ MovedTo(c, c.cursor_x, y).cursor_y = y
    BY <1>1, <2>1, NoScroll, ScrolledTo
  <2>3. MovedDown(c, num, scroll, failed) = MovedTo(c, c.cursor_x, y)
    BY <1>3, <1>4 DEF y
  <2> QED
    BY <2>1, <2>2, <2>3
<1>5. CASE ~(num <= diff)
  <2>1. num - diff \in Nat
    BY <1>2, <1>5
  <2>2. Scrolls(c, s)
    BY <2>1, NoScroll, ScrollUpScrolls
  <2>3. size - 1 \in 0..(c.size_y - 1)
    BY <1>1
  <2> HIDE DEF s
  <2> QED
    BY <1>1, <1>3, <1>5, <2>2, <2>3, ScrolledTo
<1> QED
  BY <1>4, <1>5

LEMMA MovedUpStep ==
    ASSUME NEW c, Sound(c), Placed(c), NEW num \in Nat, NEW scroll \in BOOLEAN, NEW R
    PROVE  Writes(c, MovedUp(c, num, scroll), R) /\ Placed(MovedUp(c, num, scroll))
<1> DEFINE size == IF c.cursor_y >= c.margin_top THEN c.margin_top ELSE 0
           diff == c.cursor_y - size
           s == IF scroll THEN ScrollDown(c, num - diff) ELSE c
<1>1. /\ c.cursor_y \in Nat /\ c.cursor_x \in 0..(c.size_x + 1)
      /\ size \in Nat /\ size <= c.cursor_y /\ c.cursor_y < c.size_y /\ c.size_y \in Nat
  BY SoundNumbers DEF Placed
<1>2. diff \in Nat
  BY <1>1
<1>3. MovedUp(c, num, scroll) =
          IF num <= diff THEN MovedTo(c, c.cursor_x, c.cursor_y - num)
          ELSE MovedTo(s, c.cursor_x, size)
  BY DEF MovedUp
<1>4. CASE num <= diff
  <2>1. c.cursor_y - num \in 0..(c.size_y - 1)
    BY <1>1, <1>4
  <2> QED
    BY <1>1, <1>3, <1>4, <2>1, NoScroll, ScrolledTo
<1>5. CASE ~(num <= diff)
  <2>1. num - diff \in Nat
    BY <1>2, <1>5
  <2>2. Scrolls(c, s)
    <3> HIDE DEF diff
    <3> QED
      BY <2>1, NoScroll, ScrollDownScrolls
  <2>3. size \in 0..(c.size_y - 1)
    BY <1>1
  <2> HIDE DEF s, size
  <2> QED
    BY <1>1, <1>3, <1>5, <2>2, <2>3, ScrolledTo
<1> QED
  BY <1>4, <1>5

\* tsm_screen_write up to the cell: the cursor is then on a column of the screen.
LEMMA ReadyStep ==
    ASSUME NEW c, Sound(c), Placed(c), NEW failed, NEW R
    PROVE  /\ Writes(c, ReadyToWrite(c, failed), R)
           /\ ReadyToWrite(c, failed).cursor_x \in 0..(c.size_x - 1)
           /\ ReadyToWrite(c, failed).cursor_y \in 0..(c.size_y - 1)
<1> DEFINE last == IF c.cursor_y <= c.margin_bottom \/ c.cursor_y >= c.size_y
                   THEN c.margin_bottom ELSE c.size_y - 1
           w == IF c.cursor_x < c.size_x THEN c
                ELSE IF "AUTO_WRAP" \in c.flags THEN MovedTo(c, 0, c.cursor_y + 1)
                ELSE MovedTo(c, c.size_x - 1, c.cursor_y)
           m == MovedTo(w, w.cursor_x, last)
           up == ScrollUp(m, 1, failed)
<1>1. /\ c.cursor_x \in Nat /\ c.cursor_y \in Nat /\ c.cursor_y < c.size_y
      /\ c.size_x \in Nat \ {0} /\ c.size_y \in Nat \ {0}
      /\ last \in Nat /\ last < c.size_y
  BY SoundNumbers DEF Placed
<1>2. ReadyToWrite(c, failed) = IF w.cursor_y > last THEN up ELSE w
  BY DEF ReadyToWrite
<1> HIDE DEF last
<1>3. Writes(c, w, R) /\ w.cursor_x \in 0..(c.size_x - 1) /\ w.cursor_y \in Nat
  <2>1. CASE c.cursor_x < c.size_x
    BY <1>1, <2>1, NoScroll, ScrollsWrites
  <2>2. CASE ~(c.cursor_x < c.size_x) /\ "AUTO_WRAP" \in c.flags
    <3> DEFINE y == c.cursor_y + 1
    <3>1. 0 \in Nat /\ y \in Nat /\ 0 \in 0..(c.size_x - 1)
      BY <1>1
    <3>2. w = MovedTo(c, 0, y)
      BY <2>2
    <3> HIDE DEF y, w
    <3> QED
      BY <3>1, <3>2, MovedToWrites
  <2>3. CASE ~(c.cursor_x < c.size_x) /\ "AUTO_WRAP" \notin c.flags
    <3> DEFINE x == c.size_x - 1
    <3>1. x \in Nat /\ x \in 0..(c.size_x - 1)
      BY <1>1
    <3>2. w = MovedTo(c, x, c.cursor_y)
      BY <2>3
    <3> HIDE DEF x, w
    <3> QED
      BY <1>1, <3>1, <3>2, MovedToWrites
  <2> QED
    BY <2>1, <2>2, <2>3
<1> HIDE DEF w
<1>4. CASE w.cursor_y > last
  <2>1. Sound(w) /\ w.cursor_x \in Nat
    BY <1>1, <1>3 DEF Writes
  <2>2. Writes(w, m, R) /\ m.cursor_x = w.cursor_x /\ m.cursor_y = last /\ Sound(m)
    <3>1. last \in Nat
      BY <1>1
    <3> QED
      BY <2>1, <3>1, MovedToWrites
  <2> HIDE DEF m
  <2>3. Writes(c, m, R)
    BY <1>3, <2>2, WritesTwice
  <2>4. Writes(m, up, R) /\ up.cursor_x = m.cursor_x /\ up.cursor_y = m.cursor_y
    BY <2>2, ScrollUpScrolls, ScrollsWrites
  <2> HIDE DEF up
  <2>5. Writes(c, up, R)
    BY <2>3, <2>4, WritesTwice
  <2>6. up.cursor_x \in 0..(c.size_x - 1) /\ up.cursor_y \in 0..(c.size_y - 1)
    BY <1>1, <1>3, <2>2, <2>4
  <2> QED
    BY <1>2, <1>4, <2>5, <2>6
<1>5. CASE ~(w.cursor_y > last)
  <2>1. w.cursor_y \in 0..(c.size_y - 1)
    BY <1>1, <1>3, <1>5
  <2> QED
    BY <1>2, <1>3, <1>5, <2>1
<1> QED
  BY <1>4, <1>5

\* tsm_screen_write, from the state ready for it.
Written(r, len) == MovedTo(WriteCell(r, len), r.cursor_x + len, r.cursor_y)

LEMMA WriteStep ==
    ASSUME NEW c, Sound(c), Placed(c), NEW len \in 1..2, NEW failed
    PROVE  TextStep(c, Written(ReadyToWrite(c, failed), len))
<1> DEFINE r == ReadyToWrite(c, failed)
           x == r.cursor_x
           y == r.cursor_y
           ink == Lines(r)[y + 1].ink
           rest == IF "INSERT_MODE" \in r.flags /\ x + len < r.size_x
                   THEN {i \in ink : i < x + len \/ i >= r.size_x}
                        \cup ({i + len : i \in ink \ Columns(x)} \cap Columns(r.size_x))
                   ELSE ink
           w == WithInk(r, y, rest \cup {x})
           d == MovedTo(w, x + len, y)
           R == {c.cursor_y + 1, y + 1}
<1>1. Writes(c, r, R) /\ x \in 0..(c.size_x - 1) /\ y \in 0..(c.size_y - 1)
  BY ReadyStep DEF r
<1>2. WriteCell(r, len) = w
  BY DEF WriteCell
<1> HIDE DEF rest, r
<1>3. Sound(r) /\ r.size_x = c.size_x /\ r.size_y = c.size_y
  BY <1>1 DEF Writes, Steady
<1>4. c.size_x \in Nat \ {0} /\ c.size_y \in Nat \ {0}
  BY SoundNumbers
<1>5. Writes(r, w, R)
  <2>1. y \in 0..(r.size_y - 1) /\ y + 1 \in R
    BY <1>1, <1>3
  <2> HIDE DEF R, y
  <2> QED
    BY <1>3, <2>1, WithInkWrites
<1> HIDE DEF w, x, y, R
<1>6. Writes(c, w, R)
  BY <1>1, <1>5, WritesTwice
<1>7. x + len \in Nat /\ y \in Nat /\ x + len <= c.size_x + 1 /\ y < c.size_y
  BY <1>1, <1>4
<1>8. Sound(w) /\ w.size_x = c.size_x /\ w.size_y = c.size_y
  BY <1>6 DEF Writes, Steady
<1>9. /\ Writes(w, d, R) /\ d.cursor_x = x + len /\ d.cursor_y = y
      /\ d.size_x = c.size_x /\ d.size_y = c.size_y
  <2> DEFINE z == x + len
  <2>1. z \in Nat /\ y \in Nat /\ Sound(w)
    BY <1>7, <1>8
  <2> HIDE DEF z
  <2>2. /\ Writes(w, MovedTo(w, z, y), R) /\ MovedTo(w, z, y).cursor_x = z
        /\ MovedTo(w, z, y).cursor_y = y
        /\ MovedTo(w, z, y).size_x = w.size_x /\ MovedTo(w, z, y).size_y = w.size_y
    BY <2>1, MovedToWrites
  <2> QED
    BY <1>8, <2>2 DEF z
<1> HIDE DEF d
<1>10. Writes(c, d, R) /\ Placed(d)
  BY <1>6, <1>7, <1>9, WritesTwice DEF Placed
<1>11. R = {c.cursor_y + 1, d.cursor_y + 1}
  BY <1>9 DEF R
<1>12. TextStep(c, d)
  BY <1>10, <1>11 DEF TextStep
<1> QED
  BY <1>2, <1>12 DEF d, x, y, r, Written

\* A move of the cursor alone.
LEMMA MoveStep ==
    ASSUME NEW c, Sound(c), NEW x \in 0..(c.size_x + 1), NEW y \in 0..(c.size_y - 1)
    PROVE  TextStep(c, MovedTo(c, x, y))
BY NoScroll, ScrolledTo DEF TextStep

\* tsm_screen_newline
LineHome(m) == MovedTo(m, 0, m.cursor_y)

LEMMA NewlineStep ==
    ASSUME NEW c, Sound(c), Placed(c), NEW failed
    PROVE  TextStep(c, LineHome(MovedDown(c, 1, TRUE, failed)))
<1> DEFINE m == MovedDown(c, 1, TRUE, failed)
           d == MovedTo(m, 0, m.cursor_y)
           R == {c.cursor_y + 1, m.cursor_y + 1}
<1>1. Writes(c, m, R) /\ m.cursor_y \in 0..(c.size_y - 1)
  BY MovedDownStep
<1> HIDE DEF m
<1>2. Sound(m) /\ m.size_x = c.size_x /\ m.size_y = c.size_y
  BY <1>1 DEF Writes, Steady
<1>3. 0 \in 0..(m.size_x + 1) /\ m.cursor_y \in 0..(m.size_y - 1)
  BY <1>1, <1>2, SoundNumbers
<1>4. Writes(m, d, R) /\ Placed(d) /\ d.cursor_y = m.cursor_y
  BY <1>2, <1>3, NoScroll, ScrolledTo
<1> HIDE DEF d
<1>5. Writes(c, d, R)
  BY <1>1, <1>4, WritesTwice
<1>6. TextStep(c, d)
  BY <1>4, <1>5 DEF TextStep
<1> QED
  BY <1>6 DEF d, m, LineHome

\* Ink in the row of the cursor, moved to another column.
LEMMA InkStep ==
    ASSUME NEW c, Sound(c), Placed(c), NEW x \in 0..(c.size_x - 1), NEW ink
    PROVE  TextStep(c, WithInk(MovedTo(c, x, c.cursor_y), c.cursor_y, ink))
<1> DEFINE m == MovedTo(c, x, c.cursor_y)
           d == WithInk(m, c.cursor_y, ink)
           R == {c.cursor_y + 1, c.cursor_y + 1}
<1>1. /\ c.cursor_y \in 0..(c.size_y - 1) /\ x \in 0..(c.size_x + 1)
      /\ x \in Nat /\ c.cursor_y \in Nat
  BY SoundNumbers DEF Placed
<1>2. /\ Writes(c, m, R) /\ Placed(m) /\ m.cursor_y = c.cursor_y /\ m.size_y = c.size_y
      /\ m.size_x = c.size_x
  <2>1. Writes(c, m, R) /\ m.cursor_y = c.cursor_y /\ m.size_y = c.size_y /\ m.size_x = c.size_x
    BY <1>1, MovedToWrites
  <2>2. Placed(m)
    BY <1>1, NoScroll, ScrolledTo
  <2> QED
    BY <2>1, <2>2
<1> HIDE DEF m
<1>3. /\ Writes(m, d, R) /\ d.cursor_x = m.cursor_x /\ d.cursor_y = m.cursor_y
  <2>1. Sound(m) /\ c.cursor_y \in 0..(m.size_y - 1) /\ c.cursor_y + 1 \in R
    BY <1>1, <1>2 DEF Writes
  <2> HIDE DEF R
  <2> QED
    BY <2>1, WithInkWrites
<1> HIDE DEF d
<1>4. Writes(c, d, R)
  BY <1>2, <1>3, WritesTwice
<1>5. Placed(d)
  BY <1>2, <1>3 DEF Placed, Writes, Steady
<1>6. TextStep(c, d)
  BY <1>2, <1>3, <1>4, <1>5 DEF TextStep
<1> QED
  BY <1>6 DEF d, m

-----------------------------------------------------------------------------
(* Lines edited in place. *)

\* The lines of rows lo to hi - 1 wiped, counted from 0.
Wiping(c, s, lo, hi) ==
    [i \in DOMAIN s |-> IF lo < i /\ i <= hi THEN Recycled(c, s[i]) ELSE s[i]]

LEMMA WipingType ==
    ASSUME NEW c, NEW s \in Seq(Line), NEW lo \in Nat, NEW hi \in Nat
    PROVE  /\ Wiping(c, s, lo, hi) \in Seq(Line) /\ Len(Wiping(c, s, lo, hi)) = Len(s)
           /\ \A i \in 1..Len(s) : i <= lo \/ i > hi => Wiping(c, s, lo, hi)[i] = s[i]
           /\ \A p : Unmarked(s, p) => Unmarked(Wiping(c, s, lo, hi), p)
<1> DEFINE t == Wiping(c, s, lo, hi)
           n == Len(s)
<1>1. n \in Nat /\ DOMAIN s = 1..n /\ \A i \in 1..n : s[i] \in Line
  BY SeqLines
<1>2. ASSUME NEW i \in 1..n
      PROVE  /\ t[i] = IF lo < i /\ i <= hi THEN Recycled(c, s[i]) ELSE s[i]
             /\ t[i] \in Line /\ t[i].ptr \subseteq s[i].ptr
  <2>1. t[i] = IF lo < i /\ i <= hi THEN Recycled(c, s[i]) ELSE s[i]
    BY <1>1 DEF Wiping
  <2> HIDE DEF t
  <2>2. s[i] \in Line /\ Recycled(c, s[i]) \in Line /\ Recycled(c, s[i]).ptr \subseteq s[i].ptr
    BY <1>1, RecycledType
  <2> QED
    BY <2>1, <2>2
<1>3. t = [i \in 1..n |-> t[i]]
  BY <1>1 DEF Wiping
<1> HIDE DEF t, n
<1>4. t \in [1..n -> Line]
  BY <1>2, <1>3
<1>5. t \in Seq(Line) /\ Len(t) = n /\ DOMAIN t = 1..n
  BY <1>1, <1>4, LinesSeq
<1>6. \A i \in 1..n : i <= lo \/ i > hi => t[i] = s[i]
  BY <1>1, <1>2
<1>7. \A p : Unmarked(s, p) => Unmarked(t, p)
  BY <1>1, <1>2, <1>5 DEF Unmarked
<1> QED
  BY <1>5, <1>6, <1>7 DEF t, n

\* Other lines in the region, with the cursor at the start of its row.
LEMMA EditStep ==
    ASSUME NEW c, Sound(c), Placed(c), NEW t \in Seq(Line), Len(t) = Len(Lines(c)),
           \A i \in 1..Len(t) : i <= c.margin_top \/ i > c.margin_bottom + 1
                                    => t[i] = Lines(c)[i],
           Unmarked(Lines(c), "sb_pos") => Unmarked(t, "sb_pos")
    PROVE  TextStep(c, [c EXCEPT !.cursor_x = 0, ![Active(c)] = t])
<1> DEFINE p == [c EXCEPT ![Active(c)] = t]
           d == [c EXCEPT !.cursor_x = 0, ![Active(c)] = t]
           R == {c.cursor_y + 1, c.cursor_y + 1}
<1>1. Scrolls(c, p) /\ PutLines(c, t, p) /\ c \in Cons
  BY PutScrolls DEF Sound
<1>2. d = MovedTo(p, 0, c.cursor_y)
  <2>1. CASE "ALTERNATE" \in c.flags
    <3>1. p = [c EXCEPT !.alt = t] /\ d = [c EXCEPT !.cursor_x = 0, !.alt = t]
      BY <1>1, <2>1, LinesType
    <3> QED
      BY <1>1, <3>1 DEF Cons, MovedTo
  <2>2. CASE "ALTERNATE" \notin c.flags
    <3>1. p = [c EXCEPT !.main = t] /\ d = [c EXCEPT !.cursor_x = 0, !.main = t]
      BY <1>1, <2>2, LinesType
    <3> QED
      BY <1>1, <3>1 DEF Cons, MovedTo
  <2> QED
    BY <2>1, <2>2
<1> HIDE DEF p
<1>3. 0 \in 0..(c.size_x + 1) /\ c.cursor_y \in 0..(c.size_y - 1)
  BY SoundNumbers DEF Placed
<1> HIDE DEF d
<1>4. Writes(c, d, R) /\ Placed(d) /\ d.cursor_y = c.cursor_y
  <2> DEFINE x == 0
             y == c.cursor_y
  <2>1. x \in 0..(c.size_x + 1) /\ y \in 0..(c.size_y - 1) /\ d = MovedTo(p, x, y)
    BY <1>2, <1>3
  <2> HIDE DEF R, x, y
  <2>2. /\ Writes(c, MovedTo(p, x, y), R) /\ Placed(MovedTo(p, x, y))
        /\ MovedTo(p, x, y).cursor_y = y
    BY <1>1, <2>1, ScrolledTo
  <2> QED
    BY <2>1, <2>2 DEF y
<1>5. TextStep(c, d)
  BY <1>4 DEF TextStep
<1> QED
  BY <1>5 DEF d

InRegionOf(c) == c.margin_top <= c.cursor_y /\ c.cursor_y <= c.margin_bottom

\* The rows from the cursor to the bottom margin.
LEMMA EditRows ==
    ASSUME NEW c, Sound(c), InRegionOf(c)
    PROVE  /\ c \in Cons /\ Lines(c) \in Seq(Line)
           /\ c.cursor_y \in Nat /\ c.margin_top \in Nat /\ c.margin_bottom \in Nat
           /\ c.margin_top <= c.cursor_y /\ c.cursor_y <= c.margin_bottom
           /\ Len(Lines(c)) \in Nat /\ DOMAIN Lines(c) = 1..Len(Lines(c))
           /\ c.margin_bottom + 1 <= Len(Lines(c))
<1>1. c \in Cons /\ Lines(c) \in Seq(Line)
  BY LinesType DEF Sound
<1>2. Len(Lines(c)) = Len(c.main)
  BY <1>1, LinesType DEF Sound
<1>3. Len(Lines(c)) \in Nat /\ DOMAIN Lines(c) = 1..Len(Lines(c))
  BY <1>1, SeqLines
<1> QED
  BY <1>1, <1>2, <1>3 DEF Sound, Cons, InRegionOf

\* tsm_screen_insert_lines
LEMMA InsertStep ==
    ASSUME NEW c, Sound(c), Placed(c), InRegionOf(c), NEW count \in Nat
    PROVE  TextStep(c, InsertLines(c, count))
<1> DEFINE y == c.cursor_y
           s == Lines(c)
           bottom == c.margin_bottom
           max == bottom - y + 1
           num == Lesser(count, max)
           cache == [i \in 1..num |-> Recycled(c, s[bottom + 2 - i])]
           t == IF num < max THEN ShiftedDown(s, y, max, num, cache)
                ELSE Wiping(c, s, y, bottom + 1)
<1>1. /\ c \in Cons /\ s \in Seq(Line) /\ y \in Nat /\ c.margin_top \in Nat
      /\ bottom \in Nat /\ c.margin_top <= y /\ y <= bottom
      /\ Len(s) \in Nat /\ DOMAIN s = 1..Len(s) /\ bottom + 1 <= Len(s)
  BY EditRows
<1>2. InsertLines(c, count) = [c EXCEPT !.cursor_x = 0, ![Active(c)] = t]
  <2>1. CASE "ALTERNATE" \in c.flags
    <3>1. Active(c) = "alt" /\ s = c.alt
      BY <1>1, <2>1, LinesType
    <3> QED
      BY <1>1, <3>1 DEF InsertLines, Wiping, Cons
  <2>2. CASE "ALTERNATE" \notin c.flags
    <3>1. Active(c) = "main" /\ s = c.main
      BY <1>1, <2>2, LinesType
    <3> QED
      BY <1>1, <3>1 DEF InsertLines, Wiping, Cons
  <2> QED
    BY <2>1, <2>2
<1> HIDE DEF s, y, bottom
<1>3. max \in Nat /\ y + max = bottom + 1 /\ num \in 0..max
  BY <1>1 DEF Lesser
<1> HIDE DEF max, num
<1>4. ASSUME NEW i \in 1..num
      PROVE  /\ cache[i] \in Line
             /\ Unmarked(s, "sb_pos") => "sb_pos" \notin cache[i].ptr
  <2>1. bottom + 2 - i \in 1..Len(s)
    BY <1>1, <1>3
  <2>2. s[bottom + 2 - i] \in Line
    BY <1>1, <2>1, SeqLines
  <2>3. /\ cache[i] = Recycled(c, s[bottom + 2 - i])
        /\ cache[i] \in Line /\ cache[i].ptr \subseteq s[bottom + 2 - i].ptr
    BY <2>2, RecycledType
  <2> QED
    BY <1>1, <2>1, <2>3 DEF Unmarked
<1> HIDE DEF cache
<1>5. /\ t \in Seq(Line) /\ Len(t) = Len(s)
      /\ \A i \in 1..Len(s) : i <= y \/ i > bottom + 1 => t[i] = s[i]
      /\ Unmarked(s, "sb_pos") => Unmarked(t, "sb_pos")
  <2>1. CASE num < max
    <3>1. t = ShiftedDown(s, y, max, num, cache) /\ y + max <= Len(s)
      BY <1>1, <1>3, <2>1
    <3>2. \A i \in 1..num : cache[i] \in Line
      BY <1>4
    <3> HIDE DEF t
    <3> QED
      BY <1>1, <1>3, <1>4, <3>1, <3>2, ShiftedDownType
  <2>2. CASE ~(num < max)
    <3> DEFINE hi == bottom + 1
    <3>1. t = Wiping(c, s, y, hi) /\ hi \in Nat
      BY <1>1, <2>2
    <3> HIDE DEF t, hi
    <3>2. /\ Wiping(c, s, y, hi) \in Seq(Line) /\ Len(Wiping(c, s, y, hi)) = Len(s)
          /\ \A i \in 1..Len(s) : i <= y \/ i > hi => Wiping(c, s, y, hi)[i] = s[i]
          /\ \A p : Unmarked(s, p) => Unmarked(Wiping(c, s, y, hi), p)
      BY <1>1, <3>1, WipingType
    <3> QED
      BY <3>1, <3>2 DEF hi
  <2> QED
    BY <2>1, <2>2
<1> HIDE DEF t
<1>6. \A i \in 1..Len(t) : i <= c.margin_top \/ i > c.margin_bottom + 1 => t[i] = s[i]
  BY <1>1, <1>5 DEF bottom
<1> QED
  BY <1>2, <1>5, <1>6, EditStep DEF s

\* tsm_screen_delete_lines
LEMMA DeleteStep ==
    ASSUME NEW c, Sound(c), Placed(c), InRegionOf(c), NEW count \in Nat
    PROVE  TextStep(c, DeleteLines(c, count))
<1> DEFINE y == c.cursor_y
           s == Lines(c)
           bottom == c.margin_bottom
           max == bottom - y + 1
           num == Lesser(count, max)
           cache == [i \in 1..num |-> Recycled(c, s[y + i])]
           t == IF num < max THEN ShiftedUp(s, y, max, num, cache)
                ELSE Wiping(c, s, y, bottom + 1)
<1>1. /\ c \in Cons /\ s \in Seq(Line) /\ y \in Nat /\ c.margin_top \in Nat
      /\ bottom \in Nat /\ c.margin_top <= y /\ y <= bottom
      /\ Len(s) \in Nat /\ DOMAIN s = 1..Len(s) /\ bottom + 1 <= Len(s)
  BY EditRows
<1>2. DeleteLines(c, count) = [c EXCEPT !.cursor_x = 0, ![Active(c)] = t]
  <2>1. CASE "ALTERNATE" \in c.flags
    <3>1. Active(c) = "alt" /\ s = c.alt
      BY <1>1, <2>1, LinesType
    <3> QED
      BY <1>1, <3>1 DEF DeleteLines, Wiping, Cons
  <2>2. CASE "ALTERNATE" \notin c.flags
    <3>1. Active(c) = "main" /\ s = c.main
      BY <1>1, <2>2, LinesType
    <3> QED
      BY <1>1, <3>1 DEF DeleteLines, Wiping, Cons
  <2> QED
    BY <2>1, <2>2
<1> HIDE DEF s, y, bottom
<1>3. max \in Nat /\ y + max = bottom + 1 /\ num \in 0..max
  BY <1>1 DEF Lesser
<1> HIDE DEF max, num
<1>4. ASSUME NEW i \in 1..num
      PROVE  /\ cache[i] \in Line
             /\ Unmarked(s, "sb_pos") => "sb_pos" \notin cache[i].ptr
  <2>1. y + i \in 1..Len(s)
    BY <1>1, <1>3
  <2>2. s[y + i] \in Line
    BY <1>1, <2>1, SeqLines
  <2>3. /\ cache[i] = Recycled(c, s[y + i])
        /\ cache[i] \in Line /\ cache[i].ptr \subseteq s[y + i].ptr
    BY <2>2, RecycledType
  <2> QED
    BY <1>1, <2>1, <2>3 DEF Unmarked
<1> HIDE DEF cache
<1>5. /\ t \in Seq(Line) /\ Len(t) = Len(s)
      /\ \A i \in 1..Len(s) : i <= y \/ i > bottom + 1 => t[i] = s[i]
      /\ Unmarked(s, "sb_pos") => Unmarked(t, "sb_pos")
  <2>1. CASE num < max
    <3>1. t = ShiftedUp(s, y, max, num, cache) /\ y + max <= Len(s)
      BY <1>1, <1>3, <2>1
    <3>2. \A i \in 1..num : cache[i] \in Line
      BY <1>4
    <3> HIDE DEF t
    <3> QED
      BY <1>1, <1>3, <1>4, <3>1, <3>2, ShiftedUpType
  <2>2. CASE ~(num < max)
    <3> DEFINE hi == bottom + 1
    <3>1. t = Wiping(c, s, y, hi) /\ hi \in Nat
      BY <1>1, <2>2
    <3> HIDE DEF t, hi
    <3>2. /\ Wiping(c, s, y, hi) \in Seq(Line) /\ Len(Wiping(c, s, y, hi)) = Len(s)
          /\ \A i \in 1..Len(s) : i <= y \/ i > hi => Wiping(c, s, y, hi)[i] = s[i]
          /\ \A p : Unmarked(s, p) => Unmarked(Wiping(c, s, y, hi), p)
      BY <1>1, <3>1, WipingType
    <3> QED
      BY <3>1, <3>2 DEF hi
  <2> QED
    BY <2>1, <2>2
<1> HIDE DEF t
<1>6. \A i \in 1..Len(t) : i <= c.margin_top \/ i > c.margin_bottom + 1 => t[i] = s[i]
  BY <1>1, <1>5 DEF bottom
<1> QED
  BY <1>2, <1>5, <1>6, EditStep DEF s

-----------------------------------------------------------------------------
(* What a call does. *)

\* Text changes in the region and where the cursor was or is, and on the alternate
\* screen nowhere: RegionKeepsTheRest and AlternateLeavesMain of any two screens.
Regional(c, d) ==
    \A i \in Rows(c) :
        \/ c.margin_top < i /\ i <= c.margin_bottom + 1
        \/ i - 1 \in {c.cursor_y, d.cursor_y}
        \/ d.main[i].ink = c.main[i].ink
Separate(c, d) ==
    /\ "ALTERNATE" \in c.flags \cap d.flags /\ Viewed(c)
    /\ c.size_x = d.size_x /\ c.size_y = d.size_y /\ c.sb_max = d.sb_max
    => /\ \A i \in Rows(c) : d.main[i].ink = c.main[i].ink
       /\ d.sb = << >> \/ Inks(d.sb) = Inks(c.sb)

Stays(c, d) == Sound(d) /\ Placed(d) /\ (Viewed(c) => Viewed(d))

\* Only a resize changes the size of the screen.
SameSize(c, d) == d.size_x = c.size_x /\ d.size_y = c.size_y

Call(c, d) == /\ Stays(c, d) /\ (Live(c) => Live(d))
              /\ Regional(c, d) /\ Separate(c, d) /\ SameSize(c, d)

LEMMA RowsOf ==
    ASSUME NEW c, Sound(c)
    PROVE  /\ c.main \in Seq(Line) /\ c.alt \in Seq(Line) /\ c.sb \in Seq(Line)
           /\ DOMAIN c.main = 1..Len(c.main) /\ Len(c.main) \in Nat
           /\ Rows(c) \subseteq DOMAIN c.main /\ Rows(c) \subseteq 1..Len(c.main)
           /\ \A i \in Rows(c) : i \in Nat
<1>1. c.main \in Seq(Line) /\ c.alt \in Seq(Line) /\ c.sb \in Seq(Line)
  BY DEF Sound, Cons
<1>2. DOMAIN c.main = 1..Len(c.main) /\ Len(c.main) \in Nat
  BY <1>1, SeqLines
<1>3. c.size_y \in Nat /\ c.size_y <= Len(c.main)
  BY DEF Sound, Cons
<1> QED
  BY <1>1, <1>2, <1>3 DEF Rows

LEMMA SameInks ==
    ASSUME NEW s \in Seq(Line), NEW t \in Seq(Line), SameInk(s, t)
    PROVE  Inks(t) = Inks(s)
<1>1. DOMAIN s = 1..Len(s) /\ DOMAIN t = 1..Len(s)
  BY SeqLines DEF SameInk
<1> QED
  BY <1>1 DEF SameInk, Inks

\* Text kept on the alternate screen.
LEMMA ApartSeparate ==
    ASSUME NEW c, Sound(c), NEW d, Sound(d), Apart(c, d)
    PROVE  Separate(c, d)
<1> SUFFICES ASSUME "ALTERNATE" \in c.flags, Viewed(c)
             PROVE  /\ \A i \in Rows(c) : d.main[i].ink = c.main[i].ink
                    /\ d.sb = << >> \/ Inks(d.sb) = Inks(c.sb)
  BY DEF Separate
<1>1. SameInk(c.main, d.main) /\ SameInk(c.sb, d.sb)
  BY DEF Apart
<1>2. \A i \in Rows(c) : d.main[i].ink = c.main[i].ink
  BY <1>1, RowsOf DEF SameInk
<1>3. Inks(d.sb) = Inks(c.sb)
  BY <1>1, RowsOf, SameInks
<1> QED
  BY <1>2, <1>3

LEMMA TextCall ==
    ASSUME NEW c, Sound(c), NEW d, TextStep(c, d)
    PROVE  Call(c, d) /\ d.flags = c.flags
<1>1. /\ Placed(d) /\ Sound(d) /\ Steady(c, d) /\ Kept(c, d) /\ Apart(c, d)
      /\ \A i \in DOMAIN c.main \ {c.cursor_y + 1, d.cursor_y + 1} :
            i <= c.margin_top \/ i > c.margin_bottom + 1 => d.main[i].ink = c.main[i].ink
  BY DEF TextStep, Writes
<1>2. Regional(c, d)
  <2>1. c.cursor_y \in Nat /\ d.cursor_y \in Nat /\ c.margin_top \in Nat /\ c.margin_bottom \in Nat
    BY <1>1, SoundNumbers
  <2>2. ASSUME NEW i \in Rows(c)
        PROVE  \/ c.margin_top < i /\ i <= c.margin_bottom + 1
               \/ i - 1 \in {c.cursor_y, d.cursor_y}
               \/ d.main[i].ink = c.main[i].ink
    <3>1. i \in Nat /\ i \in DOMAIN c.main
      BY RowsOf
    <3> QED
      BY <1>1, <2>1, <3>1
  <2> QED
    BY <2>2 DEF Regional
<1>3. Separate(c, d)
  BY <1>1, ApartSeparate
<1> QED
  BY <1>1, <1>2, <1>3 DEF Call, Stays, Kept, Steady, SameSize

LEMMA ScrollCall ==
    ASSUME NEW c, Sound(c), Placed(c), NEW d, Scrolls(c, d)
    PROVE  Call(c, d) /\ d.flags = c.flags
<1>1. Writes(c, d, {c.cursor_y + 1, d.cursor_y + 1})
  BY ScrollsWrites
<1>2. Placed(d)
  BY ScrollsSound DEF Scrolls
<1> QED
  BY <1>1, <1>2, TextCall DEF TextStep

\* Lines with nothing but ink or marks taken off.
LEMMA LessType ==
    ASSUME NEW s \in Seq(Line), NEW t \in [DOMAIN s -> Line],
           \A i \in DOMAIN s : t[i].ptr \subseteq s[i].ptr
    PROVE  /\ t \in Seq(Line) /\ Len(t) = Len(s) /\ DOMAIN t = DOMAIN s
           /\ \A p : Unmarked(s, p) => Unmarked(t, p)
           /\ \A p : Sole(s, p) => Sole(t, p)
<1>1. Len(s) \in Nat /\ DOMAIN s = 1..Len(s)
  BY SeqLines
<1>2. t \in [1..Len(s) -> Line]
  BY <1>1
<1>3. t \in Seq(Line) /\ Len(t) = Len(s) /\ DOMAIN t = DOMAIN s
  BY <1>1, <1>2, LinesSeq
<1>4. \A p : Unmarked(s, p) => Unmarked(t, p)
  BY <1>3 DEF Unmarked
<1>5. \A p : Sole(s, p) => Sole(t, p)
  BY <1>3 DEF Sole
<1> QED
  BY <1>3, <1>4, <1>5

\* tsm_screen_erase_region
LEMMA EraseStep ==
    ASSUME NEW c, Sound(c), Placed(c), NEW x0, NEW y0, NEW x1, NEW y1
    PROVE  /\ Stays(c, EraseRegion(c, x0, y0, x1, y1))
           /\ Live(c) => Live(EraseRegion(c, x0, y0, x1, y1))
           /\ Separate(c, EraseRegion(c, x0, y0, x1, y1))
           /\ SameSize(c, EraseRegion(c, x0, y0, x1, y1))
           /\ EraseRegion(c, x0, y0, x1, y1).flags = c.flags
<1> DEFINE From(y) == IF y = y0 THEN x0 ELSE 0
           To(y) == IF y = Lesser(y1, c.size_y - 1)
                    THEN Lesser(x1, c.size_x - 1) ELSE c.size_x - 1
           t == [i \in DOMAIN c.main |->
                    IF y0 < i /\ i <= Lesser(y1, c.size_y - 1) + 1
                    THEN Erased(c.main[i], From(i - 1)..To(i - 1))
                    ELSE c.main[i]]
           d == [c EXCEPT !.main = t]
<1>1. EraseRegion(c, x0, y0, x1, y1) = IF Active(c) = "alt" THEN c ELSE d
  BY DEF EraseRegion
<1>2. CASE Active(c) = "alt"
  <2>1. Scrolls(c, c)
    BY NoScroll
  <2> QED
    BY <1>1, <1>2, <2>1, ScrollCall DEF Call
<1>3. CASE Active(c) # "alt"
  <2>1. \A i \in DOMAIN c.main : t[i] \in Line /\ t[i].ptr \subseteq c.main[i].ptr
    <3>1. ASSUME NEW i \in DOMAIN c.main
          PROVE  \A k : Erased(c.main[i], k) \in Line /\ Erased(c.main[i], k).ptr = c.main[i].ptr
      BY RowsOf, SeqLines, ErasedType
    <3>2. \A i \in DOMAIN c.main : c.main[i] \in Line
      BY RowsOf, SeqLines
    <3> QED
      BY <3>1, <3>2
  <2>2. t \in [DOMAIN c.main -> Line]
    BY <2>1
  <2> HIDE DEF t
  <2>3. /\ t \in Seq(Line) /\ Len(t) = Len(c.main)
        /\ \A p : Unmarked(c.main, p) => Unmarked(t, p)
    BY <2>1, <2>2, RowsOf, LessType
  <2>4. /\ d \in Cons /\ d.main = t /\ d.alt = c.alt /\ d.sb = c.sb /\ Steady(c, d)
        /\ d.dangling = c.dangling /\ d.cursor_x = c.cursor_x /\ d.cursor_y = c.cursor_y
    BY <2>3 DEF Sound, Cons, Steady
  <2> HIDE DEF d
  <2>5. Sound(d) /\ Placed(d)
    BY <2>4 DEF Sound, Steady, Placed
  <2>6. (Viewed(c) => Viewed(d)) /\ (Live(c) => Live(d))
    BY <2>3, <2>4 DEF Viewed, Live, Steady
  <2>7. "ALTERNATE" \notin c.flags
    BY <1>3 DEF Active
  <2> QED
    BY <1>1, <1>3, <2>4, <2>5, <2>6, <2>7 DEF Stays, Separate, Steady, SameSize
<1> QED
  BY <1>2, <1>3

\* The screen with other margins and other modes.
LEMMA SettingCall ==
    ASSUME NEW c, Sound(c), Placed(c), NEW top \in Nat, NEW bottom \in Nat,
           top <= bottom, bottom < c.size_y, NEW flags \in SUBSET Flags
    PROVE  Call(c, [c EXCEPT !.flags = flags, !.margin_top = top, !.margin_bottom = bottom])
<1> DEFINE d == [c EXCEPT !.flags = flags, !.margin_top = top, !.margin_bottom = bottom]
<1>1. /\ d \in Cons /\ d.main = c.main /\ d.alt = c.alt /\ d.sb = c.sb
      /\ d.margin_top = top /\ d.margin_bottom = bottom
      /\ d.size_x = c.size_x /\ d.size_y = c.size_y /\ d.sb_max = c.sb_max
      /\ d.cursor_x = c.cursor_x /\ d.cursor_y = c.cursor_y
      /\ d.dangling = c.dangling /\ d.sel_active = c.sel_active
  BY DEF Sound, Cons
<1> HIDE DEF d
<1>2. Sound(d) /\ Placed(d)
  BY <1>1 DEF Sound, Placed
<1>3. (Viewed(c) => Viewed(d)) /\ (Live(c) => Live(d))
  BY <1>1 DEF Viewed, Live
<1>4. Regional(c, d) /\ Separate(c, d)
  BY <1>1 DEF Regional, Separate
<1>5. Call(c, d)
  BY <1>1, <1>2, <1>3, <1>4 DEF Call, Stays, SameSize
<1> QED
  BY <1>5 DEF d

-----------------------------------------------------------------------------
(* The limit of the scrollback, and an empty scrollback. *)

\* c without the oldest `gone` lines of the scrollback, with another limit.
Cropped(c, gone, max) ==
    [Freed(c, SubSeq(c.sb, 1, gone)) EXCEPT
        !.sb = SubSeq(c.sb, gone + 1, Len(c.sb)), !.sb_max = max]

IsCropped(c, gone, max, d) ==
    /\ d \in Cons /\ d.sb_max = max /\ d.main = c.main /\ d.alt = c.alt
    /\ d.size_x = c.size_x /\ d.size_y = c.size_y
    /\ d.margin_top = c.margin_top /\ d.margin_bottom = c.margin_bottom
    /\ d.cursor_x = c.cursor_x /\ d.cursor_y = c.cursor_y /\ d.flags = c.flags
    /\ d.sel_active = c.sel_active
    /\ \A p \in Ends :
          d.y[p] = IF c.sel_active /\ \E i \in 1..gone : p \in c.sb[i].ptr
                   THEN SelectionTop ELSE c.y[p]
    /\ Len(d.sb) = Len(c.sb) - gone
    /\ \A i \in 1..(Len(c.sb) - gone) : d.sb[i] = c.sb[i + gone]
    /\ Live(c) => Live(d)
    /\ /\ Sole(c.sb, "sb_pos") /\ "sb_pos" \notin c.dangling
       /\ \A i \in 1..gone : "sb_pos" \notin c.sb[i].ptr
       => Sole(d.sb, "sb_pos") /\ "sb_pos" \notin d.dangling

LEMMA CroppedType ==
    ASSUME NEW c \in Cons, NEW gone \in 0..Len(c.sb), NEW max \in Nat
    PROVE  IsCropped(c, gone, max, Cropped(c, gone, max))
<1> DEFINE off == SubSeq(c.sb, 1, gone)
           rest == SubSeq(c.sb, gone + 1, Len(c.sb))
           f == Freed(c, off)
           d == [f EXCEPT !.sb = rest, !.sb_max = max]
<1>1. c.sb \in Seq(Line) /\ Len(c.sb) \in Nat /\ DOMAIN c.sb = 1..Len(c.sb)
  BY SeqLines DEF Cons
<1>2. /\ off \in Seq(Line) /\ DOMAIN off = 1..gone
      /\ \A i \in 1..gone : off[i] = c.sb[i]
      /\ rest \in Seq(Line) /\ Len(rest) = Len(c.sb) - gone
      /\ DOMAIN rest = 1..(Len(c.sb) - gone)
      /\ \A i \in 1..(Len(c.sb) - gone) : rest[i] = c.sb[i + gone]
  BY <1>1, CutType
<1> HIDE DEF off, rest
<1>3. /\ f \in Cons /\ Same(c, f) /\ f.main = c.main /\ f.alt = c.alt
      /\ Live(c) => Live(f)
      /\ "sb_pos" \notin c.dangling /\ Unmarked(off, "sb_pos") => "sb_pos" \notin f.dangling
      /\ \A p \in Ends :
            f.y[p] = IF c.sel_active /\ \E i \in DOMAIN off : p \in off[i].ptr
                     THEN SelectionTop ELSE c.y[p]
  BY <1>2, FreedMoves
<1>4. Cropped(c, gone, max) = d
  BY DEF Cropped, f, off, rest
<1> HIDE DEF f
<1>5. /\ d \in Cons /\ d.sb = rest /\ d.sb_max = max /\ d.main = f.main /\ d.alt = f.alt
      /\ d.dangling = f.dangling /\ d.sel_active = f.sel_active /\ d.y = f.y
      /\ d.size_x = f.size_x /\ d.size_y = f.size_y
      /\ d.margin_top = f.margin_top /\ d.margin_bottom = f.margin_bottom
      /\ d.cursor_x = f.cursor_x /\ d.cursor_y = f.cursor_y /\ d.flags = f.flags
  BY <1>2, <1>3 DEF Cons
<1> HIDE DEF d
<1>6. /\ d.size_x = c.size_x /\ d.size_y = c.size_y
      /\ d.margin_top = c.margin_top /\ d.margin_bottom = c.margin_bottom
      /\ d.cursor_x = c.cursor_x /\ d.cursor_y = c.cursor_y /\ d.flags = c.flags
      /\ d.main = c.main /\ d.alt = c.alt /\ d.sel_active = c.sel_active
  BY <1>3, <1>5 DEF Same
<1>7. Live(c) => Live(d)
  BY <1>3, <1>5 DEF Live
<1>8. ASSUME Sole(c.sb, "sb_pos"), "sb_pos" \notin c.dangling,
             \A i \in 1..gone : "sb_pos" \notin c.sb[i].ptr
      PROVE  Sole(d.sb, "sb_pos") /\ "sb_pos" \notin d.dangling
  <2>1. "sb_pos" \notin d.dangling
    BY <1>2, <1>3, <1>5, <1>8 DEF Unmarked
  <2>2. \A i \in DOMAIN rest :
            i \in Int /\ gone \in Int /\ i + gone \in DOMAIN c.sb /\ rest[i] = c.sb[i + gone]
    <3> SUFFICES ASSUME NEW i \in 1..(Len(c.sb) - gone)
                 PROVE  /\ i \in Int /\ gone \in Int /\ i + gone \in DOMAIN c.sb
                        /\ rest[i] = c.sb[i + gone]
      BY <1>2
    <3>1. i \in Int /\ gone \in Int /\ i + gone \in 1..Len(c.sb)
      BY <1>1
    <3> QED
      BY <1>1, <1>2, <3>1
  <2>3. ASSUME NEW i \in DOMAIN rest, NEW j \in DOMAIN rest,
               "sb_pos" \in rest[i].ptr, "sb_pos" \in rest[j].ptr
        PROVE  i = j
    <3>1. i + gone = j + gone
      BY <1>8, <2>2, <2>3 DEF Sole
    <3> QED
      BY <2>2, <3>1
  <2> QED
    BY <1>5, <2>1, <2>3 DEF Sole
<1>9. \A p \in Ends :
          d.y[p] = IF c.sel_active /\ \E i \in 1..gone : p \in c.sb[i].ptr
                   THEN SelectionTop ELSE c.y[p]
  BY <1>2, <1>3, <1>5, ZenonT(30)
<1>10. IsCropped(c, gone, max, d)
  BY <1>2, <1>5, <1>6, <1>7, <1>8, <1>9 DEF IsCropped
<1> QED
  BY <1>4, <1>10

\* tsm_screen_set_max_sb: the view is moved off the lines that go.
Uncovered(c, gone) ==
    LET pos == InSb(c, "sb_pos")
    IN  IF pos = 0 \/ pos > gone THEN c
        ELSE ToSb(c, "sb_pos", IF gone < Len(c.sb) THEN gone + 1 ELSE 0)

LEMMA UncoveredMoves ==
    ASSUME NEW c \in Cons, NEW gone \in 0..Len(c.sb)
    PROVE  /\ Scrolls(c, Uncovered(c, gone)) /\ Uncovered(c, gone) \in Cons
           /\ Uncovered(c, gone).alt = c.alt
           /\ SameInk(c.main, Uncovered(c, gone).main) /\ SameInk(c.sb, Uncovered(c, gone).sb)
           /\ Viewed(c) => \A i \in 1..gone : "sb_pos" \notin Uncovered(c, gone).sb[i].ptr
<1> DEFINE pos == InSb(c, "sb_pos")
           next == IF gone < Len(c.sb) THEN gone + 1 ELSE 0
           d == ToSb(c, "sb_pos", next)
<1>1. Uncovered(c, gone) = IF pos = 0 \/ pos > gone THEN c ELSE d
  BY DEF Uncovered
<1>2. c.sb \in Seq(Line) /\ Len(c.sb) \in Nat /\ DOMAIN c.sb = 1..Len(c.sb) /\ gone \in Nat
  BY SeqLines DEF Cons
<1>3. /\ pos \in Nat /\ (pos = 0 <=> Unmarked(c.sb, "sb_pos"))
      /\ pos # 0 => pos \in DOMAIN c.sb /\ "sb_pos" \in c.sb[pos].ptr
  BY <1>2, InSbType
<1>4. \A i \in 1..gone : i \in DOMAIN c.sb /\ i # next
  BY <1>2
<1> HIDE DEF pos
<1>5. CASE pos = 0 \/ pos > gone
  <2>1. Viewed(c) => \A i \in 1..gone : "sb_pos" \notin c.sb[i].ptr
    BY <1>2, <1>3, <1>4, <1>5 DEF Viewed, Sole, Unmarked
  <2>2. Scrolls(c, c)
    BY DEF Scrolls, Moves, Kept, Same, Outside, Apart, SameInk
  <2> QED
    BY <1>1, <1>5, <2>1, <2>2 DEF SameInk
<1>6. CASE ~(pos = 0 \/ pos > gone)
  <2>1. "sb_pos" \in Pointer
    BY MarkNames
  <2> HIDE DEF next
  <2>2. Scrolls(c, d) /\ Pointing(c, "sb_pos", next, d)
    BY <2>1, ToSbScrolls, ToSbType
  <2> HIDE DEF d
  <2>3. \A i \in 1..gone : "sb_pos" \notin d.sb[i].ptr
    BY <1>4, <2>2 DEF Pointing
  <2> QED
    BY <1>1, <1>6, <2>2, <2>3 DEF Pointing
<1> QED
  BY <1>5, <1>6

Gone(c, max) == Greater(0, Len(c.sb) - max)
Limited(c, max) == Cropped(Uncovered(c, Gone(c, max)), Gone(c, max), max)

LEMMA SetMaxCall ==
    ASSUME NEW c, Sound(c), Placed(c), NEW max \in Nat
    PROVE  Call(c, Limited(c, max)) /\ Limited(c, max).flags = c.flags
<1> DEFINE gone == Gone(c, max)
           u == Uncovered(c, gone)
           d == Cropped(u, gone, max)
<1>1. c \in Cons /\ Len(c.sb) \in Nat /\ c.sb \in Seq(Line)
  BY RowsOf, SeqLines DEF Sound
<1>2. gone \in 0..Len(c.sb) /\ gone \in Nat /\ Len(c.sb) - gone <= max
  BY <1>1 DEF Greater, Gone
<1>3. Limited(c, max) = d /\ gone = Greater(0, Len(c.sb) - max)
  BY DEF Limited, Gone
<1> HIDE DEF gone
<1>4. /\ Scrolls(c, u) /\ u \in Cons /\ u.alt = c.alt
      /\ SameInk(c.main, u.main) /\ SameInk(c.sb, u.sb)
      /\ Viewed(c) => \A i \in 1..gone : "sb_pos" \notin u.sb[i].ptr
  BY <1>1, <1>2, UncoveredMoves
<1> HIDE DEF u
<1>5. Len(u.sb) = Len(c.sb)
  BY <1>4 DEF SameInk
<1>6. IsCropped(u, gone, max, d)
  <2>1. u \in Cons /\ gone \in 0..Len(u.sb)
    BY <1>2, <1>4, <1>5
  <2> QED
    BY <2>1, CroppedType
<1> HIDE DEF d
<1>7. Sound(u) /\ Placed(u) /\ (Viewed(c) => Viewed(u)) /\ (Live(c) => Live(u)) /\ Same(c, u)
  BY <1>4, ScrollsSound DEF Scrolls, Moves, Kept
<1>8. Sound(d) /\ Placed(d)
  BY <1>6, <1>7 DEF Sound, Placed, IsCropped
<1>9. Viewed(c) => Viewed(d)
  BY <1>2, <1>4, <1>5, <1>6, <1>7 DEF Viewed, IsCropped
<1>10. Live(c) => Live(d)
  BY <1>6, <1>7 DEF IsCropped
<1>11. \A i \in Rows(c) : d.main[i].ink = c.main[i].ink
  BY <1>4, <1>6, RowsOf DEF SameInk, IsCropped
<1>12. ASSUME Viewed(c), d.sb_max = c.sb_max PROVE Inks(d.sb) = Inks(c.sb)
  <2>1. gone = 0
    BY <1>3, <1>1, <1>6, <1>12 DEF Viewed, Greater, IsCropped
  <2>2. \A i \in 1..Len(c.sb) : i + gone = i
    BY <1>1, <2>1
  <2>3. Len(d.sb) = Len(c.sb) /\ \A i \in 1..Len(c.sb) : d.sb[i] = u.sb[i]
    BY <1>1, <1>5, <1>6, <2>1, <2>2 DEF IsCropped
  <2>4. SameInk(c.sb, d.sb)
    BY <1>4, <2>3 DEF SameInk
  <2>5. d.sb \in Seq(Line)
    BY <1>6 DEF Cons, IsCropped
  <2> QED
    BY <1>1, <2>4, <2>5, SameInks
<1>13. Regional(c, d) /\ Separate(c, d)
  BY <1>11, <1>12 DEF Regional, Separate
<1>14. d.flags = c.flags
  BY <1>6, <1>7 DEF Same, IsCropped
<1>15. SameSize(c, d)
  BY <1>6, <1>7 DEF SameSize, IsCropped, Same
<1>16. Call(c, d)
  BY <1>8, <1>9, <1>10, <1>13, <1>15 DEF Call, Stays
<1> QED
  BY <1>3, <1>14, <1>16 DEF d, u

\* tsm_screen_clear_sb
Cleared(c) ==
    LET nulled == {"sb_pos"} \cup (IF c.sel_active THEN Ends ELSE {})
    IN  [c EXCEPT !.sb = << >>,
                  !.main = [i \in DOMAIN @ |-> Parted(@[i], nulled)],
                  !.dangling = (@ \cup PointersTo(c.sb)) \ nulled,
                  !.y = [e \in Ends |-> IF c.sel_active /\ ~IsNull(c, e)
                                        THEN SelectionTop ELSE @[e]]]

LEMMA ClearCall ==
    ASSUME NEW c, Sound(c), Placed(c)
    PROVE  Call(c, Cleared(c)) /\ Cleared(c).flags = c.flags
<1> DEFINE nulled == {"sb_pos"} \cup (IF c.sel_active THEN Ends ELSE {})
           rows == [e \in Ends |-> IF c.sel_active /\ ~IsNull(c, e)
                                   THEN SelectionTop ELSE c.y[e]]
           m == [i \in DOMAIN c.main |-> Parted(c.main[i], nulled)]
           dang == (c.dangling \cup PointersTo(c.sb)) \ nulled
<1>1. /\ c \in Cons /\ c.main \in Seq(Line) /\ c.sb \in Seq(Line)
      /\ \A i \in DOMAIN c.main : c.main[i] \in Line
  BY RowsOf, SeqLines DEF Sound
<1> DEFINE d == [c EXCEPT !.sb = << >>, !.main = m, !.dangling = dang, !.y = rows]
<1>2. Cleared(c) = d
  BY <1>1 DEF Cleared, Cons
<1>3. rows \in [Ends -> RowOrTop]
  BY <1>1 DEF Cons, RowOrTop
<1>4. \A i \in DOMAIN c.main :
          /\ m[i] \in Line /\ m[i].ptr = c.main[i].ptr \ nulled /\ m[i].ink = c.main[i].ink
  BY <1>1, PartedType
<1>5. /\ m \in Seq(Line) /\ Len(m) = Len(c.main) /\ DOMAIN m = DOMAIN c.main
  <2>1. m \in [DOMAIN c.main -> Line]
    BY <1>4
  <2>2. \A i \in DOMAIN c.main : m[i].ptr \subseteq c.main[i].ptr
    BY <1>4
  <2> QED
    BY <1>1, <2>1, <2>2, LessType
<1>6. dang \subseteq Pointer
  BY <1>1, PointersType DEF Cons
<1> HIDE DEF m, rows, dang
<1>7. << >> \in Seq(Line) /\ Len(<< >>) = 0 /\ DOMAIN << >> = {}
  BY EmptySeq, SeqLines
<1>8. /\ d \in Cons /\ d.main = m /\ d.alt = c.alt /\ d.sb = << >> /\ d.sb_max = c.sb_max
      /\ d.dangling = dang /\ d.sel_active = c.sel_active
      /\ d.size_x = c.size_x /\ d.size_y = c.size_y
      /\ d.margin_top = c.margin_top /\ d.margin_bottom = c.margin_bottom
      /\ d.cursor_x = c.cursor_x /\ d.cursor_y = c.cursor_y /\ d.flags = c.flags
  BY <1>3, <1>1, <1>5, <1>6, <1>7 DEF Cons
<1> HIDE DEF d
<1>9. Sound(d) /\ Placed(d)
  BY <1>5, <1>8 DEF Sound, Placed
<1>10. Viewed(d)
  <2>1. d.sb_max \in Nat
    BY <1>1, <1>8 DEF Cons
  <2>2. Len(d.sb) <= d.sb_max
    BY <1>7, <1>8, <2>1
  <2>3. Unmarked(d.main, "sb_pos") /\ "sb_pos" \notin d.dangling
    BY <1>4, <1>5, <1>8 DEF Unmarked, dang
  <2>4. Sole(d.sb, "sb_pos")
    BY <1>7, <1>8 DEF Sole
  <2> QED
    BY <2>2, <2>3, <2>4 DEF Viewed
<1>11. Live(d)
  BY <1>8 DEF Live, dang
<1>12. \A i \in Rows(c) : d.main[i].ink = c.main[i].ink
  BY <1>4, <1>8, RowsOf
<1>13. Regional(c, d) /\ Separate(c, d)
  BY <1>8, <1>12 DEF Regional, Separate
<1>14. Call(c, d)
  BY <1>8, <1>9, <1>10, <1>11, <1>13 DEF Call, Stays, SameSize
<1> QED
  BY <1>2, <1>8, <1>14

-----------------------------------------------------------------------------
(* The view of the scrollback and the selection. *)

LEMMA PointedAtType ==
    ASSUME NEW s \in Seq(Line), NEW i, NEW p \in Marks
    PROVE  /\ PointedAt(s, i, p) \in Seq(Line) /\ SameInk(s, PointedAt(s, i, p))
           /\ p # "sb_pos" => /\ Unmarked(s, "sb_pos") => Unmarked(PointedAt(s, i, p), "sb_pos")
                              /\ Sole(s, "sb_pos") => Sole(PointedAt(s, i, p), "sb_pos")
<1> DEFINE t == PointedAt(s, i, p)
           n == Len(s)
<1>1. n \in Nat /\ DOMAIN s = 1..n /\ \A j \in 1..n : s[j] \in Line
  BY SeqLines
<1>2. ASSUME NEW j \in 1..n
      PROVE  /\ t[j] \in Line /\ t[j].ink = s[j].ink
             /\ t[j].ptr = IF j = i THEN s[j].ptr \cup {p} ELSE s[j].ptr
  <2>1. t[j] = IF j = i THEN Pointed(s[j], p) ELSE s[j]
    BY <1>1 DEF PointedAt
  <2> HIDE DEF t
  <2>2. s[j] \in Line
    BY <1>1
  <2>3. /\ Pointed(s[j], p) \in Line /\ Pointed(s[j], p).ink = s[j].ink
        /\ Pointed(s[j], p).ptr = s[j].ptr \cup {p}
    BY <2>2, PointedType
  <2> QED
    BY <2>1, <2>2, <2>3
<1>3. t = [j \in 1..n |-> t[j]]
  BY <1>1 DEF PointedAt
<1> HIDE DEF t, n
<1>4. t \in [1..n -> Line]
  BY <1>2, <1>3
<1>5. t \in Seq(Line) /\ Len(t) = n /\ DOMAIN t = 1..n
  BY <1>1, <1>4, LinesSeq
<1>6. SameInk(s, t)
  BY <1>2, <1>5 DEF SameInk, n
<1>7. ASSUME p # "sb_pos"
      PROVE  /\ Unmarked(s, "sb_pos") => Unmarked(t, "sb_pos")
             /\ Sole(s, "sb_pos") => Sole(t, "sb_pos")
  <2>1. \A j \in 1..n : "sb_pos" \in t[j].ptr <=> "sb_pos" \in s[j].ptr
    BY <1>2, <1>7
  <2> QED
    BY <1>1, <1>5, <2>1 DEF Unmarked, Sole
<1> QED
  BY <1>5, <1>6, <1>7 DEF t

\* c becomes d: lines with other marks, and pointers that no longer dangle.
Marking(c, d, set) ==
    /\ d \in Cons /\ Same(c, d)
    /\ SameInk(c.main, d.main) /\ SameInk(c.sb, d.sb)
    /\ d.dangling \subseteq c.dangling \ set
    /\ Viewed(c) => Viewed(d)

LEMMA MarkingTwice ==
    ASSUME NEW c, NEW d, NEW e, NEW set, NEW more, Marking(c, d, set), Marking(d, e, more)
    PROVE  Marking(c, e, set \cup more)
<1>1. Same(c, e)
  BY DEF Marking, Same
<1>2. SameInk(c.main, e.main) /\ SameInk(c.sb, e.sb)
  BY DEF Marking, SameInk
<1> QED
  BY <1>1, <1>2 DEF Marking

\* Lines of the scrollback and of the main screen with other marks.
LEMMA MarksSet ==
    ASSUME NEW c \in Cons, NEW s \in Seq(Line), NEW m \in Seq(Line),
           SameInk(c.sb, s), SameInk(c.main, m),
           Unmarked(c.main, "sb_pos") => Unmarked(m, "sb_pos"),
           Sole(c.sb, "sb_pos") => Sole(s, "sb_pos")
    PROVE  Marking(c, [c EXCEPT !.sb = s, !.main = m], {})
<1> DEFINE d == [c EXCEPT !.sb = s, !.main = m]
<1>1. /\ d \in Cons /\ d.sb = s /\ d.main = m /\ d.dangling = c.dangling
      /\ Len(m) = Len(c.main) /\ Len(s) = Len(c.sb) /\ Same(c, d)
  BY DEF Cons, Same, SameInk
<1> HIDE DEF d
<1>2. Viewed(c) => Viewed(d)
  BY <1>1 DEF Viewed, Same
<1>3. Marking(c, d, {})
  BY <1>1, <1>2 DEF Marking
<1> QED
  BY <1>3 DEF d

LEMMA ToSbMarking ==
    ASSUME NEW c \in Cons, NEW p \in Pointer, NEW i
    PROVE  Marking(c, ToSb(c, p, i), {p}) /\ ToSb(c, p, i) \in Cons
BY ToSbType, ToSbMoves DEF Pointing, Marking, Moves, Kept

LEMMA RowSetMarking ==
    ASSUME NEW c \in Cons, NEW e \in Ends, NEW y \in RowOrTop
    PROVE  Marking(c, [c EXCEPT !.y[e] = y], {}) /\ [c EXCEPT !.y[e] = y] \in Cons
<1> DEFINE d == [c EXCEPT !.y[e] = y]
<1>1. /\ d \in Cons /\ Same(c, d) /\ d.main = c.main /\ d.sb = c.sb
      /\ d.dangling = c.dangling
  BY RowSet
<1> HIDE DEF d
<1>2. Marking(c, d, {})
  BY <1>1 DEF Marking, Viewed, SameInk, Same
<1> QED
  BY <1>1, <1>2 DEF d

\* selection_set
LEMMA EndSetMarking ==
    ASSUME NEW c, Sound(c), NEW e \in Ends, NEW row \in Nat
    PROVE  Marking(c, EndSet(c, e, row), {e})
<1> DEFINE pos == InSb(c, "sb_pos")
           shown == IF pos = 0 THEN 0 ELSE Len(c.sb) + 1 - pos
           y == Greater(0, row - shown)
           a == AnchorOf(e)
           us == Unpointed(c.sb, a)
           um == Unpointed(c.main, a)
           free == [c EXCEPT !.sb = us, !.main = um]
           k == IF row < shown THEN pos + row ELSE 0
           t == ToSb(free, e, k)
           set == [t EXCEPT !.y[e] = y]
           at == pos + row
           row1 == y + 1
<1>1. EndSet(c, e, row) = IF row < shown THEN [set EXCEPT !.sb = PointedAt(@, at, a)]
                          ELSE IF Active(c) = "alt" THEN set
                          ELSE [set EXCEPT !.main = PointedAt(@, row1, a)]
  BY DEF EndSet
<1>2. c \in Cons /\ c.sb \in Seq(Line) /\ c.main \in Seq(Line) /\ Len(c.sb) \in Nat
  BY SeqLines DEF Sound, Cons
<1>3. pos \in Nat /\ shown \in Int /\ y \in RowOrTop
  <2>1. pos \in Nat
    BY <1>2, InSbType
  <2> HIDE DEF pos
  <2> QED
    BY <1>2, <2>1 DEF Greater, RowOrTop
<1>4. a \in Marks /\ a # "sb_pos" /\ e \in Pointer
  BY MarkNames
<1> HIDE DEF a, k, y, row1, at, shown, pos
<1>5. /\ us \in Seq(Line) /\ SameInk(c.sb, us) /\ um \in Seq(Line) /\ SameInk(c.main, um)
      /\ Unmarked(c.main, "sb_pos") => Unmarked(um, "sb_pos")
      /\ Sole(c.sb, "sb_pos") => Sole(us, "sb_pos")
  <2>1. /\ us \in Seq(Line) /\ SameInk(c.sb, us) /\ DOMAIN us = DOMAIN c.sb
        /\ \A i \in DOMAIN c.sb : us[i].ptr = c.sb[i].ptr \ {a}
        /\ um \in Seq(Line) /\ SameInk(c.main, um) /\ DOMAIN um = DOMAIN c.main
        /\ \A i \in DOMAIN c.main : um[i].ptr = c.main[i].ptr \ {a}
    BY <1>2, UnpointedType
  <2> HIDE DEF us, um
  <2> QED
    BY <2>1 DEF Unmarked, Sole
<1> HIDE DEF us, um
<1>6. Marking(c, free, {}) /\ free \in Cons
  <2>1. Marking(c, free, {})
    BY <1>2, <1>5, MarksSet
  <2> QED
    BY <2>1 DEF Marking
<1> HIDE DEF free
<1>7. Marking(free, t, {e}) /\ t \in Cons
  BY <1>4, <1>6, ToSbMarking
<1> HIDE DEF t
<1>8. Marking(t, set, {}) /\ set \in Cons
  BY <1>3, <1>7, RowSetMarking
<1> HIDE DEF set
<1>9. Marking(c, set, {e})
  <2>1. Marking(c, t, {} \cup {e})
    BY <1>6, <1>7, MarkingTwice
  <2>2. Marking(c, set, ({} \cup {e}) \cup {})
    BY <1>8, <2>1, MarkingTwice
  <2>3. ({} \cup {e}) \cup {} = {e}
    OBVIOUS
  <2> QED
    BY <2>2, <2>3
<1>10. set.sb \in Seq(Line) /\ set.main \in Seq(Line)
  BY <1>8 DEF Cons
<1>11. ASSUME NEW d, Marking(set, d, {}) PROVE Marking(c, d, {e})
  <2>1. Marking(c, d, {e} \cup {})
    BY <1>9, <1>11, MarkingTwice
  <2>2. {e} \cup {} = {e}
    OBVIOUS
  <2> QED
    BY <2>1, <2>2
<1>12. Marking(set, [set EXCEPT !.sb = PointedAt(@, at, a)], {})
  <2> DEFINE s == PointedAt(set.sb, at, a)
             m == set.main
  <2>1. s \in Seq(Line) /\ SameInk(set.sb, s) /\ (Sole(set.sb, "sb_pos") => Sole(s, "sb_pos"))
    BY <1>4, <1>10, PointedAtType
  <2>2. [set EXCEPT !.sb = PointedAt(@, at, a)] = [set EXCEPT !.sb = s, !.main = m]
    BY <1>8 DEF Cons
  <2>3. m \in Seq(Line) /\ SameInk(set.main, m) /\ (Unmarked(set.main, "sb_pos") => Unmarked(m, "sb_pos"))
    BY <1>10 DEF SameInk
  <2> HIDE DEF s, m
  <2> QED
    BY <1>8, <2>1, <2>2, <2>3, MarksSet
<1>13. Marking(set, [set EXCEPT !.main = PointedAt(@, row1, a)], {})
  <2> DEFINE s == set.sb
             m == PointedAt(set.main, row1, a)
  <2>1. /\ m \in Seq(Line) /\ SameInk(set.main, m)
        /\ Unmarked(set.main, "sb_pos") => Unmarked(m, "sb_pos")
    BY <1>4, <1>10, PointedAtType
  <2>2. [set EXCEPT !.main = PointedAt(@, row1, a)] = [set EXCEPT !.sb = s, !.main = m]
    BY <1>8 DEF Cons
  <2>3. s \in Seq(Line) /\ SameInk(set.sb, s) /\ (Sole(set.sb, "sb_pos") => Sole(s, "sb_pos"))
    BY <1>10 DEF SameInk
  <2> HIDE DEF s, m
  <2> QED
    BY <1>8, <2>1, <2>2, <2>3, MarksSet
<1> QED
  BY <1>1, <1>9, <1>11, <1>12, <1>13

LEMMA MarkingCall ==
    ASSUME NEW c, Sound(c), Placed(c), NEW d, NEW set, Marking(c, d, set)
    PROVE  Call(c, d) /\ d.flags = c.flags /\ Sound(d)
<1>1. /\ d \in Cons /\ Same(c, d) /\ SameInk(c.main, d.main) /\ SameInk(c.sb, d.sb)
      /\ d.dangling \subseteq c.dangling /\ (Viewed(c) => Viewed(d))
  BY DEF Marking
<1>2. Sound(d) /\ Placed(d)
  BY <1>1 DEF Sound, Same, Placed
<1>3. Live(c) => Live(d)
  BY <1>1 DEF Live, Same
<1>4. \A i \in Rows(c) : d.main[i].ink = c.main[i].ink
  BY <1>1, RowsOf DEF SameInk
<1>5. Apart(c, d)
  BY <1>1 DEF Apart
<1>6. Regional(c, d) /\ Separate(c, d)
  BY <1>2, <1>4, <1>5, ApartSeparate DEF Regional
<1> QED
  BY <1>1, <1>2, <1>3, <1>6 DEF Call, Stays, SameSize, Same

\* tsm_screen_sb_up, tsm_screen_sb_down and tsm_screen_sb_reset
LEMMA ViewCall ==
    ASSUME NEW c, Sound(c), Placed(c), NEW i
    PROVE  /\ Call(c, ToSb(c, "sb_pos", i)) /\ ToSb(c, "sb_pos", i).flags = c.flags
           /\ Call(c, ToNull(c, "sb_pos")) /\ ToNull(c, "sb_pos").flags = c.flags
<1>1. "sb_pos" \in Pointer /\ c \in Cons
  BY MarkNames DEF Sound
<1>2. Marking(c, ToSb(c, "sb_pos", i), {"sb_pos"})
  BY <1>1, ToSbMarking
<1>3. Marking(c, ToNull(c, "sb_pos"), {})
  <2>1. /\ Moves(c, ToNull(c, "sb_pos"))
        /\ SameInk(c.sb, ToNull(c, "sb_pos").sb) /\ SameInk(c.main, ToNull(c, "sb_pos").main)
    BY <1>1, ToNullMoves
  <2>2. ToNull(c, "sb_pos").dangling = c.dangling \ {"sb_pos"}
    BY <1>1, ToNullType
  <2> QED
    BY <2>1, <2>2 DEF Marking, Moves, Kept
<1> QED
  BY <1>2, <1>3, MarkingCall

\* A screen with an active selection, or none.
Selecting(c, active) == [c EXCEPT !.sel_active = active]

LEMMA SelectingCall ==
    ASSUME NEW c, Sound(c), Placed(c), NEW d, NEW set, Marking(c, d, set),
           NEW active \in BOOLEAN, active => Ends \subseteq set
    PROVE  Call(c, Selecting(d, active)) /\ Selecting(d, active).flags = c.flags
<1> DEFINE e == Selecting(d, active)
<1>1. Call(c, d) /\ d.flags = c.flags /\ d \in Cons
  BY MarkingCall DEF Marking
<1>2. /\ e \in Cons /\ e.sel_active = active /\ e.main = d.main /\ e.alt = d.alt
      /\ e.sb = d.sb /\ e.sb_max = d.sb_max /\ e.dangling = d.dangling
      /\ e.size_x = d.size_x /\ e.size_y = d.size_y
      /\ e.margin_top = d.margin_top /\ e.margin_bottom = d.margin_bottom
      /\ e.cursor_x = d.cursor_x /\ e.cursor_y = d.cursor_y /\ e.flags = d.flags
  BY <1>1 DEF Cons, Selecting
<1> HIDE DEF e
<1>3. Sound(e) /\ Placed(e) /\ (Viewed(c) => Viewed(e))
  BY <1>1, <1>2 DEF Call, Stays, Sound, Placed, Viewed
<1>4. Live(e)
  BY <1>2 DEF Live, Marking
<1>5. Regional(c, e) /\ Separate(c, e)
  BY <1>1, <1>2 DEF Call, Regional, Separate
<1> QED
  BY <1>1, <1>2, <1>3, <1>4, <1>5 DEF Call, Stays, SameSize, e

\* selection_start: both ends.
BothSet(c, row) == EndSet(EndSet(c, "sel_start", row), "sel_end", row)

LEMMA BothSetMarking ==
    ASSUME NEW c, Sound(c), Placed(c), NEW row \in Nat
    PROVE  Marking(c, BothSet(c, row), Ends)
<1> DEFINE d == EndSet(c, "sel_start", row)
<1>1. "sel_start" \in Ends /\ "sel_end" \in Ends
  BY MarkNames
<1>2. Marking(c, d, {"sel_start"})
  BY <1>1, EndSetMarking
<1>3. Sound(d)
  BY <1>2, MarkingCall
<1> HIDE DEF d
<1>4. Marking(d, EndSet(d, "sel_end", row), {"sel_end"})
  BY <1>1, <1>3, EndSetMarking
<1>5. Marking(c, EndSet(d, "sel_end", row), {"sel_start"} \cup {"sel_end"})
  BY <1>2, <1>4, MarkingTwice
<1>6. Ends = {"sel_start"} \cup {"sel_end"}
  BY MarkNames
<1> QED
  BY <1>5, <1>6 DEF BothSet, d

\* tsm_screen_selection_reset
Forgotten(c) ==
    LET Forget(s) == [i \in DOMAIN s |-> Parted(s[i], Anchor)]
    IN  [c EXCEPT !.sel_active = FALSE, !.sb = Forget(@), !.main = Forget(@)]

LEMMA ForgottenCall ==
    ASSUME NEW c, Sound(c), Placed(c)
    PROVE  Call(c, Forgotten(c)) /\ Forgotten(c).flags = c.flags
<1> DEFINE Forget(s) == [i \in DOMAIN s |-> Parted(s[i], Anchor)]
           fs == Forget(c.sb)
           fm == Forget(c.main)
           d == [c EXCEPT !.sb = fs, !.main = fm]
<1>1. c \in Cons /\ c.sb \in Seq(Line) /\ c.main \in Seq(Line)
  BY DEF Sound, Cons
<1>2. ASSUME NEW s \in Seq(Line)
      PROVE  /\ Forget(s) \in Seq(Line) /\ SameInk(s, Forget(s))
             /\ Unmarked(s, "sb_pos") => Unmarked(Forget(s), "sb_pos")
             /\ Sole(s, "sb_pos") => Sole(Forget(s), "sb_pos")
  <2> DEFINE t == Forget(s)
  <2>1. \A i \in DOMAIN s : s[i] \in Line
    BY SeqLines
  <2>2. ASSUME NEW i \in DOMAIN s
        PROVE  t[i] \in Line /\ t[i].ptr \subseteq s[i].ptr /\ t[i].ink = s[i].ink
    BY <2>1, PartedType
  <2>3. t \in [DOMAIN s -> Line]
    <3>1. \A i \in DOMAIN s : Parted(s[i], Anchor) \in Line
      BY <2>1, PartedType
    <3> QED
      BY <3>1
  <2> HIDE DEF t
  <2>4. /\ t \in Seq(Line) /\ Len(t) = Len(s)
        /\ Unmarked(s, "sb_pos") => Unmarked(t, "sb_pos")
        /\ Sole(s, "sb_pos") => Sole(t, "sb_pos")
    BY <2>2, <2>3, LessType
  <2>5. SameInk(s, t)
    BY <2>2, <2>4, SeqLines DEF SameInk
  <2> QED
    BY <2>4, <2>5 DEF t
<1>3. /\ fs \in Seq(Line) /\ SameInk(c.sb, fs) /\ (Sole(c.sb, "sb_pos") => Sole(fs, "sb_pos"))
      /\ fm \in Seq(Line) /\ SameInk(c.main, fm)
      /\ Unmarked(c.main, "sb_pos") => Unmarked(fm, "sb_pos")
  BY <1>1, <1>2
<1>4. Forgotten(c) = [c EXCEPT !.sel_active = FALSE, !.sb = fs, !.main = fm]
  BY <1>1 DEF Forgotten, Cons
<1> HIDE DEF fs, fm, Forget
<1>5. Marking(c, d, {})
  BY <1>1, <1>3, MarksSet
<1>6. Forgotten(c) = Selecting(d, FALSE)
  BY <1>1, <1>4 DEF Selecting, Cons
<1> HIDE DEF d
<1> QED
  BY <1>5, <1>6, SelectingCall

-----------------------------------------------------------------------------
(* The size of the screen. *)

\* c becomes d: rows are added, and lines made wider or partly reset.
Padded(c, d) ==
    /\ d \in Cons /\ Len(d.main) = Len(d.alt) /\ Len(c.main) <= Len(d.main)
    /\ d.size_x = c.size_x /\ d.size_y = c.size_y
    /\ d.margin_top = c.margin_top /\ d.margin_bottom = c.margin_bottom
    /\ d.cursor_x = c.cursor_x /\ d.cursor_y = c.cursor_y
    /\ d.flags = c.flags /\ d.sb = c.sb /\ d.sb_max = c.sb_max
    /\ d.sel_active = c.sel_active /\ d.dangling = c.dangling
    /\ Unmarked(c.main, "sb_pos") => Unmarked(d.main, "sb_pos")

SameRows(c, d) == \A i \in DOMAIN c.main : d.main[i].ink = c.main[i].ink

LEMMA LinesPut ==
    ASSUME NEW c \in Cons, NEW m \in Seq(Line), NEW a \in Seq(Line),
           Len(m) = Len(a), Len(c.main) <= Len(m),
           Unmarked(c.main, "sb_pos") => Unmarked(m, "sb_pos")
    PROVE  /\ Padded(c, [c EXCEPT !.main = m, !.alt = a])
           /\ [c EXCEPT !.main = m, !.alt = a].main = m
<1> DEFINE d == [c EXCEPT !.main = m, !.alt = a]
<1>1. /\ d \in Cons /\ d.main = m /\ d.alt = a
      /\ d.size_x = c.size_x /\ d.size_y = c.size_y
      /\ d.margin_top = c.margin_top /\ d.margin_bottom = c.margin_bottom
      /\ d.cursor_x = c.cursor_x /\ d.cursor_y = c.cursor_y
      /\ d.flags = c.flags /\ d.sb = c.sb /\ d.sb_max = c.sb_max
      /\ d.sel_active = c.sel_active /\ d.dangling = c.dangling
  BY DEF Cons
<1> HIDE DEF d
<1>2. Padded(c, d)
  BY <1>1 DEF Padded
<1> QED
  BY <1>1, <1>2 DEF d

LEMMA AddedType ==
    ASSUME NEW s \in Seq(Line), NEW w \in Nat \ {0}, NEW n \in Nat
    PROVE  /\ s \o [i \in 1..n |-> NewLine(w)] \in Seq(Line)
           /\ Len(s \o [i \in 1..n |-> NewLine(w)]) = Len(s) + n
           /\ \A i \in DOMAIN s : (s \o [j \in 1..n |-> NewLine(w)])[i] = s[i]
           /\ Unmarked(s, "sb_pos") => Unmarked(s \o [i \in 1..n |-> NewLine(w)], "sb_pos")
<1> DEFINE new == [i \in 1..n |-> NewLine(w)]
           t == s \o new
<1>1. NewLine(w) \in Line /\ NewLine(w).ptr = {}
  BY NewLineType
<1>2. new \in Seq(Line) /\ Len(new) = n /\ DOMAIN new = 1..n
  <2>1. new \in [1..n -> Line]
    BY <1>1
  <2> HIDE DEF new
  <2> QED
    BY <2>1, LinesSeq
<1>3. \A i \in 1..n : new[i].ptr = {}
  BY <1>1
<1> HIDE DEF new
<1>4. DOMAIN s = 1..Len(s) /\ Len(s) \in Nat
  BY SeqLines
<1>5. /\ t \in Seq(Line) /\ Len(t) = Len(s) + n
      /\ \A i \in 1..(Len(s) + n) : t[i] = IF i <= Len(s) THEN s[i] ELSE new[i - Len(s)]
  BY <1>2, ConcatProperties
<1>6. DOMAIN t = 1..(Len(s) + n)
  BY <1>5, SeqLines
<1> HIDE DEF t
<1>7. \A i \in DOMAIN s : t[i] = s[i]
  BY <1>4, <1>5
<1>8. ASSUME Unmarked(s, "sb_pos") PROVE Unmarked(t, "sb_pos")
  <2>1. ASSUME NEW i \in DOMAIN t PROVE "sb_pos" \notin t[i].ptr
    <3>1. CASE i <= Len(s)
      BY <1>4, <1>5, <1>6, <1>8, <3>1 DEF Unmarked
    <3>2. CASE ~(i <= Len(s))
      <4>1. t[i] = new[i - Len(s)] /\ i - Len(s) \in 1..n
        BY <1>4, <1>5, <1>6, <3>2
      <4> QED
        BY <1>3, <4>1
    <3> QED
      BY <3>1, <3>2
  <2> QED
    BY <2>1 DEF Unmarked
<1> QED
  BY <1>5, <1>7, <1>8 DEF t, new

\* The rows of a higher screen.
LEMMA WithRowsType ==
    ASSUME NEW c \in Cons, Len(c.main) = Len(c.alt), NEW x \in Nat \ {0}, NEW n \in Nat
    PROVE  /\ Padded(c, WithRows(c, x, n)) /\ SameRows(c, WithRows(c, x, n))
           /\ Len(WithRows(c, x, n).main) = Len(c.main) + n
<1> DEFINE w == Greater(x, c.size_x)
           new == [i \in 1..n |-> NewLine(w)]
           m == c.main \o new
           a == c.alt \o new
           d == [c EXCEPT !.main = m, !.alt = a]
<1>1. WithRows(c, x, n) = d
  BY DEF WithRows, Cons
<1>2. w \in Nat \ {0} /\ c.main \in Seq(Line) /\ c.alt \in Seq(Line)
  BY DEF Cons, Greater
<1> HIDE DEF w
<1>3. /\ m \in Seq(Line) /\ Len(m) = Len(c.main) + n
      /\ \A i \in DOMAIN c.main : m[i] = c.main[i]
      /\ Unmarked(c.main, "sb_pos") => Unmarked(m, "sb_pos")
  BY <1>2, AddedType
<1>4. a \in Seq(Line) /\ Len(a) = Len(c.alt) + n
  BY <1>2, AddedType
<1> HIDE DEF m, a
<1>5. Len(c.main) \in Nat
  BY <1>2, SeqLines
<1>6. Len(m) = Len(a) /\ Len(c.main) <= Len(m)
  BY <1>3, <1>4, <1>5
<1>7. Padded(c, d) /\ d.main = m
  BY <1>2, <1>3, <1>4, <1>6, LinesPut
<1> HIDE DEF d
<1> QED
  BY <1>1, <1>3, <1>7 DEF SameRows

\* line_resize
Wide(line, x) == [line EXCEPT !.size = Greater(@, x)]
WideLines(s, x, n) == [i \in DOMAIN s |-> IF i <= n THEN Wide(s[i], x) ELSE s[i]]

LEMMA WideType ==
    ASSUME NEW l \in Line, NEW x \in Nat
    PROVE  Wide(l, x) \in Line /\ Wide(l, x).ptr = l.ptr /\ Wide(l, x).ink = l.ink
<1> DEFINE g == Greater(l.size, x)
<1>1. l \in [size : Nat \ {0}, ink : SUBSET Nat, ptr : SUBSET Marks] /\ l.ink \subseteq Columns(l.size)
  BY DEF Line
<1>2. g \in Nat \ {0} /\ l.size <= g
  BY <1>1 DEF Greater
<1>3. Wide(l, x) = [l EXCEPT !.size = g]
  BY <1>1 DEF Wide
<1> HIDE DEF g
<1>4. Columns(l.size) \subseteq Columns(g)
  BY <1>1, <1>2 DEF Columns
<1> QED
  BY <1>1, <1>2, <1>3, <1>4 DEF Line

LEMMA WideLinesType ==
    ASSUME NEW s \in Seq(Line), NEW x \in Nat, NEW n
    PROVE  /\ WideLines(s, x, n) \in Seq(Line) /\ Len(WideLines(s, x, n)) = Len(s)
           /\ \A i \in DOMAIN s : WideLines(s, x, n)[i].ink = s[i].ink
           /\ Unmarked(s, "sb_pos") => Unmarked(WideLines(s, x, n), "sb_pos")
<1> DEFINE t == WideLines(s, x, n)
<1>1. \A i \in DOMAIN s : s[i] \in Line
  BY SeqLines
<1>2. ASSUME NEW i \in DOMAIN s
      PROVE  t[i] \in Line /\ t[i].ptr = s[i].ptr /\ t[i].ink = s[i].ink
  <2>1. t[i] = IF i <= n THEN Wide(s[i], x) ELSE s[i]
    BY DEF WideLines
  <2> HIDE DEF t
  <2>2. s[i] \in Line
    BY <1>1
  <2>3. Wide(s[i], x) \in Line /\ Wide(s[i], x).ptr = s[i].ptr /\ Wide(s[i], x).ink = s[i].ink
    BY <2>2, WideType
  <2> QED
    BY <2>1, <2>2, <2>3
<1>3. t = [i \in DOMAIN s |-> t[i]]
  BY DEF WideLines
<1> HIDE DEF t
<1>4. t \in [DOMAIN s -> Line]
  BY <1>2, <1>3
<1>5. t \in Seq(Line) /\ Len(t) = Len(s) /\ (Unmarked(s, "sb_pos") => Unmarked(t, "sb_pos"))
  BY <1>2, <1>4, LessType
<1> QED
  BY <1>2, <1>5 DEF t

LEMMA WidenedType ==
    ASSUME NEW c \in Cons, Len(c.main) = Len(c.alt), NEW x \in Nat, NEW n, NEW k
    PROVE  /\ Padded(c, Widened(c, x, n, k)) /\ SameRows(c, Widened(c, x, n, k))
           /\ Len(Widened(c, x, n, k).main) = Len(c.main)
<1> DEFINE m == WideLines(c.main, x, n)
           a == WideLines(c.alt, x, k)
           d == [c EXCEPT !.main = m, !.alt = a]
<1>1. Widened(c, x, n, k) = d
  BY DEF Widened, Cons, WideLines, Wide
<1>2. c.main \in Seq(Line) /\ c.alt \in Seq(Line)
  BY DEF Cons
<1>3. /\ m \in Seq(Line) /\ Len(m) = Len(c.main)
      /\ \A i \in DOMAIN c.main : m[i].ink = c.main[i].ink
      /\ Unmarked(c.main, "sb_pos") => Unmarked(m, "sb_pos")
  BY <1>2, WideLinesType
<1>4. a \in Seq(Line) /\ Len(a) = Len(c.alt)
  BY <1>2, WideLinesType
<1> HIDE DEF m, a
<1>5. Len(m) = Len(a) /\ Len(c.main) <= Len(m)
  BY <1>2, <1>3, <1>4, SeqLines
<1>6. Padded(c, d) /\ d.main = m
  <2>1. m \in Seq(Line) /\ a \in Seq(Line) /\ (Unmarked(c.main, "sb_pos") => Unmarked(m, "sb_pos"))
    BY <1>3, <1>4
  <2>2. Padded(c, d)
    BY <1>5, <2>1, LinesPut
  <2>3. d.main = m
    BY <1>5, <2>1, LinesPut
  <2> QED
    BY <2>2, <2>3
<1> HIDE DEF d
<1> QED
  BY <1>1, <1>3, <1>6 DEF SameRows

LEMMA PaddedTwice ==
    ASSUME NEW c, NEW d, NEW e, c \in Cons, Padded(c, d), Padded(d, e)
    PROVE  /\ Padded(c, e) /\ (SameRows(c, d) /\ SameRows(d, e) => SameRows(c, e))
<1>1. d \in Cons /\ e \in Cons
  BY DEF Padded
<1>2. /\ Len(c.main) \in Nat /\ Len(d.main) \in Nat /\ Len(e.main) \in Nat
      /\ DOMAIN c.main = 1..Len(c.main) /\ DOMAIN d.main = 1..Len(d.main)
  BY <1>1, SeqLines DEF Cons
<1>3. Len(c.main) <= Len(d.main) /\ Len(d.main) <= Len(e.main)
  BY DEF Padded
<1>4. Len(c.main) <= Len(e.main)
  BY <1>2, <1>3
<1>5. Padded(c, e)
  BY <1>4 DEF Padded
<1>6. DOMAIN c.main \subseteq DOMAIN d.main
  BY <1>2, <1>3
<1>7. SameRows(c, d) /\ SameRows(d, e) => SameRows(c, e)
  BY <1>6 DEF SameRows
<1> QED
  BY <1>5, <1>7

\* A resize that an allocation fails.
LEMMA PaddedCall ==
    ASSUME NEW c, Sound(c), Placed(c), NEW d, Padded(c, d), SameRows(c, d)
    PROVE  Call(c, d) /\ d.flags = c.flags
<1>1. /\ d \in Cons /\ Len(d.main) = Len(d.alt) /\ Len(c.main) <= Len(d.main)
      /\ d.size_x = c.size_x /\ d.size_y = c.size_y
      /\ d.margin_top = c.margin_top /\ d.margin_bottom = c.margin_bottom
      /\ d.cursor_x = c.cursor_x /\ d.cursor_y = c.cursor_y
      /\ d.flags = c.flags /\ d.sb = c.sb /\ d.sb_max = c.sb_max
      /\ d.sel_active = c.sel_active /\ d.dangling = c.dangling
      /\ Unmarked(c.main, "sb_pos") => Unmarked(d.main, "sb_pos")
  BY DEF Padded
<1>2. c.size_y <= Len(d.main)
  <2>1. c.size_y \in Nat /\ c.size_y <= Len(c.main) /\ Len(c.main) \in Nat
    BY RowsOf DEF Sound, Cons
  <2>2. Len(d.main) \in Nat
    BY <1>1, SeqLines DEF Cons
  <2> QED
    BY <1>1, <2>1, <2>2
<1>3. Sound(d) /\ Placed(d)
  BY <1>1, <1>2 DEF Sound, Placed
<1>4. (Viewed(c) => Viewed(d)) /\ (Live(c) => Live(d))
  BY <1>1 DEF Viewed, Live
<1>5. \A i \in Rows(c) : d.main[i].ink = c.main[i].ink
  BY RowsOf DEF SameRows
<1>6. Regional(c, d) /\ Separate(c, d)
  BY <1>1, <1>5 DEF Regional, Separate
<1> QED
  BY <1>1, <1>3, <1>4, <1>6 DEF Call, Stays, SameSize

LEMMA FailureCall ==
    ASSUME NEW c, Sound(c), Placed(c), NEW x \in Nat \ {0}, NEW y \in Nat \ {0},
           NEW d \in ResizeFailures(c, x, y)
    PROVE  Call(c, d) /\ d.flags = c.flags
<1> DEFINE more == Greater(0, y - Len(c.main))
           rows == WithRows(c, x, more)
<1>1. c \in Cons /\ Len(c.main) = Len(c.alt) /\ Len(c.main) \in Nat
  BY RowsOf DEF Sound
<1>2. more \in Nat
  BY <1>1 DEF Greater
<1>3. \/ \E n \in 0..(more - 1) : d = WithRows(c, x, n)
      \/ \E n, k : d = Widened(rows, x, n, k)
  BY DEF ResizeFailures
<1> HIDE DEF more
<1>4. ASSUME NEW n \in 0..(more - 1), d = WithRows(c, x, n)
      PROVE  Padded(c, d) /\ SameRows(c, d)
  <2>1. n \in Nat
    BY <1>2, <1>4
  <2> QED
    BY <1>1, <1>4, <2>1, WithRowsType
<1>5. ASSUME NEW n, NEW k, d = Widened(rows, x, n, k)
      PROVE  Padded(c, d) /\ SameRows(c, d)
  <2>1. Padded(c, rows) /\ SameRows(c, rows)
    BY <1>1, <1>2, WithRowsType
  <2> HIDE DEF rows
  <2>2. rows \in Cons /\ Len(rows.main) = Len(rows.alt) /\ x \in Nat
    BY <2>1 DEF Padded
  <2>3. Padded(rows, d) /\ SameRows(rows, d)
    BY <1>5, <2>2, WidenedType
  <2> QED
    BY <1>1, <2>1, <2>3, PaddedTwice
<1>6. Padded(c, d) /\ SameRows(c, d)
  BY <1>3, <1>4, <1>5
<1> QED
  BY <1>6, PaddedCall

\* A set of indices that is not empty has a last one.
LEMMA LastOf ==
    ASSUME NEW Q, NEW n \in Nat, NEW k \in 1..n, k \in Q
    PROVE  \E i \in 1..n : i \in Q /\ \A j \in (i + 1)..n : j \notin Q
<1> DEFINE Has(m) == (\E i \in 1..m : i \in Q)
                     => \E i \in 1..m : i \in Q /\ \A j \in (i + 1)..m : j \notin Q
           S == {m \in Nat : Has(m)}
<1>1. 0 \in S
  OBVIOUS
<1>2. ASSUME NEW m \in Nat, m \in S PROVE m + 1 \in S
  <2>1. CASE m + 1 \in Q
    <3>1. m + 1 \in 1..(m + 1) /\ \A j \in (m + 1 + 1)..(m + 1) : j \notin Q
      OBVIOUS
    <3> QED
      BY <2>1, <3>1
  <2>2. CASE m + 1 \notin Q
    <3>1. SUFFICES ASSUME \E i \in 1..(m + 1) : i \in Q
                   PROVE  \E i \in 1..(m + 1) : i \in Q /\ \A j \in (i + 1)..(m + 1) : j \notin Q
      OBVIOUS
    <3>2. \E i \in 1..m : i \in Q
      BY <2>2, <3>1
    <3>3. PICK i \in 1..m : i \in Q /\ \A j \in (i + 1)..m : j \notin Q
      BY <1>2, <3>2
    <3>4. i \in 1..(m + 1) /\ \A j \in (i + 1)..(m + 1) : j \notin Q
      BY <2>2, <3>3
    <3> QED
      BY <3>3, <3>4
  <2> QED
    BY <2>1, <2>2
<1>3. Nat \subseteq S
  <2> HIDE DEF S
  <2> QED
    BY <1>1, <1>2, NatSet
<1> QED
  BY <1>3

LEMMA LastInkedType ==
    ASSUME NEW c, NEW n \in Nat
    PROVE  /\ LastInked(c, n) \in 0..n /\ EmptyBelow(c, n) \in 0..n
           /\ LastInked(c, n) # 0 => ~LineIsEmpty(c, c.main[LastInked(c, n)])
           /\ \A j \in (LastInked(c, n) + 1)..n : LineIsEmpty(c, c.main[j])
<1> DEFINE Q == {i \in 1..n : ~LineIsEmpty(c, c.main[i])}
<1>1. CASE \E i \in 1..n : ~LineIsEmpty(c, c.main[i])
  <2>1. PICK k \in 1..n : ~LineIsEmpty(c, c.main[k])
    BY <1>1
  <2>2. k \in Q
    BY <2>1
  <2> HIDE DEF Q
  <2>3. PICK i \in 1..n : i \in Q /\ \A j \in (i + 1)..n : j \notin Q
    BY <2>2, LastOf
  <2>4. /\ ~LineIsEmpty(c, c.main[i])
        /\ \A j \in (i + 1)..n : LineIsEmpty(c, c.main[j])
    BY <2>3 DEF Q
  <2>5. LastInked(c, n) = CHOOSE l \in 1..n :
            /\ ~LineIsEmpty(c, c.main[l])
            /\ \A j \in (l + 1)..n : LineIsEmpty(c, c.main[j])
    BY <1>1 DEF LastInked
  <2>6. /\ LastInked(c, n) \in 1..n
        /\ ~LineIsEmpty(c, c.main[LastInked(c, n)])
        /\ \A j \in (LastInked(c, n) + 1)..n : LineIsEmpty(c, c.main[j])
    BY <2>4, <2>5
  <2> QED
    BY <2>6 DEF EmptyBelow
<1>2. CASE ~\E i \in 1..n : ~LineIsEmpty(c, c.main[i])
  <2>1. LastInked(c, n) = 0
    BY <1>2 DEF LastInked
  <2> QED
    BY <1>2, <2>1 DEF EmptyBelow
<1> QED
  BY <1>1, <1>2

\* What there is room for of row i on a screen x columns wide.
Fitting(c, x, i) ==
    IF i <= c.size_y THEN c.main[i].ink \cap Columns(Lesser(x, c.size_x)) ELSE {}

LEMMA PaddingClearedType ==
    ASSUME NEW c \in Cons, Len(c.main) = Len(c.alt), NEW x
    PROVE  /\ Padded(c, PaddingCleared(c, x))
           /\ Len(PaddingCleared(c, x).main) = Len(c.main)
           /\ \A i \in DOMAIN c.main :
                 PaddingCleared(c, x).main[i].ink = Fitting(c, x, i)
<1> DEFINE keep(i) == IF i <= c.size_y THEN Columns(Lesser(x, c.size_x)) ELSE {}
           m == [i \in DOMAIN c.main |-> Clipped(c.main[i], keep(i))]
           a == c.alt
           d == [c EXCEPT !.main = m, !.alt = a]
<1>1. PaddingCleared(c, x) = d
  BY DEF PaddingCleared, Cons
<1>2. c.main \in Seq(Line) /\ a \in Seq(Line)
  BY DEF Cons
<1>3. \A i \in DOMAIN c.main : c.main[i] \in Line
  BY <1>2, SeqLines
<1>4. \A i \in DOMAIN c.main : Fitting(c, x, i) = c.main[i].ink \cap keep(i)
  BY DEF Fitting
<1> HIDE DEF keep
<1>5. ASSUME NEW i \in DOMAIN c.main
      PROVE  /\ Clipped(c.main[i], keep(i)) \in Line
             /\ Clipped(c.main[i], keep(i)).ptr = c.main[i].ptr
             /\ Clipped(c.main[i], keep(i)).ink = c.main[i].ink \cap keep(i)
  BY <1>3, ClippedType
<1>6. \A i \in DOMAIN c.main : m[i].ink = Fitting(c, x, i)
  BY <1>5, <1>4
<1>7. m \in [DOMAIN c.main -> Line] /\ \A i \in DOMAIN c.main : m[i].ptr \subseteq c.main[i].ptr
  BY <1>5
<1> HIDE DEF m
<1>8. /\ m \in Seq(Line) /\ Len(m) = Len(c.main)
      /\ Unmarked(c.main, "sb_pos") => Unmarked(m, "sb_pos")
  BY <1>2, <1>7, LessType
<1>9. Len(m) = Len(a) /\ Len(c.main) <= Len(m)
  BY <1>2, <1>8, SeqLines
<1> HIDE DEF a
<1>10. Padded(c, d) /\ d.main = m
  BY <1>2, <1>8, <1>9, LinesPut
<1> HIDE DEF d
<1> QED
  BY <1>1, <1>8, <1>10, <1>6

\* tsm_screen_resize up to its padding: the rows and columns are there.
Enlarged(c, x, y) ==
    LET rows == WithRows(c, x, Greater(0, y - Len(c.main)))
        wide == IF x > c.size_x
                THEN Widened(rows, x, Len(rows.main), Len(rows.main)) ELSE rows
    IN  PaddingCleared(wide, x)

\* Its text is what both screens have room for.
LEMMA EnlargedType ==
    ASSUME NEW c, Sound(c), NEW x \in Nat \ {0}, NEW y \in Nat \ {0}
    PROVE  /\ Padded(c, Enlarged(c, x, y)) /\ y <= Len(Enlarged(c, x, y).main)
           /\ \A i \in DOMAIN Enlarged(c, x, y).main :
                 Enlarged(c, x, y).main[i].ink = Fitting(c, x, i)
<1> DEFINE more == Greater(0, y - Len(c.main))
           rows == WithRows(c, x, more)
           wide == IF x > c.size_x
                   THEN Widened(rows, x, Len(rows.main), Len(rows.main)) ELSE rows
           clear == PaddingCleared(wide, x)
<1>1. /\ c \in Cons /\ Len(c.main) = Len(c.alt) /\ Len(c.main) \in Nat
      /\ DOMAIN c.main = 1..Len(c.main)
      /\ c.size_y \in Nat /\ c.size_y <= Len(c.main) /\ c.size_x \in Nat
  BY RowsOf DEF Sound, Cons
<1>2. more \in Nat /\ y <= Len(c.main) + more
  <2>1. \A l \in Nat : Greater(0, y - l) \in Nat /\ y <= l + Greater(0, y - l)
    BY DEF Greater
  <2> QED
    BY <1>1, <2>1
<1>3. Enlarged(c, x, y) = clear
  BY DEF Enlarged
<1> HIDE DEF more
<1>4. Padded(c, rows) /\ SameRows(c, rows) /\ Len(rows.main) = Len(c.main) + more
  BY <1>1, <1>2, WithRowsType
<1> HIDE DEF rows
<1>5. rows \in Cons /\ Len(rows.main) = Len(rows.alt) /\ x \in Nat
  BY <1>4 DEF Padded
<1>6. Padded(c, wide) /\ SameRows(c, wide) /\ Len(wide.main) = Len(c.main) + more
  <2>1. CASE x > c.size_x
    <3> DEFINE w == Widened(rows, x, Len(rows.main), Len(rows.main))
    <3>1. Padded(rows, w) /\ SameRows(rows, w) /\ Len(w.main) = Len(rows.main)
      BY <1>5, WidenedType
    <3> HIDE DEF w
    <3>2. wide = w
      BY <2>1 DEF w
    <3>3. Padded(c, w) /\ SameRows(c, w)
      BY <1>1, <1>4, <3>1, PaddedTwice
    <3> QED
      BY <1>4, <3>1, <3>2, <3>3
  <2>2. CASE ~(x > c.size_x)
    BY <1>4, <2>2
  <2> QED
    BY <2>1, <2>2
<1> HIDE DEF wide
<1>7. /\ wide \in Cons /\ Len(wide.main) = Len(wide.alt)
      /\ wide.size_x = c.size_x /\ wide.size_y = c.size_y
  BY <1>6 DEF Padded
<1>8. /\ Padded(wide, clear) /\ Len(clear.main) = Len(wide.main)
      /\ \A i \in DOMAIN wide.main :
            clear.main[i].ink = Fitting(wide, x, i)
  BY <1>7, PaddingClearedType
<1> HIDE DEF clear
<1>9. Padded(c, clear)
  BY <1>1, <1>6, <1>8, PaddedTwice
<1>10. y <= Len(clear.main)
  BY <1>2, <1>6, <1>8
<1>11. DOMAIN clear.main = DOMAIN wide.main /\ \A i \in DOMAIN clear.main : i \in Nat \ {0}
  <2>1. clear.main \in Seq(Line) /\ wide.main \in Seq(Line)
    BY <1>7, <1>8 DEF Padded, Cons
  <2> QED
    BY <1>8, <2>1, SeqLines
<1>12. \A i \in DOMAIN clear.main : i <= c.size_y => i \in DOMAIN c.main
  BY <1>1, <1>11
<1>13. \A i \in DOMAIN clear.main :
           clear.main[i].ink = Fitting(c, x, i)
  BY <1>6, <1>7, <1>8, <1>11, <1>12 DEF SameRows, Fitting
<1> QED
  BY <1>3, <1>9, <1>10, <1>13

\* c becomes d: the last num lines of the scrollback are its first rows.
Refilled(c, num, d) ==
    /\ Len(d.sb) = Len(c.sb) - num /\ \A i \in 1..(Len(c.sb) - num) : d.sb[i] = c.sb[i]
    /\ \A i \in 1..num : d.main[i].ink = c.sb[Len(c.sb) - num + i].ink
    /\ \A i \in 1..(Len(c.main) - num) : d.main[num + i].ink = c.main[i].ink

Taking(c, num, d) ==
    /\ Refilled(c, num, d)
    /\ d \in Cons /\ Len(d.main) = Len(c.main) /\ d.alt = c.alt
    /\ d.size_y = c.size_y /\ d.cursor_y = c.cursor_y
    /\ d.flags = c.flags /\ d.sb_max = c.sb_max
    /\ Viewed(c) => Viewed(d)

LEMMA PulledTaking ==
    ASSUME NEW c \in Cons, NEW num \in Nat, num <= Len(c.sb), num <= Len(c.main)
    PROVE  Taking(c, num, Pulled(c, num, {"sb_pos"}))
<1> DEFINE keep == Len(c.sb) - num
           last == Len(c.main) - num
           freed == SubSeq(c.main, last + 1, Len(c.main))
           back == [i \in 1..num |-> Parted(c.sb[keep + i], {"sb_pos"})]
           rest == SubSeq(c.main, 1, last)
           m == back \o rest
           s == SubSeq(c.sb, 1, keep)
           dang == c.dangling \cup PointersTo(freed)
           d == [c EXCEPT !.dangling = dang, !.main = m, !.sb = s]
<1>1. /\ c.main \in Seq(Line) /\ c.sb \in Seq(Line)
      /\ Len(c.main) \in Nat /\ Len(c.sb) \in Nat
      /\ DOMAIN c.main = 1..Len(c.main) /\ DOMAIN c.sb = 1..Len(c.sb)
      /\ \A i \in 1..Len(c.sb) : c.sb[i] \in Line
  BY SeqLines DEF Cons
<1>2. Pulled(c, num, {"sb_pos"}) = d
  BY DEF Pulled, Cons
<1>3. keep \in 0..Len(c.sb) /\ last \in 0..Len(c.main) /\ last + num = Len(c.main)
      /\ last \in Nat /\ Len(c.main) - last = num
  <2> DEFINE l == Len(c.sb)
             n == Len(c.main)
  <2>1. l \in Nat /\ n \in Nat /\ num <= l /\ num <= n
    BY <1>1
  <2> HIDE DEF l, n
  <2>2. l - num \in 0..l
    BY <2>1
  <2>3. /\ n - num \in 0..n /\ n - num \in Nat
        /\ (n - num) + num = n /\ n - (n - num) = num
    BY <2>1
  <2> QED
    BY <2>2, <2>3 DEF l, n
<1>4. \A i \in 1..num : keep + i \in 1..Len(c.sb)
  <2> DEFINE l == Len(c.sb)
  <2>1. l \in Nat /\ num <= l
    BY <1>1
  <2> HIDE DEF l
  <2>2. \A i \in 1..num : (l - num) + i \in 1..l
    BY <2>1
  <2> QED
    BY <2>2 DEF l
<1> HIDE DEF keep, last
<1>5. /\ freed \in Seq(Line) /\ DOMAIN freed = 1..(Len(c.main) - last)
      /\ \A i \in 1..(Len(c.main) - last) : freed[i] = c.main[i + last]
      /\ rest \in Seq(Line) /\ Len(rest) = last /\ DOMAIN rest = 1..last
      /\ \A i \in 1..last : rest[i] = c.main[i]
  BY <1>1, <1>3, CutType
<1>6. /\ s \in Seq(Line) /\ Len(s) = keep /\ DOMAIN s = 1..keep
      /\ \A i \in 1..keep : s[i] = c.sb[i]
  BY <1>1, <1>3, CutType
<1>7. \A i \in 1..num : /\ Parted(c.sb[keep + i], {"sb_pos"}) \in Line
                        /\ "sb_pos" \notin Parted(c.sb[keep + i], {"sb_pos"}).ptr
                        /\ Parted(c.sb[keep + i], {"sb_pos"}).ink = c.sb[keep + i].ink
  BY <1>1, <1>4, PartedType
<1>8. /\ back \in Seq(Line) /\ Len(back) = num
      /\ \A i \in 1..num : "sb_pos" \notin back[i].ptr /\ back[i].ink = c.sb[keep + i].ink
  <2>1. /\ back \in [1..num -> Line]
        /\ \A i \in 1..num : "sb_pos" \notin back[i].ptr /\ back[i].ink = c.sb[keep + i].ink
    BY <1>7
  <2> HIDE DEF back
  <2> QED
    BY <2>1, LinesSeq
<1> HIDE DEF freed, rest, s, back
<1>9. /\ m \in Seq(Line) /\ Len(m) = num + last
      /\ \A i \in 1..(num + last) : m[i] = IF i <= num THEN back[i] ELSE rest[i - num]
  <2>1. /\ m \in Seq(Line) /\ Len(m) = Len(back) + Len(rest)
        /\ \A i \in 1..(Len(back) + Len(rest)) :
              m[i] = IF i <= Len(back) THEN back[i] ELSE rest[i - Len(back)]
    <3>1. back \in Seq(Line) /\ rest \in Seq(Line)
      BY <1>5, <1>8
    <3> QED
      BY <3>1, ConcatProperties
  <2>2. Len(back) = num /\ Len(rest) = last
    BY <1>5, <1>8
  <2> HIDE DEF m
  <2> QED
    BY <2>1, <2>2
<1>10. Len(m) = Len(c.main) /\ DOMAIN m = 1..(num + last)
  BY <1>3, <1>9, SeqLines
<1>11. dang \subseteq Pointer
  BY <1>5, PointersType DEF Cons
<1>12. ASSUME Unmarked(c.main, "sb_pos") PROVE Unmarked(m, "sb_pos") /\ Unmarked(freed, "sb_pos")
  <2>1. Unmarked(freed, "sb_pos")
    <3>1. ASSUME NEW i \in DOMAIN freed PROVE freed[i] = c.main[i + last] /\ i + last \in DOMAIN c.main
      <4>1. i \in 1..num
        BY <1>3, <1>5
      <4>2. freed[i] = c.main[i + last]
        BY <1>3, <1>5, <4>1
      <4>3. i + last \in 1..Len(c.main)
        BY <1>3, <4>1
      <4> QED
        BY <1>1, <4>2, <4>3
    <3> QED
      BY <1>12, <3>1 DEF Unmarked
  <2>2. ASSUME NEW i \in DOMAIN m PROVE "sb_pos" \notin m[i].ptr
    <3>1. CASE i <= num
      BY <1>8, <1>9, <1>10, <3>1
    <3>2. CASE ~(i <= num)
      <4>0. i \in 1..(num + last) /\ i \in Nat
        BY <1>3, <1>10
      <4>1. m[i] = rest[i - num] /\ i - num \in 1..last
        BY <1>3, <1>9, <3>2, <4>0
      <4>2. m[i] = c.main[i - num] /\ i - num \in DOMAIN c.main
        <5>1. \A j \in 1..last : rest[j] = c.main[j] /\ j \in 1..Len(c.main)
          BY <1>1, <1>3, <1>5
        <5> QED
          BY <1>1, <4>1, <5>1
      <4> QED
        BY <1>12, <4>2 DEF Unmarked
    <3> QED
      BY <3>1, <3>2
  <2> QED
    BY <2>1, <2>2 DEF Unmarked
<1> HIDE DEF m
<1>13. Sole(c.sb, "sb_pos") => Sole(s, "sb_pos")
  <2>1. \A i \in DOMAIN s : s[i] = c.sb[i] /\ i \in DOMAIN c.sb
    BY <1>1, <1>3, <1>6
  <2> QED
    BY <2>1 DEF Sole
<1>14. "sb_pos" \notin c.dangling /\ Unmarked(freed, "sb_pos") => "sb_pos" \notin dang
  BY <1>5, PointersType
<1> HIDE DEF dang
<1>15. /\ d \in Cons /\ d.main = m /\ d.sb = s /\ d.dangling = dang /\ d.alt = c.alt
       /\ d.size_y = c.size_y /\ d.cursor_y = c.cursor_y
       /\ d.flags = c.flags /\ d.sb_max = c.sb_max
  BY <1>6, <1>9, <1>11 DEF Cons
<1> HIDE DEF d
<1>16. Len(c.sb) <= c.sb_max => Len(d.sb) <= d.sb_max
  <2>1. c.sb_max \in Nat /\ Len(d.sb) = keep /\ keep <= Len(c.sb) /\ keep \in Nat
    BY <1>1, <1>3, <1>6, <1>15 DEF Cons
  <2> QED
    BY <1>1, <1>15, <2>1
<1>17. Viewed(c) => Viewed(d)
  BY <1>12, <1>13, <1>14, <1>15, <1>16 DEF Viewed
<1>18. Refilled(c, num, d)
  <2>1. Len(d.sb) = Len(c.sb) - num /\ \A i \in 1..(Len(c.sb) - num) : d.sb[i] = c.sb[i]
    BY <1>6, <1>15 DEF keep
  <2>2. ASSUME NEW i \in 1..num PROVE d.main[i].ink = c.sb[Len(c.sb) - num + i].ink
    <3>1. i \in 1..(num + last) /\ i <= num
      BY <1>3
    <3>2. m[i] = back[i]
      BY <1>9, <3>1
    <3> QED
      BY <1>8, <1>15, <3>2 DEF keep
  <2>3. ASSUME NEW i \in 1..(Len(c.main) - num) PROVE d.main[num + i].ink = c.main[i].ink
    <3>1. i \in 1..last
      BY DEF last
    <3>2. num + i \in 1..(num + last) /\ ~(num + i <= num) /\ num + i - num = i
      BY <1>3, <3>1
    <3>3. m[num + i] = rest[i]
      BY <1>9, <3>2
    <3> QED
      BY <1>5, <1>15, <3>1, <3>3
  <2> QED
    BY <2>1, <2>2, <2>3 DEF Refilled
<1>19. Taking(c, num, d)
  BY <1>10, <1>15, <1>17, <1>18 DEF Taking
<1> QED
  BY <1>2, <1>19

\* The rows of the screen that a resize needs, and what it does to them on the way.
Fits(c) ==
    c \in Cons /\ Len(c.main) = Len(c.alt) /\ c.size_y <= Len(c.main) /\ c.cursor_y < c.size_y

Shaped(c, d) ==
    /\ d \in Cons /\ Len(d.main) = Len(c.main) /\ Len(d.alt) = Len(c.alt)
    /\ d.size_y <= c.size_y /\ d.flags = c.flags /\ d.sb_max = c.sb_max
    /\ Viewed(c) => Viewed(d)

\* How many rows a lower screen just drops, and how many lines come back.
Dropped(c, y) ==
    Lesser(EmptyBelow(c, Greater(y, c.size_y)),
           Lesser(Greater(0, c.size_y - y), Greater(0, c.size_y - 1 - c.cursor_y)))
Back(c, y) == Lesser(EmptyBelow(c, Greater(y, c.size_y)) - Dropped(c, y), Len(c.sb))

Used(c, y, d) ==
    /\ Refilled(c, Back(c, y), d)
    /\ d.size_y = c.size_y - Dropped(c, y) /\ d.cursor_y = c.cursor_y + Back(c, y)

LEMMA EmptyLinesUsedShaped ==
    ASSUME NEW c, Fits(c), NEW y \in Nat \ {0}, y <= Len(c.main)
    PROVE  /\ Shaped(c, EmptyLinesUsed(c, y))
           /\ "ALTERNATE" \notin c.flags => Used(c, y, EmptyLinesUsed(c, y))
           /\ Dropped(c, y) \in Nat /\ Back(c, y) \in Nat
           /\ Back(c, y) <= Len(c.sb) /\ Back(c, y) <= Len(c.main)
<1> DEFINE n == Greater(y, c.size_y)
           empty == EmptyBelow(c, n)
           dropped == Lesser(empty, Lesser(Greater(0, c.size_y - y),
                                           Greater(0, c.size_y - 1 - c.cursor_y)))
           num == Lesser(empty - dropped, Len(c.sb))
           size == c.size_y - dropped
           low == [c EXCEPT !.size_y = size]
           p == Pulled(low, num, {"sb_pos"})
           row == p.cursor_y + num
           d == [p EXCEPT !.cursor_y = row]
<1>1. /\ c \in Cons /\ c.size_y \in Nat \ {0} /\ c.cursor_y \in Nat /\ c.cursor_y < c.size_y
      /\ Len(c.main) \in Nat /\ Len(c.sb) \in Nat /\ c.size_y <= Len(c.main)
  <2>1. c \in Cons /\ c.main \in Seq(Line) /\ c.sb \in Seq(Line)
    BY DEF Fits, Cons
  <2> QED
    BY <2>1, SeqLines DEF Fits, Cons
<1>2. EmptyLinesUsed(c, y) = IF Active(c) = "alt" THEN c ELSE d
  BY DEF EmptyLinesUsed, TakenBack
<1>3. dropped = Dropped(c, y) /\ num = Back(c, y)
  BY DEF Dropped, Back
<1>4. n \in Nat /\ n <= Len(c.main)
  BY <1>1 DEF Greater
<1> HIDE DEF n
<1>5. empty \in Nat /\ empty <= Len(c.main)
  <2>1. empty \in 0..n
    BY <1>4, LastInkedType
  <2> HIDE DEF empty
  <2> QED
    BY <1>1, <1>4, <2>1
<1> HIDE DEF empty
<1>6. dropped \in Nat /\ dropped <= empty /\ dropped < c.size_y
  <2> DEFINE spare == Greater(0, c.size_y - y)
             below == Greater(0, c.size_y - 1 - c.cursor_y)
  <2>1. spare \in Nat /\ below \in Nat
    BY <1>1 DEF Greater
  <2>2. below < c.size_y
    BY <1>1 DEF Greater
  <2> DEFINE room == Lesser(spare, below)
  <2>3. dropped = Lesser(empty, room)
    OBVIOUS
  <2> HIDE DEF spare, below, dropped
  <2>4. room \in Nat /\ room <= below
    BY <2>1 DEF Lesser
  <2> HIDE DEF room
  <2>5. dropped \in Nat /\ dropped <= empty /\ dropped <= room
    BY <1>5, <2>3, <2>4 DEF Lesser
  <2> QED
    BY <1>1, <1>5, <2>1, <2>2, <2>4, <2>5
<1> HIDE DEF dropped
<1>7. /\ num \in Nat /\ num <= Len(c.main) /\ num <= Len(c.sb)
      /\ size \in Nat \ {0} /\ size <= c.size_y
  BY <1>1, <1>5, <1>6 DEF Lesser
<1> HIDE DEF num, size
<1>8. /\ low \in Cons /\ low.main = c.main /\ low.alt = c.alt /\ low.sb = c.sb
      /\ low.size_y = size /\ low.flags = c.flags /\ low.sb_max = c.sb_max
      /\ low.dangling = c.dangling /\ low.cursor_y = c.cursor_y
  BY <1>1, <1>7 DEF Cons
<1> HIDE DEF low
<1>9. Taking(low, num, p)
  BY <1>7, <1>8, PulledTaking
<1> HIDE DEF p
<1>10. p \in Cons /\ p.cursor_y = c.cursor_y
  BY <1>8, <1>9 DEF Taking
<1>11. row \in Nat
  BY <1>1, <1>7, <1>10
<1> HIDE DEF row
<1>12. /\ d \in Cons /\ d.main = p.main /\ d.alt = p.alt /\ d.sb = p.sb
       /\ d.size_y = p.size_y /\ d.flags = p.flags /\ d.sb_max = p.sb_max
       /\ d.dangling = p.dangling /\ d.cursor_y = row
  BY <1>10, <1>11 DEF Cons
<1> HIDE DEF d
<1>13. Viewed(c) => Viewed(d)
  BY <1>8, <1>9, <1>12 DEF Taking, Viewed
<1>14. Shaped(c, d)
  BY <1>7, <1>8, <1>9, <1>12, <1>13 DEF Taking, Shaped
<1>15. Shaped(c, c)
  BY <1>1 DEF Shaped
<1>16. Used(c, y, d)
  <2>1. Refilled(c, num, d)
    BY <1>8, <1>9, <1>12 DEF Taking, Refilled
  <2>2. d.size_y = c.size_y - dropped /\ d.cursor_y = c.cursor_y + num
    BY <1>8, <1>9, <1>10, <1>12 DEF Taking, size, row
  <2> QED
    BY <1>3, <2>1, <2>2 DEF Used
<1>17. "ALTERNATE" \notin c.flags => Active(c) # "alt"
  BY DEF Active
<1> QED
  BY <1>3, <1>2, <1>6, <1>7, <1>14, <1>15, <1>16, <1>17

\* tsm_screen_resize up to its last rows, in two parts.
Ready(c, x) ==
    [c EXCEPT !.margin_top = 0, !.margin_bottom = c.size_y - 1,
              !.size_x = x, !.cursor_x = Lesser(@, x - 1)]

LEMMA ReadySound ==
    ASSUME NEW c \in Cons, Len(c.main) = Len(c.alt), c.size_y <= Len(c.main),
           NEW x \in Nat \ {0}
    PROVE  /\ Sound(Ready(c, x)) /\ Ready(c, x).main = c.main /\ Ready(c, x).alt = c.alt
           /\ Ready(c, x).size_x = x /\ Ready(c, x).size_y = c.size_y
           /\ Ready(c, x).margin_top = 0 /\ Ready(c, x).margin_bottom = c.size_y - 1
           /\ Ready(c, x).cursor_x < x /\ Ready(c, x).cursor_y = c.cursor_y
           /\ Ready(c, x).flags = c.flags
           /\ Ready(c, x).sb = c.sb /\ Ready(c, x).sb_max = c.sb_max
           /\ Viewed(c) => Viewed(Ready(c, x))
<1> DEFINE bottom == c.size_y - 1
           col == Lesser(c.cursor_x, x - 1)
           d == [c EXCEPT !.margin_top = 0, !.margin_bottom = bottom,
                          !.size_x = x, !.cursor_x = col]
<1>1. bottom \in Nat /\ bottom < c.size_y /\ 0 <= bottom /\ col \in Nat /\ col < x
  BY DEF Cons, Lesser
<1>2. Ready(c, x) = d
  BY DEF Ready, Cons
<1> HIDE DEF bottom, col
<1>3. /\ d \in Cons /\ d.main = c.main /\ d.alt = c.alt /\ d.sb = c.sb /\ d.sb_max = c.sb_max
      /\ d.margin_top = 0 /\ d.margin_bottom = bottom
      /\ d.size_x = x /\ d.size_y = c.size_y /\ d.cursor_x = col
      /\ d.cursor_y = c.cursor_y
      /\ d.flags = c.flags /\ d.dangling = c.dangling
  BY <1>1 DEF Cons
<1> HIDE DEF d
<1>4. Sound(d)
  BY <1>1, <1>3 DEF Sound
<1>5. Viewed(c) => Viewed(d)
  BY <1>3 DEF Viewed
<1> QED
  BY <1>1, <1>2, <1>3, <1>4, <1>5 DEF bottom

LEMMA LoweredType ==
    ASSUME NEW c, Sound(c), NEW y \in Nat \ {0}, NEW failed
    PROVE  /\ Lowered(c, y, failed) \in Cons
           /\ Len(Lowered(c, y, failed).main) = Len(c.main)
           /\ Len(Lowered(c, y, failed).alt) = Len(c.alt)
           /\ Lowered(c, y, failed).size_x = c.size_x
           /\ Lowered(c, y, failed).margin_top = c.margin_top
           /\ Lowered(c, y, failed).cursor_x = c.cursor_x
           /\ Lowered(c, y, failed).flags = c.flags
           /\ Lowered(c, y, failed).sb_max = c.sb_max
           /\ Viewed(c) => Viewed(Lowered(c, y, failed))
           /\ c.size_y <= y => Lowered(c, y, failed) = c
           /\ c.size_y > y =>
                 /\ Lowered(c, y, failed).main = ScrollUp(c, c.size_y - y, failed).main
                 /\ Lowered(c, y, failed).sb = ScrollUp(c, c.size_y - y, failed).sb
                 /\ Lowered(c, y, failed).cursor_y =
                       IF c.cursor_y > c.size_y - y THEN c.cursor_y - (c.size_y - y) ELSE 0
<1> DEFINE diff == c.size_y - y
           up == ScrollUp(c, diff, failed)
           row == IF up.cursor_y > diff THEN up.cursor_y - diff ELSE 0
           d == [up EXCEPT !.cursor_y = row]
<1>1. c \in Cons /\ c.size_y \in Nat
  BY DEF Sound, Cons
<1>2. Lowered(c, y, failed) = IF diff <= 0 THEN c ELSE d
  BY DEF Lowered
<1>3. diff \in Int /\ (c.size_y <= y <=> diff <= 0) /\ (c.size_y > y <=> ~(diff <= 0))
  BY <1>1
<1>4. up = ScrollUp(c, c.size_y - y, failed) /\ diff = c.size_y - y
  OBVIOUS
<1> HIDE DEF diff
<1>5. CASE diff <= 0
  BY <1>1, <1>2, <1>3, <1>5
<1>6. CASE ~(diff <= 0)
  <2>1. diff \in Nat
    BY <1>3, <1>6
  <2>2. Scrolls(c, up)
    BY <2>1, ScrollUpScrolls
  <2> HIDE DEF up
  <2>3. up \in Cons /\ Same(c, up) /\ (Viewed(c) => Viewed(up))
    BY <2>2 DEF Scrolls, Moves, Kept
  <2>4. row \in Nat /\ row = IF c.cursor_y > diff THEN c.cursor_y - diff ELSE 0
    BY <2>1, <2>3 DEF Cons, Same
  <2> HIDE DEF row
  <2>5. /\ d \in Cons /\ d.main = up.main /\ d.alt = up.alt /\ d.sb = up.sb
        /\ d.sb_max = up.sb_max /\ d.dangling = up.dangling
        /\ d.size_x = up.size_x /\ d.margin_top = up.margin_top
        /\ d.cursor_x = up.cursor_x /\ d.cursor_y = row /\ d.flags = up.flags
    BY <2>3, <2>4 DEF Cons
  <2> HIDE DEF d
  <2>6. Viewed(up) => Viewed(d)
    BY <2>5 DEF Viewed
  <2>7. Lowered(c, y, failed) = d
    BY <1>2, <1>6
  <2>8. ~(c.size_y <= y)
    BY <1>3, <1>6
  <2>9. /\ d.main = ScrollUp(c, c.size_y - y, failed).main
        /\ d.sb = ScrollUp(c, c.size_y - y, failed).sb
        /\ d.cursor_y = IF c.cursor_y > c.size_y - y THEN c.cursor_y - (c.size_y - y) ELSE 0
    BY <1>4, <2>4, <2>5
  <2> QED
    BY <2>3, <2>5, <2>6, <2>7, <2>8, <2>9 DEF Same
<1> QED
  BY <1>5, <1>6

\* tsm_screen_resize up to its last rows.
Halfway(c, x, y) == Ready(EmptyLinesUsed(Enlarged(c, x, y), y), x)

LEMMA HalfwayType ==
    ASSUME NEW c, Sound(c), Placed(c), NEW x \in Nat \ {0}, NEW y \in Nat \ {0}
    PROVE  /\ Sound(Halfway(c, x, y)) /\ y <= Len(Halfway(c, x, y).main)
           /\ Halfway(c, x, y).size_x = x
           /\ Halfway(c, x, y).margin_top = 0
           /\ Halfway(c, x, y).margin_bottom = Halfway(c, x, y).size_y - 1
           /\ Halfway(c, x, y).cursor_x < x /\ Halfway(c, x, y).flags = c.flags
           /\ Halfway(c, x, y).sb_max = c.sb_max
           /\ Viewed(c) => Viewed(Halfway(c, x, y))
           /\ Fits(Enlarged(c, x, y)) /\ y <= Len(Enlarged(c, x, y).main)
           /\ Len(Halfway(c, x, y).main) = Len(Enlarged(c, x, y).main)
           /\ "ALTERNATE" \notin c.flags => Used(Enlarged(c, x, y), y, Halfway(c, x, y))
<1> DEFINE clear == Enlarged(c, x, y)
           taken == EmptyLinesUsed(clear, y)
           ready == Ready(taken, x)
<1>1. /\ c \in Cons /\ c.size_y \in Nat /\ c.size_y <= Len(c.main) /\ c.cursor_y < c.size_y
      /\ Len(c.main) \in Nat
  BY RowsOf DEF Sound, Placed, Cons
<1>2. Padded(c, clear) /\ y <= Len(clear.main)
  BY EnlargedType
<1> HIDE DEF clear
<1>3. /\ clear \in Cons /\ Len(clear.main) = Len(clear.alt) /\ clear.size_y = c.size_y
      /\ clear.cursor_y = c.cursor_y /\ clear.flags = c.flags
      /\ clear.sb_max = c.sb_max
      /\ Viewed(c) => Viewed(clear)
  BY <1>2 DEF Padded, Viewed
<1>4. Fits(clear) /\ y <= Len(clear.main)
  <2>1. Len(c.main) <= Len(clear.main) /\ clear.main \in Seq(Line)
    BY <1>2, <1>3 DEF Padded, Cons
  <2>2. Len(clear.main) \in Nat
    BY <2>1, SeqLines
  <2>3. c.size_y <= Len(clear.main)
    BY <1>1, <2>1, <2>2
  <2> QED
    BY <1>1, <1>2, <1>3, <2>3 DEF Fits
<1>5. Shaped(clear, taken)
  BY <1>4, EmptyLinesUsedShaped
<1>6. "ALTERNATE" \notin clear.flags => Used(clear, y, taken)
  BY <1>4, EmptyLinesUsedShaped
<1> HIDE DEF taken
<1>7. /\ taken \in Cons /\ Len(taken.main) = Len(taken.alt) /\ taken.size_y <= Len(taken.main)
      /\ y <= Len(taken.main) /\ taken.flags = c.flags
      /\ Viewed(c) => Viewed(taken)
  <2>1. taken \in Cons /\ Len(taken.main) = Len(clear.main) /\ taken.size_y <= c.size_y
    BY <1>3, <1>5 DEF Shaped
  <2>2. taken.size_y \in Nat
    BY <2>1 DEF Cons
  <2>3. taken.size_y <= Len(taken.main)
    <3>1. c.size_y <= Len(clear.main) /\ Len(clear.main) \in Nat
      BY <1>3, <1>4, SeqLines DEF Fits, Cons
    <3> QED
      BY <1>1, <2>1, <2>2, <3>1
  <2> QED
    BY <1>3, <1>4, <1>5, <2>1, <2>3 DEF Shaped
<1>8. /\ Sound(ready) /\ ready.main = taken.main /\ ready.alt = taken.alt
      /\ ready.size_x = x /\ ready.margin_top = 0 /\ ready.cursor_x < x
      /\ ready.flags = c.flags /\ (Viewed(c) => Viewed(ready))
      /\ ready.margin_bottom = taken.size_y - 1
      /\ ready.size_y = taken.size_y /\ ready.cursor_y = taken.cursor_y
      /\ ready.sb = taken.sb /\ ready.sb_max = taken.sb_max
  BY <1>7, ReadySound
<1>9. Halfway(c, x, y) = ready
  BY DEF Halfway, clear, taken
<1> HIDE DEF ready
<1>10. "ALTERNATE" \notin c.flags => Used(clear, y, ready)
  BY <1>3, <1>6, <1>8 DEF Used, Refilled
<1>11. Len(ready.main) = Len(clear.main) /\ ready.sb_max = c.sb_max
  BY <1>3, <1>5, <1>8 DEF Shaped
<1> QED
  BY <1>4, <1>7, <1>8, <1>9, <1>10, <1>11 DEF clear

LEMMA ResizedCall ==
    ASSUME NEW c, Sound(c), Placed(c), NEW x \in Nat \ {0}, NEW y \in Nat \ {0}, NEW failed
    PROVE  /\ Stays(c, Resized(c, x, y, failed))
           /\ Resized(c, x, y, failed).flags = c.flags
           /\ Resized(c, x, y, failed).size_x = x /\ Resized(c, x, y, failed).size_y = y
           /\ LET low == Lowered(Halfway(c, x, y), y, failed)
                  d == Resized(c, x, y, failed)
              IN  /\ d.main = low.main /\ d.sb = low.sb /\ d.sb_max = low.sb_max
                  /\ d.cursor_y = Lesser(low.cursor_y, y - 1)
<1> DEFINE ready == Halfway(c, x, y)
           low == Lowered(ready, y, failed)
           row == Lesser(low.cursor_y, y - 1)
           bottom == y - 1
           d == [low EXCEPT !.size_y = y, !.cursor_y = row, !.margin_bottom = bottom]
<1>1. /\ c \in Cons /\ Len(c.main) = Len(c.alt) /\ Len(c.main) \in Nat
      /\ c.size_y \in Nat /\ c.size_y <= Len(c.main) /\ c.cursor_y < c.size_y
      /\ c.size_x \in Nat /\ c.cursor_y \in Nat
  BY RowsOf DEF Sound, Placed, Cons
<1>2. Resized(c, x, y, failed) =
          [[low EXCEPT !.size_y = y, !.cursor_y = Lesser(@, y - 1)] EXCEPT !.margin_bottom = y - 1]
  BY DEF Resized, Fitted, Halfway, Ready, Enlarged
<1>3. y <= Len(ready.main)
  BY HalfwayType
<1>4. /\ Sound(ready) /\ ready.size_x = x /\ ready.margin_top = 0 /\ ready.cursor_x < x
      /\ ready.flags = c.flags /\ (Viewed(c) => Viewed(ready))
  BY HalfwayType
<1> HIDE DEF ready
<1>5. /\ low \in Cons /\ Len(low.main) = Len(ready.main) /\ Len(low.alt) = Len(ready.alt)
      /\ low.size_x = x /\ low.margin_top = 0 /\ low.cursor_x < x
      /\ low.flags = c.flags /\ (Viewed(c) => Viewed(low))
  BY <1>4, LoweredType
<1> HIDE DEF low
<1>6. Resized(c, x, y, failed) = d
  BY <1>2, <1>5 DEF Cons
<1>7. row \in Nat /\ row < y /\ bottom \in Nat /\ bottom < y /\ 0 <= bottom
  BY <1>5 DEF Lesser, Cons
<1>8. row = Lesser(low.cursor_y, y - 1) /\ low = Lowered(Halfway(c, x, y), y, failed)
  BY DEF low, ready
<1> HIDE DEF row, bottom
<1>9. /\ d \in Cons /\ d.main = low.main /\ d.alt = low.alt /\ d.sb = low.sb
      /\ d.sb_max = low.sb_max /\ d.dangling = low.dangling
      /\ d.size_x = x /\ d.size_y = y /\ d.margin_top = 0 /\ d.margin_bottom = bottom
      /\ d.cursor_x = low.cursor_x /\ d.cursor_y = row /\ d.flags = c.flags
  BY <1>5, <1>7 DEF Cons
<1> HIDE DEF d
<1>10. Sound(d)
  BY <1>3, <1>4, <1>5, <1>7, <1>9 DEF Sound
<1>11. Placed(d)
  <2>1. d.cursor_x \in Nat /\ d.cursor_x < x
    BY <1>5, <1>9 DEF Cons
  <2> QED
    BY <1>7, <1>9, <2>1 DEF Placed
<1>12. Viewed(c) => Viewed(d)
  BY <1>5, <1>9 DEF Viewed
<1> QED
  BY <1>6, <1>9, <1>10, <1>11, <1>12, <1>8 DEF Stays

-----------------------------------------------------------------------------
(* The text of a screen, line by line. *)

LEMMA Joined ==
    ASSUME NEW s \in Seq(Line), NEW t \in Seq(Line)
    PROVE  /\ s \o t \in Seq(Line) /\ Len(s \o t) = Len(s) + Len(t)
           /\ \A j \in 1..(Len(s) + Len(t)) :
                 (s \o t)[j] = IF j <= Len(s) THEN s[j] ELSE t[j - Len(s)]
BY ConcatProperties

\* The text of line i of the scrollback followed by the rows of the main screen.
LineText(c, i) == IF i <= Len(c.sb) THEN c.sb[i].ink ELSE c.main[i - Len(c.sb)].ink

LEMMA FirstRowsUp ==
    ASSUME NEW s \in Seq(Line), NEW max \in Nat, NEW num \in 0..max,
           max <= Len(s), NEW cache, \A i \in 1..num : cache[i] \in Line
    PROVE  /\ ShiftedUp(s, 0, max, num, cache) \in Seq(Line)
           /\ Len(ShiftedUp(s, 0, max, num, cache)) = Len(s)
           /\ \A i \in 1..Len(s) :
                 i <= max - num => ShiftedUp(s, 0, max, num, cache)[i] = s[i + num]
<1> DEFINE top == 0
           t == ShiftedUp(s, top, max, num, cache)
<1>1. top \in Nat /\ top + max <= Len(s) /\ Len(s) \in Nat
  BY SeqLines
<1>2. top = 0
  OBVIOUS
<1> HIDE DEF top
<1>3. t \in Seq(Line) /\ Len(t) = Len(s)
  BY <1>1, ShiftedUpType
<1>4. \A i \in 1..Len(s) : top < i /\ i <= top + max - num => t[i] = s[i + num]
  <2>1. DOMAIN s = 1..Len(s)
    BY SeqLines
  <2> QED
    BY <2>1 DEF ShiftedUp
<1>5. t = ShiftedUp(s, 0, max, num, cache)
  BY <1>2
<1> HIDE DEF t
<1> QED
  BY <1>1, <1>2, <1>3, <1>4, <1>5

LEMMA LineNumbers ==
    ASSUME NEW l \in Nat, NEW num \in Nat, NEW max \in Nat, num <= max,
           NEW lost \in 0..(l + num), NEW i \in 1..(l + max - lost), NEW k, k = l + num - lost
    PROVE  /\ i <= k => /\ i \in 1..k /\ i + lost \in 1..(l + num)
                        /\ ~(i + lost <= l) => i + lost - l \in 1..num
           /\ ~(i <= k) => /\ i - k \in 1..(max - num) /\ i - k + num = i + lost - l
                           /\ ~(i + lost <= l)
OBVIOUS

LEMMA SelectionUpInk ==
    ASSUME NEW c \in Cons, NEW e \in Ends, NEW num \in Nat
    PROVE  /\ SameInk(c.main, SelectionUp(c, e, num).main)
           /\ SameInk(c.sb, SelectionUp(c, e, num).sb)
<1> DEFINE y == c.y[e] - num
           t == ToSb(c, e, Greater(0, Len(c.sb) + 1 + y))
           Kin(d) == d \in Cons /\ SameInk(c.main, d.main) /\ SameInk(c.sb, d.sb)
<1>1. e \in Pointer
  BY DEF Pointer
<1>2. Kin(c) /\ Kin(t)
  BY <1>1, ToSbType DEF Pointing, SameInk
<1>3. SelectionUp(c, e, num) = IF ~c.sel_active \/ ~IsNull(c, e) \/ c.y[e] < 0 THEN c
                               ELSE IF y >= 0 THEN [c EXCEPT !.y[e] = y]
                               ELSE [t EXCEPT !.y[e] = SelectionTop]
  BY DEF SelectionUp
<1> HIDE DEF t, y
<1>4. \A d, v : Kin(d) => [d EXCEPT !.y[e] = v].main = d.main /\ [d EXCEPT !.y[e] = v].sb = d.sb
  BY DEF Cons
<1> QED
  BY <1>2, <1>3, <1>4

\* c becomes d: num of its first max rows go to the scrollback, whose oldest lines are
\* lost when it is full.
Scrolled(c, d, num, max, lost) ==
    /\ lost \in 0..(Len(c.sb) + num)
    /\ lost > 0 => Len(d.sb) = c.sb_max
    /\ Len(d.sb) = Len(c.sb) + num - lost
    /\ \A i \in 1..(Len(c.sb) + max - lost) : LineText(d, i) = LineText(c, i + lost)

\* The rows below the first num of the first max have the text they had, num rows higher.
RowsUp(c, d, num, max) == \A i \in 1..(max - num) : d.main[i].ink = c.main[i + num].ink

\* screen_scroll_up of the first rows of the main screen: the rows below move up, and
\* with memory for all of them the document stays as it is, but for its oldest lines.
LEMMA ScrollUpText ==
    ASSUME NEW c, Sound(c), "ALTERNATE" \notin c.flags, c.margin_top = 0,
           NEW num \in Nat \ {0}, NEW max \in Nat, max = c.margin_bottom + 1, num <= max, NEW failed
    PROVE  LET d == ScrollUp(c, num, failed)
           IN  /\ RowsUp(c, d, num, max)
               /\ failed = {} => \E lost : Scrolled(c, d, num, max, lost)
<1> DEFINE n == Len(c.main)
           old == SubSeq(c.main, 1, num)
           cache == [i \in 1..num |-> IF i \in failed THEN Recycled(c, old[i])
                                     ELSE NewLine(c.size_x)]
           t == ShiftedUp(c.main, 0, max, num, cache)
           u == [c EXCEPT ![Active(c)] = t]
           pushed == Without(old, failed)
           linked == LinkToScrollback(u, pushed)
           first == SelectionUp(linked, "sel_start", num)
           d == SelectionUp(first, "sel_end", num)
<1>1. /\ c \in Cons /\ c.main \in Seq(Line) /\ c.sb \in Seq(Line) /\ n \in Nat
      /\ DOMAIN c.main = 1..n /\ Len(c.sb) \in Nat /\ c.sb_max \in Nat
      /\ c.size_x \in Nat \ {0} /\ max \in Nat /\ max <= n
      /\ Lines(c) = c.main /\ Active(c) = "main"
      /\ num \in Nat /\ num <= max /\ num \in 0..max /\ num \in 0..n
      /\ "sel_start" \in Ends /\ "sel_end" \in Ends
  <2>1. /\ c \in Cons /\ c.main \in Seq(Line) /\ c.sb \in Seq(Line) /\ n \in Nat
        /\ DOMAIN c.main = 1..n
    BY RowsOf DEF Sound
  <2>2. /\ Len(c.sb) \in Nat /\ c.sb_max \in Nat /\ c.size_x \in Nat \ {0}
        /\ c.margin_bottom \in Nat /\ c.size_y \in Nat
    BY <2>1, SeqLines DEF Cons
  <2>3. max \in Nat /\ max <= n
    BY <2>1, <2>2 DEF Sound
  <2> QED
    BY <2>1, <2>2, <2>3, LinesType DEF Ends
<1>2. ScrollUp(c, num, failed) = d
  <2>1. c.margin_bottom + 1 - c.margin_top = max /\ Lesser(num, max) = num
    BY <1>1 DEF Lesser
  <2>2. c.margin_top + 1 = 1 /\ c.margin_top + num = num
    BY <1>1
  <2>3. Reused(c, num, failed) = failed
    BY <1>1 DEF Reused
  <2>4. c[Active(c)] = c.main
    BY <1>1
  <2> QED
    BY <1>1, <2>1, <2>2, <2>3, <2>4 DEF ScrollUp
<1> HIDE DEF n
<1>3. /\ old \in Seq(Line) /\ Len(old) = num /\ DOMAIN old = 1..num
      /\ \A i \in 1..num : old[i] = c.main[i] /\ old[i] \in Line
  <2>1. num \in 0..Len(c.main)
    BY <1>1 DEF n
  <2> HIDE DEF old
  <2>2. LET cut == SubSeq(c.main, 1, num)
        IN  /\ cut \in Seq(Line) /\ Len(cut) = num /\ DOMAIN cut = 1..num
            /\ \A i \in 1..num : cut[i] = c.main[i]
    <3>1. c.main \in Seq(Line)
      BY <1>1
    <3> QED
      BY <2>1, <3>1, CutType
  <2>3. /\ old \in Seq(Line) /\ Len(old) = num /\ DOMAIN old = 1..num
        /\ \A i \in 1..num : old[i] = c.main[i]
    BY <2>2 DEF old
  <2> QED
    BY <2>3, SeqLines
<1> HIDE DEF old
<1>4. \A i \in 1..num : cache[i] \in Line
  BY <1>1, <1>3, RecycledType, NewLineType
<1> HIDE DEF cache
<1>5. /\ t \in Seq(Line) /\ Len(t) = n
      /\ \A i \in 1..n : i <= max - num => t[i] = c.main[i + num]
  <2>1. max <= Len(c.main)
    BY <1>1 DEF n
  <2>2. t \in Seq(Line) /\ Len(t) = Len(c.main)
    BY <1>1, <1>4, <2>1, FirstRowsUp
  <2>3. \A i \in 1..Len(c.main) : i <= max - num => t[i] = c.main[i + num]
    BY <1>1, <1>4, <2>1, FirstRowsUp
  <2> HIDE DEF t
  <2> QED
    BY <2>2, <2>3 DEF n
<1> HIDE DEF t
<1>6. /\ u \in Cons /\ Same(c, u) /\ u.main = t /\ u.sb = c.sb /\ u.sb_max = c.sb_max
  BY <1>1, <1>5, PuttingLines DEF PutLines, Same, n
<1> HIDE DEF u
<1>7. pushed \in Seq(Line) /\ (failed = {} => pushed = old)
  BY <1>3, WithoutType
<1> HIDE DEF pushed
<1>8. /\ linked \in Cons /\ Linked(u, pushed, linked) /\ SameInk(t, linked.main)
  <2>1. linked \in Cons /\ Linked(u, pushed, linked)
    BY <1>6, <1>7, LinkMoves
  <2> HIDE DEF linked
  <2>2. linked.main \in Seq(Line)
    BY <2>1 DEF Cons
  <2> QED
    BY <1>6, <2>1, <2>2, SeqLines DEF Linked, Alike, SameInk
<1> HIDE DEF linked
<1>9. SameInk(linked.main, d.main) /\ SameInk(linked.sb, d.sb)
  <2>1. first \in Cons
    BY <1>1, <1>8, SelectionUpScrolls DEF Scrolls, Moves
  <2>2. SameInk(linked.main, first.main) /\ SameInk(linked.sb, first.sb)
    BY <1>1, <1>8, SelectionUpInk
  <2> HIDE DEF first
  <2>3. SameInk(first.main, d.main) /\ SameInk(first.sb, d.sb)
    BY <1>1, <2>1, SelectionUpInk
  <2> QED
    BY <2>2, <2>3 DEF SameInk
<1> HIDE DEF d
<1>10. \A i \in 1..n : d.main[i].ink = t[i].ink
  BY <1>5, <1>8, <1>9 DEF SameInk
<1>11. \A i \in 1..(max - num) : d.main[i].ink = c.main[i + num].ink
  <2>1. ASSUME NEW i \in 1..(max - num) PROVE i \in 1..n /\ i <= max - num
    BY <1>1
  <2> QED
    BY <1>5, <1>10, <2>1
<1>12. ASSUME failed = {}
       PROVE  \E lost : Scrolled(c, d, num, max, lost)
  <2> DEFINE l == Len(c.sb)
             all == c.sb \o old
             lost == Evicted(u, Len(old))
  <2>1. /\ all \in Seq(Line) /\ Len(all) = l + num
        /\ \A i \in 1..(l + num) : all[i] = IF i <= l THEN c.sb[i] ELSE old[i - l]
    <3>1. Len(all) = Len(c.sb) + Len(old) /\ all \in Seq(Line)
      BY <1>1, <1>3, Joined
    <3>2. \A i \in 1..(Len(c.sb) + Len(old)) :
              all[i] = IF i <= Len(c.sb) THEN c.sb[i] ELSE old[i - Len(c.sb)]
      BY <1>1, <1>3, Joined
    <3> QED
      BY <1>3, <3>1, <3>2
  <2>2. lost = Greater(0, l + num - c.sb_max)
    BY <1>3, <1>6 DEF Evicted
  <2> HIDE DEF all, lost
  <2>3. /\ lost \in 0..(l + num) /\ lost \in Nat
        /\ lost > 0 => l + num - lost = c.sb_max
    BY <1>1, <2>2 DEF Greater
  <2>4. /\ Len(linked.sb) = l + num - lost
        /\ \A i \in DOMAIN linked.sb : linked.sb[i].ink = all[i + lost].ink
    <3>1. Linked(u, old, linked) /\ u.sb = c.sb
      BY <1>6, <1>7, <1>8, <1>12
    <3>2. /\ Len(linked.sb) = Len(u.sb \o old) - Evicted(u, Len(old))
          /\ \A i \in DOMAIN linked.sb :
                Alike(linked.sb[i], (u.sb \o old)[i + Evicted(u, Len(old))])
      BY <3>1 DEF Linked
    <3>3. u.sb \o old = all /\ Evicted(u, Len(old)) = lost
      BY <3>1 DEF all, lost
    <3>4. \A i \in DOMAIN linked.sb : linked.sb[i].ink = all[i + lost].ink
      BY <3>2, <3>3 DEF Alike
    <3>5. Len(linked.sb) = Len(all) - lost
      BY <3>2, <3>3
    <3>6. Len(all) = l + num
      BY <2>1
    <3>7. Len(linked.sb) = l + num - lost
      BY <1>1, <2>3, <3>5, <3>6
    <3> QED
      BY <3>4, <3>7
  <2>5. linked.sb \in Seq(Line) /\ DOMAIN linked.sb = 1..Len(linked.sb)
    BY <1>8, SeqLines DEF Cons
  <2>6. Len(d.sb) = l + num - lost /\ \A i \in 1..Len(d.sb) : d.sb[i].ink = all[i + lost].ink
    BY <1>9, <2>4, <2>5 DEF SameInk
  <2>7. ASSUME NEW i \in 1..(l + max - lost) PROVE LineText(d, i) = LineText(c, i + lost)
    <3>0. /\ i <= Len(d.sb) => /\ i \in 1..Len(d.sb) /\ i + lost \in 1..(l + num)
                               /\ ~(i + lost <= l) => i + lost - l \in 1..num
          /\ ~(i <= Len(d.sb)) => /\ i - Len(d.sb) \in 1..(max - num)
                                  /\ i - Len(d.sb) + num = i + lost - l
                                  /\ ~(i + lost <= l)
      <4>1. l \in Nat /\ num \in Nat /\ max \in Nat /\ num <= max
        BY <1>1
      <4> HIDE DEF l
      <4>2. lost \in 0..(l + num) /\ i \in 1..(l + max - lost)
        BY <2>3
      <4>3. Len(d.sb) = l + num - lost
        BY <2>6
      <4> QED
        BY <4>1, <4>2, <4>3, LineNumbers
    <3>1. CASE i <= Len(d.sb)
      <4>1. i \in 1..Len(d.sb) /\ i + lost \in 1..(l + num)
        BY <3>0, <3>1
      <4>2. LineText(d, i) = all[i + lost].ink
        BY <2>6, <3>1, <4>1 DEF LineText
      <4>3. CASE i + lost <= l
        BY <2>1, <4>1, <4>2, <4>3 DEF LineText
      <4>4. CASE ~(i + lost <= l)
        <5>1. i + lost - l \in 1..num
          BY <3>0, <3>1, <4>4
        <5>2. all[i + lost] = c.main[i + lost - l]
          <6> DEFINE k == i + lost
          <6>1. k \in 1..(l + num) /\ ~(k <= l)
            BY <4>1, <4>4
          <6> HIDE DEF k
          <6>2. all[k] = old[k - l]
            BY <2>1, <6>1
          <6>3. all[i + lost] = old[i + lost - l]
            BY <1>1, <2>3, <6>2 DEF k
          <6> DEFINE j == i + lost - l
          <6>4. j \in 1..num
            BY <5>1
          <6> HIDE DEF j
          <6>5. old[j] = c.main[j]
            BY <1>3, <6>4
          <6> QED
            BY <6>3, <6>5 DEF j
        <5>3. LineText(c, i + lost) = c.main[i + lost - l].ink
          BY <1>1, <2>3, <4>4 DEF LineText
        <5> QED
          BY <4>2, <5>2, <5>3
      <4> QED
        BY <4>3, <4>4
    <3>2. CASE ~(i <= Len(d.sb))
      <4> DEFINE k == i - Len(d.sb)
      <4>1. k \in 1..(max - num) /\ k + num = i + lost - l /\ ~(i + lost <= l)
        BY <3>0, <3>2
      <4>2. LineText(d, i) = d.main[k].ink
        BY <3>2 DEF LineText
      <4>3. LineText(c, i + lost) = c.main[i + lost - l].ink
        BY <1>1, <2>3, <4>1 DEF LineText
      <4> HIDE DEF k
      <4> QED
        BY <1>11, <4>1, <4>2, <4>3
    <3> QED
      BY <3>1, <3>2
  <2>8. Scrolled(c, d, num, max, lost)
    BY <2>3, <2>6, <2>7 DEF Scrolled
  <2> QED
    BY <2>8
<1> QED
  BY <1>2, <1>11, <1>12 DEF RowsUp

\* Lines taken back do not change the document.
LEMMA RefilledText ==
    ASSUME NEW c, NEW d, NEW num \in Nat, Len(c.sb) \in Nat, Len(c.main) \in Nat,
           num <= Len(c.sb), num <= Len(c.main), Refilled(c, num, d)
    PROVE  \A i \in 1..(Len(c.sb) + Len(c.main) - num) : LineText(d, i) = LineText(c, i)
<1> DEFINE l == Len(c.sb)
           m == Len(c.main)
           k == l - num
<1>1. /\ Len(d.sb) = k /\ \A i \in 1..k : d.sb[i] = c.sb[i]
      /\ \A i \in 1..num : d.main[i].ink = c.sb[k + i].ink
      /\ \A i \in 1..(m - num) : d.main[num + i].ink = c.main[i].ink
  BY DEF Refilled
<1>2. /\ k \in Nat /\ l \in Nat /\ m \in Nat /\ k + num = l /\ num <= m
      /\ l = Len(c.sb)
  OBVIOUS
<1> HIDE DEF k, l, m
<1>3. SUFFICES ASSUME NEW i \in 1..(l + m - num) PROVE LineText(d, i) = LineText(c, i)
  BY DEF l, m
<1>4. CASE i <= k
  <2>1. i \in 1..k /\ i <= l
    BY <1>2, <1>4
  <2> QED
    BY <1>1, <1>2, <1>4, <2>1 DEF LineText
<1>5. CASE ~(i <= k) /\ i <= l
  <2>1. i - k \in 1..num /\ k + (i - k) = i
    BY <1>2, <1>5
  <2>2. LineText(d, i) = d.main[i - k].ink
    BY <1>1, <1>2, <1>5 DEF LineText
  <2>3. d.main[i - k].ink = c.sb[k + (i - k)].ink
    BY <1>1, <2>1
  <2> QED
    BY <1>2, <1>5, <2>1, <2>2, <2>3 DEF LineText
<1>6. CASE ~(i <= k) /\ ~(i <= l)
  <2>1. i - l \in 1..(m - num) /\ num + (i - l) = i - k
    <3>1. /\ i \in Nat /\ i <= l + m - num /\ i > l
      BY <1>2, <1>6
    <3>2. i - l \in Nat /\ 1 <= i - l /\ i - l <= m - num
      BY <1>2, <3>1
    <3>3. i - l \in 1..(m - num)
      BY <1>2, <3>2
    <3>4. l \in Nat /\ num \in Nat /\ k = l - num
      BY <1>2
    <3>5. num + (i - l) = i - k
      BY <3>1, <3>4
    <3> QED
      BY <3>3, <3>5
  <2>2. LineText(d, i) = d.main[i - k].ink
    BY <1>1, <1>2, <1>6 DEF LineText
  <2>3. d.main[num + (i - l)].ink = c.main[i - l].ink
    BY <1>1, <2>1
  <2>4. LineText(c, i) = c.main[i - l].ink
    BY <1>2, <1>6 DEF LineText
  <2> QED
    BY <2>1, <2>2, <2>3, <2>4
<1> QED
  BY <1>4, <1>5, <1>6

\* The rows of tsm_screen_resize: of size rows, n with the new ones, `last` is the last
\* with text; some are dropped, low rows remain, and num lines come back.
RowsGiven(size, y, cur, n, last, dropped, num, low) ==
    /\ {size, y, cur, num} \subseteq Nat /\ cur < size
    /\ n = Greater(y, size) /\ last \in 0..n
    /\ dropped = Lesser(n - last, Lesser(Greater(0, size - y), Greater(0, size - 1 - cur)))
    /\ low = size - dropped /\ num <= n - last - dropped

\* The rows with text fit on the new screen, and when the cursor is on the last of
\* them, nothing comes back to a screen that is then still too high.
LEMMA RowNumbers ==
    ASSUME NEW size, NEW y, NEW cur, NEW n, NEW last, NEW dropped, NEW num, NEW low,
           RowsGiven(size, y, cur, n, last, dropped, num, low)
    PROVE  /\ dropped \in Nat /\ low \in Nat
           /\ last + num <= Greater(low, y) /\ Greater(low, y) <= n
           /\ last = cur + 1 /\ low > y => num = 0 /\ low = last
<1> DEFINE spare == Greater(0, size - y)
           below == Greater(0, size - 1 - cur)
           room == Lesser(spare, below)
<1>0. /\ size \in Nat /\ y \in Nat /\ cur \in Nat /\ num \in Nat /\ cur < size
      /\ n = Greater(y, size) /\ last \in 0..n
      /\ dropped = Lesser(n - last, Lesser(Greater(0, size - y), Greater(0, size - 1 - cur)))
      /\ low = size - dropped /\ num <= n - last - dropped
  BY DEF RowsGiven
<1>1. /\ spare \in Nat /\ below = size - 1 - cur /\ below \in Nat
      /\ size <= y => spare = 0
      /\ size > y => spare = size - y
  BY <1>0 DEF Greater
<1>2. /\ size <= y => n = y
      /\ size > y => n = size
      /\ n \in Nat /\ last \in Nat /\ last <= n
  BY <1>0 DEF Greater
<1> HIDE DEF spare, below
<1>3. /\ room \in Nat /\ room <= spare /\ room <= below
      /\ room < spare => room = below
  BY <1>1 DEF Lesser
<1> HIDE DEF room
<1>4. /\ dropped \in Nat /\ dropped <= room /\ dropped <= n - last
      /\ dropped < room => dropped = n - last
  <2>1. dropped = Lesser(n - last, room)
    BY <1>0 DEF room, spare, below
  <2> QED
    BY <1>2, <1>3, <2>1 DEF Lesser
<1>5. low \in Nat
  BY <1>0, <1>1, <1>3, <1>4
<1>6. /\ low <= y => Greater(low, y) = y
      /\ low > y => Greater(low, y) = low
  BY <1>0, <1>5 DEF Greater
<1>7. CASE low <= y
  BY <1>0, <1>1, <1>2, <1>3, <1>4, <1>5, <1>6, <1>7
<1>8. CASE low > y
  <2> DEFINE top == Greater(low, y)
  <2>1. top = low /\ size > y /\ n = size /\ dropped < spare
    BY <1>0, <1>1, <1>2, <1>4, <1>5, <1>6, <1>8
  <2>2. last + num <= top /\ top <= n
    BY <1>0, <1>2, <1>4, <1>5, <2>1
  <2>3. last = cur + 1 => dropped = below
    BY <1>0, <1>1, <1>2, <1>3, <1>4, <2>1
  <2>4. last = cur + 1 => num = 0 /\ low = last
    <3> SUFFICES ASSUME last = cur + 1 PROVE num = 0 /\ low = last
      OBVIOUS
    <3>1. dropped + cur + 1 = size /\ low + dropped = size /\ num + last + dropped <= size
      BY <1>0, <1>1, <1>2, <1>4, <1>5, <2>1, <2>3
    <3> QED
      BY <1>0, <1>2, <1>4, <1>5, <3>1
  <2> QED
    BY <1>4, <1>5, <2>2, <2>4
<1> QED
  BY <1>0, <1>4, <1>5, <1>7, <1>8

\* c halfway through tsm_screen_resize, with num lines taken back, and `last` the last
\* row with text before that.
Taken(c, x, y, num, last) ==
    LET e == Enlarged(c, x, y)
        h == Halfway(c, x, y)
        m == Len(e.main)
        size == Greater(h.size_y, y)
    IN  /\ num <= Len(c.sb) /\ Len(h.sb) = Len(c.sb) - num
        /\ num <= m /\ last <= m
        /\ h.cursor_y = c.cursor_y + num /\ h.size_y <= c.size_y
        /\ last + num <= size /\ size <= m
        /\ last = c.cursor_y + 1 /\ h.size_y > y => num = 0 /\ h.size_y = last
        /\ last # 0 => e.main[last].ink # {}
        /\ \A i \in (last + 1)..m : e.main[i].ink = {}
        /\ \A i \in 1..(Len(c.sb) + m - num) : LineText(h, i) = LineText(e, i)
        /\ \A i \in 1..(m - num) : h.main[num + i].ink = e.main[i].ink

LEMMA HalfwayText ==
    ASSUME NEW c, Sound(c), Placed(c), "ALTERNATE" \notin c.flags,
           NEW x \in Nat \ {0}, NEW y \in Nat \ {0}
    PROVE  \E num \in Nat, last \in Nat : Taken(c, x, y, num, last)
<1> DEFINE e == Enlarged(c, x, y)
           h == Halfway(c, x, y)
           m == Len(e.main)
           n == Greater(y, e.size_y)
           last == LastInked(e, n)
           num == Back(e, y)
           l == Len(e.sb)
<1>1. /\ Padded(c, e) /\ y <= m
      /\ \A i \in DOMAIN e.main : e.main[i].ink = Fitting(c, x, i)
  BY EnlargedType
<1>2. /\ Fits(e) /\ Used(e, y, h) /\ Sound(h)
  BY HalfwayType
<1>3. /\ Dropped(e, y) \in Nat /\ num \in Nat /\ num <= l /\ num <= m
  BY <1>1, <1>2, EmptyLinesUsedShaped
<1>4. /\ c.size_x \in Nat /\ c.size_y \in Nat \ {0} /\ c.cursor_y \in Nat /\ c.cursor_y < c.size_y
      /\ Len(c.main) \in Nat /\ c.size_y <= Len(c.main)
  BY RowsOf DEF Sound, Placed, Cons
<1>5. /\ e \in Cons /\ e.sb = c.sb /\ e.size_x = c.size_x /\ e.size_y = c.size_y
      /\ e.cursor_y = c.cursor_y /\ Len(c.main) <= m
  BY <1>1 DEF Padded
<1>6. m \in Nat /\ DOMAIN e.main = 1..m /\ l \in Nat
  BY <1>5, SeqLines DEF Cons
<1>7. /\ h.size_y = e.size_y - Dropped(e, y) /\ h.cursor_y = e.cursor_y + num
      /\ Refilled(e, num, h)
  BY <1>2 DEF Used
<1>8. /\ Dropped(e, y) = Lesser(n - last, Lesser(Greater(0, e.size_y - y),
                                                  Greater(0, e.size_y - 1 - e.cursor_y)))
      /\ num = Lesser(n - last - Dropped(e, y), l)
  BY DEF Dropped, Back, EmptyBelow
<1> HIDE DEF e, h, num
<1>9. n \in Nat /\ n <= m /\ e.size_y <= n
  <2>1. e.size_y \in Nat /\ e.size_y <= m
    BY <1>4, <1>5, <1>6
  <2> QED
    BY <1>1, <1>6, <2>1 DEF Greater
<1>10. /\ last \in 0..n
       /\ last # 0 => ~LineIsEmpty(e, e.main[last])
       /\ \A j \in (last + 1)..n : LineIsEmpty(e, e.main[j])
  BY <1>9, LastInkedType
<1>11. n = Greater(y, c.size_y)
  BY <1>5
<1> HIDE DEF m, n, last, l
<1>12. num <= n - last - Dropped(e, y)
  BY <1>3, <1>6, <1>8, <1>9, <1>10 DEF Lesser
<1>13. /\ last + num <= Greater(h.size_y, y) /\ Greater(h.size_y, y) <= n
       /\ last = c.cursor_y + 1 /\ h.size_y > y => num = 0 /\ h.size_y = last
  <2>1. RowsGiven(c.size_y, y, c.cursor_y, n, last, Dropped(e, y), num, h.size_y)
    BY <1>3, <1>4, <1>5, <1>7, <1>8, <1>10, <1>11, <1>12 DEF RowsGiven
  <2> QED
    BY <2>1, RowNumbers
<1>14. Greater(h.size_y, y) <= m /\ last <= m /\ last \in Nat
  <2>1. Greater(h.size_y, y) \in Nat
    BY <1>2 DEF Sound, Cons, Greater
  <2> QED
    BY <1>6, <1>9, <1>10, <1>13, <2>1
<1>15. \A i \in 1..m : e.main[i].ink \subseteq Columns(e.size_x)
  <2>1. Columns(Lesser(x, c.size_x)) \subseteq Columns(c.size_x)
    BY <1>4 DEF Columns, Lesser
  <2> QED
    BY <1>1, <1>5, <1>6, <2>1 DEF Fitting
<1>16. last # 0 => e.main[last].ink # {}
  BY <1>10 DEF LineIsEmpty
<1>17. \A i \in (last + 1)..m : e.main[i].ink = {}
  <2>1. ASSUME NEW i \in (last + 1)..m PROVE e.main[i].ink = {}
    <3>1. i \in 1..m /\ i \in Nat
      BY <1>6, <1>14
    <3>2. CASE i <= n
      <4>1. i \in (last + 1)..n
        BY <1>9, <1>14, <3>1, <3>2
      <4> QED
        BY <1>10, <1>15, <3>1, <4>1 DEF LineIsEmpty
    <3>3. CASE ~(i <= n)
      <4>1. ~(i <= c.size_y)
        BY <1>4, <1>5, <1>9, <3>1, <3>3
      <4> QED
        BY <1>1, <1>6, <3>1, <4>1 DEF Fitting
    <3> QED
      BY <3>2, <3>3
  <2> QED
    BY <2>1
<1>18. \A i \in 1..(l + m - num) : LineText(h, i) = LineText(e, i)
  <2>1. \A i \in 1..(Len(e.sb) + Len(e.main) - num) : LineText(h, i) = LineText(e, i)
    BY <1>3, <1>6, <1>7, RefilledText DEF l, m
  <2> QED
    BY <2>1 DEF l, m
<1>19. \A i \in 1..(m - num) : h.main[num + i].ink = e.main[i].ink
  BY <1>7 DEF Refilled, m
<1>20. Len(h.sb) = l - num /\ l = Len(c.sb)
  BY <1>5, <1>7 DEF Refilled, l
<1>21. h.size_y <= c.size_y
  BY <1>3, <1>4, <1>5, <1>7
<1>22. Taken(c, x, y, num, last)
  BY <1>3, <1>5, <1>7, <1>13, <1>14, <1>16, <1>17, <1>18, <1>19, <1>20, <1>21
     DEF Taken, e, h, m
<1> QED
  BY <1>3, <1>14, <1>22

LEMMA DocumentLines ==
    ASSUME NEW c, Sound(c)
    PROVE  /\ Len(Document(c)) = Len(c.sb) + c.size_y
           /\ DOMAIN Document(c) = 1..(Len(c.sb) + c.size_y)
           /\ \A i \in 1..(Len(c.sb) + c.size_y) : Document(c)[i].ink = LineText(c, i)
           /\ \A i \in 1..(Len(c.sb) + c.size_y) :
                 i <= Len(c.sb) => Document(c)[i] = c.sb[i]
<1> DEFINE t == SubSeq(c.main, 1, c.size_y)
           l == Len(c.sb)
           n == c.size_y
<1>1. /\ c.sb \in Seq(Line) /\ c.main \in Seq(Line) /\ n \in Nat /\ n <= Len(c.main)
      /\ l \in Nat /\ Len(c.main) \in Nat
  BY RowsOf, SeqLines DEF Sound, Cons
<1>2. \A j \in 1..n : c.main[j] \in Line
  BY <1>1, SeqLines
<1>3. /\ t \in Seq(Line) /\ Len(t) = n
      /\ \A j \in 1..n : t[j] = c.main[j]
  BY <1>1, <1>2, SubSeqProperties
<1>4. Document(c) = c.sb \o t
  BY DEF Document
<1> DEFINE all == c.sb \o t
<1> HIDE DEF t
<1>5. /\ all \in Seq(Line) /\ Len(all) = l + n
      /\ \A j \in 1..(l + n) : all[j] = IF j <= l THEN c.sb[j] ELSE t[j - l]
  <2>1. /\ all \in Seq(Line) /\ Len(all) = Len(c.sb) + Len(t)
        /\ \A j \in 1..(Len(c.sb) + Len(t)) :
              all[j] = IF j <= Len(c.sb) THEN c.sb[j] ELSE t[j - Len(c.sb)]
    BY <1>1, <1>3, Joined
  <2> QED
    BY <1>3, <2>1
<1>6. DOMAIN all = 1..(l + n)
  BY <1>5, SeqLines
<1> HIDE DEF all, l, n
<1>7. ASSUME NEW i \in 1..(l + n)
      PROVE  all[i].ink = LineText(c, i) /\ (i <= l => all[i] = c.sb[i])
  <2>1. CASE i <= l
    BY <1>5, <2>1 DEF LineText, l
  <2>2. CASE ~(i <= l)
    <3>1. i - l \in 1..n
      BY <1>1, <2>2
    <3>2. all[i] = c.main[i - l]
      BY <1>3, <1>5, <2>2, <3>1
    <3> QED
      BY <2>2, <3>2 DEF LineText, l
  <2> QED
    BY <2>1, <2>2
<1> QED
  BY <1>4, <1>5, <1>6, <1>7 DEF all, l, n

\* The text that a resize to x columns and y rows keeps, as it is halfway.
LEMMA TextBefore ==
    ASSUME NEW c, Sound(c), NEW x \in Nat \ {0}, NEW y \in Nat \ {0},
           NEW num \in Nat, NEW last \in Nat, Taken(c, x, y, num, last)
    PROVE  LET text == TextOf(c, Lesser(c.size_x, x))
               e == Enlarged(c, x, y)
           IN  /\ \A k \in 1..(Len(c.sb) + Len(e.main)) :
                     LineOf(text, k) = LineText(e, k)
               /\ \A k \in Nat : k > Len(c.sb) + last => LineOf(text, k) = {}
<1> DEFINE e == Enlarged(c, x, y)
           w == Lesser(c.size_x, x)
           text == TextOf(c, w)
           l == Len(c.sb)
           m == Len(e.main)
           n == c.size_y
<1>1. /\ c.sb \in Seq(Line) /\ l \in Nat /\ n \in Nat
      /\ c.size_x \in Nat /\ n <= Len(c.main) /\ Len(c.main) \in Nat
  BY RowsOf, SeqLines DEF Sound, Cons
<1>2. /\ e.main \in Seq(Line) /\ Len(c.main) <= m /\ e.sb = c.sb
      /\ \A i \in DOMAIN e.main : e.main[i].ink = Fitting(c, x, i)
  BY EnlargedType DEF Padded, Cons
<1>3. m \in Nat /\ DOMAIN e.main = 1..m /\ n <= m
  BY <1>1, <1>2, SeqLines
<1>4. /\ last <= m
      /\ \A i \in (last + 1)..m : e.main[i].ink = {}
  BY DEF Taken
<1>5. w = Lesser(x, c.size_x)
  BY <1>1 DEF Lesser
<1>6. /\ DOMAIN Document(c) = 1..(l + n)
      /\ \A i \in 1..(l + n) : Document(c)[i].ink = LineText(c, i)
  BY DocumentLines
<1>7. \A k : LineOf(text, k) =
                IF k \notin 1..(l + n) THEN {}
                ELSE IF k <= l THEN c.sb[k].ink
                ELSE LineText(c, k) \cap Columns(w)
  BY <1>6 DEF LineOf, TextOf
<1> HIDE DEF e, w, text, l, m, n
<1>8. ASSUME NEW k \in 1..(l + m)
      PROVE  LineOf(text, k) = LineText(e, k)
  <2>1. CASE k <= l
    <3>1. k \in 1..(l + n)
      BY <1>1, <2>1
    <3>2. LineText(e, k) = c.sb[k].ink
      BY <1>2, <2>1 DEF LineText, l
    <3> QED
      BY <1>7, <2>1, <3>1, <3>2
  <2>2. CASE ~(k <= l)
    <3>1. k - l \in 1..m
      BY <1>1, <1>3, <2>2
    <3>2. LineText(e, k) = Fitting(c, x, k - l)
      <4>1. LineText(e, k) = e.main[k - l].ink
        BY <1>2, <2>2 DEF LineText, l
      <4> QED
        BY <1>2, <1>3, <3>1, <4>1
    <3>3. CASE k - l <= n
      <4>1. k \in 1..(l + n)
        BY <1>1, <2>2, <3>3
      <4>2. LineText(c, k) = c.main[k - l].ink
        BY <2>2 DEF LineText, l
      <4>3. Fitting(c, x, k - l) = c.main[k - l].ink \cap Columns(w)
        BY <1>5, <3>3 DEF Fitting, n
      <4> QED
        BY <1>7, <2>2, <3>2, <4>1, <4>2, <4>3
    <3>4. CASE ~(k - l <= n)
      <4>1. k \notin 1..(l + n)
        BY <1>1, <2>2, <3>4
      <4>2. Fitting(c, x, k - l) = {}
        BY <3>4 DEF Fitting, n
      <4> QED
        BY <1>7, <3>2, <4>1, <4>2
    <3> QED
      BY <3>3, <3>4
  <2> QED
    BY <2>1, <2>2
<1>9. ASSUME NEW k \in Nat, k > l + last
      PROVE  LineOf(text, k) = {}
  <2>1. CASE k \in 1..(l + m)
    <3>1. k - l \in (last + 1)..m /\ ~(k <= l)
      BY <1>1, <1>3, <1>4, <1>9, <2>1
    <3>2. LineText(e, k) = e.main[k - l].ink
      BY <1>2, <3>1 DEF LineText, l
    <3> QED
      BY <1>4, <1>8, <2>1, <3>1, <3>2
  <2>2. CASE k \notin 1..(l + m)
    <3>1. k \notin 1..(l + n)
      BY <1>1, <1>3, <2>2
    <3> QED
      BY <1>7, <3>1
  <2> QED
    BY <2>1, <2>2
<1> QED
  BY <1>8, <1>9 DEF e, w, text, l, m

\* c resized, without its first `lost` lines: the rows that follow them remain, the
\* last one with text as well.
Remains(c, x, y, last, lost) ==
    LET d == Resized(c, x, y, {})
        e == Enlarged(c, x, y)
        end == Len(d.sb) + y + lost
    IN  /\ lost \in 0..(Len(c.sb) + c.size_y)
        /\ lost > 0 => Len(d.sb) = d.sb_max
        /\ end <= Len(c.sb) + Len(e.main) /\ end >= Len(c.sb) + last
        /\ \A i \in 1..(Len(d.sb) + y) : LineText(d, i) = LineText(e, i + lost)

LEMMA TextAfter ==
    ASSUME NEW c, Sound(c), Placed(c), "ALTERNATE" \notin c.flags,
           NEW x \in Nat \ {0}, NEW y \in Nat \ {0},
           NEW num \in Nat, NEW last \in Nat, Taken(c, x, y, num, last)
    PROVE  \E lost : Remains(c, x, y, last, lost)
<1> DEFINE d == Resized(c, x, y, {})
           e == Enlarged(c, x, y)
           h == Halfway(c, x, y)
           low == Lowered(h, y, {})
           l == Len(c.sb)
           m == Len(e.main)
           k == Len(d.sb)
           rows == c.size_y
           high == h.size_y
           size == Greater(high, y)
<1>1. /\ Sound(h) /\ h.margin_top = 0 /\ h.margin_bottom = high - 1
      /\ h.flags = c.flags
  <2>1. Sound(h)
    BY HalfwayType
  <2>2. h.margin_top = 0
    BY HalfwayType
  <2>3. h.margin_bottom = h.size_y - 1
    BY HalfwayType
  <2>4. h.flags = c.flags
    BY HalfwayType
  <2> QED
    BY <2>1, <2>2, <2>3, <2>4
<1>2. d.main = low.main /\ d.sb = low.sb /\ d.sb_max = low.sb_max /\ Sound(d)
  BY ResizedCall DEF Stays
<1>3. /\ num <= l /\ Len(h.sb) = l - num
      /\ num <= m /\ last <= m /\ high <= rows
      /\ last + num <= size /\ size <= m
      /\ \A i \in 1..(l + m - num) : LineText(h, i) = LineText(e, i)
  BY DEF Taken
<1>4. Padded(c, e)
  BY EnlargedType
<1>5. /\ low.sb_max = h.sb_max
      /\ high <= y => low = h
      /\ high > y => /\ low.main = ScrollUp(h, high - y, {}).main
                     /\ low.sb = ScrollUp(h, high - y, {}).sb
  BY <1>1, LoweredType
<1> HIDE DEF d, e, h, low
<1>6. /\ l \in Nat /\ m \in Nat /\ k \in Nat /\ rows \in Nat /\ high \in Nat /\ y \in Nat
  <2>1. /\ c.sb \in Seq(Line) /\ e.main \in Seq(Line) /\ d.sb \in Seq(Line)
        /\ rows \in Nat /\ high \in Nat
    BY <1>1, <1>2, <1>4 DEF Sound, Padded, Cons
  <2> QED
    BY <2>1, SeqLines
<1>7. /\ high <= y => size = y
      /\ high > y => size = high
  BY <1>6 DEF Greater
<1>8. \A a, b : a.main = b.main /\ a.sb = b.sb => \A i : LineText(a, i) = LineText(b, i)
  BY DEF LineText
<1>9. CASE high <= y
  <2>1. k = l - num
    BY <1>2, <1>3, <1>5, <1>9
  <2>2. \A i : LineText(d, i) = LineText(h, i)
    BY <1>2, <1>5, <1>8, <1>9
  <2> HIDE DEF l, m, k, size, high, rows
  <2>3. /\ 0 \in 0..(l + rows)
        /\ k + y + 0 <= l + m /\ k + y + 0 >= l + last
    BY <1>3, <1>6, <1>7, <1>9, <2>1
  <2>4. ASSUME NEW i \in 1..(k + y) PROVE LineText(d, i) = LineText(e, i + 0)
    <3>1. i \in 1..(l + m - num) /\ i + 0 = i
      BY <1>3, <1>6, <1>7, <1>9, <2>1
    <3> QED
      BY <1>3, <2>2, <3>1
  <2>5. Remains(c, x, y, last, 0)
    <3>1. \A i \in 1..(k + y) : LineText(d, i) = LineText(e, i + 0)
      BY <2>4
    <3>2. ~(0 > 0)
      OBVIOUS
    <3> QED
      BY <2>3, <3>1, <3>2 DEF Remains, d, e, l, m, k, rows
  <2> QED
    BY <2>5
<1>10. CASE high > y
  <2> DEFINE diff == high - y
             up == ScrollUp(h, diff, {})
             j == Len(h.sb)
  <2>1. diff \in Nat \ {0} /\ diff <= high /\ high = h.margin_bottom + 1 /\ diff + y = high
    BY <1>1, <1>6, <1>10
  <2>2. "ALTERNATE" \notin h.flags
    BY <1>1
  <2>3. low.main = up.main /\ low.sb = up.sb
    BY <1>5, <1>10
  <2> HIDE DEF diff
  <2>4. PICK lost : Scrolled(h, up, diff, high, lost)
    BY <1>1, <1>6, <2>1, <2>2, ScrollUpText
  <2>5. /\ lost \in 0..(j + diff)
        /\ lost > 0 => Len(up.sb) = h.sb_max
        /\ Len(up.sb) = j + diff - lost
        /\ \A i \in 1..(j + high - lost) : LineText(up, i) = LineText(h, i + lost)
    BY <2>4 DEF Scrolled
  <2> HIDE DEF up
  <2>6. /\ k = Len(up.sb) /\ d.sb_max = h.sb_max
        /\ \A i : LineText(d, i) = LineText(up, i)
    BY <1>2, <1>5, <1>8, <2>3
  <2>7. j = l - num /\ j \in Nat
    BY <1>3, <1>6
  <2>8. lost > 0 => Len(d.sb) = d.sb_max
    BY <2>5, <2>6
  <2>9. k = j + diff - lost
    BY <2>5, <2>6
  <2> HIDE DEF l, m, k, size, high, rows, j
  <2>10. /\ lost \in Nat /\ lost <= j + diff /\ k + y + lost = l - num + high
         /\ high <= m /\ last + num <= high
    BY <1>3, <1>6, <1>7, <1>10, <2>1, <2>5, <2>7, <2>9
  <2>11. lost \in 0..(l + rows)
    <3>1. diff <= rows /\ j <= l
      BY <1>3, <1>6, <2>1, <2>7
    <3> QED
      BY <1>6, <2>1, <2>7, <2>10, <3>1
  <2>12. k + y + lost <= l + m /\ k + y + lost >= l + last
    BY <1>6, <2>10
  <2>13. ASSUME NEW i \in 1..(k + y) PROVE LineText(d, i) = LineText(e, i + lost)
    <3>1. i \in 1..(j + high - lost) /\ i + lost \in 1..(l + m - num)
      BY <1>3, <1>6, <2>7, <2>10
    <3> QED
      BY <1>3, <2>5, <2>6, <3>1
  <2>14. Remains(c, x, y, last, lost)
    BY <2>8, <2>11, <2>12, <2>13 DEF Remains, d, e, l, m, k, rows
  <2> QED
    BY <2>14
<1> QED
  BY <1>6, <1>9, <1>10

LEMMA ResizedText ==
    ASSUME NEW c, Sound(c), Placed(c), "ALTERNATE" \notin c.flags,
           NEW x \in Nat \ {0}, NEW y \in Nat \ {0}
    PROVE  KeepsText(c, Resized(c, x, y, {}))
<1> DEFINE d == Resized(c, x, y, {})
           e == Enlarged(c, x, y)
           l == Len(c.sb)
           m == Len(e.main)
           n == Len(d.sb) + y
           text == TextOf(c, Lesser(c.size_x, x))
           after == Inks(Document(d))
<1>1. PICK num \in Nat, last \in Nat : Taken(c, x, y, num, last)
  BY HalfwayText
<1>2. /\ \A k \in 1..(l + m) : LineOf(text, k) = LineText(e, k)
      /\ \A k \in Nat : k > l + last => LineOf(text, k) = {}
  BY <1>1, TextBefore
<1>3. PICK lost : Remains(c, x, y, last, lost)
  BY <1>1, TextAfter
<1>4. /\ lost \in 0..(l + c.size_y)
      /\ lost > 0 => Len(d.sb) = d.sb_max
      /\ n + lost <= l + m /\ n + lost >= l + last
      /\ \A i \in 1..n : LineText(d, i) = LineText(e, i + lost)
  BY <1>3 DEF Remains
<1>5. Sound(d) /\ d.size_x = x /\ d.size_y = y
  BY ResizedCall DEF Stays
<1>6. /\ l \in Nat /\ m \in Nat /\ c.size_y \in Nat /\ n \in Nat /\ lost \in Nat
  <2>1. /\ c.sb \in Seq(Line) /\ e.main \in Seq(Line) /\ d.sb \in Seq(Line)
        /\ c.size_y \in Nat
    BY <1>5, EnlargedType DEF Sound, Padded, Cons
  <2>2. l \in Nat /\ m \in Nat /\ Len(d.sb) \in Nat
    BY <2>1, SeqLines
  <2> QED
    BY <1>4, <2>1, <2>2
<1>7. Len(Document(c)) = l + c.size_y /\ DOMAIN text = 1..(l + c.size_y)
  BY DocumentLines DEF TextOf
<1>8. \A k : LineOf(after, k) = IF k \in 1..n THEN LineText(d, k) ELSE {}
  <2>1. /\ DOMAIN Document(d) = 1..n
        /\ \A k \in 1..n : Document(d)[k].ink = LineText(d, k)
    BY <1>5, DocumentLines
  <2> QED
    BY <2>1 DEF LineOf, Inks
<1>9. DOMAIN after = 1..n
  BY <1>5, DocumentLines DEF Inks
<1> HIDE DEF d, e, l, m, n, text, after
<1>10. ASSUME NEW i \in DOMAIN text \cup DOMAIN after
       PROVE  LineOf(after, i) = LineOf(text, i + lost)
  <2>1. i \in Nat \ {0}
    BY <1>6, <1>7, <1>9
  <2>2. CASE i <= n
    <3>1. i \in 1..n /\ i + lost \in 1..(l + m)
      BY <1>4, <1>6, <2>1, <2>2
    <3> QED
      BY <1>2, <1>4, <1>8, <3>1
  <2>3. CASE ~(i <= n)
    <3>1. i \notin 1..n /\ i + lost \in Nat /\ i + lost > l + last
      BY <1>1, <1>4, <1>6, <2>1, <2>3
    <3> QED
      BY <1>2, <1>8, <3>1
  <2> QED
    BY <2>2, <2>3
<1>11. \E k \in 0..Len(Document(c)) :
           /\ k > 0 => Len(d.sb) = d.sb_max
           /\ \A i \in DOMAIN text \cup DOMAIN after : LineOf(after, i) = LineOf(text, i + k)
  BY <1>4, <1>7, <1>10
<1>12. text = TextOf(c, Lesser(c.size_x, d.size_x))
  BY <1>5 DEF text
<1> QED
  BY <1>11, <1>12 DEF KeepsText, after, d

LEMMA ResizedPrompt ==
    ASSUME NEW c, Sound(c), Placed(c), "ALTERNATE" \notin c.flags,
           NEW x \in Nat \ {0}, NEW y \in Nat \ {0}, NEW failed,
           AtPrompt(c, Lesser(c.size_x, x))
    PROVE  AtPrompt(Resized(c, x, y, failed), x)
<1> DEFINE d == Resized(c, x, y, failed)
           e == Enlarged(c, x, y)
           h == Halfway(c, x, y)
           low == Lowered(h, y, failed)
           m == Len(e.main)
           p == c.cursor_y
           w == Lesser(c.size_x, x)
           high == h.size_y
           size == Greater(high, y)
<1>1. PICK num \in Nat, last \in Nat : Taken(c, x, y, num, last)
  BY HalfwayText
<1>2. /\ num <= m /\ last <= m /\ h.cursor_y = p + num
      /\ last + num <= size /\ size <= m
      /\ last = p + 1 /\ high > y => num = 0 /\ high = last
      /\ last # 0 => e.main[last].ink # {}
      /\ \A i \in (last + 1)..m : e.main[i].ink = {}
      /\ \A i \in 1..(m - num) : h.main[num + i].ink = e.main[i].ink
  BY <1>1 DEF Taken
<1>3. /\ Sound(h) /\ h.margin_top = 0 /\ h.margin_bottom = high - 1
      /\ h.flags = c.flags
  BY HalfwayType
<1>4. d.main = low.main /\ d.cursor_y = Lesser(low.cursor_y, y - 1)
  BY ResizedCall
<1>5. /\ high <= y => low = h
      /\ high > y => /\ low.main = ScrollUp(h, high - y, failed).main
                     /\ low.cursor_y = IF h.cursor_y > high - y
                                       THEN h.cursor_y - (high - y) ELSE 0
  BY <1>3, LoweredType
<1>6. /\ e.main \in Seq(Line) /\ Len(c.main) <= m
      /\ \A i \in DOMAIN e.main : e.main[i].ink = Fitting(c, x, i)
  BY EnlargedType DEF Padded, Cons
<1>7. /\ m \in Nat /\ DOMAIN e.main = 1..m /\ p \in Nat /\ p < c.size_y /\ c.size_y \in Nat
      /\ c.size_y <= m /\ high \in Nat /\ y \in Nat \ {0} /\ c.size_x \in Nat
      /\ num \in Nat /\ last \in Nat
  <2>1. /\ p \in Nat /\ p < c.size_y /\ c.size_y \in Nat /\ c.size_y <= Len(c.main)
        /\ Len(c.main) \in Nat /\ high \in Nat /\ c.size_x \in Nat
    BY <1>3, RowsOf DEF Sound, Cons, Placed
  <2>2. m \in Nat /\ DOMAIN e.main = 1..m
    BY <1>6, SeqLines
  <2> QED
    BY <1>6, <2>1, <2>2
<1>8. w = Lesser(x, c.size_x) /\ Columns(w) \subseteq Columns(x)
  BY <1>7 DEF Lesser, Columns
<1>9. /\ c.main[p + 1].ink \cap Columns(w) # {}
      /\ \A i \in (p + 2)..c.size_y : c.main[i].ink \cap Columns(w) = {}
  BY DEF AtPrompt
<1>10. \A i \in 1..m : e.main[i].ink = IF i <= c.size_y THEN c.main[i].ink \cap Columns(w)
                                       ELSE {}
  BY <1>6, <1>7, <1>8 DEF Fitting
<1> HIDE DEF d, e, h, low, m, p, w, high, size
<1>11. /\ e.main[p + 1].ink # {} /\ p + 1 \in 1..m
       /\ \A i \in 1..m : e.main[i].ink \subseteq Columns(x)
  <2>1. p + 1 \in 1..m /\ p + 1 <= c.size_y
    BY <1>7
  <2> QED
    BY <1>8, <1>9, <1>10, <2>1
<1>12. last = p + 1
  <2>1. p + 1 <= last
    BY <1>2, <1>7, <1>11
  <2>2. ASSUME p + 1 < last PROVE FALSE
    <3>1. last \in 1..m /\ e.main[last].ink # {}
      BY <1>2, <1>7, <2>2
    <3>2. last <= c.size_y /\ c.main[last].ink \cap Columns(w) # {}
      BY <1>10, <3>1
    <3>3. last \in (p + 2)..c.size_y
      BY <1>7, <2>2, <3>2
    <3> QED
      BY <1>9, <3>2, <3>3
  <2> QED
    BY <1>7, <2>1, <2>2
<1>13. /\ last = p + 1 /\ last + num <= size /\ size <= m
       /\ high > y => num = 0 /\ high = p + 1
       /\ m \in Nat /\ p \in Nat /\ num \in Nat /\ high \in Nat /\ y \in Nat \ {0}
       /\ h.cursor_y = p + num /\ size \in Nat
  <2>1. size \in Nat
    BY <1>7 DEF size, Greater
  <2> QED
    BY <1>2, <1>7, <1>12, <2>1
<1>14. CASE high <= y
  <2>1. d.main = h.main /\ size = y
    BY <1>4, <1>5, <1>7, <1>14 DEF Greater, size
  <2>2. d.cursor_y = p + num
    <3>1. p + num <= y - 1
      BY <1>13, <2>1
    <3>2. low.cursor_y = p + num
      BY <1>5, <1>13, <1>14
    <3>3. d.cursor_y = Lesser(p + num, y - 1)
      BY <1>4, <3>2
    <3> QED
      BY <1>13, <3>1, <3>3 DEF Lesser
  <2>3. d.main[p + num + 1].ink = e.main[p + 1].ink
    <3>1. p + 1 \in 1..(m - num) /\ num + (p + 1) = p + num + 1
      BY <1>13
    <3> QED
      BY <1>2, <2>1, <3>1
  <2>4. ASSUME NEW i \in (p + num + 2)..y PROVE d.main[i].ink = {}
    <3>1. i - num \in 1..(m - num) /\ num + (i - num) = i /\ i - num \in (last + 1)..m
      <4>1. i \in Nat /\ p + num + 2 <= i /\ i <= y /\ y <= m
        BY <1>13, <2>1, <2>4
      <4> QED
        BY <1>13, <4>1
    <3> DEFINE k == i - num
    <3>2. k \in 1..(m - num) /\ num + k = i /\ k \in (last + 1)..m
      BY <3>1
    <3> HIDE DEF k
    <3>3. h.main[num + k].ink = {}
      BY <1>2, <3>2
    <3> QED
      BY <2>1, <3>2, <3>3
  <2>5. d.size_y = y
    BY ResizedCall DEF d
  <2>6. d.main[d.cursor_y + 1].ink \cap Columns(x) # {}
    BY <1>11, <2>2, <2>3
  <2>7. \A i \in (d.cursor_y + 2)..d.size_y : d.main[i].ink \cap Columns(x) = {}
    BY <2>2, <2>4, <2>5
  <2> QED
    BY <2>6, <2>7 DEF AtPrompt, d
<1>15. CASE high > y
  <2> DEFINE diff == high - y
  <2>1. /\ num = 0 /\ high = p + 1 /\ h.cursor_y = p
        /\ diff \in Nat \ {0} /\ diff <= high /\ high = h.margin_bottom + 1
        /\ y + diff = p + 1 /\ high - diff = y
    <3>1. h.margin_bottom + 1 = high
      BY <1>3, <1>13
    <3> QED
      BY <1>13, <1>15, <3>1
  <2>2. d.cursor_y = y - 1
    <3>1. low.cursor_y = IF p > diff THEN p - diff ELSE 0
      BY <1>5, <1>15, <2>1
    <3> HIDE DEF diff
    <3>2. p - diff = y - 1 /\ (p > diff \/ y - 1 = 0)
      BY <1>13, <2>1
    <3>3. low.cursor_y = y - 1
      BY <3>1, <3>2
    <3>4. d.cursor_y = Lesser(y - 1, y - 1)
      BY <1>4, <3>3
    <3> QED
      BY <3>4 DEF Lesser
  <2> HIDE DEF diff
  <2>3. \A i \in 1..(high - diff) : ScrollUp(h, diff, failed).main[i].ink = h.main[i + diff].ink
    <3>1. Sound(h) /\ "ALTERNATE" \notin h.flags /\ h.margin_top = 0 /\ high \in Nat
      BY <1>3, <1>7
    <3>2. RowsUp(h, ScrollUp(h, diff, failed), diff, high)
      BY <2>1, <3>1, ScrollUpText
    <3> QED
      BY <3>2 DEF RowsUp
  <2>4. d.main[y].ink = e.main[p + 1].ink
    <3>1. d.main = ScrollUp(h, diff, failed).main
      BY <1>4, <1>5, <1>15 DEF diff
    <3>2. y \in 1..(high - diff)
      BY <1>7, <2>1
    <3>3. d.main[y].ink = h.main[p + 1].ink
      BY <2>1, <2>3, <3>1, <3>2
    <3>4. p + 1 \in 1..(m - num) /\ num + (p + 1) = p + 1
      BY <1>13, <2>1
    <3> QED
      BY <1>2, <3>3, <3>4
  <2>5. d.size_y = y
    BY ResizedCall DEF d
  <2>6. d.cursor_y + 1 = y /\ (d.cursor_y + 2)..d.size_y = {}
    BY <1>7, <2>2, <2>5
  <2>7. d.main[d.cursor_y + 1].ink \cap Columns(x) # {}
    BY <1>11, <2>4, <2>6
  <2> QED
    BY <2>6, <2>7 DEF AtPrompt, d
<1> QED
  BY <1>7, <1>14, <1>15

-----------------------------------------------------------------------------
(* The steps, one group of calls at a time. *)

Quiet(c, d) == Call(c, d) /\ d.flags = c.flags

LEMMA ClientValues ==
    ASSUME client \in Clients
    PROVE  /\ client.new_x \in Nat \ {0} /\ client.new_y \in Nat \ {0}
           /\ client.counts \subseteq Nat /\ client.sb_maxes \subseteq Nat
           /\ client.widths \subseteq Nat \ {0} /\ client.heights \subseteq Nat \ {0}
           /\ client.flags \subseteq Flags /\ client.max_sel_y \in Nat
BY ScreenAssumption DEF Flags

\* Write, Newline
LEMMA WritingSteps ==
    ASSUME Sound(con), Placed(con), Write \/ Newline
    PROVE  Quiet(con, con')
<1>1. CASE Write
  <2>1. PICK len \in 1..2, failed \in Failed :
            con' = MovedTo(WriteCell(ReadyToWrite(con, failed), len),
                           ReadyToWrite(con, failed).cursor_x + len,
                           ReadyToWrite(con, failed).cursor_y)
    BY <1>1 DEF Write
  <2>2. con' = Written(ReadyToWrite(con, failed), len)
    BY <2>1 DEF Written
  <2>3. TextStep(con, con')
    BY <2>2, WriteStep
  <2> QED
    BY <2>3, TextCall DEF Quiet
<1>2. CASE Newline
  <2>1. PICK failed \in Failed :
            con' = MovedTo(MovedDown(con, 1, TRUE, failed), 0,
                           MovedDown(con, 1, TRUE, failed).cursor_y)
    BY <1>2 DEF Newline
  <2>2. con' = LineHome(MovedDown(con, 1, TRUE, failed))
    BY <2>1 DEF LineHome
  <2>3. TextStep(con, con')
    BY <2>2, NewlineStep
  <2> QED
    BY <2>3, TextCall DEF Quiet
<1> QED
  BY <1>1, <1>2

\* InsertChars, DeleteChars
LEMMA CharsSteps ==
    ASSUME Sound(con), Placed(con), EditChars
    PROVE  Quiet(con, con')
<1> DEFINE x == Lesser(con.cursor_x, con.size_x - 1)
<1>1. x \in 0..(con.size_x - 1)
  BY SoundNumbers DEF Lesser
<1>2. \E ink : con' = WithInk(MovedTo(con, x, con.cursor_y), con.cursor_y, ink)
  <2>1. CASE InsertChars
    BY <2>1 DEF InsertChars
  <2>2. CASE DeleteChars
    BY <2>2 DEF DeleteChars
  <2> QED
    BY <2>1, <2>2 DEF EditChars
<1> HIDE DEF x
<1>3. TextStep(con, con')
  BY <1>1, <1>2, InkStep
<1> QED
  BY <1>3, TextCall DEF Quiet

\* MoveTo and the other moves of the cursor.
LEMMA MoveSteps ==
    ASSUME Sound(con), Placed(con), client \in Clients, Move
    PROVE  Quiet(con, con')
<1>1. /\ con.size_x \in Nat \ {0} /\ con.size_y \in Nat \ {0}
      /\ con.cursor_x \in 0..(con.size_x + 1) /\ con.cursor_y \in 0..(con.size_y - 1)
      /\ con.margin_top \in Nat /\ con.margin_bottom \in Nat /\ con.margin_bottom < con.size_y
  BY SoundNumbers DEF Placed
<1>2. client.counts \subseteq Nat
  BY ClientValues
<1>3. ASSUME NEW x \in 0..(con.size_x + 1), NEW y \in 0..(con.size_y - 1),
             con' = MovedTo(con, x, y)
      PROVE  Quiet(con, con')
  BY <1>3, MoveStep, TextCall DEF Quiet
<1>4. CASE MoveTo
  <2>1. PICK x \in Columns(con.size_x), y \in Columns(con.size_y) :
            con' = MovedTo(con, x,
                      Lesser(IF "REL_ORIGIN" \in con.flags THEN con.margin_top + y ELSE y,
                             IF "REL_ORIGIN" \in con.flags THEN con.margin_bottom
                             ELSE con.size_y - 1))
    BY <1>4 DEF MoveTo
  <2> DEFINE row == Lesser(IF "REL_ORIGIN" \in con.flags THEN con.margin_top + y ELSE y,
                           IF "REL_ORIGIN" \in con.flags THEN con.margin_bottom
                           ELSE con.size_y - 1)
  <2>2. row \in 0..(con.size_y - 1) /\ x \in 0..(con.size_x + 1)
    BY <1>1 DEF Lesser, Columns
  <2> HIDE DEF row
  <2> QED
    BY <1>3, <2>1, <2>2 DEF row
<1>5. CASE MoveDown
  <2>1. PICK num \in client.counts, scroll \in BOOLEAN, failed \in Failed :
            con' = MovedDown(con, num, scroll, failed)
    BY <1>5 DEF MoveDown
  <2>2. num \in Nat
    BY <1>2
  <2>3. TextStep(con, con')
    BY <2>1, <2>2, MovedDownStep DEF TextStep
  <2> QED
    BY <2>3, TextCall DEF Quiet
<1>6. CASE MoveUp
  <2>1. PICK num \in client.counts, scroll \in BOOLEAN : con' = MovedUp(con, num, scroll)
    BY <1>6 DEF MoveUp
  <2>2. num \in Nat
    BY <1>2
  <2>3. TextStep(con, con')
    BY <2>1, <2>2, MovedUpStep DEF TextStep
  <2> QED
    BY <2>3, TextCall DEF Quiet
<1>7. CASE MoveLeft
  <2>1. PICK num \in client.counts :
            con' = MovedTo(con, Greater(0, Lesser(con.cursor_x, con.size_x - 1) - num),
                           con.cursor_y)
    BY <1>7 DEF MoveLeft
  <2> DEFINE x == Greater(0, Lesser(con.cursor_x, con.size_x - 1) - num)
  <2>2. x \in 0..(con.size_x + 1)
    BY <1>1, <1>2 DEF Lesser, Greater
  <2> HIDE DEF x
  <2> QED
    BY <1>1, <1>3, <2>1, <2>2 DEF x
<1>8. CASE MoveRight
  <2>1. PICK num \in client.counts :
            con' = MovedTo(con, Lesser(con.cursor_x + num, con.size_x - 1), con.cursor_y)
    BY <1>8 DEF MoveRight
  <2> DEFINE x == Lesser(con.cursor_x + num, con.size_x - 1)
  <2>2. x \in 0..(con.size_x + 1)
    BY <1>1, <1>2 DEF Lesser
  <2> HIDE DEF x
  <2> QED
    BY <1>1, <1>3, <2>1, <2>2 DEF x
<1>9. CASE MoveLineEnd \/ MoveLineHome
  <2>1. \E x \in 0..(con.size_x + 1) : con' = MovedTo(con, x, con.cursor_y)
    BY <1>1, <1>9 DEF MoveLineEnd, MoveLineHome
  <2> QED
    BY <1>1, <1>3, <2>1
<1>10. CASE TabRight \/ TabLeft
  <2>1. \E x \in 0..(con.size_x + 1) : con' = MovedTo(con, x, con.cursor_y)
    <3>1. Columns(con.size_x) \subseteq 0..(con.size_x + 1)
      BY <1>1 DEF Columns
    <3>2. Columns(Greater(1, con.cursor_x)) \subseteq 0..(con.size_x + 1)
      BY <1>1 DEF Columns, Greater
    <3> QED
      BY <1>10, <3>1, <3>2 DEF TabRight, TabLeft
  <2> QED
    BY <1>1, <1>3, <2>1
<1> QED
  BY <1>4, <1>5, <1>6, <1>7, <1>8, <1>9, <1>10 DEF Move

\* ScrollUpCall, ScrollDownCall, InsertLinesCall, DeleteLinesCall
LEMMA LinesSteps ==
    ASSUME Sound(con), Placed(con), client \in Clients, Scroll \/ EditLines
    PROVE  Quiet(con, con')
<1>1. client.counts \subseteq Nat
  BY ClientValues
<1>2. CASE ScrollUpCall
  <2>1. PICK num \in client.counts, failed \in Failed : con' = ScrollUp(con, num, failed)
    BY <1>2 DEF ScrollUpCall
  <2>2. Scrolls(con, con')
    BY <1>1, <2>1, ScrollUpScrolls
  <2> QED
    BY <2>2, ScrollCall DEF Quiet
<1>3. CASE ScrollDownCall
  <2>1. PICK num \in client.counts : con' = ScrollDown(con, num)
    BY <1>3 DEF ScrollDownCall
  <2>2. Scrolls(con, con')
    BY <1>1, <2>1, ScrollDownScrolls
  <2> QED
    BY <2>2, ScrollCall DEF Quiet
<1>4. CASE InsertLinesCall
  <2>1. PICK num \in client.counts : InRegion /\ con' = InsertLines(con, num)
    BY <1>4 DEF InsertLinesCall
  <2>2. num \in Nat /\ InRegionOf(con)
    BY <1>1, <2>1 DEF InRegion, InRegionOf
  <2>3. TextStep(con, con')
    BY <2>1, <2>2, InsertStep
  <2> QED
    BY <2>3, TextCall DEF Quiet
<1>5. CASE DeleteLinesCall
  <2>1. PICK num \in client.counts : InRegion /\ con' = DeleteLines(con, num)
    BY <1>5 DEF DeleteLinesCall
  <2>2. num \in Nat /\ InRegionOf(con)
    BY <1>1, <2>1 DEF InRegion, InRegionOf
  <2>3. TextStep(con, con')
    BY <2>1, <2>2, DeleteStep
  <2> QED
    BY <2>3, TextCall DEF Quiet
<1> QED
  BY <1>2, <1>3, <1>4, <1>5 DEF Scroll, EditLines

\* SetMargins, SetFlag, ResetFlag, Reset
LEMMA SettingSteps ==
    ASSUME Sound(con), Placed(con), client \in Clients, SetMargins \/ Mode
    PROVE  Call(con, con') /\ con'.flags \subseteq con.flags \cup client.flags
<1>1. /\ con \in Cons /\ con.size_y \in Nat \ {0}
      /\ con.margin_top \in Nat /\ con.margin_bottom \in Nat
      /\ con.margin_top <= con.margin_bottom /\ con.margin_bottom < con.size_y
  BY SoundNumbers
<1>2. con.flags \in SUBSET Flags /\ client.flags \subseteq Flags
  BY <1>1, ClientValues DEF Cons
<1>3. ASSUME NEW top \in Nat, NEW bottom \in Nat, top <= bottom, bottom < con.size_y,
             NEW flags \in SUBSET Flags, flags \subseteq con.flags \cup client.flags,
             con' = [con EXCEPT !.flags = flags, !.margin_top = top, !.margin_bottom = bottom]
      PROVE  Call(con, con') /\ con'.flags \subseteq con.flags \cup client.flags
  <2>1. Call(con, con')
    BY <1>3, SettingCall
  <2>2. con'.flags = flags
    BY <1>1, <1>3 DEF Cons
  <2> QED
    BY <1>3, <2>1, <2>2
<1>4. CASE SetMargins
  <2>1. PICK t \in 0..con.size_y, b \in 0..con.size_y :
            con' = [con EXCEPT
                !.margin_top = IF b <= Greater(1, t) \/ b > con.size_y THEN 0
                               ELSE Greater(1, t) - 1,
                !.margin_bottom = IF b <= Greater(1, t) \/ b > con.size_y
                                  THEN con.size_y - 1 ELSE b - 1]
    BY <1>4 DEF SetMargins
  <2> DEFINE top == IF b <= Greater(1, t) \/ b > con.size_y THEN 0 ELSE Greater(1, t) - 1
             bottom == IF b <= Greater(1, t) \/ b > con.size_y THEN con.size_y - 1 ELSE b - 1
  <2>2. top \in Nat /\ bottom \in Nat /\ top <= bottom /\ bottom < con.size_y
    BY <1>1 DEF Greater
  <2>3. con' = [con EXCEPT !.margin_top = top, !.margin_bottom = bottom]
    BY <2>1
  <2> HIDE DEF top, bottom
  <2>4. con' = [con EXCEPT !.flags = con.flags, !.margin_top = top, !.margin_bottom = bottom]
    BY <1>1, <2>3 DEF Cons
  <2> QED
    BY <1>2, <1>3, <2>2, <2>4
<1>5. CASE SetFlag \/ ResetFlag
  <2>1. PICK f \in client.flags : \/ con' = [con EXCEPT !.flags = @ \cup {f}]
                                  \/ con' = [con EXCEPT !.flags = @ \ {f}]
    BY <1>5 DEF SetFlag, ResetFlag
  <2>2. PICK flags \in {con.flags \cup {f}, con.flags \ {f}} : con' = [con EXCEPT !.flags = flags]
    BY <2>1
  <2>3. flags \in SUBSET Flags /\ flags \subseteq con.flags \cup client.flags
    BY <1>2, <2>2
  <2>4. con' = [con EXCEPT !.flags = flags, !.margin_top = con.margin_top,
                           !.margin_bottom = con.margin_bottom]
    BY <1>1, <2>2 DEF Cons
  <2> QED
    BY <1>1, <1>3, <2>3, <2>4
<1>6. CASE Reset
  <2> DEFINE bottom == con.size_y - 1
  <2>1. con' = [con EXCEPT !.flags = {}, !.margin_top = 0, !.margin_bottom = bottom]
    BY <1>6 DEF Reset
  <2>2. bottom \in Nat /\ 0 <= bottom /\ bottom < con.size_y
    BY <1>1
  <2> HIDE DEF bottom
  <2>3. 0 \in Nat /\ {} \in SUBSET Flags /\ {} \subseteq con.flags \cup client.flags
    OBVIOUS
  <2> QED
    BY <1>3, <2>1, <2>2, <2>3
<1> QED
  BY <1>4, <1>5, <1>6 DEF Mode

\* SetMaxSb, ClearSb
LEMMA ScrollbackSteps ==
    ASSUME Sound(con), Placed(con), client \in Clients, SetMaxSb \/ ClearSb
    PROVE  Quiet(con, con')
<1>1. CASE SetMaxSb
  <2>1. PICK max \in client.sb_maxes : con' = Limited(con, max)
    BY <1>1 DEF SetMaxSb, Limited, Gone, Cropped, Uncovered
  <2>2. max \in Nat
    BY ClientValues
  <2> QED
    BY <2>1, <2>2, SetMaxCall DEF Quiet
<1>2. CASE ClearSb
  <2>1. con' = Cleared(con)
    BY <1>2 DEF ClearSb, Cleared
  <2> QED
    BY <2>1, ClearCall DEF Quiet
<1> QED
  BY <1>1, <1>2

\* SbUp, SbDown, SbReset, SelectionStart, SelectionTarget, SelectionReset
LEMMA ViewSteps ==
    ASSUME Sound(con), Placed(con), View \/ Select
    PROVE  Quiet(con, con')
<1>1. CASE View
  <2>1. (\E i : con' = ToSb(con, "sb_pos", i)) \/ con' = ToNull(con, "sb_pos")
    BY <1>1 DEF View, SbUp, SbDown, SbReset
  <2> QED
    BY <2>1, ViewCall DEF Quiet
<1>2. ASSUME NEW row \in Columns(con.size_y) PROVE row \in Nat
  BY SoundNumbers DEF Columns
<1>3. CASE SelectionStart
  <2>1. PICK row \in Columns(con.size_y) : con' = Selecting(BothSet(con, row), TRUE)
    BY <1>3 DEF SelectionStart, Selecting, BothSet
  <2>2. Marking(con, BothSet(con, row), Ends)
    BY <1>2, BothSetMarking
  <2> QED
    BY <2>1, <2>2, SelectingCall DEF Quiet
<1>4. CASE SelectionTarget
  <2>1. PICK row \in Columns(con.size_y) : con' = EndSet(con, "sel_end", row)
    BY <1>4 DEF SelectionTarget
  <2>2. Marking(con, con', {"sel_end"})
    BY <1>2, <2>1, EndSetMarking, MarkNames
  <2> QED
    BY <2>2, MarkingCall DEF Quiet
<1>5. CASE SelectionReset
  <2>1. con' = Forgotten(con)
    BY <1>5 DEF SelectionReset, Forgotten
  <2> QED
    BY <2>1, ForgottenCall DEF Quiet
<1> QED
  BY <1>1, <1>3, <1>4, <1>5 DEF Select

LEMMA EraseSteps ==
    ASSUME Sound(con), Placed(con), Erase
    PROVE  /\ Stays(con, con') /\ (Live(con) => Live(con')) /\ Separate(con, con')
           /\ SameSize(con, con') /\ con'.flags = con.flags
<1>1. \E x0, y0, x1, y1 : con' = EraseRegion(con, x0, y0, x1, y1)
  BY DEF Erase
<1> QED
  BY <1>1, EraseStep

LEMMA ResizeSteps ==
    ASSUME Sound(con), Placed(con), client \in Clients, Resize
    PROVE  \/ Stays(con, con') /\ Resizing /\ con'.flags = con.flags
           \/ Quiet(con, con')
<1>1. PICK x \in client.widths, y \in client.heights :
          /\ x # con.size_x \/ y # con.size_y
          /\ \/ \E failed \in Failed : con' = Resized(con, x, y, failed)
             \/ client.memory_fails /\ con' \in ResizeFailures(con, x, y)
  BY DEF Resize
<1>2. x \in Nat \ {0} /\ y \in Nat \ {0}
  BY ClientValues
<1>3. CASE \E failed \in Failed : con' = Resized(con, x, y, failed)
  <2>1. /\ Stays(con, con') /\ con'.flags = con.flags
        /\ con'.size_x = x /\ con'.size_y = y
    BY <1>2, <1>3, ResizedCall
  <2>2. Resizing
    BY <1>1, <2>1 DEF Resizing
  <2> QED
    BY <2>1, <2>2
<1>4. CASE con' \in ResizeFailures(con, x, y)
  BY <1>2, <1>4, FailureCall DEF Quiet
<1> QED
  BY <1>1, <1>3, <1>4

-----------------------------------------------------------------------------
(* The invariants. *)

Drift == \A e \in Ends : con.y[e] <= client.max_sel_y

\* The inductive invariant: the screen is sound, the cursor on it, and the view in
\* the scrollback.
IInv == /\ client \in Clients
        /\ Sound(con) /\ Placed(con) /\ Viewed(con)
        /\ con.flags \subseteq client.flags
        /\ Drift

LEMMA InitIInv == Init => IInv /\ Live(con)
<1> SUFFICES ASSUME Init PROVE IInv /\ Live(con)
  OBVIOUS
<1> DEFINE w == client.new_x
           h == client.new_y
           s == [i \in 1..h |-> NewLine(w)]
<1>1. client \in Clients
  BY DEF Init
<1>2. w \in Nat \ {0} /\ h \in Nat \ {0} /\ client.max_sel_y \in Nat
  BY <1>1, ClientValues
<1>3. s \in Seq(Line) /\ Len(s) = h /\ DOMAIN s = 1..h
  <2>1. s \in [1..h -> Line]
    BY <1>2, NewLineType
  <2> HIDE DEF s
  <2> QED
    BY <1>2, <2>1, LinesSeq
<1>4. Unmarked(s, "sb_pos")
  BY <1>2, <1>3, NewLineType DEF Unmarked
<1>5. << >> \in Seq(Line) /\ Len(<< >>) = 0 /\ DOMAIN << >> = {}
  BY EmptySeq, SeqLines
<1>6. con = [main |-> s, alt |-> s, sb |-> << >>, sb_max |-> 0, size_x |-> w, size_y |-> h,
             margin_top |-> 0, margin_bottom |-> h - 1, cursor_x |-> 0, cursor_y |-> 0,
             flags |-> {}, sel_active |-> FALSE, y |-> [e \in Ends |-> 0], dangling |-> {}]
  BY DEF Init
<1> HIDE DEF s, w, h
<1>7. [e \in Ends |-> 0] \in [Ends -> RowOrTop] /\ h - 1 \in Nat
  BY <1>2 DEF RowOrTop
<1>8. con \in Cons
  BY <1>2, <1>3, <1>5, <1>6, <1>7 DEF Cons
<1>9. Sound(con) /\ Placed(con)
  BY <1>2, <1>3, <1>6, <1>7, <1>8 DEF Sound, Placed
<1>10. Viewed(con)
  BY <1>4, <1>5, <1>6 DEF Viewed, Sole
<1>11. Drift /\ con.flags \subseteq client.flags /\ Live(con)
  BY <1>2, <1>6 DEF Drift, Live
<1> QED
  BY <1>1, <1>9, <1>10, <1>11 DEF IInv

\* What any step does.
LEMMA AnyStep ==
    ASSUME IInv, Next
    PROVE  /\ Stays(con, con') /\ con'.flags \subseteq client.flags
           /\ Resizing \/ Erase \/ Regional(con, con')
           /\ Separate(con, con')
           /\ "resize" \notin client.calls /\ Live(con) => Live(con')
           /\ Resize \/ SameSize(con, con')
           /\ DriftBounded /\ client' = client
<1>1. /\ Sound(con) /\ Placed(con) /\ client \in Clients /\ con.flags \subseteq client.flags
  BY DEF IInv
<1>2. DriftBounded /\ client' = client
  BY DEF Next
<1>3. CASE Quiet(con, con')
  BY <1>1, <1>2, <1>3 DEF Quiet, Call
<1>4. CASE SetMargins \/ Mode
  BY <1>1, <1>2, <1>4, SettingSteps DEF Call
<1>5. CASE Erase
  BY <1>1, <1>2, <1>5, EraseSteps
<1>6. CASE "resize" \in client.calls /\ Resize
  <2>1. CASE Stays(con, con') /\ Resizing /\ con'.flags = con.flags
    <3>1. Separate(con, con')
      BY <2>1 DEF Separate, Resizing
    <3> QED
      BY <1>1, <1>2, <1>6, <2>1, <3>1
  <2> QED
    BY <1>1, <1>3, <1>6, <2>1, ResizeSteps
<1>7. CASE Write \/ Newline \/ EditChars \/ Move
  BY <1>1, <1>3, <1>7, WritingSteps, CharsSteps, MoveSteps
<1>8. CASE Scroll \/ EditLines \/ SetMaxSb \/ ClearSb \/ View \/ Select
  BY <1>1, <1>3, <1>8, LinesSteps, ScrollbackSteps, ViewSteps
<1> QED
  BY <1>4, <1>5, <1>6, <1>7, <1>8 DEF Next, Text

LEMMA StepIInv == IInv /\ [Next]_<<con, client>> => IInv'
<1> SUFFICES ASSUME IInv, [Next]_<<con, client>> PROVE IInv'
  OBVIOUS
<1>1. CASE Next
  <2>1. /\ Stays(con, con') /\ con'.flags \subseteq client.flags
        /\ DriftBounded /\ client' = client
    BY <1>1, AnyStep
  <2>2. Sound(con') /\ Placed(con') /\ Viewed(con') /\ client \in Clients
    BY <2>1 DEF Stays, IInv
  <2>3. Sound(con)' /\ Placed(con)' /\ Viewed(con)'
    BY <2>2 DEF Sound, Placed, Viewed, Unmarked, Sole
  <2>4. Drift'
    BY <2>1 DEF DriftBounded, Drift
  <2> QED
    BY <2>1, <2>2, <2>3, <2>4 DEF IInv
<1>2. CASE UNCHANGED <<con, client>>
  BY <1>2 DEF IInv, Sound, Placed, Viewed, Unmarked, Sole, Drift
<1> QED
  BY <1>1, <1>2

LEMMA SpecIInv == Spec => []IInv
<1>1. Init => IInv
  BY InitIInv
<1> QED
  BY <1>1, StepIInv, PTL DEF Spec

\* For every size of the screen and every sequence of calls, resizes that run out of
\* memory included, the rows that screen_write, the scrolls and the line edits index
\* exist in both buffers, the cursor is on one of them, and the margins enclose a
\* region of the screen.
THEOREM ScreenInBounds == Spec => []InBounds
<1>1. IInv => InBounds
  <2> SUFFICES ASSUME IInv PROVE InBounds
    OBVIOUS
  <2>1. con \in Cons /\ Sound(con) /\ Placed(con) /\ con.flags \subseteq client.flags
    BY DEF IInv, Sound
  <2>2. \A s \in {con.main, con.alt, con.sb} : \A i \in DOMAIN s : LineOK(s[i])
    <3>1. \A s \in {con.main, con.alt, con.sb} : s \in Seq(Line)
      BY <2>1 DEF Cons
    <3>2. \A l \in Line : LineOK(l)
      BY LineFields DEF LineOK, Marks
    <3> QED
      BY <3>1, <3>2, SeqLines
  <2>3. con.y \in [Ends -> -1..client.max_sel_y]
    <3>1. client.max_sel_y \in Nat
      BY ClientValues DEF IInv
    <3>2. con.y \in [Ends -> RowOrTop] /\ \A e \in Ends : con.y[e] <= client.max_sel_y
      BY <2>1 DEF Cons, IInv, Drift
    <3>3. \A e \in Ends : con.y[e] \in -1..client.max_sel_y
      BY <3>1, <3>2 DEF RowOrTop, SelectionTop
    <3> QED
      BY <3>2, <3>3
  <2>4. TypeOK
    BY <2>1, <2>2, <2>3 DEF Cons, TypeOK
  <2> QED
    BY <2>1, <2>4 DEF InBounds, Sound, Placed
<1> QED
  BY <1>1, SpecIInv, PTL

\* The view of the scrollback is always a line that is in it, however lines are
\* pushed, evicted, cleared or taken back, and the scrollback never holds more than
\* its limit: link_to_scrollback, tsm_screen_set_max_sb, tsm_screen_clear_sb and
\* tsm_screen_resize each keep sb_pos off the lines they free.
THEOREM ViewStaysInScrollback == Spec => []ViewInScrollback
<1>1. IInv => ViewInScrollback
  <2> SUFFICES ASSUME IInv PROVE ViewInScrollback
    OBVIOUS
  <2>1. con.main \in Seq(Line) /\ Viewed(con)
    BY DEF IInv, Sound, Cons
  <2> QED
    BY <2>1, InMainType DEF ViewInScrollback, Viewed
<1> QED
  BY <1>1, SpecIInv, PTL

\* As long as the screen is not resized, no end of an active selection points at a
\* line that has been freed: whatever scrolls, is evicted or cleared, the end moves
\* to the top first.
THEOREM SelectionStaysLive ==
    Spec => []("resize" \notin client.calls => SelectionIsLive)
<1> DEFINE L == "resize" \notin client.calls => Live(con)
<1>1. Init => L
  BY InitIInv
<1>2. IInv /\ L /\ [Next]_<<con, client>> => L'
  <2> SUFFICES ASSUME IInv, L, [Next]_<<con, client>> PROVE L'
    OBVIOUS
  <2>1. CASE Next
    BY <2>1, AnyStep DEF Live
  <2>2. CASE UNCHANGED <<con, client>>
    BY <2>2 DEF Live
  <2> QED
    BY <2>1, <2>2
<1>3. L => ("resize" \notin client.calls => SelectionIsLive)
  BY DEF Live, SelectionIsLive
<1> HIDE DEF L
<1> QED
  BY <1>1, <1>2, <1>3, SpecIInv, PTL DEF Spec

\* Only an erase and a resize change text outside the scrolling region, but for the
\* row the cursor leaves or reaches.
THEOREM RegionSafe == Spec => RegionKeepsTheRest
<1>1. IInv /\ [Next]_<<con, client>> =>
         [\/ Resizing \/ Erase
          \/ \A i \in Rows(con) :
                \/ con.margin_top < i /\ i <= con.margin_bottom + 1
                \/ i - 1 \in {con.cursor_y, con'.cursor_y}
                \/ con'.main[i].ink = con.main[i].ink]_con
  <2> SUFFICES ASSUME IInv, Next
               PROVE  \/ Resizing \/ Erase \/ Regional(con, con')
    BY DEF Regional
  <2> QED
    BY AnyStep
<1> QED
  BY <1>1, SpecIInv, PTL DEF Spec, RegionKeepsTheRest

\* Nothing a program does on the alternate screen changes the text of the main
\* screen, and the scrollback keeps its text unless it is cleared.
THEOREM AlternateApart == Spec => AlternateLeavesMain
<1>1. IInv /\ [Next]_<<con, client>> =>
         [/\ "ALTERNATE" \in con.flags \cap con'.flags
          /\ <<con.size_x, con.size_y, con.sb_max>>
               = <<con'.size_x, con'.size_y, con'.sb_max>>
          => /\ \A i \in Rows(con) : con'.main[i].ink = con.main[i].ink
             /\ con'.sb = << >> \/ Inks(con'.sb) = Inks(con.sb)]_con
  <2> SUFFICES ASSUME IInv, Next,
                      "ALTERNATE" \in con.flags \cap con'.flags,
                      <<con.size_x, con.size_y, con.sb_max>>
                          = <<con'.size_x, con'.size_y, con'.sb_max>>
               PROVE  /\ \A i \in Rows(con) : con'.main[i].ink = con.main[i].ink
                      /\ con'.sb = << >> \/ Inks(con'.sb) = Inks(con.sb)
    OBVIOUS
  <2>1. Separate(con, con')
    BY AnyStep
  <2>2. Viewed(con)
    BY DEF IInv
  <2> QED
    BY <2>1, <2>2 DEF Separate
<1> QED
  BY <1>1, SpecIInv, PTL DEF Spec, AlternateLeavesMain

\* A resize of the main screen that has the memory it needs keeps every line with
\* text, in its order and its distance from the others, whatever sizes the screen has
\* and takes: tsm_screen_resize drops only empty lines below the cursor, takes lines
\* back from the scrollback only for empty ones, scrolls what is too much off the top,
\* and link_to_scrollback frees lines only when the scrollback is full.
THEOREM TextSurvivesResize == Spec => ResizeKeepsText
<1>1. IInv /\ [Next]_<<con, client>> =>
         [EnoughMemory /\ "ALTERNATE" \notin con.flags => KeepsText(con, con')]_con
  <2> SUFFICES ASSUME IInv, Next, EnoughMemory, "ALTERNATE" \notin con.flags
               PROVE  KeepsText(con, con')
    OBVIOUS
  <2>1. con'.size_x \in Nat \ {0} /\ con'.size_y \in Nat \ {0}
    BY AnyStep DEF Stays, Sound, Cons
  <2>2. con' = Resized(con, con'.size_x, con'.size_y, {})
    BY DEF EnoughMemory
  <2>3. Sound(con) /\ Placed(con)
    BY DEF IInv
  <2>4. \A x, y \in Nat \ {0} : KeepsText(con, Resized(con, x, y, {}))
    BY <2>3, ResizedText
  <2> QED
    BY <2>1, <2>2, <2>4
<1> QED
  BY <1>1, SpecIInv, PTL DEF Spec, ResizeKeepsText

\* A resize of the main screen, with memory or without, leaves the cursor on the last
\* line with text when that is where it was: what tsm_screen_resize takes back from the
\* scrollback moves the cursor with it, and what it scrolls off as well.
THEOREM PromptSurvivesResize == Spec => ResizeKeepsPrompt
<1>1. IInv /\ [Next]_<<con, client>> =>
         [/\ Resizing
          /\ "ALTERNATE" \notin con.flags
          /\ AtPrompt(con, Lesser(con.size_x, con'.size_x))
          => AtPrompt(con', con'.size_x)]_con
  <2> SUFFICES ASSUME IInv, Next, Resizing, "ALTERNATE" \notin con.flags,
                      AtPrompt(con, Lesser(con.size_x, con'.size_x))
               PROVE  AtPrompt(con', con'.size_x)
    OBVIOUS
  <2>1. Sound(con) /\ Placed(con) /\ client \in Clients
    BY DEF IInv
  <2>2. ~SameSize(con, con')
    BY DEF SameSize, Resizing
  <2>3. Resize
    BY <2>2, AnyStep
  <2>4. PICK x \in client.widths, y \in client.heights :
            \/ \E failed \in Failed : con' = Resized(con, x, y, failed)
            \/ con' \in ResizeFailures(con, x, y)
    BY <2>3 DEF Resize
  <2>5. x \in Nat \ {0} /\ y \in Nat \ {0}
    BY <2>1, ClientValues
  <2>6. con' \notin ResizeFailures(con, x, y)
    BY <2>1, <2>2, <2>5, FailureCall DEF Call
  <2>7. PICK failed \in Failed : con' = Resized(con, x, y, failed)
    BY <2>4, <2>6
  <2>8. con'.size_x = x
    BY <2>1, <2>5, <2>7, ResizedCall
  <2> QED
    BY <2>1, <2>5, <2>7, <2>8, ResizedPrompt
<1> QED
  BY <1>1, SpecIInv, PTL DEF Spec, ResizeKeepsPrompt

-----------------------------------------------------------------------------
(* The ends of the selection and the text they were put on. *)

\* No region, no alternate screen, and no lines below the screen.
Whole(c) == /\ c.margin_top = 0 /\ c.margin_bottom = c.size_y - 1
            /\ Len(c.main) = c.size_y /\ "ALTERNATE" \notin c.flags

\* The end e of an active selection: a line of the scrollback that has its text
\* has the end as well; when the text is on the screen the end is a row, the row of
\* the text.
Berth(c, e) ==
    /\ Unmarked(c.main, e) /\ Sole(c.sb, e)
    /\ \A i \in DOMAIN c.sb : AnchorOf(e) \in c.sb[i].ptr => e \in c.sb[i].ptr
    /\ \A i \in DOMAIN c.main :
          AnchorOf(e) \in c.main[i].ptr => Unmarked(c.sb, e) /\ c.y[e] = i - 1

Berths(c) == c.sel_active => \A e \in Ends : Berth(c, e)

\* The lines of t have the marks of the end e, and of its text, that those of s have.
SameMarks(s, t, e) ==
    /\ DOMAIN t = DOMAIN s
    /\ \A i \in DOMAIN s : /\ e \in t[i].ptr <=> e \in s[i].ptr
                           /\ AnchorOf(e) \in t[i].ptr <=> AnchorOf(e) \in s[i].ptr

\* What happens to c does not concern the end e.
Spares(c, d, e) ==
    /\ d.y[e] = c.y[e]
    /\ SameMarks(c.main, d.main, e) /\ SameMarks(c.sb, d.sb, e)

LEMMA SparedBerth ==
    ASSUME NEW c, NEW d, NEW e, Spares(c, d, e), Berth(c, e)
    PROVE  Berth(d, e)
BY DEF Spares, SameMarks, Berth, Unmarked, Sole

LEMMA SparesTwice ==
    ASSUME NEW c, NEW d, NEW f, NEW e, Spares(c, d, e), Spares(d, f, e)
    PROVE  Spares(c, f, e)
BY DEF Spares, SameMarks

LEMMA SparedBerths ==
    ASSUME NEW c, NEW d, Berths(c), d.sel_active = c.sel_active,
           \A e \in Ends : Spares(c, d, e)
    PROVE  Berths(d)
BY SparedBerth DEF Berths

\* Lines with the marks they had.
LEMMA SamePtr ==
    ASSUME NEW s, NEW t, NEW e, DOMAIN t = DOMAIN s, \A i \in DOMAIN s : t[i].ptr = s[i].ptr
    PROVE  SameMarks(s, t, e)
BY DEF SameMarks

LEMMA EndNames ==
    ASSUME NEW e \in Ends
    PROVE  /\ e \in Pointer /\ e \in Marks /\ e # "sb_pos"
           /\ AnchorOf(e) \in Anchor /\ AnchorOf(e) \in Marks /\ AnchorOf(e) \notin Pointer
           /\ \A f \in Ends : f # AnchorOf(e) /\ (f # e => AnchorOf(f) # AnchorOf(e))
BY MarkNames

\* A pointer that is set concerns that pointer only.
LEMMA ToSbSpares ==
    ASSUME NEW c \in Cons, NEW p \in Pointer, NEW i, NEW e \in Ends, e # p
    PROVE  Spares(c, ToSb(c, p, i), e)
<1> DEFINE d == ToSb(c, p, i)
<1>1. Pointing(c, p, i, d)
  BY ToSbType
<1>2. AnchorOf(e) # p
  BY EndNames
<1> HIDE DEF d
<1>3. SameMarks(c.main, d.main, e)
  BY <1>1, <1>2 DEF Pointing, SameMarks
<1>4. SameMarks(c.sb, d.sb, e)
  BY <1>1, <1>2 DEF Pointing, SameMarks
<1>5. Spares(c, d, e)
  BY <1>1, <1>3, <1>4 DEF Spares, Pointing
<1> QED
  BY <1>5 DEF d

LEMMA ToNullSpares ==
    ASSUME NEW c \in Cons, NEW e \in Ends
    PROVE  Spares(c, ToNull(c, "sb_pos"), e)
<1> DEFINE d == ToNull(c, "sb_pos")
<1>1. "sb_pos" \in Pointer /\ c.sb \in Seq(Line) /\ c.main \in Seq(Line)
  BY MarkNames DEF Cons
<1>2. /\ d.y = c.y /\ d.sb = Unpointed(c.sb, "sb_pos")
      /\ d.main = Unpointed(c.main, "sb_pos")
  BY <1>1, ToNullType
<1>3. e # "sb_pos" /\ AnchorOf(e) # "sb_pos"
  BY EndNames, MarkNames
<1> HIDE DEF d
<1>4. /\ DOMAIN d.main = DOMAIN c.main
      /\ \A i \in DOMAIN c.main : d.main[i].ptr = c.main[i].ptr \ {"sb_pos"}
      /\ DOMAIN d.sb = DOMAIN c.sb
      /\ \A i \in DOMAIN c.sb : d.sb[i].ptr = c.sb[i].ptr \ {"sb_pos"}
  BY <1>1, <1>2, UnpointedType
<1>5. Spares(c, d, e)
  BY <1>2, <1>3, <1>4 DEF Spares, SameMarks
<1> QED
  BY <1>5 DEF d

\* Calls that change no mark and move no end.
LEMMA SameSpares ==
    ASSUME NEW c, NEW d, NEW e, d.y = c.y, d.main = c.main, d.sb = c.sb
    PROVE  Spares(c, d, e)
BY DEF Spares, SameMarks

-----------------------------------------------------------------------------
(* Scrolling with a selection. *)

\* Between the move of the rows and that of the end e: text of the end that has
\* left the screen is where the end will be when it has moved up by num.
Afloat(c, e, num) ==
    /\ Unmarked(c.main, e) /\ Sole(c.sb, e)
    /\ \A i \in DOMAIN c.sb : AnchorOf(e) \in c.sb[i].ptr =>
          \/ e \in c.sb[i].ptr
          \/ /\ Unmarked(c.sb, e) /\ c.y[e] >= 0
             /\ c.y[e] - num = (i - 1) - Len(c.sb)
    /\ \A i \in DOMAIN c.main : AnchorOf(e) \in c.main[i].ptr =>
          Unmarked(c.sb, e) /\ c.y[e] = (i - 1) + num

LEMMA SparedAfloat ==
    ASSUME NEW c \in Cons, NEW d \in Cons, NEW e, NEW num, Spares(c, d, e),
           Afloat(c, e, num)
    PROVE  Afloat(d, e, num)
<1>1. Len(d.sb) = Len(c.sb)
  <2>1. /\ DOMAIN d.sb = 1..Len(d.sb) /\ DOMAIN c.sb = 1..Len(c.sb)
        /\ Len(d.sb) \in Nat /\ Len(c.sb) \in Nat
    BY SeqLines DEF Cons
  <2>2. DOMAIN d.sb = DOMAIN c.sb
    BY DEF Spares, SameMarks
  <2> QED
    BY <2>1, <2>2
<1> QED
  BY <1>1 DEF Spares, SameMarks, Afloat, Unmarked, Sole

\* An end is NULL when no line has it: of an active selection none dangles.
LEMMA NullEnd ==
    ASSUME NEW c \in Cons, NEW e \in Ends, c.sel_active, Live(c), Unmarked(c.main, e)
    PROVE  IsNull(c, e) <=> Unmarked(c.sb, e)
<1>1. c.main \in Seq(Line) /\ c.sb \in Seq(Line)
  BY DEF Cons
<1> QED
  BY <1>1, InSbType, InMainType DEF IsNull, Live

\* An end that is moved to another row.
LEMMA RowOf ==
    ASSUME NEW c \in Cons, NEW e \in Ends, NEW row \in RowOrTop
    PROVE  /\ [c EXCEPT !.y[e] = row].main = c.main /\ [c EXCEPT !.y[e] = row].sb = c.sb
           /\ [c EXCEPT !.y[e] = row].sel_active = c.sel_active
           /\ [c EXCEPT !.y[e] = row].y[e] = row
           /\ \A f \in Ends : f # e => [c EXCEPT !.y[e] = row].y[f] = c.y[f]
<1> DEFINE d == [c EXCEPT !.y[e] = row]
           r == [c.y EXCEPT ![e] = row]
<1>1. c.y \in [Ends -> RowOrTop]
  BY DEF Cons
<1>2. r[e] = row /\ \A f \in Ends : f # e => r[f] = c.y[f]
  BY <1>1
<1>3. d.main = c.main /\ d.sb = c.sb /\ d.sel_active = c.sel_active /\ d.y = r
  BY DEF Cons
<1> HIDE DEF d, r
<1> QED
  BY <1>2, <1>3 DEF d

LEMMA SelectionUpBerth ==
    ASSUME NEW c \in Cons, NEW e \in Ends, NEW num \in Nat, c.sel_active, Live(c),
           Afloat(c, e, num)
    PROVE  Berth(SelectionUp(c, e, num), e)
<1> DEFINE y == c.y[e] - num
           k == Greater(0, Len(c.sb) + 1 + y)
           t == ToSb(c, e, k)
           u == [c EXCEPT !.y[e] = y]
           v == [t EXCEPT !.y[e] = SelectionTop]
<1>1. /\ c.sb \in Seq(Line) /\ Len(c.sb) \in Nat /\ DOMAIN c.sb = 1..Len(c.sb)
      /\ c.main \in Seq(Line) /\ Len(c.main) \in Nat /\ DOMAIN c.main = 1..Len(c.main)
      /\ c.y[e] \in RowOrTop /\ e \in Pointer
  BY SeqLines, EndNames DEF Cons
<1>2. SelectionUp(c, e, num) = IF ~IsNull(c, e) \/ c.y[e] < 0 THEN c
                               ELSE IF y >= 0 THEN u ELSE v
  BY DEF SelectionUp
<1>3. Unmarked(c.main, e) /\ (IsNull(c, e) <=> Unmarked(c.sb, e))
  BY NullEnd DEF Afloat
<1>4. c.y[e] \in Int /\ (c.y[e] >= 0 => c.y[e] \in Nat)
  BY <1>1 DEF RowOrTop, SelectionTop
<1>5. CASE ~Unmarked(c.sb, e)
  <2>1. SelectionUp(c, e, num) = c
    BY <1>2, <1>3, <1>5
  <2>2. Berth(c, e)
    BY <1>5 DEF Berth, Afloat
  <2> QED
    BY <2>1, <2>2
<1>6. CASE Unmarked(c.sb, e) /\ c.y[e] < 0
  <2>1. SelectionUp(c, e, num) = c
    BY <1>2, <1>6
  <2>2. \A i \in DOMAIN c.sb : AnchorOf(e) \notin c.sb[i].ptr
    BY <1>4, <1>6 DEF Afloat, Unmarked
  <2>3. \A i \in DOMAIN c.main : AnchorOf(e) \notin c.main[i].ptr
    <3>1. \A i \in DOMAIN c.main : (i - 1) + num >= 0
      BY <1>1
    <3> QED
      BY <1>4, <1>6, <3>1 DEF Afloat
  <2>4. Berth(c, e)
    BY <2>2, <2>3 DEF Berth, Afloat
  <2> QED
    BY <2>1, <2>4
<1>7. CASE Unmarked(c.sb, e) /\ c.y[e] >= 0 /\ y >= 0
  <2>1. SelectionUp(c, e, num) = u
    BY <1>2, <1>3, <1>4, <1>7
  <2>2. y \in RowOrTop
    BY <1>4, <1>7 DEF RowOrTop
  <2> DEFINE row == y
  <2>3. u = [c EXCEPT !.y[e] = row]
    OBVIOUS
  <2> HIDE DEF row, u
  <2>4. u.main = c.main /\ u.sb = c.sb /\ u.y[e] = row
    <3>1. row \in RowOrTop
      BY <2>2 DEF row
    <3> QED
      BY <2>3, <3>1, RowOf
  <2>5. \A i \in DOMAIN c.sb : AnchorOf(e) \notin c.sb[i].ptr
    <3> SUFFICES ASSUME NEW i \in DOMAIN c.sb, AnchorOf(e) \in c.sb[i].ptr PROVE FALSE
      OBVIOUS
    <3>1. e \notin c.sb[i].ptr
      BY <1>7 DEF Unmarked
    <3>2. y = (i - 1) - Len(c.sb)
      BY <3>1 DEF Afloat
    <3> QED
      BY <1>1, <1>7, <3>2
  <2>6. ASSUME NEW i \in DOMAIN c.main, AnchorOf(e) \in c.main[i].ptr
        PROVE  row = i - 1
    <3>1. c.y[e] = (i - 1) + num
      BY <2>6 DEF Afloat
    <3> QED
      BY <1>1, <1>4, <3>1 DEF row
  <2>7. Berth(u, e)
    BY <1>3, <1>7, <2>4, <2>5, <2>6 DEF Berth, Afloat
  <2> QED
    BY <2>1, <2>7
<1>8. CASE Unmarked(c.sb, e) /\ c.y[e] >= 0 /\ ~(y >= 0)
  <2>1. SelectionUp(c, e, num) = v
    BY <1>2, <1>3, <1>4, <1>8
  <2>2. Pointing(c, e, k, t) /\ t \in Cons
    <3> HIDE DEF k
    <3>1. Pointing(c, e, k, t)
      BY <1>1, ToSbType
    <3> QED
      BY <3>1 DEF Pointing
  <2>3. SelectionTop \in RowOrTop
    BY DEF RowOrTop
  <2>4. ASSUME NEW i \in DOMAIN c.sb, AnchorOf(e) \in c.sb[i].ptr PROVE i = k
    <3>1. e \notin c.sb[i].ptr
      BY <1>8 DEF Unmarked
    <3>2. y = (i - 1) - Len(c.sb)
      BY <2>4, <3>1 DEF Afloat
    <3>3. Len(c.sb) + 1 + y = i /\ i > 0
      BY <1>1, <1>4, <3>2, SMTT(20)
    <3> QED
      BY <3>3 DEF Greater
  <2>5. \A i \in DOMAIN c.main : AnchorOf(e) \notin c.main[i].ptr
    <3> SUFFICES ASSUME NEW i \in DOMAIN c.main, AnchorOf(e) \in c.main[i].ptr PROVE FALSE
      OBVIOUS
    <3>1. c.y[e] = (i - 1) + num
      BY DEF Afloat
    <3> QED
      BY <1>1, <1>4, <1>8, <3>1
  <2>6. AnchorOf(e) # e
    BY EndNames
  <2> HIDE DEF t, k
  <2>7. v.main = t.main /\ v.sb = t.sb
    BY <2>2, <2>3, RowSet
  <2> HIDE DEF v
  <2>8. /\ DOMAIN v.sb = DOMAIN c.sb /\ DOMAIN v.main = DOMAIN c.main
        /\ \A j \in DOMAIN c.main : v.main[j].ptr = c.main[j].ptr \ {e}
        /\ \A j \in DOMAIN c.sb :
              v.sb[j].ptr = IF j = k THEN c.sb[j].ptr \cup {e} ELSE c.sb[j].ptr \ {e}
    BY <2>2, <2>7 DEF Pointing
  <2>9. Unmarked(v.main, e) /\ Sole(v.sb, e)
    <3>1. Unmarked(v.main, e)
      BY <2>8 DEF Unmarked
    <3>2. \A j \in DOMAIN v.sb : e \in v.sb[j].ptr => j = k
      BY <1>8, <2>8 DEF Unmarked
    <3> QED
      BY <3>1, <3>2 DEF Sole
  <2>10. \A i \in DOMAIN v.sb : AnchorOf(e) \in v.sb[i].ptr => e \in v.sb[i].ptr
    BY <2>4, <2>6, <2>8
  <2>11. \A i \in DOMAIN v.main : AnchorOf(e) \notin v.main[i].ptr
    BY <2>5, <2>8
  <2>12. Berth(v, e)
    BY <2>9, <2>10, <2>11 DEF Berth
  <2> QED
    BY <2>1, <2>12
<1> QED
  BY <1>4, <1>5, <1>6, <1>7, <1>8

\* The move of one end does not concern the other.
LEMMA SelectionUpSpares ==
    ASSUME NEW c \in Cons, NEW f \in Ends, NEW num \in Nat, NEW e \in Ends, e # f
    PROVE  Spares(c, SelectionUp(c, f, num), e)
<1> DEFINE y == c.y[f] - num
           k == Greater(0, Len(c.sb) + 1 + y)
           t == ToSb(c, f, k)
           u == [c EXCEPT !.y[f] = y]
           v == [t EXCEPT !.y[f] = SelectionTop]
<1>1. f \in Pointer /\ c.y[f] \in RowOrTop /\ SelectionTop \in RowOrTop
  BY EndNames DEF Cons, RowOrTop
<1>2. SelectionUp(c, f, num) = IF ~c.sel_active \/ ~IsNull(c, f) \/ c.y[f] < 0 THEN c
                               ELSE IF y >= 0 THEN u ELSE v
  BY DEF SelectionUp
<1>3. Spares(c, c, e)
  BY DEF Spares, SameMarks
<1>4. y >= 0 => Spares(c, u, e)
  <2> SUFFICES ASSUME y >= 0 PROVE Spares(c, u, e)
    OBVIOUS
  <2> DEFINE row == y
  <2>1. row \in RowOrTop
    BY <1>1 DEF RowOrTop, SelectionTop
  <2> HIDE DEF row
  <2>2. u = [c EXCEPT !.y[f] = row]
    BY DEF row
  <2>3. u.main = c.main /\ u.sb = c.sb /\ u.y[e] = c.y[e]
    BY <2>1, <2>2, RowSet
  <2> HIDE DEF u
  <2> QED
    BY <2>3 DEF Spares, SameMarks
<1>5. Spares(c, t, e) /\ t \in Cons
  BY <1>1, ToSbSpares, ToSbType DEF Pointing
<1> HIDE DEF t
<1>6. v.main = t.main /\ v.sb = t.sb /\ v.y[e] = t.y[e]
  BY <1>1, <1>5, RowSet
<1> HIDE DEF v
<1>7. Spares(c, v, e)
  BY <1>5, <1>6 DEF Spares, SameMarks
<1> QED
  BY <1>2, <1>3, <1>4, <1>7

\* What keeps lines and settings keeps the screen whole.
Moored(c) == Sound(c) /\ Whole(c) /\ Live(c) /\ Berths(c)

LEMMA MovesWhole ==
    ASSUME NEW c, Sound(c), Whole(c), Live(c), NEW d, Moves(c, d)
    PROVE  Sound(d) /\ Whole(d) /\ Live(d) /\ d.sel_active = c.sel_active
BY ScrollsSound DEF Moves, Same, Kept, Whole

\* Lines that differ in the mark of the view have the same ends.
LEMMA AlikeEnds ==
    ASSUME NEW l, NEW m, Alike(l, m), NEW e \in Ends
    PROVE  (e \in l.ptr <=> e \in m.ptr) /\ (AnchorOf(e) \in l.ptr <=> AnchorOf(e) \in m.ptr)
<1>1. e # "sb_pos" /\ AnchorOf(e) # "sb_pos"
  BY EndNames, MarkNames
<1> QED
  BY <1>1 DEF Alike

\* The first num rows are linked to the scrollback: old are these rows, u is the
\* screen with the others moved up, d the same with old in the scrollback.
LEMMA LinkedAfloat ==
    ASSUME NEW c \in Cons, c.sel_active, NEW e \in Ends, Berth(c, e),
           NEW num \in 0..Len(c.main),
           NEW old \in Seq(Line), Len(old) = num, \A i \in 1..num : old[i] = c.main[i],
           NEW u \in Cons, u.sb = c.sb, u.y = c.y, u.sel_active = c.sel_active,
           Len(u.main) = Len(c.main),
           \A i \in DOMAIN u.main :
              u.main[i].ptr = IF i <= Len(c.main) - num THEN c.main[i + num].ptr ELSE {},
           NEW d \in Cons, Linked(u, old, d)
    PROVE  Afloat(d, e, num)
<1> DEFINE a == AnchorOf(e)
           all == c.sb \o old
           n == Len(all)
           m == Len(c.sb)
           h == Len(c.main)
           ev == Evicted(u, num)
<1>1. /\ c.sb \in Seq(Line) /\ m \in Nat /\ DOMAIN c.sb = 1..m
      /\ c.main \in Seq(Line) /\ h \in Nat /\ DOMAIN c.main = 1..h /\ num \in Nat /\ num <= h
      /\ d.sb \in Seq(Line) /\ Len(d.sb) \in Nat /\ DOMAIN d.sb = 1..Len(d.sb)
      /\ d.main \in Seq(Line) /\ DOMAIN d.main = 1..Len(d.main)
      /\ DOMAIN u.main = 1..Len(u.main) /\ u.sb_max \in Nat
  BY SeqLines DEF Cons
<1>2. /\ n = m + num
      /\ \A j \in 1..n : all[j] = IF j <= m THEN c.sb[j] ELSE c.main[j - m]
  <2>1. /\ Len(all) = m + Len(old)
        /\ \A j \in 1..(m + Len(old)) : all[j] = IF j <= m THEN c.sb[j] ELSE old[j - m]
    <3>1. c.sb \in Seq(Line) /\ old \in Seq(Line)
      BY <1>1
    <3> HIDE DEF n, h, ev, a
    <3> QED
      BY <3>1, Joined
  <2>2. \A j \in 1..(m + num) : ~(j <= m) => j - m \in 1..num
    BY <1>1
  <2> QED
    BY <2>1, <2>2
<1>3. ev \in 0..n
  BY <1>1, <1>2 DEF Evicted, Greater
<1>4. /\ Len(d.sb) = n - ev /\ Len(d.main) = h
      /\ \A i \in DOMAIN d.sb : Alike(d.sb[i], all[i + ev])
      /\ \A i \in DOMAIN d.main : Alike(d.main[i], u.main[i])
      /\ d.y[e] = IF \E i \in 1..ev : e \in all[i].ptr THEN SelectionTop ELSE c.y[e]
  BY DEF Linked
<1> HIDE DEF a, all, n, m, h, ev
<1>5. ASSUME NEW j \in 1..n
      PROVE  /\ e \in all[j].ptr => j <= m /\ j \in DOMAIN c.sb /\ e \in c.sb[j].ptr
             /\ a \in all[j].ptr => \/ e \in all[j].ptr
                                    \/ j > m /\ Unmarked(c.sb, e) /\ c.y[e] = (j - m) - 1
  <2>1. CASE j <= m
    <3>1. all[j] = c.sb[j] /\ j \in DOMAIN c.sb
      BY <1>1, <1>2, <2>1
    <3> QED
      BY <2>1, <3>1 DEF Berth, a
  <2>2. CASE ~(j <= m)
    <3>1. all[j] = c.main[j - m] /\ j - m \in DOMAIN c.main /\ j > m
      BY <1>1, <1>2, <2>2
    <3>2. e \notin all[j].ptr
      BY <3>1 DEF Berth, Unmarked
    <3>3. a \in all[j].ptr => Unmarked(c.sb, e) /\ c.y[e] = (j - m) - 1
      BY <3>1 DEF Berth, a
    <3> QED
      BY <3>1, <3>2, <3>3
  <2> QED
    BY <2>1, <2>2
<1>6. ASSUME NEW i \in DOMAIN d.sb
      PROVE  /\ i + ev \in 1..n
             /\ e \in d.sb[i].ptr <=> e \in all[i + ev].ptr
             /\ a \in d.sb[i].ptr <=> a \in all[i + ev].ptr
  <2>1. i + ev \in 1..n
    BY <1>1, <1>2, <1>3, <1>4
  <2>2. Alike(d.sb[i], all[i + ev])
    BY <1>4
  <2> QED
    BY <2>1, <2>2, AlikeEnds DEF a
<1>7. ASSUME Unmarked(c.sb, e)
      PROVE  Unmarked(d.sb, e) /\ d.y[e] = c.y[e]
  <2>1. \A j \in 1..n : e \notin all[j].ptr
    BY <1>5, <1>7 DEF Unmarked
  <2>2. Unmarked(d.sb, e)
    BY <1>6, <2>1 DEF Unmarked
  <2>3. \A i \in 1..ev : i \in 1..n
    BY <1>1, <1>2, <1>3
  <2> QED
    BY <1>4, <2>1, <2>2, <2>3
<1>8. Sole(d.sb, e)
  <2> SUFFICES ASSUME NEW i \in DOMAIN d.sb, NEW j \in DOMAIN d.sb,
                      e \in d.sb[i].ptr, e \in d.sb[j].ptr
               PROVE  i = j
    BY DEF Sole
  <2>1. /\ i + ev \in DOMAIN c.sb /\ e \in c.sb[i + ev].ptr
        /\ j + ev \in DOMAIN c.sb /\ e \in c.sb[j + ev].ptr
    BY <1>5, <1>6
  <2>2. i + ev = j + ev
    BY <2>1 DEF Berth, Sole
  <2>3. i \in Int /\ j \in Int /\ ev \in Int
    BY <1>1, <1>3
  <2> QED
    BY <2>2, <2>3
<1>9. ASSUME NEW i \in DOMAIN d.sb, a \in d.sb[i].ptr
      PROVE  \/ e \in d.sb[i].ptr
             \/ Unmarked(d.sb, e) /\ d.y[e] >= 0 /\ d.y[e] - num = (i - 1) - Len(d.sb)
  <2>1. \/ e \in d.sb[i].ptr
        \/ i + ev > m /\ Unmarked(c.sb, e) /\ c.y[e] = ((i + ev) - m) - 1
    BY <1>5, <1>6, <1>9
  <2>2. i \in Int /\ ev \in Int
    BY <1>1, <1>3
  <2>3. CASE i + ev > m /\ Unmarked(c.sb, e) /\ c.y[e] = ((i + ev) - m) - 1
    <3>1. Unmarked(d.sb, e) /\ d.y[e] = ((i + ev) - m) - 1
      BY <1>7, <2>3
    <3>2. ((i + ev) - m) - 1 >= 0
      BY <1>1, <2>2, <2>3
    <3>3. (((i + ev) - m) - 1) - num = (i - 1) - ((m + num) - ev)
      BY <1>1, <2>2
    <3> QED
      BY <1>2, <1>4, <3>1, <3>2, <3>3
  <2> QED
    BY <2>1, <2>3
<1>10. ASSUME NEW i \in DOMAIN d.main
       PROVE  /\ e \notin d.main[i].ptr
              /\ a \in d.main[i].ptr =>
                    Unmarked(d.sb, e) /\ d.y[e] = (i - 1) + num
  <2>1. i \in 1..h /\ i \in DOMAIN u.main
    BY <1>1, <1>4 DEF h
  <2>2. (e \in d.main[i].ptr <=> e \in u.main[i].ptr)
        /\ (a \in d.main[i].ptr <=> a \in u.main[i].ptr)
    BY <1>4, AlikeEnds DEF a
  <2>3. u.main[i].ptr = IF i <= h - num THEN c.main[i + num].ptr ELSE {}
    BY <2>1 DEF h
  <2>4. CASE i <= h - num
    <3>1. i + num \in DOMAIN c.main /\ (i + num) - 1 = (i - 1) + num
      BY <1>1, <2>1, <2>4
    <3>2. e \notin c.main[i + num].ptr
      BY <3>1 DEF Berth, Unmarked
    <3>3. a \in c.main[i + num].ptr => Unmarked(c.sb, e) /\ c.y[e] = (i + num) - 1
      BY <3>1 DEF Berth, a
    <3> QED
      BY <1>7, <2>2, <2>3, <2>4, <3>1, <3>2, <3>3
  <2>5. CASE ~(i <= h - num)
    BY <2>2, <2>3, <2>5
  <2> QED
    BY <2>4, <2>5
<1> QED
  BY <1>8, <1>9, <1>10 DEF Afloat, Unmarked, a

LEMMA ScrollUpMoored ==
    ASSUME NEW c, Moored(c), NEW count \in Nat
    PROVE  Moored(ScrollUp(c, count, {}))
<1> DEFINE max == c.margin_bottom + 1 - c.margin_top
           num == Lesser(count, max)
           old == SubSeq(Lines(c), c.margin_top + 1, c.margin_top + num)
           kept == Reused(c, num, {})
           cache == [i \in 1..num |->
                        IF i \in kept THEN Recycled(c, old[i]) ELSE NewLine(c.size_x)]
           t == ShiftedUp(Lines(c), c.margin_top, max, num, cache)
           u == [c EXCEPT ![Active(c)] = t]
           linked == LinkToScrollback(u, Without(old, kept))
           first == SelectionUp(linked, "sel_start", num)
           d == SelectionUp(first, "sel_end", num)
           n == Len(c.main)
<1>1. ScrollUp(c, count, {}) = d
  BY DEF ScrollUp, Lines
<1>2. Scrolls(c, ScrollUp(c, count, {}))
  BY ScrollUpScrolls DEF Moored
<1>3. /\ Sound(ScrollUp(c, count, {})) /\ Whole(ScrollUp(c, count, {}))
      /\ Live(ScrollUp(c, count, {}))
      /\ ScrollUp(c, count, {}).sel_active = c.sel_active
  BY <1>2, MovesWhole DEF Moored, Scrolls
<1>4. SUFFICES ASSUME c.sel_active PROVE \A e \in Ends : Berth(d, e)
  <2>1. Berths(d)
    BY <1>1, <1>3, <1>4 DEF Berths
  <2> QED
    BY <1>1, <1>3, <2>1 DEF Moored
<1>5. /\ c \in Cons /\ c.main \in Seq(Line) /\ n \in Nat /\ DOMAIN c.main = 1..n
      /\ Lines(c) = c.main /\ Active(c) = "main" /\ "ALTERNATE" \notin c.flags
      /\ c.margin_top = 0 /\ max = n /\ c.size_x \in Nat \ {0}
  <2>1. c \in Cons /\ "ALTERNATE" \notin c.flags
    BY DEF Moored, Sound, Whole
  <2>2. c.main \in Seq(Line) /\ n \in Nat /\ DOMAIN c.main = 1..n /\ c.size_x \in Nat \ {0}
        /\ c.size_y \in Nat
    BY <2>1, SeqLines DEF Cons
  <2> QED
    BY <2>1, <2>2, LinesType DEF Moored, Whole
<1>6. num \in 0..n /\ num \in Nat
  BY <1>5 DEF Lesser
<1>7. kept = {}
  BY <1>5 DEF Reused
<1> HIDE DEF max, num, kept, n
<1>8. /\ old \in Seq(Line) /\ Len(old) = num /\ DOMAIN old = 1..num
      /\ \A i \in 1..num : old[i] = c.main[i]
  <2>1. old = SubSeq(c.main, 1, num)
    <3>1. c.margin_top + 1 = 1 /\ c.margin_top + num = num
      BY <1>5, <1>6
    <3> QED
      BY <1>5, <3>1
  <2>2. num \in 0..Len(c.main)
    BY <1>6 DEF n
  <2> HIDE DEF old
  <2> QED
    BY <1>5, <2>1, <2>2, CutType
<1> HIDE DEF old
<1>9. Without(old, kept) = old
  BY <1>7, <1>8, WithoutType
<1>10. \A i \in 1..num : cache[i] \in Line /\ cache[i].ptr = {}
  BY <1>5, <1>7, NewLineType
<1> HIDE DEF cache
<1>11. /\ t \in Seq(Line) /\ Len(t) = n /\ DOMAIN t = 1..n
       /\ \A i \in 1..n : t[i].ptr = IF i <= n - num THEN c.main[i + num].ptr ELSE {}
  <2> DEFINE r == ShiftedUp(c.main, 0, n, num, cache)
  <2>1. t = r
    BY <1>5
  <2>2. r \in Seq(Line) /\ Len(r) = Len(c.main)
    <3>1. 0 + n <= Len(c.main) /\ 0 \in Nat
      BY <1>5 DEF n
    <3>2. num \in 0..n /\ \A i \in 1..num : cache[i] \in Line
      BY <1>6, <1>10
    <3> QED
      BY <1>5, <3>1, <3>2, ShiftedUpType
  <2>3. DOMAIN r = 1..n
    BY <1>5 DEF ShiftedUp
  <2>4. ASSUME NEW i \in 1..n
        PROVE  r[i].ptr = IF i <= n - num THEN c.main[i + num].ptr ELSE {}
    <3>1. r[i] = IF 0 < i /\ i <= 0 + n - num THEN c.main[i + num]
                 ELSE IF 0 + n - num < i /\ i <= 0 + n THEN cache[i - (0 + n - num)]
                 ELSE c.main[i]
      BY <1>5 DEF ShiftedUp
    <3>2. CASE i <= n - num
      <4>1. 0 < i /\ i <= 0 + n - num
        BY <1>5, <1>6, <3>2
      <4> QED
        BY <3>1, <3>2, <4>1
    <3>3. CASE ~(i <= n - num)
      <4>1. /\ ~(i <= 0 + n - num) /\ 0 + n - num < i /\ i <= 0 + n
            /\ i - (0 + n - num) \in 1..num
        BY <1>5, <1>6, <3>3
      <4>2. r[i] = cache[i - (0 + n - num)]
        BY <3>1, <4>1
      <4> HIDE DEF r
      <4> QED
        BY <1>10, <3>3, <4>1, <4>2
    <3> QED
      BY <3>2, <3>3
  <2> HIDE DEF r, t
  <2> QED
    BY <2>1, <2>2, <2>3, <2>4 DEF n
<1> HIDE DEF t
<1>12. /\ u \in Cons /\ Same(c, u) /\ u.sb = c.sb /\ u.y = c.y /\ u.dangling = c.dangling
       /\ u.main = t
  <2>1. PutLines(c, t, u)
    BY <1>5, <1>11, PuttingLines DEF n
  <2> HIDE DEF u
  <2> QED
    BY <1>5, <2>1 DEF PutLines
<1> HIDE DEF u
<1>13. /\ linked \in Cons /\ Same(u, linked) /\ Live(linked) /\ Linked(u, old, linked)
  <2>1. Live(u)
    BY <1>12 DEF Moored, Live, Same
  <2>2. linked = LinkToScrollback(u, old)
    BY <1>9
  <2> HIDE DEF linked
  <2> QED
    BY <1>8, <1>12, <2>1, <2>2, LinkMoves
<1> HIDE DEF linked
<1>14. linked.sel_active /\ u.sel_active = c.sel_active
  BY <1>4, <1>12, <1>13 DEF Same
<1>15. ASSUME NEW e \in Ends PROVE Afloat(linked, e, num)
  <2>1. Berth(c, e)
    BY <1>4 DEF Moored, Berths
  <2>2. /\ num \in 0..Len(c.main) /\ Len(u.main) = Len(c.main)
        /\ \A i \in DOMAIN u.main :
              u.main[i].ptr = IF i <= Len(c.main) - num THEN c.main[i + num].ptr ELSE {}
    BY <1>6, <1>11, <1>12 DEF n
  <2> QED
    BY <1>4, <1>5, <1>8, <1>12, <1>13, <1>14, <2>1, <2>2, LinkedAfloat
<1>16. "sel_start" \in Ends /\ "sel_end" \in Ends /\ "sel_start" # "sel_end"
  BY MarkNames
<1>17. /\ Berth(first, "sel_start") /\ Spares(linked, first, "sel_end")
       /\ first \in Cons /\ first.sel_active /\ Live(first)
  <2>1. Berth(first, "sel_start")
    BY <1>6, <1>13, <1>14, <1>15, <1>16, SelectionUpBerth
  <2>2. Spares(linked, first, "sel_end")
    BY <1>6, <1>13, <1>16, SelectionUpSpares
  <2>3. Scrolls(linked, first)
    BY <1>6, <1>13, <1>16, SelectionUpScrolls
  <2> HIDE DEF first
  <2> QED
    BY <1>13, <1>14, <2>1, <2>2, <2>3 DEF Scrolls, Moves, Same, Kept
<1> HIDE DEF first
<1>18. Afloat(first, "sel_end", num)
  BY <1>13, <1>15, <1>16, <1>17, SparedAfloat
<1>19. Berth(d, "sel_end") /\ Spares(first, d, "sel_start")
  BY <1>6, <1>16, <1>17, <1>18, SelectionUpBerth, SelectionUpSpares
<1> HIDE DEF d
<1>20. Berth(d, "sel_start")
  BY <1>17, <1>19, SparedBerth
<1> QED
  BY <1>19, <1>20, MarkNames

LEMMA ScrollDownMoored ==
    ASSUME NEW c, Moored(c), NEW count \in Nat
    PROVE  Moored(ScrollDown(c, count))
<1> DEFINE max == c.margin_bottom + 1 - c.margin_top
           num == Lesser(count, max)
           cache == [i \in 1..num |-> Recycled(c, Lines(c)[c.margin_bottom + 2 - i])]
           t == ShiftedDown(Lines(c), c.margin_top, max, num, cache)
           moved == [c EXCEPT ![Active(c)] = t]
           rows == [e \in Ends |-> IF c.sel_active /\ IsNull(c, e) /\ moved.y[e] >= 0
                                   THEN moved.y[e] + num ELSE moved.y[e]]
           d == [moved EXCEPT !.y = rows]
           n == Len(c.main)
<1>1. ScrollDown(c, count) = d
  BY DEF ScrollDown, Lines
<1>2. Scrolls(c, ScrollDown(c, count))
  BY ScrollDownScrolls DEF Moored
<1>3. /\ Sound(ScrollDown(c, count)) /\ Whole(ScrollDown(c, count))
      /\ Live(ScrollDown(c, count)) /\ ScrollDown(c, count).sel_active = c.sel_active
  BY <1>2, MovesWhole DEF Moored, Scrolls
<1>4. SUFFICES ASSUME c.sel_active, NEW e \in Ends PROVE Berth(d, e)
  <2>1. Berths(d)
    BY <1>1, <1>3, <1>4 DEF Berths
  <2> QED
    BY <1>1, <1>3, <2>1 DEF Moored
<1>5. /\ c \in Cons /\ c.main \in Seq(Line) /\ n \in Nat /\ DOMAIN c.main = 1..n
      /\ Lines(c) = c.main /\ Active(c) = "main" /\ "ALTERNATE" \notin c.flags
      /\ c.margin_top = 0 /\ max = n /\ c.margin_bottom + 1 = n
      /\ \A i \in 1..n : c.main[i] \in Line
  <2>1. c \in Cons /\ "ALTERNATE" \notin c.flags
    BY DEF Moored, Sound, Whole
  <2>2. c.main \in Seq(Line) /\ n \in Nat /\ DOMAIN c.main = 1..n
        /\ \A i \in 1..n : c.main[i] \in Line
    BY <2>1, SeqLines DEF Cons
  <2>3. c.size_y \in Nat /\ c.margin_bottom = c.size_y - 1 /\ n = c.size_y /\ c.margin_top = 0
    BY <2>1 DEF Cons, Moored, Whole
  <2> QED
    BY <2>1, <2>2, <2>3, LinesType
<1>6. num \in 0..n /\ num \in Nat
  BY <1>5 DEF Lesser
<1> HIDE DEF max, num, n
<1>7. ASSUME NEW i \in 1..num
      PROVE  /\ cache[i] \in Line
             /\ \E j \in 1..n : cache[i].ptr = c.main[j].ptr \ Anchor
  <2> DEFINE j == c.margin_bottom + 2 - i
  <2>1. j \in 1..n
    <3>1. c.margin_bottom \in Nat /\ i \in Int /\ 1 <= i /\ i <= num /\ num <= n
          /\ num \in Int
      BY <1>5, <1>6 DEF Cons
    <3>2. n = c.margin_bottom + 1 /\ n \in Int
      BY <1>5
    <3> QED
      BY <3>1, <3>2
  <2>2. cache[i] = Recycled(c, c.main[j])
    BY <1>5
  <2> HIDE DEF j, cache
  <2>3. cache[i] \in Line /\ cache[i].ptr = c.main[j].ptr \ Anchor
    BY <1>5, <2>1, <2>2, RecycledType
  <2> QED
    BY <2>1, <2>3
<1> HIDE DEF cache
<1>8. /\ t \in Seq(Line) /\ Len(t) = n /\ DOMAIN t = 1..n
      /\ \A i \in 1..n : t[i] = IF i <= num THEN cache[i] ELSE c.main[i - num]
  <2> DEFINE r == ShiftedDown(c.main, 0, n, num, cache)
  <2>1. t = r
    BY <1>5
  <2>2. r \in Seq(Line) /\ Len(r) = Len(c.main)
    <3>1. 0 + n <= Len(c.main) /\ 0 \in Nat
      BY <1>5 DEF n
    <3>2. num \in 0..n /\ \A i \in 1..num : cache[i] \in Line
      BY <1>6, <1>7
    <3> QED
      BY <1>5, <3>1, <3>2, ShiftedDownType
  <2>3. DOMAIN r = 1..n
    BY <1>5 DEF ShiftedDown
  <2>4. ASSUME NEW i \in 1..n
        PROVE  r[i] = IF i <= num THEN cache[i] ELSE c.main[i - num]
    <3>1. r[i] = IF 0 < i /\ i <= 0 + num THEN cache[i - 0]
                 ELSE IF 0 + num < i /\ i <= 0 + n THEN c.main[i - num]
                 ELSE c.main[i]
      BY <1>5 DEF ShiftedDown
    <3>2. i - 0 = i /\ 0 < i /\ i <= 0 + n /\ 0 + num = num /\ i \in Int /\ num \in Int
      BY <1>5, <1>6
    <3> HIDE DEF r
    <3> QED
      BY <3>1, <3>2
  <2> HIDE DEF r, t
  <2> QED
    BY <2>1, <2>2, <2>3, <2>4 DEF n
<1> HIDE DEF t
<1>9. moved \in Cons /\ moved.sb = c.sb /\ moved.y = c.y /\ moved.main = t
  <2>1. PutLines(c, t, moved)
    BY <1>5, <1>8, PuttingLines DEF n
  <2> HIDE DEF moved
  <2> QED
    BY <1>5, <2>1 DEF PutLines
<1> HIDE DEF moved
<1>10. d.main = t /\ d.sb = c.sb /\ d.y = rows
  BY <1>9 DEF Cons
<1>11. rows[e] = IF IsNull(c, e) /\ c.y[e] >= 0 THEN c.y[e] + num ELSE c.y[e]
  BY <1>4, <1>9
<1> HIDE DEF d, rows
<1>12. Berth(c, e)
  BY <1>4 DEF Moored, Berths
<1>13. IsNull(c, e) <=> Unmarked(c.sb, e)
  BY <1>4, <1>5, <1>12, NullEnd DEF Moored, Berth
<1>14. ASSUME NEW i \in 1..n
       PROVE  /\ e \notin t[i].ptr
              /\ AnchorOf(e) \in t[i].ptr => Unmarked(c.sb, e) /\ rows[e] = i - 1
  <2>1. CASE i <= num
    <3>1. i \in 1..num /\ t[i] = cache[i]
      BY <1>6, <1>8, <2>1
    <3>2. PICK j \in 1..n : t[i].ptr = c.main[j].ptr \ Anchor
      BY <1>7, <3>1
    <3> QED
      BY <1>5, <1>12, <3>2, EndNames DEF Berth, Unmarked
  <2>2. CASE ~(i <= num)
    <3>1. i - num \in 1..n /\ t[i] = c.main[i - num]
      BY <1>5, <1>6, <1>8, <2>2
    <3>2. e \notin t[i].ptr
      BY <1>5, <1>12, <3>1 DEF Berth, Unmarked
    <3>3. ASSUME AnchorOf(e) \in t[i].ptr
          PROVE  Unmarked(c.sb, e) /\ rows[e] = i - 1
      <4>1. Unmarked(c.sb, e) /\ c.y[e] = (i - num) - 1
        BY <1>5, <1>12, <3>1, <3>3 DEF Berth
      <4>2. (i - num) - 1 >= 0 /\ ((i - num) - 1) + num = i - 1
        BY <1>5, <1>6, <2>2
      <4> QED
        BY <1>11, <1>13, <4>1, <4>2
    <3> QED
      BY <3>2, <3>3
  <2> QED
    BY <2>1, <2>2
<1> QED
  BY <1>8, <1>10, <1>12, <1>14 DEF Berth, Unmarked

-----------------------------------------------------------------------------
(* Calls that leave the ends and the region alone. *)

Idle(c, d) ==
    /\ d.y = c.y /\ d.sb = c.sb /\ d.sel_active = c.sel_active
    /\ d.margin_top = c.margin_top /\ d.margin_bottom = c.margin_bottom
    /\ d.size_y = c.size_y
    /\ Len(d.main) = Len(c.main) /\ DOMAIN d.main = DOMAIN c.main
    /\ \A i \in DOMAIN c.main : d.main[i].ptr = c.main[i].ptr
    /\ "ALTERNATE" \notin c.flags => "ALTERNATE" \notin d.flags

\* Whole, and the ends where they belong: what is left to show of a call that keeps
\* the screen sound and the selection live.
Steered(c) == Whole(c) /\ Berths(c)

LEMMA IdleSteered ==
    ASSUME NEW c, NEW d, Steered(c), Idle(c, d)
    PROVE  Steered(d)
<1>1. Whole(d)
  BY DEF Steered, Whole, Idle
<1>2. \A e \in Ends : Spares(c, d, e)
  BY SamePtr DEF Idle, Spares, SameMarks
<1>3. Berths(d)
  BY <1>2, SparedBerths DEF Steered, Idle
<1> QED
  BY <1>1, <1>3 DEF Steered

LEMMA IdleTwice ==
    ASSUME NEW c, NEW d, NEW e, Idle(c, d), Idle(d, e)
    PROVE  Idle(c, e)
BY DEF Idle

LEMMA MovedToIdle ==
    ASSUME NEW c, Sound(c), NEW x \in Nat, NEW y \in Nat
    PROVE  Idle(c, MovedTo(c, x, y))
<1> DEFINE d == MovedTo(c, x, y)
<1>1. /\ d.main = c.main /\ d.sb = c.sb /\ d.size_y = c.size_y /\ d.y = c.y
      /\ d.margin_top = c.margin_top /\ d.margin_bottom = c.margin_bottom
      /\ d.flags = c.flags /\ d.sel_active = c.sel_active
  BY MovedToType
<1> HIDE DEF d
<1>2. Idle(c, d)
  BY <1>1 DEF Idle
<1> QED
  BY <1>2 DEF d

LEMMA MovedToMoored ==
    ASSUME NEW c, Moored(c), NEW x \in Nat, NEW y \in Nat
    PROVE  Moored(MovedTo(c, x, y))
<1>1. Sound(c) /\ Steered(c) /\ Live(c)
  BY DEF Moored, Steered
<1>2. Sound(MovedTo(c, x, y)) /\ Idle(c, MovedTo(c, x, y))
  BY <1>1, MovedToType, MovedToIdle
<1>3. /\ MovedTo(c, x, y).sel_active = c.sel_active
      /\ MovedTo(c, x, y).dangling = c.dangling
  BY <1>1, MovedToType
<1> QED
  BY <1>1, <1>2, <1>3, IdleSteered DEF Moored, Steered, Live

LEMMA WithInkIdle ==
    ASSUME NEW c, Sound(c), NEW y \in 0..(c.size_y - 1), NEW ink
    PROVE  Idle(c, WithInk(c, y, ink))
<1> DEFINE k == ink \cap Columns(c.main[y + 1].size)
           l == [c.main[y + 1] EXCEPT !.ink = k]
           m == [c.main EXCEPT ![y + 1] = l]
           d == [c EXCEPT !.main[y + 1].ink = k]
<1>1. /\ c \in Cons /\ c.main \in Seq(Line) /\ DOMAIN c.main = 1..Len(c.main)
      /\ y + 1 \in DOMAIN c.main
  <2>1. c \in Cons /\ c.main \in Seq(Line) /\ DOMAIN c.main = 1..Len(c.main)
        /\ Len(c.main) \in Nat /\ c.size_y \in Nat
    BY SeqLines DEF Sound, Cons
  <2> QED
    BY <2>1 DEF Sound
<1>2. l.ptr = c.main[y + 1].ptr
  BY <1>1, SeqLines, LineInked
<1>3. d = [c EXCEPT !.main = m]
  OBVIOUS
<1> HIDE DEF l, d
<1>4. /\ DOMAIN m = DOMAIN c.main /\ Len(m) = Len(c.main)
      /\ \A i \in DOMAIN c.main : m[i].ptr = c.main[i].ptr
  BY <1>1, <1>2
<1> HIDE DEF m
<1>5. Idle(c, d)
  BY <1>1, <1>3, <1>4 DEF Idle, Cons
<1>6. Idle(c, c)
  BY DEF Idle
<1> QED
  BY <1>5, <1>6 DEF WithInk, d

LEMMA MovedDownMoored ==
    ASSUME NEW c, Moored(c), Placed(c), NEW num \in Nat, NEW scroll \in BOOLEAN
    PROVE  Moored(MovedDown(c, num, scroll, {}))
<1> DEFINE size == IF c.cursor_y <= c.margin_bottom THEN c.margin_bottom + 1 ELSE c.size_y
           diff == size - c.cursor_y - 1
           s == IF scroll THEN ScrollUp(c, num - diff, {}) ELSE c
<1>1. /\ c.cursor_y \in Nat /\ c.cursor_x \in Nat
      /\ size \in Nat /\ c.cursor_y < size /\ c.size_y \in Nat
  BY SoundNumbers DEF Moored, Placed
<1>2. diff \in Nat
  BY <1>1
<1>3. MovedDown(c, num, scroll, {}) =
          IF num <= diff THEN MovedTo(c, c.cursor_x, c.cursor_y + num)
          ELSE MovedTo(s, c.cursor_x, size - 1)
  BY DEF MovedDown
<1> HIDE DEF size, diff
<1>4. CASE num <= diff
  <2> DEFINE y == c.cursor_y + num
  <2>1. y \in Nat
    BY <1>1
  <2>2. MovedDown(c, num, scroll, {}) = MovedTo(c, c.cursor_x, y)
    BY <1>3, <1>4
  <2> HIDE DEF y
  <2> QED
    BY <1>1, <2>1, <2>2, MovedToMoored
<1>5. CASE ~(num <= diff)
  <2> DEFINE y == size - 1
             left == num - diff
  <2>1. y \in Nat /\ left \in Nat
    BY <1>1, <1>2, <1>5
  <2>2. MovedDown(c, num, scroll, {}) = MovedTo(s, c.cursor_x, y)
        /\ s = IF scroll THEN ScrollUp(c, left, {}) ELSE c
    BY <1>3, <1>5
  <2> HIDE DEF y, left, s
  <2>3. Moored(s)
    BY <2>1, <2>2, ScrollUpMoored
  <2> QED
    BY <1>1, <2>1, <2>2, <2>3, MovedToMoored
<1> QED
  BY <1>4, <1>5

LEMMA MovedUpMoored ==
    ASSUME NEW c, Moored(c), NEW num \in Nat, NEW scroll \in BOOLEAN
    PROVE  Moored(MovedUp(c, num, scroll))
<1> DEFINE size == IF c.cursor_y >= c.margin_top THEN c.margin_top ELSE 0
           diff == c.cursor_y - size
           s == IF scroll THEN ScrollDown(c, num - diff) ELSE c
<1>1. /\ c.cursor_y \in Nat /\ c.cursor_x \in Nat /\ size \in Nat /\ size <= c.cursor_y
  BY SoundNumbers DEF Moored
<1>2. diff \in Nat /\ diff <= c.cursor_y
  BY <1>1
<1>3. MovedUp(c, num, scroll) =
          IF num <= diff THEN MovedTo(c, c.cursor_x, c.cursor_y - num)
          ELSE MovedTo(s, c.cursor_x, size)
  BY DEF MovedUp
<1> HIDE DEF size, diff
<1>4. CASE num <= diff
  <2> DEFINE y == c.cursor_y - num
  <2>1. y \in Nat
    BY <1>1, <1>2, <1>4
  <2>2. MovedUp(c, num, scroll) = MovedTo(c, c.cursor_x, y)
    BY <1>3, <1>4
  <2> HIDE DEF y
  <2> QED
    BY <1>1, <2>1, <2>2, MovedToMoored
<1>5. CASE ~(num <= diff)
  <2> DEFINE left == num - diff
  <2>1. left \in Nat
    BY <1>1, <1>2, <1>5
  <2>2. MovedUp(c, num, scroll) = MovedTo(s, c.cursor_x, size)
        /\ s = IF scroll THEN ScrollDown(c, left) ELSE c
    BY <1>3, <1>5
  <2> HIDE DEF left, s
  <2>3. Moored(s)
    BY <2>1, <2>2, ScrollDownMoored
  <2> QED
    BY <1>1, <2>2, <2>3, MovedToMoored
<1> QED
  BY <1>4, <1>5

LEMMA ReadyMoored ==
    ASSUME NEW c, Moored(c), Placed(c)
    PROVE  Moored(ReadyToWrite(c, {}))
<1> DEFINE last == IF c.cursor_y <= c.margin_bottom \/ c.cursor_y >= c.size_y
                   THEN c.margin_bottom ELSE c.size_y - 1
           w == IF c.cursor_x < c.size_x THEN c
                ELSE IF "AUTO_WRAP" \in c.flags THEN MovedTo(c, 0, c.cursor_y + 1)
                ELSE MovedTo(c, c.size_x - 1, c.cursor_y)
           m == MovedTo(w, w.cursor_x, last)
           up == ScrollUp(m, 1, {})
<1>1. /\ c.cursor_y \in Nat /\ c.size_x \in Nat \ {0} /\ c.size_y \in Nat \ {0}
      /\ last \in Nat
  BY SoundNumbers DEF Moored
<1>2. ReadyToWrite(c, {}) = IF w.cursor_y > last THEN up ELSE w
  BY DEF ReadyToWrite
<1> HIDE DEF last
<1>3. Moored(w)
  <2> DEFINE x == c.size_x - 1
             y == c.cursor_y + 1
  <2>1. x \in Nat /\ y \in Nat /\ 0 \in Nat
    BY <1>1
  <2>2. w \in {c, MovedTo(c, 0, y), MovedTo(c, x, c.cursor_y)}
    OBVIOUS
  <2> HIDE DEF x, y, w
  <2> QED
    BY <1>1, <2>1, <2>2, MovedToMoored
<1> HIDE DEF w
<1>4. w.cursor_x \in Nat
  BY <1>3, SoundNumbers DEF Moored
<1>5. Moored(m)
  BY <1>1, <1>3, <1>4, MovedToMoored
<1> HIDE DEF m
<1>6. Moored(up)
  BY <1>5, ScrollUpMoored
<1> QED
  BY <1>2, <1>3, <1>6

\* tsm_screen_write and the edits of cells change ink and move the cursor.
LEMMA WrittenSteered ==
    ASSUME NEW r, Moored(r), NEW len \in 1..2, r.cursor_y \in 0..(r.size_y - 1)
    PROVE  Steered(Written(r, len))
<1> DEFINE d == WriteCell(r, len)
           x == r.cursor_x + len
<1>1. Sound(r) /\ Steered(r) /\ x \in Nat /\ r.cursor_y \in Nat
  BY SoundNumbers DEF Moored, Steered
<1>2. Written(r, len) = MovedTo(d, x, r.cursor_y)
  BY DEF Written
<1>3. PICK ink : d = WithInk(r, r.cursor_y, ink)
  BY DEF WriteCell
<1> HIDE DEF d, x
<1>4. Idle(r, d)
  BY <1>1, <1>3, WithInkIdle
<1>5. Sound(d)
  <2>1. Writes(r, d, {r.cursor_y + 1})
    BY <1>1, <1>3, WithInkWrites
  <2> QED
    BY <1>1, <2>1 DEF Writes
<1>6. Idle(d, MovedTo(d, x, r.cursor_y))
  BY <1>1, <1>5, MovedToIdle
<1> QED
  BY <1>1, <1>2, <1>4, <1>6, IdleSteered

LEMMA CellsSteered ==
    ASSUME NEW c, Moored(c), Placed(c), NEW x \in 0..(c.size_x - 1), NEW ink
    PROVE  Steered(WithInk(MovedTo(c, x, c.cursor_y), c.cursor_y, ink))
<1> DEFINE m == MovedTo(c, x, c.cursor_y)
<1>1. c.cursor_y \in 0..(c.size_y - 1) /\ c.cursor_y \in Nat /\ x \in Nat /\ Sound(c)
  BY SoundNumbers DEF Moored, Placed
<1>2. Moored(m) /\ m.size_y = c.size_y
  BY <1>1, MovedToMoored, MovedToType
<1> HIDE DEF m
<1>3. Idle(m, WithInk(m, c.cursor_y, ink))
  BY <1>1, <1>2, WithInkIdle DEF Moored
<1>4. Steered(m)
  BY <1>2 DEF Moored, Steered
<1> QED
  BY <1>3, <1>4, IdleSteered DEF m

LEMMA EraseIdle ==
    ASSUME NEW c, Sound(c), NEW x0, NEW y0, NEW x1, NEW y1
    PROVE  Idle(c, EraseRegion(c, x0, y0, x1, y1))
<1> DEFINE From(y) == IF y = y0 THEN x0 ELSE 0
           To(y) == IF y = Lesser(y1, c.size_y - 1)
                    THEN Lesser(x1, c.size_x - 1) ELSE c.size_x - 1
           t == [i \in DOMAIN c.main |->
                    IF y0 < i /\ i <= Lesser(y1, c.size_y - 1) + 1
                    THEN Erased(c.main[i], From(i - 1)..To(i - 1))
                    ELSE c.main[i]]
           d == [c EXCEPT !.main = t]
<1>1. EraseRegion(c, x0, y0, x1, y1) = IF Active(c) = "alt" THEN c ELSE d
  BY DEF EraseRegion
<1>2. /\ c \in Cons /\ c.main \in Seq(Line) /\ DOMAIN c.main = 1..Len(c.main)
      /\ Len(c.main) \in Nat /\ \A i \in DOMAIN c.main : c.main[i] \in Line
  BY SeqLines DEF Sound, Cons
<1>3. ASSUME NEW i \in DOMAIN c.main PROVE t[i] \in Line /\ t[i].ptr = c.main[i].ptr
  <2>1. /\ Erased(c.main[i], From(i - 1)..To(i - 1)) \in Line
        /\ Erased(c.main[i], From(i - 1)..To(i - 1)).ptr = c.main[i].ptr
    BY <1>2, ErasedType
  <2>2. t[i] = c.main[i] \/ t[i] = Erased(c.main[i], From(i - 1)..To(i - 1))
    OBVIOUS
  <2> HIDE DEF t
  <2> QED
    BY <1>2, <2>1, <2>2
<1>4. DOMAIN t = DOMAIN c.main
  OBVIOUS
<1> HIDE DEF t
<1>5. t \in Seq(Line) /\ Len(t) = Len(c.main)
  <2>1. t \in [DOMAIN c.main -> Line]
    <3>1. t = [i \in DOMAIN c.main |-> t[i]]
      BY DEF t
    <3> QED
      BY <1>3, <3>1
  <2> QED
    BY <1>2, <1>3, <2>1, LessType
<1>6. Idle(c, d)
  BY <1>2, <1>3, <1>4, <1>5 DEF Idle, Cons
<1>7. Idle(c, c)
  BY DEF Idle
<1> QED
  BY <1>1, <1>6, <1>7

-----------------------------------------------------------------------------
(* The scrollback and the user, with a selection. *)

\* Lines that move, but not those of the ends.
LEMMA SparedMoored ==
    ASSUME NEW c, Moored(c), NEW d, Moves(c, d), \A e \in Ends : Spares(c, d, e)
    PROVE  Moored(d)
<1>1. Sound(d) /\ Whole(d) /\ Live(d) /\ d.sel_active = c.sel_active
  BY MovesWhole DEF Moored
<1> QED
  BY <1>1, SparedBerths DEF Moored

LEMMA ViewMoored ==
    ASSUME NEW c, Moored(c), NEW i
    PROVE  Moored(ToSb(c, "sb_pos", i)) /\ Moored(ToNull(c, "sb_pos"))
<1>1. c \in Cons /\ "sb_pos" \in Pointer /\ \A e \in Ends : e # "sb_pos"
  BY MarkNames DEF Moored, Sound
<1>2. Moves(c, ToSb(c, "sb_pos", i)) /\ Moves(c, ToNull(c, "sb_pos"))
  BY <1>1, ToSbMoves, ToNullMoves
<1>3. ASSUME NEW e \in Ends
      PROVE  Spares(c, ToSb(c, "sb_pos", i), e) /\ Spares(c, ToNull(c, "sb_pos"), e)
  BY <1>1, ToSbSpares, ToNullSpares
<1> QED
  BY <1>2, <1>3, SparedMoored

\* tsm_screen_set_max_sb
LEMMA LimitedSteered ==
    ASSUME NEW c, Moored(c), NEW max \in Nat
    PROVE  Steered(Limited(c, max))
<1> DEFINE gone == Gone(c, max)
           u == Uncovered(c, gone)
           d == Cropped(u, gone, max)
<1>1. c \in Cons /\ Len(c.sb) \in Nat /\ c.sb \in Seq(Line)
  BY RowsOf, SeqLines DEF Moored, Sound
<1>2. gone \in 0..Len(c.sb) /\ gone \in Nat
  BY <1>1 DEF Greater, Gone
<1>3. Limited(c, max) = d
  BY DEF Limited
<1> HIDE DEF gone
<1>4. Moored(u) /\ SameInk(c.sb, u.sb)
  <2>1. u = c \/ \E i : u = ToSb(c, "sb_pos", i)
    BY DEF Uncovered
  <2>2. SameInk(c.sb, u.sb)
    BY <1>1, <1>2, UncoveredMoves
  <2> HIDE DEF u
  <2> QED
    BY <2>1, <2>2, ViewMoored
<1> HIDE DEF u
<1>5. u \in Cons /\ gone \in 0..Len(u.sb)
  BY <1>2, <1>4 DEF Moored, Sound, SameInk
<1>6. IsCropped(u, gone, max, d)
  BY <1>5, CroppedType
<1> HIDE DEF d
<1>7. Whole(d)
  BY <1>4, <1>6 DEF Moored, Whole, IsCropped
<1>8. SUFFICES ASSUME d.sel_active, NEW e \in Ends PROVE Berth(d, e)
  BY <1>3, <1>7, <1>8 DEF Steered, Berths
<1>9. u.sel_active /\ Berth(u, e) /\ d.main = u.main
  BY <1>4, <1>6, <1>8 DEF Moored, Berths, IsCropped
<1>10. /\ DOMAIN d.sb = 1..(Len(u.sb) - gone) /\ DOMAIN u.sb = 1..Len(u.sb)
       /\ Len(u.sb) \in Nat /\ gone \in Nat
  <2>1. DOMAIN d.sb = 1..Len(d.sb)
    BY <1>6, SeqLines DEF Cons, IsCropped
  <2>2. DOMAIN u.sb = 1..Len(u.sb) /\ Len(u.sb) \in Nat
    BY <1>5, SeqLines DEF Cons
  <2> QED
    BY <1>2, <1>6, <2>1, <2>2 DEF IsCropped
<1>11. ASSUME NEW i \in DOMAIN d.sb
       PROVE  i \in Int /\ i + gone \in DOMAIN u.sb /\ d.sb[i] = u.sb[i + gone]
  <2>1. i \in Int /\ i + gone \in DOMAIN u.sb
    BY <1>10
  <2> QED
    BY <1>6, <1>10, <2>1 DEF IsCropped
<1>12. Sole(d.sb, e)
  <2> SUFFICES ASSUME NEW i \in DOMAIN d.sb, NEW j \in DOMAIN d.sb,
                      e \in d.sb[i].ptr, e \in d.sb[j].ptr
               PROVE  i = j
    BY DEF Sole
  <2>1. i + gone = j + gone
    BY <1>9, <1>11 DEF Berth, Sole
  <2> QED
    BY <1>10, <1>11, <2>1
<1>13. \A i \in DOMAIN d.sb : AnchorOf(e) \in d.sb[i].ptr => e \in d.sb[i].ptr
  BY <1>9, <1>11 DEF Berth
<1>14. ASSUME NEW i \in DOMAIN d.main, AnchorOf(e) \in d.main[i].ptr
       PROVE  Unmarked(d.sb, e) /\ d.y[e] = i - 1
  <2>1. Unmarked(u.sb, e) /\ u.y[e] = i - 1
    BY <1>9, <1>14 DEF Berth
  <2>2. ~ \E j \in 1..gone : e \in u.sb[j].ptr
    <3>1. \A j \in 1..gone : j \in DOMAIN u.sb
      BY <1>5, <1>10
    <3> QED
      BY <2>1, <3>1 DEF Unmarked
  <2>3. d.y[e] = u.y[e]
    BY <1>6, <2>2 DEF IsCropped
  <2> QED
    BY <1>11, <2>1, <2>3 DEF Unmarked
<1> QED
  BY <1>9, <1>12, <1>13, <1>14 DEF Berth

\* tsm_screen_clear_sb
LEMMA ClearedSteered ==
    ASSUME NEW c, Moored(c)
    PROVE  Steered(Cleared(c))
<1> DEFINE nulled == {"sb_pos"} \cup (IF c.sel_active THEN Ends ELSE {})
           rows == [e \in Ends |-> IF c.sel_active /\ ~IsNull(c, e)
                                   THEN SelectionTop ELSE c.y[e]]
           m == [i \in DOMAIN c.main |-> Parted(c.main[i], nulled)]
           dang == (c.dangling \cup PointersTo(c.sb)) \ nulled
           d == [c EXCEPT !.sb = << >>, !.main = m, !.dangling = dang, !.y = rows]
<1>1. /\ c \in Cons /\ c.main \in Seq(Line) /\ c.sb \in Seq(Line)
      /\ \A i \in DOMAIN c.main : c.main[i] \in Line
      /\ DOMAIN c.main = 1..Len(c.main)
  BY RowsOf, SeqLines DEF Moored, Sound
<1>2. Cleared(c) = d
  BY <1>1 DEF Cleared, Cons
<1>3. \A i \in DOMAIN c.main : m[i] \in Line /\ m[i].ptr = c.main[i].ptr \ nulled
  BY <1>1, PartedType
<1>4. Len(m) = Len(c.main) /\ DOMAIN m = DOMAIN c.main
  <2>1. m \in [DOMAIN c.main -> Line]
    BY <1>3
  <2>2. \A i \in DOMAIN c.main : m[i].ptr \subseteq c.main[i].ptr
    BY <1>3
  <2> QED
    BY <1>1, <2>1, <2>2, LessType
<1>5. DOMAIN << >> = {}
  OBVIOUS
<1>6. ASSUME NEW e \in Ends
      PROVE  rows[e] = IF c.sel_active /\ ~IsNull(c, e) THEN SelectionTop ELSE c.y[e]
  OBVIOUS
<1> HIDE DEF m, rows, dang
<1>7. /\ d.main = m /\ d.sb = << >> /\ d.sel_active = c.sel_active /\ d.y = rows
      /\ d.size_y = c.size_y /\ d.flags = c.flags
      /\ d.margin_top = c.margin_top /\ d.margin_bottom = c.margin_bottom
  BY <1>1 DEF Cons
<1> HIDE DEF d
<1>8. Whole(d)
  BY <1>4, <1>7 DEF Moored, Whole
<1>9. SUFFICES ASSUME c.sel_active, NEW e \in Ends PROVE Berth(d, e)
  BY <1>2, <1>7, <1>8, <1>9 DEF Steered, Berths
<1>10. Berth(c, e) /\ (IsNull(c, e) <=> Unmarked(c.sb, e))
  BY <1>1, <1>9, NullEnd DEF Moored, Berths, Berth
<1>11. AnchorOf(e) \notin Pointer /\ Ends \subseteq Pointer
  BY EndNames, MarkNames
<1>12. Unmarked(d.main, e)
  BY <1>3, <1>4, <1>7, <1>10 DEF Berth, Unmarked
<1>13. ASSUME NEW i \in DOMAIN d.main, AnchorOf(e) \in d.main[i].ptr
       PROVE  d.y[e] = i - 1
  <2>1. i \in DOMAIN c.main /\ AnchorOf(e) \in c.main[i].ptr
    BY <1>3, <1>4, <1>7, <1>13
  <2>2. IsNull(c, e) /\ c.y[e] = i - 1
    BY <1>10, <2>1 DEF Berth
  <2> QED
    BY <1>6, <1>7, <2>2
<1> QED
  BY <1>5, <1>7, <1>12, <1>13 DEF Berth, Unmarked, Sole

\* t is s with the mark p on line i, if there is such a line.
Marked(s, i, p, t) ==
    /\ DOMAIN t = DOMAIN s
    /\ \A j \in DOMAIN s : t[j].ptr = IF j = i THEN s[j].ptr \cup {p} ELSE s[j].ptr

LEMMA PointedAtPtr ==
    ASSUME NEW s \in Seq(Line), NEW i, NEW p \in Marks
    PROVE  Marked(s, i, p, PointedAt(s, i, p))
<1> DEFINE t == PointedAt(s, i, p)
<1>1. ASSUME NEW j \in DOMAIN s
      PROVE  t[j].ptr = IF j = i THEN s[j].ptr \cup {p} ELSE s[j].ptr
  <2>1. t[j] = IF j = i THEN Pointed(s[j], p) ELSE s[j]
    BY DEF PointedAt
  <2>2. s[j] \in Line
    BY SeqLines
  <2>3. Pointed(s[j], p).ptr = s[j].ptr \cup {p}
    BY <2>2, PointedType
  <2> QED
    BY <2>1, <2>3
<1>2. DOMAIN t = DOMAIN s
  BY DEF PointedAt
<1> HIDE DEF t
<1>3. Marked(s, i, p, t)
  BY <1>1, <1>2 DEF Marked
<1> QED
  BY <1>3 DEF t

\* selection_set: the end is where its text is, and the other end is left alone.
LEMMA EndSetBerth ==
    ASSUME NEW c, Sound(c), Whole(c), NEW e \in Ends, NEW row \in Nat
    PROVE  /\ Berth(EndSet(c, e, row), e)
           /\ \A f \in Ends : f # e => Spares(c, EndSet(c, e, row), f)
<1> DEFINE pos == InSb(c, "sb_pos")
           shown == IF pos = 0 THEN 0 ELSE Len(c.sb) + 1 - pos
           y == Greater(0, row - shown)
           a == AnchorOf(e)
           us == Unpointed(c.sb, a)
           um == Unpointed(c.main, a)
           free == [c EXCEPT !.sb = us, !.main = um]
           at == pos + row
           k == IF row < shown THEN at ELSE 0
           t == ToSb(free, e, k)
           set == [t EXCEPT !.y[e] = y]
           row1 == y + 1
           d == EndSet(c, e, row)
<1>1. d = IF row < shown THEN [set EXCEPT !.sb = PointedAt(@, at, a)]
          ELSE [set EXCEPT !.main = PointedAt(@, row1, a)]
  BY DEF EndSet, Active, Whole
<1>2. /\ c \in Cons /\ c.sb \in Seq(Line) /\ c.main \in Seq(Line)
      /\ Len(c.sb) \in Nat /\ DOMAIN c.sb = 1..Len(c.sb)
      /\ DOMAIN c.main = 1..Len(c.main) /\ Len(c.main) \in Nat
  BY SeqLines DEF Sound, Cons
<1>3. y \in RowOrTop /\ y \in Nat /\ row1 = y + 1 /\ (row < shown => k = at)
      /\ (~(row < shown) => k \notin DOMAIN c.sb)
  <2>1. pos \in Nat
    BY <1>2, InSbType
  <2> HIDE DEF pos
  <2>2. y \in Nat
    BY <1>2, <2>1 DEF Greater
  <2> QED
    BY <1>2, <2>2 DEF RowOrTop
<1>4. /\ a \in Marks /\ e \in Pointer /\ a \notin Pointer /\ a # e
      /\ \A f \in Ends : f # a /\ (f # e => AnchorOf(f) # a /\ AnchorOf(f) # e)
  BY EndNames
<1> HIDE DEF a, k, y, row1, at, shown, pos, d
<1>5. /\ us \in Seq(Line) /\ Len(us) = Len(c.sb) /\ DOMAIN us = DOMAIN c.sb
      /\ \A i \in DOMAIN c.sb : us[i].ptr = c.sb[i].ptr \ {a}
      /\ um \in Seq(Line) /\ Len(um) = Len(c.main) /\ DOMAIN um = DOMAIN c.main
      /\ \A i \in DOMAIN c.main : um[i].ptr = c.main[i].ptr \ {a}
  BY <1>2, UnpointedType
<1> HIDE DEF us, um
<1>6. free \in Cons /\ free.sb = us /\ free.main = um /\ free.y = c.y
  BY <1>2, <1>5 DEF Cons
<1> HIDE DEF free
<1>7. Pointing(free, e, k, t) /\ t \in Cons
  <2>1. e \in Pointer
    BY <1>4
  <2>2. Pointing(free, e, k, t)
    BY <1>6, <2>1, ToSbType
  <2> QED
    BY <2>2 DEF Pointing
<1> HIDE DEF t
<1>8. /\ DOMAIN t.sb = DOMAIN c.sb /\ DOMAIN t.main = DOMAIN c.main
      /\ \A j \in DOMAIN c.main : t.main[j].ptr = (c.main[j].ptr \ {a}) \ {e}
      /\ \A j \in DOMAIN c.sb :
            t.sb[j].ptr = IF j = k THEN (c.sb[j].ptr \ {a}) \cup {e}
                          ELSE (c.sb[j].ptr \ {a}) \ {e}
      /\ t.y = c.y
  <2>1. /\ DOMAIN t.sb = DOMAIN us /\ DOMAIN t.main = DOMAIN um /\ t.y = c.y
        /\ \A j \in DOMAIN um : t.main[j].ptr = um[j].ptr \ {e}
        /\ \A j \in DOMAIN us :
              t.sb[j].ptr = IF j = k THEN us[j].ptr \cup {e} ELSE us[j].ptr \ {e}
    BY <1>6, <1>7 DEF Pointing
  <2> QED
    BY <1>5, <2>1
<1>9. /\ set.main = t.main /\ set.sb = t.sb /\ set.y[e] = y
      /\ \A f \in Ends : f # e => set.y[f] = c.y[f]
  BY <1>3, <1>7, <1>8, RowOf
<1>10. set \in Cons
  BY <1>3, <1>7, RowSetMarking
<1> HIDE DEF set
<1>11. t.sb \in Seq(Line) /\ t.main \in Seq(Line)
  BY <1>7 DEF Cons
<1>12. CASE row < shown
  <2> DEFINE s == PointedAt(t.sb, at, a)
  <2>1. d = [set EXCEPT !.sb = s]
    BY <1>1, <1>9, <1>12
  <2>2. /\ DOMAIN s = DOMAIN c.sb
        /\ \A j \in DOMAIN c.sb :
              s[j].ptr = IF j = at THEN t.sb[j].ptr \cup {a} ELSE t.sb[j].ptr
    <3>1. a \in Marks
      BY <1>4
    <3>2. Marked(t.sb, at, a, s)
      BY <1>11, <3>1, PointedAtPtr
    <3> HIDE DEF s
    <3> QED
      BY <1>8, <3>2 DEF Marked
  <2> HIDE DEF s
  <2>3. d.sb = s /\ d.main = t.main /\ d.y = set.y
    BY <1>9, <1>10, <2>1 DEF Cons
  <2>4. \A j \in DOMAIN c.sb :
            d.sb[j].ptr = IF j = k THEN ((c.sb[j].ptr \ {a}) \cup {e}) \cup {a}
                          ELSE (c.sb[j].ptr \ {a}) \ {e}
    BY <1>3, <1>8, <1>12, <2>2, <2>3
  <2>5. Berth(d, e)
    <3>1. Unmarked(d.main, e)
      BY <1>8, <2>3 DEF Unmarked
    <3>2. \A j \in DOMAIN d.sb : /\ j # k => e \notin d.sb[j].ptr /\ a \notin d.sb[j].ptr
                                 /\ j = k => e \in d.sb[j].ptr
      BY <1>4, <2>2, <2>3, <2>4
    <3>3. Sole(d.sb, e)
      BY <3>2 DEF Sole
    <3>4. \A j \in DOMAIN d.sb : a \in d.sb[j].ptr => e \in d.sb[j].ptr
      BY <3>2
    <3>5. \A j \in DOMAIN d.main : a \notin d.main[j].ptr
      BY <1>8, <2>3
    <3> QED
      BY <3>1, <3>3, <3>4, <3>5 DEF Berth, a
  <2>6. ASSUME NEW f \in Ends, f # e PROVE Spares(c, d, f)
    <3>1. f # a /\ AnchorOf(f) # a /\ AnchorOf(f) # e /\ d.y[f] = c.y[f]
      BY <1>4, <1>9, <2>3, <2>6
    <3>2. SameMarks(c.sb, d.sb, f)
      BY <2>2, <2>3, <2>4, <2>6, <3>1, ZenonT(30) DEF SameMarks
    <3>3. SameMarks(c.main, d.main, f)
      BY <1>8, <2>3, <2>6, <3>1 DEF SameMarks
    <3> QED
      BY <3>1, <3>2, <3>3 DEF Spares
  <2> QED
    BY <2>5, <2>6 DEF d
<1>13. CASE ~(row < shown)
  <2> DEFINE m == PointedAt(t.main, row1, a)
  <2>1. d = [set EXCEPT !.main = m]
    BY <1>1, <1>9, <1>13
  <2>2. /\ DOMAIN m = DOMAIN c.main
        /\ \A j \in DOMAIN c.main :
              m[j].ptr = IF j = row1 THEN t.main[j].ptr \cup {a} ELSE t.main[j].ptr
    <3>1. a \in Marks
      BY <1>4
    <3>2. Marked(t.main, row1, a, m)
      BY <1>11, <3>1, PointedAtPtr
    <3> HIDE DEF m
    <3> QED
      BY <1>8, <3>2 DEF Marked
  <2> HIDE DEF m
  <2>3. d.main = m /\ d.sb = t.sb /\ d.y = set.y
    BY <1>9, <1>10, <2>1 DEF Cons
  <2>4. /\ DOMAIN d.sb = DOMAIN c.sb
        /\ \A j \in DOMAIN c.sb : d.sb[j].ptr = (c.sb[j].ptr \ {a}) \ {e}
        /\ DOMAIN d.main = DOMAIN c.main
        /\ \A j \in DOMAIN c.main :
              d.main[j].ptr = IF j = row1 THEN ((c.main[j].ptr \ {a}) \ {e}) \cup {a}
                              ELSE (c.main[j].ptr \ {a}) \ {e}
    <3>1. \A j \in DOMAIN c.sb : j # k
      BY <1>3, <1>13
    <3> QED
      BY <1>8, <2>2, <2>3, <3>1
  <2>5. Unmarked(d.main, e) /\ Unmarked(d.sb, e) /\ Unmarked(d.sb, a)
    BY <1>4, <2>4 DEF Unmarked
  <2>6. ASSUME NEW j \in DOMAIN d.main, a \in d.main[j].ptr PROVE d.y[e] = j - 1
    <3>1. j = row1
      BY <2>4, <2>6
    <3>2. (y + 1) - 1 = y
      BY <1>3
    <3> QED
      BY <1>3, <1>9, <2>3, <3>1, <3>2
  <2>7. Berth(d, e)
    BY <2>5, <2>6 DEF Berth, Unmarked, Sole, a
  <2>8. ASSUME NEW f \in Ends, f # e PROVE Spares(c, d, f)
    <3>1. f # a /\ AnchorOf(f) # a /\ AnchorOf(f) # e /\ d.y[f] = c.y[f]
      BY <1>4, <1>9, <2>3, <2>8
    <3>2. AnchorOf(f) # a /\ f # e
      BY <2>8, <3>1
    <3>3. SameMarks(c.sb, d.sb, f)
      BY <2>4, <3>1, <3>2 DEF SameMarks
    <3>4. SameMarks(c.main, d.main, f)
      <4>1. \A x \in {f, AnchorOf(f)} : x # a /\ x # e
        BY <3>1, <3>2
      <4>2. \A j \in DOMAIN c.main : \A x \in {f, AnchorOf(f)} :
                x \in d.main[j].ptr <=> x \in c.main[j].ptr
        <5> SUFFICES ASSUME NEW j \in DOMAIN c.main, NEW x \in {f, AnchorOf(f)}
                     PROVE  x \in d.main[j].ptr <=> x \in c.main[j].ptr
          OBVIOUS
        <5>1. x # a /\ x # e
          BY <4>1
        <5> HIDE DEF a, d
        <5>2. d.main[j].ptr = IF j = row1 THEN ((c.main[j].ptr \ {a}) \ {e}) \cup {a}
                              ELSE (c.main[j].ptr \ {a}) \ {e}
          BY <2>4
        <5> QED
          BY <5>1, <5>2
      <4> QED
        BY <2>4, <4>2 DEF SameMarks
    <3> QED
      BY <3>1, <3>3, <3>4 DEF Spares
  <2> QED
    BY <2>7, <2>8 DEF d
<1> QED
  BY <1>12, <1>13

\* tsm_screen_selection_start and tsm_screen_selection_target: a screen that is
\* whole, with both ends where they belong, whether or not it had a selection.
LEMMA MarkingWhole ==
    ASSUME NEW c, Sound(c), Whole(c), NEW d, NEW set, Marking(c, d, set)
    PROVE  Sound(d) /\ Whole(d) /\ d.sel_active = c.sel_active
BY DEF Marking, Sound, Whole, Same

LEMMA TargetSteered ==
    ASSUME NEW c, Moored(c), NEW row \in Nat
    PROVE  Steered(EndSet(c, "sel_end", row))
<1> DEFINE d == EndSet(c, "sel_end", row)
<1>1. "sel_end" \in Ends /\ Sound(c) /\ Whole(c)
  BY MarkNames DEF Moored
<1>2. /\ Berth(d, "sel_end") /\ \A f \in Ends : f # "sel_end" => Spares(c, d, f)
      /\ Marking(c, d, {"sel_end"})
  BY <1>1, EndSetBerth, EndSetMarking
<1> HIDE DEF d
<1>3. Whole(d) /\ d.sel_active = c.sel_active
  BY <1>1, <1>2, MarkingWhole
<1>4. ASSUME c.sel_active, NEW e \in Ends PROVE Berth(d, e)
  BY <1>2, <1>4, SparedBerth DEF Moored, Berths
<1> QED
  BY <1>3, <1>4 DEF Steered, Berths, d

LEMMA StartSteered ==
    ASSUME NEW c, Moored(c), NEW row \in Nat
    PROVE  Steered(Selecting(BothSet(c, row), TRUE))
<1> DEFINE b == EndSet(c, "sel_start", row)
           d == EndSet(b, "sel_end", row)
           s == Selecting(d, TRUE)
<1>1. /\ Ends = {"sel_start", "sel_end"} /\ "sel_start" # "sel_end"
      /\ Sound(c) /\ Whole(c)
  BY MarkNames DEF Moored
<1>2. Berth(b, "sel_start") /\ Sound(b) /\ Whole(b)
  <2>1. "sel_start" \in Ends
    BY <1>1
  <2>2. Berth(b, "sel_start") /\ Marking(c, b, {"sel_start"})
    BY <1>1, <2>1, EndSetBerth, EndSetMarking
  <2> QED
    BY <1>1, <2>2, MarkingWhole
<1> HIDE DEF b
<1>3. Berth(d, "sel_end") /\ Spares(b, d, "sel_start") /\ Sound(d) /\ Whole(d)
  <2>1. "sel_end" \in Ends /\ "sel_start" \in Ends
    BY <1>1
  <2>2. /\ Berth(d, "sel_end") /\ Marking(b, d, {"sel_end"})
        /\ \A f \in Ends : f # "sel_end" => Spares(b, d, f)
    BY <1>2, <2>1, EndSetBerth, EndSetMarking
  <2> QED
    BY <1>1, <1>2, <2>1, <2>2, MarkingWhole
<1> HIDE DEF d
<1>4. \A e \in Ends : Berth(d, e)
  BY <1>1, <1>2, <1>3, SparedBerth
<1>5. /\ s.sb = d.sb /\ s.main = d.main /\ s.y = d.y /\ s.size_y = d.size_y
      /\ s.margin_top = d.margin_top /\ s.margin_bottom = d.margin_bottom
      /\ s.flags = d.flags
  BY <1>3 DEF Sound, Cons, Selecting
<1> HIDE DEF s
<1>6. Steered(s)
  BY <1>3, <1>4, <1>5 DEF Steered, Berths, Berth, Whole
<1> QED
  BY <1>6 DEF s, d, b, BothSet

-----------------------------------------------------------------------------
(* The steps again, for the terminals whose selection follows its text. *)

\* Write, Newline, Erase, InsertChars, DeleteChars
LEMMA TextSteered ==
    ASSUME Moored(con), Placed(con), Followed, Text \/ EditChars
    PROVE  Steered(con')
<1>1. Failed = {{}} /\ Sound(con) /\ Steered(con)
  BY DEF Followed, Failed, Moored, Steered
<1>2. CASE Write
  <2> DEFINE r == ReadyToWrite(con, {})
  <2>1. PICK len \in 1..2 : con' = MovedTo(WriteCell(r, len), r.cursor_x + len, r.cursor_y)
    BY <1>1, <1>2 DEF Write
  <2>2. con' = Written(r, len)
    BY <2>1 DEF Written
  <2>3. Moored(r)
    BY ReadyMoored
  <2>4. r.cursor_y \in 0..(r.size_y - 1)
    <3>1. Writes(con, r, {}) /\ r.cursor_y \in 0..(con.size_y - 1)
      BY <1>1, ReadyStep
    <3> HIDE DEF r
    <3> QED
      BY <3>1 DEF Writes, Steady
  <2> HIDE DEF r
  <2> QED
    BY <2>2, <2>3, <2>4, WrittenSteered
<1>3. CASE Newline
  <2> DEFINE m == MovedDown(con, 1, TRUE, {})
  <2>1. con' = MovedTo(m, 0, m.cursor_y)
    BY <1>1, <1>3 DEF Newline
  <2>2. Moored(m)
    BY MovedDownMoored
  <2> HIDE DEF m
  <2>3. m.cursor_y \in Nat
    BY <2>2, SoundNumbers DEF Moored
  <2> QED
    BY <2>1, <2>2, <2>3, MovedToMoored DEF Moored, Steered
<1>4. CASE Erase
  <2>1. \E x0, y0, x1, y1 : con' = EraseRegion(con, x0, y0, x1, y1)
    BY <1>4 DEF Erase
  <2> QED
    BY <1>1, <2>1, EraseIdle, IdleSteered
<1>5. CASE EditChars
  <2> DEFINE x == Lesser(con.cursor_x, con.size_x - 1)
  <2>1. x \in 0..(con.size_x - 1)
    BY <1>1, SoundNumbers DEF Lesser
  <2>2. \E ink : con' = WithInk(MovedTo(con, x, con.cursor_y), con.cursor_y, ink)
    <3>1. CASE InsertChars
      BY <3>1 DEF InsertChars
    <3>2. CASE DeleteChars
      BY <3>2 DEF DeleteChars
    <3> QED
      BY <1>5, <3>1, <3>2 DEF EditChars
  <2> HIDE DEF x
  <2> QED
    BY <2>1, <2>2, CellsSteered
<1> QED
  BY <1>2, <1>3, <1>4, <1>5 DEF Text

LEMMA MoveSteered ==
    ASSUME Moored(con), Placed(con), Followed, client \in Clients, Move
    PROVE  Steered(con')
<1>1. /\ con.size_x \in Nat \ {0} /\ con.size_y \in Nat \ {0}
      /\ con.cursor_x \in Nat /\ con.cursor_y \in Nat
      /\ con.margin_top \in Nat /\ con.margin_bottom \in Nat
  BY SoundNumbers DEF Moored
<1>2. client.counts \subseteq Nat /\ Failed = {{}}
  BY ClientValues DEF Followed, Failed
<1>3. ASSUME NEW x \in Nat, NEW y \in Nat, con' = MovedTo(con, x, y)
      PROVE  Steered(con')
  BY <1>3, MovedToMoored DEF Moored, Steered
<1>4. CASE MoveTo
  <2>1. PICK x \in Columns(con.size_x), y \in Columns(con.size_y) :
            con' = MovedTo(con, x,
                      Lesser(IF "REL_ORIGIN" \in con.flags THEN con.margin_top + y ELSE y,
                             IF "REL_ORIGIN" \in con.flags THEN con.margin_bottom
                             ELSE con.size_y - 1))
    BY <1>4 DEF MoveTo
  <2> DEFINE row == Lesser(IF "REL_ORIGIN" \in con.flags THEN con.margin_top + y ELSE y,
                           IF "REL_ORIGIN" \in con.flags THEN con.margin_bottom
                           ELSE con.size_y - 1)
  <2>2. row \in Nat /\ x \in Nat
    BY <1>1 DEF Lesser, Columns
  <2> HIDE DEF row
  <2> QED
    BY <1>3, <2>1, <2>2 DEF row
<1>5. CASE MoveDown
  <2>1. PICK num \in client.counts, scroll \in BOOLEAN : con' = MovedDown(con, num, scroll, {})
    BY <1>2, <1>5 DEF MoveDown
  <2> QED
    BY <1>2, <2>1, MovedDownMoored DEF Moored, Steered
<1>6. CASE MoveUp
  <2>1. PICK num \in client.counts, scroll \in BOOLEAN : con' = MovedUp(con, num, scroll)
    BY <1>6 DEF MoveUp
  <2> QED
    BY <1>2, <2>1, MovedUpMoored DEF Moored, Steered
<1>7. CASE MoveLeft
  <2>1. PICK num \in client.counts :
            con' = MovedTo(con, Greater(0, Lesser(con.cursor_x, con.size_x - 1) - num),
                           con.cursor_y)
    BY <1>7 DEF MoveLeft
  <2> DEFINE x == Greater(0, Lesser(con.cursor_x, con.size_x - 1) - num)
  <2>2. x \in Nat
    BY <1>1, <1>2 DEF Lesser, Greater
  <2> HIDE DEF x
  <2> QED
    BY <1>1, <1>3, <2>1, <2>2 DEF x
<1>8. CASE MoveRight
  <2>1. PICK num \in client.counts :
            con' = MovedTo(con, Lesser(con.cursor_x + num, con.size_x - 1), con.cursor_y)
    BY <1>8 DEF MoveRight
  <2> DEFINE x == Lesser(con.cursor_x + num, con.size_x - 1)
  <2>2. x \in Nat
    BY <1>1, <1>2 DEF Lesser
  <2> HIDE DEF x
  <2> QED
    BY <1>1, <1>3, <2>1, <2>2 DEF x
<1>9. CASE MoveLineEnd \/ MoveLineHome
  <2>1. \E x \in Nat : con' = MovedTo(con, x, con.cursor_y)
    <3>1. con.size_x - 1 \in Nat /\ 0 \in Nat
      BY <1>1
    <3> QED
      BY <1>9, <3>1 DEF MoveLineEnd, MoveLineHome
  <2> QED
    BY <1>1, <1>3, <2>1
<1>10. CASE TabRight \/ TabLeft
  <2>1. \E x \in Nat : con' = MovedTo(con, x, con.cursor_y)
    <3>1. Columns(con.size_x) \subseteq Nat /\ Columns(Greater(1, con.cursor_x)) \subseteq Nat
      BY <1>1 DEF Columns, Greater
    <3> QED
      BY <1>10, <3>1 DEF TabRight, TabLeft
  <2> QED
    BY <1>1, <1>3, <2>1
<1> QED
  BY <1>4, <1>5, <1>6, <1>7, <1>8, <1>9, <1>10 DEF Move

LEMMA ScrollSteered ==
    ASSUME Moored(con), Followed, client \in Clients, Scroll
    PROVE  Steered(con')
<1>1. client.counts \subseteq Nat /\ Failed = {{}}
  BY ClientValues DEF Followed, Failed
<1>2. CASE ScrollUpCall
  <2>1. PICK num \in client.counts : con' = ScrollUp(con, num, {})
    BY <1>1, <1>2 DEF ScrollUpCall
  <2> QED
    BY <1>1, <2>1, ScrollUpMoored DEF Moored, Steered
<1>3. CASE ScrollDownCall
  <2>1. PICK num \in client.counts : con' = ScrollDown(con, num)
    BY <1>3 DEF ScrollDownCall
  <2> QED
    BY <1>1, <2>1, ScrollDownMoored DEF Moored, Steered
<1> QED
  BY <1>2, <1>3 DEF Scroll

LEMMA ModeSteered ==
    ASSUME Moored(con), Followed, Mode
    PROVE  Steered(con')
<1>1. con \in Cons /\ Steered(con)
  BY DEF Moored, Sound, Steered
<1>2. CASE SetFlag \/ ResetFlag
  <2>1. PICK f \in client.flags : \/ con' = [con EXCEPT !.flags = @ \cup {f}]
                                  \/ con' = [con EXCEPT !.flags = @ \ {f}]
    BY <1>2 DEF SetFlag, ResetFlag
  <2>2. f # "ALTERNATE"
    BY DEF Followed
  <2>3. PICK flags \in {con.flags \cup {f}, con.flags \ {f}} : con' = [con EXCEPT !.flags = flags]
    BY <2>1
  <2>4. "ALTERNATE" \notin con.flags => "ALTERNATE" \notin flags
    BY <2>2, <2>3
  <2>5. /\ con'.flags = flags /\ con'.main = con.main /\ con'.sb = con.sb /\ con'.y = con.y
        /\ con'.sel_active = con.sel_active /\ con'.size_y = con.size_y
        /\ con'.margin_top = con.margin_top /\ con'.margin_bottom = con.margin_bottom
    BY <1>1, <2>3 DEF Cons
  <2>6. Idle(con, con')
    BY <2>4, <2>5 DEF Idle
  <2> QED
    BY <1>1, <2>6, IdleSteered
<1>3. CASE Reset
  <2>1. con' = [con EXCEPT !.flags = {}, !.margin_top = 0, !.margin_bottom = con.size_y - 1]
    BY <1>3 DEF Reset
  <2>2. con.margin_top = 0 /\ con.margin_bottom = con.size_y - 1
    BY <1>1 DEF Steered, Whole
  <2>3. Idle(con, con')
    BY <1>1, <2>1, <2>2 DEF Idle, Cons
  <2> QED
    BY <1>1, <2>3, IdleSteered
<1> QED
  BY <1>2, <1>3 DEF Mode

LEMMA ScrollbackSteered ==
    ASSUME Moored(con), client \in Clients, SetMaxSb \/ ClearSb \/ View
    PROVE  Steered(con')
<1>1. CASE SetMaxSb
  <2>1. PICK max \in client.sb_maxes : con' = Limited(con, max)
    BY <1>1 DEF SetMaxSb, Limited, Gone, Cropped, Uncovered
  <2>2. max \in Nat
    BY ClientValues
  <2> QED
    BY <2>1, <2>2, LimitedSteered
<1>2. CASE ClearSb
  <2>1. con' = Cleared(con)
    BY <1>2 DEF ClearSb, Cleared
  <2> QED
    BY <2>1, ClearedSteered
<1>3. CASE View
  <2>1. (\E i : con' = ToSb(con, "sb_pos", i)) \/ con' = ToNull(con, "sb_pos")
    BY <1>3 DEF View, SbUp, SbDown, SbReset
  <2> QED
    BY <2>1, ViewMoored DEF Moored, Steered
<1> QED
  BY <1>1, <1>2, <1>3

LEMMA SelectSteered ==
    ASSUME Moored(con), Select
    PROVE  Steered(con')
<1>1. ASSUME NEW row \in Columns(con.size_y) PROVE row \in Nat
  BY SoundNumbers DEF Columns, Moored
<1>2. CASE SelectionStart
  <2>1. PICK row \in Columns(con.size_y) : con' = Selecting(BothSet(con, row), TRUE)
    BY <1>2 DEF SelectionStart, Selecting, BothSet
  <2> QED
    BY <1>1, <2>1, StartSteered
<1>3. CASE SelectionTarget
  <2>1. PICK row \in Columns(con.size_y) : con' = EndSet(con, "sel_end", row)
    BY <1>3 DEF SelectionTarget
  <2> QED
    BY <1>1, <2>1, TargetSteered
<1>4. CASE SelectionReset
  <2> DEFINE Forget(s) == [i \in DOMAIN s |-> Parted(s[i], Anchor)]
             fs == Forget(con.sb)
             fm == Forget(con.main)
  <2>1. con \in Cons /\ con.main \in Seq(Line) /\ Len(con.main) \in Nat
        /\ DOMAIN con.main = 1..Len(con.main) /\ \A i \in DOMAIN con.main : con.main[i] \in Line
    BY SeqLines DEF Moored, Sound, Cons
  <2>2. con' = [con EXCEPT !.sel_active = FALSE, !.sb = fs, !.main = fm]
    BY <1>4, <2>1 DEF SelectionReset, Cons
  <2>3. Len(fm) = Len(con.main)
    <3>1. fm \in [DOMAIN con.main -> Line]
      BY <2>1, PartedType
    <3> HIDE DEF fm
    <3> QED
      BY <2>1, <3>1, LinesSeq
  <2> HIDE DEF fs, fm
  <2>4. /\ con'.sel_active = FALSE /\ con'.main = fm /\ con'.size_y = con.size_y
        /\ con'.margin_top = con.margin_top /\ con'.margin_bottom = con.margin_bottom
        /\ con'.flags = con.flags
    BY <2>1, <2>2 DEF Cons
  <2> QED
    BY <2>3, <2>4 DEF Moored, Steered, Whole, Berths
<1> QED
  BY <1>2, <1>3, <1>4 DEF Select

LEMMA StepSteered ==
    ASSUME Moored(con), Placed(con), Followed, client \in Clients, Next
    PROVE  Steered(con')
<1>1. CASE Text \/ EditChars
  BY <1>1, TextSteered
<1>2. CASE Move
  BY <1>2, MoveSteered
<1>3. CASE Scroll \/ Mode
  BY <1>3, ScrollSteered, ModeSteered
<1>4. CASE SetMaxSb \/ ClearSb \/ View \/ Select
  BY <1>4, ScrollbackSteered, SelectSteered
<1>5. "lines" \notin client.calls /\ "margins" \notin client.calls /\ "resize" \notin client.calls
  BY DEF Followed
<1> QED
  BY <1>1, <1>2, <1>3, <1>4, <1>5 DEF Next

\* The ends are on the lines their text is on.
LEMMA BerthsFollow ==
    ASSUME Moored(con)
    PROVE  SelectionFollowsScrolls
<1> SUFFICES ASSUME con.sel_active, NEW e \in Ends, NEW i \in DOMAIN Document(con),
                    AnchorOf(e) \in Document(con)[i].ptr
             PROVE  EndAt(e) = i
  BY DEF SelectionFollowsScrolls, OnItsText
<1> DEFINE n == Len(con.sb)
           h == Len(con.main)
           doc == Document(con)
<1>1. /\ con.sb \in Seq(Line) /\ con.main \in Seq(Line) /\ n \in Nat /\ h \in Nat
      /\ DOMAIN con.sb = 1..n /\ DOMAIN con.main = 1..h /\ h = con.size_y
  BY SeqLines DEF Moored, Sound, Cons, Whole
<1>2. Berth(con, e)
  BY DEF Moored, Berths
<1>3. i \in 1..(n + h) /\ doc[i] = IF i <= n THEN con.sb[i] ELSE con.main[i - n]
  <2> DEFINE m == SubSeq(con.main, 1, h)
  <2>1. m \in Seq(Line) /\ Len(m) = h /\ \A j \in 1..h : m[j] = con.main[j]
    BY <1>1, CutType
  <2>2. doc = con.sb \o m
    BY <1>1 DEF Document
  <2> HIDE DEF m, doc, h
  <2>3. /\ doc \in Seq(Line) /\ Len(doc) = n + h
        /\ \A j \in 1..(n + h) : doc[j] = IF j <= n THEN con.sb[j] ELSE m[j - n]
    <3> DEFINE l == con.sb
    <3>1. l \in Seq(Line) /\ n = Len(l) /\ m \in Seq(Line) /\ Len(m) = h /\ doc = l \o m
      BY <1>1, <2>1, <2>2
    <3> HIDE DEF l, n
    <3>2. /\ doc \in Seq(Line) /\ Len(doc) = Len(l) + Len(m)
          /\ \A j \in 1..(Len(l) + Len(m)) :
                doc[j] = IF j <= Len(l) THEN l[j] ELSE m[j - Len(l)]
      BY <3>1, Joined
    <3> QED
      BY <3>1, <3>2 DEF l
  <2>4. i \in 1..(n + h)
    <3>1. i \in DOMAIN doc
      BY DEF doc
    <3> QED
      BY <2>3, <3>1, SeqLines
  <2>5. ~(i <= n) => i - n \in 1..h
    BY <1>1, <2>4
  <2> QED
    BY <2>1, <2>3, <2>4, <2>5
<1>4. AnchorOf(e) \in doc[i].ptr
  OBVIOUS
<1> HIDE DEF n, h, doc
<1>5. /\ InSb(con, e) \in Nat /\ (InSb(con, e) = 0 <=> Unmarked(con.sb, e))
      /\ InSb(con, e) # 0 => InSb(con, e) \in DOMAIN con.sb /\ e \in con.sb[InSb(con, e)].ptr
      /\ InMain(con, e) = 0
  BY <1>1, <1>2, InSbType, InMainType DEF Berth
<1>6. CASE i <= n
  <2>1. i \in DOMAIN con.sb /\ AnchorOf(e) \in con.sb[i].ptr
    BY <1>1, <1>3, <1>4, <1>6
  <2>2. e \in con.sb[i].ptr
    BY <1>2, <2>1 DEF Berth
  <2>3. InSb(con, e) # 0
    BY <1>5, <2>1, <2>2 DEF Unmarked
  <2>4. InSb(con, e) = i
    BY <1>2, <1>5, <2>1, <2>2, <2>3 DEF Berth, Sole
  <2> QED
    BY <2>3, <2>4 DEF EndAt
<1>7. CASE ~(i <= n)
  <2>1. i - n \in DOMAIN con.main /\ AnchorOf(e) \in con.main[i - n].ptr
    BY <1>1, <1>3, <1>4, <1>7
  <2>2. Unmarked(con.sb, e) /\ con.y[e] = (i - n) - 1
    BY <1>2, <2>1 DEF Berth
  <2>3. InSb(con, e) = 0 /\ InMain(con, e) = 0
    BY <1>5, <2>2
  <2>4. con.y[e] # SelectionTop /\ n + con.y[e] + 1 = i
    BY <1>1, <1>3, <1>7, <2>2 DEF SelectionTop
  <2>5. EndAt(e) = n + con.y[e] + 1
    BY <2>3, <2>4 DEF EndAt, n
  <2> QED
    BY <2>4, <2>5
<1> QED
  BY <1>6, <1>7

\* screen_scroll_up, screen_scroll_down, link_to_scrollback, tsm_screen_clear_sb: for
\* every size of the screen, every limit of the scrollback, every count and every sequence
\* of calls but the ones Followed names, as long as the text an end of the selection was
\* put on exists, on the screen or in the scrollback, that is where the end is.
THEOREM SelectionStaysOnText == Spec => []SelectionFollowsScrolls
<1> DEFINE M == Followed => Moored(con)
<1>1. Init => M
  <2> SUFFICES ASSUME Init PROVE Moored(con)
    OBVIOUS
  <2>1. Sound(con) /\ Live(con) /\ client \in Clients
    BY InitIInv DEF IInv
  <2>2. client.new_y \in Nat \ {0} /\ client.new_x \in Nat \ {0}
    BY <2>1, ClientValues
  <2> DEFINE s == [i \in 1..client.new_y |-> NewLine(client.new_x)]
  <2>3. Len(s) = client.new_y
    <3>1. s \in [1..client.new_y -> Line]
      BY <2>2, NewLineType
    <3> HIDE DEF s
    <3> QED
      BY <2>2, <3>1, LinesSeq
  <2>4. /\ con.main = s /\ con.sel_active = FALSE /\ con.flags = {}
        /\ con.size_y = client.new_y /\ con.margin_top = 0
        /\ con.margin_bottom = client.new_y - 1
    BY DEF Init
  <2> HIDE DEF s
  <2> QED
    BY <2>1, <2>3, <2>4 DEF Moored, Whole, Berths
<1>2. IInv /\ M /\ [Next]_<<con, client>> => M'
  <2> SUFFICES ASSUME IInv, M, [Next]_<<con, client>>, Followed' PROVE Moored(con)'
    OBVIOUS
  <2>1. client' = client
    BY DEF Next
  <2>2. Followed /\ Moored(con)
    BY <2>1 DEF Followed
  <2>3. CASE Next
    <3>1. Steered(con')
      BY <2>2, <2>3, StepSteered DEF IInv
    <3>2. Sound(con') /\ Live(con')
      <4>1. "resize" \notin client.calls
        BY <2>2 DEF Followed
      <4> QED
        BY <2>2, <2>3, <4>1, AnyStep DEF Stays, Moored
    <3>3. Moored(con')
      BY <3>1, <3>2 DEF Moored, Steered
    <3> QED
      BY <3>3 DEF Moored, Sound, Whole, Live, Berths, Berth, Unmarked, Sole
  <2>4. CASE UNCHANGED <<con, client>>
    BY <2>2, <2>4 DEF Moored, Sound, Whole, Live, Berths, Berth, Unmarked, Sole
  <2> QED
    BY <2>3, <2>4
<1>3. M => SelectionFollowsScrolls
  BY BerthsFollow DEF SelectionFollowsScrolls
<1> HIDE DEF M
<1> QED
  BY <1>1, <1>2, <1>3, SpecIInv, PTL DEF Spec

=============================================================================
