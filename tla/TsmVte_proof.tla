----------------------------- MODULE TsmVte_proof -----------------------------
(***************************************************************************)
(* The emulation of libtsm/tsm/tsm-vte.c, for every size of the screen, of *)
(* its arrays and of what the server and the user send.                    *)
(*                                                                         *)
(* What is kept is Good(t): the fields have their types and bounds, the    *)
(* margins are in order, and the modes and the colours of the emulation    *)
(* are those of the screen.  Calm(t) adds that no escape of an Alt key is  *)
(* pending and none went out with an answer.  There is a lemma for each    *)
(* operator that makes a terminal of a terminal, in the order in which the *)
(* model defines them.                                                     *)
(***************************************************************************)
EXTENDS TsmVte, TLAPS, WellFoundedInduction, FiniteSetTheorems, SequenceTheorems

-----------------------------------------------------------------------------
(* Terminals. *)

Rows == 0..(SizeY - 1)
Numbers == (-1)..((ArgLimit * 10) + 9)
Texts == {s \in Seq(Nat) : Len(s) <= OscMax}
Machs == [state : {"START", "EXPECT1", "EXPECT2", "EXPECT3"}, ch : Nat]
Shifts == {"NONE", "g0", "g1", "g2", "g3"}
CharacterSets == {"unicode_lower", "unicode_upper", "dec_supplemental", "dec_special"}
Designations == [{"g0", "g1", "g2", "g3"} -> CharacterSets]
Colours == {"bold", "colour"}

StateNames ==
    {"NONE", "GROUND", "ESC", "ESC_INT", "CSI_ENTRY", "CSI_PARAM", "CSI_INT", "CSI_IGNORE",
     "DCS_ENTRY", "DCS_PARAM", "DCS_INT", "DCS_IGNORE", "DCS_PASS", "OSC_STRING", "ST_IGNORE"}

\* The modes that a sequence can set, and all of them.
SetModes ==
    {"TEXT_CURSOR", "AUTO_REPEAT", "SEND_RECEIVE", "AUTO_WRAP", "INSERT_REPLACE",
     "INVERSE_SCREEN", "ORIGIN", "USE_C1", "KEYBOARD_ACTION", "LINE_FEED_NEW_LINE",
     "CURSOR_KEY", "NATIONAL_CHARSET", "KEYPAD_APPLICATION"}
Modes == SetModes \cup {"BACKGROUND_COLOR_ERASE", "PREPEND_ESCAPE", "7BIT", "8BIT"}
ScreenModes ==
    {"INSERT_MODE", "INVERSE", "REL_ORIGIN", "AUTO_WRAP", "HIDE_CURSOR", "ALTERNATE"}

SavedStates == [y : Rows, cattr : SUBSET Colours, gl : Shifts, gr : Shifts,
                wrap : BOOLEAN, origin : BOOLEAN]

Emulations ==
    [state : StateNames, argc : 0..ArgMax, argv : [0..(ArgMax - 1) -> Numbers],
     marks : SUBSET Nat, osc : Texts, mach : Machs, flags : SUBSET Modes,
     gl : Shifts, gr : Shifts, glt : Shifts, sets : Designations,
     cattr : SUBSET Colours, saved : SavedStates, alt_y : Rows]

Screens == [flags : SUBSET ScreenModes, y : Rows, margin_top : Rows, margin_bottom : Rows,
            def_attr : SUBSET Colours]

Messages == [to : {"server"}, from : {"answer", "key"}, bytes : Seq(Nat), esc : BOOLEAN]
                \cup [to : {"osc_cb"}, bytes : Seq(Nat)]

Terminals == [vte : Emulations, con : Screens, heard : Seq(Nat), out : Seq(Messages)]

\* The flags of the emulation and those of the screen agree.
Agree(f, g) ==
    /\ \A mode \in DOMAIN Mirror : (mode \in f) = (Mirror[mode] \in g)
    /\ ("TEXT_CURSOR" \in f) = ("HIDE_CURSOR" \notin g)

Good(t) ==
    /\ t \in Terminals
    /\ t.con.margin_top <= t.con.margin_bottom
    /\ "BACKGROUND_COLOR_ERASE" \in t.vte.flags
    /\ Agree(t.vte.flags, t.con.flags)
    /\ t.con.def_attr = t.vte.cattr

Quiet(o) == \A i \in DOMAIN o : o[i].to = "server" => ~o[i].esc

Calm(t) == "PREPEND_ESCAPE" \notin t.vte.flags /\ Quiet(t.out)

\* u is as good as t, and as calm.
Keeps(t, u) == Good(u) /\ (Calm(t) => Calm(u))

LEMMA KeepsTwice ==
    ASSUME NEW t, NEW u, NEW w, Keeps(t, u), Keeps(u, w)
    PROVE  Keeps(t, w)
BY DEF Keeps

LEMMA GoodFields ==
    ASSUME NEW t, Good(t)
    PROVE  /\ t \in Terminals /\ t.vte \in Emulations /\ t.con \in Screens
           /\ t.heard \in Seq(Nat) /\ t.out \in Seq(Messages)
           /\ Keeps(t, t)
BY DEF Good, Terminals, Keeps

LEMMA Sizes ==
    /\ SizeY \in Nat /\ SizeY >= 1 /\ OscMax \in Nat /\ OscMax >= 1
    /\ ArgMax \in Nat /\ ArgMax >= 2
    /\ 0 \in Rows /\ SizeY - 1 \in Rows
BY VteAssumption DEF Rows

LEMMA LimitType == ArgLimit \in Nat /\ {-1, 0} \subseteq Numbers
<1>1. ArgLimit \in Nat
  BY SMT DEF ArgLimit
<1> QED
  BY <1>1 DEF Numbers

\* Of the emulation neither the flags nor the colours change.
LEMMA VteChanged ==
    ASSUME NEW t, Good(t), NEW v \in Emulations,
           v.flags = t.vte.flags, v.cattr = t.vte.cattr
    PROVE  Keeps(t, [t EXCEPT !.vte = v])
<1> DEFINE u == [t EXCEPT !.vte = v]
<1>1. t \in Terminals
  BY DEF Good
<1>2. u \in Terminals /\ u.vte = v /\ u.con = t.con /\ u.out = t.out
  BY <1>1 DEF Terminals
<1> HIDE DEF u
<1>3. QED
  BY <1>2 DEF Keeps, Good, Calm, u

\* Of the screen neither the flags nor the colours change.
LEMMA ConChanged ==
    ASSUME NEW t, Good(t), NEW c \in Screens, c.margin_top <= c.margin_bottom,
           c.flags = t.con.flags, c.def_attr = t.con.def_attr
    PROVE  Keeps(t, [t EXCEPT !.con = c])
<1> DEFINE u == [t EXCEPT !.con = c]
<1>1. t \in Terminals
  BY DEF Good
<1>2. u \in Terminals /\ u.vte = t.vte /\ u.con = c /\ u.out = t.out
  BY <1>1 DEF Terminals
<1> HIDE DEF u
<1>3. QED
  BY <1>2 DEF Keeps, Good, Calm, u

LEMMA HeardChanged ==
    ASSUME NEW t, Good(t), NEW h \in Seq(Nat)
    PROVE  Keeps(t, [t EXCEPT !.heard = h])
<1> DEFINE u == [t EXCEPT !.heard = h]
<1>1. t \in Terminals
  BY DEF Good
<1>2. u \in Terminals /\ u.vte = t.vte /\ u.con = t.con /\ u.out = t.out
  BY <1>1 DEF Terminals
<1> HIDE DEF u
<1>3. QED
  BY <1>2 DEF Keeps, Good, Calm, u

\* One message more.
LEMMA OutChanged ==
    ASSUME NEW t, Good(t), NEW m \in Messages, Calm(t) => (m.to = "server" => ~m.esc)
    PROVE  Keeps(t, [t EXCEPT !.out = Append(@, m)])
<1> DEFINE o == Append(t.out, m)
           u == [t EXCEPT !.out = o]
<1>1. t \in Terminals /\ t.out \in Seq(Messages)
  BY GoodFields
<1>2. o \in Seq(Messages) /\ (Calm(t) => Quiet(o))
  BY <1>1 DEF Calm, Quiet
<1> HIDE DEF o
<1>3. u \in Terminals /\ u.vte = t.vte /\ u.con = t.con /\ u.out = o
  BY <1>1, <1>2 DEF Terminals
<1> HIDE DEF u
<1>4. Keeps(t, u)
  BY <1>2, <1>3 DEF Keeps, Good, Calm
<1>5. QED
  BY <1>4 DEF u, o

\* The shifts of the character sets.
LEMMA ShiftChanged ==
    ASSUME NEW t, Good(t), NEW g \in Shifts
    PROVE  /\ Keeps(t, [t EXCEPT !.vte.gl = g])
           /\ Keeps(t, [t EXCEPT !.vte.gr = g])
           /\ Keeps(t, [t EXCEPT !.vte.glt = g])
<1>1. t.vte \in Emulations
  BY GoodFields
<1> DEFINE v == [t.vte EXCEPT !.gl = g]
           w == [t.vte EXCEPT !.gr = g]
           x == [t.vte EXCEPT !.glt = g]
<1>2. v \in Emulations /\ v.flags = t.vte.flags /\ v.cattr = t.vte.cattr
  BY <1>1 DEF Emulations
<1>3. w \in Emulations /\ w.flags = t.vte.flags /\ w.cattr = t.vte.cattr
  BY <1>1 DEF Emulations
<1>4. x \in Emulations /\ x.flags = t.vte.flags /\ x.cattr = t.vte.cattr
  BY <1>1 DEF Emulations
<1> HIDE DEF v, w, x
<1>5. Keeps(t, [t EXCEPT !.vte = v]) /\ Keeps(t, [t EXCEPT !.vte = w])
      /\ Keeps(t, [t EXCEPT !.vte = x])
  BY <1>2, <1>3, <1>4, VteChanged
<1>6. QED
  BY <1>5 DEF v, w, x

-----------------------------------------------------------------------------
(* Characters and the rules of the parser. *)

\* A character that is not complete leaves a state that waits for its next byte.
LEMMA MachFeedType ==
    ASSUME NEW m \in Machs, NEW b \in Nat
    PROVE  /\ ~Taken(MachFeed(m, b)) => MachFeed(m, b) \in Machs
           /\ MachGet(MachFeed(m, b)) \in Nat
<1> DEFINE r == MachFeed(m, b)
           more == b % 64
<1>1. /\ more \in Nat /\ b % 32 \in Nat /\ b % 16 \in Nat /\ b % 8 \in Nat
      /\ m.ch \in Nat /\ m.state \in {"START", "EXPECT1", "EXPECT2", "EXPECT3"}
  BY DEF Machs
<1>2. /\ \A n \in Nat : n * 64 \in Nat /\ n * 4096 \in Nat /\ n * 262144 \in Nat
      /\ m.ch + more \in Nat /\ m.ch + (more * 64) \in Nat /\ m.ch + (more * 4096) \in Nat
  BY <1>1
<1>3. r.ch \in Nat /\ r.state \in {"START", "ACCEPT", "REJECT", "EXPECT1", "EXPECT2", "EXPECT3"}
      /\ r = [state |-> r.state, ch |-> r.ch]
  <2>1. CASE m.state = "START"
    BY <1>1, <1>2, <2>1, SMT DEF MachFeed, START
  <2>2. CASE m.state # "START"
    BY <1>1, <1>2, <2>2, SMT DEF MachFeed
  <2> QED
    BY <2>1, <2>2
<1> HIDE DEF r
<1>4. (~Taken(r) => r \in Machs) /\ MachGet(r) \in Nat
  BY <1>3, SMT DEF Taken, Machs, MachGet, REPLACEMENT
<1> QED
  BY <1>4 DEF r

LEMMA EncodedType ==
    ASSUME NEW g \in Nat
    PROVE  Encoded(g) \in Seq(Nat)
<1>1. /\ g \div 64 \in Nat /\ g \div 4096 \in Nat /\ g \div 262144 \in Nat
      /\ (g \div 1) % 64 \in Nat /\ (g \div 64) % 64 \in Nat /\ (g \div 4096) % 64 \in Nat
  OBVIOUS
<1>2. QED
  BY <1>1, SMT DEF Encoded

\* A rule is the name of a state and the name of an action.  Only digits and semicolons
\* are parameters.
LEMMA RuleType ==
    ASSUME NEW s \in StateNames, NEW ch \in Nat
    PROVE  /\ Rule(s, ch)[1] \in StateNames
           /\ Rule(s, ch)[2] = "PARAM" => ch \in Parameter
<1> DEFINE Pair(r) == r[1] \in StateNames /\ (r[2] = "PARAM" => ch \in Parameter)
<1>1. Pair(AnywhereRule(ch))
  BY DEF AnywhereRule, StateNames
<1>2. Pair(EscRule(ch))
  BY DEF EscRule, StateNames
<1>3. Pair(EscIntRule(ch))
  BY DEF EscIntRule, StateNames
<1>4. Pair(CsiIgnoreRule(ch))
  BY DEF CsiIgnoreRule, StateNames
<1>5. Pair(OscRule(ch))
  BY DEF OscRule, StateNames
<1>6. Pair(HeadRule(Csi, s, ch))
  BY DEF HeadRule, Csi, StateNames
<1>7. Pair(HeadRule(Dcs, s, ch))
  BY DEF HeadRule, Dcs, StateNames
<1>8. /\ Pair(<<"NONE", IF ch \in Control THEN "EXECUTE" ELSE "PRINT">>)
      /\ Pair(<<"NONE", "IGNORE">>)
  BY DEF StateNames
<1> HIDE DEF Pair
<1>9. Pair(Rule(s, ch))
  BY <1>1, <1>2, <1>3, <1>4, <1>5, <1>6, <1>7, <1>8 DEF Rule
<1> QED
  BY <1>9 DEF Pair

-----------------------------------------------------------------------------
(* The screen. *)

\* The cursor may be on another row; nothing else is different.
MovedFrom(c, d) ==
    /\ d \in Screens /\ d.flags = c.flags /\ d.def_attr = c.def_attr
    /\ d.margin_top = c.margin_top /\ d.margin_bottom = c.margin_bottom

LEMMA RowChanged ==
    ASSUME NEW c \in Screens, NEW y \in Rows
    PROVE  MovedFrom(c, [c EXCEPT !.y = y])
BY DEF Screens, MovedFrom

LEMMA MoveTo ==
    ASSUME NEW c \in Screens, NEW y \in Nat
    PROVE  MovedFrom(c, MovedTo(c, y))
<1>1. c.margin_top \in Rows /\ c.margin_bottom \in Rows
  BY DEF Screens
<1> DEFINE z == Lesser(IF "REL_ORIGIN" \in c.flags THEN c.margin_top + y ELSE y,
                       IF "REL_ORIGIN" \in c.flags THEN c.margin_bottom ELSE SizeY - 1)
<1>2. z \in Rows
  BY <1>1, Sizes DEF Rows, Lesser
<1> HIDE DEF z
<1>3. MovedFrom(c, [c EXCEPT !.y = z])
  BY <1>2, RowChanged
<1> QED
  BY <1>3 DEF MovedTo, z

LEMMA MoveDown ==
    ASSUME NEW c \in Screens, NEW num \in Nat
    PROVE  MovedFrom(c, MovedDown(c, num))
<1>1. c.margin_bottom \in Rows /\ c.y \in Rows
  BY DEF Screens
<1> DEFINE z == Lesser(c.y + num, IF c.y <= c.margin_bottom THEN c.margin_bottom
                                  ELSE SizeY - 1)
<1>2. z \in Rows
  BY <1>1, Sizes DEF Rows, Lesser
<1> HIDE DEF z
<1>3. MovedFrom(c, [c EXCEPT !.y = z])
  BY <1>2, RowChanged
<1> QED
  BY <1>3 DEF MovedDown, z

LEMMA MoveUp ==
    ASSUME NEW c \in Screens, NEW num \in Nat
    PROVE  MovedFrom(c, MovedUp(c, num))
<1>1. c.margin_top \in Rows /\ c.y \in Rows
  BY DEF Screens
<1> DEFINE top == IF c.y >= c.margin_top THEN c.margin_top ELSE 0
           z == IF c.y - num > top THEN c.y - num ELSE top
<1>2. z \in Rows
  BY <1>1, Sizes DEF Rows
<1> HIDE DEF z
<1>3. MovedFrom(c, [c EXCEPT !.y = z])
  BY <1>2, RowChanged
<1> QED
  BY <1>3 DEF MovedUp, z

\* Whatever the numbers, the margins are on the screen and at least two rows, or all
\* of it.
LEMMA MarginsSet ==
    ASSUME NEW c \in Screens, NEW top \in Int, NEW bottom \in Int
    PROVE  LET d == WithMargins(c, top, bottom)
           IN  d \in Screens /\ d.margin_top <= d.margin_bottom
               /\ d.flags = c.flags /\ d.def_attr = c.def_attr
<1> DEFINE first == AtLeast1(top)
           all == bottom <= first \/ bottom > SizeY
           a == IF all THEN 0 ELSE first - 1
           b == IF all THEN SizeY - 1 ELSE bottom - 1
           d == [c EXCEPT !.margin_top = a, !.margin_bottom = b]
<1>1. a \in Rows /\ b \in Rows /\ a <= b
  BY Sizes DEF Rows, AtLeast1
<1> HIDE DEF a, b
<1>2. d = [[c EXCEPT !.margin_top = a] EXCEPT !.margin_bottom = b]
  OBVIOUS
<1>3. d \in Screens /\ d.margin_top = a /\ d.margin_bottom = b
      /\ d.flags = c.flags /\ d.def_attr = c.def_attr
  BY <1>1 DEF Screens
<1>4. WithMargins(c, top, bottom) = d
  BY DEF WithMargins, a, b
<1> QED
  BY <1>1, <1>3, <1>4

\* The screen of a terminal after a cursor movement.
LEMMA CursorMoved ==
    ASSUME NEW t, Good(t), NEW d, MovedFrom(t.con, d)
    PROVE  Keeps(t, [t EXCEPT !.con = d])
BY ConChanged DEF MovedFrom, Good

-----------------------------------------------------------------------------
(* The modes and the colours. *)

\* Flags of the emulation and of the screen that agree take the place of others that do.
LEMMA FlagsChanged ==
    ASSUME NEW t, Good(t), NEW f \in SUBSET Modes, NEW g \in SUBSET ScreenModes,
           Agree(f, g), "BACKGROUND_COLOR_ERASE" \in f,
           "PREPEND_ESCAPE" \in f => "PREPEND_ESCAPE" \in t.vte.flags
    PROVE  Keeps(t, [t EXCEPT !.vte.flags = f, !.con.flags = g])
<1> DEFINE v == [t.vte EXCEPT !.flags = f]
           c == [t.con EXCEPT !.flags = g]
           u == [t EXCEPT !.vte = v, !.con = c]
<1>1. t \in Terminals /\ t.vte \in Emulations /\ t.con \in Screens
  BY GoodFields
<1>2. v \in Emulations /\ v.flags = f /\ v.cattr = t.vte.cattr
  BY <1>1 DEF Emulations
<1>3. /\ c \in Screens /\ c.flags = g /\ c.def_attr = t.con.def_attr
      /\ c.margin_top = t.con.margin_top /\ c.margin_bottom = t.con.margin_bottom
  BY <1>1 DEF Screens
<1> HIDE DEF v, c
<1>4. u \in Terminals /\ u.vte = v /\ u.con = c /\ u.out = t.out
  BY <1>1, <1>2, <1>3 DEF Terminals
<1> HIDE DEF u
<1>5. Keeps(t, u)
  BY <1>2, <1>3, <1>4 DEF Keeps, Good, Calm
<1>6. QED
  BY <1>5 DEF u, v, c

\* The flags of the emulation alone.
LEMMA OwnFlagsChanged ==
    ASSUME NEW t, Good(t), NEW f \in SUBSET Modes,
           Agree(f, t.con.flags), "BACKGROUND_COLOR_ERASE" \in f,
           "PREPEND_ESCAPE" \in f => "PREPEND_ESCAPE" \in t.vte.flags
    PROVE  Keeps(t, [t EXCEPT !.vte.flags = f])
<1> DEFINE v == [t.vte EXCEPT !.flags = f]
           u == [t EXCEPT !.vte = v]
<1>1. t \in Terminals /\ t.vte \in Emulations /\ t.con \in Screens
  BY GoodFields
<1>2. v \in Emulations /\ v.flags = f /\ v.cattr = t.vte.cattr
  BY <1>1 DEF Emulations
<1> HIDE DEF v
<1>4. u \in Terminals /\ u.vte = v /\ u.con = t.con /\ u.out = t.out
  BY <1>1, <1>2 DEF Terminals
<1> HIDE DEF u
<1>5. Keeps(t, u)
  BY <1>2, <1>4 DEF Keeps, Good, Calm
<1>6. QED
  BY <1>5 DEF u, v

LEMMA WithModeKeeps ==
    ASSUME NEW t, Good(t), NEW mode \in SetModes, NEW on \in BOOLEAN
    PROVE  Keeps(t, WithMode(t, mode, on))
<1> DEFINE f == With(t.vte.flags, mode, on)
           g == IF mode \in DOMAIN Mirror THEN With(t.con.flags, Mirror[mode], on)
                ELSE IF mode = "TEXT_CURSOR" THEN With(t.con.flags, "HIDE_CURSOR", ~on)
                ELSE t.con.flags
<1>1. t.vte.flags \in SUBSET Modes /\ t.con.flags \in SUBSET ScreenModes
  BY GoodFields DEF Emulations, Screens
<1>2. f \in SUBSET Modes
  BY <1>1 DEF With, Modes
<1>3. g \in SUBSET ScreenModes
  BY <1>1 DEF With, ScreenModes, Mirror
<1>4. Agree(f, g)
  BY DEF Good, Agree, With, Mirror
<1>5. /\ "BACKGROUND_COLOR_ERASE" \in f
      /\ "PREPEND_ESCAPE" \in f => "PREPEND_ESCAPE" \in t.vte.flags
  BY DEF Good, SetModes, With
<1>6. WithMode(t, mode, on) = [t EXCEPT !.vte.flags = f, !.con.flags = g]
  BY DEF WithMode
<1> HIDE DEF f, g
<1>7. Keeps(t, [t EXCEPT !.vte.flags = f, !.con.flags = g])
  BY <1>2, <1>3, <1>4, <1>5, FlagsChanged
<1> QED
  BY <1>6, <1>7

\* While the colours of erased cells follow, and they always do.
LEMMA ColouredKeeps ==
    ASSUME NEW t, Good(t), NEW attr \in SUBSET Colours
    PROVE  Keeps(t, Coloured(t, attr))
<1> DEFINE v == [t.vte EXCEPT !.cattr = attr]
           c == [t.con EXCEPT !.def_attr = attr]
           u == [t EXCEPT !.vte = v, !.con = c]
<1>1. t \in Terminals /\ t.vte \in Emulations /\ t.con \in Screens
  BY GoodFields
<1>2. v \in Emulations /\ v.flags = t.vte.flags /\ v.cattr = attr
  BY <1>1 DEF Emulations
<1>3. /\ c \in Screens /\ c.flags = t.con.flags /\ c.def_attr = attr
      /\ c.margin_top = t.con.margin_top /\ c.margin_bottom = t.con.margin_bottom
  BY <1>1 DEF Screens
<1>4. Coloured(t, attr) = u
  BY DEF Coloured, Good
<1> HIDE DEF v, c
<1>5. u \in Terminals /\ u.vte = v /\ u.con = c /\ u.out = t.out
  BY <1>1, <1>2, <1>3 DEF Terminals
<1> HIDE DEF u
<1>6. Keeps(t, u)
  BY <1>2, <1>3, <1>5 DEF Keeps, Good, Calm
<1>7. QED
  BY <1>4, <1>6

-----------------------------------------------------------------------------
(* Resets. *)

\* What a reset leaves of the emulation and of the screen.
ResetOf(v) ==
    [state |-> "GROUND", argc |-> v.argc, argv |-> v.argv, marks |-> v.marks,
     osc |-> v.osc, mach |-> START, flags |-> DefaultModes, gl |-> "g0", gr |-> "g1",
     glt |-> NONE, sets |-> DefaultSets, cattr |-> {}, saved |-> DefaultSaved,
     alt_y |-> v.alt_y]
ScreenAt(y) ==
    [flags |-> {"AUTO_WRAP"}, y |-> y, margin_top |-> 0, margin_bottom |-> SizeY - 1,
     def_attr |-> {}]

LEMMA DefaultTypes ==
    /\ START \in Machs /\ DefaultSaved \in SavedStates /\ DefaultSets \in Designations
    /\ DefaultModes \in SUBSET Modes /\ "GROUND" \in StateNames /\ NONE \in StateNames
    /\ {"g0", "g1", NONE} \subseteq Shifts
<1>1. START \in Machs
  BY DEF START, Machs
<1>2. DefaultSaved \in SavedStates
  BY Sizes DEF DefaultSaved, SavedStates, Shifts
<1>3. DefaultSets \in Designations
  BY DEF DefaultSets, Designations, CharacterSets
<1>4. DefaultModes \in SUBSET Modes /\ "GROUND" \in StateNames /\ NONE \in StateNames
      /\ {"g0", "g1", NONE} \subseteq Shifts
  BY DEF DefaultModes, Modes, SetModes, StateNames, Shifts, NONE
<1> QED
  BY <1>1, <1>2, <1>3, <1>4

LEMMA ResetTypes ==
    /\ \A v \in Emulations : ResetOf(v) \in Emulations
    /\ \A y \in Rows : ScreenAt(y) \in Screens
    /\ Agree(DefaultModes, {"AUTO_WRAP"})
<1>1. ASSUME NEW v \in Emulations PROVE ResetOf(v) \in Emulations
  BY DefaultTypes DEF ResetOf, Emulations
<1>2. ASSUME NEW y \in Rows PROVE ScreenAt(y) \in Screens
  BY Sizes DEF ScreenAt, Screens, ScreenModes
<1>3. Agree(DefaultModes, {"AUTO_WRAP"})
  BY DEF Agree, DefaultModes, Mirror
<1> QED
  BY <1>1, <1>2, <1>3

LEMMA ResetForm ==
    ASSUME NEW t, t \in Terminals
    PROVE  Reset(t) = [vte |-> ResetOf(t.vte), con |-> ScreenAt(t.con.y),
                       heard |-> t.heard, out |-> t.out]
<1> DEFINE v == [t.vte EXCEPT
                    !.flags = DefaultModes, !.mach = START, !.state = "GROUND",
                    !.gl = "g0", !.gr = "g1", !.glt = NONE, !.sets = DefaultSets,
                    !.cattr = {}, !.saved = DefaultSaved]
           c == [ScreenReset(t.con) EXCEPT !.flags = {"AUTO_WRAP"}, !.def_attr = {}]
<1>1. t.vte \in Emulations /\ t.con \in Screens
  BY DEF Terminals
<1>2. v = ResetOf(t.vte)
  <2>1. /\ v \in Emulations
        /\ v.state = "GROUND" /\ v.argc = t.vte.argc /\ v.argv = t.vte.argv
        /\ v.marks = t.vte.marks /\ v.osc = t.vte.osc /\ v.mach = START
        /\ v.flags = DefaultModes /\ v.gl = "g0" /\ v.gr = "g1" /\ v.glt = NONE
        /\ v.sets = DefaultSets /\ v.cattr = {} /\ v.saved = DefaultSaved
        /\ v.alt_y = t.vte.alt_y
    BY <1>1, DefaultTypes DEF Emulations
  <2> HIDE DEF v
  <2> QED
    BY <2>1 DEF Emulations, ResetOf
<1>3. c = ScreenAt(t.con.y)
  <2> DEFINE b == ScreenReset(t.con)
  <2>1. /\ b \in Screens /\ b.margin_top = 0 /\ b.margin_bottom = SizeY - 1
        /\ b.y = t.con.y
    BY <1>1, Sizes DEF Screens, ScreenReset
  <2>2. c = [b EXCEPT !.flags = {"AUTO_WRAP"}, !.def_attr = {}]
    OBVIOUS
  <2> HIDE DEF b
  <2>3. /\ c \in Screens /\ c.margin_top = 0 /\ c.margin_bottom = SizeY - 1
        /\ c.y = t.con.y /\ c.flags = {"AUTO_WRAP"} /\ c.def_attr = {}
    BY <2>1, <2>2 DEF Screens, ScreenModes
  <2> HIDE DEF c
  <2> QED
    BY <2>3 DEF Screens, ScreenAt
<1>4. Reset(t) = [t EXCEPT !.vte = v, !.con = c]
  BY DEF Reset
<1> HIDE DEF v, c
<1>5. [t EXCEPT !.vte = v, !.con = c]
      = [vte |-> v, con |-> c, heard |-> t.heard, out |-> t.out]
  <2> DEFINE u == [t EXCEPT !.vte = v, !.con = c]
  <2>1. v \in Emulations /\ c \in Screens
    BY <1>1, <1>2, <1>3, ResetTypes DEF Screens
  <2>2. u \in Terminals /\ u.vte = v /\ u.con = c /\ u.heard = t.heard /\ u.out = t.out
    BY <2>1 DEF Terminals
  <2> HIDE DEF u
  <2>3. u = [vte |-> v, con |-> c, heard |-> t.heard, out |-> t.out]
    BY <2>2 DEF Terminals
  <2> QED
    BY <2>3 DEF u
<1> QED
  BY <1>2, <1>3, <1>4, <1>5

\* Whatever the modes have been, those of the emulation and of the screen agree after a
\* reset.
LEMMA ResetGood ==
    ASSUME NEW t, t \in Terminals
    PROVE  /\ Good(Reset(t)) /\ Reset(t).out = t.out
           /\ "PREPEND_ESCAPE" \notin Reset(t).vte.flags
<1> DEFINE v == ResetOf(t.vte)
           c == ScreenAt(t.con.y)
           u == [vte |-> v, con |-> c, heard |-> t.heard, out |-> t.out]
<1>1. t.vte \in Emulations /\ t.con.y \in Rows /\ t.heard \in Seq(Nat)
      /\ t.out \in Seq(Messages)
  BY DEF Terminals, Screens
<1>2. v \in Emulations /\ c \in Screens
  BY <1>1, ResetTypes
<1>3. v.flags = DefaultModes /\ v.cattr = {} /\ c.flags = {"AUTO_WRAP"} /\ c.def_attr = {}
      /\ c.margin_top <= c.margin_bottom
  BY Sizes DEF ResetOf, ScreenAt
<1> HIDE DEF v, c
<1>4. u \in Terminals /\ u.vte = v /\ u.con = c /\ u.out = t.out
  BY <1>1, <1>2 DEF Terminals
<1>5. Reset(t) = u
  BY ResetForm DEF v, c
<1> HIDE DEF u
<1>6. Good(u)
  BY <1>2, <1>3, <1>4, ResetTypes DEF Good, DefaultModes
<1> QED
  BY <1>3, <1>4, <1>5, <1>6 DEF DefaultModes

LEMMA ResetKeeps ==
    ASSUME NEW t, Good(t)
    PROVE  Keeps(t, Reset(t)) /\ Keeps(t, HardReset(t))
<1>1. Keeps(t, Reset(t))
  BY ResetGood DEF Keeps, Calm, Good
<1>2. Reset(t).con \in Screens /\ Good(Reset(t))
  BY <1>1, GoodFields DEF Keeps
<1>3. MovedFrom(Reset(t).con, MovedTo(Reset(t).con, 0))
  BY <1>2, MoveTo
<1>4. Keeps(Reset(t), HardReset(t))
  BY <1>2, <1>3, CursorMoved DEF HardReset
<1> QED
  BY <1>1, <1>4, KeepsTwice

\* The terminal that is created: all zero, then reset.
LEMMA CreatedGood ==
    /\ Good(Created) /\ Created.out = <<>> /\ "PREPEND_ESCAPE" \notin Created.vte.flags
    /\ Created.con = ScreenAt(0) /\ Created.heard = <<>>
    /\ \E z \in Emulations : Created.vte = ResetOf(z) /\ z.marks = {} /\ z.osc = <<>>
<1> DEFINE v == [state |-> NONE, argc |-> 0, argv |-> [i \in 0..(ArgMax - 1) |-> 0],
                 marks |-> {}, osc |-> <<>>, mach |-> START, flags |-> {},
                 gl |-> NONE, gr |-> NONE, glt |-> NONE, sets |-> DefaultSets,
                 cattr |-> {}, saved |-> DefaultSaved, alt_y |-> 0]
           c == [flags |-> {}, y |-> 0, margin_top |-> 0, margin_bottom |-> 0,
                 def_attr |-> {}]
           t == [vte |-> v, con |-> c, heard |-> <<>>, out |-> <<>>]
<1>1. {} \in SUBSET Nat /\ {} \in SUBSET Modes /\ {} \in SUBSET Colours
  OBVIOUS
<1>2. /\ [i \in 0..(ArgMax - 1) |-> 0] \in [0..(ArgMax - 1) -> Numbers]
      /\ 0 \in 0..ArgMax /\ <<>> \in Texts
  <2>1. 0 \in Numbers
    BY LimitType
  <2>3. 0 \in 0..ArgMax
    BY Sizes
  <2>2. <<>> \in Texts
    BY Sizes DEF Texts
  <2> QED
    BY <2>1, <2>2, <2>3
<1>3. v \in Emulations /\ v.marks = {} /\ v.osc = <<>>
  BY <1>1, <1>2, Sizes, DefaultTypes DEF Emulations
<1>4. c \in Screens /\ c.y = 0
  BY Sizes DEF Screens
<1> HIDE DEF v, c
<1>5. t \in Terminals /\ t.vte = v /\ t.con = c /\ t.heard = <<>> /\ t.out = <<>>
  BY <1>3, <1>4 DEF Terminals
<1>6. Created = Reset(t)
  BY DEF Created, v, c
<1> HIDE DEF t
<1>7. Good(Created) /\ Created.out = <<>> /\ "PREPEND_ESCAPE" \notin Created.vte.flags
  BY <1>5, <1>6, ResetGood
<1>8. Created.con = ScreenAt(0) /\ Created.vte = ResetOf(v) /\ Created.heard = <<>>
  BY <1>4, <1>5, <1>6, ResetForm
<1> QED
  BY <1>3, <1>7, <1>8

-----------------------------------------------------------------------------
(* Answers, the saved state and the control characters. *)

\* The flags after an escape went out, or its key turned out to mean nothing.
Unescaped(f) == f \ {"PREPEND_ESCAPE"}

LEMMA UnescapedAgree ==
    ASSUME NEW t, Good(t)
    PROVE  /\ Unescaped(t.vte.flags) \in SUBSET Modes
           /\ "BACKGROUND_COLOR_ERASE" \in Unescaped(t.vte.flags)
           /\ Agree(Unescaped(t.vte.flags), t.con.flags)
           /\ "PREPEND_ESCAPE" \notin Unescaped(t.vte.flags)
<1>1. t.vte.flags \in SUBSET Modes
  BY GoodFields DEF Emulations
<1> QED
  BY <1>1 DEF Unescaped, Good, Agree, Mirror

\* A message to the server takes the escape with it.
LEMMA SentKeeps ==
    ASSUME NEW t, Good(t), NEW m \in Messages, m.esc = ("PREPEND_ESCAPE" \in t.vte.flags)
    PROVE  LET u == [t EXCEPT !.out = Append(@, m), !.vte.flags = Unescaped(@)]
           IN  Keeps(t, u) /\ u.vte.flags = Unescaped(t.vte.flags)
               /\ u.out = Append(t.out, m)
<1> DEFINE o == Append(t.out, m)
           v == [t.vte EXCEPT !.flags = Unescaped(t.vte.flags)]
           u == [t EXCEPT !.out = o, !.vte = v]
<1>1. t \in Terminals /\ t.vte \in Emulations /\ t.out \in Seq(Messages)
  BY GoodFields
<1>2. v \in Emulations /\ v.flags = Unescaped(t.vte.flags) /\ v.cattr = t.vte.cattr
  BY <1>1, UnescapedAgree DEF Emulations
<1>3. o \in Seq(Messages) /\ (Calm(t) => Quiet(o))
  <2>1. Calm(t) => ~m.esc
    BY DEF Calm
  <2> QED
    BY <1>1, <2>1 DEF Calm, Quiet
<1>4. [t EXCEPT !.out = Append(@, m), !.vte.flags = Unescaped(@)] = u
  OBVIOUS
<1>7. o = Append(t.out, m)
  OBVIOUS
<1> HIDE DEF v, o
<1>5. u \in Terminals /\ u.vte = v /\ u.con = t.con /\ u.out = o
  BY <1>1, <1>2, <1>3 DEF Terminals
<1> HIDE DEF u
<1>6. Keeps(t, u)
  BY <1>2, <1>3, <1>5, UnescapedAgree DEF Keeps, Good, Calm
<1> QED
  BY <1>2, <1>4, <1>5, <1>6, <1>7

LEMMA AnsweredKeeps ==
    ASSUME NEW t, Good(t)
    PROVE  Keeps(t, Answered(t))
<1> DEFINE m == [to |-> "server", from |-> "answer", bytes |-> <<>>,
                 esc |-> "PREPEND_ESCAPE" \in t.vte.flags]
<1>1. m \in Messages /\ m.esc = ("PREPEND_ESCAPE" \in t.vte.flags)
  BY DEF Messages
<1>2. Answered(t) = [t EXCEPT !.out = Append(@, m), !.vte.flags = Unescaped(@)]
  BY DEF Answered, Unescaped
<1> HIDE DEF m
<1> QED
  BY <1>1, <1>2, SentKeeps

LEMMA SavedKeeps ==
    ASSUME NEW t, Good(t)
    PROVE  Keeps(t, Saved(t))
<1> DEFINE s == [y |-> t.con.y, cattr |-> t.vte.cattr, gl |-> t.vte.gl, gr |-> t.vte.gr,
                 wrap |-> "AUTO_WRAP" \in t.vte.flags, origin |-> "ORIGIN" \in t.vte.flags]
           v == [t.vte EXCEPT !.saved = s]
<1>1. t.vte \in Emulations /\ t.con \in Screens
  BY GoodFields
<1>2. s \in SavedStates
  BY <1>1 DEF SavedStates, Emulations, Screens
<1> HIDE DEF s
<1>3. v \in Emulations /\ v.flags = t.vte.flags /\ v.cattr = t.vte.cattr
  BY <1>1, <1>2 DEF Emulations
<1> HIDE DEF v
<1>4. Keeps(t, [t EXCEPT !.vte = v])
  BY <1>3, VteChanged
<1> QED
  BY <1>4 DEF Saved, v, s

\* Whatever was saved, and whatever the modes have been since.
LEMMA RestoredKeeps ==
    ASSUME NEW t, Good(t)
    PROVE  Keeps(t, Restored(t))
<1> DEFINE s == t.vte.saved
           a == [t EXCEPT !.con = MovedTo(t.con, s.y)]
           c == Coloured(a, s.cattr)
           m == WithMode(c, "AUTO_WRAP", s.wrap)
           n == WithMode(m, "ORIGIN", s.origin)
           p == [n EXCEPT !.vte.gl = s.gl]
           q == [p EXCEPT !.vte.gr = s.gr]
<1>1. s \in SavedStates /\ t.con \in Screens
  BY GoodFields DEF Emulations
<1>2. /\ s.y \in Nat /\ s.cattr \in SUBSET Colours /\ s.gl \in Shifts /\ s.gr \in Shifts
      /\ s.wrap \in BOOLEAN /\ s.origin \in BOOLEAN
  BY <1>1 DEF SavedStates, Rows
<1>3. {"AUTO_WRAP", "ORIGIN"} \subseteq SetModes
  BY DEF SetModes
<1>4. Restored(t) = q
  BY DEF Restored
<1> HIDE DEF s, a, c, m, n, p, q
<1>5. Keeps(t, a)
  BY <1>1, <1>2, MoveTo, CursorMoved DEF a
<1>6. Good(a)
  BY <1>5 DEF Keeps
<1>7. Keeps(a, c)
  BY <1>2, <1>6, ColouredKeeps DEF c
<1>8. Good(c)
  BY <1>7 DEF Keeps
<1>9. Keeps(c, m)
  BY <1>2, <1>3, <1>8, WithModeKeeps DEF m
<1>10. Good(m)
  BY <1>9 DEF Keeps
<1>11. Keeps(m, n)
  BY <1>2, <1>3, <1>10, WithModeKeeps DEF n
<1>12. Good(n)
  BY <1>11 DEF Keeps
<1>13. Keeps(n, p)
  BY <1>2, <1>12, ShiftChanged DEF p
<1>14. Good(p)
  BY <1>13 DEF Keeps
<1>15. Keeps(p, q)
  BY <1>2, <1>14, ShiftChanged DEF q
<1> QED
  BY <1>4, <1>5, <1>7, <1>9, <1>11, <1>13, <1>15, KeepsTwice

LEMMA ExecutedKeeps ==
    ASSUME NEW t, Good(t), NEW ch \in Nat
    PROVE  Keeps(t, Executed(t, ch))
<1>1. t.con \in Screens /\ Keeps(t, t)
  BY GoodFields
<1>2. Keeps(t, [t EXCEPT !.con = MovedDown(@, 1)])
      /\ Keeps(t, [t EXCEPT !.con = MovedUp(@, 1)])
  BY <1>1, MoveDown, MoveUp, CursorMoved
<1>3. /\ Keeps(t, [t EXCEPT !.vte.gl = "g1"]) /\ Keeps(t, [t EXCEPT !.vte.gl = "g0"])
      /\ Keeps(t, [t EXCEPT !.vte.glt = "g2"]) /\ Keeps(t, [t EXCEPT !.vte.glt = "g3"])
  BY ShiftChanged DEF Shifts
<1>4. Keeps(t, Answered(t))
  BY AnsweredKeeps
<1> QED
  BY <1>1, <1>2, <1>3, <1>4 DEF Executed

-----------------------------------------------------------------------------
(* Escape sequences. *)

LEMMA SetChanged ==
    ASSUME NEW t, Good(t), NEW d \in {"g0", "g1", "g2", "g3"}, NEW set \in CharacterSets
    PROVE  Keeps(t, [t EXCEPT !.vte.sets[d] = set])
<1> DEFINE sets == [t.vte.sets EXCEPT ![d] = set]
           v == [t.vte EXCEPT !.sets = sets]
<1>1. t.vte \in Emulations
  BY GoodFields
<1>2. sets \in Designations
  BY <1>1 DEF Emulations, Designations
<1> HIDE DEF sets
<1>3. v \in Emulations /\ v.flags = t.vte.flags /\ v.cattr = t.vte.cattr
  BY <1>1, <1>2 DEF Emulations
<1> HIDE DEF v
<1>4. Keeps(t, [t EXCEPT !.vte = v])
  BY <1>3, VteChanged
<1> QED
  BY <1>4 DEF v, sets

LEMMA EscKeeps ==
    ASSUME NEW t, Good(t), NEW ch \in Nat
    PROVE  Keeps(t, EscDispatched(t, ch))
<1> DEFINE marks == t.vte.marks
           cs == CharacterSet(ch)
           d == Designated(marks)
<1>1. t.con \in Screens /\ Keeps(t, t)
  BY GoodFields
<1>2. CASE cs # NONE /\ d # NONE
  <2>1. cs \in CharacterSets /\ d \in {"g0", "g1", "g2", "g3"}
    BY <1>2 DEF CharacterSet, Designated, CharacterSets
  <2>2. Keeps(t, [t EXCEPT !.vte.sets[d] = cs])
    BY <2>1, SetChanged
  <2> QED
    BY <1>2, <2>2 DEF EscDispatched
<1>3. ASSUME NEW on \in BOOLEAN
      PROVE  Keeps(t, WithMode(t, "USE_C1", on)) /\ Keeps(t, WithMode(t, "KEYPAD_APPLICATION", on))
  BY WithModeKeeps DEF SetModes
<1>4. Keeps(t, [t EXCEPT !.con = MovedDown(@, 1)])
      /\ Keeps(t, [t EXCEPT !.con = MovedUp(@, 1)])
  BY <1>1, MoveDown, MoveUp, CursorMoved
<1>5. ASSUME NEW g \in Shifts
      PROVE  /\ Keeps(t, [t EXCEPT !.vte.gl = g]) /\ Keeps(t, [t EXCEPT !.vte.gr = g])
             /\ Keeps(t, [t EXCEPT !.vte.glt = g])
  BY ShiftChanged
<1>6. {"g0", "g1", "g2", "g3"} \subseteq Shifts
  BY DEF Shifts
<1>7. /\ Keeps(t, Answered(t)) /\ Keeps(t, HardReset(t)) /\ Keeps(t, Saved(t))
      /\ Keeps(t, Restored(t))
  BY AnsweredKeeps, ResetKeeps, SavedKeeps, RestoredKeeps
<1>8. CASE ~(cs # NONE /\ d # NONE)
  BY <1>1, <1>3, <1>4, <1>5, <1>6, <1>7, <1>8 DEF EscDispatched
<1> QED
  BY <1>2, <1>8

-----------------------------------------------------------------------------
(* Loops over the parameters of a control sequence or the bytes of a string. *)

LEMMA NatSet ==
    ASSUME NEW S, 0 \in S, \A n \in Nat : n \in S => n + 1 \in S
    PROVE  Nat \subseteq S
<1> DEFINE T == {n \in Nat : n \notin S}
           R == {ss \in Nat \X Nat : ss[1] < ss[2]}
<1>1. SUFFICES ASSUME T # {} PROVE FALSE
  OBVIOUS
<1>2. IsWellFoundedOn(R, Nat)
  BY NatLessThanWellFounded DEF OpToRel
<1>3. PICK n \in T : \A m \in T : ~(<<m, n>> \in R)
  BY <1>1, <1>2, WFMin, Zenon
<1>4. n \in Nat /\ n \notin S
  BY <1>3
<1>5. n # 0
  BY <1>4
<1>6. n - 1 \in Nat /\ <<n - 1, n>> \in R
  BY <1>4, <1>5
<1>7. n - 1 \in S
  BY <1>3, <1>6
<1> QED
  BY <1>4, <1>6, <1>7

\* A loop whose rounds stay within D has a course for every number of rounds.
Course(D, x, step, n, f) ==
    f \in [0..n -> D]
    /\ \A k \in 0..n : f[k] = IF k = 0 THEN x ELSE step[<<f[k - 1], k - 1>>]

\* The round that handles element i + 1 of a sequence of n.
LEMMA RoundNumbers ==
    ASSUME NEW n \in Nat, NEW i \in 0..(n - 1), NEW D, NEW d \in D
    PROVE  <<d, i>> \in D \X Nat /\ i + 1 \in 1..n /\ i + 1 \in 1..(n + 1)
<1>1. i \in Nat
  OBVIOUS
<1>2. i + 1 \in 1..n /\ i + 1 \in 1..(n + 1)
  OBVIOUS
<1> QED
  BY <1>1, <1>2

LEMMA CourseExists ==
    ASSUME NEW D, NEW x \in D, NEW step, \A p \in D \X Nat : step[p] \in D, NEW n \in Nat
    PROVE  \E f : Course(D, x, step, n, f)
<1> DEFINE T == {i \in Nat : \E f : Course(D, x, step, i, f)}
<1>1. 0 \in T
  <2>1. Course(D, x, step, 0, [k \in 0..0 |-> x])
    BY DEF Course
  <2> QED
    BY <2>1
<1>2. ASSUME NEW i \in Nat, i \in T PROVE i + 1 \in T
  <2>1. PICK f : Course(D, x, step, i, f)
    BY <1>2
  <2> DEFINE last == step[<<f[i], i>>]
             g == [k \in 0..(i + 1) |-> IF k <= i THEN f[k] ELSE last]
  <2>2. f[i] \in D /\ last \in D
    <3>1. f[i] \in D
      BY <2>1 DEF Course
    <3> QED
      BY <3>1
  <2>3. g \in [0..(i + 1) -> D]
    <3>1. \A k \in 0..(i + 1) : k <= i => f[k] \in D
      BY <2>1 DEF Course
    <3> HIDE DEF last
    <3> QED
      BY <2>2, <3>1
  <2>4. ASSUME NEW k \in 0..(i + 1)
        PROVE  g[k] = IF k = 0 THEN x ELSE step[<<g[k - 1], k - 1>>]
    <3>1. CASE k = 0
      <4>1. 0 \in 0..i /\ 0 \in 0..(i + 1) /\ 0 <= i
        OBVIOUS
      <4>2. f[0] = x
        BY <2>1, <4>1 DEF Course
      <4>3. g[0] = f[0]
        BY <4>1
      <4> HIDE DEF g
      <4> QED
        BY <3>1, <4>2, <4>3
    <3>2. CASE k # 0 /\ k <= i
      <4>1. k \in 0..i /\ k - 1 \in 0..(i + 1) /\ k - 1 <= i
        BY <3>2
      <4>2. f[k] = step[<<f[k - 1], k - 1>>]
        BY <2>1, <3>2, <4>1 DEF Course
      <4> QED
        BY <3>2, <4>1, <4>2
    <3>3. CASE k = i + 1
      <4>1. ~(i + 1 <= i) /\ i \in 0..(i + 1) /\ i <= i /\ (i + 1) - 1 = i /\ i + 1 # 0
        OBVIOUS
      <4>2. g[k] = last /\ g[k - 1] = f[i]
        BY <3>3, <4>1
      <4> HIDE DEF g
      <4> QED
        BY <3>3, <4>1, <4>2
    <3> QED
      BY <3>1, <3>2, <3>3
  <2> HIDE DEF g
  <2>5. Course(D, x, step, i + 1, g)
    BY <2>3, <2>4 DEF Course
  <2> QED
    BY <2>5
<1> HIDE DEF T
<1>3. Nat \subseteq T
  BY <1>1, <1>2, NatSet
<1> QED
  BY <1>3 DEF T

-----------------------------------------------------------------------------
(* Control sequences. *)

LEMMA AlternateKeeps ==
    ASSUME NEW t, Good(t), NEW n, NEW set \in BOOLEAN
    PROVE  Keeps(t, AlternateMode(t, n, set))
<1> DEFINE v == [t.vte EXCEPT !.alt_y = t.con.y]
           kept == IF n \in {1048, 1049} /\ set THEN [t EXCEPT !.vte = v] ELSE t
           g == With(kept.con.flags, "ALTERNATE", set)
           there == IF n = 1048 THEN kept ELSE [kept EXCEPT !.con.flags = g]
           u == IF n \in {1048, 1049} /\ ~set
                THEN [there EXCEPT !.con = MovedTo(there.con, t.vte.alt_y)] ELSE there
<1>1. /\ t.vte \in Emulations /\ t.con \in Screens /\ Keeps(t, t)
      /\ t.vte.alt_y \in Nat /\ t.con.y \in Rows
  BY GoodFields, Sizes DEF Emulations, Screens, Rows
<1>2. v \in Emulations /\ v.flags = t.vte.flags /\ v.cattr = t.vte.cattr
  BY <1>1 DEF Emulations
<1>3. AlternateMode(t, n, set) = u
  BY DEF AlternateMode
<1> HIDE DEF v, u
<1>4. Keeps(t, kept)
  BY <1>1, <1>2, VteChanged
<1> HIDE DEF kept
<1>5. Good(kept) /\ kept.con \in Screens /\ kept.vte \in Emulations /\ kept \in Terminals
      /\ Keeps(kept, kept)
  BY <1>4, GoodFields DEF Keeps
<1>6. g \in SUBSET ScreenModes /\ Agree(kept.vte.flags, g)
  <2>1. kept.con.flags \in SUBSET ScreenModes
    BY <1>5 DEF Screens
  <2>2. g \in SUBSET ScreenModes
    BY <2>1 DEF With, ScreenModes
  <2>3. \A mode \in ScreenModes \ {"ALTERNATE"} : (mode \in g) = (mode \in kept.con.flags)
    BY DEF With
  <2>4. Agree(kept.vte.flags, kept.con.flags)
    BY <1>5 DEF Good
  <2> HIDE DEF g
  <2>5. Agree(kept.vte.flags, g)
    BY <2>3, <2>4 DEF Agree, Mirror, ScreenModes
  <2> QED
    BY <2>2, <2>5
<1> HIDE DEF g
<1>7. Keeps(kept, [kept EXCEPT !.con.flags = g])
  <2> DEFINE c == [kept.con EXCEPT !.flags = g]
             w == [kept EXCEPT !.con = c]
  <2>1. /\ c \in Screens /\ c.flags = g /\ c.def_attr = kept.con.def_attr
        /\ c.margin_top = kept.con.margin_top /\ c.margin_bottom = kept.con.margin_bottom
    BY <1>5, <1>6 DEF Screens
  <2> HIDE DEF c
  <2>2. w \in Terminals /\ w.vte = kept.vte /\ w.con = c /\ w.out = kept.out
    BY <1>5, <2>1 DEF Terminals
  <2> HIDE DEF w
  <2>3. Keeps(kept, w)
    BY <1>5, <1>6, <2>1, <2>2 DEF Keeps, Good, Calm
  <2> QED
    BY <2>3 DEF w, c
<1>8. Keeps(kept, there)
  BY <1>5, <1>7
<1> HIDE DEF there
<1>9. Keeps(t, there)
  BY <1>4, <1>8, KeepsTwice
<1>10. Good(there) /\ there.con \in Screens
  BY <1>8, GoodFields DEF Keeps
<1>11. Keeps(there, [there EXCEPT !.con = MovedTo(there.con, t.vte.alt_y)])
  BY <1>1, <1>10, MoveTo, CursorMoved
<1>12. Keeps(t, [there EXCEPT !.con = MovedTo(there.con, t.vte.alt_y)])
  BY <1>9, <1>11, KeepsTwice
<1> QED
  BY <1>3, <1>9, <1>12 DEF u

\* However many modes one sequence sets, in any order and with any of them unknown.
LEMMA ModeSetKeeps ==
    ASSUME NEW t, Good(t), NEW set \in BOOLEAN
    PROVE  Keeps(t, ModeSet(t, set))
<1> DEFINE D == {u \in Terminals : Keeps(t, u)}
           n == t.vte.argc
           One(r, a) ==
               LET dec == \h3F \in t.vte.marks
                   mode == IF dec THEN DecMode(a) ELSE PlainMode(a)
               IN  IF mode # NONE THEN WithMode(r, mode, set)
                   ELSE IF dec /\ a \in {47, 1047, 1048, 1049} THEN AlternateMode(r, a, set)
                   ELSE r
           F(f) == f = [k \in 0..n |-> IF k = 0 THEN t
                                       ELSE One(f[k - 1], t.vte.argv[k - 1])]
           step == [p \in D \X Nat |-> One(p[1], t.vte.argv[p[2]])]
           g == CHOOSE f : F(f)
<1>1. ModeSet(t, set) = g[n]
  BY DEF ModeSet
<1>2. ASSUME NEW r \in D, NEW a PROVE One(r, a) \in D
  <2>1. Keeps(t, r) /\ Good(r) /\ Keeps(r, r)
    BY GoodFields DEF Keeps
  <2>2. ASSUME NEW mode \in SetModes PROVE Keeps(r, WithMode(r, mode, set))
    BY <2>1, WithModeKeeps
  <2>3. Keeps(r, AlternateMode(r, a, set))
    BY <2>1, AlternateKeeps
  <2>4. /\ DecMode(a) # NONE => DecMode(a) \in SetModes
        /\ PlainMode(a) # NONE => PlainMode(a) \in SetModes
    BY DEF DecMode, PlainMode, SetModes, NONE
  <2>5. Keeps(r, One(r, a))
    BY <2>1, <2>2, <2>3, <2>4
  <2> HIDE DEF One
  <2>6. Keeps(t, One(r, a))
    BY <2>1, <2>5, KeepsTwice
  <2> QED
    BY <2>6 DEF Keeps, Good
<1>3. n \in Nat /\ t \in D
  BY GoodFields, Sizes DEF Emulations
<1> HIDE DEF D, n, One, g
<1>4. \E f : F(f)
  <2>1. \A p \in D \X Nat : step[p] \in D
    BY <1>2
  <2> HIDE DEF step
  <2>2. PICK f : Course(D, t, step, n, f)
    BY <1>3, <2>1, CourseExists
  <2>3. ASSUME NEW k \in 0..n
        PROVE  f[k] = IF k = 0 THEN t ELSE One(f[k - 1], t.vte.argv[k - 1])
    <3>1. CASE k = 0
      BY <2>2, <3>1 DEF Course
    <3>2. CASE k # 0
      <4>1. k - 1 \in 0..n /\ k - 1 \in Nat
        BY <1>3, <3>2
      <4>2. f[k - 1] \in D /\ f[k] = step[<<f[k - 1], k - 1>>]
        BY <2>2, <3>2, <4>1 DEF Course
      <4> QED
        BY <3>2, <4>1, <4>2 DEF step
    <3> QED
      BY <3>1, <3>2
  <2>4. f = [k \in 0..n |-> f[k]]
    BY <2>2 DEF Course
  <2>5. F(f)
    BY <2>3, <2>4
  <2> QED
    BY <2>5
<1>5. F(g)
  BY <1>4 DEF g
<1> DEFINE S == {k \in Nat : k <= n => g[k] \in D}
<1>6. 0 \in S
  BY <1>3, <1>5
<1>7. ASSUME NEW k \in Nat, k \in S PROVE k + 1 \in S
  <2>1. SUFFICES ASSUME k + 1 <= n PROVE g[k + 1] \in D
    OBVIOUS
  <2>2. g[k] \in D
    BY <1>3, <1>7, <2>1
  <2>3. k + 1 \in 0..n /\ k + 1 # 0 /\ (k + 1) - 1 = k
    BY <1>3, <2>1
  <2>4. g[k + 1] = One(g[k], t.vte.argv[k])
    BY <1>5, <2>3
  <2> QED
    BY <1>2, <2>2, <2>4
<1> HIDE DEF S
<1>8. Nat \subseteq S
  BY <1>6, <1>7, NatSet
<1>9. g[n] \in D
  BY <1>3, <1>8 DEF S
<1> QED
  BY <1>1, <1>9 DEF D

LEMMA AttributesKeep ==
    ASSUME NEW t, Good(t)
    PROVE  Keeps(t, AttributesSet(t))
<1> DEFINE v == t.vte
           n == v.argc
           none == v.argc <= 1 /\ v.argv[0] = -1
           Arg(i) == IF none THEN 0 ELSE v.argv[i]
           Length(i) == IF i + 1 >= ArgMax THEN 0
                        ELSE CASE Arg(i + 1) = 5 -> 3 [] Arg(i + 1) = 2 -> 5 [] OTHER -> 0
           Complete(i) == Length(i) # 0 /\ i + Length(i) <= v.argc
                          /\ \A k \in 2..(Length(i) - 1) : Arg(i + k) >= 0
           One(r, i) ==
               LET Now(attr) == [r EXCEPT !.attr = attr]
               IN  CASE i < r.next -> r
                     [] i >= r.next /\ Arg(i) = 0 -> Now({})
                     [] i >= r.next /\ Arg(i) = 1 -> Now(r.attr \cup {"bold"})
                     [] i >= r.next /\ Arg(i) = 22 -> Now(r.attr \ {"bold"})
                     [] i >= r.next /\ Arg(i) \in 30..37 -> Now(r.attr \cup {"colour"})
                     [] i >= r.next /\ Arg(i) = 39 -> Now(r.attr \ {"colour"})
                     [] i >= r.next /\ Arg(i) = 38 /\ Complete(i) ->
                           [attr |-> r.attr \cup {"colour"}, next |-> i + Length(i)]
                     [] OTHER -> r
           first == [attr |-> v.cattr, next |-> 0]
           F(f) == f = [k \in 0..n |-> IF k = 0 THEN first ELSE One(f[k - 1], k - 1)]
           g == CHOOSE f : F(f)
           D == [attr : SUBSET Colours, next : Nat]
           step == [p \in D \X Nat |-> One(p[1], p[2])]
<1>1. AttributesSet(t) = Coloured(t, g[n].attr)
  BY DEF AttributesSet
<1>2. ASSUME NEW r \in D, NEW i \in Nat PROVE One(r, i) \in D
  <2>1. Length(i) \in Nat
    OBVIOUS
  <2> HIDE DEF Length, Complete, Arg
  <2>2. i + Length(i) \in Nat
    BY <2>1
  <2>3. ASSUME NEW a \in SUBSET Colours PROVE [r EXCEPT !.attr = a] \in D
    OBVIOUS
  <2>4. /\ {} \in SUBSET Colours /\ r.attr \cup {"bold"} \in SUBSET Colours
        /\ r.attr \ {"bold"} \in SUBSET Colours /\ r.attr \cup {"colour"} \in SUBSET Colours
        /\ r.attr \ {"colour"} \in SUBSET Colours
    BY DEF Colours
  <2>5. [attr |-> r.attr \cup {"colour"}, next |-> i + Length(i)] \in D
    BY <2>2, <2>4
  <2> HIDE DEF D
  <2> QED
    BY <2>3, <2>4, <2>5
<1>3. n \in Nat /\ first \in D
  BY GoodFields, Sizes DEF Emulations
<1> HIDE DEF n, One, g, first
<1>4. \E f : F(f)
  <2>1. \A p \in D \X Nat : step[p] \in D
    <3> HIDE DEF D
    <3> QED
      BY <1>2
  <2> HIDE DEF step, D
  <2>2. PICK f : Course(D, first, step, n, f)
    BY <1>3, <2>1, CourseExists
  <2>3. ASSUME NEW k \in 0..n
        PROVE  f[k] = IF k = 0 THEN first ELSE One(f[k - 1], k - 1)
    <3>1. CASE k = 0
      BY <2>2, <3>1 DEF Course
    <3>2. CASE k # 0
      <4>1. k - 1 \in 0..n /\ k - 1 \in Nat
        BY <1>3, <3>2
      <4>2. f[k - 1] \in D /\ f[k] = step[<<f[k - 1], k - 1>>]
        BY <2>2, <3>2, <4>1 DEF Course
      <4> QED
        BY <3>2, <4>1, <4>2 DEF step
    <3> QED
      BY <3>1, <3>2
  <2>4. f = [k \in 0..n |-> f[k]]
    BY <2>2 DEF Course
  <2>5. F(f)
    BY <2>3, <2>4
  <2> QED
    BY <2>5
<1>5. F(g)
  BY <1>4 DEF g
<1> HIDE DEF D
<1> DEFINE S == {k \in Nat : k <= n => g[k] \in D}
<1>6. 0 \in S
  BY <1>3, <1>5
<1>7. ASSUME NEW k \in Nat, k \in S PROVE k + 1 \in S
  <2>1. SUFFICES ASSUME k + 1 <= n PROVE g[k + 1] \in D
    OBVIOUS
  <2>2. g[k] \in D
    BY <1>3, <1>7, <2>1
  <2>3. k + 1 \in 0..n /\ k + 1 # 0 /\ (k + 1) - 1 = k
    BY <1>3, <2>1
  <2>4. g[k + 1] = One(g[k], k)
    BY <1>5, <2>3
  <2> QED
    BY <1>2, <2>2, <2>4
<1> HIDE DEF S
<1>8. Nat \subseteq S
  BY <1>6, <1>7, NatSet
<1>9. g[n].attr \in SUBSET Colours
  <2>1. g[n] \in D
    BY <1>3, <1>8 DEF S
  <2> QED
    BY <2>1 DEF D
<1> QED
  BY <1>1, <1>9, ColouredKeeps

LEMMA CompatibilityKeeps ==
    ASSUME NEW t, Good(t)
    PROVE  Keeps(t, CompatibilitySet(t))
<1> DEFINE r == Reset(t)
           level == t.vte.argv[0]
           modes == CASE level = 61 -> {"7BIT"}
                      [] level \in 62..64 ->
                           {"8BIT"} \cup IF t.vte.argv[1] \in {1, 2} THEN {"USE_C1"} ELSE {}
                      [] OTHER -> {}
           f == r.vte.flags \cup modes
           m == [r EXCEPT !.vte.flags = f]
           u == [m EXCEPT !.vte.sets.g1 = "dec_supplemental"]
<1>1. Keeps(t, r)
  BY ResetKeeps
<1>2. modes \subseteq {"7BIT", "8BIT", "USE_C1"}
  OBVIOUS
<1>3. CompatibilitySet(t) = IF modes = {} THEN r ELSE u
  BY DEF CompatibilitySet
<1> HIDE DEF r, modes, u
<1>4. Good(r) /\ r.vte.flags \in SUBSET Modes
  BY <1>1, GoodFields DEF Keeps, Emulations
<1>5. /\ f \in SUBSET Modes /\ "BACKGROUND_COLOR_ERASE" \in f
      /\ "PREPEND_ESCAPE" \in f => "PREPEND_ESCAPE" \in r.vte.flags
  BY <1>2, <1>4 DEF Modes, SetModes, Good
<1>6. Agree(f, r.con.flags)
  <2>1. ASSUME NEW mode \in Modes \ {"7BIT", "8BIT", "USE_C1"}
        PROVE  mode \in f <=> mode \in r.vte.flags
    <3>1. mode \notin modes
      BY <1>2
    <3> QED
      BY <3>1
  <2>2. Agree(r.vte.flags, r.con.flags)
    BY <1>4 DEF Good
  <2> HIDE DEF f
  <2> QED
    BY <2>1, <2>2 DEF Agree, Mirror, Modes, SetModes
<1> HIDE DEF f
<1>7. Keeps(r, m)
  BY <1>4, <1>5, <1>6, OwnFlagsChanged
<1> HIDE DEF m
<1>8. Good(m)
  BY <1>7 DEF Keeps
<1>9. Keeps(m, [m EXCEPT !.vte.sets["g1"] = "dec_supplemental"])
  BY <1>8, SetChanged DEF CharacterSets
<1>10. Keeps(m, u)
  BY <1>9 DEF u
<1>11. Keeps(t, u)
  BY <1>1, <1>7, <1>10, KeepsTwice
<1> QED
  BY <1>1, <1>3, <1>11

LEMMA CsiKeeps ==
    ASSUME NEW u, Good(u), NEW ch \in Nat
    PROVE  Keeps(u, CsiDispatched(u, ch))
<1> DEFINE a == Lesser(u.vte.argc + 1, ArgMax)
           v == [u.vte EXCEPT !.argc = a]
           t == [u EXCEPT !.vte = v]
           r == CsiDispatched(u, ch)
           Arg(i) == t.vte.argv[i]
           num == AtLeast1(Arg(0))
           marks == t.vte.marks
<1>1. u.vte \in Emulations
  BY GoodFields
<1>2. a \in 0..ArgMax
  BY <1>1, Sizes DEF Lesser, Emulations
<1>3. r = CASE ch = \h41 -> [t EXCEPT !.con = MovedUp(@, num)]
            [] ch = \h42 -> [t EXCEPT !.con = MovedDown(@, num)]
            [] ch \in {\h64, \h48, \h66} -> [t EXCEPT !.con = MovedTo(@, num - 1)]
            [] ch = \h65 -> [t EXCEPT !.con = MovedTo(@, @.y + num)]
            [] ch = \h47 -> [t EXCEPT !.con = MovedTo(@, @.y)]
            [] ch = \h6D -> AttributesSet(t)
            [] ch = \h70 -> IF marks \cap {\h3E, \h21, \h24} # {} THEN Reset(t)
                            ELSE CompatibilitySet(t)
            [] ch \in {\h68, \h6C} -> ModeSet(t, ch = \h68)
            [] ch = \h72 -> [t EXCEPT !.con = WithMargins(@, Arg(0), Arg(1))]
            [] ch = \h63 -> IF t.vte.argc = 1 /\ Arg(0) <= 0
                               /\ (marks = {} \/ \h3E \in marks)
                            THEN Answered(t) ELSE t
            [] ch = \h6E -> IF Arg(0) \in {5, 6} THEN Answered(t) ELSE t
            [] OTHER -> t
  BY DEF CsiDispatched
<1> HIDE DEF a
<1>4. v \in Emulations /\ v.flags = u.vte.flags /\ v.cattr = u.vte.cattr
  BY <1>1, <1>2 DEF Emulations
<1> HIDE DEF v, r
<1>5. Keeps(u, t)
  BY <1>4, VteChanged
<1> HIDE DEF t
<1>6. Good(t) /\ t.vte \in Emulations /\ t.con \in Screens /\ Keeps(t, t)
  BY <1>5, GoodFields DEF Keeps
<1>7. Arg(0) \in Int /\ Arg(1) \in Int
  <2>1. 0 \in 0..(ArgMax - 1) /\ 1 \in 0..(ArgMax - 1)
    BY Sizes
  <2>2. t.vte.argv \in [0..(ArgMax - 1) -> Numbers]
    BY <1>6 DEF Emulations
  <2>3. Numbers \subseteq Int
    BY LimitType DEF Numbers
  <2> QED
    BY <2>1, <2>2, <2>3
<1> HIDE DEF Arg
<1>8. num \in Nat /\ num - 1 \in Nat /\ t.con.y \in Nat /\ t.con.y + num \in Nat
  BY <1>6, <1>7, Sizes DEF AtLeast1, Screens, Rows
<1> HIDE DEF num, marks
<1>9. /\ Keeps(t, [t EXCEPT !.con = MovedUp(@, num)])
      /\ Keeps(t, [t EXCEPT !.con = MovedDown(@, num)])
      /\ Keeps(t, [t EXCEPT !.con = MovedTo(@, num - 1)])
      /\ Keeps(t, [t EXCEPT !.con = MovedTo(@, @.y + num)])
      /\ Keeps(t, [t EXCEPT !.con = MovedTo(@, @.y)])
  BY <1>6, <1>8, MoveUp, MoveDown, MoveTo, CursorMoved
<1>10. Keeps(t, [t EXCEPT !.con = WithMargins(@, Arg(0), Arg(1))])
  <2> DEFINE d == WithMargins(t.con, Arg(0), Arg(1))
  <2>1. d \in Screens /\ d.margin_top <= d.margin_bottom
        /\ d.flags = t.con.flags /\ d.def_attr = t.con.def_attr
    BY <1>6, <1>7, MarginsSet
  <2> HIDE DEF d
  <2>2. Keeps(t, [t EXCEPT !.con = d])
    BY <1>6, <2>1, ConChanged
  <2> QED
    BY <2>2 DEF d
<1>11. /\ Keeps(t, AttributesSet(t)) /\ Keeps(t, Reset(t)) /\ Keeps(t, CompatibilitySet(t))
       /\ Keeps(t, Answered(t)) /\ Keeps(t, ModeSet(t, ch = \h68))
  BY <1>6, AttributesKeep, ResetKeeps, CompatibilityKeeps, AnsweredKeeps, ModeSetKeeps
<1>12. Keeps(t, r)
  BY <1>3, <1>6, <1>9, <1>10, <1>11
<1> QED
  BY <1>5, <1>12, KeepsTwice DEF r

-----------------------------------------------------------------------------
(* The actions of the parser. *)

LEMMA ClearedKeeps ==
    ASSUME NEW t, Good(t)
    PROVE  Keeps(t, Cleared(t))
<1> DEFINE argv == [i \in 0..(ArgMax - 1) |-> -1]
           v == [t.vte EXCEPT !.argc = 0, !.argv = argv, !.marks = {}, !.osc = <<>>]
<1>1. t.vte \in Emulations
  BY GoodFields
<1>2. argv \in [0..(ArgMax - 1) -> Numbers] /\ 0 \in 0..ArgMax /\ <<>> \in Texts
  BY LimitType, Sizes DEF Texts
<1>3. Cleared(t) = [t EXCEPT !.vte = v]
  BY DEF Cleared
<1> HIDE DEF argv
<1>4. v \in Emulations /\ v.flags = t.vte.flags /\ v.cattr = t.vte.cattr
  BY <1>1, <1>2 DEF Emulations
<1> HIDE DEF v
<1> QED
  BY <1>3, <1>4, VteChanged

\* However many digits and semicolons there are, no argument is written past the array and
\* none grows beyond a digit more than the limit.
LEMMA NumberedKeeps ==
    ASSUME NEW t, Good(t), NEW ch \in Parameter
    PROVE  Keeps(t, Numbered(t, ch))
<1> DEFINE k == t.vte.argc
           old == t.vte.argv[k]
           digit == ch - \h30
           next == Lesser(k + 1, ArgMax)
           number == IF old <= 0 THEN digit ELSE (old * 10) + digit
           v == [t.vte EXCEPT !.argc = next]
           argv == [t.vte.argv EXCEPT ![k] = number]
           w == [t.vte EXCEPT !.argv = argv]
<1>1. /\ t.vte \in Emulations /\ Keeps(t, t) /\ k \in 0..ArgMax
      /\ t.vte.argv \in [0..(ArgMax - 1) -> Numbers]
  BY GoodFields DEF Emulations
<1>2. CASE ch = SEMICOLON
  <2>1. next \in 0..ArgMax
    BY <1>1, Sizes DEF Lesser
  <2> HIDE DEF next
  <2>2. v \in Emulations /\ v.flags = t.vte.flags /\ v.cattr = t.vte.cattr
    BY <1>1, <2>1 DEF Emulations
  <2> HIDE DEF v
  <2>3. Keeps(t, [t EXCEPT !.vte = v])
    BY <2>2, VteChanged
  <2> QED
    BY <1>2, <2>3 DEF Numbered, v, next
<1>3. CASE ch # SEMICOLON /\ (k >= ArgMax \/ (k < ArgMax /\ old > ArgLimit))
  BY <1>1, <1>3 DEF Numbered
<1>4. CASE ch # SEMICOLON /\ ~(k >= ArgMax \/ (k < ArgMax /\ old > ArgLimit))
  <2>1. digit \in 0..9
    BY <1>4 DEF Parameter, SEMICOLON
  <2>2. k \in 0..(ArgMax - 1)
    BY <1>1, <1>4, Sizes
  <2>3. old \in Int /\ old <= ArgLimit /\ old >= -1
    <3>1. old \in Numbers
      BY <1>1, <2>2
    <3> QED
      BY <1>1, <1>4, <2>2, <3>1, LimitType, Sizes DEF Numbers
  <2> HIDE DEF digit, old
  <2>4. number \in Numbers
    BY <2>1, <2>3, LimitType DEF Numbers
  <2>5. Numbered(t, ch) = [t EXCEPT !.vte = w]
    BY <1>4 DEF Numbered, digit, old
  <2> HIDE DEF number
  <2>6. argv \in [0..(ArgMax - 1) -> Numbers]
    BY <1>1, <2>2, <2>4
  <2> HIDE DEF argv
  <2>7. w \in Emulations /\ w.flags = t.vte.flags /\ w.cattr = t.vte.cattr
    BY <1>1, <2>6 DEF Emulations
  <2> HIDE DEF w
  <2> QED
    BY <2>5, <2>7, VteChanged
<1> QED
  BY <1>2, <1>3, <1>4

\* A character that does not fit is left out; the string keeps within its array.
LEMMA OscKeeps ==
    ASSUME NEW t, Good(t), NEW ch \in Nat
    PROVE  Keeps(t, OscCollected(t, ch)) /\ Keeps(t, OscEnded(t))
<1> DEFINE osc == t.vte.osc \o Encoded(ch)
           v == [t.vte EXCEPT !.osc = osc]
           m == [to |-> "osc_cb", bytes |-> t.vte.osc]
<1>1. t.vte \in Emulations /\ Keeps(t, t) /\ t.vte.osc \in Seq(Nat)
  BY GoodFields DEF Emulations, Texts
<1>2. Encoded(ch) \in Seq(Nat)
  BY EncodedType
<1>3. Keeps(t, OscCollected(t, ch))
  <2>1. CASE Fits(t.vte.osc, Encoded(ch))
    <3>1. osc \in Texts
      BY <1>1, <1>2, <2>1 DEF Fits, Texts
    <3> HIDE DEF osc
    <3>2. v \in Emulations /\ v.flags = t.vte.flags /\ v.cattr = t.vte.cattr
      BY <1>1, <3>1 DEF Emulations
    <3> HIDE DEF v
    <3>3. Keeps(t, [t EXCEPT !.vte = v])
      BY <3>2, VteChanged
    <3> QED
      BY <2>1, <3>3 DEF OscCollected, v, osc
  <2>2. CASE ~Fits(t.vte.osc, Encoded(ch))
    BY <1>1, <2>2 DEF OscCollected
  <2> QED
    BY <2>1, <2>2
<1>5. m \in Messages /\ m.to # "server"
  BY <1>1 DEF Messages
<1>6. OscEnded(t) = [t EXCEPT !.out = Append(@, m)]
  BY DEF OscEnded
<1> HIDE DEF m
<1>7. Keeps(t, OscEnded(t))
  BY <1>5, <1>6, OutChanged
<1> QED
  BY <1>3, <1>7

LEMMA PrintedKeeps ==
    ASSUME NEW t, Good(t), NEW ch \in Nat, NEW wraps \in BOOLEAN
    PROVE  Keeps(t, Printed(t, ch, wraps))
<1> DEFINE m == IF ch \in 33..126 THEN [t EXCEPT !.vte.glt = NONE] ELSE t
           u == [m EXCEPT !.con = MovedDown(m.con, 1)]
<1>1. Keeps(t, m)
  BY ShiftChanged, GoodFields DEF Shifts, NONE
<1>2. Printed(t, ch, wraps) = IF wraps /\ "AUTO_WRAP" \in t.con.flags THEN u ELSE m
  BY DEF Printed
<1> HIDE DEF m, u
<1>3. Good(m) /\ m.con \in Screens
  BY <1>1, GoodFields DEF Keeps
<1>4. Keeps(m, u)
  BY <1>3, MoveDown, CursorMoved DEF u
<1>5. Keeps(t, u)
  BY <1>1, <1>4, KeepsTwice
<1> QED
  BY <1>1, <1>2, <1>5

LEMMA ActedKeeps ==
    ASSUME NEW t, Good(t), NEW ch \in Nat, NEW action, action = "PARAM" => ch \in Parameter,
           NEW wraps \in BOOLEAN
    PROVE  Keeps(t, Acted(t, ch, action, wraps))
<1> DEFINE h == [t EXCEPT !.heard = Append(t.heard, ch)]
           e == [t EXCEPT !.heard = <<>>]
           marks == h.vte.marks \cup ({ch} \cap Marks)
           w == [h.vte EXCEPT !.marks = marks]
           r == Acted(t, ch, action, wraps)
<1>1. Keeps(t, t) /\ t.heard \in Seq(Nat)
  BY GoodFields
<1>2. r = CASE action = "PRINT" -> Printed(t, ch, wraps)
            [] action = "EXECUTE" -> IF ch = SUB THEN Printed(t, \hBF, wraps)
                                     ELSE Executed(t, ch)
            [] action = "CLEAR" -> Cleared(e)
            [] action = "COLLECT" -> [h EXCEPT !.vte = w]
            [] action = "PARAM" -> Numbered(h, ch)
            [] action = "ESC_DISPATCH" -> EscDispatched(t, ch)
            [] action = "CSI_DISPATCH" -> CsiDispatched(t, ch)
            [] action = "OSC_COLLECT" -> OscCollected(h, ch)
            [] action = "OSC_END" -> OscEnded(t)
            [] OTHER -> t
  BY DEF Acted
<1> HIDE DEF r, h, e
<1>3. Keeps(t, h) /\ Keeps(t, e)
  <2>1. Append(t.heard, ch) \in Seq(Nat) /\ <<>> \in Seq(Nat)
    BY <1>1
  <2>2. Keeps(t, [t EXCEPT !.heard = Append(t.heard, ch)])
    BY <2>1, HeardChanged
  <2>3. Keeps(t, [t EXCEPT !.heard = <<>>])
    BY <2>1, HeardChanged
  <2> QED
    BY <2>2, <2>3 DEF h, e
<1>4. Good(h) /\ Good(e) /\ h.vte \in Emulations
  BY <1>3, GoodFields DEF Keeps
<1>5. Keeps(h, [h EXCEPT !.vte = w])
  <2>1. marks \in SUBSET Nat
    BY <1>4 DEF Emulations
  <2> HIDE DEF marks
  <2>2. w \in Emulations /\ w.flags = h.vte.flags /\ w.cattr = h.vte.cattr
    BY <1>4, <2>1 DEF Emulations
  <2> HIDE DEF w
  <2> QED
    BY <1>4, <2>2, VteChanged
<1> HIDE DEF w
<1>6. /\ Keeps(h, OscCollected(h, ch)) /\ Keeps(e, Cleared(e))
      /\ action = "PARAM" => Keeps(h, Numbered(h, ch))
  BY <1>4, OscKeeps, ClearedKeeps, NumberedKeeps
<1>7. /\ Keeps(t, [h EXCEPT !.vte = w]) /\ Keeps(t, OscCollected(h, ch))
      /\ Keeps(t, Cleared(e)) /\ (action = "PARAM" => Keeps(t, Numbered(h, ch)))
  BY <1>3, <1>5, <1>6, KeepsTwice
<1>8. /\ Keeps(t, Printed(t, ch, wraps)) /\ Keeps(t, Printed(t, \hBF, wraps))
      /\ Keeps(t, Executed(t, ch)) /\ Keeps(t, EscDispatched(t, ch))
      /\ Keeps(t, CsiDispatched(t, ch)) /\ Keeps(t, OscEnded(t))
  BY PrintedKeeps, ExecutedKeeps, EscKeeps, CsiKeeps, OscKeeps
<1>9. Keeps(t, r)
  BY <1>1, <1>2, <1>7, <1>8
<1> QED
  BY <1>9 DEF r

LEMMA ParsedKeeps ==
    ASSUME NEW t, Good(t), NEW ch \in Nat, NEW wraps \in BOOLEAN
    PROVE  Keeps(t, Parsed(t, ch, wraps))
<1> DEFINE rule == Rule(t.vte.state, ch)
           gone == Acted(t, ch, ExitAction(t.vte.state), wraps)
           done == Acted(gone, ch, rule[2], wraps)
           come == Acted(done, ch, EntryAction(rule[1]), wraps)
           v == [come.vte EXCEPT !.state = rule[1]]
           h == IF rule[1] = "GROUND" THEN <<>> ELSE come.heard
           a == [come EXCEPT !.vte = v]
           b == [a EXCEPT !.heard = h]
<1>1. t.vte.state \in StateNames
  BY GoodFields DEF Emulations
<1>2. rule[1] \in StateNames /\ (rule[2] = "PARAM" => ch \in Parameter)
  BY <1>1, RuleType
<1>3. Parsed(t, ch, wraps)
      = IF rule[1] = "NONE" THEN Acted(t, ch, rule[2], wraps)
        ELSE [come EXCEPT !.vte.state = rule[1],
                          !.heard = IF rule[1] = "GROUND" THEN <<>> ELSE @]
  BY DEF Parsed
<1> HIDE DEF rule
<1>4. Keeps(t, Acted(t, ch, rule[2], wraps))
  BY <1>2, ActedKeeps
<1>5. Keeps(t, gone)
  BY ActedKeeps DEF ExitAction
<1> HIDE DEF gone
<1>6. Keeps(gone, done)
  BY <1>2, <1>5, ActedKeeps DEF Keeps
<1> HIDE DEF done
<1>7. Keeps(done, come)
  BY <1>6, ActedKeeps DEF Keeps, EntryAction
<1> HIDE DEF come
<1>8. Good(come) /\ come.vte \in Emulations /\ come.heard \in Seq(Nat)
  BY <1>7, GoodFields DEF Keeps
<1>9. v \in Emulations /\ v.flags = come.vte.flags /\ v.cattr = come.vte.cattr
  BY <1>2, <1>8 DEF Emulations
<1> HIDE DEF v
<1>10. Keeps(come, a)
  BY <1>8, <1>9, VteChanged
<1>11. a.heard = come.heard /\ [come EXCEPT !.vte = v, !.heard = h] = b
  BY <1>8 DEF Good, Terminals
<1> HIDE DEF a
<1>12. Keeps(a, b)
  <2>1. h \in Seq(Nat)
    BY <1>8
  <2> HIDE DEF h
  <2> QED
    BY <1>10, <2>1, HeardChanged DEF Keeps
<1>13. Keeps(t, b)
  BY <1>5, <1>6, <1>7, <1>10, <1>12, KeepsTwice
<1>14. rule[1] # "NONE" => Parsed(t, ch, wraps) = b
  BY <1>3, <1>11 DEF v
<1> HIDE DEF b
<1> QED
  BY <1>3, <1>4, <1>13, <1>14

\* A byte, whichever it is, in the middle of whichever sequence or character.
LEMMA FedKeeps ==
    ASSUME NEW t, Good(t), NEW byte \in Nat, NEW wraps \in BOOLEAN
    PROVE  Keeps(t, Fed(t, byte, wraps))
<1> DEFINE mach == MachFeed(t.vte.mach, byte)
           next == IF Taken(mach) THEN START ELSE mach
           v == [t.vte EXCEPT !.mach = next]
           m == [t EXCEPT !.vte = v]
<1>1. t.vte \in Emulations /\ t.vte.mach \in Machs
  BY GoodFields DEF Emulations
<1>2. Fed(t, byte, wraps) =
        IF "7BIT" \in t.vte.flags THEN Parsed(t, byte % 128, wraps)
        ELSE IF "8BIT" \in t.vte.flags THEN Parsed(t, byte, wraps)
        ELSE IF Taken(mach) THEN Parsed(m, MachGet(mach), wraps)
        ELSE m
  BY DEF Fed
<1>3. next \in Machs /\ MachGet(mach) \in Nat
  BY <1>1, MachFeedType, DefaultTypes
<1> HIDE DEF mach, next
<1>4. v \in Emulations /\ v.flags = t.vte.flags /\ v.cattr = t.vte.cattr
  BY <1>1, <1>3 DEF Emulations
<1> HIDE DEF v
<1>5. Keeps(t, m)
  BY <1>4, VteChanged
<1> HIDE DEF m
<1>6. Keeps(m, Parsed(m, MachGet(mach), wraps))
  BY <1>3, <1>5, ParsedKeeps DEF Keeps
<1>7. Keeps(t, Parsed(m, MachGet(mach), wraps))
  BY <1>5, <1>6, KeepsTwice
<1>8. byte % 128 \in Nat
  OBVIOUS
<1>9. Keeps(t, Parsed(t, byte % 128, wraps)) /\ Keeps(t, Parsed(t, byte, wraps))
  BY <1>8, ParsedKeeps
<1> QED
  BY <1>2, <1>5, <1>7, <1>9

\* What FedAll does, one byte after the other.
FedSteps(t, bytes, g) ==
    g = [k \in 0..Len(bytes) |-> IF k = 0 THEN t ELSE Fed(g[k - 1], bytes[k], FALSE)]

LEMMA FedAllSteps ==
    ASSUME NEW t, Good(t), NEW bytes \in Seq(Nat)
    PROVE  /\ \E g : FedSteps(t, bytes, g) /\ FedAll(t, bytes) = g[Len(bytes)]
           /\ Keeps(t, FedAll(t, bytes))
<1> DEFINE n == Len(bytes)
           D == {u \in Terminals : Keeps(t, u)}
           step == [p \in D \X Nat |->
                       IF p[2] + 1 \in 1..n THEN Fed(p[1], bytes[p[2] + 1], FALSE) ELSE p[1]]
           g == CHOOSE f : FedSteps(t, bytes, f)
<1>1. FedAll(t, bytes) = g[n]
  BY DEF FedAll, Chain, FedSteps
<1>2. n \in Nat /\ t \in D /\ \A k \in 1..n : bytes[k] \in Nat
  BY GoodFields
<1>3. ASSUME NEW r \in D, NEW k \in 1..n PROVE Fed(r, bytes[k], FALSE) \in D
  <2>1. Keeps(t, r) /\ Good(r)
    BY DEF Keeps
  <2>2. Keeps(r, Fed(r, bytes[k], FALSE))
    BY <1>2, <2>1, FedKeeps
  <2>3. Keeps(t, Fed(r, bytes[k], FALSE))
    BY <2>1, <2>2, KeepsTwice
  <2> QED
    BY <2>3 DEF Keeps, Good
<1> HIDE DEF D, n, g
<1>4. \E f : FedSteps(t, bytes, f)
  <2>1. \A p \in D \X Nat : step[p] \in D
    BY <1>3
  <2> HIDE DEF step
  <2>2. PICK f : Course(D, t, step, n, f)
    BY <1>2, <2>1, CourseExists
  <2>3. ASSUME NEW k \in 0..n
        PROVE  f[k] = IF k = 0 THEN t ELSE Fed(f[k - 1], bytes[k], FALSE)
    <3>1. CASE k = 0
      BY <2>2, <3>1 DEF Course
    <3>2. CASE k # 0
      <4>1. k - 1 \in 0..n /\ k - 1 \in Nat /\ (k - 1) + 1 = k /\ k \in 1..n
        BY <1>2, <3>2
      <4>2. f[k - 1] \in D /\ f[k] = step[<<f[k - 1], k - 1>>]
        BY <2>2, <3>2, <4>1 DEF Course
      <4> QED
        BY <3>2, <4>1, <4>2 DEF step
    <3> QED
      BY <3>1, <3>2
  <2>4. f = [k \in 0..n |-> f[k]]
    BY <2>2 DEF Course
  <2>5. FedSteps(t, bytes, f)
    BY <2>3, <2>4 DEF FedSteps, n
  <2> QED
    BY <2>5
<1>5. FedSteps(t, bytes, g)
  BY <1>4 DEF g
<1> DEFINE S == {k \in Nat : k <= n => g[k] \in D}
<1>6. 0 \in S
  BY <1>2, <1>5 DEF FedSteps, n
<1>7. ASSUME NEW k \in Nat, k \in S PROVE k + 1 \in S
  <2>1. SUFFICES ASSUME k + 1 <= n PROVE g[k + 1] \in D
    OBVIOUS
  <2>2. g[k] \in D
    BY <1>2, <1>7, <2>1
  <2>3. k + 1 \in 0..n /\ k + 1 # 0 /\ (k + 1) - 1 = k /\ k + 1 \in 1..n
    BY <1>2, <2>1
  <2>4. g[k + 1] = Fed(g[k], bytes[k + 1], FALSE)
    BY <1>5, <2>3 DEF FedSteps, n
  <2> QED
    BY <1>3, <2>2, <2>3, <2>4
<1> HIDE DEF S
<1>8. Nat \subseteq S
  BY <1>6, <1>7, NatSet
<1>9. g[n] \in D
  BY <1>2, <1>8 DEF S
<1> QED
  BY <1>1, <1>5, <1>9 DEF D, n

LEMMA FedThrice ==
    ASSUME NEW t, Good(t), NEW a \in Nat, NEW b \in Nat, NEW c \in Nat
    PROVE  FedAll(t, <<a, b, c>>) = Fed(Fed(Fed(t, a, FALSE), b, FALSE), c, FALSE)
<1> DEFINE bytes == <<a, b, c>>
<1>1. bytes \in Seq(Nat) /\ Len(bytes) = 3
      /\ bytes[1] = a /\ bytes[2] = b /\ bytes[3] = c
  OBVIOUS
<1> HIDE DEF bytes
<1>2. PICK g : FedSteps(t, bytes, g) /\ FedAll(t, bytes) = g[3]
  BY <1>1, FedAllSteps
<1>3. g = [k \in 0..3 |-> IF k = 0 THEN t ELSE Fed(g[k - 1], bytes[k], FALSE)]
  BY <1>1, <1>2 DEF FedSteps
<1>4. \A k \in 0..3 : g[k] = IF k = 0 THEN t ELSE Fed(g[k - 1], bytes[k], FALSE)
  BY <1>3
<1>5. g[0] = t
  BY <1>4
<1>6. g[1] = Fed(g[0], a, FALSE)
  <2>1. 1 \in 0..3 /\ 1 # 0 /\ 1 - 1 = 0
    OBVIOUS
  <2>2. g[1] = Fed(g[1 - 1], bytes[1], FALSE)
    BY <1>4, <2>1
  <2> QED
    BY <1>1, <2>1, <2>2
<1>7. g[2] = Fed(g[1], b, FALSE)
  <2>1. 2 \in 0..3 /\ 2 # 0 /\ 2 - 1 = 1
    OBVIOUS
  <2>2. g[2] = Fed(g[2 - 1], bytes[2], FALSE)
    BY <1>4, <2>1
  <2> QED
    BY <1>1, <2>1, <2>2
<1>8. g[3] = Fed(g[2], c, FALSE)
  <2>1. 3 \in 0..3 /\ 3 # 0 /\ 3 - 1 = 2
    OBVIOUS
  <2>2. g[3] = Fed(g[3 - 1], bytes[3], FALSE)
    BY <1>4, <2>1
  <2> QED
    BY <1>1, <2>1, <2>2
<1> QED
  BY <1>2, <1>5, <1>6, <1>7, <1>8 DEF bytes

-----------------------------------------------------------------------------
(* Keys. *)

LEMMA KeyBytesType ==
    ASSUME NEW v, NEW key, key.ch \in Nat
    PROVE  KeyBytes(v, key) \in Seq(Nat)
<1>1. Encoded(key.ch) \in Seq(Nat)
  BY EncodedType
<1>2. key.ch % 256 \in Nat
  OBVIOUS
<1> QED
  BY <1>1, <1>2 DEF KeyBytes, ENQ, ESC

\* With local echo or without, the escape of a key is gone with the key.
LEMMA SentGood ==
    ASSUME NEW t, Good(t), NEW bytes \in Seq(Nat)
    PROVE  /\ Good(Sent(t, bytes)) /\ "PREPEND_ESCAPE" \notin Sent(t, bytes).vte.flags
           /\ "SEND_RECEIVE" \in t.vte.flags =>
                Sent(t, bytes).out =
                    Append(t.out, [to |-> "server", from |-> "key", bytes |-> bytes,
                                   esc |-> "PREPEND_ESCAPE" \in t.vte.flags])
<1> DEFINE echo == (IF "PREPEND_ESCAPE" \in t.vte.flags THEN <<ESC>> ELSE <<>>) \o bytes
           e == IF "SEND_RECEIVE" \in t.vte.flags THEN t ELSE FedAll(t, echo)
           m == [to |-> "server", from |-> "key", bytes |-> bytes,
                 esc |-> "PREPEND_ESCAPE" \in e.vte.flags]
           u == [e EXCEPT !.out = Append(@, m), !.vte.flags = Unescaped(@)]
<1>1. echo \in Seq(Nat)
  BY DEF ESC
<1>2. Sent(t, bytes) = u
  BY DEF Sent, Unescaped
<1> HIDE DEF echo
<1>3. Good(e)
  BY <1>1, FedAllSteps DEF Keeps
<1>4. "SEND_RECEIVE" \in t.vte.flags => e = t
  OBVIOUS
<1> HIDE DEF e
<1>5. m \in Messages /\ m.esc = ("PREPEND_ESCAPE" \in e.vte.flags)
  BY DEF Messages
<1>6. m = [to |-> "server", from |-> "key", bytes |-> bytes,
           esc |-> "PREPEND_ESCAPE" \in e.vte.flags]
  OBVIOUS
<1> HIDE DEF m
<1>7. Keeps(e, u) /\ u.vte.flags = Unescaped(e.vte.flags) /\ u.out = Append(e.out, m)
  BY <1>3, <1>5, SentKeeps
<1> HIDE DEF u
<1>8. Good(u) /\ "PREPEND_ESCAPE" \notin u.vte.flags
  BY <1>3, <1>7, UnescapedAgree DEF Keeps
<1> QED
  BY <1>2, <1>4, <1>6, <1>7, <1>8

LEMMA EscapePending ==
    ASSUME NEW t, Good(t)
    PROVE  LET a == [t EXCEPT !.vte.flags = @ \cup {"PREPEND_ESCAPE"}]
           IN  /\ Good(a) /\ a.out = t.out
               /\ a.vte.flags = t.vte.flags \cup {"PREPEND_ESCAPE"}
<1> DEFINE f == t.vte.flags \cup {"PREPEND_ESCAPE"}
           v == [t.vte EXCEPT !.flags = f]
           a == [t EXCEPT !.vte = v]
<1>1. t \in Terminals /\ t.vte \in Emulations /\ t.vte.flags \in SUBSET Modes
  BY GoodFields DEF Emulations
<1>2. f \in SUBSET Modes /\ "BACKGROUND_COLOR_ERASE" \in f /\ Agree(f, t.con.flags)
  BY <1>1 DEF Modes, Good, Agree, Mirror
<1>3. [t EXCEPT !.vte.flags = @ \cup {"PREPEND_ESCAPE"}] = a
  OBVIOUS
<1>4. f = t.vte.flags \cup {"PREPEND_ESCAPE"}
  OBVIOUS
<1> HIDE DEF f
<1>5. v \in Emulations /\ v.flags = f /\ v.cattr = t.vte.cattr
  BY <1>1, <1>2 DEF Emulations
<1> HIDE DEF v
<1>6. a \in Terminals /\ a.vte = v /\ a.con = t.con /\ a.out = t.out
  BY <1>1, <1>5 DEF Terminals
<1> HIDE DEF a
<1>7. Good(a)
  BY <1>2, <1>5, <1>6 DEF Good
<1> QED
  BY <1>3, <1>4, <1>5, <1>6, <1>7

\* A key means the same with Alt and without.
LEMMA KeyBytesSame ==
    ASSUME NEW v, NEW w, w.flags = v.flags \cup {"PREPEND_ESCAPE"}, NEW key
    PROVE  KeyBytes(w, key) = KeyBytes(v, key)
<1>1. /\ ("CURSOR_KEY" \in w.flags) <=> ("CURSOR_KEY" \in v.flags)
      /\ ("KEYPAD_APPLICATION" \in w.flags) <=> ("KEYPAD_APPLICATION" \in v.flags)
      /\ ("LINE_FEED_NEW_LINE" \in w.flags) <=> ("LINE_FEED_NEW_LINE" \in v.flags)
      /\ ("7BIT" \in w.flags) <=> ("7BIT" \in v.flags)
      /\ ("8BIT" \in w.flags \ {"7BIT"}) <=> ("8BIT" \in v.flags \ {"7BIT"})
      /\ (w.flags \cap {"7BIT", "8BIT"} = {}) <=> (v.flags \cap {"7BIT", "8BIT"} = {})
  OBVIOUS
<1> QED
  BY <1>1 DEF KeyBytes

\* What a key leaves and what it sends.
LEMMA PressedGood ==
    ASSUME NEW t, Good(t), "PREPEND_ESCAPE" \notin t.vte.flags, t.out = <<>>,
           NEW alt \in BOOLEAN, NEW key, key.ch \in Nat
    PROVE  /\ Good(Pressed(t, alt, key))
           /\ "PREPEND_ESCAPE" \notin Pressed(t, alt, key).vte.flags
           /\ "SEND_RECEIVE" \in t.vte.flags =>
                Pressed(t, alt, key).out =
                    IF key.kind = "none" THEN <<>>
                    ELSE <<[to |-> "server", from |-> "key",
                            bytes |-> KeyBytes(t.vte, key), esc |-> alt]>>
<1> DEFINE a == IF alt THEN [t EXCEPT !.vte.flags = @ \cup {"PREPEND_ESCAPE"}] ELSE t
           p == Pressed(t, alt, key)
           q == [a EXCEPT !.vte.flags = Unescaped(@)]
           r == Sent(a, KeyBytes(a.vte, key))
<1>1. p = IF key.kind = "none" THEN q ELSE r
  BY DEF Pressed, Unescaped
<1>2. /\ Good(a) /\ a.out = <<>>
      /\ a.vte.flags = IF alt THEN t.vte.flags \cup {"PREPEND_ESCAPE"} ELSE t.vte.flags
  BY EscapePending
<1>3. alt = ("PREPEND_ESCAPE" \in a.vte.flags)
  BY <1>2
<1>4. KeyBytes(a.vte, key) = KeyBytes(t.vte, key)
  BY <1>2, KeyBytesSame
<1>5. KeyBytes(t.vte, key) \in Seq(Nat)
  BY KeyBytesType
<1>6. "SEND_RECEIVE" \in t.vte.flags => "SEND_RECEIVE" \in a.vte.flags
  BY <1>2
<1> HIDE DEF a, p, q
<1>7. Good(q) /\ "PREPEND_ESCAPE" \notin q.vte.flags /\ q.out = <<>>
  <2> DEFINE f == Unescaped(a.vte.flags)
             v == [a.vte EXCEPT !.flags = f]
             u == [a EXCEPT !.vte = v]
  <2>1. a \in Terminals /\ a.vte \in Emulations
    BY <1>2, GoodFields
  <2>2. /\ f \in SUBSET Modes /\ "BACKGROUND_COLOR_ERASE" \in f /\ Agree(f, a.con.flags)
        /\ "PREPEND_ESCAPE" \notin f
    BY <1>2, UnescapedAgree
  <2>3. q = u
    BY DEF q
  <2> HIDE DEF f
  <2>4. v \in Emulations /\ v.flags = f /\ v.cattr = a.vte.cattr
    BY <2>1, <2>2 DEF Emulations
  <2> HIDE DEF v
  <2>5. u \in Terminals /\ u.vte = v /\ u.con = a.con /\ u.out = a.out
    BY <2>1, <2>4 DEF Terminals
  <2> HIDE DEF u
  <2> QED
    BY <1>2, <2>2, <2>3, <2>4, <2>5 DEF Good
<1> DEFINE b == KeyBytes(t.vte, key)
           m == [to |-> "server", from |-> "key", bytes |-> b, esc |-> alt]
<1>8. /\ Good(r) /\ "PREPEND_ESCAPE" \notin r.vte.flags
      /\ "SEND_RECEIVE" \in t.vte.flags =>
            r.out = Append(a.out, [to |-> "server", from |-> "key", bytes |-> b,
                                   esc |-> "PREPEND_ESCAPE" \in a.vte.flags])
  BY <1>2, <1>4, <1>5, <1>6, SentGood
<1> HIDE DEF r, b
<1>9. "SEND_RECEIVE" \in t.vte.flags => r.out = <<m>>
  <2>1. Append(<<>>, m) = <<m>>
    OBVIOUS
  <2>2. "SEND_RECEIVE" \in t.vte.flags => r.out = Append(<<>>, m)
    BY <1>2, <1>3, <1>8
  <2> QED
    BY <2>1, <2>2
<1> QED
  BY <1>1, <1>7, <1>8, <1>9 DEF b, p

-----------------------------------------------------------------------------
(* The inductive invariant and the theorems. *)

\* Between two calls the terminal is good and no escape waits for a key that is over.
VInv == Good(Terminal) /\ "PREPEND_ESCAPE" \notin vte.flags /\ client \in Clients

LEMMA TerminalFields ==
    Terminal.vte = vte /\ Terminal.con = con /\ Terminal.heard = heard /\ Terminal.out = <<>>
BY DEF Terminal

\* The next call starts with nothing sent.
LEMMA AfterCall ==
    ASSUME NEW t, Good(t)
    PROVE  Good([vte |-> t.vte, con |-> t.con, heard |-> t.heard, out |-> <<>>])
<1> DEFINE u == [vte |-> t.vte, con |-> t.con, heard |-> t.heard, out |-> <<>>]
<1>1. u \in Terminals /\ u.vte = t.vte /\ u.con = t.con
  BY DEF Good, Terminals
<1> HIDE DEF u
<1>2. Good(u)
  BY <1>1 DEF Good
<1> QED
  BY <1>2 DEF u

LEMMA VInvKept ==
    ASSUME VInv, NEW t, Good(t), "PREPEND_ESCAPE" \notin t.vte.flags, Becomes(t)
    PROVE  VInv'
<1>1. Terminal' = [vte |-> t.vte, con |-> t.con, heard |-> t.heard, out |-> <<>>]
  BY DEF Terminal, Becomes
<1>2. Good(Terminal')
  BY <1>1, AfterCall
<1> QED
  BY <1>2 DEF VInv, Becomes

LEMMA VInvInit == ASSUME Init PROVE VInv
<1>1. Good([vte |-> Created.vte, con |-> Created.con, heard |-> Created.heard,
            out |-> <<>>])
  BY CreatedGood, AfterCall
<1>2. Terminal = [vte |-> Created.vte, con |-> Created.con, heard |-> <<>>, out |-> <<>>]
  BY DEF Init, Terminal
<1>3. Good(Terminal)
  <2>1. Created.heard = <<>>
    BY CreatedGood
  <2> QED
    BY <1>1, <1>2, <2>1
<1> QED
  BY <1>3, CreatedGood DEF VInv, Init

\* What the server's byte and the user's key make of a good terminal.
LEMMA InputGood ==
    ASSUME VInv, NEW byte \in client.bytes, NEW wraps \in BOOLEAN
    PROVE  /\ Good(Fed(Terminal, byte, wraps))
           /\ "PREPEND_ESCAPE" \notin Fed(Terminal, byte, wraps).vte.flags
           /\ Quiet(Fed(Terminal, byte, wraps).out)
<1>1. byte \in Nat
  <2>1. client.bytes \subseteq 0..255
    BY VteAssumption DEF VInv
  <2> QED
    BY <2>1
<1>2. Good(Terminal) /\ Calm(Terminal)
  BY TerminalFields DEF VInv, Calm, Quiet
<1>3. Keeps(Terminal, Fed(Terminal, byte, wraps))
  BY <1>1, <1>2, FedKeeps
<1> QED
  BY <1>2, <1>3 DEF Keeps, Calm

LEMMA KeyGood ==
    ASSUME VInv, NEW alt \in BOOLEAN, NEW key \in client.keys
    PROVE  /\ Good(Pressed(Terminal, alt, key))
           /\ "PREPEND_ESCAPE" \notin Pressed(Terminal, alt, key).vte.flags
           /\ "SEND_RECEIVE" \in vte.flags =>
                Pressed(Terminal, alt, key).out =
                    IF key.kind = "none" THEN <<>>
                    ELSE <<[to |-> "server", from |-> "key",
                            bytes |-> KeyBytes(vte, key), esc |-> alt]>>
<1>1. key.ch \in Nat
  BY VteAssumption DEF VInv
<1>2. Good(Terminal) /\ "PREPEND_ESCAPE" \notin Terminal.vte.flags
  BY TerminalFields DEF VInv
<1> QED
  BY <1>1, <1>2, TerminalFields, PressedGood

LEMMA VInvNext == ASSUME VInv, [Next]_vars PROVE VInv'
<1>1. CASE Input
  <2>1. PICK byte \in client.bytes, wraps \in BOOLEAN :
            Becomes(Fed(Terminal, byte, wraps))
    BY <1>1 DEF Input
  <2> QED
    BY <2>1, InputGood, VInvKept
<1>2. CASE Key
  <2>1. PICK alt \in BOOLEAN, key \in client.keys : Becomes(Pressed(Terminal, alt, key))
    BY <1>2 DEF Key, KeyPress
  <2> QED
    BY <2>1, KeyGood, VInvKept
<1>3. CASE UNCHANGED vars
  BY <1>3 DEF vars, VInv, Terminal
<1> QED
  BY <1>1, <1>2, <1>3 DEF Next

LEMMA VInvAlways == Spec => []VInv
<1>1. Init => VInv
  BY VInvInit
<1>2. VInv /\ [Next]_vars => VInv'
  BY VInvNext
<1> QED
  BY <1>1, <1>2, PTL DEF Spec

\* Arguments, strings and the cursor keep within their bounds, whatever the server and the
\* user send, and the escape of an Alt key never outlives its key.
THEOREM EmulationTypes == Spec => []TypeOK
<1>1. ASSUME VInv PROVE TypeOK
  <2>1. /\ vte \in Emulations /\ con \in Screens /\ con.margin_top <= con.margin_bottom
        /\ "PREPEND_ESCAPE" \notin vte.flags
    BY <1>1, GoodFields, TerminalFields DEF VInv, Good
  <2>2. vte.argc \in 0..ArgMax /\ vte.argv \in [0..(ArgMax - 1) -> Numbers]
        /\ vte.osc \in Texts /\ vte.mach \in Machs
    BY <2>1 DEF Emulations
  <2>3. con.y \in Rows /\ con.margin_top \in Rows /\ con.margin_bottom \in Rows
    BY <2>1 DEF Screens
  <2>4. con.margin_bottom \in con.margin_top..(SizeY - 1)
    BY <2>1, <2>3, Sizes DEF Rows
  <2> QED
    BY <2>1, <2>2, <2>3, <2>4 DEF TypeOK, Numbers, Texts, Machs, Rows
<1>2. VInv => TypeOK
  BY <1>1
<1> QED
  BY <1>2, VInvAlways, PTL

\* The screen has the modes and the colours that the emulation believes it has, after
\* every sequence, every reset, and every saving and restoring of the cursor.
THEOREM ScreenFollows == Spec => []ModesAgree
<1>1. VInv => ModesAgree
  BY TerminalFields DEF VInv, Good, Agree, ModesAgree
<1> QED
  BY <1>1, VInvAlways, PTL

\* Without local echo a key goes out whole, escaped if and only if Alt is held, and an
\* answer is never escaped: also when keys and answers alternate.
THEOREM KeysGoOutWhole == Spec => KeysArriveWhole
<1> DEFINE F == /\ \A alt \in BOOLEAN, key \in client.keys :
                      KeyPress(alt, key) /\ "SEND_RECEIVE" \in vte.flags =>
                          out' = IF key.kind = "none" THEN <<>>
                                 ELSE <<[to |-> "server", from |-> "key",
                                         bytes |-> KeyBytes(vte, key), esc |-> alt]>>
                /\ Input => \A i \in DOMAIN out' : out'[i].to = "server" => ~out'[i].esc
<1>1. ASSUME VInv PROVE F
  <2>1. ASSUME NEW alt \in BOOLEAN, NEW key \in client.keys, KeyPress(alt, key),
               "SEND_RECEIVE" \in vte.flags
        PROVE  out' = IF key.kind = "none" THEN <<>>
                      ELSE <<[to |-> "server", from |-> "key",
                              bytes |-> KeyBytes(vte, key), esc |-> alt]>>
    BY <1>1, <2>1, KeyGood DEF KeyPress, Becomes
  <2>2. ASSUME Input
        PROVE  \A i \in DOMAIN out' : out'[i].to = "server" => ~out'[i].esc
    <3>1. PICK byte \in client.bytes, wraps \in BOOLEAN :
              Becomes(Fed(Terminal, byte, wraps))
      BY <2>2 DEF Input
    <3>2. Quiet(out')
      BY <1>1, <3>1, InputGood DEF Becomes
    <3> QED
      BY <3>2 DEF Quiet
  <2> QED
    BY <2>1, <2>2
<1>2. VInv /\ [Next]_vars => [F]_vars
  BY <1>1
<1> HIDE DEF F
<1>3. Spec => [][F]_vars
  BY <1>2, VInvAlways, PTL DEF Spec
<1> QED
  BY <1>3 DEF F, KeysArriveWhole

-----------------------------------------------------------------------------
(* ESC c, whatever has been sent before: the first of two escapes ends the character that *)
(* is being decoded, the second the sequence, and the reset finds both ended.             *)

\* What the escapes leave alone.
Untouched(t, u) ==
    /\ u.vte.alt_y = t.vte.alt_y /\ u.vte.flags = t.vte.flags /\ u.vte.mach = t.vte.mach

\* The actions that an escape, or a character that is not complete, can cause.
EscapeActions == {"PRINT", "CLEAR", "COLLECT", "OSC_COLLECT", "OSC_END", "NONE", "IGNORE"}

LEMMA VteReplaced ==
    ASSUME NEW t, t \in Terminals, NEW v \in Emulations
    PROVE  [t EXCEPT !.vte = v].vte = v
BY DEF Terminals

LEMMA HeardReplaced ==
    ASSUME NEW t, t \in Terminals, NEW h \in Seq(Nat)
    PROVE  [t EXCEPT !.heard = h].vte = t.vte /\ [t EXCEPT !.heard = h] \in Terminals
BY DEF Terminals

LEMMA ClearedForm ==
    ASSUME NEW t, Good(t)
    PROVE  /\ Untouched(t, Cleared(t)) /\ Cleared(t).vte.state = t.vte.state
           /\ Cleared(t).vte.marks = {} /\ Cleared(t).vte.osc = <<>>
<1> DEFINE argv == [i \in 0..(ArgMax - 1) |-> -1]
           v == [t.vte EXCEPT !.argc = 0, !.argv = argv, !.marks = {}, !.osc = <<>>]
<1>1. t \in Terminals /\ t.vte \in Emulations
  BY GoodFields
<1>2. argv \in [0..(ArgMax - 1) -> Numbers] /\ 0 \in 0..ArgMax /\ <<>> \in Texts
  BY LimitType, Sizes DEF Texts
<1>3. Cleared(t) = [t EXCEPT !.vte = v]
  BY DEF Cleared
<1> HIDE DEF argv
<1>4. /\ v \in Emulations /\ v.flags = t.vte.flags /\ v.alt_y = t.vte.alt_y
      /\ v.mach = t.vte.mach /\ v.state = t.vte.state /\ v.marks = {} /\ v.osc = <<>>
  BY <1>1, <1>2 DEF Emulations
<1> HIDE DEF v
<1>5. Cleared(t).vte = v
  BY <1>1, <1>3, <1>4, VteReplaced
<1> QED
  BY <1>4, <1>5 DEF Untouched

LEMMA ActedUntouched ==
    ASSUME NEW t, Good(t), NEW ch \in Nat, NEW action \in EscapeActions
    PROVE  Untouched(t, Acted(t, ch, action, FALSE))
<1> DEFINE h == [t EXCEPT !.heard = Append(t.heard, ch)]
           e == [t EXCEPT !.heard = <<>>]
           r == Acted(t, ch, action, FALSE)
<1>1. t \in Terminals /\ t.vte \in Emulations /\ t.heard \in Seq(Nat) /\ t.out \in Seq(Messages)
  BY GoodFields
<1>2. h.vte = t.vte /\ e.vte = t.vte /\ h \in Terminals
  <2>1. Append(t.heard, ch) \in Seq(Nat) /\ <<>> \in Seq(Nat)
    BY <1>1
  <2> QED
    BY <1>1, <2>1, HeardReplaced
<1>3. Good(e)
  <2>1. <<>> \in Seq(Nat)
    OBVIOUS
  <2> QED
    BY <2>1, HeardChanged DEF Keeps
<1>4. CASE action = "PRINT"
  <2>1. r = IF ch \in 33..126 THEN [t EXCEPT !.vte.glt = NONE] ELSE t
    <3>1. r = Printed(t, ch, FALSE)
      BY <1>4 DEF Acted
    <3> QED
      BY <3>1 DEF Printed
  <2> HIDE DEF h, e, r
  <2> DEFINE v == [t.vte EXCEPT !.glt = NONE]
  <2>2. /\ v \in Emulations /\ v.flags = t.vte.flags /\ v.alt_y = t.vte.alt_y
        /\ v.mach = t.vte.mach
    BY <1>1, DefaultTypes DEF Emulations
  <2>3. r = IF ch \in 33..126 THEN [t EXCEPT !.vte = v] ELSE t
    BY <2>1
  <2> HIDE DEF v
  <2>4. [t EXCEPT !.vte = v].vte = v
    BY <1>1, <2>2, VteReplaced
  <2>5. r.vte \in {v, t.vte}
    BY <2>3, <2>4
  <2>6. Untouched(t, r)
    BY <2>2, <2>5 DEF Untouched
  <2> QED
    BY <2>6 DEF r
<1>5. CASE action = "CLEAR"
  <2>1. r = Cleared(e)
    BY <1>5 DEF Acted
  <2> HIDE DEF r, e
  <2>2. Untouched(e, r)
    BY <1>3, <2>1, ClearedForm
  <2>3. Untouched(t, r)
    BY <1>2, <2>2 DEF Untouched
  <2> QED
    BY <2>3 DEF r
<1>6. CASE action = "COLLECT"
  <2> DEFINE marks == h.vte.marks \cup ({ch} \cap Marks)
             v == [h.vte EXCEPT !.marks = marks]
  <2>1. r = [h EXCEPT !.vte = v]
    BY <1>6 DEF Acted
  <2>2. marks \in SUBSET Nat
    BY <1>1, <1>2 DEF Emulations
  <2> HIDE DEF marks, h, r
  <2>3. /\ v \in Emulations /\ v.flags = t.vte.flags /\ v.alt_y = t.vte.alt_y
        /\ v.mach = t.vte.mach
    BY <1>1, <1>2, <2>2 DEF Emulations
  <2> HIDE DEF v
  <2>4. r.vte = v
    BY <1>2, <2>1, <2>3, VteReplaced
  <2>5. Untouched(t, r)
    BY <2>3, <2>4 DEF Untouched
  <2> QED
    BY <2>5 DEF r
<1>7. CASE action = "OSC_COLLECT"
  <2> DEFINE osc == h.vte.osc \o Encoded(ch)
             v == [h.vte EXCEPT !.osc = osc]
  <2>1. r = IF Fits(h.vte.osc, Encoded(ch)) THEN [h EXCEPT !.vte = v] ELSE h
    BY <1>7 DEF Acted, OscCollected
  <2> HIDE DEF h, r
  <2>2. CASE Fits(h.vte.osc, Encoded(ch))
    <3>1. h.vte.osc \in Seq(Nat) /\ Encoded(ch) \in Seq(Nat)
      BY <1>1, <1>2, EncodedType DEF Emulations, Texts
    <3>2. osc \in Texts
      BY <2>2, <3>1 DEF Fits, Texts
    <3> HIDE DEF osc
    <3>3. /\ v \in Emulations /\ v.flags = t.vte.flags /\ v.alt_y = t.vte.alt_y
          /\ v.mach = t.vte.mach
      BY <1>1, <1>2, <3>2 DEF Emulations
    <3> HIDE DEF v
    <3>4. r.vte = v
      BY <1>2, <2>1, <2>2, <3>3, VteReplaced
    <3>5. Untouched(t, r)
      BY <3>3, <3>4 DEF Untouched
    <3> QED
      BY <3>5 DEF r
  <2>3. CASE ~Fits(h.vte.osc, Encoded(ch))
    BY <1>2, <2>1, <2>3 DEF Untouched, r
  <2> QED
    BY <2>2, <2>3
<1>8. CASE action = "OSC_END"
  <2> DEFINE m == [to |-> "osc_cb", bytes |-> t.vte.osc]
             o == Append(t.out, m)
  <2>1. r = [t EXCEPT !.out = o]
    BY <1>8 DEF Acted, OscEnded
  <2>2. t.vte.osc \in Seq(Nat)
    BY <1>1 DEF Emulations, Texts
  <2>3. m \in Messages
    BY <2>2 DEF Messages
  <2> HIDE DEF m
  <2>4. o \in Seq(Messages)
    BY <1>1, <2>3
  <2> HIDE DEF o
  <2>5. [t EXCEPT !.out = o].vte = t.vte
    BY <1>1 DEF Terminals
  <2> QED
    BY <2>1, <2>5 DEF Untouched
<1>9. CASE action \in {"NONE", "IGNORE"}
  <2>1. r = t
    BY <1>9 DEF Acted
  <2> HIDE DEF r
  <2>2. Untouched(t, r)
    BY <2>1 DEF Untouched
  <2> QED
    BY <2>2 DEF r
<1> HIDE DEF r
<1> QED
  BY <1>4, <1>5, <1>6, <1>7, <1>8, <1>9 DEF EscapeActions, r

\* A change of state that an escape causes, or no change of state.
LEMMA ParsedUntouched ==
    ASSUME NEW t, Good(t), NEW ch \in Nat, Rule(t.vte.state, ch)[2] \in EscapeActions
    PROVE  Untouched(t, Parsed(t, ch, FALSE))
<1> DEFINE rule == Rule(t.vte.state, ch)
           gone == Acted(t, ch, ExitAction(t.vte.state), FALSE)
           done == Acted(gone, ch, rule[2], FALSE)
           come == Acted(done, ch, EntryAction(rule[1]), FALSE)
           v == [come.vte EXCEPT !.state = rule[1]]
           h == IF rule[1] = "GROUND" THEN <<>> ELSE come.heard
           b == [come EXCEPT !.vte = v, !.heard = h]
<1>1. t.vte.state \in StateNames
  BY GoodFields DEF Emulations
<1>2. rule[1] \in StateNames /\ (rule[2] = "PARAM" => ch \in Parameter)
      /\ rule[2] \in EscapeActions
  BY <1>1, RuleType
<1>3. Parsed(t, ch, FALSE) = IF rule[1] = "NONE" THEN Acted(t, ch, rule[2], FALSE) ELSE b
  BY DEF Parsed
<1> HIDE DEF rule
<1>4. \A s : ExitAction(s) \in EscapeActions /\ EntryAction(s) \in EscapeActions
  BY DEF ExitAction, EntryAction, EscapeActions
<1>5. \A a \in EscapeActions : a # "PARAM"
  BY DEF EscapeActions
<1>6. Untouched(t, gone) /\ Good(gone)
  BY <1>4, <1>5, ActedKeeps, ActedUntouched DEF Keeps
<1> HIDE DEF gone
<1>7. Untouched(gone, done) /\ Good(done)
  BY <1>2, <1>5, <1>6, ActedKeeps, ActedUntouched DEF Keeps
<1> HIDE DEF done
<1>8. Untouched(done, come) /\ Good(come)
  BY <1>4, <1>5, <1>7, ActedKeeps, ActedUntouched DEF Keeps
<1> HIDE DEF come
<1>9. come \in Terminals /\ come.vte \in Emulations /\ come.heard \in Seq(Nat)
  BY <1>8, GoodFields
<1>10. /\ v \in Emulations /\ v.flags = come.vte.flags /\ v.alt_y = come.vte.alt_y
       /\ v.mach = come.vte.mach
  BY <1>2, <1>9 DEF Emulations
<1> HIDE DEF v
<1>11. b.vte = v
  <2>1. h \in Seq(Nat)
    BY <1>9
  <2> HIDE DEF h
  <2> QED
    BY <1>9, <1>10, <2>1 DEF Terminals
<1> HIDE DEF b
<1>12. Untouched(t, b)
  BY <1>6, <1>7, <1>8, <1>10, <1>11 DEF Untouched
<1>13. Untouched(t, Acted(t, ch, rule[2], FALSE))
  BY <1>2, ActedUntouched
<1> QED
  BY <1>3, <1>12, <1>13

\* An escape starts a sequence in every state, and leaves nothing of another one.
LEMMA EscapeRules ==
    ASSUME NEW s
    PROVE  /\ Rule(s, ESC) = <<"ESC", "NONE">>
           /\ Rule(s, REPLACEMENT)[2] \in EscapeActions
<1>1. ESC \in Anywhere /\ AnywhereRule(ESC) = <<"ESC", "NONE">>
  BY DEF Anywhere, AnywhereRule, ESC
<1>2. Rule(s, ESC) = <<"ESC", "NONE">>
  BY <1>1 DEF Rule
<1> DEFINE ch == REPLACEMENT
<1>3. /\ ch \in Nat /\ ch \notin Anywhere /\ ch \notin Control /\ ch # DEL /\ ch > DEL
      /\ ch \notin Intermediate /\ ch \notin Parameter /\ ch \notin Private
      /\ ch \notin Final /\ ch # BEL
  BY SMT DEF REPLACEMENT, Anywhere, Control, DEL, Intermediate, Parameter, Private, Final,
             BEL, CAN, SUB, ESC
<1>4. /\ ch \notin {\h5B, \h5D, \h50, \h58, \h5E, \h5F} /\ ch \notin \h30..\h7E
  BY SMT DEF REPLACEMENT
<1> HIDE DEF ch
<1>5. EscRule(ch)[2] \in EscapeActions
  BY <1>3, <1>4 DEF EscRule, EscapeActions
<1>6. EscIntRule(ch)[2] \in EscapeActions /\ CsiIgnoreRule(ch)[2] \in EscapeActions
      /\ OscRule(ch)[2] \in EscapeActions
  BY <1>3, <1>4 DEF EscIntRule, CsiIgnoreRule, OscRule, EscapeActions
<1>7. HeadRule(Csi, s, ch)[2] \in EscapeActions /\ HeadRule(Dcs, s, ch)[2] \in EscapeActions
  BY <1>3 DEF HeadRule, Csi, Dcs, EscapeActions
<1>8. <<"NONE", "PRINT">>[2] \in EscapeActions /\ <<"NONE", "IGNORE">>[2] \in EscapeActions
  BY DEF EscapeActions
<1>9. Rule(s, ch)[2] \in EscapeActions
  BY <1>3, <1>5, <1>6, <1>7, <1>8 DEF Rule
<1> QED
  BY <1>2, <1>9 DEF ch

LEMMA EscapeParsed ==
    ASSUME NEW t, Good(t)
    PROVE  LET u == Parsed(t, ESC, FALSE)
           IN  /\ Untouched(t, u) /\ Good(u)
               /\ u.vte.state = "ESC" /\ u.vte.marks = {} /\ u.vte.osc = <<>>
<1> DEFINE u == Parsed(t, ESC, FALSE)
           gone == Acted(t, ESC, ExitAction(t.vte.state), FALSE)
           e == [gone EXCEPT !.heard = <<>>]
           c == Cleared(e)
           v == [c.vte EXCEPT !.state = "ESC"]
           b == [c EXCEPT !.vte = v, !.heard = c.heard]
<1>1. ESC \in Nat /\ Rule(t.vte.state, ESC) = <<"ESC", "NONE">>
  BY EscapeRules DEF ESC
<1>2. Untouched(t, u)
  <2>1. Rule(t.vte.state, ESC)[2] \in EscapeActions
    BY <1>1 DEF EscapeActions
  <2> HIDE DEF u
  <2>2. Untouched(t, Parsed(t, ESC, FALSE))
    BY <1>1, <2>1, ParsedUntouched
  <2> QED
    BY <2>2 DEF u
<1>3. Good(u)
  BY <1>1, ParsedKeeps DEF Keeps
<1>4. Good(gone)
  BY <1>1, ActedKeeps DEF Keeps, ExitAction
<1>5. u = b
  <2>1. Acted(gone, ESC, "NONE", FALSE) = gone
    BY DEF Acted
  <2>2. Acted(gone, ESC, "CLEAR", FALSE) = c
    BY DEF Acted
  <2>3. EntryAction("ESC") = "CLEAR"
    BY DEF EntryAction
  <2> HIDE DEF c, e
  <2>4. u = LET done == Acted(gone, ESC, "NONE", FALSE)
                in_ == Acted(done, ESC, EntryAction("ESC"), FALSE)
            IN  [in_ EXCEPT !.vte.state = "ESC", !.heard = @]
    BY <1>1 DEF Parsed
  <2> HIDE DEF gone, u
  <2> QED
    BY <2>1, <2>2, <2>3, <2>4
<1> HIDE DEF gone, u
<1>6. Good(e)
  <2>1. <<>> \in Seq(Nat)
    OBVIOUS
  <2> QED
    BY <1>4, <2>1, HeardChanged DEF Keeps
<1> HIDE DEF e
<1>7. Good(c) /\ c.vte.marks = {} /\ c.vte.osc = <<>>
  BY <1>6, ClearedForm, ClearedKeeps DEF Keeps
<1> HIDE DEF c
<1>8. c \in Terminals /\ c.vte \in Emulations /\ c.heard \in Seq(Nat)
  BY <1>7, GoodFields
<1>9. v \in Emulations /\ v.state = "ESC" /\ v.marks = {} /\ v.osc = <<>>
  BY <1>7, <1>8 DEF Emulations, StateNames
<1> HIDE DEF v
<1>10. b.vte = v
  BY <1>8, <1>9 DEF Terminals
<1> HIDE DEF b
<1>11. u.vte.state = "ESC" /\ u.vte.marks = {} /\ u.vte.osc = <<>>
  BY <1>5, <1>9, <1>10
<1> QED
  BY <1>2, <1>3, <1>11 DEF u

\* The decoder is at a boundary between characters, or is not used.
AtBoundary(t) ==
    t.vte.mach = START \/ "7BIT" \in t.vte.flags \/ "8BIT" \in t.vte.flags

LEMMA FirstEscape ==
    ASSUME NEW t, Good(t)
    PROVE  LET u == Fed(t, ESC, FALSE)
           IN  Good(u) /\ AtBoundary(u) /\ u.vte.alt_y = t.vte.alt_y
<1> DEFINE mach == MachFeed(t.vte.mach, ESC)
           v == [t.vte EXCEPT !.mach = START]
           m == [t EXCEPT !.vte = v]
           u == Fed(t, ESC, FALSE)
<1>1. t \in Terminals /\ t.vte \in Emulations /\ t.vte.mach \in Machs
  BY GoodFields DEF Emulations
<1>2. ESC \in Nat /\ ESC % 128 = ESC
  BY DEF ESC
<1>3. Taken(mach) /\ MachGet(mach) \in {ESC, REPLACEMENT}
  BY <1>1, SMT DEF MachFeed, Taken, MachGet, Machs, ESC
<1>4. u = IF "7BIT" \in t.vte.flags \/ "8BIT" \in t.vte.flags THEN Parsed(t, ESC, FALSE)
          ELSE Parsed(m, MachGet(mach), FALSE)
  BY <1>2, <1>3 DEF Fed
<1>5. Good(u)
  BY <1>2, FedKeeps DEF Keeps
<1> HIDE DEF u, mach
<1>6. CASE "7BIT" \in t.vte.flags \/ "8BIT" \in t.vte.flags
  <2>1. Untouched(t, u)
    BY <1>4, <1>6, EscapeParsed
  <2> QED
    BY <1>5, <1>6, <2>1 DEF Untouched, AtBoundary, u
<1>7. CASE ~("7BIT" \in t.vte.flags \/ "8BIT" \in t.vte.flags)
  <2>1. /\ v \in Emulations /\ v.flags = t.vte.flags /\ v.cattr = t.vte.cattr
        /\ v.mach = START /\ v.alt_y = t.vte.alt_y
    BY <1>1, DefaultTypes DEF Emulations
  <2> HIDE DEF v
  <2>2. Good(m) /\ m.vte = v
    BY <1>1, <2>1, VteChanged, VteReplaced DEF Keeps
  <2> HIDE DEF m
  <2>3. REPLACEMENT \in Nat
    BY SMT DEF REPLACEMENT
  <2>4. Rule(m.vte.state, MachGet(mach))[2] \in EscapeActions
    BY <1>3, EscapeRules DEF EscapeActions
  <2>5. MachGet(mach) \in Nat
    BY <1>2, <1>3, <2>3
  <2>6. Untouched(m, Parsed(m, MachGet(mach), FALSE))
    BY <2>2, <2>4, <2>5, ParsedUntouched
  <2>7. u.vte.mach = START /\ u.vte.alt_y = t.vte.alt_y
    BY <1>4, <1>7, <2>1, <2>2, <2>6 DEF Untouched
  <2> QED
    BY <1>5, <2>7 DEF AtBoundary, u
<1> QED
  BY <1>6, <1>7

LEMMA SecondEscape ==
    ASSUME NEW t, Good(t), AtBoundary(t)
    PROVE  LET u == Fed(t, ESC, FALSE)
           IN  /\ Good(u) /\ AtBoundary(u) /\ u.vte.alt_y = t.vte.alt_y
               /\ u.vte.state = "ESC" /\ u.vte.marks = {} /\ u.vte.osc = <<>>
<1> DEFINE mach == MachFeed(t.vte.mach, ESC)
           v == [t.vte EXCEPT !.mach = START]
           m == [t EXCEPT !.vte = v]
           u == Fed(t, ESC, FALSE)
<1>1. t \in Terminals /\ t.vte \in Emulations
  BY GoodFields
<1>2. ESC % 128 = ESC
  BY DEF ESC
<1>3. t.vte.mach = START => Taken(mach) /\ MachGet(mach) = ESC
  BY DEF MachFeed, Taken, MachGet, START, ESC
<1>4. u = IF "7BIT" \in t.vte.flags \/ "8BIT" \in t.vte.flags THEN Parsed(t, ESC, FALSE)
          ELSE Parsed(m, ESC, FALSE)
  BY <1>2, <1>3 DEF Fed, AtBoundary
<1>5. Good(m) /\ m.vte.flags = t.vte.flags /\ m.vte.alt_y = t.vte.alt_y
      /\ m.vte.mach = START
  <2>1. /\ v \in Emulations /\ v.flags = t.vte.flags /\ v.cattr = t.vte.cattr
        /\ v.mach = START /\ v.alt_y = t.vte.alt_y
    BY <1>1, DefaultTypes DEF Emulations
  <2> HIDE DEF v
  <2> QED
    BY <1>1, <2>1, VteChanged, VteReplaced DEF Keeps
<1> HIDE DEF u, m
<1>6. CASE "7BIT" \in t.vte.flags \/ "8BIT" \in t.vte.flags
  BY <1>4, <1>6, EscapeParsed DEF Untouched, AtBoundary, u
<1>7. CASE ~("7BIT" \in t.vte.flags \/ "8BIT" \in t.vte.flags)
  <2>1. u = Parsed(m, ESC, FALSE)
    BY <1>4, <1>7
  <2>2. /\ Untouched(m, u) /\ Good(u)
        /\ u.vte.state = "ESC" /\ u.vte.marks = {} /\ u.vte.osc = <<>>
    BY <1>5, <2>1, EscapeParsed
  <2> QED
    BY <1>5, <2>2 DEF Untouched, AtBoundary, u
<1> QED
  BY <1>6, <1>7

\* The last byte finds a fresh sequence and resets all.
LEMMA LastByte ==
    ASSUME NEW t, Good(t), AtBoundary(t), t.vte.state = "ESC", t.vte.marks = {},
           t.vte.osc = <<>>
    PROVE  LET u == Fed(t, \h63, FALSE)
           IN  u.con = ScreenAt(0) /\ u.vte = ResetOf(t.vte)
<1> DEFINE Same(w) == /\ Good(w) /\ w.vte.state = "ESC" /\ w.vte.marks = {}
                      /\ ResetOf(w.vte) = ResetOf(t.vte)
           v == [t.vte EXCEPT !.mach = START]
           m == [t EXCEPT !.vte = v]
           u == Fed(t, \h63, FALSE)
<1>1. t \in Terminals /\ t.vte \in Emulations
  BY GoodFields
<1>2. Same(m)
  <2>1. /\ v \in Emulations /\ v.flags = t.vte.flags /\ v.cattr = t.vte.cattr
        /\ v.state = "ESC" /\ v.marks = {} /\ v.argc = t.vte.argc /\ v.argv = t.vte.argv
        /\ v.osc = t.vte.osc /\ v.alt_y = t.vte.alt_y
    BY <1>1, DefaultTypes DEF Emulations
  <2> HIDE DEF v
  <2>2. Good(m) /\ m.vte = v
    BY <1>1, <2>1, VteChanged, VteReplaced DEF Keeps
  <2>3. ResetOf(v) = ResetOf(t.vte)
    BY <2>1 DEF ResetOf
  <2> QED
    BY <2>1, <2>2, <2>3
<1>3. \E w : Same(w) /\ u = Parsed(w, \h63, FALSE)
  <2>1. t.vte.mach = START =>
            /\ Taken(MachFeed(t.vte.mach, \h63)) /\ MachGet(MachFeed(t.vte.mach, \h63)) = \h63
    BY DEF MachFeed, Taken, MachGet, START
  <2>2. \h63 % 128 = \h63
    OBVIOUS
  <2>3. u = Parsed(t, \h63, FALSE) \/ u = Parsed(m, \h63, FALSE)
    BY <2>1, <2>2 DEF Fed, AtBoundary
  <2>4. Same(t)
    OBVIOUS
  <2> HIDE DEF Same, u, m
  <2> QED
    BY <1>2, <2>3, <2>4
<1>4. PICK w : Same(w) /\ u = Parsed(w, \h63, FALSE)
  BY <1>3
<1> HIDE DEF u
<1>5. Rule("ESC", \h63) = <<"GROUND", "ESC_DISPATCH">>
  BY DEF Rule, Anywhere, EscRule, Control, DEL, ESC, CAN, SUB
<1> DEFINE r == Reset(w)
           p == HardReset(w)
           q == [p.vte EXCEPT !.state = "GROUND"]
           b == [p EXCEPT !.vte = q, !.heard = <<>>]
<1>6. u = b
  <2>1. ExitAction("ESC") = "NONE" /\ EntryAction("GROUND") = "NONE"
    BY DEF ExitAction, EntryAction
  <2>2. \A x : Acted(x, \h63, "NONE", FALSE) = x
    BY DEF Acted
  <2>3. EscDispatched(w, \h63) = p
    BY <1>4 DEF EscDispatched, CharacterSet, NONE
  <2>4. Acted(w, \h63, "ESC_DISPATCH", FALSE) = p
    BY <2>3 DEF Acted
  <2> HIDE DEF p
  <2> DEFINE rule == Rule(w.vte.state, \h63)
             come == Acted(Acted(Acted(w, \h63, ExitAction(w.vte.state), FALSE),
                                 \h63, rule[2], FALSE), \h63, EntryAction(rule[1]), FALSE)
             h == IF rule[1] = "GROUND" THEN <<>> ELSE come.heard
  <2>5. u = IF rule[1] = "NONE" THEN Acted(w, \h63, rule[2], FALSE)
            ELSE [come EXCEPT !.vte.state = rule[1], !.heard = h]
    BY <1>4 DEF Parsed
  <2>6. rule[1] = "GROUND" /\ rule[2] = "ESC_DISPATCH" /\ w.vte.state = "ESC"
    BY <1>4, <1>5
  <2> HIDE DEF rule
  <2>7. come = p
    <3>1. ExitAction(w.vte.state) = "NONE" /\ EntryAction(rule[1]) = "NONE"
      BY <2>1, <2>6
    <3>2. Acted(w, \h63, ExitAction(w.vte.state), FALSE) = w
      BY <2>2, <3>1
    <3>3. Acted(w, \h63, rule[2], FALSE) = p
      BY <2>4, <2>6
    <3>4. Acted(p, \h63, EntryAction(rule[1]), FALSE) = p
      BY <2>2, <3>1
    <3> QED
      BY <3>2, <3>3, <3>4
  <2>8. h = <<>>
    BY <2>6
  <2> HIDE DEF come, h
  <2>9. u = [p EXCEPT !.vte.state = "GROUND", !.heard = <<>>]
    BY <2>5, <2>6, <2>7, <2>8
  <2> QED
    BY <2>9
<1>7. /\ r \in Terminals /\ r.vte = ResetOf(w.vte) /\ r.con = ScreenAt(w.con.y)
      /\ r.con \in Screens
  <2>1. w \in Terminals /\ Good(Reset(w))
    BY <1>4, ResetGood DEF Good
  <2> QED
    BY <2>1, ResetForm, GoodFields
<1>8. p = [r EXCEPT !.con = MovedTo(r.con, 0)]
  BY DEF HardReset
<1> HIDE DEF r, p
<1>9. MovedTo(r.con, 0) = ScreenAt(0)
  <2> DEFINE c == ScreenAt(w.con.y)
             z == Lesser(IF "REL_ORIGIN" \in c.flags THEN c.margin_top + 0 ELSE 0,
                         IF "REL_ORIGIN" \in c.flags THEN c.margin_bottom ELSE SizeY - 1)
             d == [c EXCEPT !.y = z]
  <2>1. c \in Screens /\ c.flags = {"AUTO_WRAP"} /\ c.margin_top = 0
        /\ c.margin_bottom = SizeY - 1 /\ c.def_attr = {}
    BY <1>7 DEF ScreenAt
  <2>2. MovedTo(r.con, 0) = d
    BY <1>7 DEF MovedTo
  <2> HIDE DEF c
  <2>3. z = 0 /\ z \in Rows
    BY <2>1, Sizes DEF Lesser
  <2> HIDE DEF z
  <2>4. /\ d \in Screens /\ d.flags = {"AUTO_WRAP"} /\ d.y = 0 /\ d.margin_top = 0
        /\ d.margin_bottom = SizeY - 1 /\ d.def_attr = {}
    BY <2>1, <2>3 DEF Screens
  <2> HIDE DEF d
  <2> QED
    BY <2>2, <2>4 DEF Screens, ScreenAt
<1>10. ScreenAt(0) \in Screens
  BY ResetTypes, Sizes
<1>11. p \in Terminals /\ p.vte = r.vte /\ p.con = ScreenAt(0)
  BY <1>7, <1>8, <1>9, <1>10 DEF Terminals
<1>12. q = ResetOf(w.vte)
  <2> DEFINE x == ResetOf(w.vte)
  <2>1. x \in Emulations /\ x.state = "GROUND"
    <3>1. w.vte \in Emulations
      BY <1>4, GoodFields
    <3> QED
      BY <3>1, ResetTypes DEF ResetOf
  <2>2. q = [x EXCEPT !.state = "GROUND"]
    BY <1>7, <1>11
  <2> HIDE DEF x
  <2>3. [x EXCEPT !.state = "GROUND"] = x
    BY <2>1 DEF Emulations
  <2> QED
    BY <2>2, <2>3 DEF x
<1>13. q \in Emulations
  BY <1>4, <1>12, GoodFields, ResetTypes
<1> HIDE DEF q
<1>14. b.vte = q /\ b.con = p.con
  <2>1. <<>> \in Seq(Nat)
    OBVIOUS
  <2> QED
    BY <1>11, <1>13, <2>1 DEF Terminals
<1> HIDE DEF b
<1>15. u.con = ScreenAt(0) /\ u.vte = ResetOf(t.vte)
  BY <1>4, <1>6, <1>11, <1>12, <1>14
<1> QED
  BY <1>15 DEF u

\* ESC c makes the terminal what it was when it was created, except for the cursor that
\* the alternate screen keeps and the numbers that the next sequence clears.
THEOREM ResetRecovers == Spec => []Recovers
<1>1. ASSUME VInv PROVE Recovers
  <2> DEFINE a == Fed(Terminal, ESC, FALSE)
             b == Fed(a, ESC, FALSE)
             c == Fed(b, \h63, FALSE)
             t == FedAll(Terminal, <<ESC, ESC, \h63>>)
  <2>1. Good(Terminal) /\ Terminal.vte = vte
    BY <1>1, TerminalFields DEF VInv
  <2>2. t = c
    <3>1. ESC \in Nat /\ \h63 \in Nat
      BY DEF ESC
    <3> HIDE DEF a, b, c, t
    <3>2. FedAll(Terminal, <<ESC, ESC, \h63>>) =
            Fed(Fed(Fed(Terminal, ESC, FALSE), ESC, FALSE), \h63, FALSE)
      BY <2>1, <3>1, FedThrice, ZenonT(30)
    <3> QED
      BY <3>2 DEF a, b, c, t
  <2>3. Good(a) /\ AtBoundary(a) /\ a.vte.alt_y = vte.alt_y
    BY <2>1, FirstEscape
  <2> HIDE DEF a
  <2>4. /\ Good(b) /\ AtBoundary(b) /\ b.vte.alt_y = vte.alt_y
        /\ b.vte.state = "ESC" /\ b.vte.marks = {} /\ b.vte.osc = <<>>
    BY <2>3, SecondEscape
  <2> HIDE DEF b
  <2>5. c.con = ScreenAt(0) /\ c.vte = ResetOf(b.vte)
    BY <2>4, LastByte
  <2> HIDE DEF c, t
  <2>6. PICK z \in Emulations : Created.vte = ResetOf(z) /\ z.marks = {} /\ z.osc = <<>>
    BY CreatedGood
  <2> DEFINE x == Created.vte
             w == [x EXCEPT !.alt_y = vte.alt_y, !.argc = t.vte.argc, !.argv = t.vte.argv]
  <2>7. b.vte \in Emulations /\ t.vte \in Emulations /\ x \in Emulations
    BY <2>2, <2>4, <2>5, <2>6, GoodFields, ResetTypes
  <2>8. /\ t.vte.argc = b.vte.argc /\ t.vte.argv = b.vte.argv /\ t.vte.alt_y = vte.alt_y
    BY <2>2, <2>4, <2>5 DEF ResetOf
  <2>9. /\ x.state = t.vte.state /\ x.marks = t.vte.marks /\ x.osc = t.vte.osc
        /\ x.mach = t.vte.mach /\ x.flags = t.vte.flags /\ x.gl = t.vte.gl
        /\ x.gr = t.vte.gr /\ x.glt = t.vte.glt /\ x.sets = t.vte.sets
        /\ x.cattr = t.vte.cattr /\ x.saved = t.vte.saved
    BY <2>2, <2>4, <2>5, <2>6 DEF ResetOf
  <2> HIDE DEF x
  <2>10. t.vte = w
    <3> DEFINE y == t.vte
    <3>1. /\ y \in Emulations /\ y.alt_y = vte.alt_y
      BY <2>7, <2>8
    <3>2. /\ w \in Emulations /\ w.alt_y = y.alt_y /\ w.argc = y.argc /\ w.argv = y.argv
          /\ w.state = x.state /\ w.marks = x.marks /\ w.osc = x.osc /\ w.mach = x.mach
          /\ w.flags = x.flags /\ w.gl = x.gl /\ w.gr = x.gr /\ w.glt = x.glt
          /\ w.sets = x.sets /\ w.cattr = x.cattr /\ w.saved = x.saved
      BY <2>7, <3>1 DEF Emulations
    <3> HIDE DEF w, y
    <3>3. w = y
      BY <2>9, <3>1, <3>2 DEF Emulations, y
    <3> QED
      BY <3>3 DEF y
  <2>11. t.con = Created.con
    BY <2>2, <2>5, CreatedGood
  <2> QED
    BY <2>10, <2>11 DEF Recovers, x, w, t
<1>2. VInv => Recovers
  BY <1>1
<1> QED
  BY <1>2, VInvAlways, PTL

-----------------------------------------------------------------------------
(* What was heard: the loops of the properties, one character more at a time. *)

LEMMA LoopRuns ==
    ASSUME NEW D, NEW x \in D, NEW step, \A p \in D \X Nat : step[p] \in D, NEW n \in Nat,
           NEW g, g[0] = x,
           \A k \in 1..n : g[k - 1] \in D => g[k] = step[<<g[k - 1], k - 1>>],
           NEW f, f = [k \in 0..n |-> g[k]]
    PROVE  Course(D, x, step, n, f)
<1> DEFINE S == {k \in Nat : k <= n => g[k] \in D}
<1>1. 0 \in S
  OBVIOUS
<1>2. ASSUME NEW k \in Nat, k \in S PROVE k + 1 \in S
  <2>1. SUFFICES ASSUME k + 1 <= n PROVE g[k + 1] \in D
    OBVIOUS
  <2>2. k + 1 \in 1..n /\ (k + 1) - 1 = k /\ g[k] \in D
    BY <1>2, <2>1
  <2>3. g[k + 1] = step[<<g[k], k>>]
    BY <2>2
  <2> QED
    BY <2>2, <2>3
<1> HIDE DEF S
<1>3. Nat \subseteq S
  BY <1>1, <1>2, NatSet
<1>4. \A k \in 0..n : g[k] \in D
  BY <1>3 DEF S
<1>5. f \in [0..n -> D]
  BY <1>4
<1>6. ASSUME NEW k \in 0..n PROVE f[k] = IF k = 0 THEN x ELSE step[<<f[k - 1], k - 1>>]
  <2>1. CASE k = 0
    BY <2>1
  <2>2. CASE k # 0
    <3>1. k \in 1..n /\ k - 1 \in 0..n
      BY <2>2
    <3>2. f[k] = g[k] /\ f[k - 1] = g[k - 1]
      BY <3>1
    <3>3. g[k] = step[<<g[k - 1], k - 1>>]
      BY <1>4, <3>1
    <3> QED
      BY <2>2, <3>2, <3>3
  <2> QED
    BY <2>1, <2>2
<1> QED
  BY <1>5, <1>6 DEF Course

\* A loop with one round more ends with what this round makes of where it was.
Rounds(D, step, next, n) == \A d \in D, k \in 0..(n - 1) : next[<<d, k>>] = step[<<d, k>>]

\* f is the course of a loop of n rounds, g that of one which has a round more.
Longer(D, x, step, next, n, m, f, g) ==
    /\ x \in D /\ n \in Nat /\ m = n + 1
    /\ Course(D, x, step, n, f) /\ Course(D, x, next, m, g) /\ Rounds(D, step, next, n)

LEMMA CourseGrows ==
    ASSUME NEW D, NEW x, NEW step, NEW next, NEW n, NEW m, NEW f, NEW g,
           Longer(D, x, step, next, n, m, f, g)
    PROVE  f[n] \in D /\ g[m] = next[<<f[n], n>>]
<1> DEFINE S == {k \in Nat : k <= n => g[k] = f[k] /\ f[k] \in D}
<1>0. x \in D /\ n \in Nat /\ m = n + 1
  BY DEF Longer
<1>1. /\ f \in [0..n -> D]
      /\ \A k \in 0..n : f[k] = IF k = 0 THEN x ELSE step[<<f[k - 1], k - 1>>]
      /\ \A k \in 0..m : g[k] = IF k = 0 THEN x ELSE next[<<g[k - 1], k - 1>>]
      /\ \A d \in D, k \in 0..(n - 1) : next[<<d, k>>] = step[<<d, k>>]
  BY DEF Longer, Course, Rounds
<1>2. 0 \in S
  <2>1. 0 \in 0..n /\ 0 \in 0..m
    BY <1>0
  <2>2. f[0] = x /\ g[0] = x
    BY <1>1, <2>1
  <2> QED
    BY <1>0, <2>2
<1>3. ASSUME NEW k \in Nat, k \in S PROVE k + 1 \in S
  <2>1. SUFFICES ASSUME k + 1 <= n PROVE g[k + 1] = f[k + 1] /\ f[k + 1] \in D
    OBVIOUS
  <2>2. /\ k + 1 \in 0..n /\ k + 1 \in 0..m /\ k + 1 # 0 /\ (k + 1) - 1 = k
        /\ k \in 0..(n - 1) /\ g[k] = f[k] /\ f[k] \in D
    BY <1>0, <1>3, <2>1
  <2>3. f[k + 1] = step[<<f[k], k>>]
    BY <1>1, <2>2
  <2>4. g[k + 1] = next[<<g[k], k>>]
    BY <1>1, <2>2
  <2>5. f[k + 1] \in D
    BY <1>1, <2>2
  <2>6. next[<<f[k], k>>] = step[<<f[k], k>>]
    BY <1>1, <2>2
  <2>7. next[<<g[k], k>>] = next[<<f[k], k>>]
    BY <2>2
  <2> QED
    BY <2>3, <2>4, <2>5, <2>6, <2>7
<1> HIDE DEF S
<1>4. Nat \subseteq S
  BY <1>2, <1>3, NatSet
<1>5. g[n] = f[n] /\ f[n] \in D
  BY <1>0, <1>4 DEF S
<1>6. m \in 0..m /\ m # 0 /\ m - 1 = n
  BY <1>0
<1>7. g[m] = next[<<g[n], n>>]
  BY <1>1, <1>6
<1> QED
  BY <1>5, <1>7

LEMMA SeparatorsGrow ==
    ASSUME NEW h \in Seq(Nat), NEW ch \in Nat
    PROVE  /\ \A i \in 1..(Len(h) + 1) :
                  Separators(Append(h, ch), i) = Separators(h, i) /\ Separators(h, i) \in Nat
           /\ Separators(Append(h, ch), Len(h) + 2)
                = Separators(h, Len(h) + 1) + IF ch = SEMICOLON THEN 1 ELSE 0
<1> DEFINE g == Append(h, ch)
           n == Len(h)
           Of(s, i) == {j \in 1..(i - 1) : s[j] = SEMICOLON}
<1>1. n \in Nat /\ (\A j \in 1..n : g[j] = h[j]) /\ g[n + 1] = ch
  OBVIOUS
<1> HIDE DEF g, n
<1>2. \A i \in 1..(n + 1) : Of(g, i) = Of(h, i) /\ IsFiniteSet(Of(h, i))
  <2>1. ASSUME NEW i \in 1..(n + 1) PROVE Of(g, i) = Of(h, i) /\ IsFiniteSet(Of(h, i))
    <3>1. Of(g, i) = Of(h, i)
      BY <1>1
    <3>2. IsFiniteSet(1..(i - 1)) /\ Of(h, i) \subseteq 1..(i - 1)
      BY <1>1, FS_Interval
    <3> QED
      BY <3>1, <3>2, FS_Subset
  <2> QED
    BY <2>1
<1>3. n + 1 \in 1..(n + 1)
  BY <1>1
<1>4. Of(g, n + 2) = Of(h, n + 1) \cup (IF ch = SEMICOLON THEN {n + 1} ELSE {})
  <2>1. ASSUME NEW j PROVE j \in 1..((n + 2) - 1) <=> j \in 1..((n + 1) - 1) \/ j = n + 1
    BY <1>1
  <2>2. \A j \in 1..((n + 1) - 1) : g[j] = h[j]
    BY <1>1
  <2> QED
    BY <1>1, <2>1, <2>2
<1>5. n + 1 \notin Of(h, n + 1)
  BY <1>1
<1>6. Cardinality(Of(g, n + 2)) = Cardinality(Of(h, n + 1)) + IF ch = SEMICOLON THEN 1 ELSE 0
  <2> HIDE DEF Of
  <2>1. IsFiniteSet(Of(h, n + 1)) /\ Cardinality(Of(h, n + 1)) \in Nat
    BY <1>2, <1>3, FS_CardinalityType
  <2>2. Cardinality(Of(h, n + 1) \cup {n + 1}) = Cardinality(Of(h, n + 1)) + 1
    BY <1>5, <2>1, FS_AddElement
  <2>3. Of(h, n + 1) \cup {} = Of(h, n + 1)
    OBVIOUS
  <2>4. CASE ch = SEMICOLON
    <3>1. Of(g, n + 2) = Of(h, n + 1) \cup {n + 1}
      BY <1>4, <2>4
    <3> QED
      BY <2>2, <2>4, <3>1
  <2>5. CASE ch # SEMICOLON
    <3>1. Of(g, n + 2) = Of(h, n + 1)
      BY <1>4, <2>3, <2>5
    <3> QED
      BY <2>1, <2>5, <3>1
  <2> QED
    BY <2>4, <2>5
<1>7. \A i \in 1..(n + 1) : Cardinality(Of(h, i)) \in Nat
  BY <1>2, FS_CardinalityType
<1>8. \A s, i : Separators(s, i) = Cardinality(Of(s, i))
  BY DEF Separators
<1> HIDE DEF Of
<1> QED
  BY <1>2, <1>6, <1>7, <1>8 DEF g, n

\* The k-th number.
Digit == \h30..\h39
NumberStep(h, k) ==
    [p \in Int \X Nat |->
        IF p[2] + 1 \in 1..Len(h) /\ h[p[2] + 1] \in Digit /\ Separators(h, p[2] + 1) = k
        THEN IF p[1] > ArgLimit THEN p[1]
             ELSE IF p[1] < 0 THEN h[p[2] + 1] - \h30 ELSE (p[1] * 10) + (h[p[2] + 1] - \h30)
        ELSE p[1]]
NumberSteps(h, k, g) ==
    g = [i \in 0..Len(h) |->
            IF i = 0 THEN -1
            ELSE IF h[i] \in \h30..\h39 /\ Separators(h, i) = k
                 THEN IF g[i - 1] > ArgLimit THEN g[i - 1]
                      ELSE IF g[i - 1] < 0 THEN h[i] - \h30
                      ELSE (g[i - 1] * 10) + (h[i] - \h30)
                 ELSE g[i - 1]]

LEMMA NumberCourse ==
    ASSUME NEW h \in Seq(Nat), NEW k \in Nat
    PROVE  \E f : /\ Course(Int, -1, NumberStep(h, k), Len(h), f)
                  /\ NumberHeard(h, k) = f[Len(h)]
<1> DEFINE n == Len(h)
           D == Int
           step == NumberStep(h, k)
           g == CHOOSE f : NumberSteps(h, k, f)
           r == [i \in 0..n |-> g[i]]
<1>1. NumberHeard(h, k) = g[n]
  BY DEF NumberHeard, NumberSteps
<1>2. n \in Nat /\ -1 \in D /\ \A i \in 1..n : h[i] \in Nat
  OBVIOUS
<1>3. \A p \in D \X Nat : step[p] \in D
  <2>1. ASSUME NEW p \in Int \X Nat PROVE step[p] \in Int
    <3>1. p[1] \in Int /\ p[2] \in Nat
      OBVIOUS
    <3>2. p[2] + 1 \in 1..n => h[p[2] + 1] - \h30 \in Int
      BY <1>2
    <3> DEFINE d == h[p[2] + 1] - \h30
    <3>3. step[p] \in {p[1]} \cup
            (IF p[2] + 1 \in 1..n THEN {d, (p[1] * 10) + d} ELSE {})
      BY DEF NumberStep
    <3> HIDE DEF step, n, g
    <3>4. d \in Int => (p[1] * 10) + d \in Int
      <4> HIDE DEF d
      <4> QED
        BY <3>1
    <3> HIDE DEF d
    <3> QED
      BY <3>1, <3>2, <3>3, <3>4 DEF d
  <2> QED
    BY <2>1
<1> HIDE DEF n, g
<1>4. ASSUME NEW d \in D, NEW i \in 1..n
      PROVE  step[<<d, i - 1>>] = IF h[i] \in \h30..\h39 /\ Separators(h, i) = k
                                  THEN IF d > ArgLimit THEN d
                                       ELSE IF d < 0 THEN h[i] - \h30
                                       ELSE (d * 10) + (h[i] - \h30)
                                  ELSE d
  <2>1. <<d, i - 1>> \in Int \X Nat /\ (i - 1) + 1 = i
    BY <1>2
  <2> QED
    BY <2>1 DEF NumberStep, n, Digit
<1> HIDE DEF step, D
<1>5. NumberSteps(h, k, g)
  <2>1. PICK f : Course(D, -1, step, n, f)
    BY <1>2, <1>3, CourseExists
  <2>2. ASSUME NEW i \in 0..n
        PROVE  f[i] = IF i = 0 THEN -1
                      ELSE IF h[i] \in \h30..\h39 /\ Separators(h, i) = k
                           THEN IF f[i - 1] > ArgLimit THEN f[i - 1]
                                ELSE IF f[i - 1] < 0 THEN h[i] - \h30
                                ELSE (f[i - 1] * 10) + (h[i] - \h30)
                           ELSE f[i - 1]
    <3>1. CASE i = 0
      BY <2>1, <3>1 DEF Course
    <3>2. CASE i # 0
      <4>1. i - 1 \in 0..n /\ i \in 1..n
        BY <1>2, <3>2
      <4>2. f[i - 1] \in D /\ f[i] = step[<<f[i - 1], i - 1>>]
        BY <2>1, <3>2, <4>1 DEF Course
      <4> QED
        BY <1>4, <3>2, <4>1, <4>2
    <3> QED
      BY <3>1, <3>2
  <2>3. f = [i \in 0..n |-> f[i]]
    BY <2>1 DEF Course
  <2>4. NumberSteps(h, k, f)
    BY <2>2, <2>3 DEF NumberSteps, n
  <2> QED
    BY <2>4 DEF g
<1>6. g[0] = -1
  BY <1>2, <1>5 DEF NumberSteps, n
<1>7. ASSUME NEW i \in 1..n, g[i - 1] \in D PROVE g[i] = step[<<g[i - 1], i - 1>>]
  <2>1. i \in 0..n /\ i # 0
    BY <1>2
  <2> QED
    BY <1>4, <1>5, <1>7, <2>1 DEF NumberSteps, n
<1>8. Course(D, -1, step, n, r)
  <2> DEFINE x == -1
  <2>1. n \in Nat /\ x \in D /\ g[0] = x
    BY <1>2, <1>6
  <2> HIDE DEF r, x
  <2>2. r = [i \in 0..n |-> g[i]]
    BY DEF r
  <2>3. Course(D, x, step, n, r)
    BY <1>3, <1>7, <2>1, <2>2, LoopRuns
  <2> QED
    BY <2>3 DEF x
<1>9. r[n] = g[n]
  BY <1>2
<1> QED
  BY <1>1, <1>8, <1>9 DEF step, n, D

LEMMA NumberGrows ==
    ASSUME NEW h \in Seq(Nat), NEW ch \in Nat, NEW k \in Nat
    PROVE  /\ NumberHeard(h, k) \in Int
           /\ NumberHeard(Append(h, ch), k) =
                IF ch \in Digit /\ Separators(h, Len(h) + 1) = k
                THEN IF NumberHeard(h, k) > ArgLimit THEN NumberHeard(h, k)
                     ELSE IF NumberHeard(h, k) < 0 THEN ch - \h30
                     ELSE (NumberHeard(h, k) * 10) + (ch - \h30)
                ELSE NumberHeard(h, k)
<1> DEFINE l == Append(h, ch)
           n == Len(h)
           D == Int
           step == NumberStep(h, k)
           next == NumberStep(l, k)
<1>1. /\ l \in Seq(Nat) /\ Len(l) = n + 1 /\ n \in Nat /\ l[n + 1] = ch
      /\ \A i \in 1..n : l[i] = h[i]
  OBVIOUS
<1>2. \A i \in 1..(n + 1) : Separators(l, i) = Separators(h, i)
  BY SeparatorsGrow
<1> HIDE DEF l
<1>3. PICK f : Course(D, -1, step, n, f) /\ NumberHeard(h, k) = f[n]
  BY NumberCourse
<1>4. PICK g : Course(D, -1, next, n + 1, g) /\ NumberHeard(l, k) = g[n + 1]
  BY <1>1, NumberCourse
<1>5. ASSUME NEW d \in D, NEW i \in 0..(n - 1) PROVE next[<<d, i>>] = step[<<d, i>>]
  <2>1. <<d, i>> \in Int \X Nat /\ i + 1 \in 1..n /\ i + 1 \in 1..(n + 1)
    <3> HIDE DEF n, step, next
    <3> QED
      BY <1>1, RoundNumbers
  <2>2. l[i + 1] = h[i + 1] /\ Separators(l, i + 1) = Separators(h, i + 1)
    BY <1>1, <1>2, <2>1
  <2> QED
    BY <1>1, <2>1, <2>2 DEF NumberStep
<1>6. f[n] \in D /\ g[n + 1] = next[<<f[n], n>>]
  <2>1. -1 \in D /\ n \in Nat
    BY <1>1
  <2> HIDE DEF step, next, n, D
  <2>2. Rounds(D, step, next, n)
    BY <1>5 DEF Rounds
  <2>3. Course(D, -1, step, n, f) /\ Course(D, -1, next, n + 1, g)
    BY <1>3, <1>4
  <2>4. Longer(D, -1, step, next, n, n + 1, f, g)
    BY <2>1, <2>2, <2>3 DEF Longer
  <2> QED
    BY <2>4, CourseGrows
<1>7. next[<<f[n], n>>] =
        IF ch \in Digit /\ Separators(h, n + 1) = k
        THEN IF f[n] > ArgLimit THEN f[n]
             ELSE IF f[n] < 0 THEN ch - \h30 ELSE (f[n] * 10) + (ch - \h30)
        ELSE f[n]
  <2>1. <<f[n], n>> \in Int \X Nat /\ n + 1 \in 1..(n + 1) /\ n + 1 \in 1..Len(l)
    BY <1>1, <1>6
  <2>2. Separators(l, n + 1) = Separators(h, n + 1)
    BY <1>2, <2>1
  <2> HIDE DEF n
  <2> QED
    BY <1>1, <2>1, <2>2 DEF NumberStep
<1> QED
  BY <1>3, <1>4, <1>6, <1>7 DEF l

-----------------------------------------------------------------------------
(* The arguments of a control sequence. *)

HeadStates == {"CSI_ENTRY", "CSI_PARAM", "CSI_INT"}

\* ArgumentsAreHeard, of any emulation and any characters.
ArgsHeard(v, h) ==
    /\ v.argc = Lesser(Separators(h, Len(h) + 1), ArgMax)
    /\ \A k \in 0..(ArgMax - 1) : v.argv[k] = NumberHeard(h, k)
    /\ v.marks = Range(h) \cap Marks

LEMMA RangeGrows ==
    ASSUME NEW h \in Seq(Nat), NEW ch \in Nat
    PROVE  Range(Append(h, ch)) = Range(h) \cup {ch}
<1> DEFINE g == Append(h, ch)
           n == Len(h)
<1>1. /\ n \in Nat /\ DOMAIN g = 1..(n + 1) /\ DOMAIN h = 1..n
      /\ g[n + 1] = ch /\ \A i \in 1..n : g[i] = h[i]
  OBVIOUS
<1> HIDE DEF g, n
<1>2. \A i \in 1..(n + 1) : i \in 1..n \/ i = n + 1
  BY <1>1
<1>3. 1..n \subseteq 1..(n + 1) /\ n + 1 \in 1..(n + 1)
  BY <1>1
<1>4. \A x : x \in {g[i] : i \in 1..(n + 1)} <=> x \in {h[i] : i \in 1..n} \/ x = ch
  BY <1>1, <1>2, <1>3
<1>5. Range(g) = {g[i] : i \in 1..(n + 1)} /\ Range(h) = {h[i] : i \in 1..n}
  BY <1>1 DEF Range
<1> QED
  BY <1>4, <1>5 DEF g

\* Nothing heard: no argument.
LEMMA NothingHeard ==
    ASSUME NEW v, v.argc = 0, \A k \in 0..(ArgMax - 1) : v.argv[k] = -1, v.marks = {}
    PROVE  ArgsHeard(v, <<>>)
<1>1. Separators(<<>>, Len(<<>>) + 1) = 0
  <2>1. {j \in 1..((Len(<<>>) + 1) - 1) : (<<>>)[j] = SEMICOLON} = {}
    OBVIOUS
  <2> QED
    BY <2>1, FS_EmptySet DEF Separators
<1>2. ASSUME NEW k \in Nat PROVE NumberHeard(<<>>, k) = -1
  <2>1. <<>> \in Seq(Nat) /\ Len(<<>>) = 0
    OBVIOUS
  <2>2. PICK f : /\ Course(Int, -1, NumberStep(<<>>, k), 0, f)
                 /\ NumberHeard(<<>>, k) = f[0]
    BY <2>1, NumberCourse
  <2> QED
    BY <2>2 DEF Course
<1>3. Range(<<>>) = {}
  BY DEF Range
<1>4. Lesser(0, ArgMax) = 0
  BY Sizes DEF Lesser
<1>5. \A k \in 0..(ArgMax - 1) : k \in Nat
  BY Sizes
<1> QED
  BY <1>1, <1>2, <1>3, <1>4, <1>5 DEF ArgsHeard

\* A mark, or another character that belongs to the head of a sequence.
LEMMA MarkHeard ==
    ASSUME NEW v \in Emulations, NEW h \in Seq(Nat), ArgsHeard(v, h),
           NEW ch \in Intermediate \cup Private, NEW w,
           w.argc = v.argc, w.argv = v.argv, w.marks = v.marks \cup ({ch} \cap Marks)
    PROVE  ArgsHeard(w, Append(h, ch))
<1> DEFINE g == Append(h, ch)
<1>1. ch \in Nat /\ ch \notin Digit /\ ch # SEMICOLON
  BY DEF Intermediate, Private, Digit, SEMICOLON
<1>2. Len(g) = Len(h) + 1 /\ Len(h) + 1 \in 1..(Len(h) + 1)
  BY <1>1
<1>3. Separators(g, Len(g) + 1) = Separators(h, Len(h) + 1)
  <2>1. /\ Separators(g, Len(h) + 2) = Separators(h, Len(h) + 1) + 0
        /\ Separators(h, Len(h) + 1) \in Nat
    BY <1>1, <1>2, SeparatorsGrow
  <2>2. Len(g) + 1 = Len(h) + 2
    BY <1>1
  <2> QED
    BY <2>1, <2>2
<1>4. \A k \in 0..(ArgMax - 1) : NumberHeard(g, k) = NumberHeard(h, k)
  <2>1. \A k \in 0..(ArgMax - 1) : k \in Nat
    BY Sizes
  <2> QED
    BY <1>1, <2>1, NumberGrows
<1>5. Range(g) \cap Marks = (Range(h) \cap Marks) \cup ({ch} \cap Marks)
  BY <1>1, RangeGrows
<1> HIDE DEF g
<1> QED
  BY <1>3, <1>4, <1>5 DEF ArgsHeard, g

\* A separator begins the next argument; when there are too many, the last one is lost.
LEMMA SeparatorHeard ==
    ASSUME NEW v \in Emulations, NEW h \in Seq(Nat), ArgsHeard(v, h), NEW w,
           w.argc = Lesser(v.argc + 1, ArgMax), w.argv = v.argv, w.marks = v.marks
    PROVE  ArgsHeard(w, Append(h, SEMICOLON))
<1> DEFINE g == Append(h, SEMICOLON)
           n == Separators(h, Len(h) + 1)
<1>1. SEMICOLON \in Nat /\ SEMICOLON \notin Digit /\ SEMICOLON \notin Marks
  BY DEF SEMICOLON, Digit, Marks
<1>2. Len(g) + 1 = Len(h) + 2 /\ Len(h) + 1 \in 1..(Len(h) + 1)
  BY <1>1
<1>3. n \in Nat /\ Separators(g, Len(g) + 1) = n + 1
  BY <1>1, <1>2, SeparatorsGrow
<1>4. \A k \in 0..(ArgMax - 1) : NumberHeard(g, k) = NumberHeard(h, k)
  <2>1. \A k \in 0..(ArgMax - 1) : k \in Nat
    BY Sizes
  <2> QED
    BY <1>1, <2>1, NumberGrows
<1>5. Range(g) \cap Marks = Range(h) \cap Marks
  BY <1>1, RangeGrows
<1> HIDE DEF g, n
<1>6. Lesser(Lesser(n, ArgMax) + 1, ArgMax) = Lesser(n + 1, ArgMax)
  BY <1>3, Sizes DEF Lesser
<1> QED
  BY <1>3, <1>4, <1>5, <1>6 DEF ArgsHeard, g, n

\* A digit counts for the argument that is being sent, if there is room for it.
LEMMA DigitHeard ==
    ASSUME NEW v \in Emulations, NEW h \in Seq(Nat), ArgsHeard(v, h), NEW ch \in Digit, NEW w,
           w.argc = v.argc, w.marks = v.marks,
           \A k \in 0..(ArgMax - 1) :
                w.argv[k] = IF k # v.argc \/ v.argv[k] > ArgLimit THEN v.argv[k]
                            ELSE IF v.argv[k] <= 0 THEN ch - \h30
                            ELSE (v.argv[k] * 10) + (ch - \h30)
    PROVE  ArgsHeard(w, Append(h, ch))
<1> DEFINE g == Append(h, ch)
           n == Separators(h, Len(h) + 1)
<1>1. ch \in Nat /\ ch # SEMICOLON /\ ch \notin Marks
  BY DEF SEMICOLON, Digit, Marks
<1>2. Len(g) + 1 = Len(h) + 2 /\ Len(h) + 1 \in 1..(Len(h) + 1)
  BY <1>1
<1>3. n \in Nat /\ Separators(g, Len(g) + 1) = n
  BY <1>1, <1>2, SeparatorsGrow
<1>4. Range(g) \cap Marks = Range(h) \cap Marks
  BY <1>1, RangeGrows
<1>5. ASSUME NEW k \in 0..(ArgMax - 1) PROVE w.argv[k] = NumberHeard(g, k)
  <2> DEFINE m == NumberHeard(h, k)
  <2>1. k \in Nat
    BY Sizes
  <2>2. /\ m \in Int
        /\ NumberHeard(g, k) = IF n = k THEN IF m > ArgLimit THEN m
                                             ELSE IF m < 0 THEN ch - \h30
                                             ELSE (m * 10) + (ch - \h30)
                               ELSE m
    BY <1>1, <2>1, NumberGrows
  <2>3. v.argv[k] = m /\ v.argc = Lesser(n, ArgMax)
    BY DEF ArgsHeard
  <2>4. k = v.argc <=> n = k
    BY <1>3, <2>3, Sizes DEF Lesser
  <2> HIDE DEF g, n, m
  <2>5. m = 0 => (m * 10) + (ch - \h30) = ch - \h30
    BY <1>1, <2>2
  <2>6. m <= 0 <=> m < 0 \/ m = 0
    BY <2>2
  <2> QED
    BY <2>2, <2>3, <2>4, <2>5, <2>6, LimitType
<1> HIDE DEF g, n
<1> QED
  BY <1>3, <1>4, <1>5 DEF ArgsHeard, g, n

-----------------------------------------------------------------------------
(* The strings, loops again. *)

WithoutStep(h, lost) ==
    [p \in Seq(Nat) \X Nat |->
        IF p[2] + 1 \in 1..Len(h) /\ p[2] + 1 \notin lost THEN Append(p[1], h[p[2] + 1])
        ELSE p[1]]
WithoutSteps(h, lost, g) ==
    g = [i \in 0..Len(h) |->
            IF i = 0 THEN <<>>
            ELSE IF i \in lost THEN g[i - 1] ELSE Append(g[i - 1], h[i])]

LEMMA WithoutCourse ==
    ASSUME NEW h \in Seq(Nat), NEW lost
    PROVE  \E f : /\ Course(Seq(Nat), <<>>, WithoutStep(h, lost), Len(h), f)
                  /\ Without(h, lost) = f[Len(h)]
<1> DEFINE n == Len(h)
           D == Seq(Nat)
           step == WithoutStep(h, lost)
           g == CHOOSE f : WithoutSteps(h, lost, f)
           r == [i \in 0..n |-> g[i]]
<1>1. Without(h, lost) = g[n]
  BY DEF Without, WithoutSteps
<1>2. n \in Nat /\ <<>> \in D /\ \A i \in 1..n : h[i] \in Nat
  OBVIOUS
<1>3. \A p \in D \X Nat : step[p] \in D
  BY DEF WithoutStep
<1> HIDE DEF n, g
<1>4. ASSUME NEW d \in D, NEW i \in 1..n
      PROVE  step[<<d, i - 1>>] = IF i \in lost THEN d ELSE Append(d, h[i])
  <2>1. <<d, i - 1>> \in D \X Nat /\ (i - 1) + 1 = i
    BY <1>2
  <2> QED
    BY <2>1 DEF WithoutStep, n
<1> HIDE DEF step, D
<1>5. WithoutSteps(h, lost, g)
  <2>1. PICK f : Course(D, <<>>, step, n, f)
    BY <1>2, <1>3, CourseExists
  <2>2. ASSUME NEW i \in 0..n
        PROVE  f[i] = IF i = 0 THEN <<>>
                      ELSE IF i \in lost THEN f[i - 1] ELSE Append(f[i - 1], h[i])
    <3>1. CASE i = 0
      BY <2>1, <3>1 DEF Course
    <3>2. CASE i # 0
      <4>1. i - 1 \in 0..n /\ i \in 1..n
        BY <1>2, <3>2
      <4>2. f[i - 1] \in D /\ f[i] = step[<<f[i - 1], i - 1>>]
        BY <2>1, <3>2, <4>1 DEF Course
      <4> QED
        BY <1>4, <3>2, <4>1, <4>2
    <3> QED
      BY <3>1, <3>2
  <2>3. f = [i \in 0..n |-> f[i]]
    BY <2>1 DEF Course
  <2>4. WithoutSteps(h, lost, f)
    BY <2>2, <2>3 DEF WithoutSteps, n
  <2> QED
    BY <2>4 DEF g
<1>6. g[0] = <<>>
  BY <1>2, <1>5 DEF WithoutSteps, n
<1>7. ASSUME NEW i \in 1..n, g[i - 1] \in D PROVE g[i] = step[<<g[i - 1], i - 1>>]
  <2>1. i \in 0..n /\ i # 0
    BY <1>2
  <2> QED
    BY <1>4, <1>5, <1>7, <2>1 DEF WithoutSteps, n
<1>8. Course(D, <<>>, step, n, r)
  <2> DEFINE x == <<>>
  <2>1. n \in Nat /\ x \in D /\ g[0] = x
    BY <1>2, <1>6
  <2> HIDE DEF r, x
  <2>2. r = [i \in 0..n |-> g[i]]
    BY DEF r
  <2>3. Course(D, x, step, n, r)
    BY <1>3, <1>7, <2>1, <2>2, LoopRuns
  <2> QED
    BY <2>3 DEF x
<1>9. r[n] = g[n]
  BY <1>2
<1> QED
  BY <1>1, <1>8, <1>9 DEF step, n, D

LEMMA WithoutGrows ==
    ASSUME NEW h \in Seq(Nat), NEW ch \in Nat, NEW lost, NEW more,
           lost \cap (1..Len(h)) = more \cap (1..Len(h))
    PROVE  /\ Without(h, lost) \in Seq(Nat)
           /\ Without(Append(h, ch), more) =
                IF Len(h) + 1 \in more THEN Without(h, lost) ELSE Append(Without(h, lost), ch)
<1> DEFINE l == Append(h, ch)
           n == Len(h)
           D == Seq(Nat)
           step == WithoutStep(h, lost)
           next == WithoutStep(l, more)
<1>1. /\ l \in Seq(Nat) /\ Len(l) = n + 1 /\ n \in Nat /\ l[n + 1] = ch
      /\ (\A i \in 1..n : l[i] = h[i]) /\ <<>> \in D
  OBVIOUS
<1> HIDE DEF l
<1>3. PICK f : Course(D, <<>>, step, n, f) /\ Without(h, lost) = f[n]
  BY WithoutCourse
<1>4. PICK g : Course(D, <<>>, next, n + 1, g) /\ Without(l, more) = g[n + 1]
  BY <1>1, WithoutCourse
<1>5. ASSUME NEW d \in D, NEW i \in 0..(n - 1) PROVE next[<<d, i>>] = step[<<d, i>>]
  <2>1. /\ <<d, i>> \in D \X Nat /\ i + 1 \in 1..n /\ i + 1 \in 1..(n + 1)
        /\ l[i + 1] = h[i + 1]
    <3> HIDE DEF n, D, step, next
    <3>1. <<d, i>> \in D \X Nat /\ i + 1 \in 1..n /\ i + 1 \in 1..(n + 1)
      BY <1>1, RoundNumbers
    <3> QED
      BY <1>1, <3>1
  <2>2. i + 1 \in lost <=> i + 1 \in more
    BY <2>1 DEF n
  <2> QED
    BY <1>1, <2>1, <2>2 DEF WithoutStep
<1>6. f[n] \in D /\ g[n + 1] = next[<<f[n], n>>]
  <2> DEFINE x == <<>>
  <2>1. x \in D /\ n \in Nat
    BY <1>1
  <2> HIDE DEF step, next, n, D, x
  <2>2. Rounds(D, step, next, n)
    BY <1>5 DEF Rounds
  <2>3. Course(D, x, step, n, f) /\ Course(D, x, next, n + 1, g)
    BY <1>3, <1>4 DEF x
  <2>4. Longer(D, x, step, next, n, n + 1, f, g)
    BY <2>1, <2>2, <2>3 DEF Longer
  <2> QED
    BY <2>4, CourseGrows
<1>7. next[<<f[n], n>>] = IF n + 1 \in more THEN f[n] ELSE Append(f[n], ch)
  <2>1. <<f[n], n>> \in D \X Nat /\ n + 1 \in 1..Len(l)
    BY <1>1, <1>6
  <2> HIDE DEF n
  <2> QED
    BY <1>1, <2>1 DEF WithoutStep
<1> QED
  BY <1>3, <1>4, <1>6, <1>7 DEF l

Utf8Step(h) ==
    [p \in Seq(Nat) \X Nat |->
        IF p[2] + 1 \in 1..Len(h) THEN p[1] \o Encoded(h[p[2] + 1]) ELSE p[1]]
Utf8Steps(h, g) ==
    g = [i \in 0..Len(h) |-> IF i = 0 THEN <<>> ELSE g[i - 1] \o Encoded(h[i])]

LEMMA Utf8Course ==
    ASSUME NEW h \in Seq(Nat)
    PROVE  \E f : /\ Course(Seq(Nat), <<>>, Utf8Step(h), Len(h), f)
                  /\ InUtf8(h) = f[Len(h)]
<1> DEFINE n == Len(h)
           D == Seq(Nat)
           step == Utf8Step(h)
           g == CHOOSE f : Utf8Steps(h, f)
           r == [i \in 0..n |-> g[i]]
<1>1. InUtf8(h) = g[n]
  BY DEF InUtf8, Utf8Steps
<1>2. n \in Nat /\ <<>> \in D /\ \A i \in 1..n : h[i] \in Nat
  OBVIOUS
<1>3. \A p \in D \X Nat : step[p] \in D
  <2>1. \A i \in 1..n : Encoded(h[i]) \in Seq(Nat)
    BY <1>2, EncodedType
  <2> QED
    BY <2>1 DEF Utf8Step
<1> HIDE DEF n, g
<1>4. ASSUME NEW d \in D, NEW i \in 1..n PROVE step[<<d, i - 1>>] = d \o Encoded(h[i])
  <2>1. <<d, i - 1>> \in D \X Nat /\ (i - 1) + 1 = i
    BY <1>2
  <2> QED
    BY <2>1 DEF Utf8Step, n
<1> HIDE DEF step, D
<1>5. Utf8Steps(h, g)
  <2>1. PICK f : Course(D, <<>>, step, n, f)
    BY <1>2, <1>3, CourseExists
  <2>2. ASSUME NEW i \in 0..n
        PROVE  f[i] = IF i = 0 THEN <<>> ELSE f[i - 1] \o Encoded(h[i])
    <3>1. CASE i = 0
      BY <2>1, <3>1 DEF Course
    <3>2. CASE i # 0
      <4>1. i - 1 \in 0..n /\ i \in 1..n
        BY <1>2, <3>2
      <4>2. f[i - 1] \in D /\ f[i] = step[<<f[i - 1], i - 1>>]
        BY <2>1, <3>2, <4>1 DEF Course
      <4> QED
        BY <1>4, <3>2, <4>1, <4>2
    <3> QED
      BY <3>1, <3>2
  <2>3. f = [i \in 0..n |-> f[i]]
    BY <2>1 DEF Course
  <2>4. Utf8Steps(h, f)
    BY <2>2, <2>3 DEF Utf8Steps, n
  <2> QED
    BY <2>4 DEF g
<1>6. g[0] = <<>>
  BY <1>2, <1>5 DEF Utf8Steps, n
<1>7. ASSUME NEW i \in 1..n, g[i - 1] \in D PROVE g[i] = step[<<g[i - 1], i - 1>>]
  <2>1. i \in 0..n /\ i # 0
    BY <1>2
  <2> QED
    BY <1>4, <1>5, <1>7, <2>1 DEF Utf8Steps, n
<1>8. Course(D, <<>>, step, n, r)
  <2> DEFINE x == <<>>
  <2>1. n \in Nat /\ x \in D /\ g[0] = x
    BY <1>2, <1>6
  <2> HIDE DEF r, x
  <2>2. r = [i \in 0..n |-> g[i]]
    BY DEF r
  <2>3. Course(D, x, step, n, r)
    BY <1>3, <1>7, <2>1, <2>2, LoopRuns
  <2> QED
    BY <2>3 DEF x
<1>9. r[n] = g[n]
  BY <1>2
<1> QED
  BY <1>1, <1>8, <1>9 DEF step, n, D

LEMMA Utf8Grows ==
    ASSUME NEW h \in Seq(Nat), NEW ch \in Nat
    PROVE  InUtf8(h) \in Seq(Nat) /\ InUtf8(Append(h, ch)) = InUtf8(h) \o Encoded(ch)
<1> DEFINE l == Append(h, ch)
           n == Len(h)
           D == Seq(Nat)
           step == Utf8Step(h)
           next == Utf8Step(l)
<1>1. /\ l \in Seq(Nat) /\ Len(l) = n + 1 /\ n \in Nat /\ l[n + 1] = ch
      /\ (\A i \in 1..n : l[i] = h[i]) /\ <<>> \in D
  OBVIOUS
<1> HIDE DEF l
<1>3. PICK f : Course(D, <<>>, step, n, f) /\ InUtf8(h) = f[n]
  BY Utf8Course
<1>4. PICK g : Course(D, <<>>, next, n + 1, g) /\ InUtf8(l) = g[n + 1]
  BY <1>1, Utf8Course
<1>5. ASSUME NEW d \in D, NEW i \in 0..(n - 1) PROVE next[<<d, i>>] = step[<<d, i>>]
  <2>1. /\ <<d, i>> \in D \X Nat /\ i + 1 \in 1..n /\ i + 1 \in 1..(n + 1)
        /\ l[i + 1] = h[i + 1]
    <3> HIDE DEF n, D, step, next
    <3>1. <<d, i>> \in D \X Nat /\ i + 1 \in 1..n /\ i + 1 \in 1..(n + 1)
      BY <1>1, RoundNumbers
    <3> QED
      BY <1>1, <3>1
  <2> QED
    BY <1>1, <2>1 DEF Utf8Step
<1>6. f[n] \in D /\ g[n + 1] = next[<<f[n], n>>]
  <2> DEFINE x == <<>>
  <2>1. x \in D /\ n \in Nat
    BY <1>1
  <2> HIDE DEF step, next, n, D, x
  <2>2. Rounds(D, step, next, n)
    BY <1>5 DEF Rounds
  <2>3. Course(D, x, step, n, f) /\ Course(D, x, next, n + 1, g)
    BY <1>3, <1>4 DEF x
  <2>4. Longer(D, x, step, next, n, n + 1, f, g)
    BY <2>1, <2>2, <2>3 DEF Longer
  <2> QED
    BY <2>4, CourseGrows
<1>7. next[<<f[n], n>>] = f[n] \o Encoded(ch)
  <2>1. <<f[n], n>> \in D \X Nat /\ n + 1 \in 1..Len(l)
    BY <1>1, <1>6
  <2> HIDE DEF n
  <2> QED
    BY <1>1, <2>1 DEF Utf8Step
<1> QED
  BY <1>3, <1>4, <1>6, <1>7 DEF l

\* The decoder after one byte.
DecoderStates == [mach : Machs, text : Seq(Nat)]
Decoder(r, byte) ==
    IF Taken(MachFeed(r.mach, byte))
    THEN [mach |-> START, text |-> Append(r.text, MachGet(MachFeed(r.mach, byte)))]
    ELSE [mach |-> MachFeed(r.mach, byte), text |-> r.text]
Fresh == [mach |-> START, text |-> <<>>]
DecodedStep(h) ==
    [p \in DecoderStates \X Nat |->
        IF p[2] + 1 \in 1..Len(h) THEN Decoder(p[1], h[p[2] + 1]) ELSE p[1]]
DecodedSteps(h, g) ==
    g = [i \in 0..Len(h) |-> IF i = 0 THEN Fresh ELSE Decoder(g[i - 1], h[i])]

LEMMA DecoderType ==
    ASSUME NEW r \in DecoderStates, NEW b \in Nat
    PROVE  Decoder(r, b) \in DecoderStates
<1> DEFINE m == MachFeed(r.mach, b)
<1>1. r.mach \in Machs /\ r.text \in Seq(Nat)
  BY DEF DecoderStates
<1>2. (~Taken(m) => m \in Machs) /\ MachGet(m) \in Nat
  BY <1>1, MachFeedType
<1>3. START \in Machs
  BY DEF START, Machs
<1>4. Decoder(r, b) = IF Taken(m) THEN [mach |-> START, text |-> Append(r.text, MachGet(m))]
                      ELSE [mach |-> m, text |-> r.text]
  BY DEF Decoder
<1> HIDE DEF m
<1>5. Append(r.text, MachGet(m)) \in Seq(Nat)
  BY <1>1, <1>2
<1> QED
  BY <1>1, <1>2, <1>3, <1>4, <1>5 DEF DecoderStates

LEMMA DecodedCourse ==
    ASSUME NEW h \in Seq(Nat)
    PROVE  \E f : /\ Course(DecoderStates, Fresh, DecodedStep(h), Len(h), f)
                  /\ Decoded(h) = f[Len(h)]
<1> DEFINE n == Len(h)
           D == DecoderStates
           step == DecodedStep(h)
           g == CHOOSE f : DecodedSteps(h, f)
           r == [i \in 0..n |-> g[i]]
<1>1. Decoded(h) = g[n]
  BY DEF Decoded, DecodedSteps, Decoder, Fresh
<1>2. n \in Nat /\ \A i \in 1..n : h[i] \in Nat
  OBVIOUS
<1>20. Fresh \in D
  BY DEF Fresh, DecoderStates, START, Machs
<1>3. \A p \in D \X Nat : step[p] \in D
  <2> HIDE DEF D
  <2>1. ASSUME NEW p \in D \X Nat PROVE step[p] \in D
    <3>1. p[1] \in D
      OBVIOUS
    <3>2. p[2] + 1 \in 1..n => Decoder(p[1], h[p[2] + 1]) \in D
      BY <1>2, <3>1, DecoderType DEF D
    <3>3. step[p] = IF p[2] + 1 \in 1..n THEN Decoder(p[1], h[p[2] + 1]) ELSE p[1]
      BY DEF DecodedStep, D
    <3> QED
      BY <3>1, <3>2, <3>3
  <2> QED
    BY <2>1
<1> HIDE DEF n, g
<1>4. ASSUME NEW d \in D, NEW i \in 1..n PROVE step[<<d, i - 1>>] = Decoder(d, h[i])
  <2>1. <<d, i - 1>> \in D \X Nat /\ (i - 1) + 1 = i
    BY <1>2
  <2> QED
    BY <2>1 DEF DecodedStep, n
<1> HIDE DEF step, D
<1>5. DecodedSteps(h, g)
  <2>1. PICK f : Course(D, Fresh, step, n, f)
    BY <1>2, <1>20, <1>3, CourseExists
  <2>2. ASSUME NEW i \in 0..n
        PROVE  f[i] = IF i = 0 THEN Fresh ELSE Decoder(f[i - 1], h[i])
    <3>1. CASE i = 0
      BY <2>1, <3>1 DEF Course
    <3>2. CASE i # 0
      <4>1. i - 1 \in 0..n /\ i \in 1..n
        BY <1>2, <3>2
      <4>2. f[i - 1] \in D /\ f[i] = step[<<f[i - 1], i - 1>>]
        BY <2>1, <3>2, <4>1 DEF Course
      <4> QED
        BY <1>4, <3>2, <4>1, <4>2
    <3> QED
      BY <3>1, <3>2
  <2>3. f = [i \in 0..n |-> f[i]]
    BY <2>1 DEF Course
  <2>4. DecodedSteps(h, f)
    BY <2>2, <2>3 DEF DecodedSteps, n
  <2> QED
    BY <2>4 DEF g
<1>6. g[0] = Fresh
  BY <1>2, <1>5 DEF DecodedSteps, n
<1>7. ASSUME NEW i \in 1..n, g[i - 1] \in D PROVE g[i] = step[<<g[i - 1], i - 1>>]
  <2>1. i \in 0..n /\ i # 0
    BY <1>2
  <2> QED
    BY <1>4, <1>5, <1>7, <2>1 DEF DecodedSteps, n
<1>8. Course(D, Fresh, step, n, r)
  <2>1. n \in Nat /\ Fresh \in D
    BY <1>2, <1>20
  <2> HIDE DEF r
  <2>2. r = [i \in 0..n |-> g[i]]
    BY DEF r
  <2> QED
    BY <1>3, <1>6, <1>7, <2>1, <2>2, LoopRuns
<1>9. r[n] = g[n]
  BY <1>2
<1> QED
  BY <1>1, <1>8, <1>9 DEF step, n, D

LEMMA DecodedGrows ==
    ASSUME NEW h \in Seq(Nat), NEW b \in Nat
    PROVE  Decoded(h) \in DecoderStates /\ Decoded(Append(h, b)) = Decoder(Decoded(h), b)
<1> DEFINE l == Append(h, b)
           n == Len(h)
           D == DecoderStates
           step == DecodedStep(h)
           next == DecodedStep(l)
<1>1. /\ l \in Seq(Nat) /\ Len(l) = n + 1 /\ n \in Nat /\ l[n + 1] = b
      /\ (\A i \in 1..n : l[i] = h[i])
  OBVIOUS
<1>2. Fresh \in D
  BY DEF Fresh, DecoderStates, START, Machs
<1> HIDE DEF l
<1>3. PICK f : Course(D, Fresh, step, n, f) /\ Decoded(h) = f[n]
  BY DecodedCourse
<1>4. PICK g : Course(D, Fresh, next, n + 1, g) /\ Decoded(l) = g[n + 1]
  BY <1>1, DecodedCourse
<1>5. ASSUME NEW d \in D, NEW i \in 0..(n - 1) PROVE next[<<d, i>>] = step[<<d, i>>]
  <2>1. /\ <<d, i>> \in D \X Nat /\ i + 1 \in 1..n /\ i + 1 \in 1..(n + 1)
        /\ l[i + 1] = h[i + 1]
    <3> HIDE DEF n, D, step, next
    <3>1. <<d, i>> \in D \X Nat /\ i + 1 \in 1..n /\ i + 1 \in 1..(n + 1)
      BY <1>1, RoundNumbers
    <3> QED
      BY <1>1, <3>1
  <2> QED
    BY <1>1, <2>1 DEF DecodedStep
<1>6. f[n] \in D /\ g[n + 1] = next[<<f[n], n>>]
  <2>1. n \in Nat
    BY <1>1
  <2> HIDE DEF step, next, n, D
  <2>2. Rounds(D, step, next, n)
    BY <1>5 DEF Rounds
  <2>3. Course(D, Fresh, step, n, f) /\ Course(D, Fresh, next, n + 1, g)
    BY <1>3, <1>4
  <2>4. Longer(D, Fresh, step, next, n, n + 1, f, g)
    BY <1>2, <2>1, <2>2, <2>3 DEF Longer
  <2> QED
    BY <2>4, CourseGrows
<1>7. next[<<f[n], n>>] = Decoder(f[n], b)
  <2>1. <<f[n], n>> \in D \X Nat /\ n + 1 \in 1..Len(l)
    BY <1>1, <1>6
  <2> HIDE DEF n
  <2> QED
    BY <1>1, <2>1 DEF DecodedStep
<1> QED
  BY <1>3, <1>4, <1>6, <1>7 DEF l

-----------------------------------------------------------------------------
(* A character that is encoded and decoded again. *)

\* What the decoder makes of a first byte, and of one that continues.
LEMMA FirstOfOne ==
    ASSUME NEW q \in 0..127
    PROVE  MachFeed(START, q) = [state |-> "ACCEPT", ch |-> q]
<1>1. START.state = "START" /\ q \in 0..\h7F /\ q \notin \h80..\hBF
  BY DEF START
<1> QED
  BY <1>1 DEF MachFeed

LEMMA FirstOfTwo ==
    ASSUME NEW q \in 2..31, NEW byte, byte = \hC0 + q, NEW n, n = q * 64
    PROVE  MachFeed(START, byte) = [state |-> "EXPECT1", ch |-> n]
<1>1. START.state = "START"
  BY DEF START
<1>2. /\ byte % 32 = q /\ byte \notin 0..\h7F /\ byte \notin \h80..\hBF
      /\ byte \in \hC2..\hDF
  OBVIOUS
<1>3. MachFeed(START, byte) = [state |-> "EXPECT1", ch |-> (byte % 32) * 64]
  BY <1>1, <1>2 DEF MachFeed
<1> QED
  BY <1>2, <1>3

LEMMA FirstOfThree ==
    ASSUME NEW q \in 0..15, NEW byte, byte = \hE0 + q, NEW n, n = q * 4096
    PROVE  MachFeed(START, byte) = [state |-> "EXPECT2", ch |-> n]
<1>1. START.state = "START"
  BY DEF START
<1>2. /\ byte % 16 = q /\ byte \notin 0..\h7F /\ byte \notin \h80..\hBF
      /\ byte \notin \hC2..\hDF /\ byte \in \hE0..\hEF
  OBVIOUS
<1>3. MachFeed(START, byte) = [state |-> "EXPECT2", ch |-> (byte % 16) * 4096]
  BY <1>1, <1>2 DEF MachFeed
<1> QED
  BY <1>2, <1>3

LEMMA FirstOfFour ==
    ASSUME NEW q \in 0..4, NEW byte, byte = \hF0 + q, NEW n, n = q * 262144
    PROVE  MachFeed(START, byte) = [state |-> "EXPECT3", ch |-> n]
<1>1. START.state = "START"
  BY DEF START
<1>2. /\ byte % 8 = q /\ byte \notin 0..\h7F /\ byte \notin \h80..\hBF
      /\ byte \notin \hC2..\hDF /\ byte \notin \hE0..\hEF /\ byte \in \hF0..\hF7
  OBVIOUS
<1>3. MachFeed(START, byte) = [state |-> "EXPECT3", ch |-> (byte % 8) * 262144]
  BY <1>1, <1>2 DEF MachFeed
<1> QED
  BY <1>2, <1>3

\* A decoder that has read something.
At(mach, text) == [mach |-> mach, text |-> text]
Accept(n) == [state |-> "ACCEPT", ch |-> n]

\* A byte that does not end a character, and one that does.
LEMMA DecoderAt ==
    ASSUME NEW m, NEW s, NEW b
    PROVE  Decoder(At(m, s), b)
             = IF Taken(MachFeed(m, b)) THEN At(START, Append(s, MachGet(MachFeed(m, b))))
               ELSE At(MachFeed(m, b), s)
<1>1. At(m, s).mach = m /\ At(m, s).text = s
  BY DEF At
<1> QED
  BY <1>1 DEF Decoder, At

LEMMA DecoderWaits ==
    ASSUME NEW m, NEW s, NEW b, NEW next, MachFeed(m, b) = next, ~Taken(next)
    PROVE  Decoder(At(m, s), b) = At(next, s)
BY DecoderAt

LEMMA DecoderTakes ==
    ASSUME NEW m, NEW s, NEW b, NEW n, MachFeed(m, b) = Accept(n)
    PROVE  Decoder(At(m, s), b) = At(START, Append(s, n))
<1>1. Taken(Accept(n)) /\ MachGet(Accept(n)) = n
  BY DEF Taken, MachGet, Accept
<1> QED
  BY <1>1, DecoderAt

\* What the bytes of a character make of a decoder: the last one, the last two, three.
Continues(byte, x) == x \in 0..63 /\ byte = \h80 + x
Two(n, x, y) == (n + (x * 64)) + y
Three(n, x, y, z) == ((n + (x * 4096)) + (y * 64)) + z
OfTwo(a, x) == (a * 64) + x
OfThree(a, x, y) == Two(a * 4096, x, y)
OfFour(a, x, y, z) == Three(a * 262144, x, y, z)
BeginsTwo(byte, a) == a \in 2..31 /\ byte = \hC0 + a
BeginsThree(byte, a) == a \in 0..15 /\ byte = \hE0 + a
BeginsFour(byte, a) == a \in 0..4 /\ byte = \hF0 + a
In1(n) == [state |-> "EXPECT1", ch |-> n]
In2(n) == [state |-> "EXPECT2", ch |-> n]
In3(n) == [state |-> "EXPECT3", ch |-> n]

LEMMA LastOne ==
    ASSUME NEW s, NEW n \in Nat, NEW x, NEW i, Continues(i, x)
    PROVE  Decoder(At(In1(n), s), i)
             = At(START, Append(s, n + x))
<1>1. x \in 0..63 /\ i \in \h80..\hBF /\ i % 64 = x
  BY DEF Continues
<1>2. MachFeed(In1(n), i) = Accept(n + x)
  BY <1>1 DEF MachFeed, In1, Accept
<1> QED
  BY <1>2, DecoderTakes

LEMMA LastTwo ==
    ASSUME NEW s, NEW n \in Nat, NEW x, NEW i, Continues(i, x),
           NEW y, NEW j, Continues(j, y)
    PROVE  Decoder(Decoder(At(In2(n), s), i), j)
             = At(START, Append(s, Two(n, x, y)))
<1> DEFINE m == n + (x * 64)
<1>1. x \in 0..63 /\ i \in \h80..\hBF /\ i % 64 = x
  BY DEF Continues
<1>2. MachFeed(In2(n), i) = In1(m)
  BY <1>1 DEF MachFeed, In1, In2
<1>3. m \in Nat /\ Two(n, x, y) = m + y
  BY <1>1 DEF Two
<1> HIDE DEF m
<1>4. Decoder(At(In1(m), s), j) = At(START, Append(s, m + y))
  BY <1>3, LastOne, Zenon
<1>5. ~Taken(In1(m))
  BY DEF Taken, In1
<1>6. Decoder(At(In2(n), s), i) = At(In1(m), s)
  BY <1>2, <1>5, DecoderWaits, Zenon
<1> QED
  BY <1>3, <1>4, <1>6, Zenon

LEMMA LastThree ==
    ASSUME NEW s, NEW n \in Nat, NEW x, NEW i, Continues(i, x),
           NEW y, NEW j, Continues(j, y), NEW z, NEW k, Continues(k, z)
    PROVE  Decoder(Decoder(Decoder(At(In3(n), s), i), j), k)
             = At(START, Append(s, Three(n, x, y, z)))
<1> DEFINE m == n + (x * 4096)
<1>1. x \in 0..63 /\ i \in \h80..\hBF /\ i % 64 = x
  BY DEF Continues
<1>2. MachFeed(In3(n), i) = In2(m)
  BY <1>1 DEF MachFeed, In2, In3
<1>3. m \in Nat /\ Three(n, x, y, z) = Two(m, y, z)
  BY <1>1 DEF Two, Three
<1> HIDE DEF m
<1>4. Decoder(Decoder(At(In2(m), s), j), k)
        = At(START, Append(s, Two(m, y, z)))
  BY <1>3, LastTwo
<1>5. ~Taken(In2(m))
  BY DEF Taken, In2
<1>6. Decoder(At(In3(n), s), i) = At(In2(m), s)
  BY <1>2, <1>5, DecoderWaits, Zenon
<1> QED
  BY <1>3, <1>4, <1>6, Zenon

\* All the bytes of a character, for a decoder that waits for one.
LEMMA TwoBytes ==
    ASSUME NEW s, NEW a, NEW i, BeginsTwo(i, a), NEW x, NEW j, Continues(j, x)
    PROVE  Decoder(Decoder(At(START, s), i), j)
             = At(START, Append(s, OfTwo(a, x)))
<1> DEFINE n == a * 64
<1>1. MachFeed(START, i) = In1(n)
  BY FirstOfTwo DEF In1, BeginsTwo
<1>2. n \in Nat
  BY DEF BeginsTwo
<1> HIDE DEF n
<1>3. Decoder(At(In1(n), s), j) = At(START, Append(s, n + x))
  BY <1>2, LastOne
<1>4. ~Taken(In1(n))
  BY DEF Taken, In1
<1>5. Decoder(At(START, s), i) = At(In1(n), s)
  BY <1>1, <1>4, DecoderWaits
<1> QED
  BY <1>3, <1>5 DEF n, OfTwo

LEMMA ThreeBytes ==
    ASSUME NEW s, NEW a, NEW i, BeginsThree(i, a),
           NEW x, NEW j, Continues(j, x), NEW y, NEW k, Continues(k, y)
    PROVE  Decoder(Decoder(Decoder(At(START, s), i), j), k)
             = At(START, Append(s, OfThree(a, x, y)))
<1> DEFINE n == a * 4096
<1>1. MachFeed(START, i) = In2(n)
  BY FirstOfThree DEF In2, BeginsThree
<1>2. n \in Nat
  BY DEF BeginsThree
<1> HIDE DEF n
<1>3. Decoder(Decoder(At(In2(n), s), j), k)
        = At(START, Append(s, Two(n, x, y)))
  BY <1>2, LastTwo
<1>4. ~Taken(In2(n))
  BY DEF Taken, In2
<1>5. Decoder(At(START, s), i) = At(In2(n), s)
  BY <1>1, <1>4, DecoderWaits
<1> QED
  BY <1>3, <1>5 DEF n, OfThree

LEMMA FourBytes ==
    ASSUME NEW s, NEW a, NEW i, BeginsFour(i, a),
           NEW x, NEW j, Continues(j, x), NEW y, NEW k, Continues(k, y),
           NEW z, NEW l, Continues(l, z)
    PROVE  Decoder(Decoder(Decoder(Decoder(At(START, s), i), j), k), l)
             = At(START, Append(s, OfFour(a, x, y, z)))
<1> DEFINE n == a * 262144
<1>1. MachFeed(START, i) = In3(n)
  BY FirstOfFour DEF In3, BeginsFour
<1>2. n \in Nat
  BY DEF BeginsFour
<1> HIDE DEF n
<1>3. Decoder(Decoder(Decoder(At(In3(n), s), j), k), l)
        = At(START, Append(s, Three(n, x, y, z)))
  BY <1>2, LastThree
<1>4. ~Taken(In3(n))
  BY DEF Taken, In3
<1>5. Decoder(At(START, s), i) = At(In3(n), s)
  BY <1>1, <1>4, DecoderWaits
<1> QED
  BY <1>3, <1>5 DEF n, OfFour

\* The parts of a code point that go into its bytes.
LEMMA Parts ==
    ASSUME NEW g \in Nat
    PROVE  /\ (g \div 1) % 64 \in 0..63 /\ (g \div 64) % 64 \in 0..63
           /\ (g \div 4096) % 64 \in 0..63
           /\ (g >= 128 /\ g < 2048) => g \div 64 \in 2..31
           /\ g < 65536 => g \div 4096 \in 0..15
           /\ g <= \h10FFFF => g \div 262144 \in 0..4
           /\ ((g \div 64) * 64) + ((g \div 1) % 64) = g
           /\ (((g \div 4096) * 4096) + (((g \div 64) % 64) * 64)) + ((g \div 1) % 64) = g
           /\ ((((g \div 262144) * 262144) + (((g \div 4096) % 64) * 4096))
                 + (((g \div 64) % 64) * 64)) + ((g \div 1) % 64) = g
<1>1. g \div 1 = g
  OBVIOUS
<1>2. /\ g % 64 \in 0..63 /\ (g \div 64) % 64 \in 0..63 /\ (g \div 4096) % 64 \in 0..63
  OBVIOUS
<1>3. ((g \div 64) * 64) + (g % 64) = g
  OBVIOUS
<1>4. g \div 4096 = (g \div 64) \div 64 /\ g \div 262144 = (g \div 4096) \div 64
  OBVIOUS
<1>5. (((g \div 64) \div 64) * 64) + ((g \div 64) % 64) = g \div 64
  OBVIOUS
<1>6. (((g \div 4096) \div 64) * 64) + ((g \div 4096) % 64) = g \div 4096
  OBVIOUS
<1>7. /\ (g >= 128 /\ g < 2048) => g \div 64 \in 2..31
      /\ g < 65536 => g \div 4096 \in 0..15
      /\ g <= \h10FFFF => g \div 262144 \in 0..4
  OBVIOUS
<1>8. /\ g \div 64 \in Nat /\ g \div 4096 \in Nat /\ g \div 262144 \in Nat
  OBVIOUS
<1> QED
  BY <1>1, <1>2, <1>3, <1>4, <1>5, <1>6, <1>7, <1>8

\* The bytes that are appended to a string are decoded one after the other.
LEMMA AppendLast ==
    ASSUME NEW h \in Seq(Nat), NEW f \in Seq(Nat), NEW a \in Nat
    PROVE  h \o Append(f, a) = Append(h \o f, a)
OBVIOUS

LEMMA ReadsOne ==
    ASSUME NEW h \in Seq(Nat), NEW a \in Nat
    PROVE  /\ h \o <<a>> \in Seq(Nat)
           /\ Decoded(h \o <<a>>) = Decoder(Decoded(h), a)
<1>1. h \o <<a>> = Append(h, a) /\ Append(h, a) \in Seq(Nat)
  OBVIOUS
<1> QED
  BY <1>1, DecodedGrows

LEMMA ReadsTwo ==
    ASSUME NEW h \in Seq(Nat), NEW a \in Nat, NEW b \in Nat
    PROVE  /\ h \o <<a, b>> \in Seq(Nat)
           /\ Decoded(h \o <<a, b>>) = Decoder(Decoder(Decoded(h), a), b)
<1> DEFINE f == <<a>>
           o == h \o f
<1>1. f \in Seq(Nat) /\ Append(f, b) = <<a, b>>
  <2> DEFINE p == Append(f, b)
             q == <<a, b>>
  <2>1. f \in Seq(Nat) /\ p \in Seq(Nat) /\ q \in Seq(Nat) /\ Len(p) = 2 /\ Len(q) = 2
    OBVIOUS
  <2>2. /\ p[1] = a /\ q[1] = a
        /\ p[2] = b /\ q[2] = b
    OBVIOUS
  <2> HIDE DEF p, q
  <2>3. \A i \in 1..Len(p) : p[i] = q[i]
    BY <2>1, <2>2
  <2>4. p = q
    BY <2>1, <2>3, SeqEqual
  <2> QED
    BY <2>1, <2>4 DEF p, q
<1>2. o \in Seq(Nat) /\ Decoded(o) = Decoder(Decoded(h), a)
  BY ReadsOne
<1> HIDE DEF f
<1>3. h \o Append(f, b) = Append(o, b)
  BY <1>1, AppendLast
<1> HIDE DEF o
<1>4. Append(o, b) \in Seq(Nat) /\ Decoded(Append(o, b)) = Decoder(Decoded(o), b)
  BY <1>2, DecodedGrows
<1> QED
  BY <1>1, <1>2, <1>3, <1>4, Zenon

LEMMA ReadsThree ==
    ASSUME NEW h \in Seq(Nat), NEW a \in Nat, NEW b \in Nat, NEW c \in Nat
    PROVE  /\ h \o <<a, b, c>> \in Seq(Nat)
           /\ Decoded(h \o <<a, b, c>>) = Decoder(Decoder(Decoder(Decoded(h), a), b), c)
<1> DEFINE f == <<a, b>>
           o == h \o f
<1>1. f \in Seq(Nat) /\ Append(f, c) = <<a, b, c>>
  <2> DEFINE p == Append(f, c)
             q == <<a, b, c>>
  <2>1. f \in Seq(Nat) /\ p \in Seq(Nat) /\ q \in Seq(Nat) /\ Len(p) = 3 /\ Len(q) = 3
    OBVIOUS
  <2>2. /\ p[1] = a /\ q[1] = a
        /\ p[2] = b /\ q[2] = b
        /\ p[3] = c /\ q[3] = c
    OBVIOUS
  <2> HIDE DEF p, q
  <2>3. \A i \in 1..Len(p) : p[i] = q[i]
    BY <2>1, <2>2
  <2>4. p = q
    BY <2>1, <2>3, SeqEqual
  <2> QED
    BY <2>1, <2>4 DEF p, q
<1>2. o \in Seq(Nat) /\ Decoded(o) = Decoder(Decoder(Decoded(h), a), b)
  BY ReadsTwo
<1> HIDE DEF f
<1>3. h \o Append(f, c) = Append(o, c)
  BY <1>1, AppendLast
<1> HIDE DEF o
<1>4. Append(o, c) \in Seq(Nat) /\ Decoded(Append(o, c)) = Decoder(Decoded(o), c)
  BY <1>2, DecodedGrows
<1> QED
  BY <1>1, <1>2, <1>3, <1>4, Zenon

LEMMA ReadsFour ==
    ASSUME NEW h \in Seq(Nat), NEW a \in Nat, NEW b \in Nat, NEW c \in Nat, NEW d \in Nat
    PROVE  /\ h \o <<a, b, c, d>> \in Seq(Nat)
           /\ Decoded(h \o <<a, b, c, d>>)
                = Decoder(Decoder(Decoder(Decoder(Decoded(h), a), b), c), d)
<1> DEFINE f == <<a, b, c>>
           o == h \o f
<1>1. f \in Seq(Nat) /\ Append(f, d) = <<a, b, c, d>>
  <2> DEFINE p == Append(f, d)
             q == <<a, b, c, d>>
  <2>1. f \in Seq(Nat) /\ p \in Seq(Nat) /\ q \in Seq(Nat) /\ Len(p) = 4 /\ Len(q) = 4
    OBVIOUS
  <2>2. /\ p[1] = a /\ q[1] = a
        /\ p[2] = b /\ q[2] = b
        /\ p[3] = c /\ q[3] = c
        /\ p[4] = d /\ q[4] = d
    OBVIOUS
  <2> HIDE DEF p, q
  <2>3. \A i \in 1..Len(p) : p[i] = q[i]
    BY <2>1, <2>2
  <2>4. p = q
    BY <2>1, <2>3, SeqEqual
  <2> QED
    BY <2>1, <2>4 DEF p, q
<1>2. o \in Seq(Nat) /\ Decoded(o) = Decoder(Decoder(Decoder(Decoded(h), a), b), c)
  BY ReadsThree
<1> HIDE DEF f
<1>3. h \o Append(f, d) = Append(o, d)
  BY <1>1, AppendLast
<1> HIDE DEF o
<1>4. Append(o, d) \in Seq(Nat) /\ Decoded(Append(o, d)) = Decoder(Decoded(o), d)
  BY <1>2, DecodedGrows
<1> QED
  BY <1>1, <1>2, <1>3, <1>4, Zenon

\* e is at most four bytes, and they make of a decoder that has read s one that has read
\* next.
Reads(osc, e, next) ==
    /\ Len(e) <= 4 /\ e \in Seq(Nat)
    /\ Decoded(osc \o e) = At(START, next)

LEMMA EncodedOne ==
    ASSUME NEW osc \in Seq(Nat), NEW s, Decoded(osc) = At(START, s), NEW ch \in 0..127
    PROVE  Reads(osc, <<ch>>, Append(s, ch))
<1>1. Len(<<ch>>) <= 4 /\ <<ch>> \in Seq(Nat) /\ ch \in Nat
  OBVIOUS
<1>2. MachFeed(START, ch) = Accept(ch)
  BY FirstOfOne DEF Accept
<1>3. Decoder(At(START, s), ch) = At(START, Append(s, ch))
  BY <1>2, DecoderTakes
<1> QED
  BY <1>1, <1>3, ReadsOne DEF Reads

LEMMA EncodedTwo ==
    ASSUME NEW osc \in Seq(Nat), NEW s, Decoded(osc) = At(START, s),
           NEW a, NEW i, BeginsTwo(i, a), NEW x, NEW j, Continues(j, x)
    PROVE  Reads(osc, <<i, j>>, Append(s, OfTwo(a, x)))
<1>1. i \in Nat /\ j \in Nat
  BY DEF BeginsTwo, Continues
<1>2. Len(<<i, j>>) <= 4 /\ <<i, j>> \in Seq(Nat)
  BY <1>1
<1>3. Decoder(Decoder(At(START, s), i), j) = At(START, Append(s, OfTwo(a, x)))
  BY TwoBytes
<1> QED
  BY <1>1, <1>2, <1>3, ReadsTwo DEF Reads

LEMMA EncodedThree ==
    ASSUME NEW osc \in Seq(Nat), NEW s, Decoded(osc) = At(START, s),
           NEW a, NEW i, BeginsThree(i, a), NEW x, NEW j, Continues(j, x),
           NEW y, NEW k, Continues(k, y)
    PROVE  Reads(osc, <<i, j, k>>, Append(s, OfThree(a, x, y)))
<1>1. i \in Nat /\ j \in Nat /\ k \in Nat
  BY DEF BeginsThree, Continues
<1>2. Len(<<i, j, k>>) <= 4 /\ <<i, j, k>> \in Seq(Nat)
  BY <1>1
<1>3. Decoder(Decoder(Decoder(At(START, s), i), j), k)
        = At(START, Append(s, OfThree(a, x, y)))
  BY ThreeBytes
<1> QED
  BY <1>1, <1>2, <1>3, ReadsThree DEF Reads

LEMMA EncodedFour ==
    ASSUME NEW osc \in Seq(Nat), NEW s, Decoded(osc) = At(START, s),
           NEW a, NEW i, BeginsFour(i, a), NEW x, NEW j, Continues(j, x),
           NEW y, NEW k, Continues(k, y), NEW z, NEW l, Continues(l, z)
    PROVE  Reads(osc, <<i, j, k, l>>, Append(s, OfFour(a, x, y, z)))
<1>1. i \in Nat /\ j \in Nat /\ k \in Nat /\ l \in Nat
  BY DEF BeginsFour, Continues
<1>2. Len(<<i, j, k, l>>) <= 4 /\ <<i, j, k, l>> \in Seq(Nat)
  BY <1>1
<1>3. Decoder(Decoder(Decoder(Decoder(At(START, s), i), j), k), l)
        = At(START, Append(s, OfFour(a, x, y, z)))
  BY FourBytes
<1> QED
  BY <1>1, <1>2, <1>3, ReadsFour DEF Reads

\* The bytes of a character, one after the other, are decoded to it; some code points have
\* no bytes.
LEMMA RoundTrip ==
    ASSUME NEW osc \in Seq(Nat), NEW ch \in Nat, Decoded(osc).mach = START
    PROVE  /\ Len(Encoded(ch)) <= 4 /\ Encoded(ch) \in Seq(Nat)
           /\ Decoded(osc \o Encoded(ch)).mach = START
           /\ \/ Decoded(osc \o Encoded(ch)).text = Append(Decoded(osc).text, ch)
              \/ Decoded(osc \o Encoded(ch)).text = Decoded(osc).text
<1> DEFINE e == Encoded(ch)
           s == Decoded(osc).text
           x == (ch \div 1) % 64
           y == (ch \div 64) % 64
           z == (ch \div 4096) % 64
           p == ch \div 64
           q == ch \div 4096
           r == ch \div 262144
           none == ch \in \hD800..\hDFFF \/ ch > \h10FFFF
                   \/ ch % 65536 \in {\hFFFE, \hFFFF} \/ ch \in \hFDD0..\hFDEF
<1>1. s \in Seq(Nat) /\ Decoded(osc) = At(START, s)
  BY DecodedGrows DEF DecoderStates, At
<1>2. e = IF none THEN <<>>
          ELSE IF ch < 128 THEN <<ch>>
          ELSE IF ch < 2048 THEN <<\hC0 + p, \h80 + x>>
          ELSE IF ch < 65536 THEN <<\hE0 + q, \h80 + y, \h80 + x>>
          ELSE <<\hF0 + r, \h80 + z, \h80 + y, \h80 + x>>
  BY DEF Encoded
<1>3. /\ x \in 0..63 /\ y \in 0..63 /\ z \in 0..63
      /\ (ch >= 128 /\ ch < 2048) => p \in 2..31
      /\ ch < 65536 => q \in 0..15
      /\ ch <= \h10FFFF => r \in 0..4
      /\ OfTwo(p, x) = ch /\ OfThree(q, y, x) = ch /\ OfFour(r, z, y, x) = ch
  BY Parts DEF Two, Three, OfTwo, OfThree, OfFour
<1>4. none \/ ch <= \h10FFFF
  OBVIOUS
<1> HIDE DEF e, s, x, y, z, p, q, r, none
<1>5. CASE none
  <2>1. e = <<>>
    BY <1>2, <1>5
  <2>2. osc \o e = osc /\ Len(e) <= 4 /\ e \in Seq(Nat)
    BY <2>1
  <2> QED
    BY <1>1, <2>2 DEF e
<1>6. CASE ~none
  <2>1. Reads(osc, e, Append(s, ch))
    <3>1. CASE ch < 128
      <4>1. e = <<ch>> /\ ch \in 0..127
        BY <1>2, <1>6, <3>1
      <4> QED
        BY <1>1, <4>1, EncodedOne
    <3>2. CASE ch >= 128 /\ ch < 2048
      <4> DEFINE a == \hC0 + p
                 b == \h80 + x
      <4>1. e = <<a, b>>
        BY <1>2, <1>6, <3>2
      <4>2. BeginsTwo(a, p) /\ Continues(b, x)
        BY <1>3, <3>2 DEF BeginsTwo, Continues
      <4> HIDE DEF a, b
      <4>3. Reads(osc, <<a, b>>, Append(s, OfTwo(p, x)))
        BY <1>1, <4>2, EncodedTwo
      <4> QED
        BY <1>3, <4>1, <4>3
    <3>3. CASE ch >= 2048 /\ ch < 65536
      <4> DEFINE a == \hE0 + q
                 b == \h80 + y
                 c == \h80 + x
      <4>1. e = <<a, b, c>>
        BY <1>2, <1>6, <3>3
      <4>2. BeginsThree(a, q) /\ Continues(b, y) /\ Continues(c, x)
        BY <1>3, <3>3 DEF BeginsThree, Continues
      <4> HIDE DEF a, b, c
      <4>3. Reads(osc, <<a, b, c>>, Append(s, OfThree(q, y, x)))
        BY <1>1, <4>2, EncodedThree
      <4> QED
        BY <1>3, <4>1, <4>3
    <3>4. CASE ch >= 65536
      <4> DEFINE a == \hF0 + r
                 b == \h80 + z
                 c == \h80 + y
                 d == \h80 + x
      <4>1. e = <<a, b, c, d>>
        BY <1>2, <1>6, <3>4
      <4>2. BeginsFour(a, r) /\ Continues(b, z) /\ Continues(c, y) /\ Continues(d, x)
        BY <1>3, <1>4, <1>6 DEF BeginsFour, Continues
      <4> HIDE DEF a, b, c, d
      <4>3. Reads(osc, <<a, b, c, d>>, Append(s, OfFour(r, z, y, x)))
        BY <1>1, <4>2, EncodedFour
      <4> QED
        BY <1>3, <4>1, <4>3
    <3> QED
      BY <3>1, <3>2, <3>3, <3>4
  <2>2. At(START, Append(s, ch)).mach = START /\ At(START, Append(s, ch)).text = Append(s, ch)
    BY DEF At
  <2> QED
    BY <2>1, <2>2 DEF Reads, s, e
<1> QED
  BY <1>5, <1>6

\* OscIsHeard, of any string and any characters.
StringHeard(osc, h) ==
    /\ Len(InUtf8(h)) <= OscMax => osc = InUtf8(h)
    /\ Len(InUtf8(h)) > OscMax => Len(osc) > OscMax - 4
    /\ Decoded(osc).mach = START
    /\ \E lost \in SUBSET DOMAIN h : Decoded(osc).text = Without(h, lost)

LEMMA NoString == StringHeard(<<>>, <<>>)
<1>1. <<>> \in Seq(Nat) /\ Len(<<>>) = 0
  OBVIOUS
<1>2. InUtf8(<<>>) = <<>>
  <2>1. PICK f : Course(Seq(Nat), <<>>, Utf8Step(<<>>), 0, f) /\ InUtf8(<<>>) = f[0]
    BY <1>1, Utf8Course
  <2> QED
    BY <2>1 DEF Course
<1>3. Decoded(<<>>) = [mach |-> START, text |-> <<>>]
  <2>1. PICK f : Course(DecoderStates, Fresh, DecodedStep(<<>>), 0, f)
                 /\ Decoded(<<>>) = f[0]
    BY <1>1, DecodedCourse
  <2> QED
    BY <2>1 DEF Course, Fresh
<1>4. Without(<<>>, {}) = <<>>
  <2>1. PICK f : Course(Seq(Nat), <<>>, WithoutStep(<<>>, {}), 0, f)
                 /\ Without(<<>>, {}) = f[0]
    BY <1>1, WithoutCourse
  <2> QED
    BY <2>1 DEF Course
<1>5. {} \in SUBSET DOMAIN <<>>
  OBVIOUS
<1> QED
  BY <1>1, <1>2, <1>3, <1>4, <1>5, Sizes DEF StringHeard

\* One character more, if it fits.
LEMMA StringGrows ==
    ASSUME NEW osc \in Texts, NEW h \in Seq(Nat), StringHeard(osc, h), NEW ch \in Nat
    PROVE  StringHeard(IF Fits(osc, Encoded(ch)) THEN osc \o Encoded(ch) ELSE osc,
                       Append(h, ch))
<1> DEFINE e == Encoded(ch)
           g == Append(h, ch)
           u == InUtf8(h)
           s == IF Fits(osc, e) THEN osc \o e ELSE osc
<1>1. osc \in Seq(Nat) /\ Len(osc) <= OscMax
  BY DEF Texts
<1>2. /\ Len(e) <= 4 /\ e \in Seq(Nat) /\ Decoded(osc \o e).mach = START
      /\ \/ Decoded(osc \o e).text = Append(Decoded(osc).text, ch)
         \/ Decoded(osc \o e).text = Decoded(osc).text
  BY <1>1, RoundTrip DEF StringHeard
<1>3. u \in Seq(Nat) /\ InUtf8(g) = u \o e
  BY Utf8Grows
<1>4. PICK lost \in SUBSET DOMAIN h : Decoded(osc).text = Without(h, lost)
  BY DEF StringHeard
<1>5. /\ lost \subseteq 1..Len(h) /\ Len(h) + 1 \notin lost
      /\ DOMAIN g = 1..(Len(h) + 1) /\ Len(h) + 1 \in DOMAIN g /\ DOMAIN h \subseteq DOMAIN g
  BY <1>4
<1>6. /\ Without(g, lost) = Append(Without(h, lost), ch)
      /\ Without(g, lost \cup {Len(h) + 1}) = Without(h, lost)
  <2>1. /\ lost \cap (1..Len(h)) = (lost \cup {Len(h) + 1}) \cap (1..Len(h))
    OBVIOUS
  <2>2. Without(g, lost) = Append(Without(h, lost), ch)
    BY <1>5, WithoutGrows
  <2>3. Without(g, lost \cup {Len(h) + 1}) = Without(h, lost)
    BY <1>5, <2>1, WithoutGrows
  <2> QED
    BY <2>2, <2>3
<1>7. \E gone \in SUBSET DOMAIN g : Decoded(s).text = Without(g, gone)
  <2>1. lost \in SUBSET DOMAIN g /\ lost \cup {Len(h) + 1} \in SUBSET DOMAIN g
    BY <1>5
  <2>2. \/ Decoded(s).text = Append(Decoded(osc).text, ch)
        \/ Decoded(s).text = Decoded(osc).text
    BY <1>2
  <2> HIDE DEF s, g
  <2> QED
    BY <1>4, <1>6, <2>1, <2>2
<1>8. Decoded(s).mach = START
  BY <1>2 DEF StringHeard
<1>9. Len(osc \o e) = Len(osc) + Len(e) /\ Len(u \o e) = Len(u) + Len(e)
      /\ Len(e) \in Nat /\ Len(osc) \in Nat /\ Len(u) \in Nat
  BY <1>1, <1>2, <1>3
<1>10. Len(u \o e) <= OscMax => s = u \o e
  <2>1. SUFFICES ASSUME Len(u \o e) <= OscMax PROVE s = u \o e
    OBVIOUS
  <2>2. osc = u
    BY <1>9, <2>1, Sizes DEF StringHeard
  <2>3. Fits(osc, e)
    BY <1>9, <2>1, <2>2 DEF Fits
  <2> QED
    BY <2>2, <2>3
<1>11. Len(u \o e) > OscMax => Len(s) > OscMax - 4
  <2>1. SUFFICES ASSUME Len(u \o e) > OscMax PROVE Len(s) > OscMax - 4
    OBVIOUS
  <2>2. CASE Len(u) > OscMax
    <3>1. Len(osc) > OscMax - 4
      BY <2>2 DEF StringHeard
    <3> QED
      BY <1>9, <3>1, Sizes
  <2>3. CASE Len(u) <= OscMax
    <3>1. osc = u
      BY <2>3 DEF StringHeard
    <3>2. ~Fits(osc, e)
      BY <1>9, <2>1, <3>1, Sizes DEF Fits
    <3>3. s = osc /\ Len(osc) + Len(e) > OscMax
      BY <1>9, <2>1, <3>1, <3>2
    <3> QED
      BY <1>2, <1>9, <3>3, Sizes
  <2> QED
    BY <1>9, <2>2, <2>3, Sizes
<1> HIDE DEF s, g, u
<1> QED
  BY <1>3, <1>7, <1>8, <1>10, <1>11 DEF StringHeard, s, g, e

-----------------------------------------------------------------------------
(* What each action does to the state, the arguments and the string. *)

\* t and u are at the same place of the same sequence.
Same(t, u) ==
    /\ u.vte.state = t.vte.state /\ u.vte.argc = t.vte.argc /\ u.vte.argv = t.vte.argv
    /\ u.vte.marks = t.vte.marks /\ u.vte.osc = t.vte.osc /\ u.heard = t.heard

LEMMA Replaced ==
    ASSUME NEW t, t \in Terminals, NEW x
    PROVE  /\ [t EXCEPT !.vte = x].vte = x /\ [t EXCEPT !.vte = x].heard = t.heard
           /\ [t EXCEPT !.con = x].vte = t.vte /\ [t EXCEPT !.con = x].heard = t.heard
           /\ [t EXCEPT !.out = x].vte = t.vte /\ [t EXCEPT !.out = x].heard = t.heard
           /\ [t EXCEPT !.heard = x].vte = t.vte /\ [t EXCEPT !.heard = x].heard = x
BY DEF Terminals

LEMMA ShiftsSame ==
    ASSUME NEW t, Good(t), NEW x
    PROVE  Same(t, [t EXCEPT !.vte.glt = x]) /\ Same(t, [t EXCEPT !.vte.gl = x])
<1> DEFINE v == [t.vte EXCEPT !.glt = x]
           w == [t.vte EXCEPT !.gl = x]
<1>1. t \in Terminals /\ t.vte \in Emulations
  BY GoodFields
<1>2. /\ v.state = t.vte.state /\ v.argc = t.vte.argc /\ v.argv = t.vte.argv
      /\ v.marks = t.vte.marks /\ v.osc = t.vte.osc
      /\ w.state = t.vte.state /\ w.argc = t.vte.argc /\ w.argv = t.vte.argv
      /\ w.marks = t.vte.marks /\ w.osc = t.vte.osc
  BY <1>1 DEF Emulations
<1> DEFINE p == [t EXCEPT !.vte = v]
           q == [t EXCEPT !.vte = w]
<1>3. [t EXCEPT !.vte.glt = x] = p /\ [t EXCEPT !.vte.gl = x] = q
  OBVIOUS
<1> HIDE DEF v, w
<1>4. p.vte = v /\ p.heard = t.heard /\ q.vte = w /\ q.heard = t.heard
  BY <1>1, Replaced
<1> HIDE DEF p, q
<1>5. Same(t, p) /\ Same(t, q)
  BY <1>2, <1>4 DEF Same
<1> QED
  BY <1>3, <1>5

LEMMA AnsweredSame ==
    ASSUME NEW t, Good(t)
    PROVE  Same(t, Answered(t))
<1> DEFINE m == [to |-> "server", from |-> "answer", bytes |-> <<>>,
                 esc |-> "PREPEND_ESCAPE" \in t.vte.flags]
           o == Append(t.out, m)
           f == t.vte.flags \ {"PREPEND_ESCAPE"}
           v == [t.vte EXCEPT !.flags = f]
           u == [t EXCEPT !.out = o, !.vte = v]
<1>1. t \in Terminals /\ t.vte \in Emulations
  BY GoodFields
<1>2. Answered(t) = u
  BY DEF Answered
<1> HIDE DEF f, o
<1>3. /\ v.state = t.vte.state /\ v.argc = t.vte.argc /\ v.argv = t.vte.argv
      /\ v.marks = t.vte.marks /\ v.osc = t.vte.osc
  BY <1>1 DEF Emulations
<1> HIDE DEF v
<1>4. u.vte = v /\ u.heard = t.heard
  BY <1>1 DEF Terminals
<1> HIDE DEF u
<1> QED
  BY <1>2, <1>3, <1>4 DEF Same

LEMMA PrintedSame ==
    ASSUME NEW t, Good(t), NEW ch \in Nat, NEW wraps
    PROVE  Same(t, Printed(t, ch, wraps))
<1> DEFINE m == IF ch \in 33..126 THEN [t EXCEPT !.vte.glt = NONE] ELSE t
           c == MovedDown(m.con, 1)
           u == [m EXCEPT !.con = c]
<1>1. Same(t, m)
  BY ShiftsSame DEF Same
<1>2. Keeps(t, m)
  BY ShiftChanged, GoodFields DEF Shifts, NONE
<1>3. Printed(t, ch, wraps) = IF wraps /\ "AUTO_WRAP" \in t.con.flags THEN u ELSE m
  BY DEF Printed
<1> HIDE DEF m, c
<1>4. u.vte = m.vte /\ u.heard = m.heard
  BY <1>2, Replaced, GoodFields DEF Keeps
<1> HIDE DEF u
<1>5. Same(t, u)
  BY <1>1, <1>4 DEF Same
<1> QED
  BY <1>1, <1>3, <1>5

LEMMA ExecutedSame ==
    ASSUME NEW t, Good(t), NEW ch
    PROVE  Same(t, Executed(t, ch))
<1> DEFINE d == MovedDown(t.con, 1)
           u == MovedUp(t.con, 1)
           down == [t EXCEPT !.con = d]
           up == [t EXCEPT !.con = u]
<1>1. t \in Terminals /\ Same(t, t)
  BY GoodFields DEF Same
<1>2. Executed(t, ch) =
        CASE ch \in {ENQ, \h9A} -> Answered(t)
          [] ch \in {\h0A, \h0B, \h0C, \h84, \h85} -> down
          [] ch = \h8D -> up
          [] ch = \h0E -> [t EXCEPT !.vte.gl = "g1"]
          [] ch = \h0F -> [t EXCEPT !.vte.gl = "g0"]
          [] ch = \h8E -> [t EXCEPT !.vte.glt = "g2"]
          [] ch = \h8F -> [t EXCEPT !.vte.glt = "g3"]
          [] OTHER -> t
  BY DEF Executed
<1> HIDE DEF d, u
<1>3. Same(t, down) /\ Same(t, up)
  BY <1>1, Replaced DEF Same
<1> HIDE DEF down, up
<1>4. Same(t, [t EXCEPT !.vte.gl = "g1"]) /\ Same(t, [t EXCEPT !.vte.gl = "g0"])
  BY ShiftsSame
<1>5. Same(t, [t EXCEPT !.vte.glt = "g2"]) /\ Same(t, [t EXCEPT !.vte.glt = "g3"])
  BY ShiftsSame
<1>6. Same(t, Answered(t))
  BY AnsweredSame
<1> QED
  BY <1>1, <1>2, <1>3, <1>4, <1>5, <1>6

\* What neither begins, continues nor ends anything.
LEMMA ActedSame ==
    ASSUME NEW t, Good(t), NEW ch \in Nat, NEW wraps \in BOOLEAN,
           NEW action \in {"PRINT", "EXECUTE", "IGNORE", "NONE"}
    PROVE  Same(t, Acted(t, ch, action, wraps))
<1>1. CASE action = "PRINT"
  BY <1>1, PrintedSame DEF Acted
<1>2. CASE action = "EXECUTE"
  <2>1. Same(t, Printed(t, \hBF, wraps)) /\ Same(t, Executed(t, ch))
    BY PrintedSame, ExecutedSame
  <2> QED
    BY <1>2, <2>1 DEF Acted
<1>3. CASE action \in {"IGNORE", "NONE"}
  BY <1>3 DEF Acted, Same
<1> QED
  BY <1>1, <1>2, <1>3

\* The entry into a sequence: nothing of another one is left.
LEMMA ActedClear ==
    ASSUME NEW t, Good(t), NEW ch, NEW wraps
    PROVE  LET u == Acted(t, ch, "CLEAR", wraps)
           IN  ArgsHeard(u.vte, u.heard) /\ StringHeard(u.vte.osc, u.heard)
<1> DEFINE e == [t EXCEPT !.heard = <<>>]
           argv == [i \in 0..(ArgMax - 1) |-> -1]
           v == [e.vte EXCEPT !.argc = 0, !.argv = argv, !.marks = {}, !.osc = <<>>]
           u == Acted(t, ch, "CLEAR", wraps)
<1>1. u = [e EXCEPT !.vte = v]
  BY DEF Acted, Cleared
<1>2. Good(e) /\ e.heard = <<>>
  <2> HIDE DEF argv, v, u
  <2>1. <<>> \in Seq(Nat)
    OBVIOUS
  <2>2. Keeps(t, e)
    BY <2>1, HeardChanged
  <2>3. Good(e)
    BY <2>2 DEF Keeps
  <2>4. e.heard = <<>>
    BY GoodFields, Replaced
  <2> QED
    BY <2>3, <2>4
<1>3. e \in Terminals /\ e.vte \in Emulations
  BY <1>2, GoodFields
<1>4. \A k \in 0..(ArgMax - 1) : argv[k] = -1
  OBVIOUS
<1> HIDE DEF argv, e, u
<1>5. v.argc = 0 /\ v.argv = argv /\ v.marks = {} /\ v.osc = <<>>
  BY <1>3 DEF Emulations
<1> HIDE DEF v
<1>6. u.vte = v /\ u.heard = <<>>
  BY <1>1, <1>2, <1>3, Replaced
<1>7. ArgsHeard(v, <<>>)
  BY <1>4, <1>5, NothingHeard
<1> QED
  BY <1>5, <1>6, <1>7, NoString DEF u

LEMMA ActedCollect ==
    ASSUME NEW t, Good(t), NEW ch \in Nat, NEW wraps
    PROVE  LET u == Acted(t, ch, "COLLECT", wraps)
           IN  /\ u.vte.state = t.vte.state /\ u.vte.argc = t.vte.argc
               /\ u.vte.argv = t.vte.argv /\ u.vte.marks = t.vte.marks \cup ({ch} \cap Marks)
               /\ u.heard = Append(t.heard, ch)
<1> DEFINE g == Append(t.heard, ch)
           h == [t EXCEPT !.heard = g]
           m == h.vte.marks \cup ({ch} \cap Marks)
           v == [h.vte EXCEPT !.marks = m]
           u == Acted(t, ch, "COLLECT", wraps)
<1>1. u = [h EXCEPT !.vte = v]
  BY DEF Acted
<1>2. t \in Terminals /\ t.vte \in Emulations /\ t.heard \in Seq(Nat)
  BY GoodFields
<1>3. g \in Seq(Nat)
  BY <1>2
<1> HIDE DEF g
<1>4. h \in Terminals /\ h.vte = t.vte /\ h.heard = g
  BY <1>2, <1>3, HeardReplaced, Replaced
<1> HIDE DEF h, m, u
<1>5. v.state = t.vte.state /\ v.argc = t.vte.argc /\ v.argv = t.vte.argv /\ v.marks = m
  BY <1>2, <1>4 DEF Emulations
<1> HIDE DEF v
<1>6. u.vte = v /\ u.heard = g
  BY <1>1, <1>4, Replaced
<1> QED
  BY <1>4, <1>5, <1>6 DEF u, m, g

\* A digit or a separator.
LEMMA ActedParam ==
    ASSUME NEW t, Good(t), NEW ch \in Parameter, NEW wraps
    PROVE  LET u == Acted(t, ch, "PARAM", wraps)
           IN  /\ u.vte.state = t.vte.state /\ u.vte.marks = t.vte.marks
               /\ u.heard = Append(t.heard, ch)
               /\ ch = SEMICOLON => /\ u.vte.argc = Lesser(t.vte.argc + 1, ArgMax)
                                    /\ u.vte.argv = t.vte.argv
               /\ ch # SEMICOLON =>
                    /\ u.vte.argc = t.vte.argc
                    /\ \A k \in 0..(ArgMax - 1) :
                        u.vte.argv[k] =
                            IF k # t.vte.argc \/ t.vte.argv[k] > ArgLimit THEN t.vte.argv[k]
                            ELSE IF t.vte.argv[k] <= 0 THEN ch - \h30
                            ELSE (t.vte.argv[k] * 10) + (ch - \h30)
<1> DEFINE g == Append(t.heard, ch)
           h == [t EXCEPT !.heard = g]
           u == Acted(t, ch, "PARAM", wraps)
           k == h.vte.argc
           old == h.vte.argv[k]
           digit == ch - \h30
           next == Lesser(k + 1, ArgMax)
           number == IF old <= 0 THEN digit ELSE (old * 10) + digit
           v == [h.vte EXCEPT !.argc = next]
           argv == [h.vte.argv EXCEPT ![k] = number]
           w == [h.vte EXCEPT !.argv = argv]
<1>1. u = IF ch = SEMICOLON THEN [h EXCEPT !.vte = v]
          ELSE IF k >= ArgMax \/ (k < ArgMax /\ old > ArgLimit) THEN h
          ELSE [h EXCEPT !.vte = w]
  <2>1. u = Numbered(h, ch)
    BY DEF Acted
  <2>2. Numbered(h, ch) =
            IF ch = SEMICOLON THEN [h EXCEPT !.vte.argc = next]
            ELSE IF k >= ArgMax \/ (k < ArgMax /\ old > ArgLimit) THEN h
            ELSE [h EXCEPT !.vte.argv[k] = number]
    BY DEF Numbered
  <2>3. [h EXCEPT !.vte.argc = next] = [h EXCEPT !.vte = v]
    OBVIOUS
  <2>4. [h EXCEPT !.vte.argv[k] = number] = [h EXCEPT !.vte = w]
    OBVIOUS
  <2> HIDE DEF u, h
  <2> QED
    BY <2>1, <2>2, <2>3, <2>4
<1>2. t \in Terminals /\ t.vte \in Emulations /\ t.heard \in Seq(Nat)
  BY GoodFields
<1>3. ch \in Nat
  BY DEF Parameter
<1>4. g \in Seq(Nat)
  BY <1>2, <1>3
<1> HIDE DEF g
<1>5. h \in Terminals /\ h.vte = t.vte /\ h.heard = g
  BY <1>2, <1>4, HeardReplaced, Replaced
<1>6. k \in 0..ArgMax /\ h.vte.argv \in [0..(ArgMax - 1) -> Numbers] /\ k = t.vte.argc
  BY <1>2, <1>5 DEF Emulations
<1> HIDE DEF h, u, next, number, argv, k, old
<1>7. /\ v.state = t.vte.state /\ v.argc = next /\ v.argv = t.vte.argv
      /\ v.marks = t.vte.marks
      /\ w.state = t.vte.state /\ w.argc = t.vte.argc /\ w.argv = argv
      /\ w.marks = t.vte.marks
  BY <1>2, <1>5 DEF Emulations
<1> HIDE DEF v, w
<1>8. CASE ch = SEMICOLON
  <2>1. u.vte = v /\ u.heard = g
    BY <1>1, <1>5, <1>8, Replaced
  <2> QED
    BY <1>6, <1>7, <1>8, <2>1 DEF u, g, next
<1>9. CASE ch # SEMICOLON /\ (k >= ArgMax \/ (k < ArgMax /\ old > ArgLimit))
  <2>1. u.vte = t.vte /\ u.heard = g
    BY <1>1, <1>5, <1>9
  <2>2. ASSUME NEW i \in 0..(ArgMax - 1), i = k PROVE old > ArgLimit /\ old = t.vte.argv[i]
    BY <1>5, <1>6, <1>9, <2>2, Sizes DEF old
  <2>3. \A i \in 0..(ArgMax - 1) : i # t.vte.argc \/ t.vte.argv[i] > ArgLimit
    BY <1>6, <2>2
  <2> QED
    BY <1>9, <2>1, <2>3 DEF u, g
<1>10. CASE ch # SEMICOLON /\ ~(k >= ArgMax \/ (k < ArgMax /\ old > ArgLimit))
  <2>1. u.vte = w /\ u.heard = g
    BY <1>1, <1>5, <1>10, Replaced
  <2>2. k \in 0..(ArgMax - 1) /\ old = t.vte.argv[k] /\ ~(old > ArgLimit)
    BY <1>5, <1>6, <1>10, Sizes DEF old
  <2>3. \A i \in 0..(ArgMax - 1) : argv[i] = IF i = k THEN number ELSE t.vte.argv[i]
    BY <1>5, <1>6 DEF argv
  <2>4. ASSUME NEW i \in 0..(ArgMax - 1)
        PROVE  argv[i] = IF i # t.vte.argc \/ t.vte.argv[i] > ArgLimit THEN t.vte.argv[i]
                         ELSE IF t.vte.argv[i] <= 0 THEN digit
                         ELSE (t.vte.argv[i] * 10) + digit
    BY <1>6, <2>2, <2>3 DEF number
  <2> QED
    BY <1>7, <1>10, <2>1, <2>4 DEF u, g
<1> QED
  BY <1>8, <1>9, <1>10

LEMMA ActedOsc ==
    ASSUME NEW t, Good(t), NEW ch \in Nat, NEW wraps
    PROVE  LET u == Acted(t, ch, "OSC_COLLECT", wraps)
           IN  /\ u.vte.state = t.vte.state /\ u.heard = Append(t.heard, ch)
               /\ u.vte.osc = IF Fits(t.vte.osc, Encoded(ch)) THEN t.vte.osc \o Encoded(ch)
                              ELSE t.vte.osc
<1> DEFINE g == Append(t.heard, ch)
           h == [t EXCEPT !.heard = g]
           o == h.vte.osc \o Encoded(ch)
           v == [h.vte EXCEPT !.osc = o]
           u == Acted(t, ch, "OSC_COLLECT", wraps)
<1>1. u = IF Fits(h.vte.osc, Encoded(ch)) THEN [h EXCEPT !.vte = v] ELSE h
  BY DEF Acted, OscCollected
<1>2. t \in Terminals /\ t.vte \in Emulations /\ t.heard \in Seq(Nat)
  BY GoodFields
<1>3. g \in Seq(Nat)
  BY <1>2
<1> HIDE DEF g
<1>4. h \in Terminals /\ h.vte = t.vte /\ h.heard = g
  BY <1>2, <1>3, HeardReplaced, Replaced
<1> HIDE DEF h, o, u
<1>5. v.state = t.vte.state /\ v.osc = o
  BY <1>2, <1>4 DEF Emulations
<1> HIDE DEF v
<1>6. /\ Fits(h.vte.osc, Encoded(ch)) => u.vte = v /\ u.heard = g
      /\ ~Fits(h.vte.osc, Encoded(ch)) => u.vte = t.vte /\ u.heard = g
  BY <1>1, <1>4, Replaced
<1> QED
  BY <1>4, <1>5, <1>6 DEF u, o, g

-----------------------------------------------------------------------------
(* A whole character, a byte, a key. *)

\* Both properties, of any terminal.
Hears(t) ==
    /\ t.vte.state \in HeadStates => ArgsHeard(t.vte, t.heard)
    /\ t.vte.state = "OSC_STRING" => StringHeard(t.vte.osc, t.heard)

LEMMA SameHears ==
    ASSUME NEW t, NEW u, Same(t, u), Hears(t)
    PROVE  Hears(u)
BY DEF Same, Hears, ArgsHeard

\* What the table does with a character as far as the head of a sequence, or a string, is
\* concerned.
Heads(ch, action) ==
    \/ action = "COLLECT" /\ ch \in Intermediate \cup Private
    \/ action = "PARAM" /\ ch \in Parameter
Heeds(s, ch, r) ==
    /\ r[1] = "NONE" =>
        /\ r[2] \in {"PRINT", "EXECUTE", "IGNORE", "COLLECT", "PARAM", "OSC_COLLECT"}
        /\ r[2] = "PARAM" => ch \in Parameter
        /\ s \in HeadStates => r[2] \in {"EXECUTE", "IGNORE"} \/ Heads(ch, r[2])
        /\ s = "OSC_STRING" => r[2] \in {"IGNORE", "OSC_COLLECT"}
    /\ r[1] \in {"CSI_PARAM", "CSI_INT"} => s \in HeadStates /\ Heads(ch, r[2])

LEMMA RuleHeeds ==
    ASSUME NEW s \in StateNames, NEW ch \in Nat
    PROVE  Heeds(s, ch, Rule(s, ch))
<1>1. Heeds(s, ch, AnywhereRule(ch))
  BY DEF AnywhereRule, Heeds
<1>2. s = "ESC" => Heeds(s, ch, EscRule(ch))
  BY DEF EscRule, Heeds, HeadStates
<1>3. s = "ESC_INT" => Heeds(s, ch, EscIntRule(ch))
  BY DEF EscIntRule, Heeds, HeadStates
<1>4. s = "CSI_IGNORE" => Heeds(s, ch, CsiIgnoreRule(ch))
  BY DEF CsiIgnoreRule, Heeds, HeadStates
<1>5. s = "OSC_STRING" => Heeds(s, ch, OscRule(ch))
  BY DEF OscRule, Heeds, HeadStates
<1>6. s \in HeadStates => Heeds(s, ch, HeadRule(Csi, s, ch))
  BY DEF HeadRule, Csi, Dcs, Heeds, Heads, HeadStates
<1>7. s \in {"DCS_ENTRY", "DCS_PARAM", "DCS_INT"} => Heeds(s, ch, HeadRule(Dcs, s, ch))
  BY DEF HeadRule, Csi, Dcs, Heeds, HeadStates
<1>8. /\ s = "GROUND" => Heeds(s, ch, <<"NONE", IF ch \in Control THEN "EXECUTE" ELSE "PRINT">>)
      /\ s \notin HeadStates \cup {"OSC_STRING"} => Heeds(s, ch, <<"NONE", "IGNORE">>)
  BY DEF Heeds, HeadStates
<1> QED
  BY <1>1, <1>2, <1>3, <1>4, <1>5, <1>6, <1>7, <1>8 DEF Rule, HeadStates

\* One more character of the head of a sequence.
LEMMA HeadHears ==
    ASSUME NEW t, Good(t), NEW ch \in Nat, NEW wraps, ArgsHeard(t.vte, t.heard),
           NEW action, Heads(ch, action)
    PROVE  LET u == Acted(t, ch, action, wraps)
           IN  u.vte.state = t.vte.state /\ ArgsHeard(u.vte, u.heard)
<1> DEFINE u == Acted(t, ch, action, wraps)
<1>1. t.vte \in Emulations /\ t.heard \in Seq(Nat)
  BY GoodFields
<1>2. CASE action = "COLLECT" /\ ch \in Intermediate \cup Private
  <2>1. /\ u.vte.state = t.vte.state /\ u.vte.argc = t.vte.argc /\ u.vte.argv = t.vte.argv
        /\ u.vte.marks = t.vte.marks \cup ({ch} \cap Marks)
        /\ u.heard = Append(t.heard, ch)
    BY <1>2, ActedCollect
  <2> HIDE DEF u
  <2>2. ArgsHeard(u.vte, Append(t.heard, ch))
    BY <1>1, <1>2, <2>1, MarkHeard
  <2> QED
    BY <2>1, <2>2 DEF u
<1>3. CASE action = "PARAM" /\ ch \in Parameter
  <2>1. /\ u.vte.state = t.vte.state /\ u.vte.marks = t.vte.marks
        /\ u.heard = Append(t.heard, ch)
        /\ ch = SEMICOLON => /\ u.vte.argc = Lesser(t.vte.argc + 1, ArgMax)
                             /\ u.vte.argv = t.vte.argv
        /\ ch # SEMICOLON =>
             /\ u.vte.argc = t.vte.argc
             /\ \A k \in 0..(ArgMax - 1) :
                 u.vte.argv[k] =
                     IF k # t.vte.argc \/ t.vte.argv[k] > ArgLimit THEN t.vte.argv[k]
                     ELSE IF t.vte.argv[k] <= 0 THEN ch - \h30
                     ELSE (t.vte.argv[k] * 10) + (ch - \h30)
    BY <1>3, ActedParam
  <2>2. ch # SEMICOLON => ch \in Digit
    BY <1>3 DEF Parameter, SEMICOLON, Digit
  <2> HIDE DEF u
  <2>3. CASE ch = SEMICOLON
    <3>1. ArgsHeard(u.vte, Append(t.heard, SEMICOLON))
      BY <1>1, <2>1, <2>3, SeparatorHeard
    <3> QED
      BY <2>1, <2>3, <3>1 DEF u
  <2>4. CASE ch # SEMICOLON
    <3>1. ArgsHeard(u.vte, Append(t.heard, ch))
      BY <1>1, <2>1, <2>2, <2>4, DigitHeard
    <3> QED
      BY <2>1, <3>1 DEF u
  <2> QED
    BY <2>3, <2>4
<1> QED
  BY <1>2, <1>3 DEF Heads

\* A character that does not change the state.
LEMMA StayHears ==
    ASSUME NEW t, Good(t), Hears(t), NEW ch \in Nat, NEW wraps \in BOOLEAN,
           NEW r, r[1] = "NONE", Heeds(t.vte.state, ch, r)
    PROVE  Hears(Acted(t, ch, r[2], wraps))
<1> DEFINE action == r[2]
           s == t.vte.state
           u == Acted(t, ch, action, wraps)
<1>1. /\ action \in {"PRINT", "EXECUTE", "IGNORE", "COLLECT", "PARAM", "OSC_COLLECT"}
      /\ action = "PARAM" => ch \in Parameter
      /\ s \in HeadStates => action \in {"EXECUTE", "IGNORE"} \/ Heads(ch, action)
      /\ s = "OSC_STRING" => action \in {"IGNORE", "OSC_COLLECT"}
  BY DEF Heeds
<1> HIDE DEF action
<1>2. CASE action \in {"PRINT", "EXECUTE", "IGNORE"}
  <2>1. Same(t, u)
    BY <1>2, ActedSame
  <2> HIDE DEF u
  <2> QED
    BY <2>1, SameHears DEF u, action
<1>3. CASE action \in {"COLLECT", "PARAM", "OSC_COLLECT"}
  <2>1. u.vte.state = s
    BY <1>1, <1>3, ActedCollect, ActedParam, ActedOsc
  <2>2. ASSUME s \in HeadStates PROVE ArgsHeard(u.vte, u.heard)
    <3>1. Heads(ch, action) /\ ArgsHeard(t.vte, t.heard)
      BY <1>1, <1>3, <2>2 DEF Hears
    <3> QED
      BY <3>1, HeadHears
  <2>3. ASSUME s = "OSC_STRING" PROVE StringHeard(u.vte.osc, u.heard)
    <3>1. action = "OSC_COLLECT" /\ StringHeard(t.vte.osc, t.heard)
      BY <1>1, <1>3, <2>3 DEF Hears
    <3>2. /\ u.heard = Append(t.heard, ch)
          /\ u.vte.osc = IF Fits(t.vte.osc, Encoded(ch)) THEN t.vte.osc \o Encoded(ch)
                         ELSE t.vte.osc
      BY <3>1, ActedOsc
    <3>3. t.vte.osc \in Texts /\ t.heard \in Seq(Nat)
      BY GoodFields DEF Emulations
    <3> HIDE DEF u
    <3>4. StringHeard(IF Fits(t.vte.osc, Encoded(ch)) THEN t.vte.osc \o Encoded(ch)
                      ELSE t.vte.osc, Append(t.heard, ch))
      BY <3>1, <3>3, StringGrows
    <3> QED
      BY <3>2, <3>4
  <2> HIDE DEF u
  <2> QED
    BY <2>1, <2>2, <2>3 DEF Hears, u, action
<1> QED
  BY <1>1, <1>2, <1>3

LEMMA ParsedHears ==
    ASSUME NEW t, Good(t), Hears(t), NEW ch \in Nat, NEW wraps \in BOOLEAN
    PROVE  Hears(Parsed(t, ch, wraps))
<1> DEFINE s == t.vte.state
           rule == Rule(s, ch)
           gone == Acted(t, ch, ExitAction(s), wraps)
           done == Acted(gone, ch, rule[2], wraps)
           come == Acted(done, ch, EntryAction(rule[1]), wraps)
           v == [come.vte EXCEPT !.state = rule[1]]
           h == IF rule[1] = "GROUND" THEN <<>> ELSE come.heard
           a == [come EXCEPT !.vte = v]
           b == [a EXCEPT !.heard = h]
<1>1. s \in StateNames
  BY GoodFields DEF Emulations
<1>2. /\ rule[1] \in StateNames /\ (rule[2] = "PARAM" => ch \in Parameter)
      /\ Heeds(s, ch, rule)
  BY <1>1, RuleType, RuleHeeds
<1>3. Parsed(t, ch, wraps)
      = IF rule[1] = "NONE" THEN Acted(t, ch, rule[2], wraps)
        ELSE [come EXCEPT !.vte.state = rule[1],
                          !.heard = IF rule[1] = "GROUND" THEN <<>> ELSE @]
  BY DEF Parsed
<1> HIDE DEF rule
<1>4. rule[1] = "NONE" => Hears(Acted(t, ch, rule[2], wraps))
  BY <1>2, StayHears
<1>5. Good(gone)
  BY ActedKeeps DEF ExitAction, Keeps
<1>6. s \in HeadStates => gone = t
  BY DEF Acted, ExitAction, HeadStates
<1> HIDE DEF gone
<1>7. Good(done)
  BY <1>2, <1>5, ActedKeeps DEF Keeps
<1>8. (s \in HeadStates /\ Heads(ch, rule[2])) => ArgsHeard(done.vte, done.heard)
  <2>1. SUFFICES ASSUME s \in HeadStates, Heads(ch, rule[2])
                 PROVE  ArgsHeard(done.vte, done.heard)
    OBVIOUS
  <2>2. ArgsHeard(t.vte, t.heard)
    BY <2>1 DEF Hears
  <2> QED
    BY <1>6, <2>1, <2>2, HeadHears
<1> HIDE DEF done
<1>9. Good(come)
  BY <1>7, ActedKeeps DEF Keeps, EntryAction
<1>10. rule[1] \in {"CSI_ENTRY", "OSC_STRING"}
       => ArgsHeard(come.vte, come.heard) /\ StringHeard(come.vte.osc, come.heard)
  <2>1. rule[1] \in {"CSI_ENTRY", "OSC_STRING"} => EntryAction(rule[1]) = "CLEAR"
    BY DEF EntryAction
  <2> QED
    BY <1>7, <2>1, ActedClear
<1>11. rule[1] \in {"CSI_PARAM", "CSI_INT"} => ArgsHeard(come.vte, come.heard)
  <2>1. SUFFICES ASSUME rule[1] \in {"CSI_PARAM", "CSI_INT"}
                 PROVE  ArgsHeard(come.vte, come.heard)
    OBVIOUS
  <2>2. s \in HeadStates /\ Heads(ch, rule[2])
    BY <1>2, <2>1 DEF Heeds
  <2>3. EntryAction(rule[1]) = "NONE"
    BY <2>1 DEF EntryAction
  <2>4. come = done
    BY <2>3 DEF Acted
  <2> HIDE DEF come
  <2> QED
    BY <1>8, <2>2, <2>4
<1> HIDE DEF come, s
<1>12. come \in Terminals /\ come.vte \in Emulations
  BY <1>9, GoodFields
<1>13. /\ v.state = rule[1] /\ v.argc = come.vte.argc /\ v.argv = come.vte.argv
       /\ v.marks = come.vte.marks /\ v.osc = come.vte.osc /\ v \in Emulations
  BY <1>2, <1>12 DEF Emulations
<1> HIDE DEF v
<1>14. a.vte = v /\ a.heard = come.heard /\ a \in Terminals
  BY <1>12, <1>13 DEF Terminals
<1>15. [come EXCEPT !.vte = v, !.heard = h] = b
  BY <1>12 DEF Terminals
<1> HIDE DEF a, h
<1>16. b.vte = v /\ b.heard = h
  BY <1>14, Replaced
<1> HIDE DEF b
<1>17. Hears(b)
  <2>1. ASSUME rule[1] \in HeadStates PROVE ArgsHeard(v, h)
    <3>1. h = come.heard
      BY <2>1 DEF h, HeadStates
    <3>2. ArgsHeard(come.vte, come.heard)
      BY <1>10, <1>11, <2>1 DEF HeadStates
    <3> QED
      BY <1>13, <3>1, <3>2 DEF ArgsHeard
  <2>2. ASSUME rule[1] = "OSC_STRING" PROVE StringHeard(v.osc, h)
    <3>1. h = come.heard
      BY <2>2 DEF h
    <3> QED
      BY <1>10, <1>13, <2>2, <3>1
  <2> QED
    BY <1>13, <1>16, <2>1, <2>2 DEF Hears
<1>18. rule[1] # "NONE" => Parsed(t, ch, wraps) = b
  BY <1>3, <1>15 DEF v, h
<1> QED
  BY <1>4, <1>3, <1>17, <1>18

LEMMA FedHears ==
    ASSUME NEW t, Good(t), Hears(t), NEW byte \in Nat, NEW wraps \in BOOLEAN
    PROVE  Hears(Fed(t, byte, wraps))
<1> DEFINE mach == MachFeed(t.vte.mach, byte)
           next == IF Taken(mach) THEN START ELSE mach
           v == [t.vte EXCEPT !.mach = next]
           m == [t EXCEPT !.vte = v]
<1>1. t \in Terminals /\ t.vte \in Emulations /\ t.vte.mach \in Machs
  BY GoodFields DEF Emulations
<1>2. Fed(t, byte, wraps) =
        IF "7BIT" \in t.vte.flags THEN Parsed(t, byte % 128, wraps)
        ELSE IF "8BIT" \in t.vte.flags THEN Parsed(t, byte, wraps)
        ELSE IF Taken(mach) THEN Parsed(m, MachGet(mach), wraps)
        ELSE m
  BY DEF Fed
<1>3. next \in Machs /\ MachGet(mach) \in Nat
  BY <1>1, MachFeedType, DefaultTypes
<1> HIDE DEF mach, next
<1>4. /\ v \in Emulations /\ v.flags = t.vte.flags /\ v.cattr = t.vte.cattr
      /\ v.state = t.vte.state /\ v.argc = t.vte.argc /\ v.argv = t.vte.argv
      /\ v.marks = t.vte.marks /\ v.osc = t.vte.osc
  BY <1>1, <1>3 DEF Emulations
<1> HIDE DEF v
<1>5. Good(m)
  BY <1>4, VteChanged DEF Keeps
<1>6. Same(t, m)
  BY <1>1, <1>4, Replaced DEF Same
<1> HIDE DEF m
<1>7. Hears(m)
  BY <1>6, SameHears
<1>8. Hears(Parsed(m, MachGet(mach), wraps))
  BY <1>3, <1>5, <1>7, ParsedHears
<1>9. byte % 128 \in Nat
  OBVIOUS
<1>10. Hears(Parsed(t, byte % 128, wraps)) /\ Hears(Parsed(t, byte, wraps))
  BY <1>9, ParsedHears
<1> QED
  BY <1>2, <1>7, <1>8, <1>10

LEMMA FedAllHears ==
    ASSUME NEW t, Good(t), Hears(t), NEW bytes \in Seq(Nat)
    PROVE  Hears(FedAll(t, bytes))
<1> DEFINE n == Len(bytes)
<1>1. n \in Nat /\ \A k \in 1..n : bytes[k] \in Nat
  OBVIOUS
<1>2. PICK g : FedSteps(t, bytes, g) /\ FedAll(t, bytes) = g[n]
  BY FedAllSteps
<1>3. \A k \in 0..n : g[k] = IF k = 0 THEN t ELSE Fed(g[k - 1], bytes[k], FALSE)
  BY <1>2 DEF FedSteps
<1> HIDE DEF n
<1> DEFINE S == {k \in Nat : k <= n => Good(g[k]) /\ Hears(g[k])}
<1>4. 0 \in S
  <2>1. 0 \in 0..n
    BY <1>1
  <2>2. g[0] = t
    BY <1>3, <2>1
  <2> QED
    BY <2>2
<1>5. ASSUME NEW k \in Nat, k \in S PROVE k + 1 \in S
  <2>1. SUFFICES ASSUME k + 1 <= n PROVE Good(g[k + 1]) /\ Hears(g[k + 1])
    OBVIOUS
  <2>2. Good(g[k]) /\ Hears(g[k])
    BY <1>1, <1>5, <2>1
  <2>3. k + 1 \in 0..n /\ k + 1 # 0 /\ (k + 1) - 1 = k /\ k + 1 \in 1..n
    BY <1>1, <2>1
  <2>4. g[k + 1] = Fed(g[k], bytes[k + 1], FALSE)
    BY <1>3, <2>3
  <2>5. bytes[k + 1] \in Nat
    BY <1>1, <2>3
  <2> QED
    BY <2>2, <2>4, <2>5, FedKeeps, FedHears DEF Keeps
<1> HIDE DEF S
<1>6. Nat \subseteq S
  BY <1>4, <1>5, NatSet
<1>7. Hears(g[n])
  BY <1>1, <1>6 DEF S
<1> QED
  BY <1>2, <1>7

\* The flags of Alt are no matter of the parser.
LEMMA FlagsSame ==
    ASSUME NEW t, Good(t), NEW f
    PROVE  Same(t, [t EXCEPT !.vte.flags = f])
<1> DEFINE v == [t.vte EXCEPT !.flags = f]
<1>1. t \in Terminals /\ t.vte \in Emulations
  BY GoodFields
<1>2. /\ v.state = t.vte.state /\ v.argc = t.vte.argc /\ v.argv = t.vte.argv
      /\ v.marks = t.vte.marks /\ v.osc = t.vte.osc
  BY <1>1 DEF Emulations
<1> DEFINE u == [t EXCEPT !.vte = v]
<1>3. [t EXCEPT !.vte.flags = f] = u
  OBVIOUS
<1> HIDE DEF v
<1>4. u.vte = v /\ u.heard = t.heard
  BY <1>1, Replaced
<1> HIDE DEF u
<1> QED
  BY <1>2, <1>3, <1>4 DEF Same

LEMMA SentHears ==
    ASSUME NEW t, Good(t), Hears(t), NEW bytes \in Seq(Nat)
    PROVE  Hears(Sent(t, bytes))
<1> DEFINE echo == (IF "PREPEND_ESCAPE" \in t.vte.flags THEN <<ESC>> ELSE <<>>) \o bytes
           e == IF "SEND_RECEIVE" \in t.vte.flags THEN t ELSE FedAll(t, echo)
           m == [to |-> "server", from |-> "key", bytes |-> bytes,
                 esc |-> "PREPEND_ESCAPE" \in e.vte.flags]
           o == Append(e.out, m)
           a == [e EXCEPT !.out = o]
           f == Unescaped(e.vte.flags)
           v == [e.vte EXCEPT !.flags = f]
           u == [e EXCEPT !.out = o, !.vte = v]
<1>1. echo \in Seq(Nat)
  BY DEF ESC
<1>2. Sent(t, bytes) = u
  BY DEF Sent, Unescaped
<1> HIDE DEF echo
<1>3. Good(e) /\ Hears(e)
  BY <1>1, FedAllSteps, FedAllHears DEF Keeps
<1> HIDE DEF e
<1>4. e \in Terminals /\ e.vte \in Emulations
  BY <1>3, GoodFields
<1> HIDE DEF f, o
<1>5. /\ v.state = e.vte.state /\ v.argc = e.vte.argc /\ v.argv = e.vte.argv
      /\ v.marks = e.vte.marks /\ v.osc = e.vte.osc
  BY <1>4 DEF Emulations
<1> HIDE DEF v
<1>6. u.vte = v /\ u.heard = e.heard
  BY <1>4 DEF Terminals
<1> HIDE DEF u
<1>7. Same(e, u)
  BY <1>5, <1>6 DEF Same
<1> QED
  BY <1>2, <1>3, <1>7, SameHears

LEMMA PressedHears ==
    ASSUME NEW t, Good(t), Hears(t), NEW alt \in BOOLEAN, NEW key, key.ch \in Nat
    PROVE  Hears(Pressed(t, alt, key))
<1> DEFINE a == IF alt THEN [t EXCEPT !.vte.flags = @ \cup {"PREPEND_ESCAPE"}] ELSE t
           q == [a EXCEPT !.vte.flags = @ \ {"PREPEND_ESCAPE"}]
           r == Sent(a, KeyBytes(a.vte, key))
<1>1. Pressed(t, alt, key) = IF key.kind = "none" THEN q ELSE r
  BY DEF Pressed
<1>2. Good(a)
  BY EscapePending
<1>3. Same(t, a)
  BY FlagsSame DEF Same
<1> HIDE DEF a
<1>4. Hears(a)
  BY <1>3, SameHears
<1>5. Hears(q)
  BY <1>2, <1>4, FlagsSame, SameHears
<1>6. Hears(r)
  BY <1>2, <1>4, KeyBytesType, SentHears
<1> HIDE DEF q, r
<1> QED
  BY <1>1, <1>5, <1>6

\* Between two calls the terminal has heard what it holds.
HeardInv == VInv /\ Hears(Terminal)

LEMMA HearsKept ==
    ASSUME NEW t, Hears(t), Becomes(t)
    PROVE  Hears(Terminal)'
<1>1. vte' = t.vte /\ heard' = t.heard
  BY DEF Becomes
<1>2. Terminal'.vte = t.vte /\ Terminal'.heard = t.heard
  BY <1>1 DEF Terminal
<1> QED
  BY <1>2 DEF Hears

LEMMA HeardAlways == Spec => []HeardInv
<1>1. ASSUME Init PROVE HeardInv
  <2>1. vte.state = "GROUND"
    <3>1. Created.vte.state = "GROUND"
      BY DEF Created, Reset
    <3> QED
      BY <1>1, <3>1 DEF Init
  <2> QED
    BY <1>1, <2>1, VInvInit, TerminalFields DEF HeardInv, Hears, HeadStates
<1>2. ASSUME HeardInv, [Next]_vars PROVE HeardInv'
  <2>1. VInv'
    BY <1>2, VInvNext DEF HeardInv
  <2>2. Good(Terminal) /\ Hears(Terminal) /\ client \in Clients
    BY <1>2 DEF HeardInv, VInv
  <2>3. CASE Input
    <3>1. PICK byte \in client.bytes, wraps \in BOOLEAN :
              Becomes(Fed(Terminal, byte, wraps))
      BY <2>3 DEF Input
    <3>2. byte \in Nat
      <4>1. client.bytes \subseteq 0..255
        BY <2>2, VteAssumption
      <4> QED
        BY <4>1
    <3>3. Hears(Fed(Terminal, byte, wraps))
      BY <2>2, <3>2, FedHears
    <3>4. Hears(Terminal)'
      BY <3>1, <3>3, HearsKept
    <3> QED
      BY <2>1, <3>4 DEF HeardInv
  <2>4. CASE Key
    <3>1. PICK alt \in BOOLEAN, key \in client.keys :
              Becomes(Pressed(Terminal, alt, key))
      BY <2>4 DEF Key, KeyPress
    <3>2. key.ch \in Nat
      BY <2>2, VteAssumption
    <3>3. Hears(Pressed(Terminal, alt, key))
      BY <2>2, <3>2, PressedHears
    <3>4. Hears(Terminal)'
      BY <3>1, <3>3, HearsKept
    <3> QED
      BY <2>1, <3>4 DEF HeardInv
  <2>5. CASE UNCHANGED vars
    <3>1. Terminal' = Terminal
      BY <2>5 DEF vars, Terminal
    <3>2. Hears(Terminal)'
      BY <2>2, <3>1 DEF Hears
    <3> QED
      BY <2>1, <3>2 DEF HeardInv
  <2> QED
    BY <1>2, <2>3, <2>4, <2>5 DEF Next
<1> QED
  BY <1>1, <1>2, PTL DEF Spec

\* A control sequence acts on the arguments it was sent with: as many as there were
\* separators, each the number that was sent for it, the marks and no other, of however
\* many sequences, strings, resets and control characters it comes after or in between.
THEOREM ArgumentsArrive == Spec => []ArgumentsAreHeard
<1>1. HeardInv => ArgumentsAreHeard
  BY TerminalFields DEF HeardInv, Hears, HeadStates, ArgsHeard, ArgumentsAreHeard
<1> QED
  BY <1>1, HeardAlways, PTL

\* The string that osc_cb is given is what was sent, in UTF-8; when that is longer than the
\* array, it has whole characters only, in order, and less than four bytes are free.
THEOREM StringsArrive == Spec => []OscIsHeard
<1>1. ASSUME HeardInv PROVE OscIsHeard
  <2>1. SUFFICES ASSUME vte.state = "OSC_STRING"
                 PROVE  LET decoded == Decoded(vte.osc)
                        IN  IF Len(InUtf8(heard)) <= OscMax THEN vte.osc = InUtf8(heard)
                            ELSE /\ decoded.mach = START
                                 /\ \E lost \in SUBSET DOMAIN heard :
                                        decoded.text = Without(heard, lost)
                                 /\ Len(vte.osc) > OscMax - 4
    BY DEF OscIsHeard
  <2>2. StringHeard(vte.osc, heard) /\ heard \in Seq(Nat)
    BY <1>1, <2>1, TerminalFields, GoodFields DEF HeardInv, VInv, Hears
  <2>3. InUtf8(heard) \in Seq(Nat) /\ Len(InUtf8(heard)) \in Nat
    <3>1. InUtf8(heard) \in Seq(Nat)
      BY <2>2, Utf8Grows
    <3> QED
      BY <3>1
  <2>4. ~(Len(InUtf8(heard)) <= OscMax) => Len(InUtf8(heard)) > OscMax
    BY <2>3, Sizes
  <2> QED
    BY <2>2, <2>4 DEF StringHeard
<1>2. HeardInv => OscIsHeard
  BY <1>1
<1> QED
  BY <1>2, HeardAlways, PTL

=============================================================================
