------------------------------- MODULE TsmVte -------------------------------
(***************************************************************************)
(* libtsm/tsm/tsm-vte.c: the terminal emulation.  Bytes of the server are  *)
(* decoded (tsm-unicode.c), parsed by a state machine and, when a sequence *)
(* is complete, change the modes of the emulation and of the screen.  Keys *)
(* become bytes for the server, which the emulation parses as well while   *)
(* local echo is on.                                                       *)
(*                                                                         *)
(* Characters are code points.  Of the screen (TsmScreen) there are its    *)
(* flags, the cursor's row, the margins and the attributes of erased       *)
(* cells.  What only prints, erases or moves within a row is left out, and *)
(* of the attributes there are bold and "a colour".                        *)
(***************************************************************************)
EXTENDS Integers, SequencesExt

CONSTANTS SizeY,    \* con->size_y
          ArgMax,   \* CSI_ARG_MAX
          OscMax,   \* OSC_MAX_LEN - 1
          Clients   \* what the server and the user may send; see Input and Key

ASSUME VteAssumption ==
    /\ {SizeY, OscMax} \subseteq Nat \ {0} /\ ArgMax \in Nat \ {0, 1}
    /\ \A c \in Clients : c.bytes \subseteq 0..255 /\ \A key \in c.keys : key.ch \in Nat

VARIABLES vte,     \* struct tsm_vte
          con,     \* struct tsm_screen, as far as it is used here
          heard,   \* characters of the sequence that is being parsed
          out,     \* what the last call has sent to the server and to osc_cb
          client

vars == <<vte, con, heard, out, client>>

ENQ == \h05
BEL == \h07
CAN == \h18
SUB == \h1A
ESC == \h1B
DEL == \h7F
SEMICOLON == \h3B
REPLACEMENT == \hFFFD   \* TSM_UCS4_REPLACEMENT
ArgLimit == \hFFFF

-----------------------------------------------------------------------------
(* tsm-unicode.c.  START, ACCEPT and REJECT treat the next byte alike; the model has *)
(* START for the three once the character has been taken.                            *)

START == [state |-> "START", ch |-> 0]

\* tsm_utf8_mach_feed
MachFeed(mach, c) ==
    LET To(state, ch) == [state |-> state, ch |-> ch]
        more == c % 64
    IN  IF mach.state = "START"
        THEN CASE c \in 0..\h7F -> To("ACCEPT", c)
               [] c \in \h80..\hBF -> START
               [] c \in \hC2..\hDF -> To("EXPECT1", (c % 32) * 64)
               [] c \in \hE0..\hEF -> To("EXPECT2", (c % 16) * 4096)
               [] c \in \hF0..\hF7 -> To("EXPECT3", (c % 8) * 262144)
               [] OTHER -> To("REJECT", 0)
        ELSE CASE c \notin \h80..\hBF -> To("REJECT", 0)
               [] c \in \h80..\hBF /\ mach.state = "EXPECT3" ->
                    To("EXPECT2", mach.ch + (more * 4096))
               [] c \in \h80..\hBF /\ mach.state = "EXPECT2" ->
                    To("EXPECT1", mach.ch + (more * 64))
               [] OTHER -> To("ACCEPT", mach.ch + more)

Taken(mach) == mach.state \in {"ACCEPT", "REJECT"}

\* tsm_utf8_mach_get
MachGet(mach) == IF mach.state = "ACCEPT" THEN mach.ch ELSE REPLACEMENT

\* tsm_ucs4_to_utf8
Encoded(g) ==
    CASE g \in \hD800..\hDFFF \/ g > \h10FFFF -> <<>>
      [] g % 65536 \in {\hFFFE, \hFFFF} \/ g \in \hFDD0..\hFDEF -> <<>>
      [] OTHER ->
            LET Six(unit) == \h80 + ((g \div unit) % 64)   \* a continuation byte
            IN  IF g < 128 THEN <<g>>
                ELSE IF g < 2048 THEN <<\hC0 + (g \div 64), Six(1)>>
                ELSE IF g < 65536 THEN <<\hE0 + (g \div 4096), Six(64), Six(1)>>
                ELSE <<\hF0 + (g \div 262144), Six(4096), Six(64), Six(1)>>

-----------------------------------------------------------------------------
(* parse_data: the next state and the action for a character. *)

Control == (0..\h1F) \ {CAN, SUB, ESC}
Intermediate == \h20..\h2F
Parameter == (\h30..\h39) \cup {\h3B}
Private == \h3C..\h3F
Final == \h40..\h7E

\* Characters that are handled the same in every state.
Anywhere == {CAN, SUB, ESC} \cup (\h80..\h9F)

AnywhereRule(ch) ==
    CASE ch = ESC -> <<"ESC", "NONE">>
      [] ch \in {\h98, \h9E, \h9F} -> <<"ST_IGNORE", "NONE">>
      [] ch = \h90 -> <<"DCS_ENTRY", "NONE">>
      [] ch = \h9D -> <<"OSC_STRING", "NONE">>
      [] ch = \h9B -> <<"CSI_ENTRY", "NONE">>
      [] OTHER -> <<"GROUND", "EXECUTE">>

EscRule(ch) ==
    CASE ch \in Control -> <<"NONE", "EXECUTE">>
      [] ch = DEL -> <<"NONE", "IGNORE">>
      [] ch = \h5B -> <<"CSI_ENTRY", "NONE">>
      [] ch = \h5D -> <<"OSC_STRING", "NONE">>
      [] ch = \h50 -> <<"DCS_ENTRY", "NONE">>
      [] ch \in {\h58, \h5E, \h5F} -> <<"ST_IGNORE", "NONE">>
      [] ch \in (\h30..\h7E) \ {\h50, \h58, \h5B, \h5D, \h5E, \h5F} ->
            <<"GROUND", "ESC_DISPATCH">>
      [] OTHER -> <<"ESC_INT", "COLLECT">>

EscIntRule(ch) ==
    CASE ch \in Control -> <<"NONE", "EXECUTE">>
      [] ch = DEL -> <<"NONE", "IGNORE">>
      [] ch \in \h30..\h7E -> <<"GROUND", "ESC_DISPATCH">>
      [] OTHER -> <<"NONE", "COLLECT">>

\* CSI and DCS sequences differ in what they do with controls and at the end.
Csi == [ENTRY |-> "CSI_ENTRY", PARAM |-> "CSI_PARAM", INT |-> "CSI_INT",
        IGNORE |-> "CSI_IGNORE"]
Dcs == [ENTRY |-> "DCS_ENTRY", PARAM |-> "DCS_PARAM", INT |-> "DCS_INT",
        IGNORE |-> "DCS_IGNORE"]

HeadRule(kind, state, ch) ==
    LET Stay(s) == IF s = state THEN "NONE" ELSE s
    IN  CASE ch \in Control ->
                <<"NONE", IF kind = Csi THEN "EXECUTE" ELSE "IGNORE">>
          [] ch = DEL -> <<"NONE", "IGNORE">>
          [] ch \in Intermediate -> <<Stay(kind.INT), "COLLECT">>
          [] ch \in Parameter /\ state # kind.INT -> <<Stay(kind.PARAM), "PARAM">>
          [] ch \in Private /\ state = kind.ENTRY -> <<kind.PARAM, "COLLECT">>
          [] ch \in Final -> IF kind = Csi THEN <<"GROUND", "CSI_DISPATCH">>
                             ELSE <<"DCS_PASS", "NONE">>
          [] ch > DEL /\ kind = Dcs -> <<"DCS_PASS", "NONE">>
          [] OTHER -> <<kind.IGNORE, "NONE">>

CsiIgnoreRule(ch) ==
    CASE ch \in Control -> <<"NONE", "EXECUTE">>
      [] ch \in Final -> <<"GROUND", "NONE">>
      [] OTHER -> <<"NONE", "IGNORE">>

OscRule(ch) ==
    CASE ch = BEL -> <<"GROUND", "NONE">>
      [] ch \in Control \ {BEL} -> <<"NONE", "IGNORE">>
      [] OTHER -> <<"NONE", "OSC_COLLECT">>

Rule(state, ch) ==
    IF ch \in Anywhere THEN AnywhereRule(ch)
    ELSE CASE state = "GROUND" ->
                <<"NONE", IF ch \in Control THEN "EXECUTE" ELSE "PRINT">>
           [] state = "ESC" -> EscRule(ch)
           [] state = "ESC_INT" -> EscIntRule(ch)
           [] state \in {"CSI_ENTRY", "CSI_PARAM", "CSI_INT"} -> HeadRule(Csi, state, ch)
           [] state = "CSI_IGNORE" -> CsiIgnoreRule(ch)
           [] state \in {"DCS_ENTRY", "DCS_PARAM", "DCS_INT"} -> HeadRule(Dcs, state, ch)
           [] state = "OSC_STRING" -> OscRule(ch)
           [] OTHER -> <<"NONE", "IGNORE">>   \* DCS_PASS, DCS_IGNORE and ST_IGNORE

-----------------------------------------------------------------------------
(* The screen. *)

Lesser(a, b) == IF a < b THEN a ELSE b
AtLeast1(n) == IF n <= 0 THEN 1 ELSE n

\* tsm_screen_move_to
MovedTo(c, y) ==
    LET rel == "REL_ORIGIN" \in c.flags
    IN  [c EXCEPT !.y = Lesser(IF rel THEN c.margin_top + y ELSE y,
                               IF rel THEN c.margin_bottom ELSE SizeY - 1)]

\* tsm_screen_move_down and tsm_screen_move_up
MovedDown(c, num) ==
    [c EXCEPT !.y = Lesser(c.y + num, IF c.y <= c.margin_bottom THEN c.margin_bottom
                                      ELSE SizeY - 1)]

MovedUp(c, num) ==
    LET top == IF c.y >= c.margin_top THEN c.margin_top ELSE 0
    IN  [c EXCEPT !.y = IF c.y - num > top THEN c.y - num ELSE top]

\* tsm_screen_set_margins
WithMargins(c, top, bottom) ==
    LET first == AtLeast1(top)
        all == bottom <= first \/ bottom > SizeY
    IN  [c EXCEPT !.margin_top = IF all THEN 0 ELSE first - 1,
                  !.margin_bottom = IF all THEN SizeY - 1 ELSE bottom - 1]

\* tsm_screen_reset
ScreenReset(c) == [c EXCEPT !.flags = {}, !.margin_top = 0, !.margin_bottom = SizeY - 1]

-----------------------------------------------------------------------------
(* The emulation, its screen, what was heard and what goes out, as one value. *)

Terminal == [vte |-> vte, con |-> con, heard |-> heard, out |-> <<>>]

NONE == "NONE"

DefaultModes == {"TEXT_CURSOR", "AUTO_REPEAT", "SEND_RECEIVE", "AUTO_WRAP",
                 "BACKGROUND_COLOR_ERASE"}
DefaultSets == [g0 |-> "unicode_lower", g1 |-> "unicode_upper",
                g2 |-> "unicode_lower", g3 |-> "unicode_upper"]

\* reset_state
DefaultSaved == [y |-> 0, cattr |-> {}, gl |-> "g0", gr |-> "g1",
                 wrap |-> TRUE, origin |-> FALSE]

\* The mutant: a single shift that is pending stays.
ResetButShift(t) ==
    [t EXCEPT
        !.vte = [@ EXCEPT !.flags = DefaultModes, !.mach = START, !.state = "GROUND",
                          !.gl = "g0", !.gr = "g1", !.sets = DefaultSets,
                          !.cattr = {}, !.saved = DefaultSaved],
        !.con = [ScreenReset(@) EXCEPT !.flags = {"AUTO_WRAP"}, !.def_attr = {}]]

\* tsm_vte_reset
Reset(t) ==
    [t EXCEPT
        !.vte = [@ EXCEPT !.flags = DefaultModes, !.mach = START, !.state = "GROUND",
                          !.gl = "g0", !.gr = "g1", !.glt = NONE, !.sets = DefaultSets,
                          !.cattr = {}, !.saved = DefaultSaved],
        !.con = [ScreenReset(@) EXCEPT !.flags = {"AUTO_WRAP"}, !.def_attr = {}]]

\* tsm_vte_hard_reset
HardReset(t) ==
    LET r == Reset(t) IN [r EXCEPT !.con = MovedTo(@, 0)]

\* tsm_vte_new: all zero, then reset.
Created ==
    Reset([vte |-> [state |-> NONE, argc |-> 0, argv |-> [i \in 0..(ArgMax - 1) |-> 0],
                    marks |-> {}, osc |-> <<>>, mach |-> START, flags |-> {},
                    gl |-> NONE, gr |-> NONE, glt |-> NONE, sets |-> DefaultSets,
                    cattr |-> {}, saved |-> DefaultSaved, alt_y |-> 0],
           con |-> [flags |-> {}, y |-> 0, margin_top |-> 0, margin_bottom |-> 0,
                    def_attr |-> {}],
           heard |-> <<>>, out |-> <<>>])

\* vte_write while a byte is being parsed: no echo.
Answered(t) ==
    [t EXCEPT !.out = Append(@, [to |-> "server", from |-> "answer", bytes |-> <<>>,
                                 esc |-> "PREPEND_ESCAPE" \in t.vte.flags]),
              !.vte.flags = @ \ {"PREPEND_ESCAPE"}]

\* Each mode of the emulation that is also a flag of the screen.
Mirror == [INSERT_REPLACE |-> "INSERT_MODE", INVERSE_SCREEN |-> "INVERSE",
           ORIGIN |-> "REL_ORIGIN", AUTO_WRAP |-> "AUTO_WRAP"]

With(set, flag, on) == IF on THEN set \cup {flag} ELSE set \ {flag}

\* set_reset_flag, and tsm_screen_set_flags or tsm_screen_reset_flags.
WithMode(t, mode, on) ==
    [t EXCEPT !.vte.flags = With(@, mode, on),
              !.con.flags = IF mode \in DOMAIN Mirror THEN With(@, Mirror[mode], on)
                            ELSE IF mode = "TEXT_CURSOR" THEN With(@, "HIDE_CURSOR", ~on)
                            ELSE @]

\* save_state
Saved(t) ==
    [t EXCEPT !.vte.saved = [y |-> t.con.y, cattr |-> t.vte.cattr,
                             gl |-> t.vte.gl, gr |-> t.vte.gr,
                             wrap |-> "AUTO_WRAP" \in t.vte.flags,
                             origin |-> "ORIGIN" \in t.vte.flags]]

\* tsm_screen_set_def_attr, while BACKGROUND_COLOR_ERASE is on
Coloured(t, attr) ==
    [t EXCEPT !.vte.cattr = attr,
              !.con.def_attr = IF "BACKGROUND_COLOR_ERASE" \in t.vte.flags THEN attr ELSE @]

\* The mutant: the screen is not told.
RestoredAlone(t) ==
    LET s == t.vte.saved
        c == Coloured([t EXCEPT !.con = MovedTo(@, s.y)], s.cattr)
        m == [c EXCEPT !.vte.flags = With(With(@, "AUTO_WRAP", s.wrap), "ORIGIN", s.origin)]
    IN  [m EXCEPT !.vte.gl = s.gl, !.vte.gr = s.gr]

\* restore_state: the cursor moves under the origin mode that is still on.
Restored(t) ==
    LET s == t.vte.saved
        c == Coloured([t EXCEPT !.con = MovedTo(@, s.y)], s.cattr)
        m == WithMode(WithMode(c, "AUTO_WRAP", s.wrap), "ORIGIN", s.origin)
    IN  [m EXCEPT !.vte.gl = s.gl, !.vte.gr = s.gr]

-----------------------------------------------------------------------------
(* What a sequence does when it is complete. *)

\* do_execute
Executed(t, ch) ==
    CASE ch \in {ENQ, \h9A} -> Answered(t)
      [] ch \in {\h0A, \h0B, \h0C, \h84, \h85} -> [t EXCEPT !.con = MovedDown(@, 1)]
      [] ch = \h8D -> [t EXCEPT !.con = MovedUp(@, 1)]
      [] ch = \h0E -> [t EXCEPT !.vte.gl = "g1"]
      [] ch = \h0F -> [t EXCEPT !.vte.gl = "g0"]
      [] ch = \h8E -> [t EXCEPT !.vte.glt = "g2"]
      [] ch = \h8F -> [t EXCEPT !.vte.glt = "g3"]
      [] OTHER -> t

\* The character sets of do_esc.
CharacterSet(ch) ==
    CASE ch = \h42 -> "unicode_lower"
      [] ch = \h3C -> "dec_supplemental"
      [] ch = \h30 -> "dec_special"
      [] ch \in {\h34, \h35, \h36, \h37, \h3D, \h41, \h43, \h45, \h48, \h4B,
                \h51, \h52, \h59, \h5A} -> "unicode_upper"
      [] OTHER -> NONE

\* do_collect: the characters that set a bit of csi_flags.
Marks == {\h20, \h21, \h22, \h24, \h27, \h28, \h29, \h2A, \h2B, \h3E, \h3F}

\* set_charset: which of G0 to G3.
Designated(marks) ==
    CASE \h28 \in marks -> "g0"
      [] \h28 \notin marks /\ \h29 \in marks -> "g1"
      [] marks \cap {\h28, \h29} = {} /\ \h2A \in marks -> "g2"
      [] marks \cap {\h28, \h29, \h2A} = {} /\ \h2B \in marks -> "g3"
      [] OTHER -> NONE

\* do_esc
EscDispatched(t, ch) ==
    LET marks == t.vte.marks
    IN  IF CharacterSet(ch) # NONE /\ Designated(marks) # NONE
        THEN [t EXCEPT !.vte.sets[Designated(marks)] = CharacterSet(ch)]
        ELSE IF ch \in {\h46, \h47} /\ \h20 \in marks
        THEN WithMode(t, "USE_C1", ch = \h47)
        ELSE IF marks # {} THEN t
        ELSE CASE ch \in {\h44, \h45} -> [t EXCEPT !.con = MovedDown(@, 1)]
               [] ch = \h4D -> [t EXCEPT !.con = MovedUp(@, 1)]
               [] ch = \h4E -> [t EXCEPT !.vte.glt = "g2"]
               [] ch = \h4F -> [t EXCEPT !.vte.glt = "g3"]
               [] ch = \h5A -> Answered(t)
               [] ch = \h7E -> [t EXCEPT !.vte.gr = "g1"]
               [] ch = \h6E -> [t EXCEPT !.vte.gl = "g2"]
               [] ch = \h7D -> [t EXCEPT !.vte.gr = "g2"]
               [] ch = \h6F -> [t EXCEPT !.vte.gl = "g3"]
               [] ch = \h7C -> [t EXCEPT !.vte.gr = "g3"]
               [] ch \in {\h3D, \h3E} -> WithMode(t, "KEYPAD_APPLICATION", ch = \h3D)
               [] ch = \h63 -> HardReset(t)
               [] ch = \h37 -> Saved(t)
               [] ch = \h38 -> Restored(t)
               [] OTHER -> t

-----------------------------------------------------------------------------
(* do_csi. *)

PlainMode(n) ==
    CASE n = 2 -> "KEYBOARD_ACTION" [] n = 4 -> "INSERT_REPLACE" [] n = 12 -> "SEND_RECEIVE"
      [] n = 20 -> "LINE_FEED_NEW_LINE" [] OTHER -> NONE
DecMode(n) ==
    CASE n = 1 -> "CURSOR_KEY" [] n = 5 -> "INVERSE_SCREEN" [] n = 6 -> "ORIGIN"
      [] n = 7 -> "AUTO_WRAP" [] n = 8 -> "AUTO_REPEAT" [] n = 25 -> "TEXT_CURSOR"
      [] n = 42 -> "NATIONAL_CHARSET" [] OTHER -> NONE

\* Modes 47, 1047, 1048 and 1049: the alternate screen and its cursor.
AlternateMode(t, n, set) ==
    LET kept == IF n \in {1048, 1049} /\ set THEN [t EXCEPT !.vte.alt_y = t.con.y] ELSE t
        there == IF n = 1048 THEN kept
                 ELSE [kept EXCEPT !.con.flags = With(@, "ALTERNATE", set)]
    IN  IF n \in {1048, 1049} /\ ~set
        THEN [there EXCEPT !.con = MovedTo(@, t.vte.alt_y)] ELSE there

\* csi_mode.  TITE_INHIBIT is never on.
ModeSet(t, set) ==
    LET One(r, n) ==
            LET dec == \h3F \in t.vte.marks
                mode == IF dec THEN DecMode(n) ELSE PlainMode(n)
            IN  IF mode # NONE THEN WithMode(r, mode, set)
                ELSE IF dec /\ n \in {47, 1047, 1048, 1049} THEN AlternateMode(r, n, set)
                ELSE r
        upto[k \in 0..t.vte.argc] ==
            IF k = 0 THEN t ELSE One(upto[k - 1], t.vte.argv[k - 1])
    IN  upto[t.vte.argc]

\* csi_attribute: `next` skips the parameters of a colour.
AttributesSet(t) ==
    LET v == t.vte
        none == v.argc <= 1 /\ v.argv[0] = -1
        Arg(i) == IF none THEN 0 ELSE v.argv[i]
        Length(i) == IF i + 1 >= ArgMax THEN 0   \* reads past csi_argv, to no effect
                     ELSE CASE Arg(i + 1) = 5 -> 3 [] Arg(i + 1) = 2 -> 5 [] OTHER -> 0
        Complete(i) == Length(i) # 0 /\ i + Length(i) <= v.argc
                       /\ \A k \in 2..(Length(i) - 1) : Arg(i + k) >= 0
        One(r, i) ==
            LET Now(attr) == [r EXCEPT !.attr = attr]
            IN  CASE i < r.next -> r
                  [] i >= r.next /\ Arg(i) = 0 -> Now({})
                  [] i >= r.next /\ Arg(i) = 1 -> Now(r.attr \cup {"bold"})
                  [] i >= r.next /\ Arg(i) = 22 -> Now(r.attr \ {"bold"})
                  [] i >= r.next /\ Arg(i) \in 30..37 -> Now(r.attr \cup {"colour"})
                  [] i >= r.next /\ Arg(i) = 39 -> Now(r.attr \ {"colour"})
                  [] i >= r.next /\ Arg(i) = 38 /\ Complete(i) ->
                        [attr |-> r.attr \cup {"colour"}, next |-> i + Length(i)]
                  [] OTHER -> r
        upto[k \in 0..v.argc] ==
            IF k = 0 THEN [attr |-> v.cattr, next |-> 0] ELSE One(upto[k - 1], k - 1)
    IN  Coloured(t, upto[v.argc].attr)

\* csi_compat_mode
CompatibilitySet(t) ==
    LET r == Reset(t)
        level == t.vte.argv[0]
        modes == CASE level = 61 -> {"7BIT"}
                   [] level \in 62..64 ->
                        {"8BIT"} \cup IF t.vte.argv[1] \in {1, 2} THEN {"USE_C1"} ELSE {}
                   [] OTHER -> {}
    IN  IF modes = {} THEN r
        ELSE [r EXCEPT !.vte.flags = @ \cup modes, !.vte.sets.g1 = "dec_supplemental"]

CsiDispatched(u, ch) ==
    LET t == [u EXCEPT !.vte.argc = Lesser(@ + 1, ArgMax)]
        Arg(i) == t.vte.argv[i]
        num == AtLeast1(Arg(0))
        marks == t.vte.marks
    IN  CASE ch = \h41 -> [t EXCEPT !.con = MovedUp(@, num)]
          [] ch = \h42 -> [t EXCEPT !.con = MovedDown(@, num)]
          [] ch \in {\h64, \h48, \h66} -> [t EXCEPT !.con = MovedTo(@, num - 1)]
          [] ch = \h65 -> [t EXCEPT !.con = MovedTo(@, @.y + num)]
          [] ch = \h47 -> [t EXCEPT !.con = MovedTo(@, @.y)]
          [] ch = \h6D -> AttributesSet(t)
          [] ch = \h70 -> IF marks \cap {\h3E, \h21, \h24} # {} THEN Reset(t)
                          ELSE CompatibilitySet(t)
          [] ch \in {\h68, \h6C} -> ModeSet(t, ch = \h68)
          [] ch = \h72 -> [t EXCEPT !.con = WithMargins(@, Arg(0), Arg(1))]
          [] ch = \h63 -> IF t.vte.argc = 1 /\ Arg(0) <= 0 /\ (marks = {} \/ \h3E \in marks)
                          THEN Answered(t) ELSE t
          [] ch = \h6E -> IF Arg(0) \in {5, 6} THEN Answered(t) ELSE t
          [] OTHER -> t

-----------------------------------------------------------------------------
(* do_action and do_trans. *)

\* do_clear
Cleared(t) ==
    [t EXCEPT !.vte = [@ EXCEPT !.argc = 0, !.argv = [i \in 0..(ArgMax - 1) |-> -1],
                                !.marks = {}, !.osc = <<>>]]

\* do_param
Numbered(t, ch) ==
    LET k == t.vte.argc
        old == t.vte.argv[k]
        digit == ch - \h30
    IN  IF ch = SEMICOLON THEN [t EXCEPT !.vte.argc = Lesser(@ + 1, ArgMax)]
        ELSE IF k >= ArgMax \/ (k < ArgMax /\ old > ArgLimit) THEN t
        ELSE [t EXCEPT !.vte.argv[k] = IF old <= 0 THEN digit ELSE (old * 10) + digit]

\* The mutant: the limit is one byte too far.
FitsTerminator(osc, bytes) == Len(osc) + Len(bytes) <= OscMax + 1
Fits(osc, bytes) == Len(osc) + Len(bytes) <= OscMax

\* The mutant: a character that does not fit is cut.
OscCut(t, ch) ==
    LET all == t.vte.osc \o Encoded(ch)
    IN  [t EXCEPT !.vte.osc = SubSeq(all, 1, Lesser(OscMax, Len(all)))]

\* do_osc_collect
OscCollected(t, ch) ==
    IF Fits(t.vte.osc, Encoded(ch)) THEN [t EXCEPT !.vte.osc = @ \o Encoded(ch)] ELSE t

\* do_osc_end
OscEnded(t) == [t EXCEPT !.out = Append(@, [to |-> "osc_cb", bytes |-> t.vte.osc])]

\* ACTION_PRINT: vte_map takes the single shift; `wraps` says that the last column is
\* full and the cursor goes on to the next row.
Printed(t, ch, wraps) ==
    LET m == IF ch \in 33..126 THEN [t EXCEPT !.vte.glt = NONE] ELSE t
    IN  IF wraps /\ "AUTO_WRAP" \in t.con.flags THEN [m EXCEPT !.con = MovedDown(@, 1)]
        ELSE m

\* do_action.  `heard` has the characters the sequence consists of.
Acted(t, ch, action, wraps) ==
    LET h == [t EXCEPT !.heard = Append(@, ch)]
    IN  CASE action = "PRINT" -> Printed(t, ch, wraps)
          [] action = "EXECUTE" -> IF ch = SUB THEN Printed(t, \hBF, wraps)
                                   ELSE Executed(t, ch)
          [] action = "CLEAR" -> Cleared([t EXCEPT !.heard = <<>>])
          [] action = "COLLECT" -> [h EXCEPT !.vte.marks = @ \cup ({ch} \cap Marks)]
          [] action = "PARAM" -> Numbered(h, ch)
          [] action = "ESC_DISPATCH" -> EscDispatched(t, ch)
          [] action = "CSI_DISPATCH" -> CsiDispatched(t, ch)
          [] action = "OSC_COLLECT" -> OscCollected(h, ch)
          [] action = "OSC_END" -> OscEnded(t)
          [] OTHER -> t   \* NONE, IGNORE and those of a DCS

\* The mutant: CSI_ENTRY relies on ESC.
EntryOfEsc(state) == IF state \in {"ESC", "DCS_ENTRY", "OSC_STRING"} THEN "CLEAR" ELSE "NONE"

\* entry_action and exit_action; OSC_START is do_clear, too.
EntryAction(state) ==
    IF state \in {"ESC", "CSI_ENTRY", "DCS_ENTRY", "OSC_STRING"} THEN "CLEAR" ELSE "NONE"
ExitAction(state) == IF state = "OSC_STRING" THEN "OSC_END" ELSE "NONE"

\* parse_data and do_trans
Parsed(t, ch, wraps) ==
    LET rule == Rule(t.vte.state, ch)
        out_ == Acted(t, ch, ExitAction(t.vte.state), wraps)
        done == Acted(out_, ch, rule[2], wraps)
        in_ == Acted(done, ch, EntryAction(rule[1]), wraps)
    IN  IF rule[1] = "NONE" THEN Acted(t, ch, rule[2], wraps)
        ELSE [in_ EXCEPT !.vte.state = rule[1],
                         !.heard = IF rule[1] = "GROUND" THEN <<>> ELSE @]

\* tsm_vte_input, of one byte.
Fed(t, byte, wraps) ==
    LET mach == MachFeed(t.vte.mach, byte)
        m == [t EXCEPT !.vte.mach = IF Taken(mach) THEN START ELSE mach]
    IN  IF "7BIT" \in t.vte.flags THEN Parsed(t, byte % 128, wraps)
        ELSE IF "8BIT" \in t.vte.flags THEN Parsed(t, byte, wraps)
        ELSE IF Taken(mach) THEN Parsed(m, MachGet(mach), wraps)
        ELSE m

\* What `op` makes of t and of one value after the other.
Chain(op(_, _), t, values) ==
    LET upto[k \in 0..Len(values)] == IF k = 0 THEN t ELSE op(upto[k - 1], values[k])
    IN  upto[Len(values)]

\* tsm_vte_input, of several bytes that do not wrap.
FedAll(t, bytes) == Chain(LAMBDA u, byte : Fed(u, byte, FALSE), t, bytes)

-----------------------------------------------------------------------------
(* tsm_vte_handle_keyboard_amiga. *)

\* What a key means; <<>> when the keymap has nothing for it.
KeyBytes(v, key) ==
    CASE key.kind = "ctrl_e" -> <<ENQ>>
      [] key.kind = "up" -> IF "CURSOR_KEY" \in v.flags THEN <<ESC, \h4F, \h41>>
                            ELSE <<ESC, \h5B, \h41>>
      [] key.kind = "enter" /\ "KEYPAD_APPLICATION" \in v.flags -> <<ESC, \h4F, \h4D>>
      [] key.kind = "return" \/ (key.kind = "enter" /\ "KEYPAD_APPLICATION" \notin v.flags) ->
            IF "LINE_FEED_NEW_LINE" \in v.flags THEN <<\h0D, \h0A>> ELSE <<\h0D>>
      [] key.kind = "char" /\ "7BIT" \in v.flags ->
            IF (key.ch \div 128) % 2 = 1 THEN <<\h3F>> ELSE <<key.ch % 256>>
      [] key.kind = "char" /\ "8BIT" \in v.flags \ {"7BIT"} ->
            IF key.ch > 255 THEN <<\h3F>> ELSE <<key.ch>>
      [] key.kind = "char" /\ v.flags \cap {"7BIT", "8BIT"} = {} -> Encoded(key.ch)
      [] OTHER -> <<>>

\* vte_write of a key: local echo, then the bytes.
Sent(t, bytes) ==
    LET echo == (IF "PREPEND_ESCAPE" \in t.vte.flags THEN <<ESC>> ELSE <<>>) \o bytes
        e == IF "SEND_RECEIVE" \in t.vte.flags THEN t ELSE FedAll(t, echo)
    IN  [e EXCEPT !.out = Append(@, [to |-> "server", from |-> "key", bytes |-> bytes,
                                     esc |-> "PREPEND_ESCAPE" \in e.vte.flags]),
                  !.vte.flags = @ \ {"PREPEND_ESCAPE"}]

\* The mutant: Alt is left on by a key that means nothing.
PressedOnly(t, alt, key) ==
    LET a == IF alt THEN [t EXCEPT !.vte.flags = @ \cup {"PREPEND_ESCAPE"}] ELSE t
    IN  IF key.kind = "none" THEN a ELSE Sent(a, KeyBytes(a.vte, key))

Pressed(t, alt, key) ==
    LET a == IF alt THEN [t EXCEPT !.vte.flags = @ \cup {"PREPEND_ESCAPE"}] ELSE t
    IN  IF key.kind = "none" THEN [a EXCEPT !.vte.flags = @ \ {"PREPEND_ESCAPE"}]
        ELSE Sent(a, KeyBytes(a.vte, key))

-----------------------------------------------------------------------------
(* The calls. *)

Becomes(t) ==
    /\ t.heard \in client.heard
    /\ vte' = t.vte /\ con' = t.con /\ heard' = t.heard /\ out' = t.out
    /\ UNCHANGED client

\* client.bytes and client.heard bound what the server sends: its bytes, and what a
\* sequence consists of before its last character.
Input == \E byte \in client.bytes :
    \E wraps \in IF vte.state = "GROUND" \/ byte = SUB THEN BOOLEAN ELSE {FALSE} :
        Becomes(Fed(Terminal, byte, wraps))

KeyPress(alt, key) == Becomes(Pressed(Terminal, alt, key))
Key == \E alt \in BOOLEAN, key \in client.keys : KeyPress(alt, key)

Init ==
    /\ client \in Clients
    /\ vte = Created.vte /\ con = Created.con /\ heard = <<>> /\ out = <<>>

Next == Input \/ Key

Spec == Init /\ [][Next]_vars

-----------------------------------------------------------------------------
(* The properties. *)

\* Arguments and strings stay within their arrays, numbers within an int, the cursor
\* on the screen; the escape of an Alt key never outlives the key.
TypeOK ==
    /\ vte.argc \in 0..ArgMax
    /\ vte.argv \in [0..(ArgMax - 1) -> (-1)..((ArgLimit * 10) + 9)]
    /\ Len(vte.osc) <= OscMax
    /\ con.y \in 0..(SizeY - 1) /\ con.margin_bottom \in con.margin_top..(SizeY - 1)
    /\ "PREPEND_ESCAPE" \notin vte.flags
    /\ vte.mach.state \in {"START", "EXPECT1", "EXPECT2", "EXPECT3"}

\* Of the characters h heard since the CSI: how many separators there are before the i-th
\* one, and the k-th number, as a terminal's manual has it.  -1 is a number without digits,
\* and digits that follow one beyond the limit do not count.
Separators(h, i) == Cardinality({j \in 1..(i - 1) : h[j] = SEMICOLON})
NumberHeard(h, k) ==
    LET IsDigit(i) == h[i] \in \h30..\h39 /\ Separators(h, i) = k
        Decimal(n, d) == IF n > ArgLimit THEN n ELSE IF n < 0 THEN d ELSE (n * 10) + d
        upto[i \in 0..Len(h)] ==
            IF i = 0 THEN -1
            ELSE IF IsDigit(i) THEN Decimal(upto[i - 1], h[i] - \h30) ELSE upto[i - 1]
    IN  upto[Len(h)]

\* The arguments of a control sequence are those it was sent with: none is left from
\* another sequence, whatever that was, and controls in between change none.
ArgumentsAreHeard ==
    vte.state \in {"CSI_ENTRY", "CSI_PARAM", "CSI_INT"} =>
        /\ vte.argc = Lesser(Separators(heard, Len(heard) + 1), ArgMax)
        /\ \A k \in 0..(ArgMax - 1) : vte.argv[k] = NumberHeard(heard, k)
        /\ vte.marks = Range(heard) \cap Marks

\* The characters of h but for those at the places in `lost`, and h in UTF-8.
Without(h, lost) ==
    LET upto[i \in 0..Len(h)] ==
            IF i = 0 THEN <<>> ELSE IF i \in lost THEN upto[i - 1] ELSE Append(upto[i - 1], h[i])
    IN  upto[Len(h)]
InUtf8(h) ==
    LET upto[i \in 0..Len(h)] == IF i = 0 THEN <<>> ELSE upto[i - 1] \o Encoded(h[i])
    IN  upto[Len(h)]

\* The characters that convert_from_utf8 of src/term-gc.c finds in a string.
Decoded(bytes) ==
    LET One(r, byte) ==
            LET mach == MachFeed(r.mach, byte)
            IN  IF Taken(mach) THEN [mach |-> START, text |-> Append(r.text, MachGet(mach))]
                ELSE [mach |-> mach, text |-> r.text]
        upto[i \in 0..Len(bytes)] ==
            IF i = 0 THEN [mach |-> START, text |-> <<>>] ELSE One(upto[i - 1], bytes[i])
    IN  upto[Len(bytes)]

\* A string is what was heard, or as much of it as there is room for, in whole
\* characters.
OscIsHeard ==
    vte.state = "OSC_STRING" =>
        LET decoded == Decoded(vte.osc)
        IN  IF Len(InUtf8(heard)) <= OscMax THEN vte.osc = InUtf8(heard)
            ELSE /\ decoded.mach = START
                 /\ \E lost \in SUBSET DOMAIN heard : decoded.text = Without(heard, lost)
                 /\ Len(vte.osc) > OscMax - 4

\* What the emulation believes the screen's modes and colours to be, they are.
ModesAgree ==
    /\ \A mode \in DOMAIN Mirror :
            (mode \in vte.flags) = (Mirror[mode] \in con.flags)
    /\ ("TEXT_CURSOR" \in vte.flags) = ("HIDE_CURSOR" \notin con.flags)
    /\ con.def_attr = vte.cattr

\* "Everything is reset to the same state as when the VTE was created", but for the
\* cursor that modes 1048 and 1049 keep: ESC c does, whatever has been sent so far, in
\* the middle of whichever sequence or character.
Recovers ==
    LET t == FedAll(Terminal, <<ESC, ESC, \h63>>)
    IN  /\ t.con = Created.con
        /\ t.vte = [Created.vte EXCEPT !.alt_y = vte.alt_y, !.argc = t.vte.argc,
                                       !.argv = t.vte.argv]

\* With local echo off a key reaches the server whole, after an escape when Alt is held,
\* and nothing else does; what the emulation answers is never escaped.
KeysArriveWhole ==
    [][/\ \A alt \in BOOLEAN, key \in client.keys :
            KeyPress(alt, key) /\ "SEND_RECEIVE" \in vte.flags =>
                out' = IF key.kind = "none" THEN <<>>
                       ELSE <<[to |-> "server", from |-> "key",
                               bytes |-> KeyBytes(vte, key), esc |-> alt]>>
       /\ Input => \A i \in DOMAIN out' : out'[i].to = "server" => ~out'[i].esc]_vars

=============================================================================
