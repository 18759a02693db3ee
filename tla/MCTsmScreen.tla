---------------------------- MODULE MCTsmScreen ----------------------------
(* TLC's clients of TsmScreen.  Each is there for one part of the screen, with  *)
(* bounds under which the cases of that part happen.                           *)
EXTENDS TsmScreen

\* Resizes, the alternate screen and lack of memory: up to 2 by 2, so that every
\* step grows, shrinks or keeps each dimension.
Resizer ==
    [new_x |-> 1, new_y |-> 1, widths |-> {1, 2}, heights |-> {1, 2},
     sb_maxes |-> {0, 2}, counts |-> {1}, flags |-> {"ALTERNATE"},
     calls |-> {"text", "mode", "resize", "clear"},
     memory_fails |-> TRUE, max_sel_y |-> 0]

\* Margins, modes and every edit: a region can leave a row above or below it.
Editor ==
    [new_x |-> 2, new_y |-> 3, widths |-> {2}, heights |-> {2, 3},
     sb_maxes |-> {0}, counts |-> {1, 2},
     flags |-> {"ALTERNATE", "AUTO_WRAP", "REL_ORIGIN", "INSERT_MODE"},
     calls |-> {"text", "move", "scroll", "lines", "chars", "margins", "mode",
                "resize"},
     memory_fails |-> FALSE, max_sel_y |-> 0]

\* The view of the scrollback while lines come and go.
Reader ==
    [new_x |-> 1, new_y |-> 1, widths |-> {1}, heights |-> {1, 2, 3},
     sb_maxes |-> {0, 1, 3}, counts |-> {1, 2}, flags |-> {"FIXED_POS"},
     calls |-> {"scroll", "mode", "resize", "clear", "view"},
     memory_fails |-> TRUE, max_sel_y |-> 0]

\* A selection, while the screen scrolls and lines are evicted.
Selector ==
    [new_x |-> 1, new_y |-> 2, widths |-> {1}, heights |-> {2},
     sb_maxes |-> {0, 1, 3}, counts |-> {1, 2}, flags |-> {"FIXED_POS"},
     calls |-> {"scroll", "clear", "view", "select", "mode"},
     memory_fails |-> FALSE, max_sel_y |-> 3]

ScreenClients == {Resizer, Editor, Reader, Selector}

\* The client of the run that looks for a violation.
WideClients == {[Resizer EXCEPT !.sb_maxes = {1}, !.flags = {},
                                !.calls = {"text", "resize"},
                                !.memory_fails = FALSE]}
=============================================================================
