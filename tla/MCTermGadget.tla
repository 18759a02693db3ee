--------------------------- MODULE MCTermGadget ---------------------------
\* A window of one row, which never scrolls in part, and one of four, which does so
\* in both directions; a scrollback of none or two lines.  The counter of
\* ages starts again after four steps, and every order of six calls is tried.
EXTENDS TermGadget

===========================================================================
