-------------------------- MODULE MCTsmScrollback --------------------------
\* Two rows and a scrollback of none, one or three lines: a line in the middle of
\* the list, views on any of them, two lines taken back at once, and one address
\* more for line_new.
EXTENDS TsmScrollback

=============================================================================
