--------------------------- MODULE MCTsmSelection ---------------------------
(***************************************************************************)
(* Instances of TsmSelection: a screen of three columns, the first two of  *)
(* which hold a word.                                                      *)
(***************************************************************************)
EXTENDS TsmSelection

MCLetters == {0, 1}

=============================================================================
