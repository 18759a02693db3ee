---------------------------- MODULE MCMainLoop ----------------------------
(* TLC's instances of MainLoop differ in what the user and the server do;   *)
(* each .cfg says which.                                                     *)
EXTENDS MainLoop
=============================================================================
