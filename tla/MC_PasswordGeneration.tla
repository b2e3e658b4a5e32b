----------------------- MODULE MC_PasswordGeneration -----------------------
(***************************************************************************)
(* PasswordGeneration for TLC: one character per class, and length 5      *)
(* for the code's 24.  The exit test depends only on which classes occur, *)
(* and at any length of 3 or more some draws pass and some fail, each     *)
(* missing any one or two classes.                                         *)
(***************************************************************************)
EXTENDS PasswordGeneration
=============================================================================
