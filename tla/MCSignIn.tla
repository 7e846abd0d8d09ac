------------------------------ MODULE MCSignIn ------------------------------
(***************************************************************************)
(* Instances of SignIn for TLC: the .cfg files give the constants.  No     *)
(* symmetry: liveness is checked in the same run.                          *)
(***************************************************************************)
EXTENDS SignIn, TLC
=============================================================================
