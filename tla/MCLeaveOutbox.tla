--------------------------- MODULE MCLeaveOutbox ---------------------------
(***************************************************************************)
(* Instances of LeaveOutbox for TLC: the .cfg file gives the constants.    *)
(* No symmetry: handlers and notices take part in temporal properties.     *)
(***************************************************************************)
EXTENDS LeaveOutbox, TLC
=============================================================================
