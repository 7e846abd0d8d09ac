------------------------------ MODULE Changes ------------------------------
(***************************************************************************)
(* What people do to the system, apart from what it does by itself: there  *)
(* is a bound on it, so it ends while the program's own work goes on.      *)
(***************************************************************************)
EXTENDS Integers

CONSTANTS
    None,
    MaxChanges      \* bound on requests that change something

VARIABLE changes

Change == changes < MaxChanges /\ changes' = changes + 1
=============================================================================
