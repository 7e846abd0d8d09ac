--------------------------- MODULE MCStaffRecords ---------------------------
(***************************************************************************)
(* An instance of StaffRecords for TLC: two employees, a file that changes *)
(* the second's manager to somebody it adds, who reports to the first, and *)
(* two handlers.                                                           *)
(***************************************************************************)
EXTENDS StaffRecords, TLC

CONSTANTS ana, ben, cy, dee, p1, p2, p3, b1

MCName == (ana :> "a") @@ (ben :> "b")
MCId == (ana :> p1) @@ (ben :> p2)
MCSheet == b1 :> (1 :> [payroll |-> p3, name |-> "c", manager |-> p1]
                  @@ 2 :> [payroll |-> p2, name |-> "b", manager |-> p3])

Symmetry == Permutations(Handlers) \cup Permutations(Employees \ {ana, ben})
=============================================================================
