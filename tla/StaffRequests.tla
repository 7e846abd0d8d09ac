--------------------------- MODULE StaffRequests ---------------------------
(***************************************************************************)
(* What Accounts and StaffRecords share: the employees, and requests that  *)
(* read in one statement and write in a later one.                         *)
(***************************************************************************)
EXTENDS Changes

CONSTANTS
    Employees,      \* hr_employees.id
    Handlers        \* requests that may be in progress at once

VARIABLE
    op              \* what each request in progress remembers and is about to do

-----------------------------------------------------------------------------
Idle == [kind |-> "idle"]
Go(h, state) == op' = [op EXCEPT ![h] = state]
Done(h) == Go(h, Idle)
=============================================================================
