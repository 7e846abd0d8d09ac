---------------------------- MODULE LeaveTimers ----------------------------
(***************************************************************************)
(* What LegacyLeave and GovernmentJobs share: the staff for whom leave is  *)
(* credited by the calendar, and the day it is.                            *)
(***************************************************************************)
EXTENDS Changes

CONSTANTS
    Employees,      \* hr_employees.id
    Fortnight       \* length of a payroll period (14 in the code)

VARIABLE today
=============================================================================
