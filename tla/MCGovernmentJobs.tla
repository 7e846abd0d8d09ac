-------------------------- MODULE MCGovernmentJobs --------------------------
(***************************************************************************)
(* Instances of GovernmentJobs for TLC: the .cfg files give the constants. *)
(***************************************************************************)
EXTENDS GovernmentJobs, TLC

CONSTANTS p1, p2, p3, q1

MCDailyRate == (p1 :> 1) @@ (p2 :> 2) @@ (p3 :> 1)
MCCreditCap == (p1 :> 4) @@ (p2 :> 3) @@ (p3 :> 4)
MCAnnual == (p1 :> 1) @@ (p2 :> 2) @@ (p3 :> 1)
MCCorrections == {-1}
MCReady == {<<1, "medical">>, <<1, "recreation">>, <<2, "recreation">>} \cap (Employees \X Codes)
MCLeave == (q1 :> [employee |-> 1, code |-> "medical", day |-> 1])
=============================================================================
