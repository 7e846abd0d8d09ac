---------------------------- MODULE MCLegacyLeave ----------------------------
(***************************************************************************)
(* Instances of LegacyLeave for TLC: recreation leave, accrued to a cap    *)
(* and forfeited each financial year, and medical leave, granted up front  *)
(* and again on the anniversary of joining.                                *)
(***************************************************************************)
EXTENDS LegacyLeave, TLC

CONSTANTS annual, medical, a1, a2, e1

MCTypes == <<annual, medical>>
MCAccruable == (annual :> TRUE) @@ (medical :> FALSE)
MCRate == (annual :> 2) @@ (medical :> 0)
MCCap == (annual :> 5) @@ (medical :> None)
MCDefault == (annual :> 0) @@ (medical :> 3)
MCResets == (annual :> "financial_year") @@ (medical :> "anniversary")
MCJoined == [e \in Employees |-> 1]
MCFiled == [a \in Apps |-> [row |-> <<e1, annual, 0>>, days |-> IF a = a1 THEN 1 ELSE 2]]
=============================================================================
