--------------------------- MODULE MCLeavePayroll ---------------------------
(***************************************************************************)
(* Instance of LeavePayroll for TLC: two days, the second in another       *)
(* service year than the first, and registers for each and for both.       *)
(***************************************************************************)
EXTENDS LeavePayroll, TLC

CONSTANTS y1, y2

MCOpening == [e \in Entitlements |-> 1]
MCAmounts == {-1, 1}
MCYearOf == [d \in Days |-> IF d = LastDay THEN y2 ELSE y1]
MCPeriods == {Days, {LastDay}}

Symmetry == Permutations(Requests) \cup Permutations(Keys) \cup Permutations(Batches)
            \cup Permutations(Exchanges)
=============================================================================
