-------------------------- MODULE MCLeaveWorkflow --------------------------
(***************************************************************************)
(* Instance of LeaveWorkflow for TLC: the .cfg file gives the constants.   *)
(* Event keys and handlers are interchangeable.                            *)
(***************************************************************************)
EXTENDS LeaveWorkflow, TLC

CONSTANT y1

MCOpening == [e \in Entitlements |-> 1]
MCAmounts == {-1, 1}
MCYearOf == [d \in Days |-> y1]

Symmetry == Permutations(Keys) \cup Permutations(Handlers)
=============================================================================
