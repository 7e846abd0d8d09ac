--------------------------- MODULE MCPublicHealth ---------------------------
(***************************************************************************)
(* An instance of PublicHealth for TLC: tabs and periods are               *)
(* interchangeable, and so are participants.  The periods have dates of    *)
(* their own: of periods with one date, fewer batches can stand.           *)
(***************************************************************************)
EXTENDS PublicHealth, TLC

MCPaidOn == [d \in Periods |-> d]
Symmetry == Permutations(Tabs) \cup Permutations(Periods) \cup Permutations(Participants)
=============================================================================
