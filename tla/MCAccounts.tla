----------------------------- MODULE MCAccounts -----------------------------
(***************************************************************************)
(* Instances of Accounts for TLC: the .cfg files give the constants.       *)
(* Links, and accounts that do not exist at the start, are interchangeable.*)
(***************************************************************************)
EXTENDS Accounts, TLC

CONSTANTS m1

MCFirstAddress == [a \in FirstAdmins |-> m1]
Symmetry == Permutations(Ids \ FirstAdmins) \cup Permutations(Tokens) \cup Permutations(Handlers)
            \cup Permutations(Employees)
=============================================================================
