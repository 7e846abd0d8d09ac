-------------------------- MODULE MCBatchWorkflow --------------------------
(***************************************************************************)
(* Instances of BatchWorkflow for TLC: the .cfg files give the constants.  *)
(* Batch ids, PD numbers and handlers are interchangeable, as are accounts *)
(* with the same role.                                                     *)
(*                                                                         *)
(* A behaviour either decides and amends one batch of either type, by its  *)
(* submitter, a reviewer and an admin on one day, or has one account       *)
(* submit departmental batches whose codes are used again, over all days.  *)
(* The files of batches are those of AbaFile, whose instance comes along.  *)
(***************************************************************************)
EXTENDS BatchFiles, MCAbaFile, TLC

CONSTANT Clerk

ReviewOfOne == Cardinality(born) <= 1 /\ today = 1
CodesOfMany ==
    /\ \A b \in DOMAIN live :
        live[b].owner = Clerk /\ live[b].type = "aba" /\ live[b].file.date = 0
    /\ \A h \in Handlers :
        /\ op[h].kind \in {"number", "insert"} => op[h].form.owner = Clerk /\ op[h].form.type = "aba"
        /\ op[h].kind \in {"stage", "amend"} => op[h].actor = Clerk
        /\ op[h].kind = "amend" => op[h].file.date = 0
    /\ \A b \in Batches : \A x \in reviews[b] : x.by = Clerk

Scenario == ReviewOfOne \/ CodesOfMany
OneScenario == Scenario'

Symmetry == Permutations(Batches) \cup Permutations(PDs) \cup Permutations(Handlers)
            \cup Permutations(Reviewers)
=============================================================================
