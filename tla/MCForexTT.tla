----------------------------- MODULE MCForexTT -----------------------------
(***************************************************************************)
(* Instances of ForexTT for TLC: the .cfg files give the constants.        *)
(* Accounts with the same role, and handlers, are interchangeable.         *)
(*                                                                         *)
(* Claims and attachments hardly meet, and together they are too much to   *)
(* explore: a behaviour either has every account and no attachments, or    *)
(* attachments, the submitter and one reviewer, one form and fewer changes.*)
(***************************************************************************)
EXTENDS ForexTT, TLC

CONSTANTS Submitter, FileForm, FileVersions

WithFiles ==
    \/ \E h \in Handlers : op[h].kind \in {"upload", "remove"}
    \/ \E r \in Requests, c \in Categories : lastUpload[r][c] > 0

\* Whoever acted last on a request or is acting on it is the submitter or the reviewer.
Small(reviewer) ==
    /\ \A h \in Handlers :
        /\ op[h] # Idle => op[h].actor \in {Submitter, reviewer}
        /\ op[h].kind = "edit" => op[h].form = FileForm
    /\ \A r \in Requests : row[r].status # "absent" =>
        /\ {row[r].owner, row[r].claimedBy, movedBy[r]} \subseteq {Submitter, reviewer, None}
        /\ row[r].version <= FileVersions /\ row[r].form = FileForm

Scenario == WithFiles => \E u \in Reviewers : Small(u)
OneScenario == Scenario'

Symmetry == Permutations(Reviewers) \cup Permutations(Handlers)
=============================================================================
