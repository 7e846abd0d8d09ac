----------------------------- MODULE BatchFiles -----------------------------
(***************************************************************************)
(* The files of the batches of BatchWorkflow are files of AbaFile: built   *)
(* of some draft when a batch is submitted, and amended when its value     *)
(* date is changed.  BatchWorkflow names a file by the batch it came with  *)
(* and its date, 0 until it is changed.                                    *)
(***************************************************************************)
EXTENDS BatchWorkflow, AbaFile

DateChanged(x) == x.file.date # 0

\* lib/abaFile.js:4, "the bytes stored here are what the bank pays": whatever draft the file of a
\* live or archived batch was built of, it pays what the draft says and reviewers are shown, its
\* payees are blocked by the server if the browser blocks them, and a change of its date leaves
\* its payments and gives the file that building it again would give.
StoredFilesKeepPayments ==
    \A x \in Combined :
        /\ BuiltIsPaid /\ SidesBlockAlike
        /\ DateChanged(x) => AmendedIsPaid /\ AmendingRebuilds
=============================================================================
