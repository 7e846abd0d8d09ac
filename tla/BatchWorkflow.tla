--------------------------- MODULE BatchWorkflow ---------------------------
(***************************************************************************)
(* ABA payment batches: routes/batches.js over batch_archives,             *)
(* batch_reviews and batch_archives_history, with the archive script       *)
(* scripts/archive-old-batches.js running beside the API.                  *)
(*                                                                         *)
(* A handler is one HTTP request.  Only PATCH /stage works on a locked row *)
(* in a transaction.  A submission looks for a PD conflict, then for the   *)
(* next code, then inserts, then records its review entry, each statement  *)
(* on its own; a value-date change reads the row, amends the file and      *)
(* writes it back by code.  The archive copies old rows with one statement *)
(* and deletes them by id with the next.  A refused call is not a step.    *)
(*                                                                         *)
(* A department's codes of one day are numbered apart from all others, so  *)
(* one department is modelled.  The ABA file is its payments, named by the *)
(* batch they were submitted with, and its value date; its fields, the     *)
(* blacklist and the match of file and transactions are AbaFile's.  The    *)
(* audit log, which these calls only add to, is left out.                  *)
(***************************************************************************)
EXTENDS Integers, FiniteSets

CONSTANTS
    Users, Reviewers, Admins,   \* accounts; those with role reviewer, with role admin
    Batches,        \* batch ids (random UUIDs) that may be handed out
    Types,          \* workflow types in use, of "aba" and "public_health"
    PDs,            \* PD numbers, by their digits
    Handlers,       \* HTTP requests that may be in progress at once
    None,           \* no root_batch_id sent
    MaxAttempts,    \* codes a submission tries (5 in the code)
    PadLimit,       \* largest number of two digits (99 in the code)
    Base,           \* radix of the codes' numbers (10 in the code)
    MaxDay,         \* bound on the days that pass
    MaxDate         \* bound on the value dates in use

ASSUME RolesAssumption == Reviewers \cup Admins \subseteq Users
ASSUME TypesAssumption == Types \subseteq {"aba", "public_health"}
ASSUME NoneAssumption == None \notin Batches
ASSUME BoundsAssumption ==
    /\ MaxAttempts \in Nat \ {0}
    /\ Base \in Nat \ {0, 1}
    /\ PadLimit \in Nat /\ MaxDay \in Nat \ {0} /\ MaxDate \in Nat

VARIABLES
    live,           \* batch_archives, by batch_id
    hist,           \* batch_archives_history, by batch_id
    reviews,        \* batch_reviews of each batch id
    op,             \* what each handler is in the middle of
    archive,        \* the archive transaction's uncommitted copies, or none
    today,          \* the day new codes are dated
    born,           \* history: batch ids handed out
    inserted        \* history: batches inserted today

vars == <<live, hist, reviews, op, archive, today, born, inserted>>

-----------------------------------------------------------------------------
Stages == {"submitted", "approved", "rejected"}
CanReview(u) == u \in Reviewers \cup Admins

Code == [day: Nat, seq: Nat]
File == [pay: Batches, date: 0..MaxDate]
Row == [stage: Stages, code: Code, type: {"aba", "public_health"}, owner: Users,
        root: Batches, pd: PDs, file: File]

\* A table holds rows for some batch ids.
IsTable(t) == DOMAIN t \subseteq Batches /\ t \in [DOMAIN t -> Row]
Empty == [b \in {} |-> b]
Put(t, b, x) == [c \in DOMAIN t \cup {b} |-> IF c = b THEN x ELSE t[c]]
Without(t, S) == [c \in DOMAIN t \ S |-> t[c]]

\* A batch_reviews row: what was done, by whom, and the stage recorded with it.
Review == [act: {"submit", "decide", "amend"}, by: Users, stage: Stages]

Idle == [kind |-> "idle"]
Form == [owner: Users, type: {"aba", "public_health"}, pd: PDs, root: Batches \cup {None}]
Op == {Idle}
      \cup [kind: {"number"}, form: Form]
      \cup [kind: {"insert"}, form: Form, batch: Batches, seq: Nat, attempt: Nat, since: Nat]
      \cup [kind: {"stage"}, batch: Batches, actor: Users, target: {"approved", "rejected"}]
      \cup [kind: {"amend"}, batch: Batches, actor: Users, code: Code, stage: Stages, file: File]
      \cup [kind: {"review"}, batch: Batches, entry: Review]

WorkflowStageTransitions(type) ==
    IF type = "public_health"
    THEN [submitted |-> {"approved", "rejected"}, approved |-> {"rejected"},
          rejected |-> {"approved"}]
    ELSE [submitted |-> {"rejected"}, approved |-> {"rejected"}, rejected |-> {}]

\* combined_batch_archives: every row of both tables.
Combined == {live[b] : b \in DOMAIN live} \cup {hist[b] : b \in DOMAIN hist}

\* findPdConflict: a batch that holds the PD, of another root if one is named.
PdConflict(pd, root) ==
    \E x \in Combined : x.pd = pd /\ x.stage # "rejected" /\ x.root # root

\* The sequence after that of today's last code, in the order of their text:
\* numbers are padded to two digits, so three digits sort among two.
TextRank(n) == IF n <= PadLimit THEN 2 * n * Base ELSE 2 * n + 1

NextSequenceFaulty ==
    LET taken == {x.code.seq : x \in {y \in Combined : y.code.day = today}}
    IN  IF taken = {} THEN 1
        ELSE CHOOSE n \in taken : \A m \in taken : TextRank(m) <= TextRank(n)

NextSequence ==
    LET taken == {x.code.seq : x \in {y \in Combined : y.code.day = today}}
    IN  IF taken = {} THEN 1
        ELSE 1 + CHOOSE n \in taken : \A m \in taken : TextRank(m) <= TextRank(n)

\* FOR UPDATE, UPDATE and DELETE wait for the transaction that holds the row.
LockedFaulty(b) == FALSE

Locked(b) == \E h \in Handlers : op[h].kind = "stage" /\ op[h].batch = b

Begin(h, o) == op[h] = Idle /\ op' = [op EXCEPT ![h] = o]
Continue(h, o) == op' = [op EXCEPT ![h] = o]
End(h) == op' = [op EXCEPT ![h] = Idle]

Init ==
    /\ live = Empty /\ hist = Empty
    /\ reviews = [b \in Batches |-> {}]
    /\ op = [h \in Handlers |-> Idle]
    /\ archive = Empty
    /\ today = 1
    /\ born = {}
    /\ inserted = 0

-----------------------------------------------------------------------------
\* POST /batches.  The conflict check comes first, against the root of the batch
\* that is resubmitted, if the client names one ...
CheckPd(h, f) ==
    /\ f.root \in born \cup {None}
    /\ ~PdConflict(f.pd, f.root)
    /\ Begin(h, [kind |-> "number", form |-> f])
    /\ UNCHANGED <<live, hist, reviews, archive, today, born, inserted>>

\* ... then the day's last code is read and the batch id drawn ...
ReadSequence(h, b) ==
    /\ op[h].kind = "number"
    /\ b \in Batches \ born
    /\ born' = born \cup {b}
    /\ Continue(h, [kind |-> "insert", form |-> op[h].form, batch |-> b,
                    seq |-> NextSequence, attempt |-> 0, since |-> inserted])
    /\ UNCHANGED <<live, hist, reviews, archive, today, inserted>>

\* ... then the row is inserted under the first code that batch_archives, whose
\* code column is UNIQUE, does not hold.
CodeTakenFaulty(c) == FALSE

CodeTaken(c) == \E x \in DOMAIN live : live[x].code = c

SubmittedFaulty(b, f, c) ==
    [stage |-> "submitted", code |-> c, type |-> f.type, owner |-> f.owner,
     root |-> f.root, pd |-> f.pd, file |-> [pay |-> b, date |-> 0]]

Submitted(b, f, c) ==
    [stage |-> "submitted", code |-> c, type |-> f.type, owner |-> f.owner,
     root |-> IF f.root = None THEN b ELSE f.root, pd |-> f.pd,
     file |-> [pay |-> b, date |-> 0]]

InsertBatch(h) ==
    /\ op[h].kind = "insert"
    /\ LET b == op[h].batch
           c == [day |-> today, seq |-> op[h].seq]
           f == op[h].form
       IN  /\ ~CodeTaken(c)
           /\ live' = Put(live, b, Submitted(b, f, c))
           /\ Continue(h, [kind |-> "review", batch |-> b,
                           entry |-> [act |-> "submit", by |-> f.owner, stage |-> "submitted"]])
    /\ inserted' = inserted + 1
    /\ UNCHANGED <<hist, reviews, archive, today, born>>

RetryInsert(h) ==
    /\ op[h].kind = "insert"
    /\ CodeTaken([day |-> today, seq |-> op[h].seq])
    /\ op[h].attempt + 1 < MaxAttempts
    /\ Continue(h, [op[h] EXCEPT !.seq = op[h].seq + 1, !.attempt = op[h].attempt + 1])
    /\ UNCHANGED <<live, hist, reviews, archive, today, born, inserted>>

\* The review entry of a submission or of a value date: a statement of its own,
\* after the change has committed.
WriteReview(h) ==
    /\ op[h].kind = "review"
    /\ reviews' = [reviews EXCEPT ![op[h].batch] = @ \cup {op[h].entry}]
    /\ End(h)
    /\ UNCHANGED <<live, hist, archive, today, born, inserted>>

\* PATCH /batches/:code/stage: checked on the locked row, committed with its
\* review entry.
MayMoveFaulty(x, u, target) == target \in WorkflowStageTransitions(x.type)[x.stage]

MayMove(x, u, target) ==
    /\ target \in WorkflowStageTransitions(x.type)[x.stage]
    /\ target = "approved" => x.owner # u

LockForStage(h, b, u, target) ==
    /\ CanReview(u)
    /\ b \in DOMAIN live /\ ~Locked(b)
    /\ MayMove(live[b], u, target)
    /\ Begin(h, [kind |-> "stage", batch |-> b, actor |-> u, target |-> target])
    /\ UNCHANGED <<live, hist, reviews, archive, today, born, inserted>>

Restaged(x, stage) == [x EXCEPT !.stage = stage]

CommitStage(h) ==
    /\ op[h].kind = "stage"
    /\ LET b == op[h].batch
           target == op[h].target
       IN  /\ b \in DOMAIN live
           /\ live' = Put(live, b, Restaged(live[b], target))
           /\ reviews' = [reviews EXCEPT ![b] = @ \cup
                            {[act |-> "decide", by |-> op[h].actor, stage |-> target]}]
    /\ End(h)
    /\ UNCHANGED <<hist, archive, today, born, inserted>>

\* PATCH /batches/:code/value-date: the file that was read is amended, and
\* written to whatever row has the code by then.
ReadForAmend(h, b, u, date) ==
    /\ CanReview(u)
    /\ b \in DOMAIN live
    /\ live[b].stage \in {"submitted", "approved"}
    /\ Begin(h, [kind |-> "amend", batch |-> b, actor |-> u, code |-> live[b].code,
                 stage |-> live[b].stage, file |-> [live[b].file EXCEPT !.date = date]])
    /\ UNCHANGED <<live, hist, reviews, archive, today, born, inserted>>

Amended(b, o) == live[b].code = o.code

WriteAmend(h) ==
    /\ op[h].kind = "amend"
    /\ LET rows == {b \in DOMAIN live : Amended(b, op[h])}
       IN  /\ rows # {}
           /\ \A b \in rows : ~Locked(b)
           /\ live' = [b \in DOMAIN live |->
                         IF b \in rows THEN [live[b] EXCEPT !.file = op[h].file] ELSE live[b]]
    /\ Continue(h, [kind |-> "review", batch |-> op[h].batch,
                    entry |-> [act |-> "amend", by |-> op[h].actor, stage |-> op[h].stage]])
    /\ UNCHANGED <<hist, reviews, archive, today, born, inserted>>

\* DELETE /batches/:code, by an admin: one statement, on batch_archives only.
DeleteBatch(b) ==
    /\ Admins # {}
    /\ b \in DOMAIN live /\ ~Locked(b)
    /\ live' = Without(live, {b})
    /\ UNCHANGED <<hist, reviews, op, archive, today, born, inserted>>

\* A statement fails, the codes tried are all taken, no row has the code, or
\* the process goes away: what was not committed is undone, the rest not done.
Abandon(h) ==
    /\ op[h] # Idle
    /\ End(h)
    /\ UNCHANGED <<live, hist, reviews, archive, today, born, inserted>>

-----------------------------------------------------------------------------
\* The archive script: INSERT ... SELECT of the rows past retention, as they
\* are committed at that moment ...
ArchiveCopy ==
    LET old == {b \in DOMAIN live : live[b].code.day < today}
    IN  /\ archive = Empty /\ old # {}
        /\ \A b \in old, x \in DOMAIN hist : hist[x].code # live[b].code
        /\ archive' = [b \in old |-> live[b]]
        /\ UNCHANGED <<live, hist, reviews, op, today, born, inserted>>

\* ... then DELETE by id, which waits for row locks, and COMMIT.
ArchiveCommit ==
    /\ archive # Empty
    /\ \A b \in DOMAIN archive : ~Locked(b)
    /\ live' = Without(live, DOMAIN archive)
    /\ hist' = [b \in DOMAIN hist \cup DOMAIN archive |->
                  IF b \in DOMAIN archive THEN archive[b] ELSE hist[b]]
    /\ archive' = Empty
    /\ UNCHANGED <<reviews, op, today, born, inserted>>

ArchiveRollback ==
    /\ archive # Empty
    /\ archive' = Empty
    /\ UNCHANGED <<live, hist, reviews, op, today, born, inserted>>

\* Submissions and archive runs are over within the day they began; the
\* archive takes only earlier days (its default retention is twelve months).
NewDay ==
    /\ today < MaxDay
    /\ \A h \in Handlers : op[h].kind \notin {"number", "insert"}
    /\ archive = Empty
    /\ today' = today + 1
    /\ inserted' = 0
    /\ UNCHANGED <<live, hist, reviews, op, archive, born>>

-----------------------------------------------------------------------------
Next ==
    \/ \E h \in Handlers :
          \/ \E f \in Form : f.type \in Types /\ CheckPd(h, f)
          \/ \E b \in Batches : ReadSequence(h, b)
          \/ InsertBatch(h) \/ RetryInsert(h)
          \/ WriteReview(h)
          \/ \E b \in Batches, u \in Users :
                \/ \E target \in {"approved", "rejected"} : LockForStage(h, b, u, target)
                \/ \E date \in 0..MaxDate : ReadForAmend(h, b, u, date)
          \/ CommitStage(h) \/ WriteAmend(h) \/ Abandon(h)
    \/ \E b \in Batches : DeleteBatch(b)
    \/ ArchiveCopy \/ ArchiveCommit \/ ArchiveRollback
    \/ NewDay

Spec == Init /\ [][Next]_vars

-----------------------------------------------------------------------------
(* Properties *)

\* Every table, the archive's copies and every handler hold what they may hold.
TypeOK ==
    /\ IsTable(live) /\ IsTable(hist) /\ IsTable(archive)
    /\ reviews \in [Batches -> SUBSET Review]
    /\ op \in [Handlers -> Op]
    /\ today \in Nat /\ inserted \in Nat
    /\ born \subseteq Batches

\* A batch has one row and a code names one batch, over both tables together:
\* codes stay unique although nothing but batch_archives.code is UNIQUE there.
OneRowPerCode ==
    /\ DOMAIN live \cap DOMAIN hist = {}
    /\ \A b, c \in DOMAIN live : live[b].code = live[c].code => b = c
    /\ \A b, c \in DOMAIN hist : hist[b].code = hist[c].code => b = c
    /\ \A b \in DOMAIN live, c \in DOMAIN hist : live[b].code # hist[c].code

\* routes/batches.js:478, "Another reviewer must approve it": a public health
\* batch that stands approved, archived or not, was approved in its review
\* history by a reviewer who did not submit it; no departmental batch stands
\* approved at all.
ApprovedByAnother ==
    \A x \in {<<b, live[b]>> : b \in DOMAIN live} \cup {<<b, hist[b]>> : b \in DOMAIN hist} :
        x[2].stage = "approved" =>
            /\ x[2].type = "public_health"
            /\ \E e \in reviews[x[1]] : /\ e.act = "decide" /\ e.stage = "approved"
                                        /\ CanReview(e.by) /\ e.by # x[2].owner

\* routes/batches.js:443, "two reviewers acting at once cannot both move the
\* same batch": a departmental batch, whose only move is one rejection, is
\* decided once.
AbaDecidedOnce ==
    \A b \in DOMAIN live : live[b].type = "aba" =>
        Cardinality({e \in reviews[b] : e.act = "decide"}) <= 1

\* config.js:254, "rejected: []": a rejected departmental batch has no further
\* stage, so one whose rejection is on record stands rejected in whichever table
\* it is.
AbaRejectionFinal ==
    \A b \in Batches :
        \A x \in {live[c] : c \in DOMAIN live \cap {b}} \cup {hist[c] : c \in DOMAIN hist \cap {b}} :
            x.type = "aba" /\ (\E e \in reviews[b] : e.act = "decide" /\ e.stage = "rejected")
              => x.stage = "rejected"

\* While the day's numbers keep to the two digits that text orders, a submission
\* is turned away from a code only by a batch inserted since it read the day's
\* last code: the attempts it has are for races alone.
AttemptsAreRaces ==
    inserted <= PadLimit =>
        \A h \in Handlers : op[h].kind = "insert" => op[h].attempt <= inserted - op[h].since

(* What the code says, and its unlocked statements do not keep *)

\* lib/pdNumber.js:2, "A PD number may be paid once": batches that hold one PD
\* are resubmissions of each other.
PdPaidOnce ==
    \A x, y \in Combined :
        x.pd = y.pd /\ "rejected" \notin {x.stage, y.stage} => x.root = y.root

\* routes/batches.js:583, "a reviewer can change the date but never the
\* payments": a batch's file pays what the batch was submitted with.
AmendKeepsPayments ==
    /\ \A b \in DOMAIN live : live[b].file.pay = b
    /\ \A b \in DOMAIN hist : hist[b].file.pay = b
=============================================================================
