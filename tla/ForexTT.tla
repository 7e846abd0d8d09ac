------------------------------ MODULE ForexTT ------------------------------
(***************************************************************************)
(* Forex telegraphic-transfer requests: routes/forexTT.js over the tables  *)
(* forex_tt_requests, forex_tt_reviews and forex_tt_attachments.           *)
(*                                                                         *)
(* A handler is one HTTP request being served.  The handlers that change a *)
(* request come in two kinds, and the difference is what this module is    *)
(* about:                                                                  *)
(*   - PATCH /status and POST /attachments read the row with FOR UPDATE    *)
(*     inside a transaction and commit what they decided;                  *)
(*   - POST /submit, PATCH /, DELETE / and DELETE /attachments/:id read    *)
(*     the row, check it, and later write by id without looking again.     *)
(* Each is two steps here, the read with its checks and the write.  A      *)
(* refused call changes nothing and is not a step.                         *)
(*                                                                         *)
(* A definition named ...Faulty is a plausible bug in the one it stands    *)
(* before: nothing uses it, it is there to show that a property notices.   *)
(***************************************************************************)
EXTENDS Integers, FiniteSets

CONSTANTS
    Users,          \* accounts (rows of reviewers)
    Reviewers,      \* accounts with the review_forex_tt permission
    Admins,         \* accounts whose role is admin
    Requests,       \* ids of requests that may come to exist
    Handlers,       \* HTTP requests that may be in progress at once
    Forms,          \* the form_data a client may send
    Categories,     \* attachment categories
    None,           \* SQL NULL, and "not sent" in a request body
    MaxVersion,     \* bound on a request's version counter
    MaxUploads,     \* bound on uploads to one category of a request
    MaxFiles        \* bound on the files of one upload

ASSUME RolesAssumption   == Reviewers \subseteq Users /\ Admins \subseteq Users
ASSUME NoneAssumption    == None \notin Users \cup Forms
ASSUME BoundsAssumption  == MaxVersion \in Nat /\ MaxUploads \in Nat /\ MaxFiles \in Nat

VARIABLES
    row,            \* forex_tt_requests, by id
    lastEvent,      \* the newest row of forex_tt_reviews of each request
    files,          \* forex_tt_attachments of each request
    op,             \* what each handler is in the middle of
    movedBy,        \* history: who made the last status change
    lastUpload      \* history: how many uploads a category has had

vars == <<row, lastEvent, files, op, movedBy, lastUpload>>

-----------------------------------------------------------------------------
Statuses == {"draft", "submitted", "claimed", "processing", "needs_changes",
             "approved", "cancelled"}
Editable == {"draft", "needs_changes"}
Reviewing == {"claimed", "processing", "approved"}

UserOrNone == Users \cup {None}

Row == [status: Statuses \cup {"absent"}, version: Nat, form: Forms \cup {None},
        owner: UserOrNone, claimedBy: UserOrNone, deleted: BOOLEAN]

Absent == [status |-> "absent", version |-> 0, form |-> None,
           owner |-> None, claimedBy |-> None, deleted |-> FALSE]

Event == [actor: UserOrNone, status: Statuses \cup {"absent"}]

FileId == [category: Categories, upload: Nat, n: Nat]
File == [id: FileId, current: BOOLEAN]

Idle == [kind |-> "idle"]
Op == {Idle}
      \cup [kind: {"submit", "record", "delete"}, actor: Users, req: Requests]
      \cup [kind: {"edit"}, actor: Users, req: Requests, form: Forms \cup {None},
            checked: BOOLEAN, seen: Nat]
      \cup [kind: {"status"}, actor: Users, req: Requests, target: Statuses]
      \cup [kind: {"upload"}, actor: Users, req: Requests, category: Categories,
            count: Nat]
      \cup [kind: {"remove"}, actor: Users, req: Requests, file: FileId]

StatusTransitions ==
    [draft         |-> {"submitted", "cancelled"},
     submitted     |-> {"claimed", "cancelled"},
     claimed       |-> {"processing", "needs_changes", "approved", "cancelled"},
     processing    |-> {"needs_changes", "approved", "cancelled"},
     needs_changes |-> {"submitted", "cancelled"},
     approved      |-> {},
     cancelled     |-> {}]

CanTransitionFaulty(current, target, u) ==
    target \in StatusTransitions[current] \/ u \in Admins

CanTransition(current, target, u) ==
    \/ target \in StatusTransitions[current]
    \/ u \in Admins /\ target # "approved"

CanReview(u) == u \in Reviewers \cup Admins

\* loadRequest: the row exists, is not deleted, and the caller may see it.
Loadable(r, u) ==
    /\ row[r].status \in Statuses
    /\ ~row[r].deleted
    /\ u = row[r].owner \/ CanReview(u)

\* The columns each UPDATE sets.
Moved(x, status, claim) ==
    [x EXCEPT !.status = status, !.version = x.version + 1, !.claimedBy = claim]
Edited(x, form) ==
    [x EXCEPT !.form = IF form = None THEN x.form ELSE form, !.version = x.version + 1]
Deleted(x) == [x EXCEPT !.deleted = TRUE]

\* FOR UPDATE and every UPDATE wait for the transaction that holds the row.
LockedFaulty(r) == FALSE

Locked(r) == \E h \in Handlers : op[h].kind \in {"status", "upload"} /\ op[h].req = r

Begin(h, o) == op[h] = Idle /\ op' = [op EXCEPT ![h] = o]
End(h) == op' = [op EXCEPT ![h] = Idle]

Init ==
    /\ row = [r \in Requests |-> Absent]
    /\ lastEvent = [r \in Requests |-> [actor |-> None, status |-> "absent"]]
    /\ files = [r \in Requests |-> {}]
    /\ op = [h \in Handlers |-> Idle]
    /\ movedBy = [r \in Requests |-> None]
    /\ lastUpload = [r \in Requests |-> [c \in Categories |-> 0]]

-----------------------------------------------------------------------------
\* POST /: one INSERT; the version column defaults to 1.
DraftFaulty(u, f) == [status |-> "draft", form |-> f, owner |-> u,
                      version |-> None, claimedBy |-> None, deleted |-> FALSE]

Draft(u, f) == [status |-> "draft", form |-> f, owner |-> u,
                version |-> 1, claimedBy |-> None, deleted |-> FALSE]

Create(r, u, f) ==
    /\ row[r].status = "absent"
    /\ row' = [row EXCEPT ![r] = Draft(u, f)]
    /\ UNCHANGED <<lastEvent, files, op, movedBy, lastUpload>>

\* POST /:requestId/submit: unlocked read and checks, UPDATE by id, then the
\* history entry in a statement of its own.
ReadForSubmit(h, r, u) ==
    /\ Loadable(r, u)
    /\ row[r].owner = u
    /\ row[r].status \in Editable
    /\ Begin(h, [kind |-> "submit", actor |-> u, req |-> r])
    /\ UNCHANGED <<row, lastEvent, files, movedBy, lastUpload>>

WriteSubmit(h) ==
    /\ op[h].kind = "submit"
    /\ LET r == op[h].req IN
       /\ ~Locked(r)
       /\ row[r].version < MaxVersion
       /\ row' = [row EXCEPT ![r] = Moved(row[r], "submitted", None)]
       /\ movedBy' = [movedBy EXCEPT ![r] = op[h].actor]
    /\ op' = [op EXCEPT ![h] = [kind |-> "record", actor |-> op[h].actor, req |-> op[h].req]]
    /\ UNCHANGED <<lastEvent, files, lastUpload>>

RecordSubmit(h) ==
    /\ op[h].kind = "record"
    /\ lastEvent' = [lastEvent EXCEPT ![op[h].req] =
                        [actor |-> op[h].actor, status |-> "submitted"]]
    /\ End(h)
    /\ UNCHANGED <<row, files, movedBy, lastUpload>>

\* PATCH /:requestId: the version the client sends, if any, is compared with
\* the row that was read, not with the row that is written.
ReadForEdit(h, r, u, f, checked) ==
    /\ Loadable(r, u)
    /\ row[r].owner = u
    /\ row[r].status \in Editable
    /\ Begin(h, [kind |-> "edit", actor |-> u, req |-> r, form |-> f,
                 checked |-> checked, seen |-> row[r].version])
    /\ UNCHANGED <<row, lastEvent, files, movedBy, lastUpload>>

WriteEdit(h) ==
    /\ op[h].kind = "edit"
    /\ LET r == op[h].req IN
       /\ ~Locked(r)
       /\ row[r].version < MaxVersion
       /\ row' = [row EXCEPT ![r] = Edited(row[r], op[h].form)]
    /\ End(h)
    /\ UNCHANGED <<lastEvent, files, movedBy, lastUpload>>

\* DELETE /:requestId: sets deleted_at.
ReadForDelete(h, r, u) ==
    /\ Loadable(r, u)
    /\ row[r].owner = u
    /\ row[r].status = "draft"
    /\ Begin(h, [kind |-> "delete", actor |-> u, req |-> r])
    /\ UNCHANGED <<row, lastEvent, files, movedBy, lastUpload>>

WriteDelete(h) ==
    /\ op[h].kind = "delete"
    /\ ~Locked(op[h].req)
    /\ row' = [row EXCEPT ![op[h].req] = Deleted(row[op[h].req])]
    /\ End(h)
    /\ UNCHANGED <<lastEvent, files, movedBy, lastUpload>>

\* PATCH /:requestId/status: who may ask for a status, and what becomes of the
\* claim with it.
MayAskFaulty(r, u, target) ==
    /\ target = "submitted" => row[r].owner = u
    /\ target \in Reviewing => CanReview(u)

MayAsk(r, u, target) ==
    /\ target = "submitted" => row[r].owner = u
    /\ target \in Reviewing => CanReview(u) /\ row[r].owner # u

ClaimAfterFaulty(r, u, target) ==
    CASE target = "claimed" -> u
      [] target = "submitted" -> None
      [] OTHER -> row[r].claimedBy

ClaimAfter(r, u, target) ==
    CASE target = "claimed" -> u
      [] target \in {"submitted", "needs_changes"} -> None
      [] OTHER -> row[r].claimedBy

\* The checks are made on the locked row ...
LockForStatus(h, r, u, target) ==
    /\ ~Locked(r)
    /\ Loadable(r, u)
    /\ MayAsk(r, u, target)
    /\ CanTransition(row[r].status, target, u)
    /\ Begin(h, [kind |-> "status", actor |-> u, req |-> r, target |-> target])
    /\ UNCHANGED <<row, lastEvent, files, movedBy, lastUpload>>

\* ... and the change and its history entry commit together.
CommitStatus(h) ==
    /\ op[h].kind = "status"
    /\ LET r == op[h].req
           target == op[h].target
       IN  /\ row[r].version < MaxVersion
           /\ row' = [row EXCEPT ![r] = Moved(row[r], target, ClaimAfter(r, op[h].actor, target))]
           /\ lastEvent' = [lastEvent EXCEPT ![r] = [actor |-> op[h].actor, status |-> target]]
           /\ movedBy' = [movedBy EXCEPT ![r] = op[h].actor]
    /\ End(h)
    /\ UNCHANGED <<files, lastUpload>>

\* POST /:requestId/attachments: on the locked row, supersede the category's
\* files once and store every file of this upload.
LockForUpload(h, r, u, c, count) ==
    /\ ~Locked(r)
    /\ Loadable(r, u)
    /\ row[r].owner = u
    /\ row[r].status \in Editable
    /\ lastUpload[r][c] < MaxUploads
    /\ Begin(h, [kind |-> "upload", actor |-> u, req |-> r, category |-> c, count |-> count])
    /\ UNCHANGED <<row, lastEvent, files, movedBy, lastUpload>>

Superseded(fs, c) ==
    {IF f.id.category = c THEN [f EXCEPT !.current = FALSE] ELSE f : f \in fs}

StoredFaulty(c, upload, count) ==
    {[id |-> [category |-> c, upload |-> upload, n |-> n], current |-> n = count] : n \in 1..count}

Stored(c, upload, count) ==
    {[id |-> [category |-> c, upload |-> upload, n |-> n], current |-> TRUE] : n \in 1..count}

CommitUpload(h) ==
    /\ op[h].kind = "upload"
    /\ LET r == op[h].req
           c == op[h].category
           upload == lastUpload[r][c] + 1
       IN  /\ files' = [files EXCEPT ![r] =
                           Superseded(files[r], c) \cup Stored(c, upload, op[h].count)]
           /\ lastUpload' = [lastUpload EXCEPT ![r][c] = upload]
    /\ End(h)
    /\ UNCHANGED <<row, lastEvent, movedBy>>

\* DELETE /:requestId/attachments/:attachmentId.
ReadForRemove(h, r, u, f) ==
    /\ Loadable(r, u)
    /\ row[r].owner = u
    /\ row[r].status \in Editable
    /\ Begin(h, [kind |-> "remove", actor |-> u, req |-> r, file |-> f.id])
    /\ UNCHANGED <<row, lastEvent, files, movedBy, lastUpload>>

WriteRemove(h) ==
    /\ op[h].kind = "remove"
    /\ files' = [files EXCEPT ![op[h].req] = {f \in @ : f.id # op[h].file}]
    /\ End(h)
    /\ UNCHANGED <<row, lastEvent, movedBy, lastUpload>>

\* A statement fails, the client or the process goes away: an open transaction
\* rolls back, and what an unlocked handler had left to do is not done.
Abandon(h) ==
    /\ op[h] # Idle
    /\ End(h)
    /\ UNCHANGED <<row, lastEvent, files, movedBy, lastUpload>>

-----------------------------------------------------------------------------
Next ==
    \/ \E r \in Requests, u \in Users, f \in Forms : Create(r, u, f)
    \/ \E h \in Handlers, r \in Requests, u \in Users :
          \/ ReadForSubmit(h, r, u)
          \/ \E f \in Forms \cup {None}, checked \in BOOLEAN : ReadForEdit(h, r, u, f, checked)
          \/ ReadForDelete(h, r, u)
          \/ \E target \in Statuses : LockForStatus(h, r, u, target)
          \/ \E c \in Categories, count \in 0..MaxFiles : LockForUpload(h, r, u, c, count)
          \/ \E f \in files[r] : ReadForRemove(h, r, u, f)
    \/ \E h \in Handlers :
          \/ WriteSubmit(h) \/ RecordSubmit(h) \/ WriteEdit(h) \/ WriteDelete(h)
          \/ CommitStatus(h) \/ CommitUpload(h) \/ WriteRemove(h)
          \/ Abandon(h)

Spec == Init /\ [][Next]_vars

-----------------------------------------------------------------------------
(* Properties *)

\* Every table, handler and history variable holds what its column may hold.
TypeOK ==
    /\ row \in [Requests -> Row]
    /\ lastEvent \in [Requests -> Event]
    /\ files \in [Requests -> SUBSET File]
    /\ op \in [Handlers -> Op]
    /\ movedBy \in [Requests -> UserOrNone]
    /\ lastUpload \in [Requests -> [Categories -> Nat]]

\* A request being reviewed, or approved, was put there by an account that may
\* review and is not its submitter, whatever unlocked handlers of the submitter
\* were in progress meanwhile.
ReviewedByAnother ==
    \A r \in Requests : row[r].status \in Reviewing =>
        CanReview(movedBy[r]) /\ movedBy[r] # row[r].owner

\* The comment at routes/forexTT.js:57, "whoever holds it decides from the
\* request as it now stands": no two transactions hold one row, and until a
\* status transaction commits every check it passed would pass again.
DecidesOnCurrentRow ==
    /\ \A h, k \in Handlers :
          /\ {op[h].kind, op[k].kind} \subseteq {"status", "upload"}
          /\ op[h].req = op[k].req
          => h = k
    /\ \A h \in Handlers : op[h].kind = "status" =>
          /\ Loadable(op[h].req, op[h].actor)
          /\ MayAsk(op[h].req, op[h].actor, op[h].target)
          /\ CanTransition(row[op[h].req].status, op[h].target, op[h].actor)

\* A claimed request names the reviewer who holds it, a request waiting for a
\* reviewer or for its submitter names none, and nobody holds their own.
ClaimConsistent ==
    \A r \in Requests :
        /\ row[r].status = "claimed" => CanReview(row[r].claimedBy)
        /\ row[r].status \in {"submitted", "needs_changes"} => row[r].claimedBy = None
        /\ row[r].status # "absent" => row[r].claimedBy # row[r].owner

\* Two reviewers never both win one claim: a held claim changes hands only when
\* an admin takes it over.
ClaimNotStolen ==
    [][\A r \in Requests :
        row[r].status = "claimed" /\ row'[r].status = "claimed"
            /\ row'[r].claimedBy # row[r].claimedBy
          => movedBy'[r] \in Admins]_vars

\* The status moves along the transition table as it stands when it moves.  The
\* only other moves are an admin's, and the unlocked submit of the owner.
StatusFollowsTable ==
    [][\A r \in Requests :
        row[r].status \in Statuses /\ row'[r].status # row[r].status
          => \/ row'[r].status \in StatusTransitions[row[r].status]
             \/ movedBy'[r] \in Admins /\ row'[r].status # "approved"
             \/ row'[r].status = "submitted" /\ movedBy'[r] = row[r].owner]_vars

\* The current files of a category are exactly those left of its last upload:
\* an upload supersedes every earlier file and none of its own.
CurrentIsLatestUpload ==
    \A r \in Requests : \A f \in files[r] :
        f.current <=> f.id.upload = lastUpload[r][f.id.category]

\* No file is added to a request, and none is restored or superseded, once it
\* has left the submitter's hands: files can only disappear from it then.
NoUploadUnderReview ==
    [][\A r \in Requests : row[r].status \notin Editable => files'[r] \subseteq files[r]]_vars

\* The detailed handlers implement the approval gate: see ApprovalGate.
PhaseOf(s) == CASE s \in {"claimed", "processing"} -> "review"
                [] s = "approved" -> "approved"
                [] OTHER -> "open"

Gate == INSTANCE ApprovalGate WITH
            phase <- [r \in Requests |-> PhaseOf(row[r].status)],
            owner <- [r \in Requests |-> row[r].owner],
            by <- movedBy

ImplementsGate == Gate!GateSpec

(* What the code and its tests say, and the unlocked handlers do not keep *)

\* routes/forexTT.js:251, "Request was modified by another user. Please
\* refresh.": an edit that carried a version lands on that version.
CheckedEditSeesLatest ==
    [][\A h \in Handlers :
        op[h].kind = "edit" /\ op[h].checked /\ op'[h] = Idle /\ row' # row
          => row[op[h].req].version = op[h].seen]_vars

\* routes/forexTT.js:247, "Only drafts or requests needing changes can be edited."
FormFrozenUnderReview ==
    [][\A r \in Requests :
        row[r].status \in Statuses /\ row'[r].form # row[r].form
          => row[r].status \in Editable]_vars

\* routes/forexTT.integration.test.js:61, "a status change is not kept when its
\* history entry cannot be written": with no entry left to write, the newest one
\* says where the request stands.
HistoryMatchesStatus ==
    \A r \in Requests :
        row[r].status \in {"absent", "draft", lastEvent[r].status}
            \/ \E h \in Handlers : op[h].kind = "record" /\ op[h].req = r
=============================================================================
