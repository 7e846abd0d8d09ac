--------------------------- MODULE ForexTTProofs ---------------------------
(***************************************************************************)
(* Theorems about ForexTT, for every set of accounts, requests and         *)
(* handlers and every value of the bounds.                                 *)
(***************************************************************************)
EXTENDS ForexTT, TLAPS

\* An operation in progress carries the fields its kind has.
LEMMA OpFields ==
    ASSUME NEW o \in Op
    PROVE  /\ o.kind \in {"submit", "record", "delete", "edit", "status", "upload", "remove"}
                => o.actor \in Users /\ o.req \in Requests
           /\ o.kind = "edit" => o.form \in Forms \cup {None}
           /\ o.kind = "status" => o.target \in Statuses
           /\ o.kind = "upload" => o.category \in Categories /\ o.count \in Nat
           /\ o.kind = "remove" => o.file \in FileId
  BY DEF Op, Idle

\* The columns an UPDATE of forex_tt_requests sets leave a row a row.
LEMMA RowUpdate ==
    ASSUME NEW x \in Row
    PROVE  /\ \A s \in Statuses, c \in UserOrNone : Moved(x, s, c) \in Row
           /\ \A f \in Forms \cup {None} : Edited(x, f) \in Row
           /\ Deleted(x) \in Row
<1>1. ASSUME NEW v \in Nat
      PROVE  /\ \A s \in Statuses, c \in UserOrNone :
                   [x EXCEPT !.status = s, !.version = v, !.claimedBy = c] \in Row
             /\ \A f \in Forms \cup {None} : [x EXCEPT !.form = f, !.version = v] \in Row
  BY DEF Row
<1>2. x.version + 1 \in Nat /\ x.form \in Forms \cup {None}
  BY DEF Row
<1>3. Deleted(x) \in Row
  BY DEF Row, Deleted
<1>4. QED
  BY <1>1, <1>2, <1>3 DEF Moved, Edited

\* Every table, handler and history variable keeps its type through every call.
THEOREM TypeCorrect == Spec => []TypeOK
<1>1. Init => TypeOK
  BY BoundsAssumption DEF Init, TypeOK, Row, Absent, UserOrNone, Event, Op
<1>2. TypeOK /\ [Next]_vars => TypeOK'
  <2> SUFFICES ASSUME TypeOK, [Next]_vars PROVE TypeOK'
    OBVIOUS
  <2>0. \A h \in Handlers : op[h] \in Op
    BY DEF TypeOK
  <2> USE BoundsAssumption
  <2>1. ASSUME NEW r \in Requests, NEW u \in Users, NEW f \in Forms, Create(r, u, f)
        PROVE  TypeOK'
    BY <2>1 DEF TypeOK, Create, Draft, Row, UserOrNone, Statuses
  <2>2. ASSUME NEW h \in Handlers, NEW o \in Op, Begin(h, o),
               UNCHANGED <<row, lastEvent, files, movedBy, lastUpload>>
        PROVE  TypeOK'
    BY <2>2 DEF TypeOK, Begin
  <2>3. ASSUME NEW h \in Handlers, End(h)
        PROVE  op' \in [Handlers -> Op]
    BY <2>3 DEF TypeOK, End, Op
  <2>4. ASSUME NEW h \in Handlers, NEW r \in Requests, NEW u \in Users
        PROVE  /\ ReadForSubmit(h, r, u) => TypeOK'
               /\ \A f \in Forms \cup {None}, checked \in BOOLEAN :
                      ReadForEdit(h, r, u, f, checked) => TypeOK'
               /\ ReadForDelete(h, r, u) => TypeOK'
               /\ \A target \in Statuses : LockForStatus(h, r, u, target) => TypeOK'
               /\ \A c \in Categories, count \in 0..MaxFiles :
                      LockForUpload(h, r, u, c, count) => TypeOK'
               /\ \A f \in files[r] : ReadForRemove(h, r, u, f) => TypeOK'
    <3>1. row[r].version \in Nat /\ \A f \in files[r] : f.id \in FileId
      BY DEF TypeOK, Row, File
    <3>2. [kind |-> "submit", actor |-> u, req |-> r] \in Op
      BY DEF Op
    <3>3. \A f \in Forms \cup {None}, checked \in BOOLEAN :
              [kind |-> "edit", actor |-> u, req |-> r, form |-> f,
               checked |-> checked, seen |-> row[r].version] \in Op
      BY <3>1 DEF Op
    <3>4. [kind |-> "delete", actor |-> u, req |-> r] \in Op
      BY DEF Op
    <3>5. \A target \in Statuses :
              [kind |-> "status", actor |-> u, req |-> r, target |-> target] \in Op
      BY DEF Op
    <3>6. \A c \in Categories, count \in 0..MaxFiles :
              [kind |-> "upload", actor |-> u, req |-> r, category |-> c, count |-> count] \in Op
      BY DEF Op
    <3>7. \A f \in files[r] :
              [kind |-> "remove", actor |-> u, req |-> r, file |-> f.id] \in Op
      BY <3>1 DEF Op
    <3>8. QED
      BY <2>2, <3>2, <3>3, <3>4, <3>5, <3>6, <3>7
      DEF ReadForSubmit, ReadForEdit, ReadForDelete, LockForStatus, LockForUpload, ReadForRemove
  <2>5. ASSUME NEW h \in Handlers, WriteSubmit(h)
        PROVE  TypeOK'
    <3>1. op[h].actor \in Users /\ op[h].req \in Requests
      BY <2>0, <2>5, OpFields DEF WriteSubmit
    <3>2. Moved(row[op[h].req], "submitted", None) \in Row
      BY <3>1, RowUpdate DEF TypeOK, Statuses, UserOrNone
    <3>3. [kind |-> "record", actor |-> op[h].actor, req |-> op[h].req] \in Op
      BY <3>1 DEF Op
    <3>4. QED
      BY <2>5, <3>1, <3>2, <3>3 DEF WriteSubmit, TypeOK, UserOrNone
  <2>6. ASSUME NEW h \in Handlers, RecordSubmit(h)
        PROVE  TypeOK'
    <3>1. op[h].actor \in Users /\ op[h].req \in Requests
      BY <2>0, <2>6, OpFields DEF RecordSubmit
    <3>2. QED
      BY <2>3, <2>6, <3>1 DEF RecordSubmit, TypeOK, Event, UserOrNone, Statuses
  <2>7. ASSUME NEW h \in Handlers, WriteEdit(h)
        PROVE  TypeOK'
    <3>1. op[h].req \in Requests /\ op[h].form \in Forms \cup {None}
      BY <2>0, <2>7, OpFields DEF WriteEdit
    <3>2. Edited(row[op[h].req], op[h].form) \in Row
      BY <3>1, RowUpdate DEF TypeOK
    <3>3. QED
      BY <2>3, <2>7, <3>1, <3>2 DEF WriteEdit, TypeOK
  <2>8. ASSUME NEW h \in Handlers, WriteDelete(h)
        PROVE  TypeOK'
    <3>1. op[h].req \in Requests
      BY <2>0, <2>8, OpFields DEF WriteDelete
    <3>2. Deleted(row[op[h].req]) \in Row
      BY <3>1, RowUpdate DEF TypeOK
    <3>3. QED
      BY <2>3, <2>8, <3>1, <3>2 DEF WriteDelete, TypeOK
  <2>9. ASSUME NEW h \in Handlers, CommitStatus(h)
        PROVE  TypeOK'
    <3>1. op[h].actor \in Users /\ op[h].req \in Requests /\ op[h].target \in Statuses
      BY <2>0, <2>9, OpFields DEF CommitStatus
    <3>2. ClaimAfter(op[h].req, op[h].actor, op[h].target) \in UserOrNone
      BY <3>1 DEF ClaimAfter, TypeOK, Row, UserOrNone
    <3>3. Moved(row[op[h].req], op[h].target,
                ClaimAfter(op[h].req, op[h].actor, op[h].target)) \in Row
      BY <3>1, <3>2, RowUpdate DEF TypeOK
    <3>4. lastEvent' \in [Requests -> Event] /\ movedBy' \in [Requests -> UserOrNone]
      BY <2>9, <3>1 DEF CommitStatus, TypeOK, Event, UserOrNone
    <3>5. QED
      BY <2>3, <2>9, <3>1, <3>3, <3>4 DEF CommitStatus, TypeOK
  <2>10. ASSUME NEW h \in Handlers, CommitUpload(h)
         PROVE  TypeOK'
    <3> DEFINE r == op[h].req
               c == op[h].category
               upload == lastUpload[r][c] + 1
    <3>1. r \in Requests /\ c \in Categories /\ op[h].count \in Nat
      BY <2>0, <2>10, OpFields DEF CommitUpload
    <3>2. upload \in Nat
      BY <3>1 DEF TypeOK
    <3>3. Superseded(files[r], c) \subseteq File
      <4>1. \A f \in files[r] : f \in File
        BY <3>1 DEF TypeOK
      <4>2. \A f \in File : [f EXCEPT !.current = FALSE] \in File
        BY DEF File
      <4>3. QED
        BY <4>1, <4>2 DEF Superseded
    <3>4. Stored(c, upload, op[h].count) \subseteq File
      <4>1. \A n \in 1..op[h].count : [category |-> c, upload |-> upload, n |-> n] \in FileId
        BY <3>1, <3>2 DEF FileId
      <4>2. \A i \in FileId : [id |-> i, current |-> TRUE] \in File
        BY DEF File
      <4>3. QED
        BY <4>1, <4>2 DEF Stored
    <3>5. files' \in [Requests -> SUBSET File]
      BY <2>10, <3>1, <3>3, <3>4 DEF CommitUpload, TypeOK
    <3>6. lastUpload' \in [Requests -> [Categories -> Nat]]
      BY <2>10, <3>1, <3>2 DEF CommitUpload, TypeOK
    <3>7. QED
      BY <2>3, <2>10, <3>5, <3>6 DEF CommitUpload, TypeOK
  <2>11. ASSUME NEW h \in Handlers, WriteRemove(h)
         PROVE  TypeOK'
    <3>1. op[h].req \in Requests
      BY <2>0, <2>11, OpFields DEF WriteRemove
    <3>2. QED
      BY <2>3, <2>11, <3>1 DEF WriteRemove, TypeOK
  <2>12. ASSUME NEW h \in Handlers, Abandon(h)
         PROVE  TypeOK'
    BY <2>3, <2>12 DEF Abandon, TypeOK
  <2>13. CASE UNCHANGED vars
    BY <2>13 DEF vars, TypeOK
  <2>14. QED
    BY <2>1, <2>4, <2>5, <2>6, <2>7, <2>8, <2>9, <2>10, <2>11, <2>12, <2>13 DEF Next
<1>3. QED
  BY <1>1, <1>2, PTL DEF Spec
-----------------------------------------------------------------------------
(* The inductive invariant *)

\* What an unlocked handler (and an upload) found when it read the row and can
\* still rely on: the request exists and is the caller's.  The status is not
\* among these things.
OwnersAct ==
    \A h \in Handlers :
        op[h].kind \in {"submit", "record", "edit", "delete", "upload", "remove"} =>
            /\ row[op[h].req].status \in Statuses
            /\ row[op[h].req].owner = op[h].actor

OwnerKnown ==
    \A r \in Requests :
        /\ row[r].status \in Statuses => row[r].owner \in Users
        /\ row[r].status = "absent" => row[r] = Absent

IInv ==
    /\ TypeOK
    /\ OwnerKnown
    /\ OwnersAct
    /\ DecidesOnCurrentRow
    /\ ReviewedByAnother
    /\ ClaimConsistent

\* Everything a step may do to a request.
Unmoved(r) == row'[r] = row[r] /\ movedBy'[r] = movedBy[r]
Created(r) ==
    /\ row[r].status = "absent"
    /\ \E u \in Users, f \in Forms : row'[r] = Draft(u, f)
    /\ movedBy'[r] = movedBy[r]
Submitted(r) ==
    /\ row[r].status \in Statuses
    /\ ~Locked(r)
    /\ row'[r] = Moved(row[r], "submitted", None)
    /\ movedBy'[r] = row[r].owner
Rewritten(r) ==
    /\ row[r].status \in Statuses
    /\ ~Locked(r)
    /\ \/ \E f \in Forms \cup {None} : row'[r] = Edited(row[r], f)
       \/ row'[r] = Deleted(row[r])
    /\ movedBy'[r] = movedBy[r]
Decided(r, h) ==
    /\ op[h].kind = "status" /\ op[h].req = r /\ op'[h] = Idle
    /\ op[h].actor \in Users /\ op[h].target \in Statuses
    /\ row[r].status \in Statuses
    /\ Loadable(r, op[h].actor)
    /\ MayAsk(r, op[h].actor, op[h].target)
    /\ CanTransition(row[r].status, op[h].target, op[h].actor)
    /\ row'[r] = Moved(row[r], op[h].target, ClaimAfter(r, op[h].actor, op[h].target))
    /\ movedBy'[r] = op[h].actor

\* What an update sets and what it leaves, column by column.
LEMMA UpdatedColumns ==
    ASSUME NEW x \in Row, NEW s, NEW c, NEW f
    PROVE  /\ Moved(x, s, c).status = s
           /\ Moved(x, s, c).claimedBy = c
           /\ Moved(x, s, c).owner = x.owner
           /\ Moved(x, s, c).form = x.form
           /\ Moved(x, s, c).deleted = x.deleted
           /\ Edited(x, f).status = x.status
           /\ Edited(x, f).claimedBy = x.claimedBy
           /\ Edited(x, f).owner = x.owner
           /\ Deleted(x).status = x.status
           /\ Deleted(x).claimedBy = x.claimedBy
           /\ Deleted(x).owner = x.owner
  BY DEF Row, Moved, Edited, Deleted

\* A step does exactly one of these things to each request.
LEMMA RowStep ==
    ASSUME TypeOK, OwnersAct, DecidesOnCurrentRow, [Next]_vars, NEW r \in Requests
    PROVE  \/ Unmoved(r) \/ Created(r) \/ Submitted(r) \/ Rewritten(r)
           \/ \E h \in Handlers : Decided(r, h)
<1> DEFINE Goal == \/ Unmoved(r) \/ Created(r) \/ Submitted(r) \/ Rewritten(r)
                   \/ \E h \in Handlers : Decided(r, h)
<1>0. /\ \A h \in Handlers : op[h] \in Op
      /\ row \in [Requests -> Row] /\ movedBy \in [Requests -> UserOrNone]
      /\ op \in [Handlers -> Op]
  BY DEF TypeOK
<1>1. ASSUME NEW q \in Requests, NEW u \in Users, NEW f \in Forms, Create(q, u, f)
      PROVE  Goal
  BY <1>0, <1>1 DEF Create, Created, Unmoved
<1>2. ASSUME UNCHANGED <<row, movedBy>>
      PROVE  Goal
  BY <1>2 DEF Unmoved
<1>3. ASSUME NEW h \in Handlers, WriteSubmit(h)
      PROVE  Goal
  <2>1. op[h].req \in Requests /\ row[op[h].req].owner = op[h].actor
        /\ row[op[h].req].status \in Statuses
    BY <1>0, <1>3, OpFields DEF WriteSubmit, OwnersAct
  <2>2. CASE op[h].req = r
    BY <1>0, <1>3, <2>1, <2>2 DEF WriteSubmit, Submitted
  <2>3. CASE op[h].req # r
    BY <1>0, <1>3, <2>1, <2>3 DEF WriteSubmit, Unmoved
  <2>4. QED
    BY <2>2, <2>3
<1>4. ASSUME NEW h \in Handlers, WriteEdit(h)
      PROVE  Goal
  <2>1. op[h].req \in Requests /\ row[op[h].req].status \in Statuses
        /\ op[h].form \in Forms \cup {None}
    BY <1>0, <1>4, OpFields DEF WriteEdit, OwnersAct
  <2>2. CASE op[h].req = r
    BY <1>0, <1>4, <2>1, <2>2 DEF WriteEdit, Rewritten
  <2>3. CASE op[h].req # r
    BY <1>0, <1>4, <2>1, <2>3 DEF WriteEdit, Unmoved
  <2>4. QED
    BY <2>2, <2>3
<1>5. ASSUME NEW h \in Handlers, WriteDelete(h)
      PROVE  Goal
  <2>1. op[h].req \in Requests /\ row[op[h].req].status \in Statuses
    BY <1>0, <1>5, OpFields DEF WriteDelete, OwnersAct
  <2>2. CASE op[h].req = r
    BY <1>0, <1>5, <2>1, <2>2 DEF WriteDelete, Rewritten
  <2>3. CASE op[h].req # r
    BY <1>0, <1>5, <2>1, <2>3 DEF WriteDelete, Unmoved
  <2>4. QED
    BY <2>2, <2>3
<1>6. ASSUME NEW h \in Handlers, CommitStatus(h)
      PROVE  Goal
  <2>1. op[h].req \in Requests /\ op[h].actor \in Users /\ op[h].target \in Statuses
    BY <1>0, <1>6, OpFields DEF CommitStatus
  <2>2. CASE op[h].req = r
    <3>1. row'[r] = Moved(row[r], op[h].target, ClaimAfter(r, op[h].actor, op[h].target))
          /\ movedBy'[r] = op[h].actor
      BY <1>0, <1>6, <2>1, <2>2 DEF CommitStatus
    <3>2. op[h].kind = "status" /\ op'[h] = Idle
      BY <1>0, <1>6 DEF CommitStatus, End
    <3>3. /\ Loadable(r, op[h].actor)
          /\ MayAsk(r, op[h].actor, op[h].target)
          /\ CanTransition(row[r].status, op[h].target, op[h].actor)
      BY <2>2, <3>2 DEF DecidesOnCurrentRow
    <3>4. Decided(r, h)
      BY <2>1, <2>2, <3>1, <3>2, <3>3 DEF Decided, Loadable
    <3>5. QED
      BY <3>4
  <2>3. CASE op[h].req # r
    BY <1>0, <1>6, <2>1, <2>3 DEF CommitStatus, Unmoved
  <2>4. QED
    BY <2>2, <2>3
<1> HIDE DEF Goal
<1>7. ASSUME NEW h \in Handlers, NEW q \in Requests, NEW u \in Users,
             \/ ReadForSubmit(h, q, u)
             \/ \E f \in Forms \cup {None}, checked \in BOOLEAN : ReadForEdit(h, q, u, f, checked)
             \/ ReadForDelete(h, q, u)
             \/ \E target \in Statuses : LockForStatus(h, q, u, target)
             \/ \E c \in Categories, count \in 0..MaxFiles : LockForUpload(h, q, u, c, count)
             \/ \E f \in files[q] : ReadForRemove(h, q, u, f)
      PROVE  Goal
  BY <1>2, <1>7 DEF ReadForSubmit, ReadForEdit, ReadForDelete, LockForStatus,
                    LockForUpload, ReadForRemove
<1>8. ASSUME NEW h \in Handlers,
             RecordSubmit(h) \/ CommitUpload(h) \/ WriteRemove(h) \/ Abandon(h)
      PROVE  Goal
  BY <1>2, <1>8 DEF RecordSubmit, CommitUpload, WriteRemove, Abandon
<1>9. ASSUME UNCHANGED vars
      PROVE  Goal
  BY <1>2, <1>9 DEF vars
<1>10. Goal
  BY <1>1, <1>3, <1>4, <1>5, <1>6, <1>7, <1>8, <1>9 DEF Next
<1>11. QED
  BY <1>10 DEF Goal

\* What a step does to the handlers: at most one changes.  It begins on what it
\* has just read, or ends, or goes from the UPDATE of a submit to its entry.
Began(h) ==
    /\ op[h] = Idle
    /\ op'[h] \in Op
    /\ op'[h].req \in Requests
    /\ row[op'[h].req].status \in Statuses
    /\ op'[h].kind \in {"submit", "record", "edit", "delete", "upload", "remove"} =>
          row[op'[h].req].owner = op'[h].actor
    /\ op'[h].kind \in {"status", "upload"} => ~Locked(op'[h].req)
    /\ op'[h].kind = "upload" => row[op'[h].req].status \in Editable
    /\ op'[h].kind = "status" =>
          /\ Loadable(op'[h].req, op'[h].actor)
          /\ MayAsk(op'[h].req, op'[h].actor, op'[h].target)
          /\ CanTransition(row[op'[h].req].status, op'[h].target, op'[h].actor)
    /\ UNCHANGED row

LEMMA OpStep ==
    ASSUME TypeOK, [Next]_vars
    PROVE  \/ op' = op
           \/ \E h \in Handlers :
                 /\ \A k \in Handlers \ {h} : op'[k] = op[k]
                 /\ \/ op'[h] = Idle
                    \/ Began(h)
                    \/ /\ op[h].kind = "submit"
                       /\ op'[h] = [kind |-> "record", actor |-> op[h].actor, req |-> op[h].req]
<1> DEFINE Goal ==
           \/ op' = op
           \/ \E h \in Handlers :
                 /\ \A k \in Handlers \ {h} : op'[k] = op[k]
                 /\ \/ op'[h] = Idle
                    \/ Began(h)
                    \/ /\ op[h].kind = "submit"
                       /\ op'[h] = [kind |-> "record", actor |-> op[h].actor, req |-> op[h].req]
<1>0. op \in [Handlers -> Op] /\ row \in [Requests -> Row] /\ files \in [Requests -> SUBSET File]
  BY DEF TypeOK
<1>1. ASSUME NEW h \in Handlers, End(h)
      PROVE  Goal
  BY <1>0, <1>1 DEF End
<1>2. ASSUME NEW h \in Handlers, NEW o, Begin(h, o), Began(h)
      PROVE  Goal
  BY <1>0, <1>2 DEF Begin
<1>3. ASSUME NEW h \in Handlers, NEW q \in Requests, NEW u \in Users, ReadForSubmit(h, q, u)
      PROVE  Goal
  <2>1. op'[h] = [kind |-> "submit", actor |-> u, req |-> q] /\ op[h] = Idle
    BY <1>0, <1>3 DEF ReadForSubmit, Begin
  <2>2. Began(h)
    BY <1>3, <2>1 DEF ReadForSubmit, Began, Loadable, Op
  <2>3. QED
    BY <1>2, <1>3, <2>2 DEF ReadForSubmit
<1>4. ASSUME NEW h \in Handlers, NEW q \in Requests, NEW u \in Users,
             NEW f \in Forms \cup {None}, NEW checked \in BOOLEAN, ReadForEdit(h, q, u, f, checked)
      PROVE  Goal
  <2>1. op'[h] = [kind |-> "edit", actor |-> u, req |-> q, form |-> f,
                  checked |-> checked, seen |-> row[q].version] /\ op[h] = Idle
    BY <1>0, <1>4 DEF ReadForEdit, Begin
  <2>2. row[q].version \in Nat
    BY <1>0 DEF Row
  <2>3. Began(h)
    BY <1>4, <2>1, <2>2 DEF ReadForEdit, Began, Loadable, Op
  <2>4. QED
    BY <1>2, <1>4, <2>3 DEF ReadForEdit
<1>5. ASSUME NEW h \in Handlers, NEW q \in Requests, NEW u \in Users, ReadForDelete(h, q, u)
      PROVE  Goal
  <2>1. op'[h] = [kind |-> "delete", actor |-> u, req |-> q] /\ op[h] = Idle
    BY <1>0, <1>5 DEF ReadForDelete, Begin
  <2>2. Began(h)
    BY <1>5, <2>1 DEF ReadForDelete, Began, Loadable, Op
  <2>3. QED
    BY <1>2, <1>5, <2>2 DEF ReadForDelete
<1>6. ASSUME NEW h \in Handlers, NEW q \in Requests, NEW u \in Users, NEW target \in Statuses,
             LockForStatus(h, q, u, target)
      PROVE  Goal
  <2>1. op'[h] = [kind |-> "status", actor |-> u, req |-> q, target |-> target] /\ op[h] = Idle
    BY <1>0, <1>6 DEF LockForStatus, Begin
  <2>2. Began(h)
    BY <1>6, <2>1 DEF LockForStatus, Began, Loadable, Op
  <2>3. QED
    BY <1>2, <1>6, <2>2 DEF LockForStatus
<1>7. ASSUME NEW h \in Handlers, NEW q \in Requests, NEW u \in Users,
             NEW c \in Categories, NEW count \in 0..MaxFiles, LockForUpload(h, q, u, c, count)
      PROVE  Goal
  <2>1. op'[h] = [kind |-> "upload", actor |-> u, req |-> q, category |-> c, count |-> count]
        /\ op[h] = Idle
    BY <1>0, <1>7 DEF LockForUpload, Begin
  <2>2. Began(h)
    BY <1>7, <2>1, BoundsAssumption DEF LockForUpload, Began, Loadable, Op
  <2>3. QED
    BY <1>2, <1>7, <2>2 DEF LockForUpload
<1>8. ASSUME NEW h \in Handlers, NEW q \in Requests, NEW u \in Users,
             NEW f \in files[q], ReadForRemove(h, q, u, f)
      PROVE  Goal
  <2>1. op'[h] = [kind |-> "remove", actor |-> u, req |-> q, file |-> f.id] /\ op[h] = Idle
    BY <1>0, <1>8 DEF ReadForRemove, Begin
  <2>2. f.id \in FileId
    BY <1>0 DEF File
  <2>3. Began(h)
    BY <1>8, <2>1, <2>2 DEF ReadForRemove, Began, Loadable, Op
  <2>4. QED
    BY <1>2, <1>8, <2>3 DEF ReadForRemove
<1>9. ASSUME NEW h \in Handlers, WriteSubmit(h)
      PROVE  Goal
  BY <1>0, <1>9 DEF WriteSubmit
<1>10. ASSUME NEW h \in Handlers,
              \/ RecordSubmit(h) \/ WriteEdit(h) \/ WriteDelete(h) \/ CommitStatus(h)
              \/ CommitUpload(h) \/ WriteRemove(h) \/ Abandon(h)
       PROVE  Goal
  BY <1>1, <1>10
  DEF RecordSubmit, WriteEdit, WriteDelete, CommitStatus, CommitUpload, WriteRemove, Abandon
<1>11. ASSUME NEW q \in Requests, NEW u \in Users, NEW f \in Forms, Create(q, u, f)
       PROVE  Goal
  BY <1>11 DEF Create
<1>12. ASSUME UNCHANGED vars
       PROVE  Goal
  BY <1>12 DEF vars
<1> HIDE DEF Goal
<1>13. Goal
  BY <1>3, <1>4, <1>5, <1>6, <1>7, <1>8, <1>9, <1>10, <1>11, <1>12 DEF Next
<1>14. QED
  BY <1>13 DEF Goal

\* A request that exists goes on existing and keeps its submitter.
LEMMA OwnerFixed ==
    ASSUME IInv, [Next]_vars, NEW r \in Requests, row[r].status \in Statuses
    PROVE  row'[r].status \in Statuses /\ row'[r].owner = row[r].owner
<1>1. \/ Unmoved(r) \/ Created(r) \/ Submitted(r) \/ Rewritten(r)
      \/ \E h \in Handlers : Decided(r, h)
  BY RowStep DEF IInv
<1>2. row[r] \in Row /\ row[r].status # "absent"
  BY DEF IInv, TypeOK, Statuses
<1>3. QED
  BY <1>1, <1>2, UpdatedColumns
  DEF Unmoved, Created, Submitted, Rewritten, Decided, Statuses

\* While a handler holds a request for a status change and goes on holding it,
\* nobody else changes the request.
LEMMA HeldRowUnmoved ==
    ASSUME IInv, [Next]_vars, NEW h \in Handlers, op[h].kind = "status", op'[h] = op[h]
    PROVE  op[h].req \in Requests /\ row'[op[h].req] = row[op[h].req]
<1> DEFINE r == op[h].req
<1>1. op[h] \in Op /\ Idle.kind = "idle"
  BY DEF IInv, TypeOK, Idle
<1>2. r \in Requests /\ row[r].status \in Statuses
  BY <1>1, OpFields DEF IInv, DecidesOnCurrentRow, Loadable
<1>3. Locked(r)
  BY DEF Locked
<1>4. \A k \in Handlers : ~Decided(r, k)
  <2> SUFFICES ASSUME NEW k \in Handlers, Decided(r, k) PROVE FALSE
    OBVIOUS
  <2>1. k = h
    BY DEF IInv, DecidesOnCurrentRow, Decided
  <2>2. QED
    BY <1>1, <2>1 DEF Decided
<1>5. \/ Unmoved(r) \/ Created(r) \/ Submitted(r) \/ Rewritten(r)
      \/ \E k \in Handlers : Decided(r, k)
  BY <1>2, RowStep DEF IInv
<1>6. Unmoved(r)
  BY <1>2, <1>3, <1>4, <1>5 DEF Created, Submitted, Rewritten, Statuses
<1>7. QED
  BY <1>2, <1>6 DEF Unmoved

\* A stored request has an owner, through every step.
LEMMA OwnerKnownStep ==
    ASSUME IInv, [Next]_vars
    PROVE  OwnerKnown'
<1> SUFFICES ASSUME NEW r \in Requests
             PROVE  /\ row'[r].status \in Statuses => row'[r].owner \in Users
                    /\ row'[r].status = "absent" => row'[r] = Absent
  BY DEF OwnerKnown
<1>1. CASE row[r].status \in Statuses
  BY <1>1, OwnerFixed DEF IInv, OwnerKnown, Statuses
<1>2. CASE row[r].status \notin Statuses
  <2>1. Unmoved(r) \/ Created(r)
    BY <1>2, RowStep DEF IInv, Submitted, Rewritten, Decided
  <2>2. CASE Unmoved(r)
    BY <2>2 DEF Unmoved, IInv, OwnerKnown
  <2>3. CASE Created(r)
    BY <2>3 DEF Created, Draft
  <2>4. QED
    BY <2>1, <2>2, <2>3
<1>3. QED
  BY <1>1, <1>2

\* An unlocked handler's request stays its caller's, through every step.
LEMMA OwnersActStep ==
    ASSUME IInv, [Next]_vars
    PROVE  OwnersAct'
<1> DEFINE Kinds == {"submit", "record", "edit", "delete", "upload", "remove"}
<1> SUFFICES ASSUME NEW h \in Handlers, op'[h].kind \in Kinds
             PROVE  /\ row'[op'[h].req].status \in Statuses
                    /\ row'[op'[h].req].owner = op'[h].actor
  BY DEF OwnersAct
<1>0. op[h] \in Op
  BY DEF IInv, TypeOK
<1>1. CASE op'[h] = op[h]
  BY <1>0, <1>1, OpFields, OwnerFixed DEF IInv, OwnersAct
<1>2. CASE op'[h] # op[h]
  <2>1. \/ Began(h)
        \/ /\ op[h].kind = "submit"
           /\ op'[h] = [kind |-> "record", actor |-> op[h].actor, req |-> op[h].req]
    <3>1. op'[h] # Idle
      BY DEF Idle
    <3>2. QED
      BY <1>2, <3>1, OpStep DEF IInv
  <2>2. CASE Began(h)
    BY <2>2 DEF Began
  <2>3. CASE /\ op[h].kind = "submit"
             /\ op'[h] = [kind |-> "record", actor |-> op[h].actor, req |-> op[h].req]
    BY <1>0, <2>3, OpFields, OwnerFixed DEF IInv, OwnersAct
  <2>4. QED
    BY <2>1, <2>2, <2>3
<1>3. QED
  BY <1>1, <1>2

\* A status transaction's checks hold of the row it has locked, through every step.
LEMMA DecidesStep ==
    ASSUME IInv, [Next]_vars
    PROVE  DecidesOnCurrentRow'
<1> DEFINE Holds(h) == op[h].kind \in {"status", "upload"}
<1>0. ASSUME NEW j \in Handlers, op'[j] # op[j], Holds(j)'
      PROVE  Began(j)
  <2>1. op'[j] # Idle
    BY <1>0 DEF Idle
  <2>2. op'[j] # [kind |-> "record", actor |-> op[j].actor, req |-> op[j].req]
    BY <1>0
  <2>3. PICK h \in Handlers :
            /\ \A k \in Handlers \ {h} : op'[k] = op[k]
            /\ \/ op'[h] = Idle
               \/ Began(h)
               \/ /\ op[h].kind = "submit"
                  /\ op'[h] = [kind |-> "record", actor |-> op[h].actor, req |-> op[h].req]
    BY <1>0, OpStep DEF IInv
  <2>4. h = j
    BY <1>0, <2>3
  <2>5. QED
    BY <2>1, <2>2, <2>3, <2>4
<1>1. ASSUME NEW h \in Handlers, NEW k \in Handlers,
             Holds(h)', Holds(k)', op'[h].req = op'[k].req
      PROVE  h = k
  <2> SUFFICES ASSUME h # k PROVE FALSE
    OBVIOUS
  <2>1. \A j \in Handlers : op'[j] # op[j] /\ Holds(j)' => Began(j)
    BY <1>0
  <2>2. op'[h] = op[h] \/ op'[k] = op[k]
    BY OpStep DEF IInv
  <2>3. CASE op'[h] = op[h] /\ op'[k] = op[k]
    BY <1>1, <2>3 DEF IInv, DecidesOnCurrentRow
  <2>4. CASE op'[h] # op[h]
    BY <1>1, <2>1, <2>2, <2>4 DEF Began, Locked
  <2>5. CASE op'[k] # op[k]
    BY <1>1, <2>1, <2>2, <2>5 DEF Began, Locked
  <2>6. QED
    BY <2>3, <2>4, <2>5
<1>2. ASSUME NEW h \in Handlers, op'[h].kind = "status"
      PROVE  /\ Loadable(op[h].req, op[h].actor)'
             /\ MayAsk(op[h].req, op[h].actor, op[h].target)'
             /\ CanTransition(row[op[h].req].status, op[h].target, op[h].actor)'
  <2>1. CASE op'[h] = op[h]
    BY <1>2, <2>1, HeldRowUnmoved DEF IInv, DecidesOnCurrentRow, Loadable, MayAsk, CanTransition
  <2>2. CASE op'[h] # op[h]
    <3>1. Began(h)
      BY <1>0, <1>2, <2>2
    <3>2. QED
      BY <1>2, <3>1 DEF Began, Loadable, MayAsk, CanTransition
  <2>3. QED
    BY <2>1, <2>2
<1>3. QED
  BY <1>1, <1>2 DEF DecidesOnCurrentRow

\* Review by another, through every step.
LEMMA ReviewedStep ==
    ASSUME IInv, [Next]_vars
    PROVE  ReviewedByAnother'
<1> SUFFICES ASSUME NEW r \in Requests, row'[r].status \in Reviewing
             PROVE  CanReview(movedBy'[r]) /\ movedBy'[r] # row'[r].owner
  BY DEF ReviewedByAnother, CanReview
<1>0. row[r] \in Row
  BY DEF IInv, TypeOK
<1>1. ~Created(r) /\ ~Submitted(r)
  <2>1. Moved(row[r], "submitted", None).status = "submitted"
    BY <1>0, UpdatedColumns
  <2>2. \A u \in Users, f \in Forms : Draft(u, f).status = "draft"
    BY DEF Draft
  <2>3. QED
    BY <2>1, <2>2 DEF Created, Submitted, Reviewing
<1>2. CASE Unmoved(r) \/ Rewritten(r)
  BY <1>0, <1>2, UpdatedColumns DEF IInv, ReviewedByAnother, Unmoved, Rewritten
<1>3. ASSUME NEW h \in Handlers, Decided(r, h)
      PROVE  CanReview(movedBy'[r]) /\ movedBy'[r] # row'[r].owner
  BY <1>0, <1>3, UpdatedColumns DEF Decided, MayAsk
<1>4. QED
  BY <1>1, <1>2, <1>3, RowStep DEF IInv

\* The claim agrees with the status, through every step.
LEMMA ClaimStep ==
    ASSUME IInv, [Next]_vars
    PROVE  ClaimConsistent'
<1> DEFINE Claim(x) ==
      /\ x.status = "claimed" => CanReview(x.claimedBy)
      /\ x.status \in {"submitted", "needs_changes"} => x.claimedBy = None
      /\ x.status # "absent" => x.claimedBy # x.owner
<1> SUFFICES ASSUME NEW r \in Requests PROVE Claim(row'[r])
  BY DEF ClaimConsistent, CanReview
<1>0. row[r] \in Row /\ Claim(row[r])
  BY DEF IInv, TypeOK, ClaimConsistent
<1>1. row[r].status \in Statuses => row[r].owner # None
  BY NoneAssumption DEF IInv, OwnerKnown
<1>2. CASE Unmoved(r) \/ Rewritten(r)
  BY <1>0, <1>2, UpdatedColumns DEF Unmoved, Rewritten
<1>3. CASE Created(r)
  BY <1>3, NoneAssumption DEF Created, Draft
<1>4. CASE Submitted(r)
  BY <1>0, <1>1, <1>4, UpdatedColumns DEF Submitted
<1>5. ASSUME NEW h \in Handlers, Decided(r, h)
      PROVE  Claim(row'[r])
  <2> DEFINE t == op[h].target
             c == ClaimAfter(r, op[h].actor, t)
  <2>1. /\ row'[r].status = t
        /\ row'[r].claimedBy = c
        /\ row'[r].owner = row[r].owner
    BY <1>0, <1>5, UpdatedColumns DEF Decided
  <2>2. CASE t = "claimed"
    BY <1>5, <2>1, <2>2 DEF Decided, MayAsk, ClaimAfter, Reviewing
  <2>3. CASE t \in {"submitted", "needs_changes"}
    <3>1. c = None
      BY <2>3 DEF ClaimAfter
    <3>2. QED
      BY <1>1, <1>5, <2>1, <2>3, <3>1 DEF Decided
  <2>4. CASE t \notin {"claimed", "submitted", "needs_changes"}
    <3>1. c = row[r].claimedBy
      BY <2>4 DEF ClaimAfter
    <3>2. row[r].status # "absent"
      BY <1>5 DEF Decided, Statuses
    <3>3. QED
      BY <1>0, <2>1, <2>4, <3>1, <3>2
  <2>5. QED
    BY <2>2, <2>3, <2>4
<1>6. QED
  BY <1>2, <1>3, <1>4, <1>5, RowStep DEF IInv

\* The inductive invariant holds in every reachable state.
THEOREM Inductive == Spec => []IInv
<1>1. Init => OwnerKnown /\ OwnersAct /\ DecidesOnCurrentRow /\ ReviewedByAnother
              /\ ClaimConsistent
  BY DEF Init, OwnerKnown, OwnersAct, DecidesOnCurrentRow, ReviewedByAnother,
         ClaimConsistent, Absent, Idle, Statuses, Reviewing
<1>2. TypeOK /\ TypeOK' /\ IInv /\ [Next]_vars => IInv'
  BY OwnerKnownStep, OwnersActStep, DecidesStep, ReviewedStep, ClaimStep DEF IInv
<1>3. QED
  BY <1>1, <1>2, TypeCorrect, PTL DEF Spec, IInv

\* A request in review, or approved, was put there by a reviewer who is not its
\* submitter: routes/forexTT.js:466-477, over every interleaving of handlers.
THEOREM ReviewIsByAnother == Spec => []ReviewedByAnother
  BY Inductive, PTL DEF IInv

\* The checks of a status transaction hold until it commits, and no request is
\* held by two transactions: the FOR UPDATE of routes/forexTT.js:57-67.
THEOREM DecisionsAreCurrent == Spec => []DecidesOnCurrentRow
  BY Inductive, PTL DEF IInv

\* claimed_by agrees with the status, and is never the submitter.
THEOREM ClaimsAreConsistent == Spec => []ClaimConsistent
  BY Inductive, PTL DEF IInv

\* Where a request under claim may go without an admin.
LEMMA TransitionOfClaimed ==
    ASSUME NEW u, CanTransition("claimed", "claimed", u)
    PROVE  u \in Admins
  BY DEF CanTransition, StatusTransitions

\* A held claim changes hands only when an admin takes it.
THEOREM ClaimsAreNotStolen == Spec => ClaimNotStolen
<1>1. ASSUME IInv, [Next]_vars, NEW r \in Requests,
             row[r].status = "claimed", row'[r].status = "claimed",
             row'[r].claimedBy # row[r].claimedBy
      PROVE  movedBy'[r] \in Admins
  <2>0. row[r] \in Row
    BY <1>1 DEF IInv, TypeOK
  <2>1. ~Unmoved(r) /\ ~Created(r) /\ ~Rewritten(r)
    <3>1. \A f \in Forms \cup {None} : Edited(row[r], f).claimedBy = row[r].claimedBy
      BY <2>0, UpdatedColumns
    <3>2. Deleted(row[r]).claimedBy = row[r].claimedBy
      BY <2>0, UpdatedColumns
    <3>3. QED
      BY <1>1, <3>1, <3>2 DEF Unmoved, Created, Rewritten
  <2>2. ~Submitted(r)
    <3>1. Moved(row[r], "submitted", None).status = "submitted"
      BY <2>0, UpdatedColumns
    <3>2. QED
      BY <1>1, <3>1 DEF Submitted
  <2>3. PICK h \in Handlers : Decided(r, h)
    BY <1>1, <2>1, <2>2, RowStep DEF IInv
  <2>4. op[h].target = "claimed"
    BY <1>1, <2>0, <2>3, UpdatedColumns DEF Decided
  <2>5. QED
    BY <1>1, <2>3, <2>4, TransitionOfClaimed DEF Decided
<1>2. IInv /\ [Next]_vars =>
        [\A r \in Requests :
            row[r].status = "claimed" /\ row'[r].status = "claimed"
                /\ row'[r].claimedBy # row[r].claimedBy
              => movedBy'[r] \in Admins]_vars
  BY <1>1
<1>3. QED
  BY <1>2, Inductive, PTL DEF Spec, ClaimNotStolen

\* Whoever changes a status, it moves along the table of routes/forexTT.js:20-30
\* as the row stands at the commit, or by an admin and not to approved, or it is
\* its submitter's (re)submission.
THEOREM TransitionsFollowTable == Spec => StatusFollowsTable
<1> DEFINE Legal(r) ==
      \/ row'[r].status \in StatusTransitions[row[r].status]
      \/ movedBy'[r] \in Admins /\ row'[r].status # "approved"
      \/ row'[r].status = "submitted" /\ movedBy'[r] = row[r].owner
<1>1. ASSUME IInv, [Next]_vars, NEW r \in Requests,
             row[r].status \in Statuses, row'[r].status # row[r].status
      PROVE  Legal(r)
  <2>0. row[r] \in Row
    BY <1>1 DEF IInv, TypeOK
  <2>1. ~Unmoved(r) /\ ~Created(r) /\ ~Rewritten(r)
    BY <1>1, <2>0, UpdatedColumns DEF Unmoved, Created, Rewritten, Statuses
  <2>2. CASE Submitted(r)
    <3>1. Moved(row[r], "submitted", None).status = "submitted"
      BY <2>0, UpdatedColumns
    <3>2. QED
      BY <2>2, <3>1 DEF Submitted
  <2>3. ASSUME NEW h \in Handlers, Decided(r, h)
        PROVE  Legal(r)
    <3>1. row'[r].status = op[h].target
      BY <2>0, <2>3, UpdatedColumns DEF Decided
    <3>2. QED
      BY <2>3, <3>1 DEF Decided, CanTransition
  <2>4. QED
    BY <1>1, <2>1, <2>2, <2>3, RowStep DEF IInv
<1>2. IInv /\ [Next]_vars =>
        [\A r \in Requests :
            row[r].status \in Statuses /\ row'[r].status # row[r].status => Legal(r)]_vars
  BY <1>1
<1>3. QED
  BY <1>2, Inductive, PTL DEF Spec, StatusFollowsTable
-----------------------------------------------------------------------------
(* Refinement: the handlers implement the approval gate *)

\* One step is about one request.
LEMMA OneRequest ==
    ASSUME TypeOK, OwnersAct, DecidesOnCurrentRow, [Next]_vars
    PROVE  \/ UNCHANGED <<row, movedBy>>
           \/ \E r \in Requests : \A q \in Requests \ {r} : Unmoved(q)
<1> DEFINE Goal == \/ UNCHANGED <<row, movedBy>>
                   \/ \E r \in Requests : \A q \in Requests \ {r} : Unmoved(q)
<1>0. /\ \A h \in Handlers : op[h] \in Op
      /\ row \in [Requests -> Row] /\ movedBy \in [Requests -> UserOrNone]
  BY DEF TypeOK
<1>1. ASSUME NEW q \in Requests, NEW u \in Users, NEW f \in Forms, Create(q, u, f)
      PROVE  Goal
  BY <1>0, <1>1 DEF Create, Unmoved
<1>2. ASSUME NEW h \in Handlers,
             WriteSubmit(h) \/ WriteEdit(h) \/ WriteDelete(h) \/ CommitStatus(h)
      PROVE  Goal
  <2>1. op[h].req \in Requests
    BY <1>0, <1>2, OpFields DEF WriteSubmit, WriteEdit, WriteDelete, CommitStatus
  <2>2. \A q \in Requests \ {op[h].req} : Unmoved(q)
    BY <1>0, <1>2, <2>1 DEF Unmoved, WriteSubmit, WriteEdit, WriteDelete, CommitStatus
  <2>3. QED
    BY <2>1, <2>2
<1>3. ASSUME NEW h \in Handlers, NEW q \in Requests, NEW u \in Users,
             \/ ReadForSubmit(h, q, u)
             \/ \E f \in Forms \cup {None}, checked \in BOOLEAN : ReadForEdit(h, q, u, f, checked)
             \/ ReadForDelete(h, q, u)
             \/ \E target \in Statuses : LockForStatus(h, q, u, target)
             \/ \E c \in Categories, count \in 0..MaxFiles : LockForUpload(h, q, u, c, count)
             \/ \E f \in files[q] : ReadForRemove(h, q, u, f)
      PROVE  Goal
  BY <1>3 DEF ReadForSubmit, ReadForEdit, ReadForDelete, LockForStatus, LockForUpload, ReadForRemove
<1>4. ASSUME NEW h \in Handlers,
             RecordSubmit(h) \/ CommitUpload(h) \/ WriteRemove(h) \/ Abandon(h)
      PROVE  Goal
  BY <1>4 DEF RecordSubmit, CommitUpload, WriteRemove, Abandon
<1>5. ASSUME UNCHANGED vars
      PROVE  Goal
  BY <1>5 DEF vars
<1> HIDE DEF Goal
<1>6. Goal
  BY <1>1, <1>2, <1>3, <1>4, <1>5 DEF Next
<1>7. QED
  BY <1>6 DEF Goal

Phases == [r \in Requests |-> PhaseOf(row[r].status)]
Owners == [r \in Requests |-> row[r].owner]

\* A step that changes nothing of a request but what the gate does not see.
LEMMA SamePhase ==
    ASSUME NEW r \in Requests, row'[r].status = row[r].status, row'[r].owner = row[r].owner
    PROVE  Phases'[r] = Phases[r] /\ Owners'[r] = Owners[r]
  BY DEF Phases, Owners

\* The gate's view of a step that moves one request.
LEMMA GateStep ==
    ASSUME TypeOK, TypeOK', NEW r \in Requests,
           \A q \in Requests \ {r} : Unmoved(q)
    PROVE  /\ Phases' = [Phases EXCEPT ![r] = PhaseOf(row'[r].status)]
           /\ Owners' = [Owners EXCEPT ![r] = row'[r].owner]
           /\ movedBy' = [movedBy EXCEPT ![r] = movedBy'[r]]
<1>1. \A q \in Requests \ {r} : Phases'[q] = Phases[q] /\ Owners'[q] = Owners[q]
  BY SamePhase DEF Unmoved
<1>2. Phases'[r] = PhaseOf(row'[r].status) /\ Owners'[r] = row'[r].owner
  BY DEF Phases, Owners
<1>3. /\ Phases' = [q \in Requests |-> Phases'[q]]
      /\ Owners' = [q \in Requests |-> Owners'[q]]
  BY DEF Phases, Owners
<1>4. DOMAIN Phases = Requests /\ DOMAIN Owners = Requests
  BY DEF Phases, Owners
<1>5. /\ Phases' = [Phases EXCEPT ![r] = PhaseOf(row'[r].status)]
      /\ Owners' = [Owners EXCEPT ![r] = row'[r].owner]
  BY <1>1, <1>2, <1>3, <1>4
<1>6. movedBy' = [movedBy EXCEPT ![r] = movedBy'[r]]
  BY DEF TypeOK, Unmoved
<1>7. QED
  BY <1>5, <1>6

\* What the gate sees of each thing a step may do to a request.
LEMMA GateSees ==
    ASSUME IInv, IInv', NEW r \in Requests,
           \/ Unmoved(r) \/ Created(r) \/ Submitted(r) \/ Rewritten(r)
           \/ \E h \in Handlers : Decided(r, h)
    PROVE  LET phase == PhaseOf(row[r].status)
               phaseNew == PhaseOf(row'[r].status)
               mayReview(u) == u \in (Reviewers \cup Admins) \ {row[r].owner}
           IN  \/ /\ phaseNew = phase
                  /\ row'[r].owner = row[r].owner
                  /\ movedBy'[r] = movedBy[r]
               \/ /\ row[r].owner = None
                  /\ row'[r].owner \in Users
                  /\ phaseNew = phase
                  /\ movedBy'[r] = movedBy[r]
               \/ /\ row[r].owner # None
                  /\ row'[r].owner = row[r].owner
                  /\ movedBy'[r] \in Users
                  /\ \/ /\ phaseNew = "review"
                        /\ mayReview(movedBy'[r])
                        /\ phase = "approved" => movedBy'[r] \in Admins
                     \/ /\ phaseNew = "approved"
                        /\ mayReview(movedBy'[r])
                        /\ phase = "review"
                     \/ /\ phaseNew = "open"
                        /\ movedBy'[r] = row[r].owner \/ mayReview(movedBy'[r])
                        /\ phase = "approved" =>
                              movedBy'[r] \in Admins \/ movedBy'[r] = row[r].owner
<1>0. row[r] \in Row /\ row'[r] \in Row
  BY DEF IInv, TypeOK
<1>1. CASE Unmoved(r)
  BY <1>1 DEF Unmoved
<1>2. CASE Created(r)
  <2>1. row[r].owner = None /\ row[r].status = "absent"
    BY <1>2 DEF Created, IInv, OwnerKnown, Absent
  <2>2. row'[r].owner \in Users /\ row'[r].status = "draft"
    BY <1>2 DEF Created, Draft
  <2>3. PhaseOf("absent") = "open" /\ PhaseOf("draft") = "open"
    BY DEF PhaseOf
  <2>4. QED
    BY <1>2, <2>1, <2>2, <2>3 DEF Created
<1>3. row[r].status \in Statuses => row[r].owner # None /\ row[r].owner \in Users
  BY NoneAssumption DEF IInv, OwnerKnown
<1>4. CASE Submitted(r)
  <2>1. row'[r].status = "submitted" /\ row'[r].owner = row[r].owner
    <3>1. /\ Moved(row[r], "submitted", None).status = "submitted"
          /\ Moved(row[r], "submitted", None).owner = row[r].owner
      BY <1>0, UpdatedColumns
    <3>2. QED
      BY <1>4, <3>1 DEF Submitted
  <2>2. PhaseOf("submitted") = "open"
    BY DEF PhaseOf
  <2>3. QED
    BY <1>3, <1>4, <2>1, <2>2 DEF Submitted
<1>5. CASE Rewritten(r)
  <2>1. row'[r].status = row[r].status /\ row'[r].owner = row[r].owner
    <3>1. /\ \A f \in Forms \cup {None} : /\ Edited(row[r], f).status = row[r].status
                                          /\ Edited(row[r], f).owner = row[r].owner
          /\ Deleted(row[r]).status = row[r].status
          /\ Deleted(row[r]).owner = row[r].owner
      BY <1>0, UpdatedColumns
    <3>2. QED
      BY <1>5, <3>1 DEF Rewritten
  <2>2. QED
    BY <1>5, <2>1 DEF Rewritten
<1>6. ASSUME NEW h \in Handlers, Decided(r, h)
      PROVE  LET phase == PhaseOf(row[r].status)
                 phaseNew == PhaseOf(row'[r].status)
                 mayReview(u) == u \in (Reviewers \cup Admins) \ {row[r].owner}
             IN  /\ row[r].owner # None
                 /\ row'[r].owner = row[r].owner
                 /\ movedBy'[r] \in Users
                 /\ \/ /\ phaseNew = "review"
                       /\ mayReview(movedBy'[r])
                       /\ phase = "approved" => movedBy'[r] \in Admins
                    \/ /\ phaseNew = "approved"
                       /\ mayReview(movedBy'[r])
                       /\ phase = "review"
                    \/ /\ phaseNew = "open"
                       /\ movedBy'[r] = row[r].owner \/ mayReview(movedBy'[r])
                       /\ phase = "approved" =>
                             movedBy'[r] \in Admins \/ movedBy'[r] = row[r].owner
  <2> DEFINE s == row[r].status
             t == op[h].target
             u == op[h].actor
  <2>1. row'[r].status = t /\ row'[r].owner = row[r].owner
    BY <1>0, <1>6, UpdatedColumns DEF Decided
  <2>2. movedBy'[r] = u /\ u \in Users /\ s \in Statuses /\ t \in Statuses
    BY <1>6 DEF Decided, Loadable
  <2>3. MayAsk(r, u, t) /\ CanTransition(s, t, u)
    BY <1>6 DEF Decided
  <2>4. /\ PhaseOf(s) = "approved" <=> s = "approved"
        /\ PhaseOf(s) = "review" <=> s \in {"claimed", "processing"}
        /\ PhaseOf(s) = "open" <=> s \notin Reviewing
        /\ PhaseOf(t) = "approved" <=> t = "approved"
        /\ PhaseOf(t) = "review" <=> t \in {"claimed", "processing"}
        /\ PhaseOf(t) = "open" <=> t \notin Reviewing
    BY DEF PhaseOf, Reviewing
  <2>5. s = "approved" => u \in Admins
    BY <2>2, <2>3 DEF CanTransition, StatusTransitions
  <2>6. t = "approved" => s \in {"claimed", "processing"}
    BY <2>2, <2>3 DEF CanTransition, StatusTransitions, Statuses
  <2>7. t \in Reviewing => u \in (Reviewers \cup Admins) \ {row[r].owner}
    BY <2>3 DEF MayAsk, CanReview
  <2>8. u = row[r].owner \/ u \in (Reviewers \cup Admins) \ {row[r].owner}
    BY <1>6 DEF Decided, Loadable, CanReview
  <2>9. QED
    BY <1>3, <2>1, <2>2, <2>4, <2>5, <2>6, <2>7, <2>8 DEF Reviewing
<1>7. QED
  BY <1>1, <1>2, <1>4, <1>5, <1>6

\* The guarded handlers, and the unlocked ones between them, do nothing to a
\* request that the approval gate of ApprovalGate would not do.
THEOREM HandlersImplementGate == Spec => ImplementsGate
<1> USE DEF ImplementsGate
<1>1. Init => Gate!GateInit
  <2> SUFFICES ASSUME Init PROVE Gate!GateInit
    OBVIOUS
  <2>1. PhaseOf("absent") = "open"
    BY DEF PhaseOf
  <2>2. QED
    BY <2>1 DEF Init, Absent, Gate!GateInit
<1>2. IInv /\ IInv' /\ [Next]_vars => [Gate!GateNext]_(Gate!gateVars)
  <2> SUFFICES ASSUME IInv, IInv', [Next]_vars
               PROVE  Gate!GateNext \/ UNCHANGED Gate!gateVars
    OBVIOUS
  <2> USE DEF Phases, Owners
  <2>1. CASE UNCHANGED <<row, movedBy>>
    BY <2>1 DEF Gate!gateVars
  <2>2. ASSUME NEW r \in Requests, \A q \in Requests \ {r} : Unmoved(q)
        PROVE  Gate!GateNext \/ UNCHANGED Gate!gateVars
    <3> DEFINE phase == PhaseOf(row[r].status)
               phaseNew == PhaseOf(row'[r].status)
               u == movedBy'[r]
               mayReview == u \in (Reviewers \cup Admins) \ {row[r].owner}
    <3>0. /\ Phases[r] = phase /\ Owners[r] = row[r].owner
          /\ Phases \in [Requests -> {PhaseOf(s) : s \in Statuses \cup {"absent"}}]
          /\ Owners \in [Requests -> UserOrNone] /\ movedBy \in [Requests -> UserOrNone]
      BY DEF IInv, TypeOK, Row
    <3>1. /\ Phases' = [Phases EXCEPT ![r] = phaseNew]
          /\ Owners' = [Owners EXCEPT ![r] = row'[r].owner]
          /\ movedBy' = [movedBy EXCEPT ![r] = u]
      BY <2>2, GateStep DEF IInv
    <3> HIDE DEF Phases, Owners
    <3>2. \/ /\ phaseNew = phase
             /\ row'[r].owner = row[r].owner
             /\ u = movedBy[r]
          \/ /\ row[r].owner = None
             /\ row'[r].owner \in Users
             /\ phaseNew = phase
             /\ u = movedBy[r]
          \/ /\ row[r].owner # None
             /\ row'[r].owner = row[r].owner
             /\ u \in Users
             /\ \/ /\ phaseNew = "review" /\ mayReview
                   /\ phase = "approved" => u \in Admins
                \/ /\ phaseNew = "approved" /\ mayReview
                   /\ phase = "review"
                \/ /\ phaseNew = "open"
                   /\ u = row[r].owner \/ mayReview
                   /\ phase = "approved" => u \in Admins \/ u = row[r].owner
      BY RowStep, GateSees DEF IInv
    <3>3. CASE phaseNew = phase /\ row'[r].owner = row[r].owner /\ u = movedBy[r]
      <4>1. Phases' = Phases /\ Owners' = Owners /\ movedBy' = movedBy
        BY <3>0, <3>1, <3>3
      <4>2. QED
        BY <4>1 DEF Gate!gateVars, Phases, Owners
    <3>4. CASE /\ row[r].owner = None /\ row'[r].owner \in Users
               /\ phaseNew = phase /\ u = movedBy[r]
      <4>1. PICK v \in Users : v = row'[r].owner
        BY <3>4
      <4>2. /\ Owners[r] = None /\ Owners' = [Owners EXCEPT ![r] = v]
            /\ Phases' = Phases /\ movedBy' = movedBy
        BY <3>0, <3>1, <3>4, <4>1
      <4>3. Gate!Register(r, v)
        BY <4>2 DEF Gate!Register, Phases, Owners
      <4>4. QED
        BY <4>3 DEF Gate!GateNext
    <3>5. CASE /\ row[r].owner # None /\ row'[r].owner = row[r].owner /\ u \in Users
               /\ phaseNew = "review" /\ mayReview
               /\ phase = "approved" => u \in Admins
      <4>1. /\ Owners[r] # None /\ u \in (Reviewers \cup Admins) \ {Owners[r]}
            /\ Phases[r] = "approved" => u \in Admins
            /\ Phases' = [Phases EXCEPT ![r] = "review"]
            /\ movedBy' = [movedBy EXCEPT ![r] = u]
            /\ Owners' = Owners
        BY <3>0, <3>1, <3>5
      <4>2. Gate!Take(r, u)
        BY <4>1 DEF Gate!Take, Gate!MayReview, Phases, Owners
      <4>3. QED
        BY <3>5, <4>2 DEF Gate!GateNext
    <3>6. CASE /\ row[r].owner # None /\ row'[r].owner = row[r].owner /\ u \in Users
               /\ phaseNew = "approved" /\ mayReview /\ phase = "review"
      <4>1. /\ Owners[r] # None /\ u \in (Reviewers \cup Admins) \ {Owners[r]}
            /\ Phases[r] = "review"
            /\ Phases' = [Phases EXCEPT ![r] = "approved"]
            /\ movedBy' = [movedBy EXCEPT ![r] = u]
            /\ Owners' = Owners
        BY <3>0, <3>1, <3>6
      <4>2. Gate!Approve(r, u)
        BY <4>1 DEF Gate!Approve, Gate!MayReview, Phases, Owners
      <4>3. QED
        BY <3>6, <4>2 DEF Gate!GateNext
    <3>7. CASE /\ row[r].owner # None /\ row'[r].owner = row[r].owner /\ u \in Users
               /\ phaseNew = "open"
               /\ u = row[r].owner \/ mayReview
               /\ phase = "approved" => u \in Admins \/ u = row[r].owner
      <4>1. /\ u = Owners[r] \/ (Owners[r] # None /\ u \in (Reviewers \cup Admins) \ {Owners[r]})
            /\ Phases[r] = "approved" => u \in Admins \/ u = Owners[r]
            /\ Phases' = [Phases EXCEPT ![r] = "open"]
            /\ movedBy' = [movedBy EXCEPT ![r] = u]
            /\ Owners' = Owners
        BY <3>0, <3>1, <3>7
      <4>2. Gate!Reopen(r, u)
        BY <4>1 DEF Gate!Reopen, Gate!MayReview, Phases, Owners
      <4>3. u \in Users
        BY <3>7
      <4>4. QED
        BY <4>2, <4>3 DEF Gate!GateNext
    <3>8. QED
      BY <3>2, <3>3, <3>4, <3>5, <3>6, <3>7
  <2>3. QED
    BY <2>1, <2>2, OneRequest DEF IInv
<1>3. QED
  BY <1>1, <1>2, Inductive, PTL DEF Spec, Gate!GateSpec

-----------------------------------------------------------------------------
(* Attachments *)

\* No file is of an upload that is yet to come, and the current ones are of the last.
FilesKept ==
    \A r \in Requests : \A f \in files[r] :
        /\ f.id.upload <= lastUpload[r][f.id.category]
        /\ f.current <=> f.id.upload = lastUpload[r][f.id.category]

\* An upload holds its request, so its submitter has it until the files are stored.
UploadsOpen == \A h \in Handlers : op[h].kind = "upload" => row[op[h].req].status \in Editable

LEMMA CommitFiles ==
    ASSUME TypeOK, FilesKept, NEW h \in Handlers, CommitUpload(h)
    PROVE  FilesKept'
<1>1. PICK r \in Requests, c \in Categories : r = op[h].req /\ c = op[h].category
  BY OpFields DEF CommitUpload, TypeOK
<1> DEFINE upload == lastUpload[r][c] + 1
<1>2. /\ files'[r] = Superseded(files[r], c) \cup Stored(c, upload, op[h].count)
      /\ lastUpload'[r][c] = upload /\ \A d \in Categories : d # c => lastUpload'[r][d] = lastUpload[r][d]
      /\ \A q \in Requests : q # r => files'[q] = files[q] /\ lastUpload'[q] = lastUpload[q]
  BY <1>1 DEF CommitUpload, TypeOK
<1>3. lastUpload[r][c] \in Nat /\ \A f \in files[r] : f \in File /\ f.id \in FileId
  BY DEF TypeOK, File
<1>4. ASSUME NEW f \in Superseded(files[r], c)
      PROVE  /\ f.id.upload <= lastUpload'[r][f.id.category]
             /\ f.current <=> f.id.upload = lastUpload'[r][f.id.category]
  <2>1. PICK g \in files[r] : f = IF g.id.category = c THEN [g EXCEPT !.current = FALSE] ELSE g
    BY DEF Superseded
  <2>2. g.id.upload \in Nat /\ g.id.category \in Categories /\ g.id.upload <= lastUpload[r][g.id.category]
    BY <1>3 DEF FilesKept, FileId
  <2>3. CASE g.id.category = c
    <3>1. f.id = g.id /\ f.current = FALSE
      BY <1>3, <2>1, <2>3 DEF File
    <3>2. g.id.upload <= lastUpload[r][c] /\ lastUpload'[r][g.id.category] = lastUpload[r][c] + 1
      BY <1>2, <2>2, <2>3
    <3> QED
      BY <1>3, <2>2, <3>1, <3>2
  <2>4. CASE g.id.category # c
    BY <1>2, <2>1, <2>2, <2>4 DEF FilesKept
  <2> QED
    BY <2>3, <2>4
<1>5. ASSUME NEW f \in Stored(c, upload, op[h].count)
      PROVE  f.id.category = c /\ f.id.upload = upload /\ f.current = TRUE
  BY DEF Stored
<1>6. upload \in Nat /\ upload <= upload
  BY <1>3
<1> HIDE DEF upload
<1>7. \A f \in files'[r] : /\ f.id.upload <= lastUpload'[r][f.id.category]
                           /\ f.current <=> f.id.upload = lastUpload'[r][f.id.category]
  BY <1>2, <1>4, <1>5, <1>6
<1> QED
  BY <1>2, <1>7 DEF FilesKept

\* Only the end of an upload and of a removal touch the files.
LEMMA FilesMove ==
    ASSUME [Next]_vars, ~\E h \in Handlers : CommitUpload(h) \/ WriteRemove(h)
    PROVE  UNCHANGED <<files, lastUpload>>
<1>1. ASSUME NEW h \in Handlers, NEW r \in Requests, NEW u \in Users,
             \/ ReadForSubmit(h, r, u)
             \/ \E f \in Forms \cup {None}, checked \in BOOLEAN : ReadForEdit(h, r, u, f, checked)
             \/ ReadForDelete(h, r, u)
             \/ \E target \in Statuses : LockForStatus(h, r, u, target)
             \/ \E c \in Categories, count \in 0..MaxFiles : LockForUpload(h, r, u, c, count)
             \/ \E f \in files[r] : ReadForRemove(h, r, u, f)
      PROVE  UNCHANGED <<files, lastUpload>>
  BY <1>1 DEF ReadForSubmit, ReadForEdit, ReadForDelete, LockForStatus, LockForUpload, ReadForRemove
<1>2. ASSUME NEW h \in Handlers, \/ WriteSubmit(h) \/ RecordSubmit(h) \/ WriteEdit(h) \/ WriteDelete(h)
                                 \/ CommitStatus(h) \/ Abandon(h)
      PROVE  UNCHANGED <<files, lastUpload>>
  BY <1>2 DEF WriteSubmit, RecordSubmit, WriteEdit, WriteDelete, CommitStatus, Abandon
<1>3. ASSUME (\E r \in Requests, u \in Users, f \in Forms : Create(r, u, f)) \/ UNCHANGED vars
      PROVE  UNCHANGED <<files, lastUpload>>
  BY <1>3 DEF Create, vars
<1>4. QED
  BY <1>1, <1>2, <1>3 DEF Next

LEMMA FilesStep ==
    ASSUME TypeOK, FilesKept, [Next]_vars
    PROVE  FilesKept'
<1>1. CASE \E h \in Handlers : CommitUpload(h)
  BY <1>1, CommitFiles
<1>2. CASE \E h \in Handlers : WriteRemove(h)
  <2>1. \A r \in Requests : files'[r] \subseteq files[r]
    BY <1>2 DEF WriteRemove, TypeOK
  <2>2. UNCHANGED lastUpload
    BY <1>2 DEF WriteRemove
  <2> QED
    BY <2>1, <2>2 DEF FilesKept
<1>3. ASSUME UNCHANGED <<files, lastUpload>> PROVE FilesKept'
  BY <1>3 DEF FilesKept
<1> QED
  BY <1>1, <1>2, <1>3, FilesMove

\* While an upload holds a request, nobody else changes its row.
LEMMA UploadHoldsRow ==
    ASSUME IInv, [Next]_vars, NEW h \in Handlers, op[h].kind = "upload", op'[h] = op[h]
    PROVE  op[h].req \in Requests /\ row'[op[h].req] = row[op[h].req]
<1> DEFINE r == op[h].req
<1>1. op[h] \in Op /\ Idle.kind = "idle"
  BY DEF IInv, TypeOK, Idle
<1>2. r \in Requests /\ row[r].status \in Statuses
  BY <1>1, OpFields DEF IInv, OwnersAct
<1>3. Locked(r)
  BY DEF Locked
<1>4. \A k \in Handlers : ~Decided(r, k)
  <2> SUFFICES ASSUME NEW k \in Handlers, Decided(r, k) PROVE FALSE
    OBVIOUS
  <2>1. k = h
    BY DEF IInv, DecidesOnCurrentRow, Decided
  <2>2. QED
    BY <1>1, <2>1 DEF Decided
<1>5. \/ Unmoved(r) \/ Created(r) \/ Submitted(r) \/ Rewritten(r)
      \/ \E k \in Handlers : Decided(r, k)
  BY <1>2, RowStep DEF IInv
<1>6. Unmoved(r)
  BY <1>2, <1>3, <1>4, <1>5 DEF Created, Submitted, Rewritten, Statuses
<1>7. QED
  BY <1>2, <1>6 DEF Unmoved

LEMMA UploadsStep ==
    ASSUME IInv, UploadsOpen, [Next]_vars
    PROVE  UploadsOpen'
<1> SUFFICES ASSUME NEW h \in Handlers, op'[h].kind = "upload" PROVE row'[op'[h].req].status \in Editable
  BY DEF UploadsOpen, Editable
<1>1. CASE op'[h] = op[h]
  BY <1>1, UploadHoldsRow DEF UploadsOpen
<1>2. CASE op'[h] # op[h]
  <2>1. Began(h)
    <3>1. op'[h] # Idle
      BY DEF Idle
    <3>2. op'[h] # [kind |-> "record", actor |-> op[h].actor, req |-> op[h].req]
      OBVIOUS
    <3>3. QED
      BY <1>2, <3>1, <3>2, OpStep DEF IInv
  <2>2. QED
    BY <2>1 DEF Began, Editable
<1>3. QED
  BY <1>1, <1>2

LEMMA FilesHold == Spec => [](IInv /\ FilesKept /\ UploadsOpen)
<1>1. Init => FilesKept /\ UploadsOpen
  BY DEF Init, FilesKept, UploadsOpen, Idle
<1>2. IInv /\ FilesKept /\ UploadsOpen /\ [Next]_vars => FilesKept' /\ UploadsOpen'
  BY FilesStep, UploadsStep DEF IInv
<1>3. QED
  BY <1>1, <1>2, Inductive, PTL DEF Spec

\* The current files of a category are those left of its last upload, however
\* uploads, removals and lost connections follow one another.
THEOREM CurrentFilesAreLatest == Spec => []CurrentIsLatestUpload
<1>1. FilesKept => CurrentIsLatestUpload
  BY DEF FilesKept, CurrentIsLatestUpload
<1>2. QED
  BY <1>1, FilesHold, PTL

\* While a reviewer has a request its files can only be removed: an upload that
\* passed its checks holds the row until its files are stored.
THEOREM ReviewSeesNoUpload == Spec => NoUploadUnderReview
<1>1. ASSUME IInv, UploadsOpen, [Next]_vars, NEW r \in Requests, row[r].status \notin Editable
      PROVE  files'[r] \subseteq files[r]
  <2>0. TypeOK
    BY <1>1 DEF IInv
  <2>1. ASSUME NEW h \in Handlers, CommitUpload(h) PROVE files'[r] \subseteq files[r]
    <3>1. op[h].req # r
      BY <1>1, <2>1 DEF UploadsOpen, CommitUpload
    <3>2. QED
      BY <2>0, <2>1, <3>1 DEF CommitUpload, TypeOK
  <2>2. ASSUME NEW h \in Handlers, WriteRemove(h) PROVE files'[r] \subseteq files[r]
    BY <2>0, <2>2 DEF WriteRemove, TypeOK
  <2>3. QED
    BY <1>1, <2>1, <2>2, FilesMove
<1>2. IInv /\ UploadsOpen /\ [Next]_vars =>
        [\A r \in Requests : row[r].status \notin Editable => files'[r] \subseteq files[r]]_vars
  BY <1>1
<1>3. QED
  BY <1>2, FilesHold, PTL DEF Spec, NoUploadUnderReview
=============================================================================
