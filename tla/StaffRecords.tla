---------------------------- MODULE StaffRecords ----------------------------
(***************************************************************************)
(* The staff register: employees, their Payroll IDs and reporting lines,   *)
(* and the payroll import that is previewed, reviewed row by row and       *)
(* applied (services/payrollEmployeeImport.js), beside the screens that    *)
(* change the same employees one at a time (services/                      *)
(* employeeManagement.js, services/employeeDirectory.js, routes/hr.js).    *)
(*                                                                         *)
(* An import, and an edit of a reporting line, lock every employee with    *)
(* SELECT ... ORDER BY id FOR UPDATE.  The rows that statement returns are *)
(* those there were when it began; each is locked and read as it is when   *)
(* its turn comes.  An import then reads everything afresh; an edit        *)
(* decides from the rows that were returned.                               *)
(*                                                                         *)
(* The name of an employee stands for every identity field but the         *)
(* reporting line; departments, service periods and logins only refuse.    *)
(***************************************************************************)
EXTENDS StaffRequests, FiniteSets

CONSTANTS
    FirstStaff,     \* those there are at the start
    FirstName,      \* what they are called
    FirstId,        \* their Payroll IDs
    Names,
    PayrollIds,
    Batches,        \* import batches
    Sheet           \* the rows of each batch's file

ASSUME RegisterAssumption ==
    /\ None \notin Employees \cup Names \cup PayrollIds
    /\ IsFiniteSet(Employees)
    /\ FirstStaff \subseteq Employees
    /\ FirstName \in [FirstStaff -> Names] /\ FirstId \in [FirstStaff -> PayrollIds]
    /\ \A b \in Batches : \A i \in DOMAIN Sheet[b] :
          Sheet[b][i] \in [payroll: PayrollIds, name: Names, manager: PayrollIds \cup {None}]
    /\ MaxChanges \in Nat

VARIABLES
    emp,            \* hr_employees
    owner,          \* hr_employee_external_ids: whose a Payroll ID is
    batch,          \* hr_employee_import_batches and _rows
    unseen          \* history: who was there when a reporting line was written by an
                    \* edit that had not been shown them

registerVars == <<emp, owner, batch, op, unseen, changes>>

-----------------------------------------------------------------------------
Person == [at: {"unused", "live", "deleted"}, name: Names \cup {None}, manager: Employees \cup {None}]
Nobody == [at |-> "unused", name |-> None, manager |-> None]
Decisions == {"create", "update", "review", "skip"}

InRegister == {e \in Employees : emp[e].at = "live"}
IdsOf(e) == {p \in PayrollIds : owner[p] = e}
Called(n) == {e \in InRegister : emp[e].name = n}
Managers == [e \in InRegister |-> emp[e].manager]

\* An import that is being written holds every employee it found, and its batch.
HeldFaulty(e) == FALSE
Held(e) == \E h \in Handlers : op[h].kind = "writing" /\ e \in op[h].locked
BatchFree(b) == \A h \in Handlers : op[h].kind = "writing" => op[h].batch # b

RegisterInit ==
    /\ emp = [e \in Employees |->
                IF e \in FirstStaff THEN [at |-> "live", name |-> FirstName[e], manager |-> None] ELSE Nobody]
    /\ owner = [p \in PayrollIds |->
                IF \E e \in FirstStaff : FirstId[e] = p THEN CHOOSE e \in FirstStaff : FirstId[e] = p ELSE None]
    /\ batch = [b \in Batches |-> [at |-> "none"]]
    /\ op = [h \in Handlers |-> Idle]
    /\ unseen = {} /\ changes = 0

-----------------------------------------------------------------------------
(* Reporting lines: who is n steps above an employee, for as many steps as there are people *)

Line(mgr, e) ==
    LET up[n \in 0..Cardinality(Employees)] ==
            IF n = 0 THEN e ELSE IF up[n - 1] \in DOMAIN mgr THEN mgr[up[n - 1]] ELSE None
    IN  up

\* The loop over the managers of m meets e, or somebody a second time.
ClosesFaulty(mgr, e, m) == m = e
Closes(mgr, e, m) ==
    \/ \E n \in 0..Cardinality(Employees) : Line(mgr, m)[n] = e
    \/ Line(mgr, m)[Cardinality(Employees)] # None

OnCycle(mgr, e) == \E n \in 1..Cardinality(Employees) : Line(mgr, e)[n] = e

-----------------------------------------------------------------------------
(* The rows of an import *)

Rows(b) == DOMAIN Sheet[b]
Selected(b, rows) == {i \in Rows(b) : rows[i].decision \in {"create", "update"}}
Targets(b, rows) == {rows[i].target : i \in Selected(b, rows)}

\* expectedHash: what a reviewer of the row relies on, None where there is nobody.
Record(e) == IF e \in InRegister THEN [id |-> e, is |-> emp[e]] ELSE None
Hash(b, i, decision, target) ==
    [employee |-> IF decision = "update" THEN Record(target) ELSE None,
     ids |-> IF decision = "update" THEN IdsOf(target) ELSE {},
     manager |-> IF Sheet[b][i].manager = None THEN None ELSE Record(owner[Sheet[b][i].manager])]

\* The manager a row names: the row of the same import first, then the register.
ManagerOf(b, rows, i) ==
    LET named == {j \in Selected(b, rows) : Sheet[b][j].payroll = Sheet[b][i].manager}
    IN  IF named # {} THEN rows[CHOOSE j \in named : TRUE].target ELSE owner[Sheet[b][i].manager]

\* The reporting lines as the import would leave them.
Proposed(b, rows) ==
    [e \in InRegister \cup Targets(b, rows) |->
        IF \E i \in Selected(b, rows) : rows[i].target = e /\ Sheet[b][i].manager # None
        THEN ManagerOf(b, rows, CHOOSE i \in Selected(b, rows) : rows[i].target = e)
        ELSE IF e \in InRegister THEN emp[e].manager ELSE None]

Ready(b, rows, i) ==
    LET row == rows[i]
        data == Sheet[b][i]
    IN  /\ row.decision # "review"
        /\ row.decision = "update" <=> row.target \in InRegister
        /\ row.decision = "create" /\ ~row.reasoned => Called(data.name) = {}
        /\ owner[data.payroll] \in {None, row.target}
        /\ \A j \in Selected(b, rows) \ {i} : rows[j].target # row.target
        /\ Hash(b, i, row.decision, row.target) = row.hash
        /\ data.manager # None => ManagerOf(b, rows, i) \notin {None, row.target}
        /\ ~OnCycle(Proposed(b, rows), row.target)

NothingBlocked(b, rows) == \A i \in Rows(b) : rows[i].decision = "skip" \/ Ready(b, rows, i)

\* randomUUID: an id nobody has and no row of a batch was given.
Promised == UNION {Targets(b, batch[b].rows) : b \in {x \in Batches : batch[x].at = "preview"}}
NewIds == {e \in Employees : emp[e].at = "unused"} \ Promised

-----------------------------------------------------------------------------
(* POST /imports/preview, PUT /:id/rows/:n and POST /:id/refresh *)

FirstDecision(b, i) ==
    LET data == Sheet[b][i]
        twice == \E j \in Rows(b) \ {i} : Sheet[b][j].name = data.name
    IN  IF owner[data.payroll] # None THEN "update"
        ELSE IF Called(data.name) # {} \/ twice THEN "review" ELSE "create"

\* The batch and its rows are one transaction; the same file again is the same batch.
PreviewImport(b) ==
    /\ batch[b].at = "none"
    /\ \E fresh \in [Rows(b) -> NewIds \cup {None}] :
        LET Target(i) == IF FirstDecision(b, i) = "update" THEN owner[Sheet[b][i].payroll] ELSE fresh[i]
        IN  /\ \A i \in Rows(b) : fresh[i] # None <=> FirstDecision(b, i) = "create"
            /\ \A i, j \in Rows(b) : i # j => fresh[i] = None \/ fresh[i] # fresh[j]
            /\ batch' = [batch EXCEPT ![b] = [at |-> "preview", rev |-> 1, rows |->
                [i \in Rows(b) |-> [decision |-> FirstDecision(b, i), target |-> Target(i), reasoned |-> FALSE,
                    hash |-> IF FirstDecision(b, i) = "review" THEN None
                             ELSE Hash(b, i, FirstDecision(b, i), Target(i))]]]]
    /\ UNCHANGED <<emp, owner, op, unseen, changes>>

\* A review decision takes the row's facts as they are by now; it is made at the batch's
\* current revision, and makes the next one.
NextRevision(rev) == rev + 1

DecideRow(b, i, decision, target) ==
    /\ Change /\ batch[b].at = "preview" /\ BatchFree(b)
    /\ CASE decision = "update" -> target \in InRegister
         [] decision = "create" -> target \in NewIds
         [] decision = "skip" -> target = None
    /\ decision # "skip" => owner[Sheet[b][i].payroll] \in {None, target}
    /\ batch' = [batch EXCEPT ![b].rev = NextRevision(@),
            ![b].rows[i] = [decision |-> decision, target |-> target, reasoned |-> TRUE,
                hash |-> IF decision = "skip" THEN None ELSE Hash(b, i, decision, target)]]
    /\ UNCHANGED <<emp, owner, op, unseen>>

Refresh(b) ==
    /\ Change /\ batch[b].at = "preview" /\ BatchFree(b)
    /\ batch' = [batch EXCEPT ![b].rev = NextRevision(@), ![b].rows =
            [i \in Rows(b) |-> IF i \in Selected(b, @)
                THEN [@[i] EXCEPT !.hash = Hash(b, i, batch[b].rows[i].decision, batch[b].rows[i].target)]
                ELSE @[i]]]
    /\ UNCHANGED <<emp, owner, op, unseen>>

-----------------------------------------------------------------------------
(* What HR is shown, and POST /:id/apply *)

\* readPayrollImport: the batch, then its rows, then the register, in statements of their own.
ReadBatch(h, b) ==
    /\ op[h] = Idle /\ batch[b].at = "preview"
    /\ Go(h, [kind |-> "reading", batch |-> b, rev |-> batch[b].rev])
    /\ UNCHANGED <<emp, owner, batch, unseen, changes>>

ReadRows(h) ==
    /\ op[h].kind = "reading"
    /\ Go(h, [kind |-> "evaluating", batch |-> op[h].batch, rev |-> op[h].rev, shown |-> batch[op[h].batch].rows])
    /\ UNCHANGED <<emp, owner, batch, unseen, changes>>

\* An import is applied by somebody who was shown nothing blocked.
Evaluate(h) ==
    /\ op[h].kind = "evaluating"
    /\ IF NothingBlocked(op[h].batch, op[h].shown) THEN Go(h, [op[h] EXCEPT !.kind = "shown"]) ELSE Done(h)
    /\ UNCHANGED <<emp, owner, batch, unseen, changes>>

\* The advisory lock, the batch and every employee are locked, and everything is read again.
\* A batch that was applied meanwhile answers with its result.
LockForApply(h) ==
    /\ op[h].kind = "shown"
    /\ \A g \in Handlers : op[g].kind # "writing"
    /\ LET b == op[h].batch IN
        IF batch[b].at = "preview" /\ batch[b].rev = op[h].rev /\ NothingBlocked(b, batch[b].rows)
        THEN Go(h, [kind |-> "writing", batch |-> b, shown |-> op[h].shown, locked |-> InRegister])
        ELSE Done(h)
    /\ UNCHANGED <<emp, owner, batch, unseen, changes>>

\* A Payroll ID somebody else was given meanwhile: ON CONFLICT ... WHERE returns no row.
IdTakenFaulty(b, rows) == FALSE
IdTaken(b, rows) == \E i \in Selected(b, rows) : owner[Sheet[b][i].payroll] \notin {None, rows[i].target}

\* The rows are written in one transaction, which a Payroll ID that was taken rolls back.
WriteImport(h) ==
    /\ op[h].kind = "writing"
    /\ LET b == op[h].batch
           rows == batch[b].rows
           RowFor(e) == CHOOSE i \in Selected(b, rows) : rows[i].target = e
       IN  IF IdTaken(b, rows) THEN UNCHANGED <<emp, owner, batch>>
           ELSE /\ emp' = [e \in Employees |->
                    IF e \notin Targets(b, rows) THEN emp[e]
                    ELSE [at |-> "live", name |-> Sheet[b][RowFor(e)].name, manager |-> Proposed(b, rows)[e]]]
                /\ owner' = [p \in PayrollIds |->
                    IF \E i \in Selected(b, rows) : Sheet[b][i].payroll = p
                    THEN rows[CHOOSE i \in Selected(b, rows) : Sheet[b][i].payroll = p].target ELSE owner[p]]
                /\ batch' = [batch EXCEPT ![b].at = "applied"]
    /\ Done(h)
    /\ UNCHANGED <<unseen, changes>>

-----------------------------------------------------------------------------
(* One employee at a time *)

\* POST /hr/directory: an employee with a Payroll ID and no manager.
CreateManaged(e, n, p) ==
    /\ Change /\ e \in NewIds /\ owner[p] = None
    /\ emp' = [emp EXCEPT ![e] = [at |-> "live", name |-> n, manager |-> None]]
    /\ owner' = [owner EXCEPT ![p] = e]
    /\ UNCHANGED <<batch, op, unseen>>

\* POST /hr/employees: no Payroll ID; the foreign key waits for a manager who is locked.
CreateUnverified(e, n, m) ==
    /\ Change /\ e \in NewIds
    /\ m \in InRegister \cup {None} /\ ~Held(m)
    /\ emp' = [emp EXCEPT ![e] = [at |-> "live", name |-> n, manager |-> m]]
    /\ UNCHANGED <<owner, batch, op, unseen>>

\* POST /:id/external-ids, under the employee's row.
AddPayrollId(e, p) ==
    /\ Change /\ e \in InRegister /\ ~Held(e) /\ owner[p] = None
    /\ owner' = [owner EXCEPT ![p] = e]
    /\ UNCHANGED <<emp, batch, op, unseen>>

\* PUT /hr/employees/:id without a reporting line: an UPDATE of the row.
Rename(e, n) ==
    /\ Change /\ e \in InRegister /\ ~Held(e) /\ emp[e].name # n
    /\ emp' = [emp EXCEPT ![e].name = n]
    /\ UNCHANGED <<owner, batch, op, unseen>>

\* PUT /:id/details and PUT /hr/employees/:id with one: the statement that locks every
\* employee begins ...
StartEdit(h, e, m) ==
    /\ op[h] = Idle /\ Change /\ e \in InRegister
    /\ Go(h, [kind |-> "editing", employee |-> e, manager |-> m, seen |-> InRegister])
    /\ UNCHANGED <<emp, owner, batch, unseen>>

\* ... and returns those it began with who are still there, as they are by then; the name is
\* written with the reporting line.
FinishEdit(h, n) ==
    /\ op[h].kind = "editing"
    /\ \A e \in op[h].seen : ~Held(e)
    /\ LET e == op[h].employee
           m == op[h].manager
           rows == [x \in op[h].seen \cap InRegister |-> emp[x].manager]
       IN  IF e \in DOMAIN rows /\ m \in DOMAIN rows \cup {None} /\ ~(m # None /\ Closes(rows, e, m))
           THEN /\ emp' = [emp EXCEPT ![e].manager = m, ![e].name = n]
                /\ unseen' = unseen \cup (InRegister \ op[h].seen)
           ELSE UNCHANGED <<emp, unseen>>
    /\ Done(h)
    /\ UNCHANGED <<owner, batch, changes>>

\* DELETE /hr/employees/:id: nobody reports to the employee when it is read, and there is no
\* Payroll ID when the row goes; whoever was sent to report there meanwhile has no manager.
StartDelete(h, e) ==
    /\ op[h] = Idle /\ Change /\ e \in InRegister
    /\ \A x \in InRegister : emp[x].manager # e
    /\ Go(h, [kind |-> "deleting", employee |-> e])
    /\ UNCHANGED <<emp, owner, batch, unseen>>

FinishDelete(h) ==
    /\ op[h].kind = "deleting"
    /\ LET e == op[h].employee IN
        /\ \A x \in InRegister : x = e \/ emp[x].manager = e => ~Held(x)
        /\ emp' = IF e \in InRegister /\ IdsOf(e) = {}
                  THEN [x \in Employees |->
                        IF x = e THEN [emp[e] EXCEPT !.at = "deleted", !.manager = None]
                        ELSE IF emp[x].manager = e THEN [emp[x] EXCEPT !.manager = None] ELSE emp[x]]
                  ELSE emp
    /\ Done(h)
    /\ UNCHANGED <<owner, batch, unseen, changes>>

\* A request ends early: the process stopped, or its transaction was rolled back.
Abandon(h) ==
    /\ op[h] # Idle
    /\ Done(h)
    /\ UNCHANGED <<emp, owner, batch, unseen, changes>>

RegisterNext ==
    \/ \E b \in Batches :
        \/ PreviewImport(b) \/ Refresh(b)
        \/ \E i \in Rows(b), d \in {"create", "update", "skip"}, t \in Employees \cup {None} : DecideRow(b, i, d, t)
    \/ \E e \in Employees, n \in Names :
        \/ Rename(e, n)
        \/ \E p \in PayrollIds : CreateManaged(e, n, p)
        \/ \E m \in Employees \cup {None} : CreateUnverified(e, n, m)
    \/ \E e \in Employees, p \in PayrollIds : AddPayrollId(e, p)
    \/ \E h \in Handlers :
        \/ \E b \in Batches : ReadBatch(h, b)
        \/ ReadRows(h) \/ Evaluate(h) \/ LockForApply(h) \/ WriteImport(h)
        \/ \E e \in Employees, m \in Employees \cup {None} : StartEdit(h, e, m)
        \/ \E n \in Names : FinishEdit(h, n)
        \/ \E e \in Employees : StartDelete(h, e)
        \/ FinishDelete(h) \/ Abandon(h)

RegisterSpec == RegisterInit /\ [][RegisterNext]_registerVars

-----------------------------------------------------------------------------
Row == [decision: Decisions, target: Employees \cup {None}, reasoned: BOOLEAN,
        hash: {None} \cup [employee: {None} \cup [id: Employees, is: Person], ids: SUBSET PayrollIds,
                           manager: {None} \cup [id: Employees, is: Person]]]

RegisterTypes ==
    /\ emp \in [Employees -> Person]
    /\ owner \in [PayrollIds -> Employees \cup {None}]
    /\ \A b \in Batches : batch[b].at # "none" =>
        /\ batch[b].at \in {"preview", "applied"} /\ batch[b].rev \in Nat
        /\ DOMAIN batch[b].rows = Rows(b) /\ \A i \in Rows(b) : batch[b].rows[i] \in Row
    /\ \A h \in Handlers : op[h].kind = "writing" => op[h].locked \subseteq Employees
    /\ unseen \subseteq Employees /\ changes \in 0..MaxChanges

\* Payroll IDs and managers are people in the register, through every deletion.
NobodyDangles ==
    /\ \A p \in PayrollIds : owner[p] # None => owner[p] \in InRegister
    /\ \A e \in InRegister : emp[e].manager # None => emp[e].manager \in InRegister

\* The locks keep edits and imports from closing a reporting line on each other: a circle
\* passes through somebody who joined while an edit of it was waiting for them.
CirclesNeedNewcomers ==
    \A e \in InRegister : OnCycle(Managers, e) =>
        \E n \in 1..Cardinality(Employees) : Line(Managers, e)[n] \in unseen

\* The register has its types, and its reporting lines lead to people and, but for newcomers,
\* not in circles.
RegisterInv == RegisterTypes /\ NobodyDangles /\ CirclesNeedNewcomers

\* What an import writes is what whoever applied it was shown: the same decision for every
\* row, on employees, managers and Payroll IDs that are still as they were then.
AppliedAsShown ==
    [][\A h \in Handlers : \A b \in Batches :
        batch[b].at = "preview" /\ batch'[b].at = "applied" /\ op[h].kind = "writing" /\ op[h].batch = b =>
            \A i \in Rows(b) :
                LET row == batch[b].rows[i] IN
                    /\ row = op[h].shown[i]
                    /\ row.decision # "skip" => Hash(b, i, row.decision, row.target) = row.hash]_registerVars

\* payrollEmployeeImport.js:217, "A verified Payroll ID cannot be reassigned by import", nor by
\* anything else: once an employee's, it stays that employee's.
PayrollIdsStay == [][\A p \in PayrollIds : owner[p] # None => owner'[p] = owner[p]]_registerVars

\* hr.js:855, "the managed screen's reporting-line invariant": no circles at all.  An edit does
\* not see who an import that it waits for adds, and can close a circle over them.
NoManagerCycle == \A e \in InRegister : ~OnCycle(Managers, e)
=============================================================================
