---------------------------- MODULE LeavePayroll ----------------------------
(***************************************************************************)
(* The payroll registers of granted leave, beside the workflow that grants *)
(* and changes it (services/governmentLeavePayroll.js, with payrollLines   *)
(* of lib/governmentLeavePayrollRules.js).                                 *)
(*                                                                         *)
(* Preparing a register and acknowledging one each take the advisory lock  *)
(* hr-gov-payroll-register, read what is granted, and then write.  Grants  *)
(* and changes do not take that lock: they commit between the two.  What a *)
(* call has read is in work until it writes, and the lock is its as long.  *)
(*                                                                         *)
(* Payroll ids, hours, salary percentages and the instructions of case     *)
(* leave are left out: a line is a day of absence that is paid and debited.*)
(***************************************************************************)
EXTENDS LeaveWorkflow

CONSTANTS
    Batches,        \* batch ids that clients draw
    Periods,        \* the periods that registers are prepared for
    Exchanges       \* calls that may be in progress at once

\* A register's row in hr_gov_payroll_batches.
Row == [period: Periods, version: Nat, supersedes: Batches \cup {None}, by: Accounts,
        snapshot: [lines: SUBSET (Requests \X Days), grants: SUBSET (Requests \X (Requests \cup {None}))]]

ASSUME PeriodsAssumption == Periods \subseteq SUBSET Days /\ None \notin Batches \cup Row

\* hr_gov_payroll_batches by batch id (register), hr_gov_payroll_receipts by the
\* batch acknowledged (receipt), and what each call in progress has read (work).
Prepared == DOMAIN register
Versions(period) == {b \in Prepared : register[b].period = period}
Superseded(b) == \E c \in Prepared : register[c].supersedes = b
InForce == {b \in Prepared : ~Superseded(b)}

\* A table with one row more, under its id.
Inserted(table, id, row) == [x \in DOMAIN table \cup {id} |-> IF x = id THEN row ELSE table[x]]

-----------------------------------------------------------------------------
(* currentPayrollSnapshot: one statement reads every grant and its last change *)

GrantedIn(period) == {r \in Requests : request[r].status = "approved" /\ request[r].days \cap period # {}}
ChangedBy(r) == IF effects[r] = <<>> THEN None ELSE Latest(r).by

\* payrollLines skips changes, cancelled grants, and days past an effective end.
Lines(period) ==
    UNION {{<<r, d>> : d \in Taken(r) \cap period} : r \in {q \in GrantedIn(period) : Absence(q)}}

Snapshot(period) ==
    [lines |-> Lines(period), grants |-> {<<r, ChangedBy(r)>> : r \in GrantedIn(period)}]

-----------------------------------------------------------------------------
(* The two calls *)

\* pg_advisory_xact_lock: held from what a call reads to its end.
LockFreeFaulty == TRUE

LockFree == DOMAIN work = {}

\* Periods may not overlap, and a further version of one must differ from the last.
Prepare(h, b, u, period) ==
    /\ h \notin DOMAIN work
    /\ LockFree
    /\ u \in Central \cap able
    /\ b \notin Prepared
    /\ \A c \in Prepared : register[c].period \cap period # {} => register[c].period = period
    /\ LET last == Versions(period) \cap InForce
           seen == Snapshot(period)
       IN  /\ \A c \in last : register[c].snapshot # seen
           /\ work' = Inserted(work, h, [id |-> b, by |-> u, row |->
                        [period |-> period, version |-> Cardinality(Versions(period)) + 1,
                         supersedes |-> IF last = {} THEN None ELSE CHOOSE c \in last : TRUE,
                         by |-> u, snapshot |-> seen]])
    /\ UNCHANGED <<workflow, register, receipt>>

\* The batch id, the version of a period and the register superseded are UNIQUE.
CommitRegister(h) ==
    /\ h \in DOMAIN work /\ work[h].row # None
    /\ work[h].id \notin Prepared
    /\ \A c \in Prepared : /\ register[c].period = work[h].row.period =>
                                  register[c].version # work[h].row.version
                           /\ register[c].supersedes = None \/ register[c].supersedes # work[h].row.supersedes
    /\ register' = Inserted(register, work[h].id, work[h].row)
    /\ work' = Restrict(work, DOMAIN work \ {h})
    /\ UNCHANGED <<workflow, receipt>>

\* Another officer confirms the latest version, as long as it is what is granted.
Acknowledge(h, b, u) ==
    /\ h \notin DOMAIN work
    /\ LockFree
    /\ u \in Central \cap able
    /\ b \in InForce
    /\ b \notin DOMAIN receipt
    /\ register[b].by # u
    /\ Snapshot(register[b].period) = register[b].snapshot
    /\ work' = Inserted(work, h, [id |-> b, by |-> u, row |-> None])
    /\ UNCHANGED <<workflow, register, receipt>>

Receiving(h) == h \in DOMAIN work /\ work[h].row = None

CommitReceipt(h) ==
    /\ Receiving(h)
    /\ work[h].id \notin DOMAIN receipt
    /\ receipt' = Inserted(receipt, work[h].id, work[h].by)
    /\ work' = Restrict(work, DOMAIN work \ {h})
    /\ UNCHANGED <<workflow, register>>

\* The transaction fails or its connection is lost.
Fail(h) ==
    /\ h \in DOMAIN work
    /\ work' = Restrict(work, DOMAIN work \ {h})
    /\ UNCHANGED <<workflow, register, receipt>>

-----------------------------------------------------------------------------
PayrollNext ==
    \/ Next
    \/ \E h \in Exchanges :
          \/ \E b \in Batches, u \in Accounts :
                \/ \E period \in Periods : Prepare(h, b, u, period)
                \/ Acknowledge(h, b, u)
          \/ CommitRegister(h) \/ CommitReceipt(h) \/ Fail(h)

PayrollSpec == Init /\ [][PayrollNext]_vars

-----------------------------------------------------------------------------
(* Properties *)

LinesOf(bs) == UNION {register[b].snapshot.lines : b \in bs}

\* services/governmentLeavePayroll.js:51, "avoid duplicate instructions": the
\* registers in force instruct a day for one application in one register only.
OneInstructionPerDay ==
    \A b, c \in InForce : \A l \in register[b].snapshot.lines, m \in register[c].snapshot.lines :
        l[2] = m[2] => b = c /\ l = m

\* Registers that are up to date and cover all days together debit each entitlement
\* by what the ledger has used of it less what it was given back.
DebitsAreUse ==
    LET upToDate == {b \in InForce : register[b].snapshot = Snapshot(register[b].period)}
    IN  UNION {register[b].period : b \in upToDate} = Days =>
            \A e \in Entitlements :
                Cardinality({l \in LinesOf(upToDate) : YearOf[l[2]] = e}) =
                    -Total({p \in ledger : p.kind \in {"use", "reversal"} /\ p.ref \in Requests}, e)

\* A receipt comes from another officer than the register, and never once a later
\* version has superseded what was received.
ReceiptsAreForTheLatest ==
    /\ \A b \in DOMAIN receipt : b \in Prepared /\ receipt[b] # register[b].by
    /\ \A h \in Exchanges : Receiving(h) => work[h].id \in InForce

\* What Salary Unit is told is what was granted, once and to the day.
RegistersAgree == NoDayTwice /\ OneInstructionPerDay /\ DebitsAreUse /\ ReceiptsAreForTheLatest
=============================================================================
