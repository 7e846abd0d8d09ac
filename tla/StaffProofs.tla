---------------------------- MODULE StaffProofs -----------------------------
(***************************************************************************)
(* What Accounts guarantees with any number of accounts, employees,        *)
(* addresses, links and requests in progress; and what StaffRecords        *)
(* guarantees of the same employees' register, with any number of Payroll  *)
(* IDs, imports and rows.                                                  *)
(***************************************************************************)
EXTENDS Accounts, StaffRecords, ArithmeticFacts, TLAPS

-----------------------------------------------------------------------------
(* Accounts: the inductive invariant *)

\* Whoever approves a sign-up writes to the account that was made for it.
SignupsKept ==
    /\ \A a \in Ids : account[a].at = "unused" => account[a].for = None
    /\ \A h \in Handlers : op[h].kind \in {"granting", "marking"} => account[op[h].account].for = op[h].address
    /\ \A h \in Handlers : op[h].kind = "marking" => account[op[h].account].granted

\* A link that still works is an employee's, and of the time since their account was last offboarded.
LinksCurrent ==
    \A t \in Tokens : token[t].at = "open" =>
        token[t].employee \in Employees /\ token[t].round = offboardings[token[t].account]

\* A preview that would link somebody showed nobody's login.
CohortKept ==
    cohort.at # "none" =>
        /\ cohort.decision = "link" => cohort.facts.active /\ cohort.facts.payrollIds = 1
        /\ cohort.facts.active /\ cohort.facts.payrollIds = 1 /\ cohort.decision # "retain" => cohort.facts.login = None

AccountsInv == IdentityInv /\ SignupsKept /\ LinksCurrent /\ CohortKept

-----------------------------------------------------------------------------
(* Accounts: types *)

LEMMA OpFields ==
    ASSUME TypeOK, NEW h \in Handlers
    PROVE  /\ op[h] \in Op
           /\ op[h].kind \in {"signing", "rejecting", "creating", "granting", "marking"} => op[h].address \in Addresses
           /\ op[h].kind \in {"granting", "marking", "deleting", "assigning", "linking"} => op[h].account \in Ids
           /\ op[h].kind = "assigning" => op[h].employee \in Employees \cup {None} /\ op[h].was \in Employees \cup {None}
           /\ op[h].kind = "linking" => op[h].employee \in Employees /\ op[h].email \in Contact
           /\ op[h].kind = "activating" => op[h].token \in Tokens
<1>1. op[h] \in Op
  BY DEF TypeOK
<1> QED
  BY <1>1 DEF Op, Idle

LEMMA RowFields ==
    ASSUME TypeOK
    PROVE  /\ \A a \in Ids : account[a] \in Account
           /\ \A e \in Employees : employee[e] \in Employee /\ LoginOf(e) \in Live \cup {None} /\ LoginOf(e) \in Ids \cup {None}
           /\ \A t \in Tokens : token[t] \in Token
           /\ None \notin Ids
BY NoneAssumption DEF TypeOK, Live

LEMMA OpenFields ==
    ASSUME TypeOK, LiveLinksPointHome, LinksCurrent, NEW t \in Tokens, token[t].at = "open"
    PROVE  /\ token[t].account \in Ids /\ token[t].employee \in Employees
           /\ account[token[t].account].at = "live" /\ account[token[t].account].kind = "employee"
           /\ employee[token[t].employee].login = token[t].account
<1>1. /\ token[t].account \in Ids /\ account[token[t].account].at = "live"
      /\ account[token[t].account].kind = "employee" /\ LoginOf(token[t].employee) = token[t].account
  BY DEF LiveLinksPointHome, Live
<1>2. token[t].employee \in Employees
  BY DEF LinksCurrent
<1> QED
  BY <1>1, <1>2 DEF LoginOf

LEMMA GoType ==
    ASSUME TypeOK, NEW h \in Handlers, NEW state \in Op, Go(h, state)
    PROVE  /\ op' \in [Handlers -> Op] /\ op'[h] = state
           /\ \A g \in Handlers : g # h => op'[g] = op[g]
BY DEF TypeOK, Go

LEMMA DoneType ==
    ASSUME TypeOK, NEW h \in Handlers, Done(h)
    PROVE  /\ op' \in [Handlers -> Op] /\ op'[h].kind = "idle"
           /\ \A g \in Handlers : g # h => op'[g] = op[g]
<1>1. Idle \in Op /\ Idle.kind = "idle"
  BY DEF Op, Idle
<1> QED
  BY <1>1, GoType DEF Done

\* Links that are revoked do not work, and nothing else changes of any link.
LEMMA RevokeType ==
    ASSUME NEW links \in [Tokens -> Token], NEW gone \in SUBSET (Ids \cup {None})
    PROVE  /\ Revoke(gone, links) \in [Tokens -> Token]
           /\ \A t \in Tokens : Revoke(gone, links)[t].at = "open" =>
                                   Revoke(gone, links)[t] = links[t] /\ links[t].account \notin gone
           /\ \A t \in Tokens : Revoke(gone, links)[t].at = "consumed" => links[t].at = "consumed"
<1>1. ASSUME NEW t \in Tokens
      PROVE  /\ Revoke(gone, links)[t] \in Token
             /\ Revoke(gone, links)[t].at = "open" => Revoke(gone, links)[t] = links[t] /\ links[t].account \notin gone
             /\ Revoke(gone, links)[t].at = "consumed" => links[t].at = "consumed"
  <2>1. CASE links[t].at = "open" /\ links[t].account \in gone
    <3>1. Revoke(gone, links)[t] = [links[t] EXCEPT !.at = "revoked"] /\ links[t] \in Token
      BY <2>1 DEF Revoke
    <3> QED
      BY <3>1 DEF Token
  <2>2. CASE ~(links[t].at = "open" /\ links[t].account \in gone)
    BY <2>2 DEF Revoke
  <2> QED
    BY <2>1, <2>2
<1>2. Revoke(gone, links) = [t \in Tokens |-> Revoke(gone, links)[t]]
  BY DEF Revoke
<1> QED
  BY <1>1, <1>2

\* A link between an employee and a login changes that employee alone.
LEMMA LinkedType ==
    ASSUME NEW e \in Employees, NEW a \in Ids \cup {None},
           NEW accts \in [Ids -> Account], NEW emps \in [Employees -> Employee]
    PROVE  /\ Linked(e, a, accts, emps) \in [Employees -> Employee]
           /\ Linked(e, a, accts, emps)[e].login = a
           /\ \A f \in Employees : f # e => Linked(e, a, accts, emps)[f] = emps[f]
<1>1. PICK m \in Contact : m = IF a = None THEN None ELSE accts[a].email
  BY DEF Contact, Account
<1>2. PICK x : x = [emps[e] EXCEPT !.login = a, !.email = m]
  OBVIOUS
<1>3. x \in Employee /\ x.login = a
  BY <1>2 DEF Employee
<1>4. Linked(e, a, accts, emps) = [emps EXCEPT ![e] = x]
  BY <1>1, <1>2 DEF Linked
<1> QED
  BY <1>3, <1>4

LEMMA TypesInit == Init => TypeOK
<1> SUFFICES ASSUME Init PROVE TypeOK
  OBVIOUS
<1>1. Unused \in Account
  BY DEF Unused, Account, Contact
<1>2. ASSUME NEW a \in FirstAdmins
      PROVE  [Unused EXCEPT !.at = "live", !.active = TRUE, !.admin = TRUE, !.email = FirstAddress[a]] \in Account
  <2>1. FirstAddress[a] \in Contact
    BY FirstAssumption DEF Contact
  <2> QED
    BY <2>1 DEF Unused, Account, Contact
<1>3. account \in [Ids -> Account]
  BY <1>1, <1>2 DEF Init
<1>4. [active |-> TRUE, login |-> None, email |-> None, payrollIds |-> 1] \in Employee
  BY DEF Employee, Contact
<1>5. employee \in [Employees -> Employee] /\ \A e \in Employees : LoginOf(e) \in Live \cup {None}
  BY <1>4 DEF Init, LoginOf
<1>6. NoToken \in Token
  BY DEF NoToken, Token
<1>7. token \in [Tokens -> Token]
  BY <1>6 DEF Init
<1>8. cohort \in Cohort /\ op \in [Handlers -> Op]
  BY DEF Init, Cohort, Op
<1>9. signup \in [Addresses -> {"none", "pending", "approved", "rejected"}] /\ offboardings \in [Ids -> Nat]
  BY DEF Init
<1>10. changes \in 0..MaxChanges
  <2>1. changes = 0
    BY DEF Init
  <2> QED
    BY <2>1, BoundsAssumption
<1> QED
  BY <1>3, <1>5, <1>7, <1>8, <1>9, <1>10 DEF TypeOK

-----------------------------------------------------------------------------
(* What a step may do to an account *)

\* It stays what it is, it is made, or it is deleted.
Stays(x, y) == y.at = x.at /\ y.kind = x.kind /\ y.for = x.for /\ (x.granted => y.granted)
Made(x, y) == x.at = "unused" /\ y.at = "live"
Gone(x, y) == y.at = "deleted" /\ y.kind = x.kind /\ y.for = x.for /\ y.granted = x.granted

\* The actions that write to an account.
LEMMA InsertWrites ==
    ASSUME TypeOK, NEW h \in Handlers, NEW a \in Ids, InsertAccount(h, a), account' # account
    PROVE  \E x \in Account : /\ account' = [account EXCEPT ![a] = x] /\ Made(account[a], x)
                              /\ x.for = op[h].address
                              /\ op' = [op EXCEPT ![h] = [kind |-> "granting", address |-> op[h].address, account |-> a]]
<1>1. PICK m \in Addresses : m = op[h].address
  BY OpFields DEF InsertAccount
<1>2. account[a] \in Account /\ account[a].at = "unused"
  BY DEF TypeOK, InsertAccount
<1>3. PICK x : x = [account[a] EXCEPT !.at = "live", !.active = TRUE, !.email = m, !.for = m]
  OBVIOUS
<1>4. x \in Account /\ x.at = "live" /\ x.for = m
  BY <1>2, <1>3 DEF Account, Contact
<1>5. account' = [account EXCEPT ![a] = x]
  BY <1>1, <1>3 DEF InsertAccount
<1>6. op' = [op EXCEPT ![h] = [kind |-> "granting", address |-> m, account |-> a]]
  BY <1>1 DEF InsertAccount, Go
<1> QED
  BY <1>1, <1>2, <1>4, <1>5, <1>6 DEF Made

LEMMA GrantWrites ==
    ASSUME TypeOK, NEW h \in Handlers, Grant(h), account' # account
    PROVE  \E a \in Ids, x \in Account :
              /\ account' = [account EXCEPT ![a] = x] /\ Stays(account[a], x) /\ x.granted /\ a = op[h].account
              /\ Go(h, [op[h] EXCEPT !.kind = "marking"])
<1>1. PICK a \in Ids : a = op[h].account
  BY OpFields DEF Grant
<1>2. PICK x : x = [account[a] EXCEPT !.granted = TRUE]
  OBVIOUS
<1>3. x \in Account /\ Stays(account[a], x) /\ x.granted
  BY <1>2, RowFields DEF Account, Stays
<1>4. account' = [account EXCEPT ![a] = x] /\ Go(h, [op[h] EXCEPT !.kind = "marking"])
  BY <1>1, <1>2 DEF Grant
<1> QED
  BY <1>1, <1>3, <1>4

LEMMA CreateWrites ==
    ASSUME TypeOK, NEW a \in Ids, NEW m \in Addresses, NEW admin \in BOOLEAN, CreateAccount(a, m, admin)
    PROVE  \E x \in Account : account' = [account EXCEPT ![a] = x] /\ Made(account[a], x) /\ x.for = account[a].for
<1>1. PICK x : x = [account[a] EXCEPT !.at = "live", !.active = TRUE, !.admin = admin, !.email = m, !.granted = TRUE]
  OBVIOUS
<1>2. x \in Account /\ x.at = "live" /\ x.for = account[a].for
  BY <1>1, RowFields DEF Account, Contact
<1> QED
  BY <1>1, <1>2 DEF CreateAccount, Made

LEMMA UpdateWrites ==
    ASSUME TypeOK, NEW a \in Ids, NEW active \in BOOLEAN, NEW admin \in BOOLEAN, UpdateAccount(a, active, admin)
    PROVE  \E x \in Account : account' = [account EXCEPT ![a] = x] /\ Stays(account[a], x)
<1>1. PICK x : x = [account[a] EXCEPT !.active = active, !.admin = admin]
  OBVIOUS
<1>2. x \in Account /\ Stays(account[a], x)
  BY <1>1, RowFields DEF Account, Stays
<1> QED
  BY <1>1, <1>2 DEF UpdateAccount

LEMMA EmailWrites ==
    ASSUME TypeOK, NEW a \in Ids, NEW m \in Addresses, ChangeEmail(a, m)
    PROVE  \E x \in Account : account' = [account EXCEPT ![a] = x] /\ Stays(account[a], x)
<1>1. PICK x : x = [account[a] EXCEPT !.email = m]
  OBVIOUS
<1>2. x \in Account /\ Stays(account[a], x)
  BY <1>1, RowFields DEF Account, Stays, Contact
<1> QED
  BY <1>1, <1>2 DEF ChangeEmail

LEMMA DeleteWrites ==
    ASSUME TypeOK, NEW h \in Handlers, WriteDelete(h), account' # account
    PROVE  \E x \in Account : /\ account' = [account EXCEPT ![op[h].account] = x]
                              /\ Gone(account[op[h].account], x) /\ op[h].account \in Ids
<1>1. PICK a \in Ids : a = op[h].account
  BY OpFields DEF WriteDelete
<1>2. PICK x : x = [account[a] EXCEPT !.at = "deleted"]
  OBVIOUS
<1>3. x \in Account /\ Gone(account[a], x)
  BY <1>2, RowFields DEF Account, Gone
<1>4. account' = [account EXCEPT ![a] = x]
  BY <1>1, <1>2 DEF WriteDelete
<1> QED
  BY <1>1, <1>3, <1>4

LEMMA ProvisionWrites ==
    ASSUME TypeOK, NEW e \in Employees, NEW a \in Ids, NEW m \in Addresses, Provision(e, a, m)
    PROVE  \E x \in Account : account' = [account EXCEPT ![a] = x] /\ Made(account[a], x) /\ x.for = account[a].for
<1>1. PICK x : x = [account[a] EXCEPT !.at = "live", !.active = TRUE, !.kind = "employee", !.email = m, !.granted = TRUE]
  OBVIOUS
<1>2. x \in Account /\ x.at = "live" /\ x.for = account[a].for
  BY <1>1, RowFields DEF Account, Contact
<1> QED
  BY <1>1, <1>2 DEF Provision, Made

LEMMA ApplyWrites ==
    ASSUME TypeOK, NEW a \in Ids \cup {None}, Apply(a), account' # account
    PROVE  /\ a \in Ids /\ cohort.decision = "create" /\ cohort.employee \in Employees
           /\ \E x \in Account : account' = [account EXCEPT ![a] = x] /\ Made(account[a], x) /\ x.for = account[a].for
<1>1. cohort \in Cohort /\ cohort.at = "preview"
  BY DEF TypeOK, Apply
<1>2. PICK e \in Employees : e = cohort.employee
  BY <1>1 DEF Cohort, NoCohort
<1>3. PICK alias \in Employees \cup {None} : alias = IF cohort.mode = "payroll" THEN e ELSE None
  OBVIOUS
<1>4. PICK m \in Contact : m = employee[e].email
  BY RowFields DEF Employee
<1>5. a \in Ids /\ cohort.decision = "create" /\ account[a].at = "unused"
  BY DEF Apply
<1>6. PICK x : x = [account[a] EXCEPT !.at = "live", !.kind = "employee", !.state = "pending",
                                      !.email = m, !.granted = TRUE, !.alias = alias]
  OBVIOUS
<1>7. x \in Account /\ x.at = "live" /\ x.for = account[a].for
  BY <1>5, <1>6, RowFields DEF Account
<1>8. account' = [account EXCEPT ![a] = x]
  BY <1>2, <1>3, <1>4, <1>6 DEF Apply
<1> QED
  BY <1>2, <1>5, <1>7, <1>8 DEF Made

LEMMA IssueWrites ==
    ASSUME TypeOK, NEW e \in Employees, NEW t \in Tokens, NEW purpose \in {"activation", "recovery"},
           IssueLink(e, t, purpose), account' # account
    PROVE  \E a \in Ids, x \in Account : account' = [account EXCEPT ![a] = x] /\ Stays(account[a], x)
<1>1. PICK a \in Ids : a = LoginOf(e)
  BY RowFields DEF IssueLink
<1>2. PICK x : x = [account[a] EXCEPT !.active = FALSE, !.state = "pending"]
  OBVIOUS
<1>3. x \in Account /\ Stays(account[a], x)
  BY <1>2, RowFields DEF Account, Stays
<1>4. account' = [account EXCEPT ![a] = x]
  BY <1>1, <1>2 DEF IssueLink
<1> QED
  BY <1>3, <1>4

LEMMA ActivateWrites ==
    ASSUME TypeOK, NEW h \in Handlers, WriteActivate(h), account' # account
    PROVE  \E a \in Ids, x \in Account : account' = [account EXCEPT ![a] = x] /\ Stays(account[a], x)
<1>1. PICK t \in Tokens : t = op[h].token
  BY OpFields DEF WriteActivate
<1>2. PICK a \in Ids : a = token[t].account
  BY <1>1 DEF WriteActivate, Valid, Live
<1>3. PICK x : x = [account[a] EXCEPT !.active = TRUE, !.state = "ready"]
  OBVIOUS
<1>4. x \in Account /\ Stays(account[a], x)
  BY <1>3, RowFields DEF Account, Stays
<1>5. account' = [account EXCEPT ![a] = x]
  BY <1>1, <1>2, <1>3 DEF WriteActivate
<1> QED
  BY <1>4, <1>5

LEMMA OffboardWrites ==
    ASSUME TypeOK, NEW e \in Employees, Offboard(e), account' # account
    PROVE  \E a \in Ids, x \in Account : account' = [account EXCEPT ![a] = x] /\ Stays(account[a], x)
<1>1. PICK a \in Ids : a = LoginOf(e)
  BY RowFields DEF Offboard
<1>2. PICK x : x = [account[a] EXCEPT !.active = FALSE, !.state = "offboarded"]
  OBVIOUS
<1>3. x \in Account /\ Stays(account[a], x)
  BY <1>2, RowFields DEF Account, Stays
<1>4. account' = [account EXCEPT ![a] = x]
  BY <1>1, <1>2, RowFields DEF Offboard
<1> QED
  BY <1>3, <1>4

\* Steps that read, or write nothing but a sign-up request.
Quiet == UNCHANGED <<account, employee, token, cohort, offboardings>>

LEMMA QuietSteps ==
    ASSUME [Next]_vars
    PROVE  \/ Quiet
           \/ \E h \in Handlers : \/ \E a \in Ids : InsertAccount(h, a)
                                  \/ Grant(h) \/ WriteDelete(h) \/ SendAssignment(h) \/ WriteLink(h) \/ WriteActivate(h)
           \/ \E a \in Ids, m \in Addresses : ChangeEmail(a, m) \/ \E admin \in BOOLEAN : CreateAccount(a, m, admin)
           \/ \E a \in Ids, active \in BOOLEAN, admin \in BOOLEAN : UpdateAccount(a, active, admin)
           \/ \E e \in Employees :
                 \/ \E a \in Ids \cup {None} : SetLink(e, a)
                 \/ \E a \in Ids, m \in Addresses : Provision(e, a, m)
                 \/ \E active \in BOOLEAN, m \in Contact : UpdateDetails(e, active, m)
                 \/ \E mode \in {"email", "payroll"} : Preview(e, mode)
                 \/ \E t \in Tokens, purpose \in {"activation", "recovery"} : IssueLink(e, t, purpose)
                 \/ VerifyPayrollId(e) \/ Offboard(e) \/ Restore(e) \/ RevokeLinks(e)
           \/ \E a \in Ids \cup {None} : Apply(a) \/ \E decision \in {"link", "skip"} : Reconcile(decision, a)
           \/ \E t \in Tokens : ExpireLink(t)
<1>1. ASSUME NEW h \in Handlers,
             \/ \E m \in Addresses : ReadForSignup(h, m) \/ ReadForReject(h, m) \/ ReadForApprove(h, m)
             \/ \E a \in Ids, by \in Ids : ReadForDelete(h, by, a)
             \/ \E a \in Ids, e \in Employees : ReadForLink(h, e, a)
             \/ \E a \in Ids, e \in Employees \cup {None} : OpenAssignment(h, a, e)
             \/ \E t \in Tokens : ReadForActivate(h, t)
             \/ WriteSignup(h) \/ WriteReject(h) \/ MarkApproved(h) \/ Stop(h)
      PROVE  Quiet
  BY <1>1 DEF ReadForSignup, ReadForReject, ReadForApprove, ReadForDelete, ReadForLink, OpenAssignment, ReadForActivate,
     WriteSignup, WriteReject, MarkApproved, Stop, Quiet
<1>2. CASE UNCHANGED vars
  BY <1>2 DEF vars, Quiet
<1> QED
  BY <1>1, <1>2 DEF Next

LEMMA AccountStep ==
    ASSUME TypeOK, [Next]_vars, account' # account
    PROVE  \E a \in Ids, x \in Account :
              /\ account' = [account EXCEPT ![a] = x]
              /\ \/ Stays(account[a], x)
                 \/ /\ Made(account[a], x)
                    /\ x.for = account[a].for \/ x.for \in Addresses
                 \/ Gone(account[a], x) /\ \E h \in Handlers : WriteDelete(h) /\ op[h].account = a
<1>1. ASSUME NEW h \in Handlers, NEW a \in Ids, InsertAccount(h, a)
      PROVE  \E x \in Account : account' = [account EXCEPT ![a] = x] /\ Made(account[a], x) /\ x.for \in Addresses
  BY <1>1, InsertWrites, OpFields DEF InsertAccount
<1>2. ASSUME NEW h \in Handlers, WriteDelete(h)
      PROVE  \E a \in Ids, x \in Account :
                account' = [account EXCEPT ![a] = x] /\ Gone(account[a], x) /\ op[h].account = a
  BY <1>2, DeleteWrites
<1>3. ASSUME NEW h \in Handlers, Grant(h) \/ WriteActivate(h)
      PROVE  \E a \in Ids, x \in Account : account' = [account EXCEPT ![a] = x] /\ Stays(account[a], x)
  BY <1>3, GrantWrites, ActivateWrites
<1>4. CASE \/ \E a \in Ids, m \in Addresses : ChangeEmail(a, m)
           \/ \E a \in Ids, active \in BOOLEAN, admin \in BOOLEAN : UpdateAccount(a, active, admin)
           \/ \E e \in Employees, t \in Tokens, purpose \in {"activation", "recovery"} : IssueLink(e, t, purpose)
           \/ \E e \in Employees : Offboard(e)
  <2>1. \E a \in Ids, x \in Account : account' = [account EXCEPT ![a] = x] /\ Stays(account[a], x)
    BY <1>4, EmailWrites, UpdateWrites, IssueWrites, OffboardWrites
  <2> QED
    BY <2>1
<1>5. CASE \/ \E a \in Ids, m \in Addresses, admin \in BOOLEAN : CreateAccount(a, m, admin)
           \/ \E e \in Employees, a \in Ids, m \in Addresses : Provision(e, a, m)
           \/ \E a \in Ids \cup {None} : Apply(a)
  <2>1. \E a \in Ids, x \in Account :
           account' = [account EXCEPT ![a] = x] /\ Made(account[a], x) /\ x.for = account[a].for
    BY <1>5, CreateWrites, ProvisionWrites, ApplyWrites
  <2> QED
    BY <2>1
<1>6. ~Quiet
  BY DEF Quiet
<1>7. ASSUME NEW h \in Handlers, SendAssignment(h) \/ WriteLink(h)
      PROVE  FALSE
  BY <1>7 DEF SendAssignment, WriteLink
<1>8. ASSUME NEW e \in Employees,
             \/ \E a \in Ids \cup {None} : SetLink(e, a)
             \/ \E active \in BOOLEAN, m \in Contact : UpdateDetails(e, active, m)
             \/ \E mode \in {"email", "payroll"} : Preview(e, mode)
             \/ VerifyPayrollId(e) \/ Restore(e) \/ RevokeLinks(e)
      PROVE  FALSE
  BY <1>8 DEF SetLink, UpdateDetails, Preview, VerifyPayrollId, Restore, RevokeLinks
<1>9. ~\E a \in Ids \cup {None}, decision \in {"link", "skip"} : Reconcile(decision, a)
  BY DEF Reconcile
<1>10. ~\E t \in Tokens : ExpireLink(t)
  BY DEF ExpireLink
<1> QED
  BY <1>1, <1>2, <1>3, <1>4, <1>5, <1>6, <1>7, <1>8, <1>9, <1>10, QuietSteps

\* The same, of every account.
LEMMA AccountMoves ==
    ASSUME TypeOK, [Next]_vars, NEW a \in Ids
    PROVE  /\ account' \in [Ids -> Account]
           /\ \/ account'[a] = account[a]
              \/ Stays(account[a], account'[a])
              \/ /\ Made(account[a], account'[a])
                 /\ account'[a].for = account[a].for \/ account'[a].for \in Addresses
              \/ Gone(account[a], account'[a]) /\ \E h \in Handlers : WriteDelete(h) /\ op[h].account = a
<1>1. account \in [Ids -> Account]
  BY DEF TypeOK
<1>2. CASE account' = account
  BY <1>1, <1>2
<1>3. CASE account' # account
  <2>1. PICK b \in Ids, x \in Account :
              /\ account' = [account EXCEPT ![b] = x]
              /\ \/ Stays(account[b], x)
                 \/ /\ Made(account[b], x)
                    /\ x.for = account[b].for \/ x.for \in Addresses
                 \/ Gone(account[b], x) /\ \E h \in Handlers : WriteDelete(h) /\ op[h].account = b
    BY <1>3, AccountStep
  <2>2. account' \in [Ids -> Account] /\ account'[b] = x /\ (a # b => account'[a] = account[a])
    BY <1>1, <2>1
  <2>3. CASE a = b
    BY <2>1, <2>2, <2>3
  <2>4. CASE a # b
    BY <2>2, <2>4
  <2> QED
    BY <2>3, <2>4
<1> QED
  BY <1>2, <1>3
-----------------------------------------------------------------------------
(* What a step may do to an employee *)

\* The login of an employee stays, goes, or becomes an account that is live.
LoginMoves(x, y) ==
    y.login = x.login \/ y.login = None \/ (y.login \in Ids /\ account'[y.login].at = "live")

EmployeesMove == employee' \in [Employees -> Employee] /\ \A e \in Employees : LoginMoves(employee[e], employee'[e])

LEMMA OneEmployeeMoves ==
    ASSUME TypeOK, NEW e \in Employees, NEW x \in Employee, LoginMoves(employee[e], x),
           employee' = [employee EXCEPT ![e] = x]
    PROVE  EmployeesMove
<1>1. employee \in [Employees -> Employee]
  BY DEF TypeOK
<1>2. employee' \in [Employees -> Employee] /\ employee'[e] = x
  BY <1>1
<1>3. \A f \in Employees : f # e => employee'[f] = employee[f]
  BY <1>1
<1> QED
  BY <1>2, <1>3 DEF EmployeesMove, LoginMoves

LEMMA SameEmployeesMove ==
    ASSUME TypeOK, employee' = employee
    PROVE  EmployeesMove
BY DEF TypeOK, EmployeesMove, LoginMoves

\* What the links of an employee do to the employees.
LEMMA LinkMoves ==
    ASSUME TypeOK, NEW e \in Employees, NEW a \in Ids \cup {None}, MayLink(e, a), UNCHANGED account, Link(e, a)
    PROVE  EmployeesMove
<1>1. CASE LoginOf(e) = a
  BY <1>1, SameEmployeesMove DEF Link
<1>2. CASE LoginOf(e) # a
  <2>1. employee' = Linked(e, a, account, employee)
    BY <1>2 DEF Link
  <2>2. account \in [Ids -> Account] /\ employee \in [Employees -> Employee]
    BY DEF TypeOK
  <2>3. /\ employee' \in [Employees -> Employee] /\ employee'[e].login = a
        /\ \A f \in Employees : f # e => employee'[f] = employee[f]
    <3>1. /\ Linked(e, a, account, employee) \in [Employees -> Employee]
          /\ Linked(e, a, account, employee)[e].login = a
          /\ \A f \in Employees : f # e => Linked(e, a, account, employee)[f] = employee[f]
      BY <2>2, LinkedType
    <3> QED
      BY <2>1, <3>1
  <2>4. a # None => a \in Ids /\ account'[a].at = "live"
    BY DEF MayLink
  <2> QED
    BY <2>3, <2>4 DEF EmployeesMove, LoginMoves
<1> QED
  BY <1>1, <1>2

LEMMA ChangeEmailMoves ==
    ASSUME TypeOK, NEW a \in Ids, NEW m \in Addresses, ChangeEmail(a, m)
    PROVE  EmployeesMove
<1>1. ASSUME NEW e \in Employees
      PROVE  employee'[e] \in Employee /\ employee'[e].login = employee[e].login
  <2>1. PICK x : x = [employee[e] EXCEPT !.email = m]
    OBVIOUS
  <2>2. x \in Employee /\ x.login = employee[e].login
    BY <2>1, RowFields DEF Employee, Contact
  <2>3. employee'[e] = IF LoginOf(e) = a THEN x ELSE employee[e]
    BY <2>1 DEF ChangeEmail
  <2> QED
    BY <2>2, <2>3, RowFields
<1>2. employee' = [e \in Employees |-> employee'[e]]
  BY DEF ChangeEmail
<1> QED
  BY <1>1, <1>2 DEF EmployeesMove, LoginMoves

LEMMA DeleteMoves ==
    ASSUME TypeOK, NEW h \in Handlers, WriteDelete(h)
    PROVE  /\ EmployeesMove
           /\ account' # account => \A e \in Employees : employee'[e].login # op[h].account
<1>1. CASE employee' = employee /\ account' = account
  BY <1>1, SameEmployeesMove
<1>2. CASE ~(employee' = employee /\ account' = account)
  <2>1. PICK a \in Ids : a = op[h].account
    BY OpFields DEF WriteDelete
  <2>2. employee' = [e \in Employees |-> IF LoginOf(e) = a THEN [employee[e] EXCEPT !.login = None] ELSE employee[e]]
    BY <1>2, <2>1 DEF WriteDelete
  <2>3. ASSUME NEW e \in Employees
        PROVE  /\ employee'[e] \in Employee /\ employee'[e].login \in {employee[e].login, None}
               /\ employee'[e].login # a
    <3>1. PICK x : x = [employee[e] EXCEPT !.login = None]
      OBVIOUS
    <3>2. x \in Employee /\ x.login = None /\ a # None
      BY <3>1, RowFields DEF Employee
    <3>3. employee'[e] = IF LoginOf(e) = a THEN x ELSE employee[e]
      BY <2>2, <3>1
    <3> QED
      BY <3>2, <3>3, RowFields DEF LoginOf
  <2>4. employee' \in [Employees -> Employee]
    <3>1. employee' = [e \in Employees |-> employee'[e]]
      BY <2>2
    <3> QED
      BY <2>3, <3>1
  <2> QED
    BY <2>1, <2>3, <2>4 DEF EmployeesMove, LoginMoves
<1> QED
  BY <1>1, <1>2
-----------------------------------------------------------------------------
(* What a step may do to a link *)

\* A link that still works is the one it was, with the same login and no offboarding since.
LinkKept(t) ==
    /\ token'[t] = token[t]
    /\ employee'[token[t].employee].login = token[t].account
    /\ offboardings'[token[t].account] = offboardings[token[t].account]

Steady ==
    /\ EmployeesMove
    /\ token' \in [Tokens -> Token]
    /\ \A t \in Tokens : token'[t].at = "open" => LinkKept(t)
    /\ \A t \in Tokens : token'[t].at = "consumed" => token[t].at = "consumed"

Homes == TypeOK /\ LiveLinksPointHome /\ LinksCurrent

LEMMA RevokedSteady ==
    ASSUME Homes, NEW gone \in SUBSET (Ids \cup {None}), token' = Revoke(gone, token), EmployeesMove,
           \A b \in Ids \ gone : offboardings'[b] = offboardings[b],
           \A e \in Employees : employee[e].login \in Ids \ gone => employee'[e].login = employee[e].login
    PROVE  Steady
<1>1. token \in [Tokens -> Token]
  BY DEF TypeOK, Homes
<1>2. /\ token' \in [Tokens -> Token]
      /\ \A t \in Tokens : token'[t].at = "open" => token'[t] = token[t] /\ token[t].account \notin gone
      /\ \A t \in Tokens : token'[t].at = "consumed" => token[t].at = "consumed"
  <2>1. /\ Revoke(gone, token) \in [Tokens -> Token]
        /\ \A t \in Tokens : Revoke(gone, token)[t].at = "open" =>
                                Revoke(gone, token)[t] = token[t] /\ token[t].account \notin gone
        /\ \A t \in Tokens : Revoke(gone, token)[t].at = "consumed" => token[t].at = "consumed"
    <3>1. PICK links \in [Tokens -> Token] : links = token
      BY <1>1
    <3>2. /\ Revoke(gone, links) \in [Tokens -> Token]
          /\ \A t \in Tokens : Revoke(gone, links)[t].at = "open" =>
                                  Revoke(gone, links)[t] = links[t] /\ links[t].account \notin gone
          /\ \A t \in Tokens : Revoke(gone, links)[t].at = "consumed" => links[t].at = "consumed"
      BY <3>1, RevokeType
    <3> QED
      BY <3>1, <3>2
  <2> QED
    BY <2>1
<1>3. ASSUME NEW t \in Tokens, token'[t].at = "open"
      PROVE  LinkKept(t)
  <2>1. token'[t] = token[t] /\ token[t].account \notin gone /\ token[t].at = "open"
    BY <1>2, <1>3
  <2>2. token[t].account \in Ids /\ token[t].employee \in Employees /\ employee[token[t].employee].login = token[t].account
    BY <2>1, OpenFields DEF Homes
  <2> QED
    BY <2>1, <2>2 DEF LinkKept
<1> QED
  BY <1>2, <1>3 DEF Steady

LEMMA KeptSteady ==
    ASSUME Homes, token' = token, EmployeesMove, offboardings' = offboardings,
           \A e \in Employees : employee[e].login \in Ids => employee'[e].login = employee[e].login
    PROVE  Steady
<1>1. token \in [Tokens -> Token]
  BY DEF TypeOK, Homes
<1>2. ASSUME NEW t \in Tokens, token'[t].at = "open"
      PROVE  LinkKept(t)
  <2>1. token[t].account \in Ids /\ token[t].employee \in Employees /\ employee[token[t].employee].login = token[t].account
    BY <1>2, OpenFields DEF Homes
  <2> QED
    BY <2>1 DEF LinkKept
<1> QED
  BY <1>1, <1>2 DEF Steady

LEMMA QuietSteady ==
    ASSUME Homes, Quiet
    PROVE  Steady
BY SameEmployeesMove, KeptSteady DEF Quiet, Homes

LEMMA LinkSteady ==
    ASSUME Homes, NEW e \in Employees, NEW a \in Ids \cup {None}, MayLink(e, a), UNCHANGED <<account, offboardings>>,
           Link(e, a)
    PROVE  Steady
<1>1. EmployeesMove
  BY LinkMoves DEF Homes
<1>2. CASE LoginOf(e) = a
  BY <1>1, <1>2, KeptSteady DEF Link
<1>3. CASE LoginOf(e) # a
  <2>1. employee' = Linked(e, a, account, employee) /\ token' = Revoke(Unlinks(e, a), token)
    BY <1>3 DEF Link
  <2>2. \A f \in Employees : f # e => employee'[f] = employee[f]
    <3>1. account \in [Ids -> Account] /\ employee \in [Employees -> Employee]
      BY DEF Homes, TypeOK
    <3>2. \A f \in Employees : f # e => Linked(e, a, account, employee)[f] = employee[f]
      BY <3>1, LinkedType
    <3> QED
      BY <2>1, <3>2
  <2>3. employee[e].login \notin Ids \ Unlinks(e, a)
    BY RowFields DEF Unlinks, LoginOf, Homes
  <2>4. \A f \in Employees : employee[f].login \in Ids \ Unlinks(e, a) => employee'[f].login = employee[f].login
    BY <2>2, <2>3
  <2>5. PICK gone \in SUBSET (Ids \cup {None}) : gone = Unlinks(e, a)
    BY RowFields DEF Unlinks, Homes
  <2> QED
    BY <1>1, <2>1, <2>4, <2>5, RevokedSteady
<1> QED
  BY <1>2, <1>3

LEMMA ChangeEmailSteady ==
    ASSUME Homes, NEW a \in Ids, NEW m \in Addresses, ChangeEmail(a, m)
    PROVE  Steady
<1>1. EmployeesMove
  BY ChangeEmailMoves DEF Homes
<1>2. ASSUME NEW e \in Employees
      PROVE  employee'[e].login = employee[e].login
  <2>1. employee[e] \in Employee
    BY RowFields DEF Homes
  <2>2. employee'[e] = employee[e] \/ employee'[e] = [employee[e] EXCEPT !.email = m]
    BY DEF ChangeEmail
  <2> QED
    BY <2>1, <2>2 DEF Employee
<1>3. token' = Revoke({a}, token) /\ offboardings' = offboardings
  BY DEF ChangeEmail
<1>4. PICK gone \in SUBSET (Ids \cup {None}) : gone = {a}
  OBVIOUS
<1> QED
  BY <1>1, <1>2, <1>3, <1>4, RevokedSteady

LEMMA DeleteSteady ==
    ASSUME Homes, NEW h \in Handlers, WriteDelete(h)
    PROVE  Steady
<1>1. EmployeesMove
  BY DeleteMoves DEF Homes
<1>2. CASE UNCHANGED <<account, employee, token>>
  BY <1>1, <1>2, KeptSteady DEF WriteDelete
<1>3. CASE ~UNCHANGED <<account, employee, token>>
  <2>1. PICK a : a = op[h].account
    OBVIOUS
  <2>2. /\ employee' = [e \in Employees |-> IF LoginOf(e) = a THEN [employee[e] EXCEPT !.login = None] ELSE employee[e]]
        /\ token' = [t \in Tokens |-> IF token[t].account = a /\ token[t].at = "open"
                                      THEN [token[t] EXCEPT !.at = "revoked"] ELSE token[t]]
    BY <1>3, <2>1 DEF WriteDelete
  <2>3. token' = Revoke({a}, token)
    <3>1. \A t \in Tokens : token'[t] = Revoke({a}, token)[t]
      BY <2>2 DEF Revoke
    <3>2. Revoke({a}, token) = [t \in Tokens |-> Revoke({a}, token)[t]] /\ token' = [t \in Tokens |-> token'[t]]
      BY <2>2 DEF Revoke
    <3> QED
      BY <3>1, <3>2
  <2>4. \A e \in Employees : employee[e].login # a => employee'[e].login = employee[e].login
    BY <2>2 DEF LoginOf
  <2>5. offboardings' = offboardings
    BY DEF WriteDelete
  <2>6. PICK gone \in SUBSET (Ids \cup {None}) : gone = {a}
    <3>1. a \in Ids
      BY <2>1, OpFields DEF WriteDelete, Homes
    <3> QED
      BY <3>1
  <2> QED
    BY <1>1, <2>3, <2>4, <2>5, <2>6, RevokedSteady
<1> QED
  BY <1>2, <1>3

LEMMA AssignmentSteady ==
    ASSUME Homes, NEW h \in Handlers, SendAssignment(h)
    PROVE  Steady
<1>1. PICK a \in Ids, e \in Employees \cup {None}, was \in Employees \cup {None} :
         a = op[h].account /\ e = op[h].employee /\ was = op[h].was
  BY OpFields DEF SendAssignment, Homes
<1>2. offboardings' = offboardings /\ account' = account
  BY DEF SendAssignment
<1>3. CASE employee' = employee /\ token' = token
  BY <1>2, <1>3, SameEmployeesMove, KeptSteady DEF Homes
<1>4. CASE ~(employee' = employee /\ token' = token)
  <2> DEFINE freed == IF was \in {None, e} THEN employee ELSE Linked(was, None, account, employee)
             gone == {a} \cup IF e = None THEN {} ELSE Unlinks(e, a)
  <2>1. /\ a \in Live /\ Owner(a) = {was} \ {None}
        /\ employee' = IF e \in {None, was} THEN freed ELSE Linked(e, a, account, freed)
        /\ token' = IF e = was THEN token ELSE Revoke(gone, token)
    BY <1>1, <1>4 DEF SendAssignment
  <2>2. /\ account \in [Ids -> Account] /\ employee \in [Employees -> Employee] /\ None \notin Employees
        /\ None \notin Ids
    BY NoneAssumption DEF Homes, TypeOK
  <2>3. e # was
    <3>1. e = was => employee' = employee /\ token' = token
      BY <2>1
    <3> QED
      BY <1>4, <3>1
  <2>4. /\ freed \in [Employees -> Employee]
        /\ was # None => freed[was].login = None
        /\ \A f \in Employees : f # was => freed[f] = employee[f]
    <3>1. CASE was = None
      BY <2>2, <3>1
    <3>2. CASE was # None
      <4>1. was \in Employees /\ freed = Linked(was, None, account, employee)
        BY <2>3, <3>2
      <4>2. /\ Linked(was, None, account, employee) \in [Employees -> Employee]
            /\ Linked(was, None, account, employee)[was].login = None
            /\ \A f \in Employees : f # was => Linked(was, None, account, employee)[f] = employee[f]
        BY <2>2, <4>1, LinkedType
      <4> QED
        BY <4>1, <4>2
    <3> QED
      BY <3>1, <3>2
  <2>5. /\ employee' \in [Employees -> Employee]
        /\ was # None => employee'[was].login = None
        /\ e # None => employee'[e].login = a
        /\ \A f \in Employees : f \notin {was, e} => employee'[f] = employee[f]
    <3>1. CASE e = None
      BY <2>1, <2>2, <2>4, <3>1
    <3>2. CASE e # None
      <4>1. e \in Employees /\ employee' = Linked(e, a, account, freed)
        BY <2>1, <2>3, <3>2
      <4> HIDE DEF freed
      <4>2. PICK emps \in [Employees -> Employee] : emps = freed
        BY <2>4
      <4>3. /\ Linked(e, a, account, emps) \in [Employees -> Employee]
            /\ Linked(e, a, account, emps)[e].login = a
            /\ \A f \in Employees : f # e => Linked(e, a, account, emps)[f] = emps[f]
        BY <2>2, <4>1, LinkedType
      <4> QED
        BY <2>3, <2>4, <4>1, <4>2, <4>3
    <3> QED
      BY <3>1, <3>2
  <2>6. account'[a].at = "live"
    BY <1>2, <2>1 DEF Live
  <2>7. EmployeesMove
    BY <2>2, <2>5, <2>6 DEF EmployeesMove, LoginMoves
  <2>8. was # None => employee[was].login = a
    BY <2>1 DEF Owner, LoginOf
  <2>9. e # None => employee[e].login \notin Ids \ gone
    BY <2>2 DEF Unlinks, LoginOf
  <2>10. \A f \in Employees : employee[f].login \in Ids \ gone => employee'[f].login = employee[f].login
    BY <2>2, <2>5, <2>8, <2>9
  <2>11. gone \in SUBSET (Ids \cup {None})
    <3>1. e # None => LoginOf(e) \in Ids \cup {None}
      BY RowFields DEF Homes
    <3> QED
      BY <3>1 DEF Unlinks
  <2>12. PICK lost \in SUBSET (Ids \cup {None}) : lost = gone
    BY <2>11
  <2>13. token' = Revoke(lost, token)
    BY <2>1, <2>3, <2>12
  <2> HIDE DEF gone
  <2> QED
    BY <1>2, <2>7, <2>10, <2>12, <2>13, RevokedSteady
<1> QED
  BY <1>3, <1>4

LEMMA WriteLinkSteady ==
    ASSUME Homes, NEW h \in Handlers, WriteLink(h)
    PROVE  Steady
<1>1. PICK a \in Ids, e \in Employees, m \in Contact : a = op[h].account /\ e = op[h].employee /\ m = op[h].email
  BY OpFields DEF WriteLink, Homes
<1>2. offboardings' = offboardings /\ account' = account
  BY DEF WriteLink
<1>3. CASE employee' = employee /\ token' = token
  BY <1>2, <1>3, SameEmployeesMove, KeptSteady DEF Homes
<1>4. CASE ~(employee' = employee /\ token' = token)
  <2>1. PICK x : x = [employee[e] EXCEPT !.login = a, !.email = m]
    OBVIOUS
  <2>2. /\ MayLink(e, a) /\ employee' = [employee EXCEPT ![e] = x]
        /\ token' = IF LoginOf(e) = a THEN token ELSE Revoke(Unlinks(e, a), token)
    BY <1>1, <1>4, <2>1 DEF WriteLink
  <2>3. x \in Employee /\ x.login = a /\ a # None
    BY <2>1, RowFields DEF Employee, Homes
  <2>4. LoginMoves(employee[e], x)
    BY <1>2, <2>2, <2>3 DEF LoginMoves, MayLink
  <2>5. EmployeesMove
    BY <2>2, <2>3, <2>4, OneEmployeeMoves DEF Homes
  <2>6. /\ employee'[e].login = a
        /\ \A f \in Employees : f # e => employee'[f] = employee[f]
    BY <2>2, <2>3 DEF Homes, TypeOK
  <2>7. CASE LoginOf(e) = a
    BY <1>2, <2>2, <2>5, <2>6, <2>7, KeptSteady DEF LoginOf
  <2>8. CASE LoginOf(e) # a
    <3>1. PICK gone \in SUBSET (Ids \cup {None}) : gone = Unlinks(e, a)
      BY RowFields DEF Unlinks, Homes
    <3>2. employee[e].login \notin Ids \ gone
      BY <3>1, RowFields DEF Unlinks, LoginOf, Homes
    <3> QED
      BY <1>2, <2>2, <2>5, <2>6, <2>8, <3>1, <3>2, RevokedSteady
  <2> QED
    BY <2>7, <2>8
<1> QED
  BY <1>3, <1>4

LEMMA ProvisionSteady ==
    ASSUME Homes, NEW e \in Employees, NEW a \in Ids, NEW m \in Addresses, Provision(e, a, m)
    PROVE  Steady
<1>1. PICK x : x = [employee[e] EXCEPT !.login = a, !.email = m]
  OBVIOUS
<1>2. x \in Employee /\ x.login = a
  BY <1>1, RowFields DEF Employee, Contact, Homes
<1>3. employee' = [employee EXCEPT ![e] = x] /\ employee[e].login = None /\ token' = token /\ offboardings' = offboardings
  BY <1>1 DEF Provision, LoginOf
<1>4. account'[a].at = "live"
  <2>1. PICK y \in Account : account' = [account EXCEPT ![a] = y] /\ Made(account[a], y)
    BY ProvisionWrites DEF Homes
  <2> QED
    BY <2>1 DEF Made, Homes, TypeOK
<1>5. EmployeesMove
  BY <1>2, <1>3, <1>4, OneEmployeeMoves DEF LoginMoves, Homes
<1>6. \A f \in Employees : employee[f].login \in Ids => employee'[f].login = employee[f].login
  BY <1>3, RowFields DEF Homes, TypeOK
<1> QED
  BY <1>3, <1>5, <1>6, KeptSteady

\* Steps that write nothing of an employee but the details.
LEMMA DetailsSteady ==
    ASSUME Homes, NEW e \in Employees, NEW x \in Employee, x.login = employee[e].login,
           employee' = [employee EXCEPT ![e] = x], UNCHANGED <<token, offboardings>>
    PROVE  Steady
<1>1. EmployeesMove
  BY OneEmployeeMoves DEF LoginMoves, Homes
<1>2. \A f \in Employees : employee[f].login \in Ids => employee'[f].login = employee[f].login
  BY DEF Homes, TypeOK
<1> QED
  BY <1>1, <1>2, KeptSteady

LEMMA OffboardSteady ==
    ASSUME Homes, NEW e \in Employees, Offboard(e)
    PROVE  Steady
<1>1. PICK a \in Ids \cup {None} : a = LoginOf(e)
  BY RowFields DEF Homes
<1>2. PICK x : x = [employee[e] EXCEPT !.active = FALSE]
  OBVIOUS
<1>3. x \in Employee /\ x.login = employee[e].login
  BY <1>2, RowFields DEF Employee, Homes
<1>4. employee' = [employee EXCEPT ![e] = x]
  BY <1>2 DEF Offboard
<1>5. EmployeesMove
  BY <1>3, <1>4, OneEmployeeMoves DEF LoginMoves, Homes
<1>6. \A f \in Employees : employee[f].login \in Ids => employee'[f].login = employee[f].login
  BY <1>3, <1>4 DEF Homes, TypeOK
<1>7. PICK gone \in SUBSET (Ids \cup {None}) : gone = {a}
  OBVIOUS
<1>8. token' = Revoke(gone, token)
  BY <1>1, <1>7 DEF Offboard
<1>9. \A b \in Ids \ gone : offboardings'[b] = offboardings[b]
  <2>1. offboardings \in [Ids -> Nat] /\ a = employee[e].login
    BY <1>1 DEF Homes, TypeOK, LoginOf
  <2>2. offboardings' = IF a = None THEN offboardings ELSE [offboardings EXCEPT ![a] = @ + 1]
    BY <1>1 DEF Offboard
  <2> QED
    BY <1>7, <2>1, <2>2
<1> QED
  BY <1>5, <1>6, <1>7, <1>8, <1>9, RevokedSteady

LEMMA ExpireSteady ==
    ASSUME Homes, NEW t \in Tokens, ExpireLink(t)
    PROVE  Steady
<1>1. PICK x : x = [token[t] EXCEPT !.at = "expired"]
  OBVIOUS
<1>2. x \in Token /\ x.at = "expired"
  BY <1>1, RowFields DEF Token, Homes
<1>3. token' = [token EXCEPT ![t] = x] /\ employee' = employee /\ offboardings' = offboardings
  BY <1>1 DEF ExpireLink
<1>4. token \in [Tokens -> Token]
  BY DEF Homes, TypeOK
<1>5. token' \in [Tokens -> Token] /\ token'[t].at = "expired" /\ \A k \in Tokens : k # t => token'[k] = token[k]
  BY <1>2, <1>3, <1>4
<1>6. ASSUME NEW k \in Tokens, token'[k].at = "open"
      PROVE  LinkKept(k)
  <2>1. token'[k] = token[k] /\ token[k].at = "open"
    BY <1>5, <1>6
  <2> QED
    BY <1>3, <2>1, OpenFields DEF LinkKept, Homes
<1>7. EmployeesMove
  BY <1>3, SameEmployeesMove DEF Homes
<1> QED
  BY <1>5, <1>6, <1>7 DEF Steady

LEMMA ApplySteady ==
    ASSUME Homes, NEW a \in Ids \cup {None}, Apply(a)
    PROVE  Steady
<1>1. offboardings' = offboardings
  BY DEF Apply
<1>2. PICK e \in Employees : e = cohort.employee
  <2>1. cohort \in Cohort /\ cohort.at = "preview"
    BY DEF Homes, TypeOK, Apply
  <2> QED
    BY <2>1 DEF Cohort, NoCohort
<1>3. \/ UNCHANGED <<account, employee, token>>
      \/ MayLink(e, a) /\ Link(e, a) /\ UNCHANGED account
      \/ /\ cohort.decision = "create" /\ Readiness(e, cohort.mode) = "create"
         /\ employee' = [employee EXCEPT ![e].login = a] /\ token' = token /\ account' # account /\ a \in Ids
  <2>1. \/ UNCHANGED <<account, employee, token>>
        \/ MayLink(e, a) /\ Link(e, a) /\ UNCHANGED account
        \/ /\ cohort.decision = "create" /\ Readiness(e, cohort.mode) = "create"
           /\ a # None /\ account[a].at = "unused"
           /\ account' = [account EXCEPT ![a] = [@ EXCEPT !.at = "live", !.kind = "employee", !.state = "pending",
                        !.email = employee[e].email, !.granted = TRUE,
                        !.alias = IF cohort.mode = "payroll" THEN e ELSE None]]
           /\ employee' = [employee EXCEPT ![e].login = a] /\ token' = token
    BY <1>2 DEF Apply
  <2>2. ASSUME a # None /\ account[a].at = "unused",
             account' = [account EXCEPT ![a] = [@ EXCEPT !.at = "live", !.kind = "employee", !.state = "pending",
                        !.email = employee[e].email, !.granted = TRUE,
                        !.alias = IF cohort.mode = "payroll" THEN e ELSE None]]
        PROVE  account' # account /\ a \in Ids
    <3>1. PICK alias : alias = IF cohort.mode = "payroll" THEN e ELSE None
      OBVIOUS
    <3>2. PICK x : x = [account[a] EXCEPT !.at = "live", !.kind = "employee", !.state = "pending",
                        !.email = employee[e].email, !.granted = TRUE, !.alias = alias]
      OBVIOUS
    <3>3. account[a] \in Account /\ a \in Ids
      BY <2>2, RowFields DEF Homes
    <3>4. x.at = "live"
      BY <3>2, <3>3 DEF Account
    <3>5. account' = [account EXCEPT ![a] = x]
      BY <2>2, <3>1, <3>2
    <3>6. account'[a].at = "live"
      BY <3>3, <3>4, <3>5 DEF Homes, TypeOK
    <3> QED
      BY <2>2, <3>3, <3>6
  <2> QED
    BY <2>1, <2>2
<1>4. CASE UNCHANGED <<account, employee, token>>
  BY <1>1, <1>4, SameEmployeesMove, KeptSteady DEF Homes
<1>5. CASE MayLink(e, a) /\ Link(e, a) /\ UNCHANGED account
  BY <1>1, <1>5, LinkSteady
<1>6. CASE /\ cohort.decision = "create" /\ Readiness(e, cohort.mode) = "create"
           /\ employee' = [employee EXCEPT ![e].login = a] /\ token' = token /\ account' # account /\ a \in Ids
  <2>1. LoginOf(e) = None
    BY <1>6 DEF Readiness
  <2>2. PICK x : x = [employee[e] EXCEPT !.login = a]
    OBVIOUS
  <2>3. x \in Employee /\ x.login = a /\ employee' = [employee EXCEPT ![e] = x]
    BY <1>6, <2>2, RowFields DEF Employee, Homes
  <2>4. account'[a].at = "live"
    <3>1. PICK y \in Account : account' = [account EXCEPT ![a] = y] /\ Made(account[a], y)
      BY <1>6, ApplyWrites DEF Homes
    <3> QED
      BY <1>6, <3>1 DEF Made, Homes, TypeOK
  <2>5. EmployeesMove
    BY <1>6, <2>3, <2>4, OneEmployeeMoves DEF LoginMoves, Homes
  <2>6. \A f \in Employees : employee[f].login \in Ids => employee'[f].login = employee[f].login
    BY <2>1, <2>3, RowFields DEF Homes, TypeOK, LoginOf
  <2> QED
    BY <1>1, <1>6, <2>5, <2>6, KeptSteady
<1> QED
  BY <1>3, <1>4, <1>5, <1>6

\* A new link: those the account had stop working.
LEMMA IssueLinks ==
    ASSUME Homes, NEW e \in Employees, NEW t \in Tokens, NEW purpose \in {"activation", "recovery"},
           IssueLink(e, t, purpose)
    PROVE  /\ EmployeesMove /\ token' \in [Tokens -> Token]
           /\ \A k \in Tokens : k # t /\ token'[k].at = "open" => LinkKept(k)
           /\ \A k \in Tokens : token'[k].at = "consumed" => token[k].at = "consumed"
           /\ UNCHANGED <<employee, offboardings>>
           /\ \E a \in Ids : /\ token'[t].account = a /\ token'[t].employee = e /\ token'[t].round = offboardings[a]
                             /\ employee[e].login = a /\ account[a].at = "live" /\ account[a].kind = "employee"
<1>1. PICK a \in Ids : a = employee[e].login /\ account[a].at = "live"
  BY RowFields DEF IssueLink, Homes, LoginOf, Live
<1>2. account[a].kind = "employee" /\ UNCHANGED <<employee, offboardings>>
  BY <1>1 DEF IssueLink, LoginOf
<1>3. PICK gone \in SUBSET (Ids \cup {None}) : gone = {a}
  OBVIOUS
<1>4. PICK n \in Nat : n = offboardings[a]
  BY DEF Homes, TypeOK
<1>5. PICK x : x = [at |-> "open", account |-> a, employee |-> e, purpose |-> purpose, round |-> n]
  OBVIOUS
<1>6. x \in Token /\ x.account = a /\ x.employee = e /\ x.round = n /\ x.at = "open"
  BY <1>5 DEF Token
<1>7. PICK links \in [Tokens -> Token] : links = token
  BY DEF Homes, TypeOK
<1>8. token' = [Revoke(gone, links) EXCEPT ![t] = x]
  BY <1>1, <1>3, <1>4, <1>5, <1>7 DEF IssueLink, LoginOf
<1>9. /\ Revoke(gone, links) \in [Tokens -> Token]
      /\ \A k \in Tokens : Revoke(gone, links)[k].at = "open" => Revoke(gone, links)[k] = links[k]
      /\ \A k \in Tokens : Revoke(gone, links)[k].at = "consumed" => links[k].at = "consumed"
  BY RevokeType
<1>10. token' \in [Tokens -> Token] /\ token'[t] = x /\ \A k \in Tokens : k # t => token'[k] = Revoke(gone, links)[k]
  BY <1>6, <1>8, <1>9
<1>11. ASSUME NEW k \in Tokens, k # t, token'[k].at = "open"
       PROVE  LinkKept(k)
  <2>1. token'[k] = token[k] /\ token[k].at = "open"
    BY <1>7, <1>9, <1>10, <1>11
  <2> QED
    BY <1>2, <2>1, OpenFields DEF LinkKept, Homes
<1>12. \A k \in Tokens : token'[k].at = "consumed" => token[k].at = "consumed"
  BY <1>6, <1>7, <1>9, <1>10
<1>13. EmployeesMove
  BY <1>2, SameEmployeesMove DEF Homes
<1> QED
  BY <1>1, <1>2, <1>4, <1>6, <1>10, <1>11, <1>12, <1>13

\* A link that is used: only one that is valid.
LEMMA ActivateLinks ==
    ASSUME Homes, NEW h \in Handlers, WriteActivate(h)
    PROVE  /\ EmployeesMove /\ token' \in [Tokens -> Token]
           /\ \A k \in Tokens : token'[k].at = "open" => LinkKept(k)
           /\ \A k \in Tokens : token'[k].at = "consumed" => token[k].at = "consumed" \/ token[k].at = "open"
           /\ \A k \in Tokens : token'[k].round = token[k].round /\ token'[k].account = token[k].account
<1>1. PICK t \in Tokens : t = op[h].token
  BY OpFields DEF WriteActivate, Homes
<1>2. UNCHANGED <<employee, offboardings>>
  BY DEF WriteActivate
<1>3. EmployeesMove
  BY <1>2, SameEmployeesMove DEF Homes
<1>4. CASE token' = token
  <2>1. Steady
    BY <1>2, <1>3, <1>4, KeptSteady
  <2> QED
    BY <1>4, <2>1 DEF Steady
<1>5. CASE token' # token
  <2>1. Valid(t) /\ token' = Revoke({token[t].account}, [token EXCEPT ![t].at = "consumed"])
    BY <1>1, <1>5 DEF WriteActivate
  <2>2. PICK a \in Ids : a = token[t].account
    BY <2>1 DEF Valid, Live
  <2>3. PICK x : x = [token[t] EXCEPT !.at = "consumed"]
    OBVIOUS
  <2>4. x \in Token /\ x.at = "consumed" /\ x.round = token[t].round /\ x.account = token[t].account
    BY <2>3, RowFields DEF Token, Homes
  <2>5. PICK links \in [Tokens -> Token] : links = [token EXCEPT ![t] = x]
    BY <2>4 DEF Homes, TypeOK
  <2>6. links[t] = x /\ \A k \in Tokens : k # t => links[k] = token[k]
    BY <2>5 DEF Homes, TypeOK
  <2>7. PICK gone \in SUBSET (Ids \cup {None}) : gone = {a}
    OBVIOUS
  <2>8. token' = Revoke(gone, links)
    BY <2>1, <2>2, <2>3, <2>5, <2>7
  <2>9. /\ token' \in [Tokens -> Token]
        /\ \A k \in Tokens : token'[k].at = "open" => token'[k] = links[k]
        /\ \A k \in Tokens : token'[k].at = "consumed" => links[k].at = "consumed"
    <3>1. /\ Revoke(gone, links) \in [Tokens -> Token]
          /\ \A k \in Tokens : Revoke(gone, links)[k].at = "open" => Revoke(gone, links)[k] = links[k]
          /\ \A k \in Tokens : Revoke(gone, links)[k].at = "consumed" => links[k].at = "consumed"
      BY RevokeType
    <3> QED
      BY <2>8, <3>1
  <2>10. ASSUME NEW k \in Tokens, token'[k].at = "open"
         PROVE  LinkKept(k)
    <3>1. token'[k] = token[k] /\ token[k].at = "open"
      BY <2>4, <2>6, <2>9, <2>10
    <3> QED
      BY <1>2, <3>1, OpenFields DEF LinkKept, Homes
  <2>11. token[t].at = "open"
    BY <2>1 DEF Valid
  <2>12. \A k \in Tokens : token'[k].at = "consumed" => token[k].at = "consumed" \/ token[k].at = "open"
    BY <2>6, <2>9, <2>11
  <2>13. \A k \in Tokens : links[k].round = token[k].round /\ links[k].account = token[k].account
    BY <2>4, <2>6
  <2>14. ASSUME NEW k \in Tokens
         PROVE  token'[k].round = links[k].round /\ token'[k].account = links[k].account
    <3>1. token'[k] = links[k] \/ token'[k] = [links[k] EXCEPT !.at = "revoked"]
      BY <2>8 DEF Revoke
    <3>2. links[k] \in Token
      OBVIOUS
    <3> QED
      BY <3>1, <3>2 DEF Token
  <2> QED
    BY <1>3, <2>9, <2>10, <2>12, <2>13, <2>14
<1> QED
  BY <1>4, <1>5

\* Every other step leaves the links that work as they are, and uses none.
LEMMA StepLinks ==
    ASSUME Homes, [Next]_vars
    PROVE  \/ Steady
           \/ \E e \in Employees, t \in Tokens, purpose \in {"activation", "recovery"} : IssueLink(e, t, purpose)
           \/ \E h \in Handlers : WriteActivate(h)
<1>1. CASE Quiet
  BY <1>1, QuietSteady
<1>2. ASSUME NEW h \in Handlers, (\E a \in Ids : InsertAccount(h, a)) \/ Grant(h)
      PROVE  Steady
  <2>1. UNCHANGED <<employee, token, offboardings>>
    BY <1>2 DEF InsertAccount, Grant
  <2> QED
    BY <2>1, SameEmployeesMove, KeptSteady DEF Homes
<1>3. ASSUME NEW h \in Handlers, WriteDelete(h) \/ SendAssignment(h) \/ WriteLink(h)
      PROVE  Steady
  BY <1>3, DeleteSteady, AssignmentSteady, WriteLinkSteady
<1>4. ASSUME \/ \E a \in Ids, m \in Addresses, admin \in BOOLEAN : CreateAccount(a, m, admin)
             \/ \E a \in Ids, active \in BOOLEAN, admin \in BOOLEAN : UpdateAccount(a, active, admin)
             \/ \E e \in Employees, mode \in {"email", "payroll"} : Preview(e, mode)
             \/ \E a \in Ids \cup {None}, decision \in {"link", "skip"} : Reconcile(decision, a)
      PROVE  Steady
  <2>1. UNCHANGED <<employee, token, offboardings>>
    BY <1>4 DEF CreateAccount, UpdateAccount, Preview, Reconcile
  <2> QED
    BY <2>1, SameEmployeesMove, KeptSteady DEF Homes
<1>5. ASSUME \E a \in Ids, m \in Addresses : ChangeEmail(a, m)
      PROVE  Steady
  BY <1>5, ChangeEmailSteady
<1>6. ASSUME NEW e \in Employees, NEW a \in Ids \cup {None}, SetLink(e, a)
      PROVE  Steady
  BY <1>6, LinkSteady DEF SetLink
<1>7. ASSUME NEW e \in Employees, NEW a \in Ids, NEW m \in Addresses, Provision(e, a, m)
      PROVE  Steady
  BY <1>7, ProvisionSteady
<1>8. ASSUME NEW e \in Employees,
             \/ \E active \in BOOLEAN, m \in Contact : UpdateDetails(e, active, m)
             \/ VerifyPayrollId(e) \/ Restore(e)
      PROVE  Steady
  <2>1. employee[e] \in Employee
    BY RowFields DEF Homes
  <2>2. ASSUME NEW active \in BOOLEAN, NEW m \in Contact, UpdateDetails(e, active, m)
        PROVE  Steady
    <3>1. PICK x : x = [employee[e] EXCEPT !.active = active, !.email = m]
      OBVIOUS
    <3>2. x \in Employee /\ x.login = employee[e].login
      BY <2>1, <3>1 DEF Employee
    <3> QED
      BY <2>2, <3>1, <3>2, DetailsSteady DEF UpdateDetails
  <2>3. ASSUME VerifyPayrollId(e)
        PROVE  Steady
    <3>1. PICK x : x = [employee[e] EXCEPT !.payrollIds = @ + 1]
      OBVIOUS
    <3>2. employee[e].payrollIds \in 0..2 /\ employee[e].payrollIds < 2
      BY <2>1, <2>3 DEF Employee, VerifyPayrollId
    <3>3. employee[e].payrollIds + 1 \in 0..2
      BY <3>2
    <3>4. x \in Employee /\ x.login = employee[e].login
      BY <2>1, <3>1, <3>3 DEF Employee
    <3>5. employee' = [employee EXCEPT ![e] = x] /\ UNCHANGED <<token, offboardings>>
      BY <2>3, <3>1 DEF VerifyPayrollId
    <3> QED
      BY <3>4, <3>5, DetailsSteady
  <2>4. ASSUME Restore(e)
        PROVE  Steady
    <3>1. PICK x : x = [employee[e] EXCEPT !.active = TRUE]
      OBVIOUS
    <3>2. x \in Employee /\ x.login = employee[e].login
      BY <2>1, <3>1 DEF Employee
    <3>3. employee' = [employee EXCEPT ![e] = x] /\ UNCHANGED <<token, offboardings>>
      BY <2>4, <3>1 DEF Restore
    <3> QED
      BY <3>2, <3>3, DetailsSteady
  <2> QED
    BY <1>8, <2>2, <2>3, <2>4
<1>9. ASSUME NEW e \in Employees, Offboard(e)
      PROVE  Steady
  BY <1>9, OffboardSteady
<1>10. ASSUME NEW e \in Employees, RevokeLinks(e)
       PROVE  Steady
  <2>1. PICK gone \in SUBSET (Ids \cup {None}) : gone = {LoginOf(e)}
    BY RowFields DEF Homes
  <2>2. token' = Revoke(gone, token) /\ UNCHANGED <<employee, offboardings>>
    BY <1>10, <2>1 DEF RevokeLinks
  <2> QED
    BY <2>1, <2>2, SameEmployeesMove, RevokedSteady DEF Homes
<1>11. ASSUME NEW a \in Ids \cup {None}, Apply(a)
       PROVE  Steady
  BY <1>11, ApplySteady
<1>12. ASSUME NEW t \in Tokens, ExpireLink(t)
       PROVE  Steady
  BY <1>12, ExpireSteady
<1> QED
  BY <1>1, <1>2, <1>3, <1>4, <1>5, <1>6, <1>7, <1>8, <1>9, <1>10, <1>11, <1>12, QuietSteps
-----------------------------------------------------------------------------
(* Accounts: the types are kept *)

\* A sign-up request changes only where it is submitted or decided.
Decides == \E h \in Handlers : WriteSignup(h) \/ WriteReject(h) \/ MarkApproved(h)

LEMMA SignupWrites == [Next]_vars => signup' = signup \/ Decides
<1> SUFFICES ASSUME [Next]_vars, ~Decides PROVE signup' = signup
  OBVIOUS
<1>1. ASSUME NEW h \in Handlers,
             \/ \E m \in Addresses : ReadForSignup(h, m) \/ ReadForReject(h, m) \/ ReadForApprove(h, m)
             \/ \E a \in Ids : InsertAccount(h, a) \/ \E by \in Ids : ReadForDelete(h, by, a)
             \/ \E a \in Ids, e \in Employees : ReadForLink(h, e, a)
             \/ \E a \in Ids, e \in Employees \cup {None} : OpenAssignment(h, a, e)
             \/ \E t \in Tokens : ReadForActivate(h, t)
             \/ WriteSignup(h) \/ WriteReject(h) \/ Grant(h) \/ MarkApproved(h) \/ WriteDelete(h)
             \/ SendAssignment(h) \/ WriteLink(h) \/ WriteActivate(h) \/ Stop(h)
      PROVE  signup' = signup
  BY <1>1 DEF Decides, ReadForSignup, ReadForReject, ReadForApprove, InsertAccount, ReadForDelete, ReadForLink,
              OpenAssignment,
     ReadForActivate, Grant, WriteDelete, SendAssignment, WriteLink, WriteActivate, Stop
<1>2. ASSUME NEW e \in Employees,
             \/ \E a \in Ids \cup {None} : SetLink(e, a)
             \/ \E a \in Ids, m \in Addresses : Provision(e, a, m)
             \/ \E active \in BOOLEAN, m \in Contact : UpdateDetails(e, active, m)
             \/ \E mode \in {"email", "payroll"} : Preview(e, mode)
             \/ \E t \in Tokens, purpose \in {"activation", "recovery"} : IssueLink(e, t, purpose)
             \/ VerifyPayrollId(e) \/ Offboard(e) \/ Restore(e) \/ RevokeLinks(e)
      PROVE  signup' = signup
  BY <1>2 DEF SetLink, Provision, UpdateDetails, Preview, IssueLink, VerifyPayrollId, Offboard, Restore, RevokeLinks
<1>3. ASSUME \/ \E a \in Ids, m \in Addresses : ChangeEmail(a, m) \/ \E admin \in BOOLEAN : CreateAccount(a, m, admin)
             \/ \E a \in Ids, active \in BOOLEAN, admin \in BOOLEAN : UpdateAccount(a, active, admin)
             \/ \E a \in Ids \cup {None} : Apply(a) \/ \E decision \in {"link", "skip"} : Reconcile(decision, a)
             \/ \E t \in Tokens : ExpireLink(t)
             \/ UNCHANGED vars
      PROVE  signup' = signup
  BY <1>3 DEF ChangeEmail, CreateAccount, UpdateAccount, Apply, Reconcile, ExpireLink, vars
<1> QED
  BY <1>1, <1>2, <1>3 DEF Next

LEMMA SmallTypes ==
    ASSUME Homes, [Next]_vars
    PROVE  /\ offboardings' \in [Ids -> Nat] /\ changes' \in 0..MaxChanges
           /\ signup' \in [Addresses -> {"none", "pending", "approved", "rejected"}]
           /\ account' \in [Ids -> Account] /\ employee' \in [Employees -> Employee] /\ token' \in [Tokens -> Token]
<1>1. offboardings \in [Ids -> Nat] /\ changes \in 0..MaxChanges /\ MaxChanges \in Nat
  BY BoundsAssumption DEF Homes, TypeOK
<1>2. offboardings' \in [Ids -> Nat]
  <2>1. ASSUME NEW e \in Employees, Offboard(e)
        PROVE  offboardings' \in [Ids -> Nat]
    <3>1. PICK a \in Ids \cup {None} : a = LoginOf(e)
      BY RowFields DEF Homes
    <3>2. offboardings' = IF a = None THEN offboardings ELSE [offboardings EXCEPT ![a] = @ + 1]
      BY <2>1, <3>1 DEF Offboard
    <3> QED
      BY <1>1, <3>2
  <2>2. offboardings' = offboardings \/ \E e \in Employees : Offboard(e)
    BY QuietSteps DEF Quiet, InsertAccount, Grant, WriteDelete, SendAssignment, WriteLink, WriteActivate, ChangeEmail,
       CreateAccount, UpdateAccount, SetLink, Provision, UpdateDetails, Preview, IssueLink, VerifyPayrollId, Restore,
       RevokeLinks, Apply, Reconcile, ExpireLink
  <2> QED
    BY <1>1, <2>1, <2>2
<1>3. changes' = changes \/ Change
  <2>1. ASSUME NEW h \in Handlers,
               \/ \E m \in Addresses : ReadForSignup(h, m) \/ ReadForReject(h, m) \/ ReadForApprove(h, m)
               \/ \E a \in Ids : InsertAccount(h, a) \/ \E by \in Ids : ReadForDelete(h, by, a)
               \/ \E a \in Ids, e \in Employees : ReadForLink(h, e, a)
               \/ \E a \in Ids, e \in Employees \cup {None} : OpenAssignment(h, a, e)
               \/ \E t \in Tokens : ReadForActivate(h, t)
               \/ WriteSignup(h) \/ WriteReject(h) \/ Grant(h) \/ MarkApproved(h) \/ WriteDelete(h)
               \/ SendAssignment(h) \/ WriteLink(h) \/ WriteActivate(h) \/ Stop(h)
        PROVE  changes' = changes \/ Change
    BY <2>1 DEF ReadForSignup, ReadForReject, ReadForApprove, InsertAccount, ReadForDelete, ReadForLink, OpenAssignment,
       ReadForActivate, WriteSignup, WriteReject, Grant, MarkApproved, WriteDelete, SendAssignment, WriteLink,
       WriteActivate, Stop
  <2>2. ASSUME NEW e \in Employees,
               \/ \E a \in Ids \cup {None} : SetLink(e, a)
               \/ \E a \in Ids, m \in Addresses : Provision(e, a, m)
               \/ \E active \in BOOLEAN, m \in Contact : UpdateDetails(e, active, m)
               \/ \E mode \in {"email", "payroll"} : Preview(e, mode)
               \/ \E t \in Tokens, purpose \in {"activation", "recovery"} : IssueLink(e, t, purpose)
               \/ VerifyPayrollId(e) \/ Offboard(e) \/ Restore(e) \/ RevokeLinks(e)
        PROVE  changes' = changes \/ Change
    BY <2>2 DEF SetLink, Provision, UpdateDetails, Preview, IssueLink, VerifyPayrollId, Offboard, Restore, RevokeLinks
  <2>3. ASSUME \/ \E a \in Ids, m \in Addresses : ChangeEmail(a, m) \/ \E admin \in BOOLEAN : CreateAccount(a, m, admin)
               \/ \E a \in Ids, active \in BOOLEAN, admin \in BOOLEAN : UpdateAccount(a, active, admin)
               \/ \E a \in Ids \cup {None} : Apply(a) \/ \E decision \in {"link", "skip"} : Reconcile(decision, a)
               \/ \E t \in Tokens : ExpireLink(t)
               \/ UNCHANGED vars
        PROVE  changes' = changes \/ Change
    BY <2>3 DEF ChangeEmail, CreateAccount, UpdateAccount, Apply, Reconcile, ExpireLink, vars
  <2> QED
    BY <2>1, <2>2, <2>3 DEF Next
<1>4. changes' \in 0..MaxChanges
  <2>1. changes' = changes \/ (changes < MaxChanges /\ changes' = changes + 1)
    BY <1>3 DEF Change
  <2> QED
    BY <1>1, <2>1
<1>5. signup' \in [Addresses -> {"none", "pending", "approved", "rejected"}]
  <2>1. signup \in [Addresses -> {"none", "pending", "approved", "rejected"}]
    BY DEF Homes, TypeOK
  <2>2. ASSUME NEW h \in Handlers, WriteSignup(h) \/ WriteReject(h) \/ MarkApproved(h)
        PROVE  \E m \in Addresses, s \in {"none", "pending", "approved", "rejected"} : signup' = [signup EXCEPT ![m] = s]
    <3>1. PICK m \in Addresses : m = op[h].address
      BY <2>2, OpFields DEF WriteSignup, WriteReject, MarkApproved, Homes
    <3>2. signup[m] \in {"none", "pending", "approved", "rejected"}
      BY <2>1
    <3> QED
      BY <2>2, <3>1, <3>2 DEF WriteSignup, WriteReject, MarkApproved
  <2>3. signup' = signup \/ Decides
    BY SignupWrites
  <2> QED
    BY <2>1, <2>2, <2>3 DEF Decides
<1>6. account' \in [Ids -> Account]
  <2>1. CASE account' = account
    BY <2>1 DEF Homes, TypeOK
  <2>2. CASE account' # account
    <3>1. PICK a \in Ids, x \in Account : account' = [account EXCEPT ![a] = x]
      BY <2>2, AccountStep DEF Homes
    <3> QED
      BY <3>1 DEF Homes, TypeOK
  <2> QED
    BY <2>1, <2>2
<1>7. employee' \in [Employees -> Employee] /\ token' \in [Tokens -> Token]
  BY StepLinks, IssueLinks, ActivateLinks DEF Steady, EmployeesMove
<1> QED
  BY <1>2, <1>4, <1>5, <1>6, <1>7

\* Logins exist: an account that is deleted loses its employee in the same statement.
LEMMA LoginsLive ==
    ASSUME Homes, [Next]_vars
    PROVE  \A e \in Employees : LoginOf(e)' \in Live' \cup {None}
<1>1. EmployeesMove
  BY StepLinks, IssueLinks, ActivateLinks DEF Steady
<1>2. ASSUME NEW e \in Employees, NEW a \in Ids, a = employee'[e].login
      PROVE  account'[a].at = "live"
  <2>1. CASE employee[e].login = a
    <3>1. account[a].at = "live"
      BY <2>1, RowFields DEF Homes, Live, LoginOf
    <3>2. ASSUME Gone(account[a], account'[a]), NEW h \in Handlers, WriteDelete(h), op[h].account = a
          PROVE  FALSE
      <4>1. account' # account
        BY <3>1, <3>2 DEF Gone
      <4> QED
        BY <1>2, <3>2, <4>1, DeleteMoves DEF Homes
    <3> QED
      BY <3>1, <3>2, AccountMoves DEF Homes, Stays, Made
  <2>2. CASE employee[e].login # a
    BY <1>1, <1>2, <2>2, RowFields DEF EmployeesMove, LoginMoves, Homes
  <2> QED
    BY <2>1, <2>2
<1>3. ASSUME NEW e \in Employees
      PROVE  employee'[e].login \in Ids \cup {None}
  BY <1>1 DEF EmployeesMove, Employee
<1> QED
  BY <1>2, <1>3 DEF Live, LoginOf

\* What a request in progress may turn into.
OpMoves(h) ==
    \/ op'[h].kind \notin {"granting", "marking"}
    \/ op'[h] = op[h]
    \/ \E a \in Ids : InsertAccount(h, a) /\ op'[h] = [kind |-> "granting", address |-> op[h].address, account |-> a]
    \/ Grant(h) /\ op'[h] = [op[h] EXCEPT !.kind = "marking"] /\ op[h].account \in Live

LEMMA OneOpMoves ==
    ASSUME TypeOK, NEW h \in Handlers, NEW state \in Op, Go(h, state),
           state.kind \notin {"granting", "marking"}
    PROVE  op' \in [Handlers -> Op] /\ \A g \in Handlers : OpMoves(g)
BY GoType DEF OpMoves

LEMMA OpSteps ==
    ASSUME Homes, [Next]_vars
    PROVE  op' \in [Handlers -> Op] /\ \A h \in Handlers : OpMoves(h)
<1> DEFINE Typed == op' \in [Handlers -> Op] /\ \A h \in Handlers : OpMoves(h)
<1>1. TypeOK
  BY DEF Homes
<1>2. ASSUME op' = op PROVE Typed
  BY <1>1, <1>2 DEF TypeOK, OpMoves
<1>3. ASSUME NEW h \in Handlers, Done(h) PROVE Typed
  <2>1. Idle \in Op /\ Idle.kind = "idle"
    BY DEF Op, Idle
  <2> QED
    BY <1>1, <1>3, <2>1, OneOpMoves DEF Done
<1>4. ASSUME NEW h \in Handlers, NEW m \in Addresses,
             ReadForSignup(h, m) \/ ReadForReject(h, m) \/ ReadForApprove(h, m)
      PROVE  Typed
  <2>1. CASE ReadForSignup(h, m)
    <3>1. PICK state : state = [kind |-> "signing", address |-> m, known |-> signup[m] # "none"]
      OBVIOUS
    <3>2. state \in Op /\ state.kind = "signing"
      BY <3>1 DEF Op
    <3>3. Go(h, state)
      BY <2>1, <3>1 DEF ReadForSignup
    <3> QED
      BY <1>1, <3>2, <3>3, OneOpMoves
  <2>2. CASE ReadForReject(h, m) \/ ReadForApprove(h, m)
    <3>1. PICK state : /\ state \in {[kind |-> "rejecting", address |-> m], [kind |-> "creating", address |-> m]}
                       /\ Go(h, state)
      BY <2>2 DEF ReadForReject, ReadForApprove
    <3>2. state \in Op /\ state.kind \in {"rejecting", "creating"}
      BY <3>1 DEF Op
    <3> QED
      BY <1>1, <3>1, <3>2, OneOpMoves
  <2> QED
    BY <1>4, <2>1, <2>2
<1>5. ASSUME NEW h \in Handlers, NEW a \in Ids,
             \/ \E by \in Ids : ReadForDelete(h, by, a)
             \/ \E e \in Employees : ReadForLink(h, e, a)
             \/ \E e \in Employees \cup {None} : OpenAssignment(h, a, e)
      PROVE  Typed
  <2>1. CASE \E by \in Ids : ReadForDelete(h, by, a)
    <3>1. PICK state : state = [kind |-> "deleting", account |-> a]
      OBVIOUS
    <3>2. state \in Op /\ state.kind = "deleting" /\ Go(h, state)
      BY <2>1, <3>1 DEF Op, ReadForDelete
    <3> QED
      BY <1>1, <3>2, OneOpMoves
  <2>2. ASSUME NEW e \in Employees, ReadForLink(h, e, a)
        PROVE  Typed
    <3>1. PICK m \in Contact : m = account[a].email
      BY <1>1, RowFields DEF Account
    <3>2. PICK state : state = [kind |-> "linking", account |-> a, employee |-> e, email |-> m]
      OBVIOUS
    <3>3. state \in Op /\ state.kind = "linking"
      BY <3>2 DEF Op
    <3>4. Go(h, state)
      BY <2>2, <3>1, <3>2 DEF ReadForLink
    <3> QED
      BY <1>1, <3>3, <3>4, OneOpMoves
  <2>3. ASSUME NEW e \in Employees \cup {None}, OpenAssignment(h, a, e)
        PROVE  Typed
    <3>1. PICK was \in Employees \cup {None} : was = IF Owner(a) = {} THEN None ELSE CHOOSE x \in Owner(a) : TRUE
      BY DEF Owner
    <3>2. PICK had \in Ids \cup {None} : had = IF e = None THEN None ELSE LoginOf(e)
      BY <1>1, RowFields
    <3>3. PICK state : state = [kind |-> "assigning", account |-> a, employee |-> e, had |-> had, was |-> was]
      OBVIOUS
    <3>4. state \in Op /\ state.kind = "assigning"
      BY <3>3 DEF Op
    <3>5. Go(h, state)
      BY <2>3, <3>1, <3>2, <3>3 DEF OpenAssignment
    <3> QED
      BY <1>1, <3>4, <3>5, OneOpMoves
  <2> QED
    BY <1>5, <2>1, <2>2, <2>3
<1>6. ASSUME NEW h \in Handlers, NEW t \in Tokens, ReadForActivate(h, t)
      PROVE  Typed
  <2>1. PICK state : state = [kind |-> "activating", token |-> t]
    OBVIOUS
  <2>2. state \in Op /\ state.kind = "activating" /\ Go(h, state)
    BY <1>6, <2>1 DEF Op, ReadForActivate
  <2> QED
    BY <1>1, <2>2, OneOpMoves
<1>7. ASSUME NEW h \in Handlers, NEW a \in Ids, InsertAccount(h, a)
      PROVE  Typed
  <2>1. PICK m \in Addresses : m = op[h].address
    BY <1>1, <1>7, OpFields DEF InsertAccount
  <2>2. PICK state : state = [kind |-> "granting", address |-> m, account |-> a]
    OBVIOUS
  <2>3. state \in Op
    BY <2>2 DEF Op
  <2>4. Done(h) \/ Go(h, state)
    BY <1>7, <2>1, <2>2 DEF InsertAccount
  <2>5. CASE Go(h, state)
    <3>1. op' \in [Handlers -> Op] /\ op'[h] = state /\ \A g \in Handlers : g # h => op'[g] = op[g]
      BY <1>1, <2>3, <2>5, GoType
    <3> QED
      BY <1>7, <2>1, <2>2, <3>1 DEF OpMoves
  <2> QED
    BY <1>3, <2>4, <2>5
<1>8. ASSUME NEW h \in Handlers, Grant(h)
      PROVE  Typed
  <2>1. PICK state : state = [op[h] EXCEPT !.kind = "marking"]
    OBVIOUS
  <2>2. state \in Op
    BY <1>1, <1>8, <2>1 DEF TypeOK, Op, Idle, Grant
  <2>3. Done(h) \/ (Go(h, state) /\ op[h].account \in Live)
    BY <1>8, <2>1 DEF Grant
  <2>4. CASE Go(h, state) /\ op[h].account \in Live
    <3>1. op' \in [Handlers -> Op] /\ op'[h] = state /\ \A g \in Handlers : g # h => op'[g] = op[g]
      BY <1>1, <2>2, <2>4, GoType
    <3> QED
      BY <1>8, <2>1, <2>4, <3>1 DEF OpMoves
  <2> QED
    BY <1>3, <2>3, <2>4
<1>9. ASSUME NEW h \in Handlers,
             \/ WriteSignup(h) \/ WriteReject(h) \/ MarkApproved(h) \/ WriteDelete(h)
             \/ SendAssignment(h) \/ WriteLink(h) \/ WriteActivate(h) \/ Stop(h)
      PROVE  Done(h)
  BY <1>9 DEF WriteSignup, WriteReject, MarkApproved, WriteDelete, SendAssignment, WriteLink, WriteActivate, Stop
<1>10. ASSUME NEW e \in Employees,
              \/ \E a \in Ids \cup {None} : SetLink(e, a)
              \/ \E a \in Ids, m \in Addresses : Provision(e, a, m)
              \/ \E active \in BOOLEAN, m \in Contact : UpdateDetails(e, active, m)
              \/ \E mode \in {"email", "payroll"} : Preview(e, mode)
              \/ \E t \in Tokens, purpose \in {"activation", "recovery"} : IssueLink(e, t, purpose)
              \/ VerifyPayrollId(e) \/ Offboard(e) \/ Restore(e) \/ RevokeLinks(e)
       PROVE  op' = op
  BY <1>10 DEF SetLink, Provision, UpdateDetails, Preview, IssueLink, VerifyPayrollId, Offboard, Restore, RevokeLinks
<1>11. ASSUME \/ \E a \in Ids, m \in Addresses : ChangeEmail(a, m) \/ \E admin \in BOOLEAN : CreateAccount(a, m, admin)
              \/ \E a \in Ids, active \in BOOLEAN, admin \in BOOLEAN : UpdateAccount(a, active, admin)
              \/ \E a \in Ids \cup {None} : Apply(a) \/ \E decision \in {"link", "skip"} : Reconcile(decision, a)
              \/ \E t \in Tokens : ExpireLink(t)
              \/ UNCHANGED vars
       PROVE  op' = op
  BY <1>11 DEF ChangeEmail, CreateAccount, UpdateAccount, Apply, Reconcile, ExpireLink, vars
<1>12. ASSUME NEW h \in Handlers,
              \/ \E m \in Addresses : ReadForSignup(h, m) \/ ReadForReject(h, m) \/ ReadForApprove(h, m)
              \/ \E a \in Ids : InsertAccount(h, a) \/ \E by \in Ids : ReadForDelete(h, by, a)
              \/ \E a \in Ids, e \in Employees : ReadForLink(h, e, a)
              \/ \E a \in Ids, e \in Employees \cup {None} : OpenAssignment(h, a, e)
              \/ \E t \in Tokens : ReadForActivate(h, t)
              \/ WriteSignup(h) \/ WriteReject(h) \/ Grant(h) \/ MarkApproved(h) \/ WriteDelete(h)
              \/ SendAssignment(h) \/ WriteLink(h) \/ WriteActivate(h) \/ Stop(h)
       PROVE  Typed
  <2> HIDE DEF Typed
  <2> QED
    BY <1>3, <1>4, <1>5, <1>6, <1>7, <1>8, <1>9, <1>12
<1> HIDE DEF Typed
<1>13. Typed
  BY <1>2, <1>10, <1>11, <1>12 DEF Next
<1> QED
  BY <1>13 DEF Typed

\* Only a preview, a reconciliation and the application write the cohort.
LEMMA CohortWrites ==
    ASSUME [Next]_vars
    PROVE  \/ cohort' = cohort
           \/ \E e \in Employees, mode \in {"email", "payroll"} : Preview(e, mode)
           \/ \E a \in Ids \cup {None} : Apply(a) \/ \E decision \in {"link", "skip"} : Reconcile(decision, a)
<1>1. CASE Quiet
  BY <1>1 DEF Quiet
<1>2. ASSUME NEW h \in Handlers,
             \/ \E a \in Ids : InsertAccount(h, a)
             \/ Grant(h) \/ WriteDelete(h) \/ SendAssignment(h) \/ WriteLink(h) \/ WriteActivate(h)
      PROVE  cohort' = cohort
  BY <1>2 DEF InsertAccount, Grant, WriteDelete, SendAssignment, WriteLink, WriteActivate
<1>3. ASSUME \/ \E a \in Ids, m \in Addresses : ChangeEmail(a, m) \/ \E admin \in BOOLEAN : CreateAccount(a, m, admin)
             \/ \E a \in Ids, active \in BOOLEAN, admin \in BOOLEAN : UpdateAccount(a, active, admin)
             \/ \E t \in Tokens : ExpireLink(t)
      PROVE  cohort' = cohort
  BY <1>3 DEF ChangeEmail, CreateAccount, UpdateAccount, ExpireLink
<1>4. ASSUME NEW e \in Employees,
             \/ \E a \in Ids \cup {None} : SetLink(e, a)
             \/ \E a \in Ids, m \in Addresses : Provision(e, a, m)
             \/ \E active \in BOOLEAN, m \in Contact : UpdateDetails(e, active, m)
             \/ \E t \in Tokens, purpose \in {"activation", "recovery"} : IssueLink(e, t, purpose)
             \/ VerifyPayrollId(e) \/ Offboard(e) \/ Restore(e) \/ RevokeLinks(e)
      PROVE  cohort' = cohort
  BY <1>4 DEF SetLink, Provision, UpdateDetails, IssueLink, VerifyPayrollId, Offboard, Restore, RevokeLinks
<1> QED
  BY <1>1, <1>2, <1>3, <1>4, QuietSteps

LEMMA CohortFields ==
    ASSUME TypeOK, cohort.at # "none"
    PROVE  cohort \in [at: {"preview", "applied"}, mode: {"email", "payroll"}, employee: Employees, facts: Employee,
                       decision: {"retain", "create", "link", "skip", "blocked"}, account: Ids \cup {None}]
BY DEF TypeOK, Cohort, NoCohort

LEMMA CohortStep ==
    ASSUME Homes, CohortKept, [Next]_vars
    PROVE  cohort' \in Cohort /\ CohortKept'
<1>1. CASE cohort' = cohort
  BY <1>1 DEF Homes, TypeOK, CohortKept
<1>2. ASSUME NEW e \in Employees, NEW mode \in {"email", "payroll"}, Preview(e, mode)
      PROVE  cohort' \in Cohort /\ CohortKept'
  <2>1. PICK facts \in Employee : facts = employee[e]
    BY RowFields DEF Homes
  <2>2. PICK d : d = Readiness(e, mode)
    OBVIOUS
  <2>3. /\ d \in {"blocked", "retain", "create"}
        /\ facts.active /\ facts.payrollIds = 1 /\ d # "retain" => facts.login = None
    <3>1. facts.active \in BOOLEAN
      BY DEF Employee
    <3>2. CASE ~employee[e].active \/ employee[e].payrollIds # 1
      BY <2>1, <2>2, <3>1, <3>2 DEF Readiness
    <3>3. CASE employee[e].active /\ employee[e].payrollIds = 1
      <4>1. CASE LoginOf(e) = None
        <5>1. d = "blocked" \/ d = "create"
          BY <2>2, <3>3, <4>1 DEF Readiness
        <5> QED
          BY <2>1, <4>1, <5>1 DEF LoginOf
      <4>2. CASE LoginOf(e) # None
        <5>1. d = "retain"
          BY <2>2, <3>3, <4>2 DEF Readiness
        <5> QED
          BY <5>1
      <4> QED
        BY <4>1, <4>2
    <3> QED
      BY <2>1, <3>1, <3>2, <3>3
  <2>4. PICK a \in Ids \cup {None} : a = IF Readiness(e, mode) = "retain" THEN LoginOf(e) ELSE None
    BY RowFields DEF Homes
  <2>5. cohort' = [at |-> "preview", mode |-> mode, employee |-> e, facts |-> facts, decision |-> d, account |-> a]
    BY <1>2, <2>1, <2>2, <2>4 DEF Preview
  <2>6. cohort' \in Cohort
    BY <2>3, <2>5 DEF Cohort
  <2>7. cohort'.decision = d /\ cohort'.facts = facts
    BY <2>5
  <2> QED
    BY <2>3, <2>6, <2>7 DEF CohortKept
<1>3. ASSUME NEW a \in Ids \cup {None}, Apply(a)
      PROVE  cohort' \in Cohort /\ CohortKept'
  <2>1. cohort.at = "preview"
    BY <1>3 DEF Apply
  <2>2. PICK c : c = cohort
    OBVIOUS
  <2>3. c \in [at: {"preview", "applied"}, mode: {"email", "payroll"}, employee: Employees, facts: Employee,
               decision: {"retain", "create", "link", "skip", "blocked"}, account: Ids \cup {None}]
    BY <2>1, <2>2, CohortFields DEF Homes
  <2>4. PICK b \in Ids \cup {None} : b = IF c.decision = "create" THEN a ELSE c.account
    BY <2>3
  <2>5. cohort' = [c EXCEPT !.at = "applied", !.account = b]
    BY <1>3, <2>2, <2>4 DEF Apply
  <2>6. cohort' \in Cohort /\ cohort'.decision = c.decision /\ cohort'.facts = c.facts
    BY <2>3, <2>5 DEF Cohort
  <2> QED
    BY <2>1, <2>2, <2>6 DEF CohortKept
<1>4. ASSUME NEW a \in Ids \cup {None}, NEW decision \in {"link", "skip"}, Reconcile(decision, a)
      PROVE  cohort' \in Cohort /\ CohortKept'
  <2>1. cohort.at = "preview" /\ cohort.decision # "retain"
    BY <1>4 DEF Reconcile
  <2>2. PICK c : c = cohort
    OBVIOUS
  <2>3. c \in [at: {"preview", "applied"}, mode: {"email", "payroll"}, employee: Employees, facts: Employee,
               decision: {"retain", "create", "link", "skip", "blocked"}, account: Ids \cup {None}]
    BY <2>1, <2>2, CohortFields DEF Homes
  <2>4. cohort' = [c EXCEPT !.decision = decision, !.account = a]
    BY <1>4, <2>2 DEF Reconcile
  <2>5. cohort' \in Cohort /\ cohort'.decision = decision /\ cohort'.facts = c.facts
    BY <2>3, <2>4 DEF Cohort
  <2>6. decision = "link" => c.facts.active /\ c.facts.payrollIds = 1
    BY <1>4, <2>2 DEF Reconcile
  <2> QED
    BY <2>1, <2>2, <2>5, <2>6 DEF CohortKept
<1> QED
  BY <1>1, <1>2, <1>3, <1>4, CohortWrites

-----------------------------------------------------------------------------
(* Accounts: the inductive invariant is kept *)

LEMMA HomesStep ==
    ASSUME Homes, CohortKept, [Next]_vars
    PROVE  Homes'
<1>1. TypeOK'
  BY SmallTypes, LoginsLive, OpSteps, CohortStep DEF TypeOK
<1>2. ASSUME NEW t \in Tokens, token'[t].at = "open", LinkKept(t)
      PROVE  /\ token'[t].account \in Ids /\ token'[t].employee \in Employees
             /\ account'[token'[t].account].at = "live" /\ account'[token'[t].account].kind = "employee"
             /\ employee'[token'[t].employee].login = token'[t].account
             /\ token'[t].round = offboardings'[token'[t].account]
  <2>1. token'[t] = token[t] /\ token[t].at = "open" /\ token[t].round = offboardings[token[t].account]
    BY <1>2 DEF LinkKept, Homes, LinksCurrent
  <2>2. PICK a \in Ids, e \in Employees : a = token[t].account /\ e = token[t].employee
    BY <2>1, OpenFields DEF Homes
  <2>3. account[a].at = "live" /\ account[a].kind = "employee"
    BY <2>1, <2>2, OpenFields DEF Homes
  <2>4. employee'[e].login = a /\ offboardings'[a] = offboardings[a]
    BY <1>2, <2>2 DEF LinkKept
  <2>5. account'[a].at = "live"
    <3>1. LoginOf(e)' \in Live' \cup {None} /\ LoginOf(e)' = a /\ None \notin Ids
      BY <2>4, LoginsLive, RowFields DEF LoginOf, Homes
    <3> QED
      BY <3>1 DEF Live
  <2>6. account'[a].kind = "employee"
    BY <2>3, <2>5, AccountMoves DEF Homes, Stays, Made, Gone
  <2> QED
    BY <2>1, <2>2, <2>4, <2>5, <2>6
<1>3. ASSUME NEW e \in Employees, NEW t \in Tokens, NEW purpose \in {"activation", "recovery"}, IssueLink(e, t, purpose)
      PROVE  /\ token'[t].account \in Ids /\ token'[t].employee \in Employees
             /\ account'[token'[t].account].at = "live" /\ account'[token'[t].account].kind = "employee"
             /\ employee'[token'[t].employee].login = token'[t].account
             /\ token'[t].round = offboardings'[token'[t].account]
  <2>1. PICK a \in Ids : /\ token'[t].account = a /\ token'[t].employee = e /\ token'[t].round = offboardings[a]
                         /\ employee[e].login = a /\ account[a].at = "live" /\ account[a].kind = "employee"
    BY <1>3, IssueLinks
  <2>2. UNCHANGED <<employee, offboardings>>
    BY <1>3, IssueLinks
  <2>3. account'[a].at = "live"
    <3>1. LoginOf(e)' \in Live' \cup {None} /\ LoginOf(e)' = a /\ None \notin Ids
      BY <2>1, <2>2, LoginsLive, RowFields DEF LoginOf, Homes
    <3> QED
      BY <3>1 DEF Live
  <2>4. account'[a].kind = "employee"
    BY <2>1, <2>3, AccountMoves DEF Homes, Stays, Made, Gone
  <2> QED
    BY <2>1, <2>2, <2>3, <2>4
<1>4. ASSUME NEW t \in Tokens, token'[t].at = "open"
      PROVE  /\ token'[t].account \in Ids /\ token'[t].employee \in Employees
             /\ account'[token'[t].account].at = "live" /\ account'[token'[t].account].kind = "employee"
             /\ employee'[token'[t].employee].login = token'[t].account
             /\ token'[t].round = offboardings'[token'[t].account]
  <2>1. CASE LinkKept(t)
    BY <1>2, <1>4, <2>1
  <2>2. CASE ~LinkKept(t)
    <3>1. PICK e \in Employees, k \in Tokens, purpose \in {"activation", "recovery"} : IssueLink(e, k, purpose)
      BY <1>4, <2>2, StepLinks, ActivateLinks DEF Steady
    <3>2. k = t
      BY <1>4, <2>2, <3>1, IssueLinks
    <3> QED
      BY <1>3, <3>1, <3>2
  <2> QED
    BY <2>1, <2>2
<1> QED
  BY <1>1, <1>4 DEF Homes, LiveLinksPointHome, LinksCurrent, LoginOf, Live

\* What a sign-up made stays what it made, granted once it was granted.
LEMMA MadeForStays ==
    ASSUME Homes, SignupsKept, [Next]_vars, NEW a \in Ids, account[a].for # None
    PROVE  account'[a].for = account[a].for /\ (account[a].granted => account'[a].granted)
<1>1. account[a].at # "unused"
  BY DEF SignupsKept
<1> QED
  BY <1>1, AccountMoves DEF Homes, Stays, Made, Gone

LEMMA SignupsStep ==
    ASSUME Homes, SignupsKept, [Next]_vars
    PROVE  SignupsKept'
<1>1. \A a \in Ids : account'[a].at = "unused" => account'[a].for = None
  BY AccountMoves DEF Homes, SignupsKept, Stays, Made, Gone
<1>2. ASSUME NEW h \in Handlers, op'[h].kind \in {"granting", "marking"}
      PROVE  /\ account'[op'[h].account].for = op'[h].address
             /\ op'[h].kind = "marking" => account'[op'[h].account].granted
  <2>1. CASE op'[h] = op[h]
    <3>1. PICK a \in Ids, m \in Addresses : a = op[h].account /\ m = op[h].address
      BY <1>2, <2>1, OpFields DEF Homes
    <3>2. account[a].for = m /\ (op[h].kind = "marking" => account[a].granted)
      BY <1>2, <2>1, <3>1 DEF SignupsKept
    <3>3. m # None
      BY NoneAssumption
    <3> QED
      BY <2>1, <3>1, <3>2, <3>3, MadeForStays
  <2>2. ASSUME NEW a \in Ids, InsertAccount(h, a),
               op'[h] = [kind |-> "granting", address |-> op[h].address, account |-> a]
        PROVE  /\ account'[op'[h].account].for = op'[h].address
               /\ op'[h].kind = "marking" => account'[op'[h].account].granted
    <3>1. PICK m \in Addresses : m = op[h].address
      BY <2>2, OpFields DEF InsertAccount, Homes
    <3>2. ~Done(h)
      <4>1. op'[h].kind = "granting"
        BY <2>2
      <4> QED
        BY <4>1, DoneType DEF Homes
    <3>3. PICK x : x = [account[a] EXCEPT !.at = "live", !.active = TRUE, !.email = m, !.for = m]
      OBVIOUS
    <3>4. account' = [account EXCEPT ![a] = x]
      BY <2>2, <3>1, <3>2, <3>3 DEF InsertAccount
    <3>5. x.for = m
      BY <3>3, RowFields DEF Account, Homes
    <3>6. account'[a].for = m
      BY <3>4, <3>5 DEF Homes, TypeOK
    <3>7. op'[h].account = a /\ op'[h].address = m /\ op'[h].kind = "granting"
      BY <2>2, <3>1
    <3> QED
      BY <3>6, <3>7
  <2>3. CASE Grant(h) /\ op'[h] = [op[h] EXCEPT !.kind = "marking"] /\ op[h].account \in Live
    <3>1. PICK a \in Ids, m \in Addresses : a = op[h].account /\ m = op[h].address
      BY <2>3, OpFields DEF Homes, Grant
    <3>2. account[a].for = m /\ m # None
      BY <2>3, <3>1, NoneAssumption DEF SignupsKept, Grant
    <3>3. PICK x : x = [account[a] EXCEPT !.granted = TRUE]
      OBVIOUS
    <3>4. account' = [account EXCEPT ![a] = x]
      BY <2>3, <3>1, <3>3 DEF Grant
    <3>5. x.granted
      BY <3>3, RowFields DEF Account, Homes
    <3>6. account'[a].granted /\ account'[a].for = m
      BY <3>2, <3>4, <3>5, MadeForStays DEF Homes, TypeOK
    <3>7. op[h] \in Op /\ op[h].kind = "granting"
      BY <2>3, OpFields DEF Homes, Grant
    <3>8. op'[h].account = a /\ op'[h].address = m
      BY <2>3, <3>1, <3>7 DEF Op, Idle
    <3> QED
      BY <3>6, <3>8
  <2> QED
    BY <1>2, <2>1, <2>2, <2>3, OpSteps DEF OpMoves
<1> QED
  BY <1>1, <1>2 DEF SignupsKept

LEMMA ApprovedStep ==
    ASSUME Homes, SignupsKept, ApprovedIsSetUp, [Next]_vars
    PROVE  ApprovedIsSetUp'
<1>1. ASSUME NEW m \in Addresses, NEW a \in Ids, account[a].for = m, account[a].granted
      PROVE  \E b \in Ids : account'[b].for = m /\ account'[b].granted
  BY <1>1, MadeForStays, NoneAssumption
<1>2. ASSUME NEW m \in Addresses, signup'[m] = "approved"
      PROVE  \E a \in Ids : account[a].for = m /\ account[a].granted
  <2>1. CASE signup[m] = "approved"
    BY <2>1 DEF ApprovedIsSetUp
  <2>2. CASE signup[m] # "approved"
    <3>1. PICK h \in Handlers : WriteSignup(h) \/ WriteReject(h) \/ MarkApproved(h)
      BY <1>2, <2>2, SignupWrites DEF Decides
    <3>2. PICK n \in Addresses : n = op[h].address
      BY <3>1, OpFields DEF WriteSignup, WriteReject, MarkApproved, Homes
    <3>3. signup \in [Addresses -> {"none", "pending", "approved", "rejected"}]
      BY DEF Homes, TypeOK
    <3>4. ~WriteSignup(h)
      <4>1. WriteSignup(h) => \E s \in {"pending", signup[n]} : signup' = [signup EXCEPT ![n] = s]
        BY <3>2, <3>3 DEF WriteSignup
      <4> QED
        BY <1>2, <2>2, <3>3, <4>1
    <3>5. ~WriteReject(h)
      <4>1. WriteReject(h) => signup' = [signup EXCEPT ![n] = "rejected"]
        BY <3>2 DEF WriteReject
      <4> QED
        BY <1>2, <2>2, <3>3, <4>1
    <3>6. op[h].kind = "marking" /\ signup' = [signup EXCEPT ![n] = "approved"]
      BY <3>1, <3>2, <3>4, <3>5 DEF MarkApproved
    <3>7. n = m
      BY <1>2, <2>2, <3>3, <3>6
    <3>8. op[h].account \in Ids /\ account[op[h].account].for = n /\ account[op[h].account].granted
      BY <3>2, <3>6, OpFields DEF SignupsKept, Homes
    <3> QED
      BY <3>7, <3>8
  <2> QED
    BY <2>1, <2>2
<1>3. ASSUME NEW m \in Addresses, signup'[m] = "approved"
      PROVE  \E a \in Ids : account'[a].for = m /\ account'[a].granted
  BY <1>1, <1>2, <1>3
<1> QED
  BY <1>3 DEF ApprovedIsSetUp

LEMMA AccountsInit == Init => AccountsInv
<1> SUFFICES ASSUME Init PROVE AccountsInv
  OBVIOUS
<1>1. TypeOK
  BY TypesInit
<1>2. \A t \in Tokens : token[t].at = "unused"
  BY DEF Init, NoToken
<1>3. \A h \in Handlers : op[h].kind = "idle"
  BY DEF Init, Idle
<1>4. cohort.at = "none"
  BY DEF Init, NoCohort
<1>5. ASSUME NEW a \in Ids, account[a].at = "unused" PROVE account[a].for = None
  <2>1. Unused.for = None
    BY DEF Unused
  <2>2. CASE a \in FirstAdmins
    <3>1. account[a] = [Unused EXCEPT !.at = "live", !.active = TRUE, !.admin = TRUE, !.email = FirstAddress[a]]
      BY <2>2 DEF Init
    <3>2. account[a].at = "live"
      BY <3>1 DEF Unused
    <3> QED
      BY <1>5, <3>2
  <2>3. CASE a \notin FirstAdmins
    BY <2>1, <2>3 DEF Init
  <2> QED
    BY <2>2, <2>3
<1>6. \A m \in Addresses : signup[m] = "none"
  BY DEF Init
<1> QED
  BY <1>1, <1>2, <1>3, <1>4, <1>5, <1>6
  DEF AccountsInv, IdentityInv, SignupInv, ApprovedIsSetUp, LiveLinksPointHome, SignupsKept, LinksCurrent, CohortKept

LEMMA AccountsStep == AccountsInv /\ [Next]_vars => AccountsInv'
<1> SUFFICES ASSUME AccountsInv, [Next]_vars PROVE AccountsInv'
  OBVIOUS
<1>1. Homes /\ CohortKept /\ SignupsKept /\ ApprovedIsSetUp
  BY DEF AccountsInv, IdentityInv, SignupInv, Homes
<1>2. Homes'
  BY <1>1, HomesStep
<1>3. CohortKept' /\ SignupsKept' /\ ApprovedIsSetUp'
  BY <1>1, CohortStep, SignupsStep, ApprovedStep
<1> QED
  BY <1>2, <1>3 DEF AccountsInv, IdentityInv, SignupInv, Homes

LEMMA AccountsAlways == Spec => []AccountsInv
BY AccountsInit, AccountsStep, PTL DEF Spec

-----------------------------------------------------------------------------
(* Accounts: what is proved *)

\* A login that an employee has exists, an activation or recovery link that still works leads to
\* the login of the employee it was handed to, and a sign-up request that counts as approved has
\* its account with its access: whatever is relinked, renamed, offboarded or deleted meanwhile
\* (setEmployeeAccount, assignAccountEmployee, changeAccountEmail, offboardEmployee, and the
\* handlers that read in one statement and write in the next).
THEOREM IdentityAlways == Spec => []IdentityInv
<1>1. AccountsInv => IdentityInv
  BY DEF AccountsInv
<1> QED
  BY <1>1, AccountsAlways, PTL

\* A link that was handed out before an offboarding never opens the account afterwards, not even
\* when it was looked up before and is used after (activateEmployeeAccount).
THEOREM OldLinksStayShut == Spec => NoOldLinkReopens
<1>1. ASSUME AccountsInv, [Next]_vars
      PROVE  \A t \in Tokens : token[t].at # "consumed" /\ token'[t].at = "consumed" =>
                                  token[t].round = offboardings[token[t].account]
  <2> SUFFICES ASSUME NEW t \in Tokens, token[t].at # "consumed", token'[t].at = "consumed"
               PROVE  token[t].round = offboardings[token[t].account]
    OBVIOUS
  <2>1. Homes
    BY <1>1 DEF AccountsInv, IdentityInv, SignupInv, Homes
  <2>2. token[t].at = "open"
    BY <1>1, <2>1, StepLinks, IssueLinks, ActivateLinks DEF Steady
  <2> QED
    BY <2>1, <2>2 DEF Homes, LinksCurrent
<1>2. AccountsInv /\ [Next]_vars =>
        [\A t \in Tokens : token[t].at # "consumed" /\ token'[t].at = "consumed" =>
            token[t].round = offboardings[token[t].account]]_vars
  BY <1>1
<1> QED
  BY <1>2, AccountsAlways, PTL DEF Spec, NoOldLinkReopens

\* Applying an onboarding cohort gives logins, and takes none away: an employee who has one when
\* the cohort is applied keeps it, whenever it was linked and whatever was decided before.
THEOREM LoginsSurviveOnboarding == Spec => OnboardingKeepsLogins
<1>1. ASSUME AccountsInv, [Next]_vars, cohort.at = "preview", cohort'.at = "applied"
      PROVE  \A e \in Employees : LoginOf(e) # None => LoginOf(e)' = LoginOf(e)
  <2>1. Homes /\ CohortKept
    BY <1>1 DEF AccountsInv, IdentityInv, SignupInv, Homes
  <2>2. PICK a \in Ids \cup {None} : Apply(a)
    <3>1. cohort' # cohort
      BY <1>1
    <3>2. ASSUME NEW e \in Employees, NEW mode \in {"email", "payroll"}, Preview(e, mode)
          PROVE  FALSE
      BY <1>1, <3>2 DEF Preview
    <3>3. ASSUME NEW a \in Ids \cup {None}, NEW decision \in {"link", "skip"}, Reconcile(decision, a)
          PROVE  FALSE
      <4>1. PICK c : c = cohort
        OBVIOUS
      <4>2. c \in [at: {"preview", "applied"}, mode: {"email", "payroll"}, employee: Employees, facts: Employee,
                   decision: {"retain", "create", "link", "skip", "blocked"}, account: Ids \cup {None}]
        BY <1>1, <2>1, <4>1, CohortFields DEF Homes
      <4>3. cohort' = [c EXCEPT !.decision = decision, !.account = a]
        BY <3>3, <4>1 DEF Reconcile
      <4>4. cohort'.at = c.at
        BY <4>2, <4>3
      <4> QED
        BY <1>1, <4>1, <4>4
    <3> QED
      BY <1>1, <3>1, <3>2, <3>3, CohortWrites
  <2>3. PICK e \in Employees : e = cohort.employee
    BY <1>1, <2>1, CohortFields DEF Homes
  <2>4. employee \in [Employees -> Employee] /\ account \in [Ids -> Account]
    BY <2>1 DEF Homes, TypeOK
  <2>5. CASE employee' = employee
    BY <2>5 DEF LoginOf
  <2>6. CASE employee' # employee
    <3>1. /\ employee[e].login = None
          /\ \A f \in Employees : f # e => employee'[f] = employee[f]
      <4>1. CASE cohort.decision = "link" /\ Link(e, a)
        <5>1. cohort.facts = employee[e]
          BY <2>2, <2>3, <4>1 DEF Apply, StillAsShown
        <5>2. employee[e].login = None
          BY <1>1, <2>1, <4>1, <5>1 DEF CohortKept
        <5>3. employee' = Linked(e, a, account, employee)
          BY <2>6, <4>1 DEF Link
        <5>4. \A f \in Employees : f # e => Linked(e, a, account, employee)[f] = employee[f]
          BY <2>2, <2>4, LinkedType
        <5> QED
          BY <5>2, <5>3, <5>4
      <4>2. CASE Readiness(e, cohort.mode) = "create" /\ employee' = [employee EXCEPT ![e].login = a]
        <5>1. LoginOf(e) = None
          BY <4>2 DEF Readiness
        <5> QED
          BY <2>4, <4>2, <5>1 DEF LoginOf
      <4> QED
        BY <2>2, <2>3, <2>6, <4>1, <4>2 DEF Apply
    <3> QED
      BY <3>1 DEF LoginOf
  <2> QED
    BY <2>5, <2>6
<1>2. AccountsInv /\ [Next]_vars =>
        [cohort.at = "preview" /\ cohort'.at = "applied" =>
            \A e \in Employees : LoginOf(e) # None => LoginOf(e)' = LoginOf(e)]_vars
  BY <1>1
<1> QED
  BY <1>2, AccountsAlways, PTL DEF Spec, OnboardingKeepsLogins

-----------------------------------------------------------------------------
(* StaffRecords: reporting lines *)

\* Who is above somebody, None where nobody is.
Above(mgr, x) == IF x \in DOMAIN mgr THEN mgr[x] ELSE None

IsLine(up, mgr, e, n) ==
    up = [k \in 0..n |-> IF k = 0 THEN e ELSE IF up[k - 1] \in DOMAIN mgr THEN mgr[up[k - 1]] ELSE None]

LEMMA LineUnfolds ==
    ASSUME NEW mgr, NEW e
    PROVE  Line(mgr, e) = CHOOSE up : IsLine(up, mgr, e, Cardinality(Employees))
BY DEF Line, IsLine

LEMMA LineExists ==
    ASSUME NEW mgr, NEW e
    PROVE  \A n \in Nat : \E up : IsLine(up, mgr, e, n)
<1> DEFINE G == {n \in Nat : \E up : IsLine(up, mgr, e, n)}
<1>1. 0 \in G
  <2> DEFINE up == [k \in 0..0 |-> e]
  <2>1. IsLine(up, mgr, e, 0)
    BY DEF IsLine
  <2> QED
    BY <2>1
<1>2. ASSUME NEW n \in Nat, n \in G
      PROVE  n + 1 \in G
  <2>1. PICK up : IsLine(up, mgr, e, n)
    BY <1>2
  <2> DEFINE next == [k \in 0..(n + 1) |->
                        IF k = 0 THEN e ELSE IF up[k - 1] \in DOMAIN mgr THEN mgr[up[k - 1]] ELSE None]
  <2>2. ASSUME NEW k \in 0..n PROVE next[k] = up[k]
    <3>1. k \in 0..(n + 1)
      OBVIOUS
    <3>2. up[k] = IF k = 0 THEN e ELSE IF up[k - 1] \in DOMAIN mgr THEN mgr[up[k - 1]] ELSE None
      BY <2>1 DEF IsLine
    <3> QED
      BY <3>1, <3>2
  <2>3. \A k \in 0..(n + 1) : k # 0 => k - 1 \in 0..n
    OBVIOUS
  <2>4. next = [k \in 0..(n + 1) |->
                  IF k = 0 THEN e ELSE IF next[k - 1] \in DOMAIN mgr THEN mgr[next[k - 1]] ELSE None]
    BY <2>2, <2>3
  <2> HIDE DEF next
  <2>5. IsLine(next, mgr, e, n + 1)
    BY <2>4 DEF IsLine
  <2> QED
    BY <2>5
<1> HIDE DEF G
<1>3. \A n \in Nat : n \in G
  <2> SUFFICES ASSUME NEW n \in Nat PROVE n \in G
    OBVIOUS
  <2>1. G \in SUBSET Nat
    BY DEF G
  <2>2. \A k \in 0..(n - 1) : k \in G => k + 1 \in G
    BY <1>2
  <2> QED
    BY <1>1, <2>1, <2>2, RangeInduction
<1> QED
  BY <1>3 DEF G

\* The line starts with the employee, and goes up one manager after another.
LEMMA LineSteps ==
    ASSUME NEW mgr, NEW e
    PROVE  /\ Cardinality(Employees) \in Nat
           /\ Line(mgr, e)[0] = e
           /\ \A n \in 0..(Cardinality(Employees) - 1) : Line(mgr, e)[n + 1] = Above(mgr, Line(mgr, e)[n])
<1>1. PICK n \in Nat : n = Cardinality(Employees)
  BY FS_CardinalityType, RegisterAssumption
<1>2. IsLine(Line(mgr, e), mgr, e, n)
  <2>1. \E f : IsLine(f, mgr, e, n)
    BY LineExists
  <2>2. Line(mgr, e) = CHOOSE f : IsLine(f, mgr, e, n)
    BY <1>1, LineUnfolds
  <2> QED
    BY <2>1, <2>2, Zenon
<1>3. PICK up : up = Line(mgr, e)
  OBVIOUS
<1>4. up[0] = e /\ \A k \in 1..n : up[k] = Above(mgr, up[k - 1])
  <2>1. \A k \in 0..n : up[k] = IF k = 0 THEN e
                                ELSE IF up[k - 1] \in DOMAIN mgr THEN mgr[up[k - 1]] ELSE None
    BY <1>2, <1>3 DEF IsLine
  <2>2. 0 \in 0..n /\ \A k \in 1..n : k \in 0..n /\ k # 0
    OBVIOUS
  <2> QED
    BY <2>1, <2>2 DEF Above
<1>5. \A k \in 0..(n - 1) : k + 1 \in 1..n /\ (k + 1) - 1 = k
  OBVIOUS
<1>6. \A k \in 0..(n - 1) : up[k + 1] = Above(mgr, up[k])
  BY <1>4, <1>5
<1> QED
  BY <1>1, <1>3, <1>4, <1>6

\* A set of people who all report to one another.
Loops(mgr, S) == S # {} /\ S \subseteq DOMAIN mgr /\ \A x \in S : mgr[x] \in S

\* Whoever is above themselves is on a loop, of people who are above them.
LEMMA CycleLoops ==
    ASSUME NEW mgr, NEW e, e \in DOMAIN mgr, None \notin DOMAIN mgr, OnCycle(mgr, e)
    PROVE  \E S : Loops(mgr, S) /\ \A x \in S : \E n \in 1..Cardinality(Employees) : Line(mgr, e)[n] = x
<1>1. PICK N \in Nat : N = Cardinality(Employees)
  BY LineSteps
<1>2. PICK up : up = Line(mgr, e)
  OBVIOUS
<1>3. up[0] = e /\ \A n \in 0..(N - 1) : up[n + 1] = Above(mgr, up[n])
  BY <1>1, <1>2, LineSteps
<1>4. PICK m \in 1..N : up[m] = e
  BY <1>1, <1>2 DEF OnCycle
<1>5. ASSUME NEW n \in 0..m, up[n] \notin DOMAIN mgr
      PROVE  FALSE
  <2>1. n < m /\ m - n - 1 \in Nat
    BY <1>4, <1>5
  <2> DEFINE G == {j \in Nat : up[n + 1 + j] = None}
  <2>2. 0 \in G
    <3>1. n \in 0..(N - 1)
      BY <2>1
    <3>2. up[n + 1] = None
      BY <1>3, <1>5, <3>1 DEF Above
    <3> QED
      BY <3>2
  <2>3. ASSUME NEW j \in 0..((m - n - 1) - 1), j \in G
        PROVE  j + 1 \in G
    <3>1. n + 1 + j \in 0..(N - 1) /\ (n + 1 + j) + 1 = n + 1 + (j + 1) /\ j + 1 \in Nat
      BY <2>1
    <3>2. up[n + 1 + j] = None
      BY <2>3
    <3>3. up[n + 1 + (j + 1)] = None
      BY <1>3, <3>1, <3>2 DEF Above
    <3> QED
      BY <3>1, <3>3
  <2>4. G \in SUBSET Nat
    OBVIOUS
  <2> HIDE DEF G
  <2>5. \A j \in 0..(m - n - 1) : j \in G
    BY <2>1, <2>2, <2>3, <2>4, RangeInduction
  <2>6. m - n - 1 \in G /\ n + 1 + (m - n - 1) = m
    BY <2>1, <2>5
  <2> QED
    BY <1>4, <2>6 DEF G
<1> DEFINE S == {up[n] : n \in 1..m}
<1>6. S # {} /\ S \subseteq DOMAIN mgr
  BY <1>5
<1>7. ASSUME NEW n \in 1..m
      PROVE  mgr[up[n]] \in S
  <2>1. CASE n = m
    <3>1. up[0 + 1] = Above(mgr, up[0]) /\ 0 + 1 \in 1..m
      BY <1>3
    <3>2. mgr[up[n]] = up[1] /\ 1 \in 1..m
      BY <1>3, <1>4, <2>1, <3>1 DEF Above
    <3> QED
      BY <3>2
  <2>2. CASE n # m
    <3>1. n \in 0..(N - 1) /\ n \in 0..m /\ n + 1 \in 1..m
      BY <2>2
    <3>2. mgr[up[n]] = up[n + 1]
      BY <1>3, <1>5, <3>1 DEF Above
    <3> QED
      BY <3>1, <3>2
  <2> QED
    BY <2>1, <2>2
<1>8. Loops(mgr, S)
  BY <1>6, <1>7 DEF Loops
<1>9. \A x \in S : \E n \in 1..N : up[n] = x
  OBVIOUS
<1> QED
  BY <1>1, <1>2, <1>8, <1>9

\* A loop has people on it who are above themselves, and who are a loop.
LEMMA LoopCycles ==
    ASSUME NEW mgr, NEW S, S \subseteq Employees, Loops(mgr, S)
    PROVE  \E C : Loops(mgr, C) /\ C \subseteq S /\ \A t \in C : OnCycle(mgr, t)
<1>1. PICK N \in Nat : N = Cardinality(Employees)
  BY LineSteps
<1>2. PICK e : e \in S
  BY DEF Loops
<1>3. PICK up : up = Line(mgr, e)
  OBVIOUS
<1>4. up[0] = e /\ \A n \in 0..(N - 1) : up[n + 1] = Above(mgr, up[n])
  BY <1>1, <1>3, LineSteps
<1>5. \A n \in 0..N : up[n] \in S
  <2> DEFINE G == {n \in Nat : up[n] \in S}
  <2>1. 0 \in G /\ G \in SUBSET Nat
    BY <1>2, <1>4
  <2>2. \A n \in 0..(N - 1) : n \in G => n + 1 \in G
    BY <1>4 DEF Above, Loops
  <2> HIDE DEF G
  <2>3. \A n \in 0..N : n \in G
    BY <2>1, <2>2, RangeInduction
  <2> QED
    BY <2>3 DEF G
<1>6. \A n \in 0..(N - 1) : up[n + 1] = mgr[up[n]]
  BY <1>4, <1>5 DEF Above, Loops
<1>7. PICK i \in 0..N, j \in 0..N : i < j /\ up[i] = up[j]
  <2> DEFINE f == [n \in 0..N |-> up[n]]
  <2>1. f \in [0..N -> Employees]
    BY <1>5
  <2>2. IsFiniteSet(0..N) /\ Cardinality(0..N) = N + 1
    BY FS_Interval
  <2>3. IsFiniteSet(Employees) /\ Cardinality(Employees) < Cardinality(0..N)
    BY <1>1, <2>2, RegisterAssumption
  <2> HIDE DEF f
  <2>4. PICK x \in 0..N, y \in 0..N : x # y /\ f[x] = f[y]
    BY <2>1, <2>2, <2>3, FS_PigeonHole
  <2>5. up[x] = up[y] /\ (x < y \/ y < x)
    BY <2>4 DEF f
  <2> QED
    BY <2>5
<1> DEFINE C == {up[k] : k \in i..(j - 1)}
<1>8. C # {} /\ C \subseteq S
  BY <1>5, <1>7
<1>9. ASSUME NEW k \in i..(j - 1)
      PROVE  mgr[up[k]] \in C
  <2>1. mgr[up[k]] = up[k + 1] /\ k + 1 \in i..j
    BY <1>6, <1>7
  <2>2. CASE k + 1 = j
    BY <1>7, <2>1, <2>2
  <2>3. CASE k + 1 # j
    <3>1. k + 1 \in i..(j - 1)
      BY <2>1, <2>3
    <3> QED
      BY <2>1, <3>1
  <2> QED
    BY <2>2, <2>3
<1>10. Loops(mgr, C)
  BY <1>8, <1>9 DEF Loops
<1>11. ASSUME NEW k \in i..(j - 1)
       PROVE  OnCycle(mgr, up[k])
  <2>1. PICK v : v = Line(mgr, up[k])
    OBVIOUS
  <2>2. PICK t : t = up[k]
    OBVIOUS
  <2>3. v[0] = up[k] /\ \A n \in 0..(N - 1) : v[n + 1] = Above(mgr, v[n])
    BY <1>1, <2>1, <2>2, LineSteps
  <2>4. PICK d \in 1..N : d = j - i
    BY <1>7
  <2> DEFINE At(n) == IF k + n < j THEN k + n ELSE k + n - d
             G == {n \in Nat : n <= d => v[n] = up[At(n)]}
  <2>5. 0 \in G /\ G \in SUBSET Nat
    <3>1. At(0) = k
      OBVIOUS
    <3> QED
      BY <2>3, <3>1
  <2>6. ASSUME NEW n \in 0..(d - 1), n \in G
        PROVE  n + 1 \in G
    <3>1. n \in 0..(N - 1) /\ n <= d /\ At(n) \in i..(j - 1) /\ At(n) \in 0..(N - 1)
      BY <1>7, <2>4
    <3>2. v[n] = up[At(n)]
      BY <2>6, <3>1
    <3>3. v[n] \in S
      BY <1>5, <3>1, <3>2
    <3>4. v[n + 1] = mgr[v[n]]
      BY <2>3, <3>1, <3>3 DEF Above, Loops
    <3>5. v[n + 1] = up[At(n) + 1]
      BY <1>6, <3>1, <3>2, <3>4
    <3>6. up[At(n) + 1] = up[At(n + 1)]
      <4>1. CASE k + n + 1 = j
        <5>1. At(n) + 1 = j /\ At(n + 1) = i
          BY <2>4, <4>1
        <5> QED
          BY <1>7, <5>1
      <4>2. CASE k + n + 1 # j
        <5>1. At(n) + 1 = At(n + 1)
          BY <2>4, <4>2
        <5> QED
          BY <5>1
      <4> QED
        BY <4>1, <4>2
    <3> QED
      BY <3>5, <3>6
  <2>7. At(d) = k
    BY <1>7, <2>4
  <2> HIDE DEF G, At
  <2>8. \A n \in 0..d : n \in G
    BY <2>4, <2>5, <2>6, RangeInduction
  <2>9. v[d] = up[k]
    BY <2>4, <2>7, <2>8 DEF G
  <2> QED
    BY <1>1, <2>1, <2>4, <2>9 DEF OnCycle
<1>12. \A t \in C : OnCycle(mgr, t)
  BY <1>11
<1> QED
  BY <1>8, <1>10, <1>12

-----------------------------------------------------------------------------
(* StaffRecords: the inductive invariant *)

SoundRow == {r \in Row : r.decision \in {"create", "update"} => r.target \in Employees}
Reviewed(b) == [Rows(b) -> SoundRow]

BatchTyped(b, x) ==
    x = [at |-> "none"] \/ x \in [at: {"preview", "applied"}, rev: Nat, rows: Reviewed(b)]

OpTyped(o) ==
    \/ o = Idle
    \/ \E b \in Batches, r \in Nat : o = [kind |-> "reading", batch |-> b, rev |-> r]
    \/ \E b \in Batches, r \in Nat, k \in {"evaluating", "shown"} : \E s \in Reviewed(b) :
          o = [kind |-> k, batch |-> b, rev |-> r, shown |-> s]
    \/ \E b \in Batches, locked \in SUBSET Employees : \E s \in Reviewed(b) :
          o = [kind |-> "writing", batch |-> b, shown |-> s, locked |-> locked]
    \/ \E e \in Employees, m \in Employees \cup {None}, seen \in SUBSET Employees :
          o = [kind |-> "editing", employee |-> e, manager |-> m, seen |-> seen]
    \/ \E e \in Employees : o = [kind |-> "deleting", employee |-> e]

StaffTyped ==
    /\ emp \in [Employees -> Person]
    /\ owner \in [PayrollIds -> Employees \cup {None}]
    /\ batch = [b \in Batches |-> batch[b]] /\ \A b \in Batches : BatchTyped(b, batch[b])
    /\ op = [h \in Handlers |-> op[h]] /\ \A h \in Handlers : OpTyped(op[h])
    /\ unseen \subseteq Employees /\ changes \in 0..MaxChanges

\* But for newcomers, nobody reports in a circle.
NoLoop == \A S \in SUBSET (InRegister \ unseen) : S # {} => \E x \in S : emp[x].manager \notin S

\* What a reader of a batch holds is of the revision it read, or of a later one.
ReadAsWas ==
    \A h \in Handlers : op[h].kind \in {"reading", "evaluating", "shown"} =>
        /\ batch[op[h].batch].at # "none" /\ op[h].rev <= batch[op[h].batch].rev
        /\ op[h].kind # "reading" /\ op[h].rev = batch[op[h].batch].rev => op[h].shown = batch[op[h].batch].rows

OneWriter == \A g, h \in Handlers : op[g].kind = "writing" /\ op[h].kind = "writing" => g = h

\* The rows of an import that can be written are as they were reviewed, lead to people who are
\* held or to one another, and close no circle.
Writable(b, rows, locked) ==
    /\ \A i \in Rows(b) : rows[i].decision # "skip" =>
          i \in Selected(b, rows) /\ Hash(b, i, rows[i].decision, rows[i].target) = rows[i].hash
    /\ \A i \in Selected(b, rows) : Sheet[b][i].manager # None =>
          /\ owner[Sheet[b][i].manager] \in locked \cup {None}
          /\ owner[Sheet[b][i].manager] = None =>
                \E j \in Selected(b, rows) : Sheet[b][j].payroll = Sheet[b][i].manager
    /\ \A S \in SUBSET ((locked \cup Targets(b, rows)) \ unseen) :
          S # {} => \E x \in S : Proposed(b, rows)[x] \notin S

\* No two rows are for one employee.
Apart(b, rows) == \A i, j \in Selected(b, rows) : rows[i].target = rows[j].target => i = j

\* While an import is written, whoever it found is there, and whoever came since reports to none of them.
Writing(b, rows, locked) ==
    /\ batch[b].at = "preview" /\ batch[b].rows = rows /\ Apart(b, rows) /\ locked \subseteq InRegister
    /\ \A i \in Selected(b, rows) : IF rows[i].decision = "update" THEN rows[i].target \in locked
                                    ELSE rows[i].target \notin InRegister
    /\ \A x \in InRegister \ locked : emp[x].manager \notin locked
    /\ IdTaken(b, rows) \/ Writable(b, rows, locked)

Writes == \A h \in Handlers : op[h].kind = "writing" => Writing(op[h].batch, op[h].shown, op[h].locked)

StaffInv == StaffTyped /\ NobodyDangles /\ NoLoop /\ ReadAsWas /\ OneWriter /\ Writes

-----------------------------------------------------------------------------
(* StaffRecords: types *)

LEMMA NoneIsNobody ==
    ASSUME StaffTyped
    PROVE  None \notin Employees /\ None \notin PayrollIds /\ MaxChanges \in Nat /\ IsFiniteSet(Employees)
BY RegisterAssumption

LEMMA SheetFields ==
    ASSUME StaffTyped, NEW b \in Batches, NEW i \in Rows(b)
    PROVE  Sheet[b][i].payroll \in PayrollIds /\ Sheet[b][i].name \in Names
           /\ Sheet[b][i].manager \in PayrollIds \cup {None}
<1>1. Sheet[b][i] \in [payroll: PayrollIds, name: Names, manager: PayrollIds \cup {None}]
  BY RegisterAssumption DEF Rows
<1> QED
  BY <1>1

LEMMA BatchFields ==
    ASSUME StaffTyped, NEW b \in Batches, batch[b].at # "none"
    PROVE  /\ batch[b] \in [at: {"preview", "applied"}, rev: Nat, rows: Reviewed(b)]
           /\ batch[b].rows \in Reviewed(b) /\ batch[b].rev \in Nat
           /\ \A i \in Rows(b) : batch[b].rows[i] \in SoundRow
<1>1. batch[b] \in [at: {"preview", "applied"}, rev: Nat, rows: Reviewed(b)]
  <2>1. BatchTyped(b, batch[b])
    BY DEF StaffTyped
  <2> QED
    BY <2>1 DEF BatchTyped
<1> QED
  BY <1>1 DEF Reviewed

LEMMA SelectedTargets ==
    ASSUME NEW b \in Batches, NEW rows \in Reviewed(b)
    PROVE  /\ \A i \in Selected(b, rows) : i \in Rows(b) /\ rows[i].target \in Employees
           /\ Targets(b, rows) \subseteq Employees
BY DEF Reviewed, Selected, Targets, SoundRow

LEMMA RequestFields ==
    ASSUME StaffTyped, NEW h \in Handlers
    PROVE  /\ OpTyped(op[h])
           /\ op[h].kind \in {"reading", "evaluating", "shown", "writing"} => op[h].batch \in Batches
           /\ op[h].kind \in {"reading", "evaluating", "shown"} => op[h].rev \in Nat
           /\ op[h].kind \in {"evaluating", "shown", "writing"} => op[h].shown \in Reviewed(op[h].batch)
           /\ op[h].kind = "writing" => op[h].locked \in SUBSET Employees
           /\ op[h].kind = "editing" => /\ op[h].employee \in Employees /\ op[h].manager \in Employees \cup {None}
                                        /\ op[h].seen \in SUBSET Employees
           /\ op[h].kind = "deleting" => op[h].employee \in Employees
<1>1. OpTyped(op[h])
  BY DEF StaffTyped
<1>2. CASE op[h] = Idle
  BY <1>1, <1>2 DEF Idle
<1>3. ASSUME NEW b \in Batches, NEW r \in Nat, op[h] = [kind |-> "reading", batch |-> b, rev |-> r]
      PROVE  op[h].kind = "reading" /\ op[h].batch \in Batches /\ op[h].rev \in Nat
  BY <1>3
<1>4. ASSUME NEW b \in Batches, NEW r \in Nat, NEW k \in {"evaluating", "shown"}, NEW s \in Reviewed(b),
             op[h] = [kind |-> k, batch |-> b, rev |-> r, shown |-> s]
      PROVE  op[h].kind \in {"evaluating", "shown"} /\ op[h].batch \in Batches /\ op[h].rev \in Nat
             /\ op[h].shown \in Reviewed(op[h].batch)
  BY <1>4
<1>5. ASSUME NEW b \in Batches, NEW locked \in SUBSET Employees, NEW s \in Reviewed(b),
             op[h] = [kind |-> "writing", batch |-> b, shown |-> s, locked |-> locked]
      PROVE  op[h].kind = "writing" /\ op[h].batch \in Batches /\ op[h].locked \in SUBSET Employees
             /\ op[h].shown \in Reviewed(op[h].batch)
  BY <1>5
<1>6. ASSUME NEW e \in Employees, NEW m \in Employees \cup {None}, NEW seen \in SUBSET Employees,
             op[h] = [kind |-> "editing", employee |-> e, manager |-> m, seen |-> seen]
      PROVE  /\ op[h].kind = "editing" /\ op[h].employee \in Employees /\ op[h].manager \in Employees \cup {None}
             /\ op[h].seen \in SUBSET Employees
  BY <1>6
<1>7. ASSUME NEW e \in Employees, op[h] = [kind |-> "deleting", employee |-> e]
      PROVE  op[h].kind = "deleting" /\ op[h].employee \in Employees
  BY <1>7
<1> QED
  BY <1>1, <1>2, <1>3, <1>4, <1>5, <1>6, <1>7 DEF OpTyped

LEMMA HashType ==
    ASSUME StaffTyped, NEW b \in Batches, NEW i \in Rows(b), NEW decision \in Decisions,
           NEW target \in Employees \cup {None}
    PROVE  Hash(b, i, decision, target) \in
              [employee: {None} \cup [id: Employees, is: Person], ids: SUBSET PayrollIds,
               manager: {None} \cup [id: Employees, is: Person]]
<1>1. ASSUME NEW e \in Employees \cup {None}
      PROVE  Record(e) \in {None} \cup [id: Employees, is: Person]
  BY DEF Record, InRegister, StaffTyped
<1>2. IdsOf(target) \in SUBSET PayrollIds
  BY DEF IdsOf
<1>3. Sheet[b][i].manager # None => owner[Sheet[b][i].manager] \in Employees \cup {None}
  BY SheetFields DEF StaffTyped
<1>4. PICK x \in {None} \cup [id: Employees, is: Person] : x = IF decision = "update" THEN Record(target) ELSE None
  BY <1>1
<1>5. PICK ids \in SUBSET PayrollIds : ids = IF decision = "update" THEN IdsOf(target) ELSE {}
  BY <1>2
<1>6. PICK y \in {None} \cup [id: Employees, is: Person] :
         y = IF Sheet[b][i].manager = None THEN None ELSE Record(owner[Sheet[b][i].manager])
  BY <1>1, <1>3
<1>7. Hash(b, i, decision, target) = [employee |-> x, ids |-> ids, manager |-> y]
  BY <1>4, <1>5, <1>6 DEF Hash
<1> QED
  BY <1>7

\* A row as a decision leaves it.
LEMMA RowType ==
    ASSUME StaffTyped, NEW b \in Batches, NEW i \in Rows(b), NEW decision \in Decisions,
           NEW target \in Employees \cup {None},
           NEW reasoned \in BOOLEAN, decision \in {"create", "update"} => target \in Employees
    PROVE  /\ [decision |-> decision, target |-> target, reasoned |-> reasoned,
               hash |-> Hash(b, i, decision, target)] \in SoundRow
           /\ [decision |-> decision, target |-> target, reasoned |-> reasoned, hash |-> None] \in SoundRow
<1>1. PICK x : x = Hash(b, i, decision, target)
  OBVIOUS
<1>2. x \in [employee: {None} \cup [id: Employees, is: Person], ids: SUBSET PayrollIds,
             manager: {None} \cup [id: Employees, is: Person]]
  BY <1>1, HashType
<1>3. [decision |-> decision, target |-> target, reasoned |-> reasoned, hash |-> x] \in SoundRow
  BY <1>2 DEF Row, SoundRow
<1> QED
  BY <1>1, <1>3 DEF Row, SoundRow

LEMMA OneRequest ==
    ASSUME NEW h \in Handlers, StaffTyped, NEW state, OpTyped(state), Go(h, state)
    PROVE  /\ op' = [g \in Handlers |-> op'[g]] /\ \A g \in Handlers : OpTyped(op'[g])
           /\ op'[h] = state /\ \A g \in Handlers : g # h => op'[g] = op[g]
<1>1. op' = [g \in Handlers |-> IF g = h THEN state ELSE op[g]]
  BY DEF Go, StaffTyped
<1>2. \A g \in Handlers : OpTyped(op[g])
  BY DEF StaffTyped
<1>3. op'[h] = state /\ \A g \in Handlers : g # h => op'[g] = op[g]
  BY <1>1
<1>4. op' = [g \in Handlers |-> op'[g]]
  BY <1>1
<1> QED
  BY <1>2, <1>3, <1>4

-----------------------------------------------------------------------------
(* What a step may do to a batch *)

BatchRow(b) == [at: {"preview", "applied"}, rev: Nat, rows: Reviewed(b)]

LEMMA OneBatch ==
    ASSUME NEW b \in Batches, StaffTyped, NEW x, x \in BatchRow(b), batch' = [batch EXCEPT ![b] = x]
    PROVE  /\ batch' = [c \in Batches |-> batch'[c]] /\ \A c \in Batches : BatchTyped(c, batch'[c])
           /\ batch'[b] = x /\ \A c \in Batches : c # b => batch'[c] = batch[c]
<1>1. batch = [c \in Batches |-> batch[c]] /\ \A c \in Batches : BatchTyped(c, batch[c])
  BY DEF StaffTyped
<1>2. batch' = [c \in Batches |-> IF c = b THEN x ELSE batch[c]]
  BY <1>1
<1>3. batch'[b] = x /\ \A c \in Batches : c # b => batch'[c] = batch[c]
  BY <1>2
<1>4. BatchTyped(b, x)
  BY DEF BatchTyped, BatchRow
<1>5. batch' = [c \in Batches |-> batch'[c]]
  BY <1>2
<1> QED
  BY <1>1, <1>3, <1>4, <1>5

LEMMA PreviewBatch ==
    ASSUME NEW b \in Batches, StaffTyped, PreviewImport(b)
    PROVE  \E x : x \in BatchRow(b) /\ x.at = "preview" /\ batch' = [batch EXCEPT ![b] = x]
<1> DEFINE Shown(i, fresh) == IF FirstDecision(b, i) = "update" THEN owner[Sheet[b][i].payroll] ELSE fresh[i]
<1>1. PICK fresh \in [Rows(b) -> NewIds \cup {None}] :
         /\ \A i \in Rows(b) : fresh[i] # None <=> FirstDecision(b, i) = "create"
         /\ batch' = [batch EXCEPT ![b] = [at |-> "preview", rev |-> 1, rows |->
                [i \in Rows(b) |-> [decision |-> FirstDecision(b, i), target |-> Shown(i, fresh), reasoned |-> FALSE,
                    hash |-> IF FirstDecision(b, i) = "review" THEN None
                             ELSE Hash(b, i, FirstDecision(b, i), Shown(i, fresh))]]]]
  BY DEF PreviewImport
<1>2. PICK rows : rows = [i \in Rows(b) |-> [decision |-> FirstDecision(b, i), target |-> Shown(i, fresh),
           reasoned |-> FALSE,
                    hash |-> IF FirstDecision(b, i) = "review" THEN None
                             ELSE Hash(b, i, FirstDecision(b, i), Shown(i, fresh))]]
  OBVIOUS
<1>3. ASSUME NEW i \in Rows(b)
      PROVE  rows[i] \in SoundRow
  <2>1. PICK d \in Decisions : d = FirstDecision(b, i)
    BY DEF FirstDecision, Decisions
  <2>2. d = "update" => owner[Sheet[b][i].payroll] \in Employees
    <3>1. d = "update" => owner[Sheet[b][i].payroll] # None
      BY <2>1 DEF FirstDecision
    <3> QED
      BY <3>1, SheetFields DEF StaffTyped
  <2>3. fresh[i] \in Employees \cup {None} /\ (d = "create" => fresh[i] \in Employees)
    <3>1. NewIds \subseteq Employees
      BY DEF NewIds
    <3> QED
      BY <1>1, <2>1, <3>1
  <2>4. PICK t \in Employees \cup {None} : t = Shown(i, fresh)
    BY <2>1, <2>2, <2>3
  <2>5. d \in {"create", "update"} => t \in Employees
    BY <2>1, <2>2, <2>3, <2>4
  <2> HIDE DEF Shown
  <2>6. /\ [decision |-> d, target |-> t, reasoned |-> FALSE, hash |-> Hash(b, i, d, t)] \in SoundRow
        /\ [decision |-> d, target |-> t, reasoned |-> FALSE, hash |-> None] \in SoundRow
    BY <2>5, RowType
  <2> QED
    BY <1>2, <2>1, <2>4, <2>6
<1>4. rows \in Reviewed(b)
  BY <1>2, <1>3 DEF Reviewed
<1>5. PICK x : x = [at |-> "preview", rev |-> 1, rows |-> rows]
  OBVIOUS
<1>6. x \in BatchRow(b) /\ x.at = "preview"
  BY <1>4, <1>5 DEF BatchRow
<1>7. batch' = [batch EXCEPT ![b] = x]
  BY <1>1, <1>2, <1>5
<1> QED
  BY <1>6, <1>7

\* A batch whose rows are revised has the next revision.
LEMMA RevisedBatch ==
    ASSUME NEW b \in Batches, NEW y \in BatchRow(b), NEW rows \in Reviewed(b),
           NEW x, x = [at |-> "preview", rev |-> y.rev + 1, rows |-> rows]
    PROVE  x \in BatchRow(b) /\ x.at = "preview" /\ x.rev = y.rev + 1 /\ x.rows = rows
<1>1. PICK r \in Nat : r = y.rev + 1
  BY DEF BatchRow
<1> QED
  BY <1>1 DEF BatchRow

LEMMA ReconcileBatch ==
    ASSUME NEW b \in Batches, NEW i \in Rows(b), NEW d \in {"create", "update", "skip"},
           NEW t \in Employees \cup {None},
           StaffTyped, DecideRow(b, i, d, t)
    PROVE  \E x : /\ x \in BatchRow(b) /\ x.at = "preview" /\ x.rev = batch[b].rev + 1
                  /\ batch' = [batch EXCEPT ![b] = x]
<1>1. batch[b].at = "preview"
  BY DEF DecideRow
<1>2. PICK y : y = batch[b] /\ y \in BatchRow(b)
  BY <1>1, BatchFields DEF BatchRow
<1>3. d \in {"create", "update"} => t \in Employees
  BY DEF DecideRow, InRegister, NewIds
<1>4. PICK row \in SoundRow : row = [decision |-> d, target |-> t, reasoned |-> TRUE,
                                     hash |-> IF d = "skip" THEN None ELSE Hash(b, i, d, t)]
  <2>1. d \in Decisions
    BY DEF Decisions
  <2> QED
    BY <1>3, <2>1, RowType
<1>5. batch' = [batch EXCEPT ![b].rev = NextRevision(@), ![b].rows[i] = row]
  BY <1>4 DEF DecideRow
<1>6. PICK rows : rows = [y.rows EXCEPT ![i] = row]
  OBVIOUS
<1>7. rows \in Reviewed(b)
  BY <1>2, <1>6 DEF BatchRow, Reviewed
<1>8. PICK x : x = [at |-> "preview", rev |-> y.rev + 1, rows |-> rows]
  OBVIOUS
<1>9. x \in BatchRow(b) /\ x.at = "preview" /\ x.rev = batch[b].rev + 1
  <2>1. y.at = "preview" /\ y.rev = batch[b].rev
    BY <1>1, <1>2
  <2>2. x \in BatchRow(b) /\ x.at = "preview" /\ x.rev = y.rev + 1 /\ x.rows = rows
    BY <1>2, <1>7, <1>8, <2>1, RevisedBatch
  <2> QED
    BY <2>1, <2>2
<1>10. batch' = [batch EXCEPT ![b] = x]
  <2>1. batch = [c \in Batches |-> batch[c]]
    BY DEF StaffTyped
  <2>2. batch' = [batch EXCEPT ![b] = [y EXCEPT !.rev = y.rev + 1, !.rows[i] = row]]
    BY <1>2, <1>5, <2>1 DEF NextRevision, BatchRow
  <2>3. [y EXCEPT !.rev = y.rev + 1, !.rows[i] = row] = x
    <3>1. PICK z : z = [y EXCEPT !.rev = y.rev + 1]
      OBVIOUS
    <3>2. z = [at |-> "preview", rev |-> y.rev + 1, rows |-> y.rows]
      BY <1>1, <1>2, <3>1 DEF BatchRow
    <3>3. [z EXCEPT !.rows = rows] = x
      BY <1>8, <3>2
    <3>4. [z EXCEPT !.rows[i] = row] = x
      BY <1>6, <3>2, <3>3
    <3> QED
      BY <3>1, <3>4
  <2> QED
    BY <2>2, <2>3
<1> QED
  BY <1>9, <1>10

LEMMA RefreshBatch ==
    ASSUME NEW b \in Batches, StaffTyped, Refresh(b)
    PROVE  \E x : /\ x \in BatchRow(b) /\ x.at = "preview" /\ x.rev = batch[b].rev + 1
                  /\ batch' = [batch EXCEPT ![b] = x]
<1>1. batch[b].at = "preview"
  BY DEF Refresh
<1>2. PICK y : y = batch[b] /\ y \in BatchRow(b)
  BY <1>1, BatchFields DEF BatchRow
<1>3. PICK rows : rows = [i \in Rows(b) |-> IF i \in Selected(b, y.rows)
                THEN [y.rows[i] EXCEPT !.hash = Hash(b, i, y.rows[i].decision, y.rows[i].target)]
                ELSE y.rows[i]]
  OBVIOUS
<1>4. ASSUME NEW i \in Rows(b)
      PROVE  rows[i] \in SoundRow
  <2>1. PICK row \in SoundRow : row = y.rows[i]
    BY <1>2 DEF BatchRow, Reviewed
  <2>2. row.decision \in Decisions /\ row.target \in Employees \cup {None}
    BY <2>1 DEF SoundRow, Row
  <2>3. PICK z : z = Hash(b, i, row.decision, row.target)
    OBVIOUS
  <2>4. PICK d \in Decisions, t \in Employees \cup {None} : d = row.decision /\ t = row.target
    BY <2>2
  <2>5. z \in [employee: {None} \cup [id: Employees, is: Person], ids: SUBSET PayrollIds,
               manager: {None} \cup [id: Employees, is: Person]]
    BY <2>3, <2>4, HashType
  <2>6. [row EXCEPT !.hash = z] \in SoundRow
    BY <2>1, <2>5 DEF SoundRow, Row
  <2> QED
    BY <1>3, <2>1, <2>3, <2>6
<1>5. rows \in Reviewed(b)
  BY <1>3, <1>4 DEF Reviewed
<1>6. PICK x : x = [at |-> "preview", rev |-> y.rev + 1, rows |-> rows]
  OBVIOUS
<1>7. x \in BatchRow(b) /\ x.at = "preview" /\ x.rev = batch[b].rev + 1
  <2>1. y.at = "preview" /\ y.rev = batch[b].rev
    BY <1>1, <1>2
  <2>2. x \in BatchRow(b) /\ x.at = "preview" /\ x.rev = y.rev + 1 /\ x.rows = rows
    BY <1>2, <1>5, <1>6, <2>1, RevisedBatch
  <2> QED
    BY <2>1, <2>2
<1>8. batch' = [batch EXCEPT ![b] = x]
  <2>1. batch = [c \in Batches |-> batch[c]]
    BY DEF StaffTyped
  <2>2. batch' = [batch EXCEPT ![b].rev = y.rev + 1, ![b].rows = rows]
    BY <1>2, <1>3 DEF Refresh, NextRevision
  <2> QED
    <3>1. batch' = [batch EXCEPT ![b] = [y EXCEPT !.rev = y.rev + 1, !.rows = rows]]
      BY <1>2, <2>1, <2>2 DEF BatchRow
    <3>2. PICK z : z = [y EXCEPT !.rev = y.rev + 1]
      OBVIOUS
    <3>3. z = [at |-> "preview", rev |-> y.rev + 1, rows |-> y.rows]
      BY <1>1, <1>2, <3>2 DEF BatchRow
    <3>4. [z EXCEPT !.rows = rows] = x
      BY <1>6, <3>3
    <3> QED
      BY <3>1, <3>2, <3>4
<1> QED
  BY <1>7, <1>8

\* A batch is previewed once, revised under its lock, and applied by whoever writes it.
BatchMoves(b) ==
    \/ batch'[b] = batch[b]
    \/ batch[b].at = "none" /\ batch'[b].at = "preview"
    \/ batch[b].at = "preview" /\ batch'[b].at = "preview" /\ batch'[b].rev = batch[b].rev + 1 /\ BatchFree(b)
    \/ /\ batch[b].at = "preview" /\ batch'[b].at = "applied"
       /\ batch'[b].rev = batch[b].rev /\ batch'[b].rows = batch[b].rows
       /\ \E h \in Handlers : op[h].kind = "writing" /\ op[h].batch = b /\ WriteImport(h) /\ ~IdTaken(b, batch[b].rows)

BatchesStep ==
    /\ batch' = [b \in Batches |-> batch'[b]]
    /\ \A b \in Batches : BatchTyped(b, batch'[b]) /\ BatchMoves(b)

LEMMA BatchesRest ==
    ASSUME StaffTyped, batch' = batch
    PROVE  BatchesStep
BY DEF StaffTyped, BatchesStep, BatchMoves

LEMMA BatchRevised ==
    ASSUME NEW b \in Batches, StaffTyped, NEW x, x \in BatchRow(b), batch' = [batch EXCEPT ![b] = x],
           \/ batch[b].at = "none" /\ x.at = "preview"
           \/ batch[b].at = "preview" /\ x.at = "preview" /\ x.rev = batch[b].rev + 1 /\ BatchFree(b)
    PROVE  BatchesStep
<1>1. /\ batch' = [c \in Batches |-> batch'[c]] /\ \A c \in Batches : BatchTyped(c, batch'[c])
      /\ batch'[b] = x /\ \A c \in Batches : c # b => batch'[c] = batch[c]
  BY OneBatch
<1>2. ASSUME NEW c \in Batches
      PROVE  BatchMoves(c)
  <2>1. CASE c # b
    BY <1>1, <2>1 DEF BatchMoves
  <2>2. CASE c = b
    BY <1>1, <2>2 DEF BatchMoves
  <2> QED
    BY <2>1, <2>2
<1> QED
  BY <1>1, <1>2 DEF BatchesStep

LEMMA ImportBatch ==
    ASSUME NEW h \in Handlers, StaffTyped, Writes, WriteImport(h)
    PROVE  BatchesStep
<1>1. PICK b \in Batches : b = op[h].batch
  BY RequestFields DEF WriteImport
<1>2. op[h].kind = "writing" /\ batch[b].at = "preview"
  BY <1>1 DEF WriteImport, Writes, Writing
<1>3. CASE IdTaken(b, batch[b].rows)
  <2>1. batch' = batch
    BY <1>1, <1>3 DEF WriteImport
  <2> QED
    BY <2>1, BatchesRest
<1>4. CASE ~IdTaken(b, batch[b].rows)
  <2>1. batch' = [batch EXCEPT ![b].at = "applied"]
    BY <1>1, <1>4 DEF WriteImport
  <2>2. PICK y : y = batch[b] /\ y \in BatchRow(b)
    BY <1>2, BatchFields DEF BatchRow
  <2>3. PICK x : x = [at |-> "applied", rev |-> y.rev, rows |-> y.rows]
    OBVIOUS
  <2>4. x \in BatchRow(b) /\ [y EXCEPT !.at = "applied"] = x
    BY <2>2, <2>3 DEF BatchRow
  <2>5. batch' = [batch EXCEPT ![b] = x]
    BY <2>1, <2>2, <2>4
  <2>6. /\ batch' = [c \in Batches |-> batch'[c]] /\ \A c \in Batches : BatchTyped(c, batch'[c])
        /\ batch'[b] = x /\ \A c \in Batches : c # b => batch'[c] = batch[c]
    BY <2>4, <2>5, OneBatch
  <2>7. ASSUME NEW c \in Batches
        PROVE  BatchMoves(c)
    <3>1. CASE c # b
      BY <2>6, <3>1 DEF BatchMoves
    <3>2. CASE c = b
      <4>1. batch'[b].at = "applied" /\ batch'[b].rev = batch[b].rev /\ batch'[b].rows = batch[b].rows
        BY <2>2, <2>3, <2>6
      <4> QED
        BY <1>1, <1>2, <1>4, <3>2, <4>1 DEF BatchMoves
    <3> QED
      BY <3>1, <3>2
  <2> QED
    BY <2>6, <2>7 DEF BatchesStep
<1> QED
  BY <1>3, <1>4

LEMMA BatchStep ==
    ASSUME StaffTyped, Writes, [RegisterNext]_registerVars
    PROVE  BatchesStep
<1>1. CASE UNCHANGED registerVars
  BY <1>1, BatchesRest DEF registerVars
<1>2. ASSUME NEW b \in Batches, PreviewImport(b)
      PROVE  BatchesStep
  <2>1. batch[b].at = "none"
    BY <1>2 DEF PreviewImport
  <2>2. PICK x : x \in BatchRow(b) /\ x.at = "preview" /\ batch' = [batch EXCEPT ![b] = x]
    BY <1>2, PreviewBatch
  <2> QED
    BY <2>1, <2>2, BatchRevised
<1>3. ASSUME NEW b \in Batches, Refresh(b)
      PROVE  BatchesStep
  <2>1. batch[b].at = "preview" /\ BatchFree(b)
    BY <1>3 DEF Refresh
  <2>2. PICK x : /\ x \in BatchRow(b) /\ x.at = "preview" /\ x.rev = batch[b].rev + 1
                 /\ batch' = [batch EXCEPT ![b] = x]
    BY <1>3, RefreshBatch
  <2> QED
    BY <2>1, <2>2, BatchRevised
<1>4. ASSUME NEW b \in Batches, NEW i \in Rows(b), NEW d \in {"create", "update", "skip"},
             NEW t \in Employees \cup {None},
             DecideRow(b, i, d, t)
      PROVE  BatchesStep
  <2>1. batch[b].at = "preview" /\ BatchFree(b)
    BY <1>4 DEF DecideRow
  <2>2. PICK x : /\ x \in BatchRow(b) /\ x.at = "preview" /\ x.rev = batch[b].rev + 1
                 /\ batch' = [batch EXCEPT ![b] = x]
    BY <1>4, ReconcileBatch
  <2> QED
    BY <2>1, <2>2, BatchRevised
<1>5. ASSUME NEW h \in Handlers, WriteImport(h)
      PROVE  BatchesStep
  BY <1>5, ImportBatch
<1>6. ASSUME \/ \E e \in Employees, n \in Names :
                  \/ Rename(e, n)
                  \/ \E p \in PayrollIds : CreateManaged(e, n, p)
                  \/ \E m \in Employees \cup {None} : CreateUnverified(e, n, m)
             \/ \E e \in Employees, p \in PayrollIds : AddPayrollId(e, p)
             \/ \E h \in Handlers :
                  \/ \E b \in Batches : ReadBatch(h, b)
                  \/ ReadRows(h) \/ Evaluate(h) \/ LockForApply(h)
                  \/ \E e \in Employees, m \in Employees \cup {None} : StartEdit(h, e, m)
                  \/ \E n \in Names : FinishEdit(h, n)
                  \/ \E e \in Employees : StartDelete(h, e)
                  \/ FinishDelete(h) \/ Abandon(h)
      PROVE  BatchesStep
  <2>1. batch' = batch
    BY <1>6 DEF Rename, CreateManaged, CreateUnverified, AddPayrollId, ReadBatch, ReadRows, Evaluate, LockForApply,
                StartEdit, FinishEdit, StartDelete, FinishDelete, Abandon
  <2> QED
    BY <2>1, BatchesRest
<1> QED
  BY <1>1, <1>2, <1>3, <1>4, <1>5, <1>6 DEF RegisterNext

-----------------------------------------------------------------------------
(* What a step may do to a request *)

\* An import that may be written now.
Locks(h, b) ==
    /\ op[h].kind = "shown" /\ b = op[h].batch /\ \A g \in Handlers : op[g].kind # "writing"
    /\ batch[b].at = "preview" /\ batch[b].rev = op[h].rev /\ NothingBlocked(b, batch[b].rows)
    /\ op'[h] = [kind |-> "writing", batch |-> b, shown |-> op[h].shown, locked |-> InRegister]
    /\ \A g \in Handlers : g # h => op'[g] = op[g]
    /\ UNCHANGED <<emp, owner, batch, unseen>>

RequestMoves(h) ==
    \/ op'[h] = op[h]
    \/ op'[h].kind \in {"idle", "editing", "deleting"}
    \/ batch' = batch /\ \E b \in Batches : batch[b].at = "preview" /\ op'[h] =
       [kind |-> "reading", batch |-> b, rev |-> batch[b].rev]
    \/ /\ batch' = batch /\ op[h].kind = "reading"
       /\ op'[h] = [kind |-> "evaluating", batch |-> op[h].batch, rev |-> op[h].rev, shown |-> batch[op[h].batch].rows]
    \/ /\ batch' = batch /\ op[h].kind = "evaluating"
       /\ op'[h] = [kind |-> "shown", batch |-> op[h].batch, rev |-> op[h].rev, shown |-> op[h].shown]
    \/ \E b \in Batches : Locks(h, b)

OpsStep ==
    /\ op' = [h \in Handlers |-> op'[h]]
    /\ \A h \in Handlers : OpTyped(op'[h]) /\ RequestMoves(h)

LEMMA OpsRest ==
    ASSUME StaffTyped, op' = op
    PROVE  OpsStep
BY DEF StaffTyped, OpsStep, RequestMoves

LEMMA OneMoves ==
    ASSUME NEW h \in Handlers, StaffTyped, NEW state, OpTyped(state), Go(h, state), op'[h] = state => RequestMoves(h)
    PROVE  OpsStep
<1>1. /\ op' = [g \in Handlers |-> op'[g]] /\ \A g \in Handlers : OpTyped(op'[g])
      /\ op'[h] = state /\ \A g \in Handlers : g # h => op'[g] = op[g]
  BY OneRequest
<1>2. ASSUME NEW g \in Handlers
      PROVE  RequestMoves(g)
  <2>1. CASE g = h
    BY <1>1, <2>1
  <2>2. CASE g # h
    BY <1>1, <2>2 DEF RequestMoves
  <2> QED
    BY <2>1, <2>2
<1> QED
  BY <1>1, <1>2 DEF OpsStep

LEMMA DoneMoves ==
    ASSUME NEW h \in Handlers, StaffTyped, Done(h)
    PROVE  OpsStep
<1>1. OpTyped(Idle) /\ Idle.kind = "idle"
  BY DEF OpTyped, Idle
<1>2. op'[h] = Idle => RequestMoves(h)
  BY <1>1 DEF RequestMoves
<1> QED
  BY <1>1, <1>2, OneMoves DEF Done

LEMMA ReadBatchMoves ==
    ASSUME NEW h \in Handlers, NEW b \in Batches, StaffTyped, ReadBatch(h, b)
    PROVE  OpsStep
<1>1. batch[b].rev \in Nat /\ batch[b].at = "preview"
  BY BatchFields DEF ReadBatch
<1>2. PICK state : state = [kind |-> "reading", batch |-> b, rev |-> batch[b].rev]
  OBVIOUS
<1>3. OpTyped(state)
  BY <1>1, <1>2 DEF OpTyped
<1>4. op'[h] = state => RequestMoves(h)
  BY <1>1, <1>2 DEF RequestMoves, ReadBatch
<1> QED
  BY <1>2, <1>3, <1>4, OneMoves DEF ReadBatch

LEMMA ReadRowsMoves ==
    ASSUME NEW h \in Handlers, StaffTyped, ReadAsWas, ReadRows(h)
    PROVE  OpsStep
<1>1. PICK b \in Batches, r \in Nat : b = op[h].batch /\ r = op[h].rev
  BY RequestFields DEF ReadRows
<1>2. batch[b].at # "none"
  BY <1>1 DEF ReadRows, ReadAsWas
<1>3. PICK s \in Reviewed(b) : s = batch[b].rows
  BY <1>2, BatchFields
<1>4. PICK state : state = [kind |-> "evaluating", batch |-> b, rev |-> r, shown |-> s]
  OBVIOUS
<1>5. OpTyped(state)
  BY <1>4 DEF OpTyped
<1>6. op'[h] = state => RequestMoves(h)
  BY <1>1, <1>3, <1>4 DEF RequestMoves, ReadRows
<1> QED
  BY <1>1, <1>3, <1>4, <1>5, <1>6, OneMoves DEF ReadRows

LEMMA EvaluateMoves ==
    ASSUME NEW h \in Handlers, StaffTyped, Evaluate(h)
    PROVE  OpsStep
<1>1. PICK b \in Batches, r \in Nat : b = op[h].batch /\ r = op[h].rev
  BY RequestFields DEF Evaluate
<1>2. PICK s \in Reviewed(b) : s = op[h].shown
  BY <1>1, RequestFields DEF Evaluate
<1>3. op[h] = [kind |-> "evaluating", batch |-> b, rev |-> r, shown |-> s]
  <2>1. OpTyped(op[h]) /\ op[h].kind = "evaluating"
    BY RequestFields DEF Evaluate
  <2>2. /\ op[h] # Idle
        /\ \A c \in Batches, q \in Nat : op[h] # [kind |-> "reading", batch |-> c, rev |-> q]
        /\ \A e \in Employees : op[h] # [kind |-> "deleting", employee |-> e]
    BY <2>1 DEF Idle
  <2>5. \A c \in Batches, locked \in SUBSET Employees : \A t \in Reviewed(c) :
           op[h] # [kind |-> "writing", batch |-> c, shown |-> t, locked |-> locked]
    BY <2>1
  <2>6. \A e \in Employees, m \in Employees \cup {None}, seen \in SUBSET Employees :
           op[h] # [kind |-> "editing", employee |-> e, manager |-> m, seen |-> seen]
    BY <2>1
  <2>3. \E c \in Batches, q \in Nat, k \in {"evaluating", "shown"} : \E t \in Reviewed(c) :
           op[h] = [kind |-> k, batch |-> c, rev |-> q, shown |-> t]
    BY <2>1, <2>2, <2>5, <2>6, Zenon DEF OpTyped
  <2>4. PICK c, q, k, t : op[h] = [kind |-> k, batch |-> c, rev |-> q, shown |-> t]
    BY <2>3
  <2> QED
    BY <1>1, <1>2, <2>1, <2>4
<1>4. PICK state : state = [kind |-> "shown", batch |-> b, rev |-> r, shown |-> s]
  OBVIOUS
<1>5. [op[h] EXCEPT !.kind = "shown"] = state
  BY <1>3, <1>4
<1>6. OpTyped(state)
  BY <1>4 DEF OpTyped
<1>7. op'[h] = state => RequestMoves(h)
  BY <1>1, <1>2, <1>4 DEF RequestMoves, Evaluate
<1>8. Done(h) \/ Go(h, state)
  BY <1>5 DEF Evaluate
<1> QED
  BY <1>6, <1>7, <1>8, DoneMoves, OneMoves

LEMMA LockMoves ==
    ASSUME NEW h \in Handlers, StaffTyped, LockForApply(h)
    PROVE  OpsStep
<1>1. PICK b \in Batches : b = op[h].batch
  BY RequestFields DEF LockForApply
<1>2. PICK s \in Reviewed(b) : s = op[h].shown
  BY <1>1, RequestFields DEF LockForApply
<1>3. CASE Done(h)
  BY <1>3, DoneMoves
<1>4. CASE ~Done(h)
  <2>1. PICK locked \in SUBSET Employees : locked = InRegister
    BY DEF InRegister
  <2>2. PICK state : state = [kind |-> "writing", batch |-> b, shown |-> s, locked |-> locked]
    OBVIOUS
  <2>3. OpTyped(state)
    BY <2>2 DEF OpTyped
  <2>4. /\ batch[b].at = "preview" /\ batch[b].rev = op[h].rev /\ NothingBlocked(b, batch[b].rows)
        /\ Go(h, state)
    BY <1>1, <1>2, <1>4, <2>1, <2>2 DEF LockForApply
  <2>5. op'[h] = state /\ \A g \in Handlers : g # h => op'[g] = op[g]
    BY <2>3, <2>4, OneRequest
  <2>6. Locks(h, b)
    BY <1>1, <1>2, <2>1, <2>2, <2>4, <2>5 DEF Locks, LockForApply
  <2>7. RequestMoves(h)
    BY <2>6 DEF RequestMoves
  <2> QED
    BY <2>3, <2>4, <2>7, OneMoves
<1> QED
  BY <1>3, <1>4

LEMMA OtherMoves ==
    ASSUME NEW h \in Handlers, NEW e \in Employees, NEW m \in Employees \cup {None}, StaffTyped,
           StartEdit(h, e, m) \/ StartDelete(h, e)
    PROVE  OpsStep
<1>1. CASE StartEdit(h, e, m)
  <2>1. PICK seen \in SUBSET Employees : seen = InRegister
    BY DEF InRegister
  <2>2. PICK state : state = [kind |-> "editing", employee |-> e, manager |-> m, seen |-> seen]
    OBVIOUS
  <2>3. OpTyped(state) /\ Go(h, state) /\ state.kind = "editing"
    BY <1>1, <2>1, <2>2 DEF OpTyped, StartEdit
  <2>4. op'[h] = state => RequestMoves(h)
    BY <2>3 DEF RequestMoves
  <2> QED
    BY <2>3, <2>4, OneMoves
<1>2. CASE StartDelete(h, e)
  <2>1. PICK state : state = [kind |-> "deleting", employee |-> e]
    OBVIOUS
  <2>2. OpTyped(state) /\ Go(h, state) /\ state.kind = "deleting"
    BY <1>2, <2>1 DEF OpTyped, StartDelete
  <2>3. op'[h] = state => RequestMoves(h)
    BY <2>2 DEF RequestMoves
  <2> QED
    BY <2>2, <2>3, OneMoves
<1> QED
  BY <1>1, <1>2

LEMMA OpStep ==
    ASSUME StaffTyped, ReadAsWas, [RegisterNext]_registerVars
    PROVE  OpsStep
<1>1. ASSUME UNCHANGED registerVars
      PROVE  op' = op
  BY <1>1 DEF registerVars
<1>6. ASSUME NEW b \in Batches,
             \/ PreviewImport(b) \/ Refresh(b)
             \/ \E i \in Rows(b), d \in {"create", "update", "skip"}, t \in Employees \cup {None} :
                DecideRow(b, i, d, t)
      PROVE  op' = op
  BY <1>6 DEF PreviewImport, Refresh, DecideRow
<1>7. ASSUME NEW e \in Employees, NEW n \in Names,
             \/ Rename(e, n)
             \/ \E p \in PayrollIds : CreateManaged(e, n, p)
             \/ \E m \in Employees \cup {None} : CreateUnverified(e, n, m)
      PROVE  op' = op
  BY <1>7 DEF Rename, CreateManaged, CreateUnverified
<1>8. ASSUME NEW e \in Employees, NEW p \in PayrollIds, AddPayrollId(e, p)
      PROVE  op' = op
  BY <1>8 DEF AddPayrollId
<1>2. ASSUME NEW h \in Handlers, WriteImport(h) \/ (\E n \in Names : FinishEdit(h, n)) \/ FinishDelete(h) \/ Abandon(h)
      PROVE  OpsStep
  <2>1. Done(h)
    BY <1>2 DEF WriteImport, FinishEdit, FinishDelete, Abandon
  <2> QED
    BY <2>1, DoneMoves
<1>3. ASSUME NEW h \in Handlers,
             (\E b \in Batches : ReadBatch(h, b)) \/ ReadRows(h) \/ Evaluate(h) \/ LockForApply(h)
      PROVE  OpsStep
  BY <1>3, ReadBatchMoves, ReadRowsMoves, EvaluateMoves, LockMoves
<1>4. ASSUME NEW h \in Handlers, NEW e \in Employees, NEW m \in Employees \cup {None},
             StartEdit(h, e, m) \/ StartDelete(h, e)
      PROVE  OpsStep
  BY <1>4, OtherMoves
<1>5. ASSUME NEW h \in Handlers, NEW e \in Employees, StartDelete(h, e)
      PROVE  OpsStep
  BY <1>5, OtherMoves
<1> QED
  BY <1>1, <1>2, <1>3, <1>4, <1>5, <1>6, <1>7, <1>8, OpsRest DEF RegisterNext

\* A batch that somebody reads is not taken back, and has its rows for as long as it has its revision.
LEMMA ReadStep ==
    ASSUME StaffTyped, ReadAsWas, Writes, [RegisterNext]_registerVars
    PROVE  ReadAsWas'
<1>1. BatchesStep /\ OpsStep
  BY BatchStep, OpStep
<1> SUFFICES ASSUME NEW h \in Handlers, op'[h].kind \in {"reading", "evaluating", "shown"}
             PROVE  /\ batch'[op'[h].batch].at # "none" /\ op'[h].rev <= batch'[op'[h].batch].rev
                    /\ op'[h].kind # "reading" /\ op'[h].rev = batch'[op'[h].batch].rev =>
                          op'[h].shown = batch'[op'[h].batch].rows
  BY DEF ReadAsWas
<1>2. RequestMoves(h)
  BY <1>1 DEF OpsStep
<1>3. CASE op'[h] = op[h]
  <2>1. PICK b \in Batches, r \in Nat : b = op[h].batch /\ r = op[h].rev
    BY <1>3, RequestFields
  <2>2. PICK q \in Nat : q = batch[b].rev /\ r <= q /\ batch[b].at # "none"
    BY <1>3, <2>1, BatchFields DEF ReadAsWas
  <2>3. op[h].kind # "reading" /\ r = q => op[h].shown = batch[b].rows
    BY <1>3, <2>1, <2>2 DEF ReadAsWas
  <2>4. \/ batch'[b] = batch[b]
        \/ batch'[b].at = "preview" /\ batch'[b].rev = q + 1
        \/ batch'[b].at = "applied" /\ batch'[b].rev = q /\ batch'[b].rows = batch[b].rows
    BY <1>1, <2>2 DEF BatchesStep, BatchMoves
  <2> QED
    BY <1>3, <2>1, <2>2, <2>3, <2>4
<1>4. ASSUME NEW b \in Batches, batch' = batch, batch[b].at = "preview",
             op'[h] = [kind |-> "reading", batch |-> b, rev |-> batch[b].rev]
      PROVE  /\ op'[h].kind = "reading" /\ batch'[op'[h].batch].at # "none" /\ op'[h].rev <= batch'[op'[h].batch].rev
  <2>1. PICK q \in Nat : q = batch[b].rev
    BY <1>4, BatchFields
  <2> QED
    BY <1>4, <2>1
<1>5. ASSUME batch' = batch, op[h].kind = "reading",
             op'[h] = [kind |-> "evaluating", batch |-> op[h].batch, rev |-> op[h].rev,
               shown |-> batch[op[h].batch].rows]
      PROVE  /\ batch'[op'[h].batch].at # "none" /\ op'[h].rev <= batch'[op'[h].batch].rev
             /\ op'[h].shown = batch'[op'[h].batch].rows
  BY <1>5 DEF ReadAsWas
<1>6. ASSUME batch' = batch, op[h].kind = "evaluating",
             op'[h] = [kind |-> "shown", batch |-> op[h].batch, rev |-> op[h].rev, shown |-> op[h].shown]
      PROVE  /\ batch'[op'[h].batch].at # "none" /\ op'[h].rev <= batch'[op'[h].batch].rev
             /\ op'[h].rev = batch'[op'[h].batch].rev => op'[h].shown = batch'[op'[h].batch].rows
  BY <1>6 DEF ReadAsWas
<1>7. ASSUME NEW b \in Batches, Locks(h, b)
      PROVE  FALSE
  <2>1. op'[h] = [kind |-> "writing", batch |-> b, shown |-> op[h].shown, locked |-> InRegister]
    BY <1>7 DEF Locks
  <2>2. op'[h].kind = "writing"
    BY <2>1
  <2> QED
    BY <2>2
<1> QED
  BY <1>2, <1>3, <1>4, <1>5, <1>6, <1>7 DEF RequestMoves

\* The advisory lock: one import is written at a time.
LEMMA WriterStep ==
    ASSUME StaffTyped, ReadAsWas, OneWriter, [RegisterNext]_registerVars
    PROVE  OneWriter'
<1>1. OpsStep
  BY OpStep
<1> SUFFICES ASSUME NEW g \in Handlers, NEW h \in Handlers, op'[g].kind = "writing", op'[h].kind = "writing", g # h
             PROVE  FALSE
  BY DEF OneWriter
<1>2. ASSUME NEW k \in Handlers, op'[k].kind = "writing"
      PROVE  op'[k] = op[k] \/ \E b \in Batches : Locks(k, b)
  BY <1>1, <1>2 DEF OpsStep, RequestMoves
<1>3. CASE op'[g] = op[g] /\ op'[h] = op[h]
  BY <1>3 DEF OneWriter
<1>4. ASSUME NEW b \in Batches, Locks(g, b)
      PROVE  FALSE
  BY <1>4 DEF Locks
<1>5. ASSUME NEW b \in Batches, Locks(h, b)
      PROVE  FALSE
  BY <1>5 DEF Locks
<1> QED
  BY <1>2, <1>3, <1>4, <1>5

-----------------------------------------------------------------------------
(* What a step may do to the register *)

Untouched == UNCHANGED <<emp, owner, unseen>>

\* Somebody is added, who nobody reports to yet.
Joins(e) ==
    /\ e \in NewIds
    /\ \E x \in Person : /\ x.at = "live" /\ x.manager \in InRegister \cup {None} /\ ~Held(x.manager)
                           /\ emp' = [emp EXCEPT ![e] = x]
    /\ owner' = owner \/ \E p \in PayrollIds : owner[p] = None /\ owner' = [owner EXCEPT ![p] = e]
    /\ UNCHANGED <<batch, op, unseen>>

\* Somebody changes, and reports to whom they did.
Renamed(e) ==
    /\ e \in InRegister /\ ~Held(e)
    /\ \E x \in Person : x.at = "live" /\ x.manager = emp[e].manager /\ emp' = [emp EXCEPT ![e] = x]
    /\ UNCHANGED <<owner, batch, op, unseen>>

\* A reporting line is changed by an edit.
Edits(h, e, m) ==
    LET rows == [x \in op[h].seen \cap InRegister |-> emp[x].manager] IN
    /\ op[h].kind = "editing" /\ e \in op[h].seen \cap InRegister /\ m \in (op[h].seen \cap InRegister) \cup {None}
    /\ \A x \in op[h].seen : ~Held(x)
    /\ m # None => ~Closes(rows, e, m)
    /\ \E x \in Person : x.at = "live" /\ x.manager = m /\ emp' = [emp EXCEPT ![e] = x]
    /\ unseen' = unseen \cup (InRegister \ op[h].seen)
    /\ UNCHANGED <<owner, batch>>

\* Somebody leaves the register, and whoever reports to them has no manager.
Leaves(h, e) ==
    /\ op[h].kind = "deleting" /\ e \in InRegister /\ IdsOf(e) = {}
    /\ \A x \in InRegister : x = e \/ emp[x].manager = e => ~Held(x)
    /\ emp' = [x \in Employees |->
                  IF x = e THEN [emp[e] EXCEPT !.at = "deleted", !.manager = None]
                  ELSE IF emp[x].manager = e THEN [emp[x] EXCEPT !.manager = None] ELSE emp[x]]
    /\ UNCHANGED <<owner, batch, unseen>>

\* An import is written.
Imports(h, b) ==
    LET rows == batch[b].rows
        RowFor(e) == CHOOSE i \in Selected(b, rows) : rows[i].target = e
    IN  /\ op[h].kind = "writing" /\ b = op[h].batch /\ ~IdTaken(b, rows)
        /\ emp' = [e \in Employees |->
              IF e \notin Targets(b, rows) THEN emp[e]
              ELSE [at |-> "live", name |-> Sheet[b][RowFor(e)].name, manager |-> Proposed(b, rows)[e]]]
        /\ owner' = [p \in PayrollIds |->
              IF \E i \in Selected(b, rows) : Sheet[b][i].payroll = p
              THEN rows[CHOOSE i \in Selected(b, rows) : Sheet[b][i].payroll = p].target ELSE owner[p]]
        /\ unseen' = unseen /\ op'[h] = Idle

Moves ==
    \/ Untouched
    \/ \E e \in Employees : Joins(e) \/ Renamed(e)
    \/ \E e \in Employees, p \in PayrollIds : AddPayrollId(e, p)
    \/ \E h \in Handlers :
        \/ \E e \in Employees : Leaves(h, e) \/ \E m \in Employees \cup {None} : Edits(h, e, m)
        \/ \E b \in Batches : Imports(h, b)

LEMMA ManagedJoins ==
    ASSUME StaffTyped, NEW e \in Employees, NEW n \in Names, NEW p \in PayrollIds, CreateManaged(e, n, p)
    PROVE  Joins(e)
<1>1. PICK x : x = [at |-> "live", name |-> n, manager |-> None]
  OBVIOUS
<1>2. x \in Person /\ x.at = "live" /\ x.manager = None
  BY <1>1 DEF Person
<1>3. ~Held(None)
  BY RequestFields, NoneIsNobody DEF Held
<1>4. /\ e \in NewIds /\ emp' = [emp EXCEPT ![e] = x] /\ owner[p] = None /\ owner' = [owner EXCEPT ![p] = e]
      /\ UNCHANGED <<batch, op, unseen>>
  BY <1>1 DEF CreateManaged
<1> QED
  BY <1>2, <1>3, <1>4 DEF Joins

LEMMA UnverifiedJoins ==
    ASSUME StaffTyped, NEW e \in Employees, NEW n \in Names, NEW m \in Employees \cup {None}, CreateUnverified(e, n, m)
    PROVE  Joins(e)
<1>1. PICK x : x = [at |-> "live", name |-> n, manager |-> m]
  OBVIOUS
<1>2. x \in Person /\ x.at = "live" /\ x.manager = m
  BY <1>1 DEF Person
<1>3. /\ e \in NewIds /\ emp' = [emp EXCEPT ![e] = x] /\ m \in InRegister \cup {None} /\ ~Held(m)
      /\ UNCHANGED <<owner, batch, op, unseen>>
  BY <1>1 DEF CreateUnverified
<1> QED
  BY <1>2, <1>3 DEF Joins

LEMMA RenameMoves ==
    ASSUME StaffTyped, NEW e \in Employees, NEW n \in Names, Rename(e, n)
    PROVE  Renamed(e)
<1>1. PICK y \in Person : y = emp[e] /\ y.at = "live"
  BY DEF StaffTyped, Rename, InRegister
<1>2. PICK x : x = [y EXCEPT !.name = n]
  OBVIOUS
<1>3. x \in Person /\ x.at = "live" /\ x.manager = y.manager
  BY <1>1, <1>2 DEF Person
<1>4. emp' = [emp EXCEPT ![e] = x]
  BY <1>1, <1>2 DEF Rename, StaffTyped
<1> QED
  BY <1>1, <1>3, <1>4 DEF Renamed, Rename

LEMMA EditMoves ==
    ASSUME StaffTyped, NEW h \in Handlers, NEW n \in Names, FinishEdit(h, n), ~Untouched
    PROVE  \E e \in Employees, m \in Employees \cup {None} : Edits(h, e, m)
<1>1. PICK e \in Employees, m \in Employees \cup {None} : e = op[h].employee /\ m = op[h].manager
  BY RequestFields DEF FinishEdit
<1>2. PICK rows : rows = [x \in op[h].seen \cap InRegister |-> emp[x].manager]
  OBVIOUS
<1>3. /\ e \in DOMAIN rows /\ m \in DOMAIN rows \cup {None} /\ ~(m # None /\ Closes(rows, e, m))
      /\ emp' = [emp EXCEPT ![e].manager = m, ![e].name = n]
      /\ unseen' = unseen \cup (InRegister \ op[h].seen)
  BY <1>1, <1>2 DEF FinishEdit, Untouched
<1>4. e \in op[h].seen \cap InRegister /\ m \in (op[h].seen \cap InRegister) \cup {None}
  BY <1>2, <1>3
<1>5. PICK y \in Person : y = emp[e] /\ y.at = "live"
  BY <1>4 DEF StaffTyped, InRegister
<1>6. PICK x : x = [at |-> "live", name |-> n, manager |-> m]
  OBVIOUS
<1>7. x \in Person /\ x.at = "live" /\ x.manager = m
  BY <1>6 DEF Person
<1>8. emp' = [emp EXCEPT ![e] = x]
  <2>1. emp' = [emp EXCEPT ![e] = [y EXCEPT !.manager = m, !.name = n]]
    BY <1>3, <1>5 DEF StaffTyped, Person
  <2>2. [y EXCEPT !.manager = m, !.name = n] = x
    <3>1. PICK z : z = [y EXCEPT !.manager = m]
      OBVIOUS
    <3>2. z = [at |-> "live", name |-> y.name, manager |-> m]
      BY <1>5, <3>1 DEF Person
    <3>3. [z EXCEPT !.name = n] = x
      BY <1>6, <3>2
    <3> QED
      BY <3>1, <3>3
  <2> QED
    BY <2>1, <2>2
<1> QED
  BY <1>2, <1>3, <1>4, <1>7, <1>8 DEF Edits, FinishEdit

LEMMA LeaveMoves ==
    ASSUME StaffTyped, NEW h \in Handlers, FinishDelete(h), ~Untouched
    PROVE  \E e \in Employees : Leaves(h, e)
<1>1. PICK e \in Employees : e = op[h].employee
  BY RequestFields DEF FinishDelete
<1> QED
  BY <1>1 DEF FinishDelete, Leaves, Untouched

LEMMA ImportMoves ==
    ASSUME StaffTyped, NEW h \in Handlers, WriteImport(h), ~Untouched
    PROVE  \E b \in Batches : Imports(h, b)
<1>1. PICK b \in Batches : b = op[h].batch
  BY RequestFields DEF WriteImport
<1>2. op'[h] = Idle
  BY DEF WriteImport, Done, Go, StaffTyped
<1> QED
  BY <1>1, <1>2 DEF WriteImport, Imports, Untouched

LEMMA StepMoves ==
    ASSUME StaffTyped, [RegisterNext]_registerVars
    PROVE  Moves
<1>1. ASSUME UNCHANGED registerVars
      PROVE  Untouched
  BY <1>1 DEF registerVars, Untouched
<1>4. ASSUME NEW b \in Batches,
             \/ PreviewImport(b) \/ Refresh(b)
             \/ \E i \in Rows(b), d \in {"create", "update", "skip"}, t \in Employees \cup {None} :
                DecideRow(b, i, d, t)
      PROVE  Untouched
  BY <1>4 DEF Untouched, PreviewImport, Refresh, DecideRow
<1>5. ASSUME NEW h \in Handlers,
             (\E b \in Batches : ReadBatch(h, b)) \/ ReadRows(h) \/ Evaluate(h) \/ LockForApply(h) \/ Abandon(h)
      PROVE  Untouched
  BY <1>5 DEF Untouched, ReadBatch, ReadRows, Evaluate, LockForApply, Abandon
<1>6. ASSUME NEW h \in Handlers, NEW e \in Employees,
             StartDelete(h, e) \/ \E m \in Employees \cup {None} : StartEdit(h, e, m)
      PROVE  Untouched
  BY <1>6 DEF Untouched, StartEdit, StartDelete
<1>2. ASSUME NEW e \in Employees, NEW n \in Names,
             \/ Rename(e, n)
             \/ \E p \in PayrollIds : CreateManaged(e, n, p)
             \/ \E m \in Employees \cup {None} : CreateUnverified(e, n, m)
      PROVE  Joins(e) \/ Renamed(e)
  BY <1>2, ManagedJoins, UnverifiedJoins, RenameMoves
<1>3. ASSUME NEW h \in Handlers, (\E n \in Names : FinishEdit(h, n)) \/ FinishDelete(h) \/ WriteImport(h)
      PROVE  Moves
  BY <1>3, EditMoves, LeaveMoves, ImportMoves DEF Moves
<1> QED
  BY <1>1, <1>2, <1>3, <1>4, <1>5, <1>6 DEF RegisterNext, Moves

-----------------------------------------------------------------------------
(* What that is for each employee and each Payroll ID *)

LEMMA WhoIsRegistered ==
    ASSUME StaffTyped, NobodyDangles
    PROVE  /\ InRegister \subseteq Employees /\ None \notin InRegister
           /\ \A e \in Employees : emp[e] \in Person /\ emp[e].manager \in Employees \cup {None}
           /\ \A e \in InRegister : emp[e].at = "live" /\ emp[e].manager \in InRegister \cup {None}
           /\ \A p \in PayrollIds : owner[p] \in InRegister \cup {None}
<1>1. emp \in [Employees -> Person] /\ None \notin Employees /\ owner \in [PayrollIds -> Employees \cup {None}]
  BY NoneIsNobody DEF StaffTyped
<1> QED
  BY <1>1 DEF Person, InRegister, NobodyDangles

LEMMA OneEmployee ==
    ASSUME NEW e \in Employees, NEW x \in Person, StaffTyped, emp' = [emp EXCEPT ![e] = x]
    PROVE  /\ emp' \in [Employees -> Person] /\ emp'[e] = x /\ \A y \in Employees : y # e => emp'[y] = emp[y]
           /\ x.at = "live" => InRegister' = InRegister \cup {e}
<1>1. emp \in [Employees -> Person]
  BY DEF StaffTyped
<1>2. emp' \in [Employees -> Person] /\ emp'[e] = x /\ \A y \in Employees : y # e => emp'[y] = emp[y]
  BY <1>1
<1> QED
  BY <1>2 DEF InRegister

LEMMA OneId ==
    ASSUME NEW p \in PayrollIds, NEW e \in Employees, StaffTyped, owner' = [owner EXCEPT ![p] = e]
    PROVE  /\ owner' \in [PayrollIds -> Employees \cup {None}] /\ owner'[p] = e
           /\ \A q \in PayrollIds : q # p => owner'[q] = owner[q]
BY DEF StaffTyped

LEMMA WhoJoins ==
    ASSUME StaffTyped, NobodyDangles, NEW e \in Employees, Joins(e)
    PROVE  /\ emp' \in [Employees -> Person] /\ InRegister' = InRegister \cup {e} /\ e \notin InRegister
              /\ e \notin Promised
           /\ emp'[e].manager \in InRegister \cup {None} /\ ~Held(emp'[e].manager)
           /\ \A x \in Employees : x # e => emp'[x] = emp[x]
           /\ owner' \in [PayrollIds -> Employees \cup {None}]
           /\ \A p \in PayrollIds : owner'[p] = owner[p] \/ (owner[p] = None /\ owner'[p] = e)
           /\ UNCHANGED <<batch, op, unseen>>
<1>1. PICK x \in Person : /\ x.at = "live" /\ x.manager \in InRegister \cup {None} /\ ~Held(x.manager)
                            /\ emp' = [emp EXCEPT ![e] = x]
  BY DEF Joins
<1>2. /\ emp' \in [Employees -> Person] /\ emp'[e] = x /\ InRegister' = InRegister \cup {e}
      /\ \A y \in Employees : y # e => emp'[y] = emp[y]
  BY <1>1, OneEmployee
<1>3. e \notin InRegister /\ e \notin Promised
  BY DEF Joins, NewIds, InRegister
<1>4. /\ owner' \in [PayrollIds -> Employees \cup {None}]
      /\ \A p \in PayrollIds : owner'[p] = owner[p] \/ (owner[p] = None /\ owner'[p] = e)
  <2>1. CASE owner' = owner
    BY <2>1 DEF StaffTyped
  <2>2. ASSUME NEW p \in PayrollIds, owner[p] = None, owner' = [owner EXCEPT ![p] = e]
        PROVE  /\ owner' \in [PayrollIds -> Employees \cup {None}]
               /\ \A q \in PayrollIds : owner'[q] = owner[q] \/ (owner[q] = None /\ owner'[q] = e)
    BY <2>2, OneId
  <2> QED
    BY <2>1, <2>2 DEF Joins
<1> QED
  BY <1>1, <1>2, <1>3, <1>4 DEF Joins

LEMMA WhoIsRenamed ==
    ASSUME StaffTyped, NEW e \in Employees, Renamed(e)
    PROVE  /\ emp' \in [Employees -> Person] /\ InRegister' = InRegister /\ e \in InRegister /\ ~Held(e)
           /\ emp'[e].manager = emp[e].manager
           /\ \A x \in Employees : x # e => emp'[x] = emp[x]
           /\ UNCHANGED <<owner, batch, op, unseen>>
<1>1. PICK x \in Person : x.at = "live" /\ x.manager = emp[e].manager /\ emp' = [emp EXCEPT ![e] = x]
  BY DEF Renamed
<1>2. /\ emp' \in [Employees -> Person] /\ emp'[e] = x /\ InRegister' = InRegister \cup {e}
      /\ \A y \in Employees : y # e => emp'[y] = emp[y]
  BY <1>1, OneEmployee
<1> QED
  BY <1>1, <1>2 DEF Renamed

LEMMA WhoIsGivenId ==
    ASSUME StaffTyped, NEW e \in Employees, NEW p \in PayrollIds, AddPayrollId(e, p)
    PROVE  /\ owner' \in [PayrollIds -> Employees \cup {None}]
           /\ \A q \in PayrollIds : owner'[q] = owner[q] \/ (owner[q] = None /\ owner'[q] = e)
           /\ e \in InRegister /\ ~Held(e) /\ UNCHANGED <<emp, batch, op, unseen>>
<1>1. e \in InRegister /\ ~Held(e) /\ owner[p] = None /\ owner' = [owner EXCEPT ![p] = e]
      /\ UNCHANGED <<emp, batch, op, unseen>>
  BY DEF AddPayrollId
<1> QED
  BY <1>1, OneId

LEMMA WhoIsEdited ==
    ASSUME StaffTyped, NEW h \in Handlers, NEW e \in Employees, NEW m \in Employees \cup {None}, Edits(h, e, m)
    PROVE  /\ emp' \in [Employees -> Person] /\ InRegister' = InRegister
           /\ e \in op[h].seen /\ e \in InRegister /\ ~Held(e)
           /\ m # None => m \in op[h].seen /\ m \in InRegister /\ ~Held(m)
           /\ emp'[e].manager = m
           /\ \A x \in Employees : x # e => emp'[x] = emp[x]
           /\ unseen' = unseen \cup (InRegister \ op[h].seen) /\ UNCHANGED <<owner, batch>>
<1>1. PICK x \in Person : x.at = "live" /\ x.manager = m /\ emp' = [emp EXCEPT ![e] = x]
  BY DEF Edits
<1>2. /\ emp' \in [Employees -> Person] /\ emp'[e] = x /\ InRegister' = InRegister \cup {e}
      /\ \A y \in Employees : y # e => emp'[y] = emp[y]
  BY <1>1, OneEmployee
<1>3. /\ e \in op[h].seen /\ e \in InRegister /\ ~Held(e)
      /\ m # None => m \in op[h].seen /\ m \in InRegister /\ ~Held(m)
  BY DEF Edits
<1> QED
  BY <1>1, <1>2, <1>3 DEF Edits

LEMMA WhoLeaves ==
    ASSUME StaffTyped, NobodyDangles, NEW h \in Handlers, NEW e \in Employees, Leaves(h, e)
    PROVE  /\ emp' \in [Employees -> Person] /\ InRegister' = InRegister \ {e} /\ e \in InRegister
           /\ \A x \in Employees : x # e /\ emp[x].manager # e => emp'[x] = emp[x]
           /\ \A x \in Employees : x # e /\ emp[x].manager = e => emp'[x].manager = None /\ emp'[x].at = emp[x].at
           /\ \A x \in InRegister : x = e \/ emp[x].manager = e => ~Held(x)
           /\ \A p \in PayrollIds : owner[p] # e
           /\ UNCHANGED <<owner, batch, unseen>>
<1>1. ASSUME NEW x \in Employees
      PROVE  /\ emp'[x] \in Person
             /\ x = e => emp'[x].at = "deleted"
             /\ x # e /\ emp[x].manager # e => emp'[x] = emp[x]
             /\ x # e /\ emp[x].manager = e => emp'[x].manager = None /\ emp'[x].at = emp[x].at
  <2>1. PICK y \in Person : y = emp[x]
    BY WhoIsRegistered
  <2>2. CASE x = e
    <3>1. emp'[x] = [y EXCEPT !.at = "deleted", !.manager = None]
      BY <2>1, <2>2 DEF Leaves
    <3> QED
      BY <2>1, <2>2, <3>1 DEF Person
  <2>3. CASE x # e /\ emp[x].manager = e
    <3>1. emp'[x] = [y EXCEPT !.manager = None]
      BY <2>1, <2>3 DEF Leaves
    <3> QED
      BY <2>1, <2>3, <3>1 DEF Person
  <2>4. CASE x # e /\ emp[x].manager # e
    <3>1. emp'[x] = y
      BY <2>1, <2>4 DEF Leaves
    <3> QED
      BY <2>1, <2>4, <3>1
  <2> QED
    BY <2>2, <2>3, <2>4
<1>2. emp' = [x \in Employees |-> emp'[x]]
  BY DEF Leaves
<1>3. emp' \in [Employees -> Person]
  BY <1>1, <1>2
<1>4. InRegister' = InRegister \ {e}
  BY <1>1 DEF InRegister
<1>5. \A p \in PayrollIds : owner[p] # e
  BY DEF Leaves, IdsOf
<1> QED
  BY <1>1, <1>3, <1>4, <1>5 DEF Leaves

\* A row's manager is somebody the import writes, or has the Payroll ID that the row names.
LEMMA ManagerIs ==
    ASSUME StaffTyped, NobodyDangles, NEW b \in Batches, NEW rows \in Reviewed(b), NEW i \in Rows(b),
           Sheet[b][i].manager # None
    PROVE  \/ /\ \E j \in Selected(b, rows) : Sheet[b][j].payroll = Sheet[b][i].manager
              /\ ManagerOf(b, rows, i) \in Targets(b, rows)
           \/ /\ ~ \E j \in Selected(b, rows) : Sheet[b][j].payroll = Sheet[b][i].manager
              /\ ManagerOf(b, rows, i) = owner[Sheet[b][i].manager] /\ ManagerOf(b, rows, i) \in InRegister \cup {None}
<1> DEFINE named == {j \in Selected(b, rows) : Sheet[b][j].payroll = Sheet[b][i].manager}
<1>1. Sheet[b][i].manager \in PayrollIds
  BY SheetFields
<1>2. CASE named = {}
  <2>1. ManagerOf(b, rows, i) = owner[Sheet[b][i].manager]
    BY <1>2 DEF ManagerOf
  <2> QED
    BY <1>1, <1>2, <2>1, WhoIsRegistered
<1>3. CASE named # {}
  <2>1. PICK j \in named : j = CHOOSE k \in named : TRUE
    BY <1>3
  <2>2. ManagerOf(b, rows, i) = rows[j].target
    BY <1>3, <2>1 DEF ManagerOf
  <2> QED
    BY <2>1, <2>2 DEF Targets
<1> QED
  BY <1>2, <1>3

\* Whoever is to report to whom, when an import is written.
LEMMA ProposedIs ==
    ASSUME StaffTyped, NobodyDangles, NEW b \in Batches, NEW rows \in Reviewed(b), Apart(b, rows)
    PROVE  /\ DOMAIN Proposed(b, rows) = InRegister \cup Targets(b, rows)
           /\ \A i \in Selected(b, rows) : Sheet[b][i].manager # None =>
                 Proposed(b, rows)[rows[i].target] = ManagerOf(b, rows, i)
           /\ \A i \in Selected(b, rows) : Sheet[b][i].manager = None =>
                 Proposed(b, rows)[rows[i].target] = IF rows[i].target \in InRegister THEN emp[rows[i].target].manager
                   ELSE None
           /\ \A e \in InRegister \ Targets(b, rows) : Proposed(b, rows)[e] = emp[e].manager
           /\ \A e \in InRegister \cup Targets(b, rows) : Proposed(b, rows)[e] \in InRegister \cup Targets(b,
              rows) \cup {None}
<1>1. DOMAIN Proposed(b, rows) = InRegister \cup Targets(b, rows)
  BY DEF Proposed
<1>2. ASSUME NEW e \in InRegister \cup Targets(b, rows)
      PROVE  Proposed(b, rows)[e] =
                IF \E i \in Selected(b, rows) : rows[i].target = e /\ Sheet[b][i].manager # None
                THEN ManagerOf(b, rows, CHOOSE i \in Selected(b, rows) : rows[i].target = e)
                ELSE IF e \in InRegister THEN emp[e].manager ELSE None
  BY DEF Proposed
<1>3. ASSUME NEW i \in Selected(b, rows)
      PROVE  /\ rows[i].target \in Targets(b, rows) /\ i \in Rows(b)
             /\ (CHOOSE j \in Selected(b, rows) : rows[j].target = rows[i].target) = i
             /\ \A j \in Selected(b, rows) : rows[j].target = rows[i].target => j = i
  BY DEF Targets, Apart, Selected
<1>4. ASSUME NEW i \in Selected(b, rows), Sheet[b][i].manager # None
      PROVE  /\ Proposed(b, rows)[rows[i].target] = ManagerOf(b, rows, i)
             /\ Proposed(b, rows)[rows[i].target] \in InRegister \cup Targets(b, rows) \cup {None}
  <2>1. Proposed(b, rows)[rows[i].target] = ManagerOf(b, rows, i)
    <3>1. PICK e \in Targets(b, rows) : e = rows[i].target
      BY <1>3
    <3>2. PICK k : k = CHOOSE j \in Selected(b, rows) : rows[j].target = e
      OBVIOUS
    <3>3. k = i
      BY <1>3, <3>1, <3>2
    <3>4. \E j \in Selected(b, rows) : rows[j].target = e /\ Sheet[b][j].manager # None
      BY <1>4, <3>1
    <3>5. Proposed(b, rows)[e] = ManagerOf(b, rows, k)
      BY <1>2, <3>2, <3>4
    <3> QED
      BY <3>1, <3>3, <3>5
  <2> QED
    BY <1>3, <1>4, <2>1, ManagerIs
<1>5. ASSUME NEW i \in Selected(b, rows), Sheet[b][i].manager = None
      PROVE  /\ Proposed(b, rows)[rows[i].target] = IF rows[i].target \in InRegister THEN emp[rows[i].target].manager
                ELSE None
             /\ Proposed(b, rows)[rows[i].target] \in InRegister \cup Targets(b, rows) \cup {None}
  <2>1. Proposed(b, rows)[rows[i].target] = IF rows[i].target \in InRegister THEN emp[rows[i].target].manager ELSE None
    BY <1>2, <1>3, <1>5
  <2> QED
    BY <2>1, WhoIsRegistered
<1>6. ASSUME NEW e \in InRegister \ Targets(b, rows)
      PROVE  /\ Proposed(b, rows)[e] = emp[e].manager
             /\ Proposed(b, rows)[e] \in InRegister \cup Targets(b, rows) \cup {None}
  <2>1. Proposed(b, rows)[e] = emp[e].manager
    BY <1>2 DEF Targets
  <2> QED
    BY <2>1, WhoIsRegistered
<1>7. \A e \in Targets(b, rows) : \E i \in Selected(b, rows) : e = rows[i].target
  BY DEF Targets
<1>8. \A e \in InRegister \cup Targets(b, rows) : Proposed(b, rows)[e] \in InRegister \cup Targets(b, rows) \cup {None}
  BY <1>4, <1>5, <1>6, <1>7
<1> QED
  BY <1>1, <1>4, <1>5, <1>6, <1>8

\* What an import that is written changes.
LEMMA WhoIsImported ==
    ASSUME StaffTyped, NobodyDangles, Writes, NEW h \in Handlers, NEW b \in Batches, Imports(h, b)
    PROVE  LET rows == batch[b].rows IN
           /\ rows \in Reviewed(b) /\ Writing(b, op[h].shown, op[h].locked) /\ Writable(b, rows, op[h].locked)
           /\ Targets(b, rows) \subseteq Employees
           /\ emp' \in [Employees -> Person] /\ InRegister' = InRegister \cup Targets(b, rows)
           /\ \A x \in Employees \ Targets(b, rows) : emp'[x] = emp[x]
           /\ \A x \in Targets(b, rows) : emp'[x].manager = Proposed(b, rows)[x]
           /\ owner' \in [PayrollIds -> Employees \cup {None}]
           /\ \A p \in PayrollIds : owner'[p] = owner[p] \/ (owner[p] = None /\ owner'[p] \in Targets(b, rows))
           /\ op'[h] = Idle /\ unseen' = unseen
<1>1. Writing(b, op[h].shown, op[h].locked) /\ Writable(b, batch[b].rows, op[h].locked)
  BY DEF Imports, Writes, Writing
<1>2. batch[b].at = "preview" /\ Apart(b, batch[b].rows)
  BY <1>1 DEF Writing
<1>3. PICK rows \in Reviewed(b) : rows = batch[b].rows
  BY <1>2, BatchFields
<1>4. Targets(b, rows) \subseteq Employees /\ \A i \in Selected(b, rows) : i \in Rows(b)
  BY SelectedTargets
<1>5. PICK prop : prop = Proposed(b, rows)
  OBVIOUS
<1>6. ASSUME NEW e \in Targets(b, rows)
      PROVE  /\ emp'[e] \in Person /\ emp'[e].at = "live" /\ emp'[e].manager = prop[e]
  <2>1. PICK i \in Selected(b, rows) : i = CHOOSE j \in Selected(b, rows) : rows[j].target = e
    BY DEF Targets
  <2>2. PICK n \in Names : n = Sheet[b][i].name
    BY <1>4, SheetFields
  <2>3. PICK m \in Employees \cup {None} : m = prop[e]
    BY <1>2, <1>3, <1>4, <1>5, ProposedIs, WhoIsRegistered
  <2>4. emp'[e] = [at |-> "live", name |-> n, manager |-> m]
    BY <1>3, <1>4, <1>5, <2>1, <2>2, <2>3 DEF Imports
  <2> QED
    BY <2>3, <2>4 DEF Person
<1>7. \A e \in Employees \ Targets(b, rows) : emp'[e] = emp[e]
  BY <1>3 DEF Imports
<1>8. emp' = [e \in Employees |-> emp'[e]]
  BY DEF Imports
<1>9. emp' \in [Employees -> Person] /\ InRegister' = InRegister \cup Targets(b, rows)
  <2>1. \A e \in Employees : emp'[e] \in Person
    BY <1>6, <1>7, WhoIsRegistered
  <2>2. \A e \in Employees : emp'[e].at = "live" <=> emp[e].at = "live" \/ e \in Targets(b, rows)
    BY <1>6, <1>7
  <2> QED
    BY <1>4, <1>8, <2>1, <2>2 DEF InRegister
<1>10. ASSUME NEW p \in PayrollIds
       PROVE  owner'[p] = owner[p] \/ (owner[p] = None /\ owner'[p] \in Targets(b, rows))
  <2>1. CASE \E i \in Selected(b, rows) : Sheet[b][i].payroll = p
    <3>1. PICK i \in Selected(b, rows) : i = (CHOOSE j \in Selected(b, rows) : Sheet[b][j].payroll = p)
               /\ Sheet[b][i].payroll = p
      BY <2>1
    <3>2. owner'[p] = rows[i].target
      BY <1>3, <2>1, <3>1 DEF Imports
    <3>3. owner[p] \in {None, rows[i].target}
      BY <1>3, <3>1 DEF Imports, IdTaken
    <3> QED
      BY <3>2, <3>3 DEF Targets
  <2>2. CASE ~ \E i \in Selected(b, rows) : Sheet[b][i].payroll = p
    BY <1>3, <2>2 DEF Imports
  <2> QED
    BY <2>1, <2>2
<1>11. owner' \in [PayrollIds -> Employees \cup {None}]
  <2>1. owner' = [p \in PayrollIds |-> owner'[p]]
    BY DEF Imports
  <2>2. \A p \in PayrollIds : owner'[p] \in Employees \cup {None}
    BY <1>4, <1>10 DEF StaffTyped
  <2> QED
    BY <2>1, <2>2
<1> QED
  BY <1>1, <1>3, <1>4, <1>5, <1>6, <1>7, <1>9, <1>10, <1>11 DEF Imports

-----------------------------------------------------------------------------
(* Nobody dangles, and Payroll IDs stay *)

LEMMA RegisterStep ==
    ASSUME StaffTyped, NobodyDangles, Writes, Moves
    PROVE  /\ emp' \in [Employees -> Person] /\ owner' \in [PayrollIds -> Employees \cup {None}]
           /\ unseen' \subseteq Employees
           /\ NobodyDangles'
           /\ \A p \in PayrollIds : owner[p] # None => owner'[p] = owner[p]
<1> DEFINE Sound ==
      /\ emp' \in [Employees -> Person] /\ owner' \in [PayrollIds -> Employees \cup {None}]
      /\ unseen' \subseteq Employees
      /\ \A p \in PayrollIds : owner'[p] # None => owner'[p] \in InRegister'
      /\ \A e \in InRegister' : emp'[e].manager # None => emp'[e].manager \in InRegister'
      /\ \A p \in PayrollIds : owner[p] # None => owner'[p] = owner[p]
<1>1. ASSUME Untouched
      PROVE  Sound
  <2>1. InRegister' = InRegister
    BY <1>1 DEF Untouched, InRegister
  <2> QED
    BY <1>1, <2>1, WhoIsRegistered DEF Untouched, StaffTyped
<1>2. ASSUME NEW e \in Employees, Joins(e)
      PROVE  Sound
  <2>1. /\ emp' \in [Employees -> Person] /\ InRegister' = InRegister \cup {e}
        /\ emp'[e].manager \in InRegister \cup {None} /\ \A x \in Employees : x # e => emp'[x] = emp[x]
        /\ owner' \in [PayrollIds -> Employees \cup {None}]
        /\ \A p \in PayrollIds : owner'[p] = owner[p] \/ (owner[p] = None /\ owner'[p] = e)
        /\ unseen' = unseen
    BY <1>2, WhoJoins
  <2> QED
    BY <2>1, WhoIsRegistered DEF StaffTyped
<1>3. ASSUME NEW e \in Employees, Renamed(e)
      PROVE  Sound
  <2>1. /\ emp' \in [Employees -> Person] /\ InRegister' = InRegister
        /\ emp'[e].manager = emp[e].manager /\ \A x \in Employees : x # e => emp'[x] = emp[x]
        /\ owner' = owner /\ unseen' = unseen
    BY <1>3, WhoIsRenamed
  <2> QED
    BY <2>1, WhoIsRegistered DEF StaffTyped
<1>4. ASSUME NEW e \in Employees, NEW p \in PayrollIds, AddPayrollId(e, p)
      PROVE  Sound
  <2>1. /\ owner' \in [PayrollIds -> Employees \cup {None}]
        /\ \A q \in PayrollIds : owner'[q] = owner[q] \/ (owner[q] = None /\ owner'[q] = e)
        /\ e \in InRegister /\ emp' = emp /\ unseen' = unseen
    BY <1>4, WhoIsGivenId
  <2>2. InRegister' = InRegister
    BY <2>1 DEF InRegister
  <2> QED
    BY <2>1, <2>2, WhoIsRegistered DEF StaffTyped
<1>5. ASSUME NEW h \in Handlers, NEW e \in Employees, Leaves(h, e)
      PROVE  Sound
  <2>1. /\ emp' \in [Employees -> Person] /\ InRegister' = InRegister \ {e}
        /\ \A x \in Employees : x # e /\ emp[x].manager # e => emp'[x] = emp[x]
        /\ \A x \in Employees : x # e /\ emp[x].manager = e => emp'[x].manager = None
        /\ \A p \in PayrollIds : owner[p] # e
        /\ owner' = owner /\ unseen' = unseen
    BY <1>5, WhoLeaves
  <2>2. ASSUME NEW x \in InRegister', emp'[x].manager # None
        PROVE  emp'[x].manager \in InRegister'
    <3>1. x \in InRegister /\ x # e /\ x \in Employees
      BY <2>1, WhoIsRegistered
    <3>2. emp[x].manager # e /\ emp'[x] = emp[x]
      BY <2>1, <2>2, <3>1
    <3> QED
      BY <2>1, <2>2, <3>1, <3>2, WhoIsRegistered
  <2> QED
    BY <2>1, <2>2, WhoIsRegistered DEF StaffTyped
<1>6. ASSUME NEW h \in Handlers, NEW e \in Employees, NEW m \in Employees \cup {None}, Edits(h, e, m)
      PROVE  Sound
  <2>1. /\ emp' \in [Employees -> Person] /\ InRegister' = InRegister
        /\ m # None => m \in InRegister
        /\ emp'[e].manager = m /\ \A x \in Employees : x # e => emp'[x] = emp[x]
        /\ unseen' = unseen \cup (InRegister \ op[h].seen) /\ owner' = owner
    BY <1>6, WhoIsEdited
  <2> QED
    BY <2>1, WhoIsRegistered DEF StaffTyped
<1>7. ASSUME NEW h \in Handlers, NEW b \in Batches, Imports(h, b)
      PROVE  Sound
  <2>1. PICK rows : rows = batch[b].rows
    OBVIOUS
  <2>2. /\ rows \in Reviewed(b) /\ Writing(b, op[h].shown, op[h].locked)
        /\ Targets(b, rows) \subseteq Employees
        /\ emp' \in [Employees -> Person] /\ InRegister' = InRegister \cup Targets(b, rows)
        /\ \A x \in Employees \ Targets(b, rows) : emp'[x] = emp[x]
        /\ \A x \in Targets(b, rows) : emp'[x].manager = Proposed(b, rows)[x]
        /\ owner' \in [PayrollIds -> Employees \cup {None}]
        /\ \A p \in PayrollIds : owner'[p] = owner[p] \/ (owner[p] = None /\ owner'[p] \in Targets(b, rows))
        /\ unseen' = unseen
    BY <1>7, <2>1, WhoIsImported
  <2>3. Apart(b, rows)
    BY <2>1, <2>2 DEF Writing
  <2>4. \A x \in Targets(b, rows) : Proposed(b, rows)[x] \in InRegister \cup Targets(b, rows) \cup {None}
    BY <2>2, <2>3, ProposedIs
  <2>5. ASSUME NEW x \in InRegister', emp'[x].manager # None
        PROVE  emp'[x].manager \in InRegister'
    <3>1. CASE x \in Targets(b, rows)
      BY <2>2, <2>4, <2>5, <3>1
    <3>2. CASE x \notin Targets(b, rows)
      BY <2>2, <2>5, <3>2, WhoIsRegistered
    <3> QED
      BY <3>1, <3>2
  <2> QED
    BY <2>2, <2>5, WhoIsRegistered DEF StaffTyped
<1> HIDE DEF Sound
<1>8. Sound
  BY <1>1, <1>2, <1>3, <1>4, <1>5, <1>6, <1>7 DEF Moves
<1> QED
  BY <1>8 DEF Sound, NobodyDangles

LEMMA ChangesStep ==
    ASSUME StaffTyped, [RegisterNext]_registerVars
    PROVE  changes' \in 0..MaxChanges
<1>1. changes' = changes \/ Change
  <2>1. ASSUME UNCHANGED registerVars
        PROVE  changes' = changes
    BY <2>1 DEF registerVars
  <2>2. ASSUME NEW b \in Batches,
               \/ PreviewImport(b) \/ Refresh(b)
               \/ \E i \in Rows(b), d \in {"create", "update", "skip"}, t \in Employees \cup {None} :
                  DecideRow(b, i, d, t)
        PROVE  changes' = changes \/ Change
    BY <2>2 DEF PreviewImport, Refresh, DecideRow
  <2>3. ASSUME NEW e \in Employees, NEW n \in Names,
               \/ Rename(e, n)
               \/ \E p \in PayrollIds : CreateManaged(e, n, p)
               \/ \E m \in Employees \cup {None} : CreateUnverified(e, n, m)
        PROVE  Change
    BY <2>3 DEF Rename, CreateManaged, CreateUnverified
  <2>4. ASSUME NEW e \in Employees, NEW p \in PayrollIds, AddPayrollId(e, p)
        PROVE  Change
    BY <2>4 DEF AddPayrollId
  <2>5. ASSUME NEW h \in Handlers,
               (\E b \in Batches : ReadBatch(h, b)) \/ ReadRows(h) \/ Evaluate(h) \/ LockForApply(h) \/ Abandon(h)
        PROVE  changes' = changes
    BY <2>5 DEF ReadBatch, ReadRows, Evaluate, LockForApply, Abandon
  <2>6. ASSUME NEW h \in Handlers, WriteImport(h) \/ (\E n \in Names : FinishEdit(h, n)) \/ FinishDelete(h)
        PROVE  changes' = changes
    BY <2>6 DEF WriteImport, FinishEdit, FinishDelete
  <2>7. ASSUME NEW h \in Handlers, NEW e \in Employees,
               StartDelete(h, e) \/ \E m \in Employees \cup {None} : StartEdit(h, e, m)
        PROVE  Change
    BY <2>7 DEF StartEdit, StartDelete
  <2> QED
    BY <2>1, <2>2, <2>3, <2>4, <2>5, <2>6, <2>7 DEF RegisterNext
<1>2. changes \in 0..MaxChanges /\ MaxChanges \in Nat
  BY NoneIsNobody DEF StaffTyped
<1> QED
  BY <1>1, <1>2 DEF Change

LEMMA TypedStep ==
    ASSUME StaffTyped, NobodyDangles, ReadAsWas, Writes, [RegisterNext]_registerVars
    PROVE  StaffTyped'
<1>1. /\ emp' \in [Employees -> Person] /\ owner' \in [PayrollIds -> Employees \cup {None}]
      /\ unseen' \subseteq Employees
  BY StepMoves, RegisterStep
<1>2. BatchesStep /\ OpsStep /\ changes' \in 0..MaxChanges
  BY BatchStep, OpStep, ChangesStep
<1> QED
  BY <1>1, <1>2 DEF StaffTyped, BatchesStep, OpsStep

-----------------------------------------------------------------------------
(* Reporting lines do not close, but over newcomers *)

LEMMA NoLoopKept ==
    ASSUME StaffTyped, NobodyDangles, NoLoop,
           \A x \in InRegister' \ unseen' :
              x \in InRegister \ unseen /\ (emp'[x].manager = emp[x].manager \/ emp'[x].manager = None)
    PROVE  NoLoop'
<1> SUFFICES ASSUME NEW S \in SUBSET (InRegister' \ unseen'), S # {}
             PROVE  \E x \in S : emp'[x].manager \notin S
  BY DEF NoLoop
<1>1. S \in SUBSET (InRegister \ unseen) /\ None \notin S
  BY WhoIsRegistered
<1>2. PICK x \in S : emp[x].manager \notin S
  BY <1>1 DEF NoLoop
<1> QED
  BY <1>1, <1>2

\* A newcomer nobody reports to closes nothing.
LEMMA NoLoopJoins ==
    ASSUME StaffTyped, NobodyDangles, NoLoop, NEW e \in Employees, Joins(e)
    PROVE  NoLoop'
<1>1. /\ InRegister' = InRegister \cup {e} /\ e \notin InRegister /\ emp'[e].manager \in InRegister \cup {None}
      /\ \A x \in Employees : x # e => emp'[x] = emp[x]
      /\ unseen' = unseen
  BY WhoJoins
<1>2. \A x \in InRegister : emp'[x] = emp[x] /\ emp[x].manager # e /\ x # e
  BY <1>1, WhoIsRegistered, NoneIsNobody
<1> SUFFICES ASSUME NEW S \in SUBSET (InRegister' \ unseen'), S # {}
             PROVE  \E x \in S : emp'[x].manager \notin S
  BY DEF NoLoop
<1>3. PICK R : R = S \ {e}
  OBVIOUS
<1>4. R \in SUBSET (InRegister \ unseen)
  BY <1>1, <1>3
<1>5. CASE R # {}
  <2>1. PICK x \in R : emp[x].manager \notin R
    BY <1>4, <1>5 DEF NoLoop
  <2>2. emp'[x].manager \notin S /\ x \in S
    BY <1>2, <1>3, <1>4, <2>1
  <2> QED
    BY <2>2
<1>6. CASE R = {}
  <2>1. S = {e}
    BY <1>3, <1>6
  <2>2. emp'[e].manager # e
    BY <1>1, NoneIsNobody
  <2> QED
    BY <2>1, <2>2
<1> QED
  BY <1>5, <1>6

\* An edit goes up the line of the new manager, among those it was shown, and does not meet the employee.
LEMMA NoLoopEdits ==
    ASSUME StaffTyped, NobodyDangles, NoLoop,
           NEW h \in Handlers, NEW e \in Employees, NEW m \in Employees \cup {None}, Edits(h, e, m)
    PROVE  NoLoop'
<1>1. /\ InRegister' = InRegister /\ e \in InRegister
      /\ emp'[e].manager = m /\ \A x \in Employees : x # e => emp'[x] = emp[x]
      /\ unseen' = unseen \cup (InRegister \ op[h].seen)
  BY WhoIsEdited
<1>2. PICK rows : rows = [x \in op[h].seen \cap InRegister |-> emp[x].manager]
  OBVIOUS
<1>3. m # None => ~Closes(rows, e, m)
  BY <1>2 DEF Edits
<1> SUFFICES ASSUME NEW S \in SUBSET (InRegister' \ unseen'), S # {}, \A x \in S : emp'[x].manager \in S
             PROVE  FALSE
  BY DEF NoLoop
<1>4. S \in SUBSET (InRegister \ unseen) /\ S \subseteq DOMAIN rows /\ None \notin S
  BY <1>1, <1>2, WhoIsRegistered
<1>5. \A x \in S : x # e => rows[x] \in S
  BY <1>1, <1>2, <1>4, WhoIsRegistered
<1>6. CASE e \notin S
  <2>1. PICK x \in S : emp[x].manager \notin S
    BY <1>4 DEF NoLoop
  <2> QED
    BY <1>1, <1>4, <1>6, <2>1, WhoIsRegistered
<1>7. CASE e \in S
  <2>1. m \in S /\ m # None
    BY <1>1, <1>4, <1>7
  <2>2. PICK N \in Nat : N = Cardinality(Employees)
    BY LineSteps DEF StaffTyped
  <2>3. PICK up : up = Line(rows, m)
    OBVIOUS
  <2>4. up[0] = m /\ \A n \in 0..(N - 1) : up[n + 1] = Above(rows, up[n])
    BY <2>2, <2>3, LineSteps DEF StaffTyped
  <2>5. (\A n \in 0..N : up[n] # e) /\ up[N] = None
    BY <1>3, <2>1, <2>2, <2>3 DEF Closes
  <2> DEFINE G == {n \in Nat : up[n] \in S}
  <2>6. 0 \in G /\ G \in SUBSET Nat
    BY <2>1, <2>4
  <2>7. ASSUME NEW n \in 0..(N - 1), n \in G
        PROVE  n + 1 \in G
    <3>1. up[n] \in S /\ up[n] # e /\ n + 1 \in Nat
      BY <2>5, <2>7
    <3>2. up[n + 1] = rows[up[n]]
      BY <1>4, <2>4, <3>1 DEF Above
    <3> QED
      BY <1>5, <3>1, <3>2
  <2> HIDE DEF G
  <2>8. \A n \in 0..N : n \in G
    BY <2>6, <2>7, RangeInduction
  <2> QED
    BY <1>4, <2>5, <2>8 DEF G
<1> QED
  BY <1>6, <1>7

\* An import closes nothing among those it holds and adds, and whoever came since reports to none of them.
LEMMA NoLoopImports ==
    ASSUME StaffTyped, NobodyDangles, NoLoop, Writes, NEW h \in Handlers, NEW b \in Batches, Imports(h, b)
    PROVE  NoLoop'
<1>1. PICK rows : rows = batch[b].rows
  OBVIOUS
<1>2. PICK locked : locked = op[h].locked
  OBVIOUS
<1>3. /\ rows \in Reviewed(b) /\ Writing(b, op[h].shown, locked) /\ Writable(b, rows, locked)
      /\ Targets(b, rows) \subseteq Employees /\ InRegister' = InRegister \cup Targets(b, rows)
      /\ \A x \in Employees \ Targets(b, rows) : emp'[x] = emp[x]
      /\ \A x \in Targets(b, rows) : emp'[x].manager = Proposed(b, rows)[x]
      /\ unseen' = unseen
  BY <1>1, <1>2, WhoIsImported
<1>4. /\ Apart(b, rows) /\ locked \subseteq InRegister
      /\ \A x \in InRegister \ locked : emp[x].manager \notin locked
      /\ Targets(b, rows) \cap InRegister \subseteq locked
  <2>1. /\ Apart(b, rows) /\ locked \subseteq InRegister
        /\ \A x \in InRegister \ locked : emp[x].manager \notin locked
        /\ \A i \in Selected(b, rows) : rows[i].target \in InRegister => rows[i].target \in locked
    BY <1>1, <1>3 DEF Writing
  <2> QED
    BY <2>1 DEF Targets
<1> SUFFICES ASSUME NEW S \in SUBSET (InRegister' \ unseen'), S # {}, \A x \in S : emp'[x].manager \in S
             PROVE  FALSE
  BY DEF NoLoop
<1>5. PICK R : R = S \ (locked \cup Targets(b, rows))
  OBVIOUS
<1>6. R \in SUBSET (InRegister \ unseen) /\ R \in SUBSET (InRegister \ locked) /\ None \notin S
  BY <1>3, <1>5, WhoIsRegistered, NoneIsNobody
<1>7. ASSUME NEW x \in R
      PROVE  emp[x].manager \in R
  <2>1. x \in InRegister /\ x \in Employees \ Targets(b, rows) /\ x \in InRegister \ locked /\ x \in S
    BY <1>5, <1>6, WhoIsRegistered
  <2>2. emp'[x] = emp[x] /\ emp[x].manager \in S
    BY <1>3, <2>1
  <2>3. emp[x].manager \in InRegister \ locked
    BY <1>4, <1>6, <2>1, <2>2, WhoIsRegistered
  <2>4. emp[x].manager \notin Targets(b, rows)
    BY <1>4, <2>3
  <2> QED
    BY <1>5, <2>2, <2>3, <2>4
<1>8. R = {}
  BY <1>6, <1>7 DEF NoLoop
<1>9. S \in SUBSET ((locked \cup Targets(b, rows)) \ unseen)
  BY <1>3, <1>5, <1>8
<1>10. PICK x \in S : Proposed(b, rows)[x] \notin S
  BY <1>1, <1>3, <1>9 DEF Writable
<1>11. emp'[x].manager = Proposed(b, rows)[x]
  <2>1. CASE x \in Targets(b, rows)
    BY <1>3, <2>1
  <2>2. CASE x \notin Targets(b, rows)
    <3>1. x \in InRegister \ Targets(b, rows) /\ x \in Employees \ Targets(b, rows)
      BY <1>4, <1>9, <2>2, WhoIsRegistered
    <3>2. emp'[x] = emp[x]
      BY <1>3, <3>1
    <3>3. rows \in Reviewed(b) /\ Apart(b, rows)
      BY <1>3, <1>4
    <3>4. \A e \in InRegister \ Targets(b, rows) : Proposed(b, rows)[e] = emp[e].manager
      BY <3>3, ProposedIs
    <3> QED
      BY <3>1, <3>2, <3>4
  <2> QED
    BY <2>1, <2>2
<1> QED
  BY <1>10, <1>11

LEMMA NoLoopStep ==
    ASSUME StaffTyped, NobodyDangles, NoLoop, Writes, Moves
    PROVE  NoLoop'
<1>1. CASE Untouched
  <2>1. InRegister' = InRegister
    BY <1>1 DEF Untouched, InRegister
  <2> QED
    BY <1>1, <2>1, NoLoopKept DEF Untouched
<1>2. ASSUME NEW e \in Employees, Renamed(e)
      PROVE  NoLoop'
  <2>1. InRegister' = InRegister /\ emp'[e].manager = emp[e].manager
        /\ (\A x \in Employees : x # e => emp'[x] = emp[x]) /\ unseen' = unseen
    BY <1>2, WhoIsRenamed
  <2> QED
    BY <2>1, NoLoopKept, WhoIsRegistered
<1>3. ASSUME NEW e \in Employees, NEW p \in PayrollIds, AddPayrollId(e, p)
      PROVE  NoLoop'
  <2>1. emp' = emp /\ unseen' = unseen
    BY <1>3, WhoIsGivenId
  <2>2. InRegister' = InRegister
    BY <2>1 DEF InRegister
  <2> QED
    BY <2>1, <2>2, NoLoopKept
<1>4. ASSUME NEW h \in Handlers, NEW e \in Employees, Leaves(h, e)
      PROVE  NoLoop'
  <2>1. /\ InRegister' = InRegister \ {e}
        /\ \A x \in Employees : x # e /\ emp[x].manager # e => emp'[x] = emp[x]
        /\ \A x \in Employees : x # e /\ emp[x].manager = e => emp'[x].manager = None
        /\ unseen' = unseen
    BY <1>4, WhoLeaves
  <2> QED
    BY <2>1, NoLoopKept, WhoIsRegistered
<1> QED
  BY <1>1, <1>2, <1>3, <1>4, NoLoopJoins, NoLoopEdits, NoLoopImports DEF Moves

-----------------------------------------------------------------------------
(* What is held while an import is written *)

\* A step of anybody else while an import of b is written.
Undisturbed(b, locked) ==
    /\ batch'[b] = batch[b]
    /\ \A x \in locked : emp'[x] = emp[x]
    /\ \A x \in InRegister' \ locked : emp'[x].manager \notin locked /\ (x \in InRegister \/ x \notin Promised)
    /\ \A p \in PayrollIds : \/ owner'[p] = owner[p]
                             \/ /\ owner[p] = None /\ owner'[p] \in Employees \ locked
                                /\ owner'[p] \in InRegister \/ owner'[p] \notin Promised
    /\ unseen \subseteq unseen'

\* Somebody else's step leaves alone whoever is held, and gives them no Payroll ID.
LEMMA OthersStep ==
    ASSUME StaffTyped, NobodyDangles, OneWriter, Writes, Moves, BatchesStep, OpsStep,
           NEW h \in Handlers, op[h].kind = "writing", op'[h] = op[h]
    PROVE  Undisturbed(op[h].batch, op[h].locked)
<1>1. PICK b \in Batches : b = op[h].batch
  BY RequestFields
<1>2. PICK locked \in SUBSET Employees : locked = op[h].locked
  BY RequestFields
<1>3. /\ batch[b].at = "preview" /\ locked \subseteq InRegister
      /\ \A x \in InRegister \ locked : emp[x].manager \notin locked
  BY <1>1, <1>2 DEF Writes, Writing
<1>4. \A x \in Employees \cup {None} : ~Held(x) => x \notin locked
  BY <1>2 DEF Held
<1>5. batch'[b] = batch[b]
  <2>1. BatchMoves(b) /\ ~BatchFree(b)
    BY <1>1 DEF BatchesStep, BatchFree
  <2>2. ASSUME NEW g \in Handlers, op[g].kind = "writing", WriteImport(g)
        PROVE  FALSE
    <3>1. g = h
      BY <2>2 DEF OneWriter
    <3>2. op'[g] = Idle
      BY <2>2 DEF WriteImport, Done, Go, StaffTyped
    <3> QED
      BY <2>2, <3>1, <3>2 DEF Idle
  <2> QED
    BY <1>3, <2>1, <2>2 DEF BatchMoves
<1> DEFINE Aside ==
      /\ \A x \in locked : emp'[x] = emp[x]
      /\ \A x \in InRegister' \ locked : emp'[x].manager \notin locked /\ (x \in InRegister \/ x \notin Promised)
      /\ \A p \in PayrollIds : \/ owner'[p] = owner[p]
                               \/ /\ owner[p] = None /\ owner'[p] \in Employees \ locked
                                  /\ owner'[p] \in InRegister \/ owner'[p] \notin Promised
      /\ unseen \subseteq unseen'
<1>6. ASSUME Untouched
      PROVE  Aside
  <2>1. InRegister' = InRegister
    BY <1>6 DEF Untouched, InRegister
  <2> QED
    BY <1>3, <1>6, <2>1 DEF Untouched
<1>7. ASSUME NEW e \in Employees, Joins(e)
      PROVE  Aside
  <2>1. /\ InRegister' = InRegister \cup {e} /\ e \notin InRegister /\ e \notin Promised
        /\ emp'[e].manager \in InRegister \cup {None} /\ ~Held(emp'[e].manager)
        /\ \A x \in Employees : x # e => emp'[x] = emp[x]
        /\ \A p \in PayrollIds : owner'[p] = owner[p] \/ (owner[p] = None /\ owner'[p] = e)
        /\ unseen' = unseen
    BY <1>7, WhoJoins
  <2>2. emp'[e].manager \notin locked
    BY <1>4, <2>1, WhoIsRegistered
  <2> QED
    BY <1>3, <2>1, <2>2, WhoIsRegistered
<1>8. ASSUME NEW e \in Employees, Renamed(e)
      PROVE  Aside
  <2>1. /\ InRegister' = InRegister /\ e \in InRegister /\ ~Held(e) /\ emp'[e].manager = emp[e].manager
        /\ \A x \in Employees : x # e => emp'[x] = emp[x]
        /\ owner' = owner /\ unseen' = unseen
    BY <1>8, WhoIsRenamed
  <2> QED
    BY <1>3, <1>4, <2>1, WhoIsRegistered
<1>9. ASSUME NEW e \in Employees, NEW p \in PayrollIds, AddPayrollId(e, p)
      PROVE  Aside
  <2>1. /\ \A q \in PayrollIds : owner'[q] = owner[q] \/ (owner[q] = None /\ owner'[q] = e)
        /\ e \in InRegister /\ ~Held(e) /\ emp' = emp /\ unseen' = unseen
    BY <1>9, WhoIsGivenId
  <2>2. InRegister' = InRegister
    BY <2>1 DEF InRegister
  <2> QED
    BY <1>3, <1>4, <2>1, <2>2
<1>10. ASSUME NEW g \in Handlers, NEW e \in Employees, Leaves(g, e)
       PROVE  Aside
  <2>1. /\ InRegister' = InRegister \ {e} /\ e \in InRegister
        /\ \A x \in Employees : x # e /\ emp[x].manager # e => emp'[x] = emp[x]
        /\ \A x \in Employees : x # e /\ emp[x].manager = e => emp'[x].manager = None /\ emp'[x].at = emp[x].at
        /\ \A x \in InRegister : x = e \/ emp[x].manager = e => ~Held(x)
        /\ owner' = owner /\ unseen' = unseen
    BY <1>10, WhoLeaves
  <2>2. \A x \in locked : x # e /\ emp[x].manager # e
    BY <1>3, <1>4, <2>1
  <2>3. ASSUME NEW x \in InRegister' \ locked
        PROVE  emp'[x].manager \notin locked
    <3>1. x \in InRegister \ locked /\ x # e /\ x \in Employees
      BY <2>1, <2>3, WhoIsRegistered
    <3> QED
      BY <1>3, <2>1, <3>1, NoneIsNobody
  <2> QED
    BY <1>3, <2>1, <2>2, <2>3
<1>11. ASSUME NEW g \in Handlers, NEW e \in Employees, NEW m \in Employees \cup {None}, Edits(g, e, m)
       PROVE  Aside
  <2>1. /\ InRegister' = InRegister /\ e \in InRegister /\ ~Held(e) /\ (m # None => ~Held(m))
        /\ emp'[e].manager = m /\ \A x \in Employees : x # e => emp'[x] = emp[x]
        /\ unseen' = unseen \cup (InRegister \ op[g].seen) /\ owner' = owner
    BY <1>11, WhoIsEdited
  <2>2. m \notin locked /\ e \notin locked
    BY <1>4, <2>1, NoneIsNobody
  <2> QED
    BY <1>3, <2>1, <2>2, WhoIsRegistered
<1>12. ASSUME NEW g \in Handlers, NEW c \in Batches, Imports(g, c)
       PROVE  FALSE
  <2>1. g = h /\ op'[g] = Idle
    BY <1>12 DEF Imports, OneWriter
  <2> QED
    BY <1>12, <2>1 DEF Idle
<1> HIDE DEF Aside
<1>13. Aside
  BY <1>6, <1>7, <1>8, <1>9, <1>10, <1>11, <1>12 DEF Moves
<1> QED
  BY <1>1, <1>2, <1>5, <1>13 DEF Aside, Undisturbed

\* A Payroll ID is given away, and the import is rolled back, or all of it is as it was.
LEMMA WritableKept ==
    ASSUME NEW b \in Batches, NEW rows \in Reviewed(b), NEW locked \in SUBSET Employees,
           StaffTyped, NobodyDangles, Writing(b, rows, locked), Undisturbed(b, locked),
           Writable(b, rows, locked), ~IdTaken(b, rows)'
    PROVE  Writable(b, rows, locked)'
<1>1. /\ batch[b].at = "preview" /\ batch[b].rows = rows /\ locked \subseteq InRegister /\ Apart(b, rows)
      /\ \A i \in Selected(b, rows) :
            IF rows[i].decision = "update" THEN rows[i].target \in locked ELSE rows[i].target \notin InRegister
  BY DEF Writing
<1>2. Targets(b, rows) \subseteq Employees /\ \A i \in Selected(b, rows) : i \in Rows(b)
  BY SelectedTargets
<1>3. Targets(b, rows) \subseteq Promised
  BY <1>1 DEF Promised
<1>4. \A x \in locked : emp'[x] = emp[x] /\ x \in InRegister /\ x \in InRegister'
  <2>1. \A x \in locked : emp'[x] = emp[x] /\ x \in InRegister /\ x \in Employees
    BY <1>1 DEF Undisturbed
  <2> QED
    BY <2>1 DEF InRegister
<1>5. \A x \in Targets(b, rows) \ locked : x \notin InRegister /\ x \notin InRegister'
  <2>1. \A x \in Targets(b, rows) \ locked : x \notin InRegister
    BY <1>1 DEF Targets
  <2> QED
    BY <1>3, <2>1 DEF Undisturbed
<1>6. None \notin InRegister /\ None \notin InRegister' /\ None \notin locked
  BY NoneIsNobody DEF InRegister
<1>7. ASSUME NEW i \in Selected(b, rows), Sheet[b][i].manager # None
      PROVE  /\ owner'[Sheet[b][i].manager] = owner[Sheet[b][i].manager]
             /\ owner[Sheet[b][i].manager] \in locked \cup {None}
             /\ owner[Sheet[b][i].manager] = None =>
                   \E j \in Selected(b, rows) : Sheet[b][j].payroll = Sheet[b][i].manager
  <2>1. PICK p \in PayrollIds : p = Sheet[b][i].manager
    BY <1>2, <1>7, SheetFields
  <2>2. /\ owner[p] \in locked \cup {None}
        /\ owner[p] = None => \E j \in Selected(b, rows) : Sheet[b][j].payroll = p
    BY <1>7, <2>1 DEF Writable
  <2>3. ASSUME owner'[p] # owner[p]
        PROVE  FALSE
    <3>1. /\ owner[p] = None /\ owner'[p] \in Employees \ locked
          /\ owner'[p] \in InRegister \/ owner'[p] \notin Promised
      BY <2>3 DEF Undisturbed
    <3>2. PICK j \in Selected(b, rows) : Sheet[b][j].payroll = p
      BY <2>2, <3>1
    <3>3. owner'[p] = rows[j].target
      BY <3>1, <3>2, NoneIsNobody DEF IdTaken
    <3>4. rows[j].target \in Targets(b, rows) \ locked
      BY <3>1, <3>3 DEF Targets
    <3> QED
      BY <1>3, <1>5, <3>1, <3>3, <3>4
  <2> QED
    BY <2>1, <2>2, <2>3
<1>8. ASSUME NEW x \in locked \cup {None}
      PROVE  Record(x)' = Record(x)
  BY <1>4, <1>6 DEF Record
<1>9. ASSUME NEW x \in locked
      PROVE  IdsOf(x)' = IdsOf(x)
  <2>1. \A p \in PayrollIds : owner'[p] = x <=> owner[p] = x
    BY <1>6 DEF Undisturbed
  <2> QED
    BY <2>1 DEF IdsOf
<1>10. ASSUME NEW i \in Selected(b, rows)
       PROVE  Hash(b, i, rows[i].decision, rows[i].target)' = Hash(b, i, rows[i].decision, rows[i].target)
  <2>1. PICK d, t : d = rows[i].decision /\ t = rows[i].target
    OBVIOUS
  <2>2. d = "update" => t \in locked
    BY <1>1, <2>1
  <2>3. (IF d = "update" THEN Record(t) ELSE None)' = IF d = "update" THEN Record(t) ELSE None
    BY <1>8, <2>2
  <2>4. (IF d = "update" THEN IdsOf(t) ELSE {})' = IF d = "update" THEN IdsOf(t) ELSE {}
    BY <1>9, <2>2
  <2>5. CASE Sheet[b][i].manager = None
    <3>1. Hash(b, i, d, t)' = Hash(b, i, d, t)
      BY <2>3, <2>4, <2>5 DEF Hash
    <3> QED
      BY <2>1, <3>1
  <2>6. CASE Sheet[b][i].manager # None
    <3>1. PICK o \in locked \cup {None} : o = owner[Sheet[b][i].manager] /\ o = owner'[Sheet[b][i].manager]
      BY <1>7, <2>6
    <3>2. Record(o)' = Record(o)
      BY <1>8
    <3>3. Record(owner[Sheet[b][i].manager])' = Record(owner[Sheet[b][i].manager])
      BY <3>1, <3>2 DEF Record
    <3>4. Hash(b, i, d, t)' = Hash(b, i, d, t)
      BY <2>3, <2>4, <2>6, <3>3 DEF Hash
    <3> QED
      BY <2>1, <3>4
  <2> QED
    BY <2>5, <2>6
<1>11. ASSUME NEW i \in Selected(b, rows), Sheet[b][i].manager # None
       PROVE  ManagerOf(b, rows, i)' = ManagerOf(b, rows, i)
  <2>1. owner'[Sheet[b][i].manager] = owner[Sheet[b][i].manager]
    BY <1>7, <1>11
  <2> QED
    BY <2>1 DEF ManagerOf
<1>12. ASSUME NEW x \in locked \cup Targets(b, rows)
       PROVE  Proposed(b, rows)'[x] = Proposed(b, rows)[x]
  <2>1. x \in InRegister \cup Targets(b, rows) /\ x \in InRegister' \cup Targets(b, rows)
    BY <1>1, <1>4
  <2>2. (IF x \in InRegister THEN emp[x].manager ELSE None)' = IF x \in InRegister THEN emp[x].manager ELSE None
    BY <1>4, <1>5
  <2>3. PICK k : k = CHOOSE i \in Selected(b, rows) : rows[i].target = x
    OBVIOUS
  <2>4. CASE \E i \in Selected(b, rows) : rows[i].target = x /\ Sheet[b][i].manager # None
    <3>1. PICK i \in Selected(b, rows) : rows[i].target = x /\ Sheet[b][i].manager # None
      BY <2>4
    <3>2. k \in Selected(b, rows) /\ rows[k].target = x
      BY <2>3, <3>1
    <3>3. k = i
      BY <1>1, <3>1, <3>2 DEF Apart
    <3>4. ManagerOf(b, rows, k)' = ManagerOf(b, rows, k)
      BY <1>11, <3>1, <3>3
    <3>5. Proposed(b, rows)[x] = ManagerOf(b, rows, k)
      BY <2>1, <2>3, <2>4 DEF Proposed
    <3>6. Proposed(b, rows)'[x] = ManagerOf(b, rows, k)'
      BY <2>1, <2>3, <2>4 DEF Proposed
    <3> QED
      BY <3>4, <3>5, <3>6
  <2>5. CASE ~ \E i \in Selected(b, rows) : rows[i].target = x /\ Sheet[b][i].manager # None
    <3>1. Proposed(b, rows)[x] = IF x \in InRegister THEN emp[x].manager ELSE None
      BY <2>1, <2>5 DEF Proposed
    <3>2. Proposed(b, rows)'[x] = (IF x \in InRegister THEN emp[x].manager ELSE None)'
      BY <2>1, <2>5 DEF Proposed
    <3> QED
      BY <2>2, <3>1, <3>2
  <2> QED
    BY <2>4, <2>5
<1>13. ASSUME NEW S \in SUBSET ((locked \cup Targets(b, rows)) \ unseen'), S # {}
       PROVE  \E x \in S : Proposed(b, rows)'[x] \notin S
  <2>1. S \in SUBSET ((locked \cup Targets(b, rows)) \ unseen)
    BY <1>13 DEF Undisturbed
  <2>2. PICK x \in S : Proposed(b, rows)[x] \notin S
    BY <1>13, <2>1 DEF Writable
  <2> QED
    BY <1>12, <2>1, <2>2
<1>14. ASSUME NEW i \in Rows(b), rows[i].decision # "skip"
       PROVE  i \in Selected(b, rows) /\ Hash(b, i, rows[i].decision, rows[i].target)' = rows[i].hash
  <2>1. i \in Selected(b, rows) /\ Hash(b, i, rows[i].decision, rows[i].target) = rows[i].hash
    BY <1>14 DEF Writable
  <2> QED
    BY <1>10, <2>1
<1> QED
  BY <1>7, <1>13, <1>14 DEF Writable

LEMMA WritingKept ==
    ASSUME NEW b \in Batches, NEW rows \in Reviewed(b), NEW locked \in SUBSET Employees,
           StaffTyped, NobodyDangles, Writing(b, rows, locked), Undisturbed(b, locked)
    PROVE  Writing(b, rows, locked)'
<1>1. /\ batch[b].at = "preview" /\ batch[b].rows = rows /\ Apart(b, rows) /\ locked \subseteq InRegister
      /\ \A i \in Selected(b, rows) :
            IF rows[i].decision = "update" THEN rows[i].target \in locked ELSE rows[i].target \notin InRegister
      /\ IdTaken(b, rows) \/ Writable(b, rows, locked)
  BY DEF Writing
<1>2. Targets(b, rows) \subseteq Promised /\ \A i \in Selected(b, rows) : i \in Rows(b)
  BY <1>1, SelectedTargets DEF Promised
<1>3. locked \subseteq InRegister'
  <2>1. \A x \in locked : emp'[x] = emp[x] /\ x \in InRegister /\ x \in Employees
    BY <1>1 DEF Undisturbed
  <2> QED
    BY <2>1 DEF InRegister
<1>4. ASSUME NEW i \in Selected(b, rows), rows[i].decision # "update"
      PROVE  rows[i].target \notin InRegister'
  <2>1. rows[i].target \notin InRegister /\ rows[i].target \notin locked /\ rows[i].target \in Promised
    BY <1>1, <1>2, <1>4 DEF Targets
  <2> QED
    BY <2>1 DEF Undisturbed
<1>5. \A x \in InRegister' \ locked : emp'[x].manager \notin locked
  BY DEF Undisturbed
<1>6. ASSUME IdTaken(b, rows)
      PROVE  IdTaken(b, rows)'
  <2>1. PICK i \in Selected(b, rows) : owner[Sheet[b][i].payroll] \notin {None, rows[i].target}
    BY <1>6 DEF IdTaken
  <2>2. Sheet[b][i].payroll \in PayrollIds
    BY <1>2, SheetFields
  <2>3. owner'[Sheet[b][i].payroll] = owner[Sheet[b][i].payroll]
    BY <2>1, <2>2 DEF Undisturbed
  <2> QED
    BY <2>1, <2>3 DEF IdTaken
<1>7. IdTaken(b, rows)' \/ Writable(b, rows, locked)'
  BY <1>1, <1>6, WritableKept
<1>8. batch'[b].at = "preview" /\ batch'[b].rows = rows
  BY <1>1 DEF Undisturbed
<1> QED
  BY <1>1, <1>3, <1>4, <1>5, <1>7, <1>8 DEF Writing

\* What may be written once everybody is locked and nothing is blocked.
LEMMA LockedIsWritable ==
    ASSUME NEW b \in Batches, NEW rows \in Reviewed(b),
           StaffTyped, NobodyDangles, NoLoop, batch[b].at = "preview", batch[b].rows = rows, NothingBlocked(b, rows)
    PROVE  Writing(b, rows, InRegister)
<1>1. \A i \in Selected(b, rows) : i \in Rows(b) /\ rows[i].target \in Employees
  BY SelectedTargets
<1>2. ASSUME NEW i \in Rows(b), rows[i].decision # "skip"
      PROVE  i \in Selected(b, rows) /\ Ready(b, rows, i)
  <2>1. rows[i].decision \in Decisions
    BY DEF Reviewed, SoundRow, Row
  <2>2. Ready(b, rows, i)
    BY <1>2 DEF NothingBlocked
  <2>3. rows[i].decision # "review"
    BY <2>2 DEF Ready
  <2> QED
    BY <1>2, <2>1, <2>2, <2>3 DEF Decisions, Selected
<1>3. ASSUME NEW i \in Selected(b, rows)
      PROVE  /\ rows[i].decision = "update" <=> rows[i].target \in InRegister
             /\ \A j \in Selected(b, rows) : rows[j].target = rows[i].target => j = i
             /\ Hash(b, i, rows[i].decision, rows[i].target) = rows[i].hash
             /\ Sheet[b][i].manager # None => ManagerOf(b, rows, i) \notin {None, rows[i].target}
             /\ ~OnCycle(Proposed(b, rows), rows[i].target)
  <2>1. i \in Rows(b) /\ rows[i].decision # "skip"
    BY DEF Selected
  <2>2. Ready(b, rows, i)
    BY <1>2, <2>1
  <2> QED
    BY <2>2 DEF Ready
<1>4. Apart(b, rows)
  BY <1>3 DEF Apart
<1>5. ASSUME NEW i \in Selected(b, rows), Sheet[b][i].manager # None
      PROVE  /\ owner[Sheet[b][i].manager] \in InRegister \cup {None}
             /\ owner[Sheet[b][i].manager] = None =>
                   \E j \in Selected(b, rows) : Sheet[b][j].payroll = Sheet[b][i].manager
  <2>1. Sheet[b][i].manager \in PayrollIds /\ ManagerOf(b, rows, i) # None
    BY <1>1, <1>3, <1>5, SheetFields
  <2>2. owner[Sheet[b][i].manager] \in InRegister \cup {None}
    BY <2>1, WhoIsRegistered
  <2> QED
    BY <1>1, <1>5, <2>1, <2>2, ManagerIs
<1>6. ASSUME NEW S \in SUBSET ((InRegister \cup Targets(b, rows)) \ unseen), S # {}, \A x \in S :
             Proposed(b, rows)[x] \in S
      PROVE  FALSE
  <2>1. PICK prop : prop = Proposed(b, rows)
    OBVIOUS
  <2>2. /\ DOMAIN prop = InRegister \cup Targets(b, rows)
        /\ \A e \in InRegister \ Targets(b, rows) : prop[e] = emp[e].manager
    BY <1>4, <2>1, ProposedIs
  <2>3. S \subseteq Employees /\ Loops(prop, S)
    <3>1. Targets(b, rows) \subseteq Employees /\ InRegister \subseteq Employees
      BY SelectedTargets, WhoIsRegistered
    <3> QED
      BY <1>6, <2>1, <2>2, <3>1 DEF Loops
  <2>4. PICK C : Loops(prop, C) /\ C \subseteq S /\ \A t \in C : OnCycle(prop, t)
    BY <2>3, LoopCycles DEF StaffTyped
  <2>5. \A t \in Targets(b, rows) : t \notin C
    BY <1>3, <2>1, <2>4 DEF Targets
  <2>6. C \in SUBSET (InRegister \ unseen) /\ C # {} /\ \A x \in C : x \in InRegister \ Targets(b, rows)
    BY <1>6, <2>4, <2>5 DEF Loops
  <2>7. PICK x \in C : emp[x].manager \notin C
    BY <2>6 DEF NoLoop
  <2>8. prop[x] \in C /\ prop[x] = emp[x].manager
    BY <2>2, <2>4, <2>6 DEF Loops
  <2> QED
    BY <2>7, <2>8
<1>7. Writable(b, rows, InRegister)
  BY <1>2, <1>3, <1>5, <1>6 DEF Writable
<1> QED
  BY <1>3, <1>4, <1>7 DEF Writing

LEMMA WritesStep ==
    ASSUME StaffTyped, NobodyDangles, NoLoop, ReadAsWas, OneWriter, Writes, [RegisterNext]_registerVars
    PROVE  Writes'
<1>1. Moves /\ BatchesStep /\ OpsStep
  BY StepMoves, BatchStep, OpStep
<1> SUFFICES ASSUME NEW h \in Handlers, op'[h].kind = "writing"
             PROVE  Writing(op[h].batch, op[h].shown, op[h].locked)'
  BY DEF Writes
<1>2. CASE op'[h] = op[h]
  <2>1. PICK b \in Batches : b = op[h].batch
    BY <1>2, RequestFields
  <2>2. PICK rows \in Reviewed(b) : rows = op[h].shown
    BY <1>2, <2>1, RequestFields
  <2>3. PICK locked \in SUBSET Employees : locked = op[h].locked
    BY <1>2, RequestFields
  <2>4. Writing(b, rows, locked)
    BY <1>2, <2>1, <2>2, <2>3 DEF Writes
  <2>5. Undisturbed(b, locked)
    BY <1>1, <1>2, <2>1, <2>3, OthersStep
  <2>6. Writing(b, rows, locked)'
    BY <2>4, <2>5, WritingKept
  <2>7. b = op'[h].batch /\ rows = op'[h].shown /\ locked = op'[h].locked
    BY <1>2, <2>1, <2>2, <2>3
  <2> QED
    BY <2>6, <2>7
<1>3. ASSUME NEW b \in Batches, Locks(h, b)
      PROVE  Writing(op[h].batch, op[h].shown, op[h].locked)'
  <2>1. /\ op[h].kind = "shown" /\ b = op[h].batch
        /\ batch[b].at = "preview" /\ batch[b].rev = op[h].rev /\ NothingBlocked(b, batch[b].rows)
        /\ UNCHANGED <<emp, owner, batch, unseen>>
    BY <1>3 DEF Locks
  <2>2. PICK rows \in Reviewed(b) : rows = batch[b].rows
    BY <2>1, BatchFields
  <2>3. op[h].shown = rows
    BY <2>1, <2>2 DEF ReadAsWas
  <2>4. PICK locked \in SUBSET Employees : locked = InRegister
    BY DEF InRegister
  <2>5. Writing(b, rows, locked)
    BY <2>1, <2>2, <2>4, LockedIsWritable
  <2>6. Undisturbed(b, locked)
    <3>1. InRegister' = InRegister
      BY <2>1 DEF InRegister
    <3> QED
      BY <2>1, <2>4, <3>1 DEF Undisturbed
  <2>7. Writing(b, rows, locked)'
    BY <2>5, <2>6, WritingKept
  <2>8. op'[h].batch = b /\ op'[h].shown = rows /\ op'[h].locked = locked
    <3>1. op'[h] = [kind |-> "writing", batch |-> b, shown |-> op[h].shown, locked |-> InRegister]
      BY <1>3 DEF Locks
    <3> QED
      BY <2>3, <2>4, <3>1
  <2> QED
    BY <2>7, <2>8
<1>4. op'[h] = op[h] \/ \E b \in Batches : Locks(h, b)
  BY <1>1 DEF OpsStep, RequestMoves
<1> QED
  BY <1>2, <1>3, <1>4

-----------------------------------------------------------------------------
(* StaffRecords: the inductive invariant is one *)

LEMMA StaffInit == RegisterInit => StaffInv
<1> SUFFICES ASSUME RegisterInit PROVE StaffInv
  OBVIOUS
<1>1. Nobody \in Person /\ Nobody.at = "unused"
  BY DEF Nobody, Person
<1>2. ASSUME NEW e \in Employees
      PROVE  /\ emp[e] \in Person /\ emp[e].manager = None /\ (emp[e].at = "live" <=> e \in FirstStaff)
  <2>1. CASE e \in FirstStaff
    <3>1. PICK n \in Names : n = FirstName[e]
      BY <2>1, RegisterAssumption
    <3>2. emp[e] = [at |-> "live", name |-> n, manager |-> None]
      BY <2>1, <3>1 DEF RegisterInit
    <3> QED
      BY <2>1, <3>2 DEF Person
  <2>2. CASE e \notin FirstStaff
    <3>1. emp[e] = Nobody
      BY <2>2 DEF RegisterInit
    <3> QED
      BY <1>1, <2>2, <3>1 DEF Nobody
  <2> QED
    BY <2>1, <2>2
<1>3. emp \in [Employees -> Person] /\ InRegister = FirstStaff
  BY <1>2, RegisterAssumption DEF RegisterInit, InRegister
<1>4. ASSUME NEW p \in PayrollIds
      PROVE  owner[p] \in FirstStaff \cup {None}
  <2>1. CASE \E e \in FirstStaff : FirstId[e] = p
    <3>1. PICK e \in FirstStaff : e = CHOOSE x \in FirstStaff : FirstId[x] = p
      BY <2>1
    <3> QED
      BY <2>1, <3>1 DEF RegisterInit
  <2>2. CASE ~ \E e \in FirstStaff : FirstId[e] = p
    BY <2>2 DEF RegisterInit
  <2> QED
    BY <2>1, <2>2
<1>5. owner \in [PayrollIds -> Employees \cup {None}]
  BY <1>4, RegisterAssumption DEF RegisterInit
<1>6. /\ batch = [b \in Batches |-> batch[b]] /\ \A b \in Batches : BatchTyped(b, batch[b])
  BY DEF RegisterInit, BatchTyped
<1>7. /\ op = [h \in Handlers |-> op[h]] /\ \A h \in Handlers : OpTyped(op[h]) /\ op[h].kind = "idle"
  BY DEF RegisterInit, OpTyped, Idle
<1>8. unseen \subseteq Employees /\ changes \in 0..MaxChanges
  <2>1. MaxChanges \in Nat
    BY RegisterAssumption
  <2> QED
    BY <2>1 DEF RegisterInit
<1>9. StaffTyped
  BY <1>3, <1>5, <1>6, <1>7, <1>8 DEF StaffTyped
<1>10. NobodyDangles
  BY <1>2, <1>3, <1>4, RegisterAssumption DEF NobodyDangles
<1>11. NoLoop
  <2>1. ASSUME NEW S \in SUBSET (InRegister \ unseen), S # {}
        PROVE  \E x \in S : emp[x].manager \notin S
    BY <1>2, <2>1, <1>9, NoneIsNobody DEF InRegister
  <2> QED
    BY <2>1 DEF NoLoop
<1>12. ReadAsWas /\ OneWriter /\ Writes
  BY <1>7 DEF ReadAsWas, OneWriter, Writes
<1> QED
  BY <1>9, <1>10, <1>11, <1>12 DEF StaffInv

LEMMA StaffStep ==
    ASSUME StaffInv, [RegisterNext]_registerVars
    PROVE  StaffInv'
<1>1. StaffTyped /\ NobodyDangles /\ NoLoop /\ ReadAsWas /\ OneWriter /\ Writes
  BY DEF StaffInv
<1>2. Moves
  BY <1>1, StepMoves
<1>3. StaffTyped' /\ NobodyDangles'
  BY <1>1, <1>2, TypedStep, RegisterStep
<1>4. NoLoop' /\ ReadAsWas' /\ OneWriter' /\ Writes'
  BY <1>1, <1>2, NoLoopStep, ReadStep, WriterStep, WritesStep
<1> QED
  BY <1>3, <1>4 DEF StaffInv

LEMMA StaffAlways == RegisterSpec => []StaffInv
<1>1. RegisterInit => StaffInv
  BY StaffInit
<1>2. StaffInv /\ [RegisterNext]_registerVars => StaffInv'
  BY StaffStep
<1> QED
  BY <1>1, <1>2, PTL DEF RegisterSpec

\* A circle is a loop of people, one of whom came while an edit waited for them.
LEMMA CirclesAreNewcomers ==
    ASSUME StaffInv
    PROVE  CirclesNeedNewcomers
<1> SUFFICES ASSUME NEW e \in InRegister, OnCycle(Managers, e)
             PROVE  \E n \in 1..Cardinality(Employees) : Line(Managers, e)[n] \in unseen
  BY DEF CirclesNeedNewcomers
<1>1. StaffTyped /\ NobodyDangles /\ NoLoop
  BY DEF StaffInv
<1>2. PICK mgr : mgr = Managers
  OBVIOUS
<1>3. DOMAIN mgr = InRegister /\ \A x \in InRegister : mgr[x] = emp[x].manager
  BY <1>2 DEF Managers
<1>4. PICK x : x = e
  OBVIOUS
<1>5. PICK S : Loops(mgr, S) /\ \A y \in S : \E n \in 1..Cardinality(Employees) : Line(mgr, x)[n] = y
  <2>1. OnCycle(mgr, x)
    BY <1>2, <1>4
  <2>2. x \in DOMAIN mgr /\ None \notin DOMAIN mgr
    BY <1>1, <1>3, <1>4, WhoIsRegistered DEF StaffTyped
  <2> QED
    BY <2>1, <2>2, CycleLoops
<1>6. PICK y \in S : y \in unseen
  BY <1>1, <1>3, <1>5 DEF Loops, NoLoop
<1> QED
  BY <1>2, <1>4, <1>5, <1>6

LEMMA StaffTypeOK ==
    ASSUME StaffTyped
    PROVE  RegisterTypes
<1>1. ASSUME NEW b \in Batches, batch[b].at # "none"
      PROVE  /\ batch[b].at \in {"preview", "applied"} /\ batch[b].rev \in Nat
             /\ DOMAIN batch[b].rows = Rows(b) /\ \A i \in Rows(b) : batch[b].rows[i] \in Row
  <2>1. /\ batch[b] \in [at: {"preview", "applied"}, rev: Nat, rows: Reviewed(b)]
        /\ batch[b].rows \in Reviewed(b)
    BY <1>1, BatchFields
  <2> QED
    BY <2>1 DEF Reviewed, SoundRow
<1>2. \A h \in Handlers : op[h].kind = "writing" => op[h].locked \subseteq Employees
  BY RequestFields
<1> QED
  BY <1>1, <1>2 DEF StaffTyped, RegisterTypes

-----------------------------------------------------------------------------
(* StaffRecords: what is proved *)

\* Payroll IDs and managers are people in the register, through every deletion and every import
\* (employeeManagement.js, payrollEmployeeImport.js, hr.js), and reporting lines run in a circle
\* only through somebody who joined while an edit of the line was waiting for its locks.
THEOREM RegisterAlways == RegisterSpec => []RegisterInv
<1>1. StaffInv => RegisterInv
  BY StaffTypeOK, CirclesAreNewcomers DEF StaffInv, RegisterInv
<1> QED
  BY <1>1, StaffAlways, PTL

\* An import writes the decisions its applier was shown, for employees, managers and Payroll IDs
\* that are as they were reviewed: what was shown and read again under the locks is still so when
\* it is written (applyPayrollImport).
THEOREM ImportsWriteWhatWasShown == RegisterSpec => AppliedAsShown
<1>1. ASSUME StaffInv, [RegisterNext]_registerVars, NEW h \in Handlers, NEW b \in Batches,
             batch[b].at = "preview", batch'[b].at = "applied", op[h].kind = "writing", op[h].batch = b,
             NEW i \in Rows(b)
      PROVE  /\ batch[b].rows[i] = op[h].shown[i]
             /\ batch[b].rows[i].decision # "skip" =>
                   Hash(b, i, batch[b].rows[i].decision, batch[b].rows[i].target) = batch[b].rows[i].hash
  <2>1. StaffTyped /\ Writes
    BY <1>1 DEF StaffInv
  <2>2. ~IdTaken(b, batch[b].rows)
    <3>1. BatchMoves(b)
      BY <1>1, <2>1, BatchStep DEF BatchesStep
    <3> QED
      BY <1>1, <3>1 DEF BatchMoves
  <2>3. PICK rows \in Reviewed(b) : rows = batch[b].rows
    BY <1>1, <2>1, BatchFields
  <2>4. op[h].shown = rows /\ Writable(b, rows, op[h].locked)
    BY <1>1, <2>1, <2>2, <2>3 DEF Writes, Writing
  <2> QED
    BY <2>3, <2>4 DEF Writable
<1>2. ASSUME StaffInv, [RegisterNext]_registerVars
      PROVE  \A h \in Handlers : \A b \in Batches :
                batch[b].at = "preview" /\ batch'[b].at = "applied" /\ op[h].kind = "writing" /\ op[h].batch = b =>
                    \A i \in Rows(b) :
                        LET row == batch[b].rows[i] IN
                            /\ row = op[h].shown[i]
                            /\ row.decision # "skip" => Hash(b, i, row.decision, row.target) = row.hash
  BY <1>1, <1>2
<1>3. StaffInv /\ [RegisterNext]_registerVars =>
        [\A h \in Handlers : \A b \in Batches :
            batch[b].at = "preview" /\ batch'[b].at = "applied" /\ op[h].kind = "writing" /\ op[h].batch = b =>
                \A i \in Rows(b) :
                    LET row == batch[b].rows[i] IN
                        /\ row = op[h].shown[i]
                        /\ row.decision # "skip" => Hash(b, i, row.decision, row.target) = row.hash]_registerVars
  BY <1>2
<1> QED
  BY <1>3, StaffAlways, PTL DEF RegisterSpec, AppliedAsShown

\* A Payroll ID that is an employee's stays that employee's, whatever is imported, entered,
\* edited or deleted.
THEOREM IdsStay == RegisterSpec => PayrollIdsStay
<1>1. ASSUME StaffInv, [RegisterNext]_registerVars
      PROVE  \A p \in PayrollIds : owner[p] # None => owner'[p] = owner[p]
  BY <1>1, StepMoves, RegisterStep DEF StaffInv
<1>2. StaffInv /\ [RegisterNext]_registerVars => [\A p \in PayrollIds : owner[p] # None =>
      owner'[p] = owner[p]]_registerVars
  BY <1>1
<1> QED
  BY <1>2, StaffAlways, PTL DEF RegisterSpec, PayrollIdsStay

=============================================================================
