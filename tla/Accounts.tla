------------------------------ MODULE Accounts ------------------------------
(***************************************************************************)
(* Accounts and the people they belong to: sign-up requests, what portal   *)
(* administrators do to accounts (routes/admin.js, services/               *)
(* accountEmail.js), the link between an employee record and a login       *)
(* (services/employeeDirectory.js, routes/hr.js), and the activation links *)
(* of employee-only accounts (services/employeeOnboarding.js).             *)
(*                                                                         *)
(* The identity services lock the employee, then the account, and decide   *)
(* from what they read under those locks: each is one step here.  The      *)
(* older handlers read first and write later, some of them in several      *)
(* statements that commit one by one; each of their statements is a step.  *)
(*                                                                         *)
(* Every employee has a verified department.  A cohort for onboarding is   *)
(* one employee.                                                           *)
(***************************************************************************)
EXTENDS StaffRequests, FiniteSets

CONSTANTS
    Ids,            \* reviewers.id
    Addresses,      \* e-mail addresses
    Tokens,         \* hr_account_tokens.id
    FirstAdmins,    \* accounts that exist at the start, all of them administrators
    FirstAddress    \* their addresses

ASSUME NoneAssumption == None \notin Ids \cup Employees \cup Addresses \cup Tokens
ASSUME FirstAssumption == FirstAdmins \subseteq Ids /\ FirstAddress \in [FirstAdmins -> Addresses]
ASSUME BoundsAssumption == MaxChanges \in Nat

VARIABLES
    account,        \* reviewers
    employee,       \* hr_employees, with the number of verified Payroll IDs
    signup,         \* signup_requests.status of an address, or "none"
    token,          \* hr_account_tokens
    cohort,         \* the onboarding preview, with the employee's facts as it showed them
    offboardings    \* how often each account was offboarded

vars == <<account, employee, signup, token, cohort, op, offboardings, changes>>

-----------------------------------------------------------------------------
Contact == Addresses \cup {None}
Account == [at: {"unused", "live", "deleted"}, active: BOOLEAN, admin: BOOLEAN,
            kind: {"staff", "employee"}, state: {"ready", "pending", "offboarded"},
            email: Contact, alias: Employees \cup {None}, for: Contact, granted: BOOLEAN]
Employee == [active: BOOLEAN, login: Ids \cup {None}, email: Contact, payrollIds: 0..2]
Token == [at: {"unused", "open", "consumed", "revoked", "expired"}, account: Ids \cup {None},
          employee: Employees \cup {None}, purpose: {"activation", "recovery"}, round: Nat]
NoToken == [at |-> "unused", account |-> None, employee |-> None, purpose |-> "activation", round |-> 0]
Unused == [at |-> "unused", active |-> FALSE, admin |-> FALSE, kind |-> "staff", state |-> "ready",
           email |-> None, alias |-> None, for |-> None, granted |-> FALSE]
NoCohort == [at |-> "none"]
Cohort == {NoCohort}
          \cup [at: {"preview", "applied"}, mode: {"email", "payroll"}, employee: Employees, facts: Employee,
                decision: {"retain", "create", "link", "skip", "blocked"}, account: Ids \cup {None}]
Op == {Idle}
      \cup [kind: {"signing"}, address: Addresses, known: BOOLEAN]
      \cup [kind: {"rejecting", "creating"}, address: Addresses]
      \cup [kind: {"granting", "marking"}, address: Addresses, account: Ids]
      \cup [kind: {"deleting"}, account: Ids]
      \cup [kind: {"assigning"}, account: Ids, employee: Employees \cup {None},
            was: Employees \cup {None}, had: Ids \cup {None}]
      \cup [kind: {"linking"}, account: Ids, employee: Employees, email: Contact]
      \cup [kind: {"activating"}, token: Tokens]

Live == {a \in Ids : account[a].at = "live"}
Admins == {a \in Live : account[a].admin}
Actors == {a \in Admins : account[a].active}
Taken(m) == \E a \in Live : account[a].email = m
LoginOf(e) == employee[e].login
Owner(a) == {e \in Employees : LoginOf(e) = a}

\* The links of these accounts that were not used yet stop working.
Revoke(as, t) ==
    [k \in Tokens |-> IF t[k].at = "open" /\ t[k].account \in as THEN [t[k] EXCEPT !.at = "revoked"] ELSE t[k]]

Init ==
    /\ account = [a \in Ids |->
            IF a \in FirstAdmins
            THEN [Unused EXCEPT !.at = "live", !.active = TRUE, !.admin = TRUE, !.email = FirstAddress[a]]
            ELSE Unused]
    /\ employee = [e \in Employees |-> [active |-> TRUE, login |-> None, email |-> None, payrollIds |-> 1]]
    /\ signup = [m \in Addresses |-> "none"]
    /\ token = [t \in Tokens |-> NoToken]
    /\ cohort = NoCohort
    /\ op = [h \in Handlers |-> Idle]
    /\ offboardings = [a \in Ids |-> 0]
    /\ changes = 0

-----------------------------------------------------------------------------
(* POST /signup, and its approval or rejection *)

ReadForSignup(h, m) ==
    /\ op[h] = Idle /\ Change
    /\ ~Taken(m) /\ signup[m] # "pending"
    /\ Go(h, [kind |-> "signing", address |-> m, known |-> signup[m] # "none"])
    /\ UNCHANGED <<account, employee, signup, token, cohort, offboardings>>

\* A known address is updated; a new one is inserted, unless somebody else was first.
WriteSignup(h) ==
    /\ op[h].kind = "signing"
    /\ LET m == op[h].address IN
        signup' = [signup EXCEPT ![m] = IF op[h].known \/ @ = "none" THEN "pending" ELSE @]
    /\ Done(h)
    /\ UNCHANGED <<account, employee, token, cohort, offboardings, changes>>

ReadForReject(h, m) ==
    /\ op[h] = Idle /\ Change
    /\ signup[m] = "pending"
    /\ Go(h, [kind |-> "rejecting", address |-> m])
    /\ UNCHANGED <<account, employee, signup, token, cohort, offboardings>>

WriteReject(h) ==
    /\ op[h].kind = "rejecting"
    /\ signup' = [signup EXCEPT ![op[h].address] = "rejected"]
    /\ Done(h)
    /\ UNCHANGED <<account, employee, token, cohort, offboardings, changes>>

ReadForApprove(h, m) ==
    /\ op[h] = Idle /\ Change
    /\ signup[m] = "pending"
    /\ Go(h, [kind |-> "creating", address |-> m])
    /\ UNCHANGED <<account, employee, signup, token, cohort, offboardings>>

\* The account, its capabilities and the request's status are written one after the other.
InsertAccount(h, a) ==
    /\ op[h].kind = "creating" /\ account[a].at = "unused"
    /\ LET m == op[h].address IN
        IF Taken(m) THEN Done(h) /\ UNCHANGED account
        ELSE /\ account' = [account EXCEPT ![a] = [@ EXCEPT !.at = "live", !.active = TRUE, !.email = m, !.for = m]]
             /\ Go(h, [kind |-> "granting", address |-> m, account |-> a])
    /\ UNCHANGED <<employee, signup, token, cohort, offboardings, changes>>

\* An account that was deleted meanwhile cannot be granted anything.
GrantFaulty(h) ==
    /\ op[h].kind = "granting"
    /\ Go(h, [op[h] EXCEPT !.kind = "marking"])
    /\ UNCHANGED <<account, employee, signup, token, cohort, offboardings, changes>>

Grant(h) ==
    /\ op[h].kind = "granting"
    /\ IF op[h].account \in Live
       THEN /\ account' = [account EXCEPT ![op[h].account].granted = TRUE]
            /\ Go(h, [op[h] EXCEPT !.kind = "marking"])
       ELSE Done(h) /\ UNCHANGED account
    /\ UNCHANGED <<employee, signup, token, cohort, offboardings, changes>>

MarkApproved(h) ==
    /\ op[h].kind = "marking"
    /\ signup' = [signup EXCEPT ![op[h].address] = "approved"]
    /\ Done(h)
    /\ UNCHANGED <<account, employee, token, cohort, offboardings, changes>>

-----------------------------------------------------------------------------
(* /reviewers: creation, status and role, the sign-in address, deletion *)

CreateAccount(a, m, admin) ==
    /\ Change
    /\ account[a].at = "unused" /\ ~Taken(m)
    /\ account' = [account EXCEPT ![a] = [@ EXCEPT !.at = "live", !.active = TRUE, !.admin = admin,
                                                   !.email = m, !.granted = TRUE]]
    /\ UNCHANGED <<employee, signup, token, cohort, op, offboardings>>

\* An active administrator is demoted or deactivated only beside another one; those who do
\* it wait for each other.
UpdateAccount(a, active, admin) ==
    /\ Change
    /\ a \in Live
    /\ account[a].kind = "employee" => ~admin
    /\ (a \in Actors /\ ~(active /\ admin)) => Actors # {a}
    /\ account' = [account EXCEPT ![a] = [@ EXCEPT !.active = active, !.admin = admin]]
    /\ UNCHANGED <<employee, signup, token, cohort, op, offboardings>>

ChangeEmail(a, m) ==
    /\ Change
    /\ a \in Live /\ account[a].email # m
    /\ ~Taken(m) /\ signup[m] # "pending"
    /\ account' = [account EXCEPT ![a].email = m]
    /\ employee' = [e \in Employees |-> IF LoginOf(e) = a THEN [employee[e] EXCEPT !.email = m] ELSE employee[e]]
    /\ token' = Revoke({a}, token)
    /\ UNCHANGED <<signup, cohort, op, offboardings>>

\* Any administrator counts as another one, and nothing is locked until the row goes.
ReadForDelete(h, by, a) ==
    /\ op[h] = Idle /\ Change
    /\ by \in Actors /\ a \in Live \ {by}
    /\ a \in Admins => Cardinality(Admins) > 1
    /\ Go(h, [kind |-> "deleting", account |-> a])
    /\ UNCHANGED <<account, employee, signup, token, cohort, offboardings>>

\* A row of an onboarding cohort keeps its account.
WriteDelete(h) ==
    /\ op[h].kind = "deleting"
    /\ LET a == op[h].account IN
        IF cohort.at # "none" /\ cohort.account = a
        THEN UNCHANGED <<account, employee, token>>
        ELSE /\ account' = [account EXCEPT ![a].at = "deleted"]
             /\ employee' = [e \in Employees |-> IF LoginOf(e) = a THEN [employee[e] EXCEPT !.login = None]
                                                 ELSE employee[e]]
             /\ token' = [t \in Tokens |-> IF token[t].account = a /\ token[t].at = "open"
                                           THEN [token[t] EXCEPT !.at = "revoked"] ELSE token[t]]
    /\ Done(h)
    /\ UNCHANGED <<signup, cohort, offboardings, changes>>

-----------------------------------------------------------------------------
(* setEmployeeAccount, and the requests that call it *)

MayLink(e, a) ==
    a # None => account[a].at = "live" /\ account[a].active /\ employee[e].active /\ Owner(a) \subseteq {e}

\* The contact address follows the login, and both logins lose their links.
Linked(e, a, accts, emps) ==
    [emps EXCEPT ![e] = [@ EXCEPT !.login = a, !.email = IF a = None THEN None ELSE accts[a].email]]
UnlinksFaulty(e, a) == {a} \ {None}

Unlinks(e, a) == {LoginOf(e), a} \ {None}
Link(e, a) ==
    IF LoginOf(e) = a THEN UNCHANGED <<employee, token>>
    ELSE employee' = Linked(e, a, account, employee) /\ token' = Revoke(Unlinks(e, a), token)

SetLink(e, a) ==
    /\ Change
    /\ MayLink(e, a)
    /\ Link(e, a)
    /\ UNCHANGED <<account, signup, cohort, op, offboardings>>

\* The account page is opened, and the form sent: assignAccountEmployee moves the login.
OpenAssignment(h, a, e) ==
    /\ op[h] = Idle /\ Change
    /\ a \in Live
    /\ Go(h, [kind |-> "assigning", account |-> a, employee |-> e, had |-> IF e = None THEN None ELSE LoginOf(e),
              was |-> IF Owner(a) = {} THEN None ELSE CHOOSE x \in Owner(a) : TRUE])
    /\ UNCHANGED <<account, employee, signup, token, cohort, offboardings>>

SendAssignment(h) ==
    /\ op[h].kind = "assigning"
    /\ LET a == op[h].account
           e == op[h].employee
           was == op[h].was
           freed == IF was \in {None, e} THEN employee ELSE Linked(was, None, account, employee)
       IN IF /\ a \in Live
             /\ Owner(a) = {was} \ {None}
             /\ e # None => LoginOf(e) = op[h].had /\ account[a].active /\ employee[e].active
          THEN /\ employee' = IF e \in {None, was} THEN freed ELSE Linked(e, a, account, freed)
               /\ token' = IF e = was THEN token
                           ELSE Revoke(({a} \cup IF e = None THEN {} ELSE Unlinks(e, a)), token)
          ELSE UNCHANGED <<employee, token>>
    /\ Done(h)
    /\ UNCHANGED <<account, signup, cohort, offboardings, changes>>

\* PUT /hr/employees/:id reads the address before the transaction that links the login.
ReadForLink(h, e, a) ==
    /\ op[h] = Idle /\ Change
    /\ a \in Live
    /\ Go(h, [kind |-> "linking", account |-> a, employee |-> e, email |-> account[a].email])
    /\ UNCHANGED <<account, employee, signup, token, cohort, offboardings>>

WriteLink(h) ==
    /\ op[h].kind = "linking"
    /\ LET e == op[h].employee
           a == op[h].account
       IN IF MayLink(e, a)
          THEN /\ employee' = [employee EXCEPT ![e] = [@ EXCEPT !.login = a, !.email = op[h].email]]
               /\ token' = IF LoginOf(e) = a THEN token ELSE Revoke(Unlinks(e, a), token)
          ELSE UNCHANGED <<employee, token>>
    /\ Done(h)
    /\ UNCHANGED <<account, signup, cohort, offboardings, changes>>

\* provisionEmployeeAccount: a new account with a temporary password, linked at once.
Provision(e, a, m) ==
    /\ Change
    /\ employee[e].active /\ LoginOf(e) = None /\ employee[e].payrollIds > 0
    /\ account[a].at = "unused" /\ ~Taken(m)
    /\ account' = [account EXCEPT ![a] = [@ EXCEPT !.at = "live", !.active = TRUE, !.kind = "employee",
                                                   !.email = m, !.granted = TRUE]]
    /\ employee' = [employee EXCEPT ![e] = [@ EXCEPT !.login = a, !.email = m]]
    /\ UNCHANGED <<signup, token, cohort, op, offboardings>>

\* addEmployeeExternalId, and updateManagedEmployee: a linked employee's address stays.
VerifyPayrollId(e) ==
    /\ Change
    /\ employee[e].payrollIds < 2
    /\ employee' = [employee EXCEPT ![e].payrollIds = @ + 1]
    /\ UNCHANGED <<account, signup, token, cohort, op, offboardings>>

UpdateDetails(e, active, m) ==
    /\ Change
    /\ LoginOf(e) # None => m = employee[e].email
    /\ employee' = [employee EXCEPT ![e] = [@ EXCEPT !.active = active, !.email = m]]
    /\ UNCHANGED <<account, signup, token, cohort, op, offboardings>>

-----------------------------------------------------------------------------
(* Onboarding *)

\* Whether an account would be created, as the preview and the application both decide it.
Readiness(e, mode) ==
    LET m == employee[e].email IN
    CASE ~employee[e].active \/ employee[e].payrollIds # 1 -> "blocked"
      [] employee[e].active /\ employee[e].payrollIds = 1 /\ LoginOf(e) # None -> "retain"
      [] employee[e].active /\ employee[e].payrollIds = 1 /\ LoginOf(e) = None ->
            IF \/ mode = "email" /\ m = None
               \/ m # None /\ Taken(m)
               \/ mode = "payroll" /\ \E a \in Live : account[a].alias = e
            THEN "blocked" ELSE "create"

Preview(e, mode) ==
    /\ Change
    /\ cohort' = [at |-> "preview", mode |-> mode, employee |-> e, facts |-> employee[e],
                  decision |-> Readiness(e, mode),
                  account |-> IF Readiness(e, mode) = "retain" THEN LoginOf(e) ELSE None]
    /\ UNCHANGED <<account, employee, signup, token, op, offboardings>>

Reconcile(decision, a) ==
    /\ Change
    /\ cohort.at = "preview" /\ cohort.decision # "retain"
    /\ IF decision = "link"
       THEN /\ a \in Live /\ account[a].active /\ account[a].state = "ready" /\ Owner(a) = {}
            /\ cohort.facts.active /\ cohort.facts.payrollIds = 1
       ELSE a = None
    /\ cohort' = [cohort EXCEPT !.decision = decision, !.account = a]
    /\ UNCHANGED <<account, employee, signup, token, op, offboardings>>

\* Nothing is applied when the employee's facts have changed since the preview.
StillAsShownFaulty(facts, e) == facts.active = employee[e].active /\ facts.email = employee[e].email

StillAsShown(facts, e) == facts = employee[e]

Apply(a) ==
    /\ Change
    /\ cohort.at = "preview"
    /\ LET e == cohort.employee IN
        /\ cohort.decision # "skip" => StillAsShown(cohort.facts, e)
        /\ \/ /\ cohort.decision \in {"skip", "retain"} /\ a = None
              /\ UNCHANGED <<account, employee, token>>
           \/ /\ cohort.decision = "link" /\ a = cohort.account
              /\ account[a].state = "ready" /\ MayLink(e, a)
              /\ Link(e, a)
              /\ UNCHANGED account
           \/ /\ cohort.decision = "create" /\ Readiness(e, cohort.mode) = "create"
              /\ a # None /\ account[a].at = "unused"
              /\ account' = [account EXCEPT ![a] = [@ EXCEPT !.at = "live", !.kind = "employee", !.state = "pending",
                        !.email = employee[e].email, !.granted = TRUE,
                        !.alias = IF cohort.mode = "payroll" THEN e ELSE None]]
              /\ employee' = [employee EXCEPT ![e].login = a]
              /\ UNCHANGED token
        /\ cohort' = [cohort EXCEPT !.at = "applied", !.account = IF cohort.decision = "create" THEN a ELSE @]
    /\ UNCHANGED <<signup, op, offboardings>>

-----------------------------------------------------------------------------
(* Activation links *)

IssueLink(e, t, purpose) ==
    /\ Change
    /\ token[t].at = "unused"
    /\ employee[e].active /\ LoginOf(e) # None /\ employee[e].payrollIds = 1
    /\ LET a == LoginOf(e)
           ready == account[a].active /\ account[a].state = "ready"
       IN /\ account[a].kind = "employee"
          /\ (purpose = "recovery") = ready
          /\ token' = [Revoke({a}, token) EXCEPT ![t] =
                [at |-> "open", account |-> a, employee |-> e, purpose |-> purpose, round |-> offboardings[a]]]
          /\ account' = IF ready THEN account
                        ELSE [account EXCEPT ![a] = [@ EXCEPT !.active = FALSE, !.state = "pending"]]
    /\ UNCHANGED <<employee, signup, cohort, op, offboardings>>

ExpireLink(t) ==
    /\ token[t].at = "open"
    /\ token' = [token EXCEPT ![t].at = "expired"]
    /\ UNCHANGED <<account, employee, signup, cohort, op, offboardings, changes>>

\* The link is looked up, the password hashed, and the link looked at again under locks.
ReadForActivate(h, t) ==
    /\ op[h] = Idle /\ Change
    /\ token[t].at = "open"
    /\ Go(h, [kind |-> "activating", token |-> t])
    /\ UNCHANGED <<account, employee, signup, token, cohort, offboardings>>

ValidFaulty(t) == token[t].at # "expired"

Valid(t) ==
    LET a == token[t].account
        e == token[t].employee
    IN /\ token[t].at = "open"
       /\ a \in Live /\ employee[e].active /\ LoginOf(e) = a /\ account[a].kind = "employee"
       /\ employee[e].payrollIds = 1
       /\ IF token[t].purpose = "recovery" THEN account[a].active /\ account[a].state = "ready"
          ELSE account[a].state = "pending"

WriteActivate(h) ==
    /\ op[h].kind = "activating"
    /\ LET t == op[h].token IN
        IF Valid(t)
        THEN /\ account' = [account EXCEPT ![token[t].account] = [@ EXCEPT !.active = TRUE, !.state = "ready"]]
             /\ token' = Revoke({token[t].account}, [token EXCEPT ![t].at = "consumed"])
        ELSE UNCHANGED <<account, token>>
    /\ Done(h)
    /\ UNCHANGED <<employee, signup, cohort, offboardings, changes>>

\* offboardEmployee, by another identity; staff accounts by portal administrators.
Offboard(e) ==
    /\ Change
    /\ LET a == LoginOf(e) IN
        /\ account' = IF a = None THEN account
                      ELSE [account EXCEPT ![a] = [@ EXCEPT !.active = FALSE, !.state = "offboarded"]]
        /\ token' = Revoke({a}, token)
        /\ offboardings' = IF a = None THEN offboardings ELSE [offboardings EXCEPT ![a] = @ + 1]
    /\ employee' = [employee EXCEPT ![e].active = FALSE]
    /\ UNCHANGED <<signup, cohort, op>>

Restore(e) ==
    /\ Change
    /\ ~employee[e].active
    /\ employee' = [employee EXCEPT ![e].active = TRUE]
    /\ UNCHANGED <<account, signup, token, cohort, op, offboardings>>

RevokeLinks(e) ==
    /\ Change
    /\ LoginOf(e) # None
    /\ token' = Revoke({LoginOf(e)}, token)
    /\ UNCHANGED <<account, employee, signup, cohort, op, offboardings>>

\* A statement fails or the process stops: what was committed stays.
Stop(h) ==
    /\ op[h] # Idle
    /\ Done(h)
    /\ UNCHANGED <<account, employee, signup, token, cohort, offboardings, changes>>

Next ==
    \/ \E h \in Handlers :
        \/ \E m \in Addresses : ReadForSignup(h, m) \/ ReadForReject(h, m) \/ ReadForApprove(h, m)
        \/ \E a \in Ids : InsertAccount(h, a) \/ \E by \in Ids : ReadForDelete(h, by, a)
        \/ \E a \in Ids, e \in Employees : ReadForLink(h, e, a)
        \/ \E a \in Ids, e \in Employees \cup {None} : OpenAssignment(h, a, e)
        \/ \E t \in Tokens : ReadForActivate(h, t)
        \/ WriteSignup(h) \/ WriteReject(h) \/ Grant(h) \/ MarkApproved(h) \/ WriteDelete(h)
        \/ SendAssignment(h) \/ WriteLink(h) \/ WriteActivate(h) \/ Stop(h)
    \/ \E a \in Ids, m \in Addresses : ChangeEmail(a, m) \/ \E admin \in BOOLEAN : CreateAccount(a, m, admin)
    \/ \E a \in Ids, active, admin \in BOOLEAN : UpdateAccount(a, active, admin)
    \/ \E e \in Employees :
        \/ \E a \in Ids \cup {None} : SetLink(e, a)
        \/ \E a \in Ids, m \in Addresses : Provision(e, a, m)
        \/ \E active \in BOOLEAN, m \in Contact : UpdateDetails(e, active, m)
        \/ \E mode \in {"email", "payroll"} : Preview(e, mode)
        \/ \E t \in Tokens, purpose \in {"activation", "recovery"} : IssueLink(e, t, purpose)
        \/ VerifyPayrollId(e) \/ Offboard(e) \/ Restore(e) \/ RevokeLinks(e)
    \/ \E a \in Ids \cup {None} : Apply(a) \/ \E decision \in {"link", "skip"} : Reconcile(decision, a)
    \/ \E t \in Tokens : ExpireLink(t)

Spec == Init /\ [][Next]_vars

-----------------------------------------------------------------------------
TypeOK ==
    /\ account \in [Ids -> Account]
    /\ employee \in [Employees -> Employee] /\ \A e \in Employees : LoginOf(e) \in Live \cup {None}
    /\ signup \in [Addresses -> {"none", "pending", "approved", "rejected"}]
    /\ token \in [Tokens -> Token]
    /\ cohort \in Cohort
    /\ op \in [Handlers -> Op]
    /\ offboardings \in [Ids -> Nat] /\ changes \in 0..MaxChanges

\* An activation or recovery link that still works leads to the login of the employee it was
\* handed to, whatever relinking, renaming, offboarding or deletion came after it.
LiveLinksPointHome ==
    \A t \in Tokens : token[t].at = "open" =>
        /\ token[t].account \in Live
        /\ LoginOf(token[t].employee) = token[t].account
        /\ account[token[t].account].kind = "employee"

\* "Restored ... linked account and previous access grants remain disabled": a link from before
\* an offboarding never opens the account again, even when it was being used meanwhile.
NoOldLinkReopens ==
    [][\A t \in Tokens : token[t].at # "consumed" /\ token'[t].at = "consumed" =>
            token[t].round = offboardings[token[t].account]]_vars

\* Applying a cohort gives logins and never takes one away or replaces it, although the login
\* may have been linked after the preview that the decision was made on.
OnboardingKeepsLogins ==
    [][cohort.at = "preview" /\ cohort'.at = "applied" =>
            \A e \in Employees : LoginOf(e) # None => LoginOf(e)' = LoginOf(e)]_vars

\* A sign-up request counts as approved only when its account exists with the access it was
\* approved for, or was deleted since; a handler that stops half way leaves it undecided.
ApprovedIsSetUp ==
    \A m \in Addresses : signup[m] = "approved" => \E a \in Ids : account[a].for = m /\ account[a].granted

\* The variables have their types, logins exist, and approved sign-ups are set up.
SignupInv == TypeOK /\ ApprovedIsSetUp

\* Logins are set up, and links lead to the login of their employee.
IdentityInv == SignupInv /\ LiveLinksPointHome

\* "The contact address follows the linked login."
ContactFollowsLogin ==
    \A e \in Employees : LoginOf(e) # None => employee[e].email = account[LoginOf(e)].email

\* "At least one admin account must remain": somebody can always administer accounts.
AnAdminRemains == Actors # {}
=============================================================================
