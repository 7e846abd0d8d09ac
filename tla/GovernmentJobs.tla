--------------------------- MODULE GovernmentJobs ---------------------------
(***************************************************************************)
(* Renewal and accrual of government leave by approved schedules           *)
(* (services/governmentLeaveJobs.js, lib/governmentLeaveAccrual.js) under  *)
(* policies that are published, replaced and extended meanwhile            *)
(* (services/governmentLeave.js, services/governmentLeavePolicyTransitions *)
(* .js).                                                                   *)
(*                                                                         *)
(* Runs, and final approvals of leave, hold the policy lock shared, changes*)
(* of policy hold it alone, and all but those lock the employee: each is   *)
(* one step.  The sweep of the hourly timer is not: it holds an advisory   *)
(* lock, pages through the staff, and posts for each in a transaction of   *)
(* its own, for the date on which it began.                                *)
(*                                                                         *)
(* Service years are alike for everybody, and service facts are a count of *)
(* their corrections, each of which outdates the schedules before it.  The *)
(* phase of a payroll within its cycle of 26, and service that earns no    *)
(* credit, change amounts only and are left out, as are forecast credit    *)
(* and schedules that continue an earlier payroll.                         *)
(***************************************************************************)
EXTENDS LeaveTimers, FiniteSetsExt, Functions

CONSTANTS
    Ready,          \* the balances and schedules there are at the start
    Policies,       \* hr_gov_policy_versions.id
    FirstPolicy, FirstEnd,  \* the one in force at the start, and its last day
    DailyRate, CreditCap, Annual,  \* of each policy: recreation a day and its cap, medical a year
    Requests,       \* hr_gov_requests.id
    Leave,          \* who asks for what, on which day
    Year,           \* days of a service year
    MaxPosts,       \* periods a run posts at most (52 in the code)
    MaxRenewals,    \* years a run renews at most at once (5 in the code)
    PageSize,       \* employees a page holds (100 in the code)
    LastDay,        \* bound on the days that pass
    PolicyDates,    \* first and last days that policies are given
    Firsts,         \* first postings that schedules are given
    Openings,       \* dates on which balances are taken over
    Balance,        \* opening balances
    Corrections     \* amounts of corrections

Codes == {"medical", "recreation"}
Days == 0..LastDay
ServiceYear(d) == d \div Year
ServiceYears == 0..ServiceYear(LastDay)
StartOf(y) == y * Year
EndOf(y) == StartOf(y) + Year - 1

ASSUME JobsAssumption ==
    /\ {Year, Fortnight, MaxPosts, PageSize} \subseteq Nat \ {0}
    /\ {LastDay, MaxRenewals, Balance, MaxChanges} \subseteq Nat
    /\ PolicyDates \cup Firsts \cup Employees \subseteq Nat /\ Firsts # {}
    /\ IsFiniteSet(Employees) /\ IsFiniteSet(Requests)
    /\ \A p \in Policies : {DailyRate[p], CreditCap[p], Annual[p]} \subseteq Nat
    /\ Openings \subseteq Days /\ Corrections \subseteq Int
    /\ Ready \subseteq Employees \X Codes /\ FirstPolicy \in Policies /\ FirstEnd \in Nat
ASSUME LeaveAssumption ==
    \A q \in Requests : Leave[q] \in [employee: Employees, code: Codes, day: Days]
ASSUME PolicyIdsAssumption == None \notin Policies \cup Nat

VARIABLES
    policy,         \* hr_gov_policy_versions with their extensions and transitions
    account,        \* hr_gov_entitlements and the sums of hr_gov_ledger
    plan,           \* the schedule in force for each code, or None
    facts,          \* corrections of service facts
    enabled,        \* codes that are not paused
    posts,          \* hr_gov_job_posts
    leave,          \* hr_gov_requests and the policy they were shown under
    sweep,          \* what the sweep that holds the advisory lock is doing
    relied          \* history: days that postings and granted leave used, each with its policy
                    \* and the date of the posting or leave, its event

jobVars == <<policy, account, plan, facts, enabled, posts, leave, sweep, today, relied, changes>>

-----------------------------------------------------------------------------
Unpublished == [from |-> None, to |-> None, next |-> None]
Unopened == [open |-> FALSE, asOf |-> 0, balance |-> 0, manual |-> FALSE]
Opened(d, amount, manual) == [open |-> TRUE, asOf |-> d, balance |-> amount, manual |-> manual]
NoSweep == [asOf |-> None, cursor |-> -1, page |-> {}]
Lesser(m, n) == IF m < n THEN m ELSE n
Greater(m, n) == IF m > n THEN m ELSE n

\* resolvedPublishedPoliciesSql: a policy ends where its successor begins.
Published == {p \in Policies : policy[p].from # None}
Until(p) ==
    IF policy[p].next = None THEN policy[p].to
    ELSE Lesser(policy[p].to, policy[policy[p].next].from - 1)
Covering(d) == {p \in Published : policy[p].from <= d /\ d <= Until(p)}
Governed(d) == Covering(d) # {}
Governing(d) == CHOOSE p \in Covering(d) : TRUE

Reserved(e, c, y) == Cardinality({q \in Requests : leave[q].status = "pending" /\ Leave[q].employee = e
                                               /\ Leave[q].code = c /\ ServiceYear(Leave[q].day) = y})

\* Schedules of payroll periods begin with a posting, the others have none.
FirstsOf(c) == IF c = "recreation" THEN Firsts ELSE {None}
FirstOf(c) == IF c = "recreation" THEN Min(Firsts) ELSE None

\* Some balances and schedules are set up, and a first policy is in force.
JobsInit ==
    /\ policy = [p \in Policies |->
                    IF p = FirstPolicy THEN [from |-> 0, to |-> FirstEnd, next |-> None] ELSE Unpublished]
    /\ account = [e \in Employees |-> [c \in Codes |-> [y \in ServiceYears |->
                    IF <<e, c>> \in Ready /\ y = 0 THEN Opened(0, Balance, TRUE) ELSE Unopened]]]
    /\ plan = [e \in Employees |-> [c \in Codes |->
                    IF <<e, c>> \in Ready THEN [first |-> FirstOf(c), facts |-> 0] ELSE None]]
    /\ facts = [e \in Employees |-> 0]
    /\ enabled = [e \in Employees |-> Codes]
    /\ posts = [e \in Employees |-> {}]
    /\ leave = [q \in Requests |-> [status |-> "none", policy |-> None]]
    /\ sweep = NoSweep /\ today = 0 /\ relied = {}
    /\ changes = 0

-----------------------------------------------------------------------------
(* Policies: savePolicy and publishPolicy with approvePolicyReplacement, extendPolicy *)

PostedOn(e) == {x.date : x \in posts[e]}

ReliedFaulty(from, to) ==
    \E q \in Requests : leave[q].status = "approved" /\ Leave[q].day \in from..to

\* Postings and granted leave between the dates of a replacement.
Relied(from, to) ==
    \/ \E e \in Employees : PostedOn(e) \cap from..to # {}
    \/ \E q \in Requests : leave[q].status = "approved" /\ Leave[q].day \in from..to

MayPublish(from, to, prior) ==
    LET overlapping == {p \in Published : policy[p].from <= to /\ Until(p) >= from}
    IN  \/ prior = None /\ overlapping = {}
        \/ /\ prior \in Published /\ policy[prior].next = None
           /\ policy[prior].from < from /\ from <= Until(prior) /\ Until(prior) <= to
           /\ overlapping = {prior}
           /\ ~Relied(from, to)

Publish(p, from, to, prior) ==
    /\ Change
    /\ p \notin Published /\ from <= to
    /\ MayPublish(from, to, prior)
    /\ policy' = [r \in Policies |->
            CASE r = p -> [from |-> from, to |-> to, next |-> None]
              [] r = prior -> [policy[r] EXCEPT !.next = p]
              [] OTHER -> policy[r]]
    /\ UNCHANGED <<account, plan, facts, enabled, posts, leave, sweep, today, relied>>

Extend(p, to) ==
    /\ Change
    /\ p \in Published /\ policy[p].next = None /\ to > Until(p)
    /\ ~\E r \in Published \ {p} : policy[r].from <= to /\ Until(r) > Until(p)
    /\ policy' = [policy EXCEPT ![p].to = to]
    /\ UNCHANGED <<account, plan, facts, enabled, posts, leave, sweep, today, relied>>

-----------------------------------------------------------------------------
(* The ledger and the applications that draw on it *)

SaveOpening(e, c, d) ==
    /\ Change
    /\ Governed(d) /\ ~account[e][c][ServiceYear(d)].open
    /\ account' = [account EXCEPT ![e][c][ServiceYear(d)] = Opened(d, Balance, TRUE)]
    /\ UNCHANGED <<policy, plan, facts, enabled, posts, leave, sweep, today, relied>>

\* A negative correction leaves what is held.
Correct(e, c, y, delta) ==
    /\ Change
    /\ account[e][c][y].open
    /\ delta < 0 => account[e][c][y].balance + delta >= Reserved(e, c, y)
    /\ account' = [account EXCEPT ![e][c][y].balance = @ + delta]
    /\ UNCHANGED <<policy, plan, facts, enabled, posts, leave, sweep, today, relied>>

Apply(q) ==
    LET r == Leave[q]
        a == account[r.employee][r.code][ServiceYear(r.day)]
    IN  /\ Change
        /\ leave[q].status = "none" /\ Governed(r.day)
        /\ a.open /\ a.asOf <= r.day /\ a.balance > Reserved(r.employee, r.code, ServiceYear(r.day))
        /\ leave' = [leave EXCEPT ![q] = [status |-> "pending", policy |-> Governing(r.day)]]
        /\ UNCHANGED <<policy, account, plan, facts, enabled, posts, sweep, today, relied>>

\* The final approval, refused when the policy of the day is another by now.
Grant(q) ==
    LET r == Leave[q]
    IN  /\ Change
        /\ leave[q].status = "pending"
        /\ Governed(r.day) /\ Governing(r.day) = leave[q].policy
        /\ LET y == ServiceYear(r.day)
           IN  account[r.employee][r.code][y].balance >= Reserved(r.employee, r.code, y)
        /\ leave' = [leave EXCEPT ![q].status = "approved"]
        /\ account' = [account EXCEPT ![r.employee][r.code][ServiceYear(r.day)].balance = @ - 1]
        /\ relied' = relied \cup {[day |-> r.day, policy |-> leave[q].policy, event |-> r.day]}
        /\ UNCHANGED <<policy, plan, facts, enabled, posts, sweep, today>>

Release(q) ==
    /\ Change
    /\ leave[q].status = "pending"
    /\ leave' = [leave EXCEPT ![q].status = "released"]
    /\ UNCHANGED <<policy, account, plan, facts, enabled, posts, sweep, today, relied>>

-----------------------------------------------------------------------------
(* Schedules: saveJobPlan, pausing of codes, corrections of service facts *)

MayPlanFaulty(e, c, first) == account[e][c][ServiceYear(today)].open

\* Of the current year's balance, and not before it was taken over.
MayPlan(e, c, first) ==
    LET current == account[e][c][ServiceYear(today)]
    IN  current.open /\ (c = "recreation" => first >= current.asOf)

SavePlan(e, c, first) ==
    /\ Change
    /\ MayPlan(e, c, first)
    /\ plan' = [plan EXCEPT ![e][c] = [first |-> first, facts |-> facts[e]]]
    /\ UNCHANGED <<policy, account, facts, enabled, posts, leave, sweep, today, relied>>

SetEnabled(e, codes) ==
    /\ Change
    /\ enabled[e] # codes
    /\ enabled' = [enabled EXCEPT ![e] = codes]
    /\ UNCHANGED <<policy, account, plan, facts, posts, leave, sweep, today, relied>>

AmendFacts(e) ==
    /\ Change
    /\ facts' = [facts EXCEPT ![e] = @ + 1]
    /\ UNCHANGED <<policy, account, plan, enabled, posts, leave, sweep, today, relied>>

-----------------------------------------------------------------------------
(* executeEmployeeJobs: the balances and postings that a run makes of those of an employee, in a *)
(* set that is empty when something blocks it                                                    *)

Post(kind, c, d) == [kind |-> kind, code |-> c, date |-> d]

\* Year y begins: what is left of the year before expires; recreation is carried, the rest granted.
Renew(e, c, s, y) ==
    LET start == StartOf(y)
        carried == s.account[c][y - 1].balance
        granted == IF c = "recreation" THEN carried ELSE Annual[Governing(start)]
    IN  IF s.account[c][y].open \/ Reserved(e, c, y - 1) > 0 \/ ~Governed(start) THEN {}
        ELSE {[account |-> [s.account EXCEPT
                    ![c] = [@ EXCEPT ![y - 1].balance = 0, ![y] = Opened(start, granted, FALSE)]],
               posts |-> s.posts \cup {Post("renewal", c, start)}]}

RenewTo(e, c, s, d) ==
    LET begun == {y \in ServiceYears : s.account[c][y].open /\ s.account[c][y].asOf <= d}
        last == Max(begun)
        retained == \E y \in ServiceYears \ {last} :
            s.account[c][y].balance > 0 /\ EndOf(y) < d /\ s.account[c][last].manual
        renewed[y \in last..ServiceYear(d)] ==
            IF y = last THEN {s} ELSE UNION {Renew(e, c, t, y) : t \in renewed[y - 1]}
    IN  IF begun = {} \/ retained \/ ServiceYear(d) - last > MaxRenewals THEN {}
        ELSE renewed[ServiceYear(d)]

\* A balance with a credit, as far as its cap allows.
WithCredit(row, asked, cap) == [row EXCEPT !.balance = @ + Lesser(asked, Greater(0, cap - @))]

\* The days of the fortnight that ends on d, from the first balance taken over.
CreditFrom(a) == a[Min({y \in ServiceYears : a[y].open})].asOf
CreditDays(a, d) == {n \in (d - Fortnight + 1)..d : n >= CreditFrom(a)}

\* Each at the daily rate of its own policy, up to the cap of the policy of d.
Accrue(e, s, d) ==
    LET credited == CreditDays(s.account["recreation"], d)
        asked == SumFunctionOnSet([n \in credited |-> DailyRate[Governing(n)]], credited)
    IN  IF credited = {} \/ \E n \in credited : ~Governed(n) THEN {}
        ELSE {[account |-> [t.account EXCEPT !["recreation"][ServiceYear(d)] =
                                WithCredit(@, asked, CreditCap[Governing(d)])],
               posts |-> t.posts \cup {Post("accrual", "recreation", d)}] :
                    t \in RenewTo(e, "recreation", s, d)}

DueBy(e, first, d) ==
    {n \in first..d : (n - first) % Fortnight = 0 /\ Post("accrual", "recreation", n) \notin posts[e]}

\* Accruals come first, and in order; only when none is left does the year move on by itself.
RunCode(e, c, s, d) ==
    LET due == IF c = "recreation" THEN DueBy(e, plan[e][c].first, d) ELSE {}
        now == {n \in due : Cardinality({m \in due : m < n}) < MaxPosts}
        accrued[n \in -1..d] ==
            IF n = -1 THEN {s}
            ELSE IF n \in now THEN UNION {Accrue(e, t, n) : t \in accrued[n - 1]} ELSE accrued[n - 1]
    IN  CASE plan[e][c] = None -> {s}
          [] plan[e][c] # None /\ plan[e][c].facts # facts[e] -> {}
          [] plan[e][c] # None /\ plan[e][c].facts = facts[e] ->
                IF c \notin enabled[e] THEN {s}
                ELSE IF now # due THEN accrued[d] ELSE UNION {RenewTo(e, c, t, d) : t \in accrued[d]}

RunFor(e, d) ==
    UNION {RunCode(e, "recreation", s, d) :
            s \in RunCode(e, "medical", [account |-> account[e], posts |-> posts[e]], d)}

\* A posting rests on the policy of its date, an accrual on that of each day that it credits.
DaysUsed(a, x) == IF x.kind = "accrual" THEN CreditDays(a["recreation"], x.date) ELSE {x.date}
Reliances(a, made) ==
    UNION {{[day |-> n, policy |-> Governing(n), event |-> x.date] : n \in DaysUsed(a, x)} : x \in made}

\* The transaction of one employee; when something blocks it, all of it is rolled back.
PostFor(e, d) ==
    \E s \in RunFor(e, d) :
        /\ account' = [account EXCEPT ![e] = s.account]
        /\ posts' = [posts EXCEPT ![e] = s.posts]
        /\ relied' = relied \cup Reliances(account[e], s.posts \ posts[e])

RunByHand(e, d) ==
    /\ d <= today
    /\ PostFor(e, d)
    /\ UNCHANGED <<policy, plan, facts, enabled, leave, sweep, today, changes>>

-----------------------------------------------------------------------------
(* runDueGovernmentJobs: the sweep of the timer *)

StartSweep ==
    /\ sweep = NoSweep
    /\ sweep' = [NoSweep EXCEPT !.asOf = today]
    /\ UNCHANGED <<policy, account, plan, facts, enabled, posts, leave, today, relied, changes>>

Scheduled(e) == \E c \in enabled[e] : plan[e][c] # None

NextPage ==
    LET ahead == {e \in Employees : e > sweep.cursor /\ Scheduled(e)}
        page == {e \in ahead : Cardinality({f \in ahead : f < e}) < PageSize}
    IN  /\ sweep # NoSweep /\ sweep.page = {}
        /\ sweep' = IF page = {} THEN NoSweep ELSE [sweep EXCEPT !.page = page, !.cursor = Max(page)]
        /\ UNCHANGED <<policy, account, plan, facts, enabled, posts, leave, today, relied, changes>>

\* The employee whom the sweep visits next, and whom it is done with when it advances.
Visited == Min(sweep.page)
Advance == sweep.page # {} /\ sweep' = [sweep EXCEPT !.page = @ \ {Visited}]

PassOverFaulty ==
    /\ RunFor(Visited, sweep.asOf) = {}
    /\ sweep' = NoSweep
    /\ UNCHANGED <<account, posts, relied>>

\* "One bad foundation blocks that employee without starving later departments."
PassOver ==
    /\ RunFor(Visited, sweep.asOf) = {} /\ Advance
    /\ UNCHANGED <<account, posts, relied>>

Visit ==
    /\ sweep.page # {}
    /\ (PostFor(Visited, sweep.asOf) /\ Advance) \/ PassOver
    /\ UNCHANGED <<policy, plan, facts, enabled, leave, today, changes>>

\* The process stops, and its connection gives the advisory lock back.
StopSweep ==
    /\ Change
    /\ sweep # NoSweep
    /\ sweep' = NoSweep
    /\ UNCHANGED <<policy, account, plan, facts, enabled, posts, leave, today, relied>>

NewDay ==
    /\ today < LastDay
    /\ today' = today + 1
    /\ UNCHANGED <<policy, account, plan, facts, enabled, posts, leave, sweep, relied, changes>>

-----------------------------------------------------------------------------
JobsNext ==
    \/ \E p \in Policies, to \in PolicyDates :
        \/ Extend(p, to)
        \/ \E from \in PolicyDates, prior \in Policies \cup {None} : Publish(p, from, to, prior)
    \/ \E e \in Employees :
        \/ \E c \in Codes :
            \/ \E d \in Openings : SaveOpening(e, c, d)
            \/ \E first \in FirstsOf(c) : SavePlan(e, c, first)
            \/ \E y \in ServiceYears, delta \in Corrections : Correct(e, c, y, delta)
        \/ \E codes \in SUBSET Codes : SetEnabled(e, codes)
        \/ AmendFacts(e)
        \/ \E d \in Days : RunByHand(e, d)
    \/ \E q \in Requests : Apply(q) \/ Grant(q) \/ Release(q)
    \/ StartSweep \/ NextPage \/ Visit \/ StopSweep \/ NewDay

JobsSpec == JobsInit /\ [][JobsNext]_jobVars

\* The timer fires every hour, and a sweep that is under way goes on; it advances by visits only.
FairJobsSpec == JobsSpec /\ WF_sweep(StartSweep) /\ WF_sweep(NextPage) /\ WF_sweep(Advance)

-----------------------------------------------------------------------------
JobTypes ==
    /\ policy \in [Policies -> [from: PolicyDates \cup {0, None}, to: PolicyDates \cup {FirstEnd, None},
                                next: Policies \cup {None}]]
    /\ account \in [Employees -> [Codes -> [ServiceYears ->
            [open: BOOLEAN, asOf: Days, balance: Int, manual: BOOLEAN]]]]
    /\ \A e \in Employees, c \in Codes :
        plan[e][c] = None \/ (plan[e][c].first \in FirstsOf(c) /\ plan[e][c].facts \in 0..facts[e])
    /\ facts \in [Employees -> 0..MaxChanges] /\ enabled \in [Employees -> SUBSET Codes]
    /\ posts \in [Employees -> SUBSET [kind: {"accrual", "renewal"}, code: Codes, date: Days]]
    /\ leave \in [Requests -> [status: {"none", "pending", "approved", "released"},
                               policy: Policies \cup {None}]]
    /\ sweep \in [asOf: Days \cup {None}, cursor: Employees \cup {-1}, page: SUBSET Employees]
    /\ today \in Days /\ relied \subseteq [day: Days, policy: Policies, event: Days]
    /\ changes \in 0..MaxChanges

\* A date has one governing policy, however policies were replaced and extended.
OnePolicyPerDate == \A d \in Days : Cardinality(Covering(d)) <= 1

\* "Backdated changes cannot reinterpret posted credit or a completed grant."  A replacement that
\* ends before the date of a posting breaks this, for days that the posting has credited.
NeverReinterpreted == \A x \in relied : Covering(x.day) = {x.policy}

\* The policy of a day that was used is the one it was used with, unless that day's policy
\* ends before the date of the posting that used it.
UsedPoliciesStay == \A x \in relied : \E p \in Covering(x.day) : p = x.policy \/ Until(p) < x.event

\* The variables have their types, and the policy by which leave was granted, a year renewed or
\* a payroll date posted is the one policy of that date for good; so is the policy of each day
\* that a posting credits, but for those under a policy that ends before the posting's date.
PolicyInv == JobTypes /\ OnePolicyPerDate /\ UsedPoliciesStay

\* A run closes a year only when nothing holds it, closes it empty, leaves it alone from then on,
\* whatever schedule it follows and however late it comes, and never loses recreation credit.
Renewed(a, y) == y + 1 \in ServiceYears /\ a[y + 1].open /\ ~a[y + 1].manual
Total(a) == SumFunctionOnSet([y \in ServiceYears |-> a[y].balance], ServiceYears)
YearsCloseOnce ==
    [][posts' # posts => \A e \in Employees, c \in Codes :
            /\ c = "recreation" => Total(account'[e][c]) >= Total(account[e][c])
            /\ \A y \in ServiceYears : Renewed(account'[e][c], y) =>
                IF Renewed(account[e][c], y) THEN account'[e][c][y] = account[e][c][y]
                ELSE account'[e][c][y].balance = 0 /\ Reserved(e, c, y) = 0]_jobVars

\* An employee whom nothing blocks any more is brought up to date in the end, and again after every
\* pay day, whatever blocks the others, however long the catch-up and wherever a sweep was cut off.
UpToDate(e) == RunFor(e, today) = {[account |-> account[e], posts |-> posts[e]]}
EmployeesKeepUp == \A e \in Employees : <>[](RunFor(e, today) # {}) => []<>UpToDate(e)
=============================================================================
