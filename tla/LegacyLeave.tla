----------------------------- MODULE LegacyLeave -----------------------------
(***************************************************************************)
(* Leave of the legacy regime: applications that are still pending, the    *)
(* balances that hold their days (services/leaveService.js), and the       *)
(* fortnightly accrual and resets (services/leaveAccrual.js, with the pure *)
(* rules of lib/accrualRules.js).                                          *)
(*                                                                         *)
(* Accrual runs are started by hand, by the timer of a server or by cron;  *)
(* each is one transaction that reads the staff FOR SHARE, credits balance *)
(* after balance, resets balance after balance and records its period.     *)
(* Its rows are its own until it commits.  Decisions and adjustments lock  *)
(* the employee, so that they and the runs wait for each other and are     *)
(* single steps; a cancellation locks the application and the balance only.*)
(*                                                                         *)
(* Decisions are those of an approver in the reporting line, with a reason *)
(* where one is required.                                                  *)
(***************************************************************************)
EXTENDS LeaveTimers, Sequences, FiniteSetsExt, Functions

CONSTANTS
    Types,          \* hr_leave_types, in the order they are read
    Accruable, Rate, Cap, Default, Resets,  \* of each type
    Joined,         \* hr_employees.join_date, or None
    Apps,           \* hr_leave_applications.id
    Filed,          \* the application as it was filed
    Newcomers,      \* employees who are imported later
    Runners,        \* accrual runs that may be in progress at once
    YearDays,       \* length of a year (365 in the calendar)
    FinancialYear,  \* day of the year on which the financial year begins
    MaxDate,        \* bound on the days that pass
    Anchors,        \* first pay dates that are set
    HandDates,      \* period ends that are run by hand
    Amounts         \* adjustments and opening balances

Dates == 0..MaxDate
YearOf(d) == d \div YearDays
Years == 0..YearOf(MaxDate)
Kinds == {Types[i] : i \in DOMAIN Types}
Rows == Employees \X Kinds \X Years

ASSUME CalendarAssumption ==
    /\ YearDays \in Nat \ {0} /\ FinancialYear \in 0..(YearDays - 1)
    /\ Fortnight \in Nat \ {0} /\ MaxDate \in Nat /\ MaxChanges \in Nat
    /\ Anchors \cup HandDates \subseteq Dates /\ Amounts \subseteq Int
ASSUME KindsAssumption ==
    /\ Types \in Seq(Kinds) /\ \A i, j \in DOMAIN Types : Types[i] = Types[j] => i = j
    /\ \A t \in Kinds : Rate[t] \in Int /\ Default[t] \in Int /\ Cap[t] \in Int \cup {None}
    /\ \A e \in Employees : Joined[e] \in Nat \cup {None}
    /\ IsFiniteSet(Employees) /\ Newcomers \subseteq Employees
ASSUME FiledAssumption ==
    /\ IsFiniteSet(Apps)
    /\ \A a \in Apps : Filed[a].row \in Rows /\ Filed[a].days \in Nat /\ Filed[a].row[1] \notin Newcomers
ASSUME LegacyAssumption == None \notin Dates \cup Runners

VARIABLES
    bal,            \* hr_leave_balances
    outcome,        \* hr_leave_applications.status
    standing,       \* what hr_employees says of leave
    runs,           \* hr_accrual_runs.period_end
    anchor,         \* reviewer_settings.accrual_anchor_date
    lock,           \* holder of the advisory lock, and those who lost its connection
    op              \* what each runner is in the middle of

legacyVars == <<bal, outcome, standing, runs, anchor, lock, op, today, changes>>

-----------------------------------------------------------------------------
\* A balance, with what it opened at and its adjustments added up (posted), and how often each
\* period was credited to it since it was last reset.
Absent == [there |-> FALSE, balance |-> 0, pending |-> 0, lastReset |-> None, posted |-> 0,
           credits |-> [p \in Dates |-> 0]]
Row == [there: BOOLEAN, balance: Int, pending: Nat, lastReset: Dates \cup {None}, posted: Int,
        credits: [Dates -> Nat]]
Outcomes == {"pending", "approved", "rejected", "cancelled"}
Standings == {"absent", "entitled", "away", "government"}

Idle == [kind |-> "idle"]
Unlocked == [holder |-> None, orphans |-> {}]
Larger(m, n) == IF m > n THEN m ELSE n
Smaller(m, n) == IF m < n THEN m ELSE n

\* lib/accrualRules.js
Seed(t) == IF Accruable[t] THEN 0 ELSE Default[t]

CreditFor(t, balance) ==
    IF Cap[t] = None THEN Rate[t] ELSE Smaller(Rate[t], Larger(0, Cap[t] - balance))

Unused(row) == Larger(0, row.balance - row.pending)

\* A type with a reset carries what is unused into the new year; one without also grants afresh.
OpeningFor(t, prior) ==
    CASE ~prior.there -> Seed(t)
      [] prior.there /\ Resets[t] = "none" -> Seed(t) + Unused(prior)
      [] prior.there /\ Resets[t] # "none" -> Unused(prior)

LatestOn(day, asAt) ==
    LET thisYear == YearOf(asAt) * YearDays + day
    IN  IF thisYear > asAt THEN thisYear - YearDays ELSE thisYear

ResetBoundary(e, t, asAt) ==
    CASE Resets[t] = "financial_year" -> LatestOn(FinancialYear, asAt)
      [] Resets[t] = "anniversary" /\ Joined[e] # None -> LatestOn(Joined[e] % YearDays, asAt)
      [] OTHER -> None

IsResetDue(last, boundary) == boundary # None /\ (last = None \/ last < boundary)

-----------------------------------------------------------------------------
\* ensureBalance: the balance of a year, created from the latest year before it.
Prior(b, r) ==
    LET earlier == {y \in Years : y < r[3] /\ b[<<r[1], r[2], y>>].there}
    IN  IF earlier = {} THEN Absent ELSE b[<<r[1], r[2], Max(earlier)>>]
Ensured(b, r) ==
    LET opening == OpeningFor(r[2], Prior(b, r))
    IN  IF b[r].there THEN b[r]
        ELSE [Absent EXCEPT !.there = TRUE, !.balance = opening, !.posted = opening, !.lastReset = today]
\* A balance moved by an amount, recorded as an adjustment.
Moved(row, amount) == [row EXCEPT !.balance = @ + amount, !.posted = @ + amount]

Running(h) == op[h].kind = "run"
\* FOR UPDATE of an employee waits for the runs that read the staff FOR SHARE.
StaffLocked(e) == \E h \in Runners : Running(h) /\ e \in op[h].staff
\* A row that a run has written is locked until the run ends.
RowLocked(r) == \E h \in Runners : Running(h) /\ r \in DOMAIN op[h].mine

\* The balances as a run sees them: its own writes, and what others committed.
View(h) == [r \in Rows |-> IF r \in DOMAIN op[h].mine THEN op[h].mine[r] ELSE bal[r]]

DaysOf(S) == SumFunctionOnSet([a \in Apps |-> Filed[a].days], S)
FiledOn(r, s) == {a \in Apps : Filed[a].row = r /\ outcome[a] = s}

\* Pending applications hold their days against balances that were opened for them.
LegacyInit ==
    /\ outcome = [a \in Apps |-> "pending"]
    /\ bal = [r \in Rows |->
            LET held == DaysOf(FiledOn(r, "pending"))
            IN IF held = 0 THEN Absent
               ELSE [Absent EXCEPT !.there = TRUE, !.balance = held, !.posted = held, !.pending = held,
                                   !.lastReset = 0]]
    /\ standing = [e \in Employees |-> IF e \in Newcomers THEN "absent" ELSE "entitled"]
    /\ runs = {} /\ anchor \in Anchors \cup {None} /\ lock = Unlocked
    /\ op = [h \in Runners |-> Idle]
    /\ today = 0
    /\ changes = 0

-----------------------------------------------------------------------------
(* services/leaveService.js *)

Released(row, days) == [row EXCEPT !.pending = Larger(0, @ - days)]
Taken(row, days) == [Released(row, days) EXCEPT !.balance = @ - days]

Cancel(a) ==
    /\ Change
    /\ outcome[a] = "pending"
    /\ LET r == Filed[a].row IN
        /\ ~RowLocked(r)
        /\ bal' = [bal EXCEPT ![r] = Released(@, Filed[a].days)]
    /\ outcome' = [outcome EXCEPT ![a] = "cancelled"]
    /\ UNCHANGED <<standing, runs, anchor, lock, op, today>>

MayDecideFaulty(a, decision) ==
    /\ outcome[a] \in {"pending", "approved"}
    /\ standing[Filed[a].row[1]] # "government"

MayDecide(a, decision) ==
    /\ outcome[a] = "pending"
    /\ standing[Filed[a].row[1]] # "government"
    /\ decision = "approved" => standing[Filed[a].row[1]] = "entitled"

Decide(a, decision) ==
    /\ Change
    /\ MayDecide(a, decision)
    /\ LET r == Filed[a].row
           days == Filed[a].days
       IN /\ ~StaffLocked(r[1])
          /\ bal' = [bal EXCEPT ![r] = IF decision = "approved" THEN Taken(@, days) ELSE Released(@, days)]
    /\ outcome' = [outcome EXCEPT ![a] = decision]
    /\ UNCHANGED <<standing, runs, anchor, lock, op, today>>

\* POST /adjustments, in a year of the past, the present or the future.
Adjust(r, delta) ==
    /\ Change
    /\ delta # 0 /\ standing[r[1]] \in {"entitled", "away"} /\ ~StaffLocked(r[1])
    /\ bal' = [bal EXCEPT ![r] = Moved(Ensured(bal, r), delta)]
    /\ UNCHANGED <<outcome, standing, runs, anchor, lock, op, today>>

\* POST /employees/import: the record and its opening balances, one transaction for a person.
Import(e, t, target) ==
    /\ Change
    /\ standing[e] = "absent"
    /\ standing' = [standing EXCEPT ![e] = "entitled"]
    /\ LET r == <<e, t, YearOf(today)>>
           opened == Ensured(bal, r)
       IN bal' = [bal EXCEPT ![r] = Moved(opened, target - opened.balance)]
    /\ UNCHANGED <<outcome, runs, anchor, lock, op, today>>

\* The staff record and the change of regime; the government regime is not left.
SetStanding(e, s) ==
    /\ Change
    /\ standing[e] \in {"entitled", "away"} /\ s \in {"away", "entitled", "government"} \ {standing[e]}
    /\ ~StaffLocked(e)
    /\ standing' = [standing EXCEPT ![e] = s]
    /\ UNCHANGED <<bal, outcome, runs, anchor, lock, op, today>>

SetAnchor(d) ==
    /\ Change
    /\ anchor # d
    /\ anchor' = d
    /\ UNCHANGED <<bal, outcome, standing, runs, lock, op, today>>

-----------------------------------------------------------------------------
(* services/leaveAccrual.js *)

\* Type by type in their order, the staff of each in some order.
RowsOf(types, staff, year) ==
    LET ofType(t) == IF t \in types THEN {<<e, t, year>> : e \in staff} ELSE {}
        flat[i \in 0..Len(Types)] ==
            IF i = 0 THEN <<>>
            ELSE flat[i - 1] \o CHOOSE s \in [1..Cardinality(ofType(Types[i])) -> ofType(Types[i])] :
                                \A k, l \in DOMAIN s : k # l => s[k] # s[l]
    IN  flat[Len(Types)]

\* A run in progress: what is left of its two passes, the balance it read last, and the rows
\* it wrote; left is what remains of a schedule, and empty in a run by hand.
BeginRun(h, p, scheduled, left) ==
    LET staff == {e \in Employees : standing[e] = "entitled"}
    IN  op' = [op EXCEPT ![h] =
            [kind |-> "run", scheduled |-> scheduled, left |-> left, period |-> p, staff |-> staff,
             credit |-> RowsOf({t \in Kinds : Accruable[t] /\ Rate[t] > 0}, staff, YearOf(p)),
             reset |-> RowsOf({t \in Kinds : Resets[t] # "none"}, staff, YearOf(p)),
             read |-> None, mine |-> [r \in {} |-> Absent]]]

\* POST /accrual/run and run-accrual.js --period-end: any date, of the schedule or not.
StartByHand(h, p) ==
    /\ op[h] = Idle /\ Change
    /\ p \notin runs
    /\ BeginRun(h, p, FALSE, {})
    /\ UNCHANGED <<bal, outcome, standing, runs, anchor, lock, today>>

\* The hourly timer, and run-accrual.js --due: one of them at a time, by the anchor and the
\* date it begins with.  (With nothing due it takes the lock and gives it back.)
Due == IF anchor = None THEN {} ELSE {d \in Dates : anchor <= d /\ d <= today /\ (d - anchor) % Fortnight = 0}

MayWake(h) == lock.holder = None

Wake(h) ==
    /\ op[h] = Idle
    /\ Due \ runs # {} /\ MayWake(h)
    /\ lock' = [lock EXCEPT !.holder = h]
    /\ op' = [op EXCEPT ![h] = [kind |-> "scan", left |-> Due]]
    /\ UNCHANGED <<bal, outcome, standing, runs, anchor, today, changes>>

\* The advisory lock goes with its connection, when that is given back or ends by itself; in the
\* latter case the work goes on.
FreedFaulty(h) == lock
Freed(h) == [holder |-> IF lock.holder = h THEN None ELSE lock.holder, orphans |-> lock.orphans \ {h}]

LoseLock(h) ==
    /\ lock.holder = h /\ Change
    /\ lock' = [holder |-> None, orphans |-> lock.orphans \cup {h}]
    /\ UNCHANGED <<bal, outcome, standing, runs, anchor, op, today>>

ScanDue(h) ==
    /\ op[h].kind = "scan"
    /\ LET left == op[h].left \ runs IN
       IF left # {}
       THEN BeginRun(h, Min(left), TRUE, left \ {Min(left)}) /\ UNCHANGED lock
       ELSE op' = [op EXCEPT ![h] = Idle] /\ lock' = Freed(h)
    /\ UNCHANGED <<bal, outcome, standing, runs, anchor, today, changes>>

\* A run's write of one row: its private copy, with the row locked.
Wrote(h, r, row) == [op[h] EXCEPT !.mine = [x \in DOMAIN @ \cup {r} |-> IF x = r THEN row ELSE @[x]]]

\* The row that a run's next statement writes or locks, if any, and whether another run has it.
Wanted(h) ==
    IF op[h].credit # <<>>
    THEN LET r == Head(op[h].credit)
             creates == op[h].read = None /\ ~View(h)[r].there
             credits == op[h].read # None /\ CreditFor(r[2], op[h].read) > 0
         IN  {x \in {r} : creates \/ credits}
    ELSE {r \in {op[h].reset[i] : i \in 1..Smaller(1, Len(op[h].reset))} :
            View(h)[r].there /\ ResetBoundary(r[1], r[2], op[h].period) # None}
WaitsFor(h, g) == Running(g) /\ Wanted(h) \cap DOMAIN op[g].mine # {}
Proceeds(h) == Running(h) /\ \A g \in Runners \ {h} : ~WaitsFor(h, g)

\* The balance is created if need be, and read; the credit is decided on what was read.
ReadCredit(h) ==
    /\ Proceeds(h) /\ op[h].credit # <<>> /\ op[h].read = None
    /\ LET r == Head(op[h].credit)
           row == Ensured(View(h), r)
           held == IF View(h)[r].there THEN op[h] ELSE Wrote(h, r, row)
       IN op' = [op EXCEPT ![h] = [held EXCEPT !.read = row.balance]]
    /\ UNCHANGED <<bal, outcome, standing, runs, anchor, lock, today, changes>>

\* The UPDATE adds to the balance as it is by then, which need not be what was read.
CreditedFaulty(row, read, amount) == [row EXCEPT !.balance = read + amount, !.posted = @ + amount]
Credited(row, read, amount) == Moved(row, amount)

WriteCredit(h) ==
    /\ Proceeds(h) /\ op[h].credit # <<>> /\ op[h].read # None
    /\ LET r == Head(op[h].credit)
           amount == CreditFor(r[2], op[h].read)
           credited == [Credited(View(h)[r], op[h].read, amount) EXCEPT !.credits[op[h].period] = @ + 1]
           held == IF amount > 0 THEN Wrote(h, r, credited) ELSE op[h]
       IN op' = [op EXCEPT ![h] = [held EXCEPT !.credit = Tail(@), !.read = None]]
    /\ UNCHANGED <<bal, outcome, standing, runs, anchor, lock, today, changes>>

Reset(h) ==
    /\ Proceeds(h) /\ op[h].credit = <<>> /\ op[h].reset # <<>>
    /\ LET r == Head(op[h].reset)
           row == View(h)[r]
           boundary == ResetBoundary(r[1], r[2], op[h].period)
           forfeited == [Moved(row, Seed(r[2]) - row.balance) EXCEPT !.lastReset = boundary,
                            !.credits = Absent.credits]
           after == IF IsResetDue(row.lastReset, boundary) THEN forfeited ELSE row
           held == IF Wanted(h) # {} THEN Wrote(h, r, after) ELSE op[h]
       IN op' = [op EXCEPT ![h] = [held EXCEPT !.reset = Tail(@)]]
    /\ UNCHANGED <<bal, outcome, standing, runs, anchor, lock, today, changes>>

\* period_end is UNIQUE: the second run of a period is rolled back, whatever it credited.
RecordedFaulty(p) == FALSE
Recorded(p) == p \in runs

\* After a scheduled run the next period is looked for; an error ends the whole scan.
FinishRun(h) ==
    /\ Running(h) /\ op[h].credit = <<>> /\ op[h].reset = <<>>
    /\ LET failed == Recorded(op[h].period)
           more == op[h].scheduled /\ ~failed
       IN /\ bal' = IF failed THEN bal ELSE View(h)
          /\ runs' = runs \cup {op[h].period}
          /\ op' = [op EXCEPT ![h] = IF more THEN [kind |-> "scan", left |-> op[h].left] ELSE Idle]
          /\ lock' = IF op[h].scheduled /\ failed THEN Freed(h) ELSE lock
    /\ UNCHANGED <<outcome, standing, anchor, today, changes>>

\* A statement fails or the process dies: the transaction is rolled back and the session's
\* advisory lock is released.
AbortRun(h) ==
    /\ op[h] # Idle /\ Change
    /\ op' = [op EXCEPT ![h] = Idle]
    /\ lock' = Freed(h)
    /\ UNCHANGED <<bal, outcome, standing, runs, anchor, today>>

\* Two runs that wait for each other's rows: the database rolls one of them back.
BreakDeadlock(h, g) ==
    /\ Running(h) /\ Running(g) /\ WaitsFor(h, g) /\ WaitsFor(g, h)
    /\ op' = [op EXCEPT ![h] = Idle]
    /\ lock' = Freed(h)
    /\ UNCHANGED <<bal, outcome, standing, runs, anchor, today, changes>>

NextDay ==
    /\ today < MaxDate
    /\ today' = today + 1
    /\ UNCHANGED <<bal, outcome, standing, runs, anchor, lock, op, changes>>

Step(h) == ScanDue(h) \/ ReadCredit(h) \/ WriteCredit(h) \/ Reset(h) \/ FinishRun(h)

LegacyNext ==
    \/ \E a \in Apps : Cancel(a) \/ \E decision \in {"approved", "rejected"} : Decide(a, decision)
    \/ \E r \in Rows, delta \in Amounts : Adjust(r, delta)
    \/ \E e \in Newcomers, i \in DOMAIN Types, target \in Amounts : Import(e, Types[i], target)
    \/ \E e \in Employees, s \in Standings : SetStanding(e, s)
    \/ \E d \in Anchors \cup {None} : SetAnchor(d)
    \/ \E h \in Runners : \/ Wake(h) \/ Step(h) \/ AbortRun(h) \/ LoseLock(h)
                           \/ \E p \in HandDates : StartByHand(h, p)
                           \/ \E g \in Runners \ {h} : BreakDeadlock(h, g)
    \/ NextDay

LegacySpec == LegacyInit /\ [][LegacyNext]_legacyVars

\* The timer fires every hour while a server runs, and a run that is not stopped proceeds; a run
\* that waits for a row is given it when the holder ends (strong fairness: the holder's next run
\* may want the row again), and the database breaks a deadlock.
RunsGoOn ==
    \A h \in Runners : /\ WF_legacyVars(Wake(h)) /\ SF_legacyVars(Step(h))
                       /\ WF_legacyVars(\E g \in Runners \ {h} : BreakDeadlock(h, g))
FairLegacySpec == LegacySpec /\ RunsGoOn

-----------------------------------------------------------------------------
LegacyTypes ==
    /\ bal \in [Rows -> Row] /\ outcome \in [Apps -> Outcomes] /\ standing \in [Employees -> Standings]
    /\ runs \subseteq Dates /\ anchor \in Dates \cup {None}
    /\ lock \in [holder: Runners \cup {None}, orphans: SUBSET Runners]
    /\ \A h \in Runners : Running(h) =>
        /\ DOMAIN op[h].mine \subseteq Rows /\ \A r \in DOMAIN op[h].mine : op[h].mine[r] \in Row
        /\ op[h].read \in Int \cup {None}
    /\ today \in Dates /\ changes \in 0..MaxChanges

\* leaveService.js:12, "a day is held against pending from the moment leave is applied for until
\* it is decided": what a balance holds is what is still undecided, whatever runs meanwhile.
DaysInOnePlace == \A r \in Rows : bal[r].pending = DaysOf(FiledOn(r, "pending"))

\* "Every adjustment is kept, so a balance can always be explained": a balance is what it opened
\* at, the adjustments that credits, resets and corrections recorded, less the leave granted.
BalanceExplained == \A r \in Rows : bal[r].balance = bal[r].posted - DaysOf(FiledOn(r, "approved"))

\* "Keyed by period end so a fortnight is never credited twice": of the runs for one date, by
\* hand, timer and cron at once, one is kept.
NoDateCreditedTwice == \A r \in Rows, p \in Dates : bal[r].credits[p] <= 1

\* Two servers' timers and cron together: one catches up, the others decline, but for those who
\* go on after they lost the lock.
OneSchedulerAtATime ==
    Cardinality({h \in Runners \ lock.orphans :
                    op[h].kind = "scan" \/ (Running(h) /\ op[h].scheduled)}) <= 1

\* The variables have their types; a day of leave is held or taken, never both or neither; runs
\* repeat no date, also beside one that lost the lock, and one scheduler has it.
AccrualInv ==
    /\ LegacyTypes
    /\ DaysInOnePlace /\ BalanceExplained
    /\ NoDateCreditedTwice /\ OneSchedulerAtATime

\* A period that is due is run, through crashes and beside runs by hand, unless the schedule
\* is moved away from it.
DuePeriodsRun == \A p \in Dates : (p \in Due) ~> (p \in runs \/ p \notin Due)

\* leaveAccrual.js:98, a late run must not "swallow a forfeiture that belonged to a period in
\* between": after a run, no balance of its year keeps credits from before the run's boundary.
ForfeituresHappen ==
    [][\A h \in Runners : FinishRun(h) /\ ~Recorded(op[h].period) =>
            \A r \in Rows : r[1] \in op[h].staff /\ r[3] = YearOf(op[h].period) =>
                LET boundary == ResetBoundary(r[1], r[2], op[h].period)
                IN  boundary # None => \A p \in Dates : p < boundary => bal'[r].credits[p] = 0]_legacyVars
=============================================================================
