# Verification models of the ABA web application

The repository is a Node/Express and PostgreSQL back end (`src/app/backend`), a
React client (`src/app/client`) and operating scripts. A treasury uses it to
review payment files (ABA), foreign-currency transfers and public health
allowances, and a government HR office uses it to run leave. What makes it hard
to get right is the same everywhere: many HTTP handlers run at once over shared
rows, some inside a transaction that holds the row, some as separate statements,
with timers and scripts beside them. The modules here model those handlers step
by step, TLC checks them on small instances, and TLAPS proves what matters most
for every value of the constants.

Contents: [the system](#the-system), [modules and code](#modules-and-code),
[runs](#runs), [fairness](#fairness), [proofs](#proofs),
[findings](#what-the-code-does-not-keep), [not modelled](#what-is-not-modelled),
[plan](#plan).

## The system

Paths are relative to `src/app/backend/src/` unless they start with `src/`.

| Component | State | Operations | What is hard | What makes it correct |
|---|---|---|---|---|
| Forex telegraphic transfers (`routes/forexTT.js`) | `forex_tt_requests`, `_reviews`, `_attachments` | create, edit, submit, delete, change status, add and remove files | status and upload lock the row; submit, edit, delete and removal read, check and later write by id | review is by another than the submitter; claims are not stolen; decisions are made on the current row; current files are those of the last upload |
| ABA batches (`routes/batches.js`, `lib/pdNumber.js`) | `batch_archives`, `batch_reviews` | submit, change stage, change value date, delete | code and PD number are chosen by one statement and used by another; changes are written by code, and codes are used again | a code names one batch; a PD is paid once; another reviewer approves; rejection of a departmental batch is final; payments never change |
| Batch archiving (`src/app/backend/scripts/archive-old-batches.js`) | `batch_archives_history` | copy old rows, delete them | nothing locks the rows between copy and delete | a batch is in one table, as it last stood |
| Government leave workflow (`services/governmentLeaveWorkflow.js`, `governmentLeaveApprovalRoutes.js`) | `hr_gov_requests`, stages, bindings, decisions, offices | submit, decide, rebind, cancel, appoint, close | decisions carry what a screen showed, arrive late or twice; officers change between approvals; the newest binding is by start of transaction | granted leave has every stage's approval, by who was bound and asked, and nobody decides leave of their own or of their making |
| Government leave ledger (`services/governmentLeave.js`) | `hr_gov_ledger`, entitlements, reservations, policies, calendars | open, hold, use, release, correct, reverse; publish policies | several kinds of call draw on one entitlement; replays by event key | never overdrawn; a hold becomes use once or nothing |
| Government leave cases, cutover, carry-over, payroll, reports (`services/governmentLeaveCases.js` and others) | case determinations, links, effects, payroll exports | amend and continue pending applications; cut short or cancel granted leave; grant case leave; transfer legacy leave; prepare and acknowledge payroll registers | several ledgers and requests in one transaction, refunds by reversal; registers are read and written beside grants and changes | the ledger agrees with the effects in force; a day is instructed once |
| Government leave jobs (`services/governmentLeaveJobs.js`) | `hr_gov_job_plans`, `hr_gov_job_posts` | renew entitlements, accrue by payroll date, catch up | scheduler under an advisory lock, manual run without; bounded catch-up; a failing employee | each date accrues once; nothing expires while held |
| Leave notification outbox (`services/governmentLeaveNotifications.js`) | `hr_gov_notifications` | queue with the change, deliver on a timer | crash between SMTP and commit; retry with back-off; several processes | no accepted change without its notice; every notice is sent or skipped in the end |
| Legacy leave and accrual (`services/leaveService.js`, `services/leaveAccrual.js`, `lib/accrualRules.js`, `routes/hr.js`) | `hr_leave_applications`, balances, accrual runs | approve, reject, cancel, adjust, set, accrue | accrual computes its credit from a balance read without a lock; manual and scheduled runs | pending plus balance is conserved; the cap holds; a period accrues once |
| Authentication (`routes/auth.js`, `services/authService.js`, `loginAttempts.js`) | `reviewers`, sessions, reset tokens, attempts | sign in, sign out, change and reset a password | lock-out check before recording; a password change in several statements | after a password change no session made with the old one is left; a reset token works once |
| Administration (`routes/admin.js`, `services/hrAccess.js`) | roles, permissions, groups, sign-ups | approve sign-ups, change roles, suspend, delete | demotion counts admins under an advisory lock, deletion without | there is always an admin; a sign-up is decided once |
| Employee import and onboarding (`services/payrollEmployeeImport.js`, `employeeDirectory.js`, `employeeManagement.js`, `employeeOnboarding.js`) | employees, Payroll IDs, import batches and rows, onboarding cohorts, activation and recovery links | preview, review, apply; create, edit, delete; link, activate, offboard, restore | a preview goes stale before it is applied; edits of reporting lines wait for imports and for each other; a link outlives what it was made for | what is applied is what was reviewed; Payroll IDs stay; reporting lines have no circles; a link works for its employee's login only |
| Public health allowances (`routes/public-health.js`, `src/app/client/src/pages/PublicHealth/PayPeriods.tsx`) | tiers, participants and their levels, pay periods and their entries; a browser tab's copy of the entries | edit tiers and participants; open a period, edit its entries, submit it as a batch, mark it | levels change under the participant's lock, entries under the period's, its status by a plain update; answers reach a tab in any order | one open level each; nobody at LV0 is paid; a submitted period keeps its entries |
| SFTP sync (`routes/sync.js`, `src/windows-scripts/`) | `sftp_sync_requests` | trigger by HTTP, file or table; prune | five-minute guard is check-then-insert; a time-out does not stop the service | one sync at a time; every request ends |
| Transactions and advisory locks (`lib/transaction.js`, `lib/advisoryLock.js`) | none | run in a transaction; run if the lock is free | | commit all or nothing |
| Audit log (`services/auditService.js`) | `audit_log` | insert, best effort or with its transaction | | an entry names a change that happened |
| ABA format (`lib/abaFile.js`, `src/app/client/src/lib/generator-utils.ts`, `blacklist.ts`) | none | build a file of a draft, accept it, compare it with what reviewers are shown, amend its date | two programs write and read one format: fields cut to a width, texts made ASCII, amounts rounded to cents | what the browser builds the server accepts; a file pays what its reviewers are shown; amending the date changes no payment |
| Lists and payroll lookups (`routes/lists.js`, `routes/payroll.js`) | blacklist, whitelist, reference data | add, remove | | |
| Schema and start-up (`db.js`, `server.js`) | all tables | create, migrate, start timers | | the constraints the other parts rely on |
| Mail, PDF, encryption, review mode | none | | | |
| Web client (`src/app/client`) | local | pages, generators, converters | arithmetic on amounts | totals agree with records |
| Backup, restore, deployment (`src/backup`, `src/scripts`) | dumps | | | |

How they meet: every route reaches the database through `pool` (one statement at
a time) or `withTransaction` (one connection, `BEGIN` … `COMMIT` or `ROLLBACK`).
A row lock (`FOR UPDATE`) or an advisory lock lasts as long as its transaction;
statements outside hold nothing. `server.js` starts timers for accrual, leave
jobs (both under an advisory lock) and notifications (row by row with `SKIP LOCKED`), cron runs
the archive script, and all of them work on tables the routes are changing. Workflow calls ledger, ledger and
workflow call audit and outbox, all on the client of the transaction in which
they are called.

Every place where one of these goes wrong between two actors, two steps or two
processes is in `PROJECT.json` under `hazards`, at its line, with the property
that covers it or the reason none does.

## Modules and code

| Module | Models | Lines |
|---|---|---|
| `ForexTT` | the handlers of `routes/forexTT.js` | read and write of each |
| `ApprovalGate` | what the review of a forex request promises | abstract |
| `ForexTTProofs` | theorems about `ForexTT` | |
| `BatchWorkflow` | the handlers of `routes/batches.js` and the archive script | statement by statement |
| `AbaFile` | ABA files: built, accepted, compared, amended, blocked | operators |
| `BatchFiles` | the files of `BatchWorkflow`'s batches as files of `AbaFile` | composition |
| `BatchProofs` | theorems about `BatchWorkflow`, `AbaFile` and `BatchFiles` | |
| `ArithmeticFacts` | lemmas of the proofs: least numbers, finite sets, sums | |
| `LeaveWorkflow` | leave workflow, ledger and queued notices of one employee | transaction by transaction |
| `LeavePayroll` | payroll registers over `LeaveWorkflow` | read and write of each call |
| `LeaveProofs` | theorems about `LeaveWorkflow` and `LeavePayroll` | |
| `LeaveOutbox` | delivery of queued notices by several processes | statement by statement |
| `NoticePromise` | what the outbox promises of each notice | abstract |
| `GovernmentJobs` | scheduled leave jobs and leave policies | employee by employee |
| `LeaveJobsProofs` | theorems about `LeaveOutbox`, its implementing `NoticePromise` among them, `GovernmentJobs` and `LegacyLeave` | |
| `LegacyLeave` | legacy balances, applications and accrual runs | statement by statement |
| `LeaveTimers` | what `LegacyLeave` and `GovernmentJobs` share: staff, fortnights and the day | |
| `Changes` | the bound on what people do beside the program's own work | |
| `SignIn` | sign-in, sessions, passwords, reset links and lockout of an account | statement by statement |
| `SignInProofs` | theorems about `SignIn` | |
| `Accounts` | sign-ups, administration, linking, onboarding and offboarding | mixed, see below |
| `StaffRecords` | payroll import, employees, Payroll IDs, reporting lines | statement by statement |
| `StaffRequests` | what `Accounts` and `StaffRecords` share: employees, and requests that go on after a statement | |
| `StaffProofs` | theorems about `Accounts` and `StaffRecords` | |
| `PublicHealth` | tiers, participants, pay periods, tabs and batches | statement by statement |
| `PublicHealthProofs` | theorems about `PublicHealth` | |
| `MC…` | constants and symmetry for TLC, one for each module that is run | |

Common conventions. A handler is one HTTP request in progress; `op[h]` (or
`rebinding[h]`) is what it remembers between its statements. A call that is
refused changes nothing and is not a step. `Abandon` ends a handler at any point:
the process stopped, the client's connection died, or the transaction rolled
back. A variable commented *history* is not in the database: it records who or
how often, for a property to compare. `None` is SQL `NULL` or a field that was not
sent. A definition `XFaulty` is a plausible bug in `X`; nothing uses it, and it
shows, put in the place of `X`, that the property it is paired with in
`PROJECT.json` notices.

### ForexTT

`row` is `forex_tt_requests`, `lastEvent` the newest `forex_tt_reviews` entry of
each request, `files` its attachments. `PATCH /status` and `POST /attachments`
lock the row and are `LockForStatus`/`CommitStatus` and
`LockForUpload`/`CommitUpload`; `Locked` makes every other write wait. The
unlocked routes are `ReadForSubmit`/`WriteSubmit`/`RecordSubmit` (the history
entry is a third statement), `ReadForEdit`/`WriteEdit`,
`ReadForDelete`/`WriteDelete` and `ReadForRemove`/`WriteRemove`. `Create` is one
`INSERT`. `StatusTransitions`, `CanTransition` (admins may make any move but
approval) and `MayAsk` are the code's tables and checks; `ClaimAfter` is the
`CASE` of the `UPDATE`.

Left out: the bank confirmation number, the time of a claim and the mails, which
no check reads. An attachment is its category and which upload brought it.

### BatchWorkflow

`live` is `batch_archives`, `hist` is `batch_archives_history`, both keyed by
batch id; `reviews` are the `batch_reviews` of each id; `archive` holds the
archive transaction's uncommitted copies. A submission is four statements:
`CheckPd`, `ReadSequence` (the day's last code), `InsertBatch` or `RetryInsert`
(the code is taken: try the next, up to `MaxAttempts`), `WriteReview`. A stage
change is `LockForStage`/`CommitStage`; a value-date change is
`ReadForAmend`/`WriteAmend` and writes by *code*; `DeleteBatch` is one statement;
the archive is `ArchiveCopy` and `ArchiveCommit` or `ArchiveRollback`.

A code is a day and a number. The code orders codes as text: numbers are padded
to two digits, so `100` sorts before `11`. `TextRank` gives that order, with the
limit (99) and radix (10) as constants. `reviews` is a set because no check of
the code depends on the order of its entries.

Abstractions. Accounts and their roles do not change during a run. One department: codes of different departments never meet. The file
is its payments, named by the batch they were submitted with, and its value
date. The blacklist and the comparison of file and transactions only refuse
submissions, and are operators of `AbaFile`. A submission, and an archive run, ends on the day on which it began: the routes take
milliseconds, and the archive cut-off (`config/archive.js`) lies days back.

### AbaFile

No state: operators over a draft (header form and transactions), a file, a change
of its value date, and the active blacklist. `Buildable` and `BuildAbaFile` are
the browser's `buildAbaFile`: what it refuses with an error, and the records it
writes. `Accepted` is the server's `parseAbaFile`, `AmendValueDate` its
`amendValueDate`; `SameCredits` and `FindBlacklistedCredit` are what `POST
/batches` compares before it inserts, and `FindBlockedTransactions` what the
browser looks for before it builds. The two sides have each their own way to cut,
pad and compare: `PadR` beside `Field`, `IsBlacklistedCombo` beside `Blocks`.

Abstractions. A record is its fields: a number stands for its padded digits
(`Ten` and `Six` keep the last that fit), a text is padded to its width, and what
no rule reads is carried in `rest`. Amounts are in tenths of a cent, rounded by
`Cents`. Texts are in composed form and have no line ends. An account of blanks
alone counts as an empty one; no file is built of either. `AddsUp` relates a list
to its total by the running totals of the loop, so nothing is summed and proofs
need no induction over lists.

`BatchFiles` puts these files in the tables of `BatchWorkflow`, where a file is the
batch it came with and a date, 0 until it is changed.

### LeaveWorkflow

Each handler is one transaction that begins by locking the employee's row
(`lockEmployee`), so the handlers of one employee follow each other and each is
one step: `Submit`, `Amend`, `Continue`, `Cancel`, `Reject`, `Forward`, `Grant`,
`Change`, `ContinueChange`, `GrantChange`, `Correct`, `Reverse`. What they do not control is outside the lock, and is modelled as
it is:

* `Send` is a client that is shown a stage and a binding and sends a decision
  with an event key of its own. What anybody but the officer of that binding
  sends is refused for ever (`decideRequest` compares both), so only the officer
  sends here. The call stays in `calls` and may arrive at any
  later time, any number of times, or never. `MayDecide` is what `decideRequest`
  compares before it inserts.
* `BeginRebind`/`CommitRebind`: the column `recorded_at` defaults to `NOW()`, which is
  the start of the transaction, and `stagesFor` takes the newest by it. Two
  rebinding requests can therefore take effect in the other order than they
  commit. `clock` orders the beginnings.
* `Appoint`, `CloseOffice`, `ChangeAccount` are HR and admin calls that change
  who holds an office and which accounts are active and capable, between any
  two approvals. `Sound` is `bindingIssue`.

`ledger` is a set of postings as in `hr_gov_ledger`; `Balance` and `Held` are the
sums the SQL takes; `Unposted` is the unique event key and
`Affordable` is `postMovement`'s comparison of balance and holds. A request that ends is
amended or continued by `Replace`: cancel and submit in one transaction.

Granted leave is changed by an application of its own (code `amendment`), which
has a `link` to it and no hold, and passes a route like any other: `Change` is
`submitCase`, `ValidChange` is `validateAmendment` and `GrantChange` is
`grantCaseEffects`, which appends to `effects` and gives back by reversals what
earlier changes have not (`Refund`). `Taken` is what stands of an application:
`effectiveAbsenceSql` and `effectiveEndSql`. Any request may be bound to any office;
the route of a change may have other levels than that of the leave, which
nothing here depends on.

Modelled are applications for Medical and Special leave on routes whose stages
are different offices; every HTTP route submits with the rule that refuses an
application one of whose stages has no sound officer. A day is charged one unit to the
entitlement of its service year. Checks of policy, calendar, evidence or notice
only refuse. Recreation leave, which may also use forecast credit, is not
modelled, and neither are accrual, expiry and case leave on the same ledger. That
an employee cancels only leave that has not started is left out with the calendar.

### LeavePayroll

Extends `LeaveWorkflow`, whose steps it takes unchanged, with the registers; their
variables stand in `LeaveWorkflow`, whose own steps leave them alone.
`Prepare` and `Acknowledge` are what `preparePayroll` and `acknowledgePayroll` do
up to their INSERT: take the advisory lock (`LockFree`: it is held by a call in
`work`), compare with the registers there are, and read the grants in one
statement (`Snapshot`). `CommitRegister` and `CommitReceipt` are the INSERT and the
end of the transaction, with the UNIQUE columns; `Fail` is its failure. Grants and
changes take the employee's lock, not this one, and commit in between.

### LeaveOutbox and NoticePromise

A notice has a `status`, a date it is `due`, whether its recipient's account is
`inactive` or has no address (`unreachable`) and whether it is `unwanted`, in the order in which
`prepareNotification` looks at them, and how often it was `mailed` (history). A `process`
runs `deliverLeaveNotifications`: `StartRun`, then for each row `Pick` (the row
`FOR UPDATE SKIP LOCKED`), `Pause` while testing holds mail back, `Accept`,
`Refuse` (with back-off) or `LoseAnswer` at the SMTP server, `Record` in the
database or `LoseConnection`, and `StopRun`. `Crash` and `Restart` come at any
statement; `Enqueue`, `Deactivate`, `Unwant` and `Readdress` are what the workflow and the
administration do meanwhile; `FallDue` is time. The mail testing mode is cached by each process, and
refreshed by two requests, each of which reads it in one step and keeps it in a later one:
`SetTesting`, `ViewTesting`, `ReadTesting`, `KeepTesting`, and `FailRefresh`, after which the process takes
the mode for off, as a start does whose refresh fails. Requests of one process may keep their values in the
other order than they read them, so that a process stays muted although the mode is off.

`NoticePromise` says what others may rely on: a notice is queued, and from there
settled as sent or skipped, once; it is recorded as sent only when a mail of it
was accepted. `LeaveOutbox` implements it (`KeepsPromise`).

### GovernmentJobs

`policy`, the plans of each employee, posts, entitlements and today's date.
`StartSweep`, `NextPage`, `Visit`, `PassOver` and `Advance` are the hourly sweep
under its advisory lock: employees in pages, each in a transaction
of its own, a failing one passed over. `RunByHand` is HR's run of one
employee. Both are `PostFor`, which renews and accrues date by date with bounded catch-up.
`Publish`, `Extend`, `SaveOpening`, `Correct`, `Apply`, `Grant`,
`Release`, `SavePlan`, `SetEnabled` and `AmendFacts` are the HR and
workflow calls beside it. `StopSweep` is a process that stops in the middle of a sweep.

`relied` is history: the days that postings and grants used, each with its policy and the date
of the posting or leave. A renewal and leave use their date; an accrual uses each day of its
fortnight from the first balance taken over (`DaysUsed`), by that day's policy.

Abstractions: service years are alike for all employees; a schedule that continues another
payroll credits from there on, and here from the balance taken over; facts of service are
a counter of corrections; appointment terms and excluded service, which refuse
or change amounts, the 26-cycle phase, forecast credit, the refusal of a
catch-up older than five years and the refusals by status and cutover are left out.

### LegacyLeave

`bal` holds what each balance is, holds pending and was posted, credit by
credit; `outcome` the applications; `runs` the recorded periods; `op` the runners.
`StartByHand` or `Wake`/`ScanDue` begins a run, `ReadCredit`/`WriteCredit`
computes a credit from a balance read earlier, `Reset` forfeits,
`FinishRun` records the period. `Cancel`, `Decide`, `Adjust`, `Import`,
`SetStanding` and `SetAnchor` are the routes beside it. `AbortRun` is a failure or a
crash, which frees the advisory lock, and `BreakDeadlock` is PostgreSQL choosing a victim. The lock has a
connection of its own: `LoseLock` is its end while the work, on other connections, goes on. (A server that
notices exits, by `installProcessGuards`, which is `AbortRun`; until then, or when nobody tells it, the next scheduler may
take the lock and catch up beside it.) Filing an
application and the edit of leave types are not modelled; applications are there
from the start.

### SignIn

One account: password, temporary flag, lock. A password is the number of its write, so that
two are never alike by accident. `Login`, `CheckLock`, `Compare` and
`OpenSession` are a sign-in; `Google`, `GoogleClear` and `Retire` the other way in, which
retires a temporary password; `Refresh`, `Invalidate` and `Reread` are a
session's permissions; `ChangePassword`, `ChangeEnds`, `ChangeSets` are a change;
`Forgot`, `ExpireLink`, `Reset`, `ResetCommits` a reset link; `AdminReset`,
`AdminUnlocks`, `AdminEnds`, `SetActive` the administrator. `Age` is time. `Stop`
ends any of them at any statement.

### Accounts

Accounts, employees, sign-ups, tokens and an onboarding cohort. The identity
services are one transaction under locks each, and one step; the older handlers of
`routes/admin.js` and `routes/hr.js` are several. `StillAsShown` is the comparison of a cohort with what was
reviewed, `Valid` what makes a link usable, `Unlinks` what offboarding closes.

### StaffRecords

`emp` is `hr_employees`, `owner` says whose a Payroll ID is, `batch` is an import
with its rows. The name of an employee stands for every identity field but the
manager; departments, service periods and logins only refuse and are left out.
`PreviewImport`, `DecideRow` and `Refresh` are the review of an import; `ReadBatch`,
`ReadRows`, `Evaluate` what HR is shown, in three statements; `LockForApply`
takes the locks and reads again, `WriteImport` writes. An import is applied by
somebody who was shown nothing blocked, as the page has it. `Hash` is the digest of the facts a row was
reviewed on, a record of those facts here. `CreateManaged`, `CreateUnverified`, `AddPayrollId`,
`Rename`, `StartEdit`/`FinishEdit` and `StartDelete`/`FinishDelete` change one
employee. (`StaffProofs` extends `Accounts` too, so the names differ from those there: `RegisterInit`,
`RegisterSpec` and so on.) `SELECT … ORDER BY id FOR UPDATE` without a condition locks the rows there were when
it began, each as it is when its turn comes: `seen` and `FinishEdit`.

### PublicHealth

`tier`, `status`, `open` (how many levels a participant has open, by level),
`period` with its entries, `batch`, and `tab`: what a browser shows, holds and
awaits. `BeginLevel`/`CommitLevel` and `LockForSave`/`CommitSave` hold a row;
`ReadParticipant`/`WriteParticipant` do not. `Post` and `Mark` are the client's two
requests of one submission; `Fail` comes between. `Open` asks for entries and `Answer` takes
whichever answer arrives. `PATCH /status` also takes `draft`, which no page sends.
A submission is one step here, and so is a stage change: `BatchWorkflow` has
their statements, and who may approve.

## Runs

TLC runs each of these; `-config <run>.cfg` on the MC module. Deadlock is not
checked: with every bound reached and every request ended, there is nothing left
to do and the bounded system may stop. An invariant that ends in `Inv` is the
conjunction of the module's type invariant and the named parts in brackets.

| Run | Instance | States | Shows |
|---|---|---|---|
| `ForexTT_requests` | one request; all accounts without files, or the submitter and one reviewer with 2 categories and 2 uploads; 2 handlers | 1.1 M | `TypeOK`; `DecidesOnCurrentRow`; `ReviewedByAnother`; `ClaimConsistent`; `ClaimNotStolen`; `CurrentIsLatestUpload`; `NoUploadUnderReview`; `ImplementsGate`: the handlers implement `ApprovalGate` |
| `BatchWorkflow_batches` | one batch reviewed on one day, or one clerk's departmental batches over two days; 2 handlers, 3 attempts | 1.3 M | `TypeOK`, `ApprovedByAnother`, `AbaDecidedOnce`, `OneRowPerCode` over both tables, `AttemptsAreRaces`: a submission fails only for real competition; `StoredFilesKeepPayments` for 62 drafts of at most 3 transactions, 10 changes and 14 blacklists |
| `BatchWorkflow_pd_race` | 2 batches of one PD | | `PdPaidOnce` is violated, see below |
| `LeaveWorkflow_route` | one application, two stages, three accounts, two decisions, two rebindings, two appointments, one correction | 3.2 M | `RouteInv` (`DeciderStaysBound`, `GrantedByEveryStage`), `DecidesWhatWasShown`, `EveryoneIsTold`, `LeaveIsCovered` (`NeverOverdrawn`, `NoDayTwice`; no type invariant) |
| `LeavePayroll_registers` | three applications, two of them changes; two days in two service years, three decisions, two registers, two calls | 0.63 M | `UseFollowsGrant`; `RegistersAgree` (`NoDayTwice`, `OneInstructionPerDay`, `DebitsAreUse`, `ReceiptsAreForTheLatest`) |
| `LeaveOutbox_delivery` | 2 processes, 2 notices, one to a run, 2 handlers, 1 fault, 2 changes | 0.41 M | `DeliveryInv`: mailed twice only by a fault; `KeepsPromise`; `EveryNoticeSettles` |
| `GovernmentJobs_posting` | 2 employees in pages of one, 3 policies, 1 request, 4 days in years of two and fortnights of two | 0.38 M | `PolicyInv` (`OnePolicyPerDate`, `UsedPoliciesStay`): what was used keeps its policy, but for days whose policy ends before their posting; `YearsCloseOnce`; `EmployeesKeepUp` |
| `LegacyLeave_balances` | an employee and a newcomer, two runners, 4 dates, 2 changes | 0.37 M | `AccrualInv` (`DaysInOnePlace`, `BalanceExplained`, `NoDateCreditedTwice`, `OneSchedulerAtATime`), `DuePeriodsRun` |
| `SignIn_sessions` | 1 account, 2 sessions, 2 handlers, lockout at 2 failures, 3 passwords, 2 links | 0.43 M | `AttemptsInv`: attempts over the limit are races; `TemporaryIsFlagged`, `LinkWorksOnce`, `LockoutEnds` |
| `Accounts_identity` | 1 admin, 2 further accounts, 2 employees, 2 addresses, 2 links, 2 handlers, 5 requests | 0.40 M | `IdentityInv` (`ApprovedIsSetUp`, `LiveLinksPointHome`), `NoOldLinkReopens`, `OnboardingKeepsLogins` |
| `StaffRecords_register` | 2 employees and up to 2 more, 1 import of 2 rows, 2 requests, 3 changes | 1.2 M | `RegisterInv` (`NobodyDangles`, `CirclesNeedNewcomers`), `AppliedAsShown`, `PayrollIdsStay` |
| `PublicHealth_periods` | 1 participant at 2 levels, 2 periods, 2 tabs, 2 batches, 5 changes | 4.4 M | `AllowanceInv` (`OneOpenLevel`, `UnpaidLevel`, `SubmittedWasPosted`), `EntriesStayUnderReview` |

What `StoredFilesKeepPayments` says of drafts, changes and blacklists depends on no
state, and TLC evaluates it once; what it asks of a batch depends on whether its
date was changed.

Why the bounds are enough to mean something:

* Two handlers are what a race takes: one between its read and its write, the
  other anywhere. The properties speak of one request or of two batches, and
  requests share nothing but handlers, so one request is enough in `ForexTT`.
  `OneScenario` separates its two scenarios from the first step on.
* Seven versions let a forex request be submitted, claimed, returned, submitted
  again, claimed, approved and reopened by an admin; with files there are three,
  and two uploads of up to two files let an upload supersede another's files, and
  spare its own.
* Two batches over two days, with deletion and archiving, let a code be taken,
  given up and used again, and an archived batch meet a live one. Three attempts are one
  more than one competitor can cost. Two batches stay below the two-digit limit, where codes
  as text and as numbers have one order.
* Each draft of `MCAbaFile` differs from a good one in one field, or pays one, two or
  three transactions to two accounts: amounts lie on both sides of half a cent and of
  the largest amount (5) of a line and of a file, and three transactions with their
  debit are one line more than the trailer counts (3). 34 of the drafts are buildable.
* Two stages, two decisions and two rebindings are what overtaking takes: a
  rebinding that began before another commits after it, or after the stage was
  decided; a decision arrives after its stage has moved on, at a stage that the
  same officer may hold. With two appointments in all, one office can also change
  hands or stay empty. The second stage admits no delegation, the first does.
* Two days, each in a service year of its own with one unit opened, let leave of
  both be cut to the first, the second be applied for again, and the rest be cut or
  cancelled by a second change: three applications and three decisions. The two accounts are
  the employee, who is in central HR too, and the officer; who else might act is
  `LeaveWorkflow_route`'s question, and so are corrections. Registers for both days and for the second alone
  overlap, two registers are two versions of one period or compete, and two
  calls are what that takes.
* One correction of one unit either way and its reversal meet the hold of an application in every order.
* Two processes and two notices let each process hold a row the other skips. One fault lets a
    mail be repeated and shows that nothing else repeats one. Two handlers let requests about the
  testing mode cross; two changes are its being switched on and off. A run of one notice leaves off
  where a longer one would go on, and the next run goes on there.
* Four days in years of two close one year and begin the next while a fortnight is late;
  two employees in pages of one make one employee's trouble another's. Three policies are the
  first, its replacement and one that replaces that in turn, or before it.
* Two runners are one by schedule and one by hand, or two schedulers of which one has lost its lock; four dates hold two
  periods and a boundary between them.
* Three passwords are the old one, a temporary and a chosen one; two failures make a
  lockout, and two handlers one failure more than that.
* Three accounts and two employees let a link be moved to somebody else's account
  while a third exists; five requests are offboarding, restoring and linking again
  around an activation.
* A register that grows from two to four has an import add a manager and an
  employee under it, while somebody else adds an employee; three changes are a
  decision, an edit and an addition.
* Two periods and two tabs let a late answer fill the wrong period, and a save cross
  a submission. They have paid dates of their own, which the code does not ask for
  (`db.js:807`): of periods that share one, fewer batches are accepted, so these behaviours include theirs;
  the proofs hold for any dates (`PaidOn`). Five changes are a tier, a participant, a period, an edit and a save.

Symmetry is used on ids, handlers, tabs, event keys and forms or reviewers where
the module treats them alike, and in no run with a liveness property.

## Fairness

The handlers of HTTP requests have none anywhere: one may stop for ever between its
statements, and a client may never send. Four modules have timers or a clock, and
only those parts are fair:

* `LeaveOutbox`: `server.js` calls the delivery every 15 s, and
  `docker-compose.yml` restarts the process (`restart: unless-stopped`), so time, restart and
  the steps of a run are weakly fair. That the SMTP server accepts a notice is
  strongly fair: a server that is asked again and again in the end accepts. Requests about the
  testing mode that have begun are answered (weak fairness of their steps); a read that fails is never
  owed. `EveryNoticeSettles` is true under these and false without back-off. It promises nothing where every process
  is muted again and again: a muted process stays so until its next refresh, which nothing in the code
  calls for (`SwitchTakesEffect`, below, is not kept).
* `LegacyLeave`: the hourly timer (weak fairness of `Wake`), progress of a run
  that can move (strong fairness of its steps, since row locks come and go), and
  PostgreSQL's deadlock detection.
* `GovernmentJobs`: the hourly timer (weak fairness of beginning a sweep, of its
  next page and of its next employee).
* `SignIn`: time passes (`Age`).

## Proofs

`tlapm` checks `ForexTTProofs`, `BatchProofs`, `LeaveProofs`, `LeaveJobsProofs`,
`SignInProofs`, `PublicHealthProofs`, `StaffProofs` and `ArithmeticFacts`. The theorems hold for every set of
users, requests, batches, accounts, sessions, participants, Payroll IDs and handlers, for registers and
routes of any length, for every set of drafts, changes and blacklists, and for every bound.

Assumptions: the `ASSUME`s of the modules. They say

* what roles and types are (`RolesAssumption`, `TypesAssumption`), and that `None` is
  none of the things it stands in for (`NoneAssumption`, `PeriodsAssumption`, `PolicyIdsAssumption`,
  `LegacyAssumption`);
* that bounds are naturals, at least one attempt is made and the radix is above one
  (`BoundsAssumption`), and the largest numbers of a field are naturals
  (`WidthsAssumption`);
* that days, rates, caps and years of the jobs are naturals, years and fortnights are not empty, and
  there is a day a schedule can begin on (`JobsAssumption`, `LeaveAssumption`);
* that legacy types of leave are listed once, with rates, caps and days that are integers, a
  financial year begins on a day of the year (`KindsAssumption`, `CalendarAssumption`), and applications
  of some days were filed against rows of people who were there (`FiledAssumption`);
* that `padR` leaves digits, blanks and hyphens as they are (`TextAssumption`), and
  that drafts, changes and entries are of their types (`InputsAssumption`);
* that the event keys of applications are not those of corrections, as their prefixes
  see to (`LedgerAssumption`);
* that what is summed or counted is finite: days and entitlements (`LedgerAssumption`),
  the requests in progress (`SignIn`), the notices (`NoticesAssumption`), the employees, whose
  reporting lines are followed to the end (`RegisterAssumption`), those of the legacy leave with their
  applications (`KindsAssumption`, `FiledAssumption`), and those of a page of a sweep and the
  applications that reserve days (`JobsAssumption`). Only these parameters are
  bounded in number;
* that the employees there are at the start have names and Payroll IDs, and the rows of a sheet
  name, identify and report as their columns say (`RegisterAssumption`).

**Forex.** `TypeCorrect` comes first and is used by everything after it. None of
`ReviewedByAnother`, `ClaimConsistent` or `ClaimNotStolen` is inductive by itself: a
handler could be holding a decision that became wrong, or be about to write as an
owner who is not one. `IInv` adds what is missing, and `Inductive` proves it:

* `OwnersAct`, `OwnerKnown`: a handler of an unlocked route, or an upload, acts as the owner
  of an existing request, and existing requests have an owner for good. So the late
  write of a submit or an edit is the owner's.
* `DecidesOnCurrentRow`: at most one transaction holds a row, and until it
  commits, the checks it passed would pass again, since every write waits for
  it (`HeldRowUnmoved`).
* `ReviewedByAnother` and `ClaimConsistent` themselves.

`RowStep` and `OpStep` say once what any step may do to a row and a handler; each
invariant is preserved by arguing from those. `ClaimsAreNotStolen` and
`TransitionsFollowTable` are action properties from the same invariant.
`HandlersImplementGate` is the refinement: `GateStep` maps each change of status to
`Take`, `Approve`, `Reopen` or a stutter, `GateSees` gives the guard of the
abstract step from `IInv`.

**Batches.** `IInv` is built in four layers, each assuming those before it:

* `TypeInv` = `TypeOK`, `Numbered` (some number bounds all codes in use) and
  `HeldRows` (a transaction's batch exists). `Numbered` is there because the next
  code is found with `CHOOSE` over the codes of today: that a last one exists is
  `LastInOrder`, shown by minimal counterexample (`LeastNatural`).
* `CodeInv` = `Fresh` (ids are handed out once and belong to one handler or one
  row), `Days` (rows are dated today or before, archived rows strictly before),
  `ArchiveCopies` (uncommitted copies are of old rows) and `OneRowPerCode`. A new code is
  compared with the live table alone; that it cannot meet an archived one follows
  only from `Days`.
* `ReviewInv` = `StageHeld` (a stage change still finds what it checked) and
  `Approvals`, from which `ApprovedByAnother`.
* `DecisionInv`: nothing is decided before it is inserted, and a departmental
  batch has no decision on record while it stands submitted and at most one
  ever, from which `AbaDecidedOnce`.

**Files.** `PaymentsKept` is `BuiltIsPaid`, `AmendedIsPaid`, `AmendingRebuilds` and
`SidesBlockAlike` for drafts of any length, any texts,
any widths of the number fields and any blacklists. `FileOf` says what a built
file and an amended one have in common: the lines of the draft's payments, then a
debit of their total (`BuiltIsFileOf`; `AmendedIsFileOf`, which needs only that the file
was one, and so holds for any number of changes). From it follow that the
file adds up (`FileAddsUp`: the running totals of the payments, extended by a
zero or by the balancing amount), that its credits pair up with the transactions
(`FileIsAsShown`) and that browser and server look for the same payees in it
(`FileIsBlockedAlike`, since every key of a buildable draft exists). `AmendingIsRebuilding`
is the commutation: to amend the file is to build the amended draft. It rests on
what trimming, cutting and padding do to each other (`TrimEndOfField`,
`FieldOfCut`, `ReferenceIsAscii`).

**Files of a forex request.** `FilesKept` is `CurrentIsLatestUpload` and what it needs:
no file is of an upload that is yet to come, so that the next upload supersedes them all and none of its own. `UploadsOpen` says that an upload in progress holds a request that is still
editable, from which the action property `NoUploadUnderReview`.

**Races for codes.** `AttemptsAreRaces` is not inductive: whether the code a submission
tries is taken depends on the codes ahead of it. `RaceInv` counts both: the attempts
made and the codes of the day at or ahead of the number tried are, together, at most the
batches inserted since the last code was read; and no number of today exceeds the batches
inserted. An attempt that finds its code taken
passes one such code, and an insertion adds at most one. The count holds while
numbers keep to two digits, where text order is the order of numbers (`RankOrder`); beyond them
a free number may lie behind the one that was read, and the property, which is
conditional on the limit, is false without it. Deletions and archiving only take codes away.

**Leave.** The workflow's part of `LeaveProofs` has three layers.

* *Route.* `RouteInd` says that the stages before the current one are approved, none after it
  is decided, and it is decided exactly when the application is (`StagesInOrder`); and that
  each decision is the answer to a call for its stage, by the officer the stage is bound to,
  who is neither the employee nor the applicant (`SoundlyDecided`). The second carries `DeciderStaysBound` over
  rebindings that overtake one another: a stage that is decided is not rebound, so the
  newest binding by `at` stays what it was. `EveryoneIsTold` is kept beside it.
* *Ledger.* `HoldsFollow` ties holds to pending leave, and changes to granted leave. Given it, `LeaveIsCovered` is
  inductive: a hold is placed on what `Affordable` found free, and a grant takes from the
  balance what its hold took from what was free, so that neither order of a grant and a correction
  overdraws. `TotalUnion` and `UsesTotal` say what a set of postings adds.
* *Use.* `UseKept` says of each granted application that its uses are posted once, and
  that what its changes gave back is the days they cut, entitlement by entitlement; of
  all, that nothing else is used or given back. `UseFollowsGrant` is the sum of that.

**Payroll.** `UseIsExactWithPayroll` repeats `UseFollowsGrant` for the composition, whose
calls leave the workflow alone. `PayrollInd` says that a period has one register in force,
that different periods do not overlap, and that a register has one application for each
day, since the leave it was read from has (`Exact`); that a receipt is another officer's; and
that the one call that holds the lock has read a row that may still be written (`Writable`). `DebitsAreUse` then is a count of pairs of an application and a day,
in two ways, with `UseKept`.

**Outbox.** `OutboxInv` adds to the types two facts: a notice that is being mailed is due
and one process's, which `FOR UPDATE SKIP LOCKED` is for (`LocksHeld`); and the mails that
no row and no transaction in progress accounts for (`Lost`) are, over all notices, no
more than the faults so far (`LossesCounted`). `OnlyFaultsRepeat` follows by comparing two
sums. The list of due rows has no repetitions, which is what makes the loss of one row's
place a matter of one row. `OutboxKeepsPromise` is the refinement: each of the steps of a run, of a
crash and of the workflow maps to `Owe`, `Tell`, `Close`, `MoveOn` or a stutter.

**Scheduled jobs.** A run is one step that makes many postings, by recursion over days and years,
and most of the proof is about what it leaves (`RunForRight`): `Follows` says of any two states of an
employee's books that one comes of the other by postings, and is kept by a renewal, by any number of
them (`RenewToFollows`), by an accrual and by the catch-up of a schedule (`AccrualsFollow`). Balances are
in order (`Orderly`: each of its year, what is not open empty, a renewed year after an open one) and years close
late enough: when one is renewed, every period of the schedule that ends before is posted
(`Paid`). Without it a catch-up would post into a year that had been closed, and `YearsCloseOnce` is not inductive.
A new schedule keeps `Paid` because it may not begin before the current year's balance was taken over,
and no year after the current one is closed (`BooksKept`).

`PoliciesLaid` says that policies do not overlap, with the ends that their successors give them, and
that successors begin later; a date has one policy by that alone (`OneCovers`). `ReliedKept` says of each day that
a posting or grant used that the date of the posting or grant is governed, and still has one, which a replacement looks for
(`Relied`); and that the day is governed by the policy it was used with or by one that ends before
that date (`Keeps`). A replacement that takes the day over ends before the date, or it would have been refused; and an
extension cannot bring such an end up to the date, whose policy lies in the way. What an accrual uses is
followed through the recursion of a run: the first balance taken over stays so (`CreditStays`). `JobsInv` is the three together.

**Legacy leave.** `AccrualInv` speaks of committed balances, and what a run will commit is its own
copy of some rows, while others are at work. `LegacyInv` says of it what commits safely:

* `DraftSound`: a run's copy of a row holds the days that the committed row holds, its balance has
  moved by recorded adjustments alone, and it is credited at most once more, for the run's own
  period, after its turn (`RowsOf` names each row once: `RowsListed`). The run's staff are locked
  and a written row is locked, so no decision, adjustment, change of standing or
  cancellation comes between.
* `RunsApart`: a row is in one run's hands. Two runs of one date, by hand and by the
  timer, credit the same rows in turn or one waits for the other; either way the second finds the date recorded
  and is rolled back, which is why `CreditsRecorded` ties credits to `runs`.
* `LockHeld`: whoever catches up has the advisory lock, or had it and lost it, whence `OneSchedulerAtATime`.
  That no date is credited twice does not rest on it.

`DaysInOnePlace` and `BalanceExplained` follow by taking one application out of a sum and adding it to another.

**Sign-in.** `FailuresKept` counts the failures of an account together with the requests
that are still comparing a password for it (`Trying`): whoever began did so under the limit, so the two
are at most one less than the limit and the requests there can be, which needs that
handlers are finitely many. `LinksKept` says that a link is one account's, that one that has set a
password is nobody's, and that a request that is resetting holds its account's link
alone. `TemporaryIsFlagged` needs only the types.

**Accounts.** `AccountsInv` adds to `IdentityInv` three facts. An id that is not in use was never
made for a sign-up, and a handler that grants access or marks a sign-up approved has the account
that was made for it (`SignupsKept`), which carries `ApprovedIsSetUp` across the statements of an approval. A link
that works is an employee's, and of the round since the last offboarding of its account
(`LinksCurrent`): offboarding, relinking and deletion revoke links in the transaction that makes
them stale, and a link is looked at again when it is used (`Valid`), whence `NoOldLinkReopens`. A
cohort that would link or create showed nobody's login (`CohortKept`), so that `StillAsShown`
is enough for `OnboardingKeepsLogins`.

**Register.** The register's hard part is that nobody locks the people who are not there yet.
`StaffInv` has the types, `NobodyDangles` and four facts:

* `NoLoop`: among the live employees but those that an edit of a reporting line had not been
  shown (`unseen`), no set of people report only to each other. It says of sets what
  `CirclesNeedNewcomers` says of lines, and is the form a step can be proved to keep: a step gives one
  employee a manager, or an import gives some theirs, and a closed set after it was closed before, or
  holds a line the step had followed to its end. `CycleLoops` and `LoopCycles` go from lines to sets and
  back, the second because a line of finitely many people that never ends comes back to somebody.
* `ReadAsWas`: whoever reads a batch has its rows as they were at the revision it read.
* `OneWriter`: a batch is written by one request, and no employee is held by two.
* `Writes`: while an import is written, its batch is a preview with the rows that were shown, rows name
  different people and Payroll IDs, those to be updated are held and those to be created are not there,
  nobody who joined since reports to somebody held; and if nothing it
  needs is taken, what it will write is what was reviewed, managers are held or in the
  import, and the lines it proposes close no circle. That is what the
  second reading under the locks checks, and no step of another request undoes it.

`ImportsWriteWhatWasShown` is then `Writes` at the step that writes, and `IdsStay` needs only that a
Payroll ID is given where it is nobody's.

**Public health.** `HealthInv` adds to `AllowanceInv` what the locks are for. While a
transaction changes a level nobody else has its participant, so that the levels it found open
are those it closes (`LevelsHeld`), whence `OneOpenLevel`; while one saves entries its period is a draft, and a
period is marked by whoever submitted a batch of it (`PeriodsHeld`). `EntriesKept` is for
the late answers: whatever entries a tab shows, awaits or pays are, at their levels, of the period they were read from,
and a period keeps its participants and levels once it is created (`LevelsStay`). So a
batch pays nobody at LV0 even when it was made of another period's entries.

**Sums.** Induction over data is out of the prover's reach in general, since the
library's induction theorems take operators. Sums over finite sets are within it all the
same: `SubsetInduction` is induction over the subsets of a finite set, stated of a *set* of subsets
that is closed under adding an element, and proved from the finite cardinals by a least
counterexample. From it `ArithmeticFacts` has what the ledger needs: sums of disjoint
unions, of one element more or less, and sums that agree pointwise or differ in one place
(`SumUnion`, `SumAdd`, `SumPointwise`, `SumOneChanged`).

Which inductive invariants TLC has checked on the runs' instances, before they were
proved: those of forex and batches with `RaceInv`, `HoldsFollow`, `UseKept`,
`PayrollInd`, `OutboxInv`, `JobsInv`, `LegacyInv`, and the parts of `HealthInv` and `StaffInv` that are not types.

Proved, and checked by a run on a small instance: every property of `ForexTT_requests`,
of `BatchWorkflow_batches`, `LeaveWorkflow_route`, `LeavePayroll_registers`,
`PublicHealth_periods`, `Accounts_identity` and `StaffRecords_register`; `DeliveryInv` and `KeepsPromise` of the outbox;
`PolicyInv` and `YearsCloseOnce` of the jobs; `AccrualInv` of legacy leave; all of `SignIn` but `LockoutEnds`. `StatusFollowsTable` is proved and in no run.

Every invariant that a run checks has a theorem. Only model-checked are the liveness properties:
`EveryNoticeSettles`, `EmployeesKeepUp`, `DuePeriodsRun` and `LockoutEnds`.

Out of the prover's reach: liveness under fairness, `ENABLED`, and recursive operators.
No module here uses one.

## What the code does not keep

`BatchWorkflow_pd_race` checks what `lib/pdNumber.js` says of a PD number, "may be
paid once", and TLC finds two submissions of one PD number that both pass the
conflict check before either is inserted. A second way needs no race: a rejected
public health batch does not hold its PD, and may be approved again after another
batch took it.

Known divergences. These properties are stated in their modules with what breaks
them, and no run checks them. TLC finds each violated when it is added to the
module's run, or to a run of it with the bounds the sequence takes.

| Property | Module | What happens |
|---|---|---|
| `CheckedEditSeesLatest` | `ForexTT` | two edits that carry one version both pass a check of an unlocked row, and the second overwrites the first |
| `FormFrozenUnderReview` | `ForexTT` | an edit that found a draft writes its form after the request was submitted, claimed or approved |
| `HistoryMatchesStatus` | `ForexTT` | the submission's history entry is a later statement, and comes after a reviewer's, or not at all |
| `AbaRejectionFinal` | `BatchWorkflow` | a rejection that commits between the archive's copy and its delete is lost, and the archived row says `submitted` |
| `AmendKeepsPayments` | `BatchWorkflow` | a value-date change whose batch is deleted meanwhile writes its file over the next batch of the same code |
| `SwitchTakesEffect` | `LeaveOutbox` | the mode is switched off and a process stays muted, see below |
| `NeverReinterpreted` | `GovernmentJobs` | a policy is replaced under days that are credited already, see below |
| `OwnPasswordKept` | `SignIn` | Google sign-in retires a password its owner chose, on a flag read before the verification |
| `AnAdminRemains` | `Accounts` | deletion counts admins without the lock that demotion takes (`routes/admin.js:736`) |
| `ContactFollowsLogin` | `Accounts` | an address is read outside the transaction that copies it to the employee (`routes/hr.js:845`) |
| `ForfeituresHappen` | `LegacyLeave` | a balance that a late run creates is stamped with today, past the boundary of the period, and its forfeiture is never due (`services/leaveAccrual.js:52`) |
| `NoManagerCycle` | `StaffRecords` | an edit that waits for the locks does not see employees added meanwhile, and closes a circle over them (`services/employeeManagement.js:45`, `routes/hr.js:858`) |
| `DeactivationStays` | `PublicHealth` | an edit of a participant's name writes back the status it read before a deactivation (`routes/public-health.js:214`) |
| `BatchOfItsPeriod` | `PublicHealth` | the answer to an earlier request fills the period that is shown now, and is paid under its date (`PayPeriods.tsx:66`) |

`SwitchTakesEffect` is what the page tells an administrator, "Testing mode disabled. Emails will
send normally." (`Admin.tsx:2369`). One administrator's request sets the mode and reads TRUE; another's
unsets it, reads FALSE and keeps it; the first one's answer is kept last (`mailService.js:41`, `:69`),
and the process mutes all mail while the mode is off, until somebody opens the page again or it
restarts. A second process needs no race: it is not told at all. What does hold is `EveryNoticeSettles`:
one process that has mail on settles everything.

`NeverReinterpreted` is the comment "Backdated changes cannot reinterpret posted credit or a
completed grant." (`governmentLeavePolicyTransitions.js:37`). The check below it looks for postings
dated within the replacement, while an accrual credits each day of the fortnight up to its date by
that day's policy (`governmentLeaveAccrual.js:31`). When the fortnight straddles the end of a policy,
whose successor governs the posting's date, the days before can be given another policy afterwards:
the first policy is in force to day 3 and another from day 4, the posting of day 4 credits day 3
under the first, and a third policy then replaces it on day 3 alone. What does hold is in
`PolicyInv`, which excepts just these days (`UsedPoliciesStay`).

Seen while modelling, and not stated as properties, since the code promises
nothing of them: two accrual runs of different dates can pass the cap together
(`LegacyLeave`); a schedule of another payroll phase credits days again (`GovernmentJobs`); a
sign-in between the two statements of a password change keeps its session (`SignIn`); a
duplicate created between an import's evaluation and its commit is not seen
(`StaffRecords`); a batch may pay entries a tab has not saved, a submission whose
second request fails leaves its period a draft with its PD taken, and a rejected
period cannot be submitted again by the page (`PublicHealth`). `EntriesStayUnderReview` begins at the
mark: between the post of a batch and the mark the period is a draft, and may be saved.

## What is not modelled

The components marked `not_modelled` in `PROJECT.json`, with the reason there.
The SFTP sync waits for a module. The audit log and mail
templates hold no state that a modelled route decides by; the web client is
modelled where its own state matters (`PublicHealth`) and where it builds what the
server reads (`AbaFile`); backup and deployment
are scripts around external programs. Of the components marked `partly`:

* ABA format: the import and export of CSV, the duplicates the generator marks, and the
  viewer's parser. The server does not make an amended text ASCII, as the browser does,
  so that rebuilding and amending agree only for texts that are (`Agreed`);
* lists: their edit, one statement each;
* government leave: calendars, service facts, evaluation of a span, leave-type
  settings, evidence of the older route, case leave, cutover, carry-over,
  handovers, forecasts and reports;
* legacy leave: edit of leave types (no route files a legacy application any more);
* authentication and administration: capabilities, groups, permission matrices,
  bank presets and the read-only routes;
* employees: service periods, arrangements, and the parsing of payroll files;
* schema and start-up: the modules state the constraints they rely on, and take
  the timers; migrations are declarative.

## Plan

Done, in this order: `ForexTT` and `BatchWorkflow` with their proofs,
`LeaveWorkflow`, `LeaveOutbox` with `NoticePromise`, `GovernmentJobs`,
`LegacyLeave`, `SignIn`, `Accounts`, `StaffRecords`, `PublicHealth`, `LeavePayroll`, `AbaFile` with its proof.

Done since: the theorems about `LeaveWorkflow`, `LeavePayroll`, `SignIn`, `LeaveOutbox`, `PublicHealth`, `Accounts`,
`StaffRecords`, `GovernmentJobs` and `LegacyLeave`, and the last of
`ForexTT` and `BatchWorkflow`.

Modules to add:

1. `SyncRequests`: three delivery methods, the five-minute guard, time-out and late
   answer, restart.
2. Case leave determinations and their effects on the ledger, carry-over and
   cutover, over `LeaveWorkflow`'s ledger.
3. Pure operators, each against a reference definition over bounded inputs:
   forecast funding, leave spans over calendars, CSV import.
