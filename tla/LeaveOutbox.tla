---------------------------- MODULE LeaveOutbox ----------------------------
(***************************************************************************)
(* The outbox of leave notices: rows of hr_gov_notifications that the      *)
(* application transactions write, and the server processes that mail them *)
(* (services/governmentLeaveNotifications.js), with the testing mode they  *)
(* each keep in memory (services/mailService.js, routes/admin.js).         *)
(*                                                                         *)
(* A process mails one notice in one transaction, which holds the lock of  *)
(* its row across the conversation with the mail server.  The conversation *)
(* cannot be rolled back: a process that stops, or loses the database or   *)
(* the answer of the mail server, leaves a mailed notice pending.  Several *)
(* processes share one outbox; a notice being mailed is skipped by the     *)
(* others, and one that failed backs off, so it does not hold up the rest. *)
(*                                                                         *)
(* Time is the order in which notices fall due.  prepareNotification looks *)
(* first whether the recipient's account is still active, then for its     *)
(* address, and last whether the notice is still wanted.                   *)
(***************************************************************************)
EXTENDS Changes, FiniteSets, SequencesExt

CONSTANTS
    Processes,      \* server processes on one database
    Notices,        \* event keys of notices
    Handlers,       \* requests of administrators about testing mode
    Limit,          \* notices one run handles: 25
    MaxFaults       \* bound on crashes, lost connections and lost answers

ASSUME NoticesAssumption == IsFiniteSet(Notices)
ASSUME LimitAssumption == Limit \in Nat \ {0}
ASSUME BoundsAssumption == MaxFaults \in Nat /\ MaxChanges \in Nat
ASSUME NoneAssumption == None \notin Notices \cup Processes

VARIABLES
    status,         \* hr_gov_notifications.status, or "absent"
    due,            \* pending notices with next_attempt_at <= NOW(), in its order
    inactive,       \* notices whose recipient's account is gone or not active
    unwanted,       \* notices whose application, assignment or officer has changed
    unreachable,    \* notices whose recipient has no e-mail address
    mailed,         \* how often the mail server took each notice
    process,        \* each process: what its delivery run is doing
    testing,        \* reviewer_settings.testing_mode
    refreshing,     \* requests that read the setting and put it in a process's memory
    faults

vars ==
    <<status, due, inactive, unwanted, unreachable, mailed, process, testing, refreshing, faults, changes>>
surroundings == <<inactive, unwanted, unreachable>>
settings == <<testing, refreshing>>

-----------------------------------------------------------------------------
Statuses == {"absent", "pending", "sent", "skipped"}
Process ==
    [at: {"down", "idle"}, muted: BOOLEAN, tries: {0}, notice: {None}]
    \cup [at: {"run"}, muted: BOOLEAN, tries: 0..Limit, notice: {None}]
    \cup [at: {"mailing", "accepted"}, muted: BOOLEAN, tries: 0..Limit - 1, notice: Notices]
Refresh == [at: {"done"}, by: {None}, value: {FALSE}]
           \cup [at: {"reading", "read"}, by: Processes, value: BOOLEAN]
NoRefresh == [at |-> "done", by |-> None, value |-> FALSE]

\* A row is free unless a transaction holds it FOR UPDATE; the next to mail is
\* the first due row that is free.
Held == {process[p].notice : p \in Processes} \ {None}
FreeFaulty(n) == TRUE

Free(n) == n \notin Held

IsNext(i) == i \in DOMAIN due /\ Free(due[i]) /\ \A j \in 1..i - 1 : ~Free(due[j])

Init ==
    /\ status = [n \in Notices |-> "absent"]
    /\ due = <<>>
    /\ inactive = {} /\ unwanted = {} /\ unreachable = {}
    /\ mailed = [n \in Notices |-> 0]
    /\ process = [p \in Processes |-> [at |-> "idle", muted |-> FALSE, tries |-> 0, notice |-> None]]
    /\ testing = FALSE
    /\ refreshing = [h \in Handlers |-> NoRefresh]
    /\ faults = 0 /\ changes = 0

-----------------------------------------------------------------------------
(* What goes on around the outbox *)

Fault == faults < MaxFaults /\ faults' = faults + 1

\* An application transaction commits its notice; the row fell due when that
\* transaction began, so it may stand before rows that are visible already.
Enqueue(n) ==
    /\ status[n] = "absent"
    /\ status' = [status EXCEPT ![n] = "pending"]
    /\ \E i \in 1..Len(due) + 1 : due' = InsertAt(due, i, n)
    /\ UNCHANGED <<surroundings, mailed, process, settings, faults, changes>>

\* The recipient's account is offboarded, or let in again.
Deactivate(n) ==
    /\ Change
    /\ \/ inactive' = inactive \cup {n}
       \/ inactive' = inactive \ {n}
    /\ UNCHANGED <<status, due, unwanted, unreachable, mailed, process, settings, faults>>

\* The application is decided, its stage gets another officer, or an officer
\* loses access to it; access may also come back.
Unwant(n) ==
    /\ Change
    /\ \/ unwanted' = unwanted \cup {n}
       \/ unwanted' = unwanted \ {n}
    /\ UNCHANGED <<status, due, inactive, unreachable, mailed, process, settings, faults>>

\* An account's address is removed or entered.
Readdress(n) ==
    /\ Change
    /\ \/ unreachable' = unreachable \cup {n}
       \/ unreachable' = unreachable \ {n}
    /\ UNCHANGED <<status, due, inactive, unwanted, mailed, process, settings, faults>>

\* A failed notice's next_attempt_at passes.
FallDue(n) ==
    /\ status[n] = "pending"
    /\ n \notin Range(due)
    /\ due' = Append(due, n)
    /\ UNCHANGED <<status, surroundings, mailed, process, settings, faults, changes>>

-----------------------------------------------------------------------------
(* deliverLeaveNotifications, on the timer of each process *)

\* A failed notice leaves the due ones: its next_attempt_at lies ahead.
BackOffFaulty(n) == due' = due

BackOff(n) == due' = RemoveFirst(due, n)

Become(p, at, tries, n) ==
    process' = [process EXCEPT ![p] =
                  [at |-> at, muted |-> process[p].muted, tries |-> tries, notice |-> n]]
NextTry(p) == Become(p, "run", process[p].tries + 1, None)
EndRun(p) == Become(p, "idle", 0, None)

Settle(n, outcome) ==
    /\ status' = [status EXCEPT ![n] = outcome]
    /\ due' = RemoveFirst(due, n)

\* The timer fires while no run of this process is under way and mail is not muted.
StartRun(p) ==
    /\ process[p].at = "idle" /\ ~process[p].muted
    /\ Become(p, "run", 0, None)
    /\ UNCHANGED <<status, due, surroundings, mailed, settings, faults, changes>>

\* The first free row; prepareNotification refuses it, cannot address it, refuses
\* it after all, or makes a message of it.
Pick(p) ==
    /\ process[p].at = "run" /\ process[p].tries < Limit
    /\ \E i \in DOMAIN due :
        /\ IsNext(i)
        /\ LET n == due[i] IN
            \/ n \in inactive \cup (unwanted \ unreachable) /\ Settle(n, "skipped") /\ NextTry(p)
            \/ n \in unreachable \ inactive /\ BackOff(n) /\ NextTry(p) /\ UNCHANGED status
            \/ /\ n \notin inactive \cup unwanted \cup unreachable
               /\ Become(p, "mailing", process[p].tries, n)
               /\ UNCHANGED <<status, due>>
    /\ UNCHANGED <<surroundings, mailed, settings, faults, changes>>

StopRun(p) ==
    /\ process[p].at = "run"
    /\ process[p].tries = Limit \/ \A n \in Range(due) : ~Free(n)
    /\ EndRun(p)
    /\ UNCHANGED <<status, due, surroundings, mailed, settings, faults, changes>>

\* sendMail finds testing mode on: the run pauses and the row stays as it is.
Pause(p) ==
    /\ process[p].at = "mailing" /\ process[p].muted
    /\ EndRun(p)
    /\ UNCHANGED <<status, due, surroundings, mailed, settings, faults, changes>>

Accept(p, n) ==
    /\ process[p].at = "mailing" /\ process[p].notice = n /\ ~process[p].muted
    /\ mailed' = [mailed EXCEPT ![n] = @ + 1]
    /\ Become(p, "accepted", process[p].tries, n)
    /\ UNCHANGED <<status, due, surroundings, settings, faults, changes>>

RefuseFaulty(p) ==
    /\ process[p].at = "mailing" /\ ~process[p].muted
    /\ Settle(process[p].notice, "skipped")
    /\ NextTry(p)
    /\ UNCHANGED <<surroundings, mailed, settings, faults, changes>>

Refuse(p) ==
    /\ process[p].at = "mailing" /\ ~process[p].muted
    /\ BackOff(process[p].notice)
    /\ NextTry(p)
    /\ UNCHANGED <<status, surroundings, mailed, settings, faults, changes>>

\* The mail server takes the message and its answer is lost.
LoseAnswer(p) ==
    /\ process[p].at = "mailing" /\ ~process[p].muted
    /\ Fault
    /\ mailed' = [mailed EXCEPT ![process[p].notice] = @ + 1]
    /\ BackOff(process[p].notice)
    /\ NextTry(p)
    /\ UNCHANGED <<status, surroundings, settings, changes>>

Record(p) ==
    /\ process[p].at = "accepted"
    /\ Settle(process[p].notice, "sent")
    /\ NextTry(p)
    /\ UNCHANGED <<surroundings, mailed, settings, faults, changes>>

\* The database connection fails: the transaction is undone, the UPDATE of the
\* catch block fails with it, and the run ends.
LoseConnection(p) ==
    /\ process[p].at \in {"run", "mailing", "accepted"}
    /\ Fault
    /\ EndRun(p)
    /\ UNCHANGED <<status, due, surroundings, mailed, settings, changes>>

Crash(p) ==
    /\ process[p].at # "down"
    /\ Fault
    /\ process' = [process EXCEPT ![p] = [at |-> "down", muted |-> FALSE, tries |-> 0, notice |-> None]]
    /\ refreshing' = [h \in Handlers |-> IF refreshing[h].by = p THEN NoRefresh ELSE refreshing[h]]
    /\ UNCHANGED <<status, due, surroundings, mailed, testing, changes>>

\* The process starts: refreshTestingModeSetting, then the first run.  A refresh that
\* fails leaves the mode off, and the start goes on.
Restart(p) ==
    /\ process[p].at = "down"
    /\ \E b \in BOOLEAN :
        /\ process' = [process EXCEPT ![p] = [at |-> "idle", muted |-> b, tries |-> 0, notice |-> None]]
        /\ \/ b = testing /\ faults' = faults
           \/ ~b /\ Fault
    /\ UNCHANGED <<status, due, surroundings, mailed, settings, changes>>

-----------------------------------------------------------------------------
(* The administrator's page: POST and GET /admin/testing-mode *)

SetTesting(h, p, b) ==
    /\ refreshing[h].at = "done" /\ process[p].at # "down"
    /\ Change
    /\ testing' = b
    /\ refreshing' = [refreshing EXCEPT ![h] = [at |-> "reading", by |-> p, value |-> FALSE]]
    /\ UNCHANGED <<status, due, surroundings, mailed, process, faults>>

ViewTesting(h, p) ==
    /\ refreshing[h].at = "done" /\ process[p].at # "down"
    /\ Change
    /\ refreshing' = [refreshing EXCEPT ![h] = [at |-> "reading", by |-> p, value |-> FALSE]]
    /\ UNCHANGED <<status, due, surroundings, mailed, process, testing, faults>>

\* refreshTestingModeSetting: the row is read, and its value comes back to the process.
ReadTesting(h) ==
    /\ refreshing[h].at = "reading"
    /\ refreshing' = [refreshing EXCEPT ![h].at = "read", ![h].value = testing]
    /\ UNCHANGED <<status, due, surroundings, mailed, process, testing, faults, changes>>

KeepTesting(h) ==
    /\ refreshing[h].at = "read"
    /\ process' = [process EXCEPT ![refreshing[h].by].muted = refreshing[h].value]
    /\ refreshing' = [refreshing EXCEPT ![h] = NoRefresh]
    /\ UNCHANGED <<status, due, surroundings, mailed, testing, faults, changes>>

\* The row cannot be read: the process takes the mode for off.
FailRefresh(h) ==
    /\ refreshing[h].at # "done"
    /\ Fault
    /\ process' = [process EXCEPT ![refreshing[h].by].muted = FALSE]
    /\ refreshing' = [refreshing EXCEPT ![h] = NoRefresh]
    /\ UNCHANGED <<status, due, surroundings, mailed, testing, changes>>

-----------------------------------------------------------------------------
Deliver(p) == StartRun(p) \/ Pick(p) \/ StopRun(p) \/ Pause(p) \/ Record(p)
              \/ Refuse(p) \/ LoseAnswer(p) \/ LoseConnection(p)

Next ==
    \/ \E n \in Notices : Enqueue(n) \/ Deactivate(n) \/ Unwant(n) \/ Readdress(n) \/ FallDue(n)
    \/ \E p \in Processes : Deliver(p) \/ Crash(p) \/ Restart(p) \/ \E n \in Notices : Accept(p, n)
    \/ \E h \in Handlers :
        \/ ReadTesting(h) \/ KeepTesting(h) \/ FailRefresh(h)
        \/ \E p \in Processes : ViewTesting(h, p) \/ \E b \in BOOLEAN : SetTesting(h, p, b)

Spec == Init /\ [][Next]_vars

\* Timers fire, time passes, transactions end, requests are answered and a
\* stopped process is started again; the mail server, asked for one notice
\* again and again, takes it in the end.
Fairness ==
    /\ \A n \in Notices : WF_vars(FallDue(n)) /\ SF_vars(\E p \in Processes : Accept(p, n))
    /\ \A p \in Processes : WF_vars(Restart(p))
                            /\ WF_vars(StartRun(p) \/ Pick(p) \/ StopRun(p) \/ Pause(p) \/ Record(p)
                                       \/ Refuse(p))
    /\ \A h \in Handlers : WF_vars(ReadTesting(h) \/ KeepTesting(h))

FairSpec == Spec /\ Fairness

-----------------------------------------------------------------------------
TypeOK ==
    /\ status \in [Notices -> Statuses]
    /\ due \in Seq(Notices) /\ IsInjective(due) /\ \A n \in Range(due) : status[n] = "pending"
    /\ inactive \subseteq Notices /\ unwanted \subseteq Notices /\ unreachable \subseteq Notices
    /\ mailed \in [Notices -> 0..MaxFaults + 1]
    /\ process \in [Processes -> Process]
    /\ testing \in BOOLEAN
    /\ refreshing \in [Handlers -> Refresh]
    /\ faults \in 0..MaxFaults /\ changes \in 0..MaxChanges

\* Nobody is mailed the same notice twice unless a transaction was lost between the mail
\* server taking the message and the row saying so: processes side by side, retries and late
\* rows alone never repeat one.
Repeats == SumFunction([n \in Notices |-> IF mailed[n] > 1 THEN mailed[n] - 1 ELSE 0])
RepeatsAreFaults == Repeats <= faults

\* The variables have their types, and only faults repeat a mail.
DeliveryInv == TypeOK /\ RepeatsAreFaults

\* "An accepted application cannot lose its notification if SMTP is unavailable or the process
\* restarts": whatever fails, a notice counts as sent only when the mail server has it, stays
\* on the outbox otherwise until it is mailed or found unwanted, and is final from then on.
Promise == INSTANCE NoticePromise WITH
    owed <- {n \in Notices : status[n] = "pending"},
    told <- {n \in Notices : mailed[n] > 0},
    closed <- {n \in Notices : status[n] \in {"sent", "skipped"}},
    moot <- inactive \cup unwanted
KeepsPromise == Promise!Spec

\* Once one process has mail on for good, every notice whose recipient has an address is
\* settled in the end, however often runs fail, however many processes share the outbox,
\* whatever the others hold for the testing mode, and whatever becomes of the notices queued
\* beside it: a failing one never holds up another.
EveryNoticeSettles ==
    \A n \in Notices :
        ((\E p \in Processes : <>[]~process[p].muted) /\ <>[](n \notin unreachable))
            => (status[n] = "pending" ~> status[n] \in {"sent", "skipped"})

\* "Testing mode disabled. Emails will send normally.": when the switch stays off, every
\* process has mail on in the end.  Of two requests that refresh one process, the one that read
\* TRUE may be kept last, and other processes are not told: mail stays muted.
SwitchTakesEffect == <>[]~testing => <>[](\A p \in Processes : ~process[p].muted)
=============================================================================
