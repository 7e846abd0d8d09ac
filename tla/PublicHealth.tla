---------------------------- MODULE PublicHealth ----------------------------
(***************************************************************************)
(* Public health allowances: participants and their levels, the pay        *)
(* periods that copy them, and the batches that pay a period               *)
(* (routes/public-health.js, client pages/PublicHealth/PayPeriods.tsx).    *)
(*                                                                         *)
(* A change of level locks its participant and a change of entries locks   *)
(* its period; everything else is single statements.  A browser tab keeps  *)
(* the entries it was last answered with, edits them, saves them, or       *)
(* submits a batch of them and then marks the period.  Its requests for    *)
(* entries may be answered in any order.                                   *)
(*                                                                         *)
(* What a batch goes through is in BatchWorkflow; here it is submitted in  *)
(* one step, and a reviewer approves or rejects it.                        *)
(***************************************************************************)
EXTENDS Integers, FiniteSets

CONSTANTS
    Participants,
    Periods,        \* public_health_pay_periods.id
    PaidOn,         \* their paid dates, which need not differ
    Tabs,           \* browser tabs of the officers
    TopLevel,       \* levels are LV0, which is not paid, to this one
    Amounts,        \* what a tier may pay a month
    None,
    MaxBatches,     \* bound on batches
    MaxAwaited,     \* bound on the answers a tab awaits at once
    MaxChanges      \* bound on what officers change

ASSUME NoneAssumption == None \notin Participants \cup Periods
ASSUME BoundsAssumption ==
    /\ TopLevel \in Nat \ {0} /\ {MaxBatches, MaxAwaited, MaxChanges} \subseteq Nat
    /\ Amounts \subseteq Nat /\ 0 \in Amounts

VARIABLES
    tier,           \* public_health_tiers.monthly_amount
    status,         \* public_health_participants.status
    open,           \* how many public_health_participant_levels of each level have no effective_to
    period,         \* public_health_pay_periods, and public_health_period_entries
    batch,          \* batch_archives of workflow public_health, in the order of submission
    tab,            \* what each tab shows and awaits
    op,             \* the transaction each tab has in progress
    changes

vars == <<tier, status, open, period, batch, tab, op, changes>>

-----------------------------------------------------------------------------
Levels == 0..TopLevel
Entry == [level: Levels, active: BOOLEAN, amount: Amounts]
Entries == UNION {[ps -> Entry] : ps \in SUBSET Participants}
NoEntries == [p \in {} |-> None]
NoPeriod == [at |-> "none", entries |-> NoEntries]
Idle == [kind |-> "idle"]
Blank == [shows |-> None, from |-> None, entries |-> NoEntries, awaits |-> {}]

Change == changes < MaxChanges /\ changes' = changes + 1
Go(t, state) == op' = [op EXCEPT ![t] = state]
Done(t) == Go(t, Idle)

\* FOR UPDATE holds the participant whose level changes, and the period whose entries do.
HeldFaulty(p) == FALSE
Held(p) == \E t \in Tabs : op[t].kind = "level" /\ op[t].participant = p
PeriodHeldFaulty(d) == FALSE
PeriodHeld(d) == \E t \in Tabs : op[t].kind = "save" /\ op[t].period = d

\* The level a participant is paid at: one that is open, LV1 if there is none.
CurrentLevel(p) ==
    IF \A l \in Levels : open[p][l] = 0 THEN 1 ELSE CHOOSE l \in Levels : open[p][l] > 0

Init ==
    /\ tier = [l \in Levels |-> 0]
    /\ status = [p \in Participants |-> "none"]
    /\ open = [p \in Participants |-> [l \in Levels |-> 0]]
    /\ period = [d \in Periods |-> NoPeriod]
    /\ batch = [n \in 1..0 |-> None]
    /\ tab = [t \in Tabs |-> Blank]
    /\ op = [t \in Tabs |-> Idle]
    /\ changes = 0

-----------------------------------------------------------------------------
(* Tiers and participants *)

SetTier(l, amount) ==
    /\ Change /\ tier[l] # amount
    /\ tier' = [tier EXCEPT ![l] = amount]
    /\ UNCHANGED <<status, open, period, batch, tab, op>>

\* POST /participants and /participants/import: the participant with a first level.
Add(p) ==
    /\ Change /\ status[p] = "none"
    /\ status' = [status EXCEPT ![p] = "active"]
    /\ open' = [open EXCEPT ![p][1] = 1]
    /\ UNCHANGED <<tier, period, batch, tab, op>>

\* DELETE /participants/:id.
Deactivate(p) ==
    /\ Change /\ status[p] = "active" /\ ~Held(p)
    /\ status' = [status EXCEPT ![p] = "inactive"]
    /\ UNCHANGED <<tier, open, period, batch, tab, op>>

\* PATCH /participants/:id: what the request does not name is written as it was read.
ReadParticipant(t, p) ==
    /\ op[t] = Idle /\ Change /\ status[p] # "none"
    /\ \E named \in BOOLEAN, s \in {"active", "inactive"} :
        /\ named \/ s = status[p]
        /\ Go(t, [kind |-> "edit", participant |-> p, status |-> s, named |-> named])
    /\ UNCHANGED <<tier, status, open, period, batch, tab>>

WriteParticipant(t) ==
    /\ op[t].kind = "edit" /\ ~Held(op[t].participant)
    /\ status' = [status EXCEPT ![op[t].participant] = op[t].status]
    /\ Done(t)
    /\ UNCHANGED <<tier, open, period, batch, tab, changes>>

\* PATCH /participants/:id/level: the levels its UPDATE finds open are closed ...
BeginLevel(t, p, l) ==
    /\ op[t] = Idle /\ Change /\ status[p] # "none" /\ ~Held(p)
    /\ Go(t, [kind |-> "level", participant |-> p, level |-> l, closes |-> open[p]])
    /\ UNCHANGED <<tier, status, open, period, batch, tab>>

\* ... and the new one is opened with them.
CommitLevel(t) ==
    /\ op[t].kind = "level"
    /\ open' = [open EXCEPT ![op[t].participant] =
            [l \in Levels |-> @[l] - op[t].closes[l] + (IF l = op[t].level THEN 1 ELSE 0)]]
    /\ Done(t)
    /\ UNCHANGED <<tier, status, period, batch, tab, changes>>

-----------------------------------------------------------------------------
(* Pay periods *)

\* POST /pay-periods: the active participants, with their levels and what these pay.
Copied == [p \in {q \in Participants : status[q] = "active"} |->
    LET l == CurrentLevel(p) IN [level |-> l, active |-> l # 0, amount |-> tier[l]]]

Create(d) ==
    /\ Change /\ period[d].at = "none"
    /\ period' = [period EXCEPT ![d] = [at |-> "draft", entries |-> Copied]]
    /\ UNCHANGED <<tier, status, open, batch, tab, op>>

\* openPeriod shows the period and asks for its entries, ...
Open(t, d) ==
    /\ op[t] = Idle /\ period[d].at # "none" /\ tab[t].shows = None
    /\ Cardinality(tab[t].awaits) < MaxAwaited
    /\ tab' = [tab EXCEPT ![t].shows = d, ![t].awaits = @ \cup {[period |-> d, entries |-> period[d].entries]}]
    /\ UNCHANGED <<tier, status, open, period, batch, op, changes>>

\* ... and any answer replaces what the tab holds, whichever period it was for.
Answer(t, a) ==
    /\ a \in tab[t].awaits
    /\ tab' = [tab EXCEPT ![t].from = a.period, ![t].entries = a.entries, ![t].awaits = @ \ {a}]
    /\ UNCHANGED <<tier, status, open, period, batch, op, changes>>

\* toggleActive; the box of an entry at LV0 is disabled.
Toggle(t, p) ==
    /\ op[t] = Idle /\ Change /\ tab[t].shows # None
    /\ p \in DOMAIN tab[t].entries /\ tab[t].entries[p].level # 0
    /\ tab' = [tab EXCEPT ![t].entries[p].active = ~@]
    /\ UNCHANGED <<tier, status, open, period, batch, op>>

\* PUT /pay-periods/:id/entries: only a draft is changed, and it is held while it is.
LockForSave(t) ==
    /\ op[t] = Idle /\ Change
    /\ LET d == tab[t].shows IN
        /\ d # None /\ ~PeriodHeld(d) /\ period[d].at = "draft"
        /\ Go(t, [kind |-> "save", period |-> d, entries |-> tab[t].entries])
    /\ UNCHANGED <<tier, status, open, period, batch, tab>>

\* An entry is found by its participant, and stays inactive at LV0.
Saved(was, sent) == [p \in DOMAIN was |->
    IF p \in DOMAIN sent THEN [was[p] EXCEPT !.active = was[p].level # 0 /\ sent[p].active] ELSE was[p]]

CommitSave(t) ==
    /\ op[t].kind = "save"
    /\ period' = [period EXCEPT ![op[t].period].entries = Saved(@, op[t].entries)]
    /\ Done(t)
    /\ UNCHANGED <<tier, status, open, batch, tab, changes>>

-----------------------------------------------------------------------------
(* Payment *)

Paid(entries) == {p \in DOMAIN entries : entries[p].active /\ entries[p].amount > 0}
PdTaken(d) == \E n \in DOMAIN batch : PaidOn[batch[n].period] = PaidOn[d] /\ batch[n].stage # "rejected"

\* generateAba pays what the tab holds, under the PD of the paid date it shows; the tab may not
\* know yet that the period was submitted.
Post(t) ==
    /\ op[t] = Idle /\ Cardinality(DOMAIN batch) < MaxBatches
    /\ LET d == tab[t].shows
           n == Cardinality(DOMAIN batch) + 1
       IN  /\ d # None /\ Paid(tab[t].entries) # {} /\ ~PdTaken(d)
           /\ batch' = [k \in 1..n |-> IF k < n THEN batch[k] ELSE
                    [period |-> d, from |-> tab[t].from, pays |-> Paid(tab[t].entries), stage |-> "submitted"]]
           /\ Go(t, [kind |-> "mark", period |-> d])
    /\ UNCHANGED <<tier, status, open, period, tab, changes>>

\* PATCH /pay-periods/:id/status, after the batch was accepted; the tab closes the period.
Mark(t) ==
    /\ op[t].kind = "mark" /\ ~PeriodHeld(op[t].period)
    /\ period' = [period EXCEPT ![op[t].period].at = "submitted"]
    /\ tab' = [tab EXCEPT ![t].shows = None]
    /\ Done(t)
    /\ UNCHANGED <<tier, status, open, batch, changes>>

\* PATCH /batches/:code/stage; a decision may be reversed.
Review(n, stage) ==
    /\ n \in DOMAIN batch /\ batch[n].stage # stage
    /\ batch' = [batch EXCEPT ![n].stage = stage]
    /\ UNCHANGED <<tier, status, open, period, tab, op, changes>>

\* A request fails, or the tab is closed before it made the next one.
Fail(t) ==
    /\ op[t] # Idle
    /\ Done(t)
    /\ UNCHANGED <<tier, status, open, period, batch, tab, changes>>

Back(t) ==
    /\ op[t] = Idle /\ tab[t].shows # None
    /\ tab' = [tab EXCEPT ![t].shows = None]
    /\ UNCHANGED <<tier, status, open, period, batch, op, changes>>

Next ==
    \/ \E l \in Levels, a \in Amounts : SetTier(l, a)
    \/ \E p \in Participants : Add(p) \/ Deactivate(p)
    \/ \E d \in Periods : Create(d)
    \/ \E t \in Tabs :
        \/ \E p \in Participants : ReadParticipant(t, p) \/ Toggle(t, p) \/ \E l \in Levels : BeginLevel(t, p, l)
        \/ \E d \in Periods : Open(t, d)
        \/ \E a \in tab[t].awaits : Answer(t, a)
        \/ WriteParticipant(t) \/ CommitLevel(t) \/ LockForSave(t) \/ CommitSave(t) \/ Post(t) \/ Mark(t) \/ Fail(t) \/ Back(t)
    \/ \E n \in DOMAIN batch, s \in {"approved", "rejected"} : Review(n, s)

Spec == Init /\ [][Next]_vars

-----------------------------------------------------------------------------
TypeOK ==
    /\ tier \in [Levels -> Amounts]
    /\ status \in [Participants -> {"none", "active", "inactive"}]
    /\ open \in [Participants -> [Levels -> Nat]]
    /\ \A d \in Periods : /\ period[d].at \in {"none", "draft", "submitted"}
                          /\ \A p \in DOMAIN period[d].entries : period[d].entries[p] \in Entry
    /\ \A n \in DOMAIN batch : /\ batch[n].period \in Periods /\ batch[n].from \in Periods
                               /\ batch[n].pays \subseteq Participants
    /\ \A t \in Tabs : tab[t].shows \in Periods \cup {None}
    /\ changes \in 0..MaxChanges

\* public-health.js:295, "two changes for one person queue up instead of both closing the open
\* level and each opening another": there is one open level, and never none.
OneOpenLevel == \A p \in Participants : status[p] # "none" =>
    \E l \in Levels : open[p] = [k \in Levels |-> IF k = l THEN 1 ELSE 0]

\* public-health.js:476, LV0 "is never activatable", whichever tab saved whatever
\* it held, and no batch pays somebody at LV0 in the entries it was made of.
UnpaidLevel ==
    /\ \A d \in Periods : \A p \in DOMAIN period[d].entries :
            period[d].entries[p].level = 0 => ~period[d].entries[p].active
    /\ \A n \in DOMAIN batch : \A p \in batch[n].pays : period[batch[n].from].entries[p].level # 0

\* A period is marked only after a batch of it was accepted.
SubmittedWasPosted ==
    \A d \in Periods : period[d].at = "submitted" => \E n \in DOMAIN batch : batch[n].period = d

\* The tables have their types; levels, entries and batches agree.
AllowanceInv == TypeOK /\ OneOpenLevel /\ UnpaidLevel /\ SubmittedWasPosted

\* public-health.js:467, "a period submitted meanwhile must not be edited under the reviewer":
\* entries change only in a draft, however saving and submitting cross.
EntriesStayUnderReview ==
    [][\A d \in Periods : period[d].at = "submitted" => period'[d].entries = period[d].entries]_vars

\* Only an edit that names the status makes a participant active again.  One that read it
\* before the deactivation breaks this: it writes back the status it read.
DeactivationStays ==
    [][\A p \in Participants : status[p] = "inactive" /\ status'[p] = "active" =>
        \E t \in Tabs : op[t].kind = "edit" /\ op[t].participant = p /\ op[t].named]_vars

\* A batch is made of the entries of its own period.  A late answer breaks this: the tab shows
\* one period and holds another's entries.
BatchOfItsPeriod == \A n \in DOMAIN batch : batch[n].from = batch[n].period
=============================================================================
