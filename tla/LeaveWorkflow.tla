--------------------------- MODULE LeaveWorkflow ---------------------------
(***************************************************************************)
(* Government leave applications of one employee: submission, approval     *)
(* through dated offices, and the entitlement ledger under them            *)
(* (services/governmentLeaveWorkflow.js, governmentLeave.js, and of        *)
(* governmentLeaveCases.js the changes of pending and of granted leave).   *)
(*                                                                         *)
(* Every handler is one transaction that first locks the employee's row,   *)
(* so the handlers of one employee follow each other and each is a step    *)
(* here.  What they are up against is outside the lock: a decision carries *)
(* the stage and the binding its officer saw on a screen, it may arrive    *)
(* late or twice, offices and accounts change between the approvals of a   *)
(* route, and the newest binding of a stage is the one whose transaction   *)
(* began last (recorded_at is NOW()), not the one that committed last.     *)
(*                                                                         *)
(* Modelled are applications for Medical and Special leave through routes  *)
(* in which each stage is another office; each day taken is charged to the *)
(* entitlement of its service year.  Granted leave is cut short or         *)
(* cancelled by an application of its own, a change, that is approved      *)
(* along a route too.  A check against policy, calendar or evidence can    *)
(* only refuse a call, and a refused call is not a step.                   *)
(***************************************************************************)
EXTENDS Integers, FiniteSets, Functions, Sequences

CONSTANTS
    Accounts,       \* accounts linked to an employee record
    Employee,       \* the account of the employee whose leave this is
    Central,        \* accounts with the central HR role
    Requests,       \* request ids that clients draw
    LastStage,      \* a route has the stages 0..LastStage
    NoDelegation,   \* stages whose officer has no substitute: chief_secretary
    Entitlements,   \* the employee's entitlements, one of each service year
    Opening,        \* their opening amounts
    LastDay,        \* working days are 1..LastDay
    YearOf,         \* the entitlement each day is charged to
    Keys,           \* event keys that clients draw for decisions
    CorrectionKeys, \* event keys that clients draw for corrections
    Amounts,        \* amounts of corrections
    Handlers,       \* rebinding requests that may be in progress at once
    None,
    MaxChanges,     \* bound on the changes of granted leave that are requested
    Movable,        \* bound: the accounts that may lose and regain capabilities
    Closable,       \* bound: the stages whose office may fall vacant
    MaxOffice,      \* bound on appointments
    MaxClock        \* bound on rebinding requests

Stages == 0..LastStage
Days == 1..LastDay

ASSUME AccountsAssumption == Employee \in Accounts /\ Central \subseteq Accounts
ASSUME LedgerAssumption ==
    /\ IsFiniteSet(Entitlements) /\ Opening \in [Entitlements -> Nat] /\ YearOf \in [Days -> Entitlements]
    /\ Amounts \subseteq Int
    /\ Requests \cap CorrectionKeys = {}    \* event keys begin with what they are keys of
ASSUME BoundsAssumption ==
    /\ LastStage \in Nat /\ LastDay \in Nat
    /\ MaxChanges \in Nat /\ MaxOffice \in Nat /\ MaxClock \in Nat /\ Movable \subseteq Accounts
    /\ Closable \subseteq Stages

VARIABLES
    request,        \* hr_gov_requests
    bindings,       \* hr_gov_stage_bindings of each stage of each request
    decision,       \* hr_gov_decisions, by the stage they decide
    link,           \* hr_gov_case_links: the granted leave a request changes, and how
    effects,        \* hr_gov_case_effects: the changes made of each granted leave
    reservation,    \* hr_gov_reservation_requests: what became of each hold
    ledger,         \* hr_gov_ledger
    notices,        \* hr_gov_notifications
    office,         \* the appointment in effect at each level of the route
    appointed,      \* how many appointments there have been
    able,           \* accounts that are active and hold their capabilities
    calls,          \* decisions sent by clients, by event key
    rebinding,      \* rebinding requests in progress
    clock,          \* orders the beginnings of rebinding transactions
    register, receipt, work     \* the payroll registers, which only LeavePayroll's calls change

payroll == <<register, receipt, work>>
workflow == <<request, bindings, decision, link, effects, reservation, ledger, notices, office,
              appointed, able, calls, rebinding, clock>>
vars == <<workflow, payroll>>
environment == <<office, appointed, able, payroll>>
changes == <<link, effects>>

-----------------------------------------------------------------------------
Verdicts == {"approved", "rejected"}
Request == [status: {"absent"}, days: {{}}, stage: {0}, by: {None}]
           \cup [status: {"pending", "cancelled"} \cup Verdicts, days: (SUBSET Days) \ {{}},
                 stage: Stages, by: Accounts]
Binding == [at: Nat, officer: Accounts, office: Nat, substitute: BOOLEAN]
Call == [by: Accounts, req: Requests, stage: Stages, binding: Nat, verdict: Verdicts]
Decision == [by: Accounts, verdict: Verdicts, key: Keys]
Kinds == {"cancel_grant", "shorten_grant"}
Link == [of: Requests, action: Kinds]
Effect == [by: Requests, action: Kinds, days: SUBSET Days]
Posting == [kind: {"opening", "use", "correction", "reversal"},
            ref: Requests \cup CorrectionKeys \cup {None}, ent: Entitlements, amount: Int]
Notice == [kind: {"approval"}, req: Requests, stage: Stages, at: Nat, to: Accounts]
          \cup [kind: {"decision"}, key: Keys, to: Accounts]
Rebinding == [req: Requests, stage: Stages, officer: Accounts, at: Nat]
Office == [id: Nat, officer: Accounts]
Reservations == {"held", "released", "consumed"}

\* None is SQL's NULL or an absent row, and no value of any column.
ASSUME NoneAssumption ==
    None \notin Accounts \cup Requests \cup CorrectionKeys \cup Keys \cup Reservations
                \cup Decision \cup Link \cup Call \cup Rebinding \cup Office

Open(r) == request[r].status = "pending"
Absence(r) == link[r] = None

\* The days an application stands for: none once it is cancelled, those up to the
\* latest effective end once it is cut short (effectiveAbsenceSql, effectiveEndSql).
Latest(r) == effects[r][Len(effects[r])]
Taken(r) == IF effects[r] = <<>> THEN request[r].days ELSE Latest(r).days

\* The binding of a stage: ORDER BY recorded_at DESC LIMIT 1.
Newest(bs) == CHOOSE b \in bs : \A c \in bs : c.at <= b.at
Current(r, s) == Newest(bindings[r][s])

\* bindingIssue finds nothing: the officer is able, the application is neither
\* theirs nor of their making, and they, or who delegated to them, hold the office.
Sound(b, s, submitter) ==
    /\ b.officer \in able
    /\ b.officer \notin {Employee, submitter}
    /\ office[s] # None
    /\ office[s].id = b.office
    /\ b.substitute \/ office[s].officer = b.officer

-----------------------------------------------------------------------------
(* The ledger *)

Total(ps, e) == SumFunction([p \in {q \in ps : q.ent = e} |-> p.amount])
Balance(e) == Total(ledger, e)
Charge(days, e) == Cardinality({d \in days : YearOf[d] = e})
Held(rs, e) == SumFunction([r \in rs |-> Charge(request[r].days, e)])
Holds == {r \in Requests : reservation[r] = "held"}

\* event_key is UNIQUE, and a correction's does not name the entitlement.
Unposted(p) ==
    ~\E q \in ledger : q.kind = p.kind /\ q.ref = p.ref /\ (p.ref \in Requests => q.ent = p.ent)

\* A posting may spend neither what others hold nor what is not there.
AffordableFaulty(p, holds) == p.amount < 0 => Balance(p.ent) + p.amount >= 0

Affordable(p, holds) == p.amount < 0 => Balance(p.ent) + p.amount >= Held(holds, p.ent)

\* What finishReservation posts for a hold it consumes.
Uses(r) ==
    {[kind |-> "use", ref |-> r, ent |-> e, amount |-> -Charge(request[r].days, e)] :
        e \in {YearOf[d] : d \in request[r].days}}

\* What grantCaseEffects gives back of each use of the changed leave, beyond what
\* earlier changes of it returned.
Returned(o, e) == Total({p \in ledger : p.kind = "reversal" /\ p.ref \in {effects[o][i].by : i \in DOMAIN effects[o]}}, e)

RefundFaulty(r, p) ==
    LET o == link[r].of
    IN  IF link[r].action = "cancel_grant"
        THEN -p.amount - Returned(o, p.ent)
        ELSE Charge({d \in request[o].days : \A e \in request[r].days : e <= d}, p.ent) - Returned(o, p.ent)

Refund(r, p) ==
    LET o == link[r].of
    IN  IF link[r].action = "cancel_grant"
        THEN -p.amount - Returned(o, p.ent)
        ELSE Charge({d \in request[o].days : \A e \in request[r].days : e < d}, p.ent) - Returned(o, p.ent)

UsesOf(o) == {p \in ledger : p.kind = "use" /\ p.ref = o}

Refunds(r) ==
    {[kind |-> "reversal", ref |-> r, ent |-> p.ent, amount |-> Refund(r, p)] :
        p \in {q \in UsesOf(link[r].of) : Refund(r, q) > 0}}

Correct(k, e, n) ==
    /\ Central \cap able # {}
    /\ LET p == [kind |-> "correction", ref |-> k, ent |-> e, amount |-> n]
       IN  Unposted(p) /\ Affordable(p, Holds) /\ ledger' = ledger \cup {p}
    /\ UNCHANGED <<request, bindings, decision, changes, reservation, notices, environment, calls, rebinding, clock>>

Reverse(q) ==
    /\ Central \cap able # {}
    /\ q.kind = "correction"
    /\ LET p == [kind |-> "reversal", ref |-> q.ref, ent |-> q.ent, amount |-> -q.amount]
       IN  Unposted(p) /\ Affordable(p, Holds) /\ ledger' = ledger \cup {p}
    /\ UNCHANGED <<request, bindings, decision, changes, reservation, notices, environment, calls, rebinding, clock>>

-----------------------------------------------------------------------------
(* Notices *)

\* queueCurrentLeaveApprover: the officer of the current stage's newest binding.
Announce(r, s, b) == [kind |-> "approval", req |-> r, stage |-> s, at |-> b.at, to |-> b.officer]

ApproverNotice(r, s, bs) == Announce(r, s, Newest(bs))

\* queueLeaveDecision: an intermediate approval is confirmed to its officer; the
\* outcome goes to the employee and to everyone who decided.
DecisionNoticesFaulty(k, r, final, deciders) == {[kind |-> "decision", key |-> k, to |-> u] : u \in deciders}

DecisionNotices(k, r, final, deciders) ==
    {[kind |-> "decision", key |-> k, to |-> u] :
        u \in {calls[k].by} \cup IF final THEN {Employee} \cup deciders ELSE {}}

-----------------------------------------------------------------------------
(* Submission, and the two calls that cancel a request and submit another *)

\* A request of submitter u for these days, against the requests and holds that
\* stand, with the officers in office: all of it or nothing.
OfficeBinding(s) ==
    [at |-> 0, officer |-> office[s].officer, office |-> office[s].id, substitute |-> FALSE]

Routable(u) == \A s \in Stages : office[s] # None /\ Sound(OfficeBinding(s), s, u)

Acceptable(r, u, days, others) ==
    /\ request[r].status = "absent"
    /\ \A o \in others : Taken(o) \cap days = {}
    /\ \A e \in Entitlements : Charge(days, e) <= Balance(e) - Held(others \cap Holds, e)
    /\ Routable(u)

Placed(r, u, days, requests) ==
    [requests EXCEPT ![r] = [status |-> "pending", days |-> days, stage |-> 0, by |-> u]]

Bound(r) == [bindings EXCEPT ![r] = [s \in Stages |-> {OfficeBinding(s)}]]

\* The applications for leave that are pending or granted.
Standing == {r \in Requests : Absence(r) /\ request[r].status \in {"pending", "approved"}}
Spans == {d \in SUBSET Days : d # {} /\ \A a, b \in d : a..b \subseteq d}

Submit(r, u, days) ==
    /\ u \in able \cap ({Employee} \cup Central)
    /\ Acceptable(r, u, days, Standing)
    /\ request' = Placed(r, u, days, request)
    /\ bindings' = Bound(r)
    /\ reservation' = [reservation EXCEPT ![r] = "held"]
    /\ notices' = notices \cup {ApproverNotice(r, 0, {OfficeBinding(0)})}
    /\ UNCHANGED <<decision, changes, ledger, environment, calls, rebinding, clock>>

Ended(r, status, requests) == [requests EXCEPT ![r].status = status]

Replace(r, n, u, days) ==
    /\ Open(r) /\ Absence(r)
    /\ Acceptable(n, u, days, Standing \ {r})
    /\ request' = Placed(n, u, days, Ended(r, "cancelled", request))
    /\ bindings' = Bound(n)
    /\ reservation' = [reservation EXCEPT ![r] = "released", ![n] = "held"]
    /\ notices' = notices \cup {ApproverNotice(n, 0, {OfficeBinding(0)})}
    /\ UNCHANGED <<decision, changes, ledger, environment, calls, rebinding, clock>>

\* The officer whose turn it is changes the dates; the submitter stays.
Amend(r, n, days) ==
    /\ Open(r)
    /\ Sound(Current(r, request[r].stage), request[r].stage, request[r].by)
    /\ days # request[r].days
    /\ Replace(r, n, request[r].by, days)

\* Central HR submits it again for fresh approvals, in its own name.
Continue(r, n, u) ==
    /\ u \in Central \cap able
    /\ Open(r)
    /\ Replace(r, n, u, request[r].days)

\* Only an application for leave has a hold.
Released(r) == [reservation EXCEPT ![r] = IF Absence(r) THEN "released" ELSE @]

Cancel(r, u) ==
    /\ u \in able \cap ({Employee} \cup Central)
    /\ Open(r)
    /\ request' = Ended(r, "cancelled", request)
    /\ reservation' = Released(r)
    /\ UNCHANGED <<bindings, decision, changes, ledger, notices, environment, calls, rebinding, clock>>

-----------------------------------------------------------------------------
(* Changes of granted leave: an application of its own, without a hold *)

\* submitCase: one change of an application is pending at a time.
Changing(r, u, c, requests) ==
    /\ Cardinality({q \in Requests : link[q] # None}) < MaxChanges
    /\ request[r].status = "absent"
    /\ request[c.of].status = "approved"
    /\ ~\E q \in Requests : requests[q].status = "pending" /\ link[q] # None /\ link[q].of = c.of
    /\ Routable(u)

\* The days of a change run from the first day of the leave to its new last day.
Beginnings(o) ==
    {d \in Spans : d \subseteq request[o].days /\ \A a \in d, b \in request[o].days : b < a => b \in d}

\* The employee cancels the whole leave, central HR changes it as it likes.
Change(r, u, c, days) ==
    /\ u \in able
    /\ u \in Central \/ (u = Employee /\ c.action = "cancel_grant" /\ days = request[c.of].days)
    /\ Changing(r, u, c, request)
    /\ request' = Placed(r, u, days, request)
    /\ link' = [link EXCEPT ![r] = c]
    /\ bindings' = Bound(r)
    /\ notices' = notices \cup {ApproverNotice(r, 0, {OfficeBinding(0)})}
    /\ UNCHANGED <<decision, effects, reservation, ledger, environment, calls, rebinding, clock>>

\* continueRequest, of a change: as Continue does for an application.
ContinueChange(r, n, u) ==
    /\ u \in Central \cap able
    /\ Open(r) /\ ~Absence(r)
    /\ Changing(n, u, link[r], Ended(r, "cancelled", request))
    /\ request' = Placed(n, u, request[r].days, Ended(r, "cancelled", request))
    /\ link' = [link EXCEPT ![n] = link[r]]
    /\ bindings' = Bound(n)
    /\ notices' = notices \cup {ApproverNotice(n, 0, {OfficeBinding(0)})}
    /\ UNCHANGED <<decision, effects, reservation, ledger, environment, calls, rebinding, clock>>

\* validateAmendment, on the way to the grant: the leave is granted still and not
\* cancelled; it is cut before its current end, or cancelled with it.
ValidChange(r) ==
    LET o == link[r].of
    IN  /\ request[o].status = "approved" /\ Absence(o)
        /\ Taken(o) # {}
        /\ IF link[r].action = "shorten_grant" THEN request[r].days \subseteq Taken(o) /\ request[r].days # Taken(o)
                                                ELSE request[r].days = Taken(o)

-----------------------------------------------------------------------------
(* Decisions *)

\* A client sends a decision for the stage and the binding it is shown, under an
\* event key of its own.  It arrives any number of times, or never.  What anybody
\* but the officer of that binding sends is refused whenever it arrives.
Send(k, r, verdict) ==
    /\ calls[k] = None
    /\ Open(r)
    /\ calls' = [calls EXCEPT ![k] = [by |-> Current(r, request[r].stage).officer, req |-> r, stage |-> request[r].stage,
                                      binding |-> Current(r, request[r].stage).at,
                                      verdict |-> verdict]]
    /\ UNCHANGED <<request, bindings, decision, changes, reservation, ledger, notices, environment, rebinding, clock>>

\* decideRequest, up to its INSERT.  A key that decided already is a replay.
MayDecideFaulty(k, r, s) ==
    /\ \A q \in Requests : \A t \in Stages : decision[q][t] # None => decision[q][t].key # k
    /\ Open(r)
    /\ Current(r, s).officer = calls[k].by
    /\ Sound(Current(r, s), s, request[r].by)

MayDecide(k, r, s) ==
    /\ \A q \in Requests : \A t \in Stages : decision[q][t] # None => decision[q][t].key # k
    /\ Open(r)
    /\ calls[k].stage = s /\ calls[k].binding = Current(r, s).at
    /\ Current(r, s).officer = calls[k].by
    /\ Sound(Current(r, s), s, request[r].by)

Decided(k, r, s) ==
    [decision EXCEPT ![r][s] = [by |-> calls[k].by, verdict |-> calls[k].verdict, key |-> k]]

Deciders(r) == {decision[r][s].by : s \in {t \in Stages : decision[r][t] # None}}

Reject(k) ==
    /\ calls[k] # None
    /\ calls[k].verdict = "rejected"
    /\ LET r == calls[k].req
           s == request[r].stage
       IN  /\ MayDecide(k, r, s)
           /\ decision' = Decided(k, r, s)
           /\ request' = Ended(r, "rejected", request)
           /\ reservation' = Released(r)
           /\ notices' = notices \cup DecisionNotices(k, r, TRUE, Deciders(r))
    /\ UNCHANGED <<bindings, changes, ledger, environment, calls, rebinding, clock>>

Forward(k) ==
    /\ calls[k] # None
    /\ calls[k].verdict = "approved"
    /\ LET r == calls[k].req
           s == request[r].stage
       IN  /\ s < LastStage
           /\ MayDecide(k, r, s)
           /\ decision' = Decided(k, r, s)
           /\ request' = [request EXCEPT ![r].stage = s + 1]
           /\ notices' = notices \cup DecisionNotices(k, r, FALSE, {})
                            \cup {ApproverNotice(r, s + 1, bindings[r][s + 1])}
    /\ UNCHANGED <<bindings, changes, reservation, ledger, environment, calls, rebinding, clock>>

\* finalizeApprovedRequest: every stage approved, every officer still sound; the
\* hold becomes use, or the change takes effect.
Grantable(r, decisions) ==
    \A s \in Stages : /\ decisions[r][s] # None
                      /\ decisions[r][s].verdict = "approved"
                      /\ Sound(Current(r, s), s, request[r].by)

Finish(k, r) ==
    /\ request[r].stage = LastStage
    /\ MayDecide(k, r, LastStage)
    /\ decision' = Decided(k, r, LastStage)
    /\ Grantable(r, Decided(k, r, LastStage))
    /\ request' = Ended(r, "approved", request)
    /\ notices' = notices \cup DecisionNotices(k, r, TRUE, Deciders(r))

Grant(k) ==
    /\ calls[k] # None
    /\ calls[k].verdict = "approved"
    /\ LET r == calls[k].req
       IN  /\ Absence(r)
           /\ Finish(k, r)
           /\ \A p \in Uses(r) : Unposted(p) /\ Affordable(p, Holds \ {r})
           /\ ledger' = ledger \cup Uses(r)
           /\ reservation' = [reservation EXCEPT ![r] = "consumed"]
    /\ UNCHANGED <<bindings, changes, environment, calls, rebinding, clock>>

GrantChange(k) ==
    /\ calls[k] # None
    /\ calls[k].verdict = "approved"
    /\ LET r == calls[k].req
           o == link[r].of
       IN  /\ ~Absence(r)
           /\ Finish(k, r)
           /\ ValidChange(r)
           /\ \A p \in UsesOf(o) : Refund(r, p) \in 0..(-p.amount - Returned(o, p.ent))
           /\ \A p \in Refunds(r) : Unposted(p)
           /\ ledger' = ledger \cup Refunds(r)
           /\ effects' = [effects EXCEPT ![o] = Append(@,
                 [by |-> r, action |-> link[r].action,
                  days |-> IF link[r].action = "cancel_grant" THEN {} ELSE request[r].days])]
    /\ UNCHANGED <<bindings, link, reservation, environment, calls, rebinding, clock>>

-----------------------------------------------------------------------------
(* Rebinding: the transaction has its time when it begins, and its turn later *)

BeginRebind(h, r, s, officer) ==
    /\ rebinding[h] = None
    /\ clock < MaxClock
    /\ Open(r)
    /\ clock' = clock + 1
    /\ rebinding' = [rebinding EXCEPT ![h] = [req |-> r, stage |-> s, officer |-> officer,
                                              at |-> clock + 1]]
    /\ UNCHANGED <<request, bindings, decision, changes, reservation, ledger, notices, environment, calls>>

MayRebindFaulty(r, s) == Open(r)

MayRebind(r, s) == Open(r) /\ decision[r][s] = None

CommitRebind(h) ==
    /\ rebinding[h] # None
    /\ Central \cap able # {}
    /\ LET r == rebinding[h].req
           s == rebinding[h].stage
           b == [at |-> rebinding[h].at, officer |-> rebinding[h].officer,
                 office |-> office[s].id,
                 substitute |-> rebinding[h].officer # office[s].officer]
       IN  /\ MayRebind(r, s)
           /\ office[s] # None
           /\ b.substitute => s \notin NoDelegation
           /\ Sound(b, s, request[r].by)
           /\ bindings' = [bindings EXCEPT ![r][s] = @ \cup {b}]
           /\ notices' = notices \cup
                 {ApproverNotice(r, request[r].stage, bindings'[r][request[r].stage])}
    /\ rebinding' = [rebinding EXCEPT ![h] = None]
    /\ UNCHANGED <<request, decision, changes, reservation, ledger, environment, calls, clock>>

AbandonRebind(h) ==
    /\ rebinding[h] # None
    /\ rebinding' = [rebinding EXCEPT ![h] = None]
    /\ UNCHANGED <<request, bindings, decision, changes, reservation, ledger, notices, environment, calls, clock>>

-----------------------------------------------------------------------------
(* Offices and accounts, which change under their own locks *)

Appoint(s, u) ==
    /\ office[s] = None
    /\ u \in able
    /\ appointed < MaxOffice
    /\ appointed' = appointed + 1
    /\ office' = [office EXCEPT ![s] = [id |-> appointed + 1, officer |-> u]]
    /\ UNCHANGED <<request, bindings, decision, changes, reservation, ledger, notices, able, calls, rebinding, clock, payroll>>

CloseOffice(s) ==
    /\ s \in Closable
    /\ office[s] # None
    /\ office' = [office EXCEPT ![s] = None]
    /\ UNCHANGED <<request, bindings, decision, changes, reservation, ledger, notices, appointed, able, calls,
                   rebinding, clock, payroll>>

ChangeAccount(u) ==
    /\ u \in Movable
    /\ able' = IF u \in able THEN able \ {u} ELSE able \cup {u}
    /\ UNCHANGED <<request, bindings, decision, changes, reservation, ledger, notices, office, appointed, calls,
                   rebinding, clock, payroll>>

-----------------------------------------------------------------------------
Init ==
    /\ request = [r \in Requests |-> [status |-> "absent", days |-> {}, stage |-> 0, by |-> None]]
    /\ bindings = [r \in Requests |-> [s \in Stages |-> {}]]
    /\ decision = [r \in Requests |-> [s \in Stages |-> None]]
    /\ link = [r \in Requests |-> None]
    /\ effects = [r \in Requests |-> <<>>]
    /\ reservation = [r \in Requests |-> None]
    /\ ledger = {[kind |-> "opening", ref |-> None, ent |-> e, amount |-> Opening[e]] : e \in Entitlements}
    /\ notices = {}
    /\ office = [s \in Stages |-> None]
    /\ appointed = 0
    /\ able = Accounts
    /\ calls = [k \in Keys |-> None]
    /\ rebinding = [h \in Handlers |-> None]
    /\ clock = 0
    /\ register = <<>> /\ receipt = <<>> /\ work = <<>>

Next ==
    \/ \E r \in Requests :
          \/ \E u \in Accounts :
                \/ \E days \in Spans : Submit(r, u, days)
                \/ Cancel(r, u)
                \/ \E o \in Requests : \E action \in Kinds, days \in Beginnings(o) :
                      Change(r, u, [of |-> o, action |-> action], days)
                \/ \E h \in Handlers, s \in Stages : BeginRebind(h, r, s, u)
          \/ \E k \in Keys, verdict \in Verdicts : Send(k, r, verdict)
          \/ \E n \in Requests :
                \/ \E days \in Spans : Amend(r, n, days)
                \/ \E u \in Accounts : Continue(r, n, u) \/ ContinueChange(r, n, u)
    \/ \E k \in Keys : Reject(k) \/ Forward(k) \/ Grant(k) \/ GrantChange(k)
    \/ \E h \in Handlers : CommitRebind(h) \/ AbandonRebind(h)
    \/ \E k \in CorrectionKeys, e \in Entitlements, n \in Amounts : Correct(k, e, n)
    \/ \E q \in ledger : Reverse(q)
    \/ \E s \in Stages : CloseOffice(s) \/ \E u \in Accounts : Appoint(s, u)
    \/ \E u \in Accounts : ChangeAccount(u)

Spec == Init /\ [][Next]_vars

-----------------------------------------------------------------------------
(* Properties *)

\* Every table holds what its columns may hold.
TypeOK ==
    /\ request \in [Requests -> Request]
    /\ bindings \in [Requests -> [Stages -> SUBSET Binding]]
    /\ decision \in [Requests -> [Stages -> Decision \cup {None}]]
    /\ link \in [Requests -> Link \cup {None}] /\ effects \in [Requests -> Seq(Effect)]
    /\ reservation \in [Requests -> Reservations \cup {None}]
    /\ ledger \subseteq Posting
    /\ notices \subseteq Notice
    /\ office \in [Stages -> Office \cup {None}]
    /\ able \subseteq Accounts /\ appointed \in Nat /\ clock \in Nat
    /\ calls \in [Keys -> Call \cup {None}]
    /\ rebinding \in [Handlers -> Rebinding \cup {None}]

\* Granted leave has the approval of every stage of its route, rejected leave one
\* rejection, and neither was decided by the employee or by who submitted it,
\* through every change of officer, substitute and submitter on the way.
GrantedByEveryStage ==
    \A r \in Requests :
        /\ request[r].status = "approved" =>
              \A s \in Stages : decision[r][s] # None /\ decision[r][s].verdict = "approved"
        /\ (request[r].status = "rejected") =
              (\E s \in Stages : decision[r][s] # None /\ decision[r][s].verdict = "rejected")
        /\ \A s \in Stages : decision[r][s] # None => decision[r][s].by \notin {Employee, request[r].by}

\* A decision that arrives late or twice decides only the stage its officer was
\* shown, and nothing after it.
DecidesWhatWasShown ==
    \A r \in Requests : \A s \in Stages : decision[r][s] # None =>
        /\ calls[decision[r][s].key].req = r
        /\ calls[decision[r][s].key].stage = s

\* The officer a decided stage is bound to is the one who decided it, however
\* rebinding requests overtake one another and the decision.
DeciderStaysBound ==
    \A r \in Requests : \A s \in Stages :
        decision[r][s] # None => decision[r][s].by = Current(r, s).officer

\* The tables have their types, and what was decided stays with who decided it and
\* has the approvals it needs.
RouteInv == TypeOK /\ DeciderStaysBound /\ GrantedByEveryStage

\* services/governmentLeaveNotifications.js:36, "an accepted application cannot
\* lose its notification": the officer whose turn it is has one queued, for the
\* binding that counts.
ApproverIsTold ==
    \A r \in Requests : Open(r) =>
        Announce(r, request[r].stage, Current(r, request[r].stage)) \in notices

\* The employee and everyone who decided have the outcome queued.
OutcomeIsTold ==
    \A r \in Requests : request[r].status \in Verdicts =>
        \E s \in Stages : /\ decision[r][s] # None
                          /\ \A u \in {Employee} \cup Deciders(r) :
                                [kind |-> "decision", key |-> decision[r][s].key, to |-> u] \in notices

\* Nobody who has to act on an application, or to know of its outcome, is left untold.
EveryoneIsTold == ApproverIsTold /\ OutcomeIsTold

\* An entitlement always covers what is held from it.
NeverOverdrawn == \A e \in Entitlements : Balance(e) >= Held(Holds, e)

\* A day of leave is held, used or free with its application: the hold is there
\* while it is pending, use exactly when it is granted, and what was used less what
\* changes gave back is what stands of it, to the day.
UseFollowsGrant ==
    /\ \A r \in {q \in Requests : Absence(q)} :
          /\ Open(r) <=> reservation[r] = "held"
          /\ request[r].status = "approved" <=> reservation[r] = "consumed"
    /\ \A e \in Entitlements :
          Total({p \in ledger : p.kind \in {"use", "reversal"} /\ p.ref \in Requests}, e) =
              -SumFunction([r \in {q \in Standing : request[q].status = "approved"} |-> Charge(Taken(r), e)])

\* No day is in two applications that are pending or granted.
NoDayTwice ==
    \A r, n \in Standing : r # n => Taken(r) \cap Taken(n) = {}

\* Leave that stands is covered by its entitlement, and by days of its own.
LeaveIsCovered == NeverOverdrawn /\ NoDayTwice
=============================================================================
