---------------------------- MODULE LeaveProofs -----------------------------
(***************************************************************************)
(* What LeaveWorkflow guarantees on routes of any length, with any number  *)
(* of applications, accounts, appointments and rebinding requests; and what *)
(* the payroll registers of LeavePayroll tell, with any number of registers *)
(* and calls, beside a workflow that never waits for them.                 *)
(***************************************************************************)
EXTENDS LeavePayroll, ArithmeticFacts, TLAPS

-----------------------------------------------------------------------------
(* The bindings of a stage *)

\* Every binding was made by a transaction that has begun, and an application has
\* one for each stage of its route.
BindingsKnown ==
    /\ \A r \in Requests, s \in Stages : \A b \in bindings[r][s] : b.at <= clock
    /\ \A r \in Requests, s \in Stages : request[r].status # "absent" => bindings[r][s] # {}
    /\ \A h \in Handlers : rebinding[h] # None => rebinding[h].at <= clock

\* What began last among bindings that have begun is one of them.
LEMMA NewestIsOne ==
    ASSUME NEW bs \in SUBSET Binding, bs # {}, NEW n \in Nat, \A b \in bs : b.at <= n
    PROVE  Newest(bs) \in bs
<1> DEFINE Gaps == {n - b.at : b \in bs}
<1>1. \A b \in bs : b.at \in Nat /\ n - b.at \in Nat
  BY DEF Binding
<1>2. PICK g \in Gaps : \A m \in Gaps : g <= m
  <2>1. Gaps \in SUBSET Nat /\ Gaps # {}
    BY <1>1
  <2> HIDE DEF Gaps
  <2> QED
    BY <2>1, LeastNatural
<1>3. PICK b \in bs : g = n - b.at
  BY <1>2
<1>4. ASSUME NEW c \in bs PROVE c.at <= b.at
  <2>1. n - c.at \in Gaps
    OBVIOUS
  <2>2. n - b.at <= n - c.at
    <3> HIDE DEF Gaps
    <3> QED
      BY <2>1, <1>2, <1>3
  <2>3. c.at \in Nat /\ b.at \in Nat
    BY <1>1
  <2> QED
    BY <2>2, <2>3
<1> QED
  BY <1>4 DEF Newest

LEMMA NewestOfOne ==
    ASSUME NEW b \in Binding
    PROVE  Newest({b}) = b
BY DEF Newest, Binding

LEMMA CurrentIsOne ==
    ASSUME TypeOK, BindingsKnown, NEW r \in Requests, NEW s \in Stages, request[r].status # "absent"
    PROVE  Current(r, s) \in bindings[r][s] /\ Current(r, s) \in Binding
<1>1. bindings[r][s] \in SUBSET Binding /\ clock \in Nat
  BY DEF TypeOK
<1> QED
  BY <1>1, NewestIsOne DEF BindingsKnown, Current

-----------------------------------------------------------------------------
(* The sums of the ledger *)

LEMMA ChargeIsNat ==
    ASSUME NEW days \in SUBSET Days, NEW e
    PROVE  Charge(days, e) \in Nat
<1>1. IsFiniteSet(Days)
  BY FS_Interval, BoundsAssumption DEF Days
<1>2. IsFiniteSet({d \in days : YearOf[d] = e})
  BY <1>1, FS_Subset
<1> QED
  BY <1>2, FS_CardinalityType DEF Charge

LEMMA TotalIsSum ==
    ASSUME NEW ps, NEW e
    PROVE  Total(ps, e) = SumFunctionOnSet([p \in {q \in ps : q.ent = e} |-> p.amount], {q \in ps : q.ent = e})
BY DEF Total, SumFunction

LEMMA TotalIsInt ==
    ASSUME NEW ps \in SUBSET Posting, IsFiniteSet(ps), NEW e
    PROVE  Total(ps, e) \in Int
<1> DEFINE S == {q \in ps : q.ent = e}
           f == [p \in S |-> p.amount]
<1>1. IsFiniteSet(S)
  BY FS_Subset
<1>2. \A p \in S : f[p] \in Int
  BY DEF Posting
<1> HIDE DEF S, f
<1>3. SumFunctionOnSet(f, S) \in Int
  BY <1>1, <1>2, SumType
<1> QED
  BY <1>3, TotalIsSum DEF S, f

\* A posting of an entitlement changes the total of that entitlement alone.
LEMMA TotalAdds ==
    ASSUME NEW ps \in SUBSET Posting, IsFiniteSet(ps), NEW p \in Posting, p \notin ps, NEW e
    PROVE  Total(ps \cup {p}, e) = Total(ps, e) + (IF p.ent = e THEN p.amount ELSE 0)
<1> DEFINE S == {q \in ps : q.ent = e}
           T == {q \in ps \cup {p} : q.ent = e}
           f == [q \in S |-> q.amount]
           g == [q \in T |-> q.amount]
<1>1. IsFiniteSet(S) /\ Total(ps, e) \in Int
  BY FS_Subset, TotalIsInt
<1>2. CASE p.ent # e
  <2>1. T = S
    BY <1>2
  <2> QED
    BY <1>1, <1>2, <2>1 DEF Total
<1>3. CASE p.ent = e
  <2>1. T = S \cup {p} /\ p \notin S /\ g[p] = p.amount
    BY <1>3
  <2>2. \A q \in S \cup {p} : g[q] \in Int
    BY <2>1 DEF Posting
  <2>3. \A q \in S : g[q] = f[q]
    OBVIOUS
  <2> HIDE DEF S, T, f, g
  <2>4. SumFunctionOnSet(g, S \cup {p}) = SumFunctionOnSet(g, S) + g[p]
    BY <1>1, <2>1, <2>2, SumAdd
  <2>5. SumFunctionOnSet(g, S) = SumFunctionOnSet(f, S)
    BY <1>1, <2>3, SumSame
  <2>6. Total(ps, e) = SumFunctionOnSet(f, S) /\ Total(ps \cup {p}, e) = SumFunctionOnSet(g, T)
    BY TotalIsSum DEF S, T, f, g
  <2> QED
    BY <1>3, <2>1, <2>4, <2>5, <2>6
<1> QED
  BY <1>2, <1>3

\* Postings that give never lower a total.
LEMMA TotalGrows ==
    ASSUME NEW qs \in SUBSET Posting, IsFiniteSet(qs), NEW ps \in SUBSET qs,
           \A p \in qs \ ps : p.amount >= 0, NEW e
    PROVE  Total(ps, e) <= Total(qs, e)
<1> DEFINE S == {q \in ps : q.ent = e}
           T == {q \in qs : q.ent = e}
           f == [q \in S |-> q.amount]
           g == [q \in T |-> q.amount]
<1>1. IsFiniteSet(T) /\ IsFiniteSet(S) /\ S \in SUBSET T
  BY FS_Subset
<1>2. \A q \in T : g[q] \in Int
  BY DEF Posting
<1>3. \A q \in T \ S : g[q] >= 0
  OBVIOUS
<1>4. \A q \in S : g[q] = f[q]
  OBVIOUS
<1>5. Total(ps, e) = SumFunctionOnSet(f, S) /\ Total(qs, e) = SumFunctionOnSet(g, T)
  BY TotalIsSum DEF S, T, f, g
<1> HIDE DEF S, T, f, g
<1>6. SumFunctionOnSet(g, S) = SumFunctionOnSet(f, S)
  BY <1>1, <1>4, SumSame
<1>7. SumFunctionOnSet(g, S) <= SumFunctionOnSet(g, T)
  BY <1>1, <1>2, <1>3, SumMonotone
<1> QED
  BY <1>5, <1>6, <1>7

\* What the requests rs hold when the requests are as given.
HeldOf(requests, rs, e) == SumFunctionOnSet([r \in rs |-> Charge(requests[r].days, e)], rs)

LEMMA HeldIsSum ==
    ASSUME NEW rs, NEW e
    PROVE  Held(rs, e) = HeldOf(request, rs, e)
BY DEF Held, HeldOf, SumFunction

LEMMA HeldIsNat ==
    ASSUME NEW q, NEW rs, IsFiniteSet(rs), \A r \in rs : q[r].days \in SUBSET Days, NEW e
    PROVE  HeldOf(q, rs, e) \in Nat
<1> DEFINE f == [r \in rs |-> Charge(q[r].days, e)]
<1>1. \A r \in rs : f[r] \in Nat
  BY ChargeIsNat
<1> HIDE DEF f
<1>2. SumFunctionOnSet(f, rs) \in Nat
  BY <1>1, SumNat
<1> QED
  BY <1>2 DEF HeldOf, f

LEMMA HeldSame ==
    ASSUME NEW q, NEW w, NEW rs, IsFiniteSet(rs), \A r \in rs : q[r].days = w[r].days, NEW e
    PROVE  HeldOf(q, rs, e) = HeldOf(w, rs, e)
<1> DEFINE f == [r \in rs |-> Charge(q[r].days, e)]
           g == [r \in rs |-> Charge(w[r].days, e)]
<1>1. \A r \in rs : f[r] = g[r]
  OBVIOUS
<1> HIDE DEF f, g
<1>2. SumFunctionOnSet(f, rs) = SumFunctionOnSet(g, rs)
  BY <1>1, SumSame
<1> QED
  BY <1>2 DEF HeldOf, f, g

LEMMA HeldAdds ==
    ASSUME NEW q, NEW rs, IsFiniteSet(rs), NEW r, r \notin rs,
           \A x \in rs \cup {r} : q[x].days \in SUBSET Days, NEW e
    PROVE  HeldOf(q, rs \cup {r}, e) = HeldOf(q, rs, e) + Charge(q[r].days, e)
<1> DEFINE f == [x \in rs |-> Charge(q[x].days, e)]
           g == [x \in rs \cup {r} |-> Charge(q[x].days, e)]
<1>1. \A x \in rs \cup {r} : g[x] \in Int
  BY ChargeIsNat
<1>2. \A x \in rs : g[x] = f[x]
  OBVIOUS
<1>3. g[r] = Charge(q[r].days, e)
  OBVIOUS
<1> HIDE DEF f, g
<1>4. SumFunctionOnSet(g, rs \cup {r}) = SumFunctionOnSet(g, rs) + g[r]
  BY <1>1, SumAdd
<1>5. SumFunctionOnSet(g, rs) = SumFunctionOnSet(f, rs)
  BY <1>2, SumSame
<1> QED
  BY <1>3, <1>4, <1>5 DEF HeldOf, f, g

\* A hold that ends leaves no more held than before.
LEMMA HeldShrinks ==
    ASSUME NEW q, NEW rs, IsFiniteSet(rs), \A x \in rs : q[x].days \in SUBSET Days, NEW r, NEW e
    PROVE  /\ HeldOf(q, rs \ {r}, e) <= HeldOf(q, rs, e)
           /\ r \in rs => HeldOf(q, rs, e) = HeldOf(q, rs \ {r}, e) + Charge(q[r].days, e)
<1>1. CASE r \notin rs
  <2>1. rs \ {r} = rs
    BY <1>1
  <2>2. HeldOf(q, rs, e) \in Nat /\ HeldOf(q, rs \ {r}, e) = HeldOf(q, rs, e)
    BY <2>1, HeldIsNat
  <2> QED
    BY <1>1, <2>1, <2>2
<1>2. CASE r \in rs
  <2>1. (rs \ {r}) \cup {r} = rs /\ r \notin rs \ {r} /\ IsFiniteSet(rs \ {r})
    BY <1>2, FS_Subset
  <2>2. HeldOf(q, (rs \ {r}) \cup {r}, e) = HeldOf(q, rs \ {r}, e) + Charge(q[r].days, e)
    BY <1>2, <2>1, HeldAdds
  <2>3. HeldOf(q, rs \ {r}, e) \in Nat /\ Charge(q[r].days, e) \in Nat
    BY <1>2, <2>1, HeldIsNat, ChargeIsNat
  <2>4. HeldOf(q, rs, e) = HeldOf(q, rs \ {r}, e) + Charge(q[r].days, e)
    BY <2>1, <2>2
  <2> QED
    BY <2>3, <2>4
<1> QED
  BY <1>1, <1>2

-----------------------------------------------------------------------------
(* Types *)

TypeInv == TypeOK /\ BindingsKnown /\ IsFiniteSet(ledger)

USE DEF Verdicts, Kinds, Reservations

LEMMA PlacedType ==
    ASSUME NEW q \in [Requests -> Request], NEW r \in Requests, NEW u \in Accounts,
           NEW days \in SUBSET Days, days # {}
    PROVE  Placed(r, u, days, q) \in [Requests -> Request]
<1>1. 0 \in Stages /\ days \in (SUBSET Days) \ {{}}
  BY BoundsAssumption DEF Stages
<1>2. [status |-> "pending", days |-> days, stage |-> 0, by |-> u] \in Request
  BY <1>1 DEF Request
<1> QED
  BY <1>2 DEF Placed

LEMMA OfficeBindingType ==
    ASSUME TypeOK, NEW u, Routable(u), NEW s \in Stages
    PROVE  OfficeBinding(s) \in Binding /\ OfficeBinding(s).at = 0
<1>1. office[s] \in Office
  BY DEF TypeOK, Routable
<1> QED
  BY <1>1 DEF OfficeBinding, Binding, Office

LEMMA BoundType ==
    ASSUME TypeOK, NEW r \in Requests, NEW u, Routable(u)
    PROVE  /\ Bound(r) \in [Requests -> [Stages -> SUBSET Binding]]
           /\ \A n \in Requests : n # r => Bound(r)[n] = bindings[n]
           /\ \A s \in Stages : Bound(r)[r][s] = {OfficeBinding(s)}
<1>1. bindings \in [Requests -> [Stages -> SUBSET Binding]]
  BY DEF TypeOK
<1>2. [s \in Stages |-> {OfficeBinding(s)}] \in [Stages -> SUBSET Binding]
  BY OfficeBindingType
<1> QED
  BY <1>1, <1>2 DEF Bound

LEMMA AnnounceType ==
    ASSUME NEW r \in Requests, NEW s \in Stages, NEW b \in Binding
    PROVE  Announce(r, s, b) \in Notice
BY DEF Announce, Binding, Notice

\* The officer of the first stage is announced.
LEMMA FirstNotice ==
    ASSUME TypeOK, NEW r \in Requests, NEW u, Routable(u)
    PROVE  /\ ApproverNotice(r, 0, {OfficeBinding(0)}) \in Notice
           /\ ApproverNotice(r, 0, {OfficeBinding(0)}) = Announce(r, 0, OfficeBinding(0))
<1>1. 0 \in Stages
  BY BoundsAssumption DEF Stages
<1>2. OfficeBinding(0) \in Binding
  BY <1>1, OfficeBindingType
<1>3. Newest({OfficeBinding(0)}) = OfficeBinding(0)
  BY <1>2, NewestOfOne
<1> QED
  BY <1>1, <1>2, <1>3, AnnounceType DEF ApproverNotice

LEMMA DecidersType ==
    ASSUME TypeOK, NEW r \in Requests
    PROVE  Deciders(r) \subseteq Accounts
<1>1. decision[r] \in [Stages -> Decision \cup {None}]
  BY DEF TypeOK
<1>2. \A s \in Stages : decision[r][s] # None => decision[r][s].by \in Accounts
  BY <1>1 DEF Decision
<1> QED
  BY <1>2 DEF Deciders

LEMMA DecisionNoticesType ==
    ASSUME TypeOK, NEW k \in Keys, calls[k] # None, NEW r, NEW final \in BOOLEAN, NEW us \in SUBSET Accounts
    PROVE  DecisionNotices(k, r, final, us) \subseteq Notice
<1>1. calls[k].by \in Accounts
  BY DEF TypeOK, Call
<1>2. \A u \in Accounts : [kind |-> "decision", key |-> k, to |-> u] \in Notice
  BY DEF Notice
<1>3. \A u \in {calls[k].by} \cup (IF final THEN {Employee} \cup us ELSE {}) : u \in Accounts
  BY <1>1, AccountsAssumption
<1> QED
  BY <1>2, <1>3 DEF DecisionNotices

LEMMA CallType ==
    ASSUME TypeOK, NEW k \in Keys, calls[k] # None
    PROVE  /\ calls[k] \in Call /\ calls[k].by \in Accounts /\ calls[k].req \in Requests
           /\ calls[k].stage \in Stages /\ calls[k].verdict \in Verdicts
BY DEF TypeOK, Call

LEMMA DecidedType ==
    ASSUME TypeOK, NEW k \in Keys, calls[k] # None, NEW r \in Requests, NEW s \in Stages
    PROVE  /\ Decided(k, r, s) \in [Requests -> [Stages -> Decision \cup {None}]]
           /\ Decided(k, r, s)[r][s] = [by |-> calls[k].by, verdict |-> calls[k].verdict, key |-> k]
           /\ Decided(k, r, s)[r][s] # None
           /\ \A n \in Requests, t \in Stages :
                 n # r \/ t # s => Decided(k, r, s)[n][t] = decision[n][t]
<1>1. decision \in [Requests -> [Stages -> Decision \cup {None}]]
  BY DEF TypeOK
<1>2. [by |-> calls[k].by, verdict |-> calls[k].verdict, key |-> k] \in Decision
  BY CallType DEF Decision
<1> QED
  BY <1>1, <1>2, NoneAssumption DEF Decided

\* A request that changes hands keeps its type and its bindings.
LEMMA PlacedSteps ==
    ASSUME TypeInv, NEW q \in [Requests -> Request], NEW r \in Requests, NEW u \in Accounts,
           NEW days \in SUBSET Days, days # {}, Routable(u),
           \A n \in Requests : q[n].status # "absent" => request[n].status # "absent",
           request' = Placed(r, u, days, q), bindings' = Bound(r), UNCHANGED <<rebinding, clock>>
    PROVE  request' \in [Requests -> Request]
           /\ bindings' \in [Requests -> [Stages -> SUBSET Binding]] /\ BindingsKnown'
<1>1. request' \in [Requests -> Request]
  BY PlacedType
<1>2. \A n \in Requests : n # r => request'[n] = q[n]
  BY DEF Placed
<1>3. bindings' \in [Requests -> [Stages -> SUBSET Binding]]
  BY BoundType DEF TypeInv
<1>4. ASSUME NEW n \in Requests, NEW s \in Stages
      PROVE  /\ \A b \in bindings'[n][s] : b.at <= clock'
             /\ request'[n].status # "absent" => bindings'[n][s] # {}
  <2>1. CASE n = r
    <3>1. bindings'[n][s] = {OfficeBinding(s)}
      BY <2>1, BoundType DEF TypeInv
    <3>2. OfficeBinding(s).at = 0
      BY OfficeBindingType DEF TypeInv
    <3>3. clock' \in Nat
      BY DEF TypeInv, TypeOK
    <3> QED
      BY <3>1, <3>2, <3>3
  <2>2. CASE n # r
    <3>1. bindings'[n][s] = bindings[n][s]
      BY <2>2, BoundType DEF TypeInv
    <3> QED
      BY <3>1, <2>2, <1>2 DEF TypeInv, BindingsKnown
  <2> QED
    BY <2>1, <2>2
<1>5. BindingsKnown'
  BY <1>4 DEF TypeInv, BindingsKnown
<1> QED
  BY <1>1, <1>3, <1>5

LEMMA CancelledType ==
    ASSUME TypeOK, NEW r \in Requests, Open(r), NEW status \in {"cancelled", "approved", "rejected"}
    PROVE  /\ Ended(r, status, request) \in [Requests -> Request]
           /\ Ended(r, status, request)[r] = [request[r] EXCEPT !.status = status]
           /\ \A n \in Requests : n # r => Ended(r, status, request)[n] = request[n]
           /\ \A n \in Requests : Ended(r, status, request)[n].status # "absent" => request[n].status # "absent"
<1>1. request \in [Requests -> Request] /\ request[r] \in Request /\ request[r].status = "pending"
  BY DEF TypeOK, Open
<1>2. [request[r] EXCEPT !.status = status] \in Request
  BY <1>1 DEF Request
<1>3. Ended(r, status, request) = [request EXCEPT ![r] = [request[r] EXCEPT !.status = status]]
  BY DEF Ended
<1> QED
  BY <1>1, <1>2, <1>3

\* What a change of the requests alone leaves of the bindings.
LEMMA SameBindings ==
    ASSUME BindingsKnown, UNCHANGED <<bindings, clock, rebinding>>,
           \A n \in Requests : request'[n].status # "absent" => request[n].status # "absent"
    PROVE  BindingsKnown'
BY DEF BindingsKnown

LEMMA SpanType ==
    ASSUME NEW days \in Spans
    PROVE  days \in SUBSET Days /\ days # {}
BY DEF Spans

LEMMA UsesType ==
    ASSUME TypeOK, NEW r \in Requests
    PROVE  Uses(r) \subseteq Posting /\ IsFiniteSet(Uses(r))
<1>1. request[r].days \in SUBSET Days
  BY DEF TypeOK, Request
<1>2. {YearOf[d] : d \in request[r].days} \subseteq Entitlements
  BY <1>1, LedgerAssumption
<1>3. \A e \in Entitlements : -Charge(request[r].days, e) \in Int
  BY <1>1, ChargeIsNat
<1>4. Uses(r) \subseteq Posting
  BY <1>2, <1>3 DEF Uses, Posting
<1>5. IsFiniteSet({YearOf[d] : d \in request[r].days})
  BY <1>2, LedgerAssumption, FS_Subset
<1> DEFINE S == {YearOf[d] : d \in request[r].days}
           f == [e \in S |-> [kind |-> "use", ref |-> r, ent |-> e, amount |-> -Charge(request[r].days, e)]]
<1>6. IsFiniteSet(Uses(r))
  <2>1. Uses(r) = {f[e] : e \in S}
    BY DEF Uses
  <2> HIDE DEF f, S
  <2> QED
    BY <2>1, <1>5, ImageFinite DEF S
<1> QED
  BY <1>4, <1>6

LEMMA ReturnedType ==
    ASSUME TypeInv, NEW o, NEW e
    PROVE  Returned(o, e) \in Int
<1> DEFINE ps == {p \in ledger : p.kind = "reversal" /\ p.ref \in {effects[o][i].by : i \in DOMAIN effects[o]}}
<1>1. ps \in SUBSET Posting /\ IsFiniteSet(ps)
  BY FS_Subset DEF TypeInv, TypeOK
<1> HIDE DEF ps
<1>2. Total(ps, e) \in Int
  BY <1>1, TotalIsInt
<1> QED
  BY <1>2 DEF Returned, ps

LEMMA RefundsType ==
    ASSUME TypeInv, NEW r \in Requests, ~Absence(r)
    PROVE  Refunds(r) \subseteq Posting /\ IsFiniteSet(Refunds(r))
<1> DEFINE o == link[r].of
           ps == {q \in UsesOf(o) : Refund(r, q) > 0}
<1>1. o \in Requests
  BY DEF TypeInv, TypeOK, Link, Absence
<1>2. request[o].days \in SUBSET Days
  BY <1>1 DEF TypeInv, TypeOK, Request
<1>3. UsesOf(o) \subseteq Posting /\ IsFiniteSet(UsesOf(o))
  BY FS_Subset DEF TypeInv, TypeOK, UsesOf
<1>4. ASSUME NEW p \in UsesOf(o) PROVE p.ent \in Entitlements /\ Refund(r, p) \in Int
  <2>1. p.amount \in Int /\ p.ent \in Entitlements
    BY <1>3 DEF Posting
  <2>2. Charge({d \in request[o].days : \A e \in request[r].days : e < d}, p.ent) \in Nat
    BY <1>2, ChargeIsNat
  <2>3. Returned(o, p.ent) \in Int
    BY ReturnedType
  <2> QED
    BY <2>1, <2>2, <2>3 DEF Refund
<1>5. ps \subseteq UsesOf(o) /\ IsFiniteSet(ps)
  BY <1>3, FS_Subset
<1>6. Refunds(r) \subseteq Posting
  BY <1>4, <1>5 DEF Refunds, Posting
<1>7. Refunds(r) = {[kind |-> "reversal", ref |-> r, ent |-> p.ent, amount |-> Refund(r, p)] : p \in ps}
  BY DEF Refunds
<1> HIDE DEF ps
<1> DEFINE f == [p \in ps |-> [kind |-> "reversal", ref |-> r, ent |-> p.ent, amount |-> Refund(r, p)]]
<1>8. IsFiniteSet(Refunds(r))
  <2>1. Refunds(r) = {f[p] : p \in ps}
    BY <1>7
  <2> HIDE DEF f
  <2> QED
    BY <2>1, <1>5, ImageFinite
<1> QED
  BY <1>6, <1>8

\* A correction or the reversal of one is a posting.
LEMMA PostingsType ==
    ASSUME TypeInv
    PROVE  /\ \A k \in CorrectionKeys, e \in Entitlements, n \in Amounts :
                 [kind |-> "correction", ref |-> k, ent |-> e, amount |-> n] \in Posting
           /\ \A q \in ledger : [kind |-> "reversal", ref |-> q.ref, ent |-> q.ent, amount |-> -q.amount] \in Posting
<1>1. \A q \in ledger : q \in Posting
  BY DEF TypeInv, TypeOK
<1> QED
  BY <1>1, LedgerAssumption DEF Posting

LEMMA LedgerGrows ==
    ASSUME TypeInv, NEW ps \in SUBSET Posting, IsFiniteSet(ps), ledger' = ledger \cup ps
    PROVE  ledger' \in SUBSET Posting /\ IsFiniteSet(ledger')
BY FS_Union DEF TypeInv, TypeOK

LEMMA ReplaceType ==
    ASSUME TypeInv, NEW r \in Requests, NEW n \in Requests, NEW u \in Accounts,
           NEW days \in SUBSET Days, days # {}, Replace(r, n, u, days)
    PROVE  TypeInv'
<1>1. Open(r) /\ Routable(u) /\ TypeOK
  BY DEF Replace, Acceptable, TypeInv
<1> DEFINE q == Ended(r, "cancelled", request)
<1>2. q \in [Requests -> Request] /\ \A x \in Requests : q[x].status # "absent" => request[x].status # "absent"
  BY <1>1, CancelledType
<1>3. request' = Placed(n, u, days, q) /\ bindings' = Bound(n) /\ UNCHANGED <<rebinding, clock>>
  BY DEF Replace
<1> HIDE DEF q
<1>4. request' \in [Requests -> Request]
      /\ bindings' \in [Requests -> [Stages -> SUBSET Binding]] /\ BindingsKnown'
  BY <1>1, <1>2, <1>3, PlacedSteps
<1>5. reservation' \in [Requests -> Reservations \cup {None}]
  BY <1>1 DEF Replace, TypeOK
<1>6. notices' \subseteq Notice
  BY <1>1, FirstNotice DEF Replace, TypeOK
<1> QED
  BY <1>1, <1>4, <1>5, <1>6 DEF Replace, TypeInv, TypeOK, changes, environment, payroll

LEMMA SubmitType ==
    ASSUME TypeInv, NEW r \in Requests, NEW u \in Accounts, NEW days \in Spans, Submit(r, u, days)
    PROVE  TypeInv'
<1>1. Routable(u) /\ TypeOK /\ days \in SUBSET Days /\ days # {} /\ request \in [Requests -> Request]
  BY SpanType DEF Submit, Acceptable, TypeInv, TypeOK
<1>2. request' = Placed(r, u, days, request) /\ bindings' = Bound(r) /\ UNCHANGED <<rebinding, clock>>
  BY DEF Submit
<1>3. request' \in [Requests -> Request]
      /\ bindings' \in [Requests -> [Stages -> SUBSET Binding]] /\ BindingsKnown'
  BY <1>1, <1>2, PlacedSteps
<1>4. reservation' \in [Requests -> Reservations \cup {None}]
  BY <1>1 DEF Submit, TypeOK
<1>5. notices' \subseteq Notice
  BY <1>1, FirstNotice DEF Submit, TypeOK
<1> QED
  BY <1>1, <1>3, <1>4, <1>5 DEF Submit, TypeInv, TypeOK, changes, environment, payroll

\* A change is an application with a link and without a hold.
LEMMA ChangeType ==
    ASSUME TypeInv, NEW r \in Requests, NEW u \in Accounts,
           \/ \E c \in Link : \E days \in Beginnings(c.of) : Change(r, u, c, days)
           \/ \E n \in Requests : ContinueChange(n, r, u)
    PROVE  TypeInv'
<1>1. PICK q \in [Requests -> Request], days \in SUBSET Days, c \in Link :
         /\ \A x \in Requests : q[x].status # "absent" => request[x].status # "absent"
         /\ days # {}
         /\ Routable(u)
         /\ request' = Placed(r, u, days, q)
         /\ link' = [link EXCEPT ![r] = c]
         /\ bindings' = Bound(r)
         /\ notices' = notices \cup {ApproverNotice(r, 0, {OfficeBinding(0)})}
         /\ UNCHANGED <<decision, effects, reservation, ledger, environment, calls, rebinding, clock>>
  <2>1. CASE \E c \in Link : \E days \in Beginnings(c.of) : Change(r, u, c, days)
    <3>1. PICK c \in Link : \E days \in Beginnings(c.of) : Change(r, u, c, days)
      BY <2>1
    <3>2. PICK days \in Beginnings(c.of) : Change(r, u, c, days)
      BY <3>1
    <3>3. days \in SUBSET Days /\ days # {} /\ request \in [Requests -> Request]
      BY SpanType DEF Beginnings, TypeInv, TypeOK
    <3> QED
      BY <3>2, <3>3 DEF Change, Changing
  <2>2. CASE \E n \in Requests : ContinueChange(n, r, u)
    <3>1. PICK n \in Requests : ContinueChange(n, r, u)
      BY <2>2
    <3>2. Open(n) /\ ~Absence(n) /\ TypeOK
      BY <3>1 DEF ContinueChange, TypeInv
    <3>3. link[n] \in Link /\ request[n].days \in SUBSET Days /\ request[n].days # {}
      BY <3>2 DEF TypeOK, Absence, Open, Request
    <3>4. /\ Ended(n, "cancelled", request) \in [Requests -> Request]
          /\ \A x \in Requests : Ended(n, "cancelled", request)[x].status # "absent" => request[x].status # "absent"
      BY <3>2, CancelledType
    <3> QED
      BY <3>1, <3>3, <3>4 DEF ContinueChange, Changing
  <2> QED
    BY <2>1, <2>2
<1>2. request' \in [Requests -> Request]
      /\ bindings' \in [Requests -> [Stages -> SUBSET Binding]] /\ BindingsKnown'
  BY <1>1, PlacedSteps
<1>3. TypeOK /\ link' \in [Requests -> Link \cup {None}]
  BY <1>1 DEF TypeInv, TypeOK
<1>4. notices' \subseteq Notice
  BY <1>1, <1>3, FirstNotice DEF TypeOK
<1> QED
  BY <1>1, <1>2, <1>3, <1>4 DEF TypeInv, TypeOK, environment, payroll

LEMMA CancelType ==
    ASSUME TypeInv, NEW r \in Requests, NEW u \in Accounts, Cancel(r, u)
    PROVE  TypeInv'
<1>1. TypeOK /\ Open(r)
  BY DEF TypeInv, Cancel
<1>2. request' \in [Requests -> Request] /\ BindingsKnown'
  BY <1>1, CancelledType, SameBindings DEF Cancel, TypeInv
<1>3. reservation' \in [Requests -> Reservations \cup {None}]
  BY <1>1 DEF Cancel, TypeOK, Released
<1> QED
  BY <1>1, <1>2, <1>3 DEF Cancel, TypeInv, TypeOK, changes, environment, payroll

LEMMA RejectType ==
    ASSUME TypeInv, NEW k \in Keys, Reject(k)
    PROVE  TypeInv'
<1> DEFINE r == calls[k].req
           s == request[r].stage
<1>1. TypeOK /\ calls[k] # None /\ r \in Requests /\ Open(r)
  BY CallType DEF TypeInv, Reject, MayDecide
<1>2. s \in Stages
  BY <1>1 DEF TypeOK, Request, Open
<1>3. request' \in [Requests -> Request] /\ BindingsKnown'
  BY <1>1, CancelledType, SameBindings DEF Reject, TypeInv
<1>4. reservation' \in [Requests -> Reservations \cup {None}]
  BY <1>1 DEF Reject, TypeOK, Released
<1>5. decision' \in [Requests -> [Stages -> Decision \cup {None}]]
  BY <1>1, <1>2, DecidedType DEF Reject
<1>6. notices' \subseteq Notice
  BY <1>1, DecidersType, DecisionNoticesType DEF Reject, TypeOK
<1> QED
  BY <1>1, <1>3, <1>4, <1>5, <1>6 DEF Reject, TypeInv, TypeOK, changes, environment, payroll

LEMMA ForwardType ==
    ASSUME TypeInv, NEW k \in Keys, Forward(k)
    PROVE  TypeInv'
<1> DEFINE r == calls[k].req
           s == request[r].stage
<1>1. TypeOK /\ calls[k] # None /\ r \in Requests /\ Open(r)
  BY CallType DEF TypeInv, Forward, MayDecide
<1>2. request[r] \in Request /\ request[r].status = "pending"
  BY <1>1 DEF TypeOK, Open
<1>3. s \in Stages /\ s + 1 \in Stages
  BY <1>2, BoundsAssumption DEF Request, Stages, Forward
<1>4. request' = [request EXCEPT ![r] = [request[r] EXCEPT !.stage = s + 1]]
  BY DEF Forward
<1>5. [request[r] EXCEPT !.stage = s + 1] \in Request
  BY <1>2, <1>3 DEF Request
<1>6. request' \in [Requests -> Request]
  BY <1>1, <1>4, <1>5 DEF TypeOK
<1>7. BindingsKnown'
  <2>1. \A n \in Requests : request'[n].status # "absent" => request[n].status # "absent"
    BY <1>1, <1>2, <1>4 DEF TypeOK
  <2> QED
    BY <2>1, SameBindings DEF Forward, TypeInv
<1>8. decision' \in [Requests -> [Stages -> Decision \cup {None}]]
  BY <1>1, <1>3, DecidedType DEF Forward
<1>9. notices' \subseteq Notice
  <2>1. DecisionNotices(k, r, FALSE, {}) \subseteq Notice
    BY <1>1, DecisionNoticesType
  <2>2. Current(r, s + 1) \in Binding
    BY <1>1, <1>2, <1>3, CurrentIsOne DEF TypeInv
  <2>3. ApproverNotice(r, s + 1, bindings[r][s + 1]) \in Notice
    BY <1>1, <1>3, <2>2, AnnounceType DEF ApproverNotice, Current
  <2> QED
    BY <1>1, <2>1, <2>3 DEF Forward, TypeOK
<1> QED
  BY <1>1, <1>6, <1>7, <1>8, <1>9 DEF Forward, TypeInv, TypeOK, changes, environment, payroll

\* What Grant and GrantChange have in common.
LEMMA FinishType ==
    ASSUME TypeInv, NEW k \in Keys, calls[k] # None, NEW r \in Requests, Finish(k, r),
           UNCHANGED <<bindings, clock, rebinding>>
    PROVE  /\ request' \in [Requests -> Request]
           /\ BindingsKnown'
           /\ decision' \in [Requests -> [Stages -> Decision \cup {None}]]
           /\ notices' \subseteq Notice
<1>1. TypeOK /\ Open(r) /\ LastStage \in Stages
  BY BoundsAssumption DEF TypeInv, Finish, MayDecide, Stages
<1>2. request' \in [Requests -> Request] /\ BindingsKnown'
  BY <1>1, CancelledType, SameBindings DEF Finish, TypeInv
<1>3. decision' \in [Requests -> [Stages -> Decision \cup {None}]]
  BY <1>1, DecidedType DEF Finish
<1>4. notices' \subseteq Notice
  BY <1>1, DecidersType, DecisionNoticesType DEF Finish, TypeOK
<1> QED
  BY <1>2, <1>3, <1>4

LEMMA GrantType ==
    ASSUME TypeInv, NEW k \in Keys, Grant(k)
    PROVE  TypeInv'
<1> DEFINE r == calls[k].req
<1>1. /\ TypeOK /\ calls[k] # None /\ r \in Requests /\ Finish(k, r)
      /\ UNCHANGED <<bindings, changes, environment, calls, rebinding, clock>>
  BY CallType DEF TypeInv, Grant
<1>2. /\ request' \in [Requests -> Request]
      /\ BindingsKnown'
      /\ decision' \in [Requests -> [Stages -> Decision \cup {None}]]
      /\ notices' \subseteq Notice
  BY <1>1, FinishType
<1>3. ledger' \in SUBSET Posting /\ IsFiniteSet(ledger')
  BY <1>1, UsesType, LedgerGrows DEF Grant
<1>4. reservation' \in [Requests -> Reservations \cup {None}]
  BY <1>1 DEF Grant, TypeOK
<1> QED
  BY <1>1, <1>2, <1>3, <1>4 DEF TypeInv, TypeOK, changes, environment, payroll

LEMMA GrantChangeType ==
    ASSUME TypeInv, NEW k \in Keys, GrantChange(k)
    PROVE  TypeInv'
<1> DEFINE r == calls[k].req
           o == link[r].of
           x == [by |-> r, action |-> link[r].action,
                 days |-> IF link[r].action = "cancel_grant" THEN {} ELSE request[r].days]
<1>1. /\ TypeOK /\ calls[k] # None /\ r \in Requests /\ Finish(k, r) /\ ~Absence(r)
      /\ ledger' = ledger \cup Refunds(r)
      /\ effects' = [effects EXCEPT ![o] = Append(effects[o], x)]
      /\ UNCHANGED <<bindings, link, reservation, environment, calls, rebinding, clock>>
  BY CallType DEF TypeInv, GrantChange
<1>2. /\ request' \in [Requests -> Request]
      /\ BindingsKnown'
      /\ decision' \in [Requests -> [Stages -> Decision \cup {None}]]
      /\ notices' \subseteq Notice
  BY <1>1, FinishType
<1>3. ledger' \in SUBSET Posting /\ IsFiniteSet(ledger')
  BY <1>1, RefundsType, LedgerGrows
<1>4. effects' \in [Requests -> Seq(Effect)]
  <2>1. link[r] \in Link /\ request[r].days \in SUBSET Days
    BY <1>1 DEF TypeOK, Absence, Request
  <2>2. x \in Effect
    BY <1>1, <2>1 DEF Link, Effect
  <2> HIDE DEF x
  <2>3. effects[o] \in Seq(Effect) /\ o \in Requests
    BY <1>1, <2>1 DEF TypeOK, Link
  <2>4. Append(effects[o], x) \in Seq(Effect)
    BY <2>2, <2>3
  <2> QED
    BY <1>1, <2>3, <2>4 DEF TypeOK
<1> QED
  BY <1>1, <1>2, <1>3, <1>4 DEF TypeInv, TypeOK, environment, payroll

LEMMA SendType ==
    ASSUME TypeInv, NEW k \in Keys, NEW r \in Requests, NEW verdict \in Verdicts, Send(k, r, verdict)
    PROVE  TypeInv'
<1> DEFINE s == request[r].stage
<1>1. TypeOK /\ request[r].status = "pending" /\ s \in Stages
  BY DEF TypeInv, TypeOK, Send, Open, Request
<1>2. Current(r, s) \in Binding
  BY <1>1, CurrentIsOne DEF TypeInv
<1>3. [by |-> Current(r, s).officer, req |-> r, stage |-> s, binding |-> Current(r, s).at, verdict |-> verdict] \in Call
  BY <1>1, <1>2 DEF Binding, Call
<1>4. calls' \in [Keys -> Call \cup {None}]
  BY <1>1, <1>3 DEF Send, TypeOK
<1>5. BindingsKnown'
  BY SameBindings DEF Send, TypeInv
<1> QED
  BY <1>1, <1>4, <1>5 DEF Send, TypeInv, TypeOK, changes, environment, payroll

LEMMA BeginRebindType ==
    ASSUME TypeInv, NEW h \in Handlers, NEW r \in Requests, NEW s \in Stages, NEW u \in Accounts,
           BeginRebind(h, r, s, u)
    PROVE  TypeInv'
<1> DEFINE b == [req |-> r, stage |-> s, officer |-> u, at |-> clock + 1]
<1>1. TypeOK /\ clock \in Nat /\ clock' = clock + 1
  BY DEF TypeInv, TypeOK, BeginRebind
<1>2. b \in Rebinding
  BY <1>1 DEF Rebinding
<1>3. rebinding' \in [Handlers -> Rebinding \cup {None}]
  BY <1>1, <1>2 DEF BeginRebind, TypeOK
<1>4. BindingsKnown'
  <2>1. \A n \in Requests, t \in Stages : \A c \in bindings'[n][t] : c.at <= clock'
    <3> SUFFICES ASSUME NEW n \in Requests, NEW t \in Stages, NEW c \in bindings[n][t] PROVE c.at <= clock'
      BY DEF BeginRebind
    <3>1. bindings[n][t] \subseteq Binding
      BY <1>1 DEF TypeOK
    <3>2. c.at \in Nat /\ c.at <= clock
      BY <3>1 DEF Binding, TypeInv, BindingsKnown
    <3> QED
      BY <1>1, <3>2
  <2>2. \A x \in Handlers : rebinding'[x] # None => rebinding'[x].at <= clock'
    <3> SUFFICES ASSUME NEW x \in Handlers, rebinding'[x] # None PROVE rebinding'[x].at <= clock'
      OBVIOUS
    <3>1. CASE x = h
      BY <1>1, <3>1 DEF BeginRebind, TypeOK
    <3>2. CASE x # h
      <4>1. rebinding'[x] = rebinding[x] /\ rebinding[x] \in Rebinding /\ rebinding[x].at <= clock
        BY <1>1, <3>2 DEF BeginRebind, TypeOK, TypeInv, BindingsKnown
      <4> QED
        BY <1>1, <4>1 DEF Rebinding
    <3> QED
      BY <3>1, <3>2
  <2> QED
    BY <2>1, <2>2 DEF BeginRebind, TypeInv, BindingsKnown
<1> QED
  BY <1>1, <1>3, <1>4 DEF BeginRebind, TypeInv, TypeOK, changes, environment, payroll

\* The binding that CommitRebind adds.
Rebound(h) ==
    LET s == rebinding[h].stage
    IN  [at |-> rebinding[h].at, officer |-> rebinding[h].officer, office |-> office[s].id,
         substitute |-> rebinding[h].officer # office[s].officer]

LEMMA CommitRebindBindings ==
    ASSUME TypeInv, NEW h \in Handlers, CommitRebind(h)
    PROVE  LET r == rebinding[h].req
               s == rebinding[h].stage
           IN  /\ r \in Requests /\ s \in Stages /\ Open(r) /\ decision[r][s] = None
               /\ Rebound(h) \in Binding
               /\ bindings' = [bindings EXCEPT ![r][s] = @ \cup {Rebound(h)}]
               /\ bindings' \in [Requests -> [Stages -> SUBSET Binding]]
               /\ bindings'[r][s] = bindings[r][s] \cup {Rebound(h)}
               /\ \A n \in Requests, t \in Stages : n # r \/ t # s => bindings'[n][t] = bindings[n][t]
               /\ BindingsKnown'
<1> DEFINE r == rebinding[h].req
           s == rebinding[h].stage
<1>1. /\ TypeOK /\ rebinding[h] \in Rebinding /\ r \in Requests /\ s \in Stages
      /\ Open(r) /\ decision[r][s] = None /\ office[s] \in Office
  BY DEF TypeInv, TypeOK, CommitRebind, MayRebind, Rebinding
<1>2. Rebound(h) \in Binding
  BY <1>1 DEF Rebound, Binding, Rebinding, Office
<1>3. bindings' = [bindings EXCEPT ![r][s] = @ \cup {Rebound(h)}]
  BY DEF CommitRebind, Rebound
<1>4. bindings \in [Requests -> [Stages -> SUBSET Binding]]
  BY <1>1 DEF TypeOK
<1>5. /\ bindings' \in [Requests -> [Stages -> SUBSET Binding]]
      /\ bindings'[r][s] = bindings[r][s] \cup {Rebound(h)}
      /\ \A n \in Requests, t \in Stages : n # r \/ t # s => bindings'[n][t] = bindings[n][t]
  BY <1>1, <1>2, <1>3, <1>4
<1>6. Rebound(h).at <= clock
  BY DEF TypeInv, BindingsKnown, CommitRebind, Rebound
<1>7. request' = request /\ clock' = clock /\ \A x \in Handlers : rebinding'[x] # None => rebinding'[x] = rebinding[x]
  BY <1>1 DEF CommitRebind, TypeOK
<1>8. BindingsKnown'
  <2>1. ASSUME NEW n \in Requests, NEW t \in Stages
        PROVE  /\ \A b \in bindings'[n][t] : b.at <= clock'
               /\ request'[n].status # "absent" => bindings'[n][t] # {}
    <3>1. /\ \A b \in bindings[n][t] : b.at <= clock
          /\ request[n].status # "absent" => bindings[n][t] # {}
      BY DEF TypeInv, BindingsKnown
    <3>2. CASE n = r /\ t = s
      BY <1>5, <1>6, <1>7, <3>1, <3>2
    <3>3. CASE n # r \/ t # s
      BY <1>5, <1>7, <3>1, <3>3
    <3> QED
      BY <3>2, <3>3
  <2>2. \A x \in Handlers : rebinding'[x] # None => rebinding'[x].at <= clock'
    BY <1>7 DEF TypeInv, BindingsKnown
  <2> QED
    BY <2>1, <2>2 DEF BindingsKnown
<1> QED
  BY <1>1, <1>2, <1>3, <1>5, <1>8

LEMMA CommitRebindType ==
    ASSUME TypeInv, NEW h \in Handlers, CommitRebind(h)
    PROVE  TypeInv'
<1> DEFINE r == rebinding[h].req
           s == request[r].stage
<1>1. /\ TypeOK /\ r \in Requests /\ Open(r) /\ BindingsKnown'
      /\ bindings' \in [Requests -> [Stages -> SUBSET Binding]]
  BY CommitRebindBindings DEF TypeInv
<1>2. s \in Stages /\ request[r].status = "pending" /\ request' = request
  BY <1>1 DEF TypeOK, Open, Request, CommitRebind
<1>3. clock' \in Nat /\ bindings'[r][s] \in SUBSET Binding /\ bindings'[r][s] # {}
      /\ \A b \in bindings'[r][s] : b.at <= clock'
  <2>1. clock' \in Nat
    BY <1>1 DEF TypeOK, CommitRebind
  <2>2. bindings'[r][s] \in SUBSET Binding
    BY <1>1, <1>2
  <2>3. request'[r].status # "absent"
    BY <1>2
  <2> QED
    BY <1>1, <1>2, <2>1, <2>2, <2>3 DEF BindingsKnown
<1>4. Newest(bindings'[r][s]) \in Binding
  BY <1>3, NewestIsOne
<1>5. ApproverNotice(r, s, bindings'[r][s]) \in Notice
  BY <1>1, <1>2, <1>4, AnnounceType DEF ApproverNotice
<1>6. notices' \subseteq Notice
  BY <1>1, <1>5 DEF CommitRebind, TypeOK
<1>7. rebinding' \in [Handlers -> Rebinding \cup {None}]
  BY <1>1 DEF CommitRebind, TypeOK
<1> QED
  BY <1>1, <1>6, <1>7 DEF CommitRebind, TypeInv, TypeOK, changes, environment, payroll

LEMMA AbandonRebindType ==
    ASSUME TypeInv, NEW h \in Handlers, AbandonRebind(h)
    PROVE  TypeInv'
<1>1. TypeOK /\ rebinding' \in [Handlers -> Rebinding \cup {None}]
      /\ \A x \in Handlers : rebinding'[x] # None => rebinding'[x] = rebinding[x]
  BY DEF AbandonRebind, TypeInv, TypeOK
<1>2. BindingsKnown'
  BY <1>1 DEF AbandonRebind, TypeInv, BindingsKnown
<1> QED
  BY <1>1, <1>2 DEF AbandonRebind, TypeInv, TypeOK, changes, environment, payroll

LEMMA PostingType ==
    ASSUME TypeInv,
           \/ \E k \in CorrectionKeys, e \in Entitlements, n \in Amounts : Correct(k, e, n)
           \/ \E q \in ledger : Reverse(q)
    PROVE  TypeInv'
<1>1. /\ \E p \in Posting : ledger' = ledger \cup {p}
      /\ UNCHANGED <<request, bindings, decision, changes, reservation, notices, environment, calls, rebinding, clock>>
  BY PostingsType DEF Correct, Reverse
<1>2. ledger' \in SUBSET Posting /\ IsFiniteSet(ledger')
  <2>1. PICK p \in Posting : ledger' = ledger \cup {p}
    BY <1>1
  <2>2. {p} \in SUBSET Posting /\ IsFiniteSet({p})
    BY FS_Singleton
  <2> QED
    BY <2>1, <2>2, LedgerGrows
<1>3. BindingsKnown'
  BY <1>1, SameBindings DEF TypeInv
<1> QED
  BY <1>1, <1>2, <1>3 DEF TypeInv, TypeOK, changes, environment, payroll

LEMMA EnvironmentType ==
    ASSUME TypeInv,
           \/ \E s \in Stages : CloseOffice(s) \/ \E u \in Accounts : Appoint(s, u)
           \/ \E u \in Accounts : ChangeAccount(u)
    PROVE  TypeInv'
<1>1. TypeOK /\ UNCHANGED <<request, bindings, decision, changes, reservation, ledger, notices, calls, rebinding, clock>>
  BY DEF TypeInv, CloseOffice, Appoint, ChangeAccount
<1>2. /\ office' \in [Stages -> Office \cup {None}]
      /\ able' \subseteq Accounts /\ appointed' \in Nat
  <2>1. CASE \E s \in Stages : CloseOffice(s)
    BY <1>1, <2>1 DEF CloseOffice, TypeOK
  <2>2. CASE \E s \in Stages, u \in Accounts : Appoint(s, u)
    <3>1. \A u \in Accounts : [id |-> appointed + 1, officer |-> u] \in Office
      BY <1>1 DEF TypeOK, Office
    <3> QED
      BY <1>1, <2>2, <3>1 DEF Appoint, TypeOK
  <2>3. CASE \E u \in Accounts : ChangeAccount(u)
    BY <1>1, <2>3, BoundsAssumption DEF ChangeAccount, TypeOK
  <2> QED
    BY <2>1, <2>2, <2>3
<1>3. BindingsKnown'
  BY <1>1, SameBindings DEF TypeInv
<1> QED
  BY <1>1, <1>2, <1>3 DEF TypeInv, TypeOK, changes

\* Amend and Continue submit an application again in place of another.
LEMMA ReplaceSteps ==
    ASSUME TypeInv, NEW r \in Requests, NEW n \in Requests,
           \/ \E days \in Spans : Amend(r, n, days)
           \/ \E u \in Accounts : Continue(r, n, u)
    PROVE  \E u \in Accounts, days \in SUBSET Days : days # {} /\ Replace(r, n, u, days)
<1>1. Open(r) => request[r].by \in Accounts /\ request[r].days \in SUBSET Days /\ request[r].days # {}
  BY DEF TypeInv, TypeOK, Open, Request
<1>2. CASE \E days \in Spans : Amend(r, n, days)
  BY <1>1, <1>2, SpanType DEF Amend
<1>3. CASE \E u \in Accounts : Continue(r, n, u)
  BY <1>1, <1>3 DEF Continue
<1> QED
  BY <1>2, <1>3

LEMMA TypeStep ==
    ASSUME TypeInv, [Next]_workflow
    PROVE  TypeInv'
<1>1. ASSUME NEW r \in Requests, NEW u \in Accounts, NEW days \in Spans, Submit(r, u, days) PROVE TypeInv'
  BY <1>1, SubmitType
<1>2. ASSUME NEW r \in Requests, NEW u \in Accounts, Cancel(r, u) PROVE TypeInv'
  BY <1>2, CancelType
<1>3. ASSUME NEW r \in Requests, NEW u \in Accounts, NEW o \in Requests, NEW action \in Kinds,
             NEW days \in Beginnings(o), Change(r, u, [of |-> o, action |-> action], days)
      PROVE  TypeInv'
  <2> DEFINE c == [of |-> o, action |-> action]
  <2>1. c \in Link /\ c.of = o /\ Change(r, u, c, days)
    BY <1>3 DEF Link
  <2> HIDE DEF c
  <2> QED
    BY <2>1, ChangeType
<1>4. ASSUME NEW r \in Requests, NEW u \in Accounts, NEW h \in Handlers, NEW s \in Stages, BeginRebind(h, r, s, u)
      PROVE  TypeInv'
  BY <1>4, BeginRebindType
<1>5. ASSUME NEW r \in Requests, NEW k \in Keys, NEW verdict \in Verdicts, Send(k, r, verdict) PROVE TypeInv'
  BY <1>5, SendType
<1>6. ASSUME NEW r \in Requests, NEW n \in Requests,
             \/ \E days \in Spans : Amend(r, n, days)
             \/ \E u \in Accounts : Continue(r, n, u)
      PROVE  TypeInv'
  BY <1>6, ReplaceSteps, ReplaceType
<1>7. ASSUME NEW r \in Requests, NEW n \in Requests, NEW u \in Accounts, ContinueChange(r, n, u) PROVE TypeInv'
  BY <1>7, ChangeType
<1>8. ASSUME NEW k \in Keys, Reject(k) \/ Forward(k) \/ Grant(k) \/ GrantChange(k) PROVE TypeInv'
  BY <1>8, RejectType, ForwardType, GrantType, GrantChangeType
<1>9. ASSUME NEW h \in Handlers, CommitRebind(h) \/ AbandonRebind(h) PROVE TypeInv'
  BY <1>9, CommitRebindType, AbandonRebindType
<1>10. CASE \/ \E k \in CorrectionKeys, e \in Entitlements, n \in Amounts : Correct(k, e, n)
            \/ \E q \in ledger : Reverse(q)
  BY <1>10, PostingType
<1>11. CASE \/ \E s \in Stages : CloseOffice(s) \/ \E u \in Accounts : Appoint(s, u)
            \/ \E u \in Accounts : ChangeAccount(u)
  BY <1>11, EnvironmentType
<1>12. CASE UNCHANGED workflow
  BY <1>12 DEF workflow, TypeInv, TypeOK, BindingsKnown
<1> QED
  BY <1>1, <1>2, <1>3, <1>4, <1>5, <1>6, <1>7, <1>8, <1>9, <1>10, <1>11, <1>12 DEF Next

LEMMA TypeInit ==
    ASSUME Init
    PROVE  TypeInv
<1>1. 0 \in Stages
  BY BoundsAssumption DEF Stages
<1>2. [status |-> "absent", days |-> {}, stage |-> 0, by |-> None] \in Request
  BY DEF Request
<1>3. ledger = {[kind |-> "opening", ref |-> None, ent |-> e, amount |-> Opening[e]] : e \in Entitlements}
  BY DEF Init
<1>4. ledger \subseteq Posting
  BY <1>3, LedgerAssumption DEF Posting
<1>5. IsFiniteSet(ledger)
  <2> DEFINE f == [e \in Entitlements |-> [kind |-> "opening", ref |-> None, ent |-> e, amount |-> Opening[e]]]
  <2>1. ledger = {f[e] : e \in Entitlements}
    BY <1>3
  <2> HIDE DEF f
  <2> QED
    BY <2>1, LedgerAssumption, ImageFinite
<1>6. effects \in [Requests -> Seq(Effect)]
  BY DEF Init
<1>7. BindingsKnown
  BY DEF Init, BindingsKnown
<1> QED
  BY <1>2, <1>4, <1>5, <1>6, <1>7 DEF Init, TypeInv, TypeOK

-----------------------------------------------------------------------------
(* The route: what is decided, in which order, and by whom *)

\* The stages before the one that is reached are approved, and none after it is
\* decided; it is decided itself exactly when the application is.
StagesInOrder ==
    \A r \in Requests :
        /\ \A s \in Stages : decision[r][s] # None =>
              s <= request[r].stage /\ request[r].status # "absent"
        /\ \A s \in Stages : s < request[r].stage => decision[r][s] # None /\ decision[r][s].verdict = "approved"
        /\ request[r].status \in {"pending", "cancelled"} => decision[r][request[r].stage] = None
        /\ request[r].status \in Verdicts =>
              /\ decision[r][request[r].stage] # None
              /\ decision[r][request[r].stage].verdict = request[r].status
        /\ request[r].status = "approved" => request[r].stage = LastStage

\* A decision is one that was sent for its stage by the officer the stage is bound
\* to, who is neither the employee nor who submitted the application.
SoundlyDecided ==
    \A r \in Requests, s \in Stages : decision[r][s] # None =>
        /\ calls[decision[r][s].key] # None
        /\ calls[decision[r][s].key].req = r
        /\ calls[decision[r][s].key].stage = s
        /\ decision[r][s].by = Current(r, s).officer
        /\ decision[r][s].by \notin {Employee, request[r].by}

RouteInd == StagesInOrder /\ SoundlyDecided

LEMMA StageIsNat ==
    ASSUME TypeOK, NEW r \in Requests
    PROVE  /\ request[r] \in Request /\ request[r].stage \in Stages
           /\ Stages \subseteq Nat /\ LastStage \in Stages /\ 0 \in Stages
           /\ request[r].status = "absent" => request[r].stage = 0
BY BoundsAssumption DEF TypeOK, Request, Stages

\* A step that leaves requests and decisions alone, and no decided stage another binding.
LEMMA RouteSame ==
    ASSUME TypeInv, RouteInd, UNCHANGED <<request, decision>>,
           \A r \in Requests, s \in Stages : decision[r][s] # None => bindings'[r][s] = bindings[r][s],
           \A k \in Keys : calls[k] # None => calls'[k] = calls[k]
    PROVE  RouteInd'
<1>1. StagesInOrder'
  BY DEF RouteInd, StagesInOrder
<1>2. ASSUME NEW r \in Requests, NEW s \in Stages, decision'[r][s] # None
      PROVE  /\ calls'[decision'[r][s].key] # None
             /\ calls'[decision'[r][s].key].req = r
             /\ calls'[decision'[r][s].key].stage = s
             /\ decision'[r][s].by = Current(r, s)'.officer
             /\ decision'[r][s].by \notin {Employee, request'[r].by}
  <2>1. decision[r][s] # None /\ decision[r][s] \in Decision /\ decision[r][s].key \in Keys
    BY <1>2 DEF TypeInv, TypeOK, Decision
  <2>2. Current(r, s)' = Current(r, s)
    BY <2>1 DEF Current
  <2>3. calls'[decision[r][s].key] = calls[decision[r][s].key]
    BY <2>1 DEF RouteInd, SoundlyDecided
  <2> QED
    BY <2>1, <2>2, <2>3 DEF RouteInd, SoundlyDecided
<1>3. SoundlyDecided'
  BY <1>2 DEF SoundlyDecided
<1> QED
  BY <1>1, <1>3 DEF RouteInd

\* Cancelling what is pending leaves the stages in order.
LEMMA RouteCancels ==
    ASSUME TypeInv, RouteInd, UNCHANGED <<bindings, decision, calls>>, NEW r \in Requests, Open(r),
           request' = Ended(r, "cancelled", request)
    PROVE  RouteInd'
<1>1. TypeOK /\ \A n \in Requests :
         /\ request'[n].stage = request[n].stage /\ request'[n].by = request[n].by
         /\ \/ request'[n].status = request[n].status
            \/ request[n].status = "pending" /\ request'[n].status = "cancelled"
  <2>1. TypeOK
    BY DEF TypeInv
  <2>2. /\ request'[r] = [request[r] EXCEPT !.status = "cancelled"] /\ request[r] \in Request
        /\ \A n \in Requests : n # r => request'[n] = request[n]
    BY <2>1, CancelledType, StageIsNat
  <2> QED
    BY <2>1, <2>2 DEF Open, Request
<1>2. StagesInOrder'
  BY <1>1 DEF RouteInd, StagesInOrder
<1>3. SoundlyDecided'
  BY <1>1 DEF RouteInd, SoundlyDecided, Current
<1> QED
  BY <1>2, <1>3 DEF RouteInd

\* A new application starts at its first stage, with nothing decided.
LEMMA RoutePlaces ==
    ASSUME TypeInv, RouteInd, UNCHANGED <<decision, calls>>,
           NEW q \in [Requests -> Request], NEW r \in Requests, NEW u \in Accounts,
           NEW days \in SUBSET Days, days # {}, Routable(u),
           request[r].status = "absent",
           \A n \in Requests : n # r =>
              /\ q[n].stage = request[n].stage /\ q[n].by = request[n].by
              /\ \/ q[n].status = request[n].status
                 \/ request[n].status = "pending" /\ q[n].status = "cancelled",
           request' = Placed(r, u, days, q), bindings' = Bound(r)
    PROVE  RouteInd'
<1>1. /\ TypeOK
      /\ request'[r] = [status |-> "pending", days |-> days, stage |-> 0, by |-> u]
      /\ \A n \in Requests : n # r => request'[n] = q[n] /\ bindings'[n] = bindings[n]
      /\ \A s \in Stages : decision[r][s] = None
  BY BoundType DEF TypeInv, Placed, RouteInd, StagesInOrder
<1>2. StagesInOrder'
  <2> SUFFICES ASSUME NEW n \in Requests
               PROVE  /\ \A s \in Stages : decision'[n][s] # None =>
                            s <= request'[n].stage /\ request'[n].status # "absent"
                      /\ \A s \in Stages : s < request'[n].stage =>
                            decision'[n][s] # None /\ decision'[n][s].verdict = "approved"
                      /\ request'[n].status \in {"pending", "cancelled"} => decision'[n][request'[n].stage] = None
                      /\ request'[n].status \in Verdicts =>
                            /\ decision'[n][request'[n].stage] # None
                            /\ decision'[n][request'[n].stage].verdict = request'[n].status
                      /\ request'[n].status = "approved" => request'[n].stage = LastStage
    BY DEF StagesInOrder
  <2>1. CASE n = r
    <3>1. \A s \in Stages : s \in Nat
      BY <1>1, StageIsNat
    <3>2. 0 \in Stages
      BY <1>1, StageIsNat
    <3> QED
      BY <1>1, <2>1, <3>1, <3>2
  <2>2. CASE n # r
    BY <1>1, <2>2 DEF RouteInd, StagesInOrder
  <2> QED
    BY <2>1, <2>2
<1>3. SoundlyDecided'
  BY <1>1 DEF RouteInd, SoundlyDecided, Current
<1> QED
  BY <1>2, <1>3 DEF RouteInd

\* A decision of the stage that is reached moves the application on or ends it.
LEMMA RouteDecides ==
    ASSUME TypeInv, RouteInd, UNCHANGED <<bindings, calls>>,
           NEW k \in Keys, calls[k] # None, NEW r \in Requests, r = calls[k].req,
           NEW s \in Stages, s = request[r].stage, MayDecide(k, r, s),
           decision' = Decided(k, r, s),
           \A n \in Requests : n # r => request'[n] = request[n],
           request'[r].by = request[r].by,
           \/ request'[r].status = "rejected" /\ request'[r].stage = s /\ calls[k].verdict = "rejected"
           \/ request'[r].status = "pending" /\ request'[r].stage = s + 1 /\ calls[k].verdict = "approved" /\ s < LastStage
           \/ request'[r].status = "approved" /\ request'[r].stage = s /\ calls[k].verdict = "approved" /\ s = LastStage
    PROVE  RouteInd'
<1>1. /\ TypeOK /\ decision[r][s] = None /\ request[r].status = "pending"
      /\ decision'[r][s] # None /\ decision'[r][s].by = calls[k].by
      /\ decision'[r][s].verdict = calls[k].verdict /\ decision'[r][s].key = k
      /\ \A n \in Requests, t \in Stages : n # r \/ t # s => decision'[n][t] = decision[n][t]
  <2>1. TypeOK /\ request[r].status = "pending"
    BY DEF TypeInv, MayDecide, Open
  <2>2. decision[r][s] = None
    BY <2>1 DEF RouteInd, StagesInOrder
  <2>3. decision'[r][s] = [by |-> calls[k].by, verdict |-> calls[k].verdict, key |-> k] /\ decision'[r][s] # None
    BY <2>1, DecidedType
  <2>4. \A n \in Requests, t \in Stages : n # r \/ t # s => decision'[n][t] = decision[n][t]
    BY <2>1 DEF Decided, TypeOK
  <2>5. decision'[r][s].by = calls[k].by /\ decision'[r][s].verdict = calls[k].verdict /\ decision'[r][s].key = k
    BY <2>3
  <2> QED
    BY <2>1, <2>2, <2>3, <2>4, <2>5
<1>2. /\ Current(r, s).officer = calls[k].by /\ calls[k].stage = s
      /\ calls[k].by \notin {Employee, request[r].by}
  BY DEF MayDecide, Sound
<1>3. StagesInOrder'
  <2> SUFFICES ASSUME NEW n \in Requests
               PROVE  /\ \A t \in Stages : decision'[n][t] # None =>
                            t <= request'[n].stage /\ request'[n].status # "absent"
                      /\ \A t \in Stages : t < request'[n].stage =>
                            decision'[n][t] # None /\ decision'[n][t].verdict = "approved"
                      /\ request'[n].status \in {"pending", "cancelled"} => decision'[n][request'[n].stage] = None
                      /\ request'[n].status \in Verdicts =>
                            /\ decision'[n][request'[n].stage] # None
                            /\ decision'[n][request'[n].stage].verdict = request'[n].status
                      /\ request'[n].status = "approved" => request'[n].stage = LastStage
    BY DEF StagesInOrder
  <2>1. CASE n = r
    <3>1. \A t \in Stages : t \in Nat
      BY <1>1, StageIsNat
    <3>2. /\ \A t \in Stages : decision[r][t] # None => t <= s
          /\ \A t \in Stages : t < s => decision[r][t] # None /\ decision[r][t].verdict = "approved"
      BY DEF RouteInd, StagesInOrder
    <3>3. s < LastStage => s + 1 \in Stages
      BY <3>1, BoundsAssumption DEF Stages
    <3>4. s < LastStage => s + 1 # s /\ decision'[r][s + 1] = None
      <4>1. SUFFICES ASSUME s < LastStage PROVE s + 1 # s /\ decision[r][s + 1] = None
        BY <1>1, <3>3
      <4>2. s + 1 \in Stages /\ s \in Nat /\ ~(s + 1 <= s)
        BY <3>1, <3>3, <4>1
      <4> QED
        BY <3>2, <4>2
    <3>5. \A t \in Stages : t < s + 1 <=> (t < s \/ t = s)
      BY <3>1
    <3> DEFINE d == decision'[r]
    <3>11. \A t \in Stages : t = s \/ d[t] = decision[r][t]
      BY <1>1
    <3>12. d[s] # None /\ d[s].verdict = calls[k].verdict /\ s \in Nat
      BY <1>1, <3>1
    <3> HIDE DEF d
    <3>6. \A t \in Stages : d[t] # None => t <= s
      BY <3>1, <3>2, <3>11, <3>12
    <3>7. \A t \in Stages : t <= s => t <= s + 1
      BY <3>1
    <3>8. \A t \in Stages : t < s => d[t] # None /\ d[t].verdict = "approved"
      BY <3>1, <3>2, <3>11, <3>12
    <3>9. CASE request'[r].status = "pending"
      BY <2>1, <3>4, <3>5, <3>6, <3>7, <3>8, <3>9, <3>12 DEF d
    <3>10. CASE request'[r].status \in Verdicts
      BY <2>1, <3>6, <3>8, <3>10, <3>12 DEF d
    <3> QED
      BY <3>9, <3>10
  <2>2. CASE n # r
    <3>1. request'[n] = request[n]
      BY <2>2
    <3>2. decision'[n] = decision[n]
      BY <1>1, <2>2 DEF Decided, TypeOK
    <3> QED
      BY <3>1, <3>2 DEF RouteInd, StagesInOrder
  <2> QED
    BY <2>1, <2>2
<1>4. ASSUME NEW n \in Requests, NEW t \in Stages, decision'[n][t] # None
      PROVE  /\ calls'[decision'[n][t].key] # None
             /\ calls'[decision'[n][t].key].req = n
             /\ calls'[decision'[n][t].key].stage = t
             /\ decision'[n][t].by = Current(n, t)'.officer
             /\ decision'[n][t].by \notin {Employee, request'[n].by}
  <2>1. calls' = calls /\ Current(n, t)' = Current(n, t)
    BY DEF Current
  <2>2. CASE n = r /\ t = s
    BY <1>1, <1>2, <2>1, <2>2
  <2>3. CASE n # r \/ t # s
    <3>1. decision'[n][t] = decision[n][t] /\ request'[n].by = request[n].by
      BY <1>1, <2>3
    <3> QED
      BY <1>4, <2>1, <3>1 DEF RouteInd, SoundlyDecided
  <2> QED
    BY <2>2, <2>3
<1>5. SoundlyDecided'
  BY <1>4 DEF SoundlyDecided
<1> QED
  BY <1>3, <1>5 DEF RouteInd

-----------------------------------------------------------------------------
(* Notices: who has to act, and who has to know *)

Told(r) ==
    /\ Open(r) => Announce(r, request[r].stage, Current(r, request[r].stage)) \in notices
    /\ request[r].status \in Verdicts =>
          \E s \in Stages : /\ decision[r][s] # None
                            /\ \A u \in {Employee} \cup Deciders(r) :
                                  [kind |-> "decision", key |-> decision[r][s].key, to |-> u] \in notices

LEMMA EveryoneMeansTold == EveryoneIsTold <=> \A r \in Requests : Told(r)
BY DEF EveryoneIsTold, ApproverIsTold, OutcomeIsTold, Told

LEMMA ToldSame ==
    ASSUME NEW r \in Requests, Told(r), notices \subseteq notices',
           request'[r].stage = request[r].stage, request'[r].status = request[r].status,
           decision'[r] = decision[r], bindings'[r] = bindings[r]
    PROVE  Told(r)'
<1>1. /\ Deciders(r)' = Deciders(r) /\ Open(r)' = Open(r)
      /\ Announce(r, request[r].stage, Current(r, request[r].stage))' =
            Announce(r, request[r].stage, Current(r, request[r].stage))
  BY DEF Deciders, Open, Announce, Current
<1> QED
  BY <1>1 DEF Told

LEMMA ToldPlaces ==
    ASSUME TypeInv, EveryoneIsTold, UNCHANGED decision,
           NEW q \in [Requests -> Request], NEW r \in Requests, NEW u \in Accounts,
           NEW days \in SUBSET Days, days # {}, Routable(u),
           \A n \in Requests : n # r => q[n] = request[n] \/ q[n].status = "cancelled",
           request' = Placed(r, u, days, q), bindings' = Bound(r),
           notices' = notices \cup {ApproverNotice(r, 0, {OfficeBinding(0)})}
    PROVE  EveryoneIsTold'
<1>1. /\ TypeOK /\ 0 \in Stages
      /\ request'[r] = [status |-> "pending", days |-> days, stage |-> 0, by |-> u]
      /\ \A n \in Requests : n # r => request'[n] = q[n]
      /\ \A n \in Requests : n # r => bindings'[n] = bindings[n]
      /\ bindings'[r][0] = {OfficeBinding(0)}
  BY BoundType, StageIsNat DEF TypeInv, Placed
<1>2. Told(r)'
  <2>1. request'[r].stage = 0 /\ request'[r].status = "pending"
    BY <1>1
  <2>2. Announce(r, 0, Newest(bindings'[r][0])) \in notices'
    BY <1>1 DEF ApproverNotice
  <2> QED
    BY <2>1, <2>2 DEF Told, Current
<1>3. ASSUME NEW n \in Requests, n # r PROVE Told(n)'
  <2>1. CASE q[n] = request[n]
    BY <1>1, <1>3, <2>1, ToldSame, EveryoneMeansTold
  <2>2. CASE q[n].status = "cancelled"
    BY <1>1, <1>3, <2>2 DEF Told, Open
  <2> QED
    BY <1>3, <2>1, <2>2
<1>4. \A n \in Requests : Told(n)'
  BY <1>2, <1>3
<1> QED
  BY <1>4 DEF EveryoneIsTold, ApproverIsTold, OutcomeIsTold, Told

\* Whoever ends an application, all who decided it and the employee are told.
LEMMA ToldDecides ==
    ASSUME TypeInv, EveryoneIsTold, UNCHANGED bindings,
           NEW k \in Keys, calls[k] # None, NEW r \in Requests, NEW s \in Stages,
           decision' = Decided(k, r, s),
           \A n \in Requests : n # r => request'[n] = request[n],
           request'[r].status \in Verdicts,
           notices' = notices \cup DecisionNotices(k, r, TRUE, Deciders(r))
    PROVE  EveryoneIsTold'
<1>1. TypeOK /\ decision'[r][s] # None /\ decision'[r][s].key = k /\ decision'[r][s].by = calls[k].by
      /\ \A n \in Requests, t \in Stages : n # r \/ t # s => decision'[n][t] = decision[n][t]
  <2>1. TypeOK
    BY DEF TypeInv
  <2>2. /\ Decided(k, r, s)[r][s] = [by |-> calls[k].by, verdict |-> calls[k].verdict, key |-> k]
        /\ Decided(k, r, s)[r][s] # None
        /\ \A n \in Requests, t \in Stages : n # r \/ t # s => Decided(k, r, s)[n][t] = decision[n][t]
    BY <2>1, DecidedType
  <2> QED
    BY <2>1, <2>2
<1>2. Told(r)'
  <2>1. \A u \in Deciders(r)' : u \in {calls[k].by} \cup Deciders(r)
    BY <1>1 DEF Deciders
  <2>2. \A u \in {Employee} \cup Deciders(r)' : [kind |-> "decision", key |-> k, to |-> u] \in notices'
    BY <2>1 DEF DecisionNotices
  <2> QED
    BY <1>1, <2>2 DEF Told, Open
<1>3. ASSUME NEW n \in Requests, n # r PROVE Told(n)'
  <2>1. decision'[n] = decision[n]
    BY <1>3 DEF Decided, TypeInv, TypeOK
  <2> QED
    BY <1>3, <2>1, ToldSame, EveryoneMeansTold
<1>4. \A n \in Requests : Told(n)'
  BY <1>2, <1>3
<1> QED
  BY <1>4 DEF EveryoneIsTold, ApproverIsTold, OutcomeIsTold, Told

-----------------------------------------------------------------------------
(* Every step keeps the route and its notices *)

RouteGood == TypeInv /\ RouteInd /\ EveryoneIsTold

LEMMA RouteFrame ==
    ASSUME RouteGood, UNCHANGED <<request, bindings, decision, notices>>,
           \A k \in Keys : calls[k] # None => calls'[k] = calls[k]
    PROVE  RouteInd' /\ EveryoneIsTold'
<1>1. RouteInd'
  BY RouteSame DEF RouteGood
<1>2. \A n \in Requests : Told(n)'
  BY ToldSame, EveryoneMeansTold DEF RouteGood
<1>3. EveryoneIsTold'
  BY <1>2 DEF EveryoneIsTold, ApproverIsTold, OutcomeIsTold, Told
<1> QED
  BY <1>1, <1>3

\* A pending request that q has cancelled.
CancelledIn(q, n) == Open(n) /\ q[n] = [request[n] EXCEPT !.status = "cancelled"]

\* A request of these days is placed once others are as q has them.
PlacesAfter(q, r, u, days) ==
    /\ days \in SUBSET Days /\ days # {}
    /\ Routable(u)
    /\ request[r].status = "absent"
    /\ \A n \in Requests : n # r => q[n] = request[n] \/ CancelledIn(q, n)
    /\ request' = Placed(r, u, days, q) /\ bindings' = Bound(r)
    /\ notices' = notices \cup {ApproverNotice(r, 0, {OfficeBinding(0)})}
    /\ UNCHANGED <<decision, calls>>

LEMMA PlacingKeepsRoute ==
    ASSUME RouteGood, NEW q \in [Requests -> Request], NEW r \in Requests, NEW u \in Accounts, NEW days,
           PlacesAfter(q, r, u, days)
    PROVE  RouteInd' /\ EveryoneIsTold'
<1>1. \A n \in Requests : request[n] \in Request
  BY DEF RouteGood, TypeInv, TypeOK
<1>2. ASSUME NEW n \in Requests, n # r
      PROVE  /\ q[n].stage = request[n].stage /\ q[n].by = request[n].by
             /\ \/ q[n].status = request[n].status
                \/ request[n].status = "pending" /\ q[n].status = "cancelled"
             /\ q[n] = request[n] \/ q[n].status = "cancelled"
  <2>1. CASE q[n] = request[n]
    BY <2>1
  <2>2. CASE CancelledIn(q, n)
    BY <1>1, <2>2 DEF CancelledIn, Open, Request
  <2> QED
    BY <1>2, <2>1, <2>2 DEF PlacesAfter
<1>3. RouteInd'
  BY <1>2, RoutePlaces DEF PlacesAfter, RouteGood
<1>4. EveryoneIsTold'
  BY <1>2, ToldPlaces DEF PlacesAfter, RouteGood
<1> QED
  BY <1>3, <1>4

LEMMA CancelledPlaces ==
    ASSUME TypeOK, NEW r \in Requests, Open(r), NEW q, q = Ended(r, "cancelled", request)
    PROVE  /\ q \in [Requests -> Request]
           /\ \A n \in Requests : q[n] = request[n] \/ CancelledIn(q, n)
<1>1. q \in [Requests -> Request] /\ CancelledIn(q, r)
  BY CancelledType DEF CancelledIn
<1>2. \A n \in Requests : n # r => q[n] = request[n]
  BY DEF Ended, TypeOK
<1> QED
  BY <1>1, <1>2

LEMMA SubmitRoute ==
    ASSUME RouteGood, NEW r \in Requests, NEW u \in Accounts, NEW days \in Spans, Submit(r, u, days)
    PROVE  RouteInd' /\ EveryoneIsTold'
<1>1. PlacesAfter(request, r, u, days)
  BY SpanType DEF PlacesAfter, Submit, Acceptable
<1>2. request \in [Requests -> Request]
  BY DEF RouteGood, TypeInv, TypeOK
<1> QED
  BY <1>1, <1>2, PlacingKeepsRoute

LEMMA ReplaceRoute ==
    ASSUME RouteGood, NEW r \in Requests, NEW n \in Requests, NEW u \in Accounts,
           NEW days \in SUBSET Days, days # {}, Replace(r, n, u, days)
    PROVE  RouteInd' /\ EveryoneIsTold'
<1> DEFINE q == Ended(r, "cancelled", request)
<1>1. TypeOK /\ Open(r)
  BY DEF Replace, RouteGood, TypeInv
<1>2. /\ q \in [Requests -> Request]
      /\ \A x \in Requests : q[x] = request[x] \/ CancelledIn(q, x)
  BY <1>1, CancelledPlaces
<1>3. request' = Placed(n, u, days, q)
  BY DEF Replace
<1> HIDE DEF q
<1>4. PlacesAfter(q, n, u, days)
  BY <1>2, <1>3 DEF PlacesAfter, Replace, Acceptable
<1> QED
  BY <1>2, <1>4, PlacingKeepsRoute

LEMMA ChangeRoute ==
    ASSUME RouteGood, NEW r \in Requests, NEW u \in Accounts,
           \/ \E c \in Link : \E days \in Beginnings(c.of) : Change(r, u, c, days)
           \/ \E n \in Requests : ContinueChange(n, r, u)
    PROVE  RouteInd' /\ EveryoneIsTold'
<1>1. CASE \E c \in Link : \E days \in Beginnings(c.of) : Change(r, u, c, days)
  <2>1. PICK c \in Link : \E days \in Beginnings(c.of) : Change(r, u, c, days)
    BY <1>1
  <2>2. PICK days \in Beginnings(c.of) : Change(r, u, c, days)
    BY <2>1
  <2>3. days \in SUBSET Days /\ days # {} /\ request \in [Requests -> Request]
    BY SpanType DEF Beginnings, RouteGood, TypeInv, TypeOK
  <2>4. PlacesAfter(request, r, u, days)
    BY <2>2, <2>3 DEF PlacesAfter, Change, Changing
  <2> QED
    BY <2>3, <2>4, PlacingKeepsRoute
<1>2. CASE \E n \in Requests : ContinueChange(n, r, u)
  <2>1. PICK n \in Requests : ContinueChange(n, r, u)
    BY <1>2
  <2> DEFINE q == Ended(n, "cancelled", request)
  <2>2. TypeOK /\ Open(n)
    BY <2>1 DEF ContinueChange, RouteGood, TypeInv
  <2>3. request[n].days \in SUBSET Days /\ request[n].days # {}
    BY <2>2 DEF TypeOK, Open, Request
  <2>4. /\ q \in [Requests -> Request]
        /\ \A x \in Requests : q[x] = request[x] \/ CancelledIn(q, x)
    BY <2>2, CancelledPlaces
  <2>5. request' = Placed(r, u, request[n].days, q)
    BY <2>1 DEF ContinueChange
  <2> HIDE DEF q
  <2>6. PlacesAfter(q, r, u, request[n].days)
    BY <2>1, <2>3, <2>4, <2>5 DEF PlacesAfter, ContinueChange, Changing
  <2> QED
    BY <2>4, <2>6, PlacingKeepsRoute
<1> QED
  BY <1>1, <1>2

LEMMA CancelRoute ==
    ASSUME RouteGood, NEW r \in Requests, NEW u \in Accounts, Cancel(r, u)
    PROVE  RouteInd' /\ EveryoneIsTold'
<1>1. /\ TypeOK /\ Open(r) /\ request' = Ended(r, "cancelled", request)
      /\ UNCHANGED <<bindings, decision, calls, notices>>
  BY DEF RouteGood, TypeInv, Cancel
<1>2. RouteInd'
  BY <1>1, RouteCancels DEF RouteGood
<1>3. request'[r].status = "cancelled" /\ \A n \in Requests : n # r => request'[n] = request[n]
  <2>1. /\ Ended(r, "cancelled", request)[r] = [request[r] EXCEPT !.status = "cancelled"]
        /\ \A n \in Requests : n # r => Ended(r, "cancelled", request)[n] = request[n]
    BY <1>1, CancelledType
  <2>2. request[r] \in Request
    BY <1>1, StageIsNat
  <2> QED
    BY <1>1, <2>1, <2>2 DEF Request
<1>4. ASSUME NEW n \in Requests PROVE Told(n)'
  <2>1. CASE n = r
    BY <1>3, <2>1 DEF Told, Open
  <2>2. CASE n # r
    BY <1>1, <1>3, <2>2, ToldSame, EveryoneMeansTold DEF RouteGood
  <2> QED
    BY <2>1, <2>2
<1>5. EveryoneIsTold'
  BY <1>4 DEF EveryoneIsTold, ApproverIsTold, OutcomeIsTold, Told
<1> QED
  BY <1>2, <1>5

LEMMA SendRoute ==
    ASSUME RouteGood, NEW k \in Keys, NEW r \in Requests, NEW verdict \in Verdicts, Send(k, r, verdict)
    PROVE  RouteInd' /\ EveryoneIsTold'
<1>1. \A j \in Keys : calls[j] # None => calls'[j] = calls[j]
  BY DEF Send, RouteGood, TypeInv, TypeOK
<1> QED
  BY <1>1, RouteFrame DEF Send

\* Reject, Grant and GrantChange end the application.
LEMMA EndingKeepsRoute ==
    ASSUME RouteGood, NEW k \in Keys, calls[k] # None, NEW r \in Requests, r = calls[k].req,
           NEW s \in Stages, s = request[r].stage, NEW verdict \in Verdicts, calls[k].verdict = verdict,
           verdict = "approved" => s = LastStage,
           MayDecide(k, r, s), decision' = Decided(k, r, s), request' = Ended(r, verdict, request),
           notices' = notices \cup DecisionNotices(k, r, TRUE, Deciders(r)), UNCHANGED <<bindings, calls>>
    PROVE  RouteInd' /\ EveryoneIsTold'
<1>1. TypeOK /\ Open(r) /\ TypeInv /\ RouteInd /\ EveryoneIsTold
  BY DEF RouteGood, TypeInv, MayDecide
<1>2. /\ request'[r] = [request[r] EXCEPT !.status = verdict] /\ request[r] \in Request
      /\ \A n \in Requests : n # r => request'[n] = request[n]
  <2>1. \A status \in {"cancelled", "approved", "rejected"} :
           /\ Ended(r, status, request)[r] = [request[r] EXCEPT !.status = status]
           /\ \A n \in Requests : n # r => Ended(r, status, request)[n] = request[n]
    BY <1>1, CancelledType
  <2>2. request[r] \in Request
    BY <1>1, StageIsNat
  <2> QED
    BY <2>1, <2>2
<1>3. request'[r].status = verdict /\ request'[r].stage = s /\ request'[r].by = request[r].by
  BY <1>2 DEF Request
<1>4. RouteInd'
  <2>1. CASE verdict = "rejected"
    <3>1. request'[r].status = "rejected" /\ request'[r].stage = s /\ calls[k].verdict = "rejected"
      BY <1>3, <2>1
    <3> QED
      BY <1>1, <1>2, <1>3, <3>1, RouteDecides
  <2>2. CASE verdict = "approved"
    <3>1. /\ request'[r].status = "approved" /\ request'[r].stage = s
          /\ calls[k].verdict = "approved" /\ s = LastStage
      BY <1>3, <2>2
    <3> QED
      BY <1>1, <1>2, <1>3, <3>1, RouteDecides
  <2> QED
    BY <2>1, <2>2
<1>5. EveryoneIsTold'
  BY <1>1, <1>2, <1>3, ToldDecides
<1> QED
  BY <1>4, <1>5

LEMMA RejectRoute ==
    ASSUME RouteGood, NEW k \in Keys, Reject(k)
    PROVE  RouteInd' /\ EveryoneIsTold'
<1> DEFINE r == calls[k].req
           s == request[r].stage
<1>1. calls[k] # None /\ r \in Requests /\ s \in Stages
  BY CallType, StageIsNat DEF Reject, RouteGood, TypeInv
<1>2. /\ calls[k].verdict = "rejected" /\ MayDecide(k, r, s) /\ decision' = Decided(k, r, s)
      /\ request' = Ended(r, "rejected", request)
      /\ notices' = notices \cup DecisionNotices(k, r, TRUE, Deciders(r)) /\ UNCHANGED <<bindings, calls>>
  BY DEF Reject
<1> HIDE DEF s
<1>3. s = request[r].stage
  BY DEF s
<1> HIDE DEF r
<1>4. r = calls[k].req
  BY DEF r
<1> QED
  BY <1>1, <1>2, <1>3, <1>4, EndingKeepsRoute

LEMMA GrantRoute ==
    ASSUME RouteGood, NEW k \in Keys, Grant(k) \/ GrantChange(k)
    PROVE  RouteInd' /\ EveryoneIsTold'
<1> DEFINE r == calls[k].req
<1>1. calls[k] # None /\ r \in Requests /\ LastStage \in Stages /\ calls[k].verdict = "approved"
  BY CallType, StageIsNat DEF Grant, GrantChange, RouteGood, TypeInv
<1>2. Finish(k, r) /\ UNCHANGED <<bindings, calls>>
  BY DEF Grant, GrantChange
<1> HIDE DEF r
<1>3. r = calls[k].req
  BY DEF r
<1>4. /\ request[r].stage = LastStage /\ MayDecide(k, r, LastStage) /\ decision' = Decided(k, r, LastStage)
      /\ request' = Ended(r, "approved", request)
      /\ notices' = notices \cup DecisionNotices(k, r, TRUE, Deciders(r))
  BY <1>2 DEF Finish
<1> QED
  BY <1>1, <1>2, <1>3, <1>4, EndingKeepsRoute

LEMMA ForwardRoute ==
    ASSUME RouteGood, NEW k \in Keys, Forward(k)
    PROVE  RouteInd' /\ EveryoneIsTold'
<1> DEFINE r == calls[k].req
           s == request[r].stage
<1>1. /\ TypeInv /\ TypeOK /\ RouteInd /\ EveryoneIsTold
      /\ calls[k] # None /\ r \in Requests /\ s \in Stages /\ request[r] \in Request
      /\ request \in [Requests -> Request]
  BY CallType, StageIsNat DEF Forward, RouteGood, TypeInv, TypeOK
<1>2. /\ calls[k].verdict = "approved" /\ s < LastStage /\ MayDecide(k, r, s) /\ decision' = Decided(k, r, s)
      /\ request' = [request EXCEPT ![r].stage = s + 1]
      /\ notices' = notices \cup DecisionNotices(k, r, FALSE, {}) \cup {ApproverNotice(r, s + 1, bindings[r][s + 1])}
      /\ UNCHANGED <<bindings, calls>>
  BY DEF Forward
<1>3. /\ request'[r].status = "pending" /\ request'[r].stage = s + 1 /\ request'[r].by = request[r].by
      /\ \A n \in Requests : n # r => request'[n] = request[n]
  BY <1>1, <1>2 DEF MayDecide, Open, Request
<1>4. RouteInd'
  <2> HIDE DEF s
  <2>1. s = request[r].stage
    BY DEF s
  <2> HIDE DEF r
  <2>2. r = calls[k].req
    BY DEF r
  <2> QED
    BY <1>1, <1>2, <1>3, <2>1, <2>2, RouteDecides
<1>5. ASSUME NEW n \in Requests PROVE Told(n)'
  <2>1. CASE n = r
    <3>1. Announce(r, s + 1, Newest(bindings'[r][s + 1])) \in notices'
      BY <1>2 DEF ApproverNotice
    <3> QED
      BY <1>3, <2>1, <3>1 DEF Told, Current
  <2>2. CASE n # r
    <3>1. decision'[n] = decision[n]
      BY <1>1, <1>2, <2>2 DEF Decided, TypeOK
    <3> QED
      BY <1>1, <1>2, <1>3, <2>2, <3>1, ToldSame, EveryoneMeansTold
  <2> QED
    BY <2>1, <2>2
<1>6. EveryoneIsTold'
  BY <1>5 DEF EveryoneIsTold, ApproverIsTold, OutcomeIsTold, Told
<1> QED
  BY <1>4, <1>6

\* The officer of a stage is only replaced before it is decided, and is then told.
LEMMA CommitRebindRoute ==
    ASSUME RouteGood, NEW h \in Handlers, CommitRebind(h)
    PROVE  RouteInd' /\ EveryoneIsTold'
<1> DEFINE r == rebinding[h].req
           s == rebinding[h].stage
<1>1. /\ r \in Requests /\ s \in Stages /\ decision[r][s] = None
      /\ \A n \in Requests, t \in Stages : n # r \/ t # s => bindings'[n][t] = bindings[n][t]
      /\ bindings' \in [Requests -> [Stages -> SUBSET Binding]]
      /\ bindings \in [Requests -> [Stages -> SUBSET Binding]]
  BY CommitRebindBindings DEF RouteGood, TypeInv, TypeOK
<1>2. UNCHANGED <<request, decision, calls>> /\ notices \subseteq notices'
      /\ ApproverNotice(r, request[r].stage, bindings'[r][request[r].stage]) \in notices'
  <2>1. /\ UNCHANGED <<request, decision, calls>>
        /\ notices' = notices \cup {ApproverNotice(r, request[r].stage, bindings'[r][request[r].stage])}
    BY DEF CommitRebind
  <2> QED
    BY <2>1
<1>3. RouteInd'
  BY <1>1, <1>2, RouteSame DEF RouteGood
<1>4. ASSUME NEW n \in Requests PROVE Told(n)'
  <2>1. CASE n = r
    <3>1. Announce(n, request'[n].stage, Newest(bindings'[n][request'[n].stage])) \in notices'
      BY <1>2, <2>1 DEF ApproverNotice
    <3>2. Told(n)
      BY EveryoneMeansTold DEF RouteGood
    <3>3. Deciders(n)' = Deciders(n)
      BY <1>2 DEF Deciders
    <3>4. Open(n)' => Announce(n, request[n].stage, Current(n, request[n].stage))' \in notices'
      BY <3>1 DEF Announce, Current
    <3> QED
      BY <1>2, <3>2, <3>3, <3>4 DEF Told
  <2>2. CASE n # r
    <3>1. bindings'[n] = bindings[n]
      BY <1>1, <2>2
    <3> QED
      BY <1>2, <2>2, <3>1, ToldSame, EveryoneMeansTold DEF RouteGood
  <2> QED
    BY <2>1, <2>2
<1>5. EveryoneIsTold'
  BY <1>4 DEF EveryoneIsTold, ApproverIsTold, OutcomeIsTold, Told
<1> QED
  BY <1>3, <1>5

LEMMA RouteStep ==
    ASSUME RouteGood, [Next]_workflow
    PROVE  RouteGood'
<1> SUFFICES RouteInd' /\ EveryoneIsTold'
  BY TypeStep DEF RouteGood
<1>1. ASSUME NEW r \in Requests, NEW u \in Accounts, NEW days \in Spans, Submit(r, u, days)
      PROVE  RouteInd' /\ EveryoneIsTold'
  BY <1>1, SubmitRoute
<1>2. ASSUME NEW r \in Requests, NEW u \in Accounts, Cancel(r, u) PROVE RouteInd' /\ EveryoneIsTold'
  BY <1>2, CancelRoute
<1>3. ASSUME NEW r \in Requests, NEW u \in Accounts, NEW o \in Requests, NEW action \in Kinds,
             NEW days \in Beginnings(o), Change(r, u, [of |-> o, action |-> action], days)
      PROVE  RouteInd' /\ EveryoneIsTold'
  <2> DEFINE c == [of |-> o, action |-> action]
  <2>1. c \in Link /\ c.of = o /\ Change(r, u, c, days)
    BY <1>3 DEF Link
  <2> HIDE DEF c
  <2> QED
    BY <2>1, ChangeRoute
<1>4. ASSUME NEW r \in Requests, NEW k \in Keys, NEW verdict \in Verdicts, Send(k, r, verdict)
      PROVE  RouteInd' /\ EveryoneIsTold'
  BY <1>4, SendRoute
<1>5. ASSUME NEW r \in Requests, NEW n \in Requests,
             \/ \E days \in Spans : Amend(r, n, days)
             \/ \E u \in Accounts : Continue(r, n, u)
      PROVE  RouteInd' /\ EveryoneIsTold'
  BY <1>5, ReplaceSteps, ReplaceRoute DEF RouteGood
<1>6. ASSUME NEW r \in Requests, NEW n \in Requests, NEW u \in Accounts, ContinueChange(r, n, u)
      PROVE  RouteInd' /\ EveryoneIsTold'
  BY <1>6, ChangeRoute
<1>7. ASSUME NEW k \in Keys, Reject(k) \/ Forward(k) \/ Grant(k) \/ GrantChange(k)
      PROVE  RouteInd' /\ EveryoneIsTold'
  BY <1>7, RejectRoute, ForwardRoute, GrantRoute
<1>8. ASSUME NEW h \in Handlers, CommitRebind(h) PROVE RouteInd' /\ EveryoneIsTold'
  BY <1>8, CommitRebindRoute
<1>9. CASE \/ \E r \in Requests, u \in Accounts, h \in Handlers, s \in Stages : BeginRebind(h, r, s, u)
           \/ \E h \in Handlers : AbandonRebind(h)
           \/ \E k \in CorrectionKeys, e \in Entitlements, n \in Amounts : Correct(k, e, n)
           \/ \E q \in ledger : Reverse(q)
           \/ \E s \in Stages : CloseOffice(s) \/ \E u \in Accounts : Appoint(s, u)
           \/ \E u \in Accounts : ChangeAccount(u)
           \/ UNCHANGED workflow
  <2>1. UNCHANGED <<request, bindings, decision, notices, calls>>
    BY <1>9 DEF BeginRebind, AbandonRebind, Correct, Reverse, CloseOffice, Appoint, ChangeAccount, workflow
  <2> QED
    BY <2>1, RouteFrame
<1> QED
  BY <1>1, <1>2, <1>3, <1>4, <1>5, <1>6, <1>7, <1>8, <1>9 DEF Next

LEMMA RouteInit ==
    ASSUME Init
    PROVE  RouteGood
<1>1. TypeInv
  BY TypeInit
<1>2. \A r \in Requests : /\ request[r].status = "absent" /\ request[r].stage = 0
                          /\ \A s \in Stages : decision[r][s] = None
  BY DEF Init
<1>3. 0 \in Stages /\ \A s \in Stages : s \in Nat /\ ~(s < 0)
  BY <1>1, BoundsAssumption DEF Stages
<1>4. RouteInd
  BY <1>2, <1>3 DEF RouteInd, StagesInOrder, SoundlyDecided
<1>5. EveryoneIsTold
  BY <1>2 DEF EveryoneIsTold, ApproverIsTold, OutcomeIsTold, Open
<1> QED
  BY <1>1, <1>4, <1>5 DEF RouteGood

\* Stages that are decided in order, each by the officer it is bound to, are what
\* the properties ask for.
LEMMA RouteSuffices ==
    ASSUME RouteGood
    PROVE  RouteInv /\ DecidesWhatWasShown
<1>1. TypeOK /\ DeciderStaysBound /\ DecidesWhatWasShown
  BY DEF RouteGood, RouteInd, TypeInv, SoundlyDecided, DeciderStaysBound, DecidesWhatWasShown
<1>2. ASSUME NEW r \in Requests
      PROVE  /\ request[r].status = "approved" =>
                   \A s \in Stages : decision[r][s] # None /\ decision[r][s].verdict = "approved"
             /\ (request[r].status = "rejected") =
                   (\E s \in Stages : decision[r][s] # None /\ decision[r][s].verdict = "rejected")
             /\ \A s \in Stages : decision[r][s] # None => decision[r][s].by \notin {Employee, request[r].by}
  <2> DEFINE t == request[r].stage
  <2>1. /\ t \in Stages /\ t \in Nat
        /\ \A s \in Stages : s \in Nat /\ s <= LastStage
        /\ request[r].status \in {"absent", "pending", "cancelled", "approved", "rejected"}
    BY <1>1, BoundsAssumption DEF TypeOK, Request, Stages
  <2>2. /\ \A s \in Stages : decision[r][s] # None => s <= t /\ request[r].status # "absent"
        /\ \A s \in Stages : s < t => decision[r][s] # None /\ decision[r][s].verdict = "approved"
        /\ request[r].status \in {"pending", "cancelled"} => decision[r][t] = None
        /\ request[r].status \in Verdicts => decision[r][t] # None /\ decision[r][t].verdict = request[r].status
        /\ request[r].status = "approved" => t = LastStage
    BY DEF RouteGood, RouteInd, StagesInOrder
  <2> HIDE DEF t
  <2>3. \A s \in Stages : decision[r][s] # None => s = t \/ decision[r][s].verdict = "approved"
    <3> SUFFICES ASSUME NEW s \in Stages, decision[r][s] # None, s # t PROVE decision[r][s].verdict = "approved"
      OBVIOUS
    <3>1. s < t
      BY <2>1, <2>2
    <3> QED
      BY <2>2, <3>1
  <2>4. request[r].status = "approved" =>
           \A s \in Stages : decision[r][s] # None /\ decision[r][s].verdict = "approved"
    BY <2>1, <2>2
  <2>5. request[r].status = "rejected" =>
           \E s \in Stages : decision[r][s] # None /\ decision[r][s].verdict = "rejected"
    BY <2>1, <2>2
  <2>6. (\E s \in Stages : decision[r][s] # None /\ decision[r][s].verdict = "rejected") =>
           request[r].status = "rejected"
    BY <2>1, <2>2, <2>3
  <2>7. \A s \in Stages : decision[r][s] # None => decision[r][s].by \notin {Employee, request[r].by}
    BY DEF RouteGood, RouteInd, SoundlyDecided
  <2> QED
    BY <2>4, <2>5, <2>6, <2>7
<1>3. GrantedByEveryStage
  BY <1>2 DEF GrantedByEveryStage
<1> QED
  BY <1>1, <1>3 DEF RouteInv

LEMMA RouteHolds == Spec => []RouteGood
<1>1. Init => RouteGood
  BY RouteInit
<1>2. RouteGood /\ [Next]_vars => RouteGood'
  BY RouteStep DEF vars, workflow
<1> QED
  BY <1>1, <1>2, PTL DEF Spec

\* The tables keep their types, a stage keeps the officer who decided it, and leave
\* is granted by every stage and by nobody who asked for it.
THEOREM RouteIsKept == Spec => []RouteInv
<1>1. RouteGood => RouteInv
  BY RouteSuffices
<1> QED
  BY <1>1, RouteHolds, PTL

\* A decision decides the application and the stage it was sent for, or nothing.
THEOREM LateDecisionsAreRefused == Spec => []DecidesWhatWasShown
<1>1. RouteGood => DecidesWhatWasShown
  BY RouteSuffices
<1> QED
  BY <1>1, RouteHolds, PTL

\* Whoever has to act on an application or know of its outcome has a notice queued.
THEOREM NobodyIsLeftUntold == Spec => []EveryoneIsTold
<1>1. RouteGood => EveryoneIsTold
  BY DEF RouteGood
<1> QED
  BY <1>1, RouteHolds, PTL

-----------------------------------------------------------------------------
(* The ledger: what is held, what is used, and whose days they are *)

\* A hold belongs to a pending application for leave and is consumed with its grant;
\* a change has no hold, and changes only take effect on granted leave.
HoldsFollow ==
    /\ \A r \in Requests : request[r].status = "absent" => reservation[r] = None /\ link[r] = None
    /\ \A r \in Requests : effects[r] # <<>> => request[r].status = "approved" /\ Absence(r)
    /\ \A r \in Requests : ~Absence(r) => reservation[r] = None
    /\ \A r \in Requests : Absence(r) =>
          /\ Open(r) <=> reservation[r] = "held"
          /\ request[r].status = "approved" <=> reservation[r] = "consumed"
    /\ IsFiniteSet(Holds)

LedgerGood == TypeInv /\ HoldsFollow /\ LeaveIsCovered

LEMMA DaysType ==
    ASSUME TypeOK, NEW r \in Requests
    PROVE  request[r] \in Request /\ request[r].days \in SUBSET Days
BY DEF TypeOK, Request

LEMMA HoldsStand ==
    ASSUME HoldsFollow
    PROVE  Holds \subseteq Standing
<1>1. None # "held"
  BY NoneAssumption
<1> QED
  BY <1>1 DEF HoldsFollow, Holds, Standing, Open

\* The totals of two ledgers that share no posting add up.
LEMMA TotalUnion ==
    ASSUME NEW ps \in SUBSET Posting, IsFiniteSet(ps), NEW qs \in SUBSET Posting, IsFiniteSet(qs),
           ps \cap qs = {}, NEW e
    PROVE  Total(ps \cup qs, e) = Total(ps, e) + Total(qs, e)
<1> DEFINE S == {p \in ps : p.ent = e}
           T == {p \in qs : p.ent = e}
           U == {p \in ps \cup qs : p.ent = e}
           f == [p \in S |-> p.amount]
           g == [p \in T |-> p.amount]
           h == [p \in U |-> p.amount]
<1>1. IsFiniteSet(S) /\ IsFiniteSet(T) /\ S \cap T = {} /\ U = S \cup T
  BY FS_Subset
<1>2. \A p \in S \cup T : h[p] \in Int
  BY DEF Posting
<1>3. (\A p \in S : h[p] = f[p]) /\ (\A p \in T : h[p] = g[p])
  OBVIOUS
<1>4. /\ Total(ps, e) = SumFunctionOnSet(f, S) /\ Total(qs, e) = SumFunctionOnSet(g, T)
      /\ Total(ps \cup qs, e) = SumFunctionOnSet(h, U)
  BY TotalIsSum DEF S, T, U, f, g, h
<1> HIDE DEF S, T, U, f, g, h
<1>5. SumFunctionOnSet(h, S \cup T) = SumFunctionOnSet(h, S) + SumFunctionOnSet(h, T)
  BY <1>1, <1>2, SumUnion
<1>6. SumFunctionOnSet(h, S) = SumFunctionOnSet(f, S) /\ SumFunctionOnSet(h, T) = SumFunctionOnSet(g, T)
  BY <1>1, <1>3, SumSame
<1> QED
  BY <1>1, <1>4, <1>5, <1>6

\* Postings with at most one of each entitlement: their total is that one.
LEMMA TotalOfOne ==
    ASSUME NEW qs \in SUBSET Posting, IsFiniteSet(qs), NEW e, NEW p \in qs, p.ent = e,
           \A q \in qs : q.ent = e => q = p
    PROVE  Total(qs, e) = p.amount
<1> DEFINE f == [q \in {p} |-> q.amount]
<1>1. {q \in qs : q.ent = e} = {p}
  OBVIOUS
<1>2. f[p] \in Int /\ f[p] = p.amount
  BY DEF Posting
<1>3. Total(qs, e) = SumFunctionOnSet(f, {p})
  BY <1>1, TotalIsSum
<1> HIDE DEF f
<1>4. SumFunctionOnSet(f, {} \cup {p}) = SumFunctionOnSet(f, {}) + f[p]
  BY <1>2, FS_EmptySet, SumAdd
<1> QED
  BY <1>2, <1>3, <1>4, SumEmpty

LEMMA TotalOfNone ==
    ASSUME NEW qs, NEW e, \A q \in qs : q.ent # e
    PROVE  Total(qs, e) = 0
<1>1. {q \in qs : q.ent = e} = {}
  OBVIOUS
<1> QED
  BY <1>1, TotalIsSum, SumEmpty

\* What a grant posts is what was held: to each entitlement the days of its year.
LEMMA UsesTotal ==
    ASSUME TypeOK, NEW r \in Requests, NEW e \in Entitlements
    PROVE  Total(Uses(r), e) = -Charge(request[r].days, e)
<1> DEFINE days == request[r].days
<1>1. days \in SUBSET Days /\ Uses(r) \in SUBSET Posting /\ IsFiniteSet(Uses(r))
  BY DaysType, UsesType
<1>2. CASE \E d \in days : YearOf[d] = e
  <2> DEFINE p == [kind |-> "use", ref |-> r, ent |-> e, amount |-> -Charge(days, e)]
  <2>1. p \in Uses(r) /\ p.ent = e /\ p.amount = -Charge(days, e) /\ \A q \in Uses(r) : q.ent = e => q = p
    BY <1>2 DEF Uses
  <2> HIDE DEF p
  <2> QED
    BY <1>1, <2>1, TotalOfOne
<1>3. CASE ~\E d \in days : YearOf[d] = e
  <2>1. \A q \in Uses(r) : q.ent # e
    BY <1>3 DEF Uses
  <2>2. {d \in days : YearOf[d] = e} = {}
    BY <1>3
  <2>3. Charge(days, e) = 0
    BY <2>2, FS_EmptySet DEF Charge
  <2> QED
    BY <2>1, <2>3, TotalOfNone
<1> QED
  BY <1>2, <1>3
LEMMA BalanceIsInt ==
    ASSUME TypeInv, NEW e
    PROVE  Balance(e) \in Int
BY TotalIsInt DEF TypeInv, TypeOK, Balance

LEMMA HoldsAreNat ==
    ASSUME TypeOK, NEW rs \in SUBSET Requests, IsFiniteSet(rs), NEW e
    PROVE  Held(rs, e) \in Nat
<1>1. \A r \in rs : request[r].days \in SUBSET Days
  BY DaysType
<1> QED
  BY <1>1, HeldIsNat, HeldIsSum

\* The covering of holds, over what the requests and the holds become.
LEMMA Covered ==
    ASSUME NeverOverdrawn', NoDayTwice'
    PROVE  LeaveIsCovered'
BY DEF LeaveIsCovered

LEMMA HeldAfter ==
    ASSUME NEW rs, NEW e
    PROVE  Held(rs, e)' = HeldOf(request', rs', e')
BY DEF Held, HeldOf, SumFunction

\* Fewer holds on no less leave are covered still.
LEMMA FewerHolds ==
    ASSUME LedgerGood, NEW r, Holds' = Holds \ {r}, \A n \in Holds : n # r => request'[n].days = request[n].days,
           \A e \in Entitlements : Balance(e)' \in Int /\ Balance(e) <= Balance(e)'
    PROVE  NeverOverdrawn'
<1> SUFFICES ASSUME NEW e \in Entitlements PROVE Held(Holds, e)' <= Balance(e)'
  <2> DEFINE A(e) == Balance(e)'
             B(e) == Held(Holds, e)'
  <2>1. (\A e \in Entitlements : B(e) <= A(e)) => NeverOverdrawn'
    <3> SUFFICES ASSUME \A e \in Entitlements : B(e) <= A(e) PROVE \A e \in Entitlements : A(e) >= B(e)
      BY DEF NeverOverdrawn
    <3> HIDE DEF A, B
    <3> QED
      OBVIOUS
  <2> QED
    BY <2>1
<1>1. TypeOK /\ IsFiniteSet(Holds) /\ Holds \in SUBSET Requests /\ Balance(e) >= Held(Holds, e)
  BY DEF LedgerGood, TypeInv, HoldsFollow, Holds, LeaveIsCovered, NeverOverdrawn
<1>2. Balance(e) \in Int /\ Held(Holds, e) \in Nat
  BY <1>1, BalanceIsInt, HoldsAreNat DEF LedgerGood
<1> DEFINE H == Holds
<1>3. H = Holds
  OBVIOUS
<1> HIDE DEF H
<1>4. \A n \in H : request[n].days \in SUBSET Days
  BY <1>1, <1>3, DaysType
<1>5. HeldOf(request, H \ {r}, e) <= HeldOf(request, H, e)
  BY <1>1, <1>3, <1>4, HeldShrinks
<1>6. HeldOf(request', H \ {r}, e) = HeldOf(request, H \ {r}, e)
  <2>1. IsFiniteSet(H \ {r})
    BY <1>1, <1>3, FS_Subset
  <2>2. \A n \in H \ {r} : request'[n].days = request[n].days
    BY <1>3
  <2> QED
    BY <2>1, <2>2, HeldSame
<1>7. Held(Holds, e)' = HeldOf(request', H \ {r}, e)
  BY <1>3 DEF Held, HeldOf, SumFunction
<1>8. Held(Holds, e) = HeldOf(request, H, e)
  BY <1>3, HeldIsSum
<1>9. Balance(e)' \in Int /\ Balance(e) <= Balance(e)'
  OBVIOUS
<1>10. HeldOf(request, H \ {r}, e) \in Nat
  BY <1>1, <1>3, <1>4, FS_Subset, HeldIsNat
<1> QED
  BY <1>1, <1>2, <1>5, <1>6, <1>7, <1>8, <1>9, <1>10

LEMMA SameDays ==
    ASSUME LedgerGood, Standing' \subseteq Standing, \A n \in Standing' : Taken(n)' \subseteq Taken(n)
    PROVE  NoDayTwice'
<1> SUFFICES ASSUME NEW n \in Standing', NEW m \in Standing', n # m PROVE Taken(n)' \cap Taken(m)' = {}
  BY DEF NoDayTwice
<1>1. Taken(n) \cap Taken(m) = {}
  BY DEF LedgerGood, LeaveIsCovered, NoDayTwice
<1> QED
  BY <1>1

\* What leaves statuses, days, holds, changes and the ledger alone.
LEMMA LedgerFrame ==
    ASSUME LedgerGood, UNCHANGED <<link, effects, reservation, ledger>>,
           \A n \in Requests : request'[n].status = request[n].status /\ request'[n].days = request[n].days
    PROVE  HoldsFollow' /\ LeaveIsCovered'
<1>1. Holds' = Holds /\ Standing' = Standing
  BY DEF Holds, Standing, Absence
<1>2. HoldsFollow'
  BY <1>1 DEF LedgerGood, HoldsFollow, Absence, Open
<1>3. NoDayTwice'
  <2>1. \A n \in Standing' : Taken(n)' \subseteq Taken(n)
    BY DEF Taken, Latest, Standing
  <2> QED
    BY <1>1, <2>1, SameDays
<1>4. NeverOverdrawn'
  <2>1. \A e \in Entitlements : Balance(e)' = Balance(e) /\ Balance(e) \in Int
    BY BalanceIsInt DEF LedgerGood, Balance, Total
  <2>2. \A e \in Entitlements : Balance(e)' \in Int /\ Balance(e) <= Balance(e)'
    BY <2>1
  <2>3. None \notin Holds /\ Holds \ {None} = Holds
    BY NoneAssumption DEF Holds
  <2>4. \A n \in Holds : request'[n].days = request[n].days
    BY DEF Holds
  <2> QED
    BY <1>1, <2>2, <2>3, <2>4, FewerHolds
<1> QED
  BY <1>2, <1>3, <1>4, Covered

\* Cancel and Reject: the application ends, and the hold of one for leave with it.
LEMMA EndingReleases ==
    ASSUME LedgerGood, NEW r \in Requests, Open(r), NEW status \in {"cancelled", "rejected"},
           request' = Ended(r, status, request), reservation' = Released(r), UNCHANGED <<link, effects, ledger>>
    PROVE  HoldsFollow' /\ LeaveIsCovered'
<1>1. TypeOK /\ reservation \in [Requests -> Reservations \cup {None}]
  BY DEF LedgerGood, TypeInv, TypeOK
<1>2. /\ request'[r] = [request[r] EXCEPT !.status = status] /\ request[r] \in Request
      /\ \A n \in Requests : n # r => request'[n] = request[n]
  <2>1. status \in {"cancelled", "approved", "rejected"}
    OBVIOUS
  <2>2. /\ Ended(r, status, request)[r] = [request[r] EXCEPT !.status = status]
        /\ \A n \in Requests : n # r => Ended(r, status, request)[n] = request[n]
    BY <1>1, <2>1, CancelledType
  <2> QED
    BY <1>1, <2>2, DaysType
<1>3. request'[r].status = status /\ request'[r].days = request[r].days
  BY <1>2 DEF Request
<1>4. None \notin Reservations
  BY NoneAssumption
<1>5. /\ \A n \in Requests : n # r => reservation'[n] = reservation[n]
      /\ reservation'[r] = IF Absence(r) THEN "released" ELSE None
  BY <1>1 DEF Released, LedgerGood, HoldsFollow
<1>6. Holds' = Holds \ {r} /\ Standing' = Standing \ {r}
  <2>1. Holds' = Holds \ {r}
    BY <1>4, <1>5 DEF Holds
  <2>2. Standing' = Standing \ {r}
    BY <1>2, <1>3 DEF Standing, Absence
  <2> QED
    BY <2>1, <2>2
<1>7. HoldsFollow'
  <2>1. IsFiniteSet(Holds')
    BY <1>6, FS_Subset DEF LedgerGood, HoldsFollow
  <2>2. ASSUME NEW n \in Requests
        PROVE  /\ request'[n].status = "absent" => reservation'[n] = None /\ link'[n] = None
               /\ effects'[n] # <<>> => request'[n].status = "approved" /\ Absence(n)'
               /\ ~Absence(n)' => reservation'[n] = None
               /\ Absence(n)' => /\ Open(n)' <=> reservation'[n] = "held"
                                 /\ request'[n].status = "approved" <=> reservation'[n] = "consumed"
    <3>1. CASE n = r
      BY <1>3, <1>4, <1>5, <3>1 DEF LedgerGood, HoldsFollow, Open, Absence
    <3>2. CASE n # r
      BY <1>2, <1>5, <3>2 DEF LedgerGood, HoldsFollow, Open, Absence
    <3> QED
      BY <3>1, <3>2
  <2> QED
    BY <2>1, <2>2 DEF HoldsFollow
<1>8. NoDayTwice'
  <2>1. \A n \in Standing' : Taken(n)' \subseteq Taken(n)
    BY <1>2, <1>3, <1>6 DEF Taken, Latest, Standing
  <2> QED
    BY <1>6, <2>1, SameDays
<1>9. NeverOverdrawn'
  <2>1. \A e \in Entitlements : Balance(e)' = Balance(e) /\ Balance(e) \in Int
    BY BalanceIsInt DEF LedgerGood, Balance, Total
  <2>2. \A e \in Entitlements : Balance(e)' \in Int /\ Balance(e) <= Balance(e)'
    BY <2>1
  <2>3. \A n \in Holds : n # r => request'[n].days = request[n].days
    BY <1>2 DEF Holds
  <2> QED
    BY <1>6, <2>2, <2>3, FewerHolds
<1> QED
  BY <1>7, <1>8, <1>9, Covered

\* Submit, Amend and Continue: application n of days takes a hold, against the
\* applications that stand then.
LEMMA PlacingHolds ==
    ASSUME LedgerGood, NEW n \in Requests, NEW u, NEW days \in SUBSET Days, NEW others \in SUBSET Standing,
           Acceptable(n, u, days, others),
           request'[n].status = "pending", request'[n].days = days, reservation'[n] = "held",
           \A x \in others : x # n => request'[x] = request[x] /\ reservation'[x] = reservation[x],
           \A x \in Requests : x # n /\ x \notin others =>
              \/ request'[x] = request[x] /\ reservation'[x] = reservation[x]
              \/ /\ Open(x) /\ Absence(x)
                 /\ request'[x].status = "cancelled" /\ request'[x].days = request[x].days
                 /\ reservation'[x] = "released",
           Standing' = others \cup {n}, UNCHANGED <<link, effects, ledger>>
    PROVE  HoldsFollow' /\ LeaveIsCovered'
<1> DEFINE H == others \cap Holds
<1>1. /\ request[n].status = "absent" /\ link[n] = None /\ reservation[n] = None /\ effects[n] = <<>>
      /\ n \notin Standing /\ n \notin Holds /\ TypeInv /\ HoldsFollow
  BY NoneAssumption DEF Acceptable, LedgerGood, HoldsFollow, Standing, Holds
<1>2. None \notin Reservations
  BY NoneAssumption
<1>3. ASSUME NEW x \in Requests
      PROVE  /\ request'[x].status = "absent" => reservation'[x] = None /\ link'[x] = None
             /\ effects'[x] # <<>> => request'[x].status = "approved" /\ Absence(x)'
             /\ ~Absence(x)' => reservation'[x] = None
             /\ Absence(x)' => /\ Open(x)' <=> reservation'[x] = "held"
                               /\ request'[x].status = "approved" <=> reservation'[x] = "consumed"
  <2>1. CASE x = n
    BY <1>1, <1>2, <2>1 DEF Absence, Open
  <2>2. CASE x # n /\ request'[x] = request[x] /\ reservation'[x] = reservation[x]
    BY <1>1, <2>2 DEF HoldsFollow, Absence, Open
  <2>3. CASE x # n /\ ~(request'[x] = request[x] /\ reservation'[x] = reservation[x])
    <3>1. /\ Open(x) /\ Absence(x) /\ request'[x].status = "cancelled" /\ reservation'[x] = "released"
      BY <2>3
    <3> QED
      BY <1>1, <3>1 DEF HoldsFollow, Absence, Open
  <2> QED
    BY <2>1, <2>2, <2>3
<1>4. Holds' = H \cup {n} /\ n \notin H /\ IsFiniteSet(H) /\ H \in SUBSET Requests
  <2>1. Holds' \subseteq Standing'
    BY <1>2, <1>3 DEF Holds, Standing, Open, Absence
  <2>2. \A x \in Standing' : x \in Holds' <=> x \in H \cup {n}
    BY <1>1 DEF Holds, Standing
  <2>3. H \cup {n} \subseteq Standing'
    OBVIOUS
  <2>4. IsFiniteSet(H)
    BY <1>1, FS_Subset DEF HoldsFollow
  <2> QED
    BY <1>1, <2>1, <2>2, <2>3, <2>4 DEF Holds
<1>5. HoldsFollow'
  <2>1. IsFiniteSet(Holds')
    BY <1>4, FS_AddElement
  <2> QED
    BY <1>3, <2>1 DEF HoldsFollow
<1>6. NoDayTwice'
  <2>1. Taken(n)' = days
    BY <1>1 DEF Taken
  <2>2. \A x \in others : Taken(x)' = Taken(x) /\ x # n
    BY <1>1 DEF Taken, Latest, Standing
  <2>3. \A x \in others : Taken(x) \cap days = {}
    BY DEF Acceptable
  <2>4. \A x, m \in others : x # m => Taken(x) \cap Taken(m) = {}
    BY DEF LedgerGood, LeaveIsCovered, NoDayTwice
  <2> SUFFICES ASSUME NEW x \in Standing', NEW m \in Standing', x # m PROVE Taken(x)' \cap Taken(m)' = {}
    BY DEF NoDayTwice
  <2>5. CASE x = n
    BY <2>1, <2>2, <2>3, <2>5
  <2>6. CASE m = n
    BY <2>1, <2>2, <2>3, <2>6
  <2>7. CASE x \in others /\ m \in others
    BY <2>2, <2>4, <2>7
  <2> QED
    BY <2>5, <2>6, <2>7
<1>7. ASSUME NEW e \in Entitlements PROVE Held(Holds, e)' <= Balance(e)'
  <2>1. Balance(e)' = Balance(e) /\ Balance(e) \in Int
    BY <1>1, BalanceIsInt DEF Balance, Total
  <2>2. Charge(days, e) <= Balance(e) - Held(H, e)
    BY DEF Acceptable
  <2> HIDE DEF H
  <2>3. \A x \in H : request'[x] = request[x] /\ request[x].days \in SUBSET Days
    BY <1>1, <1>4, DaysType DEF H, TypeInv
  <2>4. HeldOf(request', H \cup {n}, e) = HeldOf(request', H, e) + Charge(request'[n].days, e)
    <3>1. \A x \in H \cup {n} : request'[x].days \in SUBSET Days
      BY <2>3
    <3> QED
      BY <1>4, <3>1, HeldAdds
  <2>5. HeldOf(request', H, e) = HeldOf(request, H, e)
    BY <1>4, <2>3, HeldSame
  <2>6. Held(Holds, e)' = HeldOf(request', H \cup {n}, e) /\ Held(H, e) = HeldOf(request, H, e)
    BY <1>4 DEF Held, HeldOf, SumFunction
  <2>7. HeldOf(request, H, e) \in Nat /\ Charge(days, e) \in Nat
    BY <1>4, <2>3, HeldIsNat, ChargeIsNat
  <2> QED
    BY <2>1, <2>2, <2>4, <2>5, <2>6, <2>7
<1>8. NeverOverdrawn'
  <2>1. ASSUME NEW e \in Entitlements PROVE Balance(e)' >= Held(Holds, e)'
    <3> DEFINE a == Balance(e)'
               b == Held(Holds, e)'
    <3>1. b <= a
      BY <1>7
    <3> HIDE DEF a, b
    <3>2. a >= b
      BY <3>1
    <3> QED
      BY <3>2 DEF a, b
  <2> QED
    BY <2>1 DEF NeverOverdrawn
<1> QED
  BY <1>5, <1>6, <1>8, Covered

LEMMA SubmitLedger ==
    ASSUME LedgerGood, NEW r \in Requests, NEW u \in Accounts, NEW days \in Spans, Submit(r, u, days)
    PROVE  HoldsFollow' /\ LeaveIsCovered'
<1>1. /\ TypeOK /\ days \in SUBSET Days /\ Acceptable(r, u, days, Standing) /\ link[r] = None
      /\ UNCHANGED <<link, effects, ledger>>
  BY SpanType DEF Submit, LedgerGood, TypeInv, HoldsFollow, Acceptable, changes
<1>2. /\ request'[r].status = "pending" /\ request'[r].days = days /\ reservation'[r] = "held"
      /\ \A x \in Requests : x # r => request'[x] = request[x] /\ reservation'[x] = reservation[x]
  BY <1>1 DEF Submit, Placed, TypeOK
<1>3. Standing' = Standing \cup {r}
  BY <1>1, <1>2 DEF Standing, Absence
<1>4. \A x \in Standing : x \in Requests
  BY DEF Standing
<1> QED
  BY <1>1, <1>2, <1>3, <1>4, PlacingHolds

LEMMA ReplaceLedger ==
    ASSUME LedgerGood, NEW r \in Requests, NEW n \in Requests, NEW u \in Accounts,
           NEW days \in SUBSET Days, days # {}, Replace(r, n, u, days)
    PROVE  HoldsFollow' /\ LeaveIsCovered'
<1> DEFINE others == Standing \ {r}
           q == Ended(r, "cancelled", request)
<1>1. /\ TypeOK /\ Open(r) /\ Absence(r) /\ Acceptable(n, u, days, others) /\ link[n] = None
      /\ UNCHANGED <<link, effects, ledger>> /\ n # r
  BY DEF Replace, LedgerGood, TypeInv, HoldsFollow, Acceptable, changes, Open
<1>2. /\ q[r] = [request[r] EXCEPT !.status = "cancelled"] /\ request[r] \in Request
      /\ \A x \in Requests : x # r => q[x] = request[x]
      /\ q \in [Requests -> Request]
  BY <1>1, CancelledType, DaysType
<1>3. q[r].status = "cancelled" /\ q[r].days = request[r].days
  BY <1>2 DEF Request
<1>4. request' = Placed(n, u, days, q)
  BY DEF Replace
<1> HIDE DEF q
<1>5. /\ request'[n].status = "pending" /\ request'[n].days = days
      /\ \A x \in Requests : x # n => request'[x] = q[x]
  BY <1>2, <1>4 DEF Placed
<1>6. /\ reservation'[n] = "held" /\ reservation'[r] = "released"
      /\ \A x \in Requests : x # n /\ x # r => reservation'[x] = reservation[x]
  BY <1>1 DEF Replace, TypeOK
<1>7. \A x \in Requests : x # n /\ x # r => request'[x] = request[x] /\ reservation'[x] = reservation[x]
  BY <1>2, <1>5, <1>6
<1>8. request'[r].status = "cancelled" /\ request'[r].days = request[r].days
  BY <1>1, <1>3, <1>5
<1>9. Standing' = others \cup {n}
  BY <1>1, <1>5, <1>7, <1>8 DEF Standing, Absence
<1>10. others \in SUBSET Standing /\ \A x \in Requests : x \in others => x # r
  OBVIOUS
<1>11. \A x \in others : x # n => request'[x] = request[x] /\ reservation'[x] = reservation[x]
  BY <1>7 DEF Standing
<1>12. \A x \in Requests : x # n /\ x \notin others =>
          \/ request'[x] = request[x] /\ reservation'[x] = reservation[x]
          \/ /\ Open(x) /\ Absence(x)
             /\ request'[x].status = "cancelled" /\ request'[x].days = request[x].days
             /\ reservation'[x] = "released"
  BY <1>1, <1>6, <1>7, <1>8
<1> HIDE DEF others
<1> QED
  BY <1>1, <1>5, <1>6, <1>9, <1>10, <1>11, <1>12, PlacingHolds

\* A change of granted leave takes no hold, nor does its continuation.
LEMMA ChangeLedger ==
    ASSUME LedgerGood, NEW r \in Requests, NEW u \in Accounts,
           \/ \E c \in Link : \E days \in Beginnings(c.of) : Change(r, u, c, days)
           \/ \E n \in Requests : ContinueChange(n, r, u)
    PROVE  HoldsFollow' /\ LeaveIsCovered'
<1>1. /\ TypeOK /\ TypeInv /\ HoldsFollow /\ request \in [Requests -> Request] /\ link \in [Requests -> Link \cup {None}]
      /\ None \notin Link /\ None \notin Reservations
  BY NoneAssumption DEF LedgerGood, TypeInv, TypeOK
<1>2. /\ request[r].status = "absent" /\ request'[r].status = "pending" /\ link'[r] \in Link
      /\ \A x \in Requests : x # r => link'[x] = link[x]
      /\ UNCHANGED <<effects, reservation, ledger>>
      /\ \A x \in Requests : x # r =>
            \/ request'[x] = request[x]
            \/ /\ Open(x) /\ ~Absence(x) /\ request'[x].status = "cancelled"
  <2>1. CASE \E c \in Link : \E days \in Beginnings(c.of) : Change(r, u, c, days)
    <3>1. PICK c \in Link : \E days \in Beginnings(c.of) : Change(r, u, c, days)
      BY <2>1
    <3>2. PICK days \in Beginnings(c.of) : Change(r, u, c, days)
      BY <3>1
    <3>3. request' = Placed(r, u, days, request) /\ link' = [link EXCEPT ![r] = c]
      BY <3>2 DEF Change
    <3>4. request[r].status = "absent" /\ UNCHANGED <<effects, reservation, ledger>>
      BY <3>2 DEF Change, Changing
    <3> QED
      BY <1>1, <3>3, <3>4 DEF Placed
  <2>2. CASE \E n \in Requests : ContinueChange(n, r, u)
    <3>1. PICK n \in Requests : ContinueChange(n, r, u)
      BY <2>2
    <3> DEFINE q == Ended(n, "cancelled", request)
    <3>2. /\ request' = Placed(r, u, request[n].days, q) /\ link' = [link EXCEPT ![r] = link[n]]
          /\ request[r].status = "absent" /\ UNCHANGED <<effects, reservation, ledger>>
          /\ Open(n) /\ ~Absence(n)
      BY <3>1 DEF ContinueChange, Changing
    <3>3. /\ q[n] = [request[n] EXCEPT !.status = "cancelled"] /\ request[n] \in Request
          /\ \A x \in Requests : x # n => q[x] = request[x]
          /\ q \in [Requests -> Request]
      BY <1>1, <3>2, CancelledType, DaysType
    <3>4. q[n].status = "cancelled" /\ link[n] \in Link /\ n # r
      BY <1>1, <3>2, <3>3 DEF Request, Absence, Open
    <3> HIDE DEF q
    <3>5. request'[r].status = "pending" /\ \A x \in Requests : x # r => request'[x] = q[x]
      BY <3>2, <3>3 DEF Placed
    <3> QED
      BY <1>1, <3>2, <3>3, <3>4, <3>5
  <2> QED
    BY <2>1, <2>2
<1>3. /\ reservation[r] = None /\ link[r] = None /\ effects[r] = <<>>
  BY <1>1, <1>2 DEF HoldsFollow
<1>4. Holds' = Holds /\ r \notin Holds /\ Holds \ {r} = Holds
  BY <1>1, <1>2, <1>3 DEF Holds
<1>5. Standing' = Standing /\ r \notin Standing
  <2>1. ASSUME NEW x \in Requests PROVE x \in Standing' <=> x \in Standing
    <3>1. CASE x = r
      BY <1>1, <1>2, <3>1 DEF Standing, Absence
    <3>2. CASE x # r /\ request'[x] = request[x]
      BY <1>2, <3>2 DEF Standing, Absence
    <3>3. CASE x # r /\ request'[x] # request[x]
      BY <1>2, <3>3 DEF Standing, Absence
    <3> QED
      BY <3>1, <3>2, <3>3
  <2> QED
    BY <1>2, <2>1 DEF Standing
<1>6. ASSUME NEW x \in Requests
      PROVE  /\ request'[x].status = "absent" => reservation'[x] = None /\ link'[x] = None
             /\ effects'[x] # <<>> => request'[x].status = "approved" /\ Absence(x)'
             /\ ~Absence(x)' => reservation'[x] = None
             /\ Absence(x)' => /\ Open(x)' <=> reservation'[x] = "held"
                               /\ request'[x].status = "approved" <=> reservation'[x] = "consumed"
  <2>1. CASE x = r
    BY <1>1, <1>2, <1>3, <2>1 DEF Absence, Open
  <2>2. CASE x # r /\ request'[x] = request[x]
    BY <1>1, <1>2, <2>2 DEF HoldsFollow, Absence, Open
  <2>3. CASE x # r /\ request'[x] # request[x]
    BY <1>1, <1>2, <2>3 DEF HoldsFollow, Absence, Open
  <2> QED
    BY <2>1, <2>2, <2>3
<1>7. HoldsFollow'
  <2>1. IsFiniteSet(Holds')
    BY <1>1, <1>4 DEF HoldsFollow
  <2> QED
    BY <1>6, <2>1 DEF HoldsFollow
<1>8. \A x \in Standing : request'[x] = request[x]
  BY <1>2, <1>5 DEF Standing
<1>9. NoDayTwice'
  <2>1. \A n \in Standing' : Taken(n)' \subseteq Taken(n)
    BY <1>2, <1>5, <1>8 DEF Taken, Latest
  <2> QED
    BY <1>5, <2>1, SameDays
<1>10. NeverOverdrawn'
  <2>1. \A e \in Entitlements : Balance(e)' = Balance(e) /\ Balance(e) \in Int
    BY <1>1, <1>2, BalanceIsInt DEF Balance, Total
  <2>2. \A e \in Entitlements : Balance(e)' \in Int /\ Balance(e) <= Balance(e)'
    BY <2>1
  <2>3. \A n \in Holds : n # r => request'[n].days = request[n].days
    BY <1>1, <1>8, HoldsStand
  <2> QED
    BY <1>4, <2>2, <2>3, FewerHolds
<1> QED
  BY <1>7, <1>9, <1>10, Covered

\* A posting that is affordable beside the holds leaves them covered.
LEMMA PostingCovers ==
    ASSUME LedgerGood, NEW p \in Posting, Unposted(p), Affordable(p, Holds), ledger' = ledger \cup {p},
           UNCHANGED <<request, link, effects, reservation>>
    PROVE  HoldsFollow' /\ LeaveIsCovered'
<1>1. /\ TypeInv /\ TypeOK /\ HoldsFollow /\ NeverOverdrawn /\ NoDayTwice
      /\ ledger \in SUBSET Posting /\ IsFiniteSet(ledger)
  BY DEF LedgerGood, TypeInv, TypeOK, LeaveIsCovered
<1>2. p \notin ledger
  BY DEF Unposted
<1>3. HoldsFollow' /\ NoDayTwice'
  BY <1>1 DEF HoldsFollow, NoDayTwice, Holds, Standing, Taken, Latest, Absence, Open
<1>4. ASSUME NEW e \in Entitlements PROVE Balance(e)' >= Held(Holds, e)'
  <2>1. Balance(e)' = Balance(e) + (IF p.ent = e THEN p.amount ELSE 0)
    BY <1>1, <1>2, TotalAdds DEF Balance, Total
  <2>2. Held(Holds, e)' = Held(Holds, e) /\ Held(Holds, e) \in Nat
    <3>1. Held(Holds, e)' = Held(Holds, e)
      BY DEF Held, Holds
    <3>2. Held(Holds, e) \in Nat
      BY <1>1, HoldsAreNat DEF HoldsFollow, Holds
    <3> QED
      BY <3>1, <3>2
  <2>3. Balance(e) \in Int /\ p.amount \in Int /\ Balance(e) >= Held(Holds, e)
    BY <1>1, BalanceIsInt DEF Posting, NeverOverdrawn
  <2>4. CASE p.ent = e /\ p.amount < 0
    <3>1. Balance(e) + p.amount >= Held(Holds, e)
      BY <2>4 DEF Affordable
    <3> QED
      BY <2>1, <2>2, <2>4, <3>1
  <2>5. CASE p.ent # e \/ p.amount >= 0
    <3> DEFINE n == IF p.ent = e THEN p.amount ELSE 0
    <3>1. n \in Int /\ n >= 0
      BY <2>3, <2>5
    <3>2. Balance(e)' = Balance(e) + n
      BY <2>1
    <3> HIDE DEF n
    <3> QED
      BY <2>2, <2>3, <3>1, <3>2
  <2> QED
    BY <2>3, <2>4, <2>5
<1>5. NeverOverdrawn'
  BY <1>4 DEF NeverOverdrawn
<1> QED
  BY <1>3, <1>5, Covered

LEMMA CorrectionLedger ==
    ASSUME LedgerGood,
           \/ \E k \in CorrectionKeys, e \in Entitlements, n \in Amounts : Correct(k, e, n)
           \/ \E q \in ledger : Reverse(q)
    PROVE  HoldsFollow' /\ LeaveIsCovered'
<1>1. UNCHANGED <<request, link, effects, reservation>>
  BY DEF Correct, Reverse, changes
<1>2. PICK p \in Posting : Unposted(p) /\ Affordable(p, Holds) /\ ledger' = ledger \cup {p}
  <2>1. /\ \A k \in CorrectionKeys, e \in Entitlements, n \in Amounts :
              [kind |-> "correction", ref |-> k, ent |-> e, amount |-> n] \in Posting
        /\ \A q \in ledger : [kind |-> "reversal", ref |-> q.ref, ent |-> q.ent, amount |-> -q.amount] \in Posting
    BY PostingsType DEF LedgerGood
  <2> QED
    BY <2>1 DEF Correct, Reverse
<1> QED
  BY <1>1, <1>2, PostingCovers

\* What Grant and GrantChange do to the application that is granted.
LEMMA EndedRow ==
    ASSUME TypeOK, NEW r \in Requests, Open(r), NEW status \in {"cancelled", "approved", "rejected"},
           request' = Ended(r, status, request)
    PROVE  /\ request'[r].status = status /\ request'[r].days = request[r].days
           /\ \A n \in Requests : n # r => request'[n] = request[n]
<1>1. /\ request'[r] = [request[r] EXCEPT !.status = status]
      /\ \A n \in Requests : n # r => request'[n] = request[n]
  BY DEF Ended, TypeOK
<1>2. request[r] \in Request
  BY DaysType
<1>3. request'[r].status = status /\ request'[r].days = request[r].days
  BY <1>1, <1>2 DEF Request
<1> QED
  BY <1>1, <1>3

LEMMA FinishGrants ==
    ASSUME TypeOK, NEW k, NEW r \in Requests, Finish(k, r)
    PROVE  /\ Open(r) /\ request'[r].status = "approved" /\ request'[r].days = request[r].days
           /\ \A n \in Requests : n # r => request'[n] = request[n]
<1>1. Open(r) /\ request' = Ended(r, "approved", request)
  BY DEF Finish, MayDecide
<1>2. /\ Ended(r, "approved", request)[r] = [request[r] EXCEPT !.status = "approved"]
      /\ \A n \in Requests : n # r => Ended(r, "approved", request)[n] = request[n]
  BY <1>1, CancelledType
<1>3. request[r] \in Request
  BY DaysType
<1> QED
  BY <1>1, <1>2, <1>3 DEF Request

\* The use that is posted is what was held, so the holds that stay are covered.
LEMMA GrantLedger ==
    ASSUME LedgerGood, NEW k \in Keys, Grant(k)
    PROVE  HoldsFollow' /\ LeaveIsCovered'
<1> DEFINE r == calls[k].req
<1>1. /\ TypeInv /\ TypeOK /\ HoldsFollow /\ NeverOverdrawn /\ None \notin Reservations
      /\ ledger \in SUBSET Posting /\ IsFiniteSet(ledger)
  BY NoneAssumption DEF LedgerGood, TypeInv, TypeOK, LeaveIsCovered
<1>2. /\ r \in Requests /\ Absence(r) /\ Finish(k, r)
      /\ \A p \in Uses(r) : Unposted(p) /\ Affordable(p, Holds \ {r})
      /\ ledger' = ledger \cup Uses(r)
      /\ reservation' = [reservation EXCEPT ![r] = "consumed"]
      /\ UNCHANGED <<link, effects>>
  BY <1>1, CallType DEF Grant, changes
<1> HIDE DEF r
<1>3. /\ Open(r) /\ request'[r].status = "approved" /\ request'[r].days = request[r].days
      /\ \A n \in Requests : n # r => request'[n] = request[n]
  BY <1>1, <1>2, FinishGrants
<1>4. /\ reservation'[r] = "consumed" /\ \A n \in Requests : n # r => reservation'[n] = reservation[n]
      /\ reservation[r] = "held"
  BY <1>1, <1>2, <1>3 DEF TypeOK, HoldsFollow
<1>5. Holds' = Holds \ {r} /\ r \in Holds /\ Standing' = Standing
  <2>1. Holds' = Holds \ {r} /\ r \in Holds
    BY <1>2, <1>4 DEF Holds
  <2>2. \A n \in Requests : n \in Standing' <=> n \in Standing
    BY <1>2, <1>3 DEF Standing, Absence, Open
  <2> QED
    BY <2>1, <2>2 DEF Standing
<1>6. HoldsFollow'
  <2>1. IsFiniteSet(Holds')
    BY <1>1, <1>5, FS_Subset DEF HoldsFollow
  <2>2. ASSUME NEW n \in Requests
        PROVE  /\ request'[n].status = "absent" => reservation'[n] = None /\ link'[n] = None
               /\ effects'[n] # <<>> => request'[n].status = "approved" /\ Absence(n)'
               /\ ~Absence(n)' => reservation'[n] = None
               /\ Absence(n)' => /\ Open(n)' <=> reservation'[n] = "held"
                                 /\ request'[n].status = "approved" <=> reservation'[n] = "consumed"
    <3>1. CASE n = r
      BY <1>1, <1>2, <1>3, <1>4, <3>1 DEF HoldsFollow, Open, Absence
    <3>2. CASE n # r
      BY <1>1, <1>2, <1>3, <1>4, <3>2 DEF HoldsFollow, Open, Absence
    <3> QED
      BY <3>1, <3>2
  <2> QED
    BY <2>1, <2>2 DEF HoldsFollow
<1>7. NoDayTwice'
  <2>1. \A n \in Standing' : Taken(n)' \subseteq Taken(n)
    BY <1>2, <1>3 DEF Taken, Latest, Standing
  <2> QED
    BY <1>5, <2>1, SameDays
<1>8. ASSUME NEW e \in Entitlements PROVE Balance(e)' >= Held(Holds, e)'
  <2> DEFINE c == Charge(request[r].days, e)
             H == Holds \ {r}
  <2>1. H \in SUBSET Requests /\ IsFiniteSet(H) /\ \A n \in Holds : request[n].days \in SUBSET Days
    BY <1>1, FS_Subset, DaysType DEF Holds, HoldsFollow
  <2>2. c \in Nat /\ Balance(e) \in Int /\ Held(H, e) \in Nat /\ Held(Holds, e) \in Nat
    BY <1>1, <1>2, <2>1, ChargeIsNat, BalanceIsInt, HoldsAreNat, DaysType DEF HoldsFollow, Holds
  <2>3. Balance(e)' = Balance(e) - c
    <3>1. Uses(r) \in SUBSET Posting /\ IsFiniteSet(Uses(r)) /\ ledger \cap Uses(r) = {}
      BY <1>1, <1>2, UsesType DEF Unposted
    <3>2. Total(ledger \cup Uses(r), e) = Total(ledger, e) + Total(Uses(r), e)
      BY <1>1, <3>1, TotalUnion
    <3>3. Total(Uses(r), e) = -c
      BY <1>1, <1>2, UsesTotal
    <3>4. Balance(e)' = Total(ledger \cup Uses(r), e) /\ Balance(e) = Total(ledger, e)
      BY <1>2 DEF Balance, Total
    <3> HIDE DEF c
    <3> QED
      BY <2>2, <3>2, <3>3, <3>4
  <2>4. Held(Holds, e)' = Held(H, e)
    <3>1. \A n \in H : request'[n].days = request[n].days
      BY <1>3 DEF Holds
    <3>2. Held(Holds, e)' = HeldOf(request', H, e)
      BY <1>5 DEF Held, HeldOf, SumFunction
    <3> HIDE DEF H
    <3> QED
      BY <2>1, <3>1, <3>2, HeldSame, HeldIsSum
  <2>5. Held(Holds, e) = Held(H, e) + c
    BY <1>1, <1>5, <2>1, HeldShrinks, HeldIsSum DEF HoldsFollow
  <2>6. Balance(e) >= Held(Holds, e)
    BY <1>1 DEF NeverOverdrawn
  <2> DEFINE x == Balance(e)'
             y == Held(Holds, e)'
             z == Held(H, e)
  <2>7. x = Balance(e) - c /\ y = z /\ Balance(e) >= z + c
    BY <2>3, <2>4, <2>5, <2>6
  <2> HIDE DEF x, y, c, z
  <2>8. z \in Nat /\ c \in Nat
    BY <2>2 DEF z
  <2>9. x >= y
    BY <2>2, <2>7, <2>8
  <2> QED
    BY <2>9 DEF x, y
<1>9. NeverOverdrawn'
  BY <1>8 DEF NeverOverdrawn
<1> QED
  BY <1>6, <1>7, <1>9, Covered

LEMMA TakenSame ==
    ASSUME NEW n, effects'[n] = effects[n], request'[n].days = request[n].days
    PROVE  Taken(n)' = Taken(n)
BY DEF Taken, Latest

\* What the latest change of granted leave leaves of it is part of what stood.
LEMMA EffectTakesLess ==
    ASSUME LedgerGood, NEW r \in Requests, ~Absence(r), NEW o \in Requests, o = link[r].of, ValidChange(r),
           NEW x \in Effect, effects'[o] = Append(effects[o], x),
           \A n \in Requests : n # o => effects'[n] = effects[n],
           x.days = IF link[r].action = "cancel_grant" THEN {} ELSE request[r].days,
           \A n \in Requests : request'[n].days = request[n].days
    PROVE  /\ Taken(o)' = x.days
           /\ x.days \subseteq Taken(o)
           /\ effects'[o] # <<>>
           /\ \A n \in Requests : n # o => effects'[n] = effects[n] /\ Taken(n)' = Taken(n)
<1>1. effects \in [Requests -> Seq(Effect)]
  BY DEF LedgerGood, TypeInv, TypeOK
<1>2. link[r].action = "cancel_grant" \/ request[r].days \subseteq Taken(o)
  BY DEF ValidChange
<1> DEFINE s == effects[o]
<1>3. s \in Seq(Effect)
  BY <1>1
<1>4. effects'[o] = Append(s, x)
  OBVIOUS
<1> HIDE DEF s
<1>5. Append(s, x) # <<>> /\ Append(s, x)[Len(Append(s, x))] = x
  <2>1. Len(Append(s, x)) = Len(s) + 1 /\ Append(s, x)[Len(s) + 1] = x
    BY <1>3
  <2>2. Len(Append(s, x)) # 0
    BY <1>3, <2>1
  <2> QED
    BY <1>3, <2>1, <2>2
<1>6. Taken(o)' = x.days
  BY <1>4, <1>5 DEF Taken, Latest
<1>7. ASSUME NEW n \in Requests, n # o PROVE effects'[n] = effects[n] /\ Taken(n)' = Taken(n)
  BY <1>7, TakenSame
<1>8. x.days \subseteq Taken(o)
  BY <1>2
<1> QED
  BY <1>4, <1>5, <1>6, <1>7, <1>8

\* A change that takes effect only gives back.
LEMMA GrantChangeLedger ==
    ASSUME LedgerGood, NEW k \in Keys, GrantChange(k)
    PROVE  HoldsFollow' /\ LeaveIsCovered'
<1>1. /\ TypeInv /\ TypeOK /\ HoldsFollow /\ None \notin Reservations
      /\ ledger \in SUBSET Posting /\ IsFiniteSet(ledger)
  BY NoneAssumption DEF LedgerGood, TypeInv, TypeOK
<1>0. PICK r \in Requests, o \in Requests : r = calls[k].req /\ o = link[r].of
  <2>1. calls[k].req \in Requests /\ link[calls[k].req] \in Link
    BY <1>1, CallType DEF GrantChange, TypeOK, Absence
  <2> QED
    BY <2>1 DEF Link
<1>2. /\ ~Absence(r) /\ Finish(k, r) /\ ValidChange(r)
      /\ ledger' = ledger \cup Refunds(r)
      /\ UNCHANGED <<link, reservation>>
  BY <1>1, <1>0 DEF GrantChange
<1>3. PICK x \in Effect : /\ effects' = [effects EXCEPT ![o] = Append(@, x)]
                          /\ x.days = IF link[r].action = "cancel_grant" THEN {} ELSE request[r].days
  <2> DEFINE y == [by |-> r, action |-> link[r].action,
                   days |-> IF link[r].action = "cancel_grant" THEN {} ELSE request[r].days]
  <2>1. link[r] \in Link /\ request[r].days \in SUBSET Days
    BY <1>1, <1>2, DaysType DEF TypeOK, Absence
  <2>2. y \in Effect /\ effects' = [effects EXCEPT ![o] = Append(@, y)]
    BY <1>0, <2>1 DEF Link, Effect, GrantChange
  <2>3. y.days = IF link[r].action = "cancel_grant" THEN {} ELSE request[r].days
    OBVIOUS
  <2> HIDE DEF y
  <2> QED
    BY <2>2, <2>3
<1>5. /\ Open(r) /\ request'[r].status = "approved" /\ request'[r].days = request[r].days
      /\ \A n \in Requests : n # r => request'[n] = request[n]
  BY <1>1, <1>2, FinishGrants
<1>6. /\ Taken(o)' = x.days /\ x.days \subseteq Taken(o) /\ effects'[o] # <<>>
      /\ \A n \in Requests : n # o => effects'[n] = effects[n] /\ Taken(n)' = Taken(n)
  <2>1. \A n \in Requests : request'[n].days = request[n].days
    BY <1>5
  <2>2. effects'[o] = Append(effects[o], x) /\ \A n \in Requests : n # o => effects'[n] = effects[n]
    BY <1>1, <1>3 DEF TypeOK
  <2>3. LedgerGood /\ ~Absence(r) /\ ValidChange(r) /\ o = link[r].of
    BY <1>0, <1>2
  <2>4. x.days = IF link[r].action = "cancel_grant" THEN {} ELSE request[r].days
    BY <1>3
  <2> HIDE <1>0, <1>1, <1>2, <1>3, <1>5
  <2> QED
    BY <2>1, <2>2, <2>3, <2>4, EffectTakesLess
<1>7. request[o].status = "approved" /\ Absence(o) /\ o # r
  BY <1>0, <1>2 DEF ValidChange
<1>8. Holds' = Holds /\ Standing' = Standing /\ r \notin Holds
  BY <1>1, <1>2, <1>5 DEF Holds, Standing, Absence, Open, HoldsFollow
<1>9. HoldsFollow'
  <2>1. IsFiniteSet(Holds')
    BY <1>1, <1>8 DEF HoldsFollow
  <2>2. ASSUME NEW n \in Requests
        PROVE  /\ request'[n].status = "absent" => reservation'[n] = None /\ link'[n] = None
               /\ effects'[n] # <<>> => request'[n].status = "approved" /\ Absence(n)'
               /\ ~Absence(n)' => reservation'[n] = None
               /\ Absence(n)' => /\ Open(n)' <=> reservation'[n] = "held"
                                 /\ request'[n].status = "approved" <=> reservation'[n] = "consumed"
    <3>1. CASE n = r
      BY <1>1, <1>2, <1>5, <1>6, <1>7, <3>1 DEF HoldsFollow, Open, Absence
    <3>2. CASE n = o
      BY <1>1, <1>2, <1>5, <1>6, <1>7, <3>2 DEF HoldsFollow, Open, Absence
    <3>3. CASE n # r /\ n # o
      BY <1>1, <1>2, <1>5, <1>6, <3>3 DEF HoldsFollow, Open, Absence
    <3> QED
      BY <3>1, <3>2, <3>3
  <2> QED
    BY <2>1, <2>2 DEF HoldsFollow
<1>10. NoDayTwice'
  <2>1. \A n \in Standing' : n \in Requests
    BY DEF Standing
  <2>2. \A n \in Standing' : Taken(n)' \subseteq Taken(n)
    BY <1>6, <2>1
  <2> QED
    BY <1>8, <2>2, SameDays
<1>11. NeverOverdrawn'
  <2>1. Refunds(r) \in SUBSET Posting /\ IsFiniteSet(Refunds(r))
    BY <1>1, <1>2, RefundsType
  <2>2. \A p \in Refunds(r) : p.amount > 0
    BY DEF Refunds
  <2>3. ledger' \in SUBSET Posting /\ IsFiniteSet(ledger') /\ ledger \in SUBSET ledger'
    BY <1>1, <1>2, <2>1, LedgerGrows
  <2>4. \A p \in ledger' \ ledger : p.amount >= 0
    <3> SUFFICES ASSUME NEW p \in ledger' \ ledger PROVE p.amount >= 0
      OBVIOUS
    <3>1. p \in Refunds(r) /\ p.amount > 0 /\ p.amount \in Int
      BY <1>2, <2>1, <2>2 DEF Posting
    <3> QED
      BY <3>1
  <2>5. \A e \in Entitlements : Balance(e)' \in Int /\ Balance(e) <= Balance(e)'
    BY <2>3, <2>4, TotalGrows, TotalIsInt DEF Balance, Total
  <2>6. \A n \in Holds : n # r => request'[n].days = request[n].days
    BY <1>5 DEF Holds
  <2>7. Holds' = Holds \ {r}
    BY <1>8
  <2> QED
    BY <2>5, <2>6, <2>7, FewerHolds
<1> QED
  BY <1>9, <1>10, <1>11, Covered

LEMMA EndingLedger ==
    ASSUME LedgerGood,
           \/ \E r \in Requests, u \in Accounts : Cancel(r, u)
           \/ \E k \in Keys : Reject(k)
    PROVE  HoldsFollow' /\ LeaveIsCovered'
<1>1. PICK r \in Requests, status \in {"cancelled", "rejected"} :
         /\ Open(r) /\ request' = Ended(r, status, request) /\ reservation' = Released(r)
         /\ UNCHANGED <<link, effects, ledger>>
  <2>1. TypeOK
    BY DEF LedgerGood, TypeInv
  <2>2. CASE \E r \in Requests, u \in Accounts : Cancel(r, u)
    BY <2>2 DEF Cancel, changes
  <2>3. CASE \E k \in Keys : Reject(k)
    BY <2>1, <2>3, CallType DEF Reject, MayDecide, changes
  <2> QED
    BY <2>2, <2>3
<1> QED
  BY <1>1, EndingReleases

LEMMA LedgerStep ==
    ASSUME LedgerGood, [Next]_workflow
    PROVE  LedgerGood'
<1> SUFFICES HoldsFollow' /\ LeaveIsCovered'
  BY TypeStep DEF LedgerGood
<1>1. ASSUME NEW r \in Requests, NEW u \in Accounts, NEW days \in Spans, Submit(r, u, days)
      PROVE  HoldsFollow' /\ LeaveIsCovered'
  BY <1>1, SubmitLedger
<1>2. ASSUME NEW r \in Requests, NEW u \in Accounts, Cancel(r, u) PROVE HoldsFollow' /\ LeaveIsCovered'
  BY <1>2, EndingLedger
<1>3. ASSUME NEW r \in Requests, NEW u \in Accounts, NEW o \in Requests, NEW action \in Kinds,
             NEW days \in Beginnings(o), Change(r, u, [of |-> o, action |-> action], days)
      PROVE  HoldsFollow' /\ LeaveIsCovered'
  <2> DEFINE c == [of |-> o, action |-> action]
  <2>1. c \in Link /\ c.of = o /\ Change(r, u, c, days)
    BY <1>3 DEF Link
  <2> HIDE DEF c
  <2> QED
    BY <2>1, ChangeLedger
<1>4. ASSUME NEW r \in Requests, NEW n \in Requests,
             \/ \E days \in Spans : Amend(r, n, days)
             \/ \E u \in Accounts : Continue(r, n, u)
      PROVE  HoldsFollow' /\ LeaveIsCovered'
  BY <1>4, ReplaceSteps, ReplaceLedger DEF LedgerGood
<1>5. ASSUME NEW r \in Requests, NEW n \in Requests, NEW u \in Accounts, ContinueChange(r, n, u)
      PROVE  HoldsFollow' /\ LeaveIsCovered'
  BY <1>5, ChangeLedger
<1>6. ASSUME NEW k \in Keys, Reject(k) \/ Grant(k) \/ GrantChange(k)
      PROVE  HoldsFollow' /\ LeaveIsCovered'
  BY <1>6, EndingLedger, GrantLedger, GrantChangeLedger
<1>7. ASSUME NEW k \in Keys, Forward(k) PROVE HoldsFollow' /\ LeaveIsCovered'
  <2> DEFINE r == calls[k].req
  <2>1. request' = [request EXCEPT ![r] = [request[r] EXCEPT !.stage = request[r].stage + 1]] /\ r \in Requests
        /\ request \in [Requests -> Request] /\ UNCHANGED <<link, effects, reservation, ledger>>
    BY <1>7, CallType DEF Forward, LedgerGood, TypeInv, TypeOK, changes
  <2>2. /\ request'[r].status = request[r].status /\ request'[r].days = request[r].days
        /\ \A n \in Requests : n # r => request'[n] = request[n]
    BY <2>1 DEF Request
  <2> HIDE DEF r
  <2> QED
    BY <2>1, <2>2, LedgerFrame
<1>8. CASE \/ \E r \in Requests :
                 \/ \E u \in Accounts, h \in Handlers, s \in Stages : BeginRebind(h, r, s, u)
                 \/ \E k \in Keys, verdict \in Verdicts : Send(k, r, verdict)
           \/ \E h \in Handlers : CommitRebind(h) \/ AbandonRebind(h)
           \/ \E s \in Stages : CloseOffice(s) \/ \E u \in Accounts : Appoint(s, u)
           \/ \E u \in Accounts : ChangeAccount(u)
           \/ UNCHANGED workflow
  <2>1. UNCHANGED <<request, link, effects, reservation, ledger>>
    BY <1>8 DEF BeginRebind, Send, CommitRebind, AbandonRebind, CloseOffice, Appoint, ChangeAccount, changes, workflow
  <2> QED
    BY <2>1, LedgerFrame
<1>9. CASE \/ \E k \in CorrectionKeys, e \in Entitlements, n \in Amounts : Correct(k, e, n)
           \/ \E q \in ledger : Reverse(q)
  BY <1>9, CorrectionLedger
<1> QED
  BY <1>1, <1>2, <1>3, <1>4, <1>5, <1>6, <1>7, <1>8, <1>9 DEF Next

LEMMA LedgerInit ==
    ASSUME Init
    PROVE  LedgerGood
<1>1. TypeInv
  BY TypeInit
<1>2. /\ \A r \in Requests : /\ request[r].status = "absent" /\ reservation[r] = None
                             /\ link[r] = None /\ effects[r] = <<>>
      /\ ledger = {[kind |-> "opening", ref |-> None, ent |-> e, amount |-> Opening[e]] : e \in Entitlements}
  BY DEF Init
<1>3. Holds = {} /\ Standing = {} /\ None \notin Reservations
  BY <1>2, NoneAssumption DEF Holds, Standing
<1>4. HoldsFollow
  <2>1. IsFiniteSet(Holds)
    BY <1>3, FS_EmptySet
  <2> QED
    BY <1>2, <1>3, <2>1 DEF HoldsFollow, Absence, Open
<1>5. NoDayTwice
  BY <1>3 DEF NoDayTwice
<1>6. ASSUME NEW e \in Entitlements PROVE Balance(e) >= Held(Holds, e)
  <2>1. Held(Holds, e) = 0
    BY <1>3, SumEmpty DEF Held, SumFunction
  <2>2. Balance(e) \in Nat
    <3> DEFINE p == [kind |-> "opening", ref |-> None, ent |-> e, amount |-> Opening[e]]
    <3>1. p \in ledger /\ p.ent = e /\ p.amount = Opening[e] /\ \A q \in ledger : q.ent = e => q = p
      BY <1>2
    <3> HIDE DEF p
    <3>2. Total(ledger, e) = p.amount
      <4>1. ledger \in SUBSET Posting /\ IsFiniteSet(ledger)
        BY <1>1 DEF TypeInv, TypeOK
      <4> QED
        BY <3>1, <4>1, TotalOfOne
    <3> QED
      BY <3>1, <3>2, LedgerAssumption DEF Balance
  <2> QED
    BY <2>1, <2>2
<1>7. NeverOverdrawn
  BY <1>6 DEF NeverOverdrawn
<1> QED
  BY <1>1, <1>4, <1>5, <1>7 DEF LedgerGood, LeaveIsCovered

LEMMA LedgerHolds == Spec => []LedgerGood
<1>1. Init => LedgerGood
  BY LedgerInit
<1>2. LedgerGood /\ [Next]_vars => LedgerGood'
  BY LedgerStep DEF vars, workflow
<1> QED
  BY <1>1, <1>2, PTL DEF Spec

\* Every entitlement covers what is held of it, and no day is in two applications
\* that are pending or granted, through every change, correction and reversal.
THEOREM LeaveStaysCovered == Spec => []LeaveIsCovered
<1>1. LedgerGood => LeaveIsCovered
  BY DEF LedgerGood
<1> QED
  BY <1>1, LedgerHolds, PTL

-----------------------------------------------------------------------------
(* Use: what was posted for granted leave, less what its changes gave back *)

Granted == {r \in Standing : request[r].status = "approved"}
ChangesOf(o) == {effects[o][i].by : i \in DOMAIN effects[o]}
Refunded(o) == {p \in ledger : p.kind = "reversal" /\ p.ref \in ChangesOf(o)}
Moved == {p \in ledger : p.kind \in {"use", "reversal"} /\ p.ref \in Requests}
GrantedUse(e) == SumFunctionOnSet([r \in Granted |-> Charge(Taken(r), e)], Granted)

\* Each application that is granted has its uses posted, once, and what its changes
\* gave back is what they took of it; nothing else is used or given back.
UseKept ==
    /\ \A r \in Requests : request[r].status # "approved" => UsesOf(r) = {}
    /\ \A r \in Granted :
          /\ UsesOf(r) = Uses(r) /\ Taken(r) \subseteq request[r].days
          /\ \A e \in Entitlements : Returned(r, e) = Charge(request[r].days, e) - Charge(Taken(r), e)
    /\ \A o \in Requests : \A c \in ChangesOf(o) : request[c].status = "approved"
    /\ \A p \in ledger :
          /\ p.kind = "reversal" /\ p.ref \in Requests => request[p.ref].status = "approved"
          /\ p.kind = "correction" => p.ref \in CorrectionKeys
    /\ \A r \in Requests : ~Absence(r) =>
          request[link[r].of].status = "approved" /\ request[r].days \in Beginnings(link[r].of)
    /\ IsFiniteSet(Granted)
    /\ \A e \in Entitlements : Total(Moved, e) = -GrantedUse(e)

UseGood == LedgerGood /\ UseKept

LEMMA ChangesType ==
    ASSUME TypeOK, NEW o \in Requests
    PROVE  ChangesOf(o) \subseteq Requests
<1>1. effects[o] \in Seq(Effect)
  BY DEF TypeOK
<1>2. \A i \in DOMAIN effects[o] : effects[o][i] \in Effect
  BY <1>1
<1> QED
  BY <1>2 DEF ChangesOf, Effect

LEMMA ReturnedIsTotal ==
    ASSUME NEW o, NEW e
    PROVE  Returned(o, e) = Total(Refunded(o), e)
BY DEF Returned, Refunded, ChangesOf

\* What a charge is of days that are part of others.
LEMMA ChargeSplits ==
    ASSUME NEW days \in SUBSET Days, NEW some \in SUBSET days, NEW e
    PROVE  Charge(days \ some, e) = Charge(days, e) - Charge(some, e)
<1> DEFINE S == {d \in days : YearOf[d] = e}
           T == {d \in some : YearOf[d] = e}
           U == {d \in days \ some : YearOf[d] = e}
<1>1. IsFiniteSet(Days)
  BY FS_Interval, BoundsAssumption DEF Days
<1>2. IsFiniteSet(T) /\ IsFiniteSet(U) /\ S = T \cup U /\ T \cap U = {}
  BY <1>1, FS_Subset
<1>3. Charge(days, e) = Cardinality(S) /\ Charge(some, e) = Cardinality(T) /\ Charge(days \ some, e) = Cardinality(U)
  BY DEF Charge
<1> HIDE DEF S, T, U
<1>4. Cardinality(T \cup U) = Cardinality(T) + Cardinality(U) - Cardinality(T \cap U)
  BY <1>2, FS_Union
<1>5. Cardinality(T) \in Nat /\ Cardinality(U) \in Nat /\ Cardinality(T \cap U) = 0
  BY <1>2, FS_CardinalityType, FS_EmptySet
<1> QED
  BY <1>2, <1>3, <1>4, <1>5

LEMMA ChargeOfNone ==
    ASSUME NEW e
    PROVE  Charge({}, e) = 0
<1>1. {d \in {} : YearOf[d] = e} = {}
  OBVIOUS
<1> QED
  BY <1>1, FS_EmptySet DEF Charge

\* A change that cuts leave short takes the days after its last.
LEMMA BeginningsCut ==
    ASSUME NEW o, request[o].days \in SUBSET Days, NEW days \in Beginnings(o)
    PROVE  {d \in request[o].days : \A e \in days : e < d} = request[o].days \ days
<1>1. /\ days \subseteq request[o].days
      /\ \A a \in days, b \in request[o].days : b < a => b \in days
  BY DEF Beginnings
<1>2. \A d \in request[o].days : d \in Int
  BY DEF Days
<1>3. ASSUME NEW d \in request[o].days, d \notin days, NEW a \in days PROVE a < d
  <2>1. a \in Int /\ d \in Int /\ a # d /\ ~(d < a)
    BY <1>1, <1>2, <1>3
  <2> QED
    BY <2>1
<1>4. ASSUME NEW d \in days PROVE ~\A e \in days : e < d
  <2>1. d \in Int /\ ~(d < d)
    BY <1>1, <1>2
  <2> QED
    BY <2>1
<1> QED
  BY <1>3, <1>4

\* What leaves the uses and the refunds alone: no request becomes granted or stops
\* being so, and the changes that are asked for are changes of granted leave.
LEMMA UseFrame ==
    ASSUME UseGood, LedgerGood', UNCHANGED effects, ledger \subseteq ledger',
           \A p \in ledger' \ ledger : /\ p.kind # "use"
                                       /\ p.kind = "reversal" => p.ref \notin Requests
                                       /\ p.kind = "correction" => p.ref \in CorrectionKeys,
           \A r \in Requests : request[r].status = "approved" =>
              request'[r].status = "approved" /\ request'[r].days = request[r].days /\ link'[r] = link[r],
           \A r \in Requests : request'[r].status = "approved" => request[r].status = "approved",
           \A r \in Requests : link'[r] # None =>
              \/ link'[r] = link[r] /\ request'[r].days = request[r].days
              \/ /\ link'[r].of \in Requests /\ request[link'[r].of].status = "approved"
                 /\ request'[r].days \in Beginnings(link'[r].of)
    PROVE  UseKept'
<1>1. TypeOK /\ HoldsFollow /\ UseKept /\ TypeOK'
  BY DEF UseGood, LedgerGood, TypeInv
<1>2. \A r \in Requests : UsesOf(r)' = UsesOf(r)
  BY DEF UsesOf
<1>3. \A o \in Requests : ChangesOf(o)' = ChangesOf(o)
  BY DEF ChangesOf
<1>4. \A o \in Requests : Refunded(o)' = Refunded(o)
  <2> SUFFICES ASSUME NEW o \in Requests PROVE Refunded(o)' = Refunded(o)
    OBVIOUS
  <2>1. ChangesOf(o) \subseteq Requests /\ ChangesOf(o)' = ChangesOf(o)
    BY <1>1, <1>3, ChangesType
  <2> QED
    BY <2>1 DEF Refunded
<1>5. Moved' = Moved
  BY DEF Moved
<1>6. Granted' = Granted
  BY DEF Granted, Standing, Absence
<1>7. ASSUME NEW r \in Granted
      PROVE  /\ r \in Requests /\ request'[r].days = request[r].days /\ effects'[r] = effects[r]
             /\ Taken(r)' = Taken(r) /\ Uses(r)' = Uses(r)
  <2>1. r \in Requests /\ request'[r].days = request[r].days /\ effects'[r] = effects[r]
    BY DEF Granted, Standing
  <2> QED
    BY <2>1, TakenSame DEF Uses
<1>8. \A e \in Entitlements, r \in Requests : Returned(r, e)' = Returned(r, e)
  BY <1>4, ReturnedIsTotal DEF Returned, Refunded, ChangesOf, Total
<1>9. \A r \in Requests : request'[r].status # "approved" => UsesOf(r)' = {}
  BY <1>1, <1>2 DEF UseKept
<1>10. \A r \in Granted' :
          /\ UsesOf(r)' = Uses(r)' /\ Taken(r)' \subseteq request'[r].days
          /\ \A e \in Entitlements : Returned(r, e)' = Charge(request'[r].days, e) - Charge(Taken(r)', e)
  <2> SUFFICES ASSUME NEW r \in Granted
               PROVE  /\ UsesOf(r)' = Uses(r)' /\ Taken(r)' \subseteq request'[r].days
                      /\ \A e \in Entitlements :
                            Returned(r, e)' = Charge(request'[r].days, e) - Charge(Taken(r)', e)
    BY <1>6
  <2> QED
    BY <1>1, <1>2, <1>7, <1>8 DEF UseKept
<1>11. \A o \in Requests : \A c \in ChangesOf(o)' : request'[c].status = "approved"
  BY <1>1, <1>3, ChangesType DEF UseKept
<1>12. \A p \in ledger' :
          /\ p.kind = "reversal" /\ p.ref \in Requests => request'[p.ref].status = "approved"
          /\ p.kind = "correction" => p.ref \in CorrectionKeys
  BY <1>1 DEF UseKept
<1>13. ASSUME NEW r \in Requests, link'[r] # None, NEW o, o = link'[r].of
       PROVE  request'[o].status = "approved" /\ request'[r].days \in Beginnings(o)'
  <2>1. o \in Requests /\ request[o].status = "approved" /\ request'[r].days \in Beginnings(o)
    <3>1. CASE link'[r] = link[r] /\ request'[r].days = request[r].days
      <4>1. link[r] \in Link /\ o = link[r].of /\ ~Absence(r)
        BY <1>1, <1>13, <3>1 DEF TypeOK, Absence
      <4> QED
        BY <1>1, <3>1, <4>1 DEF UseKept, Link
    <3> QED
      BY <1>13, <3>1
  <2>2. request'[o].days = request[o].days /\ request'[o].status = "approved"
    BY <2>1
  <2>3. Beginnings(o)' = Beginnings(o)
    BY <2>2 DEF Beginnings
  <2> QED
    BY <2>1, <2>2, <2>3
<1>14. \A e \in Entitlements : GrantedUse(e)' = GrantedUse(e) /\ Total(Moved, e)' = Total(Moved, e)
  <2> SUFFICES ASSUME NEW e \in Entitlements
               PROVE  GrantedUse(e)' = GrantedUse(e) /\ Total(Moved, e)' = Total(Moved, e)
    OBVIOUS
  <2>1. [r \in Granted |-> Charge(Taken(r)', e)] = [r \in Granted |-> Charge(Taken(r), e)]
    BY <1>7
  <2> QED
    BY <1>5, <1>6, <2>1 DEF GrantedUse, Total
<1>15. \A r \in Requests : ~Absence(r)' =>
          (request[link[r].of].status = "approved" /\ request[r].days \in Beginnings(link[r].of))'
  BY <1>13 DEF Beginnings, Absence
<1>16. IsFiniteSet(Granted')
  BY <1>1, <1>6 DEF UseKept
<1>17. \A e \in Entitlements : (Total(Moved, e) = -GrantedUse(e))'
  BY <1>1, <1>14 DEF UseKept
<1> QED
  BY <1>9, <1>10, <1>11, <1>12, <1>15, <1>16, <1>17 DEF UseKept

LEMMA TakenType ==
    ASSUME TypeOK, NEW r \in Requests
    PROVE  Taken(r) \in SUBSET Days
<1>1. effects[r] \in Seq(Effect) /\ request[r].days \in SUBSET Days
  BY DaysType DEF TypeOK
<1> DEFINE s == effects[r]
<1>2. s \in Seq(Effect)
  BY <1>1
<1>3. Taken(r) = IF s = <<>> THEN request[r].days ELSE s[Len(s)].days
  BY DEF Taken, Latest
<1> HIDE DEF s
<1>4. s # <<>> => s[Len(s)] \in Effect
  BY <1>2
<1> QED
  BY <1>1, <1>3, <1>4 DEF Effect

\* The use of what is granted, when its applications are rs and take what t has.
UseOf(t, rs, e) == SumFunctionOnSet([r \in rs |-> Charge(t[r], e)], rs)

LEMMA UseIsInt ==
    ASSUME NEW t, NEW rs, IsFiniteSet(rs), \A r \in rs : t[r] \in SUBSET Days, NEW e
    PROVE  UseOf(t, rs, e) \in Int
<1> DEFINE f == [r \in rs |-> Charge(t[r], e)]
<1>1. \A r \in rs : f[r] \in Int
  BY ChargeIsNat
<1> HIDE DEF f
<1>2. SumFunctionOnSet(f, rs) \in Int
  BY <1>1, SumType
<1> QED
  BY <1>2 DEF UseOf, f

LEMMA UseAdds ==
    ASSUME NEW t, NEW v, NEW rs, IsFiniteSet(rs), NEW r, r \notin rs, v[r] \in SUBSET Days,
           \A x \in rs : t[x] \in SUBSET Days /\ v[x] = t[x], NEW e
    PROVE  UseOf(v, rs \cup {r}, e) = UseOf(t, rs, e) + Charge(v[r], e)
<1> DEFINE f == [x \in rs |-> Charge(t[x], e)]
           g == [x \in rs \cup {r} |-> Charge(v[x], e)]
<1>1. \A x \in rs \cup {r} : g[x] \in Int
  BY ChargeIsNat
<1>2. \A x \in rs : g[x] = f[x]
  OBVIOUS
<1>3. g[r] = Charge(v[r], e)
  OBVIOUS
<1> HIDE DEF f, g
<1>4. SumFunctionOnSet(g, rs \cup {r}) = SumFunctionOnSet(g, rs) + g[r]
  BY <1>1, SumAdd
<1>5. SumFunctionOnSet(g, rs) = SumFunctionOnSet(f, rs)
  BY <1>2, SumSame
<1> QED
  BY <1>3, <1>4, <1>5 DEF UseOf, f, g

LEMMA UseChanges ==
    ASSUME NEW t, NEW v, NEW rs, IsFiniteSet(rs), NEW r \in rs, v[r] \in SUBSET Days,
           \A x \in rs : t[x] \in SUBSET Days, \A x \in rs : x # r => v[x] = t[x], NEW e
    PROVE  UseOf(v, rs, e) = UseOf(t, rs, e) - Charge(t[r], e) + Charge(v[r], e)
<1> DEFINE o == rs \ {r}
<1>1. IsFiniteSet(o) /\ r \notin o /\ rs = o \cup {r}
  BY FS_Subset
<1>2. \A x \in o : t[x] \in SUBSET Days /\ v[x] = t[x]
  OBVIOUS
<1> HIDE DEF o
<1>3. UseOf(v, o \cup {r}, e) = UseOf(t, o, e) + Charge(v[r], e)
  BY <1>1, <1>2, UseAdds
<1>4. UseOf(t, o \cup {r}, e) = UseOf(t, o, e) + Charge(t[r], e)
  <2>1. \A x \in o : t[x] \in SUBSET Days /\ t[x] = t[x]
    BY <1>2
  <2> QED
    BY <1>1, <2>1, UseAdds
<1>5. UseOf(t, o, e) \in Int /\ Charge(t[r], e) \in Nat /\ Charge(v[r], e) \in Nat
  BY <1>1, <1>2, UseIsInt, ChargeIsNat
<1> QED
  BY <1>1, <1>3, <1>4, <1>5

\* What each application takes, as a function of the applications.
Takes == [r \in Requests |-> Taken(r)]

LEMMA GrantedUseIs ==
    ASSUME NEW e
    PROVE  GrantedUse(e) = UseOf(Takes, Granted, e)
<1>1. [r \in Granted |-> Charge(Taken(r), e)] = [r \in Granted |-> Charge(Takes[r], e)]
  BY DEF Granted, Standing, Takes
<1> QED
  BY <1>1 DEF GrantedUse, UseOf

LEMMA GrantedUseAfter ==
    ASSUME NEW e
    PROVE  GrantedUse(e)' = UseOf(Takes', Granted', e)
<1>1. [r \in Granted' |-> Charge(Taken(r)', e)] = [r \in Granted' |-> Charge(Takes'[r], e)]
  BY DEF Granted, Standing, Takes
<1>2. GrantedUse(e)' = SumFunctionOnSet([r \in Granted' |-> Charge(Taken(r)', e)], Granted')
  BY DEF GrantedUse
<1> QED
  BY <1>1, <1>2 DEF UseOf

\* The grant posts the uses of the application that is granted.
LEMMA GrantUse ==
    ASSUME UseGood, LedgerGood', NEW k \in Keys, Grant(k)
    PROVE  UseKept'
<1>1. /\ TypeOK /\ TypeInv /\ HoldsFollow /\ UseKept /\ TypeOK'
      /\ ledger \in SUBSET Posting /\ IsFiniteSet(ledger)
  BY DEF UseGood, LedgerGood, TypeInv, TypeOK
<1>2. PICK r \in Requests : r = calls[k].req
  BY <1>1, CallType DEF Grant
<1>3. /\ Absence(r) /\ Finish(k, r) /\ \A p \in Uses(r) : Unposted(p)
      /\ ledger' = ledger \cup Uses(r) /\ UNCHANGED <<link, effects>>
  BY <1>2 DEF Grant, changes
<1>4. /\ request[r].status = "pending" /\ request'[r].status = "approved" /\ request'[r].days = request[r].days
      /\ \A n \in Requests : n # r => request'[n] = request[n]
      /\ \A n \in Requests : request'[n].days = request[n].days
  BY <1>1, <1>3, FinishGrants DEF Open
<1>5. /\ UsesOf(r) = {} /\ effects[r] = <<>> /\ r \notin Granted
      /\ ledger \cap Uses(r) = {} /\ Uses(r) \in SUBSET Posting /\ IsFiniteSet(Uses(r))
  BY <1>1, <1>3, <1>4, UsesType DEF UseKept, HoldsFollow, Unposted, Granted
<1>6. Granted' = Granted \cup {r} /\ IsFiniteSet(Granted) /\ Granted \in SUBSET Requests
  <2>1. ASSUME NEW n \in Requests PROVE n \in Granted' <=> n \in Granted \cup {r}
    <3>1. CASE n = r
      BY <1>3, <1>4, <3>1 DEF Granted, Standing, Absence
    <3>2. CASE n # r
      BY <1>3, <1>4, <3>2 DEF Granted, Standing, Absence
    <3> QED
      BY <3>1, <3>2
  <2> QED
    BY <1>1, <2>1 DEF Granted, Standing, UseKept
<1>7. /\ \A n \in Requests : Uses(n)' = Uses(n) /\ Taken(n)' = Taken(n)
      /\ Taken(r) = request[r].days
  BY <1>3, <1>4, <1>5, TakenSame DEF Uses, Taken
<1>8. UsesOf(r)' = Uses(r) /\ \A n \in Requests : n # r => UsesOf(n)' = UsesOf(n)
  <2>1. \A p \in Uses(r) : p.kind = "use" /\ p.ref = r
    BY DEF Uses
  <2> QED
    BY <1>3, <1>5, <2>1 DEF UsesOf
<1>9. /\ \A n \in Requests : ChangesOf(n)' = ChangesOf(n) /\ Refunded(n)' = Refunded(n)
      /\ ChangesOf(r) = {}
  <2>1. \A p \in Uses(r) : p.kind = "use"
    BY DEF Uses
  <2> QED
    BY <1>3, <1>5, <2>1 DEF ChangesOf, Refunded
<1>10. \A n \in Requests, e \in Entitlements : Returned(n, e)' = Returned(n, e)
  <2> SUFFICES ASSUME NEW n \in Requests, NEW e \in Entitlements PROVE Returned(n, e)' = Returned(n, e)
    OBVIOUS
  <2>1. Refunded(n)' = Refunded(n)
    BY <1>9
  <2>2. Returned(n, e)' = Total(Refunded(n), e)'
    BY DEF Returned, Refunded, ChangesOf
  <2> QED
    BY <2>1, <2>2, ReturnedIsTotal DEF Total
<1>11. \A e \in Entitlements : Returned(r, e) = 0
  <2>1. Refunded(r) = {}
    BY <1>9 DEF Refunded
  <2> QED
    BY <2>1, ReturnedIsTotal, TotalOfNone
<1>12. ASSUME NEW n \in Granted'
       PROVE  /\ UsesOf(n)' = Uses(n)' /\ Taken(n)' \subseteq request'[n].days
              /\ \A e \in Entitlements : Returned(n, e)' = Charge(request'[n].days, e) - Charge(Taken(n)', e)
  <2>1. CASE n = r
    <3>1. \A e \in Entitlements : Charge(request[r].days, e) \in Nat
      BY <1>1, ChargeIsNat, DaysType
    <3> QED
      BY <1>4, <1>7, <1>8, <1>10, <1>11, <2>1, <3>1
  <2>2. CASE n # r
    <3>1. n \in Granted /\ n \in Requests
      BY <1>6, <2>2
    <3> QED
      BY <1>1, <1>4, <1>7, <1>8, <1>10, <2>2, <3>1 DEF UseKept
  <2> QED
    BY <2>1, <2>2
<1>13. ASSUME NEW e \in Entitlements PROVE (Total(Moved, e) = -GrantedUse(e))'
  <2> DEFINE c == Charge(request[r].days, e)
  <2>1. Moved' = Moved \cup Uses(r) /\ Moved \cap Uses(r) = {} /\ Moved \in SUBSET Posting /\ IsFiniteSet(Moved)
    <3>1. \A p \in Uses(r) : p.kind = "use" /\ p.ref \in Requests
      BY DEF Uses
    <3> QED
      BY <1>1, <1>3, <1>5, <3>1, FS_Subset DEF Moved
  <2>2. Total(Moved \cup Uses(r), e) = Total(Moved, e) + Total(Uses(r), e)
    BY <1>5, <2>1, TotalUnion
  <2>3. Total(Uses(r), e) = -c /\ c \in Nat
    BY <1>1, UsesTotal, ChargeIsNat, DaysType
  <2>4. \A n \in Requests : Takes'[n] = Takes[n] /\ Takes[n] \in SUBSET Days
    BY <1>1, <1>7, TakenType DEF Takes
  <2>5. Takes'[r] = request[r].days
    BY <1>7 DEF Takes
  <2>6. UseOf(Takes', Granted \cup {r}, e) = UseOf(Takes, Granted, e) + Charge(Takes'[r], e)
    <3>1. Takes'[r] \in SUBSET Days /\ \A x \in Granted : Takes[x] \in SUBSET Days /\ Takes'[x] = Takes[x]
      BY <1>6, <2>4
    <3> QED
      BY <1>5, <1>6, <3>1, UseAdds
  <2>7. GrantedUse(e)' = GrantedUse(e) + c
    BY <1>6, <2>5, <2>6, GrantedUseIs, GrantedUseAfter
  <2>8. Total(Moved, e)' = Total(Moved \cup Uses(r), e)
    BY <2>1 DEF Total
  <2>9. Total(Moved, e) = -GrantedUse(e) /\ GrantedUse(e) \in Int
    BY <1>1, <1>6, <2>4, UseIsInt, GrantedUseIs DEF UseKept
  <2> HIDE DEF c
  <2> QED
    BY <2>2, <2>3, <2>7, <2>8, <2>9
<1>14. \A n \in Requests : request'[n].status # "approved" => UsesOf(n)' = {}
  BY <1>1, <1>4, <1>8 DEF UseKept
<1>15. \A n \in Requests : \A c \in ChangesOf(n)' : request'[c].status = "approved"
  BY <1>1, <1>4, <1>9, ChangesType DEF UseKept
<1>16. \A p \in ledger' :
          /\ p.kind = "reversal" /\ p.ref \in Requests => request'[p.ref].status = "approved"
          /\ p.kind = "correction" => p.ref \in CorrectionKeys
  <2>1. \A p \in Uses(r) : p.kind = "use"
    BY DEF Uses
  <2> QED
    BY <1>1, <1>3, <1>4, <2>1 DEF UseKept
<1>17. \A n \in Requests : ~Absence(n)' =>
          (request[link[n].of].status = "approved" /\ request[n].days \in Beginnings(link[n].of))'
  <2> SUFFICES ASSUME NEW n \in Requests, ~Absence(n), NEW o \in Requests, o = link[n].of
               PROVE  request'[o].status = "approved" /\ request'[n].days \in Beginnings(o)'
    <3>1. \A n \in Requests : ~Absence(n) => link[n].of \in Requests
      BY <1>1 DEF TypeOK, Absence, Link
    <3> QED
      BY <1>3, <3>1 DEF Absence, Beginnings
  <2>1. request[o].status = "approved" /\ request[n].days \in Beginnings(o)
    BY <1>1 DEF UseKept
  <2>2. Beginnings(o)' = Beginnings(o)
    BY <1>4 DEF Beginnings
  <2> QED
    BY <1>4, <2>1, <2>2
<1>18. IsFiniteSet(Granted')
  BY <1>6, FS_AddElement
<1> QED
  BY <1>12, <1>13, <1>14, <1>15, <1>16, <1>17, <1>18 DEF UseKept

\* What a change gives back of the use of leave: the days it takes of it.
LEMMA RefundsTotal ==
    ASSUME UseGood, NEW r \in Requests, ~Absence(r), NEW o \in Requests, o = link[r].of, o \in Granted,
           ValidChange(r), \A p \in UsesOf(o) : Refund(r, p) >= 0,
           NEW left, left = (IF link[r].action = "cancel_grant" THEN {} ELSE request[r].days),
           NEW e \in Entitlements
    PROVE  Total(Refunds(r), e) = Charge(Taken(o), e) - Charge(left, e)
<1>1. TypeOK /\ TypeInv /\ UseKept
  BY DEF UseGood, LedgerGood, TypeInv
<1>2. /\ request[o].days \in SUBSET Days /\ Taken(o) \in SUBSET request[o].days /\ UsesOf(o) = Uses(o)
      /\ Returned(o, e) = Charge(request[o].days, e) - Charge(Taken(o), e)
      /\ link[r].action \in Kinds /\ request[r].days \in Beginnings(o)
  BY <1>1, DaysType DEF UseKept, TypeOK, Link, Absence
<1>3. left \subseteq Taken(o) /\ left \in SUBSET Days /\ Taken(o) \in SUBSET Days
  BY <1>2 DEF ValidChange
<1>4. Refunds(r) \in SUBSET Posting /\ IsFiniteSet(Refunds(r))
  BY <1>1, RefundsType
<1> DEFINE days == request[o].days
           n == Charge(days, e)
           t == Charge(Taken(o), e)
           l == Charge(left, e)
<1>5. n \in Nat /\ t \in Nat /\ l \in Nat
  BY <1>2, <1>3, ChargeIsNat
<1>6. CASE \E d \in days : YearOf[d] = e
  <2> DEFINE p == [kind |-> "use", ref |-> o, ent |-> e, amount |-> -n]
  <2>1. /\ p \in UsesOf(o) /\ p.ent = e /\ p.amount = -n
        /\ \A q \in UsesOf(o) : q.ent = e => q = p
    BY <1>2, <1>6 DEF Uses
  <2> HIDE DEF p
  <2>2. Refund(r, p) = t - l
    <3>1. CASE link[r].action = "cancel_grant"
      <4>1. Refund(r, p) = -p.amount - Returned(o, p.ent)
        BY <3>1 DEF Refund
      <4>2. l = 0
        BY <3>1, ChargeOfNone
      <4> HIDE DEF n, t, l
      <4> QED
        BY <1>2, <1>5, <2>1, <4>1, <4>2 DEF n, t
    <3>2. CASE link[r].action # "cancel_grant"
      <4> DEFINE after == {d \in days : \A x \in request[r].days : x < d}
      <4>1. Refund(r, p) = Charge(after, e) - Returned(o, e)
        BY <2>1, <3>2 DEF Refund
      <4>2. after = days \ left
        BY <1>2, <3>2, BeginningsCut
      <4> HIDE DEF after
      <4>3. Charge(days \ left, e) = n - l
        BY <1>2, <1>3, ChargeSplits
      <4> HIDE DEF n, l, t, days
      <4>4. Returned(o, e) = n - t
        BY <1>2 DEF n, t, days
      <4> QED
        BY <1>5, <4>1, <4>2, <4>3, <4>4
    <3> QED
      BY <3>1, <3>2
  <2> DEFINE b == [kind |-> "reversal", ref |-> r, ent |-> e, amount |-> Refund(r, p)]
  <2>3. CASE Refund(r, p) > 0
    <3>1. b \in Refunds(r) /\ b.ent = e /\ b.amount = Refund(r, p)
      BY <2>1, <2>3 DEF Refunds
    <3>2. \A q \in Refunds(r) : q.ent = e => q = b
      BY <2>1 DEF Refunds
    <3> HIDE DEF b
    <3>3. Total(Refunds(r), e) = b.amount
      BY <1>4, <3>1, <3>2, TotalOfOne
    <3> QED
      BY <2>2, <3>1, <3>3
  <2>4. CASE ~(Refund(r, p) > 0)
    <3>1. \A q \in Refunds(r) : q.ent # e
      BY <2>1, <2>4 DEF Refunds
    <3>2. Total(Refunds(r), e) = 0
      BY <3>1, TotalOfNone
    <3>3. Refund(r, p) >= 0
      BY <2>1
    <3> HIDE DEF t, l
    <3>4. t - l = 0
      BY <1>5, <2>2, <2>4, <3>3
    <3> QED
      BY <3>2, <3>4 DEF t, l
  <2> QED
    BY <2>3, <2>4
<1>7. CASE ~\E d \in days : YearOf[d] = e
  <2>1. \A q \in UsesOf(o) : q.ent # e
    BY <1>2, <1>7 DEF Uses
  <2>2. \A q \in Refunds(r) : q.ent # e
    BY <2>1 DEF Refunds
  <2>3. Total(Refunds(r), e) = 0
    BY <2>2, TotalOfNone
  <2>4. {d \in Taken(o) : YearOf[d] = e} = {} /\ {d \in left : YearOf[d] = e} = {}
    BY <1>2, <1>3, <1>7
  <2>5. t = 0 /\ l = 0
    BY <2>4, FS_EmptySet DEF Charge
  <2> QED
    BY <2>3, <2>5
<1> QED
  BY <1>6, <1>7

\* The change gives back what it takes of the leave, and of no other.
LEMMA GrantChangeUse ==
    ASSUME UseGood, LedgerGood', NEW k \in Keys, GrantChange(k)
    PROVE  UseKept'
<1>1. /\ TypeOK /\ TypeInv /\ HoldsFollow /\ UseKept /\ LedgerGood
      /\ ledger \in SUBSET Posting /\ IsFiniteSet(ledger)
  BY DEF UseGood, LedgerGood, TypeInv, TypeOK
<1>2. PICK r \in Requests, o \in Requests : r = calls[k].req /\ o = link[r].of
  <2>1. calls[k].req \in Requests /\ link[calls[k].req] \in Link
    BY <1>1, CallType DEF GrantChange, TypeOK, Absence
  <2> QED
    BY <2>1 DEF Link
<1>3. /\ ~Absence(r) /\ Finish(k, r) /\ ValidChange(r) /\ \A p \in Refunds(r) : Unposted(p)
      /\ ledger' = ledger \cup Refunds(r) /\ UNCHANGED link
  BY <1>2 DEF GrantChange
<1>4. \A p \in UsesOf(o) : Refund(r, p) >= 0
  <2> SUFFICES ASSUME NEW p \in UsesOf(o) PROVE Refund(r, p) >= 0
    OBVIOUS
  <2> DEFINE n == -p.amount - Returned(o, p.ent)
             f == Refund(r, p)
  <2>1. f \in 0..n
    BY <1>2 DEF GrantChange
  <2>2. p.amount \in Int /\ Returned(o, p.ent) \in Int
    BY <1>1, ReturnedType DEF UsesOf, Posting
  <2>3. n \in Int
    BY <2>2
  <2> HIDE DEF n, f
  <2>4. f >= 0
    BY <2>1, <2>3
  <2> QED
    BY <2>4 DEF f
<1>5. PICK x \in Effect : /\ effects' = [effects EXCEPT ![o] = Append(@, x)] /\ x.by = r
                          /\ x.days = IF link[r].action = "cancel_grant" THEN {} ELSE request[r].days
  <2> DEFINE y == [by |-> r, action |-> link[r].action,
                   days |-> IF link[r].action = "cancel_grant" THEN {} ELSE request[r].days]
  <2>1. link[r] \in Link /\ request[r].days \in SUBSET Days
    BY <1>1, <1>3, DaysType DEF TypeOK, Absence
  <2>2. y \in Effect /\ effects' = [effects EXCEPT ![o] = Append(@, y)]
    BY <1>2, <2>1 DEF Link, Effect, GrantChange
  <2>3. y.by = r /\ y.days = IF link[r].action = "cancel_grant" THEN {} ELSE request[r].days
    OBVIOUS
  <2> HIDE DEF y
  <2> QED
    BY <2>2, <2>3
<1>6. /\ request[r].status = "pending" /\ request'[r].status = "approved"
      /\ \A n \in Requests : n # r => request'[n] = request[n]
      /\ \A n \in Requests : request'[n].days = request[n].days
  BY <1>1, <1>3, FinishGrants DEF Open
<1>7. /\ effects'[o] = Append(effects[o], x) /\ effects[o] \in Seq(Effect)
      /\ \A n \in Requests : n # o => effects'[n] = effects[n]
  BY <1>1, <1>5 DEF TypeOK
<1>8. /\ Taken(o)' = x.days /\ x.days \subseteq Taken(o)
      /\ \A n \in Requests : n # o => Taken(n)' = Taken(n)
  <2>1. ~Absence(r) /\ ValidChange(r) /\ o = link[r].of
    BY <1>2, <1>3
  <2> QED
    BY <1>1, <1>5, <1>6, <1>7, <2>1, EffectTakesLess
<1>9. request[o].status = "approved" /\ Absence(o) /\ o \in Granted /\ o # r
  BY <1>2, <1>3 DEF ValidChange, Granted, Standing
<1>10. Granted' = Granted /\ Granted \in SUBSET Requests /\ IsFiniteSet(Granted)
  <2>1. ASSUME NEW n \in Requests PROVE n \in Granted' <=> n \in Granted
    <3>1. CASE n = r
      BY <1>3, <1>6, <3>1 DEF Granted, Standing, Absence
    <3>2. CASE n # r
      BY <1>3, <1>6, <3>2 DEF Granted, Standing, Absence
    <3> QED
      BY <3>1, <3>2
  <2> QED
    BY <1>1, <2>1 DEF Granted, Standing, UseKept
<1>11. /\ Refunds(r) \in SUBSET Posting /\ IsFiniteSet(Refunds(r)) /\ ledger \cap Refunds(r) = {}
       /\ \A p \in Refunds(r) : p.kind = "reversal" /\ p.ref = r
  <2>1. Refunds(r) \in SUBSET Posting /\ IsFiniteSet(Refunds(r))
    BY <1>1, <1>3, RefundsType
  <2>2. ledger \cap Refunds(r) = {}
    BY <1>3 DEF Unposted
  <2> QED
    BY <2>1, <2>2 DEF Refunds
<1>12. \A n \in Requests : UsesOf(n)' = UsesOf(n) /\ Uses(n)' = Uses(n)
  BY <1>3, <1>6, <1>11 DEF UsesOf, Uses
<1>13. ChangesOf(o)' = ChangesOf(o) \cup {r} /\ \A n \in Requests : n # o => ChangesOf(n)' = ChangesOf(n)
  <2> DEFINE s == effects[o]
             w == Append(s, x)
  <2>1. s \in Seq(Effect)
    BY <1>7
  <2>2. ChangesOf(o)' = {w[i].by : i \in DOMAIN w} /\ ChangesOf(o) = {s[i].by : i \in DOMAIN s}
    BY <1>7 DEF ChangesOf
  <2> HIDE DEF s
  <2>3. /\ DOMAIN w = 1..(Len(s) + 1) /\ DOMAIN s = 1..Len(s) /\ Len(s) \in Nat
        /\ w[Len(s) + 1] = x /\ \A i \in 1..Len(s) : w[i] = s[i]
    BY <2>1
  <2> HIDE DEF w
  <2>4. DOMAIN w = DOMAIN s \cup {Len(s) + 1}
    BY <2>3
  <2>5. {w[i].by : i \in DOMAIN w} = {s[i].by : i \in DOMAIN s} \cup {r}
    BY <1>5, <2>3, <2>4
  <2>6. \A n \in Requests : n # o => ChangesOf(n)' = ChangesOf(n)
    BY <1>7 DEF ChangesOf
  <2> QED
    BY <2>2, <2>5, <2>6
<1>14. /\ Refunded(o)' = Refunded(o) \cup Refunds(r)
       /\ \A n \in Requests : n # o => Refunded(n)' = Refunded(n)
  <2>1. \A p \in ledger : p.kind = "reversal" => p.ref # r
    BY <1>1, <1>6 DEF UseKept
  <2>2. \A n \in Requests : r \notin ChangesOf(n)
    BY <1>1, <1>6 DEF UseKept
  <2>3. Refunded(o)' = Refunded(o) \cup Refunds(r)
    BY <1>3, <1>11, <1>13, <2>1 DEF Refunded
  <2>4. ASSUME NEW n \in Requests, n # o PROVE Refunded(n)' = Refunded(n)
    BY <1>3, <1>11, <1>13, <2>2, <2>4 DEF Refunded
  <2> QED
    BY <2>3, <2>4
<1>15. \A e \in Entitlements : Total(Refunds(r), e) = Charge(Taken(o), e) - Charge(x.days, e)
  BY <1>2, <1>3, <1>4, <1>5, <1>9, RefundsTotal
<1>16. /\ \A n \in Requests, e \in Entitlements : n # o => Returned(n, e)' = Returned(n, e)
       /\ \A e \in Entitlements : Returned(o, e)' = Returned(o, e) + Total(Refunds(r), e)
  <2>1. \A n \in Requests, e \in Entitlements : Returned(n, e)' = Total(Refunded(n), e)'
    BY DEF Returned, Refunded, ChangesOf
  <2>2. ASSUME NEW n \in Requests, n # o, NEW e \in Entitlements PROVE Returned(n, e)' = Returned(n, e)
    BY <1>14, <2>1, <2>2, ReturnedIsTotal DEF Total
  <2>3. ASSUME NEW e \in Entitlements PROVE Returned(o, e)' = Returned(o, e) + Total(Refunds(r), e)
    <3>1. Refunded(o) \in SUBSET Posting /\ IsFiniteSet(Refunded(o)) /\ Refunded(o) \cap Refunds(r) = {}
      BY <1>1, <1>11, FS_Subset DEF Refunded
    <3>2. Total(Refunded(o) \cup Refunds(r), e) = Total(Refunded(o), e) + Total(Refunds(r), e)
      BY <1>11, <3>1, TotalUnion
    <3>3. Total(Refunded(o), e)' = Total(Refunded(o) \cup Refunds(r), e)
      BY <1>14 DEF Total
    <3> QED
      BY <2>1, <3>2, <3>3, ReturnedIsTotal
  <2> QED
    BY <2>2, <2>3
<1>17. ASSUME NEW n \in Granted'
       PROVE  /\ UsesOf(n)' = Uses(n)' /\ Taken(n)' \subseteq request'[n].days
              /\ \A e \in Entitlements : Returned(n, e)' = Charge(request'[n].days, e) - Charge(Taken(n)', e)
  <2>1. n \in Granted /\ n \in Requests
    BY <1>10
  <2>2. /\ UsesOf(n) = Uses(n) /\ Taken(n) \subseteq request[n].days
        /\ \A e \in Entitlements : Returned(n, e) = Charge(request[n].days, e) - Charge(Taken(n), e)
    BY <1>1, <2>1 DEF UseKept
  <2>3. CASE n = o
    <3>1. Taken(n)' \subseteq request'[n].days
      BY <1>6, <1>8, <2>2, <2>3
    <3>2. ASSUME NEW e \in Entitlements
          PROVE  Returned(n, e)' = Charge(request'[n].days, e) - Charge(Taken(n)', e)
      <4> DEFINE a == Charge(request[o].days, e)
                 t == Charge(Taken(o), e)
                 l == Charge(x.days, e)
                 v == Returned(o, e)
                 w == Returned(o, e)'
      <4>1. a \in Nat /\ t \in Nat /\ l \in Nat
        BY <1>1, <1>8, ChargeIsNat, DaysType, TakenType
      <4>2. v = a - t /\ w = v + (t - l)
        BY <1>15, <1>16, <2>2, <2>3
      <4>3. Charge(request'[n].days, e) = a /\ Charge(Taken(n)', e) = l
        BY <1>6, <1>8, <2>3
      <4> HIDE DEF a, t, l, v, w
      <4>4. w = a - l
        BY <4>1, <4>2
      <4> QED
        BY <2>3, <4>3, <4>4 DEF w
    <3> QED
      BY <1>12, <2>1, <2>2, <3>1, <3>2
  <2>4. CASE n # o
    BY <1>6, <1>8, <1>12, <1>16, <2>1, <2>2, <2>4
  <2> QED
    BY <2>3, <2>4
<1>18. ASSUME NEW e \in Entitlements PROVE (Total(Moved, e) = -GrantedUse(e))'
  <2> DEFINE t == Charge(Taken(o), e)
             l == Charge(x.days, e)
  <2>1. Moved' = Moved \cup Refunds(r) /\ Moved \cap Refunds(r) = {} /\ Moved \in SUBSET Posting /\ IsFiniteSet(Moved)
    BY <1>1, <1>3, <1>11, FS_Subset DEF Moved
  <2>2. Total(Moved \cup Refunds(r), e) = Total(Moved, e) + Total(Refunds(r), e)
    BY <1>11, <2>1, TotalUnion
  <2>3. Total(Refunds(r), e) = t - l /\ t \in Nat /\ l \in Nat
    BY <1>1, <1>8, <1>15, ChargeIsNat, TakenType
  <2>4. /\ \A n \in Requests : Takes[n] \in SUBSET Days
        /\ \A n \in Requests : n # o => Takes'[n] = Takes[n]
        /\ Takes[o] = Taken(o) /\ Takes'[o] = x.days
    BY <1>1, <1>8, TakenType DEF Takes
  <2>5. x.days \in SUBSET Days
    BY DEF Effect
  <2>6. UseOf(Takes', Granted, e) = UseOf(Takes, Granted, e) - Charge(Takes[o], e) + Charge(Takes'[o], e)
    <3>1. /\ Takes'[o] \in SUBSET Days /\ \A n \in Granted : Takes[n] \in SUBSET Days
          /\ \A n \in Granted : n # o => Takes'[n] = Takes[n]
      BY <1>10, <2>4, <2>5
    <3> QED
      BY <1>9, <1>10, <3>1, UseChanges
  <2>7. GrantedUse(e)' = GrantedUse(e) - t + l
    BY <1>10, <2>4, <2>6, GrantedUseIs, GrantedUseAfter
  <2>8. Total(Moved, e)' = Total(Moved \cup Refunds(r), e)
    BY <2>1 DEF Total
  <2>9. Total(Moved, e) = -GrantedUse(e) /\ GrantedUse(e) \in Int
    BY <1>1, <1>10, <2>4, UseIsInt, GrantedUseIs DEF UseKept
  <2> HIDE DEF t, l
  <2> QED
    BY <2>2, <2>3, <2>7, <2>8, <2>9
<1>19. \A n \in Requests : request'[n].status # "approved" => UsesOf(n)' = {}
  BY <1>1, <1>6, <1>12 DEF UseKept
<1>20. \A n \in Requests : \A c \in ChangesOf(n)' : request'[c].status = "approved"
  BY <1>1, <1>6, <1>13, ChangesType DEF UseKept
<1>21. \A p \in ledger' :
          /\ p.kind = "reversal" /\ p.ref \in Requests => request'[p.ref].status = "approved"
          /\ p.kind = "correction" => p.ref \in CorrectionKeys
  BY <1>1, <1>3, <1>6, <1>11 DEF UseKept
<1>22. \A n \in Requests : ~Absence(n)' =>
          (request[link[n].of].status = "approved" /\ request[n].days \in Beginnings(link[n].of))'
  <2> SUFFICES ASSUME NEW n \in Requests, ~Absence(n), NEW m \in Requests, m = link[n].of
               PROVE  request'[m].status = "approved" /\ request'[n].days \in Beginnings(m)'
    <3>1. \A n \in Requests : ~Absence(n) => link[n].of \in Requests
      BY <1>1 DEF TypeOK, Absence, Link
    <3> QED
      BY <1>3, <3>1 DEF Absence, Beginnings
  <2>1. request[m].status = "approved" /\ request[n].days \in Beginnings(m)
    BY <1>1 DEF UseKept
  <2>2. Beginnings(m)' = Beginnings(m)
    BY <1>6 DEF Beginnings
  <2> QED
    BY <1>6, <2>1, <2>2
<1>23. IsFiniteSet(Granted')
  BY <1>10
<1> QED
  BY <1>17, <1>18, <1>19, <1>20, <1>21, <1>22, <1>23 DEF UseKept

LEMMA UseStep ==
    ASSUME UseGood, [Next]_workflow
    PROVE  UseGood'
<1>0. LedgerGood' /\ LedgerGood /\ TypeOK /\ HoldsFollow /\ UseKept
  BY LedgerStep DEF UseGood, LedgerGood, TypeInv
<1> SUFFICES UseKept'
  BY <1>0 DEF UseGood
<1>1. CASE \E k \in Keys : Grant(k) \/ GrantChange(k)
  BY <1>0, <1>1, GrantUse, GrantChangeUse
<1> DEFINE Keeps == \A r \in Requests :
              /\ request[r].status = "approved" =>
                    request'[r].status = "approved" /\ request'[r].days = request[r].days /\ link'[r] = link[r]
              /\ request'[r].status = "approved" => request[r].status = "approved"
           Links == \A r \in Requests : link'[r] # None =>
              \/ link'[r] = link[r] /\ request'[r].days = request[r].days
              \/ /\ link'[r].of \in Requests /\ request[link'[r].of].status = "approved"
                 /\ request'[r].days \in Beginnings(link'[r].of)
<1>2. ASSUME UNCHANGED <<effects, ledger>>, Keeps, Links PROVE UseKept'
  BY <1>0, <1>2, UseFrame
<1>3. ASSUME NEW r \in Requests, NEW u \in Accounts, NEW days \in Spans, Submit(r, u, days)
      PROVE  UseKept'
  <2>1. /\ request[r].status = "absent" /\ link[r] = None /\ UNCHANGED <<link, effects, ledger>>
        /\ request' = Placed(r, u, days, request)
    BY <1>0, <1>3 DEF Submit, Acceptable, HoldsFollow, changes
  <2>2. request'[r].status = "pending" /\ \A n \in Requests : n # r => request'[n] = request[n]
    BY <1>0, <2>1 DEF Placed, TypeOK
  <2> QED
    BY <1>2, <2>1, <2>2
<1>4. ASSUME NEW r \in Requests, NEW n \in Requests,
             \/ \E days \in Spans : Amend(r, n, days)
             \/ \E u \in Accounts : Continue(r, n, u)
      PROVE  UseKept'
  <2>1. PICK u \in Accounts, days \in SUBSET Days : Replace(r, n, u, days)
    BY <1>0, <1>4, ReplaceSteps DEF LedgerGood
  <2> DEFINE q == Ended(r, "cancelled", request)
  <2>2. /\ Open(r) /\ Absence(r) /\ request[n].status = "absent" /\ link[n] = None
        /\ UNCHANGED <<link, effects, ledger>> /\ request' = Placed(n, u, days, q)
    BY <1>0, <2>1 DEF Replace, Acceptable, HoldsFollow, changes
  <2>3. /\ q[r] = [request[r] EXCEPT !.status = "cancelled"] /\ request[r] \in Request
        /\ \A x \in Requests : x # r => q[x] = request[x]
        /\ q \in [Requests -> Request]
    BY <1>0, <2>2, CancelledType, DaysType
  <2>4. q[r].status = "cancelled" /\ q[r].days = request[r].days /\ r # n
    BY <2>2, <2>3 DEF Request, Open
  <2> HIDE DEF q
  <2>5. request'[n].status = "pending" /\ \A x \in Requests : x # n => request'[x] = q[x]
    BY <2>2, <2>3 DEF Placed
  <2>6. Keeps
    BY <2>2, <2>3, <2>4, <2>5 DEF Open
  <2>7. Links
    BY <2>2, <2>3, <2>5 DEF Absence
  <2> QED
    BY <1>2, <2>2, <2>6, <2>7
<1>5. CASE \/ \E r \in Requests, u \in Accounts : Cancel(r, u)
           \/ \E k \in Keys : Reject(k) \/ Forward(k)
  <2>1. PICK r \in Requests : /\ Open(r) /\ UNCHANGED <<link, effects, ledger>>
                              /\ request'[r].status # "approved" /\ request'[r].days = request[r].days
                              /\ \A n \in Requests : n # r => request'[n] = request[n]
    <3>1. ASSUME NEW r \in Requests, NEW u \in Accounts, Cancel(r, u)
          PROVE  /\ Open(r) /\ UNCHANGED <<link, effects, ledger>>
                 /\ request'[r].status # "approved" /\ request'[r].days = request[r].days
                 /\ \A n \in Requests : n # r => request'[n] = request[n]
      <4>1. Open(r) /\ request' = Ended(r, "cancelled", request) /\ UNCHANGED <<link, effects, ledger>>
        BY <3>1 DEF Cancel, changes
      <4> QED
        BY <1>0, <4>1, EndedRow
    <3>2. ASSUME NEW k \in Keys, Reject(k)
          PROVE  \E r \in Requests : /\ Open(r) /\ UNCHANGED <<link, effects, ledger>>
                                     /\ request'[r].status # "approved" /\ request'[r].days = request[r].days
                                     /\ \A n \in Requests : n # r => request'[n] = request[n]
      <4>1. PICK r \in Requests : r = calls[k].req
        BY <1>0, <3>2, CallType DEF Reject
      <4>2. Open(r) /\ request' = Ended(r, "rejected", request) /\ UNCHANGED <<link, effects, ledger>>
        BY <3>2, <4>1 DEF Reject, MayDecide, changes
      <4>3. /\ request'[r].status # "approved" /\ request'[r].days = request[r].days
            /\ \A n \in Requests : n # r => request'[n] = request[n]
        BY <1>0, <4>2, EndedRow
      <4> QED
        BY <4>2, <4>3
    <3>3. ASSUME NEW k \in Keys, Forward(k)
          PROVE  \E r \in Requests : /\ Open(r) /\ UNCHANGED <<link, effects, ledger>>
                                     /\ request'[r].status # "approved" /\ request'[r].days = request[r].days
                                     /\ \A n \in Requests : n # r => request'[n] = request[n]
      <4>1. PICK r \in Requests : r = calls[k].req
        BY <1>0, <3>3, CallType DEF Forward
      <4>2. /\ Open(r) /\ UNCHANGED <<link, effects, ledger>>
            /\ request' = [request EXCEPT ![r] = [request[r] EXCEPT !.stage = request[r].stage + 1]]
        BY <3>3, <4>1 DEF Forward, MayDecide, changes
      <4>3. /\ request'[r].status # "approved" /\ request'[r].days = request[r].days
            /\ \A n \in Requests : n # r => request'[n] = request[n]
        BY <1>0, <4>2 DEF Request, TypeOK, Open
      <4> QED
        BY <4>2, <4>3
    <3> QED
      BY <1>5, <3>1, <3>2, <3>3
  <2>2. Keeps /\ Links
    BY <2>1 DEF Open
  <2> QED
    BY <1>2, <2>1, <2>2
<1>6. ASSUME NEW r \in Requests, NEW u \in Accounts, NEW o \in Requests, NEW action \in Kinds,
             NEW days \in Beginnings(o), Change(r, u, [of |-> o, action |-> action], days)
      PROVE  UseKept'
  <2> DEFINE c == [of |-> o, action |-> action]
  <2>1. /\ request[r].status = "absent" /\ request[o].status = "approved" /\ c.of = o
        /\ request' = Placed(r, u, days, request) /\ link' = [link EXCEPT ![r] = c]
        /\ UNCHANGED <<effects, ledger>>
    BY <1>6 DEF Change, Changing
  <2> HIDE DEF c
  <2>2. /\ request'[r].status = "pending" /\ request'[r].days = days /\ link'[r] = c
        /\ \A n \in Requests : n # r => request'[n] = request[n] /\ link'[n] = link[n]
    BY <1>0, <2>1 DEF Placed, TypeOK
  <2>3. Keeps /\ Links
    BY <2>1, <2>2
  <2> QED
    BY <1>2, <2>1, <2>3
<1>7. ASSUME NEW r \in Requests, NEW n \in Requests, NEW u \in Accounts, ContinueChange(r, n, u)
      PROVE  UseKept'
  <2> DEFINE q == Ended(r, "cancelled", request)
  <2>1. /\ Open(r) /\ ~Absence(r) /\ request[n].status = "absent"
        /\ request[link[r].of].status = "approved" /\ UNCHANGED <<effects, ledger>>
        /\ request' = Placed(n, u, request[r].days, q) /\ link' = [link EXCEPT ![n] = link[r]]
    BY <1>7 DEF ContinueChange, Changing
  <2>2. /\ q[r] = [request[r] EXCEPT !.status = "cancelled"] /\ request[r] \in Request
        /\ \A x \in Requests : x # r => q[x] = request[x]
        /\ q \in [Requests -> Request]
    BY <1>0, <2>1, CancelledType, DaysType
  <2>3. q[r].status = "cancelled" /\ q[r].days = request[r].days /\ r # n
    BY <2>1, <2>2 DEF Request, Open
  <2> HIDE DEF q
  <2>4. /\ request'[n].status = "pending" /\ request'[n].days = request[r].days /\ link'[n] = link[r]
        /\ \A x \in Requests : x # n => request'[x] = q[x] /\ link'[x] = link[x]
    BY <1>0, <2>1, <2>2 DEF Placed, TypeOK
  <2>5. link[r].of \in Requests /\ request[r].days \in Beginnings(link[r].of)
    BY <1>0, <2>1 DEF UseKept, TypeOK, Link, Absence
  <2>6. Keeps
    <3>1. \A x \in Requests : x # n /\ x # r => request'[x] = request[x] /\ link'[x] = link[x]
      BY <2>2, <2>4
    <3>2. request'[r].status = "cancelled" /\ request[r].status = "pending"
      BY <2>1, <2>3, <2>4 DEF Open
    <3> QED
      BY <2>1, <2>4, <3>1, <3>2
  <2>7. Links
    <3>1. \A x \in Requests : x # n => link'[x] = link[x] /\ request'[x].days = request[x].days
      BY <2>2, <2>3, <2>4
    <3>2. link'[n].of \in Requests /\ request[link'[n].of].status = "approved"
          /\ request'[n].days \in Beginnings(link'[n].of)
      BY <2>1, <2>4, <2>5
    <3> QED
      BY <3>1, <3>2
  <2> QED
    BY <1>2, <2>1, <2>6, <2>7
<1>8. CASE \/ \E k \in CorrectionKeys, e \in Entitlements, n \in Amounts : Correct(k, e, n)
           \/ \E q \in ledger : Reverse(q)
  <2>1. UNCHANGED <<request, link, effects>>
    BY <1>8 DEF Correct, Reverse, changes
  <2>2. PICK p \in {x \in Posting : /\ x.kind \in {"correction", "reversal"}
                                    /\ x.ref \in CorrectionKeys} : ledger' = ledger \cup {p}
    <3>1. ASSUME NEW k \in CorrectionKeys, NEW e \in Entitlements, NEW n \in Amounts, Correct(k, e, n)
          PROVE  \E p \in Posting : /\ p.kind = "correction" /\ p.ref \in CorrectionKeys
                                    /\ ledger' = ledger \cup {p}
      <4> DEFINE p == [kind |-> "correction", ref |-> k, ent |-> e, amount |-> n]
      <4>1. p \in Posting /\ p.kind = "correction" /\ p.ref = k /\ ledger' = ledger \cup {p}
        BY <1>0, <3>1, PostingsType DEF Correct, LedgerGood
      <4> HIDE DEF p
      <4> QED
        BY <4>1
    <3>2. ASSUME NEW q \in ledger, Reverse(q)
          PROVE  \E p \in Posting : /\ p.kind = "reversal" /\ p.ref \in CorrectionKeys
                                    /\ ledger' = ledger \cup {p}
      <4> DEFINE p == [kind |-> "reversal", ref |-> q.ref, ent |-> q.ent, amount |-> -q.amount]
      <4>1. p \in Posting /\ p.kind = "reversal" /\ p.ref = q.ref /\ ledger' = ledger \cup {p}
        BY <1>0, <3>2, PostingsType DEF Reverse, LedgerGood
      <4> HIDE DEF p
      <4>2. q.ref \in CorrectionKeys
        BY <1>0, <3>2 DEF Reverse, UseKept
      <4> QED
        BY <4>1, <4>2
    <3> QED
      BY <1>8, <3>1, <3>2
  <2>3. p.ref \notin Requests /\ p.kind # "use" /\ p.ref \in CorrectionKeys
    BY <2>2, LedgerAssumption
  <2>4. Keeps /\ Links
    BY <2>1
  <2>5. \A x \in ledger' \ ledger : /\ x.kind # "use"
                                    /\ x.kind = "reversal" => x.ref \notin Requests
                                    /\ x.kind = "correction" => x.ref \in CorrectionKeys
    BY <2>2, <2>3
  <2>6. ledger \subseteq ledger'
    BY <2>2
  <2> QED
    BY <1>0, <2>1, <2>4, <2>5, <2>6, UseFrame
<1>9. CASE \/ \E r \in Requests :
                 \/ \E u \in Accounts, h \in Handlers, s \in Stages : BeginRebind(h, r, s, u)
                 \/ \E k \in Keys, verdict \in Verdicts : Send(k, r, verdict)
           \/ \E h \in Handlers : CommitRebind(h) \/ AbandonRebind(h)
           \/ \E s \in Stages : CloseOffice(s) \/ \E u \in Accounts : Appoint(s, u)
           \/ \E u \in Accounts : ChangeAccount(u)
           \/ UNCHANGED workflow
  <2>1. UNCHANGED <<request, link, effects, ledger>>
    BY <1>9 DEF BeginRebind, Send, CommitRebind, AbandonRebind, CloseOffice, Appoint, ChangeAccount, changes, workflow
  <2>2. Keeps /\ Links
    BY <2>1
  <2> QED
    BY <1>2, <2>1, <2>2
<1> HIDE DEF Keeps, Links
<1> QED
  BY <1>1, <1>3, <1>4, <1>5, <1>6, <1>7, <1>8, <1>9 DEF Next

LEMMA UseInit ==
    ASSUME Init
    PROVE  UseGood
<1>1. LedgerGood /\ TypeInv
  BY LedgerInit, TypeInit
<1>2. /\ \A r \in Requests : request[r].status = "absent" /\ link[r] = None /\ effects[r] = <<>>
      /\ ledger = {[kind |-> "opening", ref |-> None, ent |-> e, amount |-> Opening[e]] : e \in Entitlements}
  BY DEF Init
<1>3. Granted = {} /\ Moved = {} /\ \A r \in Requests : UsesOf(r) = {} /\ ChangesOf(r) = {} /\ Absence(r)
  BY <1>2 DEF Granted, Moved, Standing, UsesOf, ChangesOf, Absence
<1>4. \A e \in Entitlements : Total(Moved, e) = -GrantedUse(e)
  <2> SUFFICES ASSUME NEW e \in Entitlements PROVE Total(Moved, e) = -GrantedUse(e)
    OBVIOUS
  <2>1. Total(Moved, e) = 0
    BY <1>3, TotalOfNone
  <2>2. GrantedUse(e) = 0
    BY <1>3, SumEmpty DEF GrantedUse
  <2>3. \A g, t \in Int : g + t = 0 => t = -g
    OBVIOUS
  <2>4. GrantedUse(e) \in Int /\ Total(Moved, e) \in Int /\ GrantedUse(e) + Total(Moved, e) = 0
    BY <2>1, <2>2
  <2> QED
    BY <2>3, <2>4
<1>5. IsFiniteSet(Granted)
  BY <1>3, FS_EmptySet
<1> QED
  BY <1>1, <1>2, <1>3, <1>4, <1>5 DEF UseGood, UseKept

LEMMA UseSuffices ==
    ASSUME UseGood
    PROVE  UseFollowsGrant
<1>1. \A r \in {q \in Requests : Absence(q)} : /\ Open(r) <=> reservation[r] = "held"
                                               /\ request[r].status = "approved" <=> reservation[r] = "consumed"
  BY DEF UseGood, LedgerGood, HoldsFollow
<1>2. \A e \in Entitlements :
         Total({p \in ledger : p.kind \in {"use", "reversal"} /\ p.ref \in Requests}, e) =
             -SumFunction([r \in {q \in Standing : request[q].status = "approved"} |-> Charge(Taken(r), e)])
  BY DEF UseGood, UseKept, Moved, GrantedUse, Granted, SumFunction
<1> QED
  BY <1>1, <1>2 DEF UseFollowsGrant

LEMMA UseHolds == Spec => []UseGood
<1>1. Init => UseGood
  BY UseInit
<1>2. UseGood /\ [Next]_vars => UseGood'
  BY UseStep DEF vars, workflow
<1> QED
  BY <1>1, <1>2, PTL DEF Spec

\* Holds follow pending leave, and the use that was posted less what was given back
\* is, for each entitlement, the days that stand of granted leave.
THEOREM UseIsExact == Spec => []UseFollowsGrant
<1>1. UseGood => UseFollowsGrant
  BY UseSuffices
<1> QED
  BY <1>1, UseHolds, PTL

-----------------------------------------------------------------------------
(* What a register and a call in progress may say *)

\* Lines of a period with one application for each day.
Exact(period, lines) ==
    /\ \A l \in lines : l[2] \in period
    /\ \A l, m \in lines : l[2] = m[2] => l = m

PayrollTypes ==
    /\ IsFiniteSet(Prepared) /\ Prepared \subseteq Batches
    /\ \A b \in Prepared : register[b] \in Row
    /\ \A h \in DOMAIN work :
          h \in Exchanges /\ work[h].id \in Batches /\ work[h].by \in Accounts /\ work[h].row \in Row \cup {None}

\* A period has one register in force, periods do not overlap, and what a register
\* supersedes was prepared before it.
RegistersKept ==
    /\ \A b \in Prepared : /\ register[b].supersedes \in Prepared \cup {None}
                           /\ Exact(register[b].period, register[b].snapshot.lines)
    /\ \A b, c \in Prepared :
          register[b].period \cap register[c].period # {} => register[b].period = register[c].period
    /\ \A b, c \in InForce : register[b].period = register[c].period => b = c

ReceiptsKept == \A b \in DOMAIN receipt : b \in Prepared /\ receipt[b] # register[b].by

\* The call that holds the lock may still write what it has read.
Writable(row) ==
    /\ \A c \in Prepared : register[c].period \cap row.period # {} => register[c].period = row.period
    /\ IF Versions(row.period) \cap InForce = {} THEN row.supersedes = None
       ELSE row.supersedes \in Versions(row.period) \cap InForce
    /\ Exact(row.period, row.snapshot.lines)

WorkKept ==
    /\ \A g, h \in DOMAIN work : g = h
    /\ \A h \in DOMAIN work :
          IF work[h].row = None THEN work[h].id \in InForce /\ work[h].by # register[work[h].id].by
          ELSE Writable(work[h].row)

PayrollInd == PayrollTypes /\ RegistersKept /\ ReceiptsKept /\ WorkKept

-----------------------------------------------------------------------------
(* The workflow *)

\* Grants and changes leave the payroll tables alone.
LEMMA WorkflowKeepsPayroll ==
    ASSUME Next
    PROVE  UNCHANGED payroll
<1>1. CASE \E r \in Requests :
              \/ \E u \in Accounts :
                    \/ \E days \in Spans : Submit(r, u, days)
                    \/ Cancel(r, u)
                    \/ \E h \in Handlers, s \in Stages : BeginRebind(h, r, s, u)
              \/ \E k \in Keys, verdict \in Verdicts : Send(k, r, verdict)
  BY <1>1 DEF Submit, Cancel, BeginRebind, Send, environment
<1>6. CASE \E r \in Requests, u \in Accounts, o \in Requests : \E action \in Kinds, days \in Beginnings(o) :
              Change(r, u, [of |-> o, action |-> action], days)
  BY <1>6 DEF Change, environment
<1>7. ASSUME NEW r, NEW n, NEW u, NEW days, Replace(r, n, u, days) PROVE UNCHANGED payroll
  BY <1>7 DEF Replace, environment
<1>8. CASE \E r, n \in Requests :
              \/ \E days \in Spans : Amend(r, n, days)
              \/ \E u \in Accounts : Continue(r, n, u) \/ ContinueChange(r, n, u)
  <2>1. CASE \E r, n \in Requests, u \in Accounts : ContinueChange(r, n, u)
    BY <2>1 DEF ContinueChange, environment
  <2>2. CASE \E r, n \in Requests : \/ \E days \in Spans : Amend(r, n, days)
                                    \/ \E u \in Accounts : Continue(r, n, u)
    BY <1>7, <2>2 DEF Amend, Continue
  <2> QED
    BY <1>8, <2>1, <2>2
<1>2. CASE \E k \in Keys : Reject(k) \/ Forward(k) \/ Grant(k) \/ GrantChange(k)
  BY <1>2 DEF Reject, Forward, Grant, GrantChange, environment
<1>3. CASE \E h \in Handlers : CommitRebind(h) \/ AbandonRebind(h)
  BY <1>3 DEF CommitRebind, AbandonRebind, environment
<1>4. CASE \/ \E k \in CorrectionKeys, e \in Entitlements, n \in Amounts : Correct(k, e, n)
           \/ \E q \in ledger : Reverse(q)
  BY <1>4 DEF Correct, Reverse, environment
<1>5. CASE \/ \E s \in Stages : CloseOffice(s) \/ \E u \in Accounts : Appoint(s, u)
           \/ \E u \in Accounts : ChangeAccount(u)
  BY <1>5 DEF CloseOffice, Appoint, ChangeAccount
<1> QED
  BY <1>1, <1>2, <1>3, <1>4, <1>5, <1>6, <1>8 DEF Next

LEMMA PayrollSame ==
    ASSUME PayrollInd, UNCHANGED payroll
    PROVE  PayrollInd'
BY DEF PayrollInd, PayrollTypes, RegistersKept, ReceiptsKept, WorkKept, Writable, Exact, Prepared, Versions, InForce,
       Superseded, payroll

-----------------------------------------------------------------------------
(* What a snapshot reads *)

LEMMA LinesAre ==
    ASSUME UseGood, NEW period
    PROVE  Lines(period) = {l \in Granted \X Days : l[2] \in Taken(l[1]) \cap period}
<1>1. TypeOK /\ UseKept
  BY DEF UseGood, LedgerGood, TypeInv
<1>2. \A r \in Requests : Absence(r) /\ request[r].status = "approved" <=> r \in Granted
  BY DEF Granted, Standing
<1>3. \A r \in Granted : Taken(r) \subseteq request[r].days /\ Taken(r) \subseteq Days /\ r \in Requests
  BY <1>1, TakenType DEF UseKept, Granted, Standing
<1>4. ASSUME NEW l \in Lines(period) PROVE l \in Granted \X Days /\ l[2] \in Taken(l[1]) \cap period
  <2>1. PICK r \in Requests : r \in Granted /\ \E d \in Taken(r) \cap period : l = <<r, d>>
    BY <1>2 DEF Lines, GrantedIn
  <2> QED
    BY <1>3, <2>1
<1>5. ASSUME NEW r \in Granted, NEW d \in Taken(r) \cap period PROVE <<r, d>> \in Lines(period)
  <2>1. r \in {q \in GrantedIn(period) : Absence(q)}
    BY <1>2, <1>3 DEF GrantedIn
  <2> QED
    BY <2>1 DEF Lines
<1> QED
  BY <1>4, <1>5

\* What is granted of a period gives each of its days to one application.
LEMMA LinesAreExact ==
    ASSUME UseGood, NEW period
    PROVE  Exact(period, Lines(period))
<1>1. NoDayTwice
  BY DEF UseGood, LedgerGood, LeaveIsCovered
<1>2. \A l \in Lines(period) : /\ l = <<l[1], l[2]>> /\ l[1] \in Standing
                                /\ l[2] \in Taken(l[1]) /\ l[2] \in period
  BY LinesAre DEF Granted
<1>3. ASSUME NEW l \in Lines(period), NEW m \in Lines(period), l[2] = m[2] PROVE l = m
  <2>1. l[1] = m[1]
    BY <1>1, <1>2, <1>3 DEF NoDayTwice
  <2> QED
    BY <1>2, <1>3, <2>1
<1> QED
  BY <1>2, <1>3 DEF Exact

LEMMA SnapshotType ==
    ASSUME UseGood, NEW period
    PROVE  Snapshot(period) \in [lines: SUBSET (Requests \X Days), grants: SUBSET (Requests \X (Requests \cup {None}))]
<1>1. TypeOK
  BY DEF UseGood, LedgerGood, TypeInv
<1>2. Lines(period) \subseteq Requests \X Days
  BY LinesAre DEF Granted, Standing
<1>3. ASSUME NEW r \in Requests PROVE ChangedBy(r) \in Requests \cup {None}
  <2>1. effects[r] \in Seq(Effect)
    BY <1>1 DEF TypeOK
  <2> DEFINE s == effects[r]
  <2>2. s \in Seq(Effect) /\ ChangedBy(r) = IF s = <<>> THEN None ELSE s[Len(s)].by
    BY <2>1 DEF ChangedBy, Latest
  <2> HIDE DEF s
  <2>3. s # <<>> => s[Len(s)] \in Effect
    BY <2>2
  <2> QED
    BY <2>2, <2>3 DEF Effect
<1>4. \A r \in GrantedIn(period) : r \in Requests
  BY DEF GrantedIn
<1> QED
  BY <1>2, <1>3, <1>4 DEF Snapshot

-----------------------------------------------------------------------------
(* The calls *)

LEMMA PrepareKeeps ==
    ASSUME UseGood, PayrollInd, NEW h \in Exchanges, NEW b \in Batches, NEW u \in Accounts, NEW period \in Periods,
           Prepare(h, b, u, period)
    PROVE  PayrollInd'
<1> DEFINE last == Versions(period) \cap InForce
<1>1. PICK row : row = [period |-> period, version |-> Cardinality(Versions(period)) + 1,
                        supersedes |-> IF last = {} THEN None ELSE CHOOSE c \in last : TRUE,
                        by |-> u, snapshot |-> Snapshot(period)]
  OBVIOUS
<1>2. PICK task : task = [id |-> b, by |-> u, row |-> row]
  OBVIOUS
<1>3. /\ work' = Inserted(work, h, task) /\ DOMAIN work = {} /\ UNCHANGED <<register, receipt>>
      /\ \A c \in Prepared : register[c].period \cap period # {} => register[c].period = period
  BY <1>1, <1>2 DEF Prepare, LockFree
<1>4. DOMAIN work' = {h} /\ work'[h] = task
  BY <1>3 DEF Inserted
<1>5. row \in Row /\ row # None
  <2>1. last \subseteq Batches /\ (last # {} => (CHOOSE c \in last : TRUE) \in last)
    BY DEF PayrollInd, PayrollTypes, Versions, Prepared
  <2>2. Cardinality(Versions(period)) \in Nat
    BY FS_Subset, FS_CardinalityType DEF PayrollInd, PayrollTypes, Versions
  <2> QED
    BY <1>1, <2>1, <2>2, SnapshotType, PeriodsAssumption DEF Row
<1>6. row.period = period /\ row.snapshot.lines = Lines(period)
      /\ row.supersedes = IF last = {} THEN None ELSE CHOOSE c \in last : TRUE
  BY <1>1 DEF Snapshot
<1>7. task.id = b /\ task.by = u /\ task.row = row
  BY <1>2
<1>8. Versions(row.period)' = Versions(row.period) /\ InForce' = InForce /\ Prepared' = Prepared
  BY <1>3 DEF Versions, InForce, Superseded, Prepared
<1>9. Writable(row)
  <2>1. last = Versions(row.period) \cap InForce
    BY <1>6
  <2> HIDE DEF last
  <2>2. IF last = {} THEN row.supersedes = None ELSE row.supersedes \in last
    BY <1>6
  <2>3. Exact(row.period, row.snapshot.lines)
    BY <1>6, LinesAreExact
  <2> QED
    BY <1>3, <1>6, <2>1, <2>2, <2>3 DEF Writable
<1>10. Writable(row)'
  BY <1>3, <1>8, <1>9 DEF Writable
<1>11. WorkKept'
  BY <1>4, <1>5, <1>7, <1>10 DEF WorkKept
<1>12. PayrollTypes'
  BY <1>3, <1>4, <1>5, <1>7 DEF PayrollInd, PayrollTypes, Prepared
<1>13. RegistersKept' /\ ReceiptsKept'
  BY <1>3 DEF PayrollInd, RegistersKept, ReceiptsKept, Prepared, InForce, Superseded
<1> QED
  BY <1>11, <1>12, <1>13 DEF PayrollInd

LEMMA AcknowledgeKeeps ==
    ASSUME PayrollInd, NEW h \in Exchanges, NEW b \in Batches, NEW u \in Accounts, Acknowledge(h, b, u)
    PROVE  PayrollInd'
<1>0. PICK task : task = [id |-> b, by |-> u, row |-> None]
  OBVIOUS
<1>1. /\ work' = Inserted(work, h, task) /\ DOMAIN work = {} /\ UNCHANGED <<register, receipt>>
      /\ b \in InForce /\ register[b].by # u
  BY <1>0 DEF Acknowledge, LockFree
<1>2. DOMAIN work' = {h} /\ work'[h] = task
  BY <1>1 DEF Inserted
<1>3. task.id = b /\ task.by = u /\ task.row = None
  BY <1>0
<1>4. InForce' = InForce
  BY <1>1 DEF InForce, Superseded, Prepared
<1>5. WorkKept'
  BY <1>1, <1>2, <1>3, <1>4 DEF WorkKept
<1>6. PayrollTypes'
  BY <1>1, <1>2, <1>3 DEF PayrollInd, PayrollTypes, Prepared
<1>7. RegistersKept' /\ ReceiptsKept'
  BY <1>1 DEF PayrollInd, RegistersKept, ReceiptsKept, Prepared, InForce, Superseded
<1> QED
  BY <1>5, <1>6, <1>7 DEF PayrollInd

\* The end of a call leaves no other in progress.
LEMMA EndOfCall ==
    ASSUME WorkKept, NEW h \in DOMAIN work, work' = Restrict(work, DOMAIN work \ {h})
    PROVE  DOMAIN work' = {} /\ WorkKept'
<1>1. DOMAIN work' = {}
  BY DEF Restrict, WorkKept
<1> QED
  BY <1>1 DEF WorkKept

LEMMA FailKeeps ==
    ASSUME PayrollInd, NEW h, Fail(h)
    PROVE  PayrollInd'
<1>1. DOMAIN work' = {} /\ WorkKept' /\ UNCHANGED <<register, receipt>>
  BY EndOfCall DEF Fail, PayrollInd
<1>2. PayrollTypes'
  BY <1>1 DEF PayrollInd, PayrollTypes, Prepared
<1>3. RegistersKept' /\ ReceiptsKept'
  BY <1>1 DEF PayrollInd, RegistersKept, ReceiptsKept, Prepared, InForce, Superseded
<1> QED
  BY <1>1, <1>2, <1>3 DEF PayrollInd

LEMMA ReceiptKeeps ==
    ASSUME PayrollInd, NEW h, CommitReceipt(h)
    PROVE  PayrollInd'
<1>1. /\ h \in DOMAIN work /\ work[h].row = None /\ UNCHANGED register
      /\ receipt' = Inserted(receipt, work[h].id, work[h].by)
      /\ DOMAIN work' = {} /\ WorkKept'
  BY EndOfCall DEF CommitReceipt, Receiving, PayrollInd
<1>2. PayrollTypes' /\ RegistersKept'
  BY <1>1 DEF PayrollInd, PayrollTypes, RegistersKept, Prepared, InForce, Superseded
<1> DEFINE b == work[h].id
<1>3. b \in Prepared /\ work[h].by # register[b].by
  BY <1>1 DEF PayrollInd, WorkKept, InForce
<1>4. DOMAIN receipt' = DOMAIN receipt \cup {b} /\ receipt'[b] = work[h].by
      /\ \A c \in DOMAIN receipt : c # b => receipt'[c] = receipt[c]
  BY <1>1 DEF Inserted
<1> HIDE DEF b
<1>5. \A c \in DOMAIN receipt' : c \in Prepared' /\ receipt'[c] # register'[c].by
  BY <1>1, <1>3, <1>4 DEF PayrollInd, ReceiptsKept, Prepared
<1> QED
  BY <1>1, <1>2, <1>5 DEF PayrollInd, ReceiptsKept

LEMMA RegisterKeeps ==
    ASSUME PayrollInd, NEW h, CommitRegister(h)
    PROVE  PayrollInd'
<1>1. PICK id \in Batches, row \in Row :
          /\ h \in DOMAIN work /\ id = work[h].id /\ row = work[h].row /\ row # None /\ id \notin Prepared
          /\ register' = Inserted(register, id, row) /\ UNCHANGED receipt
          /\ DOMAIN work' = {} /\ WorkKept'
  <2>1. h \in DOMAIN work /\ work[h].row # None /\ work[h].id \in Batches /\ work[h].row \in Row
    BY DEF CommitRegister, PayrollInd, PayrollTypes
  <2>2. DOMAIN work' = {} /\ WorkKept'
    BY EndOfCall DEF CommitRegister, PayrollInd
  <2> QED
    BY <2>1, <2>2 DEF CommitRegister
<1>2. /\ Prepared' = Prepared \cup {id} /\ register'[id] = row
      /\ \A c \in Prepared : c # id /\ register'[c] = register[c]
  BY <1>1 DEF Inserted, Prepared
<1>3. Writable(row)
  BY <1>1 DEF PayrollInd, WorkKept
<1>4. id # None /\ row.supersedes \in Prepared \cup {None}
  BY <1>3, PeriodsAssumption DEF Writable, Versions
<1>5. \A c \in Prepared : register[c].supersedes # id
  BY <1>1, <1>4 DEF PayrollInd, RegistersKept
<1>6. InForce' = (InForce \ {row.supersedes}) \cup {id}
  <2>1. \A c \in Prepared : Superseded(c)' <=> Superseded(c) \/ c = row.supersedes
    BY <1>2 DEF Superseded
  <2>2. ~Superseded(id)'
    BY <1>1, <1>2, <1>4, <1>5 DEF Superseded
  <2> QED
    BY <1>2, <2>1, <2>2 DEF InForce
<1>7. PayrollTypes'
  BY <1>1, <1>2, FS_AddElement DEF PayrollInd, PayrollTypes
<1>8. ReceiptsKept'
  BY <1>1, <1>2 DEF PayrollInd, ReceiptsKept
<1>9. \A c \in InForce : register[c].period = row.period => c = row.supersedes
  <2> SUFFICES ASSUME NEW c \in InForce, register[c].period = row.period PROVE c = row.supersedes
    OBVIOUS
  <2>1. c \in Versions(row.period) \cap InForce
    BY DEF InForce, Versions
  <2>2. row.supersedes \in Versions(row.period) \cap InForce
    BY <1>3, <2>1 DEF Writable
  <2> QED
    BY <2>1, <2>2 DEF PayrollInd, RegistersKept, Versions
<1>10. \A c \in InForce : c \in Prepared
  BY DEF InForce
<1>11. \A b, c \in InForce' : register'[b].period = register'[c].period => b = c
  BY <1>2, <1>6, <1>9, <1>10 DEF PayrollInd, RegistersKept
<1>12. \A b, c \in Prepared' :
          register'[b].period \cap register'[c].period # {} => register'[b].period = register'[c].period
  BY <1>2, <1>3 DEF Writable, PayrollInd, RegistersKept
<1>13. \A b \in Prepared' : /\ register'[b].supersedes \in Prepared' \cup {None}
                            /\ Exact(register'[b].period, register'[b].snapshot.lines)
  BY <1>2, <1>3, <1>4 DEF Writable, PayrollInd, RegistersKept
<1>14. RegistersKept'
  BY <1>11, <1>12, <1>13 DEF RegistersKept, Exact
<1> QED
  BY <1>1, <1>7, <1>8, <1>14 DEF PayrollInd

LEMMA PayrollStep ==
    ASSUME UseGood, PayrollInd, [PayrollNext]_vars
    PROVE  UseGood' /\ PayrollInd'
<1>1. CASE Next
  BY <1>1, UseStep, WorkflowKeepsPayroll, PayrollSame
<1>2. CASE UNCHANGED vars
  BY <1>2, UseStep, PayrollSame DEF vars
<1>3. CASE \E h \in Exchanges : \/ \E b \in Batches, u \in Accounts :
                                      \/ \E period \in Periods : Prepare(h, b, u, period)
                                      \/ Acknowledge(h, b, u)
                                \/ CommitRegister(h) \/ CommitReceipt(h) \/ Fail(h)
  <2>1. UNCHANGED workflow
    BY <1>3 DEF Prepare, Acknowledge, CommitRegister, CommitReceipt, Fail
  <2>2. UseGood'
    BY <2>1, UseStep
  <2>3. PayrollInd'
    BY <1>3, PrepareKeeps, AcknowledgeKeeps, RegisterKeeps, ReceiptKeeps, FailKeeps
  <2> QED
    BY <2>2, <2>3
<1> QED
  BY <1>1, <1>2, <1>3 DEF PayrollNext

LEMMA PayrollInit ==
    ASSUME Init
    PROVE  UseGood /\ PayrollInd
<1>1. register = <<>> /\ receipt = <<>> /\ work = <<>>
  BY DEF Init
<1>2. DOMAIN register = {} /\ DOMAIN receipt = {} /\ DOMAIN work = {}
  BY <1>1
<1>3. Prepared = {} /\ InForce = {}
  BY <1>2 DEF Prepared, InForce
<1> QED
  BY <1>2, <1>3, UseInit, FS_EmptySet DEF PayrollInd, PayrollTypes, RegistersKept, ReceiptsKept, WorkKept

LEMMA PayrollHolds == PayrollSpec => [](UseGood /\ PayrollInd)
<1>1. Init => UseGood /\ PayrollInd
  BY PayrollInit
<1>2. UseGood /\ PayrollInd /\ [PayrollNext]_vars => (UseGood /\ PayrollInd)'
  BY PayrollStep
<1> QED
  BY <1>1, <1>2, PTL DEF PayrollSpec

-----------------------------------------------------------------------------
(* What the registers add up to *)

\* The days of the year of e that these applications take.
Absences(rs, e) == {l \in rs \X Days : l[2] \in Takes[l[1]] /\ YearOf[l[2]] = e}

LEMMA AbsencesOfOne ==
    ASSUME NEW rs \in SUBSET Requests, NEW r \in rs, Takes[r] \in SUBSET Days, NEW e,
           IsFiniteSet(Absences(rs \ {r}, e))
    PROVE  /\ IsFiniteSet(Absences(rs, e))
           /\ Cardinality(Absences(rs, e)) = Cardinality(Absences(rs \ {r}, e)) + Charge(Takes[r], e)
<1> DEFINE S == Absences(rs \ {r}, e)
           D == {d \in Takes[r] : YearOf[d] = e}
           T == {r} \X D
<1>1. IsFiniteSet(D) /\ Cardinality(D) = Charge(Takes[r], e)
  <2>1. IsFiniteSet(Days)
    BY FS_Interval, BoundsAssumption DEF Days
  <2> QED
    BY <2>1, FS_Subset DEF Charge
<1>2. Absences(rs, e) = S \cup T /\ S \cap T = {}
  <2>1. ASSUME NEW l \in Absences(rs, e) PROVE l \in S \cup T
    BY DEF Absences
  <2>2. ASSUME NEW l \in S \cup T PROVE l \in Absences(rs, e)
    BY DEF Absences
  <2>3. S \cap T = {}
    BY DEF Absences
  <2> QED
    BY <2>1, <2>2, <2>3
<1> HIDE DEF S, D
<1>3. IsFiniteSet(T) /\ Cardinality(T) = 1 * Cardinality(D)
  <2>1. IsFiniteSet({r}) /\ Cardinality({r}) = 1
    BY FS_Singleton
  <2> QED
    BY <1>1, <2>1, FS_Product
<1> HIDE DEF T
<1>4. IsFiniteSet(S)
  BY DEF S
<1>5. Cardinality(S) \in Nat /\ Cardinality(D) \in Nat /\ Cardinality(S \cap T) = 0
  BY <1>1, <1>2, <1>4, FS_CardinalityType, FS_EmptySet
<1>6. IsFiniteSet(S \cup T) /\ Cardinality(S \cup T) = Cardinality(S) + Cardinality(T) - Cardinality(S \cap T)
  BY <1>3, <1>4, FS_Union
<1>7. IsFiniteSet(Absences(rs, e)) /\ Cardinality(Absences(rs, e)) = Cardinality(S) + Charge(Takes[r], e)
  BY <1>1, <1>2, <1>3, <1>5, <1>6
<1> QED
  BY <1>7 DEF S

\* As many as their charges come to.
LEMMA AbsencesCounted ==
    ASSUME NEW rs \in SUBSET Requests, IsFiniteSet(rs), \A r \in rs : Takes[r] \in SUBSET Days, NEW e
    PROVE  Cardinality(Absences(rs, e)) = UseOf(Takes, rs, e)
<1> DEFINE G == {T \in SUBSET rs : IsFiniteSet(Absences(T, e)) /\ Cardinality(Absences(T, e)) = UseOf(Takes, T, e)}
<1>1. ASSUME NEW T \in SUBSET rs, \A U \in SUBSET T : U # T => U \in G PROVE T \in G
  <2>1. CASE T = {}
    <3>1. Absences(T, e) = {}
      BY <2>1 DEF Absences
    <3>2. UseOf(Takes, T, e) = 0
      BY <2>1, SumEmpty DEF UseOf
    <3> QED
      BY <3>1, <3>2, FS_EmptySet
  <2>2. CASE T # {}
    <3>1. PICK r : r \in T
      BY <2>2
    <3> DEFINE U == T \ {r}
    <3>2. U \in G
      BY <1>1, <3>1
    <3>3. IsFiniteSet(U) /\ r \notin U /\ T = U \cup {r}
      BY <3>1, FS_Subset
    <3>4. IsFiniteSet(Absences(U, e)) /\ Cardinality(Absences(U, e)) = UseOf(Takes, U, e)
      BY <3>2
    <3>5. /\ IsFiniteSet(Absences(T, e))
          /\ Cardinality(Absences(T, e)) = Cardinality(Absences(U, e)) + Charge(Takes[r], e)
      BY <3>1, <3>4, AbsencesOfOne
    <3> HIDE DEF U
    <3>6. \A x \in U : Takes[x] \in SUBSET Days /\ Takes[x] = Takes[x]
      BY <3>3
    <3>7. UseOf(Takes, U \cup {r}, e) = UseOf(Takes, U, e) + Charge(Takes[r], e)
      BY <3>1, <3>3, <3>6, UseAdds
    <3> QED
      BY <3>3, <3>4, <3>5, <3>7
  <2> QED
    BY <2>1, <2>2
<1> HIDE DEF G
<1>2. rs \in G
  BY <1>1, SubsetInduction
<1> QED
  BY <1>2 DEF G

LEMMA DebitsFollow ==
    ASSUME UseGood, PayrollInd
    PROVE  DebitsAreUse
<1> DEFINE upToDate == {b \in InForce : register[b].snapshot = Snapshot(register[b].period)}
<1> SUFFICES ASSUME UNION {register[b].period : b \in upToDate} = Days, NEW e \in Entitlements
             PROVE  Cardinality({l \in LinesOf(upToDate) : YearOf[l[2]] = e}) =
                       -Total({p \in ledger : p.kind \in {"use", "reversal"} /\ p.ref \in Requests}, e)
  BY DEF DebitsAreUse
<1>1. TypeOK /\ UseKept
  BY DEF UseGood, LedgerGood, TypeInv
<1>2. \A r \in Granted : r \in Requests /\ Takes[r] = Taken(r) /\ Takes[r] \in SUBSET Days
  BY <1>1, TakenType DEF Takes, Granted, Standing
<1>3. \A b \in upToDate : register[b].snapshot.lines = Lines(register[b].period)
  BY DEF Snapshot
<1>4. \A b \in upToDate : Lines(register[b].period) =
                             {l \in Granted \X Days : l[2] \in Taken(l[1]) \cap register[b].period}
  BY LinesAre
<1>5. LinesOf(upToDate) = {l \in Granted \X Days : l[2] \in Taken(l[1])}
  <2>1. ASSUME NEW l \in LinesOf(upToDate) PROVE l \in Granted \X Days /\ l[2] \in Taken(l[1])
    BY <1>3, <1>4 DEF LinesOf
  <2>2. ASSUME NEW l \in Granted \X Days, l[2] \in Taken(l[1]) PROVE l \in LinesOf(upToDate)
    <3>1. PICK b \in upToDate : l[2] \in register[b].period
      OBVIOUS
    <3>2. l \in Lines(register[b].period)
      BY <1>4, <2>2, <3>1
    <3> QED
      BY <1>3, <3>2 DEF LinesOf
  <2> QED
    BY <2>1, <2>2
<1> HIDE DEF upToDate
<1>6. {l \in LinesOf(upToDate) : YearOf[l[2]] = e} = Absences(Granted, e)
  BY <1>2, <1>5 DEF Absences
<1>7. Cardinality(Absences(Granted, e)) = GrantedUse(e)
  <2>1. Granted \in SUBSET Requests /\ IsFiniteSet(Granted)
    BY <1>1, <1>2 DEF UseKept
  <2> QED
    BY <1>2, <2>1, AbsencesCounted, GrantedUseIs
<1>8. Total(Moved, e) = -GrantedUse(e) /\ GrantedUse(e) \in Int
  <2>1. UseOf(Takes, Granted, e) \in Int
    BY <1>1, <1>2, UseIsInt DEF UseKept
  <2> QED
    BY <1>1, <2>1, GrantedUseIs DEF UseKept
<1>9. \A g \in Int : g = -(-g)
  OBVIOUS
<1> QED
  BY <1>6, <1>7, <1>8, <1>9 DEF Moved

LEMMA OneInstruction ==
    ASSUME PayrollInd
    PROVE  OneInstructionPerDay
<1> SUFFICES ASSUME NEW b \in InForce, NEW c \in InForce, NEW l \in register[b].snapshot.lines,
                    NEW m \in register[c].snapshot.lines, l[2] = m[2]
             PROVE  b = c /\ l = m
  BY DEF OneInstructionPerDay
<1>1. b \in Prepared /\ c \in Prepared
  BY DEF InForce
<1>2. Exact(register[b].period, register[b].snapshot.lines) /\ Exact(register[c].period, register[c].snapshot.lines)
  BY <1>1 DEF PayrollInd, RegistersKept
<1>3. l[2] \in register[b].period \cap register[c].period
  BY <1>2 DEF Exact
<1>4. b = c
  BY <1>1, <1>3 DEF PayrollInd, RegistersKept
<1> QED
  BY <1>2, <1>4 DEF Exact

-----------------------------------------------------------------------------
(* Results *)

\* Use follows what is granted beside the payroll calls as it does without them.
THEOREM UseIsExactWithPayroll == PayrollSpec => []UseFollowsGrant
<1>1. UseGood => UseFollowsGrant
  BY UseSuffices
<1> QED
  BY <1>1, PayrollHolds, PTL

\* What Salary Unit is told is what was granted, once and to the day: no day is in
\* two applications or in two registers in force, registers that are up to date and
\* cover all days debit what the ledger has used, and a receipt is another officer's
\* and for the version in force.
THEOREM RegistersTellWhatIsGranted == PayrollSpec => []RegistersAgree
<1>1. UseGood /\ PayrollInd => RegistersAgree
  <2> SUFFICES ASSUME UseGood, PayrollInd PROVE RegistersAgree
    OBVIOUS
  <2>1. NoDayTwice
    BY DEF UseGood, LedgerGood, LeaveIsCovered
  <2>2. ReceiptsAreForTheLatest
    BY DEF PayrollInd, ReceiptsKept, WorkKept, ReceiptsAreForTheLatest, Receiving
  <2> QED
    BY <2>1, <2>2, DebitsFollow, OneInstruction DEF RegistersAgree
<1> QED
  BY <1>1, PayrollHolds, PTL
=============================================================================
