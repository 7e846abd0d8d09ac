---------------------------- MODULE SignInProofs ----------------------------
(***************************************************************************)
(* What SignIn guarantees with any number of accounts, sessions, requests  *)
(* in progress, passwords and links.                                       *)
(***************************************************************************)
EXTENDS SignIn, FiniteSetTheorems, TLAPS

-----------------------------------------------------------------------------
(* Types *)

LEMMA OpFields ==
    ASSUME TypeOK, NEW h \in Handlers
    PROVE  /\ op[h] \in Op
           /\ op[h].kind \in {"checking", "comparing", "clearing", "signing", "retiring", "opening", "rereading",
                              "ending", "setting", "unlocking", "closing", "renewing", "resetting"} => op[h].acct \in Accounts
           /\ op[h].kind \in {"checking", "comparing"} => op[h].right \in BOOLEAN
           /\ op[h].kind = "renewing" => op[h].session \in Sessions
           /\ op[h].kind = "resetting" => op[h].link \in 1..MaxLinks
<1>1. op[h] \in Op
  BY DEF TypeOK
<1> QED
  BY <1>1 DEF Op, Idle

\* What a request does next is one of the things a request does.
LEMMA GoType ==
    ASSUME TypeOK, NEW h \in Handlers, NEW state \in Op, Go(h, state)
    PROVE  op' \in [Handlers -> Op]
BY DEF TypeOK, Go

LEMMA OpsMade ==
    ASSUME NEW a \in Accounts
    PROVE  /\ Idle \in Op
           /\ \A right \in BOOLEAN, kind \in {"checking", "comparing"} : [kind |-> kind, acct |-> a, right |-> right] \in Op
           /\ \A must \in BOOLEAN : [kind |-> "clearing", acct |-> a, must |-> must] \in Op
           /\ \A kind \in {"retiring", "opening", "rereading", "ending", "setting", "unlocking", "closing"} :
                 [kind |-> kind, acct |-> a] \in Op
           /\ \A s \in Sessions : [kind |-> "renewing", acct |-> a, session |-> s] \in Op
           /\ \A k \in 1..MaxLinks : [kind |-> "resetting", acct |-> a, link |-> k] \in Op
BY DEF Op

LEMMA WriteType ==
    ASSUME TypeOK, NEW a \in Accounts, NEW by \in {"owner", "temporary", "retired"}, NEW must \in BOOLEAN,
           Write(a, by, must)
    PROVE  /\ account' \in [Accounts -> Account] /\ passwords' \in 0..MaxPasswords
           /\ account'[a].by = by /\ account'[a].must = must
           /\ \A b \in Accounts : b # a => account'[b] = account[b]
<1>1. account[a] \in Account /\ account \in [Accounts -> Account] /\ passwords \in 0..MaxPasswords
  BY DEF TypeOK
<1>2. passwords + 1 \in 0..MaxPasswords /\ passwords' = passwords + 1
  BY <1>1, BoundsAssumption DEF Write
<1>3. [account[a] EXCEPT !.by = by, !.pw = passwords + 1, !.must = must] \in Account
  BY <1>1, <1>2 DEF Account
<1> QED
  BY <1>1, <1>2, <1>3 DEF Write, Account

LEMMA EndedType ==
    ASSUME TypeOK, NEW a, EndSessions(a)
    PROVE  session' \in [Sessions -> Accounts \cup {None}]
BY DEF TypeOK, EndSessions

LEMMA TypeStep ==
    ASSUME TypeOK, [Next]_vars
    PROVE  TypeOK'
<1> USE BoundsAssumption
<1>1. ASSUME NEW h \in Handlers, NEW a \in Accounts,
             Google(h, a) \/ Reset(h, a) \/ AdminReset(h, a) \/ \E right \in BOOLEAN : Login(h, a, right)
      PROVE  TypeOK'
  <2>1. CASE Google(h, a)
    <3>1. account[a].must \in BOOLEAN
      BY DEF TypeOK, Account
    <3>2. op' \in [Handlers -> Op]
      BY <2>1, <3>1, OpsMade, GoType DEF Google
    <3> QED
      BY <2>1, <3>2 DEF Google, TypeOK
  <2>2. CASE Reset(h, a)
    <3>1. link[a] \in 1..MaxLinks
      BY <2>2 DEF Reset, TypeOK
    <3>2. op' \in [Handlers -> Op]
      BY <2>2, <3>1, OpsMade, GoType DEF Reset
    <3> QED
      BY <2>2, <3>2 DEF Reset, TypeOK
  <2>3. CASE AdminReset(h, a)
    <3>1. op' \in [Handlers -> Op]
      BY <2>3, OpsMade, GoType DEF AdminReset
    <3>2. account' \in [Accounts -> Account] /\ passwords' \in 0..MaxPasswords
      BY <2>3, WriteType DEF AdminReset
    <3> QED
      BY <2>3, <3>1, <3>2 DEF AdminReset, TypeOK
  <2>4. ASSUME NEW right \in BOOLEAN, Login(h, a, right) PROVE TypeOK'
    <3>1. op' \in [Handlers -> Op]
      BY <2>4, OpsMade, GoType DEF Login
    <3> QED
      BY <2>4, <3>1 DEF Login, TypeOK
  <2> QED
    BY <1>1, <2>1, <2>2, <2>3, <2>4
<1>2. ASSUME NEW h \in Handlers, NEW s \in Sessions, OpenSession(h, s) \/ Refresh(h, s) \/ ChangePassword(h, s)
      PROVE  TypeOK'
  <2>1. CASE OpenSession(h, s)
    <3>1. op[h].acct \in Accounts
      BY <2>1, OpFields DEF OpenSession
    <3>2. op' \in [Handlers -> Op]
      BY <2>1, <3>1, OpsMade, GoType DEF OpenSession, Done
    <3> QED
      BY <2>1, <3>1, <3>2 DEF OpenSession, TypeOK
  <2>2. CASE Refresh(h, s) \/ ChangePassword(h, s)
    <3>1. session[s] \in Accounts
      BY <2>2 DEF Refresh, ChangePassword, Authenticated, TypeOK
    <3>2. op' \in [Handlers -> Op]
      BY <2>2, <3>1, OpsMade, GoType DEF Refresh, ChangePassword
    <3> QED
      BY <2>2, <3>2 DEF Refresh, ChangePassword, TypeOK
  <2> QED
    BY <1>2, <2>1, <2>2
<1>3. ASSUME NEW h \in Handlers, CheckLock(h) \/ Compare(h) \/ GoogleClear(h) \/ Reread(h) PROVE TypeOK'
  <2>1. op[h].acct \in Accounts /\ (op[h].kind \in {"checking", "comparing"} => op[h].right \in BOOLEAN)
    BY <1>3, OpFields DEF CheckLock, Compare, GoogleClear, Reread
  <2>2. op' \in [Handlers -> Op]
    BY <1>3, <2>1, OpsMade, GoType DEF CheckLock, Compare, GoogleClear, Reread, Done
  <2>3. failures' \in [Accounts -> Nat]
    BY <1>3, <2>1 DEF CheckLock, Compare, GoogleClear, Reread, TypeOK
  <2> QED
    BY <1>3, <2>2, <2>3 DEF CheckLock, Compare, GoogleClear, Reread, TypeOK
<1>4. ASSUME NEW h \in Handlers, Retire(h) \/ ChangeSets(h) PROVE TypeOK'
  <2>1. op[h].acct \in Accounts
    BY <1>4, OpFields DEF Retire, ChangeSets
  <2>2. op' \in [Handlers -> Op]
    BY <1>4, <2>1, OpsMade, GoType DEF Retire, ChangeSets
  <2>3. account' \in [Accounts -> Account] /\ passwords' \in 0..MaxPasswords
    BY <1>4, <2>1, WriteType DEF Retire, ChangeSets
  <2> QED
    BY <1>4, <2>2, <2>3 DEF Retire, ChangeSets, TypeOK
<1>5. ASSUME NEW h \in Handlers, Invalidate(h) PROVE TypeOK'
  <2>1. op[h].acct \in Accounts /\ op[h].session \in Sessions
    BY <1>5, OpFields DEF Invalidate
  <2>2. op' \in [Handlers -> Op]
    BY <1>5, <2>1, OpsMade, GoType DEF Invalidate
  <2>3. session' \in [Sessions -> Accounts \cup {None}]
    BY <1>5, <2>1 DEF Invalidate, TypeOK
  <2> QED
    BY <1>5, <2>2, <2>3 DEF Invalidate, TypeOK
<1>6. ASSUME NEW h \in Handlers, ChangeEnds(h) \/ AdminEnds(h) PROVE TypeOK'
  <2>1. op[h].acct \in Accounts
    BY <1>6, OpFields DEF ChangeEnds, AdminEnds
  <2>2. op' \in [Handlers -> Op]
    BY <1>6, <2>1, OpsMade, GoType DEF ChangeEnds, AdminEnds, Done
  <2>3. session' \in [Sessions -> Accounts \cup {None}]
    BY <1>6, EndedType DEF ChangeEnds, AdminEnds
  <2> QED
    BY <1>6, <2>2, <2>3 DEF ChangeEnds, AdminEnds, TypeOK
<1>7. ASSUME NEW h \in Handlers, ResetCommits(h) PROVE TypeOK'
  <2>1. op[h].acct \in Accounts /\ op[h].link \in 1..MaxLinks
    BY <1>7, OpFields DEF ResetCommits
  <2>2. op' \in [Handlers -> Op]
    BY <1>7, <2>1, OpsMade, GoType DEF ResetCommits, Done
  <2>3. account' \in [Accounts -> Account] /\ passwords' \in 0..MaxPasswords
    BY <1>7, <2>1, WriteType DEF ResetCommits
  <2>4. session' \in [Sessions -> Accounts \cup {None}]
    BY <1>7, EndedType DEF ResetCommits
  <2>5. resets' \in [1..MaxLinks -> Nat]
    <3>1. resets \in [1..MaxLinks -> Nat] /\ resets[op[h].link] + 1 \in Nat
      BY <2>1 DEF TypeOK
    <3> QED
      BY <1>7, <3>1 DEF ResetCommits
  <2>6. link' \in [Accounts -> (1..MaxLinks) \cup {None}]
    BY <1>7, <2>1 DEF ResetCommits, TypeOK
  <2> QED
    BY <1>7, <2>2, <2>3, <2>4, <2>5, <2>6 DEF ResetCommits, TypeOK
<1>8. ASSUME NEW h \in Handlers, AdminUnlocks(h) \/ Stop(h) PROVE TypeOK'
  <2>1. Idle \in Op
    BY DEF Op
  <2>2. CASE AdminUnlocks(h)
    <3>1. op[h].acct \in Accounts
      BY <2>2, OpFields DEF AdminUnlocks
    <3>2. op' \in [Handlers -> Op]
      BY <2>2, <3>1, OpsMade, GoType DEF AdminUnlocks
    <3> QED
      BY <2>2, <3>1, <3>2 DEF AdminUnlocks, TypeOK
  <2>3. CASE Stop(h)
    <3>1. op' \in [Handlers -> Op]
      BY <2>1, <2>3, GoType DEF Stop, Done
    <3> QED
      BY <2>3, <3>1 DEF Stop, TypeOK
  <2> QED
    BY <1>8, <2>2, <2>3
<1>9. ASSUME NEW a \in Accounts, Forgot(a) \/ ExpireLink(a) \/ Age(a) PROVE TypeOK'
  <2>1. CASE Forgot(a)
    <3>1. links + 1 \in 1..MaxLinks /\ links + 1 \in 0..MaxLinks
      BY <2>1 DEF Forgot, TypeOK
    <3> QED
      BY <2>1, <3>1 DEF Forgot, TypeOK
  <2>2. CASE ExpireLink(a)
    BY <2>2 DEF ExpireLink, TypeOK
  <2>3. CASE Age(a)
    <3>1. failures[a] \in Nat /\ failures[a] - 1 \in Nat
      BY <2>3 DEF Age, TypeOK
    <3> QED
      BY <2>3, <3>1 DEF Age, TypeOK
  <2> QED
    BY <1>9, <2>1, <2>2, <2>3
<1>10. ASSUME NEW a \in Accounts, SetActive(a) PROVE TypeOK'
  <2>1. [account[a] EXCEPT !.active = ~@] \in Account
    BY DEF TypeOK, Account
  <2> QED
    BY <1>10, <2>1 DEF SetActive, TypeOK
<1>11. ASSUME NEW s \in Sessions, CloseSession(s) PROVE TypeOK'
  BY <1>11 DEF CloseSession, TypeOK
<1>12. CASE UNCHANGED vars
  BY <1>12 DEF vars, TypeOK
<1> QED
  BY <1>1, <1>2, <1>3, <1>4, <1>5, <1>6, <1>7, <1>8, <1>9, <1>10, <1>11, <1>12 DEF Next

-----------------------------------------------------------------------------
(* Temporary passwords *)

LEMMA WriteKeepsFlags ==
    ASSUME TypeOK, TemporaryIsFlagged, NEW a \in Accounts, NEW by \in {"owner", "temporary", "retired"},
           NEW must \in BOOLEAN, Write(a, by, must), by = "temporary" => must
    PROVE  TemporaryIsFlagged'
BY WriteType DEF TemporaryIsFlagged

LEMMA FlagStep ==
    ASSUME TypeOK, TemporaryIsFlagged, [Next]_vars
    PROVE  TemporaryIsFlagged'
<1>1. CASE \E h \in Handlers, a \in Accounts : AdminReset(h, a)
  BY <1>1, WriteKeepsFlags DEF AdminReset
<1>2. CASE \E h \in Handlers : Retire(h) \/ ChangeSets(h) \/ ResetCommits(h)
  <2>1. PICK h \in Handlers : Retire(h) \/ ChangeSets(h) \/ ResetCommits(h)
    BY <1>2
  <2>2. op[h].acct \in Accounts
    BY <2>1, OpFields DEF Retire, ChangeSets, ResetCommits
  <2> QED
    BY <2>1, <2>2, WriteKeepsFlags DEF Retire, ChangeSets, ResetCommits
<1>3. CASE \E a \in Accounts : SetActive(a)
  <2>1. \A b \in Accounts : account[b] \in Account /\ account'[b].by = account[b].by /\ account'[b].must = account[b].must
    BY <1>3 DEF SetActive, TypeOK, Account
  <2> QED
    BY <2>1 DEF TemporaryIsFlagged
<1>4. ASSUME UNCHANGED account PROVE TemporaryIsFlagged'
  BY <1>4 DEF TemporaryIsFlagged
<1> QED
  BY <1>1, <1>2, <1>3, <1>4 DEF Next, vars, Google, Reset, Login, OpenSession, Refresh, ChangePassword, CheckLock, Compare,
     GoogleClear, Invalidate, Reread, ChangeEnds, AdminUnlocks, AdminEnds, Stop, Forgot, ExpireLink, Age, CloseSession

-----------------------------------------------------------------------------
(* Failed attempts *)

\* Requests that found the account unlocked and have yet to compare the password.
Trying(a) == {h \in Handlers : op[h].kind = "comparing" /\ op[h].acct = a}

\* Whoever is trying may yet fail, and they were under the limit when they began.
FailuresKept ==
    \A a \in Accounts : failures[a] + Cardinality(Trying(a)) <= MaxFailed - 1 + Cardinality(Handlers)

LEMMA TryingIsFinite ==
    ASSUME NEW a
    PROVE  IsFiniteSet(Trying(a)) /\ Cardinality(Trying(a)) \in Nat /\ Cardinality(Trying(a)) <= Cardinality(Handlers)
BY FS_Subset, FS_CardinalityType, BoundsAssumption DEF Trying

\* No failure is recorded, and nobody begins to try.
LEMMA FailuresFrame ==
    ASSUME TypeOK, TypeOK', FailuresKept, \A a \in Accounts : failures'[a] <= failures[a],
           \A h \in Handlers : op'[h].kind = "comparing" => op'[h] = op[h]
    PROVE  FailuresKept'
<1> SUFFICES ASSUME NEW a \in Accounts
             PROVE  failures'[a] + Cardinality(Trying(a)') <= MaxFailed - 1 + Cardinality(Handlers)
  BY DEF FailuresKept
<1>1. Trying(a)' \subseteq Trying(a)
  BY DEF Trying
<1>2. Cardinality(Trying(a)') <= Cardinality(Trying(a)) /\ Cardinality(Trying(a)') \in Nat
  BY <1>1, TryingIsFinite, FS_Subset, FS_CardinalityType
<1>3. failures[a] \in Nat /\ failures'[a] \in Nat /\ failures'[a] <= failures[a]
  BY DEF TypeOK
<1>4. failures[a] + Cardinality(Trying(a)) <= MaxFailed - 1 + Cardinality(Handlers)
  BY DEF FailuresKept
<1>5. Cardinality(Trying(a)) \in Nat /\ Cardinality(Handlers) \in Nat /\ MaxFailed \in Nat
  BY TryingIsFinite, BoundsAssumption, FS_CardinalityType
<1> QED
  BY <1>2, <1>3, <1>4, <1>5

LEMMA CheckLockFailures ==
    ASSUME TypeOK, FailuresKept, NEW h \in Handlers, CheckLock(h)
    PROVE  FailuresKept'
<1> SUFFICES ASSUME NEW a \in Accounts
             PROVE  failures'[a] + Cardinality(Trying(a)') <= MaxFailed - 1 + Cardinality(Handlers)
  BY DEF FailuresKept
<1>1. failures' = failures /\ failures[a] \in Nat
  BY DEF CheckLock, TypeOK
<1>2. /\ Cardinality(Trying(a)') \in Nat /\ Cardinality(Trying(a)') <= Cardinality(Handlers)
      /\ Cardinality(Trying(a)) \in Nat /\ Cardinality(Handlers) \in Nat /\ MaxFailed \in Nat
  <2>1. Trying(a)' \subseteq Handlers
    BY DEF Trying
  <2> QED
    BY <2>1, TryingIsFinite, FS_Subset, FS_CardinalityType, BoundsAssumption
<1>3. CASE ~Locked(a)
  <2>1. failures[a] <= MaxFailed - 1
    BY <1>1, <1>2, <1>3 DEF Locked
  <2> QED
    BY <1>1, <1>2, <2>1
<1>4. CASE Locked(a)
  <2>1. Trying(a)' \subseteq Trying(a)
    <3>1. PICK state : op' = [op EXCEPT ![h] = state] /\ (state.kind = "comparing" => state.acct # a)
      <4>1. CASE op[h].acct = a
        BY <1>4, <4>1 DEF CheckLock, Go, Done, Idle
      <4>2. CASE op[h].acct # a /\ Locked(op[h].acct)
        BY <4>2 DEF CheckLock, Go, Done, Idle
      <4>3. CASE op[h].acct # a /\ ~Locked(op[h].acct)
        BY <4>3 DEF CheckLock, Go
      <4> QED
        BY <4>1, <4>2, <4>3
    <3> QED
      BY <3>1 DEF Trying, TypeOK
  <2>2. Cardinality(Trying(a)') <= Cardinality(Trying(a))
    BY <2>1, TryingIsFinite, FS_Subset
  <2>3. failures[a] + Cardinality(Trying(a)) <= MaxFailed - 1 + Cardinality(Handlers)
    BY DEF FailuresKept
  <2> QED
    BY <1>1, <1>2, <2>2, <2>3
<1> QED
  BY <1>3, <1>4

LEMMA CompareFailures ==
    ASSUME TypeOK, TypeOK', FailuresKept, NEW h \in Handlers, Compare(h)
    PROVE  FailuresKept'
<1>1. op[h].acct \in Accounts /\ op[h].kind = "comparing" /\ op[h].right \in BOOLEAN
  BY OpFields DEF Compare
<1>2. CASE op[h].right
  <2>1. failures' = [failures EXCEPT ![op[h].acct] = 0] /\ op' = [op EXCEPT ![h] = [kind |-> "opening", acct |-> op[h].acct]]
    BY <1>2 DEF Compare, Go
  <2>2. \A a \in Accounts : failures'[a] <= failures[a]
    BY <1>1, <2>1 DEF TypeOK
  <2>3. \A g \in Handlers : op'[g].kind = "comparing" => op'[g] = op[g]
    BY <2>1 DEF TypeOK
  <2> QED
    BY <2>2, <2>3, FailuresFrame
<1>3. CASE ~op[h].right
  <2> SUFFICES ASSUME NEW a \in Accounts
               PROVE  failures'[a] + Cardinality(Trying(a)') <= MaxFailed - 1 + Cardinality(Handlers)
    BY DEF FailuresKept
  <2>1. /\ failures' = [failures EXCEPT ![op[h].acct] = @ + 1] /\ op' = [op EXCEPT ![h] = Idle]
        /\ failures[a] \in Nat /\ h \in Handlers
    BY <1>3 DEF Compare, Go, Done, TypeOK
  <2>2. failures[a] + Cardinality(Trying(a)) <= MaxFailed - 1 + Cardinality(Handlers)
    BY DEF FailuresKept
  <2>3. Cardinality(Trying(a)) \in Nat /\ Cardinality(Handlers) \in Nat /\ MaxFailed \in Nat
    BY TryingIsFinite, FS_CardinalityType, BoundsAssumption
  <2>4. CASE a = op[h].acct
    <3>1. Trying(a)' = Trying(a) \ {h} /\ h \in Trying(a)
      BY <1>1, <2>1, <2>4 DEF Trying, Idle, TypeOK
    <3>2. Cardinality(Trying(a)') = Cardinality(Trying(a)) - 1
      BY <3>1, TryingIsFinite, FS_RemoveElement
    <3>3. failures'[a] = failures[a] + 1
      BY <2>1, <2>4 DEF TypeOK
    <3> QED
      BY <2>1, <2>2, <2>3, <3>2, <3>3
  <2>5. CASE a # op[h].acct
    <3>1. Trying(a)' = Trying(a)
      BY <1>1, <2>1, <2>5 DEF Trying, Idle, TypeOK
    <3>2. failures'[a] = failures[a]
      BY <2>1, <2>5 DEF TypeOK
    <3> QED
      BY <2>2, <3>1, <3>2
  <2> QED
    BY <2>4, <2>5
<1> QED
  BY <1>1, <1>2, <1>3

LEMMA FailuresStep ==
    ASSUME TypeOK, TypeOK', FailuresKept, [Next]_vars
    PROVE  FailuresKept'
<1>1. CASE \E h \in Handlers : CheckLock(h) \/ Compare(h)
  BY <1>1, CheckLockFailures, CompareFailures
<1>2. ASSUME NEW h \in Handlers, NEW state, Go(h, state), state.kind # "comparing",
             UNCHANGED failures \/ \E a : failures' = [failures EXCEPT ![a] = 0]
      PROVE  FailuresKept'
  <2>1. \A g \in Handlers : op'[g].kind = "comparing" => op'[g] = op[g]
    BY <1>2 DEF Go, TypeOK
  <2>2. \A b \in Accounts : failures[b] \in Nat /\ failures'[b] \in {failures[b], 0}
    BY <1>2 DEF TypeOK
  <2>3. \A b \in Accounts : failures'[b] <= failures[b]
    BY <2>2
  <2> QED
    BY <2>1, <2>3, FailuresFrame
<1>3. CASE \E h \in Handlers :
              \/ \E a \in Accounts : Google(h, a) \/ Reset(h, a) \/ AdminReset(h, a) \/ \E right \in BOOLEAN : Login(h, a, right)
              \/ \E s \in Sessions : OpenSession(h, s) \/ Refresh(h, s) \/ ChangePassword(h, s)
  BY <1>2, <1>3 DEF Google, Reset, AdminReset, Login, OpenSession, Refresh, ChangePassword, Done, Idle
<1>4. CASE \E h \in Handlers :
              \/ GoogleClear(h) \/ Retire(h) \/ Invalidate(h) \/ Reread(h)
              \/ ChangeEnds(h) \/ ChangeSets(h) \/ ResetCommits(h) \/ AdminUnlocks(h) \/ AdminEnds(h) \/ Stop(h)
  BY <1>2, <1>4 DEF GoogleClear, Retire, Invalidate, Reread, ChangeEnds, ChangeSets, ResetCommits, AdminUnlocks,
     AdminEnds, Stop, Done, Idle
<1>5. CASE \/ \E a \in Accounts : Forgot(a) \/ ExpireLink(a) \/ SetActive(a) \/ Age(a)
           \/ \E s \in Sessions : CloseSession(s)
           \/ UNCHANGED vars
  <2>1. UNCHANGED op
    BY <1>5 DEF Forgot, ExpireLink, SetActive, Age, CloseSession, vars
  <2>2. UNCHANGED failures \/ \E a \in Accounts : failures' = [failures EXCEPT ![a] = failures[a] - 1]
    BY <1>5 DEF Forgot, ExpireLink, SetActive, Age, CloseSession, vars
  <2>3. \A b \in Accounts : failures[b] \in Nat /\ failures'[b] \in {failures[b], failures[b] - 1}
    BY <2>2 DEF TypeOK
  <2>4. \A b \in Accounts : failures'[b] <= failures[b]
    BY <2>3
  <2> QED
    BY <2>1, <2>4, FailuresFrame
<1> QED
  BY <1>1, <1>3, <1>4, <1>5 DEF Next

-----------------------------------------------------------------------------
(* Reset links *)

\* Links are numbered as they are issued, each for one account, and one that has set a
\* password is no account's any more; the request that holds an account's link holds the
\* one that works.
LinksKept ==
    /\ \A k \in 1..MaxLinks : resets[k] <= 1 /\ (k > links => resets[k] = 0)
    /\ \A a \in Accounts : link[a] # None => link[a] <= links /\ resets[link[a]] = 0
    /\ \A a, b \in Accounts : link[a] # None /\ link[a] = link[b] => a = b
    /\ \A h \in Handlers : op[h].kind = "resetting" => link[op[h].acct] = op[h].link /\ link[op[h].acct] # None
    /\ \A g, h \in Handlers : op[g].kind = "resetting" /\ op[h].kind = "resetting" /\ op[g].acct = op[h].acct => g = h

\* Requests that stop resetting, or never were.
LEMMA LinksFrame ==
    ASSUME TypeOK, LinksKept, UNCHANGED <<link, links, resets>>,
           \A h \in Handlers : op'[h].kind = "resetting" => op'[h] = op[h]
    PROVE  LinksKept'
BY DEF LinksKept

LEMMA ResetLinks ==
    ASSUME TypeOK, LinksKept, NEW h \in Handlers, NEW a \in Accounts, Reset(h, a)
    PROVE  LinksKept'
<1>1. /\ UNCHANGED <<link, links, resets>> /\ link[a] # None /\ ~LinkHeld(a)
      /\ op'[h].kind = "resetting" /\ op'[h].acct = a /\ op'[h].link = link[a]
      /\ \A g \in Handlers : g # h => op'[g] = op[g]
  BY DEF Reset, Go, TypeOK
<1>2. \A g \in Handlers : g # h => ~(op'[g].kind = "resetting" /\ op'[g].acct = a)
  BY <1>1 DEF LinkHeld
<1> QED
  BY <1>1, <1>2 DEF LinksKept

LEMMA ForgotLinks ==
    ASSUME TypeOK, LinksKept, NEW a \in Accounts, Forgot(a)
    PROVE  LinksKept'
<1>1. /\ UNCHANGED <<op, resets>> /\ links' = links + 1 /\ links \in Nat /\ links < MaxLinks /\ ~LinkHeld(a)
      /\ link'[a] = links + 1 /\ \A b \in Accounts : b # a => link'[b] = link[b]
  BY BoundsAssumption DEF Forgot, TypeOK
<1>2. \A h \in Handlers : op[h].kind = "resetting" => op[h].acct # a /\ op[h].acct \in Accounts
  BY <1>1, OpFields DEF LinkHeld
<1>3. \A b \in Accounts : link[b] # None => link[b] \in 1..MaxLinks /\ link[b] <= links
  BY DEF LinksKept, TypeOK
<1>4. links + 1 \in 1..MaxLinks /\ resets[links + 1] = 0
  BY <1>1, BoundsAssumption DEF LinksKept
<1>5. \A k \in 1..MaxLinks : resets[k] <= 1 /\ (k > links + 1 => resets[k] = 0)
  BY <1>1 DEF LinksKept
<1>6. \A b \in Accounts : link'[b] # None => link'[b] <= links + 1 /\ resets[link'[b]] = 0
  BY <1>1, <1>3, <1>4 DEF LinksKept
<1>7. \A b, c \in Accounts : link'[b] # None /\ link'[b] = link'[c] => b = c
  BY <1>1, <1>3 DEF LinksKept
<1>8. \A h \in Handlers : op[h].kind = "resetting" => link'[op[h].acct] = op[h].link /\ link'[op[h].acct] # None
  BY <1>1, <1>2 DEF LinksKept
<1> QED
  BY <1>1, <1>5, <1>6, <1>7, <1>8 DEF LinksKept

LEMMA ExpireLinks ==
    ASSUME TypeOK, LinksKept, NEW a \in Accounts, ExpireLink(a)
    PROVE  LinksKept'
<1>1. /\ UNCHANGED <<op, resets, links>> /\ ~LinkHeld(a)
      /\ link'[a] = None /\ \A b \in Accounts : b # a => link'[b] = link[b]
  BY DEF ExpireLink, TypeOK
<1>2. \A h \in Handlers : op[h].kind = "resetting" => op[h].acct # a /\ op[h].acct \in Accounts
  BY <1>1, OpFields DEF LinkHeld
<1> QED
  BY <1>1, <1>2 DEF LinksKept

LEMMA CommitLinks ==
    ASSUME TypeOK, LinksKept, NEW h \in Handlers, ResetCommits(h)
    PROVE  LinksKept'
<1>1. PICK a \in Accounts, k \in 1..MaxLinks : op[h].kind = "resetting" /\ a = op[h].acct /\ k = op[h].link
  BY OpFields DEF ResetCommits
<1>2. k = link[a] /\ link[a] # None /\ resets[k] = 0 /\ k <= links
  BY <1>1 DEF LinksKept
<1>3. /\ link'[a] = None /\ (\A b \in Accounts : b # a => link'[b] = link[b]) /\ UNCHANGED links
      /\ resets'[k] = 1 /\ (\A n \in 1..MaxLinks : n # k => resets'[n] = resets[n])
      /\ op'[h].kind # "resetting" /\ \A g \in Handlers : g # h => op'[g] = op[g]
  BY <1>1, <1>2 DEF ResetCommits, Done, Go, Idle, TypeOK
<1>4. \A b \in Accounts : link'[b] # None => link'[b] = link[b] /\ link[b] # k /\ link[b] \in 1..MaxLinks
  BY <1>2, <1>3 DEF LinksKept, TypeOK
<1>5. \A g \in Handlers : op'[g].kind = "resetting" => op[g].acct # a /\ op'[g] = op[g] /\ op[g].acct \in Accounts
  BY <1>1, <1>3, OpFields DEF LinksKept
<1>6. k \in Nat /\ links \in Nat /\ ~(k > links)
  BY <1>2, BoundsAssumption DEF TypeOK
<1>7. \A n \in 1..MaxLinks : resets'[n] <= 1 /\ (n > links => resets'[n] = 0)
  BY <1>3, <1>6 DEF LinksKept
<1>8. \A b \in Accounts : link'[b] # None => link'[b] <= links /\ resets'[link'[b]] = 0
  BY <1>3, <1>4 DEF LinksKept
<1>9. \A b, c \in Accounts : link'[b] # None /\ link'[b] = link'[c] => b = c
  BY <1>3, <1>4 DEF LinksKept
<1>10. \A g \in Handlers : op'[g].kind = "resetting" => link'[op'[g].acct] = op'[g].link /\ link'[op'[g].acct] # None
  BY <1>3, <1>5 DEF LinksKept
<1>11. \A f, g \in Handlers :
          op'[f].kind = "resetting" /\ op'[g].kind = "resetting" /\ op'[f].acct = op'[g].acct => f = g
  BY <1>3, <1>5 DEF LinksKept
<1> QED
  BY <1>3, <1>7, <1>8, <1>9, <1>10, <1>11 DEF LinksKept

LEMMA LinksStep ==
    ASSUME TypeOK, LinksKept, [Next]_vars
    PROVE  LinksKept'
<1>1. ASSUME NEW h \in Handlers, NEW state, Go(h, state), state.kind # "resetting", UNCHANGED <<link, links, resets>>
      PROVE  LinksKept'
  <2>1. \A g \in Handlers : op'[g].kind = "resetting" => op'[g] = op[g]
    BY <1>1 DEF Go, TypeOK
  <2> QED
    BY <1>1, <2>1, LinksFrame
<1>2. CASE \E h \in Handlers :
              \/ \E a \in Accounts : Google(h, a) \/ AdminReset(h, a) \/ \E right \in BOOLEAN : Login(h, a, right)
              \/ \E s \in Sessions : OpenSession(h, s) \/ Refresh(h, s) \/ ChangePassword(h, s)
  BY <1>1, <1>2 DEF Google, AdminReset, Login, OpenSession, Refresh, ChangePassword, Done, Idle
<1>3. CASE \E h \in Handlers :
              \/ CheckLock(h) \/ Compare(h) \/ GoogleClear(h) \/ Retire(h) \/ Invalidate(h) \/ Reread(h)
              \/ ChangeEnds(h) \/ ChangeSets(h) \/ AdminUnlocks(h) \/ AdminEnds(h) \/ Stop(h)
  BY <1>1, <1>3 DEF CheckLock, Compare, GoogleClear, Retire, Invalidate, Reread, ChangeEnds, ChangeSets, AdminUnlocks,
     AdminEnds, Stop, Done, Idle
<1>4. CASE \E h \in Handlers : ResetCommits(h) \/ \E a \in Accounts : Reset(h, a)
  BY <1>4, ResetLinks, CommitLinks
<1>5. CASE \E a \in Accounts : Forgot(a) \/ ExpireLink(a)
  BY <1>5, ForgotLinks, ExpireLinks
<1>6. CASE \/ \E a \in Accounts : SetActive(a) \/ Age(a)
           \/ \E s \in Sessions : CloseSession(s)
           \/ UNCHANGED vars
  BY <1>6, LinksFrame DEF SetActive, Age, CloseSession, vars
<1> QED
  BY <1>2, <1>3, <1>4, <1>5, <1>6 DEF Next

-----------------------------------------------------------------------------
(* Results *)

SignInGood == TypeOK /\ TemporaryIsFlagged /\ FailuresKept /\ LinksKept

LEMMA SignInInit ==
    ASSUME Init
    PROVE  SignInGood
<1>1. TypeOK
  BY BoundsAssumption, OpsMade DEF Init, TypeOK, Account, Op
<1>2. TemporaryIsFlagged
  BY DEF Init, TemporaryIsFlagged
<1>3. FailuresKept
  <2> SUFFICES ASSUME NEW a \in Accounts
               PROVE  failures[a] + Cardinality(Trying(a)) <= MaxFailed - 1 + Cardinality(Handlers)
    BY DEF FailuresKept
  <2>1. failures[a] = 0 /\ Cardinality(Handlers) \in Nat /\ MaxFailed \in Nat \ {0}
    BY BoundsAssumption, FS_CardinalityType DEF Init
  <2> QED
    BY <2>1, TryingIsFinite
<1>4. LinksKept
  <2>1. /\ links = 0 /\ (\A k \in 1..MaxLinks : resets[k] = 0) /\ (\A a \in Accounts : link[a] = None)
        /\ \A h \in Handlers : op[h].kind = "idle"
    BY DEF Init, Idle
  <2> QED
    BY <2>1 DEF LinksKept
<1> QED
  BY <1>1, <1>2, <1>3, <1>4 DEF SignInGood

LEMMA SignInHolds == Spec => []SignInGood
<1>1. Init => SignInGood
  BY SignInInit
<1>2. SignInGood /\ [Next]_vars => SignInGood'
  BY TypeStep, FlagStep, FailuresStep, LinksStep DEF SignInGood
<1> QED
  BY <1>1, <1>2, PTL DEF Spec

\* The tables keep their types, and past the limit there is at most one failure for
\* each other request that was trying: those that found the account unlocked together.
THEOREM FailuresPastTheLimitAreRaces == Spec => []AttemptsInv
<1>1. SignInGood => AttemptsInv
  <2> SUFFICES ASSUME SignInGood, NEW a \in Accounts PROVE failures[a] < MaxFailed + Cardinality(Handlers)
    BY DEF SignInGood, AttemptsInv, FailuresBounded
  <2>1. failures[a] + Cardinality(Trying(a)) <= MaxFailed - 1 + Cardinality(Handlers) /\ failures[a] \in Nat
    BY DEF SignInGood, FailuresKept, TypeOK
  <2>2. Cardinality(Trying(a)) \in Nat /\ Cardinality(Handlers) \in Nat /\ MaxFailed \in Nat
    BY TryingIsFinite, FS_CardinalityType, BoundsAssumption
  <2> QED
    BY <2>1, <2>2
<1> QED
  BY <1>1, SignInHolds, PTL

\* An account whose password an administrator chose must replace it.
THEOREM TemporaryStaysFlagged == Spec => []TemporaryIsFlagged
<1>1. SignInGood => TemporaryIsFlagged
  BY DEF SignInGood
<1> QED
  BY <1>1, SignInHolds, PTL

\* A reset link sets one password and is then no account's.
THEOREM LinksWorkOnce == Spec => []LinkWorksOnce
<1>1. SignInGood => LinkWorksOnce
  BY DEF SignInGood, LinksKept, LinkWorksOnce
<1> QED
  BY <1>1, SignInHolds, PTL
=============================================================================
