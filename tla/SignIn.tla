------------------------------- MODULE SignIn -------------------------------
(***************************************************************************)
(* Signing in: passwords and who knows them, sessions, the lockout after   *)
(* failed attempts, reset links, and sign-in with Google (routes/auth.js,  *)
(* services/authService.js, loginAttempts.js, googleAuthService.js, and    *)
(* the administrator's password reset of routes/admin.js).                 *)
(*                                                                         *)
(* Only the reset link is handled in one transaction.  Every other handler *)
(* reads a row, works on what it read while others go on, and writes in    *)
(* statements that commit one by one; it can stop between any two of them. *)
(*                                                                         *)
(* A password is the number of the write that set it: what matters is who  *)
(* chose it.  "temporary" was chosen by an administrator, "retired" is a   *)
(* hash that no input matches.  A failed attempt ages out of the window.   *)
(***************************************************************************)
EXTENDS Integers, FiniteSets

CONSTANTS
    Accounts,
    Sessions,       \* token ids that createSession draws
    Handlers,       \* requests that may be in progress at once
    MaxFailed,      \* AUTH_MAX_FAILED_ATTEMPTS
    None,
    MaxPasswords,   \* bound on writes of passwords
    MaxLinks        \* bound on reset links

ASSUME NoneAssumption == None \notin Accounts \cup Sessions
ASSUME BoundsAssumption ==
    MaxFailed \in Nat \ {0} /\ MaxPasswords \in Nat /\ MaxLinks \in Nat /\ IsFiniteSet(Handlers)

VARIABLES
    account,        \* reviewers: status, password_hash and must_change_password
    session,        \* reviewer_sessions: the account of each open session
    failures,       \* login_attempts in the window, by account
    link,           \* password_reset_tokens: the link of an account that still works
    op,             \* what each request in progress is about to do
    passwords, links, resets    \* passwords set and links issued; uses of each link

vars == <<account, session, failures, link, op, passwords, links, resets>>

-----------------------------------------------------------------------------
Account == [active: BOOLEAN, by: {"owner", "temporary", "retired"}, pw: 0..MaxPasswords,
            must: BOOLEAN]
Idle == [kind |-> "idle"]
Op == {Idle}
      \cup [kind: {"checking", "comparing"}, acct: Accounts, right: BOOLEAN]
      \cup [kind: {"clearing", "signing"}, acct: Accounts, must: BOOLEAN]
      \cup [kind: {"retiring", "opening", "rereading", "ending", "setting", "unlocking", "closing"},
            acct: Accounts]
      \cup [kind: {"renewing"}, acct: Accounts, session: Sessions]
      \cup [kind: {"resetting"}, acct: Accounts, link: 1..MaxLinks]

Locked(a) == failures[a] >= MaxFailed
Go(h, state) == op' = [op EXCEPT ![h] = state]
Done(h) == Go(h, Idle)
Authenticated(s) == session[s] # None /\ account[session[s]].active
LinkHeld(a) == \E h \in Handlers : op[h].kind = "resetting" /\ op[h].acct = a

EndSessions(a) == session' = [s \in Sessions |-> IF session[s] = a THEN None ELSE session[s]]

\* Each password that is written is a new one.
Write(a, by, must) ==
    /\ passwords < MaxPasswords
    /\ passwords' = passwords + 1
    /\ account' = [account EXCEPT ![a] = [@ EXCEPT !.by = by, !.pw = passwords + 1, !.must = must]]

Init ==
    /\ account = [a \in Accounts |-> [active |-> TRUE, by |-> "owner", pw |-> 0, must |-> FALSE]]
    /\ session = [s \in Sessions |-> None]
    /\ failures = [a \in Accounts |-> 0]
    /\ link = [a \in Accounts |-> None]
    /\ op = [h \in Handlers |-> Idle]
    /\ passwords = 0 /\ links = 0 /\ resets = [k \in 1..MaxLinks |-> 0]

-----------------------------------------------------------------------------
(* POST /login *)

\* The account is read; whether the password given is the one just read decides
\* the comparison, and an inactive or retired one matches nothing.
Login(h, a, right) ==
    /\ op[h] = Idle
    /\ right => account[a].active /\ account[a].by # "retired"
    /\ Go(h, [kind |-> "checking", acct |-> a, right |-> right])
    /\ UNCHANGED <<account, session, failures, link, passwords, links, resets>>

CheckLockFaulty(h) ==
    /\ op[h].kind = "checking"
    /\ IF failures[op[h].acct] > MaxFailed THEN Done(h)
       ELSE Go(h, [kind |-> "comparing", acct |-> op[h].acct, right |-> op[h].right])
    /\ UNCHANGED <<account, session, failures, link, passwords, links, resets>>

CheckLockRecords(h) ==
    /\ op[h].kind = "checking"
    /\ IF Locked(op[h].acct)
       THEN Done(h) /\ failures' = [failures EXCEPT ![op[h].acct] = MaxFailed + 1]
       ELSE /\ Go(h, [kind |-> "comparing", acct |-> op[h].acct, right |-> op[h].right])
            /\ UNCHANGED failures
    /\ UNCHANGED <<account, session, link, passwords, links, resets>>

CheckLock(h) ==
    /\ op[h].kind = "checking"
    /\ IF Locked(op[h].acct) THEN Done(h)
       ELSE Go(h, [kind |-> "comparing", acct |-> op[h].acct, right |-> op[h].right])
    /\ UNCHANGED <<account, session, failures, link, passwords, links, resets>>

\* A failure is recorded; a success clears the record, and a session follows.
Compare(h) ==
    /\ op[h].kind = "comparing"
    /\ LET a == op[h].acct IN
        IF op[h].right
        THEN /\ failures' = [failures EXCEPT ![a] = 0]
             /\ Go(h, [kind |-> "opening", acct |-> a])
        ELSE /\ failures' = [failures EXCEPT ![a] = @ + 1]
             /\ Done(h)
    /\ UNCHANGED <<account, session, link, passwords, links, resets>>

\* createSession, the last write of every handler that signs somebody in.
OpenSession(h, s) ==
    /\ op[h].kind = "opening"
    /\ session[s] = None
    /\ session' = [session EXCEPT ![s] = op[h].acct]
    /\ Done(h)
    /\ UNCHANGED <<account, failures, link, passwords, links, resets>>

-----------------------------------------------------------------------------
(* POST /google: the account is read once, and its flag is used later *)

Google(h, a) ==
    /\ op[h] = Idle /\ account[a].active
    /\ Go(h, [kind |-> "clearing", acct |-> a, must |-> account[a].must])
    /\ UNCHANGED <<account, session, failures, link, passwords, links, resets>>

GoogleClear(h) ==
    /\ op[h].kind = "clearing"
    /\ failures' = [failures EXCEPT ![op[h].acct] = 0]
    /\ Go(h, [kind |-> IF op[h].must THEN "retiring" ELSE "opening", acct |-> op[h].acct])
    /\ UNCHANGED <<account, session, link, passwords, links, resets>>

\* retireTemporaryPassword
RetireFaulty(h) ==
    /\ op[h].kind = "retiring"
    /\ account' = [account EXCEPT ![op[h].acct].must = FALSE]
    /\ Go(h, [kind |-> "opening", acct |-> op[h].acct])
    /\ UNCHANGED <<session, failures, link, passwords, links, resets>>

Retire(h) ==
    /\ op[h].kind = "retiring"
    /\ Write(op[h].acct, "retired", FALSE)
    /\ Go(h, [kind |-> "opening", acct |-> op[h].acct])
    /\ UNCHANGED <<session, failures, link, links, resets>>

-----------------------------------------------------------------------------
(* POST /refresh and /change-password, behind requireAuth *)

Refresh(h, s) ==
    /\ op[h] = Idle /\ Authenticated(s)
    /\ Go(h, [kind |-> "renewing", acct |-> session[s], session |-> s])
    /\ UNCHANGED <<account, session, failures, link, passwords, links, resets>>

Invalidate(h) ==
    /\ op[h].kind = "renewing"
    /\ session' = [session EXCEPT ![op[h].session] = IF @ = op[h].acct THEN None ELSE @]
    /\ Go(h, [kind |-> "rereading", acct |-> op[h].acct])
    /\ UNCHANGED <<account, failures, link, passwords, links, resets>>

Reread(h) ==
    /\ op[h].kind = "rereading"
    /\ IF account[op[h].acct].active THEN Go(h, [kind |-> "opening", acct |-> op[h].acct]) ELSE Done(h)
    /\ UNCHANGED <<account, session, failures, link, passwords, links, resets>>

\* The current password was read and matches; what was read is not looked at again.
ChangePassword(h, s) ==
    /\ op[h] = Idle /\ Authenticated(s)
    /\ account[session[s]].by # "retired"
    /\ Go(h, [kind |-> "ending", acct |-> session[s]])
    /\ UNCHANGED <<account, session, failures, link, passwords, links, resets>>

ChangeEnds(h) ==
    /\ op[h].kind = "ending"
    /\ EndSessions(op[h].acct)
    /\ Go(h, [kind |-> "setting", acct |-> op[h].acct])
    /\ UNCHANGED <<account, failures, link, passwords, links, resets>>

ChangeSets(h) ==
    /\ op[h].kind = "setting"
    /\ Write(op[h].acct, "owner", FALSE)
    /\ Go(h, [kind |-> "opening", acct |-> op[h].acct])
    /\ UNCHANGED <<session, failures, link, links, resets>>

\* POST /logout, and requireAuth on an expired session.
CloseSession(s) ==
    /\ session[s] # None
    /\ session' = [session EXCEPT ![s] = None]
    /\ UNCHANGED <<account, failures, link, op, passwords, links, resets>>

-----------------------------------------------------------------------------
(* POST /forgot-password and /reset-password *)

\* The new link replaces the old one; its row may be locked by a reset.
Forgot(a) ==
    /\ account[a].active /\ ~LinkHeld(a) /\ links < MaxLinks
    /\ links' = links + 1
    /\ link' = [link EXCEPT ![a] = links + 1]
    /\ UNCHANGED <<account, session, failures, op, passwords, resets>>

ExpireLink(a) ==
    /\ link[a] # None /\ ~LinkHeld(a)
    /\ link' = [link EXCEPT ![a] = None]
    /\ UNCHANGED <<account, session, failures, op, passwords, links, resets>>

\* The link's row is locked; a second request with the same link waits for it.
ResetFaulty(h, a) ==
    /\ op[h] = Idle
    /\ link[a] # None /\ account[a].active
    /\ Go(h, [kind |-> "resetting", acct |-> a, link |-> link[a]])
    /\ UNCHANGED <<account, session, failures, link, passwords, links, resets>>

Reset(h, a) ==
    /\ op[h] = Idle
    /\ link[a] # None /\ account[a].active
    /\ ~LinkHeld(a)
    /\ Go(h, [kind |-> "resetting", acct |-> a, link |-> link[a]])
    /\ UNCHANGED <<account, session, failures, link, passwords, links, resets>>

\* The password, the link and the sessions change together, or not at all (Stop).
ResetCommits(h) ==
    /\ op[h].kind = "resetting"
    /\ LET a == op[h].acct IN
        /\ Write(a, "owner", FALSE)
        /\ link' = [link EXCEPT ![a] = None]
        /\ EndSessions(a)
    /\ resets' = [resets EXCEPT ![op[h].link] = @ + 1]
    /\ Done(h)
    /\ UNCHANGED <<failures, links>>

-----------------------------------------------------------------------------
(* POST /reviewers/:id/reset-password and PUT /reviewers/:id by an administrator *)

AdminReset(h, a) ==
    /\ op[h] = Idle
    /\ Write(a, "temporary", TRUE)
    /\ Go(h, [kind |-> "unlocking", acct |-> a])
    /\ UNCHANGED <<session, failures, link, links, resets>>

AdminUnlocks(h) ==
    /\ op[h].kind = "unlocking"
    /\ failures' = [failures EXCEPT ![op[h].acct] = 0]
    /\ Go(h, [kind |-> "closing", acct |-> op[h].acct])
    /\ UNCHANGED <<account, session, link, passwords, links, resets>>

AdminEnds(h) ==
    /\ op[h].kind = "closing"
    /\ EndSessions(op[h].acct)
    /\ Done(h)
    /\ UNCHANGED <<account, failures, link, passwords, links, resets>>

SetActive(a) ==
    /\ account' = [account EXCEPT ![a].active = ~@]
    /\ UNCHANGED <<session, failures, link, op, passwords, links, resets>>

-----------------------------------------------------------------------------
\* An attempt leaves the window of AUTH_LOCKOUT_WINDOW_MS.
Age(a) ==
    /\ failures[a] > 0
    /\ failures' = [failures EXCEPT ![a] = @ - 1]
    /\ UNCHANGED <<account, session, link, op, passwords, links, resets>>

\* A statement fails or the process stops: what was committed stays.
Stop(h) ==
    /\ op[h] # Idle
    /\ Done(h)
    /\ UNCHANGED <<account, session, failures, link, passwords, links, resets>>

Next ==
    \/ \E h \in Handlers :
        \/ \E a \in Accounts : Google(h, a) \/ Reset(h, a) \/ AdminReset(h, a)
                               \/ \E right \in BOOLEAN : Login(h, a, right)
        \/ \E s \in Sessions : OpenSession(h, s) \/ Refresh(h, s) \/ ChangePassword(h, s)
        \/ CheckLock(h) \/ Compare(h) \/ GoogleClear(h) \/ Retire(h) \/ Invalidate(h) \/ Reread(h)
        \/ ChangeEnds(h) \/ ChangeSets(h) \/ ResetCommits(h) \/ AdminUnlocks(h) \/ AdminEnds(h) \/ Stop(h)
    \/ \E a \in Accounts : Forgot(a) \/ ExpireLink(a) \/ SetActive(a) \/ Age(a)
    \/ \E s \in Sessions : CloseSession(s)

Spec == Init /\ [][Next]_vars

\* Time passes.
FairSpec == Spec /\ \A a \in Accounts : WF_vars(Age(a))

-----------------------------------------------------------------------------
TypeOK ==
    /\ account \in [Accounts -> Account]
    /\ session \in [Sessions -> Accounts \cup {None}]
    /\ failures \in [Accounts -> Nat]
    /\ link \in [Accounts -> (1..MaxLinks) \cup {None}]
    /\ op \in [Handlers -> Op]
    /\ passwords \in 0..MaxPasswords /\ links \in 0..MaxLinks
    /\ resets \in [1..MaxLinks -> Nat]

\* A password an administrator chose is one that two people know: as long as it works, the
\* account is held to replacing it, whatever races with the reset and wherever a handler stops.
TemporaryIsFlagged == \A a \in Accounts : account[a].by = "temporary" => account[a].must

\* Attempts that were under way together may each find the account unlocked and then fail, but
\* no more than that: past the limit there is at most one failure for each other request.
FailuresBounded == \A a \in Accounts : failures[a] < MaxFailed + Cardinality(Handlers)

\* The variables have their types, and failures past the limit are races.
AttemptsInv == TypeOK /\ FailuresBounded

\* A reset link sets one password, and once it has it is not the link that works, even when
\* two requests carry it or a handler stops at any point.
LinkWorksOnce ==
    /\ \A k \in 1..MaxLinks : resets[k] <= 1
    /\ \A a \in Accounts : link[a] # None => resets[link[a]] = 0

\* A lockout ends: attempts made while the account is locked do not prolong it, however often
\* they are repeated.
LockoutEnds == \A a \in Accounts : []<>~Locked(a)

\* "Only a pending temporary password is retired": sign-in with Google leaves a password
\* that its owner chose.
OwnPasswordKept ==
    [][\A a \in Accounts : account[a].by = "owner" => account'[a].by # "retired"]_vars
=============================================================================
