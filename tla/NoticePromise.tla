--------------------------- MODULE NoticePromise ---------------------------
(***************************************************************************)
(* What the outbox of leave notices promises the application transactions  *)
(* that write to it: a notice, once committed, is owed until its recipient *)
(* has been told or there is nothing left to tell, and is then closed.     *)
(***************************************************************************)
CONSTANT Notices

VARIABLES
    owed,       \* committed and not closed
    told,       \* the mail server has taken a message for it
    closed,     \* will not be mailed again
    moot        \* the world has moved on from it, as things stand

vars == <<owed, told, closed, moot>>

Init == owed = {} /\ told = {} /\ closed = {} /\ moot = {}

Owe(n) ==
    /\ n \notin owed \cup closed
    /\ owed' = owed \cup {n}
    /\ UNCHANGED <<told, closed, moot>>

Tell(n) ==
    /\ n \in owed
    /\ told' = told \cup {n}
    /\ UNCHANGED <<owed, closed, moot>>

Close(n) ==
    /\ n \in owed /\ n \in told \cup moot
    /\ owed' = owed \ {n} /\ closed' = closed \cup {n}
    /\ UNCHANGED <<told, moot>>

MoveOn ==
    /\ moot' \in SUBSET Notices
    /\ UNCHANGED <<owed, told, closed>>

Next == MoveOn \/ \E n \in Notices : Owe(n) \/ Tell(n) \/ Close(n)

Spec == Init /\ [][Next]_vars
=============================================================================
