\* One account, two requests side by side: sign-in, change, reset, lockout after two failures.
CONSTANTS
    Accounts = {a1}
    Sessions = {s1, s2}
    Handlers = {h1, h2}
    MaxFailed = 2
    None = None
    MaxPasswords = 3
    MaxLinks = 2
SPECIFICATION FairSpec
CHECK_DEADLOCK FALSE
INVARIANTS
    AttemptsInv
    TemporaryIsFlagged
    LinkWorksOnce
PROPERTIES
    LockoutEnds
