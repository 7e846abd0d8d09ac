\* One batch of either type with its submitter, a reviewer and an admin on one day, and two
\* departmental batches and the archive over two days, codes used again after deletion.
SPECIFICATION Spec
ACTION_CONSTRAINT OneScenario
CONSTANTS
    a = a
    b1 = b1
    b2 = b2
    h1 = h1
    h2 = h2
    p1 = p1
    r1 = r1
    s = s
    Clerk = a
    None = None
    Users = {s, r1, a}
    Reviewers = {r1}
    Admins = {a}
    Batches = {b1, b2}
    Types = {"aba", "public_health"}
    PDs = {p1}
    Handlers = {h1, h2}
    MaxAttempts = 3
    PadLimit = 9
    Base = 10
    MaxDay = 2
    MaxDate = 1
    Limit = 5
    MaxLines = 3
    Nothing = Nothing
    Char <- MCChar
    Ascii <- MCAscii
    Drafts <- MCDrafts
    Amendments <- MCAmendments
    Blacklists <- MCBlacklists
SYMMETRY Symmetry
INVARIANTS
    TypeOK
    ApprovedByAnother
    AbaDecidedOnce
    OneRowPerCode
    AttemptsAreRaces
    StoredFilesKeepPayments
CHECK_DEADLOCK FALSE
