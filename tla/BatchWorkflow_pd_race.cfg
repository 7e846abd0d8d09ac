\* What two submissions of one PD do to PdPaidOnce.
SPECIFICATION Spec
CONSTANTS
    b1 = b1
    b2 = b2
    h1 = h1
    h2 = h2
    p1 = p1
    s = s
    Clerk = s
    None = None
    Users = {s}
    Reviewers = {}
    Admins = {}
    Batches = {b1, b2}
    Types = {"aba"}
    PDs = {p1}
    Handlers = {h1, h2}
    MaxAttempts = 3
    PadLimit = 9
    Base = 10
    MaxDay = 1
    MaxDate = 0
    Limit = 5
    MaxLines = 3
    Nothing = Nothing
    Char <- MCChar
    Ascii <- MCAscii
    Drafts <- MCDrafts
    Amendments <- MCAmendments
    Blacklists <- MCBlacklists
SYMMETRY Symmetry
INVARIANTS
    PdPaidOnce
CHECK_DEADLOCK FALSE
