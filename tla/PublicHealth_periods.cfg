\* One participant at two levels, two periods, two tabs, two batches and five changes.
CONSTANTS
    None = None
    Participants = {p1}
    Periods = {d1, d2}
    PaidOn <- MCPaidOn
    Tabs = {t1, t2}
    TopLevel = 1
    Amounts = {0, 1}
    MaxBatches = 2
    MaxAwaited = 2
    MaxChanges = 5
SYMMETRY Symmetry
SPECIFICATION Spec
CHECK_DEADLOCK FALSE
INVARIANTS
    AllowanceInv
PROPERTIES
    EntriesStayUnderReview
