SPECIFICATION FairJobsSpec
CONSTANTS
    p1 = p1
    p2 = p2
    p3 = p3
    q1 = q1
    None = None
    Employees = {1, 2}
    Ready <- MCReady
    Policies = {p1, p2, p3}
    FirstPolicy = p1
    FirstEnd = 3
    DailyRate <- MCDailyRate
    CreditCap <- MCCreditCap
    Annual <- MCAnnual
    Requests = {q1}
    Leave <- MCLeave
    Year = 2
    Fortnight = 2
    MaxPosts = 1
    MaxRenewals = 1
    PageSize = 1
    LastDay = 4
    PolicyDates = {2, 3, 4}
    Firsts = {0, 1}
    Openings = {2}
    Corrections <- MCCorrections
    Balance = 1
    MaxChanges = 2
CHECK_DEADLOCK FALSE
INVARIANTS
    PolicyInv
PROPERTIES
    YearsCloseOnce
    EmployeesKeepUp
