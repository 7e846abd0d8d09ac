SPECIFICATION FairLegacySpec
CONSTANTS
    annual = annual
    medical = medical
    a1 = a1
    a2 = a2
    e1 = e1
    n1 = n1
    None = None
    Employees = {e1, n1}
    Newcomers = {n1}
    Types <- MCTypes
    Accruable <- MCAccruable
    Rate <- MCRate
    Cap <- MCCap
    Default <- MCDefault
    Resets <- MCResets
    Joined <- MCJoined
    Apps = {a1, a2}
    Filed <- MCFiled
    Runners = {h1, h2}
    YearDays = 4
    FinancialYear = 2
    Fortnight = 2
    MaxDate = 4
    Anchors = {1}
    HandDates = {3}
    Amounts = {2}
    MaxChanges = 2
CHECK_DEADLOCK FALSE
INVARIANTS
    AccrualInv
PROPERTIES
    DuePeriodsRun
