\* One application on a route of two offices, the second without delegation; two appointments
\* fill them or one of them twice, and two rebinding requests overtake each other and two decisions.
CONSTANTS
    y1 = y1
    None = None
    Accounts = {emp, o1, o2}
    Employee = emp
    Central = {o1}
    Requests = {r1}
    LastStage = 1
    NoDelegation = {1}
    Entitlements = {y1}
    Opening <- MCOpening
    LastDay = 1
    YearOf <- MCYearOf
    Keys = {k1, k2}
    CorrectionKeys = {c1}
    Amounts <- MCAmounts
    Handlers = {h1, h2}
    MaxChanges = 0
    Movable = {o1, o2}
    Closable = {0, 1}
    MaxOffice = 2
    MaxClock = 2
SYMMETRY Symmetry
SPECIFICATION Spec
CHECK_DEADLOCK FALSE
INVARIANTS
    RouteInv
    DecidesWhatWasShown
    EveryoneIsTold
    LeaveIsCovered
