\* Three applications of one employee over two days, each in a service year of its own: of them up to
\* two change granted leave, and two registers are prepared and acknowledged by two calls meanwhile.
CONSTANTS
    y1 = y1
    y2 = y2
    None = None
    Accounts = {emp, o1}
    Employee = emp
    Central = {emp, o1}
    Requests = {r1, r2, r3}
    LastStage = 0
    NoDelegation = {}
    Entitlements = {y1, y2}
    Opening <- MCOpening
    LastDay = 2
    YearOf <- MCYearOf
    Keys = {k1, k2, k3}
    CorrectionKeys = {}
    Amounts <- MCAmounts
    Handlers = {}
    MaxChanges = 2
    Movable = {}
    Closable = {}
    MaxOffice = 1
    MaxClock = 0
    Batches = {b1, b2}
    Periods <- MCPeriods
    Exchanges = {x1, x2}
SYMMETRY Symmetry
SPECIFICATION PayrollSpec
CHECK_DEADLOCK FALSE
INVARIANTS
    UseFollowsGrant
    RegistersAgree
