\* One administrator, two employees, two further accounts and two addresses; five requests in
\* any order, two of them in progress at once.
CONSTANTS
    m1 = m1
    Ids = {a1, a2, a3}
    FirstAdmins = {a1}
    FirstAddress <- MCFirstAddress
    Employees = {e1, e2}
    Addresses = {m1, m2}
    Tokens = {t1, t2}
    Handlers = {h1, h2}
    None = None
    MaxChanges = 5
SPECIFICATION Spec
SYMMETRY Symmetry
CHECK_DEADLOCK FALSE
INVARIANTS
    IdentityInv
PROPERTIES
    NoOldLinkReopens
    OnboardingKeepsLogins
