\* Two employees and up to two more, one import of two rows, two requests at once and three changes.
CONSTANTS
    ana = ana
    ben = ben
    cy = cy
    dee = dee
    p1 = p1
    p2 = p2
    p3 = p3
    b1 = b1
    None = None
    Employees = {ana, ben, cy, dee}
    FirstStaff = {ana, ben}
    FirstName <- MCName
    FirstId <- MCId
    Names = {"a", "b", "c"}
    PayrollIds = {p1, p2, p3}
    Batches = {b1}
    Sheet <- MCSheet
    Handlers = {h1, h2}
    MaxChanges = 3
SYMMETRY Symmetry
SPECIFICATION RegisterSpec
CHECK_DEADLOCK FALSE
INVARIANTS
    RegisterInv
PROPERTIES
    AppliedAsShown
    PayrollIdsStay
