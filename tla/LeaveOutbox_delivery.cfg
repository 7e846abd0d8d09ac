\* Two processes share two notices; a run handles one, so that a failing one gets in the way of the
\* other as often as it can.  A fault and two changes around them strike at any point, and two
\* requests about the testing mode overtake each other.
CONSTANTS
    Processes = {p1, p2}
    Notices = {n1, n2}
    Handlers = {h1, h2}
    Limit = 1
    None = None
    MaxFaults = 1
    MaxChanges = 2
SPECIFICATION FairSpec
CHECK_DEADLOCK FALSE
INVARIANTS
    DeliveryInv
PROPERTIES
    KeepsPromise
    EveryNoticeSettles
