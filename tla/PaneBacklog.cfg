SPECIFICATION Spec
CONSTANTS
    None = None
    Pumps = {n1, n2}
    Native = {n1, n2}
    Interactive = {}
    Narrow = {n2}
    MaxWaiters = 2
    Geometries = {small, large}
    ResizeKinds = {"Live"}
    CursorEnds = {}
    Faults = {"Capture", "Closed"}
    RingCapacity = 3
    MailboxCapacity = 1
    ReplayCapacity = 1
    GapBudget = 2
    MaxSeq = 2
    MaxResizes = 1
INVARIANTS TypeOK   
CHECK_DEADLOCK FALSE
