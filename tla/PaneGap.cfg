SPECIFICATION Spec
CONSTANTS
    None = None
    Pumps = {n1, s1}
    Native = {n1}
    Interactive = {n1, s1}
    Narrow = {}
    MaxWaiters = 2
    Geometries = {small}
    ResizeKinds = {"Live"}
    CursorEnds = {}
    Faults = {"Synthesis"}
    RingCapacity = 3
    MailboxCapacity = 1
    ReplayCapacity = 1
    GapBudget = 3
    MaxSeq = 2
    MaxResizes = 0
INVARIANTS StreamIsExact OneRepublishPerGap
CHECK_DEADLOCK FALSE
