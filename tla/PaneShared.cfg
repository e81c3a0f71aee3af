SPECIFICATION FairSpec
CONSTANTS
    None = None
    Pumps = {n1, s1}
    Native = {n1}
    Interactive = {n1, s1}
    Narrow = {}
    MaxWaiters = 2
    Geometries = {small, large}
    ResizeKinds = {"Live", "Attach"}
    CursorEnds = {"Paged", "Expired"}
    Faults = {}
    RingCapacity = 3
    MailboxCapacity = 1
    ReplayCapacity = 2
    GapBudget = 2
    MaxSeq = 1
    MaxResizes = 1
INVARIANTS ConsumerKnowsItsGeneration
PROPERTIES EventuallyCurrent GapIsAnswered
CHECK_DEADLOCK FALSE
