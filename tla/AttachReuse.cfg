SPECIFICATION Spec
CONSTANTS
    GapBudget = 1
    ClientId = 7
    AttachIds = {1, 2}
    SpawnIds = {3}
    Faults = {}
    None = None
    MaxCommands = 2
    MaxOutput = 2
    MaxResyncs = 1
INVARIANT GenerationsAreFresh
CHECK_DEADLOCK FALSE
