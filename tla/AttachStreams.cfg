SPECIFICATION FairSpec
CONSTANTS
    GapBudget = 1
    ClientId = 7
    AttachIds = {1, 2}
    SpawnIds = {3}
    Faults = {"Capture", "Lost"}
    None = None
    MaxCommands = 4
    MaxOutput = 2
    MaxResyncs = 1
INVARIANTS TypeOK OnlyReuseOrTwoSpeakersBreakTheReplica OnlyAttachLeavesAPump
PROPERTIES DetachIsAFence AttachCatchesUp ShowsThePane
CHECK_DEADLOCK FALSE
