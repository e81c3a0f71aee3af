SPECIFICATION FairSpec
CONSTANTS
    Clients = {c1, c2}
    None = None
    MaxRetained = 2
    MailboxCap = 1
    OutCap = 1
    Spawned = TRUE
    Slow = {c1}
    MaxOps = 3
    MaxOutput = 1
    MaxFaults = 1
INVARIANTS HubTypeOK OnlyALateRequestIsNotWithdrawn OnlyAMissedFrameBreaksAReplica OnlyARepublishResetsTheLink EventsSurviveTheCut
PROPERTIES EveryCallIsAnswered RetainedIsNotStranded
CHECK_DEADLOCK FALSE
