CONSTANTS
    Operations = {1}
    Payloads = {p1}
    Digests <- MCDigests
    Malformed = {}
    Unencodable = {}
    NoEntry = NoEntry
    NoOp = NoOp
    NoOne = NoOne
    NoLink = NoLink
    Clients <- MCClients
    Resources = {t1}
    AgentSessions = {}
    Kinds = {"Apply"}
    Retention = 1
    Horizon = 1
    MaxTransit = 1
    MaxTime = 2
    MaxConnections = 2
    MaxSwitches = 0
    MaxIncarnations = 2
    MaxAttempts = 3
    CacheCapacity = 1
    LaneCapacity = 1
    MailboxCapacity = 1
    WriterCapacity = 1
SPECIFICATION FairSession
INVARIANTS
    SessionTypeOK
    RefusedAtOnceMeansNothingWritten
PROPERTIES
    KeepsContract
    EveryPasteIsReported
CHECK_DEADLOCK FALSE
