CONSTANTS
    Operations = {1, 2}
    Payloads = {p1}
    Digests <- MCDigests
    Malformed = {}
    Unencodable = {}
    NoEntry = NoEntry
    NoOp = NoOp
    NoOne = NoOne
    NoLink = NoLink
    Clients <- MCClients
    Resources = {t1}
    AgentSessions = {}
    Kinds = {"Apply"}
    Retention = 1
    Horizon = 1
    MaxTransit = 0
    MaxTime = 0
    MaxConnections = 2
    MaxSwitches = 1
    MaxIncarnations = 1
    MaxAttempts = 4
    CacheCapacity = 2
    LaneCapacity = 1
    MailboxCapacity = 1
    WriterCapacity = 1
SPECIFICATION SessionSpec
INVARIANTS
    DeliveredInOrder
PROPERTIES
    KeepsContract
CHECK_DEADLOCK FALSE
