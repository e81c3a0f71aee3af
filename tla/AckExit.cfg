CONSTANTS
    Operations = {1}
    Payloads = {p1}
    Digests <- MCDigests
    Malformed = {}
    Unencodable = {}
    NoEntry = NoEntry
    NoOp = NoOp
    NoOne = NoOne
    NoLink = NoLink
    Clients <- MCClients
    Resources = {t1}
    AgentSessions = {}
    Kinds = {"Apply"}
    Retention = 1
    Horizon = 1
    MaxTransit = 1
    MaxTime = 1
    MaxConnections = 2
    MaxSwitches = 0
    MaxIncarnations = 1
    MaxAttempts = 2
    CacheCapacity = 1
    LaneCapacity = 1
    MailboxCapacity = 1
    WriterCapacity = 1
SPECIFICATION SessionSpec
INVARIANTS
    ExitsWithEmptyJournal
CHECK_DEADLOCK FALSE
