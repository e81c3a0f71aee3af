CONSTANTS
    Operations = {o1}
    Payloads = {p1, p2, p3}
    Digests <- MCDigests
    Malformed = {p2}
    Unencodable = {p3}
    NoEntry = NoEntry
    NoOp = NoOp
    NoOne = NoOne
    Clients = {c1, c2}
    Resources = {t1}
    AgentSessions = {}
    Kinds = {"Attached", "Headless", "Apply"}
    Retention = 1
    CacheCapacity = 2
    LaneCapacity = 2
    MailboxCapacity = 2
    WriterCapacity = 2
    MaxAttempts = 2
    MaxTime = 0
SPECIFICATION FairSpec
INVARIANTS
    TypeOK
    WireOrder
PROPERTIES
    LeaseExcludes
    RefusalIsProof
    EveryInputIsAnswered
CHECK_DEADLOCK FALSE
