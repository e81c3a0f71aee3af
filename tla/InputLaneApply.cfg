CONSTANTS
    Operations = {o1, o2}
    Payloads = {p1, p2}
    Digests <- MCDigests
    Malformed = {p2}
    Unencodable = {}
    NoEntry = NoEntry
    NoOp = NoOp
    NoOne = NoOne
    Clients = {c1}
    Resources = {t1}
    AgentSessions = {}
    Kinds = {"Attached", "Apply"}
    Retention = 1
    CacheCapacity = 1
    LaneCapacity = 1
    MailboxCapacity = 1
    WriterCapacity = 1
    MaxAttempts = 3
    MaxTime = 1
SPECIFICATION Spec
SYMMETRY Symmetric
INVARIANTS
    EveryRecordExpires
    HandedOncePerRetention
    PendingMeansNotHanded
    OkMeansWritten
    OneAnswerOneSlot
    SlotHeldWhileUnanswered
PROPERTIES
    RefusalIsProof
CHECK_DEADLOCK FALSE
