SPECIFICATION FairSpec
CONSTANTS
    Request <- MCRequest
    m1 = m1
    m2 = m2
    Mail = {m1, m2}
    Batch <- MCBatch
    Response <- MCResponse
    HashLength = 2
    CursorSize = 3
    Prefix <- MCPrefix
    QueueLimit = 1
    WireLimit = 1
    MaxLink = 2
    BusyLink = {1}
INVARIANTS
    TypeOK
    EventIsResponse
    CompletedAfterDelivery
    AnnouncedFirst
    SyncFinishedIsArchived
PROPERTIES
    RequestConcluded
    ResponseReported
CHECK_DEADLOCK FALSE
