SPECIFICATION Spec
CONSTANTS
    Word = 64
    SyncAllowance = 1
    Bit <- MCBit
    Envelope <- MCEnvelope
    Adder = {a1, a2}
    Worker = {w1}
    P2PWorker = p1
    NoEnvelope = NoEnvelope
    NodeSettings <- MCSettings
    LightClient = FALSE
    MailServer = TRUE
    QueueLimit = 1
    MaxTime = 4
SYMMETRY MCSymmetry
INVARIANTS
    TypeOK
    ExpirationsIndexPool
    AcceptedOnceWhileAlive
    PooledHasPaid
    MemoryAccounted
    ClearedAccounted
    DeliveredOncePerInsertion
    ArchivedOncePerInsertion
PROPERTY ImplementsPoolService
CHECK_DEADLOCK FALSE
