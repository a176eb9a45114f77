SPECIFICATION FairSpec
CONSTANTS
    Word = 64
    SyncAllowance = 1
    Bit <- MCBit
    Envelope <- MCPair
    Adder = {a1}
    Worker = {w1}
    P2PWorker = p1
    NoEnvelope = NoEnvelope
    NodeSettings <- MCSettings
    LightClient = TRUE
    MailServer = FALSE
    QueueLimit = 1
    MaxTime = 3
INVARIANT DeliveredOncePerInsertion
PROPERTIES
    PoolDrains
    AddReturns
    InsertedIsDelivered
CHECK_DEADLOCK FALSE
