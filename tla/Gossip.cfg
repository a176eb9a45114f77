SPECIFICATION FairSpec
CONSTANTS
    n1 = n1
    n2 = n2
    Word = 64
    SyncAllowance = 1
    Bit <- MCBit
    Envelope <- MCEnvelope
    NoEnvelope = NoEnvelope
    Node = {n1, n2}
    Link <- MCLink
    SettingsOf <- MCSettingsOf
    WireLimit = 1
    Network <- MCNetwork
INVARIANTS
    TypeOK
    KnownIsShared
    SentOnceWhileAlive
    AcknowledgedIsProcessed
PROPERTY Propagates
CHECK_DEADLOCK FALSE
