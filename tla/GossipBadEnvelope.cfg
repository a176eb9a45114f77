SPECIFICATION Spec
CONSTANTS
    n1 = n1
    n2 = n2
    Word = 64
    SyncAllowance = 1
    Bit <- MCBit
    Envelope <- MCEnvelope
    NoEnvelope = NoEnvelope
    Node = {n1, n2}
    Link <- MCLink
    SettingsOf <- MCSettingsOf
    WireLimit = 1
    Network <- MCSilent
INVARIANT BadEnvelopeDisconnects
CHECK_DEADLOCK FALSE
