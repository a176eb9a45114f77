SPECIFICATION Spec
CONSTANTS
    Input <- MCInput
    Level = {1, 2}
    Topic = {t1, t2}
    Filter <- MCFilter
    WrongSize = WrongSize
    Kind = {"pow", "bloom"}
    Unset = Unset
    Config = {1, 2}
    DefaultPow = 2
    SyncAllowance = 3
    Setter = {s1}
    Peer = {p1, p2}
    Delay = 1
    WireLimit = 2
    SleeperLimit = 2
SYMMETRY MCSymmetry
INVARIANTS
    TypeOK
    QuietViewCurrent
    PolitePeerAccepted
CHECK_DEADLOCK FALSE
