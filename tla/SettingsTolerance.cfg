SPECIFICATION Spec
CONSTANTS
    Input <- MCInput
    Level = {1, 2}
    Topic = {t1, t2}
    Filter <- MCFilter
    WrongSize = WrongSize
    Kind = {"pow"}
    Unset = Unset
    Config = {1}
    DefaultPow = 2
    SyncAllowance = 3
    Setter = {s1}
    Peer = {p1}
    Delay = 1
    WireLimit = 2
    SleeperLimit = 2
SYMMETRY MCSymmetry
INVARIANT GoodFaithAccepted
CHECK_DEADLOCK FALSE
