SPECIFICATION Spec
CONSTANTS
    id1 = id1
    id2 = id2
    name1 = name1
    name2 = name2
    k1 = k1
    k2 = k2
    Id = {id1, id2}
    Name = {name1, name2}
    Derived <- MCDerived
    Identity = {k1, k2}
    PublicKey <- MCPublicKey
    SymKey = {s1, zero, short}
    AesKey = {s1, zero}
    ZeroKey = zero
    Caller = {c1}
    Nobody = Nobody
    Stranger = Stranger
    NoName = NoName
    Base = 4
    PadLimit = 11
    SigLength = 2
    Word = 1000
    SyncAllowance = 1
    Request <- MCRequest
    Topic = {0, 1, 2}
    NoTopic = 0
    NodeBloom = {0, 1}
    DefaultTTL = 2
    Header = 3
    Overhead = 2
    RlpOverhead <- MCRlpOverhead
    MaxMessageSize = 60
    HashBits = 5
    Level = {0, 2}
    Poster = {p1}
    MaxTime = 2
    MaxPosts = 1
INVARIANTS
    ReadAsPosted
    LengthHidden
    WorkAccepted
    LeavesOnTime
PROPERTIES
    ImplementsKeyMap
CHECK_DEADLOCK FALSE
