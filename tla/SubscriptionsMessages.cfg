SPECIFICATION Spec
CONSTANTS
    Topic <- MCTopic
    Bit <- MCBit
    TopicToBloom <- MCTopicToBloom
    Criteria <- MCMessagesCriteria
    Envelope <- MCEnvelope
    AnySource = "any"
    Id = {i1, i2, i3}
    Subscriber = {s1}
    InitialBloom <- MCNoBloom
    UserBloom <- MCUserBloom
SYMMETRY MCSymmetry
INVARIANT StoredIsWanted
