SPECIFICATION Spec
CONSTANTS
    Topic <- MCTopic
    Bit <- MCBit
    TopicToBloom <- MCTopicToBloom
    Criteria <- MCCriteria
    Envelope <- MCEnvelope
    AnySource = "any"
    Id = {i1, i2, i3}
    Subscriber = {s1}
    InitialBloom <- MCNoBloom
    UserBloom <- MCUserBloom
INVARIANTS
    TypeOK
    MatchersIndexWatchers
    StoredIsMatched
    AdvertisedCoversTopics
SYMMETRY MCSymmetry
