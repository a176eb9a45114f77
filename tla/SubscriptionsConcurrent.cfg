SPECIFICATION Spec
CONSTANTS
    Topic <- MCTopic
    Bit <- MCBit
    TopicToBloom <- MCTopicToBloom
    Criteria <- MCTopicCriteria
    Envelope <- MCEnvelope
    AnySource = "any"
    Id = {i1, i2, i3}
    Subscriber = {s1, s2}
    InitialBloom <- MCNoBloom
    UserBloom <- MCNoUserBloom
INVARIANTS
    AdvertisedCoversTopics
