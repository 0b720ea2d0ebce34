CONSTANTS
    p1 = p1  p2 = p2  s1 = s1  s2 = s2
    Subjects = {"web"}
    Publishers <- MCPublishers
    Subscribers <- MCSubscribers
    Buffers <- MCBuffers
    MaxPuts = 2
SPECIFICATION FairSpec
INVARIANT NeverPanics
INVARIANT LogInPublisherOrder
INVARIANT QuietNewsComplete
PROPERTY PublishEnds
