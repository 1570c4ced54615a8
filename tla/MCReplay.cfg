SPECIFICATION MCFairSpec
CONSTANTS
    None = None
    Conns = {c1, c2}
    MaxPending = 2
    QueueSize = 1
    MaxSequence = 2
    MaxFaults = 3
CHECK_DEADLOCK FALSE
INVARIANTS
    ReplayTypeOK
    NothingLost
    FreshSequences
    QuietMeansSettled
PROPERTIES
    PendingSettles
    ImplementsDelivery
