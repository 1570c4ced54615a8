SPECIFICATION MCSpec
CONSTANTS
    None = None
    Conns = {c1, c2}
    MaxPending = 2
    QueueSize = 1
    MaxSequence = 2
    MaxFaults = 2
CHECK_DEADLOCK FALSE
INVARIANT EventsAcknowledged
