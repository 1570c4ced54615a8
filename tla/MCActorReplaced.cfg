SPECIFICATION MCSpec
CONSTANTS
    None = None
    Terminal = Terminal
    a1 = a1
    a2 = a2
    b1 = b1
    Slots = {a1, a2, b1}
    Conns = {a1, a2, b1}
    who <- MCWho
    QueueSize = 2
    RoundBound = 1
    Ids = {1, 2}
    MinPlayersToStart = 2
    MaxPlayersAllowed = 2
    DefaultMaxPlayers = 2
    MaxSpectators = 1
    Settings <- MCSettings
    PresetSettings <- MCSettings
    StandardSettings <- Standard
INVARIANTS
    SubscribersOnline
CHECK_DEADLOCK FALSE
