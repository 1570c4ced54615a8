SPECIFICATION MCSpec
CONSTANTS
    None = None
    Ids = {1, 2, 3}
    MinPlayersToStart = 2
    MaxPlayersAllowed = 3
    DefaultMaxPlayers = 3
    MaxSpectators = 1
    MaxRound = 1
    MaxAfk = 1
    Settings <- MCSettings
    PresetSettings <- MCPresets
    StandardSettings <- Standard
INVARIANTS
    TypeOK
    OwnerSeated
    MatchHasOnlineOwner
    Capacity
    CleanLobby
PROPERTIES
    SeatsFixed
    DeadStayDead
    StartersAgreed
CHECK_DEADLOCK FALSE
