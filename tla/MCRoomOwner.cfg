SPECIFICATION MCSpec
CONSTANTS
    None = None
    Ids = {1, 2, 3}
    MinPlayersToStart = 2
    MaxPlayersAllowed = 3
    DefaultMaxPlayers = 3
    MaxSpectators = 1
    MaxRound = 1
    MaxAfk = 0
    Settings <- MCSettings
    PresetSettings <- MCPresets
    StandardSettings <- Standard
PROPERTIES
    OnlineOwner
CHECK_DEADLOCK FALSE
