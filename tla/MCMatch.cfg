SPECIFICATION MCFairSpec
CONSTANTS
    None = None
    Ids = {1, 2, 3, 4}
    Enabled = {"KILLER", "DOCTOR", "SHOOTER"}
    Reveals = {TRUE, FALSE}
    Owners = {1, 2}
    MinPlayersToStart = 2
    MaxPlayersAllowed = 4
    DefaultMaxPlayers = 4
    MaxSpectators = 1
    Ballots = {None, 1, 2, 3, 4}
    MaxRound = 2
    Settings <- MCSettings
    PresetSettings <- MCSettings
    StandardSettings <- Dealer
INVARIANTS
    UndecidedPlay
    SomeoneToWaitFor
    BallotsLive
    RolesSecret
    OffersHonoured
PROPERTIES
    ResultIsRight
    ImplementsMatch
    EveryPhaseEnds
    HiddenMoves
