SPECIFICATION MCSpec
CONSTANTS
    None = None
    Ids = {1, 2, 3, 4, 5}
    Enabled = {"KILLER", "DETECTIVE", "DOCTOR", "ESCORT"}
    Reveals = {FALSE}
    Owners = {1, 2, 3, 4, 5}
    MinPlayersToStart = 2
    MaxPlayersAllowed = 5
    DefaultMaxPlayers = 5
    MaxSpectators = 1
    Ballots = {None}
    MaxRound = 2
    Settings <- MCSettings
    PresetSettings <- MCSettings
    StandardSettings <- Dealer
INVARIANTS
    InvestigationsTrue
    

    
