SPECIFICATION Spec
CONSTANTS
    Players = {a, b, c, d}
    Privileged = {d}
    MaxPlayers = 3
    Overwritten = Overwritten
    MaxEntries = 3
    RaidNames = {1, 2}
    OnlyOnce = {1}
    MaxRaidEvents = 2
    MaxLoads = 2
    NoRaid = NoRaid
    GlobalNames = {1, 2}
    Callbacks = {1, 2, 3, 4}
    NumberLimit = 2
    NoCallback = NoCallback
SYMMETRY Symmetry
INVARIANTS
    ListsSound RaidsSound ScriptsSound
PROPERTIES
    SeatsGoByTheLists
CHECK_DEADLOCK FALSE
