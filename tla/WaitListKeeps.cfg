SPECIFICATION WaitListSpec
CONSTANTS
    Players = {a, b, c, d}
    Privileged = {d}
    MaxPlayers = 2
    Overwritten = Overwritten
    MaxEntries = 2
PROPERTIES
    KeepsPlace
CHECK_DEADLOCK FALSE
