SPECIFICATION ChatSpec
CONSTANTS
    Chatters = {a, b}
    GroupIds = {1}
    MaxPrivate = 1
    NoChannel = NoChannel
    NoGroup = NoGroup
INVARIANTS
    PartyHearsParty
CHECK_DEADLOCK FALSE
