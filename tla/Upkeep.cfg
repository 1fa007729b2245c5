SPECIFICATION Spec
CONSTANTS
    MaxErrors = 3
    MaxConnections = 2
    Submitters = {game, net}
    Queries = {ban, unban, market}
    Callbacks = {market}
    NoQuery = none
    MaxSession = 2
    HasAccess = FALSE
    None = None
    Traders = {t1, t2}
    OfferIds = {1}
    StartGold = 2
    StartGoods = 1
    Prices = {1}
    Amounts = {1, 2}
    Fee = 1
    MaxResults = 1
    NoOffer = NoOffer
    Decaying = {i1}
    Durations = {3, 8, 14, 15}
    MaxEntries = 2
    Blocks = {1, 2}
    Bodies = {m1, m2, m3, m4}
    RateSpawn = 1
    RaidNames = {1}
    OnlyOnce = {1}
    MaxRaidEvents = 2
    MaxLoads = 2
    NoRaid = NoRaid
    MaxSteps = 2
    MaxEvents = 2
    MaxOrders = 1
INVARIANTS
    ServerSound QueueSound DecaySound SpawnSound
PROPERTIES
    ServerGoesOn EveryQueryRuns PlayersGoOn WorldGoesOn
CHECK_DEADLOCK FALSE
