SPECIFICATION Spec
CONSTANTS
    MaxSession = 3
    HasAccess = FALSE
    None = None
    MaxSteps = 2
    MaxEvents = 2
    MaxOrders = 2
    Refilled = 2
    MaxSaves = 2
    Tries = 3
    Traders = {t1, t2}
    OfferIds = {1, 2}
    StartGold = 3
    StartGoods = 1
    Prices = {1}
    Amounts = {1, 2}
    Fee = 1
    MaxResults = 1
    NoOffer = NoOffer
INVARIANTS
    LoginSound WalkingSound SavingSound MarketSound
PROPERTIES
    OwnersPaidInAdvance
SYMMETRY Symmetry
CHECK_DEADLOCK FALSE
