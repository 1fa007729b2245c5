SPECIFICATION Spec
CONSTANTS
    TradePlayers = {a, b, c}
    TradeItems = {bag, gem, coin}
    Bag = bag
    Nobody = Nobody
    Nothing = Nothing
    Ground = Ground
    HandRoom = 1
    Companions = {a, b, c, d}
    PartyIds = {i1, i2}
    NoLeader = NoLeader
    NoParty = NoParty
    Boxes = {locker, pouch, sack}
    Roots = {locker}
    Locker = locker
    Stacks = {1, 2, 3}
    FullStack = 2
    Capacity = 2
    NoThing = NoThing
    Chatters = {a, b, c}
    GroupIds = {g1, g2}
    MaxPrivate = 2
    NoChannel = NoChannel
    NoGroup = NoGroup
SYMMETRY Symmetry
INVARIANTS
    TradeSound PartySound ChatSound ContainersSound
PROPERTIES
    BothOrNothing PartiesOutliveLeavers PiecesConserved
CHECK_DEADLOCK FALSE
