SPECIFICATION Spec
CONSTANTS
    Humans = {p}
    Monsters = {a, b}
    Rooms = {r1, r2}
    NoCreature = NoCreature
    MaxItems = 3
    MaxStanding = 1
    NoItem = NoItem
    MaxTicks = 2
    MaxDeferred = 1
    NoCondition = NoCondition
SYMMETRY Symmetry
INVARIANTS
    CreaturesSound TilesSound ConditionsSound
CHECK_DEADLOCK FALSE
