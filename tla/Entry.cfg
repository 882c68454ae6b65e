SPECIFICATION PersistentSpec
CONSTANTS
    w1 = w1
    Switch = {w1}
    None = None
    MaxMoves = 1
    MaxRotations = 1
INVARIANTS
    TypeOK
    LoadedIsCurrent
    Repairable
    WorksWithinEntry
    FlowFitsEntry
PROPERTIES
    AddressNeverReverts
    EntryServed
