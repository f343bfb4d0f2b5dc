SPECIFICATION Spec
CONSTANTS
    w1 = w1
    w2 = w2
    w3 = w3
    w4 = w4
    u = u
    Witness = {w1, w2, w3, w4, u}
    Reliable = {w1, w2, w3, w4}
    ActiveSets <- FourOfFive
    Intervals = {2, 3}
    GenesisTime = 7
    MaintenanceInterval = 24
    MaintenanceSkipSlots = 1
    MaxUndoHistory = 20
    MaxBlocks = 11
    MaxMissed = 1
SYMMETRY Symmetry
INVARIANTS
    EveryWitnessHasATurn
    IrreversibleKeepsUp
PROPERTIES
    IrreversibleIsConfirmed
CHECK_DEADLOCK FALSE
