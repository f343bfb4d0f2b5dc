SPECIFICATION RoomsSpec
CONSTANTS
    Slots = {s1}
    MaxRooms = 2
    MaxTables = 3
    RoomsLimit = 2
    TablesLimit = 2
    AlivePeriods = 2
    MinWeight = 0
    MaintenanceMinutes <- Hour
    Moments <- SomeMoments
    ROOM_RATING_PRECISION <- Precision
    FadedTime <- FadedHours
    QuantityFactor <- OneMeasurement
INVARIANTS
    WeightsAreCurrent
    OnlyAliveTablesAreOffered
PROPERTIES
    RatingsAreRevised
CHECK_DEADLOCK FALSE
