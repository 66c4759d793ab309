SPECIFICATION ReserveSpec
CONSTANTS
    Order = {"a", "b"}
    Variant = {"x", "y"}
    Location = {1, 2}
    Line = {1, 2, 3, 4, 5}
    OrderOf <- TwoOrders
    Registered = {"a"}
    VariantOf <- CrossedVariants
    Wanted <- Quantities
    LevelId <- LevelIds
    Report <- Capped
    FirstLevel <- Two
    MaxCycle <- Cycles
    MaxReports = 1
    Sayings <- Quantity
    MaxEvents = 2
    None = None
CHECK_DEADLOCK FALSE
INVARIANTS TypeOK StateFollowsRows OneReservationHolds NoMutualWait
PROPERTIES NeverOversold HandedOnlyHeld
