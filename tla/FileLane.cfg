SPECIFICATION FairSpec
CONSTANTS
    None = None
    Files = {1, 2}
    Size <- MCSize
    KeepBoth = TRUE
    MaxConflicts = 1
    MaxTransfers = 1
    MaxFlight = 2
    MaxFaults <- MCFaults
INVARIANTS
    FencedNotPublished
    CleanupReportIsTrue
PROPERTIES
    ImplementsFileDelivery
    LaneSettles
CHECK_DEADLOCK FALSE
