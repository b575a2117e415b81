SPECIFICATION Spec
CONSTANTS
    Owners = {o1, o2}
    Guards = {g1, g2}
    MaxInhibitions = 2
    MaxEpoch = 2
    MaxCommands = 0
    None = None
INVARIANTS
    SeatIsExclusive
    OverlappedNeverStarts
PROPERTIES
    ImplementsExclusiveSeat
SYMMETRY Symmetry
CHECK_DEADLOCK FALSE
