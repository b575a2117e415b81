SPECIFICATION Spec
CONSTANTS
    Owners = {o1}
    Guards = {}
    MaxInhibitions = 1
    MaxEpoch = 1
    MaxCommands = 2
    None = None
INVARIANTS
    CommandsAreAnswered
    SafeReportIsTrue
PROPERTIES
    StoppedIsCleaned
    AbandonedFinishes
CHECK_DEADLOCK FALSE
