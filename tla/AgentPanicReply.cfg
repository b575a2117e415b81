SPECIFICATION Spec
CONSTANTS
    Owners = {o1}
    Guards = {}
    MaxInhibitions = 1
    MaxEpoch = 1
    MaxCommands = 1
    None = None
INVARIANT
    PanicReplyMeansPanic
CHECK_DEADLOCK FALSE
