SPECIFICATION Spec
CONSTANTS
    None = None
    Host = Host
    Controller = Controller
    Chunks = 1
    MaxInflight = 8
    Plans <- SafetyPlans
INVARIANTS
    OfferedOnce
PROPERTIES
    NewerCopySurvives
    ItemsTravelWhole
    OffCancelsItem
CHECK_DEADLOCK FALSE
