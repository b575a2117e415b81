SPECIFICATION FairSpec
CONSTANTS
    None = None
    Host = Host
    Controller = Controller
    Chunks = 1
    MaxInflight = 8
    Plans <- ErasePlans
PROPERTIES
    TextIsErased
CHECK_DEADLOCK FALSE
