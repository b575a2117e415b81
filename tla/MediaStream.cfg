SPECIFICATION MCSpec
CONSTANTS
    None = None
    MaxInstant = 4
    Fragments = 2
    CachedPictures = 2
    ReferenceHorizon = 2
    RecoveryHorizon = 1
    SenderRepairGap = 1
    MaxRepairRounds = 1
    RepairWindow = 9
    RepairCredit = 1
    MaxRecoveries = 1
    RecoveryWindow = 1
    ActiveSlots = 2
    ReferenceBudget = 2
    RecoveryBudget = 1
    RepairDelay = 1
    RepairInterval = 1
    MaxAttempts = 1
    MaxFrame = 3
    IdrFrames = {3}
    MaxEpoch = 1
INVARIANTS
    EndsOnlyByBudget
    ReferenceOrderKept
    GenerationsAgree
PROPERTY
    LossIsResolved
CHECK_DEADLOCK FALSE
