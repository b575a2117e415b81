SPECIFICATION Spec

CONSTANTS
    None = None
    MaxInstant = 3
    AuthorizationLifetime = 2
    TicketLifetime = 1
    MaxViewSuspension = 1
    MaxLiveInputTickets = 1
    MaxGeneration = 0
    LeaseIds = {l1}
    TicketIds = {1}
    Nonces = {n1}
    Sequences = {s1}
    Owners = {o1, o2}
    LeaseId = l1
    FirstTicket = 1
    Me = o1
    Other = o2
    MaxSequence = 0
    ReceiptCapacity = 1
    Events = {"ButtonPress"}
    MaxPointer = 0
    MaxEpoch = 0
    Snapshots = {}
    RepeatRequiresPair = TRUE
    HasRenewer = TRUE

INVARIANTS
    ReleasedSuspensionHoldsNothing
    AtMostOneLateEffect
PROPERTIES
    SuspensionResolved
    RevokedNeverRenewed
