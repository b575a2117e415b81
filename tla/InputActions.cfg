SPECIFICATION Spec

CONSTANTS
    None = None
    MaxInstant = 1
    AuthorizationLifetime = 1
    TicketLifetime = 1
    MaxViewSuspension = 1
    MaxLiveInputTickets = 1
    MaxGeneration = 1
    LeaseIds = {l1}
    TicketIds = {1, 2}
    Nonces = {}
    Sequences = {s1}
    Owners = {o1, o2}
    LeaseId = l1
    FirstTicket = 1
    Me = o1
    Other = o2
    MaxSequence = 1
    ReceiptCapacity = 1
    Events = {"ModeRelative", "Pointer", "Relative", "KeyPress", "KeyRepeat", "ButtonPress", "ButtonRelease", "Lines", "Text"}
    MaxPointer = 0
    MaxEpoch = 1
    Snapshots = {0}
    RepeatRequiresPair = TRUE
    HasRenewer = FALSE

INVARIANTS
    HeldCoversNative
    ReceiptIsTrue
    RingsAgree
PROPERTIES
    AuthorizedIsCurrent
