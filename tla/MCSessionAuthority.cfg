SPECIFICATION Spec
CONSTANTS
    None = None
    MaxInstant = 4
    AuthorizationLifetime = 2
    TicketLifetime = 2
    MaxViewSuspension = 2
    MaxLiveInputTickets = 2
    MaxGeneration = 0
    LeaseIds = {l1, l2}
    TicketIds = {0, 1, 2}
    Nonces = {n1, n2}
    Sequences = {1}
    Owners = {o1}
SYMMETRY Identities
INVARIANTS
    AuthorityDatedAtEvidence
    SuspendedExactlyWithoutView
    SubmissionRestsOnRecentEvidence
    SubmissionDeadlineExact
PROPERTIES
    FenceIsTerminal
    SuspensionRevivedOnlyAfterRelease
