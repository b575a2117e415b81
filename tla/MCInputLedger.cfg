SPECIFICATION Spec

CONSTANTS
    NoSequence = NoSequence
    MaxSequence = 4
    ReceiptCapacity = 2
    Leases = {l1, l2}

INVARIANT
    AnswersAreTrue
PROPERTY
    NothingBehindFence
