---------------------------- MODULE SequenceLedger ----------------------------
(***************************************************************************)
(* The input sequence ledger: which reliable actions of one input lease    *)
(* were consumed, the one that is unresolved, and a ring of recent         *)
(* outcomes.  One operator per method.  MaxSequence stands for u64::MAX:   *)
(* after consuming it there is no next sequence.                           *)
(***************************************************************************)
EXTENDS Integers

CONSTANTS NoSequence,       \* the Option::None of this ledger
          MaxSequence,      \* the largest sequence number
          ReceiptCapacity,  \* receipts retained
          Leases            \* lease identities

ASSUME LedgerAssumption ==
    /\ MaxSequence \in Nat
    /\ ReceiptCapacity \in Nat \ {0}
    /\ NoSequence \notin Int

SequenceNumbers == 0..MaxSequence
ReceiptSlots == 0..(ReceiptCapacity - 1)

Successes == {"SubmittedToOs", "AppliedLocally"}
InputOutcomes ==
    Successes \cup {"RejectedBeforeSubmission", "ExpiredBeforeSubmission",
                    "CancelledBeforeSubmission", "PartiallySubmittedToOs",
                    "EffectUnknown"}

\* An empty slot is a receipt for no sequence.
Receipts == [sequence : SequenceNumbers \cup {NoSequence}, outcome : InputOutcomes]
EmptyReceipt == [sequence |-> NoSequence, outcome |-> "EffectUnknown"]

LedgerType ==
    [lease : Leases,
     next_sequence : SequenceNumbers \cup {NoSequence},
     pending : SequenceNumbers \cup {NoSequence},
     receipts : [ReceiptSlots -> Receipts],
     receipt_cursor : ReceiptSlots,
     fenced : BOOLEAN]

NewLedger(lease) ==
    [lease |-> lease, next_sequence |-> 0, pending |-> NoSequence,
     receipts |-> [s \in ReceiptSlots |-> EmptyReceipt],
     receipt_cursor |-> 0, fenced |-> FALSE]

\* The slots that hold a receipt for `sequence`.
Retaining(l, sequence) == {s \in ReceiptSlots : l.receipts[s].sequence = sequence}

Consumed(l, sequence) == l.next_sequence = NoSequence \/ sequence < l.next_sequence

\* Faulty variant: the consumed floor is not consulted.
AdmissionByReceipts(l, lease, sequence) ==
    IF lease # l.lease THEN "StaleLease"
    ELSE IF l.pending = sequence THEN "InFlight"
    ELSE IF Retaining(l, sequence) # {} THEN "Completed"
    ELSE IF l.fenced THEN "Fenced"
    ELSE IF l.pending # NoSequence THEN "PreviousActionPending"
    ELSE IF sequence # l.next_sequence THEN "SequenceGap"
    ELSE "Admitted"

\* The answer of admit, in the order in which the code decides it.
Admission(l, lease, sequence) ==
    IF lease # l.lease THEN "StaleLease"
    ELSE IF l.pending = sequence THEN "InFlight"
    ELSE IF Retaining(l, sequence) # {} THEN "Completed"
    ELSE IF Consumed(l, sequence) THEN "ConsumedWithoutReceipt"
    ELSE IF l.fenced THEN "Fenced"
    ELSE IF l.pending # NoSequence THEN "PreviousActionPending"
    ELSE IF sequence # l.next_sequence THEN "SequenceGap"
    ELSE "Admitted"

\* The outcome a Completed answer carries.
RetainedOutcome(l, sequence) ==
    l.receipts[CHOOSE s \in Retaining(l, sequence) :
                  \A r \in Retaining(l, sequence) : s <= r].outcome

\* checked_add(1)
Successor(sequence) == IF sequence = MaxSequence THEN NoSequence ELSE sequence + 1

\* A gap fences; the next sequence is consumed before anything is submitted.
Admit(l, lease, sequence) ==
    CASE Admission(l, lease, sequence) = "Admitted" ->
           [l EXCEPT !.next_sequence = Successor(sequence), !.pending = sequence]
      [] Admission(l, lease, sequence) = "SequenceGap" ->
           [l EXCEPT !.fenced = TRUE]
      [] OTHER -> l

\* Faulty variant: the outcome alone decides, so that a success recorded after a
\* fence lifts it.
RecordOutcomeReopens(l, lease, sequence, outcome) ==
    IF lease = l.lease /\ l.pending = sequence
    THEN [l EXCEPT
            !.pending = NoSequence,
            !.receipts[l.receipt_cursor] =
                [sequence |-> sequence, outcome |-> outcome],
            !.receipt_cursor = (@ + 1) % ReceiptCapacity,
            !.fenced = outcome \notin Successes]
    ELSE l

\* Exactly the pending action gets an outcome, fenced or not; anything but
\* success fences what would follow it.
RecordOutcome(l, lease, sequence, outcome) ==
    IF lease = l.lease /\ l.pending = sequence
    THEN [l EXCEPT
            !.pending = NoSequence,
            !.receipts[l.receipt_cursor] =
                [sequence |-> sequence, outcome |-> outcome],
            !.receipt_cursor = (@ + 1) % ReceiptCapacity,
            !.fenced = @ \/ outcome \notin Successes]
    ELSE l

Fence(l) == [l EXCEPT !.fenced = TRUE]

=============================================================================
