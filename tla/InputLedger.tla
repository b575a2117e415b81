------------------------------ MODULE InputLedger ------------------------------
(***************************************************************************)
(* The ledger under any sequence of requests: in order, repeated, skipped, *)
(* for another lease, with outcomes that come late, after a fence, or for  *)
(* an action that is not pending.                                          *)
(*                                                                         *)
(* `ledger` is the program state.  `executed` is history: the outcomes of  *)
(* the admitted actions in the order of their admission, the last one      *)
(* "Pending" until it is known.                                            *)
(***************************************************************************)
EXTENDS SequenceLedger, Sequences

VARIABLES ledger, executed

vars == <<ledger, executed>>

Executions == Seq(InputOutcomes \cup {"Pending"})

\* The type of every variable.
TypeOK ==
    /\ ledger \in LedgerType
    /\ executed \in Executions

Init ==
    /\ \E lease \in Leases : ledger = NewLedger(lease)
    /\ executed = <<>>

\* InputSequenceLedger::admit
AdmitAction(lease, sequence) ==
    /\ ledger' = Admit(ledger, lease, sequence)
    /\ executed' = IF Admission(ledger, lease, sequence) = "Admitted"
                   THEN Append(executed, "Pending") ELSE executed

\* InputSequenceLedger::record_outcome
RecordAction(lease, sequence, outcome) ==
    /\ ledger' = RecordOutcome(ledger, lease, sequence, outcome)
    /\ executed' = IF ledger.lease = lease /\ ledger.pending = sequence
                   THEN [executed EXCEPT ![Len(executed)] = outcome]
                   ELSE executed

\* InputSequenceLedger::fence
FenceAction ==
    /\ ledger' = Fence(ledger)
    /\ UNCHANGED executed

Next ==
    \/ \E lease \in Leases, sequence \in SequenceNumbers :
          \/ AdmitAction(lease, sequence)
          \/ \E outcome \in InputOutcomes : RecordAction(lease, sequence, outcome)
    \/ FenceAction

Spec == Init /\ [][Next]_vars

-----------------------------------------------------------------------------
(* Safety.                                                                 *)

\* Actions are admitted once each, in order and without a gap: the n-th
\* admitted action is the one numbered n - 1, and only the newest admitted
\* action can be unresolved, through duplicates, exhaustion and eviction.
AdmittedInOrder ==
    /\ ledger.next_sequence =
          IF Len(executed) = MaxSequence + 1 THEN NoSequence ELSE Len(executed)
    /\ Len(executed) <= MaxSequence + 1
    /\ \A i \in 1..Len(executed) : (executed[i] = "Pending") <=> (ledger.pending = i - 1)
    /\ ledger.pending # NoSequence => ledger.pending = Len(executed) - 1

\* An action that did not succeed is the last one: whatever is sent later, no
\* dependent action is admitted behind a refused, partial or unknown one.
FailureIsLast ==
    \A i \in 1..(Len(executed) - 1) : executed[i] \in Successes

\* The answer for a consumed sequence is its own outcome as long as it is one
\* of the last ReceiptCapacity recorded ones, and never another action's; an
\* evicted receipt still answers that the sequence was consumed.
AnswersAreTrue ==
    \A i \in 1..Len(executed) :
        LET answer == Admission(ledger, ledger.lease, i - 1)
            successor == i + ReceiptCapacity
            evicted == successor <= Len(executed) /\ executed[successor] # "Pending"
        IN /\ executed[i] = "Pending" => answer = "InFlight"
           /\ executed[i] # "Pending" /\ ~ evicted =>
                 /\ answer = "Completed"
                 /\ RetainedOutcome(ledger, i - 1) = executed[i]
           /\ evicted => answer = "ConsumedWithoutReceipt"

\* A fence, whoever set it, and an action that failed end the lease's input: from then
\* on the ledger is fenced and nothing is admitted.  The outcome of an action that was
\* outstanding when the fence came is still recorded (record_outcome), and recording
\* it, even a success, reopens nothing.
NothingBehindFence ==
    [][ledger.fenced \/ (\E i \in 1..Len(executed) : executed[i] \notin Successes \cup {"Pending"}) =>
          /\ ledger'.fenced
          /\ Len(executed') = Len(executed)]_vars

=============================================================================
