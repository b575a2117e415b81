--------------------------- MODULE InputLedgerProofs ---------------------------
(***************************************************************************)
(* At-most-once, in-order admission for every capacity and sequence range. *)
(*                                                                         *)
(* AdmittedInOrder is not inductive by itself: an admission behind a       *)
(* failed action is excluded only because that failure fenced the ledger.  *)
(* The answers follow from what the ring of receipts holds, counted back   *)
(* from its cursor.                                                        *)
(***************************************************************************)
EXTENDS InputLedger, TLAPS

\* Everything before the newest action succeeded, and a newest action that
\* failed has fenced the ledger.
FailureFenced ==
    \A i \in 1..Len(executed) :
        \/ executed[i] \in Successes
        \/ i = Len(executed) /\ (executed[i] = "Pending" \/ ledger.fenced)

IInv == TypeOK /\ AdmittedInOrder /\ FailureFenced

\* Outcomes never read "Pending".
LEMMA OutcomesKnown == "Pending" \notin InputOutcomes /\ Successes \subseteq InputOutcomes
  BY DEF InputOutcomes, Successes

\* A new ledger satisfies the invariant.
LEMMA InitIInv == Init => IInv
<1> SUFFICES ASSUME Init PROVE IInv OBVIOUS
<1>1. PICK lease \in Leases : ledger = NewLedger(lease) BY DEF Init
<1>2. executed = <<>> /\ Len(executed) = 0 /\ executed \in Executions
  BY DEF Init, Executions
<1>3. 0 \in ReceiptSlots /\ 0 \in SequenceNumbers
  BY LedgerAssumption DEF ReceiptSlots, SequenceNumbers
<1>4. EmptyReceipt \in Receipts BY DEF EmptyReceipt, Receipts, InputOutcomes
<1>5. ledger \in LedgerType
  BY <1>1, <1>3, <1>4 DEF NewLedger, LedgerType
<1>6. ledger.next_sequence = 0 /\ ledger.pending = NoSequence
  BY <1>1 DEF NewLedger
<1>7. AdmittedInOrder
  BY <1>2, <1>6, LedgerAssumption DEF AdmittedInOrder
<1> QED BY <1>2, <1>5, <1>7 DEF IInv, TypeOK, FailureFenced

\* An admission takes the next sequence of an idle, unfenced ledger.
LEMMA AdmittedFacts ==
    ASSUME NEW lease, NEW sequence \in SequenceNumbers,
           Admission(ledger, lease, sequence) = "Admitted"
    PROVE  /\ ~ ledger.fenced /\ ledger.pending = NoSequence
           /\ sequence = ledger.next_sequence /\ ledger.next_sequence # NoSequence
  BY DEF Admission, Consumed

\* admit keeps the invariant.
LEMMA AdmitStep ==
    ASSUME IInv, NEW lease \in Leases, NEW sequence \in SequenceNumbers,
           AdmitAction(lease, sequence)
    PROVE  IInv'
<1> USE DEF IInv
<1>0. ledger \in LedgerType /\ executed \in Executions BY DEF TypeOK
<1>1. CASE Admission(ledger, lease, sequence) = "Admitted"
  <2>1. /\ ~ ledger.fenced /\ ledger.pending = NoSequence
        /\ sequence = ledger.next_sequence /\ ledger.next_sequence # NoSequence
    BY <1>1, AdmittedFacts
  <2>2. ledger' = [ledger EXCEPT !.next_sequence = Successor(sequence),
                                 !.pending = sequence]
    BY <1>1 DEF AdmitAction, Admit
  <2>3. executed' = Append(executed, "Pending") BY <1>1 DEF AdmitAction
  <2>4. sequence = Len(executed) /\ Len(executed) <= MaxSequence
        /\ Len(executed) \in Nat /\ MaxSequence \in Nat
    BY <1>0, <2>1, LedgerAssumption DEF AdmittedInOrder, Executions
  <2>5. Successor(sequence) \in SequenceNumbers \cup {NoSequence}
    BY <2>4, LedgerAssumption DEF Successor, SequenceNumbers
  <2>6. ledger' \in LedgerType
    BY Zenon, <1>0, <2>2, <2>5 DEF LedgerType
  <2>7. /\ ledger'.next_sequence = Successor(sequence)
        /\ ledger'.pending = sequence /\ ledger'.fenced = ledger.fenced
    BY <1>0, <2>2 DEF LedgerType
  <2>8. /\ executed' \in Executions /\ Len(executed') = Len(executed) + 1
        /\ \A i \in 1..Len(executed) : executed'[i] = executed[i]
        /\ executed'[Len(executed) + 1] = "Pending"
    BY <1>0, <2>3 DEF Executions
  <2>9. \A i \in 1..Len(executed) : executed[i] # "Pending"
    BY <2>1, <2>4, LedgerAssumption DEF AdmittedInOrder
  <2>10. AdmittedInOrder'
    BY <2>4, <2>7, <2>8, <2>9, LedgerAssumption DEF AdmittedInOrder, Successor
  <2>11. FailureFenced'
    BY <2>1, <2>4, <2>8, <2>9 DEF FailureFenced
  <2> QED BY <2>6, <2>8, <2>10, <2>11 DEF TypeOK
<1>2. CASE Admission(ledger, lease, sequence) # "Admitted"
  <2>1. executed' = executed BY <1>2 DEF AdmitAction
  <2>2. ledger' = ledger \/ ledger' = [ledger EXCEPT !.fenced = TRUE]
    BY <1>2 DEF AdmitAction, Admit
  <2>3. /\ ledger' \in LedgerType /\ (ledger.fenced => ledger'.fenced)
        /\ ledger'.next_sequence = ledger.next_sequence
        /\ ledger'.pending = ledger.pending
    BY Zenon, <1>0, <2>2 DEF LedgerType
  <2> QED BY <1>0, <2>1, <2>3 DEF TypeOK, AdmittedInOrder, FailureFenced
<1> QED BY <1>1, <1>2

\* record_outcome keeps the invariant.
LEMMA RecordStep ==
    ASSUME IInv, NEW lease \in Leases, NEW sequence \in SequenceNumbers,
           NEW outcome \in InputOutcomes, RecordAction(lease, sequence, outcome)
    PROVE  IInv'
<1> USE DEF IInv
<1>0. ledger \in LedgerType /\ executed \in Executions BY DEF TypeOK
<1>1. CASE ledger.lease = lease /\ ledger.pending = sequence
  <2> DEFINE receipt == [sequence |-> sequence, outcome |-> outcome]
             cursor == (ledger.receipt_cursor + 1) % ReceiptCapacity
             fenced == ledger.fenced \/ outcome \notin Successes
             receipts == [ledger.receipts EXCEPT ![ledger.receipt_cursor] = receipt]
  <2>1. ledger' = [ledger EXCEPT
                     !.pending = NoSequence, !.receipts = receipts,
                     !.receipt_cursor = cursor, !.fenced = fenced]
    BY <1>1 DEF RecordAction, RecordOutcome
  <2>2. executed' = [executed EXCEPT ![Len(executed)] = outcome]
    BY <1>1 DEF RecordAction
  <2>3. receipt \in Receipts BY DEF Receipts
  <2>4. receipts \in [ReceiptSlots -> Receipts]
    BY <1>0, <2>3 DEF LedgerType
  <2>5. cursor \in ReceiptSlots
    BY <1>0, LedgerAssumption DEF LedgerType, ReceiptSlots
  <2>6. fenced \in BOOLEAN BY <1>0 DEF LedgerType
  <2> HIDE DEF receipt, cursor, fenced, receipts
  <2>7. ledger' \in LedgerType
    BY Zenon, <1>0, <2>1, <2>4, <2>5, <2>6 DEF LedgerType
  <2>8. /\ ledger'.pending = NoSequence /\ ledger'.fenced = fenced
        /\ ledger'.next_sequence = ledger.next_sequence
    BY <1>0, <2>1 DEF LedgerType
  <2>9. sequence = Len(executed) - 1 /\ Len(executed) \in Nat /\ Len(executed) > 0
    BY <1>0, <1>1, LedgerAssumption DEF AdmittedInOrder, Executions, SequenceNumbers
  <2>10. /\ executed' \in Executions /\ Len(executed') = Len(executed)
         /\ \A i \in 1..(Len(executed) - 1) : executed'[i] = executed[i]
         /\ executed'[Len(executed)] = outcome
    BY <1>0, <2>2, <2>9 DEF Executions
  <2>11. \A i \in 1..(Len(executed) - 1) : executed[i] # "Pending"
    BY <1>1, <2>9 DEF AdmittedInOrder
  <2>12. AdmittedInOrder'
    <3>1. \A i \in 1..Len(executed) : executed'[i] # "Pending"
      BY <2>9, <2>10, <2>11, OutcomesKnown
    <3>2. \A i \in 1..Len(executed) : i - 1 # NoSequence
      BY <2>9, LedgerAssumption
    <3> QED BY <2>8, <2>10, <3>1, <3>2 DEF AdmittedInOrder
  <2>13. FailureFenced'
    <3>1. outcome \in Successes \/ fenced BY DEF fenced
    <3>2. \A i \in 1..(Len(executed) - 1) : executed[i] \in Successes
      BY <2>9 DEF FailureFenced
    <3> QED BY <2>8, <2>9, <2>10, <3>1, <3>2 DEF FailureFenced
  <2> QED BY <2>7, <2>10, <2>12, <2>13 DEF TypeOK
<1>2. CASE ~ (ledger.lease = lease /\ ledger.pending = sequence)
  <2>1. UNCHANGED <<ledger, executed>>
    BY <1>2 DEF RecordAction, RecordOutcome
  <2> QED BY <2>1 DEF TypeOK, AdmittedInOrder, FailureFenced
<1> QED BY <1>1, <1>2

\* fence keeps the invariant.
LEMMA FenceStep ==
    ASSUME IInv, FenceAction
    PROVE  IInv'
<1>1. ledger \in LedgerType /\ executed' = executed
  BY DEF IInv, TypeOK, FenceAction
<1>2. /\ ledger' \in LedgerType /\ ledger'.fenced
      /\ ledger'.next_sequence = ledger.next_sequence
      /\ ledger'.pending = ledger.pending
  BY Zenon, <1>1 DEF FenceAction, Fence, LedgerType
<1> QED BY <1>1, <1>2 DEF IInv, TypeOK, AdmittedInOrder, FailureFenced

-----------------------------------------------------------------------------
(* The ring of receipts.                                                   *)

\* How many outcomes were recorded, and how many of them after the one that
\* is in slot s.
Recorded == IF ledger.pending = NoSequence THEN Len(executed) ELSE Len(executed) - 1
Age(s) ==
    IF s < ledger.receipt_cursor THEN ledger.receipt_cursor - 1 - s
    ELSE ledger.receipt_cursor - 1 - s + ReceiptCapacity

\* Going back from the cursor, the slots hold the newest outcomes in order.
RingExact ==
    \A s \in ReceiptSlots :
        LET sequence == Recorded - 1 - Age(s)
        IN ledger.receipts[s] =
              IF sequence >= 0 THEN [sequence |-> sequence, outcome |-> executed[sequence + 1]]
              ELSE EmptyReceipt

\* The cursor after one more receipt.
LEMMA CursorWraps ==
    ASSUME NEW c \in ReceiptSlots
    PROVE  (c + 1) % ReceiptCapacity = IF c + 1 = ReceiptCapacity THEN 0 ELSE c + 1
  BY LedgerAssumption DEF ReceiptSlots

LEMMA InitRing == Init => RingExact
<1> SUFFICES ASSUME Init, NEW s \in ReceiptSlots
             PROVE  ledger.receipts[s] = EmptyReceipt /\ ~ (Recorded - 1 - Age(s) >= 0)
  BY DEF RingExact
<1>1. PICK lease \in Leases : ledger = NewLedger(lease) BY DEF Init
<1>2. executed = <<>> /\ Len(executed) = 0 BY DEF Init
<1> QED BY <1>1, <1>2, LedgerAssumption DEF NewLedger, Recorded, Age, ReceiptSlots

\* An admission and a fence touch no receipt; an outcome goes to the cursor.
LEMMA RingStep ==
    ASSUME IInv, RingExact, [Next]_vars
    PROVE  RingExact'
<1>0. /\ ledger \in LedgerType /\ executed \in Executions
      /\ Len(executed) \in Nat /\ ReceiptCapacity \in Nat \ {0}
      /\ ledger.receipt_cursor \in ReceiptSlots
  BY LedgerAssumption DEF IInv, TypeOK, Executions, LedgerType
<1>1. ASSUME ledger'.receipts = ledger.receipts, ledger'.receipt_cursor = ledger.receipt_cursor,
             Recorded' = Recorded, \A i \in 1..Recorded : executed'[i] = executed[i]
      PROVE  RingExact'
  <2> SUFFICES ASSUME NEW s \in ReceiptSlots
               PROVE  LET sequence == Recorded' - 1 - Age(s)'
                      IN ledger'.receipts[s] =
                           IF sequence >= 0
                           THEN [sequence |-> sequence, outcome |-> executed'[sequence + 1]]
                           ELSE EmptyReceipt
    BY DEF RingExact
  <2>1. Age(s)' = Age(s) /\ Age(s) \in Nat /\ Recorded \in Int
    BY <1>0, <1>1, LedgerAssumption DEF Age, ReceiptSlots, Recorded
  <2>2. Recorded - 1 - Age(s) >= 0 =>
          executed'[Recorded - 1 - Age(s) + 1] = executed[Recorded - 1 - Age(s) + 1]
    BY <1>1, <2>1
  <2> QED BY <1>1, <2>1, <2>2 DEF RingExact
<1>2. ASSUME NEW lease \in Leases, NEW sequence \in SequenceNumbers, AdmitAction(lease, sequence)
      PROVE  RingExact'
  <2>1. CASE Admission(ledger, lease, sequence) = "Admitted"
    <3>1. ledger.pending = NoSequence
      BY <2>1, AdmittedFacts
    <3>2. ledger' = [ledger EXCEPT !.next_sequence = Successor(sequence), !.pending = sequence]
      BY <1>2, <2>1 DEF AdmitAction, Admit
    <3>3. /\ ledger'.receipts = ledger.receipts /\ ledger'.receipt_cursor = ledger.receipt_cursor
          /\ ledger'.pending = sequence /\ sequence # NoSequence
      BY <1>0, <3>2, LedgerAssumption DEF LedgerType, SequenceNumbers
    <3>4. /\ Len(executed') = Len(executed) + 1
          /\ \A i \in 1..Len(executed) : executed'[i] = executed[i]
      BY <1>0, <1>2, <2>1 DEF AdmitAction, Executions
    <3> QED BY <1>0, <1>1, <3>1, <3>3, <3>4 DEF Recorded
  <2>2. CASE Admission(ledger, lease, sequence) # "Admitted"
    <3>1. executed' = executed BY <1>2, <2>2 DEF AdmitAction
    <3>2. ledger' = ledger \/ ledger' = [ledger EXCEPT !.fenced = TRUE]
      BY <1>2, <2>2 DEF AdmitAction, Admit
    <3>3. /\ ledger'.receipts = ledger.receipts /\ ledger'.receipt_cursor = ledger.receipt_cursor
          /\ ledger'.pending = ledger.pending
      BY <1>0, <3>2 DEF LedgerType
    <3> QED BY <1>1, <3>1, <3>3 DEF Recorded
  <2> QED BY <2>1, <2>2
<1>3. ASSUME NEW lease \in Leases, NEW sequence \in SequenceNumbers,
             NEW outcome \in InputOutcomes, RecordAction(lease, sequence, outcome)
      PROVE  RingExact'
  <2>1. CASE ~ (ledger.lease = lease /\ ledger.pending = sequence)
    BY <1>1, <1>3, <2>1 DEF RecordAction, RecordOutcome, Recorded
  <2>2. CASE ledger.lease = lease /\ ledger.pending = sequence
    <3> DEFINE c == ledger.receipt_cursor
    <3>1. /\ ledger'.pending = NoSequence
          /\ ledger'.receipts = [ledger.receipts EXCEPT ![c] = [sequence |-> sequence, outcome |-> outcome]]
          /\ ledger'.receipt_cursor = IF c + 1 = ReceiptCapacity THEN 0 ELSE c + 1
      BY <1>0, <1>3, <2>2, CursorWraps DEF RecordAction, RecordOutcome, LedgerType
    <3>2. /\ sequence = Len(executed) - 1 /\ sequence # NoSequence /\ Len(executed) > 0
      BY <1>0, <2>2, LedgerAssumption DEF IInv, AdmittedInOrder, SequenceNumbers
    <3>3. /\ Len(executed') = Len(executed) /\ executed'[Len(executed)] = outcome
          /\ \A i \in 1..(Len(executed) - 1) : executed'[i] = executed[i]
      BY <1>0, <1>3, <2>2, <3>2 DEF RecordAction, Executions
    <3>4. Recorded = Len(executed) - 1 /\ Recorded' = Len(executed)
      BY <2>2, <3>1, <3>2, <3>3 DEF Recorded
    <3> SUFFICES ASSUME NEW s \in ReceiptSlots
                 PROVE  LET q == Recorded' - 1 - Age(s)'
                        IN ledger'.receipts[s] =
                             IF q >= 0 THEN [sequence |-> q, outcome |-> executed'[q + 1]]
                             ELSE EmptyReceipt
      BY DEF RingExact
    <3>5. CASE s = c
      <4>1. Age(s)' = 0
        BY <1>0, <3>1, <3>5 DEF Age, ReceiptSlots
      <4>2. ledger'.receipts[s] = [sequence |-> sequence, outcome |-> outcome]
        BY <1>0, <3>1, <3>5 DEF LedgerType
      <4> QED BY <1>0, <3>2, <3>3, <3>4, <4>1, <4>2
    <3>6. CASE s # c
      <4>1. Age(s)' = Age(s) + 1 /\ Age(s) \in Nat
        <5>1. c \in Int /\ s \in Int /\ 0 <= s /\ s < ReceiptCapacity /\ 0 <= c /\ c < ReceiptCapacity
          BY <1>0 DEF ReceiptSlots
        <5>2. Age(s) = IF s < c THEN c - 1 - s ELSE c - 1 - s + ReceiptCapacity
          BY DEF Age
        <5>3. CASE c + 1 = ReceiptCapacity
          <6>1. Age(s)' = 0 - 1 - s + ReceiptCapacity
            BY <3>1, <5>1, <5>3 DEF Age
          <6> QED BY <1>0, <3>6, <5>1, <5>2, <5>3, <6>1
        <5>4. CASE c + 1 # ReceiptCapacity
          <6>1. Age(s)' = IF s < c + 1 THEN c + 1 - 1 - s ELSE c + 1 - 1 - s + ReceiptCapacity
            BY <3>1, <5>1, <5>4 DEF Age
          <6>2. CASE s < c
            BY <1>0, <5>1, <5>2, <6>1, <6>2
          <6>3. CASE ~ (s < c)
            <7>1. ~ (s < c + 1)
              BY <3>6, <5>1, <6>3
            <7> QED BY <1>0, <5>1, <5>2, <6>1, <6>3, <7>1
          <6> QED BY <6>2, <6>3
        <5> QED BY <5>3, <5>4
      <4>2. ledger'.receipts[s] = ledger.receipts[s]
        BY <1>0, <3>1, <3>6 DEF LedgerType
      <4>3. Recorded' - 1 - Age(s)' = Recorded - 1 - Age(s)
        BY <1>0, <3>4, <4>1
      <4>4. Recorded - 1 - Age(s) >= 0 =>
              executed'[Recorded - 1 - Age(s) + 1] = executed[Recorded - 1 - Age(s) + 1]
        BY <1>0, <3>3, <3>4, <4>1
      <4> QED BY <4>2, <4>3, <4>4 DEF RingExact
    <3> QED BY <3>5, <3>6
  <2> QED BY <2>1, <2>2
<1>4. CASE FenceAction
  BY <1>0, <1>1, <1>4 DEF FenceAction, Fence, LedgerType, Recorded
<1>5. CASE UNCHANGED vars
  BY <1>1, <1>5 DEF vars, Recorded
<1> QED BY <1>2, <1>3, <1>4, <1>5 DEF Next

\* What the ring says of a consumed sequence.
LEMMA RingAnswers ==
    ASSUME IInv, RingExact
    PROVE  AnswersAreTrue
<1> SUFFICES ASSUME NEW i \in 1..Len(executed)
             PROVE  LET answer == Admission(ledger, ledger.lease, i - 1)
                        successor == i + ReceiptCapacity
                        evicted == successor <= Len(executed) /\ executed[successor] # "Pending"
                    IN /\ executed[i] = "Pending" => answer = "InFlight"
                       /\ executed[i] # "Pending" /\ ~ evicted =>
                             /\ answer = "Completed"
                             /\ RetainedOutcome(ledger, i - 1) = executed[i]
                       /\ evicted => answer = "ConsumedWithoutReceipt"
  BY DEF AnswersAreTrue
<1> DEFINE c == ledger.receipt_cursor
           evicted == i + ReceiptCapacity <= Len(executed) /\ executed[i + ReceiptCapacity] # "Pending"
<1>0. /\ ledger \in LedgerType /\ executed \in Executions
      /\ Len(executed) \in Nat /\ ReceiptCapacity \in Nat \ {0}
      /\ c \in Int /\ 0 <= c /\ c < ReceiptCapacity
      /\ i \in Int /\ 1 <= i /\ i <= Len(executed) /\ i - 1 # NoSequence
  BY LedgerAssumption DEF IInv, TypeOK, Executions, LedgerType, ReceiptSlots
<1>1. executed[i] = "Pending" <=> ledger.pending = i - 1
  BY DEF IInv, AdmittedInOrder
<1>2. Recorded \in Int /\ (executed[i] # "Pending" => i <= Recorded)
  BY <1>0, <1>1 DEF IInv, AdmittedInOrder, Recorded
<1>3. evicted <=> i + ReceiptCapacity <= Recorded
  <2>1. i + ReceiptCapacity <= Len(executed) =>
          (executed[i + ReceiptCapacity] = "Pending" <=> ledger.pending = i + ReceiptCapacity - 1)
    BY <1>0 DEF IInv, AdmittedInOrder
  <2>2. ledger.pending # NoSequence => ledger.pending = Len(executed) - 1
    BY DEF IInv, AdmittedInOrder
  <2>3. i + ReceiptCapacity - 1 # NoSequence
    BY <1>0, LedgerAssumption
  <2> QED BY <1>0, <2>1, <2>2, <2>3 DEF Recorded
<1>4. ASSUME NEW s \in ReceiptSlots
      PROVE  /\ s \in Int /\ 0 <= s /\ s < ReceiptCapacity
             /\ Age(s) \in 0..(ReceiptCapacity - 1)
             /\ s \in Retaining(ledger, i - 1) <=> Age(s) = Recorded - i
             /\ s \in Retaining(ledger, i - 1) => ledger.receipts[s].outcome = executed[i]
  <2>1. s \in Int /\ 0 <= s /\ s < ReceiptCapacity
    BY <1>0, <1>4 DEF ReceiptSlots
  <2>2. Age(s) \in 0..(ReceiptCapacity - 1)
    BY <1>0, <2>1 DEF Age
  <2>3. ledger.receipts[s] =
          IF Recorded - 1 - Age(s) >= 0
          THEN [sequence |-> Recorded - 1 - Age(s), outcome |-> executed[Recorded - 1 - Age(s) + 1]]
          ELSE EmptyReceipt
    BY DEF RingExact
  <2>4. CASE Recorded - 1 - Age(s) >= 0
    <3>1. /\ ledger.receipts[s].sequence = Recorded - 1 - Age(s)
          /\ ledger.receipts[s].outcome = executed[Recorded - 1 - Age(s) + 1]
      BY <2>3, <2>4
    <3>2. ledger.receipts[s].sequence = i - 1 <=> Age(s) = Recorded - i
      BY <1>0, <1>2, <2>2, <3>1
    <3>3. Age(s) = Recorded - i => Recorded - 1 - Age(s) + 1 = i
      BY <1>0, <1>2
    <3> QED BY <2>1, <2>2, <3>1, <3>2, <3>3 DEF Retaining
  <2>5. CASE ~ (Recorded - 1 - Age(s) >= 0)
    <3>1. ledger.receipts[s].sequence = NoSequence
      BY <2>3, <2>5 DEF EmptyReceipt
    <3>2. Age(s) # Recorded - i
      BY <1>0, <1>2, <2>2, <2>5
    <3> QED BY <1>0, <2>1, <2>2, <3>1, <3>2 DEF Retaining
  <2> QED BY <2>4, <2>5
<1>5. CASE executed[i] = "Pending"
  <2>1. Admission(ledger, ledger.lease, i - 1) = "InFlight"
    BY <1>1, <1>5 DEF Admission
  <2>2. ~ evicted
    BY <1>0, <1>1, <1>3, <1>5 DEF Recorded, IInv, AdmittedInOrder
  <2> QED BY <1>5, <2>1, <2>2
<1>6. CASE executed[i] # "Pending" /\ ~ evicted
  <2> DEFINE age == Recorded - i
             s == IF age < c THEN c - 1 - age ELSE c - 1 - age + ReceiptCapacity
  <2>1. age \in Int /\ 0 <= age /\ age < ReceiptCapacity
    BY <1>0, <1>2, <1>3, <1>6
  <2>2. s \in ReceiptSlots /\ Age(s) = age
    BY <1>0, <2>1 DEF Age, ReceiptSlots
  <2>3. s \in Retaining(ledger, i - 1)
    BY <1>4, <2>2
  <2>4. \A r \in Retaining(ledger, i - 1) : r = s
    <3> TAKE r \in Retaining(ledger, i - 1)
    <3>1. r \in ReceiptSlots /\ Age(r) = age
      BY <1>4 DEF Retaining
    <3> QED BY <1>0, <2>1, <3>1 DEF Age, ReceiptSlots
  <2>5. RetainedOutcome(ledger, i - 1) = ledger.receipts[s].outcome
    BY <1>4, <2>2, <2>3, <2>4 DEF RetainedOutcome
  <2>6. Admission(ledger, ledger.lease, i - 1) = "Completed"
    BY <1>1, <1>6, <2>3 DEF Admission
  <2> QED BY <1>4, <1>6, <2>2, <2>3, <2>5, <2>6
<1>7. CASE executed[i] # "Pending" /\ evicted
  <2>1. Retaining(ledger, i - 1) = {}
    BY <1>0, <1>2, <1>3, <1>4, <1>7 DEF Retaining
  <2>2. Consumed(ledger, i - 1)
    BY <1>0 DEF Consumed, IInv, AdmittedInOrder
  <2>3. Admission(ledger, ledger.lease, i - 1) = "ConsumedWithoutReceipt"
    BY <1>1, <1>7, <2>1, <2>2 DEF Admission
  <2> QED BY <1>7, <2>3
<1> QED BY <1>5, <1>6, <1>7

-----------------------------------------------------------------------------
(* Theorems.                                                               *)

\* The invariant holds of every behaviour.
THEOREM LedgerSound == Spec => []IInv
<1>1. IInv /\ [Next]_vars => IInv'
  <2> SUFFICES ASSUME IInv, [Next]_vars PROVE IInv' OBVIOUS
  <2>1. CASE UNCHANGED vars
    BY <2>1 DEF vars, IInv, TypeOK, AdmittedInOrder, FailureFenced
  <2>2. CASE Next
    BY <2>2, AdmitStep, RecordStep, FenceStep DEF Next
  <2> QED BY <2>1, <2>2
<1> QED BY <1>1, InitIInv, PTL DEF Spec

\* Each reliable action is admitted at most once, in order, whatever is
\* repeated, evicted or exhausted.
THEOREM AdmissionInOrder == Spec => []AdmittedInOrder
<1>1. IInv => AdmittedInOrder BY DEF IInv
<1> QED BY <1>1, LedgerSound, PTL

\* No action is admitted behind one that did not succeed.
THEOREM NothingBehindFailure == Spec => []FailureIsLast
<1>1. IInv => FailureIsLast
  BY DEF IInv, TypeOK, Executions, FailureFenced, FailureIsLast
<1> QED BY <1>1, LedgerSound, PTL

\* A repeated action is answered with its own outcome as long as its receipt is
\* one of the last ReceiptCapacity ones, and never with another action's; after
\* that it is still known to be consumed.
THEOREM AnswersTrue == Spec => []AnswersAreTrue
<1>1. Init => IInv /\ RingExact
  BY InitIInv, InitRing
<1>2. IInv /\ RingExact /\ [Next]_vars => RingExact'
  BY RingStep
<1>3. IInv /\ RingExact => AnswersAreTrue
  BY RingAnswers
<1> QED BY <1>1, <1>2, <1>3, LedgerSound, PTL DEF Spec

\* A fence is never lifted, not even by the success of an action that was outstanding
\* when it came, and nothing is admitted behind it or behind a failed action.
THEOREM FenceIsFinal == Spec => NothingBehindFence
<1> DEFINE Ended == ledger.fenced \/ (\E i \in 1..Len(executed) : executed[i] \notin Successes \cup {"Pending"})
<1>1. IInv /\ [Next]_vars => [Ended => ledger'.fenced /\ Len(executed') = Len(executed)]_vars
  <2> SUFFICES ASSUME IInv, Next, Ended
               PROVE  ledger'.fenced /\ Len(executed') = Len(executed)
    OBVIOUS
  <2> ledger.fenced
    BY DEF IInv, FailureFenced
  <2>0. ledger \in LedgerType /\ executed \in Executions /\ Len(executed) \in Nat
    BY DEF IInv, TypeOK, Executions
  <2>1. ASSUME NEW lease \in Leases, NEW sequence \in SequenceNumbers,
               AdmitAction(lease, sequence)
        PROVE  ledger'.fenced /\ Len(executed') = Len(executed)
    <3>1. Admission(ledger, lease, sequence) # "Admitted" BY AdmittedFacts
    <3>2. ledger' = ledger \/ ledger' = [ledger EXCEPT !.fenced = TRUE]
      BY <2>1, <3>1 DEF AdmitAction, Admit
    <3> QED BY <2>0, <2>1, <3>1, <3>2 DEF AdmitAction, LedgerType
  <2>2. ASSUME NEW lease \in Leases, NEW sequence \in SequenceNumbers,
               NEW outcome \in InputOutcomes, RecordAction(lease, sequence, outcome)
        PROVE  ledger'.fenced /\ Len(executed') = Len(executed)
    <3>1. ledger'.fenced
      BY <2>0, <2>2 DEF RecordAction, RecordOutcome, LedgerType
    <3>2. Len(executed') = Len(executed)
      BY <2>0, <2>2 DEF RecordAction, Executions
    <3> QED BY <3>1, <3>2
  <2>3. CASE FenceAction
    BY <2>0, <2>3 DEF FenceAction, Fence, LedgerType
  <2> QED BY <2>1, <2>2, <2>3 DEF Next
<1> QED BY <1>1, LedgerSound, PTL DEF Spec, NothingBehindFence

=============================================================================
