-------------------------- MODULE ReceivePipeline --------------------------
(***************************************************************************)
(* The receive side of reference-chain video: `ReceivePipeline` of          *)
(* fr-media/src/delivery/receive.rs and the `RecoveryRequestor` beside it   *)
(* (delivery/recovery.rs).  Byte budgets and display freshness are left out:*)
(* the window of active slots is the capacity, and the deadlines are the    *)
(* reference and recovery deadlines.                                        *)
(***************************************************************************)
EXTENDS Delivery

CONSTANTS
    ActiveSlots,        \* active_slots, the dependency window
    ReferenceBudget,    \* ReceivePolicy::reference_budget_micros
    RecoveryBudget,     \* recovery_budget_micros
    RepairDelay,        \* repair_delay_micros
    RepairInterval,     \* repair_interval_micros
    MaxAttempts         \* max_repair_attempts

\* ReceivePolicy::validate and configure_frame_rate
ASSUME ReceivePolicyAssumption ==
    /\ {ActiveSlots, ReferenceBudget, RecoveryBudget, RepairDelay, RepairInterval,
        MaxAttempts} \subseteq Nat \ {0}
    /\ ActiveSlots >= 2 /\ RepairDelay < ReferenceBudget /\ RepairInterval <= ReferenceBudget

NewReceiver ==
    [epoch |-> 0, state |-> "AwaitingConfiguration", failure |-> None, failure_at |-> None,
     slots |-> << >>, recovery_until |-> None, recovery_frame |-> None,
     last_decoded |-> None, in_flight |-> None, progress |-> None]

ClearView(v) ==
    [v EXCEPT !.slots = << >>, !.failure_at = None, !.in_flight = None,
              !.recovery_until = None, !.recovery_frame = None,
              !.last_decoded = None, !.progress = None]

\* fail: the chain is fenced at once and the time of detection kept.
Fail(v, error, now) ==
    Result([ClearView(v) EXCEPT !.state = "NeedsRecovery", !.failure = error,
                                !.failure_at = now], error)

\* tick: bootstrap first, then every retained or decoding reference.
TickView(v, now) ==
    IF v.state = "NeedsRecovery" THEN Result(v, v.failure)
    ELSE IF v.recovery_until # None /\ now >= v.recovery_until
    THEN Fail(v, "RecoveryExpired", now)
    ELSE IF \/ v.in_flight # None /\ now >= v.in_flight.deadline
            \/ \E f \in DOMAIN v.slots : now >= v.slots[f].until
    THEN Fail(v, "ReferenceExpired", now)
    ELSE Result(v, "Ok")

\* decoder_configured, reached through bind_decoder.
DecoderConfigured(v, now) ==
    LET until == Deadline(now, RecoveryBudget) IN
    IF v.state # "AwaitingConfiguration" THEN Result(v, "WrongState")
    ELSE IF until = None THEN Result(v, "ClockOverflow")
    ELSE Result([v EXCEPT !.recovery_until = until, !.state = "AwaitingRecovery"], "Ok")

Complete(a) == a.got = Parts

\* queued_independent_frame: a complete datagram IDR, only once streaming.
Independent(v) ==
    {f \in DOMAIN v.slots : /\ v.state = "Streaming"
                            /\ Complete(v.slots[f])
                            /\ ~v.slots[f].reliable
                            /\ v.slots[f].reference = None}

Obsolete(v, frame) ==
    \/ v.last_decoded # None /\ frame <= v.last_decoded
    \/ v.in_flight # None /\ frame <= v.in_flight.frame
    \/ \E f \in Independent(v) : frame < f

DropBefore(v, frame) ==
    [v EXCEPT !.slots = Restrict(@, {f \in DOMAIN @ : f >= frame})]

DiscardSuperseded(v) ==
    IF Independent(v) = {} THEN v ELSE DropBefore(v, Max(Independent(v)))

NewAssembly(v, reference, reliable, now) ==
    [reference |-> reference, reliable |-> reliable, got |-> {},
     until |-> IF reliable THEN v.recovery_until ELSE Deadline(now, ReferenceBudget),
     next_repair |-> Deadline(now, RepairDelay),
     tail_probe |-> Deadline(now, RepairDelay), prefix_probe |-> None, attempts |-> 0]

\* slot: find the picture or open one in the active window.
Slot(v, frame, reference, reliable, now) ==
    LET fresh == NewAssembly(v, reference, reliable, now) IN
    IF frame \in DOMAIN v.slots
    THEN Result(v, IF /\ v.slots[frame].reference = reference
                      /\ v.slots[frame].reliable = reliable
                   THEN "Ok" ELSE "ConflictingPicture")
    ELSE IF Cardinality(DOMAIN v.slots) >= ActiveSlots
    THEN Result(v, "ReferenceCapacityExceeded")
    ELSE IF fresh.until = None \/ fresh.next_repair = None THEN Result(v, "ClockOverflow")
    ELSE Result([v EXCEPT !.slots = @ @@ (frame :> fresh)], "Ok")

\* datagram_slot: before the bootstrap is known one slot stays free for it.
\* "Deferred" is the None of the code.
DatagramSlot(v, frame, reference, now) ==
    IF /\ v.state = "AwaitingRecovery" /\ v.recovery_frame = None
       /\ frame \notin DOMAIN v.slots
       /\ Cardinality(DOMAIN v.slots) >= ActiveSlots - 1
    THEN Result(v, "Deferred")
    ELSE Slot(v, frame, reference, FALSE, now)

\* has_prefix_hole: a part below the highest one received is missing.
PrefixHole(got) == got # {} /\ got # 0 .. Max(got)

\* Assembly::fragment for a part not seen before.
Filled(a, part, now) ==
    LET got == a.got \cup {part}
        tail == Min({now + RepairDelay, a.until})
        probe == IF a.attempts = 0 /\ now < a.next_repair THEN a.next_repair ELSE tail
    IN  [a EXCEPT !.got = got, !.tail_probe = tail,
                  !.prefix_probe = IF ~PrefixHole(got) THEN None
                                   ELSE IF @ # None THEN @ ELSE probe]

OnFragment(v, frame, reference, part, now) ==
    IF Obsolete(v, frame) THEN Result(v, "Ok")
    ELSE LET made == DatagramSlot(v, frame, reference, now) IN
         IF made.outcome = "Deferred" THEN Result(v, "Ok")
         ELSE Then(made, LAMBDA w :
                IF part \in w.slots[frame].got THEN Result(w, "Ok")
                ELSE Result(DiscardSuperseded(
                        [w EXCEPT !.slots[frame] = Filled(@, part, now)]), "Ok"))

\* on_recovery: the reliable lane is in order, so its parts are contiguous.
OnRecovery(v, frame, part, now) ==
    IF v.state # "AwaitingRecovery" THEN Result(v, "WrongState")
    ELSE IF v.recovery_frame # None /\ v.recovery_frame # frame
    THEN Result(v, "ConflictingPicture")
    ELSE Then(Slot(v, frame, None, TRUE, now), LAMBDA w :
            IF part # Cardinality(w.slots[frame].got)
            THEN Result(w, "NoncontiguousRecovery")
            ELSE Result([w EXCEPT !.recovery_frame = frame,
                                  !.slots[frame].got = @ \cup {part}], "Ok"))

OnProgress(v, frame, reference, failed, now) ==
    LET reliable == /\ v.state = "AwaitingRecovery" /\ reference = None
                    /\ v.recovery_frame \in {None, frame}
        made == IF reliable THEN Slot(v, frame, reference, TRUE, now)
                ELSE DatagramSlot(v, frame, reference, now)
    IN  IF failed THEN Result(v, "ReferenceExpired")
        ELSE IF v.progress # None /\ frame < v.progress THEN Result(v, "Ok")
        ELSE IF Obsolete(v, frame) THEN Result([v EXCEPT !.progress = frame], "Ok")
        ELSE IF made.outcome = "Deferred" THEN Result(v, "ReferenceCapacityExceeded")
        ELSE Then(made, LAMBDA w :
                Result([w EXCEPT !.progress = frame,
                                 !.recovery_frame = IF reliable THEN frame ELSE @], "Ok"))

\* receive: a picture that cannot fit is recoverable only on an established chain.
Receive(v, m, now) ==
    Then(TickView(v, now), LAMBDA w :
        LET r == CASE m.lane = "video" -> OnFragment(w, m.frame, m.reference, m.part, now)
                   [] m.lane = "recovery" -> OnRecovery(w, m.frame, m.part, now)
                   [] m.lane = "progress" ->
                          OnProgress(w, m.frame, m.reference, m.failed, now)
        IN  IF r.outcome \in {"Ok", "WrongState"} THEN r
            ELSE IF r.outcome = "ReferenceCapacityExceeded" /\ w.state # "Streaming"
            THEN Fail(w, "ResourceLimit", now)
            ELSE Fail(w, r.outcome, now))

Decodable(v) ==
    {f \in DOMAIN v.slots :
        /\ Complete(v.slots[f])
        /\ \/ /\ v.state = "AwaitingRecovery"
              /\ v.slots[f].reliable /\ v.recovery_frame = f
           \/ /\ v.state = "Streaming"
              /\ v.slots[f].reference \in {None, v.last_decoded}}

\* take_decodable: the oldest candidate; one decode is outstanding at a time.
TakeDecodable(v, now) ==
    Then(TickView(v, now), LAMBDA w :
        LET f == Min(Decodable(w))
            a == w.slots[f]
            gone == {g \in DOMAIN w.slots : g = f \/ (a.reference = None /\ g < f)}
        IN  IF w.in_flight # None \/ Decodable(w) = {} THEN Result(w, "Ok")
            ELSE Result([w EXCEPT !.slots = Restrict(@, DOMAIN @ \ gone),
                            !.state = IF @ = "AwaitingRecovery" THEN "DecodingRecovery" ELSE @,
                            !.in_flight = [frame |-> f, deadline |-> a.until]], "Ok"))

\* acknowledge_decode, for the picture in flight.
AcknowledgeDecode(v, success, now) ==
    Then(TickView(v, now), LAMBDA w :
        IF ~success THEN Fail(w, "DecodeFailed", now)
        ELSE Result(DiscardSuperseded(
                [w EXCEPT !.last_decoded = w.in_flight.frame, !.in_flight = None,
                          !.recovery_until = None, !.state = "Streaming"]), "Ok"))

RepairDue(a) ==
    Max({a.next_repair, IF a.prefix_probe # None THEN a.prefix_probe ELSE a.tail_probe})

RepairNeeded(v, f) ==
    f \in DOMAIN v.slots /\ ~Complete(v.slots[f]) /\ ~v.slots[f].reliable

RepairCandidates(v, now) ==
    {f \in DOMAIN v.slots : /\ RepairNeeded(v, f)
                            /\ now >= RepairDue(v.slots[f])
                            /\ v.slots[f].attempts < MaxAttempts}

\* missing: holes below the highest part, and the tail once it has gone quiet.
Missing(a, now) ==
    {p \in Parts : p \notin a.got /\ (now >= a.tail_probe \/ \E q \in a.got : p < q)}

\* The request repair_offer builds, and what it leaves behind.
RepairRequest(v, now) ==
    LET f == Min(RepairCandidates(v, now)) IN
    [frame |-> f, wanted |-> Missing(v.slots[f], now), until |-> v.slots[f].until]

RepairOffered(v, now) ==
    LET f == Min(RepairCandidates(v, now))
        after == Deadline(now, RepairInterval)
    IN  IF after = None THEN Result(v, "ClockOverflow")
        ELSE Result([v EXCEPT !.slots[f].next_repair = after,
                              !.slots[f].attempts = @ + 1], "Ok")

\* replace, then bind_decoder at the same instant (Presenter::recover).
ReplaceView(v, epoch, now) ==
    IF epoch <= v.epoch THEN Result(v, "StaleGeneration")
    ELSE DecoderConfigured([ClearView(v) EXCEPT !.epoch = epoch, !.failure = None,
                                !.state = "AwaitingConfiguration"], now)

\* The failures a negotiated viewer recovers from (viewer/streaming/recovery.rs).
Recoverable == {"ReferenceExpired", "ReferenceCapacityExceeded",
                "RecoveryExpired", "DecodeFailed"}

----------------------------------------------------------------------------
NewRequestor == [last_useful |-> None, pending |-> None]

\* RecoveryRequestor::check for a live scope.
CheckRequestor(q, now) ==
    IF q.pending # None /\ now >= q.pending.until THEN Result(q, "RecoveryExpired")
    ELSE Result(q, "Ok")

\* RecoveryRequestor::offer for a receiver that has failed: the budget starts at
\* the detection, not at the first service after it.
OfferRequest(q, v, now) ==
    Then(CheckRequestor(q, now), LAMBDA k :
        LET until == Deadline(v.failure_at, RecoveryBudget) IN
        IF v.failure \notin Recoverable THEN Result(k, v.failure)
        ELSE IF k.pending # None THEN Result(k, "Ok")
        ELSE IF until = None THEN Result(k, "ClockOverflow")
        ELSE IF now >= until THEN Result(k, "RecoveryExpired")
        ELSE Result([k EXCEPT !.pending = [until |-> until, sent |-> FALSE]], "Ok"))
============================================================================
