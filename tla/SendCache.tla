----------------------------- MODULE SendCache -----------------------------
(***************************************************************************)
(* The send side of reference-chain video: `SendCache` of                   *)
(* fr-media/src/delivery/send.rs with its recovery admission                *)
(* (send/recovery.rs) and its repair jobs (send/repair.rs).                 *)
(*                                                                         *)
(* Repair credit is counted in fragments.  Idle observations are left out:  *)
(* they carry source metadata and no part of the reference chain.  The clock*)
(* the callers read is monotonic, so the ClockRegression refusals are not   *)
(* modelled.                                                                *)
(***************************************************************************)
EXTENDS Delivery

CONSTANTS
    CachedPictures,     \* SendPolicy::max_cached_pictures
    ReferenceHorizon,   \* reference_horizon_micros
    RecoveryHorizon,    \* recovery_horizon_micros
    SenderRepairGap,    \* minimum_repair_interval_micros
    MaxRepairRounds,    \* max_repair_rounds
    RepairWindow,       \* repair_window_micros
    RepairCredit,       \* repair_bytes_per_window, in fragments
    MaxRecoveries,      \* max_recoveries_per_window
    RecoveryWindow      \* recovery_window_micros

\* SendPolicy::validate
ASSUME SendPolicyAssumption ==
    /\ {CachedPictures, ReferenceHorizon, RecoveryHorizon, SenderRepairGap, MaxRepairRounds,
        RepairCredit, RepairWindow, MaxRecoveries, RecoveryWindow} \subseteq Nat \ {0}
    /\ SenderRepairGap <= ReferenceHorizon

NewCache ==
    [epoch |-> 0, pictures |-> << >>, last_inserted |-> None, last_progress |-> None,
     window_start |-> 0, spent |-> 0,
     closed |-> FALSE, needs_recovery |-> FALSE,
     first_failure |-> None, request |-> None,
     recoveries |-> [i \in 1 .. MaxRecoveries |-> None], charged |-> None]

OriginalComplete(p) == p.next_original = Fragments

\* clear: payloads, repairs and failure deadlines go; allowances stay.
Clear(c) ==
    [c EXCEPT !.pictures = << >>, !.last_progress = None,
              !.first_failure = None, !.request = None]

Close(c) == [Clear(c) EXCEPT !.closed = TRUE]

RecoveryDeadline(c) ==
    Earliest({c.first_failure} \cup (IF c.request = None THEN {} ELSE {c.request.until}))

\* The closed test and check_recovery_deadline, with which every method that
\* reads the clock starts.
Checked(c, now) ==
    IF c.closed THEN Result(c, "Closed")
    ELSE IF RecoveryDeadline(c) # None /\ now >= RecoveryDeadline(c)
    THEN Result(Close(c), "RecoveryExpired")
    ELSE Result(c, "Ok")

\* fail_reference: fence the chain, keep the last descriptor for the Failed
\* notification, start the one recovery budget of this failure.
FailReference(c, now) ==
    LET until == Deadline(now, RecoveryHorizon) IN
    IF until = None THEN Result(Close(c), "ClockOverflow")
    ELSE Result([Clear(c) EXCEPT !.last_progress = c.last_progress,
                                 !.needs_recovery = TRUE,
                                 !.first_failure = until], "Ok")

Overdue(c, now) ==
    \E f \in DOMAIN c.pictures :
        now >= c.pictures[f].send_by /\ ~OriginalComplete(c.pictures[f])

\* tick: an unsent original that expires breaks the chain; a sent one is evicted.
TickCache(c, now) ==
    Then(Checked(c, now), LAMBDA k :
        IF k.needs_recovery THEN Result(k, "NeedsRecovery")
        ELSE IF Overdue(k, now)
        THEN Then(FailReference(k, now), LAMBDA f : Result(f, "OriginalExpired"))
        ELSE LET kept == {f \in DOMAIN k.pictures : now < k.pictures[f].send_by}
                 refill == now - k.window_start >= RepairWindow
             IN  Result([k EXCEPT !.pictures = Restrict(@, kept),
                                  !.window_start = IF refill THEN now ELSE @,
                                  !.spent = IF refill THEN 0 ELSE @], "Ok"))

Full(c) == Cardinality(DOMAIN c.pictures) >= CachedPictures

\* can_push_capacity
CanPush(c) == ~c.closed /\ ~c.needs_recovery /\ ~Full(c)

Lifetime(mode) == IF mode = "Recovery" THEN RecoveryHorizon ELSE ReferenceHorizon

PushRefusal(c, frame, reference, mode, captured) ==
    IF c.last_inserted # None /\ frame <= c.last_inserted THEN "InvalidSequence"
    ELSE IF reference # None /\ reference # c.last_inserted THEN "InvalidDependency"
    ELSE IF (c.last_inserted = None) # (mode = "Recovery") THEN "InvalidRecovery"
    ELSE IF Full(c) THEN "CacheFull"
    ELSE IF Deadline(captured, Lifetime(mode)) = None THEN "ClockOverflow"
    ELSE None

\* push_picture: `captured` anchors the lifetime, not the time of the call.  A
\* picture that is already too old has still advanced the encoder's chain.
Push(c, frame, reference, mode, captured, now) ==
    Then(TickCache(c, now), LAMBDA k :
        LET refusal == PushRefusal(k, frame, reference, mode, captured)
            send_by == Deadline(captured, Lifetime(mode))
        IN  IF refusal # None THEN Result(k, refusal)
            ELSE IF now >= send_by
            THEN Then(FailReference(k, now), LAMBDA f : Result(f, "OriginalExpired"))
            ELSE Result([k EXCEPT
                    !.pictures = @ @@ (frame :>
                        [reference |-> reference, mode |-> mode, send_by |-> send_by,
                         announced |-> FALSE, next_original |-> 0,
                         rounds |-> 0, next_repair |-> now, repair |-> {}]),
                    !.last_inserted = frame, !.last_progress = frame], "Ok"))

Offer(c, f, lane, part, repair) ==
    [epoch |-> c.epoch, frame |-> f, reference |-> c.pictures[f].reference,
     mode |-> c.pictures[f].mode, lane |-> lane, part |-> part,
     send_by |-> c.pictures[f].send_by, repair |-> repair]

\* next_packet: the oldest unfinished picture, announced before its parts.
Unfinished(c) ==
    {f \in DOMAIN c.pictures : ~c.pictures[f].announced \/ ~OriginalComplete(c.pictures[f])}

OriginalOffer(c) ==
    IF Unfinished(c) = {} THEN None
    ELSE LET f == Min(Unfinished(c))  p == c.pictures[f] IN
         IF p.announced
         THEN Offer(c, f, IF p.mode = "Recovery" THEN "recovery" ELSE "video",
                    p.next_original, FALSE)
         ELSE Offer(c, f, "progress", None, FALSE)

NextPacket(c, now) ==
    Then(TickCache(c, now), LAMBDA k :
        LET f == Min(Unfinished(k)) IN
        IF Unfinished(k) = {} THEN Result(k, "Ok")
        ELSE IF k.pictures[f].announced
        THEN Result([k EXCEPT !.pictures[f].next_original = @ + 1], "Ok")
        ELSE Result([k EXCEPT !.pictures[f].announced = TRUE], "Ok"))

\* next_repair_packet: among the jobs whose next fragment is already issued as
\* an original and fits the window's credit, the one that expires first.
Repairable(c) ==
    {f \in DOMAIN c.pictures :
        /\ c.pictures[f].repair # {}
        /\ Min(c.pictures[f].repair) < c.pictures[f].next_original
        /\ c.spent < RepairCredit}

RepairHead(c) ==
    CHOOSE f \in Repairable(c) : \A g \in Repairable(c) :
        \/ c.pictures[f].send_by < c.pictures[g].send_by
        \/ c.pictures[f].send_by = c.pictures[g].send_by /\ f <= g

RepairOffer(c) ==
    IF Repairable(c) = {} THEN None
    ELSE Offer(c, RepairHead(c), "video", Min(c.pictures[RepairHead(c)].repair), TRUE)

NextRepairPacket(c, now) ==
    Then(TickCache(c, now), LAMBDA k :
        IF Repairable(k) = {} THEN Result(k, "Ok")
        ELSE Result([k EXCEPT !.pictures[RepairHead(k)].repair = @ \ {Min(@)},
                              !.spent = @ + 1], "Ok"))

\* queue_repair with RepairJob::coalesce: the unsent rest of the live job and
\* the new fragments; a request that adds nothing is refused.
QueueRepair(c, frame, wanted, now) ==
    Then(TickCache(c, now), LAMBDA k :
        LET p == k.pictures[frame]
            after == Deadline(now, SenderRepairGap)
        IN  IF frame \notin DOMAIN k.pictures THEN Result(k, "FrameUnavailable")
            ELSE IF p.mode = "Recovery" \/ ~p.announced THEN Result(k, "RepairNotReady")
            ELSE IF p.repair # {} /\ wanted \subseteq p.repair THEN Result(k, "RepairBusy")
            ELSE IF now < p.next_repair \/ p.rounds >= MaxRepairRounds
            THEN Result(k, IF p.repair # {} THEN "RepairBusy" ELSE "RepairRateLimited")
            ELSE IF after = None THEN Result(k, "ClockOverflow")
            ELSE Result([k EXCEPT !.pictures[frame].repair = @ \cup wanted,
                                  !.pictures[frame].rounds = @ + 1,
                                  !.pictures[frame].next_repair = after], "Ok"))

\* authorize_write: the whole chain is rechecked before the transport sees it.
AuthorizeWrite(c, offer, now) ==
    Then(TickCache(c, now), LAMBDA k :
        IF offer.epoch # k.epoch THEN Result(k, "StaleGeneration")
        ELSE IF now < offer.send_by THEN Result(k, "Ok")
        ELSE Result(k, IF offer.repair THEN "RepairExpired" ELSE "OriginalExpired"))

\* admit_recovery: one charge per failed generation, a sliding window of charges.
AdmitRecovery(c, now) ==
    LET live == [i \in 1 .. MaxRecoveries |->
                    IF c.recoveries[i] # None /\ now - c.recoveries[i] >= RecoveryWindow
                    THEN None ELSE c.recoveries[i]]
        free == {i \in 1 .. MaxRecoveries : live[i] = None}
    IN  IF c.charged = c.epoch THEN Result(c, "Ok")
        ELSE IF free = {}
        THEN Result(Close([c EXCEPT !.recoveries = live]), "RecoveryLimitExceeded")
        ELSE Result([c EXCEPT !.recoveries = [live EXCEPT ![Min(free)] = now],
                              !.charged = c.epoch], "Ok")

AwaitRecoveryRequest(c, now) ==
    Then(Checked(c, now), LAMBDA k :
        IF ~k.needs_recovery THEN Result(k, "WrongState")
        ELSE IF k.request # None THEN Result(k, "Ok")
        ELSE IF k.first_failure = None THEN Result(k, "WrongState")
        ELSE Then(AdmitRecovery(k, now), LAMBDA a :
                Result([a EXCEPT !.request = [asked |-> FALSE, until |-> k.first_failure]],
                       "Ok")))

\* abandon_expired_offer: packetizing moved the cursor, the transport took nothing.
AbandonExpiredOffer(c, offer, now) ==
    Then(Checked(c, now), LAMBDA k :
        IF offer.epoch # k.epoch THEN Result(k, "StaleGeneration")
        ELSE IF now < offer.send_by THEN Result(k, "WrongState")
        ELSE Then(IF k.needs_recovery THEN Result(k, "Ok") ELSE FailReference(k, now),
                  LAMBDA f : AwaitRecoveryRequest(f, now)))

\* request_recovery: a bound request inherits the deadline of a failure that is
\* already running; a second request for the generation coalesces.
RequestRecovery(c, epoch, last_useful, now) ==
    Then(Checked(c, now), LAMBDA k :
        LET until == IF RecoveryDeadline(k) # None THEN RecoveryDeadline(k)
                     ELSE Deadline(now, RecoveryHorizon)
        IN  IF epoch # k.epoch THEN Result(k, "StaleGeneration")
            ELSE IF last_useful # None
                    /\ (k.last_inserted = None \/ last_useful > k.last_inserted)
            THEN Result(k, "InvalidSequence")
            ELSE IF k.request # None /\ k.request.asked THEN Result(k, "Coalesced")
            ELSE IF until = None THEN Result(Close(k), "ClockOverflow")
            ELSE Then(AdmitRecovery(k, now), LAMBDA a :
                    Result([Clear(a) EXCEPT !.needs_recovery = TRUE,
                                !.request = [asked |-> TRUE, until |-> until]], "Ok")))

\* replace: a fresh generation; the recovery and repair allowances survive.
Replace(c, epoch, now) ==
    Then(Checked(c, now), LAMBDA k :
        IF epoch <= k.epoch THEN Result(k, "StaleGeneration")
        ELSE Then(IF k.needs_recovery \/ Overdue(k, now) THEN AdmitRecovery(k, now)
                  ELSE Result(k, "Ok"),
                  LAMBDA a : Result([Clear(a) EXCEPT !.epoch = epoch,
                                        !.last_inserted = None,
                                        !.needs_recovery = FALSE], "Ok")))
============================================================================
