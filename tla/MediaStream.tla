---------------------------- MODULE MediaStream ----------------------------
(***************************************************************************)
(* One viewer's video session with negotiated reference recovery: the host's*)
(* streaming loop (frd/src/session_startup/running/streaming.rs and         *)
(* streaming/recovery.rs) with its egress (frd/src/media_egress.rs), the    *)
(* viewer's loop (frd/src/session_startup/viewer/streaming.rs), and the     *)
(* network between them.  Datagrams may be lost, repeated and reordered;    *)
(* the progress, recovery, repair and control streams are reliable and each *)
(* in order.  Both ends read one monotonic clock, and any amount of time may*)
(* pass between two steps.                                                  *)
(*                                                                         *)
(* `session` is "live" or the error that ended it: an error that escapes one*)
(* end closes the connection for both.                                      *)
(***************************************************************************)
EXTENDS SendCache, ReceivePipeline, Sequences

CONSTANTS
    MaxFrame,           \* bound on the frames the source produces
    IdrFrames,          \* bound on the frames the shared encoder may make independent
    MaxEpoch            \* bound on the recovery generations

VARIABLES now, session, cache, egress, host, view, viewer, frames,
          admitted, progress, recovery, repairs, requests, acked

network == <<admitted, progress, recovery, repairs, requests, acked>>
hostVars == <<cache, egress, host, frames>>
viewVars == <<view, viewer>>
vars == <<now, session, hostVars, viewVars, network>>

\* A record as the transport carries it.
Message(offer) ==
    [frame |-> offer.frame, reference |-> offer.reference, part |-> offer.part,
     lane |-> offer.lane, failed |-> FALSE]

\* Decoder startup is over: picture 1 went out on the reliable lane, was decoded and
\* acknowledged, and the sender no longer retains it.
Init ==
    /\ now = 0 /\ session = "live"
    /\ cache = [NewCache EXCEPT !.last_inserted = 1, !.last_progress = 1] /\ frames = 1
    /\ admitted = {[frame |-> 1, reference |-> None, part |-> p, lane |-> "recovery",
                    failed |-> FALSE] : p \in Parts \cup {None}}
    /\ egress = [pending |-> None, repair_next |-> TRUE]
    /\ host = [phase |-> "streaming", until |-> None, notified |-> FALSE, capture |-> None]
    /\ view = [NewReceiver EXCEPT !.state = "Streaming", !.recovery_frame = 1,
                                  !.last_decoded = 1, !.progress = 1]
    /\ viewer = [startup |-> None, repair |-> None,
                 requestor |-> [NewRequestor EXCEPT !.last_useful = 1]]
    /\ acked = 0
    /\ progress = << >> /\ recovery = << >>
    /\ repairs = << >> /\ requests = << >>

Live == session = "live"

----------------------------------------------------------------------------
(* The host.                                                               *)

EndHost(reason) == session' = reason /\ UNCHANGED <<cache, egress, host>>

\* Subscription::preserve_reference_failure.
Preserve(c, offer) ==
    IF c.needs_recovery THEN AwaitRecoveryRequest(c, now)
    ELSE IF offer # None THEN AbandonExpiredOffer(c, offer, now)
    ELSE Result(c, "WrongState")

ReferenceFailure == {"OriginalExpired", "NeedsRecovery"}

\* Egress::media_failure keeps a broken chain for recovery, and the session's
\* maintain_video makes it the LocalFailure it waits on; during decoder startup,
\* and for every other error, the session ends.
MediaFailure(c, h, error) ==
    IF error \notin ReferenceFailure THEN EndHost(error)
    ELSE \E kept \in {Preserve(c, egress.pending)} :
    IF kept.outcome # "Ok" THEN EndHost(kept.outcome)
    ELSE IF h.phase = "startup" \/ c.last_progress = None THEN EndHost(error)
    ELSE /\ cache' = kept.state
         /\ egress' = [egress EXCEPT !.pending = None]
         /\ host' = [h EXCEPT !.phase = "failed", !.notified = FALSE,
                              !.until = RecoveryDeadline(kept.state)]
         /\ UNCHANGED session

\* Waiting::check, before every step of a decoder startup.
Sending == Live /\ (host.phase = "streaming" \/ (host.phase = "startup" /\ now < host.until))

\* SourceWork::Capture under stream_credit, or the IDR of a decoder startup.
StartCapture ==
    /\ Sending /\ host.capture = None /\ frames < MaxFrame
    /\ IF host.phase = "startup" THEN cache.last_inserted = None
       ELSE egress.pending = None /\ Unfinished(cache) = {} /\ CanPush(cache)
    /\ host' = [host EXCEPT !.capture = now]
    /\ UNCHANGED <<now, session, cache, egress, frames, viewVars, network>>

\* Egress::tick: the cache, then the prepared record.
Ticked(c) ==
    Then(TickCache(c, now), LAMBDA k :
        IF egress.pending = None THEN Result(k, "Ok")
        ELSE AuthorizeWrite(k, egress.pending, now))

\* A bug that drops an expired original like a repair, and goes on behind the gap.
RetiresAny(r) == r.outcome \in {"RepairExpired", "OriginalExpired"}

\* retire_obsolete: only an expired repair is dropped without a failure.
Retires(r) == r.outcome = "RepairExpired" /\ egress.pending.repair

Retired == [egress EXCEPT !.pending = None]

ServiceOffer(r) ==
    IF Retires(r)
    THEN cache' = r.state /\ egress' = Retired /\ UNCHANGED <<session, host>>
    ELSE MediaFailure(r.state, host, r.outcome)

\* enqueue_capture: the egress is ticked, then the picture is pushed.  The encoder
\* numbers its pictures and refers to the last one.
Enqueue(reference, mode) ==
    LET drained == [host EXCEPT !.capture = None] IN
    /\ host.capture # None
    /\ frames' = frames + 1
    /\ \E t \in {Ticked(cache)} :
       \E r \in {IF t.outcome = "Ok" \/ Retires(t)
                 THEN Push(t.state, frames + 1, reference, mode, host.capture, now) ELSE t} :
        IF r.outcome = "Ok"
        THEN /\ cache' = r.state /\ host' = drained
             /\ egress' = IF Retires(t) THEN Retired ELSE egress
             /\ UNCHANGED session
        ELSE MediaFailure(r.state, drained, r.outcome)
    /\ UNCHANGED <<now, viewVars, network>>

\* collect_capture: a predicted picture, or an independent one (no reference).
CollectCapture(reference) ==
    /\ Live /\ host.phase = "streaming"
    /\ reference = None => frames + 1 \in IdrFrames
    /\ Enqueue(reference, "Datagrams")

\* take_recovery: the viewer has configured its decoder for this generation.
EnqueueBootstrap ==
    /\ Sending /\ host.phase = "startup" /\ cache.last_inserted = None
    /\ view.epoch = cache.epoch /\ view.state = "AwaitingRecovery"
    /\ Enqueue(None, "Recovery")

\* maintain_failure drains the one native capture; its pixels are obsolete.
DrainCapture ==
    /\ Live /\ host.phase \in {"failed", "handoff"} /\ host.capture # None
    /\ host' = [host EXCEPT !.capture = None]
    /\ frames' = frames + 1
    /\ UNCHANGED <<now, session, cache, egress, admitted, viewVars, network>>

\* transmit_selected, first half: packetize from the lane whose turn it is, or
\* from the other one; decoder startup selects originals only.
Selected(c) ==
    IF host.phase = "startup" THEN "original"
    ELSE IF egress.repair_next
    THEN IF RepairOffer(c) # None THEN "repair" ELSE "original"
    ELSE IF OriginalOffer(c) # None THEN "original" ELSE "repair"

Prepare ==
    /\ Sending /\ egress.pending = None
    /\ \E k \in {TickCache(cache, now)} :
        LET original == Selected(k.state) = "original"
            offer == IF original THEN OriginalOffer(k.state) ELSE RepairOffer(k.state)
            r == IF original THEN NextPacket(cache, now) ELSE NextRepairPacket(cache, now)
        IN  IF k.outcome = "Ok"
            THEN /\ offer # None
                 /\ cache' = r.state /\ egress' = [egress EXCEPT !.pending = offer]
                 /\ UNCHANGED <<session, host>>
            ELSE MediaFailure(k.state, host, k.outcome)
    /\ UNCHANGED <<now, frames, viewVars, network>>

\* transmit_selected, second half: authorize, then the transport admits the
\* record.  Backpressure leaves the offer pending: nothing happens.
Write ==
    LET offer == egress.pending
        m == Message(offer)
    IN  /\ Sending /\ offer # None
        /\ \E r \in {AuthorizeWrite(cache, offer, now)} :
            IF r.outcome = "Ok"
            THEN /\ cache' = r.state
                 /\ egress' = [pending |-> None, repair_next |-> ~offer.repair]
                 /\ admitted' = admitted \cup {m}
                 /\ progress' = IF m.lane = "progress" THEN Append(progress, m) ELSE progress
                 /\ recovery' = IF m.lane = "recovery" THEN Append(recovery, m) ELSE recovery
                 /\ UNCHANGED <<session, host>>
            ELSE ServiceOffer(r) /\ UNCHANGED <<admitted, progress, recovery>>
        /\ UNCHANGED <<now, frames, viewVars, repairs, requests, acked>>

\* stream_check, at the start of every turn, idle ones too.
HostTick ==
    /\ Live /\ host.phase = "streaming"
    /\ UNCHANGED <<now, frames, viewVars, network>>
    /\ \E r \in {Ticked(cache)} :
        IF r.outcome = "Ok"
        THEN cache' = r.state /\ UNCHANGED <<session, egress, host>>
        ELSE ServiceOffer(r)

\* Faulty: a request for a picture that is no longer cached ends the session.
RefusedUnlessGone == {"RepairBusy", "RepairNotReady", "RepairRateLimited",
                      "OriginalExpired", "NeedsRecovery"}

\* QuicEgress::repair: a refused request is consumed, then the egress is ticked.
RefusedRepair == {"FrameUnavailable", "RepairBusy", "RepairNotReady", "RepairRateLimited",
                  "OriginalExpired", "NeedsRecovery"}

ReceiveRepair ==
    LET m == Head(repairs)
    IN  /\ Live /\ host.phase = "streaming" /\ repairs # << >>
        /\ repairs' = Tail(repairs)
        /\ \E q \in {QueueRepair(cache, m.frame, m.wanted, now)} :
            IF q.outcome \notin RefusedRepair \cup {"Ok"} THEN EndHost(q.outcome)
            ELSE \E r \in {Ticked(q.state)} :
                IF r.outcome = "Ok"
                THEN cache' = r.state /\ UNCHANGED <<session, egress, host>>
                ELSE ServiceOffer(r)
        /\ UNCHANGED <<now, frames, viewVars, admitted, progress, recovery,
                       requests, acked>>

\* Admission::maintain on a recovery request: the only way a demand is created.
ReceiveRequest ==
    LET m == Head(requests)
        r == RequestRecovery(cache, m.epoch, m.last_useful, now)
        until == r.state.request.until
    IN  /\ Live /\ host.phase \in {"streaming", "failed", "handoff"} /\ requests # << >>
        /\ requests' = Tail(requests)
        /\ IF r.outcome = "Ok"
           THEN IF host.phase = "handoff" \/ (host.phase = "failed" /\ host.until # until)
                THEN EndHost("Order")
                ELSE /\ cache' = r.state
                     /\ egress' = [egress EXCEPT !.pending = None]
                     /\ host' = [host EXCEPT !.phase = "handoff", !.until = until]
                     /\ UNCHANGED session
           ELSE IF r.outcome = "Coalesced" /\ host.phase # "failed"
           THEN cache' = r.state /\ UNCHANGED <<session, egress, host>>
           ELSE EndHost(IF r.outcome = "Coalesced" THEN "Order" ELSE r.outcome)
        /\ UNCHANGED <<now, frames, viewVars, admitted, progress, recovery,
                       repairs, acked>>

\* notify_sender_failure: the last descriptor again, marked Failed.
Notify ==
    /\ Live /\ host.phase = "failed" /\ ~host.notified /\ now < host.until
    /\ progress' = Append(progress,
            [frame |-> cache.last_progress, reference |-> None, part |-> None,
             lane |-> "progress", failed |-> TRUE])
    /\ host' = [host EXCEPT !.notified = TRUE]
    /\ UNCHANGED <<now, session, cache, egress, frames, viewVars,
                   admitted, recovery, repairs, requests, acked>>

\* Faulty: the deadline is armed by the notification.
WaitExpiresOnceNotified ==
    /\ Live /\ host.phase # "streaming" /\ now >= host.until
    /\ host.phase = "failed" => host.notified
    /\ session' = "RecoveryExpired"
    /\ UNCHANGED <<now, hostVars, viewVars, network>>

\* permitted and Waiting::check: one absolute deadline for the whole recovery.
WaitExpires ==
    /\ Live /\ host.phase # "streaming" /\ now >= host.until
    /\ session' = "RecoveryExpired"
    /\ UNCHANGED <<now, hostVars, viewVars, network>>

\* handoff::replace up to recover_sender: fresh channels; what the old ones still
\* hold is discarded by the transport.
ReplaceGeneration ==
    LET r == Replace(cache, cache.epoch + 1, now) IN
    /\ Live /\ host.phase = "handoff" /\ host.capture = None /\ now < host.until
    /\ cache.epoch < MaxEpoch
    /\ IF r.outcome = "Ok"
       THEN /\ cache' = r.state
            /\ egress' = [egress EXCEPT !.pending = None]
            /\ host' = [host EXCEPT !.phase = "startup"]
            /\ UNCHANGED session
       ELSE EndHost(r.outcome)
    /\ admitted' = {} /\ progress' = << >> /\ recovery' = << >>
    /\ repairs' = << >>
    /\ UNCHANGED <<now, frames, viewVars, requests, acked>>

\* Faulty: the bootstrap was sent in full; the acknowledgement is not awaited.
FinishUnacknowledged ==
    /\ Live /\ host.phase = "startup" /\ now < host.until
    /\ cache.last_inserted # None /\ Unfinished(cache) = {} /\ egress.pending = None
    /\ host' = [host EXCEPT !.phase = "streaming", !.until = None]
    /\ UNCHANGED <<now, session, cache, egress, frames, viewVars, network>>

\* finish_stream: the viewer acknowledged its first decoded picture.
FinishStartup ==
    /\ Live /\ host.phase = "startup" /\ acked = cache.epoch /\ now < host.until
    /\ host' = [host EXCEPT !.phase = "streaming", !.until = None]
    /\ UNCHANGED <<now, session, cache, egress, frames, viewVars, network>>

----------------------------------------------------------------------------
(* The viewer.                                                             *)

Starting == viewer.startup # None

\* What a failed pipeline call means: recovery once streaming, else the end.
ViewerOutcome(r, after) ==
    IF r.outcome = "Ok" \/ (r.outcome \in Recoverable /\ ~Starting)
    THEN view' = r.state /\ viewer' = after /\ UNCHANGED session
    ELSE session' = r.outcome /\ UNCHANGED viewVars

\* recovery::receive: a failed receiver ignores what still arrives.
Deliver(m) ==
    IF view.state = "NeedsRecovery" THEN UNCHANGED <<session, viewVars>>
    ELSE \E r \in {Receive(view, m, now)} : ViewerOutcome(r, viewer)

Reachable == Live /\ view.epoch = cache.epoch

\* A datagram stays in `admitted`: it may arrive at any later time, again, or never.
ReceiveVideo ==
    /\ Reachable
    /\ \E m \in admitted : m.lane = "video" /\ Deliver(m)
    /\ UNCHANGED <<now, hostVars, network>>

ReceiveProgress ==
    /\ Reachable /\ progress # << >>
    /\ Deliver(Head(progress)) /\ progress' = Tail(progress)
    /\ UNCHANGED <<now, hostVars, admitted, recovery, repairs, requests, acked>>

ReceiveRecovery ==
    /\ Reachable /\ recovery # << >>
    /\ Deliver(Head(recovery)) /\ recovery' = Tail(recovery)
    /\ UNCHANGED <<now, hostVars, admitted, progress, repairs, requests, acked>>

TakePicture ==
    /\ Reachable /\ view.in_flight = None /\ Decodable(view) # {}
    /\ \E r \in {TakeDecodable(view, now)} : ViewerOutcome(r, viewer)
    /\ UNCHANGED <<now, hostVars, network>>

\* A decode that outlives its chain is dropped with the chain's in_flight; the
\* first success completes the startup and is acknowledged to the host.
FinishDecode ==
    /\ Reachable /\ view.in_flight # None
    /\ \E success \in BOOLEAN :
        LET r == AcknowledgeDecode(view, success, now) IN
        /\ ViewerOutcome(r, IF r.outcome # "Ok" THEN viewer
                            ELSE [viewer EXCEPT !.startup = None,
                                     !.requestor.last_useful = view.in_flight.frame])
        /\ acked' = IF r.outcome = "Ok" THEN view.epoch ELSE acked
    /\ UNCHANGED <<now, hostVars, admitted, progress, recovery, repairs, requests>>

\* Bound::tick of the viewer's decoder startup.
StartupExpires ==
    /\ Live /\ Starting /\ now >= viewer.startup
    /\ session' = "StartupExpired"
    /\ UNCHANGED <<now, hostVars, viewVars, network>>

\* recovery::service: tick, then own the one request of a failed generation.
Service ==
    /\ Live
    /\ UNCHANGED <<now, hostVars, network>>
    /\ \E t \in {TickView(view, now)} :
        IF t.outcome = "Ok" THEN UNCHANGED <<session, viewVars>>
        ELSE IF Starting THEN session' = t.outcome /\ UNCHANGED viewVars
        ELSE \E r \in {OfferRequest(viewer.requestor, t.state, now)} :
            IF r.outcome # "Ok" THEN session' = r.outcome /\ UNCHANGED viewVars
            ELSE /\ view' = t.state
                 /\ viewer' = [viewer EXCEPT !.requestor = r.state, !.repair = None]
                 /\ UNCHANGED session

\* The prepared request enters the control stream, once, unless the connection, whose
\* channels all its lanes use up, has none left for the generation it asks for.
SendRequest ==
    LET pending == viewer.requestor.pending IN
    /\ Live /\ pending # None /\ ~pending.sent /\ now < pending.until
    /\ \/ /\ viewer' = [viewer EXCEPT !.requestor.pending.sent = TRUE]
          /\ requests' = Append(requests, [epoch |-> view.epoch,
                                           last_useful |-> viewer.requestor.last_useful])
          /\ UNCHANGED session
       \/ session' = "NamespaceExhausted" /\ UNCHANGED <<viewer, requests>>
    /\ UNCHANGED <<now, hostVars, view, admitted, progress, recovery, repairs, acked>>

\* authorize_replacement, then Presenter::recover, under the original deadline.
Reconfigure ==
    LET pending == viewer.requestor.pending
        r == ReplaceView(view, cache.epoch, now)
    IN  /\ Live /\ host.phase = "startup" /\ view.epoch < cache.epoch
        /\ pending # None /\ pending.sent /\ now < pending.until
        /\ IF r.outcome = "Ok"
           THEN /\ view' = r.state
                /\ viewer' = [startup |-> pending.until, requestor |-> NewRequestor,
                              repair |-> None]
                /\ UNCHANGED session
           ELSE session' = r.outcome /\ UNCHANGED viewVars
        /\ UNCHANGED <<now, hostVars, network>>

\* Repair::prepare_raw: keep a useful request, replace an obsolete one.
Useful(v) ==
    viewer.repair # None /\ now < viewer.repair.until /\ RepairNeeded(v, viewer.repair.frame)

PrepareRepair ==
    LET t == TickView(view, now)
        r == RepairOffered(t.state, now)
    IN  /\ Reachable /\ ~Starting /\ view.state = "Streaming" /\ ~Useful(view)
        /\ RepairCandidates(view, now) # {}
        /\ IF t.outcome # "Ok" THEN ViewerOutcome(t, viewer)
           ELSE ViewerOutcome(r, [viewer EXCEPT !.repair = RepairRequest(view, now)])
        /\ UNCHANGED <<now, hostVars, network>>

\* repair_send::transmit: an obsolete request is dropped before admission.
SendRepair ==
    /\ Reachable /\ viewer.repair # None
    /\ viewer' = [viewer EXCEPT !.repair = None]
    /\ repairs' = IF Useful(view) THEN Append(repairs, viewer.repair) ELSE repairs
    /\ UNCHANGED <<now, session, hostVars, view, admitted, progress, recovery, requests, acked>>

----------------------------------------------------------------------------
PassTime ==
    /\ Live /\ now < MaxInstant /\ now' = now + 1
    /\ UNCHANGED <<session, hostVars, viewVars, network>>

HostStep ==
    \/ StartCapture
    \/ \E reference \in {cache.last_inserted, None} : CollectCapture(reference)
    \/ EnqueueBootstrap \/ DrainCapture
    \/ Prepare \/ Write \/ HostTick
    \/ ReceiveRepair \/ ReceiveRequest
    \/ Notify \/ WaitExpires \/ ReplaceGeneration \/ FinishStartup

ViewerStep ==
    \/ ReceiveVideo \/ ReceiveProgress \/ ReceiveRecovery
    \/ TakePicture \/ FinishDecode \/ StartupExpires
    \/ Service \/ SendRequest \/ Reconfigure \/ PrepareRepair \/ SendRepair

Next == HostStep \/ ViewerStep \/ PassTime

\* Each loop serves its timers on every bounded turn, and time passes.  Nothing is
\* assumed of the network, the encoder, the decoder or the transport's credit.
Fairness ==
    /\ WF_vars(PassTime)
    /\ WF_vars(HostTick) /\ WF_vars(WaitExpires)
    /\ WF_vars(StartupExpires) /\ WF_vars(Service)

Spec == Init /\ [][Next]_vars /\ Fairness

----------------------------------------------------------------------------
\* A session that loses, repeats or delays any datagrams, whose pictures expire at
\* either end, and whose two ends fail in any order, only ever ends because a budget
\* is spent (the absolute deadline of a recovery or of a decoder startup, the
\* recoveries of a window, the channels of the connection, the range of the clock) or
\* because the first picture of a generation cannot be decoded.  None of the protocol
\* errors the two loops can return (Order, StaleGeneration, InvalidSequence, InvalidDependency,
\* InvalidRecovery, WrongState, CacheFull, ConflictingPicture, ResourceLimit,
\* NoncontiguousRecovery, an unrecovered reference failure) is an answer to loss.
EndsOnlyByBudget ==
    \/ session \in {"live", "RecoveryExpired", "StartupExpired",
                    "RecoveryLimitExceeded", "NamespaceExhausted", "ClockOverflow"}
    \/ session = "DecodeFailed" /\ Starting

\* What the transport has admitted of a generation is a prefix of its reference chain:
\* every picture is announced before its parts, the parts go out first to last, and a
\* picture starts only when all of its predecessor went out, whatever repairs were
\* interleaved and whatever prepared records expired (next_packet, retire_obsolete).
ReferenceOrderKept ==
    LET Out(f, p) == \E m \in admitted : m.frame = f /\ m.part = p
    IN  \A m \in admitted :
            CASE m.part = None -> \/ Out(m.frame - 1, Fragments - 1)
                                  \/ \A n \in admitted : n.frame >= m.frame
              [] m.part = 0 -> Out(m.frame, None)
              [] OTHER -> Out(m.frame, m.part - 1)

\* The two ends never disagree on the recovery generation by more than the handoff:
\* the viewer is one behind only while it is failed and the host is starting the next
\* generation, the host streams only after the viewer's decoder has started, and no
\* request of an old generation reaches a host in decoder startup.
GenerationsAgree ==
    /\ \/ view.epoch = cache.epoch
       \/ view.epoch = cache.epoch - 1 /\ host.phase = "startup" /\ view.state = "NeedsRecovery"
    /\ host.phase = "streaming" => ~Starting
    /\ host.phase = "startup" => requests = << >>

\* A failure at either end is followed by both ends streaming again or by the end of
\* the session, and no picture stays half sent at the host or half received at the
\* viewer: it is completed, superseded, or the chain fails.
LossIsResolved ==
    /\ []<>(~Live \/ (host.phase = "streaming" /\ view.state = "Streaming"))
    /\ \A f \in 2 .. MaxFrame :
           []<>(~Live \/ f \notin Unfinished(cache) \cup DOMAIN view.slots)
============================================================================
