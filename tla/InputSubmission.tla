---------------------------- MODULE InputSubmission ----------------------------
(***************************************************************************)
(* The native input owner, `InputSession` of fr-core/input_submission.rs,  *)
(* composed with the session authority it shares with media, watchdog and  *)
(* renewer, and with its own sequence ledger.                              *)
(*                                                                         *)
(* The owner is one thread.  `call` is where it stands: every point at     *)
(* which another participant can act between two of its locks, clock       *)
(* samples or native calls is a value of call.pc.                          *)
(*                                                                         *)
(*   view, authorize   the two locks of check(), before the action starts  *)
(*                     and again before each of its native operations      *)
(*   mode              the lock of a pointer mode change                   *)
(*   submit            inside the native call                              *)
(*   recheck, release  a reconciliation's check and native release         *)
(*   releasing         the release loop of maintain and cleanup            *)
(*   confirm           the lock that confirms a suspension's release       *)
(*                                                                         *)
(* `os` is the ground truth: what this owner has down in the operating     *)
(* system.  `issued`, `late` and `told` are history.                       *)
(***************************************************************************)
EXTENDS Authority, Sequences

CONSTANTS
    LeaseId, FirstTicket,   \* the credentials this owner attached with
    Me, Other,              \* its identity, and another owner's
    MaxSequence, ReceiptCapacity,
    Events,                 \* the input events a controller sends
    MaxPointer,             \* largest pointer sequence
    MaxEpoch,               \* largest pointer-mode epoch
    Snapshots,              \* held-state sequences
    RepeatRequiresPair,     \* InputSink::repeat_requires_pair
    HasRenewer              \* the owner's ControlLease gets taken

INSTANCE SequenceLedger WITH NoSequence <- None, Leases <- LeaseIds

VARIABLES
    auth,       \* the shared SessionAuthority
    revoked,    \* the RevokeHandle flag
    ledger,     \* InputSequenceLedger
    results,    \* the owner's ring of full receipts
    own,        \* view, held input, pointer mode and floors
    call,       \* the owner's current call
    control,    \* the ControlLease
    now,        \* host clock
    os, issued, late, told

vars == <<auth, revoked, ledger, results, own, call, control, now, os,
          issued, late, told>>

-----------------------------------------------------------------------------
(* Events and the native operations they become.                           *)

Inputs == {"key", "button", "wheel"}
KeyEvents == {"KeyPress", "KeyRelease", "KeyRepeat"}
ButtonEvents == {"ButtonPress", "ButtonRelease"}
ModeEvents == {"ModeAbsolute", "ModeRelative"}
\* Scroll is one native call, Lines the press/release pairs of a wheel.
PositionEvents == ButtonEvents \cup {"Scroll", "Lines"}
AllEvents == KeyEvents \cup PositionEvents \cup ModeEvents
             \cup {"Pointer", "Text", "Relative"}

Op(kind, input) == [kind |-> kind, input |-> input]
Operations ==
    {Op(k, "none") : k \in {"Absolute", "Relative", "Scroll", "Text"}}
    \cup {Op(k, i) : k \in {"Press", "Release", "Repeat"}, i \in Inputs}

Plan(event) ==
    LET absolute == Op("Absolute", "none")
    IN CASE event = "KeyPress" -> <<Op("Press", "key")>>
         [] event = "KeyRelease" -> <<Op("Release", "key")>>
         [] event = "KeyRepeat" ->
              IF RepeatRequiresPair
              THEN <<Op("Release", "key"), Op("Press", "key")>>
              ELSE <<Op("Repeat", "key")>>
         [] event = "Pointer" -> <<absolute>>
         [] event = "ButtonPress" -> <<absolute, Op("Press", "button")>>
         [] event = "ButtonRelease" -> <<absolute, Op("Release", "button")>>
         [] event = "Scroll" -> <<absolute, Op("Scroll", "none")>>
         [] event = "Lines" ->
              <<absolute, Op("Press", "wheel"), Op("Release", "wheel")>>
         [] event = "Text" -> <<Op("Text", "none"), Op("Text", "none")>>
         [] event = "Relative" -> <<Op("Relative", "none")>>
         [] OTHER -> <<>>

\* The state checks of execute; capabilities, bounds and payload limits are
\* the `valid` choice of Execute.
Acceptable(o, event, epoch) ==
    /\ event \in {"KeyPress"} => "key" \notin o.held
    /\ event \in {"KeyRelease", "KeyRepeat"} => "key" \in o.held
    /\ event \in PositionEvents \cup {"Pointer"} => o.mode = "Absolute"
    /\ event = "ButtonPress" => "button" \notin o.held
    /\ event = "ButtonRelease" => "button" \in o.held
    /\ event = "Relative" => o.mode = "Relative" /\ epoch = o.mode_epoch
    /\ event \in ModeEvents => epoch > o.mode_epoch /\ o.held = {}

ASSUME EventsAssumption == Events \subseteq AllEvents

ASSUME CredentialsAssumption ==
    /\ LeaseId \in LeaseIds /\ FirstTicket \in TicketIds
    /\ Me \in Owners /\ Other \in Owners /\ Me # Other

\* The bounds are numbers and a ring of receipts has a slot.
ASSUME CapacityAssumption ==
    /\ MaxSequence \in Nat /\ ReceiptCapacity \in Nat \ {0}
    /\ MaxPointer \in Nat /\ MaxEpoch \in Nat

-----------------------------------------------------------------------------
(* State.                                                                  *)

Requests == [event : Events, ticket : TicketIds, view : Generations,
             sequence : 0..MaxSequence + MaxPointer]

IdleCall ==
    [pc |-> "idle", request |-> None, entered |-> FALSE, plan |-> <<>>,
     sample |-> 0, previous |-> {}, submitted |-> 0, effects |-> 0,
     planned |-> 0, keep |-> {}, confirm |-> FALSE]

Begin(pc, request) == [IdleCall EXCEPT !.pc = pc, !.request = request]

Pcs == {"idle", "view", "authorize", "mode", "submit", "recheck", "release",
        "releasing", "confirm"}
EmptyResult == [sequence |-> None, outcome |-> "EffectUnknown", submitted |-> 0]
MaxPlan == 3

\* The type of every variable.
TypeOK ==
    /\ auth \in SessionAuthorityType
    /\ revoked \in BOOLEAN
    /\ ledger \in LedgerType
    /\ results.ring \in [ReceiptSlots -> [sequence : SequenceNumbers \cup {None},
                                          outcome : InputOutcomes,
                                          submitted : 0..MaxPlan]]
    /\ results.cursor \in ReceiptSlots
    /\ own.view \in Generations /\ own.held \subseteq Inputs
    /\ own.mode \in {"Absolute", "Relative"} /\ own.mode_epoch \in 0..MaxEpoch
    /\ own.pointer_floor \in Option(0..MaxPointer)
    /\ own.snapshot_floor \in Option(Snapshots)
    /\ call.pc \in Pcs
    /\ call.request \in Option(Requests)
    /\ Len(call.plan) <= MaxPlan
    /\ \A i \in 1..Len(call.plan) : call.plan[i] \in Operations
    /\ call.submitted \in 0..MaxPlan /\ call.effects \in 0..MaxPlan
    /\ control.state \in {"none", "ready", "challenge", "respond", "dropped"}
    /\ now \in Time
    /\ os \subseteq Inputs
    /\ issued \in [TicketIds -> Option(0..MaxEpoch)]
    /\ late \in 0..2

\* A lease with one ticket, granted under evidence-bounded readiness until
\* `until`, with this owner attached: the sequence of calls that
\* from_shared_authority needs before it.
Granted(ticket, until) ==
    LET observed == AuthorizeObservation(MarkCapabilitiesChecked(NewAuthority), 0)
        ready == MarkViewReadyUntil(RequireViewEvidence(observed, 0), None, until, 0)
        ticketed == IssueInputTicket(GrantLease(ready, LeaseId, 0),
                                     LeaseId, ticket, 0, FALSE)
    IN ClaimNativeOwner(AuthorizeSubmission(ticketed, 0), LeaseId, Me)

Init ==
    /\ \E until \in Time \ {0} :
          /\ auth = Granted(FirstTicket, until)
          /\ SubmissionAllowed(auth, LeaseId, FirstTicket, 0)
    /\ issued = [t \in TicketIds |-> IF t = FirstTicket THEN 0 ELSE None]
    /\ revoked = FALSE
    /\ ledger = NewLedger(LeaseId)
    /\ results = [ring |-> [s \in ReceiptSlots |-> EmptyResult], cursor |-> 0]
    /\ own = [view |-> 0, held |-> {}, mode |-> "Absolute", mode_epoch |-> 0,
              pointer_floor |-> None, snapshot_floor |-> None]
    /\ call = IdleCall
    /\ control = [state |-> "none", sample |-> 0]
    /\ now = 0 /\ os = {} /\ late = 0 /\ told = None

-----------------------------------------------------------------------------
(* Shared pieces.                                                          *)

\* Faulty variant: equal numeric credentials are enough.
MineByNumber(a) == LeaseIs(a, LeaseId)

\* InputMonitor::with: the lease is still this owner's own grant.
Mine(a) == LeaseIs(a, LeaseId) /\ a.native_owner = Me

\* Faulty variant: the flag is not read again under the lock.
EntersUnchecked == Mine(auth)

\* The closure of `with` runs: the flag, read again under the lock, is clear.
Enters == ~ revoked /\ Mine(auth)

Active == ~ revoked /\ ~ ledger.fenced

Recovered(a) == IF a.recovery = None THEN 0 ELSE a.recovery

\* Faulty variant: the view is the one granted.
FollowRecoveryNever(view, a) == view

FollowRecovery(view, a) == IF Recovered(a) > view THEN Recovered(a) ELSE view

IsPointer(request) == request.event = "Pointer"

\* Faulty variant: uncertainty is reported like any other failure.
OutcomeWithoutUncertainty(c, refusal) ==
    CASE refusal = "none" -> IF c.submitted = 0 THEN "AppliedLocally" ELSE "SubmittedToOs"
      [] refusal # "none" /\ c.submitted > 0 -> "PartiallySubmittedToOs"
      [] refusal = "Expired" /\ c.submitted = 0 -> "ExpiredBeforeSubmission"
      [] refusal = "Revoked" /\ c.submitted = 0 -> "CancelledBeforeSubmission"
      [] OTHER -> "RejectedBeforeSubmission"

\* Attempt::receipt.  "Unknown" is an attempt left uncertain.
OutcomeOf(c, refusal) ==
    CASE refusal = "Unknown" -> "EffectUnknown"
      [] refusal = "none" -> IF c.submitted = 0 THEN "AppliedLocally" ELSE "SubmittedToOs"
      [] refusal \notin {"none", "Unknown"} /\ c.submitted > 0 -> "PartiallySubmittedToOs"
      [] refusal = "Expired" /\ c.submitted = 0 -> "ExpiredBeforeSubmission"
      [] refusal = "Revoked" /\ c.submitted = 0 -> "CancelledBeforeSubmission"
      [] OTHER -> "RejectedBeforeSubmission"

\* Faulty variant: receipts are kept for reliable successes only.
RetainSuccesses(r, request, outcome, submitted) ==
    IF IsPointer(request) \/ outcome \notin Successes THEN r
    ELSE [ring |-> [r.ring EXCEPT ![r.cursor] =
                      [sequence |-> request.sequence, outcome |-> outcome,
                       submitted |-> submitted]],
          cursor |-> (r.cursor + 1) % ReceiptCapacity]

Retain(r, request, outcome, submitted) ==
    IF IsPointer(request) THEN r
    ELSE [ring |-> [r.ring EXCEPT ![r.cursor] =
                      [sequence |-> request.sequence, outcome |-> outcome,
                       submitted |-> submitted]],
          cursor |-> (r.cursor + 1) % ReceiptCapacity]

\* Attempt::finish, and its Drop on unwind: the outcome is recorded in both
\* rings; anything but success revokes the owner.
Conclude(c, refusal) ==
    LET outcome == OutcomeOf(c, refusal)
        recorded == IF IsPointer(c.request) THEN ledger
                    ELSE RecordOutcome(ledger, LeaseId, c.request.sequence, outcome)
    IN /\ call' = IdleCall
       /\ told' = [outcome |-> outcome, submitted |-> c.submitted,
                   effects |-> c.effects, planned |-> c.planned, keep |-> {}]
       /\ results' = Retain(results, c.request, outcome, c.submitted)
       /\ ledger' = IF outcome \in Successes THEN recorded ELSE Fence(recorded)
       /\ revoked' = (revoked \/ outcome \notin Successes)

\* The owner's call goes on; nothing is recorded.
Continue(c) ==
    /\ call' = c
    /\ UNCHANGED <<told, results, ledger, revoked>>

\* InputSession::revoke
RevokeOwner == revoked' = TRUE /\ ledger' = Fence(ledger)

-----------------------------------------------------------------------------
(* dispatch                                                                *)

DispatchPointer(request) ==
    /\ call.pc = "idle" /\ IsPointer(request)
    /\ own.pointer_floor # None => request.sequence > own.pointer_floor
    /\ Active
    /\ own' = [own EXCEPT !.pointer_floor = request.sequence]
    /\ call' = Begin("view", request)
    /\ told' = None
    /\ UNCHANGED <<auth, revoked, ledger, results, control, now, os, issued, late>>

\* An admitted action starts; a refusal that leaves the ledger fenced revokes.
\* Duplicates are answered from the rings and change nothing.
DispatchReliable(request) ==
    LET admission == Admission(ledger, LeaseId, request.sequence)
        admitted == Admit(ledger, LeaseId, request.sequence)
    IN /\ call.pc = "idle" /\ ~ IsPointer(request)
       /\ admission \notin {"Completed", "ConsumedWithoutReceipt", "InFlight"}
       /\ ledger' = admitted
       /\ revoked' = (revoked \/ (admission # "Admitted" /\ admitted.fenced))
       /\ call' = IF admission = "Admitted" THEN Begin("view", request) ELSE call
       /\ told' = None
       /\ UNCHANGED <<auth, results, own, control, now, os, issued, late>>

\* Before the action starts, and after `prepare` of each operation: the first
\* lock of check().  Preparation itself may fail or unwind.
CheckView ==
    /\ call.pc = "view"
    /\ \/ /\ call.entered
          /\ \E refusal \in {"Platform", "Revoked"} : Conclude(call, refusal)
          /\ UNCHANGED own
       \/ IF ~ Active
          THEN Conclude(call, "Revoked") /\ UNCHANGED own
          ELSE LET view == FollowRecovery(own.view, auth)
               IN /\ own' = [own EXCEPT !.view = view]
                  /\ IF call.request.view # view
                     THEN Conclude(call, "StaleView")
                     ELSE Continue([call EXCEPT !.pc = "authorize", !.sample = now])
    /\ UNCHANGED <<auth, control, now, os, issued, late>>

\* The event's own checks, after the first authorization.  `valid` stands for
\* capabilities, bounds, payload and overflow checks; `moves` for a relative
\* motion that is not zero.
Execute(epoch, barrier, valid, moves) ==
    LET event == call.request.event
        floor == IF own.pointer_floor # None /\ own.pointer_floor > barrier
                 THEN own.pointer_floor ELSE barrier
        plan == Plan(event)
    IN IF ~ valid \/ ~ Acceptable(own, event, epoch)
       THEN Conclude(call, "Refused") /\ UNCHANGED own
       ELSE IF event \in ModeEvents
       THEN /\ own' = [own EXCEPT
                         !.mode = IF event = "ModeRelative" THEN "Relative" ELSE "Absolute",
                         !.mode_epoch = epoch]
            /\ Continue([call EXCEPT !.pc = "mode"])
       ELSE IF event = "Relative" /\ ~ moves
       THEN Conclude(call, "none") /\ UNCHANGED own
       ELSE /\ own' = IF event \in PositionEvents
                      THEN [own EXCEPT !.pointer_floor = floor] ELSE own
            /\ Continue([call EXCEPT !.pc = "view", !.entered = TRUE,
                                     !.plan = plan, !.planned = Len(plan)])

\* Faulty variant: a press is tracked once it has succeeded.
TrackBeforeNothing(held, op) == held

\* track(op, before): a possible press is tracked before the native call.
TrackBefore(held, op) ==
    IF op.kind = "Press" THEN held \cup {op.input} ELSE held

\* track(op, after)
TrackAfter(held, op) ==
    CASE op.kind = "Press" -> held \cup {op.input}
      [] op.kind = "Release" -> held \ {op.input}
      [] OTHER -> held

\* A refusal of authorize_submission that names an expiry.
RefusedAsExpired(c, ticket, at) ==
    /\ c.phase = "Viewing"
    /\ \/ ~ ObservationLive(c, at)
       \/ /\ c.readiness = "Ready" /\ LeaseIs(c, LeaseId)
          /\ \/ ~ LeaseUnexpired(c, at)
             \/ \E s \in Slots : Holds(c, s, ticket)

\* The second lock of check(): submission_deadline at the sample taken before
\* the first lock, or later.  A sample behind the owner's own clock revokes.
Authorize ==
    LET at == SerializedTime(auth, call.sample)
        checked == CheckTime(auth, at)
        ticket == call.request.ticket
        op == Head(call.plan)
    IN /\ call.pc = "authorize"
       /\ \/ Conclude(call, "ClockRegression") /\ UNCHANGED <<auth, own>>
          \/ /\ revoked
             /\ Conclude(call, "Revoked") /\ UNCHANGED <<auth, own>>
          \/ /\ ~ revoked /\ ~ Mine(auth)
             /\ Conclude(call, "StaleLease") /\ UNCHANGED <<auth, own>>
          \/ /\ Enters
             /\ auth' = checked
             /\ IF ~ SubmissionAllowed(checked, LeaseId, ticket, at)
                THEN /\ Conclude(call, IF RefusedAsExpired(checked, ticket, at)
                                       THEN "Expired" ELSE "Authority")
                     /\ UNCHANGED own
                ELSE IF call.entered
                THEN /\ own' = [own EXCEPT !.held = TrackBefore(@, op)]
                     /\ Continue([call EXCEPT !.pc = "submit", !.previous = own.held])
                ELSE \E epoch \in 0..MaxEpoch, barrier \in 0..MaxPointer,
                        valid, moves \in BOOLEAN :
                        Execute(epoch, barrier, valid, moves)
       /\ UNCHANGED <<control, now, os, issued, late>>

ModeInvalidates(a) == InvalidateInputTickets(a, LeaseId)

\* The last lock of a mode change.
ChangeMode ==
    /\ call.pc = "mode"
    /\ \/ /\ revoked
          /\ Conclude(call, "Revoked") /\ UNCHANGED auth
       \/ /\ ~ revoked /\ ~ Mine(auth)
          /\ Conclude(call, "StaleLease") /\ UNCHANGED auth
       \/ /\ Enters
          /\ auth' = ModeInvalidates(auth) /\ Conclude(call, "none")
    /\ UNCHANGED <<own, control, now, os, issued, late>>

\* What an operation that took effect does to the operating system.
Effect(down, op) ==
    CASE op.kind = "Press" -> down \cup {op.input}
      [] op.kind = "Release" -> down \ {op.input}
      [] OTHER -> down

\* This owner can no longer be authorized: revoked, or its grant is gone.
Lost == revoked \/ auth.native_owner # Me

\* The native call returns: submitted, certainly not submitted, or unknown (an
\* unknown result or an unwind, with or without the effect).
Submit ==
    LET op == Head(call.plan)
        done == [call EXCEPT !.plan = Tail(@), !.pc = "view",
                             !.submitted = @ + 1, !.effects = @ + 1,
                             !.previous = {}]
        struck == [call EXCEPT !.effects = @ + 1]
    IN /\ call.pc = "submit"
       /\ \/ /\ own' = [own EXCEPT !.held = TrackAfter(@, op)]
             /\ IF done.plan = <<>> THEN Conclude(done, "none") ELSE Continue(done)
             /\ os' = Effect(os, op)
             /\ late' = IF Lost /\ op.kind # "Release" /\ late < 2 THEN late + 1 ELSE late
          \/ /\ \E refusal \in {"Platform", "Expired", "Revoked"} :
                   Conclude(call, refusal)
             /\ own' = IF op.kind = "Press"
                       THEN [own EXCEPT !.held = call.previous] ELSE own
             /\ UNCHANGED <<os, late>>
          \/ /\ Conclude(call, "Unknown")
             /\ UNCHANGED <<own, os, late>>
          \/ /\ Conclude(struck, "Unknown")
             /\ os' = Effect(os, op)
             /\ late' = IF Lost /\ op.kind # "Release" /\ late < 2 THEN late + 1 ELSE late
             /\ UNCHANGED own
       /\ UNCHANGED <<auth, control, now, issued>>

-----------------------------------------------------------------------------
(* reconcile_held                                                          *)

MissingReleases(held, keep) ==
    (IF "key" \in held \ keep THEN <<Op("Release", "key")>> ELSE <<>>)
    \o (IF "button" \in held \ keep THEN <<Op("Release", "button")>> ELSE <<>>)

\* A snapshot behind the consumed actions is ignored; one ahead of them
\* revokes; otherwise it is consumed before any native work.
Reconcile(sequence, next_action, keep) ==
    /\ call.pc = "idle" /\ Active
    /\ own.snapshot_floor # None => sequence > own.snapshot_floor
    /\ ledger.next_sequence # None
    /\ next_action >= ledger.next_sequence
    /\ told' = None
    /\ IF next_action > ledger.next_sequence \/ ledger.pending # None
       THEN RevokeOwner /\ UNCHANGED <<own, call>>
       ELSE /\ own' = [own EXCEPT !.snapshot_floor = sequence]
            /\ call' = [Begin("recheck", None) EXCEPT
                          !.plan = MissingReleases(own.held, keep), !.keep = keep]
            /\ UNCHANGED <<revoked, ledger>>
    /\ UNCHANGED <<auth, results, control, now, os, issued, late>>

Applied(c) ==
    /\ call' = IdleCall
    /\ told' = [outcome |-> "Applied", submitted |-> c.submitted,
                effects |-> c.submitted, planned |-> 0, keep |-> c.keep]

\* Any failure, an unwind included, revokes.
Abandon == RevokeOwner /\ call' = IdleCall /\ UNCHANGED told

\* check_reconciliation, on entry and after `prepare` of each release.
Recheck ==
    LET at == SerializedTime(auth, now)
        checked == CheckTime(auth, at)
    IN /\ call.pc = "recheck"
       /\ \/ Abandon /\ UNCHANGED auth
          \/ /\ Active /\ Enters
             /\ auth' = checked
             /\ IF ~ HasLiveControl(checked, at) THEN Abandon
                ELSE /\ IF call.plan = <<>> THEN Applied(call)
                        ELSE /\ call' = IF call.entered
                                        THEN [call EXCEPT !.pc = "release"]
                                        ELSE [call EXCEPT !.entered = TRUE]
                             /\ UNCHANGED told
                     /\ UNCHANGED <<revoked, ledger>>
       /\ UNCHANGED <<results, own, control, now, os, issued, late>>

Release ==
    LET op == Head(call.plan)
        done == [call EXCEPT !.plan = Tail(@), !.pc = "recheck", !.submitted = @ + 1]
    IN /\ call.pc = "release"
       /\ \/ /\ own' = [own EXCEPT !.held = @ \ {op.input}]
             /\ os' = os \ {op.input}
             /\ IF done.plan = <<>> THEN Applied(done)
                ELSE call' = done /\ UNCHANGED told
             /\ UNCHANGED <<revoked, ledger>>
          \/ /\ Abandon
             /\ os' \in {os, os \ {op.input}}
             /\ UNCHANGED own
       /\ UNCHANGED <<auth, results, control, now, issued, late>>

-----------------------------------------------------------------------------
(* maintain, cleanup and tickets                                           *)

\* Faulty variant: an ended control is left to the other monitors.
EndedNever(c, at) == FALSE

\* control_status refused: terminal for its callers.
Ended(c, at) == ControlStatus(c, at).kind = "Ended"

StartRelease(confirm) == [Begin("releasing", None) EXCEPT !.confirm = confirm]

Cleanup ==
    /\ call.pc = "idle"
    /\ RevokeOwner
    /\ call' = StartRelease(FALSE)
    /\ told' = None
    /\ UNCHANGED <<auth, results, own, control, now, os, issued, late>>

\* A sample behind the owner's clock is an error too: it acts as Cleanup.
Maintain ==
    LET checked == ControlStatusEffect(auth, now)
        at == SerializedTime(auth, now)
        status == ControlStatus(checked, at)
    IN /\ call.pc = "idle"
       /\ \/ /\ Enters
             /\ auth' = checked
             /\ IF Ended(checked, at)
                THEN RevokeOwner /\ call' = StartRelease(FALSE)
                ELSE /\ call' = IF status.kind = "Suspended"
                                THEN StartRelease(~ status.released) ELSE call
                     /\ UNCHANGED <<revoked, ledger>>
          \/ /\ ~ Enters
             /\ RevokeOwner /\ call' = StartRelease(FALSE)
             /\ UNCHANGED auth
       /\ told' = None
       /\ UNCHANGED <<results, own, control, now, os, issued, late>>

\* Faulty variant: a confirmation does not wait for every release.
ConfirmsAlways(remaining, confirm) == confirm

Confirms(remaining, confirm) == remaining = {} /\ confirm

\* release_held: each held input is released, or not, or nobody knows.
ReleaseHeld ==
    /\ call.pc = "releasing"
    /\ \E freed \in SUBSET own.held : \E unknown \in SUBSET (own.held \ freed) :
          /\ own' = [own EXCEPT !.held = @ \ freed]
          /\ os' = os \ (freed \cup unknown)
          /\ call' = IF Confirms(own.held \ freed, call.confirm)
                     THEN Begin("confirm", None) ELSE IdleCall
    /\ UNCHANGED <<auth, revoked, ledger, results, control, now, issued, late, told>>

Confirm ==
    /\ call.pc = "confirm"
    /\ auth' = IF Enters
               THEN ConfirmSuspensionRelease(auth, LeaseId) ELSE auth
    /\ call' = IdleCall
    /\ UNCHANGED <<revoked, ledger, results, own, control, now, os, issued, late, told>>

\* issue_ticket and issue_readiness_ticket: ticket identities are never reused.
IssueTicket(ticket, presented) ==
    LET at == SerializedTime(auth, now)
    IN /\ call.pc = "idle" /\ Active /\ Enters
       /\ issued[ticket] = None
       /\ own' = [own EXCEPT !.view = FollowRecovery(@, auth)]
       /\ auth' = IssueInputTicket(auth, LeaseId, ticket, at, presented)
       /\ issued' = IF TicketIssuable(CheckTime(auth, at), LeaseId, ticket, at, presented)
                    THEN [issued EXCEPT ![ticket] = own.mode_epoch] ELSE issued
       /\ UNCHANGED <<revoked, ledger, results, call, control, now, os, late, told>>

\* The owner's own renewal calls.
OwnerRenews(nonce) ==
    LET at == SerializedTime(auth, now)
    IN /\ call.pc = "idle" /\ Active /\ Enters
       /\ auth' \in {IssueObservationChallenge(auth, nonce, at),
                     RespondObservationChallenge(auth, nonce, at),
                     IssueControlChallenge(auth, nonce, at),
                     RespondControlChallenge(auth, LeaseId, nonce, at)}
       /\ UNCHANGED <<revoked, ledger, results, own, call, control, now, os,
                      issued, late, told>>

-----------------------------------------------------------------------------
(* ControlLease: renewal without the native thread.                        *)

TakeControlLease ==
    /\ HasRenewer /\ call.pc = "idle" /\ Active
    /\ control.state = "none"
    /\ control' = [control EXCEPT !.state = "ready"]
    /\ UNCHANGED <<auth, revoked, ledger, results, own, call, now, os, issued,
                   late, told>>

\* deadline, and the first lock of challenge and respond: any error stops.
ControlDeadline(next) ==
    LET checked == ControlStatusEffect(auth, now)
        ended == Ended(checked, SerializedTime(auth, now))
    IN /\ control.state = "ready"
       /\ auth' = IF Enters THEN checked ELSE auth
       /\ revoked' = (revoked \/ ~ Enters \/ ended)
       /\ control' = IF revoked' THEN control ELSE [state |-> next, sample |-> now]
       /\ UNCHANGED <<ledger, results, own, call, now, os, issued, late, told>>

\* Their second lock.
ControlRenews(nonce) ==
    LET at == SerializedTime(auth, control.sample)
    IN /\ control.state \in {"challenge", "respond"}
       /\ control' = [state |-> "ready", sample |-> 0]
       /\ auth' = IF ~ Enters THEN auth
                  ELSE IF control.state = "challenge"
                  THEN IssueControlChallenge(auth, nonce, at)
                  ELSE RespondControlChallenge(auth, LeaseId, nonce, at)
       /\ UNCHANGED <<revoked, ledger, results, own, call, now, os, issued, late, told>>

DropControl ==
    /\ control.state = "ready"
    /\ control' = [control EXCEPT !.state = "dropped"]
    /\ revoked' = TRUE
    /\ UNCHANGED <<auth, ledger, results, own, call, now, os, issued, late, told>>

-----------------------------------------------------------------------------
(* The other holders of the authority and of the revoke handle.            *)

Private == <<ledger, results, own, call, control, os, issued, late, told>>

Tick ==
    /\ now < MaxInstant
    /\ now' = now + 1
    /\ UNCHANGED <<auth, revoked>> /\ UNCHANGED Private

\* InputMonitor::status, the watchdog's read.
WatchdogStatus ==
    LET checked == ControlStatusEffect(auth, now)
    IN /\ ~ revoked
       /\ auth' = IF Mine(auth) THEN checked ELSE auth
       /\ revoked' = (~ Mine(auth) \/ Ended(checked, SerializedTime(auth, now)))
       /\ UNCHANGED now /\ UNCHANGED Private

\* RevokeHandle::revoke, and the drop of the owner.
Revoke ==
    /\ ~ revoked
    /\ revoked' = TRUE
    /\ UNCHANGED <<auth, now>> /\ UNCHANGED Private

\* Media evidence, recovery, and the end of the lease or the session.
MediaStep ==
    /\ \/ auth' = MarkViewStale(auth)
       \/ \E until \in (now + 1)..MaxInstant :
             auth' = MarkViewReadyUntil(auth, None, until, SerializedTime(auth, now))
       \/ \E generation \in Generations \ {0} : auth' = AdvanceRecovery(auth, generation)
       \/ auth' = RevokeLease(auth)
       \/ auth' = Close(auth)
    /\ UNCHANGED <<revoked, now>> /\ UNCHANGED Private

\* Another owner is granted a lease with this one's numbers.
Regrant(ticket) ==
    LET at == SerializedTime(auth, now)
        granted == GrantLease(auth, LeaseId, at)
    IN /\ auth.lease = None
       /\ auth' = ClaimNativeOwner(IssueInputTicket(granted, LeaseId, ticket, at, FALSE),
                                   LeaseId, Other)
       /\ UNCHANGED <<revoked, now>> /\ UNCHANGED Private

Sequenced(event) == IF event = "Pointer" THEN 0..MaxPointer ELSE SequenceNumbers

OwnerStep == CheckView \/ Authorize \/ ChangeMode \/ Submit \/ Recheck \/ Release
             \/ ReleaseHeld \/ Confirm

Dispatch ==
    \E event \in Events, ticket \in TicketIds, view \in Generations :
        \E sequence \in Sequenced(event) :
            LET request == [event |-> event, ticket |-> ticket, view |-> view,
                            sequence |-> sequence]
            IN DispatchPointer(request) \/ DispatchReliable(request)

Next ==
    \/ Dispatch \/ OwnerStep \/ Cleanup \/ Maintain
    \/ \E sequence \in Snapshots, next_action \in SequenceNumbers,
          keep \in SUBSET {"key", "button"} : Reconcile(sequence, next_action, keep)
    \/ \E ticket \in TicketIds : \/ \E presented \in BOOLEAN : IssueTicket(ticket, presented)
                                 \/ Regrant(ticket)
    \/ \E nonce \in Nonces : OwnerRenews(nonce) \/ ControlRenews(nonce)
    \/ TakeControlLease \/ DropControl
    \/ \E next \in {"ready", "challenge", "respond"} : ControlDeadline(next)
    \/ Tick \/ WatchdogStatus \/ Revoke \/ MediaStep

\* A call of maintain that has something to do.
Maintainable ==
    LET checked == ControlStatusEffect(auth, now)
        at == SerializedTime(auth, now)
    IN /\ call.pc = "idle"
       /\ ~ Enters \/ Ended(checked, at) \/ ControlStatus(checked, at).kind = "Suspended"

\* The clock runs, native calls return, and the driver services maintain: weak fairness
\* of Tick, OwnerStep and Maintain, with what enables them written out.
Fairness ==
    /\ []<>(now = MaxInstant)
    /\ []<>(call.pc = "idle") \/ []<><<OwnerStep>>_vars
    /\ []<>~ Maintainable \/ []<><<Maintain>>_vars

Spec == Init /\ [][Next]_vars /\ Fairness

-----------------------------------------------------------------------------
(* Safety.                                                                 *)

\* Whatever is down in the operating system is tracked for release, through
\* unknown results, unwinds, refused releases and revocation at any point.
HeldCoversNative == os \subseteq own.held

\* A suspension counts as released only while nothing is tracked as held: no
\* key crosses a frozen view into revived input.
ReleasedSuspensionHoldsNothing ==
    Mine(auth) /\ auth.suspension # None /\ auth.suspension.released
        => own.held = {} /\ os = {}

\* What the client is told is what happened. Of an action: success means every
\* native operation took effect, a refusal before submission that none did, a
\* partial outcome that some but not all did, and the count is the confirmed
\* one. Of a held-state snapshot: "Applied" means that everything outside it
\* is released, several native releases later and some of them failing.
ReceiptIsTrue ==
    told # None =>
      IF told.outcome = "Applied"
      THEN os \cap {"key", "button"} \subseteq told.keep
      ELSE
        /\ told.submitted <= told.effects
        /\ told.outcome # "EffectUnknown" => told.submitted = told.effects
        /\ told.outcome = "SubmittedToOs" => told.effects = told.planned /\ told.planned > 0
        /\ told.outcome \in {"AppliedLocally", "RejectedBeforeSubmission",
                             "ExpiredBeforeSubmission", "CancelledBeforeSubmission"}
              => told.effects = 0
        /\ told.outcome = "PartiallySubmittedToOs"
              => told.effects \in 1..(told.planned - 1)

\* The ledger's ring and the owner's ring retain the same actions, so a
\* completed duplicate always finds its own receipt.
RingsAgree ==
    /\ results.cursor = ledger.receipt_cursor
    /\ \A s \in ReceiptSlots : /\ results.ring[s].sequence = ledger.receipts[s].sequence
                               /\ results.ring[s].outcome = ledger.receipts[s].outcome

\* Once the owner is revoked or its grant is gone, at most the one native call
\* already authorized takes effect, equal numbers of a new grant included.
AtMostOneLateEffect == late <= 1

\* A revoked owner's lease is never renewed, although challenge and response
\* take two locks and the revocation can fall between them.
RevokedNeverRenewed ==
    [][revoked /\ Mine(auth) /\ Mine(auth') =>
          auth'.lease.authorized_until = auth.lease.authorized_until]_vars

\* The step that authorizes a request.
Authorizes == /\ call.pc = "authorize"
              /\ call'.pc \notin {"authorize", "idle"}

\* A request passes the final lock only with the view of the newest recovery,
\* although its view is compared under an earlier lock, and only with a ticket
\* issued since the newest change of pointer mode.
AuthorizedIsCurrent ==
    [][Authorizes => /\ call.request.view = Recovered(auth')
                     /\ issued[call.request.ticket] = own.mode_epoch]_vars

-----------------------------------------------------------------------------
(* Liveness.                                                               *)

Unreleased == Mine(auth) /\ auth.suspension # None /\ ~ auth.suspension.released

\* A suspension is not left open: its release is confirmed, or the owner is
\* revoked or loses the lease, even when releases keep failing.
SuspensionResolved == Unreleased /\ ~ revoked ~> ~ Unreleased \/ revoked

=============================================================================
