------------------------------ MODULE Authority ------------------------------
(***************************************************************************)
(* The policy owner of one remote session, `SessionAuthority` of           *)
(* crates/fr-core/src/authority.rs, as a record and one operator per       *)
(* method.  An operator maps the record before the call to the record      *)
(* after it, refusals included: every `?` of the code is a branch that     *)
(* keeps the effects made so far.  Modules that own an authority keep the  *)
(* record in a variable and apply these operators to it.                   *)
(*                                                                         *)
(* Host instants are u64 microseconds in the code.  Here they are          *)
(* 0..MaxInstant, and MaxInstant plays the role of u64::MAX: checked_add   *)
(* past it fails, as in the code.                                          *)
(***************************************************************************)
EXTENDS Integers

CONSTANTS
    None,                   \* an absent Option value
    MaxInstant,             \* the largest representable host instant
    AuthorizationLifetime,  \* AuthorityPolicy::authorization_lifetime
    TicketLifetime,         \* AuthorityPolicy::ticket_lifetime
    MaxViewSuspension,      \* MAX_VIEW_SUSPENSION
    MaxLiveInputTickets,    \* MAX_LIVE_INPUT_TICKETS
    MaxGeneration,          \* the largest recovery generation
    LeaseIds, TicketIds,    \* identifiers; ticket 0 is never issued
    Nonces, Sequences,      \* challenge nonces, presentation sequences
    Owners                  \* identities of native owners

Time == 0..MaxInstant
Slots == 1..MaxLiveInputTickets
Generations == 0..MaxGeneration

Phases == {"Identified", "CapabilitiesChecked", "WaitingApproval",
           "ViewOpening", "Viewing", "Refused", "Closed"}
Observing == {"ViewOpening", "Viewing"}
Terminal == {"Refused", "Closed"}
ViewReadiness == {"Unready", "Ready", "Stale"}

Suspension == [since : Time, released : BOOLEAN]
Challenge == [nonce : Nonces, deadline : Time]
Ticket == [id : TicketIds, expires_at : Time]
Tickets == [Slots -> Ticket \cup {None}]
Lease == [id : LeaseIds, authorized_until : Time, tickets : Tickets]

Option(S) == S \cup {None}

SessionAuthorityType ==
    [phase : Phases,
     observation_until : Option(Time),
     readiness : ViewReadiness,
     view_until : Option(Time),
     presented_sequence : Option(Sequences),
     bounded_view : BOOLEAN,
     lease : Option(Lease),
     suspension : Option(Suspension),
     recovery : Option(Generations),
     native_owner : Option(Owners),
     observation_challenge : Option(Challenge),
     control_challenge : Option(Challenge),
     last_checked : Option(Time),
     clock_faulted : BOOLEAN]

ASSUME BoundsAssumption ==
    /\ MaxInstant \in Nat
    /\ AuthorizationLifetime \in Nat
    /\ TicketLifetime \in Nat
    /\ MaxViewSuspension \in Nat
    /\ MaxLiveInputTickets \in Nat
    /\ MaxGeneration \in Nat

\* None is none of the values an Option may hold.
ASSUME NoneAssumption ==
    /\ None \notin Nat
    /\ None \notin Sequences
    /\ None \notin Owners
    /\ None \notin Ticket
    /\ None \notin Challenge
    /\ None \notin Suspension
    /\ None \notin Lease

-----------------------------------------------------------------------------
(* Construction and the transitions that take authority away.              *)

NewAuthority ==
    [phase |-> "Identified", observation_until |-> None,
     readiness |-> "Unready", view_until |-> None,
     presented_sequence |-> None, bounded_view |-> FALSE, lease |-> None,
     suspension |-> None, recovery |-> None, native_owner |-> None,
     observation_challenge |-> None, control_challenge |-> None,
     last_checked |-> None, clock_faulted |-> FALSE]

NoTickets == [s \in Slots |-> None]

\* `lease.tickets.fill(None)` under `if let Some(lease)`.
WithoutTickets(lease) ==
    IF lease = None THEN None ELSE [lease EXCEPT !.tickets = NoTickets]

ClearAuthority(a) ==
    [a EXCEPT !.observation_until = None, !.readiness = "Unready",
              !.view_until = None, !.presented_sequence = None,
              !.lease = None, !.suspension = None, !.native_owner = None,
              !.observation_challenge = None, !.control_challenge = None]

Close(a) == [ClearAuthority(a) EXCEPT !.phase = "Closed"]

Refuse(a) == [ClearAuthority(a) EXCEPT !.phase = "Refused"]

DropObservation(a) ==
    [ClearAuthority(a) EXCEPT
        !.phase = IF @ \in Observing THEN "CapabilitiesChecked" ELSE @]

\* Faulty variant: the suspension outlives the lease.
RevokeLeaseKeepsSuspension(a) ==
    [a EXCEPT !.lease = None, !.native_owner = None,
              !.control_challenge = None, !.presented_sequence = None]

RevokeLease(a) ==
    [a EXCEPT !.lease = None, !.suspension = None, !.native_owner = None,
              !.control_challenge = None, !.presented_sequence = None]

\* The view stopped being trustworthy at `at`.  Under a held lease with
\* evidence-bounded readiness this opens a suspension.
LapseView(a, at) ==
    LET suspends == /\ a.readiness = "Ready"
                    /\ a.bounded_view
                    /\ a.lease # None
                    /\ a.suspension = None
    IN [a EXCEPT
          !.view_until = None,
          !.presented_sequence = None,
          !.readiness = IF @ = "Ready" THEN "Stale" ELSE @,
          !.suspension = IF suspends THEN [since |-> at, released |-> FALSE]
                                     ELSE @,
          !.lease = WithoutTickets(@)]

MarkViewStale(a) ==
    LapseView(a, IF a.last_checked = None THEN 0 ELSE a.last_checked)

-----------------------------------------------------------------------------
(* The checks every method starts with.                                    *)

ViewPassed(a, now) == a.view_until # None /\ now >= a.view_until

LapsePassedView(a, now) ==
    IF ViewPassed(a, now) THEN LapseView(a, a.view_until) ELSE a

ClockRegressed(a, now) ==
    a.clock_faulted \/ (a.last_checked # None /\ now < a.last_checked)

\* check_time: a regressed clock closes the session for good; otherwise the
\* sample becomes the high-water mark and a passed view deadline lapses.
CheckTime(a, now) ==
    IF ClockRegressed(a, now)
    THEN Close([a EXCEPT !.clock_faulted = TRUE])
    ELSE LapsePassedView([a EXCEPT !.last_checked = now], now)

ObservationLive(a, now) ==
    /\ a.phase \in Observing
    /\ a.observation_until # None
    /\ now < a.observation_until

\* A representable deadline that lies in the future.
HasDeadline(now, lifetime) ==
    /\ now + lifetime <= MaxInstant
    /\ now + lifetime > now

SerializedTime(a, sampled) ==
    IF a.last_checked # None /\ a.last_checked > sampled
    THEN a.last_checked ELSE sampled

ChallengeSlotFree(challenge, now) ==
    challenge = None \/ now >= challenge.deadline

Earliest(x, y) == IF x <= y THEN x ELSE y

LeaseIs(a, id) == a.lease # None /\ a.lease.id = id
LeaseUnexpired(a, now) == a.lease # None /\ now < a.lease.authorized_until

-----------------------------------------------------------------------------
(* Lifecycle and observation.                                              *)

MarkCapabilitiesChecked(a) ==
    IF a.phase = "Identified"
    THEN [a EXCEPT !.phase = "CapabilitiesChecked"] ELSE a

RequireApproval(a) ==
    IF a.phase = "CapabilitiesChecked"
    THEN [a EXCEPT !.phase = "WaitingApproval"] ELSE a

\* Faulty variant: any phase without observation may be granted one.
ObservationGrantableAnyPhase(c, now) ==
    /\ c.phase \notin Observing
    /\ HasDeadline(now, AuthorizationLifetime)

ObservationGrantable(c, now) ==
    /\ c.phase \in {"CapabilitiesChecked", "WaitingApproval"}
    /\ HasDeadline(now, AuthorizationLifetime)

AuthorizeObservation(a, now) ==
    LET c == CheckTime(a, now)
    IN IF ObservationGrantable(c, now)
       THEN [ClearAuthority(c) EXCEPT
               !.observation_until = now + AuthorizationLifetime,
               !.phase = "ViewOpening"]
       ELSE c

\* authorize_observation_delivery and observation_deadline.
AuthorizeObservationDelivery(a, now) == CheckTime(a, now)

ObservationChallengeable(c, now) ==
    /\ ObservationLive(c, now)
    /\ ChallengeSlotFree(c.observation_challenge, now)
    /\ HasDeadline(now, AuthorizationLifetime)

IssueObservationChallenge(a, nonce, now) ==
    LET c == CheckTime(a, now)
    IN IF ObservationChallengeable(c, now)
       THEN [c EXCEPT !.observation_challenge =
               [nonce |-> nonce, deadline |-> now + AuthorizationLifetime]]
       ELSE c

\* A matching reply, live or late, uses the challenge up.
Answers(challenge, nonce) == challenge # None /\ challenge.nonce = nonce

ObservationRenewable(c, nonce, now) ==
    /\ ObservationLive(c, now)
    /\ Answers(c.observation_challenge, nonce)
    /\ now < c.observation_challenge.deadline

\* Faulty variant: a reply starts a fresh lifetime when it arrives.
RespondObservationChallengeSliding(a, nonce, now) ==
    LET c == CheckTime(a, now)
    IN IF ObservationRenewable(c, nonce, now) /\ HasDeadline(now, AuthorizationLifetime)
       THEN [c EXCEPT !.observation_challenge = None,
                      !.observation_until = now + AuthorizationLifetime]
       ELSE c

RespondObservationChallenge(a, nonce, now) ==
    LET c == CheckTime(a, now)
    IN IF ~ (ObservationLive(c, now) /\ Answers(c.observation_challenge, nonce))
       THEN c
       ELSE [c EXCEPT
               !.observation_challenge = None,
               !.observation_until =
                   IF ObservationRenewable(c, nonce, now)
                   THEN c.observation_challenge.deadline ELSE @]

-----------------------------------------------------------------------------
(* View readiness.                                                         *)

MarkViewReady(a, now) ==
    LET c == CheckTime([a EXCEPT !.presented_sequence = None], now)
    IN IF ObservationLive(c, now) /\ ~ c.bounded_view
       THEN [c EXCEPT !.phase = "Viewing", !.readiness = "Ready"]
       ELSE c

RequireViewEvidence(a, now) ==
    LET c == CheckTime(a, now)
    IN IF ObservationLive(c, now) /\ (c.lease = None \/ c.bounded_view)
       THEN MarkViewStale([c EXCEPT !.bounded_view = TRUE])
       ELSE c

\* Faulty variant: fresh evidence alone revives a suspended lease.
RevivableUnreleased(c, now) ==
    c.suspension # None => now < c.suspension.since + MaxViewSuspension

\* A suspended lease is revived before the limit of its own suspension, and
\* only after the native owner confirmed the release of all held input.
Revivable(c, now) ==
    IF c.suspension # None
    THEN /\ c.suspension.since + MaxViewSuspension <= MaxInstant
         /\ now < c.suspension.since + MaxViewSuspension
         /\ c.suspension.released
    ELSE ~ (c.bounded_view /\ c.readiness # "Ready" /\ c.lease # None)

ViewAcceptable(c, until, now) ==
    /\ ObservationLive(c, now)
    /\ until > now
    /\ Revivable(c, now)
    /\ c.view_until = None \/ until >= c.view_until

MarkViewReadyUntil(a, sequence, until, now) ==
    LET c == CheckTime([a EXCEPT !.presented_sequence = None], now)
    IN IF ViewAcceptable(c, until, now)
       THEN [c EXCEPT !.suspension = None, !.bounded_view = TRUE,
                      !.view_until = until, !.phase = "Viewing",
                      !.readiness = "Ready", !.presented_sequence = sequence]
       ELSE c

AdvanceRecovery(a, generation) ==
    IF /\ a.readiness # "Ready"
       /\ a.recovery = None \/ generation > a.recovery
    THEN [a EXCEPT !.recovery = generation, !.presented_sequence = None,
                   !.lease = WithoutTickets(@)]
    ELSE a

ConfirmSuspensionRelease(a, id) ==
    IF LeaseIs(a, id) /\ a.suspension # None
    THEN [a EXCEPT !.suspension.released = TRUE] ELSE a

-----------------------------------------------------------------------------
(* The control lease and its tickets.                                      *)

LeaseGrantable(c, now) ==
    /\ ObservationLive(c, now)
    /\ c.phase = "Viewing"
    /\ c.readiness = "Ready"
    /\ c.lease = None
    /\ HasDeadline(now, AuthorizationLifetime)

GrantLease(a, id, now) ==
    LET c == CheckTime(a, now)
    IN IF LeaseGrantable(c, now)
       THEN [c EXCEPT
               !.lease = [id |-> id, tickets |-> NoTickets,
                          authorized_until |-> now + AuthorizationLifetime],
               !.control_challenge = None]
       ELSE c

ControlChallengeable(c, now) ==
    /\ ObservationLive(c, now)
    /\ LeaseUnexpired(c, now)
    /\ ChallengeSlotFree(c.control_challenge, now)
    /\ HasDeadline(now, AuthorizationLifetime)

IssueControlChallenge(a, nonce, now) ==
    LET c == CheckTime(a, now)
    IN IF ControlChallengeable(c, now)
       THEN [c EXCEPT !.control_challenge =
               [nonce |-> nonce, deadline |-> now + AuthorizationLifetime]]
       ELSE c

ControlRenewable(c, id, nonce, now) ==
    /\ ObservationLive(c, now)
    /\ LeaseIs(c, id)
    /\ LeaseUnexpired(c, now)
    /\ Answers(c.control_challenge, nonce)
    /\ now < c.control_challenge.deadline

\* A reply for an expired lease also discards the pending challenge.
RespondControlChallenge(a, id, nonce, now) ==
    LET c == CheckTime(a, now)
    IN IF ~ (ObservationLive(c, now) /\ LeaseIs(c, id)) THEN c
       ELSE IF ControlRenewable(c, id, nonce, now)
       THEN [c EXCEPT !.control_challenge = None,
                      !.lease.authorized_until = c.control_challenge.deadline]
       ELSE [c EXCEPT !.control_challenge =
               IF Answers(@, nonce) \/ ~ LeaseUnexpired(c, now) THEN None ELSE @]

\* Slots that issue_ticket_checked may fill: empty or expired.
ReusableSlots(lease, now) ==
    {s \in Slots : \/ lease.tickets[s] = None
                   \/ now >= lease.tickets[s].expires_at}

FirstSlot(S) == CHOOSE s \in S : \A r \in S : s <= r

TicketExpiry(c, now) ==
    Earliest(Earliest(now + TicketLifetime, c.lease.authorized_until),
             c.observation_until)

TicketIssuable(c, id, ticket, now, presented) ==
    /\ ObservationLive(c, now)
    /\ c.readiness = "Ready"
    /\ presented => c.presented_sequence # None
    /\ LeaseIs(c, id)
    /\ LeaseUnexpired(c, now)
    /\ ticket # 0
    /\ \A s \in Slots : c.lease.tickets[s] # None => c.lease.tickets[s].id # ticket
    /\ HasDeadline(now, TicketLifetime)
    /\ ReusableSlots(c.lease, now) # {}

\* issue_input_ticket and issue_presented_input_ticket.
IssueInputTicket(a, id, ticket, now, presented) ==
    LET c == CheckTime(a, now)
    IN IF TicketIssuable(c, id, ticket, now, presented)
       THEN [c EXCEPT !.lease.tickets[FirstSlot(ReusableSlots(c.lease, now))] =
               [id |-> ticket, expires_at |-> TicketExpiry(c, now)]]
       ELSE c

InvalidateInputTickets(a, id) ==
    IF LeaseIs(a, id) THEN [a EXCEPT !.lease = WithoutTickets(@)] ELSE a

Holds(c, s, ticket) ==
    c.lease.tickets[s] # None /\ c.lease.tickets[s].id = ticket

\* Faulty variant: holding a ticket is enough, expired or not.
SubmissionAllowedAnyAge(c, id, ticket, now) ==
    /\ c.phase = "Viewing"
    /\ ObservationLive(c, now)
    /\ c.readiness = "Ready"
    /\ LeaseIs(c, id)
    /\ \E s \in Slots : Holds(c, s, ticket)

\* The decision of authorize_submission on the checked record c.
SubmissionAllowed(c, id, ticket, now) ==
    /\ c.phase = "Viewing"
    /\ ObservationLive(c, now)
    /\ c.readiness = "Ready"
    /\ LeaseIs(c, id)
    /\ LeaseUnexpired(c, now)
    /\ \E s \in Slots : /\ Holds(c, s, ticket)
                        /\ now < c.lease.tickets[s].expires_at

\* authorize_submission and has_live_control only record the clock sample.
AuthorizeSubmission(a, now) == CheckTime(a, now)

\* Faulty variant: the ticket's own deadline is left out.
SubmissionDeadlineWithoutTicket(c, ticket) ==
    LET until == Earliest(c.lease.authorized_until, c.observation_until)
    IN IF c.view_until = None THEN until ELSE Earliest(until, c.view_until)

\* submission_deadline: the earliest of the ticket, lease, observation and
\* bounded-view deadlines.
SubmissionDeadline(c, ticket) ==
    LET s == CHOOSE s \in Slots : Holds(c, s, ticket)
        until == Earliest(Earliest(c.lease.tickets[s].expires_at,
                                   c.lease.authorized_until),
                          c.observation_until)
    IN IF c.view_until = None THEN until ELSE Earliest(until, c.view_until)

HasLiveControl(c, now) ==
    /\ ObservationLive(c, now)
    /\ c.phase = "Viewing"
    /\ c.readiness = "Ready"
    /\ LeaseUnexpired(c, now)

ClaimNativeOwner(a, id, owner) ==
    IF LeaseIs(a, id) /\ a.native_owner = None
    THEN [a EXCEPT !.native_owner = owner] ELSE a

-----------------------------------------------------------------------------
(* What the lease's monitors read, and the boundary after a stall.         *)

\* control_status never moves the high-water mark, but lapses a passed view.
ControlStatusEffect(a, sampled) ==
    IF a.clock_faulted THEN a
    ELSE LapsePassedView(a, SerializedTime(a, sampled))

\* The answer of control_status, on the record after its effect.
ControlStatus(c, now) ==
    LET lease_until == Earliest(c.lease.authorized_until, c.observation_until)
        limit == c.suspension.since + MaxViewSuspension
    IN IF c.clock_faulted \/ ~ ObservationLive(c, now) \/ c.lease = None
       THEN [kind |-> "Ended"]
       ELSE IF now >= lease_until THEN [kind |-> "Ended"]
       ELSE IF c.phase = "Viewing" /\ c.readiness = "Ready"
       THEN [kind |-> "Live",
             until |-> IF c.view_until = None THEN lease_until
                       ELSE Earliest(lease_until, c.view_until)]
       ELSE IF c.suspension = None THEN [kind |-> "Ended"]
       ELSE IF limit > MaxInstant \/ now >= limit THEN [kind |-> "Ended"]
       ELSE [kind |-> "Suspended", until |-> Earliest(lease_until, limit),
             released |-> c.suspension.released]

ExpireChallenge(challenge, now) ==
    IF challenge # None /\ now >= challenge.deadline THEN None ELSE challenge

ExpireTickets(lease, now) ==
    IF lease = None THEN None
    ELSE [lease EXCEPT !.tickets =
            [s \in Slots |-> IF s \in ReusableSlots(lease, now) THEN None
                             ELSE lease.tickets[s]]]

\* apply_resume_boundary: expired observation, challenges, lease and tickets
\* go, in that order, and has_live_control checks the same sample again.
ApplyResumeBoundary(a, now) ==
    LET c == CheckTime(a, now)
        o == IF c.observation_until # None /\ now >= c.observation_until
             THEN DropObservation(c) ELSE c
        h == [o EXCEPT
                !.observation_challenge = ExpireChallenge(@, now),
                !.control_challenge = ExpireChallenge(@, now)]
        l == IF h.lease # None /\ now >= h.lease.authorized_until
             THEN RevokeLease(h) ELSE h
    IN IF ClockRegressed(a, now) THEN c
       ELSE CheckTime([l EXCEPT !.lease = ExpireTickets(@, now)], now)

-----------------------------------------------------------------------------

\* No authority of any kind is left.
HoldsNothing(a) ==
    /\ a.observation_until = None /\ a.lease = None /\ a.suspension = None
    /\ a.view_until = None /\ a.readiness = "Unready" /\ a.native_owner = None
    /\ a.observation_challenge = None /\ a.control_challenge = None

=============================================================================
