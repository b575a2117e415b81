--------------------------- MODULE SessionAuthority ---------------------------
(***************************************************************************)
(* The session authority as its callers see it: one serialized owner, and  *)
(* media, input, renewal, watchdog and approval code calling its methods   *)
(* in any order, each with its own clock sample.  A sample may be older    *)
(* than one already recorded (a regressed clock).                          *)
(*                                                                         *)
(* `auth` is the program state.  `asked` and `evidence` are history: when  *)
(* the pending challenge was issued, and when the newest evidence that the *)
(* peer (or the local approver) was there was asked for.  Both forget what *)
(* no longer has a challenge, an observation or a lease to belong to.      *)
(***************************************************************************)
EXTENDS Authority

VARIABLES auth, asked, evidence

vars == <<auth, asked, evidence>>

Grants == [observation : Option(Time), control : Option(Time)]

\* The type of every variable.
TypeOK ==
    /\ auth \in SessionAuthorityType
    /\ asked \in Grants
    /\ evidence \in Grants

Init ==
    /\ auth = NewAuthority
    /\ asked = [observation |-> None, control |-> None]
    /\ evidence = [observation |-> None, control |-> None]

-----------------------------------------------------------------------------
(* Calls that neither ask for evidence nor accept it.                      *)

KeepIf(present, at) == IF present THEN at ELSE None

\* The history after the step: `asking` and `seen`, as far as still in use.
Remember(asking, seen) ==
    /\ asked' = [observation |-> KeepIf(auth'.observation_challenge # None,
                                        asking.observation),
                 control |-> KeepIf(auth'.control_challenge # None,
                                    asking.control)]
    /\ evidence' = [observation |-> KeepIf(auth'.observation_until # None,
                                           seen.observation),
                    control |-> KeepIf(auth'.lease # None, seen.control)]

CallMarkCapabilitiesChecked ==
    /\ auth' = MarkCapabilitiesChecked(auth)
    /\ Remember(asked, evidence)

CallRequireApproval ==
    /\ auth' = RequireApproval(auth)
    /\ Remember(asked, evidence)

CallAuthorizeObservationDelivery(now) ==
    /\ auth' = AuthorizeObservationDelivery(auth, now)
    /\ Remember(asked, evidence)

CallMarkViewReady(now) ==
    /\ auth' = MarkViewReady(auth, now)
    /\ Remember(asked, evidence)

CallRequireViewEvidence(now) ==
    /\ auth' = RequireViewEvidence(auth, now)
    /\ Remember(asked, evidence)

CallMarkViewReadyUntil(sequence, until, now) ==
    /\ auth' = MarkViewReadyUntil(auth, sequence, until, now)
    /\ Remember(asked, evidence)

CallMarkViewStale ==
    /\ auth' = MarkViewStale(auth)
    /\ Remember(asked, evidence)

CallAdvanceRecovery(generation) ==
    /\ auth' = AdvanceRecovery(auth, generation)
    /\ Remember(asked, evidence)

CallConfirmSuspensionRelease(id) ==
    /\ auth' = ConfirmSuspensionRelease(auth, id)
    /\ Remember(asked, evidence)

CallControlStatus(now) ==
    /\ auth' = ControlStatusEffect(auth, now)
    /\ Remember(asked, evidence)

CallIssueInputTicket(id, ticket, now, presented) ==
    /\ auth' = IssueInputTicket(auth, id, ticket, now, presented)
    /\ Remember(asked, evidence)

CallInvalidateInputTickets(id) ==
    /\ auth' = InvalidateInputTickets(auth, id)
    /\ Remember(asked, evidence)

CallAuthorizeSubmission(now) ==
    /\ auth' = AuthorizeSubmission(auth, now)
    /\ Remember(asked, evidence)

CallRevokeLease ==
    /\ auth' = RevokeLease(auth)
    /\ Remember(asked, evidence)

CallClaimNativeOwner(id, owner) ==
    /\ auth' = ClaimNativeOwner(auth, id, owner)
    /\ Remember(asked, evidence)

CallApplyResumeBoundary(now) ==
    /\ auth' = ApplyResumeBoundary(auth, now)
    /\ Remember(asked, evidence)

CallInvalidateForSuspend ==
    /\ auth' = DropObservation(auth)
    /\ Remember(asked, evidence)

CallClose ==
    /\ auth' = Close(auth)
    /\ Remember(asked, evidence)

CallRefuse ==
    /\ auth' = Refuse(auth)
    /\ Remember(asked, evidence)

-----------------------------------------------------------------------------
(* Calls that ask for evidence or accept it.                               *)

CallAuthorizeObservation(now) ==
    /\ auth' = AuthorizeObservation(auth, now)
    /\ Remember(asked, IF ObservationGrantable(CheckTime(auth, now), now)
                       THEN [evidence EXCEPT !.observation = now] ELSE evidence)

CallIssueObservationChallenge(nonce, now) ==
    /\ auth' = IssueObservationChallenge(auth, nonce, now)
    /\ Remember(IF ObservationChallengeable(CheckTime(auth, now), now)
                THEN [asked EXCEPT !.observation = now] ELSE asked, evidence)

CallRespondObservationChallenge(nonce, now) ==
    /\ auth' = RespondObservationChallenge(auth, nonce, now)
    /\ Remember(asked,
                IF ObservationRenewable(CheckTime(auth, now), nonce, now)
                THEN [evidence EXCEPT !.observation = asked.observation]
                ELSE evidence)

CallGrantLease(id, now) ==
    /\ auth' = GrantLease(auth, id, now)
    /\ Remember(asked, IF LeaseGrantable(CheckTime(auth, now), now)
                       THEN [evidence EXCEPT !.control = now] ELSE evidence)

CallIssueControlChallenge(nonce, now) ==
    /\ auth' = IssueControlChallenge(auth, nonce, now)
    /\ Remember(IF ControlChallengeable(CheckTime(auth, now), now)
                THEN [asked EXCEPT !.control = now] ELSE asked, evidence)

CallRespondControlChallenge(id, nonce, now) ==
    /\ auth' = RespondControlChallenge(auth, id, nonce, now)
    /\ Remember(asked,
                IF ControlRenewable(CheckTime(auth, now), id, nonce, now)
                THEN [evidence EXCEPT !.control = asked.control]
                ELSE evidence)

-----------------------------------------------------------------------------

UntimedCall ==
    \/ CallMarkCapabilitiesChecked
    \/ CallRequireApproval
    \/ CallMarkViewStale
    \/ \E generation \in Generations : CallAdvanceRecovery(generation)
    \/ \E id \in LeaseIds : CallConfirmSuspensionRelease(id)
    \/ \E id \in LeaseIds : CallInvalidateInputTickets(id)
    \/ \E id \in LeaseIds, owner \in Owners : CallClaimNativeOwner(id, owner)
    \/ CallRevokeLease
    \/ CallInvalidateForSuspend
    \/ CallClose
    \/ CallRefuse

ViewCall(now) ==
    \/ CallAuthorizeObservationDelivery(now)
    \/ CallMarkViewReady(now)
    \/ CallRequireViewEvidence(now)
    \/ \E sequence \in Option(Sequences), until \in Time :
          CallMarkViewReadyUntil(sequence, until, now)
    \/ CallControlStatus(now)
    \/ CallApplyResumeBoundary(now)

GrantCall(now) ==
    \/ CallAuthorizeObservation(now)
    \/ \E nonce \in Nonces : CallIssueObservationChallenge(nonce, now)
    \/ \E nonce \in Nonces : CallRespondObservationChallenge(nonce, now)
    \/ \E id \in LeaseIds : CallGrantLease(id, now)
    \/ \E nonce \in Nonces : CallIssueControlChallenge(nonce, now)
    \/ \E id \in LeaseIds, nonce \in Nonces :
          CallRespondControlChallenge(id, nonce, now)

TicketCall(now) ==
    \/ \E id \in LeaseIds, ticket \in TicketIds, presented \in BOOLEAN :
          CallIssueInputTicket(id, ticket, now, presented)
    \/ CallAuthorizeSubmission(now)

Next ==
    \/ UntimedCall
    \/ \E now \in Time : ViewCall(now) \/ GrantCall(now) \/ TicketCall(now)

Spec == Init /\ [][Next]_vars

-----------------------------------------------------------------------------
(* Safety.                                                                 *)

\* Renewals use the deadline fixed when the challenge was issued, so neither
\* observation nor the lease ever reaches further than one authorization
\* lifetime past the moment the answered challenge was asked, however late
\* the answer came (respond_observation_challenge, respond_control_challenge).
AuthorityDatedAtEvidence ==
    /\ auth.observation_until # None =>
          /\ evidence.observation # None
          /\ auth.observation_until = evidence.observation + AuthorizationLifetime
    /\ auth.lease # None =>
          /\ evidence.control # None
          /\ auth.lease.authorized_until = evidence.control + AuthorizationLifetime

\* A ticket is clamped once, when issue_ticket_checked stores it.  It stays
\* within the lease and the observation that are current at any later time,
\* although both are replaced by renewals, and no ticket survives the loss of
\* the view it was issued under.
TicketsWithinAuthority ==
    auth.lease # None =>
        \A s \in Slots : auth.lease.tickets[s] # None =>
            /\ auth.readiness = "Ready"
            /\ auth.observation_until # None
            /\ auth.lease.tickets[s].expires_at <= auth.lease.authorized_until
            /\ auth.lease.tickets[s].expires_at <= auth.observation_until
            /\ \A r \in Slots \ {s} : auth.lease.tickets[r] # None =>
                  auth.lease.tickets[r].id # auth.lease.tickets[s].id

\* A held lease under evidence-bounded readiness is suspended exactly while
\* its view is not ready: every path that loses the view (a passed deadline, a
\* stale report, new evidence required) opens the suspension that makes
\* revival wait for the release of held input, and every path that ends the
\* lease or regains the view removes it.
SuspendedExactlyWithoutView ==
    (auth.suspension # None) <=>
        (auth.lease # None /\ auth.bounded_view /\ auth.readiness # "Ready")

\* The deadline submission_deadline hands to an executor outside the lock is
\* exact: with no other call in between, a later sample is still authorized
\* if and only if it precedes that deadline; and the watchdog's control_status
\* reports live control up to at least that deadline, so that the two never
\* disagree about the same sample.
SubmissionDeadlineExact ==
    \A id \in LeaseIds, ticket \in TicketIds, now \in Time, later \in Time :
        LET c == CheckTime(auth, now)
            status == ControlStatus(ControlStatusEffect(auth, now), now)
        IN SubmissionAllowed(c, id, ticket, now) /\ later >= now =>
              /\ (SubmissionAllowed(CheckTime(c, later), id, ticket, later)
                    <=> later < SubmissionDeadline(c, ticket))
              /\ status.kind = "Live"
              /\ now < SubmissionDeadline(c, ticket)
              /\ SubmissionDeadline(c, ticket) <= status.until

\* Whatever calls come before it, a submission is authorized only within one
\* authorization lifetime of evidence for the observation and for the lease,
\* and never at a sample older than one already checked.
SubmissionRestsOnRecentEvidence ==
    \A id \in LeaseIds, ticket \in TicketIds, now \in Time :
        SubmissionAllowed(CheckTime(auth, now), id, ticket, now) =>
            /\ auth.last_checked # None => now >= auth.last_checked
            /\ now < evidence.observation + AuthorizationLifetime
            /\ now < evidence.control + AuthorizationLifetime

\* check_time lapses a view before anyone can use it past its deadline, so a
\* recorded view deadline always lies ahead of the high-water mark.
ViewDeadlineAhead ==
    auth.view_until # None =>
        /\ auth.bounded_view
        /\ auth.readiness = "Ready"
        /\ auth.last_checked # None /\ auth.last_checked < auth.view_until

\* close, refuse and a clock regression fence the session for good: nothing a
\* caller does afterwards makes any authority live again.
FenceIsTerminal ==
    [][(auth.phase \in Terminal \/ auth.clock_faulted) =>
          (auth'.phase \in Terminal /\ HoldsNothing(auth'))]_vars

\* While one observation or one lease lives its deadline only moves forward,
\* and a lease is replaced only after it was removed (no caller shortens or
\* swaps the authority that another caller's work is capped by).
LiveDeadlinesOnlyGrow ==
    [][/\ (auth.observation_until # None /\ auth'.observation_until # None) =>
             auth'.observation_until >= auth.observation_until
       /\ (auth.lease # None /\ auth'.lease # None) =>
             /\ auth'.lease.id = auth.lease.id
             /\ auth'.lease.authorized_until >= auth.lease.authorized_until
             /\ auth.native_owner # None => auth'.native_owner = auth.native_owner
      ]_vars

\* A suspension ends in revival only after the native owner confirmed its
\* release and before the limit counted from its first start; stale reports,
\* recoveries and renewals in between neither restart its clock nor take the
\* confirmation back.
SuspensionRevivedOnlyAfterRelease ==
    [][auth.suspension # None /\ auth'.lease # None =>
          IF auth'.suspension # None
          THEN /\ auth'.suspension.since = auth.suspension.since
               /\ auth.suspension.released => auth'.suspension.released
          ELSE /\ auth.suspension.released
               /\ auth'.last_checked < auth.suspension.since + MaxViewSuspension
      ]_vars

=============================================================================
