------------------------ MODULE SessionAuthorityProofs ------------------------
(***************************************************************************)
(* Theorems about the session authority for every value of the constants.  *)
(*                                                                         *)
(* The inductive invariant IInv is Sound of AuthorityLemmas with a typed   *)
(* history; Progress gives the action properties.                          *)
(***************************************************************************)
EXTENDS SessionAuthority, AuthorityLemmas

-----------------------------------------------------------------------------
(* The specification.                                                      *)

\* The history stays typed whatever is asked or accepted.
LEMMA RememberTyped ==
    ASSUME NEW x \in Grants, NEW y \in Grants, Remember(x, y)
    PROVE  asked' \in Grants /\ evidence' \in Grants
  BY DEF Remember, KeepIf, Grants, Option

IInv == Sound(auth) /\ asked \in Grants /\ evidence \in Grants

\* A new session satisfies the inductive invariant.
LEMMA InitIInv == Init => IInv
  BY NewSound DEF Init, IInv, Grants, Option

\* Every call without a clock sample is sound and makes progress.
LEMMA UntimedStep ==
    ASSUME Sound(auth), UntimedCall
    PROVE  Sound(auth') /\ Progress(auth, auth')
<1>0. auth \in SessionAuthorityType /\ Settled(auth) BY DEF Sound, Settled
<1>1. CASE CallMarkCapabilitiesChecked
  BY Zenon, <1>1, LifecycleStep, ProgressRefl
  DEF CallMarkCapabilitiesChecked, MarkCapabilitiesChecked
<1>2. CASE CallRequireApproval
  BY Zenon, <1>2, LifecycleStep, ProgressRefl DEF CallRequireApproval, RequireApproval
<1>3. CASE CallMarkViewStale
  <2>1. auth' = MarkViewStale(auth) BY <1>3 DEF CallMarkViewStale
  <2> QED BY <1>0, <2>1, StaleSound, StaleCarries, CarriedProgress
<1>4. ASSUME NEW generation \in Generations, CallAdvanceRecovery(generation)
      PROVE  Sound(auth') /\ Progress(auth, auth')
  BY <1>4, AdvanceRecoveryStep DEF CallAdvanceRecovery
<1>5. ASSUME NEW id \in LeaseIds, CallConfirmSuspensionRelease(id)
      PROVE  Sound(auth') /\ Progress(auth, auth')
  BY <1>5, ConfirmSuspensionReleaseStep DEF CallConfirmSuspensionRelease
<1>6. ASSUME NEW id \in LeaseIds, CallInvalidateInputTickets(id)
      PROVE  Sound(auth') /\ Progress(auth, auth')
  BY <1>6, InvalidateInputTicketsStep DEF CallInvalidateInputTickets
<1>7. ASSUME NEW id \in LeaseIds, NEW owner \in Owners, CallClaimNativeOwner(id, owner)
      PROVE  Sound(auth') /\ Progress(auth, auth')
  BY <1>7, ClaimNativeOwnerStep DEF CallClaimNativeOwner
<1>8. CASE CallRevokeLease
  <2>1. auth' = RevokeLease(auth) BY <1>8 DEF CallRevokeLease
  <2>2. Sound(auth') /\ auth'.phase = auth.phase BY <2>1, RevokeSound
  <2>3. auth'.lease = None /\ auth'.observation_until = auth.observation_until
    BY <1>0, <2>1 DEF RevokeLease, SessionAuthorityType
  <2>4. Shrinks(auth, auth') BY <2>2, <2>3 DEF Shrinks
  <2> QED BY <1>0, <2>2, <2>4, ShrinksProgress
<1>9. CASE CallInvalidateForSuspend
  <2>1. auth' = DropObservation(auth) BY <1>9 DEF CallInvalidateForSuspend
  <2>2. Sound(auth') /\ (auth.phase \in Terminal => auth'.phase \in Terminal)
    BY <2>1, DropSound
  <2>3. auth'.lease = None /\ auth'.observation_until = None
    BY SMTT(30), <1>0, <2>1 DEF DropObservation, ClearAuthority, SessionAuthorityType
  <2>4. Shrinks(auth, auth') BY <2>2, <2>3 DEF Shrinks
  <2> QED BY <1>0, <2>2, <2>4, ShrinksProgress
<1>10. CASE CallClose
  <2>1. auth' = Close(auth) BY <1>10 DEF CallClose
  <2> QED BY <1>0, <2>1, CloseSound, FencedProgress DEF Observing, Terminal
<1>11. CASE CallRefuse
  <2>1. auth' = Refuse(auth) BY <1>11 DEF CallRefuse
  <2> QED BY SMTT(30), <1>0, <2>1, RefuseSound, FencedProgress DEF Observing, Terminal
<1> QED BY <1>1, <1>2, <1>3, <1>4, <1>5, <1>6, <1>7, <1>8, <1>9, <1>10, <1>11
        DEF UntimedCall

\* Every call about the view is sound and makes progress.
LEMMA ViewStep ==
    ASSUME Sound(auth), NEW now \in Time, ViewCall(now)
    PROVE  Sound(auth') /\ Progress(auth, auth')
<1>1. CASE CallAuthorizeObservationDelivery(now)
  BY <1>1, CheckTimeSound, CheckProgress
  DEF CallAuthorizeObservationDelivery, AuthorizeObservationDelivery
<1>2. CASE CallMarkViewReady(now)
  BY <1>2, MarkViewReadyStep DEF CallMarkViewReady
<1>3. CASE CallRequireViewEvidence(now)
  BY <1>3, RequireViewEvidenceStep DEF CallRequireViewEvidence
<1>4. ASSUME NEW sequence \in Option(Sequences), NEW until \in Time,
             CallMarkViewReadyUntil(sequence, until, now)
      PROVE  Sound(auth') /\ Progress(auth, auth')
  BY <1>4, MarkViewReadyUntilStep DEF CallMarkViewReadyUntil
<1>5. CASE CallControlStatus(now)
  BY SMTT(30), <1>5, ControlStatusStep DEF CallControlStatus
<1>6. CASE CallApplyResumeBoundary(now)
  BY <1>6, ApplyResumeBoundaryStep DEF CallApplyResumeBoundary
<1> QED BY SMTT(30), <1>1, <1>2, <1>3, <1>4, <1>5, <1>6 DEF ViewCall

\* Every grant, challenge and reply is sound and makes progress.
LEMMA GrantStep ==
    ASSUME Sound(auth), NEW now \in Time, GrantCall(now)
    PROVE  Sound(auth') /\ Progress(auth, auth')
<1>1. CASE CallAuthorizeObservation(now)
  BY <1>1, AuthorizeObservationStep DEF CallAuthorizeObservation
<1>2. ASSUME NEW nonce \in Nonces, CallIssueObservationChallenge(nonce, now)
      PROVE  Sound(auth') /\ Progress(auth, auth')
  BY <1>2, IssueObservationChallengeStep DEF CallIssueObservationChallenge
<1>3. ASSUME NEW nonce \in Nonces, CallRespondObservationChallenge(nonce, now)
      PROVE  Sound(auth') /\ Progress(auth, auth')
  BY <1>3, RespondObservationChallengeStep DEF CallRespondObservationChallenge
<1>4. ASSUME NEW id \in LeaseIds, CallGrantLease(id, now)
      PROVE  Sound(auth') /\ Progress(auth, auth')
  BY <1>4, GrantLeaseStep DEF CallGrantLease
<1>5. ASSUME NEW nonce \in Nonces, CallIssueControlChallenge(nonce, now)
      PROVE  Sound(auth') /\ Progress(auth, auth')
  BY <1>5, IssueControlChallengeStep DEF CallIssueControlChallenge
<1>6. ASSUME NEW id \in LeaseIds, NEW nonce \in Nonces,
             CallRespondControlChallenge(id, nonce, now)
      PROVE  Sound(auth') /\ Progress(auth, auth')
  BY <1>6, RespondControlChallengeStep DEF CallRespondControlChallenge
<1> QED BY <1>1, <1>2, <1>3, <1>4, <1>5, <1>6 DEF GrantCall

\* Issuing and using a ticket is sound and makes progress.
LEMMA TicketStep ==
    ASSUME Sound(auth), NEW now \in Time, TicketCall(now)
    PROVE  Sound(auth') /\ Progress(auth, auth')
<1>1. ASSUME NEW id \in LeaseIds, NEW ticket \in TicketIds, NEW presented \in BOOLEAN,
             CallIssueInputTicket(id, ticket, now, presented)
      PROVE  Sound(auth') /\ Progress(auth, auth')
  BY <1>1, IssueInputTicketStep DEF CallIssueInputTicket
<1>2. CASE CallAuthorizeSubmission(now)
  BY <1>2, CheckTimeSound, CheckProgress
  DEF CallAuthorizeSubmission, AuthorizeSubmission
<1> QED BY <1>1, <1>2 DEF TicketCall

\* Every step is sound and makes progress.
LEMMA NextStep ==
    ASSUME Sound(auth), [Next]_vars
    PROVE  Sound(auth') /\ Progress(auth, auth')
<1>1. CASE UNCHANGED vars
  <2>1. auth' = auth BY <1>1 DEF vars
  <2> QED BY <2>1, ProgressRefl
<1>2. CASE Next
  BY <1>2, UntimedStep, ViewStep, GrantStep, TicketStep DEF Next
<1> QED BY <1>1, <1>2

\* Every call leaves a typed history.
LEMMA HistoryStep ==
    ASSUME asked \in Grants, evidence \in Grants, [Next]_vars
    PROVE  asked' \in Grants /\ evidence' \in Grants
<1>1. CASE UNCHANGED vars BY <1>1 DEF vars
<1>2. CASE UntimedCall
  <2>1. Remember(asked, evidence)
    BY <1>2 DEF UntimedCall, CallMarkCapabilitiesChecked, CallRequireApproval,
       CallMarkViewStale, CallAdvanceRecovery, CallConfirmSuspensionRelease,
       CallInvalidateInputTickets, CallClaimNativeOwner, CallRevokeLease,
       CallInvalidateForSuspend, CallClose, CallRefuse
  <2> QED BY SMTT(30), <2>1, RememberTyped
<1>3. ASSUME NEW now \in Time, ViewCall(now) \/ TicketCall(now)
      PROVE  asked' \in Grants /\ evidence' \in Grants
  <2>1. Remember(asked, evidence)
    BY SMTT(30), <1>3 DEF ViewCall, TicketCall, CallAuthorizeObservationDelivery,
       CallMarkViewReady, CallRequireViewEvidence, CallMarkViewReadyUntil,
       CallControlStatus, CallApplyResumeBoundary, CallIssueInputTicket,
       CallAuthorizeSubmission
  <2> QED BY SMTT(30), <2>1, RememberTyped
<1>4. ASSUME NEW now \in Time, GrantCall(now)
      PROVE  asked' \in Grants /\ evidence' \in Grants
  <2>1. \A t \in Option(Time) :
          /\ [asked EXCEPT !.observation = t] \in Grants
          /\ [asked EXCEPT !.control = t] \in Grants
          /\ [evidence EXCEPT !.observation = t] \in Grants
          /\ [evidence EXCEPT !.control = t] \in Grants
    BY DEF Grants
  <2>2. now \in Option(Time) /\ asked.observation \in Option(Time)
        /\ asked.control \in Option(Time)
    BY DEF Grants, Option
  <2>3. CASE CallAuthorizeObservation(now)
    <3>1. \/ Remember(asked, [evidence EXCEPT !.observation = now])
          \/ Remember(asked, evidence)
      BY <2>3 DEF CallAuthorizeObservation
    <3> QED BY Zenon, <2>1, <2>2, <3>1, RememberTyped
  <2>4. ASSUME NEW nonce \in Nonces, CallIssueObservationChallenge(nonce, now)
        PROVE  asked' \in Grants /\ evidence' \in Grants
    <3>1. \/ Remember([asked EXCEPT !.observation = now], evidence)
          \/ Remember(asked, evidence)
      BY <2>4 DEF CallIssueObservationChallenge
    <3> QED BY Zenon, <2>1, <2>2, <3>1, RememberTyped
  <2>5. ASSUME NEW nonce \in Nonces, CallRespondObservationChallenge(nonce, now)
        PROVE  asked' \in Grants /\ evidence' \in Grants
    <3>1. \/ Remember(asked, [evidence EXCEPT !.observation = asked.observation])
          \/ Remember(asked, evidence)
      BY <2>5 DEF CallRespondObservationChallenge
    <3> QED BY Zenon, <2>1, <2>2, <3>1, RememberTyped
  <2>6. ASSUME NEW id \in LeaseIds, CallGrantLease(id, now)
        PROVE  asked' \in Grants /\ evidence' \in Grants
    <3>1. \/ Remember(asked, [evidence EXCEPT !.control = now])
          \/ Remember(asked, evidence)
      BY <2>6 DEF CallGrantLease
    <3> QED BY Zenon, <2>1, <2>2, <3>1, RememberTyped
  <2>7. ASSUME NEW nonce \in Nonces, CallIssueControlChallenge(nonce, now)
        PROVE  asked' \in Grants /\ evidence' \in Grants
    <3>1. \/ Remember([asked EXCEPT !.control = now], evidence)
          \/ Remember(asked, evidence)
      BY <2>7 DEF CallIssueControlChallenge
    <3> QED BY Zenon, <2>1, <2>2, <3>1, RememberTyped
  <2>8. ASSUME NEW id \in LeaseIds, NEW nonce \in Nonces,
               CallRespondControlChallenge(id, nonce, now)
        PROVE  asked' \in Grants /\ evidence' \in Grants
    <3>1. \/ Remember(asked, [evidence EXCEPT !.control = asked.control])
          \/ Remember(asked, evidence)
      BY <2>8 DEF CallRespondControlChallenge
    <3> QED BY Zenon, <2>1, <2>2, <3>1, RememberTyped
  <2> QED BY <1>4, <2>3, <2>4, <2>5, <2>6, <2>7, <2>8 DEF GrantCall
<1> QED BY <1>1, <1>2, <1>3, <1>4 DEF Next

\* The inductive invariant holds of every behaviour.
THEOREM AuthoritySound == Spec => []IInv
<1>1. IInv /\ [Next]_vars => IInv'
  BY NextStep, HistoryStep DEF IInv
<1> QED BY <1>1, InitIInv, PTL DEF Spec

\* Every variable keeps its type.
THEOREM TypeCorrect == Spec => []TypeOK
<1>1. IInv => TypeOK BY DEF IInv, Sound, Settled, TypeOK
<1> QED BY <1>1, AuthoritySound, PTL

\* No ticket outlives the current lease, observation or view, whatever
\* renewals replaced them since issue_ticket_checked clamped it.
THEOREM TicketsStayWithinAuthority == Spec => []TicketsWithinAuthority
<1>1. IInv => TicketsWithinAuthority
  BY SMTT(30) DEF IInv, Sound, Settled, Ticketed, TicketsWithinAuthority
<1> QED BY <1>1, AuthoritySound, PTL

\* A lease under evidence-bounded readiness is suspended exactly while its
\* view is not ready.
THEOREM SuspensionMatchesView == Spec => []SuspendedExactlyWithoutView
<1>1. IInv => SuspendedExactlyWithoutView
  BY DEF IInv, Sound, Settled, Suspended, SuspendedExactlyWithoutView
<1> QED BY <1>1, AuthoritySound, PTL

\* check_time lapses a view before any caller can use it past its deadline.
THEOREM ViewDeadlineStaysAhead == Spec => []ViewDeadlineAhead
<1>1. IInv => ViewDeadlineAhead
  BY DEF IInv, Sound, ViewAhead, ViewDeadlineAhead
<1> QED BY <1>1, AuthoritySound, PTL

-----------------------------------------------------------------------------
(* The deadline of a submission.                                           *)

\* A check that leaves the view ready only moved the high-water mark.
LEMMA ReadyAfterCheck ==
    ASSUME NEW a, Sound(a), NEW now \in Time,
           CheckTime(a, now).readiness = "Ready", CheckTime(a, now).phase = "Viewing"
    PROVE  /\ ~ ClockRegressed(a, now) /\ ~ ViewPassed(a, now)
           /\ CheckTime(a, now) = [a EXCEPT !.last_checked = now]
<1>0. a \in SessionAuthorityType BY DEF Sound, Settled
<1>1. ~ ClockRegressed(a, now) BY LiveAfterCheck
<1> DEFINE b == [a EXCEPT !.last_checked = now]
<1>2. b \in SessionAuthorityType /\ b.view_until = a.view_until
  BY <1>0 DEF SessionAuthorityType, Option
<1>3. CheckTime(a, now) = LapsePassedView(b, now)
  BY <1>1 DEF CheckTime
<1>4. ~ ViewPassed(b, now)
  <2> SUFFICES ASSUME ViewPassed(b, now) PROVE FALSE OBVIOUS
  <2>1. CheckTime(a, now) = LapseView(b, b.view_until)
    BY <1>3 DEF LapsePassedView
  <2> HIDE DEF b
  <2>2. LapseView(b, b.view_until).readiness # "Ready"
    BY <1>2 DEF LapseView, SessionAuthorityType
  <2> QED BY <2>1, <2>2
<1>5. CheckTime(a, now) = b BY <1>3, <1>4 DEF LapsePassedView
<1>6. ~ ViewPassed(a, now) BY <1>2, <1>4 DEF ViewPassed
<1> QED BY <1>1, <1>5, <1>6

\* A later check of a ready view with no sample in between: the view lapses at its
\* deadline and nothing else changes.
LEMMA LaterCheck ==
    ASSUME NEW c, Sound(c), c.readiness = "Ready", c.phase = "Viewing",
           NEW later \in Time, c.last_checked # None, later >= c.last_checked
    PROVE  IF ViewPassed(c, later) THEN CheckTime(c, later).readiness # "Ready"
           ELSE CheckTime(c, later) = [c EXCEPT !.last_checked = later]
<1>0. c \in SessionAuthorityType /\ ~ c.clock_faulted
  BY DEF Sound, Settled, Staged, Terminal
<1>1. c.last_checked \in Int /\ later \in Int
  BY <1>0, Times, TimesAreNaturals
<1>2. ~ ClockRegressed(c, later) BY <1>0, <1>1 DEF ClockRegressed
<1> DEFINE b == [c EXCEPT !.last_checked = later]
<1>3. b \in SessionAuthorityType /\ b.view_until = c.view_until
  BY <1>0 DEF SessionAuthorityType, Option
<1>4. CheckTime(c, later) = LapsePassedView(b, later)
  BY <1>2 DEF CheckTime
<1>5. CASE ViewPassed(c, later)
  <2>1. CheckTime(c, later) = LapseView(b, b.view_until)
    BY <1>3, <1>4, <1>5 DEF LapsePassedView, ViewPassed
  <2> HIDE DEF b
  <2>2. LapseView(b, b.view_until).readiness # "Ready"
    BY <1>3 DEF LapseView, SessionAuthorityType
  <2> QED BY <1>5, <2>1, <2>2
<1>6. CASE ~ ViewPassed(c, later)
  BY <1>3, <1>4, <1>6 DEF LapsePassedView, ViewPassed
<1> QED BY <1>5, <1>6

\* The slot of a held ticket is the only one that holds it.
LEMMA TicketSlot ==
    ASSUME NEW c, Sound(c), c.lease # None, NEW ticket, NEW s \in Slots, Holds(c, s, ticket)
    PROVE  (CHOOSE r \in Slots : Holds(c, r, ticket)) = s
<1>1. \A r \in Slots : Holds(c, r, ticket) => r = s
  BY DEF Sound, Settled, Ticketed, Holds
<1> QED BY <1>1

\* What submission_deadline answers, as the four comparisons it stands for.
LEMMA DeadlineBounds ==
    ASSUME NEW c, Sound(c), c.lease # None, c.observation_until # None,
           NEW ticket, NEW s \in Slots, Holds(c, s, ticket)
    PROVE  /\ SubmissionDeadline(c, ticket) \in Int
           /\ \A t \in Int : t < SubmissionDeadline(c, ticket) <=>
                 /\ t < c.lease.tickets[s].expires_at
                 /\ t < c.lease.authorized_until
                 /\ t < c.observation_until
                 /\ c.view_until # None => t < c.view_until
<1>1. /\ c.lease.authorized_until \in Int /\ c.observation_until \in Int
      /\ c.view_until # None => c.view_until \in Int
      /\ c.lease \in Lease
  BY Times, TimesAreNaturals DEF Sound, Settled
<1>2. c.lease.tickets[s].expires_at \in Int
  BY <1>1 DEF Holds, Lease, Tickets, Ticket, Time
<1>3. (CHOOSE r \in Slots : Holds(c, r, ticket)) = s
  BY TicketSlot
<1> DEFINE e == c.lease.tickets[s].expires_at
           until == Earliest(Earliest(e, c.lease.authorized_until), c.observation_until)
<1>4. SubmissionDeadline(c, ticket) =
        IF c.view_until = None THEN until ELSE Earliest(until, c.view_until)
  BY <1>3, ZenonT(60) DEF SubmissionDeadline
<1>5. /\ until \in Int
      /\ \A t \in Int : t < until <=>
            t < e /\ t < c.lease.authorized_until /\ t < c.observation_until
  BY <1>1, <1>2 DEF Earliest
<1> HIDE DEF until
<1> QED BY <1>1, <1>4, <1>5 DEF Earliest

LEMMA ExactDeadline ==
    ASSUME NEW a, Sound(a), NEW id, NEW ticket, NEW now \in Time, NEW later \in Time,
           later >= now, SubmissionAllowed(CheckTime(a, now), id, ticket, now)
    PROVE  LET c == CheckTime(a, now)
               status == ControlStatus(ControlStatusEffect(a, now), now)
           IN /\ (SubmissionAllowed(CheckTime(c, later), id, ticket, later)
                    <=> later < SubmissionDeadline(c, ticket))
              /\ status.kind = "Live"
              /\ now < SubmissionDeadline(c, ticket)
              /\ SubmissionDeadline(c, ticket) <= status.until
<1> DEFINE c == CheckTime(a, now)
           d == CheckTime(c, later)
           until == SubmissionDeadline(c, ticket)
<1>0. a \in SessionAuthorityType /\ Sound(c) /\ now \in Int /\ later \in Int
  BY CheckTimeSound, TimesAreNaturals DEF Sound, Settled
<1>1. /\ c.phase = "Viewing" /\ c.readiness = "Ready" /\ c.lease # None /\ c.lease.id = id
      /\ c.observation_until # None /\ now < c.observation_until
      /\ now < c.lease.authorized_until
  BY DEF SubmissionAllowed, ObservationLive, LeaseIs, LeaseUnexpired
<1>2. PICK s \in Slots : Holds(c, s, ticket) /\ now < c.lease.tickets[s].expires_at
  BY DEF SubmissionAllowed
<1>3. /\ ~ ClockRegressed(a, now) /\ ~ ViewPassed(a, now)
      /\ c = [a EXCEPT !.last_checked = now]
  BY <1>1, ReadyAfterCheck
<1>4. /\ c.last_checked = now /\ now # None
      /\ c.view_until = a.view_until /\ c.lease = a.lease /\ c.phase = a.phase
      /\ c.readiness = a.readiness /\ c.observation_until = a.observation_until
  BY <1>0, <1>3, TimesAreNaturals DEF SessionAuthorityType
<1> HIDE DEF c
<1>5. /\ until \in Int
      /\ \A t \in Int : t < until <=>
            /\ t < c.lease.tickets[s].expires_at
            /\ t < c.lease.authorized_until
            /\ t < c.observation_until
            /\ c.view_until # None => t < c.view_until
  BY <1>0, <1>1, <1>2, DeadlineBounds
<1> HIDE DEF until
<1>6. /\ c.view_until # None => c.view_until \in Int
      /\ c.lease.authorized_until \in Int /\ c.observation_until \in Int
  BY <1>0, <1>1, Times, TimesAreNaturals DEF Sound, Settled
<1>7. now < until
  BY <1>0, <1>1, <1>2, <1>3, <1>4, <1>5, <1>6 DEF ViewPassed
<1>8. SubmissionAllowed(d, id, ticket, later) <=> later < until
  <2>1. CASE ViewPassed(c, later)
    <3>1. d.readiness # "Ready"
      BY <1>0, <1>1, <1>4, <2>1, LaterCheck
    <3> QED BY <1>0, <1>5, <1>6, <2>1, <3>1 DEF SubmissionAllowed, ViewPassed
  <2>2. CASE ~ ViewPassed(c, later)
    <3>1. d = [c EXCEPT !.last_checked = later]
      BY <1>0, <1>1, <1>4, <2>2, LaterCheck
    <3>2. /\ d.phase = c.phase /\ d.readiness = c.readiness /\ d.lease = c.lease
          /\ d.observation_until = c.observation_until
      BY <1>0, <3>1 DEF Sound, Settled, SessionAuthorityType
    <3> HIDE DEF d
    <3>3. \A r \in Slots : Holds(d, r, ticket) => r = s
      BY <1>0, <1>1, <1>2, <3>2 DEF Sound, Settled, Ticketed, Holds
    <3>4. Holds(d, s, ticket) BY <1>2, <3>2 DEF Holds
    <3>5. SubmissionAllowed(d, id, ticket, later) <=>
            /\ later < c.observation_until /\ later < c.lease.authorized_until
            /\ later < c.lease.tickets[s].expires_at
      BY <1>1, <3>2, <3>3, <3>4
         DEF SubmissionAllowed, ObservationLive, LeaseIs, LeaseUnexpired, Observing
    <3> QED BY <1>0, <1>5, <1>6, <2>2, <3>5 DEF ViewPassed
  <2> QED BY <2>1, <2>2
<1>9. ControlStatusEffect(a, now) = a
  <2>1. ~ a.clock_faulted BY <1>3 DEF ClockRegressed
  <2>2. SerializedTime(a, now) = now
    BY <1>0, <1>3, Times, TimesAreNaturals DEF SerializedTime, ClockRegressed
  <2> QED BY <1>3, <2>1, <2>2 DEF ControlStatusEffect, LapsePassedView
<1>10. LET status == ControlStatus(a, now)
       IN status.kind = "Live" /\ until <= status.until
  <2> DEFINE lease_until == Earliest(a.lease.authorized_until, a.observation_until)
  <2>1. now < lease_until /\ lease_until \in Int
    BY <1>0, <1>1, <1>4, <1>6 DEF Earliest
  <2>2. ControlStatus(a, now) =
          [kind |-> "Live",
           until |-> IF a.view_until = None THEN lease_until ELSE Earliest(lease_until, a.view_until)]
    <3>1. ~ (a.clock_faulted \/ ~ ObservationLive(a, now) \/ a.lease = None)
      BY <1>1, <1>3, <1>4 DEF ClockRegressed, ObservationLive, Observing
    <3>2. ~ (now >= lease_until) BY <1>0, <2>1
    <3>3. a.phase = "Viewing" /\ a.readiness = "Ready" BY <1>1, <1>4
    <3> QED BY Zenon, <3>1, <3>2, <3>3 DEF ControlStatus
  <2>3. \A x \in Int : x < until =>
          x < a.lease.authorized_until /\ x < a.observation_until /\ (a.view_until # None => x < a.view_until)
    BY <1>4, <1>5
  <2>4. /\ until <= a.lease.authorized_until /\ until <= a.observation_until
        /\ a.view_until # None => until <= a.view_until
    <3>1. until - 1 \in Int /\ until - 1 < until BY <1>5
    <3>2. /\ until - 1 < a.lease.authorized_until /\ until - 1 < a.observation_until
          /\ a.view_until # None => until - 1 < a.view_until
      BY <2>3, <3>1
    <3> QED BY <1>4, <1>5, <1>6, <3>2
  <2> QED BY <1>4, <1>5, <1>6, <2>2, <2>4 DEF Earliest
<1> QED BY <1>7, <1>8, <1>9, <1>10 DEF c, d, until

\* The deadline that submission_deadline hands to an executor outside the lock is
\* exact, and the watchdog's control_status agrees with it on every sample.
THEOREM DeadlineIsExact == Spec => []SubmissionDeadlineExact
<1>1. IInv => SubmissionDeadlineExact
  <2> SUFFICES ASSUME IInv, NEW id \in LeaseIds, NEW ticket \in TicketIds,
                      NEW now \in Time, NEW later \in Time,
                      SubmissionAllowed(CheckTime(auth, now), id, ticket, now), later >= now
               PROVE  LET c == CheckTime(auth, now)
                          status == ControlStatus(ControlStatusEffect(auth, now), now)
                      IN /\ (SubmissionAllowed(CheckTime(c, later), id, ticket, later)
                               <=> later < SubmissionDeadline(c, ticket))
                         /\ status.kind = "Live"
                         /\ now < SubmissionDeadline(c, ticket)
                         /\ SubmissionDeadline(c, ticket) <= status.until
    BY DEF SubmissionDeadlineExact
  <2> QED BY ExactDeadline DEF IInv
<1> QED BY <1>1, AuthoritySound, PTL

-----------------------------------------------------------------------------
(* What no call may do.                                                    *)

\* Once closed, refused or clock-faulted, the session holds no authority again.
THEOREM FenceStaysTerminal == Spec => FenceIsTerminal
<1>1. IInv /\ [Next]_vars =>
        [(auth.phase \in Terminal \/ auth.clock_faulted) =>
            (auth'.phase \in Terminal /\ HoldsNothing(auth'))]_vars
  <2> SUFFICES ASSUME IInv, [Next]_vars, auth.phase \in Terminal \/ auth.clock_faulted
               PROVE  auth'.phase \in Terminal /\ HoldsNothing(auth')
    OBVIOUS
  <2>1. Sound(auth') /\ Grows(auth, auth') BY NextStep DEF IInv, Progress
  <2>2. auth.phase \in Terminal BY DEF IInv, Sound, Settled, Staged
  <2>3. auth'.phase \in Terminal BY <2>1, <2>2 DEF Grows
  <2> QED BY SMTT(30), <2>1, <2>3 DEF Sound, Settled, Staged, Terminal, Observing
<1> QED BY <1>1, AuthoritySound, PTL DEF Spec, FenceIsTerminal

\* No call shortens a live observation or lease, swaps a held lease or
\* replaces its native owner.
THEOREM DeadlinesGrow == Spec => LiveDeadlinesOnlyGrow
<1>1. IInv /\ [Next]_vars =>
        [/\ (auth.observation_until # None /\ auth'.observation_until # None) =>
               auth'.observation_until >= auth.observation_until
         /\ (auth.lease # None /\ auth'.lease # None) =>
               /\ auth'.lease.id = auth.lease.id
               /\ auth'.lease.authorized_until >= auth.lease.authorized_until
               /\ auth.native_owner # None => auth'.native_owner = auth.native_owner
        ]_vars
  BY NextStep DEF IInv, Progress, Grows
<1> QED BY <1>1, AuthoritySound, PTL DEF Spec, LiveDeadlinesOnlyGrow

\* A suspended lease comes back only after confirm_suspension_release and
\* within the limit counted from the first loss of its view.
THEOREM RevivalWaitsForRelease == Spec => SuspensionRevivedOnlyAfterRelease
<1>1. IInv /\ [Next]_vars =>
        [auth.suspension # None /\ auth'.lease # None =>
            IF auth'.suspension # None
            THEN /\ auth'.suspension.since = auth.suspension.since
                 /\ auth.suspension.released => auth'.suspension.released
            ELSE /\ auth.suspension.released
                 /\ auth'.last_checked < auth.suspension.since + MaxViewSuspension
        ]_vars
  BY NextStep DEF IInv, Progress, Revives
<1> QED BY <1>1, AuthoritySound, PTL DEF Spec, SuspensionRevivedOnlyAfterRelease

-----------------------------------------------------------------------------
(* The history: every deadline in force was set by a grant or by a         *)
(* challenge that was asked one lifetime before it.  Keeps describes the   *)
(* methods that neither ask for evidence nor accept it: they pass          *)
(* deadlines and challenges on or drop them.  Dates is what the history    *)
(* says of the record.                                                     *)

Keeps(a, b) ==
    /\ b.observation_until # None => b.observation_until = a.observation_until
    /\ b.lease # None => /\ a.lease # None
                         /\ b.lease.authorized_until = a.lease.authorized_until
    /\ b.observation_challenge # None =>
          b.observation_challenge = a.observation_challenge
    /\ b.control_challenge # None => b.control_challenge = a.control_challenge

\* Passing on and dropping compose.
LEMMA KeepsTrans ==
    ASSUME NEW a, NEW b, NEW c, Keeps(a, b), Keeps(b, c)
    PROVE  Keeps(a, c)
  BY DEF Keeps

\* A record that holds nothing has nothing to account for.
LEMMA NothingKept ==
    ASSUME NEW a, NEW b, HoldsNothing(b)
    PROVE  Keeps(a, b)
  BY DEF Keeps, HoldsNothing

\* Carrying the authority over keeps it.
LEMMA CarriedKeeps ==
    ASSUME NEW a, NEW b, Carried(a, b)
    PROVE  Keeps(a, b)
  BY DEF Keeps, Carried

\* check_time passes on or, when the clock regressed, drops everything.
LEMMA CheckKeeps ==
    ASSUME NEW a, Sound(a), NEW now \in Time
    PROVE  Keeps(a, CheckTime(a, now))
<1>1. CASE ClockRegressed(a, now)
  <2>1. Sound(CheckTime(a, now)) /\ CheckTime(a, now).phase = "Closed"
    BY <1>1, CheckTimeSound
  <2>2. HoldsNothing(CheckTime(a, now))
    BY <2>1 DEF Sound, Settled, Staged, Observing
  <2> QED BY <2>2, NothingKept
<1>2. CASE ~ ClockRegressed(a, now)
  BY <1>2, CheckTimeSound, CarriedKeeps
<1> QED BY <1>1, <1>2

\* Equal fields are kept.
LEMMA SameKept ==
    ASSUME NEW a, NEW b,
           b.observation_until = a.observation_until, b.lease = a.lease,
           b.observation_challenge = a.observation_challenge,
           b.control_challenge = a.control_challenge
    PROVE  Keeps(a, b)
  BY DEF Keeps

-----------------------------------------------------------------------------
(* The methods that pass on or drop.                                       *)

\* mark_view_ready passes deadlines and challenges on or drops them.
LEMMA MarkViewReadyKeeps ==
    ASSUME NEW a, Sound(a), NEW now \in Time
    PROVE  Keeps(a, MarkViewReady(a, now))
<1> DEFINE u == [a EXCEPT !.presented_sequence = None]
           c == CheckTime(u, now)
           b == MarkViewReady(a, now)
<1>1. Sound(u) /\ Keeps(a, u) BY UnpresentedSound, CarriedKeeps
<1>2. Sound(c) /\ Keeps(u, c) BY <1>1, CheckTimeSound, CheckKeeps
<1>3. c \in SessionAuthorityType BY <1>2 DEF Sound, Settled
<1>4. b = c \/ b = [c EXCEPT !.phase = "Viewing", !.readiness = "Ready"]
  BY DEF MarkViewReady
<1> HIDE DEF u, c, b
<1>5. Keeps(c, b)
  <2>1. /\ b.observation_until = c.observation_until /\ b.lease = c.lease
        /\ b.observation_challenge = c.observation_challenge
        /\ b.control_challenge = c.control_challenge
    BY Zenon, <1>3, <1>4 DEF SessionAuthorityType
  <2> QED BY <2>1, SameKept
<1>6. Keeps(a, b) BY <1>1, <1>2, <1>5, KeepsTrans
<1> QED BY <1>6 DEF b

\* mark_view_ready_until passes deadlines and challenges on or drops them.
LEMMA MarkViewReadyUntilKeeps ==
    ASSUME NEW a, Sound(a), NEW now \in Time, NEW sequence, NEW until
    PROVE  Keeps(a, MarkViewReadyUntil(a, sequence, until, now))
<1> DEFINE u == [a EXCEPT !.presented_sequence = None]
           c == CheckTime(u, now)
           b == MarkViewReadyUntil(a, sequence, until, now)
<1>1. Sound(u) /\ Keeps(a, u) BY UnpresentedSound, CarriedKeeps
<1>2. Sound(c) /\ Keeps(u, c) BY <1>1, CheckTimeSound, CheckKeeps
<1>3. c \in SessionAuthorityType BY <1>2 DEF Sound, Settled
<1>4. b = c \/ b = [c EXCEPT !.suspension = None, !.bounded_view = TRUE,
                             !.view_until = until, !.phase = "Viewing",
                             !.readiness = "Ready", !.presented_sequence = sequence]
  BY DEF MarkViewReadyUntil
<1> HIDE DEF u, c, b
<1>5. Keeps(c, b)
  <2>1. /\ b.observation_until = c.observation_until /\ b.lease = c.lease
        /\ b.observation_challenge = c.observation_challenge
        /\ b.control_challenge = c.control_challenge
    BY ZenonT(60), <1>3, <1>4 DEF SessionAuthorityType
  <2> QED BY <2>1, SameKept
<1>6. Keeps(a, b) BY <1>1, <1>2, <1>5, KeepsTrans
<1> QED BY <1>6 DEF b

\* mark_view_stale passes every deadline on.
LEMMA StaleKeeps ==
    ASSUME NEW a, Sound(a)
    PROVE  Keeps(a, MarkViewStale(a))
  BY StaleCarries, CarriedKeeps DEF Sound

\* require_view_evidence passes deadlines and challenges on or drops them.
LEMMA RequireViewEvidenceKeeps ==
    ASSUME NEW a, Sound(a), NEW now \in Time
    PROVE  Keeps(a, RequireViewEvidence(a, now))
<1> DEFINE c == CheckTime(a, now)
           d == [c EXCEPT !.bounded_view = TRUE]
           b == RequireViewEvidence(a, now)
<1>1. Sound(c) /\ Keeps(a, c) BY CheckTimeSound, CheckKeeps
<1>2. c \in SessionAuthorityType BY <1>1 DEF Sound, Settled
<1>3. b = c \/ b = MarkViewStale(d)
  BY DEF RequireViewEvidence
<1>4. Keeps(c, d) /\ d \in SessionAuthorityType
  <2>1. /\ d.observation_until = c.observation_until /\ d.lease = c.lease
        /\ d.observation_challenge = c.observation_challenge
        /\ d.control_challenge = c.control_challenge
        /\ d \in SessionAuthorityType
    BY Zenon, <1>2 DEF SessionAuthorityType
  <2> HIDE DEF c, d
  <2> QED BY <2>1, SameKept
<1> HIDE DEF c, d, b
<1>5. Keeps(d, MarkViewStale(d))
  <2> DEFINE at == IF d.last_checked = None THEN 0 ELSE d.last_checked
             e == LapseView(d, at)
  <2>1. /\ e.observation_until = d.observation_until
        /\ e.lease = WithoutTickets(d.lease)
        /\ e.observation_challenge = d.observation_challenge
        /\ e.control_challenge = d.control_challenge
    BY <1>4 DEF LapseView, SessionAuthorityType
  <2>2. MarkViewStale(d) = e BY DEF MarkViewStale
  <2>3. d.lease \in Option(Lease) BY <1>4 DEF SessionAuthorityType
  <2> HIDE DEF e
  <2>4. e.lease # None => /\ d.lease # None
                          /\ e.lease.authorized_until = d.lease.authorized_until
    BY <2>1, <2>3, WithoutTicketsFacts
  <2> QED BY <2>1, <2>2, <2>4 DEF Keeps
<1>6. Keeps(a, MarkViewStale(d)) BY <1>1, <1>4, <1>5, KeepsTrans
<1> QED BY <1>1, <1>3, <1>6 DEF b

\* Emptying the ticket slots keeps the lease's deadline.
LEMMA TicketlessKeeps ==
    ASSUME NEW a, a \in SessionAuthorityType, NEW b,
           b.observation_until = a.observation_until,
           b.lease = WithoutTickets(a.lease),
           b.observation_challenge = a.observation_challenge,
           b.control_challenge = a.control_challenge
    PROVE  Keeps(a, b)
<1>1. a.lease \in Option(Lease) BY DEF SessionAuthorityType
<1>2. b.lease # None => /\ a.lease # None
                        /\ b.lease.authorized_until = a.lease.authorized_until
  BY <1>1, WithoutTicketsFacts
<1> QED BY <1>2 DEF Keeps

\* advance_recovery passes deadlines and challenges on or drops them.
LEMMA AdvanceRecoveryKeeps ==
    ASSUME NEW a, Sound(a), NEW generation
    PROVE  Keeps(a, AdvanceRecovery(a, generation))
<1> DEFINE b == AdvanceRecovery(a, generation)
<1>0. a \in SessionAuthorityType BY DEF Sound, Settled
<1>1. \/ b = a
      \/ b = [a EXCEPT !.recovery = generation, !.presented_sequence = None,
                       !.lease = WithoutTickets(a.lease)]
  BY DEF AdvanceRecovery
<1> HIDE DEF b
<1>2. CASE b = a BY <1>2, SameKept DEF b
<1>3. CASE b = [a EXCEPT !.recovery = generation, !.presented_sequence = None,
                         !.lease = WithoutTickets(a.lease)]
  <2>1. /\ b.observation_until = a.observation_until
        /\ b.lease = WithoutTickets(a.lease)
        /\ b.observation_challenge = a.observation_challenge
        /\ b.control_challenge = a.control_challenge
    BY <1>0, <1>3 DEF SessionAuthorityType
  <2> QED BY <1>0, <2>1, TicketlessKeeps DEF b
<1> QED BY <1>1, <1>2, <1>3

\* invalidate_input_tickets passes deadlines and challenges on or drops them.
LEMMA InvalidateInputTicketsKeeps ==
    ASSUME NEW a, Sound(a), NEW id
    PROVE  Keeps(a, InvalidateInputTickets(a, id))
<1> DEFINE b == InvalidateInputTickets(a, id)
<1>0. a \in SessionAuthorityType BY DEF Sound, Settled
<1>1. b = a \/ b = [a EXCEPT !.lease = WithoutTickets(a.lease)]
  BY DEF InvalidateInputTickets
<1> HIDE DEF b
<1>2. CASE b = a BY <1>2, SameKept DEF b
<1>3. CASE b = [a EXCEPT !.lease = WithoutTickets(a.lease)]
  <2>1. /\ b.observation_until = a.observation_until
        /\ b.lease = WithoutTickets(a.lease)
        /\ b.observation_challenge = a.observation_challenge
        /\ b.control_challenge = a.control_challenge
    BY <1>0, <1>3 DEF SessionAuthorityType
  <2> QED BY <1>0, <2>1, TicketlessKeeps DEF b
<1> QED BY <1>1, <1>2, <1>3

\* confirm_suspension_release passes deadlines and challenges on or drops them.
LEMMA ConfirmSuspensionReleaseKeeps ==
    ASSUME NEW a, Sound(a), NEW id
    PROVE  Keeps(a, ConfirmSuspensionRelease(a, id))
<1> DEFINE b == ConfirmSuspensionRelease(a, id)
<1>0. a \in SessionAuthorityType BY DEF Sound, Settled
<1>1. b = a \/ b = [a EXCEPT !.suspension.released = TRUE]
  BY DEF ConfirmSuspensionRelease
<1> HIDE DEF b
<1>2. /\ b.observation_until = a.observation_until /\ b.lease = a.lease
      /\ b.observation_challenge = a.observation_challenge
      /\ b.control_challenge = a.control_challenge
  BY <1>0, <1>1 DEF SessionAuthorityType
<1> QED BY <1>2, SameKept DEF b

\* claim_native_owner passes deadlines and challenges on or drops them.
LEMMA ClaimNativeOwnerKeeps ==
    ASSUME NEW a, Sound(a), NEW id, NEW owner
    PROVE  Keeps(a, ClaimNativeOwner(a, id, owner))
<1> DEFINE b == ClaimNativeOwner(a, id, owner)
<1>0. a \in SessionAuthorityType BY DEF Sound, Settled
<1>1. b = a \/ b = [a EXCEPT !.native_owner = owner]
  BY DEF ClaimNativeOwner
<1> HIDE DEF b
<1>2. /\ b.observation_until = a.observation_until /\ b.lease = a.lease
      /\ b.observation_challenge = a.observation_challenge
      /\ b.control_challenge = a.control_challenge
  BY <1>0, <1>1 DEF SessionAuthorityType
<1> QED BY <1>2, SameKept DEF b

\* revoke_lease drops the lease and passes the rest on.
LEMMA RevokeKeeps ==
    ASSUME NEW a, a \in SessionAuthorityType
    PROVE  Keeps(a, RevokeLease(a))
  BY DEF RevokeLease, SessionAuthorityType, Keeps

\* close, refuse and drop_observation drop everything.
LEMMA ClearKeeps ==
    ASSUME NEW a, a \in SessionAuthorityType
    PROVE  Keeps(a, Close(a)) /\ Keeps(a, Refuse(a)) /\ Keeps(a, DropObservation(a))
<1>1. HoldsNothing(Close(a))
  BY DEF Close, ClearAuthority, SessionAuthorityType, HoldsNothing
<1>2. HoldsNothing(Refuse(a))
  BY DEF Refuse, ClearAuthority, SessionAuthorityType, HoldsNothing
<1>3. HoldsNothing(DropObservation(a))
  BY DEF DropObservation, ClearAuthority, SessionAuthorityType, HoldsNothing
<1> QED BY <1>1, <1>2, <1>3, NothingKept

\* The lifecycle calls pass everything on.
LEMMA LifecycleKeeps ==
    ASSUME NEW a, Sound(a)
    PROVE  Keeps(a, MarkCapabilitiesChecked(a)) /\ Keeps(a, RequireApproval(a))
<1>0. a \in SessionAuthorityType BY DEF Sound, Settled
<1>1. Keeps(a, MarkCapabilitiesChecked(a))
  BY <1>0 DEF MarkCapabilitiesChecked, SessionAuthorityType, Keeps
<1>2. Keeps(a, RequireApproval(a))
  BY <1>0 DEF RequireApproval, SessionAuthorityType, Keeps
<1> QED BY <1>1, <1>2

\* control_status passes deadlines and challenges on or drops them.
LEMMA ControlStatusKeeps ==
    ASSUME NEW a, Sound(a), NEW now \in Time
    PROVE  Keeps(a, ControlStatusEffect(a, now))
<1> DEFINE b == ControlStatusEffect(a, now)
<1>1. b = a \/ (a.view_until # None /\ b = LapseView(a, a.view_until))
  BY DEF ControlStatusEffect, LapsePassedView, ViewPassed
<1>2. a.view_until # None => Carried(a, LapseView(a, a.view_until))
  BY LapseCarries, Times DEF Sound, Settled
<1>3. Keeps(a, a) BY SameKept
<1> QED BY <1>1, <1>2, <1>3, CarriedKeeps

\* issue_input_ticket passes deadlines and challenges on or drops them.
LEMMA IssueInputTicketKeeps ==
    ASSUME NEW a, Sound(a), NEW id, NEW ticket, NEW now \in Time, NEW presented
    PROVE  Keeps(a, IssueInputTicket(a, id, ticket, now, presented))
<1> DEFINE c == CheckTime(a, now)
           slot == FirstSlot(ReusableSlots(c.lease, now))
           t == [id |-> ticket, expires_at |-> TicketExpiry(c, now)]
           b == IssueInputTicket(a, id, ticket, now, presented)
<1>1. Sound(c) /\ Keeps(a, c) BY CheckTimeSound, CheckKeeps
<1>2. c \in SessionAuthorityType BY <1>1 DEF Sound, Settled
<1>3. \/ b = c
      \/ c.lease # None /\ b = [c EXCEPT !.lease.tickets[slot] = t]
  BY DEF IssueInputTicket, TicketIssuable, LeaseIs
<1> HIDE DEF c, b, slot, t
<1>4. CASE b = c BY <1>1, <1>4 DEF b
<1>5. CASE c.lease # None /\ b = [c EXCEPT !.lease.tickets[slot] = t]
  <2>1. c.lease \in Lease BY <1>2, <1>5 DEF SessionAuthorityType, Option
  <2>2. /\ b.observation_until = c.observation_until
        /\ b.observation_challenge = c.observation_challenge
        /\ b.control_challenge = c.control_challenge
        /\ b.lease = [c.lease EXCEPT !.tickets[slot] = t]
    BY <1>2, <1>5 DEF SessionAuthorityType
  <2>3. b.lease.authorized_until = c.lease.authorized_until
    BY <2>1, <2>2 DEF Lease
  <2>4. Keeps(c, b) BY <1>5, <2>2, <2>3 DEF Keeps
  <2> QED BY <1>1, <2>4, KeepsTrans DEF b
<1> QED BY <1>3, <1>4, <1>5

\* apply_resume_boundary passes deadlines and challenges on or drops them.
LEMMA ApplyResumeBoundaryKeeps ==
    ASSUME NEW a, Sound(a), NEW now \in Time
    PROVE  Keeps(a, ApplyResumeBoundary(a, now))
<1> DEFINE c == CheckTime(a, now)
           o == IF c.observation_until # None /\ now >= c.observation_until
                THEN DropObservation(c) ELSE c
           h == [o EXCEPT
                   !.observation_challenge = ExpireChallenge(@, now),
                   !.control_challenge = ExpireChallenge(@, now)]
           l == IF h.lease # None /\ now >= h.lease.authorized_until
                THEN RevokeLease(h) ELSE h
           t == [l EXCEPT !.lease = ExpireTickets(@, now)]
           b == ApplyResumeBoundary(a, now)
<1>1. b = c \/ b = CheckTime(t, now) BY DEF ApplyResumeBoundary
<1>2. Sound(c) /\ Keeps(a, c) BY CheckTimeSound, CheckKeeps
<1> HIDE DEF c, b
<1>3. Sound(o) /\ Keeps(c, o)
  <2>1. c \in SessionAuthorityType /\ Keeps(c, c) BY SMTT(30), <1>2, SameKept DEF Sound, Settled
  <2> QED BY <1>2, <2>1, DropSound, ClearKeeps
<1> HIDE DEF o
<1>4. Sound(h) BY Zenon, <1>3, ExpireChallengesStep
<1>5. Keeps(o, h)
  <2>1. /\ h.observation_until = o.observation_until /\ h.lease = o.lease
        /\ h.observation_challenge = ExpireChallenge(o.observation_challenge, now)
        /\ h.control_challenge = ExpireChallenge(o.control_challenge, now)
    BY <1>3 DEF Sound, Settled, SessionAuthorityType
  <2> HIDE DEF h
  <2> QED BY <2>1 DEF Keeps, ExpireChallenge
<1> HIDE DEF h
<1>6. Sound(l) /\ Keeps(h, l)
  <2>1. h \in SessionAuthorityType /\ Keeps(h, h) BY <1>4, SameKept DEF Sound, Settled
  <2> QED BY <1>4, <2>1, RevokeSound, RevokeKeeps
<1> HIDE DEF l
<1>7. Sound(t) /\ Keeps(l, t) BY <1>6, ExpireTicketsStep, CarriedKeeps
<1> HIDE DEF t
<1>8. Keeps(a, t) BY <1>2, <1>3, <1>5, <1>6, <1>7, KeepsTrans
<1>9. Keeps(t, CheckTime(t, now)) BY <1>7, CheckKeeps
<1>10. Keeps(a, CheckTime(t, now)) BY <1>8, <1>9, KeepsTrans
<1> QED BY SMTT(30), <1>1, <1>2, <1>10 DEF b

-----------------------------------------------------------------------------
(* What the history says of the record.                                    *)

\* Each deadline and each pending challenge dates from the time `seen` or
\* `asking` recorded for it.
Dates(a, asking, seen) ==
    /\ a.observation_until # None =>
          /\ seen.observation # None
          /\ a.observation_until = seen.observation + AuthorizationLifetime
    /\ a.lease # None =>
          /\ seen.control # None
          /\ a.lease.authorized_until = seen.control + AuthorizationLifetime
    /\ a.observation_challenge # None =>
          /\ asking.observation # None
          /\ a.observation_challenge.deadline
               = asking.observation + AuthorizationLifetime
    /\ a.control_challenge # None =>
          /\ asking.control # None
          /\ a.control_challenge.deadline = asking.control + AuthorizationLifetime

\* What passes deadlines on or drops them needs no new history.
LEMMA KeepsDates ==
    ASSUME NEW a, NEW b, NEW asking, NEW seen, Keeps(a, b), Dates(a, asking, seen)
    PROVE  Dates(b, asking, seen)
  BY DEF Keeps, Dates

\* Forgetting what is no longer in use loses nothing.
LEMMA RememberDates ==
    ASSUME NEW asking, NEW seen, Remember(asking, seen), Dates(auth', asking, seen)
    PROVE  Dates(auth', asked', evidence')
  BY DEF Dates, Remember, KeepIf

\* What authorize_observation grants or asks dates from its clock sample.
LEMMA AuthorizeObservationDates ==
    ASSUME NEW a, Sound(a), NEW now \in Time, NEW asking, NEW seen \in Grants,
           Dates(a, asking, seen)
    PROVE  Dates(AuthorizeObservation(a, now), asking,
                 IF ObservationGrantable(CheckTime(a, now), now)
                 THEN [seen EXCEPT !.observation = now] ELSE seen)
<1> DEFINE c == CheckTime(a, now)
           b == AuthorizeObservation(a, now)
<1>1. Sound(c) /\ Dates(c, asking, seen) BY CheckTimeSound, CheckKeeps, KeepsDates
<1>2. CASE ~ ObservationGrantable(c, now)
  BY <1>1, <1>2 DEF AuthorizeObservation
<1>3. CASE ObservationGrantable(c, now)
  <2>1. b = [ClearAuthority(c) EXCEPT
               !.observation_until = now + AuthorizationLifetime,
               !.phase = "ViewOpening"]
    BY <1>3 DEF AuthorizeObservation
  <2>2. c \in SessionAuthorityType BY <1>1 DEF Sound, Settled
  <2> HIDE DEF b, c
  <2>3. /\ b.observation_until = now + AuthorizationLifetime /\ b.lease = None
        /\ b.observation_challenge = None /\ b.control_challenge = None
    BY <2>1, <2>2 DEF ClearAuthority, SessionAuthorityType
  <2>4. [seen EXCEPT !.observation = now].observation = now /\ now # None
    BY TimesAreNaturals DEF Grants
  <2>5. Dates(b, asking, [seen EXCEPT !.observation = now])
    BY <2>3, <2>4 DEF Dates
  <2> QED BY <1>3, <2>5 DEF b, c
<1> QED BY <1>2, <1>3

\* What issue_observation_challenge grants or asks dates from its clock sample.
LEMMA IssueObservationChallengeDates ==
    ASSUME NEW a, Sound(a), NEW now \in Time, NEW nonce \in Nonces,
           NEW asking \in Grants, NEW seen, Dates(a, asking, seen)
    PROVE  Dates(IssueObservationChallenge(a, nonce, now),
                 IF ObservationChallengeable(CheckTime(a, now), now)
                 THEN [asking EXCEPT !.observation = now] ELSE asking, seen)
<1> DEFINE c == CheckTime(a, now)
           d == [nonce |-> nonce, deadline |-> now + AuthorizationLifetime]
           b == IssueObservationChallenge(a, nonce, now)
<1>1. Sound(c) /\ Dates(c, asking, seen) BY CheckTimeSound, CheckKeeps, KeepsDates
<1>2. CASE ~ ObservationChallengeable(c, now)
  BY <1>1, <1>2 DEF IssueObservationChallenge
<1>3. CASE ObservationChallengeable(c, now)
  <2>1. b = [c EXCEPT !.observation_challenge = d]
    BY <1>3 DEF IssueObservationChallenge
  <2>2. c \in SessionAuthorityType BY <1>1 DEF Sound, Settled
  <2>3. d.deadline = now + AuthorizationLifetime OBVIOUS
  <2> HIDE DEF b, c, d
  <2>4. /\ b.observation_until = c.observation_until /\ b.lease = c.lease
        /\ b.observation_challenge = d /\ b.control_challenge = c.control_challenge
    BY <2>1, <2>2 DEF SessionAuthorityType
  <2>5. /\ [asking EXCEPT !.observation = now].observation = now /\ now # None
        /\ [asking EXCEPT !.observation = now].control = asking.control
    BY TimesAreNaturals DEF Grants
  <2>6. Dates(b, [asking EXCEPT !.observation = now], seen)
    BY <1>1, <2>3, <2>4, <2>5 DEF Dates
  <2> QED BY <1>3, <2>6 DEF b, c
<1> QED BY <1>2, <1>3

\* What respond_observation_challenge renews dates from when the challenge was asked.
LEMMA RespondObservationChallengeDates ==
    ASSUME NEW a, Sound(a), NEW now \in Time, NEW nonce \in Nonces,
           NEW asking \in Grants, NEW seen \in Grants, Dates(a, asking, seen)
    PROVE  Dates(RespondObservationChallenge(a, nonce, now), asking,
                 IF ObservationRenewable(CheckTime(a, now), nonce, now)
                 THEN [seen EXCEPT !.observation = asking.observation] ELSE seen)
<1> DEFINE c == CheckTime(a, now)
           b == RespondObservationChallenge(a, nonce, now)
           y == [seen EXCEPT !.observation = asking.observation]
<1>1. Sound(c) /\ Dates(c, asking, seen) BY CheckTimeSound, CheckKeeps, KeepsDates
<1>2. c \in SessionAuthorityType BY <1>1 DEF Sound, Settled
<1>3. y.observation = asking.observation /\ y.control = seen.control
  BY DEF Grants
<1>4. CASE ObservationRenewable(c, nonce, now)
  <2>1. b = [c EXCEPT !.observation_challenge = None,
                      !.observation_until = c.observation_challenge.deadline]
    BY <1>4 DEF RespondObservationChallenge, ObservationRenewable
  <2>2. c.observation_challenge # None
    BY <1>4 DEF ObservationRenewable, Answers
  <2> HIDE DEF b, c, y
  <2>3. /\ b.observation_until = c.observation_challenge.deadline
        /\ b.lease = c.lease /\ b.observation_challenge = None
        /\ b.control_challenge = c.control_challenge
    BY <1>2, <2>1 DEF SessionAuthorityType
  <2>4. Dates(b, asking, y) BY <1>1, <1>3, <2>2, <2>3 DEF Dates
  <2> QED BY <1>4, <2>4 DEF b, c, y
<1>5. CASE ~ ObservationRenewable(c, nonce, now)
  <2>1. b = c \/ b = [c EXCEPT !.observation_challenge = None,
                               !.observation_until = c.observation_until]
    BY <1>5 DEF RespondObservationChallenge
  <2> HIDE DEF b, c
  <2>2. /\ b.observation_until = c.observation_until /\ b.lease = c.lease
        /\ b.observation_challenge \in {None, c.observation_challenge}
        /\ b.control_challenge = c.control_challenge
    BY Zenon, <1>2, <2>1 DEF SessionAuthorityType
  <2>3. Dates(b, asking, seen) BY <1>1, <2>2 DEF Dates
  <2> QED BY <1>5, <2>3 DEF b, c
<1> QED BY <1>4, <1>5

\* What grant_lease grants or asks dates from its clock sample.
LEMMA GrantLeaseDates ==
    ASSUME NEW a, Sound(a), NEW now \in Time, NEW id \in LeaseIds,
           NEW asking, NEW seen \in Grants, Dates(a, asking, seen)
    PROVE  Dates(GrantLease(a, id, now), asking,
                 IF LeaseGrantable(CheckTime(a, now), now)
                 THEN [seen EXCEPT !.control = now] ELSE seen)
<1> DEFINE c == CheckTime(a, now)
           l == [id |-> id, tickets |-> NoTickets,
                 authorized_until |-> now + AuthorizationLifetime]
           b == GrantLease(a, id, now)
           y == [seen EXCEPT !.control = now]
<1>1. Sound(c) /\ Dates(c, asking, seen) BY CheckTimeSound, CheckKeeps, KeepsDates
<1>2. CASE ~ LeaseGrantable(c, now)
  BY <1>1, <1>2 DEF GrantLease
<1>3. CASE LeaseGrantable(c, now)
  <2>1. b = [c EXCEPT !.lease = l, !.control_challenge = None]
    BY <1>3 DEF GrantLease
  <2>2. c \in SessionAuthorityType BY <1>1 DEF Sound, Settled
  <2>3. l.authorized_until = now + AuthorizationLifetime OBVIOUS
  <2>4. y.control = now /\ now # None /\ y.observation = seen.observation
    BY TimesAreNaturals DEF Grants
  <2> HIDE DEF b, c, l, y
  <2>5. /\ b.observation_until = c.observation_until /\ b.lease = l
        /\ b.observation_challenge = c.observation_challenge
        /\ b.control_challenge = None
    BY <2>1, <2>2 DEF SessionAuthorityType
  <2>6. Dates(b, asking, y) BY <1>1, <2>3, <2>4, <2>5 DEF Dates
  <2> QED BY <1>3, <2>6 DEF b, c, y
<1> QED BY <1>2, <1>3

\* What issue_control_challenge grants or asks dates from its clock sample.
LEMMA IssueControlChallengeDates ==
    ASSUME NEW a, Sound(a), NEW now \in Time, NEW nonce \in Nonces,
           NEW asking \in Grants, NEW seen, Dates(a, asking, seen)
    PROVE  Dates(IssueControlChallenge(a, nonce, now),
                 IF ControlChallengeable(CheckTime(a, now), now)
                 THEN [asking EXCEPT !.control = now] ELSE asking, seen)
<1> DEFINE c == CheckTime(a, now)
           d == [nonce |-> nonce, deadline |-> now + AuthorizationLifetime]
           b == IssueControlChallenge(a, nonce, now)
           x == [asking EXCEPT !.control = now]
<1>1. Sound(c) /\ Dates(c, asking, seen) BY CheckTimeSound, CheckKeeps, KeepsDates
<1>2. CASE ~ ControlChallengeable(c, now)
  BY <1>1, <1>2 DEF IssueControlChallenge
<1>3. CASE ControlChallengeable(c, now)
  <2>1. b = [c EXCEPT !.control_challenge = d]
    BY <1>3 DEF IssueControlChallenge
  <2>2. c \in SessionAuthorityType BY <1>1 DEF Sound, Settled
  <2>3. d.deadline = now + AuthorizationLifetime OBVIOUS
  <2>4. x.control = now /\ now # None /\ x.observation = asking.observation
    BY TimesAreNaturals DEF Grants
  <2> HIDE DEF b, c, d, x
  <2>5. /\ b.observation_until = c.observation_until /\ b.lease = c.lease
        /\ b.observation_challenge = c.observation_challenge
        /\ b.control_challenge = d
    BY <2>1, <2>2 DEF SessionAuthorityType
  <2>6. Dates(b, x, seen) BY <1>1, <2>3, <2>4, <2>5 DEF Dates
  <2> QED BY <1>3, <2>6 DEF b, c, x
<1> QED BY <1>2, <1>3

\* What respond_control_challenge renews dates from when the challenge was asked.
LEMMA RespondControlChallengeDates ==
    ASSUME NEW a, Sound(a), NEW now \in Time, NEW id \in LeaseIds,
           NEW nonce \in Nonces, NEW asking \in Grants, NEW seen \in Grants,
           Dates(a, asking, seen)
    PROVE  Dates(RespondControlChallenge(a, id, nonce, now), asking,
                 IF ControlRenewable(CheckTime(a, now), id, nonce, now)
                 THEN [seen EXCEPT !.control = asking.control] ELSE seen)
<1> DEFINE c == CheckTime(a, now)
           b == RespondControlChallenge(a, id, nonce, now)
           y == [seen EXCEPT !.control = asking.control]
<1>1. Sound(c) /\ Dates(c, asking, seen) BY CheckTimeSound, CheckKeeps, KeepsDates
<1>2. c \in SessionAuthorityType BY <1>1 DEF Sound, Settled
<1>3. y.control = asking.control /\ y.observation = seen.observation
  BY DEF Grants
<1>4. CASE ControlRenewable(c, id, nonce, now)
  <2>1. b = [c EXCEPT !.control_challenge = None,
                      !.lease.authorized_until = c.control_challenge.deadline]
    BY <1>4 DEF RespondControlChallenge, ControlRenewable
  <2>2. c.control_challenge # None /\ c.lease \in Lease
    BY <1>2, <1>4 DEF ControlRenewable, Answers, LeaseIs, SessionAuthorityType, Option
  <2> HIDE DEF b, c, y
  <2>3. /\ b.observation_until = c.observation_until
        /\ b.lease = [c.lease EXCEPT !.authorized_until = c.control_challenge.deadline]
        /\ b.observation_challenge = c.observation_challenge
        /\ b.control_challenge = None
    BY <1>2, <2>1 DEF SessionAuthorityType
  <2>4. b.lease.authorized_until = c.control_challenge.deadline
    BY <2>2, <2>3 DEF Lease
  <2>5. Dates(b, asking, y) BY <1>1, <1>3, <2>2, <2>3, <2>4 DEF Dates
  <2> QED BY <1>4, <2>5 DEF b, c, y
<1>5. CASE ~ ControlRenewable(c, id, nonce, now)
  <2> DEFINE x == IF Answers(c.control_challenge, nonce) \/ ~ LeaseUnexpired(c, now)
                  THEN None ELSE c.control_challenge
  <2>1. b = c \/ b = [c EXCEPT !.control_challenge = x]
    BY <1>5 DEF RespondControlChallenge
  <2>2. x \in {None, c.control_challenge} OBVIOUS
  <2> HIDE DEF b, c, x
  <2>3. /\ b.observation_until = c.observation_until /\ b.lease = c.lease
        /\ b.observation_challenge = c.observation_challenge
        /\ b.control_challenge \in {None, c.control_challenge}
    BY <1>2, <2>1, <2>2 DEF SessionAuthorityType
  <2>4. Dates(b, asking, seen) BY <1>1, <2>3 DEF Dates
  <2> QED BY <1>5, <2>4 DEF b, c
<1> QED BY <1>4, <1>5

-----------------------------------------------------------------------------
(* The specification.                                                      *)

HInv == IInv /\ Dates(auth, asked, evidence)

\* A call that passes on or drops.
LEMMA QuietStep ==
    ASSUME Dates(auth, asked, evidence), Keeps(auth, auth'), Remember(asked, evidence)
    PROVE  Dates(auth', asked', evidence')
  BY KeepsDates, RememberDates

\* Every call keeps record and history in agreement.
LEMMA DatesStep ==
    ASSUME HInv, [Next]_vars
    PROVE  Dates(auth', asked', evidence')
<1>0. /\ Sound(auth) /\ auth \in SessionAuthorityType
      /\ Dates(auth, asked, evidence) /\ asked \in Grants /\ evidence \in Grants
  BY DEF HInv, IInv, Sound, Settled
<1>1. CASE UNCHANGED vars BY <1>0, <1>1 DEF vars, Dates
<1>2. CASE UntimedCall
  <2>1. Remember(asked, evidence)
    BY <1>2 DEF UntimedCall, CallMarkCapabilitiesChecked, CallRequireApproval,
       CallMarkViewStale, CallAdvanceRecovery, CallConfirmSuspensionRelease,
       CallInvalidateInputTickets, CallClaimNativeOwner, CallRevokeLease,
       CallInvalidateForSuspend, CallClose, CallRefuse
  <2>2. Keeps(auth, auth')
    BY SMTT(30), <1>0, <1>2, LifecycleKeeps, StaleKeeps, AdvanceRecoveryKeeps,
       ConfirmSuspensionReleaseKeeps, InvalidateInputTicketsKeeps,
       ClaimNativeOwnerKeeps, RevokeKeeps, ClearKeeps
    DEF UntimedCall, CallMarkCapabilitiesChecked, CallRequireApproval,
       CallMarkViewStale, CallAdvanceRecovery, CallConfirmSuspensionRelease,
       CallInvalidateInputTickets, CallClaimNativeOwner, CallRevokeLease,
       CallInvalidateForSuspend, CallClose, CallRefuse
  <2> QED BY <1>0, <2>1, <2>2, QuietStep
<1>3. ASSUME NEW now \in Time, ViewCall(now) \/ TicketCall(now)
      PROVE  Dates(auth', asked', evidence')
  <2>1. Remember(asked, evidence)
    BY <1>3 DEF ViewCall, TicketCall, CallAuthorizeObservationDelivery,
       CallMarkViewReady, CallRequireViewEvidence, CallMarkViewReadyUntil,
       CallControlStatus, CallApplyResumeBoundary, CallIssueInputTicket,
       CallAuthorizeSubmission
  <2>2. Keeps(auth, auth')
    BY SMTT(30), <1>0, <1>3, CheckKeeps, MarkViewReadyKeeps, RequireViewEvidenceKeeps,
       MarkViewReadyUntilKeeps, ControlStatusKeeps, ApplyResumeBoundaryKeeps,
       IssueInputTicketKeeps
    DEF ViewCall, TicketCall, CallAuthorizeObservationDelivery,
       CallMarkViewReady, CallRequireViewEvidence, CallMarkViewReadyUntil,
       CallControlStatus, CallApplyResumeBoundary, CallIssueInputTicket,
       CallAuthorizeSubmission, AuthorizeObservationDelivery, AuthorizeSubmission
  <2> QED BY <1>0, <2>1, <2>2, QuietStep
<1>4. ASSUME NEW now \in Time, GrantCall(now)
      PROVE  Dates(auth', asked', evidence')
  <2>1. CASE CallAuthorizeObservation(now)
    BY <1>0, <2>1, AuthorizeObservationDates, RememberDates
    DEF CallAuthorizeObservation
  <2>2. ASSUME NEW nonce \in Nonces, CallIssueObservationChallenge(nonce, now)
        PROVE  Dates(auth', asked', evidence')
    BY <1>0, <2>2, IssueObservationChallengeDates, RememberDates
    DEF CallIssueObservationChallenge
  <2>3. ASSUME NEW nonce \in Nonces, CallRespondObservationChallenge(nonce, now)
        PROVE  Dates(auth', asked', evidence')
    BY <1>0, <2>3, RespondObservationChallengeDates, RememberDates
    DEF CallRespondObservationChallenge
  <2>4. ASSUME NEW id \in LeaseIds, CallGrantLease(id, now)
        PROVE  Dates(auth', asked', evidence')
    BY <1>0, <2>4, GrantLeaseDates, RememberDates DEF CallGrantLease
  <2>5. ASSUME NEW nonce \in Nonces, CallIssueControlChallenge(nonce, now)
        PROVE  Dates(auth', asked', evidence')
    BY <1>0, <2>5, IssueControlChallengeDates, RememberDates
    DEF CallIssueControlChallenge
  <2>6. ASSUME NEW id \in LeaseIds, NEW nonce \in Nonces,
               CallRespondControlChallenge(id, nonce, now)
        PROVE  Dates(auth', asked', evidence')
    BY <1>0, <2>6, RespondControlChallengeDates, RememberDates
    DEF CallRespondControlChallenge
  <2> QED BY <1>4, <2>1, <2>2, <2>3, <2>4, <2>5, <2>6 DEF GrantCall
<1> QED BY <1>1, <1>2, <1>3, <1>4 DEF Next

\* The record and its history agree in every behaviour.
THEOREM HistorySound == Spec => []HInv
<1>1. Init => HInv
  BY InitIInv DEF HInv, Init, Dates, NewAuthority
<1>2. HInv /\ [Next]_vars => HInv'
  BY NextStep, HistoryStep, DatesStep DEF HInv, IInv
<1> QED BY <1>1, <1>2, PTL DEF Spec

\* Neither observation nor the lease ever reaches further than one lifetime
\* past the moment the newest accepted evidence was asked for.
THEOREM AuthorityIsDated == Spec => []AuthorityDatedAtEvidence
<1>1. HInv => AuthorityDatedAtEvidence
  BY DEF HInv, Dates, AuthorityDatedAtEvidence
<1> QED BY <1>1, HistorySound, PTL

\* A submission is authorized only within one lifetime of evidence for the
\* observation and for the lease, at a sample no older than any checked one.
THEOREM SubmissionsRestOnEvidence == Spec => []SubmissionRestsOnRecentEvidence
<1>1. HInv => SubmissionRestsOnRecentEvidence
  <2> SUFFICES ASSUME HInv, NEW id \in LeaseIds, NEW ticket \in TicketIds,
                      NEW now \in Time,
                      SubmissionAllowed(CheckTime(auth, now), id, ticket, now)
               PROVE  /\ auth.last_checked # None => now >= auth.last_checked
                      /\ now < evidence.observation + AuthorizationLifetime
                      /\ now < evidence.control + AuthorizationLifetime
    BY DEF SubmissionRestsOnRecentEvidence
  <2> DEFINE c == CheckTime(auth, now)
  <2>0. Sound(auth) /\ auth \in SessionAuthorityType /\ Dates(auth, asked, evidence)
    BY DEF HInv, IInv, Sound, Settled
  <2>1. c.phase # "Closed" BY DEF SubmissionAllowed
  <2>2. ~ ClockRegressed(auth, now) BY <2>0, <2>1, LiveAfterCheck
  <2>3. Dates(c, asked, evidence) BY <2>0, CheckKeeps, KeepsDates
  <2>4. /\ c.observation_until # None /\ now < c.observation_until
        /\ c.lease # None /\ now < c.lease.authorized_until
    BY DEF SubmissionAllowed, ObservationLive, LeaseUnexpired
  <2>5. auth.last_checked # None => now >= auth.last_checked
    BY <2>0, <2>2, Times, TimesAreNaturals DEF ClockRegressed
  <2> HIDE DEF c
  <2> QED BY <2>3, <2>4, <2>5 DEF Dates
<1> QED BY <1>1, HistorySound, PTL

=============================================================================
