------------------------- MODULE InputSubmissionProofs -------------------------
(***************************************************************************)
(* The native input owner never loses track of what it holds, never lets a *)
(* held input cross a released suspension, and stops after at most one     *)
(* effect; what it tells the client is what happened, both rings of        *)
(* receipts retain the same actions, and it authorizes nothing but the     *)
(* newest view with a ticket of the current mode: for every value of the   *)
(* constants.                                                              *)
(***************************************************************************)
EXTENDS InputSubmission, AuthorityLemmas

\* A leaf goes to Zenon, which knows sets, functions and records; one that needs
\* arithmetic or sequences names SMT.
USE ZenonT(60)

-----------------------------------------------------------------------------
(* What the authority's operators leave alone.                             *)

\* No release is confirmed and no owner installed between a and b.
Quiet(a, b) ==
    /\ b.suspension # None /\ b.suspension.released => b.suspension = a.suspension
    /\ b.native_owner \in {None, a.native_owner}

\* Quiet steps compose.
LEMMA QuietTrans ==
    ASSUME NEW a, NEW b, NEW c, Quiet(a, b), Quiet(b, c)
    PROVE  Quiet(a, c)
  BY DEF Quiet

\* A cleared authority is quiet.
LEMMA CloseQuiet ==
    ASSUME NEW a, a \in SessionAuthorityType
    PROVE  Quiet(a, Close(a))
<1>1. Close(a).suspension = None /\ Close(a).native_owner = None
  BY DEF Close, ClearAuthority, SessionAuthorityType
<1> QED BY <1>1 DEF Quiet

\* A lost view opens an unreleased suspension or none.
LEMMA LapseQuiet ==
    ASSUME NEW a, a \in SessionAuthorityType, NEW at
    PROVE  Quiet(a, LapseView(a, at))
<1> DEFINE b == LapseView(a, at)
           fresh == [since |-> at, released |-> FALSE]
<1>1. b.suspension \in {a.suspension, fresh} /\ b.native_owner = a.native_owner
  BY DEF LapseView, SessionAuthorityType
<1>2. ~ fresh.released OBVIOUS
<1> HIDE DEF b, fresh
<1> QED BY <1>1, <1>2 DEF Quiet, b

\* check_time is quiet.
LEMMA CheckTimeQuiet ==
    ASSUME NEW a, a \in SessionAuthorityType, NEW at \in Time
    PROVE  Quiet(a, CheckTime(a, at))
<1>1. CASE ClockRegressed(a, at)
  <2> DEFINE d == [a EXCEPT !.clock_faulted = TRUE]
  <2>1. /\ d \in SessionAuthorityType /\ d.suspension = a.suspension
        /\ d.native_owner = a.native_owner
    BY DEF SessionAuthorityType
  <2>2. CheckTime(a, at) = Close(d) BY <1>1 DEF CheckTime
  <2> HIDE DEF d
  <2> QED BY <2>1, <2>2, CloseQuiet DEF Quiet
<1>2. CASE ~ ClockRegressed(a, at)
  <2> DEFINE d == [a EXCEPT !.last_checked = at]
  <2>1. /\ d \in SessionAuthorityType /\ d.suspension = a.suspension
        /\ d.native_owner = a.native_owner
    BY SMTT(30) DEF SessionAuthorityType, Option
  <2>2. CheckTime(a, at) \in {d, LapseView(d, d.view_until)}
    BY <1>2 DEF CheckTime, LapsePassedView
  <2> HIDE DEF d
  <2> QED BY <2>1, <2>2, LapseQuiet, SMTT(30) DEF Quiet
<1> QED BY <1>1, <1>2

\* control_status is quiet.
LEMMA ControlStatusQuiet ==
    ASSUME NEW a, a \in SessionAuthorityType, NEW sampled
    PROVE  Quiet(a, ControlStatusEffect(a, sampled))
<1>1. ControlStatusEffect(a, sampled) \in {a, LapseView(a, a.view_until)}
  BY DEF ControlStatusEffect, LapsePassedView
<1> QED BY <1>1, LapseQuiet DEF Quiet

\* A call that is quiet after its check is quiet.
LEMMA AfterCheckQuiet ==
    ASSUME NEW a, a \in SessionAuthorityType, NEW at \in Time, NEW b,
           b.suspension = CheckTime(a, at).suspension,
           b.native_owner = CheckTime(a, at).native_owner
    PROVE  Quiet(a, b)
  BY CheckTimeQuiet DEF Quiet

\* The renewal calls are quiet.
LEMMA RenewalQuiet ==
    ASSUME NEW a, Sound(a), NEW at \in Time, NEW nonce, NEW id
    PROVE  /\ Quiet(a, IssueObservationChallenge(a, nonce, at))
           /\ Quiet(a, RespondObservationChallenge(a, nonce, at))
           /\ Quiet(a, IssueControlChallenge(a, nonce, at))
           /\ Quiet(a, RespondControlChallenge(a, id, nonce, at))
<1> DEFINE c == CheckTime(a, at)
<1>0. a \in SessionAuthorityType /\ c \in SessionAuthorityType
  BY CheckTimeSound DEF Sound, Settled
<1> USE <1>0
<1>1. /\ IssueObservationChallenge(a, nonce, at).suspension = c.suspension
      /\ IssueObservationChallenge(a, nonce, at).native_owner = c.native_owner
  BY DEF IssueObservationChallenge, SessionAuthorityType
<1>2. /\ RespondObservationChallenge(a, nonce, at).suspension = c.suspension
      /\ RespondObservationChallenge(a, nonce, at).native_owner = c.native_owner
  BY DEF RespondObservationChallenge, SessionAuthorityType
<1>3. /\ IssueControlChallenge(a, nonce, at).suspension = c.suspension
      /\ IssueControlChallenge(a, nonce, at).native_owner = c.native_owner
  BY DEF IssueControlChallenge, SessionAuthorityType
<1>4. /\ RespondControlChallenge(a, id, nonce, at).suspension = c.suspension
      /\ RespondControlChallenge(a, id, nonce, at).native_owner = c.native_owner
  BY DEF RespondControlChallenge, SessionAuthorityType
<1> HIDE DEF c
<1> QED BY <1>1, <1>2, <1>3, <1>4, AfterCheckQuiet DEF c

\* Issuing, clearing and granting are quiet.
LEMMA TicketQuiet ==
    ASSUME NEW a, Sound(a), NEW at \in Time, NEW id, NEW ticket,
           NEW presented \in BOOLEAN
    PROVE  /\ Quiet(a, IssueInputTicket(a, id, ticket, at, presented))
           /\ Quiet(a, InvalidateInputTickets(a, id))
           /\ Quiet(a, GrantLease(a, id, at))
<1> DEFINE c == CheckTime(a, at)
<1>0. a \in SessionAuthorityType /\ c \in SessionAuthorityType
  BY CheckTimeSound DEF Sound, Settled
<1> USE <1>0
<1>1. /\ IssueInputTicket(a, id, ticket, at, presented).suspension = c.suspension
      /\ IssueInputTicket(a, id, ticket, at, presented).native_owner = c.native_owner
  BY DEF IssueInputTicket, SessionAuthorityType
<1>2. /\ InvalidateInputTickets(a, id).suspension = a.suspension
      /\ InvalidateInputTickets(a, id).native_owner = a.native_owner
  BY DEF InvalidateInputTickets, SessionAuthorityType
<1>3. /\ GrantLease(a, id, at).suspension = c.suspension
      /\ GrantLease(a, id, at).native_owner = c.native_owner
  BY DEF GrantLease, SessionAuthorityType
<1>4. Quiet(a, InvalidateInputTickets(a, id)) BY <1>2 DEF Quiet
<1> HIDE DEF c
<1> QED BY <1>1, <1>3, <1>4, AfterCheckQuiet DEF c

\* Media evidence, recovery and the end of the lease are quiet.
LEMMA MediaQuiet ==
    ASSUME NEW a, Sound(a), NEW at \in Time, NEW until, NEW generation
    PROVE  /\ Quiet(a, MarkViewStale(a))
           /\ Quiet(a, MarkViewReadyUntil(a, None, until, at))
           /\ Quiet(a, AdvanceRecovery(a, generation))
           /\ Quiet(a, RevokeLease(a))
           /\ Quiet(a, Close(a))
<1> DEFINE d == [a EXCEPT !.presented_sequence = None]
           c == CheckTime(d, at)
           m == MarkViewReadyUntil(a, None, until, at)
<1>0. a \in SessionAuthorityType BY DEF Sound, Settled
<1> USE <1>0
<1>1. Quiet(a, MarkViewStale(a)) BY LapseQuiet DEF MarkViewStale
<1>2. /\ Sound(d) /\ d \in SessionAuthorityType /\ d.suspension = a.suspension
      /\ d.native_owner = a.native_owner
  <2>1. Sound(d) BY UnpresentedSound
  <2>2. d \in SessionAuthorityType BY <2>1 DEF Sound, Settled
  <2>3. d.suspension = a.suspension /\ d.native_owner = a.native_owner
    BY DEF SessionAuthorityType
  <2> QED BY <2>1, <2>2, <2>3
<1> USE <1>2
<1>3. c \in SessionAuthorityType BY CheckTimeSound DEF Sound, Settled
<1>4. m.suspension \in {None, c.suspension} /\ m.native_owner = c.native_owner
  BY <1>3 DEF MarkViewReadyUntil, SessionAuthorityType
<1> HIDE DEF m, c, d
<1>5. Quiet(d, c) BY CheckTimeQuiet DEF c
<1>6. Quiet(a, m) BY <1>4, <1>5 DEF Quiet
<1>7. Quiet(a, AdvanceRecovery(a, generation))
  <2>1. /\ AdvanceRecovery(a, generation).suspension = a.suspension
        /\ AdvanceRecovery(a, generation).native_owner = a.native_owner
    BY DEF AdvanceRecovery, SessionAuthorityType
  <2> QED BY <2>1 DEF Quiet
<1>8. Quiet(a, RevokeLease(a))
  <2>1. RevokeLease(a).suspension = None /\ RevokeLease(a).native_owner = None
    BY DEF RevokeLease, SessionAuthorityType
  <2> QED BY <2>1 DEF Quiet
<1>9. Quiet(a, Close(a)) BY CloseQuiet
<1> QED BY <1>1, <1>6, <1>7, <1>8, <1>9 DEF m

-----------------------------------------------------------------------------
(* The inductive invariant.                                                *)

\* The records have the fields the steps below assign.
Shaped ==
    /\ "held" \in DOMAIN own
    /\ {"pc", "plan", "sample", "previous", "submitted", "effects"} \subseteq DOMAIN call
    /\ "sample" \in DOMAIN control

Timely == now \in Time /\ call.sample \in Time /\ control.sample \in Time

\* What is down is tracked.  Inside a native call it was down before the
\* possible press of that call was tracked, so a refused press may restore the
\* earlier set; a release is confirmed with nothing tracked.
Tracked ==
    /\ HeldCoversNative
    /\ call.pc = "submit" =>
          /\ os \subseteq call.previous
          /\ own.held = TrackBefore(call.previous, Head(call.plan))
    /\ call.pc = "confirm" => own.held = {}

\* A released suspension finds nothing held and no native call under way.
Released ==
    auth.native_owner = Me /\ auth.suspension # None /\ auth.suspension.released =>
        own.held = {} /\ call.pc # "submit"

\* The one late effect has used up the native call that was under way.
Spent == late = 0 \/ (late = 1 /\ Lost /\ call.pc # "submit")

IInv == Sound(auth) /\ Shaped /\ Timely /\ Tracked /\ Released /\ Spent

\* What another participant's step may do to this owner's grant.
Calm(a, b) ==
    b.native_owner = Me =>
        /\ a.native_owner = Me
        /\ b.suspension # None /\ b.suspension.released => b.suspension = a.suspension

\* A quiet call is calm.
LEMMA QuietCalm ==
    ASSUME NEW a, NEW b, Quiet(a, b)
    PROVE  Calm(a, b)
  BY CredentialsAssumption, NoneAssumption DEF Quiet, Calm

\* A step keeps the invariant when it changes neither what is held nor enters
\* a native call or a confirmation.
LEMMA CalmStep ==
    ASSUME IInv, Sound(auth'), Calm(auth, auth'), Shaped', Timely',
           own'.held = own.held, os' = os, late' = late, revoked => revoked',
           call' = call \/ call'.pc \notin {"submit", "confirm"}
    PROVE  IInv'
<1>1. Tracked' BY DEF IInv, Tracked, HeldCoversNative
<1>2. Released' BY DEF IInv, Released, Calm
<1>3. Spent' BY DEF IInv, Spent, Lost, Calm
<1> QED BY <1>1, <1>2, <1>3 DEF IInv

\* The same, for a step that leaves the owner's records alone.
LEMMA OutsideStep ==
    ASSUME IInv, Sound(auth'), Calm(auth, auth'), now' \in Time,
           UNCHANGED <<own, call, control, os, late>>, revoked => revoked'
    PROVE  IInv'
<1>1. Shaped' /\ Timely' BY DEF IInv, Shaped, Timely
<1> QED BY <1>1, CalmStep

\* A call of the owner that ends, as far as the authority allows.
LEMMA ConcludeFacts ==
    ASSUME NEW c, NEW refusal, Conclude(c, refusal)
    PROVE  call' = IdleCall /\ (revoked => revoked')
  BY DEF Conclude

\* An idle call has every field.
LEMMA IdleShaped ==
    ASSUME Shaped, Timely, call' = IdleCall, "held" \in DOMAIN own',
           now' = now, control' = control
    PROVE  Shaped' /\ Timely' /\ call'.pc = "idle"
<1>1. 0 \in Time BY BoundsAssumption, SMTT(30) DEF Time
<1> QED BY <1>1 DEF Shaped, Timely, IdleCall

\* The invariant holds when the owner has attached.
LEMMA InitIInv == Init => IInv
<1> SUFFICES ASSUME Init PROVE IInv OBVIOUS
<1>0. 0 \in Time BY BoundsAssumption, SMTT(30) DEF Time
<1> USE <1>0
<1>1. PICK until \in Time \ {0} :
        /\ auth = Granted(FirstTicket, until)
        /\ SubmissionAllowed(auth, LeaseId, FirstTicket, 0)
  BY DEF Init
<1>2. Sound(auth)
  <2> DEFINE capable == MarkCapabilitiesChecked(NewAuthority)
             observed == AuthorizeObservation(capable, 0)
             required == RequireViewEvidence(observed, 0)
             ready == MarkViewReadyUntil(required, None, until, 0)
             leased == GrantLease(ready, LeaseId, 0)
             ticketed == IssueInputTicket(leased, LeaseId, FirstTicket, 0, FALSE)
             checked == CheckTime(ticketed, 0)
  <2>1. Sound(capable)
    <3>1. NewAuthority.phase = "Identified" BY DEF NewAuthority
    <3> QED BY <3>1, NewSound, LifecycleStep DEF MarkCapabilitiesChecked
  <2> HIDE DEF capable
  <2>2. Sound(observed) BY <2>1, AuthorizeObservationStep
  <2> HIDE DEF observed
  <2>3. Sound(required) BY <2>2, RequireViewEvidenceStep
  <2> HIDE DEF required
  <2>4. Sound(ready) BY <2>3, MarkViewReadyUntilStep DEF Option
  <2> HIDE DEF ready
  <2>5. Sound(leased) BY <2>4, GrantLeaseStep, CredentialsAssumption
  <2> HIDE DEF leased
  <2>6. Sound(ticketed) BY <2>5, IssueInputTicketStep, CredentialsAssumption
  <2> HIDE DEF ticketed
  <2>7. Sound(checked) BY <2>6, CheckTimeSound
  <2> HIDE DEF checked
  <2>8. auth = ClaimNativeOwner(checked, LeaseId, Me)
    BY <1>1 DEF Granted, AuthorizeSubmission, capable, observed, required, ready,
                leased, ticketed, checked
  <2> QED BY <2>7, <2>8, ClaimNativeOwnerStep, CredentialsAssumption
<1>3. Shaped /\ Timely BY DEF Init, Shaped, Timely, IdleCall
<1>4. own.held = {} /\ os = {} /\ call.pc = "idle" /\ late = 0
  BY DEF Init, IdleCall
<1> QED BY <1>2, <1>3, <1>4 DEF IInv, Tracked, Released, Spent, HeldCoversNative

-----------------------------------------------------------------------------
(* Steps of the other participants.                                        *)

\* serialized_time is a sample or the high-water mark.
LEMMA SerializedTyped ==
    ASSUME NEW a, Sound(a), NEW t \in Time
    PROVE  SerializedTime(a, t) \in Time
<1>1. a.last_checked # None => a.last_checked \in Time
  BY Times DEF Sound, Settled
<1> QED BY <1>1 DEF SerializedTime

\* The clock, the watchdog, revocation and the renewer leave held input alone.
LEMMA WatchStep ==
    ASSUME IInv, Tick \/ WatchdogStatus \/ Revoke
    PROVE  IInv'
<1> USE DEF IInv, Private
<1>1. CASE Tick
  <2> USE <1>1
  <2>1. now' \in Time BY BoundsAssumption, SMTT(30) DEF Tick, Timely, Time
  <2>2. auth' = auth BY DEF Tick
  <2>3. Calm(auth, auth') BY <2>2 DEF Calm
  <2> QED BY <2>1, <2>2, <2>3, OutsideStep DEF Tick
<1>2. CASE WatchdogStatus
  <2> USE <1>2
  <2>1. auth' = auth \/ auth' = ControlStatusEffect(auth, now)
    BY DEF WatchdogStatus
  <2>2. Sound(auth') BY <2>1, ControlStatusStep DEF Timely
  <2>3. auth \in SessionAuthorityType BY DEF Sound, Settled
  <2>4. Calm(auth, auth')
    BY <2>1, <2>3, ControlStatusQuiet, QuietCalm DEF Calm
  <2> QED BY <2>2, <2>4, OutsideStep DEF WatchdogStatus, Timely
<1>3. CASE Revoke
  <2> USE <1>3
  <2>1. auth' = auth BY DEF Revoke
  <2>2. Calm(auth, auth') BY <2>1 DEF Calm
  <2> QED BY <2>1, <2>2, OutsideStep DEF Revoke, Timely
<1> QED BY <1>1, <1>2, <1>3

\* Media evidence, recovery and the end of the lease.
LEMMA MediaStepKeeps ==
    ASSUME IInv, MediaStep
    PROVE  IInv'
<1> USE DEF IInv
<1>0. now \in Time /\ SerializedTime(auth, now) \in Time
      /\ Settled(auth) /\ auth \in SessionAuthorityType
  BY SerializedTyped DEF Timely, Sound, Settled
<1> USE <1>0
<1>1. Sound(auth') /\ Quiet(auth, auth')
  <2>1. CASE auth' = MarkViewStale(auth)
    BY <2>1, StaleSound, MediaQuiet
  <2>2. ASSUME NEW until \in (now + 1)..MaxInstant,
               auth' = MarkViewReadyUntil(auth, None, until, SerializedTime(auth, now))
        PROVE  Sound(auth') /\ Quiet(auth, auth')
    <3>1. until \in Time BY BoundsAssumption, SMTT(30) DEF Time
    <3>2. None \in Option(Sequences) BY DEF Option
    <3> QED BY <2>2, <3>1, <3>2, MarkViewReadyUntilStep, MediaQuiet
  <2>3. ASSUME NEW generation \in Generations \ {0},
               auth' = AdvanceRecovery(auth, generation)
        PROVE  Sound(auth') /\ Quiet(auth, auth')
    BY <2>3, AdvanceRecoveryStep, MediaQuiet
  <2>4. CASE auth' = RevokeLease(auth)
    BY <2>4, RevokeSound, MediaQuiet
  <2>5. CASE auth' = Close(auth)
    BY <2>5, CloseSound, MediaQuiet
  <2> QED BY <2>1, <2>2, <2>3, <2>4, <2>5 DEF MediaStep
<1>2. Calm(auth, auth') BY <1>1, QuietCalm
<1> QED BY <1>1, <1>2, OutsideStep DEF MediaStep, Private

\* A replacement grant, with equal numbers, is never this owner's.
LEMMA RegrantKeeps ==
    ASSUME IInv, NEW ticket \in TicketIds, Regrant(ticket)
    PROVE  IInv'
<1> USE DEF IInv
<1> DEFINE at == SerializedTime(auth, now)
           granted == GrantLease(auth, LeaseId, at)
           ticketed == IssueInputTicket(granted, LeaseId, ticket, at, FALSE)
<1>0. now \in Time /\ at \in Time BY SerializedTyped DEF Timely
<1> USE <1>0
<1> HIDE DEF at
<1>1. Sound(granted) /\ Quiet(auth, granted)
  BY GrantLeaseStep, TicketQuiet, CredentialsAssumption
<1> HIDE DEF granted
<1>2. Sound(ticketed) /\ Quiet(granted, ticketed)
  BY <1>1, IssueInputTicketStep, TicketQuiet, CredentialsAssumption
<1> USE <1>2
<1> HIDE DEF ticketed
<1>3. auth' = ClaimNativeOwner(ticketed, LeaseId, Other)
  BY DEF Regrant, at, granted, ticketed
<1>4. Sound(auth') BY <1>3, ClaimNativeOwnerStep, CredentialsAssumption
<1>5. Quiet(auth, ticketed) BY <1>1, QuietTrans
<1>6. ticketed \in SessionAuthorityType BY DEF Sound, Settled
<1>7. auth' = ticketed \/ auth'.native_owner = Other
  BY <1>3, <1>6 DEF ClaimNativeOwner, SessionAuthorityType
<1>8. Calm(auth, auth')
  BY <1>5, <1>7, QuietCalm, CredentialsAssumption DEF Calm
<1> QED BY <1>4, <1>8, OutsideStep DEF Regrant, Private

\* The renewal-only capability.
LEMMA ControlSteps ==
    ASSUME IInv,
           \/ TakeControlLease \/ DropControl
           \/ \E next \in {"ready", "challenge", "respond"} : ControlDeadline(next)
           \/ \E nonce \in Nonces : ControlRenews(nonce)
    PROVE  IInv'
<1> USE DEF IInv
<1>0. 0 \in Time /\ auth \in SessionAuthorityType
  BY BoundsAssumption, SMTT(30) DEF Time, Sound, Settled
<1>1. CASE TakeControlLease \/ DropControl
  <2> USE <1>1
  <2>1. auth' = auth /\ Calm(auth, auth')
    BY DEF TakeControlLease, DropControl, Calm
  <2>2. Shaped' /\ Timely'
    BY DEF TakeControlLease, DropControl, Shaped, Timely
  <2> QED BY <2>1, <2>2, CalmStep, SMTT(30) DEF TakeControlLease, DropControl
<1>2. ASSUME NEW next, ControlDeadline(next) PROVE IInv'
  <2> USE <1>2
  <2>1. auth' = auth \/ auth' = ControlStatusEffect(auth, now)
    BY DEF ControlDeadline
  <2>2. Sound(auth') BY <2>1, ControlStatusStep DEF Timely
  <2>3. Calm(auth, auth')
    BY <1>0, <2>1, ControlStatusQuiet, QuietCalm DEF Calm
  <2>4. Shaped' /\ Timely' BY DEF ControlDeadline, Shaped, Timely
  <2> QED BY <2>2, <2>3, <2>4, CalmStep DEF ControlDeadline
<1>3. ASSUME NEW nonce \in Nonces, ControlRenews(nonce) PROVE IInv'
  <2> USE <1>3
  <2> DEFINE at == SerializedTime(auth, control.sample)
  <2>0. at \in Time BY SerializedTyped DEF Timely
  <2>1. auth' \in {auth, IssueControlChallenge(auth, nonce, at),
                   RespondControlChallenge(auth, LeaseId, nonce, at)}
    BY DEF ControlRenews
  <2> HIDE DEF at
  <2>2. Sound(auth')
    BY <2>0, <2>1, IssueControlChallengeStep, RespondControlChallengeStep,
       CredentialsAssumption
  <2>3. Calm(auth, auth') BY SMTT(30), <2>0, <2>1, RenewalQuiet, QuietCalm DEF Calm
  <2>4. Shaped' /\ Timely' BY <1>0 DEF ControlRenews, Shaped, Timely
  <2> QED BY <2>2, <2>3, <2>4, CalmStep DEF ControlRenews
<1> QED BY <1>1, <1>2, <1>3

-----------------------------------------------------------------------------
(* Steps of the owner that leave held input alone.                         *)

\* A call that starts, or is refused at once.
LEMMA StartSteps ==
    ASSUME IInv,
           \/ \E request : DispatchPointer(request) \/ DispatchReliable(request)
           \/ \E sequence, next_action, keep : Reconcile(sequence, next_action, keep)
           \/ Cleanup
    PROVE  IInv'
<1> USE DEF IInv
<1>0. 0 \in Time BY SMTT(30), BoundsAssumption DEF Time
<1> USE <1>0
<1>1. auth' = auth /\ Calm(auth, auth')
  BY DEF DispatchPointer, DispatchReliable, Reconcile, Cleanup, Calm
<1>2. own'.held = own.held /\ "held" \in DOMAIN own'
  BY DEF DispatchPointer, DispatchReliable, Reconcile, Cleanup, Shaped
<1> DEFINE started ==
             /\ call' = call \/ call'.pc \in {"view", "recheck", "releasing"}
             /\ {"pc", "plan", "sample", "previous", "submitted", "effects"}
                   \subseteq DOMAIN call'
             /\ call'.sample \in Time
<1>3. started
  <2>1. CASE call' = call BY <2>1 DEF Shaped, Timely
  <2>2. ASSUME NEW request, call' = Begin("view", request)
        PROVE  started
    BY <2>2 DEF Begin, IdleCall
  <2>3. ASSUME NEW plan, NEW keep,
               call' = [Begin("recheck", None) EXCEPT !.plan = plan, !.keep = keep]
        PROVE  started
    BY <2>3 DEF Begin, IdleCall
  <2>4. CASE call' = StartRelease(FALSE)
    BY <2>4 DEF StartRelease, Begin, IdleCall
  <2> QED BY <2>1, <2>2, <2>3, <2>4
          DEF DispatchPointer, DispatchReliable, Reconcile, Cleanup
<1>4. Shaped' /\ Timely'
  BY <1>2, <1>3 DEF DispatchPointer, DispatchReliable, Reconcile, Cleanup,
                    Shaped, Timely
<1>5. os' = os /\ late' = late /\ (revoked => revoked')
  BY DEF DispatchPointer, DispatchReliable, Reconcile, Cleanup, RevokeOwner
<1> QED BY <1>1, <1>2, <1>3, <1>4, <1>5, CalmStep

\* The first lock of check().
LEMMA CheckViewStep ==
    ASSUME IInv, CheckView
    PROVE  IInv'
<1> USE DEF IInv
<1>1. auth' = auth /\ Calm(auth, auth') BY DEF CheckView, Calm
<1>2. own'.held = own.held /\ "held" \in DOMAIN own' BY DEF CheckView, Shaped
<1> USE <1>2
<1>3. \/ call' = IdleCall /\ (revoked => revoked')
      \/ call' = [call EXCEPT !.pc = "authorize", !.sample = now] /\ revoked' = revoked
  BY ConcludeFacts DEF CheckView, Continue
<1>4. /\ Shaped' /\ Timely' /\ call'.pc \notin {"submit", "confirm"}
      /\ (revoked => revoked')
  <2>1. CASE call' = IdleCall /\ (revoked => revoked')
    BY <2>1, IdleShaped DEF CheckView
  <2>2. CASE call' = [call EXCEPT !.pc = "authorize", !.sample = now] /\ revoked' = revoked
    BY <2>2 DEF CheckView, Shaped, Timely
  <2> QED BY <1>3, <2>1, <2>2
<1> QED BY <1>1, <1>4, CalmStep DEF CheckView

\* The last lock of a mode change.
LEMMA ChangeModeStep ==
    ASSUME IInv, ChangeMode
    PROVE  IInv'
<1> USE DEF IInv
<1>1. auth' = auth \/ auth' = InvalidateInputTickets(auth, LeaseId)
  BY DEF ChangeMode, ModeInvalidates
<1>2. Sound(auth') BY <1>1, InvalidateInputTicketsStep, CredentialsAssumption
<1>3. Calm(auth, auth')
  <2>1. Quiet(auth, InvalidateInputTickets(auth, LeaseId))
    <3>1. now \in Time /\ FALSE \in BOOLEAN BY DEF Timely
    <3> QED BY <3>1, TicketQuiet
  <2> QED BY <1>1, <2>1, QuietCalm DEF Calm
<1>4. call' = IdleCall /\ (revoked => revoked') BY ConcludeFacts DEF ChangeMode
<1>5. Shaped' /\ Timely' /\ call'.pc = "idle"
  BY <1>4, IdleShaped DEF ChangeMode, Shaped
<1> QED BY <1>2, <1>3, <1>4, <1>5, CalmStep DEF ChangeMode

\* A reconciliation's check.
LEMMA RecheckStep ==
    ASSUME IInv, Recheck
    PROVE  IInv'
<1> USE DEF IInv
<1> DEFINE at == SerializedTime(auth, now)
<1>0. at \in Time /\ auth \in SessionAuthorityType
  BY SerializedTyped DEF Timely, Sound, Settled
<1>1. auth' = auth \/ auth' = CheckTime(auth, at) BY DEF Recheck
<1> HIDE DEF at
<1>2. Sound(auth') BY <1>0, <1>1, CheckTimeSound
<1>3. Calm(auth, auth') BY <1>0, <1>1, CheckTimeQuiet, QuietCalm DEF Calm
<1>4. /\ \/ call' = IdleCall
         \/ call' = [call EXCEPT !.pc = "release"]
         \/ call' = [call EXCEPT !.entered = TRUE] /\ call.pc = "recheck"
      /\ (revoked => revoked')
  BY DEF Recheck, Abandon, Applied, RevokeOwner
<1>5. Shaped' /\ Timely' /\ call'.pc \notin {"submit", "confirm"}
  <2>1. CASE call' = IdleCall BY <2>1, IdleShaped DEF Recheck, Shaped
  <2>2. CASE call' = [call EXCEPT !.pc = "release"]
    BY <2>2 DEF Recheck, Shaped, Timely
  <2>3. CASE call' = [call EXCEPT !.entered = TRUE] /\ call.pc = "recheck"
    BY <2>3 DEF Recheck, Shaped, Timely
  <2> QED BY <1>4, <2>1, <2>2, <2>3
<1> QED BY <1>2, <1>3, <1>4, <1>5, CalmStep DEF Recheck

\* maintain, up to its release loop.
LEMMA MaintainStep ==
    ASSUME IInv, Maintain
    PROVE  IInv'
<1> USE DEF IInv
<1>0. 0 \in Time /\ auth \in SessionAuthorityType
  BY BoundsAssumption, SMTT(30) DEF Time, Sound, Settled
<1>1. auth' = auth \/ auth' = ControlStatusEffect(auth, now) BY DEF Maintain
<1>2. Sound(auth') BY <1>1, ControlStatusStep DEF Timely
<1>3. Calm(auth, auth') BY <1>0, <1>1, ControlStatusQuiet, QuietCalm DEF Calm
<1>4. call' = call \/ \E confirm : call' = StartRelease(confirm)
  BY DEF Maintain
<1>5. revoked => revoked' BY DEF Maintain, RevokeOwner
<1>6. \A confirm : /\ StartRelease(confirm).pc = "releasing"
                   /\ StartRelease(confirm).sample = 0
                   /\ {"pc", "plan", "sample", "previous", "submitted", "effects"}
                         \subseteq DOMAIN StartRelease(confirm)
  BY DEF StartRelease, Begin, IdleCall
<1>7. Shaped' /\ Timely' BY <1>0, <1>4, <1>6 DEF Maintain, Shaped, Timely
<1>8. call' = call \/ call'.pc = "releasing" BY <1>4, <1>6
<1> QED BY <1>2, <1>3, <1>5, <1>7, <1>8, CalmStep DEF Maintain

\* Tickets and the owner's renewals.
LEMMA CredentialSteps ==
    ASSUME IInv,
           \/ \E ticket \in TicketIds, presented \in BOOLEAN : IssueTicket(ticket, presented)
           \/ \E nonce \in Nonces : OwnerRenews(nonce)
    PROVE  IInv'
<1> USE DEF IInv
<1> DEFINE at == SerializedTime(auth, now)
<1>0. at \in Time BY SerializedTyped DEF Timely
<1> USE <1>0
<1>1. ASSUME NEW ticket \in TicketIds, NEW presented \in BOOLEAN,
             IssueTicket(ticket, presented)
      PROVE  IInv'
  <2> USE <1>1
  <2>1. auth' = IssueInputTicket(auth, LeaseId, ticket, at, presented)
    BY DEF IssueTicket
  <2> HIDE DEF at
  <2>2. Sound(auth') BY <2>1, IssueInputTicketStep, CredentialsAssumption
  <2>3. Calm(auth, auth') BY <2>1, TicketQuiet, QuietCalm
  <2>4. own'.held = own.held /\ Shaped' /\ Timely'
    BY DEF IssueTicket, Shaped, Timely
  <2> QED BY <2>2, <2>3, <2>4, CalmStep DEF IssueTicket
<1>2. ASSUME NEW nonce \in Nonces, OwnerRenews(nonce) PROVE IInv'
  <2> USE <1>2
  <2>1. auth' \in {IssueObservationChallenge(auth, nonce, at),
                   RespondObservationChallenge(auth, nonce, at),
                   IssueControlChallenge(auth, nonce, at),
                   RespondControlChallenge(auth, LeaseId, nonce, at)}
    BY DEF OwnerRenews
  <2> HIDE DEF at
  <2>2. Sound(auth')
    BY <2>1, IssueObservationChallengeStep, RespondObservationChallengeStep,
       IssueControlChallengeStep, RespondControlChallengeStep, CredentialsAssumption
  <2>3. Calm(auth, auth') BY <2>1, RenewalQuiet, QuietCalm
  <2> QED BY <2>2, <2>3, OutsideStep DEF OwnerRenews, Timely
<1> QED BY <1>1, <1>2

-----------------------------------------------------------------------------
(* Steps of the owner around native calls.                                 *)

\* The event's own checks.
LEMMA ExecuteFacts ==
    ASSUME IInv, NEW epoch, NEW barrier, NEW valid, NEW moves,
           Execute(epoch, barrier, valid, moves)
    PROVE  /\ own'.held = own.held /\ "held" \in DOMAIN own'
           /\ revoked => revoked'
           /\ \/ call' = IdleCall
              \/ call' = [call EXCEPT !.pc = "mode"]
              \/ \E plan, planned : call' = [call EXCEPT !.pc = "view", !.entered = TRUE,
                                               !.plan = plan, !.planned = planned]
<1> USE DEF IInv
<1>1. own'.held = own.held /\ "held" \in DOMAIN own' BY DEF Execute, Shaped
<1>2. revoked => revoked' BY ConcludeFacts DEF Execute, Continue
<1>3. \/ call' = IdleCall
      \/ call' = [call EXCEPT !.pc = "mode"]
      \/ \E plan, planned : call' = [call EXCEPT !.pc = "view", !.entered = TRUE,
                                       !.plan = plan, !.planned = planned]
  BY ConcludeFacts DEF Execute, Continue
<1> QED BY <1>1, <1>2, <1>3

\* The second lock of check(): only a live, unsuspended grant of this owner
\* enters a native call, with its press already tracked.
LEMMA AuthorizeStep ==
    ASSUME IInv, Authorize
    PROVE  IInv'
<1> USE DEF IInv
<1> DEFINE at == SerializedTime(auth, call.sample)
           checked == CheckTime(auth, at)
           op == Head(call.plan)
           entering == /\ own' = [own EXCEPT !.held = TrackBefore(@, op)]
                       /\ Continue([call EXCEPT !.pc = "submit", !.previous = own.held])
<1>0. at \in Time /\ auth \in SessionAuthorityType
  BY SerializedTyped DEF Timely, Sound, Settled
<1>1. auth' = auth \/ auth' = checked BY DEF Authorize
<1>2. Sound(auth') /\ Quiet(auth, checked)
  <2>1. Sound(checked) /\ Quiet(auth, checked)
    <3> HIDE DEF at
    <3> QED BY <1>0, CheckTimeSound, CheckTimeQuiet
  <2> HIDE DEF checked
  <2> QED BY <1>1, <2>1
<1> USE <1>2
<1>3. Calm(auth, auth')
  <2> HIDE DEF checked
  <2> QED BY <1>1, QuietCalm DEF Calm
<1>4. CASE entering /\ ~ revoked /\ auth' = checked /\ Mine(auth)
           /\ SubmissionAllowed(checked, LeaseId, call.request.ticket, at)
  <2> USE <1>4
  <2> HIDE DEF at, checked, op
  <2>1. own' = [own EXCEPT !.held = TrackBefore(@, op)]
        /\ call' = [call EXCEPT !.pc = "submit", !.previous = own.held]
        /\ revoked' = revoked
    BY DEF Continue
  <2>2. /\ own'.held = TrackBefore(own.held, op) /\ call'.pc = "submit"
        /\ call'.previous = own.held /\ call'.plan = call.plan
        /\ Shaped' /\ Timely'
    BY <2>1 DEF Authorize, Shaped, Timely
  <2>3. os' = os /\ late' = late BY DEF Authorize
  <2>4. own.held \subseteq TrackBefore(own.held, op) BY DEF TrackBefore
  <2>5. Tracked'
    BY <2>2, <2>3, <2>4 DEF Tracked, HeldCoversNative, op
  <2>6. auth'.readiness = "Ready" BY DEF SubmissionAllowed
  <2>7. auth'.suspension = None BY <2>6 DEF Sound, Settled, Suspended
  <2>8. Released' BY <2>7 DEF Released
  <2>9. Spent'
    <3>1. ~ Lost BY DEF Lost, Mine
    <3> QED BY <2>3, <3>1 DEF Spent
  <2> QED BY <2>2, <2>5, <2>8, <2>9
<1>5. CASE ~ (entering /\ ~ revoked /\ auth' = checked /\ Mine(auth)
              /\ SubmissionAllowed(checked, LeaseId, call.request.ticket, at))
  <2>1. \/ /\ UNCHANGED own
           /\ \E refusal : Conclude(call, refusal)
        \/ \E epoch, barrier, valid, moves : Execute(epoch, barrier, valid, moves)
    BY <1>5 DEF Authorize, Enters
  <2>2. /\ own'.held = own.held /\ "held" \in DOMAIN own'
        /\ revoked => revoked'
        /\ \/ call' = IdleCall
           \/ call' = [call EXCEPT !.pc = "mode"]
           \/ \E plan, planned : call' = [call EXCEPT !.pc = "view", !.entered = TRUE,
                                            !.plan = plan, !.planned = planned]
    <3>1. CASE UNCHANGED own /\ \E refusal : Conclude(call, refusal)
      BY <3>1, ConcludeFacts DEF Shaped
    <3>2. CASE \E epoch, barrier, valid, moves : Execute(epoch, barrier, valid, moves)
      BY <3>2, ExecuteFacts
    <3> QED BY <2>1, <3>1, <3>2
  <2>3. now' = now /\ control' = control /\ os' = os /\ late' = late
    BY DEF Authorize
  <2> USE <2>2, <2>3
  <2>4. Shaped' /\ Timely' /\ call'.pc \notin {"submit", "confirm"}
    <3>1. CASE call' = IdleCall BY <3>1, IdleShaped
    <3>2. CASE call' = [call EXCEPT !.pc = "mode"]
      BY <3>2 DEF Shaped, Timely
    <3>3. ASSUME NEW plan, NEW planned,
                 call' = [call EXCEPT !.pc = "view", !.entered = TRUE,
                                      !.plan = plan, !.planned = planned]
          PROVE  Shaped' /\ Timely' /\ call'.pc \notin {"submit", "confirm"}
      BY <3>3 DEF Shaped, Timely
    <3> QED BY <3>1, <3>2, <3>3
  <2> QED BY <1>3, <2>4, CalmStep
<1> QED BY <1>4, <1>5

\* The native call returns.
LEMMA SubmitStep ==
    ASSUME IInv, Submit
    PROVE  IInv'
<1> USE DEF IInv
<1> DEFINE op == Head(call.plan)
           done == [call EXCEPT !.plan = Tail(@), !.pc = "view",
                                !.submitted = @ + 1, !.effects = @ + 1,
                                !.previous = {}]
<1>0. call.pc = "submit" /\ auth' = auth /\ now' = now /\ control' = control
  BY DEF Submit
<1> USE <1>0
<1>1. own'.held \in {TrackAfter(own.held, op), call.previous, own.held}
      /\ "held" \in DOMAIN own'
  BY DEF Submit, Shaped
<1>2. (call' = IdleCall /\ (revoked => revoked')) \/ (call' = done /\ revoked' = revoked)
  BY ConcludeFacts DEF Submit, Continue
<1>3. Shaped' /\ Timely' /\ call'.pc \in {"idle", "view"}
  <2>1. CASE call' = IdleCall BY <1>1, <2>1, IdleShaped
  <2>2. CASE call' = done BY <1>1, <2>2 DEF Shaped, Timely
  <2> QED BY <1>2, <2>1, <2>2
<1> USE <1>3
<1>4. os \subseteq call.previous /\ own.held = TrackBefore(call.previous, op)
      /\ os \subseteq own.held
  BY DEF Tracked, HeldCoversNative
<1> USE <1>4
<1>5. os' \subseteq own'.held
  <2>1. CASE own' = [own EXCEPT !.held = TrackAfter(@, op)] /\ os' = Effect(os, op)
    <3> USE <2>1
    <3>1. own'.held = TrackAfter(own.held, op) BY DEF Shaped
    <3> QED BY <3>1, SMTT(30) DEF TrackAfter, Effect
  <2>2. CASE /\ own' = IF op.kind = "Press" THEN [own EXCEPT !.held = call.previous] ELSE own
             /\ os' = os
    <3> USE <2>2
    <3>1. own'.held \in {call.previous, own.held} BY DEF Shaped
    <3> QED BY <3>1
  <2>3. CASE own' = own /\ os' \in {os, Effect(os, op)}
    <3>1. Effect(os, op) \subseteq own.held
      BY DEF Effect, TrackBefore
    <3> QED BY <2>3, <3>1
  <2> QED BY <2>1, <2>2, <2>3 DEF Submit
<1>6. Tracked' BY <1>5 DEF Tracked, HeldCoversNative
<1>7. Released' BY DEF Released
<1>8. Spent'
  <2>1. late = 0 BY DEF Spent
  <2>2. late' = 0 \/ (late' = 1 /\ Lost)
    BY <2>1, SMTT(30) DEF Submit
  <2>3. Lost => Lost' BY <1>2 DEF Lost
  <2> QED BY <2>2, <2>3 DEF Spent
<1> QED BY <1>6, <1>7, <1>8

\* A reconciliation's native release.
LEMMA ReleaseStep ==
    ASSUME IInv, Release
    PROVE  IInv'
<1> USE DEF IInv
<1> DEFINE op == Head(call.plan)
           done == [call EXCEPT !.plan = Tail(@), !.pc = "recheck", !.submitted = @ + 1]
<1>0. /\ call.pc = "release" /\ auth' = auth /\ now' = now /\ control' = control
      /\ late' = late
  BY DEF Release
<1> USE <1>0
<1>1. \/ own'.held = own.held \ {op.input} /\ os' = os \ {op.input} /\ "held" \in DOMAIN own'
      \/ own' = own /\ os' \in {os, os \ {op.input}}
  BY DEF Release, Shaped
<1>2. call' = IdleCall \/ call' = done BY DEF Release, Applied, Abandon
<1>3. revoked => revoked' BY DEF Release, Abandon, RevokeOwner
<1>4. "held" \in DOMAIN own' /\ own'.held \subseteq own.held /\ os' \subseteq own'.held
  BY <1>1 DEF Shaped, Tracked, HeldCoversNative
<1> USE <1>4
<1>5. Shaped' /\ Timely' /\ call'.pc \in {"idle", "recheck"}
  <2>1. CASE call' = IdleCall BY <2>1, IdleShaped
  <2>2. CASE call' = done BY <2>2 DEF Shaped, Timely
  <2> QED BY <1>2, <2>1, <2>2
<1> USE <1>5
<1>6. Tracked' BY DEF Tracked, HeldCoversNative
<1>7. Released' BY DEF Released
<1>8. Spent' BY <1>3 DEF Spent, Lost
<1> QED BY <1>6, <1>7, <1>8

\* The release loop of maintain and cleanup.
LEMMA ReleaseHeldStep ==
    ASSUME IInv, ReleaseHeld
    PROVE  IInv'
<1> USE DEF IInv
<1>0. /\ call.pc = "releasing" /\ auth' = auth /\ now' = now /\ control' = control
      /\ late' = late /\ revoked' = revoked
  BY DEF ReleaseHeld
<1> USE <1>0
<1>1. PICK freed \in SUBSET own.held : \E unknown \in SUBSET (own.held \ freed) :
        /\ own' = [own EXCEPT !.held = @ \ freed]
        /\ os' = os \ (freed \cup unknown)
        /\ call' = IF Confirms(own.held \ freed, call.confirm)
                   THEN Begin("confirm", None) ELSE IdleCall
  BY DEF ReleaseHeld
<1> USE <1>1
<1>2. own'.held = own.held \ freed /\ "held" \in DOMAIN own' BY DEF Shaped
<1> USE <1>2
<1>3. os' \subseteq own'.held /\ own'.held \subseteq own.held
  BY DEF Tracked, HeldCoversNative
<1>4. \/ call' = Begin("confirm", None) /\ own'.held = {}
      \/ call' = IdleCall
  BY DEF Confirms
<1>5. /\ Shaped' /\ Timely' /\ call'.pc \in {"idle", "confirm"}
      /\ call'.pc = "confirm" => own'.held = {}
  <2>0. 0 \in Time BY BoundsAssumption, SMTT(30) DEF Time
  <2>1. CASE call' = IdleCall BY <2>1, IdleShaped
  <2>2. CASE call' = Begin("confirm", None) /\ own'.held = {}
    BY <2>0, <2>2 DEF Shaped, Timely, Begin, IdleCall
  <2> QED BY <1>4, <2>1, <2>2
<1> USE <1>5
<1>6. Tracked' BY <1>3 DEF Tracked, HeldCoversNative
<1>7. Released' BY <1>3 DEF Released
<1>8. Spent' BY DEF Spent, Lost
<1> QED BY <1>6, <1>7, <1>8

\* The lock that confirms a suspension's release.
LEMMA ConfirmStep ==
    ASSUME IInv, Confirm
    PROVE  IInv'
<1> USE DEF IInv
<1>0. /\ call.pc = "confirm" /\ own' = own /\ os' = os /\ late' = late
      /\ revoked' = revoked /\ now' = now /\ control' = control /\ call' = IdleCall
  BY DEF Confirm
<1> USE <1>0
<1>1. auth' = auth \/ auth' = ConfirmSuspensionRelease(auth, LeaseId) BY DEF Confirm
<1>2. Sound(auth') BY <1>1, ConfirmSuspensionReleaseStep, CredentialsAssumption
<1>3. auth \in SessionAuthorityType BY DEF Sound, Settled
<1>4. auth'.native_owner = auth.native_owner
  BY <1>1, <1>3 DEF ConfirmSuspensionRelease, SessionAuthorityType
<1>5. own.held = {} BY DEF Tracked
<1>6. Shaped' /\ Timely' /\ call'.pc = "idle" BY IdleShaped DEF Shaped
<1> USE <1>6
<1>7. Tracked' BY DEF Tracked, HeldCoversNative
<1>8. Released' BY <1>5 DEF Released
<1>9. Spent' BY <1>4 DEF Spent, Lost
<1> QED BY <1>2, <1>7, <1>8, <1>9

-----------------------------------------------------------------------------
(* The specification.                                                      *)

\* Every step keeps the invariant.
LEMMA NextStep ==
    ASSUME IInv, [Next]_vars
    PROVE  IInv'
<1>1. CASE UNCHANGED vars
  <2>1. UNCHANGED <<auth, revoked, own, call, control, now, os, late>>
    BY <1>1 DEF vars
  <2> QED BY <2>1 DEF IInv, Shaped, Timely, Tracked, Released, Spent, Lost,
                      HeldCoversNative
<1>2. CASE Dispatch BY <1>2, StartSteps DEF Dispatch
<1>3. CASE OwnerStep
  BY <1>3, CheckViewStep, AuthorizeStep, ChangeModeStep, SubmitStep, RecheckStep,
     ReleaseStep, ReleaseHeldStep, ConfirmStep DEF OwnerStep
<1>4. CASE Cleanup \/ Maintain BY <1>4, StartSteps, MaintainStep
<1>5. CASE \E sequence \in Snapshots, next_action \in SequenceNumbers,
              keep \in SUBSET {"key", "button"} : Reconcile(sequence, next_action, keep)
  BY <1>5, StartSteps
<1>6. CASE \E ticket \in TicketIds :
              \/ \E presented \in BOOLEAN : IssueTicket(ticket, presented)
              \/ Regrant(ticket)
  BY <1>6, CredentialSteps, RegrantKeeps
<1>7. CASE \/ TakeControlLease \/ DropControl
           \/ \E next \in {"ready", "challenge", "respond"} : ControlDeadline(next)
           \/ \E nonce \in Nonces : OwnerRenews(nonce) \/ ControlRenews(nonce)
  BY <1>7, ControlSteps, CredentialSteps
<1>8. CASE Tick \/ WatchdogStatus \/ Revoke \/ MediaStep
  BY <1>8, WatchStep, MediaStepKeeps
<1> QED BY <1>1, <1>2, <1>3, <1>4, <1>5, <1>6, <1>7, <1>8 DEF Next

\* The invariant holds of every behaviour.
THEOREM OwnerSound == Spec => []IInv
<1>1. Init => IInv BY InitIInv
<1>2. IInv /\ [Next]_vars => IInv' BY NextStep
<1> QED BY <1>1, <1>2, PTL DEF Spec

\* Whatever this owner has down in the operating system it tracks for release,
\* whatever native calls return and whoever revokes it (Attempt::one, track).
THEOREM HeldInputTracked == Spec => []HeldCoversNative
<1>1. IInv => HeldCoversNative BY DEF IInv, Tracked
<1> QED BY <1>1, OwnerSound, PTL

\* A suspension counts as released only while nothing is held, so no key
\* crosses a frozen view into revived input (maintain,
\* confirm_suspension_release).
THEOREM ReleaseIsComplete == Spec => []ReleasedSuspensionHoldsNothing
<1>1. IInv => ReleasedSuspensionHoldsNothing
  BY DEF IInv, Released, Tracked, HeldCoversNative, ReleasedSuspensionHoldsNothing, Mine
<1> QED BY <1>1, OwnerSound, PTL

\* After revocation or the loss of the grant at most the native call already
\* authorized takes effect (check, RevokeHandle, InputMonitor::with).
THEOREM RevocationStopsInput == Spec => []AtMostOneLateEffect
<1>1. IInv => AtMostOneLateEffect BY SMTT(30) DEF IInv, Spent, AtMostOneLateEffect
<1> QED BY <1>1, OwnerSound, PTL

\* Media evidence, recovery and removal never move a lease's deadline.
LEMMA MediaKeepsDeadline ==
    ASSUME NEW a, Sound(a), NEW at \in Time, NEW until, NEW generation,
           NEW b \in {MarkViewStale(a), MarkViewReadyUntil(a, None, until, at),
                      AdvanceRecovery(a, generation), RevokeLease(a), Close(a)},
           a.lease # None, b.lease # None
    PROVE  b.lease.authorized_until = a.lease.authorized_until
<1>0. a \in SessionAuthorityType /\ Settled(a) BY DEF Sound, Settled
<1> USE <1>0
<1>1. CASE b = MarkViewStale(a) BY <1>1, StaleCarries DEF Carried
<1>2. CASE b = MarkViewReadyUntil(a, None, until, at)
  <2> DEFINE d == [a EXCEPT !.presented_sequence = None]
             c == CheckTime(d, at)
  <2>1. Sound(d) /\ Carried(a, d) BY UnpresentedSound
  <2> USE <2>1
  <2>2. Sound(c) BY CheckTimeSound
  <2>3. c \in SessionAuthorityType BY <2>2 DEF Sound, Settled
  <2>4. b.lease = c.lease BY <1>2, <2>3 DEF MarkViewReadyUntil, SessionAuthorityType
  <2> HIDE DEF d
  <2>5. c.lease # None => c.phase # "Closed"
    BY <2>2 DEF Sound, Settled, Staged, Observing, HoldsNothing
  <2>6. Carried(d, c) BY <2>4, <2>5, LiveAfterCheck
  <2> HIDE DEF c
  <2> QED BY <2>4, <2>6 DEF Carried
<1>3. CASE b = AdvanceRecovery(a, generation)
  <2>1. b.lease \in {a.lease, WithoutTickets(a.lease)}
    BY <1>3 DEF AdvanceRecovery, SessionAuthorityType
  <2>2. a.lease \in Option(Lease) BY DEF SessionAuthorityType
  <2> QED BY <2>1, <2>2, WithoutTicketsFacts
<1>4. CASE b = RevokeLease(a)
  BY <1>4 DEF RevokeLease, SessionAuthorityType
<1>5. CASE b = Close(a)
  BY <1>5 DEF Close, ClearAuthority, SessionAuthorityType
<1> QED BY <1>1, <1>2, <1>3, <1>4, <1>5

\* A revoked owner's lease is never renewed: every renewal enters the lock
\* with the flag read again (InputMonitor::with, ControlLease).
THEOREM RevokedStaysUnrenewed == Spec => RevokedNeverRenewed
<1> DEFINE kept == auth'.lease.authorized_until = auth.lease.authorized_until
<1>1. ASSUME IInv, [Next]_vars, revoked, Mine(auth), Mine(auth')
      PROVE  kept
  <2> USE <1>1
  <2>0. auth.lease # None /\ auth'.lease # None /\ Sound(auth)
    BY DEF Mine, LeaseIs, IInv
  <2>1. CASE MediaStep
    <3>1. now \in Time /\ SerializedTime(auth, now) \in Time
      BY SerializedTyped DEF IInv, Timely
    <3> QED BY SMTT(30), <2>0, <2>1, <3>1, MediaKeepsDeadline DEF MediaStep
  <2>2. CASE Dispatch \/ OwnerStep \/ UNCHANGED vars
    <3>1. CASE Dispatch \/ UNCHANGED vars
      <4>1. ASSUME NEW request, DispatchPointer(request) \/ DispatchReliable(request)
            PROVE  auth' = auth
        BY <4>1 DEF DispatchPointer, DispatchReliable
      <4>2. auth' = auth BY <3>1, <4>1 DEF vars, Dispatch
      <4> QED BY <4>2
    <3>2. CASE Authorize BY <3>2 DEF Authorize, Enters
    <3>3. CASE ChangeMode BY <3>3 DEF ChangeMode, Enters
    <3>4. CASE Recheck BY <3>4 DEF Recheck, Enters
    <3>5. CASE CheckView \/ Submit \/ Release \/ ReleaseHeld \/ Confirm
      BY <3>5 DEF CheckView, Submit, Release, ReleaseHeld, Confirm, Enters
    <3> QED BY <2>2, <3>1, <3>2, <3>3, <3>4, <3>5 DEF OwnerStep
  <2>3. CASE \/ Cleanup \/ Maintain \/ Tick \/ WatchdogStatus \/ Revoke
             \/ TakeControlLease \/ DropControl
             \/ \E next \in {"ready", "challenge", "respond"} : ControlDeadline(next)
             \/ \E nonce \in Nonces : OwnerRenews(nonce) \/ ControlRenews(nonce)
    <3>1. auth' = auth
      BY <2>3 DEF Cleanup, Maintain, Tick, WatchdogStatus, Revoke, TakeControlLease,
         DropControl, ControlDeadline, OwnerRenews, ControlRenews, Enters
    <3> QED BY <3>1
  <2>4. CASE \/ \E sequence \in Snapshots, next_action \in SequenceNumbers,
                   keep \in SUBSET {"key", "button"} : Reconcile(sequence, next_action, keep)
             \/ \E ticket \in TicketIds :
                   \/ \E presented \in BOOLEAN : IssueTicket(ticket, presented)
                   \/ Regrant(ticket)
    <3>1. auth' = auth
      BY <2>0, <2>4 DEF Reconcile, IssueTicket, Regrant, Enters
    <3> QED BY <3>1
  <2> QED BY <2>1, <2>2, <2>3, <2>4 DEF Next
<1>2. IInv /\ [Next]_vars =>
        [revoked /\ Mine(auth) /\ Mine(auth') => kept]_vars
  BY <1>1
<1> QED BY <1>2, OwnerSound, PTL DEF Spec, RevokedNeverRenewed

-----------------------------------------------------------------------------
(* Receipts: what is recorded, and what the client is told.                *)

OwnType == [view : Generations, held : SUBSET Inputs, mode : {"Absolute", "Relative"},
            mode_epoch : 0..MaxEpoch, pointer_floor : Option(0..MaxPointer),
            snapshot_floor : Option(Snapshots)]
CallType == [pc : Pcs, request : Option(Requests), entered : BOOLEAN, plan : Seq(Operations),
             sample : Time, previous : SUBSET Inputs, submitted : Nat, effects : Nat,
             planned : Nat, keep : SUBSET {"key", "button"}, confirm : BOOLEAN]

Acting == {"view", "authorize", "mode", "submit"}
Reconciling == {"recheck", "release"}

\* Both rings are written together, for the action that is pending.
Ringed ==
    /\ ledger \in LedgerType /\ ledger.lease = LeaseId
    /\ results.ring = [s \in ReceiptSlots |-> results.ring[s]]
    /\ RingsAgree

\* An action under way is the pending one and has been told nobody; what it has
\* submitted and what is left of its plan make up the plan.
Counted ==
    call.pc \in Acting =>
        /\ told = None
        /\ call.request \in Requests
        /\ ~ IsPointer(call.request) => ledger.pending = call.request.sequence
        /\ call.submitted = call.effects
        /\ IF call.entered
           THEN call.plan # <<>> /\ call.planned = call.submitted + Len(call.plan)
           ELSE call.submitted = 0
        /\ call.pc = "submit" => call.entered
        /\ call.pc = "mode" => ~ call.entered

\* What is held outside a snapshot is still in the plan of its reconciliation.
Planned(held, keep, plan) ==
    \A i \in {"key", "button"} :
        i \in held => i \in keep \/ \E k \in 1..Len(plan) : plan[k].input = i

Reconciled ==
    call.pc \in Reconciling =>
        /\ told = None
        /\ Planned(own.held, call.keep, call.plan)
        /\ call.pc = "release" => call.plan # <<>>

Accounted ==
    /\ own \in OwnType /\ call \in CallType
    /\ Ringed /\ Counted /\ Reconciled /\ ReceiptIsTrue

\* Every plan is made of operations, and none but a mode change is empty.
LEMMA PlanTyped ==
    ASSUME NEW event \in AllEvents
    PROVE  /\ Plan(event) \in Seq(Operations) /\ Len(Plan(event)) \in Nat
           /\ event \notin ModeEvents => Plan(event) # <<>>
<1> USE DEF AllEvents, KeyEvents, PositionEvents, ButtonEvents, ModeEvents
<1>1. /\ \A k \in {"Absolute", "Relative", "Scroll", "Text"} : Op(k, "none") \in Operations
      /\ \A k \in {"Press", "Release", "Repeat"}, i \in Inputs : Op(k, i) \in Operations
  BY SMTT(30) DEF Operations
<1>2. /\ Op("Absolute", "none") \in Operations /\ Op("Relative", "none") \in Operations
      /\ Op("Scroll", "none") \in Operations /\ Op("Text", "none") \in Operations
      /\ Op("Press", "key") \in Operations /\ Op("Release", "key") \in Operations
      /\ Op("Repeat", "key") \in Operations
      /\ Op("Press", "button") \in Operations /\ Op("Release", "button") \in Operations
      /\ Op("Press", "wheel") \in Operations /\ Op("Release", "wheel") \in Operations
  BY <1>1 DEF Inputs
<1> USE <1>2
<1>3. /\ \A x \in Operations : <<x>> \in Seq(Operations) /\ <<x>> # <<>>
      /\ \A x, y \in Operations : <<x, y>> \in Seq(Operations) /\ <<x, y>> # <<>>
      /\ \A x, y, z \in Operations : <<x, y, z>> \in Seq(Operations) /\ <<x, y, z>> # <<>>
      /\ <<>> \in Seq(Operations)
  BY SMTT(30)
<1> USE <1>3
<1>4. Plan(event) \in Seq(Operations) /\ (event \notin ModeEvents => Plan(event) # <<>>)
  <2>1. CASE event \in KeyEvents
    BY <2>1 DEF Plan
  <2>2. CASE event \in PositionEvents
    BY <2>2 DEF Plan
  <2>3. CASE event \in ModeEvents \cup {"Pointer", "Text", "Relative"}
    BY <2>3 DEF Plan
  <2> QED BY <2>1, <2>2, <2>3
<1> QED BY <1>4, SMTT(30)

\* The first operation of a plan, and the rest.
LEMMA PlanParts ==
    ASSUME NEW plan \in Seq(Operations), plan # <<>>
    PROVE  /\ Head(plan) \in Operations /\ Tail(plan) \in Seq(Operations)
           /\ Len(plan) \in Nat /\ Len(plan) > 0 /\ Len(Tail(plan)) = Len(plan) - 1
           /\ (Tail(plan) = <<>>) <=> (Len(plan) = 1)
           /\ Head(plan) = plan[1]
           /\ \A k \in 2..Len(plan) : Tail(plan)[k - 1] = plan[k]
<1>1. Len(plan) \in Nat /\ Len(plan) > 0 BY SMTT(30)
<1> USE <1>1
<1>2. /\ Head(plan) \in Operations /\ Head(plan) = plan[1]
      /\ Tail(plan) \in Seq(Operations) /\ Len(Tail(plan)) = Len(plan) - 1
  BY SMTT(30)
<1>3. (Tail(plan) = <<>>) <=> (Len(plan) = 1)
  BY <1>2, SMTT(30)
<1>4. \A k \in 2..Len(plan) : Tail(plan)[k - 1] = plan[k]
  BY SMTT(30)
<1> QED BY <1>2, <1>3, <1>4

\* A press or release names an input.
LEMMA OperationInput ==
    ASSUME NEW op \in Operations, op.kind \in {"Press", "Release"}
    PROVE  op.input \in Inputs
  BY SMTT(30) DEF Operations, Op

-----------------------------------------------------------------------------
(* The ledger's operators.                                                 *)

LEMMA AdmitTyped ==
    ASSUME NEW l \in LedgerType, NEW lease, NEW sequence \in SequenceNumbers
    PROVE  LET b == Admit(l, lease, sequence)
           IN /\ b \in LedgerType /\ b.lease = l.lease /\ b.receipts = l.receipts
              /\ b.receipt_cursor = l.receipt_cursor
              /\ Admission(l, lease, sequence) = "Admitted" => b.pending = sequence
<1>1. CASE Admission(l, lease, sequence) = "Admitted"
  <2>1. Successor(sequence) \in SequenceNumbers \cup {None}
    BY CapacityAssumption, SMTT(30) DEF Successor, SequenceNumbers
  <2>2. Admit(l, lease, sequence) =
          [l EXCEPT !.next_sequence = Successor(sequence), !.pending = sequence]
    BY <1>1 DEF Admit
  <2> QED BY <2>1, <2>2 DEF LedgerType
<1>2. CASE Admission(l, lease, sequence) # "Admitted"
  <2> USE <1>2
  <2>1. Admit(l, lease, sequence) \in {l, [l EXCEPT !.fenced = TRUE]}
    BY DEF Admit
  <2> QED BY <2>1 DEF LedgerType
<1> QED BY <1>1, <1>2

LEMMA FenceTyped ==
    ASSUME NEW l \in LedgerType
    PROVE  /\ Fence(l) \in LedgerType /\ Fence(l).lease = l.lease
           /\ Fence(l).receipts = l.receipts /\ Fence(l).receipt_cursor = l.receipt_cursor
           /\ Fence(l).pending = l.pending
  BY DEF Fence, LedgerType

\* b is l with one receipt more.
OneMore(l, b, sequence, outcome) ==
    /\ b \in LedgerType /\ b.lease = l.lease
    /\ b.receipts = [l.receipts EXCEPT ![l.receipt_cursor] =
                       [sequence |-> sequence, outcome |-> outcome]]
    /\ b.receipt_cursor = (l.receipt_cursor + 1) % ReceiptCapacity

LEMMA RecordTyped ==
    ASSUME NEW l \in LedgerType, NEW sequence, l.pending = sequence,
           NEW outcome \in InputOutcomes
    PROVE  OneMore(l, RecordOutcome(l, l.lease, sequence, outcome), sequence, outcome)
<1> DEFINE receipts == [l.receipts EXCEPT ![l.receipt_cursor] =
                          [sequence |-> sequence, outcome |-> outcome]]
           cursor == (l.receipt_cursor + 1) % ReceiptCapacity
           fenced == l.fenced \/ outcome \notin Successes
<1>1. [sequence |-> sequence, outcome |-> outcome] \in Receipts BY DEF LedgerType, Receipts
<1>2. receipts \in [ReceiptSlots -> Receipts] BY <1>1 DEF LedgerType
<1>3. cursor \in ReceiptSlots BY CapacityAssumption, SMTT(30) DEF LedgerType, ReceiptSlots
<1>4. fenced \in BOOLEAN BY DEF LedgerType
<1>5. RecordOutcome(l, l.lease, sequence, outcome) =
        [l EXCEPT !.pending = None, !.receipts = receipts, !.receipt_cursor = cursor,
                  !.fenced = fenced]
  BY DEF RecordOutcome
<1> HIDE DEF receipts, cursor, fenced
<1>6. RecordOutcome(l, l.lease, sequence, outcome) \in LedgerType
  BY <1>2, <1>3, <1>4, <1>5 DEF LedgerType
<1> QED BY <1>5, <1>6 DEF OneMore, LedgerType, receipts, cursor

-----------------------------------------------------------------------------
(* Steps that record nothing, and the one that does.                       *)

\* What an attempt must have counted when it ends as `refusal`.
Truthful(c, refusal) ==
    /\ c.submitted \in Nat /\ c.effects \in Nat /\ c.planned \in Nat
    /\ c.submitted <= c.effects
    /\ refusal # "Unknown" => c.submitted = c.effects
    /\ refusal = "none" => c.submitted \in {0, c.planned}
    /\ refusal \notin {"none", "Unknown"} => c.submitted = 0 \/ c.submitted < c.planned

\* An idle call, and the calls that start.
LEMMA CallsTyped ==
    /\ IdleCall \in CallType /\ IdleCall.pc = "idle"
    /\ \A pc \in Pcs, request \in Option(Requests) :
          /\ Begin(pc, request) \in CallType /\ Begin(pc, request).pc = pc
          /\ Begin(pc, request).request = request /\ ~ Begin(pc, request).entered
          /\ Begin(pc, request).submitted = 0 /\ Begin(pc, request).effects = 0
    /\ \A confirm \in BOOLEAN : /\ StartRelease(confirm) \in CallType
                                /\ StartRelease(confirm).pc = "releasing"
<1>1. 0 \in Time /\ None \in Option(Requests) /\ <<>> \in Seq(Operations)
  BY BoundsAssumption, SMTT(30) DEF Time, Option
<1> USE <1>1
<1>2. IdleCall \in CallType /\ IdleCall.pc = "idle"
  BY DEF IdleCall, CallType, Pcs
<1>3. ASSUME NEW pc \in Pcs, NEW request \in Option(Requests)
      PROVE  /\ Begin(pc, request) \in CallType /\ Begin(pc, request).pc = pc
             /\ Begin(pc, request).request = request /\ ~ Begin(pc, request).entered
             /\ Begin(pc, request).submitted = 0 /\ Begin(pc, request).effects = 0
  BY DEF Begin, IdleCall, CallType
<1>4. ASSUME NEW confirm \in BOOLEAN
      PROVE  StartRelease(confirm) \in CallType /\ StartRelease(confirm).pc = "releasing"
  <2>1. Begin("releasing", None) \in CallType /\ Begin("releasing", None).pc = "releasing"
    BY <1>3 DEF Pcs
  <2> QED BY <2>1 DEF StartRelease, CallType
<1> QED BY <1>2, <1>3, <1>4

\* A step that leaves the owner's books alone, and can only lift input.
LEMMA AccountFrame ==
    ASSUME Accounted, UNCHANGED <<ledger, results, own, call, told>>, os' \subseteq os
    PROVE  Accounted'
<1>1. Ringed' BY DEF Accounted, Ringed, RingsAgree
<1>2. Counted' /\ Reconciled' BY DEF Accounted, Counted, Reconciled
<1>3. ReceiptIsTrue' BY DEF Accounted, ReceiptIsTrue
<1> QED BY <1>1, <1>2, <1>3 DEF Accounted

\* A step into a call that is neither an action nor a reconciliation.
LEMMA AccountElsewhere ==
    ASSUME Accounted, own' \in OwnType, call' \in CallType,
           call'.pc \notin Acting \cup Reconciling, results' = results,
           ledger' \in {ledger, Fence(ledger)}, told' \in {told, None}, os' \subseteq os
    PROVE  Accounted'
<1>1. Ringed'
  <2>1. ledger' \in LedgerType /\ ledger'.lease = ledger.lease
        /\ ledger'.receipts = ledger.receipts
        /\ ledger'.receipt_cursor = ledger.receipt_cursor
    BY FenceTyped DEF Accounted, Ringed
  <2> QED BY <2>1 DEF Accounted, Ringed, RingsAgree
<1>2. Counted' /\ Reconciled' BY DEF Counted, Reconciled
<1>3. ReceiptIsTrue' BY DEF Accounted, ReceiptIsTrue
<1> QED BY <1>1, <1>2, <1>3 DEF Accounted

\* Attempt::finish records the pending action in both rings and tells the truth.
LEMMA ConcludeAccounts ==
    ASSUME Ringed, own' \in OwnType, NEW c, NEW refusal, Truthful(c, refusal),
           ~ IsPointer(c.request) => ledger.pending = c.request.sequence,
           Conclude(c, refusal)
    PROVE  Accounted'
<1> DEFINE outcome == OutcomeOf(c, refusal)
           recorded == IF IsPointer(c.request) THEN ledger
                       ELSE RecordOutcome(ledger, LeaseId, c.request.sequence, outcome)
<1>0. outcome \in InputOutcomes BY DEF OutcomeOf, InputOutcomes, Successes
<1>1. /\ call' = IdleCall
      /\ told' = [outcome |-> outcome, submitted |-> c.submitted,
                  effects |-> c.effects, planned |-> c.planned, keep |-> {}]
      /\ results' = Retain(results, c.request, outcome, c.submitted)
      /\ ledger' = IF outcome \in Successes THEN recorded ELSE Fence(recorded)
  BY DEF Conclude
<1> USE <1>1
<1>2. call' \in CallType /\ Counted' /\ Reconciled'
  BY CallsTyped DEF Counted, Reconciled, Acting, Reconciling
<1>3. ReceiptIsTrue'
  <2>1. /\ told'.outcome = outcome /\ told'.submitted = c.submitted
        /\ told'.effects = c.effects /\ told'.planned = c.planned
    OBVIOUS
  <2> USE <2>1
  <2>2. outcome # "Applied" BY <1>0 DEF InputOutcomes, Successes
  <2>3. CASE refusal = "Unknown"
    <3>1. outcome = "EffectUnknown" BY <2>3 DEF OutcomeOf
    <3> QED BY <3>1 DEF ReceiptIsTrue, Truthful
  <2>4. CASE refusal = "none"
    <3> USE <2>4
    <3>1. outcome = IF c.submitted = 0 THEN "AppliedLocally" ELSE "SubmittedToOs"
      BY DEF OutcomeOf
    <3>2. /\ c.submitted \in Nat /\ c.effects = c.submitted /\ c.planned \in Nat
          /\ c.submitted \in {0, c.planned}
      BY DEF Truthful
    <3> USE <3>2
    <3> HIDE DEF outcome, recorded
    <3>3. CASE c.submitted = 0
      <4> USE <3>3
      <4>1. outcome = "AppliedLocally" BY <3>1
      <4> QED BY <4>1, SMTT(30) DEF ReceiptIsTrue
    <3>4. CASE c.submitted # 0
      <4>1. outcome = "SubmittedToOs" /\ c.submitted = c.planned /\ c.planned > 0
        BY <3>1, <3>4, SMTT(30)
      <4> QED BY <4>1, SMTT(30) DEF ReceiptIsTrue
    <3> QED BY <3>3, <3>4
  <2>5. CASE refusal \notin {"none", "Unknown"} /\ c.submitted > 0
    <3> USE <2>5
    <3>1. outcome = "PartiallySubmittedToOs" BY SMTT(30) DEF OutcomeOf, Truthful
    <3>2. c.submitted < c.planned /\ c.submitted = c.effects
          /\ c.effects \in 1..(c.planned - 1)
      BY SMTT(30) DEF Truthful
    <3> HIDE DEF outcome
    <3> QED BY <3>1, <3>2 DEF ReceiptIsTrue, Truthful
  <2>6. CASE refusal \notin {"none", "Unknown"} /\ ~ (c.submitted > 0)
    <3> USE <2>6
    <3>1. c.submitted = 0 /\ c.effects = 0 BY SMTT(30) DEF Truthful
    <3>2. outcome \in {"ExpiredBeforeSubmission", "CancelledBeforeSubmission",
                       "RejectedBeforeSubmission"}
      BY <3>1 DEF OutcomeOf
    <3> HIDE DEF outcome
    <3> QED BY <3>1, <3>2, SMTT(30) DEF ReceiptIsTrue
  <2> QED BY <2>3, <2>4, <2>5, <2>6
<1> HIDE DEF outcome
<1>4. Ringed'
  <2>1. CASE IsPointer(c.request)
    <3>1. results' = results /\ ledger' \in {ledger, Fence(ledger)}
      BY <2>1 DEF Retain
    <3>2. ledger' \in LedgerType /\ ledger'.lease = ledger.lease
          /\ ledger'.receipts = ledger.receipts
          /\ ledger'.receipt_cursor = ledger.receipt_cursor
      <4>1. ledger \in LedgerType BY DEF Ringed
      <4> QED BY <3>1, <4>1, FenceTyped
    <3>3. RingsAgree' BY <3>1, <3>2 DEF Ringed, RingsAgree
    <3> QED BY <3>1, <3>2, <3>3 DEF Ringed
  <2>2. CASE ~ IsPointer(c.request)
    <3> USE <2>2
    <3> DEFINE receipt == [sequence |-> c.request.sequence, outcome |-> outcome]
               result == [sequence |-> c.request.sequence, outcome |-> outcome,
                          submitted |-> c.submitted]
    <3>1. /\ recorded \in LedgerType /\ recorded.lease = LeaseId
          /\ recorded.receipts = [ledger.receipts EXCEPT ![ledger.receipt_cursor] = receipt]
          /\ recorded.receipt_cursor = (ledger.receipt_cursor + 1) % ReceiptCapacity
      <4>1. ledger \in LedgerType /\ ledger.lease = LeaseId BY DEF Ringed
      <4> USE <4>1
      <4>2. recorded = RecordOutcome(ledger, ledger.lease, c.request.sequence, outcome)
        OBVIOUS
      <4>3. ledger.pending = c.request.sequence OBVIOUS
      <4>4. OneMore(ledger, recorded, c.request.sequence, outcome)
        BY <1>0, <4>2, <4>3, RecordTyped
      <4> QED BY <4>4 DEF OneMore
    <3> USE <3>1
    <3> HIDE DEF recorded
    <3>2. /\ ledger' \in LedgerType /\ ledger'.lease = LeaseId
          /\ ledger'.receipts = recorded.receipts
          /\ ledger'.receipt_cursor = recorded.receipt_cursor
      BY FenceTyped
    <3> USE <3>2
    <3>3. /\ results'.ring = [results.ring EXCEPT ![results.cursor] = result]
          /\ results'.cursor = (results.cursor + 1) % ReceiptCapacity
      BY DEF Retain
    <3> USE <3>3
    <3>4. /\ receipt.sequence = result.sequence /\ receipt.outcome = result.outcome OBVIOUS
    <3> HIDE DEF receipt, result
    <3>5. ledger.receipts = [s \in ReceiptSlots |-> ledger.receipts[s]]
      BY DEF Ringed, LedgerType
    <3>6. \A s \in ReceiptSlots :
            /\ ledger'.receipts[s] = IF s = ledger.receipt_cursor THEN receipt
                                     ELSE ledger.receipts[s]
            /\ results'.ring[s] = IF s = ledger.receipt_cursor THEN result
                                  ELSE results.ring[s]
      BY <3>5 DEF Ringed, RingsAgree
    <3>7. results'.ring = [s \in ReceiptSlots |-> results'.ring[s]]
      BY DEF Ringed
    <3>8. RingsAgree'
      BY <3>4, <3>6, SMTT(30) DEF Ringed, RingsAgree
    <3> QED BY <3>7, <3>8 DEF Ringed
  <2> QED BY <2>1, <2>2
<1> QED BY <1>2, <1>3, <1>4 DEF Accounted

-----------------------------------------------------------------------------
(* Actions, step by step.                                                  *)

\* The newest view is a generation.
LEMMA FollowTyped ==
    ASSUME Sound(auth), NEW view \in Generations
    PROVE  FollowRecovery(view, auth) \in Generations
<1>1. auth.recovery = None \/ auth.recovery \in Generations
  BY DEF Sound, Settled, SessionAuthorityType, Option
<1>2. 0 \in Generations BY BoundsAssumption, SMTT(30) DEF Generations
<1> QED BY <1>1, <1>2 DEF FollowRecovery, Recovered

\* dispatch: an action begins with nothing submitted, and a reliable one is pending.
LEMMA DispatchAccounts ==
    ASSUME Accounted, Dispatch
    PROVE  Accounted'
<1>0. PICK event \in Events, ticket \in TicketIds, view \in Generations :
        \E sequence \in Sequenced(event) :
          LET request == [event |-> event, ticket |-> ticket, view |-> view,
                          sequence |-> sequence]
          IN DispatchPointer(request) \/ DispatchReliable(request)
  BY DEF Dispatch
<1>1. PICK sequence \in Sequenced(event) :
        LET request == [event |-> event, ticket |-> ticket, view |-> view,
                        sequence |-> sequence]
        IN DispatchPointer(request) \/ DispatchReliable(request)
  BY <1>0
<1> DEFINE request == [event |-> event, ticket |-> ticket, view |-> view,
                       sequence |-> sequence]
<1>2. sequence \in 0..MaxSequence + MaxPointer /\ event \in Events
  BY CapacityAssumption, SMTT(30) DEF Sequenced, SequenceNumbers
<1>3. /\ request \in Requests /\ request.sequence = sequence /\ request.event = event
      /\ request \in Option(Requests)
  BY <1>2 DEF Requests, Option
<1> USE <1>3
<1>4. /\ IsPointer(request) => request.sequence \in 0..MaxPointer
      /\ ~ IsPointer(request) => request.sequence \in SequenceNumbers
  BY DEF IsPointer, Sequenced
<1>5. DispatchPointer(request) \/ DispatchReliable(request) BY <1>1
<1> HIDE DEF request
<1>6. /\ Begin("view", request) \in CallType /\ Begin("view", request).pc = "view"
      /\ Begin("view", request).request = request /\ ~ Begin("view", request).entered
      /\ Begin("view", request).submitted = 0 /\ Begin("view", request).effects = 0
  BY CallsTyped DEF Pcs
<1> USE <1>6
<1>7. CASE DispatchPointer(request)
  <2>1. /\ own' = [own EXCEPT !.pointer_floor = request.sequence]
        /\ call' = Begin("view", request) /\ told' = None /\ IsPointer(request)
        /\ UNCHANGED <<ledger, results>>
    BY <1>7 DEF DispatchPointer
  <2> USE <2>1
  <2>2. own' \in OwnType BY <1>4 DEF Accounted, OwnType, Option
  <2>3. Counted' BY DEF Counted
  <2>4. Reconciled' BY DEF Reconciled, Reconciling
  <2>5. Ringed' BY DEF Accounted, Ringed, RingsAgree
  <2>6. ReceiptIsTrue' BY DEF ReceiptIsTrue
  <2> QED BY <2>2, <2>3, <2>4, <2>5, <2>6 DEF Accounted
<1>8. CASE DispatchReliable(request)
  <2> DEFINE admitted == Admit(ledger, LeaseId, request.sequence)
             admission == Admission(ledger, LeaseId, request.sequence)
  <2>1. /\ ledger' = admitted /\ own' = own /\ results' = results /\ told' = None
        /\ call' = IF admission = "Admitted" THEN Begin("view", request) ELSE call
        /\ ~ IsPointer(request) /\ call.pc = "idle"
    BY <1>8 DEF DispatchReliable
  <2> USE <2>1
  <2>2. /\ admitted \in LedgerType /\ admitted.lease = ledger.lease
        /\ admitted.receipts = ledger.receipts
        /\ admitted.receipt_cursor = ledger.receipt_cursor
        /\ admission = "Admitted" => admitted.pending = request.sequence
    BY <1>4, AdmitTyped, SMTT(30) DEF Accounted, Ringed
  <2> HIDE DEF admitted, admission
  <2>3. Ringed'
    <3>1. Ringed BY DEF Accounted
    <3>2. /\ ledger' \in LedgerType /\ ledger'.lease = ledger.lease
          /\ ledger'.receipts = ledger.receipts
          /\ ledger'.receipt_cursor = ledger.receipt_cursor /\ results' = results
      BY <2>2
    <3> QED BY <3>1, <3>2 DEF Ringed, RingsAgree
  <2>4. call' \in CallType BY DEF Accounted
  <2>5. Counted'
    <3>1. CASE admission = "Admitted" BY <2>2, <3>1 DEF Counted
    <3>2. CASE admission # "Admitted" BY <3>2 DEF Counted, Acting
    <3> QED BY <3>1, <3>2
  <2>6. Reconciled' BY DEF Reconciled, Reconciling
  <2>7. ReceiptIsTrue' BY DEF ReceiptIsTrue
  <2> QED BY <2>3, <2>4, <2>5, <2>6, <2>7 DEF Accounted
<1> QED BY <1>5, <1>7, <1>8

\* An attempt may end with any refusal before its next native call.
LEMMA BetweenOperations ==
    ASSUME Accounted, call.pc \in Acting,
           NEW refusal, refusal \notin {"none", "Unknown"}
    PROVE  Truthful(call, refusal)
<1>1. /\ call.submitted \in Nat /\ call.effects \in Nat /\ call.planned \in Nat
      /\ call.plan \in Seq(Operations)
  BY DEF Accounted, CallType
<1> USE <1>1
<1>2. call.submitted = call.effects /\ (call.submitted = 0 \/ call.submitted < call.planned)
  <2>1. CASE call.entered
    <3> USE <2>1
    <3>1. Len(call.plan) \in Nat /\ Len(call.plan) > 0
      BY PlanParts DEF Accounted, Counted
    <3> QED BY <3>1, SMTT(30) DEF Accounted, Counted
  <2>2. CASE ~ call.entered BY <2>2 DEF Accounted, Counted
  <2> QED BY <2>1, <2>2
<1> QED BY <1>2, SMTT(30) DEF Truthful

\* The first lock of check().
LEMMA CheckViewAccounts ==
    ASSUME IInv, Accounted, CheckView
    PROVE  Accounted'
<1>0. call.pc = "view" /\ call.pc \in Acting /\ os' = os /\ own \in OwnType
      /\ Ringed /\ (~ IsPointer(call.request) => ledger.pending = call.request.sequence)
  BY DEF CheckView, Acting, Accounted, Counted
<1> USE <1>0
<1> DEFINE view == FollowRecovery(own.view, auth)
<1>1. view \in Generations BY FollowTyped DEF IInv, OwnType
<1> HIDE DEF view
<1>2. [own EXCEPT !.view = view] \in OwnType BY <1>1 DEF OwnType
<1>3. own' \in OwnType BY <1>2 DEF CheckView, view
<1>4. CASE \E refusal \in {"Platform", "Revoked", "StaleView"} : Conclude(call, refusal)
  BY <1>3, <1>4, BetweenOperations, ConcludeAccounts
<1>5. CASE own'.held = own.held
           /\ Continue([call EXCEPT !.pc = "authorize", !.sample = now])
  <2>1. /\ call' = [call EXCEPT !.pc = "authorize", !.sample = now]
        /\ UNCHANGED <<told, results, ledger>>
    BY <1>5 DEF Continue
  <2> USE <2>1
  <2>2. now \in Time BY DEF IInv, Timely
  <2>3. call' \in CallType BY <2>2 DEF Accounted, CallType, Pcs
  <2>4. /\ call'.pc = "authorize" /\ call'.request = call.request
        /\ call'.entered = call.entered /\ call'.plan = call.plan
        /\ call'.submitted = call.submitted /\ call'.effects = call.effects
        /\ call'.planned = call.planned
    BY DEF Accounted, CallType
  <2>5. Counted' BY <2>4 DEF Accounted, Counted
  <2>6. Reconciled' BY <2>4 DEF Reconciled, Reconciling
  <2>7. Ringed' BY DEF Accounted, Ringed, RingsAgree
  <2>8. ReceiptIsTrue' BY DEF Accounted, ReceiptIsTrue
  <2> QED BY <1>3, <2>3, <2>5, <2>6, <2>7, <2>8 DEF Accounted
<1>6. own'.held = own.held BY DEF CheckView, OwnType
<1> QED BY <1>4, <1>5, <1>6 DEF CheckView

\* A call that goes on within its action, with its plan and its counts.
LEMMA ContinueAccounts ==
    ASSUME Accounted, call.pc \in Acting, own' \in OwnType, NEW c \in CallType,
           c.pc \in Acting, c.request = call.request, c.submitted = c.effects,
           IF c.entered THEN c.plan # <<>> /\ c.planned = c.submitted + Len(c.plan)
           ELSE c.submitted = 0,
           c.pc = "submit" => c.entered, c.pc = "mode" => ~ c.entered,
           Continue(c)
    PROVE  Accounted'
<1>1. call' = c /\ UNCHANGED <<told, results, ledger>> BY DEF Continue
<1> USE <1>1
<1>2. told = None /\ call.request \in Requests
      /\ (~ IsPointer(call.request) => ledger.pending = call.request.sequence)
  BY DEF Accounted, Counted
<1>3. Counted' BY <1>2 DEF Counted
<1>4. Reconciled' BY DEF Reconciled, Reconciling, Acting
<1>5. Ringed' BY DEF Accounted, Ringed, RingsAgree
<1>6. ReceiptIsTrue' BY <1>2 DEF ReceiptIsTrue
<1> QED BY <1>3, <1>4, <1>5, <1>6 DEF Accounted

\* The event's own checks, after the first authorization.
LEMMA ExecuteAccounts ==
    ASSUME Accounted, call.pc = "authorize", ~ call.entered,
           NEW epoch \in 0..MaxEpoch, NEW barrier \in 0..MaxPointer, NEW valid, NEW moves,
           Execute(epoch, barrier, valid, moves)
    PROVE  Accounted'
<1> DEFINE event == call.request.event
           floor == IF own.pointer_floor # None /\ own.pointer_floor > barrier
                    THEN own.pointer_floor ELSE barrier
           plan == Plan(event)
<1>0. /\ call.pc \in Acting /\ own \in OwnType /\ call \in CallType /\ Ringed
      /\ (~ IsPointer(call.request) => ledger.pending = call.request.sequence)
      /\ call.submitted = 0 /\ call.effects = 0
  BY DEF Acting, Accounted, Counted
<1> USE <1>0
<1>1. event \in AllEvents
  BY EventsAssumption DEF Accounted, Counted, Requests
<1>2. /\ plan \in Seq(Operations) /\ Len(plan) \in Nat
      /\ event \notin ModeEvents => plan # <<>>
  BY <1>1, PlanTyped
<1>3. floor \in Option(0..MaxPointer) BY DEF OwnType, Option
<1>4. CASE UNCHANGED own /\ (Conclude(call, "Refused") \/ Conclude(call, "none"))
  <2>1. Truthful(call, "Refused") BY BetweenOperations, SMTT(30)
  <2>2. Truthful(call, "none") BY SMTT(30) DEF Truthful, CallType
  <2> QED BY <1>4, <2>1, <2>2, ConcludeAccounts
<1>5. CASE /\ own' = [own EXCEPT
                         !.mode = IF event = "ModeRelative" THEN "Relative" ELSE "Absolute",
                         !.mode_epoch = epoch]
           /\ Continue([call EXCEPT !.pc = "mode"])
  <2> USE <1>5
  <2> DEFINE c == [call EXCEPT !.pc = "mode"]
  <2>1. /\ c \in CallType /\ c.pc = "mode" /\ c.request = call.request
        /\ c.submitted = 0 /\ c.effects = 0 /\ ~ c.entered
    BY DEF CallType, Pcs
  <2>2. own' \in OwnType BY DEF OwnType
  <2>3. Continue(c) OBVIOUS
  <2> HIDE DEF c
  <2> QED BY <2>1, <2>2, <2>3, ContinueAccounts DEF Acting
<1>6. CASE /\ event \notin ModeEvents
           /\ own' = IF event \in PositionEvents
                     THEN [own EXCEPT !.pointer_floor = floor] ELSE own
           /\ Continue([call EXCEPT !.pc = "view", !.entered = TRUE,
                                    !.plan = plan, !.planned = Len(plan)])
  <2> USE <1>6
  <2> DEFINE c == [call EXCEPT !.pc = "view", !.entered = TRUE,
                               !.plan = plan, !.planned = Len(plan)]
  <2> HIDE DEF plan, floor
  <2>1. /\ c \in CallType /\ c.pc = "view" /\ c.request = call.request
        /\ c.submitted = 0 /\ c.effects = 0 /\ c.entered /\ c.plan = plan
        /\ c.planned = Len(plan)
    BY <1>2 DEF CallType, Pcs
  <2>2. own' \in OwnType BY <1>3 DEF OwnType
  <2>3. Continue(c) OBVIOUS
  <2>4. c.planned = c.submitted + Len(c.plan) /\ c.plan # <<>>
    BY <1>2, <2>1, SMTT(30)
  <2> HIDE DEF c
  <2> QED BY <2>1, <2>2, <2>3, <2>4, ContinueAccounts DEF Acting
<1> QED BY <1>4, <1>5, <1>6 DEF Execute

\* The second lock of check().
LEMMA AuthorizeAccounts ==
    ASSUME Accounted, Authorize
    PROVE  Accounted'
<1> DEFINE op == Head(call.plan)
           c == [call EXCEPT !.pc = "submit", !.previous = own.held]
           entering == call.entered /\ own' = [own EXCEPT !.held = TrackBefore(@, op)]
                       /\ Continue(c)
<1>0. /\ call.pc = "authorize" /\ call.pc \in Acting /\ own \in OwnType
      /\ call \in CallType /\ Ringed
      /\ (~ IsPointer(call.request) => ledger.pending = call.request.sequence)
  BY DEF Authorize, Acting, Accounted, Counted
<1> USE <1>0
<1>1. CASE UNCHANGED own /\ \E refusal \in {"ClockRegression", "Revoked", "StaleLease",
                                           "Expired", "Authority"} : Conclude(call, refusal)
  BY <1>1, BetweenOperations, ConcludeAccounts
<1>2. CASE entering
  <2> USE <1>2
  <2>1. call.plan \in Seq(Operations) /\ call.plan # <<>>
        /\ call.planned = call.submitted + Len(call.plan) /\ call.submitted = call.effects
    BY DEF Accounted, Counted, CallType
  <2>2. op \in Operations BY <2>1, PlanParts
  <2>3. TrackBefore(own.held, op) \in SUBSET Inputs
    BY <2>2, OperationInput DEF TrackBefore, OwnType
  <2> HIDE DEF op
  <2>4. own' \in OwnType BY <2>3 DEF OwnType
  <2>5. /\ c \in CallType /\ c.pc = "submit" /\ c.request = call.request
        /\ c.submitted = call.submitted /\ c.effects = call.effects
        /\ c.entered = call.entered /\ c.plan = call.plan /\ c.planned = call.planned
    BY DEF CallType, OwnType, Pcs
  <2>6. Continue(c) /\ call.entered OBVIOUS
  <2> HIDE DEF c
  <2> QED BY <2>1, <2>4, <2>5, <2>6, ContinueAccounts DEF Acting
<1>3. CASE ~ call.entered
           /\ \E epoch \in 0..MaxEpoch, barrier \in 0..MaxPointer, valid, moves \in BOOLEAN :
                 Execute(epoch, barrier, valid, moves)
  BY <1>3, ExecuteAccounts
<1> QED BY <1>1, <1>2, <1>3 DEF Authorize

\* The last lock of a mode change.
LEMMA ChangeModeAccounts ==
    ASSUME Accounted, ChangeMode
    PROVE  Accounted'
<1>0. /\ call.pc = "mode" /\ call.pc \in Acting /\ own' \in OwnType
      /\ call \in CallType /\ Ringed
      /\ (~ IsPointer(call.request) => ledger.pending = call.request.sequence)
      /\ call.submitted = 0 /\ call.effects = 0
  BY DEF ChangeMode, Acting, Accounted, Counted
<1> USE <1>0
<1>1. /\ Truthful(call, "Revoked") /\ Truthful(call, "StaleLease")
      /\ Truthful(call, "none")
  <2>1. call.planned \in Nat BY DEF CallType
  <2> QED BY <2>1, SMTT(30) DEF Truthful
<1> USE <1>1
<1>2. CASE Conclude(call, "Revoked") BY <1>2, ConcludeAccounts
<1>3. CASE Conclude(call, "StaleLease") BY <1>3, ConcludeAccounts
<1>4. CASE Conclude(call, "none") BY <1>4, ConcludeAccounts
<1> QED BY <1>2, <1>3, <1>4 DEF ChangeMode

\* The native call returns.
LEMMA SubmitAccounts ==
    ASSUME Accounted, Submit
    PROVE  Accounted'
<1> DEFINE op == Head(call.plan)
           done == [call EXCEPT !.plan = Tail(@), !.pc = "view",
                                !.submitted = @ + 1, !.effects = @ + 1,
                                !.previous = {}]
           struck == [call EXCEPT !.effects = @ + 1]
<1>0. /\ call.pc = "submit" /\ call.pc \in Acting /\ own \in OwnType
      /\ call \in CallType /\ Ringed
      /\ (~ IsPointer(call.request) => ledger.pending = call.request.sequence)
  BY DEF Submit, Acting, Accounted, Counted
<1> USE <1>0
<1>1. /\ call.entered /\ call.submitted \in Nat /\ call.submitted = call.effects
      /\ call.planned \in Nat /\ call.plan \in Seq(Operations) /\ call.plan # <<>>
      /\ call.planned = call.submitted + Len(call.plan)
      /\ call.previous \in SUBSET Inputs
  BY DEF Accounted, Counted, CallType
<1> USE <1>1
<1>2. /\ op \in Operations /\ Tail(call.plan) \in Seq(Operations)
      /\ Len(call.plan) \in Nat /\ Len(call.plan) > 0
      /\ Len(Tail(call.plan)) = Len(call.plan) - 1
      /\ (Tail(call.plan) = <<>>) <=> (Len(call.plan) = 1)
  BY PlanParts
<1> USE <1>2
<1>3. TrackAfter(own.held, op) \in SUBSET Inputs
  BY OperationInput DEF TrackAfter, OwnType
<1> HIDE DEF op
<1>4. own' \in OwnType
  <2>1. [own EXCEPT !.held = TrackAfter(@, op)] \in OwnType BY <1>3 DEF OwnType
  <2>2. [own EXCEPT !.held = call.previous] \in OwnType BY DEF OwnType
  <2> QED BY <2>1, <2>2 DEF Submit, op
<1> USE <1>4
<1>5. /\ done \in CallType /\ done.pc = "view" /\ done.request = call.request
      /\ done.plan = Tail(call.plan) /\ done.submitted = call.submitted + 1
      /\ done.effects = call.submitted + 1 /\ done.planned = call.planned /\ done.entered
  <2> DEFINE rest == Tail(call.plan)
             submitted == call.submitted + 1
             effects == call.effects + 1
  <2>1. /\ rest \in Seq(Operations) /\ submitted \in Nat /\ effects \in Nat
        /\ effects = submitted /\ {} \in SUBSET Inputs /\ "view" \in Pcs
    BY SMTT(30) DEF Pcs
  <2>2. done = [call EXCEPT !.plan = rest, !.pc = "view", !.submitted = submitted,
                            !.effects = effects, !.previous = {}]
    OBVIOUS
  <2> HIDE DEF rest, submitted, effects, done
  <2>3. done \in CallType BY <2>1, <2>2 DEF CallType
  <2>4. /\ done.pc = "view" /\ done.request = call.request /\ done.plan = rest
        /\ done.submitted = submitted /\ done.effects = effects
        /\ done.planned = call.planned /\ done.entered = call.entered
    BY <2>2 DEF CallType
  <2> QED BY <2>1, <2>3, <2>4 DEF rest, submitted
<1> USE <1>5
<1>6. /\ struck.request = call.request /\ struck.submitted = call.submitted
      /\ struck.effects = call.submitted + 1 /\ struck.planned = call.planned
  BY DEF CallType
<1> HIDE DEF done, struck
<1>7. CASE done.plan = <<>> /\ Conclude(done, "none")
  <2> USE <1>7
  <2>1. Len(call.plan) = 1 OBVIOUS
  <2>2. /\ done.submitted \in Nat /\ done.effects = done.submitted
        /\ done.planned \in Nat /\ done.submitted = done.planned
    BY <2>1
  <2>3. Truthful(done, "none") BY <2>2, SMTT(30) DEF Truthful
  <2> QED BY <2>3, ConcludeAccounts
<1>8. CASE done.plan # <<>> /\ Continue(done)
  <2>1. done.planned = done.submitted + Len(done.plan) BY SMTT(30)
  <2> QED BY <1>8, <2>1, ContinueAccounts DEF Acting
<1>9. CASE \E refusal \in {"Platform", "Expired", "Revoked"} : Conclude(call, refusal)
  BY <1>9, BetweenOperations, ConcludeAccounts
<1>10. CASE Conclude(call, "Unknown")
  <2>1. Truthful(call, "Unknown") BY SMTT(30) DEF Truthful
  <2> QED BY <1>10, <2>1, ConcludeAccounts
<1>11. CASE Conclude(struck, "Unknown")
  <2>1. Truthful(struck, "Unknown") BY <1>6, SMTT(30) DEF Truthful
  <2> QED BY <1>6, <1>11, <2>1, ConcludeAccounts
<1> QED BY <1>7, <1>8, <1>9, <1>10, <1>11 DEF Submit, done, struck

-----------------------------------------------------------------------------
(* Reconciliation, and the calls that record nothing.                      *)

\* The plan of a reconciliation releases what is held outside the snapshot.
LEMMA MissingPlanned ==
    ASSUME NEW held, NEW keep
    PROVE  /\ MissingReleases(held, keep) \in Seq(Operations)
           /\ Planned(held, keep, MissingReleases(held, keep))
<1> DEFINE key == Op("Release", "key")
           button == Op("Release", "button")
<1>1. key \in Operations /\ button \in Operations BY SMTT(30) DEF Operations, Inputs
<1> USE <1>1
<1>2. key.input = "key" /\ button.input = "button" BY DEF Op
<1> USE <1>2
<1>3. MissingReleases(held, keep) =
        (IF "key" \in held \ keep THEN <<key>> ELSE <<>>)
        \o (IF "button" \in held \ keep THEN <<button>> ELSE <<>>)
  BY DEF MissingReleases
<1> USE <1>3
<1> HIDE DEF key, button
<1>4. CASE "key" \in held \ keep /\ "button" \in held \ keep
  <2>1. MissingReleases(held, keep) = <<key>> \o <<button>> BY <1>4
  <2> DEFINE plan == <<key>> \o <<button>>
  <2>2. <<key>> \in Seq(Operations) /\ <<button>> \in Seq(Operations) BY SMTT(30)
  <2>3. plan \in Seq(Operations) /\ Len(plan) = 2 /\ plan[1] = key /\ plan[2] = button
    BY <2>2, SMTT(30)
  <2> USE <2>3
  <2> HIDE DEF plan
  <2>4. 1 \in 1..Len(plan) /\ 2 \in 1..Len(plan) BY SMTT(30)
  <2>5. Planned(held, keep, plan) BY <2>4 DEF Planned
  <2> QED BY <2>1, <2>5 DEF plan
<1>5. CASE "key" \in held \ keep /\ "button" \notin held \ keep
  <2> USE <1>5
  <2>1. MissingReleases(held, keep) = <<key>> \o <<>> OBVIOUS
  <2>2. <<key>> \o <<>> = <<key>> BY SMTT(30)
  <2>3. <<key>> \in Seq(Operations) /\ 1 \in 1..Len(<<key>>) /\ <<key>>[1] = key
    BY SMTT(30)
  <2>4. Planned(held, keep, <<key>>)
    BY <2>3 DEF Planned
  <2> QED BY <2>1, <2>2, <2>3, <2>4
<1>6. CASE "key" \notin held \ keep /\ "button" \in held \ keep
  <2> USE <1>6
  <2>1. MissingReleases(held, keep) = <<>> \o <<button>> OBVIOUS
  <2>2. <<>> \o <<button>> = <<button>> BY SMTT(30)
  <2>3. <<button>> \in Seq(Operations) /\ 1 \in 1..Len(<<button>>) /\ <<button>>[1] = button
    BY SMTT(30)
  <2>4. Planned(held, keep, <<button>>)
    BY <2>3 DEF Planned
  <2> QED BY <2>1, <2>2, <2>3, <2>4
<1>7. CASE "key" \notin held \ keep /\ "button" \notin held \ keep
  <2> USE <1>7
  <2>1. MissingReleases(held, keep) = <<>> \o <<>> OBVIOUS
  <2>2. <<>> \o <<>> = <<>> /\ <<>> \in Seq(Operations) BY SMTT(30)
  <2>3. Planned(held, keep, <<>>) BY DEF Planned
  <2> QED BY <2>1, <2>2, <2>3
<1> QED BY <1>4, <1>5, <1>6, <1>7

\* A snapshot that is refused, or starts its reconciliation.
LEMMA ReconcileAccounts ==
    ASSUME Accounted, NEW sequence \in Snapshots, NEW next_action,
           NEW keep \in SUBSET {"key", "button"}, Reconcile(sequence, next_action, keep)
    PROVE  Accounted'
<1>0. /\ call.pc = "idle" /\ told' = None /\ results' = results /\ os' = os
      /\ own \in OwnType /\ call \in CallType
  BY DEF Reconcile, Accounted
<1> USE <1>0
<1>1. CASE RevokeOwner /\ UNCHANGED <<own, call>>
  BY <1>1, AccountElsewhere DEF RevokeOwner, Acting, Reconciling
<1>2. CASE /\ own' = [own EXCEPT !.snapshot_floor = sequence]
           /\ call' = [Begin("recheck", None) EXCEPT
                         !.plan = MissingReleases(own.held, keep), !.keep = keep]
           /\ UNCHANGED <<revoked, ledger>>
  <2> USE <1>2
  <2> DEFINE plan == MissingReleases(own.held, keep)
  <2>1. own' \in OwnType /\ own'.held = own.held BY DEF OwnType, Option
  <2>2. Begin("recheck", None) \in CallType /\ Begin("recheck", None).pc = "recheck"
    BY CallsTyped, SMTT(30) DEF Pcs, Option
  <2>3. plan \in Seq(Operations) /\ Planned(own.held, keep, plan) BY MissingPlanned
  <2> HIDE DEF plan
  <2>4. call' = [Begin("recheck", None) EXCEPT !.plan = plan, !.keep = keep]
    BY DEF plan
  <2>5. /\ call' \in CallType /\ call'.pc = "recheck" /\ call'.plan = plan
        /\ call'.keep = keep
    BY <2>2, <2>3, <2>4 DEF CallType
  <2> USE <2>5
  <2>6. Reconciled' BY <2>1, <2>3 DEF Reconciled
  <2>7. Counted' BY DEF Counted, Acting
  <2>8. Ringed' BY DEF Accounted, Ringed, RingsAgree
  <2>9. ReceiptIsTrue' BY DEF ReceiptIsTrue
  <2> QED BY <2>1, <2>6, <2>7, <2>8, <2>9 DEF Accounted
<1> QED BY <1>1, <1>2 DEF Reconcile

\* "Applied": nothing of the plan is left, and nothing is down outside the snapshot.
LEMMA AppliedAccounts ==
    ASSUME Accounted, own' \in OwnType, NEW c, Planned(own'.held, c.keep, <<>>),
           os' \subseteq own'.held, UNCHANGED <<ledger, results>>, Applied(c)
    PROVE  Accounted'
<1>1. call' = IdleCall /\ told'.outcome = "Applied" /\ told'.keep = c.keep
  BY DEF Applied
<1>2. \A i \in {"key", "button"} : i \in own'.held => i \in c.keep
  <2>1. Len(<<>>) = 0 /\ 1..0 = {} BY SMTT(30)
  <2> QED BY <2>1 DEF Planned
<1>3. ReceiptIsTrue' BY <1>1, <1>2 DEF ReceiptIsTrue
<1>4. call' \in CallType /\ Counted' /\ Reconciled'
  BY <1>1, CallsTyped DEF Counted, Reconciled, Acting, Reconciling
<1>5. Ringed' BY DEF Accounted, Ringed, RingsAgree
<1> QED BY <1>3, <1>4, <1>5 DEF Accounted

\* A reconciliation that fails, an unwind included.
LEMMA AbandonAccounts ==
    ASSUME Accounted, own' = own, results' = results, os' \subseteq os, Abandon
    PROVE  Accounted'
<1>1. call' \in CallType /\ call'.pc = "idle" BY CallsTyped DEF Abandon
<1>2. own' \in OwnType BY DEF Accounted
<1> QED BY <1>1, <1>2, AccountElsewhere DEF Abandon, RevokeOwner, Acting, Reconciling

\* check_reconciliation.
LEMMA RecheckAccounts ==
    ASSUME IInv, Accounted, Recheck
    PROVE  Accounted'
<1>0. /\ call.pc = "recheck" /\ results' = results /\ own' = own /\ os' = os
      /\ own \in OwnType /\ call \in CallType
      /\ told = None /\ Planned(own.held, call.keep, call.plan)
  BY DEF Recheck, Accounted, Reconciled, Reconciling
<1> USE <1>0
<1>1. CASE Abandon BY <1>1, AbandonAccounts
<1>2. CASE call.plan = <<>> /\ Applied(call) /\ UNCHANGED ledger
  <2>1. os' \subseteq own'.held BY DEF IInv, Tracked, HeldCoversNative
  <2> QED BY <1>2, <2>1, AppliedAccounts
<1>3. CASE /\ call.plan # <<>>
           /\ call' = IF call.entered THEN [call EXCEPT !.pc = "release"]
                      ELSE [call EXCEPT !.entered = TRUE]
           /\ UNCHANGED <<told, ledger>>
  <2> USE <1>3
  <2>1. /\ call' \in CallType /\ call'.pc \in Reconciling /\ call'.plan = call.plan
        /\ call'.keep = call.keep
    BY DEF CallType, Pcs, Reconciling
  <2> USE <2>1
  <2>2. Reconciled' BY DEF Reconciled
  <2>3. Counted' BY DEF Counted, Acting, Reconciling
  <2>4. Ringed' BY DEF Accounted, Ringed, RingsAgree
  <2>5. ReceiptIsTrue' BY DEF ReceiptIsTrue
  <2> QED BY <2>2, <2>3, <2>4, <2>5 DEF Accounted
<1> QED BY <1>1, <1>2, <1>3 DEF Recheck

\* A reconciliation's native release.
LEMMA ReleaseAccounts ==
    ASSUME IInv, Accounted, Release
    PROVE  Accounted'
<1> DEFINE op == Head(call.plan)
           done == [call EXCEPT !.plan = Tail(@), !.pc = "recheck", !.submitted = @ + 1]
<1>0. /\ call.pc = "release" /\ results' = results
      /\ own \in OwnType /\ call \in CallType
      /\ told = None /\ Planned(own.held, call.keep, call.plan)
      /\ call.plan \in Seq(Operations) /\ call.plan # <<>> /\ call.submitted \in Nat
      /\ os \subseteq own.held
  BY DEF Release, Accounted, Reconciled, Reconciling, CallType, IInv, Tracked,
         HeldCoversNative
<1> USE <1>0
<1>1. CASE Abandon /\ os' \in {os, os \ {op.input}} /\ UNCHANGED own
  BY <1>1, AbandonAccounts
<1>2. CASE /\ own' = [own EXCEPT !.held = @ \ {op.input}]
           /\ os' = os \ {op.input}
           /\ IF done.plan = <<>> THEN Applied(done) ELSE call' = done /\ UNCHANGED told
           /\ UNCHANGED <<revoked, ledger>>
  <2> USE <1>2
  <2> DEFINE rest == Tail(call.plan)
             submitted == call.submitted + 1
  <2>1. /\ rest \in Seq(Operations) /\ Len(call.plan) \in Nat /\ Len(call.plan) > 0
        /\ Len(rest) = Len(call.plan) - 1 /\ op = call.plan[1]
        /\ \A k \in 2..Len(call.plan) : rest[k - 1] = call.plan[k]
    BY PlanParts
  <2> USE <2>1
  <2>2. submitted \in Nat BY SMTT(30)
  <2>3. done = [call EXCEPT !.plan = rest, !.pc = "recheck", !.submitted = submitted]
    OBVIOUS
  <2> HIDE DEF rest, submitted, done, op
  <2>4. /\ done \in CallType /\ done.pc = "recheck" /\ done.plan = rest
        /\ done.keep = call.keep
    BY <2>2, <2>3 DEF CallType, Pcs
  <2> USE <2>4
  <2>5. own' \in OwnType /\ own'.held = own.held \ {op.input}
    BY DEF OwnType
  <2> USE <2>5
  <2>6. os' \subseteq own'.held OBVIOUS
  <2>7. Planned(own'.held, call.keep, rest)
    <3> SUFFICES ASSUME NEW i \in {"key", "button"}, i \in own'.held, i \notin call.keep
                 PROVE  \E k \in 1..Len(rest) : rest[k].input = i
      BY DEF Planned
    <3>1. i \in own.held /\ i # op.input OBVIOUS
    <3>2. PICK k \in 1..Len(call.plan) : call.plan[k].input = i
      BY <3>1 DEF Planned
    <3>3. k # 1 BY <3>1, <3>2
    <3>4. k \in 2..Len(call.plan) /\ k - 1 \in 1..Len(rest) BY <3>3, SMTT(30)
    <3> QED BY <3>2, <3>4
  <2>8. CASE rest = <<>>
    <3> USE <2>8
    <3>1. Applied(done) OBVIOUS
    <3>2. Planned(own'.held, done.keep, <<>>) BY <2>7
    <3> QED BY <2>6, <3>1, <3>2, AppliedAccounts
  <2>9. CASE rest # <<>>
    <3>1. call' = done /\ told' = told /\ ledger' = ledger BY <2>9
    <3> USE <3>1
    <3>2. Reconciled' BY <2>7 DEF Reconciled
    <3>3. Counted' BY DEF Counted, Acting
    <3>4. Ringed' BY DEF Accounted, Ringed, RingsAgree
    <3>5. ReceiptIsTrue' BY DEF ReceiptIsTrue
    <3> QED BY <3>2, <3>3, <3>4, <3>5 DEF Accounted
  <2> QED BY <2>8, <2>9
<1> QED BY <1>1, <1>2 DEF Release

\* The calls that release, confirm, maintain or end; none of them records.
LEMMA ServiceAccounts ==
    ASSUME IInv, Accounted, ReleaseHeld \/ Confirm \/ Cleanup \/ Maintain
    PROVE  Accounted'
<1> USE DEF Acting, Reconciling
<1>0. own \in OwnType /\ call \in CallType BY DEF Accounted
<1> USE <1>0
<1>1. CASE ReleaseHeld
  <2> USE <1>1
  <2>1. PICK freed \in SUBSET own.held : \E unknown \in SUBSET (own.held \ freed) :
          /\ own' = [own EXCEPT !.held = @ \ freed]
          /\ os' = os \ (freed \cup unknown)
          /\ call' = IF Confirms(own.held \ freed, call.confirm)
                     THEN Begin("confirm", None) ELSE IdleCall
    BY DEF ReleaseHeld
  <2> USE <2>1
  <2>2. own' \in OwnType BY DEF OwnType
  <2>3. call' \in CallType /\ call'.pc \in {"confirm", "idle"}
    BY CallsTyped, SMTT(30) DEF Pcs, Option
  <2>4. os' \subseteq os OBVIOUS
  <2>5. ledger' = ledger /\ results' = results /\ told' = told
    BY DEF ReleaseHeld
  <2> QED BY <2>2, <2>3, <2>4, <2>5, AccountElsewhere
<1>2. CASE Confirm
  <2>1. /\ call' = IdleCall /\ own' = own /\ os' = os /\ ledger' = ledger
        /\ results' = results /\ told' = told
    BY <1>2 DEF Confirm
  <2>2. call' \in CallType /\ call'.pc = "idle" BY <2>1, CallsTyped
  <2> QED BY <2>1, <2>2, AccountElsewhere
<1>3. CASE Cleanup
  <2>1. /\ call' = StartRelease(FALSE) /\ own' = own /\ os' = os
        /\ ledger' = Fence(ledger) /\ results' = results /\ told' = None
    BY <1>3 DEF Cleanup, RevokeOwner
  <2>2. call' \in CallType /\ call'.pc = "releasing" BY <2>1, CallsTyped
  <2> QED BY <2>1, <2>2, AccountElsewhere
<1>4. CASE Maintain
  <2> USE <1>4
  <2>1. /\ own' = own /\ os' = os /\ results' = results /\ told' = None
        /\ call.pc = "idle"
    BY DEF Maintain
  <2>2. ledger' \in {ledger, Fence(ledger)} BY DEF Maintain, RevokeOwner
  <2>3. ASSUME NEW status PROVE (~ status.released) \in BOOLEAN OBVIOUS
  <2>4. call' = call \/ \E confirm \in BOOLEAN : call' = StartRelease(confirm)
    BY <2>3 DEF Maintain
  <2>5. call' \in CallType /\ call'.pc \in {"idle", "releasing"}
    BY <2>1, <2>4, CallsTyped
  <2> QED BY <2>1, <2>2, <2>5, AccountElsewhere
<1> QED BY <1>1, <1>2, <1>3, <1>4

\* Tickets move the owner's view and nothing else of its books.
LEMMA TicketAccounts ==
    ASSUME IInv, Accounted, NEW ticket, NEW presented, IssueTicket(ticket, presented)
    PROVE  Accounted'
<1> DEFINE view == FollowRecovery(own.view, auth)
<1>0. /\ call.pc = "idle" /\ own' = [own EXCEPT !.view = view] /\ own \in OwnType
      /\ UNCHANGED <<ledger, results, call, os, told>> /\ call \in CallType
  BY DEF IssueTicket, Accounted
<1> USE <1>0
<1>1. view \in Generations BY FollowTyped DEF IInv, OwnType
<1> HIDE DEF view
<1>2. own' \in OwnType BY <1>1 DEF OwnType
<1> QED BY <1>2, AccountElsewhere DEF Acting, Reconciling

\* Every step keeps the books.
LEMMA AccountsKept ==
    ASSUME IInv, Accounted, [Next]_vars
    PROVE  Accounted'
<1>1. CASE \/ UNCHANGED vars \/ TakeControlLease \/ DropControl
           \/ \E next \in {"ready", "challenge", "respond"} : ControlDeadline(next)
           \/ \E nonce \in Nonces : OwnerRenews(nonce) \/ ControlRenews(nonce)
           \/ \E ticket \in TicketIds : Regrant(ticket)
           \/ Tick \/ WatchdogStatus \/ Revoke \/ MediaStep
  <2>1. UNCHANGED <<ledger, results, own, call, told>> /\ os' = os
    BY <1>1 DEF vars, TakeControlLease, DropControl, ControlDeadline, OwnerRenews,
       ControlRenews, Regrant, Tick, WatchdogStatus, Revoke, MediaStep, Private
  <2> QED BY <2>1, AccountFrame
<1>2. CASE Dispatch BY <1>2, DispatchAccounts
<1>3. CASE OwnerStep
  BY <1>3, CheckViewAccounts, AuthorizeAccounts, ChangeModeAccounts, SubmitAccounts,
     RecheckAccounts, ReleaseAccounts, ServiceAccounts DEF OwnerStep
<1>4. CASE Cleanup \/ Maintain BY <1>4, ServiceAccounts
<1>5. CASE \E sequence \in Snapshots, next_action \in SequenceNumbers,
              keep \in SUBSET {"key", "button"} : Reconcile(sequence, next_action, keep)
  BY <1>5, ReconcileAccounts
<1>6. CASE \E ticket \in TicketIds :
              \E presented \in BOOLEAN : IssueTicket(ticket, presented)
  BY <1>6, TicketAccounts
<1> QED BY <1>1, <1>2, <1>3, <1>4, <1>5, <1>6 DEF Next

\* An attached owner's books are in order.
LEMMA InitAccounted == Init => Accounted
<1> SUFFICES ASSUME Init PROVE Accounted OBVIOUS
<1>1. /\ ledger = NewLedger(LeaseId) /\ told = None /\ call = IdleCall
      /\ results = [ring |-> [s \in ReceiptSlots |-> EmptyResult], cursor |-> 0]
      /\ own = [view |-> 0, held |-> {}, mode |-> "Absolute", mode_epoch |-> 0,
                pointer_floor |-> None, snapshot_floor |-> None]
  BY DEF Init
<1> USE <1>1
<1>2. 0 \in Generations /\ 0 \in 0..MaxEpoch /\ 0 \in ReceiptSlots /\ 0 \in SequenceNumbers
  BY BoundsAssumption, CapacityAssumption, SMTT(30) DEF Generations, ReceiptSlots, SequenceNumbers
<1>3. own \in OwnType BY <1>2 DEF OwnType, Option
<1>4. call \in CallType /\ Counted /\ Reconciled
  BY CallsTyped DEF Counted, Reconciled, Acting, Reconciling
<1>5. EmptyReceipt \in Receipts BY DEF EmptyReceipt, Receipts, InputOutcomes
<1>6. ledger \in LedgerType /\ ledger.lease = LeaseId
  BY <1>2, <1>5, CredentialsAssumption DEF NewLedger, LedgerType
<1>7. RingsAgree
  BY DEF RingsAgree, NewLedger, EmptyReceipt, EmptyResult
<1>8. results.ring = [s \in ReceiptSlots |-> results.ring[s]] OBVIOUS
<1> QED BY <1>3, <1>4, <1>6, <1>7, <1>8 DEF Accounted, Ringed, ReceiptIsTrue

\* The owner's books are always in order.
THEOREM BooksAreKept == Spec => []Accounted
<1>1. Init => Accounted BY InitAccounted
<1>2. IInv /\ Accounted /\ [Next]_vars => Accounted' BY AccountsKept
<1> QED BY <1>1, <1>2, OwnerSound, PTL DEF Spec

\* What the client is told of an action or a snapshot is what happened, through
\* partial plans, refusals between operations, unknown results and unwinds
\* (Attempt::receipt, Attempt::finish, reconcile_held).
THEOREM ReceiptsAreTrue == Spec => []ReceiptIsTrue
<1>1. Accounted => ReceiptIsTrue BY DEF Accounted
<1> QED BY <1>1, BooksAreKept, PTL

\* The ledger and the owner retain the same actions, slot by slot: nothing but
\* the pending action is ever concluded (Attempt::finish, record_outcome, retain).
THEOREM SameActionsRetained == Spec => []RingsAgree
<1>1. Accounted => RingsAgree BY DEF Accounted, Ringed
<1> QED BY <1>1, BooksAreKept, PTL

-----------------------------------------------------------------------------
(* Which tickets and which recovery an authorization can see.              *)

\* A native owner is attached to a lease.
Owned(a) == a.native_owner # None => a.lease # None

\* Between a and b no ticket is added, no lease granted and no recovery begun.
Keeps(a, b) ==
    /\ b.recovery = a.recovery
    /\ b.native_owner \in {None, a.native_owner}
    /\ Owned(a) => Owned(b)
    /\ b.lease # None =>
          /\ a.lease # None /\ b.lease.id = a.lease.id
          /\ \A s \in Slots : b.lease.tickets[s] \in {None, a.lease.tickets[s]}

LEMMA KeepsTrans ==
    ASSUME NEW a, NEW b, NEW c, Keeps(a, b), Keeps(b, c)
    PROVE  Keeps(a, c)
  BY DEF Keeps

\* The lease stays, perhaps without its tickets.
LEMMA LeaseKeeps ==
    ASSUME NEW a, NEW b, b.recovery = a.recovery, b.native_owner = a.native_owner,
           (b.lease = None) <=> (a.lease = None),
           b.lease # None => /\ b.lease.id = a.lease.id
                             /\ b.lease.tickets \in {a.lease.tickets, NoTickets}
    PROVE  Keeps(a, b)
<1>1. \A s \in Slots : NoTickets[s] = None BY DEF NoTickets
<1> QED BY <1>1 DEF Keeps, Owned

\* The lease and its owner go.
LEMMA NoLeaseKeeps ==
    ASSUME NEW a, NEW b, b.recovery = a.recovery, b.native_owner = None, b.lease = None
    PROVE  Keeps(a, b)
  BY DEF Keeps, Owned

\* Tickets are cleared and nothing else.
LEMMA ClearedTickets ==
    ASSUME NEW l \in Option(Lease)
    PROVE  /\ (WithoutTickets(l) = None) <=> (l = None)
           /\ l # None => /\ WithoutTickets(l).id = l.id
                          /\ WithoutTickets(l).tickets = NoTickets
<1>1. l # None => l \in Lease BY DEF Option
<1>2. l # None => /\ WithoutTickets(l).id = l.id
                  /\ WithoutTickets(l).tickets = NoTickets
  BY <1>1 DEF WithoutTickets, Lease
<1> QED BY <1>2, WithoutTicketsFacts

LEMMA CloseKeeps ==
    ASSUME NEW a, a \in SessionAuthorityType
    PROVE  Keeps(a, Close(a))
<1>1. /\ Close(a).lease = None /\ Close(a).native_owner = None
      /\ Close(a).recovery = a.recovery
  BY DEF Close, ClearAuthority, SessionAuthorityType
<1> QED BY <1>1, NoLeaseKeeps

LEMMA LapseKeeps ==
    ASSUME NEW a, a \in SessionAuthorityType, NEW at
    PROVE  Keeps(a, LapseView(a, at))
<1> DEFINE b == LapseView(a, at)
<1>1. /\ b.lease = WithoutTickets(a.lease) /\ b.native_owner = a.native_owner
      /\ b.recovery = a.recovery
  BY DEF LapseView, SessionAuthorityType
<1>2. a.lease \in Option(Lease) BY DEF SessionAuthorityType
<1> HIDE DEF b
<1>3. Keeps(a, b) BY <1>1, <1>2, ClearedTickets, LeaseKeeps
<1> QED BY <1>3 DEF b

\* A record that differs only in what Keeps does not look at.
LEMMA SameKeeps ==
    ASSUME NEW a, NEW b, b.recovery = a.recovery, b.native_owner = a.native_owner,
           b.lease = a.lease
    PROVE  Keeps(a, b)
  BY DEF Keeps, Owned

LEMMA CheckTimeKeeps ==
    ASSUME NEW a, a \in SessionAuthorityType, NEW at \in Time
    PROVE  Keeps(a, CheckTime(a, at))
<1>1. CASE ClockRegressed(a, at)
  <2> DEFINE d == [a EXCEPT !.clock_faulted = TRUE]
  <2>1. d \in SessionAuthorityType BY DEF SessionAuthorityType
  <2>2. d.lease = a.lease /\ d.native_owner = a.native_owner /\ d.recovery = a.recovery
    BY DEF SessionAuthorityType
  <2>3. CheckTime(a, at) = Close(d) BY <1>1 DEF CheckTime
  <2> HIDE DEF d
  <2>4. Keeps(a, d) /\ Keeps(d, Close(d)) BY <2>1, <2>2, SameKeeps, CloseKeeps
  <2> QED BY <2>3, <2>4, KeepsTrans
<1>2. CASE ~ ClockRegressed(a, at)
  <2> DEFINE d == [a EXCEPT !.last_checked = at]
  <2>1. d \in SessionAuthorityType BY DEF SessionAuthorityType, Option
  <2>2. d.lease = a.lease /\ d.native_owner = a.native_owner /\ d.recovery = a.recovery
    BY DEF SessionAuthorityType
  <2>3. CheckTime(a, at) \in {d, LapseView(d, d.view_until)}
    BY <1>2 DEF CheckTime, LapsePassedView
  <2> HIDE DEF d
  <2>4. Keeps(a, d) /\ Keeps(d, LapseView(d, d.view_until))
    BY <2>1, <2>2, SameKeeps, LapseKeeps
  <2> QED BY <2>3, <2>4, KeepsTrans, SMTT(30)
<1> QED BY <1>1, <1>2

LEMMA ControlStatusKeeps ==
    ASSUME NEW a, a \in SessionAuthorityType, NEW sampled
    PROVE  Keeps(a, ControlStatusEffect(a, sampled))
<1>1. ControlStatusEffect(a, sampled) \in {a, LapseView(a, a.view_until)}
  BY DEF ControlStatusEffect, LapsePassedView
<1> QED BY <1>1, LapseKeeps, SameKeeps

\* A call that changes nothing of this after its check.
LEMMA AfterCheckKeeps ==
    ASSUME NEW a, a \in SessionAuthorityType, NEW at \in Time, NEW b,
           b.recovery = CheckTime(a, at).recovery,
           b.native_owner = CheckTime(a, at).native_owner,
           (b.lease = None) <=> (CheckTime(a, at).lease = None),
           b.lease # None => /\ b.lease.id = CheckTime(a, at).lease.id
                             /\ b.lease.tickets = CheckTime(a, at).lease.tickets
    PROVE  Keeps(a, b)
<1> DEFINE c == CheckTime(a, at)
<1>1. Keeps(a, c) BY CheckTimeKeeps
<1> HIDE DEF c
<1>2. Keeps(c, b) BY LeaseKeeps DEF c
<1> QED BY <1>1, <1>2, KeepsTrans

\* The renewal calls.
LEMMA RenewalKeeps ==
    ASSUME NEW a, Sound(a), NEW at \in Time, NEW nonce, NEW id
    PROVE  /\ Keeps(a, IssueObservationChallenge(a, nonce, at))
           /\ Keeps(a, RespondObservationChallenge(a, nonce, at))
           /\ Keeps(a, IssueControlChallenge(a, nonce, at))
           /\ Keeps(a, RespondControlChallenge(a, id, nonce, at))
<1> DEFINE c == CheckTime(a, at)
           b1 == IssueObservationChallenge(a, nonce, at)
           b2 == RespondObservationChallenge(a, nonce, at)
           b3 == IssueControlChallenge(a, nonce, at)
           b4 == RespondControlChallenge(a, id, nonce, at)
<1>0. a \in SessionAuthorityType /\ c \in SessionAuthorityType
  BY CheckTimeSound DEF Sound, Settled
<1> USE <1>0
<1>1. b1.recovery = c.recovery /\ b1.native_owner = c.native_owner /\ b1.lease = c.lease
  BY DEF IssueObservationChallenge, SessionAuthorityType
<1>2. b2.recovery = c.recovery /\ b2.native_owner = c.native_owner /\ b2.lease = c.lease
  BY DEF RespondObservationChallenge, SessionAuthorityType
<1>3. b3.recovery = c.recovery /\ b3.native_owner = c.native_owner /\ b3.lease = c.lease
  BY DEF IssueControlChallenge, SessionAuthorityType
<1>4. /\ b4.recovery = c.recovery /\ b4.native_owner = c.native_owner
      /\ \/ b4.lease = c.lease
         \/ c.lease # None /\ c.control_challenge # None
            /\ b4.lease = [c.lease EXCEPT !.authorized_until = c.control_challenge.deadline]
  BY DEF RespondControlChallenge, SessionAuthorityType, LeaseIs, ControlRenewable, Answers
<1>5. /\ (b4.lease = None) <=> (c.lease = None)
      /\ b4.lease # None => b4.lease.id = c.lease.id /\ b4.lease.tickets = c.lease.tickets
  <2>1. CASE b4.lease = c.lease BY <2>1
  <2>2. CASE c.lease # None /\ c.control_challenge # None
             /\ b4.lease = [c.lease EXCEPT !.authorized_until = c.control_challenge.deadline]
    <3> USE <2>2
    <3>1. c.lease \in Lease BY DEF SessionAuthorityType, Option
    <3>2. b4.lease.id = c.lease.id /\ b4.lease.tickets = c.lease.tickets
      BY <3>1 DEF Lease
    <3>3. c.control_challenge.deadline \in Time
      BY DEF SessionAuthorityType, Option, Challenge
    <3>4. b4.lease \in Lease BY <3>1, <3>3 DEF Lease
    <3>5. b4.lease # None BY <3>4, NoneAssumption
    <3> QED BY <3>2, <3>5
  <2> QED BY <1>4, <2>1, <2>2
<1> HIDE DEF c, b1, b2, b3, b4
<1>6. Keeps(a, b1) /\ Keeps(a, b2) /\ Keeps(a, b3)
  BY <1>1, <1>2, <1>3, AfterCheckKeeps DEF c
<1>7. Keeps(a, b4) BY <1>4, <1>5, AfterCheckKeeps DEF c
<1> QED BY <1>6, <1>7 DEF b1, b2, b3, b4

\* Clearing tickets, confirming a release, evidence, removal and the attachment calls.
LEMMA ChangeKeeps ==
    ASSUME NEW a, Sound(a), NEW at \in Time, NEW id, NEW until
    PROVE  /\ Keeps(a, InvalidateInputTickets(a, id))
           /\ Keeps(a, ConfirmSuspensionRelease(a, id))
           /\ Keeps(a, MarkViewStale(a))
           /\ Keeps(a, MarkViewReadyUntil(a, None, until, at))
           /\ Keeps(a, RevokeLease(a))
           /\ Keeps(a, Close(a))
<1>0. a \in SessionAuthorityType /\ a.lease \in Option(Lease)
  BY DEF Sound, Settled, SessionAuthorityType
<1> USE <1>0
<1>1. Keeps(a, InvalidateInputTickets(a, id))
  <2> DEFINE b == InvalidateInputTickets(a, id)
  <2>1. /\ b.recovery = a.recovery /\ b.native_owner = a.native_owner
        /\ b.lease \in {a.lease, WithoutTickets(a.lease)}
    BY DEF InvalidateInputTickets, SessionAuthorityType
  <2> HIDE DEF b
  <2>2. Keeps(a, b) BY <2>1, ClearedTickets, LeaseKeeps
  <2> QED BY <2>2 DEF b
<1>2. Keeps(a, ConfirmSuspensionRelease(a, id))
  <2> DEFINE b == ConfirmSuspensionRelease(a, id)
  <2>1. b.recovery = a.recovery /\ b.native_owner = a.native_owner /\ b.lease = a.lease
    BY DEF ConfirmSuspensionRelease, SessionAuthorityType
  <2> QED BY <2>1, SameKeeps
<1>3. Keeps(a, MarkViewStale(a)) BY LapseKeeps DEF MarkViewStale
<1>4. Keeps(a, MarkViewReadyUntil(a, None, until, at))
  <2> DEFINE d == [a EXCEPT !.presented_sequence = None]
             c == CheckTime(d, at)
             m == MarkViewReadyUntil(a, None, until, at)
  <2>1. Sound(d) BY UnpresentedSound
  <2>2. d \in SessionAuthorityType BY <2>1 DEF Sound, Settled
  <2>3. d.recovery = a.recovery /\ d.native_owner = a.native_owner /\ d.lease = a.lease
    BY DEF SessionAuthorityType
  <2>4. c \in SessionAuthorityType BY <2>1, CheckTimeSound DEF Sound, Settled
  <2>5. m.recovery = c.recovery /\ m.native_owner = c.native_owner /\ m.lease = c.lease
    BY <2>4 DEF MarkViewReadyUntil, SessionAuthorityType
  <2> HIDE DEF d, c, m
  <2>6. Keeps(a, d) BY <2>3, SameKeeps
  <2>7. Keeps(d, c) BY <2>2, CheckTimeKeeps DEF c
  <2>8. Keeps(c, m) BY <2>5, SameKeeps
  <2> QED BY <2>6, <2>7, <2>8, KeepsTrans DEF m
<1>5. Keeps(a, RevokeLease(a))
  <2>1. /\ RevokeLease(a).lease = None /\ RevokeLease(a).native_owner = None
        /\ RevokeLease(a).recovery = a.recovery
    BY DEF RevokeLease, SessionAuthorityType
  <2> QED BY <2>1, NoLeaseKeeps
<1>6. Keeps(a, Close(a)) BY CloseKeeps
<1> QED BY <1>1, <1>2, <1>3, <1>4, <1>5, <1>6

\* What attaching an owner does before its lease is granted.
LEMMA OpeningKeeps ==
    ASSUME NEW a, Sound(a), NEW at \in Time
    PROVE  /\ Keeps(a, MarkCapabilitiesChecked(a))
           /\ Keeps(a, AuthorizeObservation(a, at))
           /\ Keeps(a, RequireViewEvidence(a, at))
<1> DEFINE c == CheckTime(a, at)
<1>0. a \in SessionAuthorityType /\ c \in SessionAuthorityType
  BY CheckTimeSound DEF Sound, Settled
<1> USE <1>0
<1>1. Keeps(a, c) BY CheckTimeKeeps
<1>2. Keeps(a, MarkCapabilitiesChecked(a))
  <2> DEFINE b == MarkCapabilitiesChecked(a)
  <2>1. b.recovery = a.recovery /\ b.native_owner = a.native_owner /\ b.lease = a.lease
    BY DEF MarkCapabilitiesChecked, SessionAuthorityType
  <2> QED BY <2>1, SameKeeps
<1>3. Keeps(a, AuthorizeObservation(a, at))
  <2> DEFINE b == AuthorizeObservation(a, at)
  <2>1. b = c \/ (b.recovery = c.recovery /\ b.native_owner = None /\ b.lease = None)
    BY DEF AuthorizeObservation, ClearAuthority, SessionAuthorityType
  <2> HIDE DEF b, c
  <2>2. b = c \/ Keeps(c, b) BY <2>1, NoLeaseKeeps
  <2> QED BY <1>1, <2>2, KeepsTrans DEF b
<1>4. Keeps(a, RequireViewEvidence(a, at))
  <2> DEFINE e == [c EXCEPT !.bounded_view = TRUE]
             b == RequireViewEvidence(a, at)
  <2>1. b = c \/ b = MarkViewStale(e) BY DEF RequireViewEvidence
  <2>2. e.recovery = c.recovery /\ e.native_owner = c.native_owner /\ e.lease = c.lease
    BY DEF SessionAuthorityType
  <2>3. e \in SessionAuthorityType BY DEF SessionAuthorityType
  <2> HIDE DEF b, c, e
  <2>4. Keeps(c, e) /\ Keeps(e, MarkViewStale(e))
    BY <2>2, <2>3, SameKeeps, LapseKeeps DEF MarkViewStale
  <2> QED BY <1>1, <2>1, <2>4, KeepsTrans, SMTT(30) DEF b
<1> QED BY <1>2, <1>3, <1>4

\* As Keeps, but for one ticket that may be new.
Adds(a, b, ticket) ==
    /\ b.recovery = a.recovery
    /\ b.native_owner \in {None, a.native_owner}
    /\ Owned(a) => Owned(b)
    /\ b.lease # None =>
          /\ a.lease # None /\ b.lease.id = a.lease.id
          /\ \A s \in Slots : \/ b.lease.tickets[s] \in {None, a.lease.tickets[s]}
                              \/ b.lease.tickets[s].id = ticket

\* A ticket that is issued is the only one added.
LEMMA IssueFacts ==
    ASSUME NEW a, Sound(a), NEW at \in Time, NEW id, NEW ticket \in TicketIds, NEW presented
    PROVE  /\ Adds(a, IssueInputTicket(a, id, ticket, at, presented), ticket)
           /\ ~ TicketIssuable(CheckTime(a, at), id, ticket, at, presented) =>
                 Keeps(a, IssueInputTicket(a, id, ticket, at, presented))
<1> DEFINE b == IssueInputTicket(a, id, ticket, at, presented)
           c == CheckTime(a, at)
           k == FirstSlot(ReusableSlots(c.lease, at))
           n == [id |-> ticket, expires_at |-> TicketExpiry(c, at)]
           l == [c.lease EXCEPT !.tickets[k] = n]
<1>0. a \in SessionAuthorityType /\ c \in SessionAuthorityType
  BY CheckTimeSound DEF Sound, Settled
<1> USE <1>0
<1>1. Keeps(a, c) BY CheckTimeKeeps
<1> USE <1>1
<1>2. CASE ~ TicketIssuable(c, id, ticket, at, presented)
  <2>1. b = c BY <1>2 DEF IssueInputTicket
  <2> HIDE DEF b, c
  <2>2. Keeps(a, b) BY <2>1
  <2> QED BY <2>2 DEF Keeps, Adds, b, c
<1>3. CASE TicketIssuable(c, id, ticket, at, presented)
  <2> USE <1>3
  <2>1. c.lease # None /\ c.lease \in Lease
    BY DEF TicketIssuable, LeaseIs, SessionAuthorityType, Option
  <2> USE <2>1
  <2>2. b = [c EXCEPT !.lease = l] BY DEF IssueInputTicket
  <2>3. b.recovery = c.recovery /\ b.native_owner = c.native_owner /\ b.lease = l
    BY <2>2 DEF SessionAuthorityType
  <2> USE <2>3
  <2>4. c.lease.tickets \in Tickets BY DEF Lease
  <2>5. n.id = ticket /\ n \in Ticket
    <3>0. HasDeadline(at, TicketLifetime) BY DEF TicketIssuable
    <3>1. at + TicketLifetime \in Time BY <3>0, BoundsAssumption, SMTT(30) DEF HasDeadline, Time
    <3>2. c.observation_until \in Time /\ c.lease.authorized_until \in Time
      BY Times DEF TicketIssuable, ObservationLive
    <3> HIDE DEF c
    <3>3. TicketExpiry(c, at) \in Time
      BY <3>1, <3>2, TimesAreNaturals DEF TicketExpiry, Earliest
    <3> QED BY <3>3 DEF Ticket
  <2> HIDE DEF n, k
  <2>6. l.id = c.lease.id /\ l.tickets = [c.lease.tickets EXCEPT ![k] = n]
    BY DEF Lease
  <2>7. \A s \in Slots : l.tickets[s] \in {n, c.lease.tickets[s]}
    BY <2>4, <2>6 DEF Tickets
  <2>8. l \in Lease
    <3>1. [c.lease.tickets EXCEPT ![k] = n] \in Tickets BY <2>4, <2>5 DEF Tickets
    <3> QED BY <3>1 DEF Lease
  <2> HIDE DEF l, c, b
  <2>9. b.lease # None =>
          /\ a.lease # None /\ b.lease.id = a.lease.id
          /\ \A s \in Slots : \/ b.lease.tickets[s] \in {None, a.lease.tickets[s]}
                              \/ b.lease.tickets[s].id = ticket
    BY <2>5, <2>6, <2>7 DEF Keeps
  <2>10. l # None BY <2>8, NoneAssumption
  <2>11. Owned(a) => Owned(b) BY <2>10 DEF Keeps, Owned
  <2>12. Adds(a, b, ticket) BY <2>9, <2>11 DEF Keeps, Adds
  <2> QED BY <2>12 DEF b, c
<1> QED BY <1>2, <1>3

\* A lease granted where there was none comes without tickets and without owner.
LEMMA GrantFacts ==
    ASSUME NEW a, Sound(a), NEW at \in Time, NEW id, a.lease = None, Owned(a)
    PROVE  LET b == GrantLease(a, id, at)
           IN /\ b.recovery = a.recovery /\ b.native_owner = None
              /\ b.lease # None => \A s \in Slots : b.lease.tickets[s] = None
<1> DEFINE b == GrantLease(a, id, at)
           c == CheckTime(a, at)
           l == [id |-> id, tickets |-> NoTickets,
                 authorized_until |-> at + AuthorizationLifetime]
<1>0. a \in SessionAuthorityType /\ c \in SessionAuthorityType
  BY CheckTimeSound DEF Sound, Settled
<1>1. Keeps(a, c) BY <1>0, CheckTimeKeeps
<1>2. /\ b.recovery = c.recovery /\ b.native_owner = c.native_owner
      /\ b.lease \in {c.lease, l}
  BY <1>0 DEF GrantLease, SessionAuthorityType
<1>3. \A s \in Slots : l.tickets[s] = None BY DEF NoTickets
<1> HIDE DEF b, c, l
<1>4. c.lease = None /\ c.native_owner = None BY <1>1 DEF Keeps, Owned
<1> QED BY <1>1, <1>2, <1>3, <1>4 DEF Keeps, b

-----------------------------------------------------------------------------
(* Authorizations use the newest view and a ticket of the current mode.    *)

Stamped == \A s \in Slots : auth.lease.tickets[s] # None =>
               issued[auth.lease.tickets[s].id] = own.mode_epoch

Ticketless == \A s \in Slots : auth.lease.tickets[s] = None

\* While this owner can enter, every ticket of its lease was issued in the
\* current pointer mode, but for the moment between a change of mode and its
\* lock.  A view that was compared is still the newest, or the recovery that
\* overtook it has taken the tickets.
Current ==
    /\ DOMAIN issued = TicketIds
    /\ own.view <= Recovered(auth)
    /\ Owned(auth)
    /\ Enters /\ call.pc # "mode" => Stamped
    /\ call.pc = "authorize" /\ Mine(auth) =>
          call.request.view = Recovered(auth) \/ Ticketless

\* A step that adds no ticket and leaves view and mode alone.
LEMMA CurrentKept ==
    ASSUME Current, Keeps(auth, auth'), revoked => revoked',
           own'.view = own.view, own'.mode_epoch = own.mode_epoch, issued' = issued,
           call' = call \/ (call.pc # "mode" /\ call'.pc # "authorize")
    PROVE  Current'
<1>1. Recovered(auth') = Recovered(auth) BY DEF Keeps, Recovered
<1>2. Mine(auth') => Mine(auth) /\ auth'.lease # None /\ auth.lease # None
  BY CredentialsAssumption, NoneAssumption DEF Mine, LeaseIs, Keeps
<1> USE <1>2
<1>3. Enters' => Enters BY DEF Enters
<1>4. Mine(auth') /\ Stamped => Stamped' BY DEF Keeps, Stamped
<1>5. Mine(auth') /\ Ticketless => Ticketless' BY DEF Keeps, Ticketless
<1>6. Owned(auth') BY DEF Keeps, Current
<1>7. Enters' /\ call'.pc # "mode" => Stamped'
  BY <1>3, <1>4 DEF Current, Enters
<1>8. call'.pc = "authorize" /\ Mine(auth') =>
        call'.request.view = Recovered(auth') \/ Ticketless'
  BY <1>1, <1>5 DEF Current
<1> QED BY <1>1, <1>6, <1>7, <1>8 DEF Current

\* The other participants, but for recovery and a replacement grant, and the
\* owner's renewals.
LEMMA OutsideCurrent ==
    ASSUME IInv, Current,
           \/ UNCHANGED vars \/ Tick \/ WatchdogStatus \/ Revoke
           \/ TakeControlLease \/ DropControl
           \/ \E next \in {"ready", "challenge", "respond"} : ControlDeadline(next)
           \/ \E nonce \in Nonces : OwnerRenews(nonce) \/ ControlRenews(nonce)
    PROVE  Current'
<1>0. /\ Sound(auth) /\ auth \in SessionAuthorityType /\ now \in Time
      /\ control.sample \in Time
  BY DEF IInv, Sound, Settled, Timely
<1> USE <1>0
<1> DEFINE at == SerializedTime(auth, now)
           then == SerializedTime(auth, control.sample)
<1>1. at \in Time /\ then \in Time BY SerializedTyped
<1>2. own' = own /\ call' = call /\ issued' = issued
  BY DEF vars, Tick, WatchdogStatus, Revoke, TakeControlLease, DropControl,
     ControlDeadline, OwnerRenews, ControlRenews, Private
<1>3. revoked => revoked'
  BY DEF vars, Tick, WatchdogStatus, Revoke, TakeControlLease, DropControl,
     ControlDeadline, OwnerRenews, ControlRenews
<1>4. \/ auth' = auth \/ auth' = ControlStatusEffect(auth, now)
      \/ \E nonce \in Nonces :
            \/ auth' \in {IssueObservationChallenge(auth, nonce, at),
                          RespondObservationChallenge(auth, nonce, at),
                          IssueControlChallenge(auth, nonce, at),
                          RespondControlChallenge(auth, LeaseId, nonce, at)}
            \/ auth' \in {IssueControlChallenge(auth, nonce, then),
                          RespondControlChallenge(auth, LeaseId, nonce, then)}
  BY DEF vars, Tick, WatchdogStatus, Revoke, TakeControlLease, DropControl,
     ControlDeadline, OwnerRenews, ControlRenews
<1> HIDE DEF at, then
<1>5. Keeps(auth, auth')
  <2>1. CASE auth' = auth BY <2>1, SameKeeps
  <2>2. CASE auth' = ControlStatusEffect(auth, now) BY <2>2, ControlStatusKeeps
  <2>3. ASSUME NEW nonce \in Nonces, NEW t \in {at, then},
               auth' \in {IssueObservationChallenge(auth, nonce, t),
                         RespondObservationChallenge(auth, nonce, t),
                         IssueControlChallenge(auth, nonce, t),
                         RespondControlChallenge(auth, LeaseId, nonce, t)}
        PROVE  Keeps(auth, auth')
    <3> USE <2>3
    <3>1. t \in Time BY <1>1
    <3> QED BY <3>1, RenewalKeeps
  <2> QED BY <1>4, <2>1, <2>2, <2>3
<1> QED BY <1>2, <1>3, <1>5, CurrentKept

\* Media: only a new recovery moves the view, and it takes the tickets.
LEMMA MediaCurrent ==
    ASSUME IInv, Accounted, Current, MediaStep
    PROVE  Current'
<1>0. /\ Sound(auth) /\ auth \in SessionAuthorityType /\ now \in Time
      /\ SerializedTime(auth, now) \in Time /\ own.view \in Generations
  BY SerializedTyped DEF IInv, Sound, Settled, Timely, Accounted, OwnType
<1> USE <1>0
<1>1. own' = own /\ call' = call /\ issued' = issued /\ revoked' = revoked
  BY DEF MediaStep, Private
<1> USE <1>1
<1>2. ASSUME NEW generation \in Generations \ {0}, auth' = AdvanceRecovery(auth, generation)
      PROVE  Current'
  <2>1. CASE auth' = auth
    <3>1. Keeps(auth, auth') BY <2>1, SameKeeps
    <3> QED BY <3>1, CurrentKept
  <2>2. CASE auth' # auth
    <3>1. /\ auth' = [auth EXCEPT !.recovery = generation, !.presented_sequence = None,
                                  !.lease = WithoutTickets(@)]
          /\ auth.recovery = None \/ generation > auth.recovery
      BY <1>2, <2>2 DEF AdvanceRecovery
    <3>2. /\ auth'.recovery = generation /\ auth'.native_owner = auth.native_owner
          /\ auth'.lease = WithoutTickets(auth.lease)
      BY <3>1 DEF SessionAuthorityType
    <3> USE <3>2
    <3>3. auth.lease \in Option(Lease) /\ auth.recovery \in Option(Generations)
      BY DEF SessionAuthorityType
    <3> USE <3>3
    <3>4. (auth'.lease = None) <=> (auth.lease = None) BY WithoutTicketsFacts
    <3>5. auth'.lease # None => Ticketless' /\ Stamped'
      BY <3>4, WithoutTicketsFacts, SMTT(30) DEF Ticketless, Stamped
    <3>6. Owned(auth') BY <3>4 DEF Current, Owned
    <3>7. own'.view <= Recovered(auth')
      <4>1. generation \in Nat /\ generation # None /\ own.view \in Nat
        BY BoundsAssumption, NoneAssumption, SMTT(30) DEF Generations
      <4> USE <4>1
      <4>2. Recovered(auth) <= generation /\ Recovered(auth) \in Nat
        BY <3>1, BoundsAssumption, SMTT(30) DEF Recovered, Option, Generations
      <4>3. Recovered(auth') = generation BY DEF Recovered
      <4> QED BY <4>2, <4>3, SMTT(30) DEF Current
    <3>8. Mine(auth') => auth'.lease # None BY DEF Mine, LeaseIs
    <3> QED BY <3>5, <3>6, <3>7, <3>8 DEF Current, Enters
  <2> QED BY <2>1, <2>2
<1>3. CASE \/ auth' = MarkViewStale(auth)
           \/ \E until \in (now + 1)..MaxInstant :
                 auth' = MarkViewReadyUntil(auth, None, until, SerializedTime(auth, now))
           \/ auth' = RevokeLease(auth) \/ auth' = Close(auth)
  <2>1. Keeps(auth, auth') BY <1>3, ChangeKeeps
  <2> QED BY <2>1, CurrentKept
<1> QED BY <1>2, <1>3 DEF MediaStep

\* A replacement grant belongs to another owner.
LEMMA RegrantCurrent ==
    ASSUME IInv, Current, NEW ticket \in TicketIds, Regrant(ticket)
    PROVE  Current'
<1> DEFINE at == SerializedTime(auth, now)
           granted == GrantLease(auth, LeaseId, at)
           ticketed == IssueInputTicket(granted, LeaseId, ticket, at, FALSE)
<1>0. Sound(auth) /\ at \in Time /\ auth.lease = None /\ Owned(auth)
  BY SerializedTyped DEF IInv, Timely, Regrant, Current
<1> USE <1>0
<1>1. own' = own /\ call' = call /\ issued' = issued BY DEF Regrant, Private
<1> HIDE DEF at
<1>2. Sound(granted) /\ granted.recovery = auth.recovery /\ granted.native_owner = None
  BY GrantLeaseStep, GrantFacts, CredentialsAssumption
<1> USE <1>2
<1> HIDE DEF granted
<1>3. Sound(ticketed)
  BY IssueInputTicketStep, CredentialsAssumption
<1>4. ticketed.recovery = granted.recovery /\ ticketed.native_owner = None
  <2>1. Adds(granted, ticketed, ticket) BY IssueFacts
  <2> QED BY <2>1 DEF Adds
<1> HIDE DEF ticketed
<1>5. auth' = ClaimNativeOwner(ticketed, LeaseId, Other)
  BY DEF Regrant, at, granted, ticketed
<1>6. ticketed \in SessionAuthorityType BY <1>3 DEF Sound, Settled
<1>7. /\ auth'.recovery = auth.recovery
      /\ \/ auth'.native_owner = None
         \/ auth'.native_owner = Other /\ auth'.lease # None
  BY <1>4, <1>5, <1>6 DEF ClaimNativeOwner, LeaseIs, SessionAuthorityType
<1>8. ~ Mine(auth') /\ Owned(auth')
  BY <1>7, CredentialsAssumption, NoneAssumption DEF Mine, Owned
<1>9. Recovered(auth') = Recovered(auth) BY <1>7 DEF Recovered
<1> QED BY <1>1, <1>8, <1>9 DEF Current, Enters

\* A ticket is issued in the current mode, by an owner that follows recovery.
LEMMA TicketCurrent ==
    ASSUME IInv, Accounted, Current, NEW ticket \in TicketIds, NEW presented \in BOOLEAN,
           IssueTicket(ticket, presented)
    PROVE  Current'
<1> DEFINE at == SerializedTime(auth, now)
           issuable == TicketIssuable(CheckTime(auth, at), LeaseId, ticket, at, presented)
<1>0. /\ Sound(auth) /\ at \in Time /\ own \in OwnType /\ call.pc = "idle"
      /\ call' = call /\ revoked' = revoked /\ Enters
      /\ own' = [own EXCEPT !.view = FollowRecovery(@, auth)]
      /\ auth' = IssueInputTicket(auth, LeaseId, ticket, at, presented)
      /\ issued' = IF issuable THEN [issued EXCEPT ![ticket] = own.mode_epoch] ELSE issued
  BY SerializedTyped DEF IInv, Timely, Accounted, IssueTicket
<1> USE <1>0
<1> HIDE DEF at, issuable
<1>1. Adds(auth, auth', ticket) /\ (~ issuable => Keeps(auth, auth'))
  BY IssueFacts DEF issuable
<1> USE <1>1
<1>2. /\ own'.mode_epoch = own.mode_epoch /\ own'.view = FollowRecovery(own.view, auth)
  BY DEF OwnType
<1> USE <1>2
<1>3. Recovered(auth') = Recovered(auth) BY DEF Recovered, Adds
<1>4. own'.view <= Recovered(auth')
  <2>1. own.view \in Nat BY BoundsAssumption, SMTT(30) DEF OwnType, Generations
  <2>2. auth.recovery = None \/ auth.recovery \in Generations
    BY DEF Sound, Settled, SessionAuthorityType, Option
  <2>3. Recovered(auth) \in Nat
    BY <2>2, BoundsAssumption, SMTT(30) DEF Recovered, Generations
  <2>4. own.view <= Recovered(auth) BY DEF Current
  <2>5. own'.view = IF Recovered(auth) > own.view THEN Recovered(auth) ELSE own.view
    BY <2>1, <2>4 DEF FollowRecovery, Recovered
  <2> QED BY <1>3, <2>1, <2>3, <2>4, <2>5, SMTT(30)
<1>5. Stamped BY DEF Current
<1>6. auth'.lease # None => Stamped'
  <2>1. CASE issuable
    <3>1. issued' = [issued EXCEPT ![ticket] = own.mode_epoch] BY <2>1
    <3>2. \A t \in TicketIds : issued[t] = own.mode_epoch \/ t = ticket =>
                               issued'[t] = own.mode_epoch
      BY <3>1 DEF Current
    <3> SUFFICES ASSUME auth'.lease # None, NEW s \in Slots, auth'.lease.tickets[s] # None
                 PROVE  issued'[auth'.lease.tickets[s].id] = own.mode_epoch
      BY DEF Stamped
    <3>3. CASE auth'.lease.tickets[s].id = ticket BY <3>2, <3>3
    <3>4. CASE auth'.lease.tickets[s].id # ticket
      <4>1. auth.lease # None /\ auth'.lease.tickets[s] = auth.lease.tickets[s]
        BY <3>4 DEF Adds
      <4>2. auth.lease.tickets[s] \in Ticket
        BY <4>1 DEF Sound, Settled, SessionAuthorityType, Lease, Tickets, Option
      <4> QED BY <1>5, <3>2, <4>1, <4>2 DEF Stamped, Ticket
    <3> QED BY <3>3, <3>4
  <2>2. CASE ~ issuable
    <3>1. issued' = issued /\ Keeps(auth, auth') BY <2>2
    <3> QED BY <1>5, <3>1 DEF Stamped, Keeps
  <2> QED BY <2>1, <2>2
<1>7. Mine(auth') => auth'.lease # None BY DEF Mine, LeaseIs
<1>8. DOMAIN issued' = TicketIds BY DEF Current
<1> QED BY <1>4, <1>6, <1>7, <1>8 DEF Current, Enters, Adds

\* A step of the owner that changes neither view nor mode, out of the checks.
LEMMA PlainCurrent ==
    ASSUME Current, own \in OwnType, auth' = auth \/ Keeps(auth, auth'),
           revoked => revoked', issued' = issued,
           \/ own' = own
           \/ \E v : own' = [own EXCEPT !.pointer_floor = v]
           \/ \E v : own' = [own EXCEPT !.snapshot_floor = v]
           \/ \E v : own' = [own EXCEPT !.held = v],
           call.pc # "mode", call' = call \/ call'.pc # "authorize"
    PROVE  Current'
<1>1. own'.view = own.view /\ own'.mode_epoch = own.mode_epoch BY DEF OwnType
<1>2. Keeps(auth, auth') BY SameKeeps
<1> QED BY <1>1, <1>2, CurrentKept

\* dispatch, reconcile_held and cleanup start without the authority.
LEMMA StartCurrent ==
    ASSUME Accounted, Current,
           \/ \E request : DispatchPointer(request) \/ DispatchReliable(request)
           \/ \E sequence, next_action, keep : Reconcile(sequence, next_action, keep)
           \/ Cleanup
    PROVE  Current'
<1>0. own \in OwnType BY DEF Accounted
<1> USE <1>0
<1>1. ASSUME NEW request, DispatchPointer(request) PROVE Current'
  <2>1. /\ auth' = auth /\ revoked' = revoked /\ issued' = issued /\ call.pc = "idle"
        /\ own' = [own EXCEPT !.pointer_floor = request.sequence] /\ call'.pc = "view"
    BY <1>1 DEF DispatchPointer, Begin, IdleCall
  <2> QED BY <2>1, PlainCurrent
<1>2. ASSUME NEW request, DispatchReliable(request) PROVE Current'
  <2> USE <1>2
  <2>1. /\ auth' = auth /\ issued' = issued /\ call.pc = "idle"
        /\ own' = own /\ (call' = call \/ call'.pc = "view")
    BY DEF DispatchReliable, Begin, IdleCall
  <2>2. revoked => revoked' BY DEF DispatchReliable
  <2> QED BY <2>1, <2>2, PlainCurrent
<1>3. ASSUME NEW sequence, NEW next_action, NEW keep, Reconcile(sequence, next_action, keep)
      PROVE  Current'
  <2> USE <1>3
  <2>1. auth' = auth /\ issued' = issued /\ call.pc = "idle" BY DEF Reconcile
  <2>2. revoked => revoked' BY DEF Reconcile, RevokeOwner
  <2>3. CASE own' = own /\ call' = call BY <2>1, <2>2, <2>3, PlainCurrent
  <2>4. CASE /\ own' = [own EXCEPT !.snapshot_floor = sequence]
             /\ call' = [Begin("recheck", None) EXCEPT
                           !.plan = MissingReleases(own.held, keep), !.keep = keep]
    <3> USE <2>4
    <3>1. call'.pc = "recheck" BY DEF Begin, IdleCall
    <3> QED BY <2>1, <2>2, <3>1, PlainCurrent
  <2> QED BY <2>3, <2>4 DEF Reconcile
<1>4. ASSUME Cleanup PROVE Current'
  <2>1. /\ auth' = auth /\ revoked' /\ issued' = issued /\ call.pc = "idle"
        /\ own' = own /\ call'.pc = "releasing"
    BY <1>4 DEF Cleanup, RevokeOwner, StartRelease, Begin, IdleCall
  <2> QED BY <2>1, PlainCurrent
<1> QED BY <1>1, <1>2, <1>3, <1>4

LEMMA ContinueFacts ==
    ASSUME NEW c, Continue(c)
    PROVE  call' = c /\ (revoked => revoked')
  BY DEF Continue

\* The end of a native call, and the releases of a snapshot or a suspension.
LEMMA NativeCurrent ==
    ASSUME IInv, Accounted, Current,
           Submit \/ Recheck \/ Release \/ ReleaseHeld \/ Confirm \/ Maintain
    PROVE  Current'
<1>0. /\ Sound(auth) /\ auth \in SessionAuthorityType /\ now \in Time
      /\ SerializedTime(auth, now) \in Time /\ own \in OwnType /\ call \in CallType
  BY SerializedTyped DEF IInv, Sound, Settled, Timely, Accounted
<1> USE <1>0
<1>1. CASE Submit
  <2> USE <1>1
  <2> DEFINE done == [call EXCEPT !.plan = Tail(@), !.pc = "view",
                                  !.submitted = @ + 1, !.effects = @ + 1, !.previous = {}]
  <2>1. auth' = auth /\ issued' = issued /\ call.pc = "submit" BY DEF Submit
  <2>2. \/ own' = own \/ \E v : own' = [own EXCEPT !.held = v]
    BY DEF Submit
  <2>3. \/ \E c, refusal : Conclude(c, refusal)
        \/ Continue(done)
    BY DEF Submit
  <2>4. done.pc = "view" BY DEF CallType
  <2> HIDE DEF done
  <2>5. call'.pc # "authorize" /\ (revoked => revoked')
    <3>1. ASSUME NEW c, NEW refusal, Conclude(c, refusal)
          PROVE  call'.pc # "authorize" /\ (revoked => revoked')
      BY <3>1, ConcludeFacts, SMTT(30) DEF IdleCall
    <3>2. ASSUME Continue(done) PROVE call'.pc # "authorize" /\ (revoked => revoked')
      BY <2>4, <3>2, ContinueFacts
    <3> QED BY <2>3, <3>1, <3>2
  <2> QED BY <2>1, <2>2, <2>5, PlainCurrent
<1>2. CASE Recheck
  <2> USE <1>2
  <2>1. issued' = issued /\ own' = own /\ call.pc = "recheck" BY DEF Recheck
  <2>2. auth' = auth \/ auth' = CheckTime(auth, SerializedTime(auth, now))
    BY DEF Recheck
  <2>3. /\ revoked => revoked'
        /\ \/ call' = IdleCall
           \/ call' = [call EXCEPT !.pc = "release"]
           \/ call' = [call EXCEPT !.entered = TRUE]
    BY DEF Recheck, Abandon, Applied, RevokeOwner
  <2>4. call'.pc # "authorize" BY <2>1, <2>3, SMTT(30) DEF CallType, IdleCall
  <2> QED BY <2>1, <2>2, <2>3, <2>4, PlainCurrent, CheckTimeKeeps, SMTT(30)
<1>3. CASE Release
  <2> USE <1>3
  <2> DEFINE done == [call EXCEPT !.plan = Tail(@), !.pc = "recheck", !.submitted = @ + 1]
  <2>1. auth' = auth /\ issued' = issued /\ call.pc = "release" BY DEF Release
  <2>2. \/ own' = own \/ \E v : own' = [own EXCEPT !.held = v]
    BY DEF Release
  <2>3. revoked => revoked'
    <3>1. CASE Abandon BY <3>1 DEF Abandon, RevokeOwner
    <3>2. CASE ~ Abandon BY <3>2 DEF Release
    <3> QED BY <3>1, <3>2
  <2>4. call'.pc # "authorize"
    <3>1. call' = IdleCall \/ call' = done
      BY DEF Release, Abandon, Applied
    <3>2. done.pc = "recheck" /\ IdleCall.pc = "idle" BY DEF CallType, IdleCall
    <3> QED BY <3>1, <3>2
  <2> QED BY <2>1, <2>2, <2>3, <2>4, PlainCurrent
<1>4. CASE ReleaseHeld
  <2>1. /\ auth' = auth /\ issued' = issued /\ revoked' = revoked
        /\ call.pc = "releasing"
        /\ \E v : own' = [own EXCEPT !.held = v]
        /\ call' \in {Begin("confirm", None), IdleCall}
    BY <1>4 DEF ReleaseHeld
  <2>2. Begin("confirm", None).pc = "confirm" /\ IdleCall.pc = "idle"
    BY DEF Begin, IdleCall
  <2>3. call'.pc # "authorize" BY <2>1, <2>2
  <2> QED BY <2>1, <2>3, PlainCurrent
<1>5. CASE Confirm
  <2>1. /\ auth' = auth \/ auth' = ConfirmSuspensionRelease(auth, LeaseId)
        /\ issued' = issued /\ revoked' = revoked /\ own' = own
        /\ call.pc = "confirm" /\ call'.pc = "idle"
    BY <1>5 DEF Confirm, IdleCall
  <2>2. Keeps(auth, ConfirmSuspensionRelease(auth, LeaseId)) BY ChangeKeeps
  <2> QED BY <2>1, <2>2, PlainCurrent
<1>6. CASE Maintain
  <2>1. /\ auth' = auth \/ auth' = ControlStatusEffect(auth, now)
        /\ issued' = issued /\ own' = own /\ call.pc = "idle"
        /\ revoked => revoked'
        /\ call' = call \/ \E v : call' = StartRelease(v)
    BY <1>6 DEF Maintain, RevokeOwner
  <2>2. call' = call \/ call'.pc = "releasing"
    BY <2>1 DEF StartRelease, Begin, IdleCall
  <2>3. Keeps(auth, ControlStatusEffect(auth, now)) BY ControlStatusKeeps
  <2> QED BY <2>1, <2>2, <2>3, PlainCurrent
<1> QED BY <1>1, <1>2, <1>3, <1>4, <1>5, <1>6

\* The lock that compares the view follows recovery first.
LEMMA ViewCurrent ==
    ASSUME IInv, Accounted, Current, CheckView
    PROVE  Current'
<1> DEFINE view == FollowRecovery(own.view, auth)
           next == [call EXCEPT !.pc = "authorize", !.sample = now]
<1>0. /\ Sound(auth) /\ own \in OwnType /\ call \in CallType /\ call.pc = "view"
      /\ auth' = auth /\ issued' = issued
  BY DEF IInv, Accounted, CheckView
<1> USE <1>0
<1>1. ASSUME NEW refusal, Conclude(call, refusal), own' = own
      PROVE  Current'
  <2> USE <1>1
  <2>1. call'.pc = "idle" /\ (revoked => revoked') BY ConcludeFacts, SMTT(30) DEF IdleCall
  <2> QED BY <2>1, PlainCurrent
<1>2. view = Recovered(auth)
  <2>1. own.view \in Nat BY BoundsAssumption, SMTT(30) DEF OwnType, Generations
  <2>2. auth.recovery = None \/ auth.recovery \in Generations
    BY DEF Sound, Settled, SessionAuthorityType, Option
  <2>3. Recovered(auth) \in Nat BY <2>2, BoundsAssumption, SMTT(30) DEF Recovered, Generations
  <2> QED BY <2>1, <2>3, SMTT(30) DEF Current, FollowRecovery
<1>3. ASSUME own' = [own EXCEPT !.view = view], revoked => revoked',
             \/ call'.pc = "idle"
             \/ call' = next /\ call.request.view = view
      PROVE  Current'
  <2> USE <1>3
  <2>1. own'.view = view /\ own'.mode_epoch = own.mode_epoch BY DEF OwnType
  <2>2. next.pc = "authorize" /\ next.request = call.request BY DEF CallType
  <2> HIDE DEF view, next
  <2>3. Enters' => Enters BY DEF Enters, Mine, LeaseIs
  <2>4. Stamped => Stamped' BY <2>1 DEF Stamped
  <2>5. Recovered(auth') = Recovered(auth) OBVIOUS
  <2>6. own'.view <= Recovered(auth')
    <3>1. auth.recovery = None \/ auth.recovery \in Generations
      BY DEF Sound, Settled, SessionAuthorityType, Option
    <3>2. Recovered(auth) \in Nat BY <3>1, BoundsAssumption, SMTT(30) DEF Recovered, Generations
    <3> QED BY <1>2, <2>1, <2>5, <3>2, SMTT(30)
  <2>7. call'.pc = "authorize" => call'.request.view = Recovered(auth')
    BY <1>2, <2>2, <2>5
  <2> QED BY <2>3, <2>4, <2>6, <2>7 DEF Current
<1>4. ASSUME own' = [own EXCEPT !.view = view], Conclude(call, "StaleView")
      PROVE  Current'
  <2> USE <1>4
  <2>1. call'.pc = "idle" /\ (revoked => revoked') BY ConcludeFacts, SMTT(30) DEF IdleCall
  <2> QED BY <1>3, <2>1
<1>5. ASSUME own' = [own EXCEPT !.view = view], Continue(next), call.request.view = view
      PROVE  Current'
  BY <1>3, <1>5, ContinueFacts
<1> HIDE DEF next
<1> QED BY <1>1, <1>4, <1>5 DEF CheckView, next

\* The final lock: what follows it is an operation, a conclusion or a new mode.
LEMMA AuthorizeCurrent ==
    ASSUME IInv, Accounted, Current, Authorize
    PROVE  Current'
<1> DEFINE at == SerializedTime(auth, call.sample)
           op == Head(call.plan)
           native == [call EXCEPT !.pc = "submit", !.previous = own.held]
           mode == [call EXCEPT !.pc = "mode"]
<1>0. /\ Sound(auth) /\ auth \in SessionAuthorityType /\ at \in Time /\ own \in OwnType
      /\ call \in CallType /\ call.pc = "authorize" /\ issued' = issued
  <2>1. Sound(auth) /\ own \in OwnType /\ call \in CallType BY DEF IInv, Accounted
  <2>2. call.sample \in Time BY <2>1 DEF CallType
  <2> QED BY <2>1, <2>2, SerializedTyped DEF Sound, Settled, Authorize
<1> USE <1>0
<1>1. Keeps(auth, auth')
  <2>1. auth' = auth \/ auth' = CheckTime(auth, at) BY DEF Authorize
  <2> HIDE DEF at
  <2> QED BY <2>1, CheckTimeKeeps, SameKeeps
<1> USE <1>1
<1> HIDE DEF at
<1>2. ASSUME NEW c, NEW refusal, Conclude(c, refusal), own' = own
      PROVE  Current'
  <2> USE <1>2
  <2>1. call'.pc = "idle" /\ (revoked => revoked') BY ConcludeFacts, SMTT(30) DEF IdleCall
  <2> QED BY <2>1, PlainCurrent
<1>3. ASSUME own' = [own EXCEPT !.held = TrackBefore(@, op)], Continue(native)
      PROVE  Current'
  <2> USE <1>3
  <2>1. native.pc = "submit" BY DEF CallType
  <2>2. call'.pc = "submit" /\ (revoked => revoked') BY <2>1, ContinueFacts
  <2> QED BY <2>2, PlainCurrent
<1>4. ASSUME NEW epoch \in 0..MaxEpoch, NEW barrier \in 0..MaxPointer,
             NEW valid \in BOOLEAN, NEW moves \in BOOLEAN,
             Execute(epoch, barrier, valid, moves)
      PROVE  Current'
  <2> DEFINE plan == Plan(call.request.event)
             first == [call EXCEPT !.pc = "view", !.entered = TRUE,
                                   !.plan = plan, !.planned = Len(plan)]
  <2>1. \/ \E refusal : Conclude(call, refusal) /\ own' = own
        \/ /\ \E m, e : own' = [own EXCEPT !.mode = m, !.mode_epoch = e]
           /\ Continue(mode)
        \/ /\ own' = own \/ \E v : own' = [own EXCEPT !.pointer_floor = v]
           /\ Continue(first)
    BY <1>4 DEF Execute
  <2>2. ASSUME NEW m, NEW e, own' = [own EXCEPT !.mode = m, !.mode_epoch = e], Continue(mode)
        PROVE  Current'
    <3> USE <2>2
    <3>1. mode.pc = "mode" BY DEF CallType
    <3>2. call'.pc = "mode" BY <3>1, ContinueFacts
    <3>3. own'.view = own.view BY DEF OwnType
    <3> QED BY <3>2, <3>3 DEF Current, Keeps, Recovered
  <2>3. ASSUME own' = own \/ \E v : own' = [own EXCEPT !.pointer_floor = v], Continue(first)
        PROVE  Current'
    <3> USE <2>3
    <3>1. first.pc = "view" BY DEF CallType
    <3> HIDE DEF first
    <3>2. call'.pc = "view" /\ (revoked => revoked') BY <3>1, ContinueFacts
    <3> QED BY <3>2, PlainCurrent
  <2> HIDE DEF first, mode
  <2> QED BY <1>2, <2>1, <2>2, <2>3
<1> QED BY <1>2, <1>3, <1>4 DEF Authorize

\* A change of mode ends with its tickets gone or its owner revoked.
LEMMA ModeCurrent ==
    ASSUME IInv, Accounted, Current, ChangeMode
    PROVE  Current'
<1>0. /\ auth \in SessionAuthorityType /\ Sound(auth) /\ now \in Time
      /\ own' = own /\ issued' = issued
  BY DEF IInv, Sound, Settled, Timely, ChangeMode
<1> USE <1>0
<1>1. call'.pc = "idle" BY ConcludeFacts, SMTT(30) DEF ChangeMode, IdleCall
<1>2. ASSUME revoked', auth' = auth PROVE Current'
  BY <1>1, <1>2 DEF Current, Enters
<1>3. ASSUME Conclude(call, "StaleLease") PROVE revoked'
  <2>1. OutcomeOf(call, "StaleLease") \notin Successes BY DEF OutcomeOf, Successes
  <2> QED BY <1>3, <2>1 DEF Conclude
<1>4. ASSUME Enters, auth' = InvalidateInputTickets(auth, LeaseId) PROVE Current'
  <2>1. /\ auth'.recovery = auth.recovery /\ auth'.native_owner = auth.native_owner
        /\ auth'.lease = WithoutTickets(auth.lease)
    BY <1>4 DEF InvalidateInputTickets, SessionAuthorityType, Enters, Mine
  <2> USE <2>1
  <2>2. auth.lease \in Option(Lease) BY DEF SessionAuthorityType
  <2>3. auth'.lease # None => auth'.lease.tickets = NoTickets
    BY <2>2, ClearedTickets
  <2>4. auth'.lease # None => Stamped' BY <2>3 DEF Stamped, NoTickets
  <2>5. Owned(auth') BY <2>2, ClearedTickets DEF Current, Owned
  <2>6. Mine(auth') => auth'.lease # None BY DEF Mine, LeaseIs
  <2>7. Recovered(auth') = Recovered(auth) BY DEF Recovered
  <2> QED BY <1>1, <2>4, <2>5, <2>6, <2>7 DEF Current, Enters
<1>5. revoked => revoked' BY ConcludeFacts DEF ChangeMode
<1> QED BY <1>2, <1>3, <1>4, <1>5 DEF ChangeMode, ModeInvalidates

LEMMA StaysCurrent ==
    ASSUME IInv, Accounted, Current, [Next]_vars
    PROVE  Current'
<1>1. CASE \/ UNCHANGED vars \/ Tick \/ WatchdogStatus \/ Revoke
           \/ TakeControlLease \/ DropControl
           \/ \E next \in {"ready", "challenge", "respond"} : ControlDeadline(next)
           \/ \E nonce \in Nonces : OwnerRenews(nonce) \/ ControlRenews(nonce)
  BY <1>1, OutsideCurrent
<1>2. CASE MediaStep BY <1>2, MediaCurrent
<1>3. ASSUME NEW ticket \in TicketIds, Regrant(ticket) PROVE Current'
  BY <1>3, RegrantCurrent
<1>4. ASSUME NEW ticket \in TicketIds, NEW presented \in BOOLEAN, IssueTicket(ticket, presented)
      PROVE  Current'
  BY <1>4, TicketCurrent
<1>5. CASE Dispatch BY <1>5, StartCurrent DEF Dispatch
<1>6. CASE \E sequence \in Snapshots, next_action \in SequenceNumbers,
              keep \in SUBSET {"key", "button"} : Reconcile(sequence, next_action, keep)
  BY <1>6, StartCurrent
<1>7. CASE Cleanup BY <1>7, StartCurrent
<1>8. CASE Submit \/ Recheck \/ Release \/ ReleaseHeld \/ Confirm \/ Maintain
  BY <1>8, NativeCurrent
<1>9. CASE CheckView BY <1>9, ViewCurrent
<1>10. CASE Authorize BY <1>10, AuthorizeCurrent
<1>11. CASE ChangeMode BY <1>11, ModeCurrent
<1> QED BY <1>1, <1>2, <1>3, <1>4, <1>5, <1>6, <1>7, <1>8, <1>9, <1>10, <1>11
        DEF Next, OwnerStep

\* The first ticket is granted in the first mode, before any recovery.
LEMMA InitCurrent == Init => Current
<1> SUFFICES ASSUME Init PROVE Current OBVIOUS
<1>0. 0 \in Time BY BoundsAssumption, SMTT(30) DEF Time
<1> USE <1>0
<1>1. PICK until \in Time \ {0} : auth = Granted(FirstTicket, until) BY DEF Init
<1> DEFINE capable == MarkCapabilitiesChecked(NewAuthority)
           observed == AuthorizeObservation(capable, 0)
           required == RequireViewEvidence(observed, 0)
           ready == MarkViewReadyUntil(required, None, until, 0)
           leased == GrantLease(ready, LeaseId, 0)
           ticketed == IssueInputTicket(leased, LeaseId, FirstTicket, 0, FALSE)
           checked == CheckTime(ticketed, 0)
<1>2. Sound(capable) /\ Keeps(NewAuthority, capable)
  <2>1. NewAuthority.phase = "Identified" BY DEF NewAuthority
  <2>2. Sound(capable) BY <2>1, NewSound, LifecycleStep DEF MarkCapabilitiesChecked
  <2> QED BY <2>2, NewSound, OpeningKeeps
<1> HIDE DEF capable
<1>3. Sound(observed) /\ Keeps(capable, observed)
  BY <1>2, AuthorizeObservationStep, OpeningKeeps
<1> HIDE DEF observed
<1>4. Sound(required) /\ Keeps(observed, required)
  BY <1>3, RequireViewEvidenceStep, OpeningKeeps
<1> HIDE DEF required
<1>5. Sound(ready) /\ Keeps(required, ready)
  BY <1>4, MarkViewReadyUntilStep, ChangeKeeps DEF Option
<1> HIDE DEF ready
<1>6. /\ NewAuthority.lease = None /\ NewAuthority.recovery = None
      /\ NewAuthority.native_owner = None /\ Owned(NewAuthority)
  BY DEF NewAuthority, Owned
<1>7. ready.lease = None /\ ready.recovery = None /\ Owned(ready)
  <2>1. Keeps(NewAuthority, ready) BY <1>2, <1>3, <1>4, <1>5, KeepsTrans
  <2> QED BY <1>6, <2>1 DEF Keeps
<1>8. /\ Sound(leased) /\ leased.recovery = None /\ leased.native_owner = None
      /\ leased.lease # None => \A s \in Slots : leased.lease.tickets[s] = None
  BY <1>5, <1>7, GrantLeaseStep, GrantFacts, CredentialsAssumption, SMTT(30)
<1> USE <1>8
<1> HIDE DEF leased
<1>9. Sound(ticketed) /\ Adds(leased, ticketed, FirstTicket)
  BY IssueInputTicketStep, IssueFacts, CredentialsAssumption
<1> USE <1>9
<1> HIDE DEF ticketed
<1>10. Sound(checked) /\ Keeps(ticketed, checked)
  BY CheckTimeSound, CheckTimeKeeps DEF Sound, Settled
<1> USE <1>10
<1> HIDE DEF checked
<1>11. auth = ClaimNativeOwner(checked, LeaseId, Me)
  BY <1>1 DEF Granted, AuthorizeSubmission, capable, observed, required, ready,
              leased, ticketed, checked
<1>12. /\ auth.recovery = None /\ auth.lease = checked.lease
       /\ auth.native_owner # None => auth.lease # None
  <2>1. checked \in SessionAuthorityType BY DEF Sound, Settled
  <2>2. checked.recovery = None /\ checked.native_owner = None
    BY DEF Adds, Keeps
  <2> QED BY <1>11, <2>1, <2>2 DEF ClaimNativeOwner, LeaseIs, SessionAuthorityType
<1> USE <1>12
<1>13. auth.lease # None =>
         \A s \in Slots : auth.lease.tickets[s] # None => auth.lease.tickets[s].id = FirstTicket
  BY DEF Adds, Keeps
<1>14. issued[FirstTicket] = 0 /\ DOMAIN issued = TicketIds
  BY CredentialsAssumption DEF Init
<1>15. own.view = 0 /\ own.mode_epoch = 0 /\ call.pc = "idle" BY DEF Init, IdleCall
<1> USE <1>15
<1>16. Mine(auth) => auth.lease # None BY DEF Mine, LeaseIs
<1>17. own.view <= Recovered(auth) BY SMTT(30) DEF Recovered
<1>18. Enters => Stamped
  <2>1. SUFFICES ASSUME Enters PROVE Stamped OBVIOUS
  <2>2. auth.lease # None BY <1>16, <2>1 DEF Enters
  <2> QED BY <1>13, <1>14, <2>2 DEF Stamped
<1>19. Owned(auth) BY DEF Owned
<1>20. call.pc # "authorize" OBVIOUS
<1> QED BY <1>14, <1>17, <1>18, <1>19, <1>20 DEF Current

\* Between the comparison of a view, the authorization and the change of a mode
\* no ticket of another mode and no overtaken view is left to this owner.
THEOREM GrantStaysCurrent == Spec => []Current
<1>1. Init => Current BY InitCurrent
<1>2. IInv /\ Accounted /\ Current /\ [Next]_vars => Current' BY StaysCurrent
<1> QED BY <1>1, <1>2, OwnerSound, BooksAreKept, PTL DEF Spec

\* Only the final lock authorizes, and only with a ticket the lease held.
LEMMA AuthorizesStep ==
    ASSUME IInv, Accounted, Current, [Next]_vars, Authorizes
    PROVE  /\ call.request.view = Recovered(auth')
           /\ issued[call.request.ticket] = own.mode_epoch
<1> DEFINE at == SerializedTime(auth, call.sample)
           checked == CheckTime(auth, at)
           ticket == call.request.ticket
<1>1. Authorize
  <2>1. call.pc = "authorize" /\ call' # call BY DEF Authorizes
  <2> USE <2>1
  <2>2. ~ UNCHANGED vars BY DEF vars
  <2>3. /\ ~ Tick /\ ~ WatchdogStatus /\ ~ Revoke /\ ~ MediaStep /\ ~ TakeControlLease
        /\ ~ DropControl /\ \A next : ~ ControlDeadline(next)
        /\ \A nonce : ~ OwnerRenews(nonce) /\ ~ ControlRenews(nonce)
        /\ \A t : ~ Regrant(t) /\ \A presented : ~ IssueTicket(t, presented)
    BY DEF Tick, WatchdogStatus, Revoke, MediaStep, TakeControlLease, DropControl,
       ControlDeadline, OwnerRenews, ControlRenews, Regrant, IssueTicket, Private
  <2>4. ~ Dispatch BY SMTT(30) DEF Dispatch, DispatchPointer, DispatchReliable
  <2>5. /\ \A sequence, next_action, keep : ~ Reconcile(sequence, next_action, keep)
        /\ ~ Cleanup /\ ~ Maintain /\ ~ CheckView /\ ~ ChangeMode /\ ~ Submit
        /\ ~ Recheck /\ ~ Release /\ ~ ReleaseHeld /\ ~ Confirm
    BY DEF Reconcile, Cleanup, Maintain, CheckView, ChangeMode, Submit, Recheck, Release,
       ReleaseHeld, Confirm
  <2> QED BY <2>2, <2>3, <2>4, <2>5 DEF Next, OwnerStep
<1>2. call.pc = "authorize" /\ ~ \E c, refusal : Conclude(c, refusal)
  BY ConcludeFacts, SMTT(30) DEF Authorizes, IdleCall
<1> USE <1>2
<1>3. Enters /\ auth' = checked /\ SubmissionAllowed(checked, LeaseId, ticket, at)
  BY <1>1 DEF Authorize
<1> USE <1>3
<1>4. Sound(auth) /\ auth \in SessionAuthorityType /\ at \in Time
  <2>1. Sound(auth) /\ call \in CallType BY DEF IInv, Accounted
  <2>2. call.sample \in Time BY <2>1 DEF CallType
  <2> QED BY <2>1, <2>2, SerializedTyped DEF Sound, Settled
<1>5. Keeps(auth, checked) BY <1>4, CheckTimeKeeps
<1> HIDE DEF checked
<1>6. PICK s \in Slots : Holds(checked, s, ticket) BY DEF SubmissionAllowed
<1>7. /\ checked.lease # None
      /\ auth.lease.tickets[s] # None /\ auth.lease.tickets[s].id = ticket
  BY <1>5, <1>6 DEF SubmissionAllowed, LeaseIs, Holds, Keeps
<1>8. issued[ticket] = own.mode_epoch BY <1>7 DEF Current, Stamped
<1>9. call.request.view = Recovered(auth)
  BY <1>7 DEF Current, Ticketless, Enters
<1>10. Recovered(auth') = Recovered(auth) BY <1>5 DEF Keeps, Recovered
<1> QED BY <1>8, <1>9, <1>10

\* A request passes the final lock of check() only with the view of the newest
\* recovery, although its view is compared under an earlier lock, and only with
\* a ticket issued since the newest change of pointer mode (check,
\* advance_recovery, invalidate_input_tickets).
THEOREM AuthorizationsAreCurrent == Spec => AuthorizedIsCurrent
<1> DEFINE current == /\ call.request.view = Recovered(auth')
                      /\ issued[call.request.ticket] = own.mode_epoch
<1>1. IInv /\ Accounted /\ Current /\ [Next]_vars => [Authorizes => current]_vars
  BY AuthorizesStep
<1> QED BY <1>1, OwnerSound, BooksAreKept, GrantStaysCurrent, PTL DEF Spec, AuthorizedIsCurrent

=============================================================================
