---------------------------- MODULE AuthorityLemmas ----------------------------
(***************************************************************************)
(* What every operator of Authority preserves, for every value of the      *)
(* constants.                                                              *)
(*                                                                         *)
(* Sound is the inductive invariant of the authority record, in named      *)
(* parts, and Progress is what one call may change.  There is one lemma    *)
(* per operator.  A method passes through a state between check_time and   *)
(* its own effect, so the lemmas are about operators on records and        *)
(* compose the way the code does.                                          *)
(***************************************************************************)
EXTENDS Authority, TLAPS

\* A recorded view deadline lies ahead of the last checked sample.
ViewAhead(a) ==
    a.view_until # None =>
        /\ a.bounded_view
        /\ a.readiness = "Ready"
        /\ a.last_checked # None /\ a.last_checked < a.view_until

\* A suspension stands for exactly the loss of a held lease's view.
Suspended(a) ==
    (a.suspension # None) <=>
        (a.lease # None /\ a.bounded_view /\ a.readiness # "Ready")

\* Authority of any kind exists only while observing.
Staged(a) ==
    /\ a.phase \notin Observing => HoldsNothing(a)
    /\ a.clock_faulted => a.phase \in Terminal
    /\ a.readiness = "Ready" => a.phase = "Viewing"

\* A deadline lies at most one lifetime past the last checked sample, and a
\* pending challenge carries a deadline no earlier than the one it renews.
Dated(a) ==
    /\ a.observation_until # None =>
          /\ a.last_checked # None
          /\ a.observation_until <= a.last_checked + AuthorizationLifetime
    /\ a.lease # None =>
          /\ a.last_checked # None
          /\ a.observation_until # None
          /\ a.lease.authorized_until <= a.last_checked + AuthorizationLifetime
    /\ a.observation_challenge # None =>
          /\ a.observation_until # None
          /\ a.observation_until <= a.observation_challenge.deadline
          /\ a.observation_challenge.deadline <= a.last_checked + AuthorizationLifetime
    /\ a.control_challenge # None =>
          /\ a.lease # None
          /\ a.lease.authorized_until <= a.control_challenge.deadline
          /\ a.control_challenge.deadline <= a.last_checked + AuthorizationLifetime

\* Tickets exist only under a ready view and within lease and observation.
Ticketed(a) ==
    a.lease # None =>
        \A s \in Slots : a.lease.tickets[s] # None =>
            /\ a.readiness = "Ready"
            /\ a.observation_until # None
            /\ a.lease.tickets[s].expires_at <= a.lease.authorized_until
            /\ a.lease.tickets[s].expires_at <= a.observation_until
            /\ \A r \in Slots \ {s} : a.lease.tickets[r] # None =>
                  a.lease.tickets[r].id # a.lease.tickets[s].id

\* Everything but the view deadline, as it holds inside check_time.
Settled(a) ==
    /\ a \in SessionAuthorityType
    /\ Suspended(a)
    /\ Staged(a)
    /\ Dated(a)
    /\ Ticketed(a)

Sound(a) == Settled(a) /\ ViewAhead(a)

-----------------------------------------------------------------------------
(* Removing authority.                                                     *)

\* A fresh authority is sound.
LEMMA NewSound == Sound(NewAuthority)
  BY BoundsAssumption, NoneAssumption
  DEF NewAuthority, Sound, Settled, SessionAuthorityType, Suspended, Staged,
      Dated, Ticketed, ViewAhead, HoldsNothing, Observing, Phases,
      ViewReadiness, Option

\* clear_authority followed by any phase outside observation is sound, which
\* covers close, refuse and drop_observation.
LEMMA ClearSound ==
    ASSUME NEW a, a \in SessionAuthorityType,
           NEW p \in Phases \ Observing, a.clock_faulted => p \in Terminal
    PROVE  Sound([ClearAuthority(a) EXCEPT !.phase = p])
<1> DEFINE b == [ClearAuthority(a) EXCEPT !.phase = p]
<1>1. b \in SessionAuthorityType
  BY ZenonT(60) DEF ClearAuthority, SessionAuthorityType, Option, ViewReadiness
<1>2. HoldsNothing(b) /\ b.phase = p /\ b.clock_faulted = a.clock_faulted
  BY DEF ClearAuthority, SessionAuthorityType, HoldsNothing
<1> HIDE DEF b
<1>3. Sound(b)
  BY <1>1, <1>2 DEF Sound, Settled, ViewAhead, Suspended, Staged, Dated,
                    Ticketed, HoldsNothing
<1> QED BY <1>3 DEF b

\* close leaves a sound, closed record.
LEMMA CloseSound ==
    ASSUME NEW a, a \in SessionAuthorityType
    PROVE  Sound(Close(a)) /\ Close(a).phase = "Closed"
<1>1. Sound(Close(a))
  BY ClearSound DEF Close, Phases, Observing, Terminal
<1>2. Close(a).phase = "Closed"
  BY DEF Close, ClearAuthority, SessionAuthorityType
<1> QED BY <1>1, <1>2

\* refuse leaves a sound, refused record.
LEMMA RefuseSound ==
    ASSUME NEW a, a \in SessionAuthorityType
    PROVE  Sound(Refuse(a)) /\ Refuse(a).phase = "Refused"
<1>1. Sound(Refuse(a))
  BY ClearSound DEF Refuse, Phases, Observing, Terminal
<1>2. Refuse(a).phase = "Refused"
  BY DEF Refuse, ClearAuthority, SessionAuthorityType
<1> QED BY <1>1, <1>2

\* drop_observation is sound and never leaves a terminal phase.
LEMMA DropSound ==
    ASSUME NEW a, Sound(a)
    PROVE  /\ Sound(DropObservation(a))
           /\ a.phase \in Terminal => DropObservation(a).phase \in Terminal
           /\ DropObservation(a).last_checked = a.last_checked
           /\ DropObservation(a).clock_faulted = a.clock_faulted
<1> DEFINE p == IF a.phase \in Observing THEN "CapabilitiesChecked" ELSE a.phase
<1>0. a \in SessionAuthorityType /\ Staged(a)
  BY DEF Sound, Settled
<1>1. ClearAuthority(a).phase = a.phase
  BY <1>0 DEF ClearAuthority, SessionAuthorityType
<1>2. DropObservation(a) = [ClearAuthority(a) EXCEPT !.phase = p]
  BY <1>1 DEF DropObservation
<1>3. p \in Phases \ Observing /\ (a.clock_faulted => p \in Terminal)
  BY <1>0 DEF SessionAuthorityType, Staged, Phases, Observing, Terminal
<1>4. a.phase \in Terminal => p \in Terminal
  BY DEF Terminal, Observing
<1> HIDE DEF p
<1>5. Sound(DropObservation(a))
  BY <1>0, <1>2, <1>3, ClearSound
<1>6. /\ DropObservation(a).phase = p
      /\ DropObservation(a).last_checked = a.last_checked
      /\ DropObservation(a).clock_faulted = a.clock_faulted
  BY <1>0, <1>2 DEF ClearAuthority, SessionAuthorityType
<1> QED BY <1>4, <1>5, <1>6

\* revoke_lease is sound and keeps the phase.
LEMMA RevokeSound ==
    ASSUME NEW a, Sound(a)
    PROVE  /\ Sound(RevokeLease(a))
           /\ RevokeLease(a).phase = a.phase
           /\ RevokeLease(a).last_checked = a.last_checked
           /\ RevokeLease(a).clock_faulted = a.clock_faulted
<1> DEFINE b == RevokeLease(a)
<1>0. a \in SessionAuthorityType BY DEF Sound, Settled
<1>1. b \in SessionAuthorityType
  BY Zenon, <1>0 DEF RevokeLease, SessionAuthorityType, Option
<1>2. /\ b.lease = None /\ b.suspension = None /\ b.native_owner = None
      /\ b.control_challenge = None
      /\ b.phase = a.phase /\ b.observation_until = a.observation_until
      /\ b.readiness = a.readiness /\ b.view_until = a.view_until
      /\ b.bounded_view = a.bounded_view
      /\ b.observation_challenge = a.observation_challenge
      /\ b.last_checked = a.last_checked /\ b.clock_faulted = a.clock_faulted
  BY <1>0 DEF RevokeLease, SessionAuthorityType
<1> HIDE DEF b
<1>3. Sound(b)
  BY <1>1, <1>2 DEF Sound, Settled, ViewAhead, Suspended, Staged, Dated,
                    Ticketed, HoldsNothing
<1> QED BY <1>2, <1>3 DEF b

-----------------------------------------------------------------------------
(* Losing the view, and check_time.                                        *)

\* Dropping the tickets keeps the lease, its identity and its deadline.
LEMMA WithoutTicketsFacts ==
    ASSUME NEW l \in Option(Lease)
    PROVE  /\ WithoutTickets(l) \in Option(Lease)
           /\ (WithoutTickets(l) = None) <=> (l = None)
           /\ l # None => /\ WithoutTickets(l).id = l.id
                          /\ WithoutTickets(l).authorized_until = l.authorized_until
                          /\ \A s \in Slots : WithoutTickets(l).tickets[s] = None
<1>1. CASE l = None
  BY <1>1 DEF WithoutTickets, Option
<1>2. CASE l # None
  <2> DEFINE w == [l EXCEPT !.tickets = NoTickets]
  <2>1. l \in Lease BY <1>2 DEF Option
  <2>2. NoTickets \in Tickets /\ \A s \in Slots : NoTickets[s] = None
    BY DEF NoTickets, Tickets
  <2>3. w \in Lease /\ w.id = l.id /\ w.authorized_until = l.authorized_until
        /\ w.tickets = NoTickets
    BY <2>1, <2>2 DEF Lease
  <2>4. w # None BY <2>3, NoneAssumption
  <2>5. WithoutTickets(l) = w BY <1>2 DEF WithoutTickets
  <2> QED BY <1>2, <2>2, <2>3, <2>4, <2>5 DEF Option
<1> QED BY <1>1, <1>2

\* lapse_view restores soundness even when the view deadline has passed.
LEMMA LapseSound ==
    ASSUME NEW a, Settled(a), NEW at \in Time
    PROVE  /\ Sound(LapseView(a, at))
           /\ LapseView(a, at).phase = a.phase
           /\ LapseView(a, at).last_checked = a.last_checked
           /\ LapseView(a, at).clock_faulted = a.clock_faulted
           /\ LapseView(a, at).observation_until = a.observation_until
           /\ LapseView(a, at).observation_challenge = a.observation_challenge
           /\ LapseView(a, at).control_challenge = a.control_challenge
           /\ LapseView(a, at).lease = WithoutTickets(a.lease)
           /\ LapseView(a, at).bounded_view = a.bounded_view
           /\ LapseView(a, at).native_owner = a.native_owner
           /\ a.suspension # None => LapseView(a, at).suspension = a.suspension
<1> DEFINE b == LapseView(a, at)
           r == IF a.readiness = "Ready" THEN "Stale" ELSE a.readiness
           u == IF /\ a.readiness = "Ready" /\ a.bounded_view
                   /\ a.lease # None /\ a.suspension = None
                THEN [since |-> at, released |-> FALSE] ELSE a.suspension
           l == WithoutTickets(a.lease)
<1>0. a \in SessionAuthorityType BY DEF Settled
<1>1. r \in ViewReadiness /\ r # "Ready" /\ (a.readiness = "Unready" => r = "Unready")
  BY <1>0 DEF SessionAuthorityType, ViewReadiness
<1>2. a.lease \in Option(Lease) BY <1>0 DEF SessionAuthorityType
<1>3. /\ l \in Option(Lease)
      /\ (l = None) <=> (a.lease = None)
      /\ a.lease # None => /\ l.authorized_until = a.lease.authorized_until
                           /\ \A s \in Slots : l.tickets[s] = None
  BY <1>2, WithoutTicketsFacts
<1>4. u \in Option(Suspension)
  BY <1>0 DEF SessionAuthorityType, Suspension, Option
<1>5. (u # None) <=> (a.lease # None /\ a.bounded_view)
  <2>1. [since |-> at, released |-> FALSE] # None
    <3>1. [since |-> at, released |-> FALSE] \in Suspension
      BY DEF Suspension
    <3> QED BY Zenon, <3>1, NoneAssumption
  <2> QED BY <2>1 DEF Settled, Suspended
<1>6. b = [a EXCEPT !.view_until = None, !.presented_sequence = None,
                    !.readiness = r, !.suspension = u, !.lease = l]
  BY DEF LapseView
<1> HIDE DEF b, r, u, l
<1>7. b \in SessionAuthorityType
  BY ZenonT(60), <1>0, <1>1, <1>3, <1>4, <1>6 DEF SessionAuthorityType, Option
<1>8. /\ b.view_until = None /\ b.readiness = r /\ b.suspension = u
      /\ b.lease = l /\ b.phase = a.phase
      /\ b.observation_until = a.observation_until
      /\ b.bounded_view = a.bounded_view /\ b.native_owner = a.native_owner
      /\ b.observation_challenge = a.observation_challenge
      /\ b.control_challenge = a.control_challenge
      /\ b.last_checked = a.last_checked /\ b.clock_faulted = a.clock_faulted
  BY <1>0, <1>6 DEF SessionAuthorityType
<1>9. Suspended(b)
  BY <1>1, <1>3, <1>5, <1>8 DEF Suspended
<1>10. Staged(b)
  <2>1. HoldsNothing(a) => HoldsNothing(b)
    BY <1>1, <1>3, <1>5, <1>8 DEF HoldsNothing
  <2> QED BY <1>1, <1>8, <2>1 DEF Settled, Staged
<1>11. Dated(b)
  BY <1>3, <1>8 DEF Settled, Dated
<1>12. Ticketed(b) /\ ViewAhead(b)
  BY <1>3, <1>8 DEF Ticketed, ViewAhead
<1>13. Sound(b)
  BY <1>7, <1>9, <1>10, <1>11, <1>12 DEF Sound, Settled
<1>14. a.suspension # None => b.suspension = a.suspension
  BY <1>8 DEF u
<1> QED BY <1>8, <1>13, <1>14 DEF b, l

\* mark_view_stale is sound.
LEMMA StaleSound ==
    ASSUME NEW a, Settled(a)
    PROVE  /\ Sound(MarkViewStale(a))
           /\ MarkViewStale(a).phase = a.phase
<1>1. (IF a.last_checked = None THEN 0 ELSE a.last_checked) \in Time
  BY BoundsAssumption DEF Settled, SessionAuthorityType, Option, Time
<1> QED BY <1>1, LapseSound DEF MarkViewStale

\* Moving the high-water mark forward can only strand a view deadline.
LEMMA AdvanceSettled ==
    ASSUME NEW a, Settled(a), NEW now \in Time, ~ ClockRegressed(a, now)
    PROVE  Settled([a EXCEPT !.last_checked = now])
<1> DEFINE b == [a EXCEPT !.last_checked = now]
<1>0. a \in SessionAuthorityType BY DEF Settled
<1>1. b \in SessionAuthorityType
  BY <1>0 DEF SessionAuthorityType, Option
<1>2. /\ b.last_checked = now /\ b.phase = a.phase /\ b.lease = a.lease
      /\ b.observation_until = a.observation_until
      /\ b.readiness = a.readiness /\ b.view_until = a.view_until
      /\ b.bounded_view = a.bounded_view /\ b.suspension = a.suspension
      /\ b.native_owner = a.native_owner
      /\ b.observation_challenge = a.observation_challenge
      /\ b.control_challenge = a.control_challenge
      /\ b.clock_faulted = a.clock_faulted
  BY <1>0 DEF SessionAuthorityType
<1> HIDE DEF b
<1>3. Suspended(b) /\ Ticketed(b)
  BY <1>2 DEF Settled, Suspended, Ticketed
<1>4. Staged(b)
  BY <1>2 DEF Settled, Staged, HoldsNothing
<1>5. Dated(b)
  <2>1. now \in Int /\ now # None /\ AuthorizationLifetime \in Int
    BY BoundsAssumption, NoneAssumption DEF Time
  <2>2. a.last_checked # None => a.last_checked \in Int /\ a.last_checked <= now
    BY <1>0 DEF SessionAuthorityType, Option, Time, ClockRegressed
  <2>3. a.observation_until # None => a.observation_until \in Int
    BY <1>0 DEF SessionAuthorityType, Option, Time
  <2>4. a.lease # None => a.lease.authorized_until \in Int
    BY <1>0 DEF SessionAuthorityType, Option, Time, Lease
  <2>5. a.observation_challenge # None => a.observation_challenge.deadline \in Int
    BY <1>0 DEF SessionAuthorityType, Option, Time, Challenge
  <2>6. a.control_challenge # None => a.control_challenge.deadline \in Int
    BY <1>0 DEF SessionAuthorityType, Option, Time, Challenge
  <2>7. Dated(a) BY DEF Settled
  <2> QED BY <1>2, <2>1, <2>2, <2>3, <2>4, <2>5, <2>6, <2>7 DEF Dated
<1>6. Settled(b) BY <1>1, <1>3, <1>4, <1>5 DEF Settled
<1> QED BY <1>6 DEF b

\* What a check or a lost view leaves of the authority.
Carried(a, c) ==
    /\ c.phase = a.phase
    /\ c.clock_faulted = a.clock_faulted
    /\ c.observation_until = a.observation_until
    /\ c.observation_challenge = a.observation_challenge
    /\ c.control_challenge = a.control_challenge
    /\ c.bounded_view = a.bounded_view
    /\ c.native_owner = a.native_owner
    /\ (c.lease = None) <=> (a.lease = None)
    /\ a.lease # None => /\ c.lease.id = a.lease.id
                         /\ c.lease.authorized_until = a.lease.authorized_until
    /\ a.suspension # None => c.suspension = a.suspension

\* Losing the view carries every deadline and challenge over.
LEMMA LapseCarries ==
    ASSUME NEW a, Settled(a), NEW at \in Time
    PROVE  Carried(a, LapseView(a, at))
<1>1. a.lease \in Option(Lease) BY DEF Settled, SessionAuthorityType
<1> QED BY <1>1, LapseSound, WithoutTicketsFacts DEF Carried

\* So does mark_view_stale.
LEMMA StaleCarries ==
    ASSUME NEW a, Settled(a)
    PROVE  Carried(a, MarkViewStale(a))
<1>1. (IF a.last_checked = None THEN 0 ELSE a.last_checked) \in Time
  BY BoundsAssumption DEF Settled, SessionAuthorityType, Option, Time
<1> QED BY <1>1, LapseCarries DEF MarkViewStale

\* Forgetting the presented sequence disturbs no part of the invariant.
LEMMA UnpresentedSound ==
    ASSUME NEW a, Sound(a)
    PROVE  /\ Sound([a EXCEPT !.presented_sequence = None])
           /\ Carried(a, [a EXCEPT !.presented_sequence = None])
           /\ [a EXCEPT !.presented_sequence = None].last_checked = a.last_checked
           /\ [a EXCEPT !.presented_sequence = None].clock_faulted = a.clock_faulted
<1> DEFINE b == [a EXCEPT !.presented_sequence = None]
<1>0. a \in SessionAuthorityType BY DEF Sound, Settled
<1>1. b \in SessionAuthorityType
  BY SMTT(30), <1>0 DEF SessionAuthorityType, Option
<1>2. /\ b.last_checked = a.last_checked /\ b.phase = a.phase
      /\ b.lease = a.lease /\ b.observation_until = a.observation_until
      /\ b.readiness = a.readiness /\ b.view_until = a.view_until
      /\ b.bounded_view = a.bounded_view /\ b.suspension = a.suspension
      /\ b.native_owner = a.native_owner
      /\ b.observation_challenge = a.observation_challenge
      /\ b.control_challenge = a.control_challenge
      /\ b.clock_faulted = a.clock_faulted
  BY SMTT(30), <1>0 DEF SessionAuthorityType
<1> HIDE DEF b
<1>3. Sound(b)
  BY <1>1, <1>2 DEF Sound, Settled, ViewAhead, Suspended, Staged, Dated,
                    Ticketed, HoldsNothing
<1>4. Carried(a, b) BY <1>2 DEF Carried
<1> QED BY <1>2, <1>3, <1>4 DEF b

\* check_time either closes the session or carries its authority over to the
\* new high-water mark.
LEMMA CheckTimeSound ==
    ASSUME NEW a, Sound(a), NEW now \in Time
    PROVE  /\ Sound(CheckTime(a, now))
           /\ IF ClockRegressed(a, now)
              THEN CheckTime(a, now).phase = "Closed"
              ELSE /\ Carried(a, CheckTime(a, now))
                   /\ CheckTime(a, now).last_checked = now
<1>0. Settled(a) /\ ViewAhead(a) /\ a \in SessionAuthorityType
  BY DEF Sound, Settled
<1>1. CASE ClockRegressed(a, now)
  <2>1. [a EXCEPT !.clock_faulted = TRUE] \in SessionAuthorityType
    BY Zenon, <1>0 DEF SessionAuthorityType
  <2> QED BY <1>1, <2>1, CloseSound DEF CheckTime
<1>2. CASE ~ ClockRegressed(a, now)
  <2> DEFINE b == [a EXCEPT !.last_checked = now]
  <2>1. Settled(b) BY <1>0, <1>2, AdvanceSettled
  <2>2. /\ b.last_checked = now /\ b.phase = a.phase /\ b.lease = a.lease
        /\ b.observation_until = a.observation_until
        /\ b.readiness = a.readiness /\ b.view_until = a.view_until
        /\ b.bounded_view = a.bounded_view /\ b.suspension = a.suspension
        /\ b.native_owner = a.native_owner
        /\ b.observation_challenge = a.observation_challenge
        /\ b.control_challenge = a.control_challenge
        /\ b.clock_faulted = a.clock_faulted
    BY <1>0 DEF SessionAuthorityType
  <2>3. CheckTime(a, now) = LapsePassedView(b, now)
    BY <1>2 DEF CheckTime
  <2>4. Carried(a, b) BY <2>2 DEF Carried
  <2> HIDE DEF b
  <2>5. CASE ViewPassed(b, now)
    <3>1. b.view_until \in Time
      BY <2>1, <2>5 DEF Settled, SessionAuthorityType, Option, ViewPassed
    <3>2. LapsePassedView(b, now) = LapseView(b, b.view_until)
      BY <2>5 DEF LapsePassedView
    <3>3. Carried(b, LapseView(b, b.view_until))
      BY <2>1, <3>1, LapseCarries
    <3>4. Carried(a, LapseView(b, b.view_until))
      BY <2>4, <3>3 DEF Carried
    <3> QED BY <1>2, <2>1, <2>2, <2>3, <3>1, <3>2, <3>4, LapseSound
  <2>6. CASE ~ ViewPassed(b, now)
    <3>1. LapsePassedView(b, now) = b BY <2>6 DEF LapsePassedView
    <3>2. ViewAhead(b)
      <4>1. SUFFICES ASSUME b.view_until # None
                     PROVE  now < b.view_until /\ now # None
        BY <1>0, <2>2 DEF ViewAhead
      <4>2. b.view_until \in Int /\ now \in Nat
        BY <2>1, <4>1, BoundsAssumption
        DEF Settled, SessionAuthorityType, Option, Time
      <4> QED BY <2>6, <4>1, <4>2, NoneAssumption DEF ViewPassed
    <3> QED BY <1>2, <2>1, <2>2, <2>3, <2>4, <3>1, <3>2 DEF Sound
  <2> QED BY <2>5, <2>6
<1> QED BY <1>1, <1>2

-----------------------------------------------------------------------------
(* What one step may do to the authority that is already there.            *)

\* Deadlines of one observation and one lease only grow, a lease and its
\* native owner are not swapped, and a fence is final.
Grows(a, b) ==
    /\ a.phase \in Terminal => b.phase \in Terminal
    /\ (a.observation_until # None /\ b.observation_until # None) =>
          b.observation_until >= a.observation_until
    /\ (a.lease # None /\ b.lease # None) =>
          /\ b.lease.id = a.lease.id
          /\ b.lease.authorized_until >= a.lease.authorized_until
          /\ a.native_owner # None => b.native_owner = a.native_owner

\* A suspension keeps its start and its confirmation until the lease ends or
\* is revived in time after the confirmation.
Revives(a, b) ==
    (a.suspension # None /\ b.lease # None) =>
        IF b.suspension # None
        THEN /\ b.suspension.since = a.suspension.since
             /\ a.suspension.released => b.suspension.released
        ELSE /\ a.suspension.released
             /\ b.last_checked < a.suspension.since + MaxViewSuspension

Progress(a, b) == Grows(a, b) /\ Revives(a, b)

\* The times in a sound authority are integers.
LEMMA Times ==
    ASSUME NEW a, a \in SessionAuthorityType
    PROVE  /\ a.observation_until # None => a.observation_until \in Time
           /\ a.view_until # None => a.view_until \in Time
           /\ a.last_checked # None => a.last_checked \in Time
           /\ a.lease # None => /\ a.lease \in Lease
                                /\ a.lease.authorized_until \in Time
           /\ a.observation_challenge # None =>
                 a.observation_challenge.deadline \in Time
           /\ a.control_challenge # None => a.control_challenge.deadline \in Time
           /\ a.suspension # None => a.suspension.since \in Time
  BY DEF SessionAuthorityType, Option, Lease, Challenge, Suspension

\* Clock samples are naturals, and none of them is None.
LEMMA TimesAreNaturals ==
    /\ \A t \in Time : t \in Nat /\ t \in Int /\ t # None
    /\ AuthorizationLifetime \in Nat
  BY BoundsAssumption, NoneAssumption DEF Time

\* A step that carries the authority over makes progress.
LEMMA CarriedProgress ==
    ASSUME NEW a, a \in SessionAuthorityType, NEW b, Sound(b), Carried(a, b)
    PROVE  Progress(a, b)
<1>1. Grows(a, b)
  <2>1. a.observation_until # None => a.observation_until \in Int
    BY Times, TimesAreNaturals
  <2>2. a.lease # None => a.lease.authorized_until \in Int
    BY Times, TimesAreNaturals
  <2> QED BY <2>1, <2>2 DEF Grows, Carried
<1>2. Revives(a, b)
  BY DEF Revives, Carried
<1> QED BY <1>1, <1>2 DEF Progress

\* Changing nothing makes progress.
LEMMA ProgressRefl ==
    ASSUME NEW a, Sound(a)
    PROVE  Progress(a, a)
<1>1. Carried(a, a) /\ a \in SessionAuthorityType
  BY DEF Carried, Sound, Settled
<1> QED BY <1>1, CarriedProgress

\* A step into a state that holds nothing makes progress.
LEMMA FencedProgress ==
    ASSUME NEW a, NEW b, Sound(b), b.phase \notin Observing,
           a.phase \in Terminal => b.phase \in Terminal
    PROVE  Progress(a, b)
<1>1. b.observation_until = None /\ b.lease = None
  BY DEF Sound, Settled, Staged, HoldsNothing
<1> QED BY <1>1 DEF Progress, Grows, Revives

\* Progress after carrying the authority over is progress.
LEMMA CarriedThen ==
    ASSUME NEW a, NEW c, Carried(a, c), NEW b, Progress(c, b)
    PROVE  Progress(a, b)
<1>1. Grows(a, b) BY DEF Progress, Grows, Carried
<1>2. Revives(a, b) BY DEF Progress, Revives, Carried
<1> QED BY <1>1, <1>2 DEF Progress

\* The effect of a method after its check_time counts from before the check.
LEMMA AfterCheck ==
    ASSUME NEW a, Sound(a), NEW now \in Time, NEW b, Sound(b),
           Progress(CheckTime(a, now), b)
    PROVE  Progress(a, b)
<1> DEFINE c == CheckTime(a, now)
<1>1. CASE ClockRegressed(a, now)
  <2>1. b.phase \in Terminal
    BY <1>1, CheckTimeSound DEF Progress, Grows, Terminal
  <2> QED BY <2>1, FencedProgress DEF Terminal, Observing
<1>2. CASE ~ ClockRegressed(a, now)
  <2>1. Carried(a, c) BY <1>2, CheckTimeSound
  <2> QED BY <2>1, CarriedThen
<1> QED BY <1>1, <1>2

\* A refusal keeps the effects of the check.
LEMMA CheckProgress ==
    ASSUME NEW a, Sound(a), NEW now \in Time
    PROVE  Progress(a, CheckTime(a, now))
  BY CheckTimeSound, ProgressRefl, AfterCheck

\* An authority that observes after a check was checked at `now`.
LEMMA LiveAfterCheck ==
    ASSUME NEW a, Sound(a), NEW now \in Time,
           CheckTime(a, now).phase # "Closed"
    PROVE  /\ ~ ClockRegressed(a, now)
           /\ CheckTime(a, now).last_checked = now
           /\ Carried(a, CheckTime(a, now))
  BY CheckTimeSound

-----------------------------------------------------------------------------
(* Every operation is sound and makes progress.                            *)

\* mark_capabilities_checked and require_approval only move an empty record.
LEMMA LifecycleStep ==
    ASSUME NEW a, Sound(a), NEW p \in {"CapabilitiesChecked", "WaitingApproval"},
           a.phase \in {"Identified", "CapabilitiesChecked"}
    PROVE  /\ Sound([a EXCEPT !.phase = p])
           /\ Progress(a, [a EXCEPT !.phase = p])
<1> DEFINE b == [a EXCEPT !.phase = p]
<1>0. a \in SessionAuthorityType BY DEF Sound, Settled
<1>1. b \in SessionAuthorityType /\ b.phase = p
  BY <1>0 DEF SessionAuthorityType, Phases
<1>2. HoldsNothing(b) /\ b.clock_faulted = a.clock_faulted
  BY <1>0 DEF SessionAuthorityType, Sound, Settled, Staged, HoldsNothing, Observing
<1>3. ~ b.clock_faulted
  BY SMTT(30), <1>2 DEF Sound, Settled, Staged, Terminal
<1> HIDE DEF b
<1>4. Sound(b)
  BY <1>1, <1>2, <1>3 DEF Sound, Settled, ViewAhead, Suspended, Staged, Dated,
                          Ticketed, HoldsNothing
<1>5. Progress(a, b)
  BY <1>1, <1>4, FencedProgress DEF Terminal, Observing
<1> QED BY <1>4, <1>5 DEF b

\* authorize_observation is sound and makes progress.
LEMMA AuthorizeObservationStep ==
    ASSUME NEW a, Sound(a), NEW now \in Time
    PROVE  /\ Sound(AuthorizeObservation(a, now))
           /\ Progress(a, AuthorizeObservation(a, now))
<1> DEFINE c == CheckTime(a, now)
           b == AuthorizeObservation(a, now)
<1>0. Sound(c) BY CheckTimeSound
<1>1. CASE ~ ObservationGrantable(c, now)
  <2>1. b = c BY <1>1 DEF AuthorizeObservation
  <2> QED BY <1>0, <2>1, CheckProgress
<1>2. CASE ObservationGrantable(c, now)
  <2>1. c.last_checked = now
    BY <1>2, LiveAfterCheck DEF ObservationGrantable
  <2>2. b = [ClearAuthority(c) EXCEPT
               !.observation_until = now + AuthorizationLifetime,
               !.phase = "ViewOpening"]
    BY <1>2 DEF AuthorizeObservation
  <2>3. c \in SessionAuthorityType /\ HoldsNothing(c) /\ ~ c.clock_faulted
    BY <1>0, <1>2 DEF Sound, Settled, Staged, ObservationGrantable, Observing,
                      Terminal
  <2>4. now + AuthorizationLifetime \in Time
    BY <1>2, BoundsAssumption DEF ObservationGrantable, HasDeadline, Time
  <2> HIDE DEF b, c
  <2>5. b \in SessionAuthorityType
    BY ZenonT(60), <2>2, <2>3, <2>4 DEF ClearAuthority, SessionAuthorityType, Option,
                            Phases, ViewReadiness
  <2>6. /\ b.observation_until = now + AuthorizationLifetime
        /\ b.phase = "ViewOpening" /\ b.last_checked = now
        /\ b.clock_faulted = c.clock_faulted /\ b.lease = None
        /\ b.suspension = None /\ b.view_until = None
        /\ b.readiness = "Unready" /\ b.observation_challenge = None
        /\ b.control_challenge = None
    BY <2>1, <2>2, <2>3 DEF ClearAuthority, SessionAuthorityType
  <2>7. Dated(b)
    BY <2>6, TimesAreNaturals DEF Dated
  <2>8. Sound(b)
    BY <2>3, <2>5, <2>6, <2>7 DEF Sound, Settled, ViewAhead, Suspended, Staged,
                                  Ticketed, Observing
  <2>9. Progress(c, b)
    BY <1>2, <2>3, <2>6 DEF Progress, Grows, Revives, HoldsNothing, Terminal,
                       ObservationGrantable
  <2> QED BY <2>8, <2>9, AfterCheck DEF b, c
<1> QED BY <1>1, <1>2

\* issue_observation_challenge is sound and makes progress.
LEMMA IssueObservationChallengeStep ==
    ASSUME NEW a, Sound(a), NEW now \in Time, NEW nonce \in Nonces
    PROVE  /\ Sound(IssueObservationChallenge(a, nonce, now))
           /\ Progress(a, IssueObservationChallenge(a, nonce, now))
<1> DEFINE c == CheckTime(a, now)
           b == IssueObservationChallenge(a, nonce, now)
           h == [nonce |-> nonce, deadline |-> now + AuthorizationLifetime]
<1>0. Sound(c) BY CheckTimeSound
<1>1. CASE ~ ObservationChallengeable(c, now)
  <2>1. b = c BY <1>1 DEF IssueObservationChallenge
  <2> QED BY <1>0, <2>1, CheckProgress
<1>2. CASE ObservationChallengeable(c, now)
  <2>1. c.last_checked = now
    BY <1>2, LiveAfterCheck DEF ObservationChallengeable, ObservationLive, Observing
  <2>2. b = [c EXCEPT !.observation_challenge = h]
    BY <1>2 DEF IssueObservationChallenge
  <2>3. h \in Challenge /\ h.deadline = now + AuthorizationLifetime
    BY <1>2, BoundsAssumption
    DEF ObservationChallengeable, HasDeadline, Time, Challenge
  <2>4. c \in SessionAuthorityType /\ c.observation_until # None /\ c.phase \in Observing
    BY <1>0, <1>2 DEF Sound, Settled, ObservationChallengeable, ObservationLive
  <2> HIDE DEF b, c, h
  <2>5. b \in SessionAuthorityType
    BY <2>2, <2>3, <2>4 DEF SessionAuthorityType, Option
  <2>6. /\ b.observation_challenge = h
        /\ b.last_checked = c.last_checked /\ b.phase = c.phase
        /\ b.lease = c.lease /\ b.observation_until = c.observation_until
        /\ b.readiness = c.readiness /\ b.view_until = c.view_until
        /\ b.bounded_view = c.bounded_view /\ b.suspension = c.suspension
        /\ b.native_owner = c.native_owner
        /\ b.control_challenge = c.control_challenge
        /\ b.clock_faulted = c.clock_faulted
    BY SMTT(30), <2>2, <2>4 DEF SessionAuthorityType
  <2>7. Dated(b)
    BY <1>0, <2>1, <2>3, <2>4, <2>6, TimesAreNaturals DEF Sound, Settled, Dated
  <2>8. Sound(b)
    <3>1. Suspended(b) /\ ViewAhead(b) /\ Ticketed(b)
      BY <1>0, <2>6 DEF Sound, Settled, ViewAhead, Suspended, Ticketed
    <3>2. Staged(b)
      BY SMTT(30), <1>0, <2>4, <2>6 DEF Sound, Settled, Staged
    <3> QED BY SMTT(30), <2>5, <2>7, <3>1, <3>2 DEF Sound, Settled
  <2>9. Progress(c, b)
    BY <1>0, <2>6, ProgressRefl DEF Progress, Grows, Revives
  <2> QED BY <2>8, <2>9, AfterCheck DEF b, c
<1> QED BY <1>1, <1>2

\* A reply, live or late: the deadline either stays or moves to the one the
\* challenge was issued with.
LEMMA RespondObservationChallengeStep ==
    ASSUME NEW a, Sound(a), NEW now \in Time, NEW nonce \in Nonces
    PROVE  /\ Sound(RespondObservationChallenge(a, nonce, now))
           /\ Progress(a, RespondObservationChallenge(a, nonce, now))
<1> DEFINE c == CheckTime(a, now)
           b == RespondObservationChallenge(a, nonce, now)
           u == IF ObservationRenewable(c, nonce, now)
                THEN c.observation_challenge.deadline ELSE c.observation_until
           ok == ObservationLive(c, now) /\ Answers(c.observation_challenge, nonce)
<1>0. Sound(c) BY CheckTimeSound
<1>1. CASE ~ ok
  <2>1. b = c BY <1>1 DEF RespondObservationChallenge
  <2> QED BY <1>0, <2>1, CheckProgress
<1>2. CASE ok
  <2>1. /\ c \in SessionAuthorityType /\ c.observation_until # None
        /\ c.phase \in Observing /\ c.observation_challenge # None
    BY <1>0, <1>2 DEF Sound, Settled, ObservationLive, Answers
  <2>2. b = [c EXCEPT !.observation_challenge = None, !.observation_until = u]
    BY SMTT(30), <1>2 DEF RespondObservationChallenge
  <2> HIDE DEF b, c, ok
  <2>3. /\ c.observation_until \in Time /\ c.observation_challenge.deadline \in Time
        /\ c.observation_until <= c.observation_challenge.deadline
        /\ c.last_checked # None /\ c.last_checked \in Time
        /\ c.observation_until <= c.last_checked + AuthorizationLifetime
        /\ c.observation_challenge.deadline <= c.last_checked + AuthorizationLifetime
    BY SMTT(30), <1>0, <2>1, Times DEF Sound, Settled, Dated
  <2>4. /\ u \in Time /\ u # None /\ c.observation_until <= u
        /\ u <= c.last_checked + AuthorizationLifetime
    BY <2>3, TimesAreNaturals
  <2> HIDE DEF u
  <2>5. b \in SessionAuthorityType
    BY ZenonT(60), <2>1, <2>2, <2>4 DEF SessionAuthorityType, Option
  <2>6. /\ b.observation_challenge = None /\ b.observation_until = u
        /\ b.last_checked = c.last_checked /\ b.phase = c.phase
        /\ b.lease = c.lease
        /\ b.readiness = c.readiness /\ b.view_until = c.view_until
        /\ b.bounded_view = c.bounded_view /\ b.suspension = c.suspension
        /\ b.native_owner = c.native_owner
        /\ b.control_challenge = c.control_challenge
        /\ b.clock_faulted = c.clock_faulted
    BY <2>1, <2>2 DEF SessionAuthorityType
  <2>7. Suspended(b) /\ ViewAhead(b) /\ Staged(b) /\ Dated(b)
    BY SMTT(30), <1>0, <2>1, <2>3, <2>4, <2>6
    DEF Sound, Settled, ViewAhead, Suspended, Staged, Dated
  <2>8. Ticketed(b)
    <3>1. SUFFICES ASSUME c.lease # None, NEW s \in Slots, c.lease.tickets[s] # None
                   PROVE  c.lease.tickets[s].expires_at <= u
      BY <1>0, <2>4, <2>6 DEF Sound, Settled, Ticketed
    <3>2. c.lease.tickets[s] \in Ticket
      BY <2>1, <3>1, Times DEF Lease, Tickets
    <3>3. c.lease.tickets[s].expires_at \in Time BY SMTT(30), <3>2 DEF Ticket
    <3>4. c.lease.tickets[s].expires_at <= c.observation_until
      BY <1>0, <3>1 DEF Sound, Settled, Ticketed
    <3> QED BY SMTT(30), <2>3, <2>4, <3>3, <3>4, TimesAreNaturals
  <2>9. Sound(b) BY SMTT(30), <2>5, <2>7, <2>8 DEF Sound, Settled
  <2>10. Progress(c, b)
    BY <1>0, <2>4, <2>6, ProgressRefl DEF Progress, Grows, Revives
  <2> QED BY <2>9, <2>10, AfterCheck DEF b, c
<1> QED BY <1>1, <1>2

\* mark_view_ready is sound and makes progress.
LEMMA MarkViewReadyStep ==
    ASSUME NEW a, Sound(a), NEW now \in Time
    PROVE  /\ Sound(MarkViewReady(a, now))
           /\ Progress(a, MarkViewReady(a, now))
<1> DEFINE d == [a EXCEPT !.presented_sequence = None]
           c == CheckTime(d, now)
           b == MarkViewReady(a, now)
           ok == ObservationLive(c, now) /\ ~ c.bounded_view
<1>1. Sound(d) /\ Carried(a, d) BY UnpresentedSound
<1>2. Sound(c) /\ Progress(d, c) BY <1>1, CheckTimeSound, CheckProgress
<1>3. Sound(b) /\ Progress(d, b)
  <2>1. CASE ~ ok
    <3>1. b = c BY <2>1 DEF MarkViewReady
    <3> QED BY <1>2, <3>1
  <2>2. CASE ok
    <3>1. c \in SessionAuthorityType /\ c.phase \in Observing /\ ~ c.bounded_view
      BY <1>2, <2>2 DEF Sound, Settled, ObservationLive
    <3>2. b = [c EXCEPT !.phase = "Viewing", !.readiness = "Ready"]
      BY <2>2 DEF MarkViewReady
    <3> HIDE DEF b, c, d, ok
    <3>3. b \in SessionAuthorityType
      BY ZenonT(60), <3>1, <3>2 DEF SessionAuthorityType, Phases, ViewReadiness
    <3>4. /\ b.phase = "Viewing" /\ b.readiness = "Ready"
          /\ b.observation_until = c.observation_until
          /\ b.last_checked = c.last_checked /\ b.lease = c.lease
          /\ b.view_until = c.view_until /\ b.bounded_view = c.bounded_view
          /\ b.suspension = c.suspension /\ b.native_owner = c.native_owner
          /\ b.observation_challenge = c.observation_challenge
          /\ b.control_challenge = c.control_challenge
          /\ b.clock_faulted = c.clock_faulted
      BY <3>1, <3>2 DEF SessionAuthorityType
    <3>5. Suspended(b) /\ ViewAhead(b) /\ Ticketed(b)
      BY SMTT(30), <1>2, <3>1, <3>4 DEF Sound, Settled, Suspended, ViewAhead, Ticketed
    <3>6. Staged(b) /\ Dated(b)
      BY <1>2, <3>1, <3>4
      DEF Sound, Settled, Staged, Dated, Observing, Terminal
    <3>7. Sound(b) BY SMTT(30), <3>3, <3>5, <3>6 DEF Sound, Settled
    <3>8. Progress(c, b)
      BY <1>2, <3>1, <3>4, ProgressRefl
      DEF Progress, Grows, Revives, Observing, Terminal
    <3> QED BY <1>1, <3>7, <3>8, AfterCheck DEF c
  <2> QED BY <2>1, <2>2
<1> QED BY <1>1, <1>3, CarriedThen

\* require_view_evidence is sound and makes progress.
LEMMA RequireViewEvidenceStep ==
    ASSUME NEW a, Sound(a), NEW now \in Time
    PROVE  /\ Sound(RequireViewEvidence(a, now))
           /\ Progress(a, RequireViewEvidence(a, now))
<1> DEFINE c == CheckTime(a, now)
           e == [c EXCEPT !.bounded_view = TRUE]
           b == RequireViewEvidence(a, now)
           ok == ObservationLive(c, now) /\ (c.lease = None \/ c.bounded_view)
<1>0. Sound(c) BY CheckTimeSound
<1>1. CASE ~ ok
  <2>1. b = c BY <1>1 DEF RequireViewEvidence
  <2> QED BY <1>0, <2>1, CheckProgress
<1>2. CASE ok
  <2>1. c \in SessionAuthorityType /\ (c.lease = None \/ c.bounded_view)
    BY <1>0, <1>2 DEF Sound, Settled
  <2>2. b = MarkViewStale(e) BY <1>2 DEF RequireViewEvidence
  <2> HIDE DEF b, c, ok
  <2>3. e \in SessionAuthorityType BY Zenon, <2>1 DEF SessionAuthorityType
  <2>4. /\ e.bounded_view = TRUE /\ e.phase = c.phase
        /\ e.observation_until = c.observation_until
        /\ e.last_checked = c.last_checked /\ e.lease = c.lease
        /\ e.readiness = c.readiness /\ e.view_until = c.view_until
        /\ e.suspension = c.suspension /\ e.native_owner = c.native_owner
        /\ e.observation_challenge = c.observation_challenge
        /\ e.control_challenge = c.control_challenge
        /\ e.clock_faulted = c.clock_faulted
    BY <2>1 DEF SessionAuthorityType
  <2> HIDE DEF e
  <2>5. Suspended(e)
    BY SMTT(30), <1>0, <2>1, <2>4 DEF Sound, Settled, Suspended
  <2>6. Staged(e) /\ Dated(e) /\ Ticketed(e)
    BY <1>0, <2>4 DEF Sound, Settled, Staged, Dated, Ticketed, HoldsNothing
  <2>7. Settled(e) BY <2>3, <2>5, <2>6 DEF Settled
  <2>8. Sound(b) BY <2>2, <2>7, StaleSound
  <2>9. Progress(e, b)
    BY SMTT(30), <2>2, <2>3, <2>7, <2>8, StaleCarries, CarriedProgress
  <2>10. Progress(c, b)
    BY <2>4, <2>9 DEF Progress, Grows, Revives
  <2> QED BY <2>8, <2>10, AfterCheck DEF b, c
<1> QED BY <1>1, <1>2

\* Evidence that extends or revives a view: the only way out of a suspension
\* that keeps the lease.
LEMMA MarkViewReadyUntilStep ==
    ASSUME NEW a, Sound(a), NEW now \in Time, NEW until \in Time,
           NEW sequence \in Option(Sequences)
    PROVE  /\ Sound(MarkViewReadyUntil(a, sequence, until, now))
           /\ Progress(a, MarkViewReadyUntil(a, sequence, until, now))
<1> DEFINE d == [a EXCEPT !.presented_sequence = None]
           c == CheckTime(d, now)
           b == MarkViewReadyUntil(a, sequence, until, now)
<1>1. Sound(d) /\ Carried(a, d) BY UnpresentedSound
<1>2. Sound(c) /\ Progress(d, c) BY <1>1, CheckTimeSound, CheckProgress
<1>3. Sound(b) /\ Progress(d, b)
  <2>1. CASE ~ ViewAcceptable(c, until, now)
    <3>1. b = c BY <2>1 DEF MarkViewReadyUntil
    <3> QED BY <1>2, <3>1
  <2>2. CASE ViewAcceptable(c, until, now)
    <3>1. c \in SessionAuthorityType /\ c.phase \in Observing
      BY <1>2, <2>2 DEF Sound, Settled, ViewAcceptable, ObservationLive
    <3>2. c.last_checked = now
      BY <1>1, <3>1, LiveAfterCheck DEF Observing
    <3>3. b = [c EXCEPT !.suspension = None, !.bounded_view = TRUE,
                        !.view_until = until, !.phase = "Viewing",
                        !.readiness = "Ready", !.presented_sequence = sequence]
      BY <2>2 DEF MarkViewReadyUntil
    <3> HIDE DEF b, c, d
    <3>4. b \in SessionAuthorityType
      BY ZenonT(60), <3>1, <3>3 DEF SessionAuthorityType, Option, Phases, ViewReadiness
    <3>5. /\ b.phase = "Viewing" /\ b.readiness = "Ready"
          /\ b.suspension = None /\ b.bounded_view = TRUE /\ b.view_until = until
          /\ b.observation_until = c.observation_until
          /\ b.last_checked = c.last_checked /\ b.lease = c.lease
          /\ b.native_owner = c.native_owner
          /\ b.observation_challenge = c.observation_challenge
          /\ b.control_challenge = c.control_challenge
          /\ b.clock_faulted = c.clock_faulted
      BY <3>1, <3>3 DEF SessionAuthorityType
    <3>6. Suspended(b) BY <3>5 DEF Suspended
    <3>7. ViewAhead(b)
      BY <2>2, <3>2, <3>5, TimesAreNaturals DEF ViewAhead, ViewAcceptable
    <3>8. Ticketed(b) /\ Dated(b)
      BY <1>2, <3>5 DEF Sound, Settled, Ticketed, Dated
    <3>9. Staged(b)
      BY <1>2, <3>1, <3>5 DEF Sound, Settled, Staged, Observing, Terminal
    <3>10. Sound(b) BY SMTT(30), <3>4, <3>6, <3>7, <3>8, <3>9 DEF Sound, Settled
    <3>11. Grows(c, b)
      BY <1>2, <3>1, <3>5, ProgressRefl DEF Progress, Grows, Observing, Terminal
    <3>12. Revives(c, b)
      BY <2>2, <3>2, <3>5 DEF Revives, ViewAcceptable, Revivable
    <3> QED BY <1>1, <3>10, <3>11, <3>12, AfterCheck DEF c, Progress
  <2> QED BY <2>1, <2>2
<1> QED BY <1>1, <1>3, CarriedThen

\* advance_recovery is sound and makes progress.
LEMMA AdvanceRecoveryStep ==
    ASSUME NEW a, Sound(a), NEW generation \in Generations
    PROVE  /\ Sound(AdvanceRecovery(a, generation))
           /\ Progress(a, AdvanceRecovery(a, generation))
<1> DEFINE b == AdvanceRecovery(a, generation)
           l == WithoutTickets(a.lease)
           ok == /\ a.readiness # "Ready"
                 /\ a.recovery = None \/ generation > a.recovery
<1>1. CASE ~ ok
  <2>1. b = a BY <1>1 DEF AdvanceRecovery
  <2> QED BY <2>1, ProgressRefl
<1>2. CASE ok
  <2>1. a \in SessionAuthorityType BY DEF Sound, Settled
  <2>2. /\ l \in Option(Lease)
        /\ (l = None) <=> (a.lease = None)
        /\ a.lease # None => /\ l.id = a.lease.id
                             /\ l.authorized_until = a.lease.authorized_until
                             /\ \A s \in Slots : l.tickets[s] = None
    BY <2>1, WithoutTicketsFacts DEF SessionAuthorityType
  <2>3. b = [a EXCEPT !.recovery = generation, !.presented_sequence = None,
                      !.lease = l]
    BY <1>2 DEF AdvanceRecovery
  <2> HIDE DEF b, l, ok
  <2>4. b \in SessionAuthorityType
    BY ZenonT(60), <2>1, <2>2, <2>3 DEF SessionAuthorityType, Option
  <2>5. /\ b.lease = l /\ b.phase = a.phase
        /\ b.observation_until = a.observation_until
        /\ b.last_checked = a.last_checked
        /\ b.readiness = a.readiness /\ b.view_until = a.view_until
        /\ b.bounded_view = a.bounded_view
        /\ b.suspension = a.suspension /\ b.native_owner = a.native_owner
        /\ b.observation_challenge = a.observation_challenge
        /\ b.control_challenge = a.control_challenge
        /\ b.clock_faulted = a.clock_faulted
    BY <2>1, <2>3 DEF SessionAuthorityType
  <2>6. Suspended(b) /\ ViewAhead(b)
    BY <2>2, <2>5 DEF Sound, Settled, Suspended, ViewAhead
  <2>7. Staged(b) /\ Ticketed(b)
    BY SMTT(30), <2>2, <2>5 DEF Sound, Settled, Staged, Ticketed, HoldsNothing
  <2>8. Dated(b)
    BY <2>2, <2>5 DEF Sound, Settled, Dated
  <2>9. Sound(b) BY SMTT(30), <2>4, <2>6, <2>7, <2>8 DEF Sound, Settled
  <2>10. Carried(a, b) BY <2>2, <2>5 DEF Carried
  <2> QED BY <2>1, <2>9, <2>10, CarriedProgress DEF b
<1> QED BY <1>1, <1>2

\* confirm_suspension_release is sound and makes progress.
LEMMA ConfirmSuspensionReleaseStep ==
    ASSUME NEW a, Sound(a), NEW id \in LeaseIds
    PROVE  /\ Sound(ConfirmSuspensionRelease(a, id))
           /\ Progress(a, ConfirmSuspensionRelease(a, id))
<1> DEFINE b == ConfirmSuspensionRelease(a, id)
           u == [a.suspension EXCEPT !.released = TRUE]
           ok == LeaseIs(a, id) /\ a.suspension # None
<1>1. CASE ~ ok
  <2>1. b = a BY <1>1 DEF ConfirmSuspensionRelease
  <2> QED BY <2>1, ProgressRefl
<1>2. CASE ok
  <2>1. a \in SessionAuthorityType /\ a.suspension \in Suspension
    BY <1>2 DEF Sound, Settled, SessionAuthorityType, Option
  <2>2. u \in Suspension /\ u.since = a.suspension.since /\ u.released = TRUE
    BY Zenon, <2>1 DEF Suspension
  <2>3. u # None BY Zenon, <2>2, NoneAssumption
  <2>4. b = [a EXCEPT !.suspension = u]
    BY <1>2 DEF ConfirmSuspensionRelease
  <2>0. a.suspension # None BY <1>2
  <2> HIDE DEF b, u, ok
  <2>5. b \in SessionAuthorityType
    BY <2>1, <2>2, <2>4 DEF SessionAuthorityType, Option
  <2>6. /\ b.suspension = u /\ b.lease = a.lease /\ b.phase = a.phase
        /\ b.observation_until = a.observation_until
        /\ b.last_checked = a.last_checked
        /\ b.readiness = a.readiness /\ b.view_until = a.view_until
        /\ b.bounded_view = a.bounded_view /\ b.native_owner = a.native_owner
        /\ b.observation_challenge = a.observation_challenge
        /\ b.control_challenge = a.control_challenge
        /\ b.clock_faulted = a.clock_faulted
    BY SMTT(30), <2>1, <2>4 DEF SessionAuthorityType
  <2>7. Suspended(b) /\ ViewAhead(b) /\ Ticketed(b)
    BY SMTT(30), <2>0, <2>3, <2>6 DEF Sound, Settled, Suspended, ViewAhead, Ticketed
  <2>8. Staged(b) /\ Dated(b)
    BY <2>0, <2>6 DEF Sound, Settled, Staged, Dated, HoldsNothing
  <2>9. Sound(b) BY SMTT(30), <2>5, <2>7, <2>8 DEF Sound, Settled
  <2>10. Grows(a, b)
    BY <2>6, ProgressRefl DEF Progress, Grows
  <2>11. Revives(a, b)
    BY <2>2, <2>3, <2>6 DEF Revives
  <2> QED BY <2>9, <2>10, <2>11 DEF b, Progress
<1> QED BY <1>1, <1>2

\* grant_lease is sound and makes progress.
LEMMA GrantLeaseStep ==
    ASSUME NEW a, Sound(a), NEW now \in Time, NEW id \in LeaseIds
    PROVE  /\ Sound(GrantLease(a, id, now))
           /\ Progress(a, GrantLease(a, id, now))
<1> DEFINE c == CheckTime(a, now)
           b == GrantLease(a, id, now)
           l == [id |-> id, tickets |-> NoTickets,
                 authorized_until |-> now + AuthorizationLifetime]
<1>0. Sound(c) BY CheckTimeSound
<1>1. CASE ~ LeaseGrantable(c, now)
  <2>1. b = c BY SMTT(30), <1>1 DEF GrantLease
  <2> QED BY <1>0, <2>1, CheckProgress
<1>2. CASE LeaseGrantable(c, now)
  <2>1. /\ c \in SessionAuthorityType /\ c.phase = "Viewing"
        /\ c.readiness = "Ready" /\ c.lease = None /\ c.observation_until # None
    BY SMTT(30), <1>0, <1>2 DEF Sound, Settled, LeaseGrantable, ObservationLive
  <2>2. c.last_checked = now BY <2>1, LiveAfterCheck
  <2>3. now + AuthorizationLifetime \in Time
    BY <1>2, BoundsAssumption DEF LeaseGrantable, HasDeadline, Time
  <2>4. NoTickets \in Tickets /\ \A s \in Slots : NoTickets[s] = None
    BY DEF NoTickets, Tickets
  <2>5. /\ l \in Lease /\ l.authorized_until = now + AuthorizationLifetime
        /\ l.tickets = NoTickets
    BY <2>3, <2>4 DEF Lease
  <2>6. b = [c EXCEPT !.lease = l, !.control_challenge = None]
    BY <1>2 DEF GrantLease
  <2> HIDE DEF b, c, l
  <2>7. l # None BY <2>5, NoneAssumption
  <2>8. b \in SessionAuthorityType
    <3>1. c \in SessionAuthorityType BY <2>1
    <3>2. l \in Option(Lease) /\ None \in Option(Challenge)
      BY <2>5 DEF Option
    <3> QED BY ZenonT(60), <2>6, <3>1, <3>2 DEF SessionAuthorityType
  <2>9. /\ b.lease = l /\ b.control_challenge = None
        /\ b.suspension = c.suspension /\ b.phase = c.phase
        /\ b.observation_until = c.observation_until
        /\ b.last_checked = c.last_checked
        /\ b.readiness = c.readiness /\ b.view_until = c.view_until
        /\ b.bounded_view = c.bounded_view /\ b.native_owner = c.native_owner
        /\ b.observation_challenge = c.observation_challenge
        /\ b.clock_faulted = c.clock_faulted
    BY SMTT(30), <2>1, <2>6 DEF SessionAuthorityType
  <2>10. Suspended(b) /\ ViewAhead(b) /\ Ticketed(b)
    BY SMTT(30), <1>0, <2>1, <2>4, <2>5, <2>7, <2>9
    DEF Sound, Settled, Suspended, ViewAhead, Ticketed
  <2>11. Staged(b)
    BY SMTT(30), <1>0, <2>1, <2>9 DEF Sound, Settled, Staged, Observing
  <2>12. Dated(b)
    BY <1>0, <2>1, <2>2, <2>5, <2>9, TimesAreNaturals DEF Sound, Settled, Dated
  <2>13. Sound(b) BY SMTT(30), <2>8, <2>10, <2>11, <2>12 DEF Sound, Settled
  <2>14. Progress(c, b)
    <3>1. Grows(c, b)
      BY <1>0, <2>1, <2>9, ProgressRefl DEF Progress, Grows
    <3>2. c.suspension = None
      BY <1>0, <2>1 DEF Sound, Settled, Suspended
    <3> QED BY SMTT(30), <3>1, <3>2 DEF Progress, Revives
  <2> QED BY <2>13, <2>14, AfterCheck DEF b, c
<1> QED BY <1>1, <1>2

\* issue_control_challenge is sound and makes progress.
LEMMA IssueControlChallengeStep ==
    ASSUME NEW a, Sound(a), NEW now \in Time, NEW nonce \in Nonces
    PROVE  /\ Sound(IssueControlChallenge(a, nonce, now))
           /\ Progress(a, IssueControlChallenge(a, nonce, now))
<1> DEFINE c == CheckTime(a, now)
           b == IssueControlChallenge(a, nonce, now)
           h == [nonce |-> nonce, deadline |-> now + AuthorizationLifetime]
<1>0. Sound(c) BY CheckTimeSound
<1>1. CASE ~ ControlChallengeable(c, now)
  <2>1. b = c BY <1>1 DEF IssueControlChallenge
  <2> QED BY <1>0, <2>1, CheckProgress
<1>2. CASE ControlChallengeable(c, now)
  <2>1. c.last_checked = now
    BY <1>2, LiveAfterCheck DEF ControlChallengeable, ObservationLive, Observing
  <2>2. b = [c EXCEPT !.control_challenge = h]
    BY <1>2 DEF IssueControlChallenge
  <2>3. h \in Challenge /\ h.deadline = now + AuthorizationLifetime
    BY SMTT(30), <1>2, BoundsAssumption
    DEF ControlChallengeable, HasDeadline, Time, Challenge
  <2>4. c \in SessionAuthorityType /\ c.lease # None /\ c.phase \in Observing
    BY <1>0, <1>2
    DEF Sound, Settled, ControlChallengeable, ObservationLive, LeaseUnexpired
  <2> HIDE DEF b, c, h
  <2>5. b \in SessionAuthorityType
    BY <2>2, <2>3, <2>4 DEF SessionAuthorityType, Option
  <2>6. /\ b.control_challenge = h
        /\ b.last_checked = c.last_checked /\ b.phase = c.phase
        /\ b.lease = c.lease /\ b.observation_until = c.observation_until
        /\ b.readiness = c.readiness /\ b.view_until = c.view_until
        /\ b.bounded_view = c.bounded_view /\ b.suspension = c.suspension
        /\ b.native_owner = c.native_owner
        /\ b.observation_challenge = c.observation_challenge
        /\ b.clock_faulted = c.clock_faulted
    BY SMTT(30), <2>2, <2>4 DEF SessionAuthorityType
  <2>7. Dated(b)
    BY SMTT(30), <1>0, <2>1, <2>3, <2>4, <2>6, TimesAreNaturals DEF Sound, Settled, Dated
  <2>8. Sound(b)
    <3>1. Suspended(b) /\ ViewAhead(b) /\ Ticketed(b)
      BY <1>0, <2>6 DEF Sound, Settled, ViewAhead, Suspended, Ticketed
    <3>2. Staged(b)
      BY SMTT(30), <1>0, <2>4, <2>6 DEF Sound, Settled, Staged
    <3> QED BY <2>5, <2>7, <3>1, <3>2 DEF Sound, Settled
  <2>9. Progress(c, b)
    BY <1>0, <2>6, ProgressRefl DEF Progress, Grows, Revives
  <2> QED BY <2>8, <2>9, AfterCheck DEF b, c
<1> QED BY <1>1, <1>2

\* The renewal of a lease, and the two ways a reply uses its challenge up.
LEMMA RespondControlChallengeStep ==
    ASSUME NEW a, Sound(a), NEW now \in Time, NEW id \in LeaseIds,
           NEW nonce \in Nonces
    PROVE  /\ Sound(RespondControlChallenge(a, id, nonce, now))
           /\ Progress(a, RespondControlChallenge(a, id, nonce, now))
<1> DEFINE c == CheckTime(a, now)
           b == RespondControlChallenge(a, id, nonce, now)
           ok == ObservationLive(c, now) /\ LeaseIs(c, id)
           u == IF ControlRenewable(c, id, nonce, now)
                THEN c.control_challenge.deadline ELSE c.lease.authorized_until
           l == [c.lease EXCEPT !.authorized_until = u]
           h == IF ControlRenewable(c, id, nonce, now) THEN None
                ELSE IF Answers(c.control_challenge, nonce) \/ ~ LeaseUnexpired(c, now)
                THEN None ELSE c.control_challenge
<1>0. Sound(c) BY CheckTimeSound
<1>1. CASE ~ ok
  <2>1. b = c BY <1>1 DEF RespondControlChallenge
  <2> QED BY <1>0, <2>1, CheckProgress
<1>2. CASE ok
  <2>1. c \in SessionAuthorityType /\ c.phase \in Observing /\ c.lease # None
    BY SMTT(30), <1>0, <1>2 DEF Sound, Settled, ObservationLive, LeaseIs
  <2>2. c.lease \in Lease /\ c.lease.authorized_until \in Time
    BY SMTT(30), <2>1, Times
  <2>3. /\ c.control_challenge # None =>
             /\ c.control_challenge.deadline \in Time
             /\ c.lease.authorized_until <= c.control_challenge.deadline
             /\ c.control_challenge.deadline <= c.last_checked + AuthorizationLifetime
        /\ c.observation_until # None /\ c.last_checked # None
        /\ c.lease.authorized_until <= c.last_checked + AuthorizationLifetime
    BY SMTT(30), <1>0, <2>1, Times DEF Sound, Settled, Dated
  <2>4. ControlRenewable(c, id, nonce, now) => c.control_challenge # None
    BY DEF ControlRenewable, Answers
  <2>5. b = [c EXCEPT !.control_challenge = h, !.lease = l]
    <3>1. c.lease = [c.lease EXCEPT !.authorized_until = c.lease.authorized_until]
      BY <2>2 DEF Lease
    <3>2. CASE ControlRenewable(c, id, nonce, now)
      BY <1>2, <3>2 DEF RespondControlChallenge
    <3>3. CASE ~ ControlRenewable(c, id, nonce, now)
      <4>1. l = c.lease BY <3>1, <3>3
      <4>2. b = [c EXCEPT !.control_challenge = h]
        BY <1>2, <3>3 DEF RespondControlChallenge
      <4>3. [c EXCEPT !.control_challenge = h, !.lease = c.lease]
              = [c EXCEPT !.control_challenge = h]
        <5> HIDE DEF h, c
        <5> QED BY ZenonT(60), <2>1 DEF SessionAuthorityType
      <4> QED BY Zenon, <4>1, <4>2, <4>3
    <3> QED BY <3>2, <3>3
  <2>6. /\ h = None \/ h = c.control_challenge
        /\ u # c.lease.authorized_until => h = None
    OBVIOUS
  <2>7. /\ u \in Time /\ c.lease.authorized_until <= u
        /\ u <= c.last_checked + AuthorizationLifetime
    BY <2>2, <2>3, <2>4, TimesAreNaturals
  <2> HIDE DEF b, c, h, u, ok
  <2>8. /\ l \in Lease /\ l.id = c.lease.id /\ l.authorized_until = u
        /\ l.tickets = c.lease.tickets
    BY <2>2, <2>7 DEF Lease
  <2>9. l # None BY <2>8, NoneAssumption
  <2> HIDE DEF l
  <2>10. b \in SessionAuthorityType
    BY ZenonT(60), <2>1, <2>5, <2>6, <2>8 DEF SessionAuthorityType, Option
  <2>11. /\ b.control_challenge = h /\ b.lease = l
         /\ b.last_checked = c.last_checked /\ b.phase = c.phase
         /\ b.observation_until = c.observation_until
         /\ b.readiness = c.readiness /\ b.view_until = c.view_until
         /\ b.bounded_view = c.bounded_view /\ b.suspension = c.suspension
         /\ b.native_owner = c.native_owner
         /\ b.observation_challenge = c.observation_challenge
         /\ b.clock_faulted = c.clock_faulted
    BY <2>1, <2>5 DEF SessionAuthorityType
  <2>12. Suspended(b) /\ ViewAhead(b)
    BY SMTT(30), <1>0, <2>1, <2>9, <2>11 DEF Sound, Settled, Suspended, ViewAhead
  <2>13. Staged(b)
    BY SMTT(30), <1>0, <2>1, <2>11 DEF Sound, Settled, Staged
  <2>14. Dated(b)
    BY SMTT(30), <1>0, <2>1, <2>3, <2>6, <2>7, <2>8, <2>9, <2>11 DEF Sound, Settled, Dated
  <2>15. Ticketed(b)
    <3>1. SUFFICES ASSUME NEW s \in Slots, c.lease.tickets[s] # None
                   PROVE  c.lease.tickets[s].expires_at <= u
      BY SMTT(30), <1>0, <2>1, <2>8, <2>11 DEF Sound, Settled, Ticketed
    <3>2. c.lease.tickets[s] \in Ticket
      BY SMTT(30), <2>2, <3>1 DEF Lease, Tickets
    <3>3. c.lease.tickets[s].expires_at \in Time BY SMTT(30), <3>2 DEF Ticket
    <3>4. c.lease.tickets[s].expires_at <= c.lease.authorized_until
      BY <1>0, <2>1, <3>1 DEF Sound, Settled, Ticketed
    <3> QED BY SMTT(30), <2>2, <2>7, <3>3, <3>4, TimesAreNaturals
  <2>16. Sound(b)
    BY <2>10, <2>12, <2>13, <2>14, <2>15 DEF Sound, Settled
  <2>17. Progress(c, b)
    <3>1. Grows(c, b)
      BY SMTT(30), <1>0, <2>7, <2>8, <2>11, ProgressRefl DEF Progress, Grows
    <3>2. Revives(c, b)
      BY <1>0, <2>1, <2>11, ProgressRefl DEF Progress, Revives
    <3> QED BY SMTT(30), <3>1, <3>2 DEF Progress
  <2> QED BY <2>16, <2>17, AfterCheck DEF b, c
<1> QED BY <1>1, <1>2

\* invalidate_input_tickets is sound and makes progress.
LEMMA InvalidateInputTicketsStep ==
    ASSUME NEW a, Sound(a), NEW id \in LeaseIds
    PROVE  /\ Sound(InvalidateInputTickets(a, id))
           /\ Progress(a, InvalidateInputTickets(a, id))
<1> DEFINE b == InvalidateInputTickets(a, id)
           l == WithoutTickets(a.lease)
<1>1. CASE ~ LeaseIs(a, id)
  <2>1. b = a BY <1>1 DEF InvalidateInputTickets
  <2> QED BY <2>1, ProgressRefl
<1>2. CASE LeaseIs(a, id)
  <2>1. a \in SessionAuthorityType BY DEF Sound, Settled
  <2>2. /\ l \in Option(Lease)
        /\ (l = None) <=> (a.lease = None)
        /\ a.lease # None => /\ l.id = a.lease.id
                             /\ l.authorized_until = a.lease.authorized_until
                             /\ \A s \in Slots : l.tickets[s] = None
    BY <2>1, WithoutTicketsFacts DEF SessionAuthorityType
  <2>3. b = [a EXCEPT !.lease = l]
    BY <1>2 DEF InvalidateInputTickets
  <2> HIDE DEF b, l
  <2>4. b \in SessionAuthorityType
    BY <2>1, <2>2, <2>3 DEF SessionAuthorityType
  <2>5. /\ b.lease = l /\ b.phase = a.phase
        /\ b.observation_until = a.observation_until
        /\ b.last_checked = a.last_checked
        /\ b.readiness = a.readiness /\ b.view_until = a.view_until
        /\ b.bounded_view = a.bounded_view
        /\ b.suspension = a.suspension /\ b.native_owner = a.native_owner
        /\ b.observation_challenge = a.observation_challenge
        /\ b.control_challenge = a.control_challenge
        /\ b.clock_faulted = a.clock_faulted
    BY SMTT(30), <2>1, <2>3 DEF SessionAuthorityType
  <2>6. Suspended(b) /\ ViewAhead(b)
    BY SMTT(30), <2>2, <2>5 DEF Sound, Settled, Suspended, ViewAhead
  <2>7. Staged(b) /\ Ticketed(b)
    BY SMTT(30), <2>2, <2>5 DEF Sound, Settled, Staged, Ticketed, HoldsNothing
  <2>8. Dated(b)
    BY <2>2, <2>5 DEF Sound, Settled, Dated
  <2>9. Sound(b) BY SMTT(30), <2>4, <2>6, <2>7, <2>8 DEF Sound, Settled
  <2>10. Carried(a, b) BY <2>2, <2>5 DEF Carried
  <2> QED BY <2>1, <2>9, <2>10, CarriedProgress DEF b
<1> QED BY <1>1, <1>2

\* A new ticket is clamped to the lease and the observation and repeats no
\* retained identity.
LEMMA IssueInputTicketStep ==
    ASSUME NEW a, Sound(a), NEW now \in Time, NEW id \in LeaseIds,
           NEW ticket \in TicketIds, NEW presented \in BOOLEAN
    PROVE  /\ Sound(IssueInputTicket(a, id, ticket, now, presented))
           /\ Progress(a, IssueInputTicket(a, id, ticket, now, presented))
<1> DEFINE c == CheckTime(a, now)
           b == IssueInputTicket(a, id, ticket, now, presented)
           k == FirstSlot(ReusableSlots(c.lease, now))
           e == TicketExpiry(c, now)
           n == [id |-> ticket, expires_at |-> e]
           t == [c.lease.tickets EXCEPT ![k] = n]
           l == [c.lease EXCEPT !.tickets = t]
<1>0. Sound(c) BY CheckTimeSound
<1>1. CASE ~ TicketIssuable(c, id, ticket, now, presented)
  <2>1. b = c BY SMTT(30), <1>1 DEF IssueInputTicket
  <2> QED BY <1>0, <2>1, CheckProgress
<1>2. CASE TicketIssuable(c, id, ticket, now, presented)
  <2>1. /\ c \in SessionAuthorityType /\ c.phase \in Observing
        /\ c.lease # None /\ c.readiness = "Ready" /\ c.observation_until # None
    BY SMTT(30), <1>0, <1>2 DEF Sound, Settled, TicketIssuable, ObservationLive, LeaseIs
  <2>2. /\ c.lease \in Lease /\ c.lease.authorized_until \in Time
        /\ c.observation_until \in Time
    BY SMTT(30), <2>1, Times
  <2>3. \A s \in Slots : c.lease.tickets[s] # None => c.lease.tickets[s].id # ticket
    BY SMTT(30), <1>2 DEF TicketIssuable
  <2>4. e \in Time /\ e <= c.lease.authorized_until /\ e <= c.observation_until
    <3>1. now + TicketLifetime \in Time
      BY <1>2, BoundsAssumption DEF TicketIssuable, HasDeadline, Time
    <3> HIDE DEF c
    <3> QED BY SMTT(30), <2>2, <3>1, TimesAreNaturals DEF TicketExpiry, Earliest
  <2>5. b = [c EXCEPT !.lease = l]
    BY <1>2 DEF IssueInputTicket
  <2> HIDE DEF b, c, k, e
  <2>6. n \in Ticket /\ n.id = ticket /\ n.expires_at = e
    BY <2>4 DEF Ticket
  <2>7. n # None BY <2>6, NoneAssumption
  <2> HIDE DEF n
  <2>8. c.lease.tickets \in Tickets BY <2>2 DEF Lease
  <2>9. /\ t \in Tickets
        /\ \A s \in Slots : t[s] = IF s = k THEN n ELSE c.lease.tickets[s]
    BY ZenonT(60), <2>6, <2>8 DEF Tickets
  <2> HIDE DEF t
  <2>10. /\ l \in Lease /\ l.id = c.lease.id /\ l.tickets = t
         /\ l.authorized_until = c.lease.authorized_until
    BY <2>2, <2>9 DEF Lease
  <2>11. l # None BY <2>10, NoneAssumption
  <2> HIDE DEF l
  <2>12. b \in SessionAuthorityType
    BY <2>1, <2>5, <2>10 DEF SessionAuthorityType, Option
  <2>13. /\ b.lease = l /\ b.control_challenge = c.control_challenge
         /\ b.last_checked = c.last_checked /\ b.phase = c.phase
         /\ b.observation_until = c.observation_until
         /\ b.readiness = c.readiness /\ b.view_until = c.view_until
         /\ b.bounded_view = c.bounded_view /\ b.suspension = c.suspension
         /\ b.native_owner = c.native_owner
         /\ b.observation_challenge = c.observation_challenge
         /\ b.clock_faulted = c.clock_faulted
    BY SMTT(30), <2>1, <2>5 DEF SessionAuthorityType
  <2>14. Suspended(b) /\ ViewAhead(b)
    BY SMTT(30), <1>0, <2>1, <2>11, <2>13 DEF Sound, Settled, Suspended, ViewAhead
  <2>15. Staged(b)
    BY SMTT(30), <1>0, <2>1, <2>13 DEF Sound, Settled, Staged
  <2>16. Dated(b)
    BY SMTT(30), <1>0, <2>1, <2>10, <2>11, <2>13 DEF Sound, Settled, Dated
  <2>17. Ticketed(b)
    <3>1. SUFFICES ASSUME NEW s \in Slots, t[s] # None
          PROVE  /\ t[s].expires_at <= c.lease.authorized_until
                 /\ t[s].expires_at <= c.observation_until
                 /\ \A r \in Slots \ {s} : t[r] # None => t[r].id # t[s].id
      BY <2>1, <2>10, <2>13 DEF Ticketed
    <3>2. Ticketed(c) BY SMTT(30), <1>0 DEF Sound, Settled
    <3>3. CASE s = k
      BY SMTT(30), <2>3, <2>4, <2>6, <2>9, <3>1, <3>3
    <3>4. CASE s # k
      BY <2>1, <2>3, <2>6, <2>9, <3>1, <3>2, <3>4 DEF Ticketed
    <3> QED BY SMTT(30), <3>3, <3>4
  <2>18. Sound(b)
    BY SMTT(30), <2>12, <2>14, <2>15, <2>16, <2>17 DEF Sound, Settled
  <2>19. Carried(c, b) BY <2>1, <2>10, <2>11, <2>13 DEF Carried
  <2> QED BY SMTT(30), <2>1, <2>18, <2>19, CarriedProgress, AfterCheck DEF b, c
<1> QED BY <1>1, <1>2

\* claim_native_owner is sound and makes progress.
LEMMA ClaimNativeOwnerStep ==
    ASSUME NEW a, Sound(a), NEW id \in LeaseIds, NEW owner \in Owners
    PROVE  /\ Sound(ClaimNativeOwner(a, id, owner))
           /\ Progress(a, ClaimNativeOwner(a, id, owner))
<1> DEFINE b == ClaimNativeOwner(a, id, owner)
           ok == LeaseIs(a, id) /\ a.native_owner = None
<1>1. CASE ~ ok
  <2>1. b = a BY <1>1 DEF ClaimNativeOwner
  <2> QED BY <2>1, ProgressRefl
<1>2. CASE ok
  <2>1. a \in SessionAuthorityType /\ a.lease # None
    BY <1>2 DEF Sound, Settled, LeaseIs
  <2>2. b = [a EXCEPT !.native_owner = owner]
    BY <1>2 DEF ClaimNativeOwner
  <2>3. a.native_owner = None BY <1>2
  <2>4. a.phase \in Observing
    BY <2>1 DEF Sound, Settled, Staged, HoldsNothing
  <2> HIDE DEF b, ok
  <2>5. b \in SessionAuthorityType
    BY <2>1, <2>2 DEF SessionAuthorityType, Option
  <2>6. /\ b.lease = a.lease /\ b.phase = a.phase
        /\ b.observation_until = a.observation_until
        /\ b.last_checked = a.last_checked
        /\ b.readiness = a.readiness /\ b.view_until = a.view_until
        /\ b.bounded_view = a.bounded_view /\ b.suspension = a.suspension
        /\ b.observation_challenge = a.observation_challenge
        /\ b.control_challenge = a.control_challenge
        /\ b.clock_faulted = a.clock_faulted
    BY SMTT(30), <2>1, <2>2 DEF SessionAuthorityType
  <2>7. Suspended(b) /\ ViewAhead(b) /\ Ticketed(b)
    BY SMTT(30), <2>6 DEF Sound, Settled, Suspended, ViewAhead, Ticketed
  <2>8. Staged(b) /\ Dated(b)
    BY <2>4, <2>6 DEF Sound, Settled, Staged, Dated
  <2>9. Sound(b) BY SMTT(30), <2>5, <2>7, <2>8 DEF Sound, Settled
  <2>10. Grows(a, b) BY SMTT(30), <2>3, <2>6, ProgressRefl DEF Progress, Grows
  <2>11. Revives(a, b) BY SMTT(30), <2>6, ProgressRefl DEF Progress, Revives
  <2> QED BY SMTT(30), <2>9, <2>10, <2>11 DEF b, Progress
<1> QED BY <1>1, <1>2

\* A monitor read lapses a passed view and changes nothing else.
LEMMA ControlStatusStep ==
    ASSUME NEW a, Sound(a), NEW sampled \in Time
    PROVE  /\ Sound(ControlStatusEffect(a, sampled))
           /\ Progress(a, ControlStatusEffect(a, sampled))
           /\ Carried(a, ControlStatusEffect(a, sampled))
<1> DEFINE b == ControlStatusEffect(a, sampled)
           now == SerializedTime(a, sampled)
<1>0. Settled(a) /\ a \in SessionAuthorityType BY SMTT(30) DEF Sound, Settled
<1>1. CASE ~ a.clock_faulted /\ ViewPassed(a, now)
  <2>1. a.view_until \in Time BY <1>0, <1>1, Times DEF ViewPassed
  <2>2. b = LapseView(a, a.view_until)
    BY SMTT(30), <1>1 DEF ControlStatusEffect, LapsePassedView
  <2> QED BY SMTT(30), <1>0, <2>1, <2>2, LapseSound, LapseCarries, CarriedProgress
<1>2. CASE ~ (~ a.clock_faulted /\ ViewPassed(a, now))
  <2>1. b = a BY SMTT(30), <1>2 DEF ControlStatusEffect, LapsePassedView
  <2> QED BY <2>1, ProgressRefl DEF Carried
<1> QED BY <1>1, <1>2

-----------------------------------------------------------------------------
(* apply_resume_boundary, a chain of removals.                             *)

\* Nothing is added: what b still holds, a held with the same deadlines.
Shrinks(a, b) ==
    /\ a.phase \in Terminal => b.phase \in Terminal
    /\ b.observation_until # None => b.observation_until = a.observation_until
    /\ b.lease # None => /\ a.lease # None
                         /\ b.lease.id = a.lease.id
                         /\ b.lease.authorized_until = a.lease.authorized_until
                         /\ b.native_owner = a.native_owner
    /\ (a.suspension # None /\ b.lease # None) => b.suspension = a.suspension

\* Taking away composes.
LEMMA ShrinksTrans ==
    ASSUME NEW a, NEW b, NEW c, Shrinks(a, b), Shrinks(b, c)
    PROVE  Shrinks(a, c)
  BY DEF Shrinks

\* Carrying over takes nothing more than it may.
LEMMA CarriedShrinks ==
    ASSUME NEW a, NEW b, Carried(a, b)
    PROVE  Shrinks(a, b)
  BY DEF Shrinks, Carried

\* Taking authority away makes progress.
LEMMA ShrinksProgress ==
    ASSUME NEW a, a \in SessionAuthorityType, NEW b, Shrinks(a, b)
    PROVE  Progress(a, b)
<1>1. Grows(a, b)
  <2>1. a.observation_until # None => a.observation_until \in Int
    BY Times, TimesAreNaturals
  <2>2. a.lease # None => a.lease.authorized_until \in Int
    BY Times, TimesAreNaturals
  <2> QED BY <2>1, <2>2 DEF Grows, Shrinks
<1>2. Revives(a, b) BY DEF Revives, Shrinks
<1> QED BY SMTT(30), <1>1, <1>2 DEF Progress

\* apply_resume_boundary drops expired challenges soundly.
LEMMA ExpireChallengesStep ==
    ASSUME NEW o, Sound(o), NEW now
    PROVE  LET h == [o EXCEPT
                       !.observation_challenge = ExpireChallenge(@, now),
                       !.control_challenge = ExpireChallenge(@, now)]
           IN Sound(h) /\ Shrinks(o, h) /\ h.clock_faulted = o.clock_faulted
              /\ h.last_checked = o.last_checked
<1> DEFINE x == ExpireChallenge(o.observation_challenge, now)
           y == ExpireChallenge(o.control_challenge, now)
           h == [o EXCEPT !.observation_challenge = x, !.control_challenge = y]
<1>0. o \in SessionAuthorityType BY DEF Sound, Settled
<1>1. /\ x = None \/ x = o.observation_challenge
      /\ y = None \/ y = o.control_challenge
  BY DEF ExpireChallenge
<1> HIDE DEF x, y
<1>2. h \in SessionAuthorityType
  <2> DEFINE g == [o EXCEPT !.observation_challenge = x]
  <2>1. x \in Option(Challenge) /\ y \in Option(Challenge)
    BY <1>0, <1>1 DEF SessionAuthorityType, Option
  <2>2. g \in SessionAuthorityType
    BY ZenonT(60), <1>0, <2>1 DEF SessionAuthorityType
  <2>3. h = [g EXCEPT !.control_challenge = y] OBVIOUS
  <2> HIDE DEF g
  <2> QED BY ZenonT(60), <2>1, <2>2, <2>3 DEF SessionAuthorityType
<1>3. /\ h.observation_challenge = x /\ h.control_challenge = y
      /\ h.last_checked = o.last_checked /\ h.phase = o.phase
      /\ h.lease = o.lease /\ h.observation_until = o.observation_until
      /\ h.readiness = o.readiness /\ h.view_until = o.view_until
      /\ h.bounded_view = o.bounded_view /\ h.suspension = o.suspension
      /\ h.native_owner = o.native_owner
      /\ h.clock_faulted = o.clock_faulted
  BY <1>0 DEF SessionAuthorityType
<1> HIDE DEF h
<1>4. Suspended(h) /\ ViewAhead(h) /\ Ticketed(h)
  BY SMTT(30), <1>3 DEF Sound, Settled, Suspended, ViewAhead, Ticketed
<1>5. Staged(h) /\ Dated(h)
  BY <1>1, <1>3 DEF Sound, Settled, Staged, Dated, HoldsNothing
<1>6. Sound(h) BY SMTT(30), <1>2, <1>4, <1>5 DEF Sound, Settled
<1>7. Shrinks(o, h) BY <1>3 DEF Shrinks
<1> QED BY <1>3, <1>6, <1>7 DEF h, x, y

\* apply_resume_boundary drops expired tickets soundly.
LEMMA ExpireTicketsStep ==
    ASSUME NEW a, Sound(a), NEW now
    PROVE  LET b == [a EXCEPT !.lease = ExpireTickets(@, now)]
           IN Sound(b) /\ Carried(a, b) /\ b.last_checked = a.last_checked
<1> DEFINE l == ExpireTickets(a.lease, now)
           b == [a EXCEPT !.lease = l]
<1>0. a \in SessionAuthorityType /\ a.lease \in Option(Lease)
  BY SMTT(30) DEF Sound, Settled, SessionAuthorityType
<1>1. /\ l \in Option(Lease)
      /\ (l = None) <=> (a.lease = None)
      /\ a.lease # None =>
            /\ l.id = a.lease.id
            /\ l.authorized_until = a.lease.authorized_until
            /\ \A s \in Slots : l.tickets[s] = None \/ l.tickets[s] = a.lease.tickets[s]
  <2>1. CASE a.lease = None
    BY <2>1 DEF ExpireTickets, Option
  <2>2. CASE a.lease # None
    <3> DEFINE t == [s \in Slots |-> IF s \in ReusableSlots(a.lease, now)
                                     THEN None ELSE a.lease.tickets[s]]
               w == [a.lease EXCEPT !.tickets = t]
    <3>1. a.lease \in Lease BY SMTT(30), <1>0, <2>2 DEF Option
    <3>2. /\ t \in Tickets
          /\ \A s \in Slots : t[s] = None \/ t[s] = a.lease.tickets[s]
      BY <3>1 DEF Lease, Tickets
    <3> HIDE DEF t
    <3>3. /\ w \in Lease /\ w.id = a.lease.id /\ w.tickets = t
          /\ w.authorized_until = a.lease.authorized_until
      BY <3>1, <3>2 DEF Lease
    <3>4. w # None BY <3>3, NoneAssumption
    <3>5. l = w BY <2>2 DEF ExpireTickets, t
    <3> QED BY <2>2, <3>2, <3>3, <3>4, <3>5 DEF Option
  <2> QED BY <2>1, <2>2
<1> HIDE DEF l
<1>2. b \in SessionAuthorityType
  BY <1>0, <1>1 DEF SessionAuthorityType
<1>3. /\ b.lease = l /\ b.phase = a.phase
      /\ b.observation_until = a.observation_until
      /\ b.last_checked = a.last_checked
      /\ b.readiness = a.readiness /\ b.view_until = a.view_until
      /\ b.bounded_view = a.bounded_view
      /\ b.suspension = a.suspension /\ b.native_owner = a.native_owner
      /\ b.observation_challenge = a.observation_challenge
      /\ b.control_challenge = a.control_challenge
      /\ b.clock_faulted = a.clock_faulted
  BY SMTT(30), <1>0 DEF SessionAuthorityType
<1> HIDE DEF b
<1>4. Suspended(b) /\ ViewAhead(b)
  BY SMTT(30), <1>1, <1>3 DEF Sound, Settled, Suspended, ViewAhead
<1>5. Staged(b) /\ Dated(b)
  BY SMTT(30), <1>1, <1>3 DEF Sound, Settled, Staged, Dated, HoldsNothing
<1>6. Ticketed(b)
  <2>1. Ticketed(a) BY DEF Sound, Settled
  <2>2. SUFFICES ASSUME a.lease # None, NEW s \in Slots, l.tickets[s] # None
                 PROVE  /\ a.readiness = "Ready"
                        /\ a.observation_until # None
                        /\ l.tickets[s].expires_at <= l.authorized_until
                        /\ l.tickets[s].expires_at <= a.observation_until
                        /\ \A r \in Slots \ {s} : l.tickets[r] # None =>
                              l.tickets[r].id # l.tickets[s].id
    BY <1>1, <1>3 DEF Ticketed
  <2>3. l.tickets[s] = a.lease.tickets[s] /\ a.lease.tickets[s] # None
    BY <1>1, <2>2
  <2>4. \A r \in Slots : l.tickets[r] # None => l.tickets[r] = a.lease.tickets[r]
    BY <1>1, <2>2
  <2> QED BY <1>1, <2>1, <2>2, <2>3, <2>4 DEF Ticketed
<1>7. Sound(b) BY SMTT(30), <1>2, <1>4, <1>5, <1>6 DEF Sound, Settled
<1>8. Carried(a, b) BY <1>1, <1>3 DEF Carried
<1> QED BY <1>3, <1>7, <1>8 DEF b, l

\* apply_resume_boundary is sound and makes progress.
LEMMA ApplyResumeBoundaryStep ==
    ASSUME NEW a, Sound(a), NEW now \in Time
    PROVE  /\ Sound(ApplyResumeBoundary(a, now))
           /\ Progress(a, ApplyResumeBoundary(a, now))
<1> DEFINE c == CheckTime(a, now)
           o == IF c.observation_until # None /\ now >= c.observation_until
                THEN DropObservation(c) ELSE c
           h == [o EXCEPT
                   !.observation_challenge = ExpireChallenge(@, now),
                   !.control_challenge = ExpireChallenge(@, now)]
           l == IF h.lease # None /\ now >= h.lease.authorized_until
                THEN RevokeLease(h) ELSE h
           t == [l EXCEPT !.lease = ExpireTickets(@, now)]
           z == CheckTime(t, now)
           b == ApplyResumeBoundary(a, now)
<1>0. Sound(c) BY CheckTimeSound
<1>1. CASE ClockRegressed(a, now)
  <2>1. b = c BY <1>1 DEF ApplyResumeBoundary
  <2> QED BY <1>0, <2>1, CheckProgress
<1>2. CASE ~ ClockRegressed(a, now)
  <2>1. b = z BY <1>2 DEF ApplyResumeBoundary
  <2>2. Carried(a, c) /\ c.last_checked = now BY SMTT(30), <1>2, CheckTimeSound
  <2>3. Sound(o) /\ Shrinks(c, o)
    <3>1. CASE c.observation_until # None /\ now >= c.observation_until
      <4>1. o = DropObservation(c) BY SMTT(30), <3>1
      <4>2. Sound(o) /\ (c.phase \in Terminal => o.phase \in Terminal)
        BY <1>0, <4>1, DropSound
      <4>3. o.observation_until = None /\ o.lease = None
        BY ZenonT(60), <1>0, <4>1 DEF Sound, Settled, DropObservation, ClearAuthority,
                          SessionAuthorityType
      <4> QED BY <4>2, <4>3 DEF Shrinks
    <3>2. CASE ~ (c.observation_until # None /\ now >= c.observation_until)
      <4>1. o = c BY <3>2
      <4> QED BY <1>0, <4>1 DEF Shrinks
    <3> QED BY SMTT(30), <3>1, <3>2
  <2> HIDE DEF o
  <2>4. Sound(h) /\ Shrinks(o, h) BY Zenon, <2>3, ExpireChallengesStep
  <2> HIDE DEF h
  <2>5. Sound(l) /\ Shrinks(h, l)
    <3>1. CASE h.lease # None /\ now >= h.lease.authorized_until
      <4>1. l = RevokeLease(h) BY SMTT(30), <3>1
      <4>2. Sound(l) /\ l.phase = h.phase BY <2>4, <4>1, RevokeSound
      <4>3. l.lease = None /\ l.observation_until = h.observation_until
        BY ZenonT(60), <2>4, <4>1 DEF Sound, Settled, RevokeLease, SessionAuthorityType
      <4> QED BY <4>2, <4>3 DEF Shrinks
    <3>2. CASE ~ (h.lease # None /\ now >= h.lease.authorized_until)
      <4>1. l = h BY <3>2
      <4> QED BY <2>4, <4>1 DEF Shrinks
    <3> QED BY SMTT(30), <3>1, <3>2
  <2> HIDE DEF l
  <2>6. Sound(t) /\ Shrinks(l, t) BY <2>5, ExpireTicketsStep, CarriedShrinks
  <2> HIDE DEF t
  <2>7. Shrinks(a, t)
    <3>1. Shrinks(a, c) BY <2>2, CarriedShrinks
    <3> HIDE DEF c
    <3> QED BY <2>3, <2>4, <2>5, <2>6, <3>1, ShrinksTrans
  <2>8. Sound(z) /\ Shrinks(t, z)
    <3>1. Sound(z) BY <2>6, CheckTimeSound
    <3>2. CASE ClockRegressed(t, now)
      <4>1. z.phase = "Closed" BY SMTT(30), <2>6, <3>2, CheckTimeSound
      <4> HIDE DEF z
      <4>2. z.observation_until = None /\ z.lease = None
        BY SMTT(30), <3>1, <4>1 DEF Sound, Settled, Staged, HoldsNothing, Observing
      <4> QED BY <3>1, <4>1, <4>2 DEF Shrinks, Terminal
    <3>3. CASE ~ ClockRegressed(t, now)
      BY <2>6, <3>1, <3>3, CheckTimeSound, CarriedShrinks
    <3> QED BY <3>2, <3>3
  <2>9. Progress(a, z)
    <3> HIDE DEF z
    <3>1. Shrinks(a, z) BY SMTT(30), <2>7, <2>8, ShrinksTrans
    <3> QED BY <3>1, ShrinksProgress DEF Sound, Settled
  <2> QED BY <2>1, <2>8, <2>9
<1> QED BY <1>1, <1>2

=============================================================================
