--------------------------- MODULE StopSignalProofs ---------------------------
(***************************************************************************)
(* The safety of the stop signal and its watchdog, for any number of       *)
(* stopping threads and installers, any check interval and any clock.      *)
(*                                                                         *)
(* The inductive invariant says what holds between the steps of a stop:    *)
(* a stop that has got past a step has done it (Ordered), the slot keeps   *)
(* the fence that was installed (Slotted), an end without a cause is one   *)
(* that authority came to by itself (Attributed), and a timer that is not  *)
(* armed any more has been reached (Timed).                                *)
(***************************************************************************)
EXTENDS StopSignal, TLAPS

\* A stop that got past a step has done it, and a thread outside has no cause.
Ordered ==
    \A t \in Threads :
        /\ stop[t].pc = "idle" <=> stop[t].cause = None
        /\ stop[t].pc \in {"revoke", "fence", "wake", "done"} => reason # None
        /\ stop[t].pc \in {"fence", "wake", "done"} => revoked

\* An installation that was not refused is the one in the slot.
Slotted ==
    \A i \in Installers :
        /\ installer[i] = "check" => slot = i
        /\ installer[i] = "done" => slot = i \/ i \in fenced

\* Somebody said that authority ended, or it did.
EndKnown == ended \/ \E t \in Callers : stop[t].cause = "AuthorityEnded"

\* A lease that ended without a cause on record ended by itself, or was never watched.
Attributed ==
    /\ revoked /\ reason = None => ended \/ watch.pc = "refused"
    /\ reason = "AuthorityEnded" => EndKnown
    /\ stop[Watch].cause = "AuthorityEnded" => EndKnown \/ reason # None

\* Under a steady clock a timer that was disarmed has been reached, and a poll that is
\* past its sample leaves an armed timer or a scheduled task behind.
Timed ==
    /\ watch.armed => watch.timer # None
    /\ steady /\ watch.timer # None /\ ~ watch.armed => watch.timer <= now
    /\ steady /\ watch.pc \in {"recheck", "parked"} /\ ~ scheduled =>
        /\ watch.armed
        /\ watch.timer <= seen
        /\ watch.timer <= watch.last + CheckInterval

Inv == TypeOK /\ Ordered /\ Slotted /\ Attributed /\ Timed /\ FenceNeverMissed /\ CauseIsNamed

-----------------------------------------------------------------------------
(* Types.                                                                  *)

\* No cause is taken for the lack of one, and no instant is.
LEMMA Values ==
    /\ None \notin StopReasons /\ None \notin Installers /\ None \notin Times
    /\ WatchCauses \subseteq StopReasons /\ Causes \subseteq StopReasons
    /\ Watch \in Threads /\ Callers \subseteq Threads /\ Watch \notin Callers
    /\ "AuthorityEnded" \in WatchCauses /\ "WatchdogDropped" \in WatchCauses
    /\ Times \subseteq Int
  BY SignalAssumption DEF StopReasons, WatchCauses, Threads, Times

LEMMA InitTyped == Init => TypeOK
  <1> SUFFICES ASSUME Init PROVE TypeOK
    OBVIOUS
  <1>1. stop \in [Threads -> [pc : StopSteps, cause : StopReasons \cup {None}]]
    BY DEF Init, StopSteps
  <1>2. installer \in [Installers -> InstallSteps]
    BY DEF Init, InstallSteps
  <1>3. 0 \in Times /\ 0 \in Deadlines
    BY SignalAssumption DEF Times, Deadlines
  <1>4. watch \in [pc : WatchSteps, last : Times, timer : Times \cup {None},
                   armed : BOOLEAN, done : StopReasons \cup {None}]
    BY <1>3 DEF Init, WatchSteps
  <1> QED BY <1>1, <1>2, <1>3, <1>4, ZenonT(60) DEF Init, TypeOK

\* Entering, and passing, a step of stop.
LEMMA StopTyped ==
    ASSUME TypeOK, NEW t \in Threads
    PROVE  /\ \A cause \in StopReasons : Entered(t, cause) => stop' \in [Threads -> [pc : StopSteps, cause : StopReasons \cup {None}]]
           /\ \A step \in {"name", "revoke", "fence", "wake"} : Past(t, step) => stop' \in [Threads -> [pc : StopSteps, cause : StopReasons \cup {None}]]
  BY DEF TypeOK, Entered, Past, StopOrder, StopSteps

LEMMA SampleValues ==
    ASSUME TypeOK
    PROVE  /\ SampleCause \in WatchCauses \cup {None}
           /\ ObservedCause \in StopReasons
           /\ SampleCause = None => /\ ~ revoked /\ now < deadline /\ watch.last <= now
                                    /\ WakeAt \in Times /\ Rearmed \in Times
                                    /\ WakeAt <= deadline /\ WakeAt <= now + CheckInterval
                                    /\ Rearmed <= WakeAt /\ now < Rearmed
  <1> USE SignalAssumption
  <1>1. SampleCause \in WatchCauses \cup {None}
    BY DEF SampleCause, WatchCauses
  <1>2. ObservedCause \in StopReasons
    BY DEF ObservedCause, TypeOK, StopReasons, WatchCauses
  <1>3. ASSUME SampleCause = None
        PROVE  /\ ~ revoked /\ now < deadline /\ watch.last <= now
               /\ WakeAt \in Times /\ Rearmed \in Times
               /\ WakeAt <= deadline /\ WakeAt <= now + CheckInterval
               /\ Rearmed <= WakeAt /\ now < Rearmed
    <2>1. /\ ~ cancelled /\ ~ (now < watch.last) /\ StatusIsLive
          /\ ~ (deadline > MaxTime \/ now + CheckInterval > MaxTime)
      BY <1>3, Values DEF SampleCause, StopReasons, WatchCauses
    <2>2. /\ now \in Int /\ deadline \in Int /\ watch.last \in Int
          /\ 0 <= now /\ 0 <= deadline
          /\ watch.timer # None => watch.timer \in Times
      BY DEF TypeOK, Times, Deadlines
    <2> QED
      BY <2>1, <2>2 DEF StatusIsLive, WakeAt, Rearmed, Earlier, Times
  <1> QED BY <1>1, <1>2, <1>3

WatchType == [pc : WatchSteps, last : Times, timer : Times \cup {None},
              armed : BOOLEAN, done : StopReasons \cup {None}]

LEMMA TypedStep ==
    ASSUME TypeOK, [Next]_vars
    PROVE  TypeOK'
  <1> USE Values
  <1>0. watch \in WatchType
    BY DEF TypeOK, WatchType
  <1>1. ASSUME NEW t \in Callers, NEW cause \in Causes, Stop(t, cause) PROVE TypeOK'
    <2>1. stop' \in [Threads -> [pc : StopSteps, cause : StopReasons \cup {None}]]
      BY <1>1, StopTyped DEF Stop
    <2> QED BY <1>1, <2>1 DEF Stop, TypeOK, signal, clock
  <1>2. ASSUME NEW t \in Threads, StopStep(t) PROVE TypeOK'
    <2>1. stop' \in [Threads -> [pc : StopSteps, cause : StopReasons \cup {None}]]
      BY <1>2, StopTyped DEF StopStep, StopName, StopRevoke, StopFence, StopWake
    <2>2. /\ reason' \in StopReasons \cup {None} /\ revoked' \in BOOLEAN
          /\ fenced' \in SUBSET Installers
          /\ waker' \in BOOLEAN /\ scheduled' \in BOOLEAN
      BY <1>2, ZenonT(60) DEF StopStep, StopName, StopRevoke, StopFence, StopWake, TypeOK
    <2> QED
      BY <1>2, <2>1, <2>2 DEF StopStep, StopName, StopRevoke, StopFence, StopWake, TypeOK, clock
  <1>3. ASSUME NEW i \in Installers, InstallFence(i) \/ InstallCheck(i) PROVE TypeOK'
    BY <1>3 DEF InstallFence, InstallCheck, TypeOK, InstallSteps, clock
  <1>4. ASSUME NEW timed \in BOOLEAN, Create(timed) PROVE TypeOK'
    <2>1. watch' \in WatchType
      BY <1>0, <1>4, ZenonT(60) DEF Create, WatchType, WatchSteps, TypeOK
    <2> QED BY <1>4, <2>1, ZenonT(60) DEF Create, TypeOK, WatchType, clock
  <1>5. CASE WatchStep
    <2>1. CASE PollBegin
      <3>1. watch' \in WatchType
        BY <1>0, <2>1 DEF PollBegin, WatchType, WatchSteps
      <3> QED BY <2>1, <3>1, ZenonT(60) DEF PollBegin, Unstopped, TypeOK, WatchType, clock
    <2>2. ASSUME NEW here \in {"check", "recheck"}, NEW there \in {"sample", "parked"},
                 PollCheck(here, there)
          PROVE  TypeOK'
      <3>1. watch' \in WatchType
        BY <1>0, <2>2 DEF PollCheck, Finishing, WatchType, WatchSteps
      <3>2. stop' \in [Threads -> [pc : StopSteps, cause : StopReasons \cup {None}]]
        <4>1. ObservedCause \in StopReasons
          BY SampleValues
        <4> QED BY <2>2, <4>1, StopTyped DEF PollCheck, Finishing, TypeOK
      <3> QED BY <2>2, <3>1, <3>2 DEF PollCheck, TypeOK, WatchType, signal, clock
    <2>3. ASSUME NEW same \in BOOLEAN, PollSample(same)
          PROVE  TypeOK'
      <3>1. watch' \in WatchType
        <4>1. CASE SampleCause # None
          BY <1>0, <2>3, <4>1 DEF PollSample, Finishing, WatchType, WatchSteps
        <4>2. CASE SampleCause = None
          <5>1. Rearmed \in Times /\ now \in Times
            BY <4>2, SampleValues DEF TypeOK
          <5> QED BY <1>0, <2>3, <4>2, <5>1, ZenonT(60) DEF PollSample, WatchType, WatchSteps
        <4> QED BY <4>1, <4>2
      <3>2. stop' \in [Threads -> [pc : StopSteps, cause : StopReasons \cup {None}]]
        <4>1. SampleCause # None => SampleCause \in StopReasons
          BY SampleValues
        <4> QED BY <2>3, <4>1, StopTyped DEF PollSample, Finishing, TypeOK
      <3>3. seen' \in Deadlines /\ ended' \in BOOLEAN
        BY <2>3 DEF PollSample, TypeOK
      <3>4. UNCHANGED <<signal, installer, clock, steady>>
        BY <2>3 DEF PollSample
      <3> QED BY <3>1, <3>2, <3>3, <3>4 DEF TypeOK, WatchType, signal, clock
    <2>4. CASE Finished \/ Dropped
      <3>1. watch' \in WatchType
        <4>1. (IF reason = None THEN stop[Watch].cause ELSE reason) \in StopReasons \cup {None}
          BY DEF TypeOK
        <4> QED BY <1>0, <2>4, <4>1, ZenonT(60) DEF Finished, Dropped, WatchType, WatchSteps
      <3> QED BY <2>4, <3>1 DEF Finished, Dropped, TypeOK, WatchType, signal, clock
    <2> QED BY <1>5, <2>1, <2>2, <2>3, <2>4 DEF WatchStep
  <1>6. CASE Drop
    <2>1. watch' \in WatchType
      BY <1>0, <1>6, ZenonT(60) DEF Drop, WatchType, WatchSteps
    <2>2. stop' \in [Threads -> [pc : StopSteps, cause : StopReasons \cup {None}]]
      BY <1>6, StopTyped DEF Drop
    <2> QED BY <1>6, <2>1, <2>2 DEF Drop, TypeOK, WatchType, signal, clock
  <1>7. CASE Fire
    <2>1. watch' \in WatchType
      BY <1>0, <1>7, ZenonT(60) DEF Fire, WatchType
    <2> QED BY <1>7, <2>1 DEF Fire, Unstopped, TypeOK, WatchType, clock
  <1>8. CASE SpuriousWake \/ RevokeDirectly
    BY <1>8, ZenonT(60) DEF SpuriousWake, RevokeDirectly, Unstopped, TypeOK, clock
  <1>9. ASSUME NEW until \in Deadlines, MoveDeadline(until) PROVE TypeOK'
    BY <1>9 DEF MoveDeadline, TypeOK, signal
  <1>10. CASE Cancel
    BY <1>10 DEF Cancel, TypeOK, signal
  <1>11. ASSUME NEW step \in {-1, 1}, Tick(step) PROVE TypeOK'
    BY <1>11 DEF Tick, TypeOK, signal
  <1>12. CASE UNCHANGED vars
    BY <1>12, SMTT(60) DEF vars, signal, clock, TypeOK
  <1> QED BY <1>1, <1>2, <1>3, <1>4, <1>5, <1>6, <1>7, <1>8, <1>9, <1>10, <1>11, <1>12 DEF Next

-----------------------------------------------------------------------------
(* What a stop has done.                                                   *)

\* What one step of a stop, of its entry or of anything else, does to the
\* threads inside it.
LEMMA StopMoves ==
    ASSUME TypeOK, [Next]_vars
    PROVE  \/ UNCHANGED <<stop, reason>> /\ (revoked => revoked')
           \/ \E t \in Threads, cause \in StopReasons :
                 /\ Entered(t, cause) /\ UNCHANGED <<reason, revoked, slot, fenced>>
                 /\ t \in Callers => At(t, "idle")
           \/ \E t \in Threads : StopStep(t)
  <1> USE Values
  <1>1. ASSUME NEW t \in Callers, NEW cause \in Causes, Stop(t, cause)
        PROVE  Entered(t, cause) /\ UNCHANGED <<reason, revoked, slot, fenced>> /\ At(t, "idle")
    BY <1>1 DEF Stop, signal
  <1>2. CASE WatchStep
    <2>1. CASE \E same \in BOOLEAN : PollSample(same)
      BY <2>1, SampleValues DEF PollSample, Finishing, signal
    <2>2. CASE PollCheck("check", "sample") \/ PollCheck("recheck", "parked")
      BY <2>2, SampleValues DEF PollCheck, Finishing, signal
    <2>3. CASE PollBegin \/ Finished \/ Dropped
      BY <2>3 DEF PollBegin, Unstopped, Finished, Dropped, signal
    <2> QED BY <1>2, <2>1, <2>2, <2>3 DEF WatchStep
  <1>3. CASE Drop
    BY <1>3 DEF Drop, signal
  <1>4. ASSUME NEW timed \in BOOLEAN, Create(timed) PROVE UNCHANGED <<stop, reason>> /\ (revoked => revoked')
    BY <1>4, SMTT(60) DEF Create
  <1>5. ASSUME NEW i \in Installers, InstallFence(i) \/ InstallCheck(i)
        PROVE  UNCHANGED <<stop, reason>> /\ (revoked => revoked')
    BY <1>5 DEF InstallFence, InstallCheck
  <1>6. CASE Fire \/ SpuriousWake \/ RevokeDirectly \/ Cancel \/ UNCHANGED vars
    BY <1>6 DEF Fire, SpuriousWake, RevokeDirectly, Cancel, Unstopped, signal, vars
  <1>7. ASSUME NEW until \in Deadlines, MoveDeadline(until) PROVE UNCHANGED <<stop, reason>> /\ (revoked => revoked')
    BY <1>7 DEF MoveDeadline, signal
  <1>8. ASSUME NEW step \in {-1, 1}, Tick(step) PROVE UNCHANGED <<stop, reason>> /\ (revoked => revoked')
    BY <1>8 DEF Tick, signal
  <1> QED BY <1>1, <1>2, <1>3, <1>4, <1>5, <1>6, <1>7, <1>8 DEF Next

\* The threads inside stop, before and after one of them enters or passes a step.
LEMMA StopFrame ==
    ASSUME TypeOK, NEW t \in Threads, NEW u \in Threads
    PROVE  /\ \A cause : Entered(t, cause) =>
                stop'[u] = IF u = t THEN [pc |-> "name", cause |-> cause] ELSE stop[u]
           /\ \A step \in {"name", "revoke", "fence", "wake"} : Past(t, step) =>
                /\ stop'[u].cause = stop[u].cause
                /\ stop'[u].pc = IF u = t THEN StopOrder[step] ELSE stop[u].pc
  BY DEF TypeOK, Entered, Past, StopOrder

LEMMA WatchEntered ==
    ASSUME TypeOK, NEW cause, Entered(Watch, cause)
    PROVE  stop'[Watch].cause = cause
  BY Values, SMTT(60) DEF TypeOK, Entered

LEMMA OrderedStep ==
    ASSUME TypeOK, Ordered, [Next]_vars
    PROVE  Ordered'
  <1> USE Values
  <1>1. CASE UNCHANGED <<stop, reason>> /\ (revoked => revoked')
    BY <1>1 DEF Ordered
  <1>2. ASSUME NEW t \in Threads, NEW cause \in StopReasons,
               Entered(t, cause), UNCHANGED <<reason, revoked, slot, fenced>>
        PROVE  Ordered'
    <2> SUFFICES ASSUME NEW u \in Threads
                 PROVE  /\ stop'[u].pc = "idle" <=> stop'[u].cause = None
                        /\ stop'[u].pc \in {"revoke", "fence", "wake", "done"} => reason' # None
                        /\ stop'[u].pc \in {"fence", "wake", "done"} => revoked'
      BY SMTT(60) DEF Ordered
    <2>1. stop'[u] = IF u = t THEN [pc |-> "name", cause |-> cause] ELSE stop[u]
      BY <1>2, StopFrame
    <2>2. CASE u = t
      BY <2>1, <2>2, SMTT(60)
    <2>3. CASE u # t
      BY <1>2, <2>1, <2>3, SMTT(60) DEF Ordered
    <2> QED BY <2>2, <2>3
  <1>3. ASSUME NEW t \in Threads, StopStep(t)
        PROVE  Ordered'
    <2> SUFFICES ASSUME NEW u \in Threads
                 PROVE  /\ stop'[u].pc = "idle" <=> stop'[u].cause = None
                        /\ stop'[u].pc \in {"revoke", "fence", "wake", "done"} => reason' # None
                        /\ stop'[u].pc \in {"fence", "wake", "done"} => revoked'
      BY SMTT(60) DEF Ordered
    <2>1. CASE StopName(t)
      BY <2>1, StopFrame, SMTT(60) DEF StopName, Ordered, StopOrder, At
    <2>2. CASE StopRevoke(t)
      BY <2>2, StopFrame, SMTT(60) DEF StopRevoke, Ordered, StopOrder, At
    <2>3. CASE StopFence(t) \/ StopWake(t)
      BY <2>3, StopFrame DEF StopFence, StopWake, Ordered, StopOrder, At
    <2> QED BY <1>3, <2>1, <2>2, <2>3, SMTT(60) DEF StopStep
  <1> QED BY <1>1, <1>2, <1>3, StopMoves

-----------------------------------------------------------------------------
(* Fences.                                                                 *)

\* Only the two installer steps change the slot or an installer.
LEMMA FenceMoves ==
    ASSUME TypeOK, [Next]_vars
    PROVE  \/ UNCHANGED <<slot, installer>> /\ fenced \subseteq fenced'
           \/ \E i \in Installers : InstallFence(i) \/ InstallCheck(i)
  <1>1. ASSUME NEW t \in Callers, NEW cause \in Causes, Stop(t, cause)
        PROVE  UNCHANGED <<slot, installer>> /\ fenced \subseteq fenced'
    BY <1>1 DEF Stop, signal
  <1>2. ASSUME NEW t \in Threads, StopStep(t)
        PROVE  UNCHANGED <<slot, installer>> /\ fenced \subseteq fenced'
    BY <1>2 DEF StopStep, StopName, StopRevoke, StopFence, StopWake
  <1>3. CASE WatchStep
    BY <1>3 DEF WatchStep, PollBegin, PollCheck, PollSample, Finished, Dropped, Unstopped, signal
  <1>4. ASSUME NEW timed \in BOOLEAN, Create(timed)
        PROVE  UNCHANGED <<slot, installer>> /\ fenced \subseteq fenced'
    BY <1>4 DEF Create
  <1>5. CASE Drop \/ Fire \/ SpuriousWake \/ RevokeDirectly \/ Cancel \/ UNCHANGED vars
    BY <1>5 DEF Drop, Fire, SpuriousWake, RevokeDirectly, Cancel, Unstopped, signal, vars
  <1>6. ASSUME NEW until \in Deadlines, MoveDeadline(until)
        PROVE  UNCHANGED <<slot, installer>> /\ fenced \subseteq fenced'
    BY <1>6 DEF MoveDeadline, signal
  <1>7. ASSUME NEW step \in {-1, 1}, Tick(step)
        PROVE  UNCHANGED <<slot, installer>> /\ fenced \subseteq fenced'
    BY <1>7 DEF Tick, signal
  <1> QED BY <1>1, <1>2, <1>3, <1>4, <1>5, <1>6, <1>7 DEF Next

LEMMA SlottedStep ==
    ASSUME TypeOK, Slotted, [Next]_vars
    PROVE  Slotted'
  <1> USE Values
  <1>1. CASE UNCHANGED <<slot, installer>> /\ fenced \subseteq fenced'
    BY <1>1 DEF Slotted
  <1>2. ASSUME NEW i \in Installers, InstallFence(i)
        PROVE  Slotted'
    BY <1>2 DEF InstallFence, Slotted, TypeOK
  <1>3. ASSUME NEW i \in Installers, InstallCheck(i)
        PROVE  Slotted'
    BY <1>3 DEF InstallCheck, Slotted, TypeOK
  <1> QED BY <1>1, <1>2, <1>3, FenceMoves

LEMMA FenceStep ==
    ASSUME TypeOK, Ordered, Slotted, FenceNeverMissed, [Next]_vars
    PROVE  FenceNeverMissed'
  <1> USE Values
  <1> SUFFICES ASSUME NEW i \in Installers, NEW u \in Threads,
                      installer'[i] = "done", stop'[u].pc \in {"wake", "done"}
               PROVE  i \in fenced'
    BY DEF FenceNeverMissed
  <1>1. CASE \E j \in Installers : InstallFence(j) \/ InstallCheck(j)
    <2>1. PICK j \in Installers : InstallFence(j) \/ InstallCheck(j)
      BY <1>1
    <2>2. stop[u].pc \in {"wake", "done"} /\ fenced \subseteq fenced'
      BY <2>1 DEF InstallFence, InstallCheck
    <2>3. CASE installer[i] = "done"
      BY <2>2, <2>3 DEF FenceNeverMissed
    <2>4. CASE installer[i] # "done"
      <3>1. InstallCheck(j) /\ i = j
        BY <2>1, <2>4 DEF InstallFence, InstallCheck, TypeOK
      <3> QED BY <2>2, <3>1, SMTT(60) DEF InstallCheck, Ordered
    <2> QED BY <2>3, <2>4
  <1>2. CASE UNCHANGED <<slot, installer>> /\ fenced \subseteq fenced'
    <2>1. CASE stop[u].pc \in {"wake", "done"}
      BY <1>2, <2>1, SMTT(60) DEF FenceNeverMissed
    <2>2. CASE stop[u].pc \notin {"wake", "done"}
      <3>1. StopFence(u)
        <4>1. ASSUME NEW t \in Threads, NEW cause \in StopReasons, Entered(t, cause) PROVE FALSE
          <5>1. stop'[u] = IF u = t THEN [pc |-> "name", cause |-> cause] ELSE stop[u]
            BY <4>1, StopFrame, SMTT(60)
          <5> QED BY <2>2, <5>1, SMTT(60)
        <4>2. ASSUME NEW t \in Threads, StopStep(t) PROVE StopFence(u)
          BY <2>2, <4>2, StopFrame, ZenonT(60)
             DEF StopStep, StopName, StopRevoke, StopFence, StopWake, StopOrder, At
        <4> QED BY <2>2, <4>1, <4>2, StopMoves, SMTT(60)
      <3>2. slot = i \/ i \in fenced
        BY <1>2 DEF Slotted
      <3> QED BY <3>1, <3>2, SMTT(60) DEF StopFence
    <2> QED BY <2>1, <2>2
  <1> QED BY <1>1, <1>2, FenceMoves

-----------------------------------------------------------------------------
(* Causes.                                                                 *)

\* A cause of record stays, a revocation stays, and what is known of an end stays known.
LEMMA RecordStays ==
    ASSUME TypeOK, Ordered, [Next]_vars
    PROVE  /\ reason # None => reason' = reason
           /\ revoked => revoked'
           /\ EndKnown => EndKnown'
  <1> USE Values
  <1>1. ended => ended'
    BY ZenonT(60) DEF Next, Stop, StopStep, StopName, StopRevoke, StopFence, StopWake, InstallFence, InstallCheck,
           Create, WatchStep, PollBegin, PollCheck, PollSample, Finished, Dropped, Drop, Fire,
           SpuriousWake, RevokeDirectly, MoveDeadline, Cancel, Tick, vars
  <1>2. CASE UNCHANGED <<stop, reason>> /\ (revoked => revoked')
    BY <1>1, <1>2 DEF EndKnown
  <1>3. ASSUME NEW t \in Threads, NEW cause \in StopReasons, t \in Callers => At(t, "idle"),
               Entered(t, cause), UNCHANGED <<reason, revoked, slot, fenced>>
        PROVE  EndKnown => EndKnown'
    <2> SUFFICES ASSUME NEW u \in Callers, stop[u].cause = "AuthorityEnded"
                 PROVE  stop'[u].cause = "AuthorityEnded"
      BY <1>1 DEF EndKnown
    <2>1. u # t
      BY <1>3 DEF Ordered, At
    <2> QED BY <1>3, <2>1, StopFrame, ZenonT(60)
  <1>4. ASSUME NEW t \in Threads, StopStep(t)
        PROVE  /\ reason # None => reason' = reason
               /\ revoked => revoked'
               /\ EndKnown => EndKnown'
    <2>1. /\ reason # None => reason' = reason
          /\ revoked => revoked'
      BY <1>4, SMTT(60) DEF StopStep, StopName, StopRevoke, StopFence, StopWake
    <2>2. ASSUME NEW u \in Callers PROVE stop'[u].cause = stop[u].cause
      BY <1>4, StopFrame DEF StopStep, StopName, StopRevoke, StopFence, StopWake
    <2> QED BY <1>1, <2>1, <2>2 DEF EndKnown
  <1> QED BY <1>2, <1>3, <1>4, StopMoves

\* A watchdog that was refused stays refused.
LEMMA RefusedStays ==
    ASSUME TypeOK, [Next]_vars, watch.pc = "refused"
    PROVE  watch'.pc = "refused"
  <1>1. CASE Fire
    BY <1>1, SMTT(60) DEF Fire, TypeOK
  <1>2. CASE ~ Fire
    BY <1>2 DEF Next, Stop, StopStep, StopName, StopRevoke, StopFence, StopWake, InstallFence, InstallCheck,
           Create, WatchStep, PollBegin, PollCheck, PollSample, Finished, Dropped, Drop,
           SpuriousWake, RevokeDirectly, MoveDeadline, Cancel, Tick, vars
  <1> QED BY <1>1, <1>2

\* A lease that gets revoked without a cause on record has ended by itself, or
\* its watchdog was refused.
LEMMA EndedBare ==
    ASSUME TypeOK, Ordered, Attributed, [Next]_vars, revoked', reason' = None
    PROVE  ended' \/ watch'.pc = "refused"
  <1> USE Values
  <1>0. reason = None
    BY RecordStays
  <1>1. CASE revoked
    <2>1. ended => ended'
      BY ZenonT(60) DEF Next, Stop, StopStep, StopName, StopRevoke, StopFence, StopWake, InstallFence, InstallCheck,
             Create, WatchStep, PollBegin, PollCheck, PollSample, Finished, Dropped, Drop, Fire,
             SpuriousWake, RevokeDirectly, MoveDeadline, Cancel, Tick, vars
    <2> QED BY <1>0, <1>1, <2>1, RefusedStays, SMTT(60) DEF Attributed
  <1>2. CASE ~ revoked
    <2>1. ASSUME NEW t \in Threads, StopRevoke(t) PROVE FALSE
      BY <1>0, <2>1 DEF StopRevoke, Ordered, At
    <2>2. ASSUME NEW timed \in BOOLEAN, Create(timed) PROVE watch'.pc = "refused"
      BY <1>2, <2>2, ZenonT(60) DEF Create, TypeOK
    <2>3. CASE RevokeDirectly
      BY <2>3 DEF RevokeDirectly
    <2> QED
      BY <1>2, <2>1, <2>2, <2>3, ZenonT(60)
         DEF Next, Stop, StopStep, StopName, StopFence, StopWake, InstallFence, InstallCheck,
             WatchStep, PollBegin, PollCheck, PollSample, Finished, Dropped, Drop, Fire,
             SpuriousWake, MoveDeadline, Cancel, Tick, vars, signal, Unstopped
  <1> QED BY <1>1, <1>2

LEMMA AttributedStep ==
    ASSUME TypeOK, Ordered, Attributed, [Next]_vars
    PROVE  Attributed'
  <1> USE Values
  <1>1. reason' = "AuthorityEnded" => EndKnown'
    <2>1. CASE reason # None
      BY <2>1, RecordStays DEF Attributed
    <2>2. CASE reason = None
      <3>1. ASSUME NEW t \in Threads, StopStep(t), reason' = "AuthorityEnded" PROVE EndKnown
        <4>1. stop[t].cause = "AuthorityEnded"
          BY <2>2, <3>1 DEF StopStep, StopName, StopRevoke, StopFence, StopWake
        <4> QED BY <2>2, <4>1, SMTT(60) DEF Attributed, EndKnown, Threads
      <3> QED BY <2>2, <3>1, StopMoves, RecordStays
    <2> QED BY <2>1, <2>2
  <1>2. stop'[Watch].cause = "AuthorityEnded" => EndKnown' \/ reason' # None
    <2>1. CASE stop'[Watch].cause = stop[Watch].cause
      BY <2>1, RecordStays DEF Attributed
    <2>2. ASSUME NEW same \in BOOLEAN, PollSample(same)
          PROVE  stop'[Watch].cause = "AuthorityEnded" => EndKnown' \/ reason' # None
      <3>1. CASE SampleCause = None
        BY <2>2, <3>1, RecordStays DEF PollSample, Attributed
      <3>2. CASE SampleCause # None
        <4>1. stop'[Watch].cause = SampleCause /\ reason' = reason
          BY <2>2, <3>2, WatchEntered DEF PollSample, Finishing, signal
        <4>2. SampleCause = "AuthorityEnded" => revoked \/ now >= deadline
          <5>1. SampleCause = "AuthorityEnded" => ~ StatusIsLive
            BY SMTT(60) DEF SampleCause, WatchCauses, StopReasons
          <5>2. now \in Int /\ deadline \in Int
            BY DEF TypeOK, Times, Deadlines
          <5> QED BY <5>1, <5>2 DEF StatusIsLive
        <4>3. SampleCause = "AuthorityEnded" /\ now >= deadline => ended'
          BY <2>2, ZenonT(60) DEF PollSample
        <4>4. revoked /\ reason = None => ended
          BY <2>2 DEF PollSample, Attributed
        <4> QED BY <4>1, <4>2, <4>3, <4>4, RecordStays DEF EndKnown
      <3> QED BY <3>1, <3>2
    <2>3. ASSUME NEW here \in {"check", "recheck"}, NEW there, PollCheck(here, there)
          PROVE  stop'[Watch].cause = "AuthorityEnded" => EndKnown' \/ reason' # None
      <3>1. CASE ~ revoked
        BY <2>3, <3>1, RecordStays DEF PollCheck, Attributed
      <3>2. CASE revoked
        BY <2>3, <3>2, RecordStays DEF PollCheck, Attributed, signal, EndKnown
      <3> QED BY <3>1, <3>2
    <2>4. CASE Drop
      <3>1. stop'[Watch].cause = "WatchdogDropped"
        BY <2>4, WatchEntered DEF Drop
      <3> QED BY <3>1
    <2>5. ASSUME NEW t \in Callers, NEW cause \in Causes, Stop(t, cause)
          PROVE  stop'[Watch].cause = stop[Watch].cause
      BY <2>5, StopFrame, ZenonT(60) DEF Stop
    <2>6. ASSUME NEW t \in Threads, StopStep(t)
          PROVE  stop'[Watch].cause = stop[Watch].cause
      BY <2>6, StopFrame DEF StopStep, StopName, StopRevoke, StopFence, StopWake
    <2>7. CASE UNCHANGED stop
      BY <2>1, <2>7, SMTT(60)
    <2>8. CASE WatchStep
      <3>1. CASE PollBegin \/ Finished \/ Dropped
        BY <2>7, <3>1, SMTT(60) DEF PollBegin, Finished, Dropped
      <3> QED BY <2>2, <2>3, <2>8, <3>1 DEF WatchStep
    <2>9. CASE ~ WatchStep /\ ~ Drop
      BY <2>1, <2>5, <2>6, <2>7, <2>9, SMTT(60)
         DEF Next, InstallFence, InstallCheck, Create, Fire,
             SpuriousWake, RevokeDirectly, MoveDeadline, Cancel, Tick, vars
    <2> QED BY <2>4, <2>8, <2>9, SMTT(60)
  <1> QED BY <1>1, <1>2, EndedBare DEF Attributed

\* What a step does to the end of a watch.
LEMMA WatchEnds ==
    ASSUME TypeOK, Ordered, [Next]_vars
    PROVE  /\ watch'.done = watch.done \/ (watch'.done = reason /\ reason # None)
           /\ watch'.pc \in {"refused", "done", "gone"} => watch'.pc = watch.pc \/ revoked'
  <1> USE Values
  <1>0. watch \in WatchType
    BY DEF TypeOK, WatchType
  <1>1. ASSUME NEW timed \in BOOLEAN, Create(timed)
        PROVE  watch'.done = watch.done /\ (watch'.pc = "refused" => revoked') /\ watch'.pc \in {"parked", "refused"}
    BY <1>0, <1>1, ZenonT(60) DEF Create, WatchType
  <1>2. CASE PollBegin \/ Drop \/ Fire
    <2>1. CASE PollBegin
      BY <1>0, <2>1 DEF PollBegin, WatchType
    <2>2. CASE Drop
      BY <1>0, <2>2 DEF Drop, WatchType
    <2>3. CASE Fire
      BY <1>0, <2>3 DEF Fire, WatchType
    <2> QED BY <1>2, <2>1, <2>2, <2>3
  <1>3. ASSUME NEW here, NEW there \in {"sample", "parked"}, PollCheck(here, there)
        PROVE  watch'.done = watch.done /\ watch'.pc \in {"finishing", "sample", "parked"}
    BY <1>0, <1>3, SMTT(60) DEF PollCheck, Finishing, WatchType
  <1>4. ASSUME NEW same \in BOOLEAN, PollSample(same)
        PROVE  watch'.done = watch.done /\ watch'.pc \in {"finishing", "recheck"}
    <2>1. CASE SampleCause = None
      <3>1. watch' = [watch EXCEPT !.pc = "recheck", !.last = now,
                                   !.timer = IF Keep(same) THEN watch.timer ELSE Rearmed,
                                   !.armed = IF Keep(same) THEN watch.armed ELSE TRUE]
        BY <1>4, <2>1 DEF PollSample
      <3>2. watch'.done = watch.done /\ watch'.pc = "recheck"
        BY <1>0, <3>1 DEF WatchType
      <3> QED BY <3>2
    <2>2. CASE SampleCause # None
      BY <1>0, <1>4, <2>2 DEF PollSample, Finishing, WatchType
    <2> QED BY <2>1, <2>2
  <1>5. CASE Finished
    <2>1. reason # None /\ revoked
      BY <1>5 DEF Finished, Ordered, At
    <2>2. watch'.done = reason /\ revoked'
      BY <1>5, <2>1 DEF Finished, TypeOK, signal
    <2> QED BY <2>1, <2>2
  <1>6. CASE Dropped
    <2>1. revoked /\ revoked'
      BY <1>6 DEF Dropped, Ordered, At, signal
    <2> QED BY <1>6, <2>1 DEF Dropped, TypeOK
  <1>7. CASE UNCHANGED watch
    BY <1>7
  <1> QED
    BY <1>1, <1>2, <1>3, <1>4, <1>5, <1>6, <1>7, SMTT(60)
       DEF Next, Stop, StopStep, StopName, StopRevoke, StopFence, StopWake, InstallFence, InstallCheck,
           WatchStep, SpuriousWake, RevokeDirectly, MoveDeadline, Cancel, Tick, vars

LEMMA CauseStep ==
    ASSUME TypeOK, Ordered, Attributed, CauseIsNamed, [Next]_vars
    PROVE  CauseIsNamed'
  <1>1. watch'.pc \in {"refused", "done", "gone"} => revoked'
    BY WatchEnds, RecordStays DEF CauseIsNamed
  <1>2. watch'.done # None => watch'.done = reason'
    BY WatchEnds, RecordStays DEF CauseIsNamed
  <1>3. reason' = "AuthorityEnded" => EndKnown'
    BY AttributedStep, SMTT(60) DEF Attributed
  <1> QED BY <1>1, <1>2, <1>3 DEF CauseIsNamed, EndKnown

-----------------------------------------------------------------------------
(* Timers.                                                                 *)

LEMMA TimedStep ==
    ASSUME TypeOK, Timed, [Next]_vars
    PROVE  Timed'
  <1> USE Values
  <1>1. ASSUME NEW same \in BOOLEAN, PollSample(same) PROVE Timed'
    <2>1. CASE SampleCause # None
      <3>1. watch'.pc = "finishing" /\ watch'.timer = watch.timer /\ watch'.armed = watch.armed
        BY <1>1, <2>1 DEF PollSample, Finishing, TypeOK
      <3> QED BY <1>1, <3>1 DEF PollSample, Timed, clock
    <2>2. CASE SampleCause = None
      <3>1. /\ watch'.last = now /\ seen' = deadline /\ UNCHANGED <<now, steady>>
            /\ watch'.timer = IF Keep(same) THEN watch.timer ELSE Rearmed
            /\ watch'.armed = IF Keep(same) THEN watch.armed ELSE TRUE
        BY <1>1, <2>2, ZenonT(60) DEF PollSample, TypeOK, clock
      <3>2. /\ now \in Int /\ deadline \in Int /\ CheckInterval \in Int
            /\ Rearmed \in Int /\ Rearmed # None /\ WakeAt \in Int
            /\ watch.timer # None => watch.timer \in Int
        BY <2>2, SampleValues, SignalAssumption DEF TypeOK, Times, Deadlines
      <3>3. /\ WakeAt <= deadline /\ WakeAt <= now + CheckInterval /\ Rearmed <= WakeAt
        BY <2>2, SampleValues
      <3>4. CASE Keep(same)
        <4>1. steady => watch.armed
          BY <3>2, <3>4 DEF Keep, Timed
        <4> QED BY <3>1, <3>2, <3>3, <3>4, <4>1 DEF Keep, Timed
      <3>5. CASE ~ Keep(same)
        BY <3>1, <3>2, <3>3, <3>5, SMTT(60) DEF Timed
      <3> QED BY <3>4, <3>5
    <2> QED BY <2>1, <2>2
  <1>2. CASE Fire
    <2>1. /\ watch'.timer = watch.timer /\ watch'.pc = watch.pc /\ ~ watch'.armed
          /\ scheduled' /\ watch.timer <= now /\ now' = now
      BY <1>2, SMTT(60) DEF Fire, TypeOK, clock, Timed, Times
    <2> QED BY <2>1 DEF Timed
  <1>3. ASSUME NEW step \in {-1, 1}, Tick(step) PROVE Timed'
    <2>1. /\ UNCHANGED <<watch, scheduled, seen>>
          /\ steady' => steady /\ now <= now'
          /\ now \in Int /\ now' \in Int
      <3>1. now \in Int /\ now' \in Int /\ now' = now + step /\ UNCHANGED <<watch, scheduled, seen>>
        BY <1>3, SignalAssumption DEF Tick, signal, TypeOK, Times
      <3>2. steady' => steady /\ step > 0
        BY <1>3, ZenonT(60) DEF Tick
      <3> QED BY <3>1, <3>2, SMTT(60)
    <2>2. watch.timer # None => watch.timer \in Int
      BY ZenonT(60) DEF TypeOK
    <2> QED BY <2>1, <2>2 DEF Timed
  <1>4. ASSUME NEW timed \in BOOLEAN, Create(timed) PROVE Timed'
    <2>1. /\ watch'.timer = watch.timer /\ watch'.armed = watch.armed
          /\ watch'.pc = "refused" \/ scheduled'
          /\ UNCHANGED <<now, seen, steady>>
      BY <1>4, ZenonT(60) DEF Create, TypeOK, clock
    <2> QED BY <2>1 DEF Timed
  <1>5. CASE PollBegin
    <2>1. /\ watch'.timer = watch.timer /\ watch'.armed = watch.armed
          /\ watch'.pc = "check" /\ UNCHANGED <<now, seen, steady>>
      BY <1>5 DEF PollBegin, TypeOK, clock
    <2> QED BY <2>1 DEF Timed
  <1>6. CASE PollCheck("check", "sample") \/ PollCheck("recheck", "parked")
    <2>1. /\ watch'.timer = watch.timer /\ watch'.armed = watch.armed /\ watch'.last = watch.last
          /\ watch'.pc \in {"recheck", "parked"} => watch.pc = "recheck"
          /\ UNCHANGED <<now, seen, steady, scheduled>>
      BY <1>6, SMTT(60) DEF PollCheck, Finishing, TypeOK, clock, signal
    <2> QED BY <2>1 DEF Timed
  <1>7. CASE Finished \/ Drop
    <2>1. watch'.timer = None /\ ~ watch'.armed /\ watch'.pc \in {"done", "dropping"}
      <3>1. CASE Finished
        BY <3>1 DEF Finished, TypeOK
      <3>2. CASE Drop
        BY <3>2, SMTT(60) DEF Drop, TypeOK
      <3> QED BY <1>7, <3>1, <3>2
    <2> QED BY <2>1 DEF Timed
  <1>8. CASE Dropped
    <2>1. /\ watch'.timer = watch.timer /\ watch'.armed = watch.armed
          /\ watch'.pc = "gone" /\ UNCHANGED <<now, seen, steady>>
      BY <1>8, SMTT(60) DEF Dropped, TypeOK, clock
    <2> QED BY <2>1 DEF Timed
  <1>9. CASE UNCHANGED <<watch, now, seen, steady>> /\ (scheduled => scheduled')
    BY <1>9 DEF Timed
  <1>10. ASSUME NEW t \in Threads, StopStep(t) PROVE Timed'
    BY <1>9, <1>10, ZenonT(60) DEF StopStep, StopName, StopRevoke, StopFence, StopWake, clock
  <1>11. ASSUME NEW t \in Callers, NEW cause \in Causes, Stop(t, cause) PROVE Timed'
    BY <1>9, <1>11, ZenonT(60) DEF Stop, clock, signal
  <1>12. ASSUME NEW i \in Installers, InstallFence(i) \/ InstallCheck(i) PROVE Timed'
    BY <1>9, <1>12, ZenonT(60) DEF InstallFence, InstallCheck, clock
  <1>13. ASSUME NEW until \in Deadlines, MoveDeadline(until) PROVE Timed'
    BY <1>9, <1>13, ZenonT(60) DEF MoveDeadline, signal
  <1>14. CASE SpuriousWake
    BY <1>9, <1>14, ZenonT(60) DEF SpuriousWake, clock
  <1>15. CASE RevokeDirectly
    BY <1>9, <1>15, SMTT(60) DEF RevokeDirectly, clock
  <1>16. CASE Cancel \/ UNCHANGED vars
    BY <1>9, <1>16 DEF Cancel, vars, clock, signal
  <1> QED
    BY <1>1, <1>2, <1>3, <1>4, <1>5, <1>6, <1>7, <1>8, <1>10, <1>11, <1>12, <1>13, <1>14, <1>15, <1>16, SMTT(60)
       DEF Next, WatchStep

-----------------------------------------------------------------------------
(* Theorems.                                                               *)

LEMMA InitInv == Init => Inv
  <1> SUFFICES ASSUME Init PROVE Inv
    OBVIOUS
  <1>1. TypeOK
    BY InitTyped, SMTT(60)
  <1>2. \A t \in Threads : stop[t] = [pc |-> "idle", cause |-> None]
    BY SMTT(60) DEF Init
  <1>3. Ordered
    BY <1>2, SMTT(60) DEF Ordered
  <1>4. Slotted /\ FenceNeverMissed
    BY <1>2, SMTT(60) DEF Init, Slotted, FenceNeverMissed
  <1>5. Attributed
    BY <1>2, Values, SMTT(60) DEF Init, Attributed
  <1>6. Timed /\ CauseIsNamed
    BY DEF Init, Timed, CauseIsNamed
  <1> QED BY <1>1, <1>3, <1>4, <1>5, <1>6 DEF Inv

\* The inductive invariant holds throughout, for every interleaving of stops,
\* installations, polls, timers and clock steps.
THEOREM Invariance == Spec => []Inv
  <1>1. Inv /\ [Next]_vars => Inv'
    BY TypedStep, OrderedStep, SlottedStep, FenceStep, AttributedStep, CauseStep, TimedStep DEF Inv
  <1> QED BY <1>1, InitInv, PTL DEF Spec

\* Control::stop and Control::install_fence meet in every order: a fence whose
\* installation has returned has run once any stop is past its fence step.
THEOREM NoFenceIsMissed == Spec => []FenceNeverMissed
  <1>1. Inv => FenceNeverMissed
    BY DEF Inv
  <1> QED BY <1>1, Invariance, PTL

\* Watchdog::finish reports the cause of record, an expiry only when authority
\* did end, and no watchdog ends without its lease being revoked.
THEOREM ReportedCauseIsTrue == Spec => []CauseIsNamed
  <1>1. Inv => CauseIsNamed
    BY DEF Inv
  <1> QED BY <1>1, Invariance, PTL

\* A parked watchdog under a steady clock always has its next poll ahead of it,
\* scheduled or on an armed timer within the deadline and the check interval.
THEOREM ParkedWatchdogIsArmed == Spec => []ParkedIsArmed
  <1>1. Inv => ParkedIsArmed
    BY DEF Inv, Timed, ParkedIsArmed
  <1> QED BY <1>1, Invariance, PTL

=============================================================================
