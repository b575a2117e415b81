------------------------------ MODULE StopSignal ------------------------------
(***************************************************************************)
(* The stop signal of one input lease and its watchdog                     *)
(* (crates/frd/src/input_watchdog.rs).                                     *)
(*                                                                         *)
(* Any thread may stop the lease.  `Control::stop` takes no lock across    *)
(* its four steps: name the cause, revoke the monitor, run the executor    *)
(* fence, wake the watchdog task.  Meanwhile other threads stop it too, a  *)
(* fence is being installed, the watchdog is in the middle of a poll, the  *)
(* authority ends on its own, and the clock moves.  Every lock or atomic   *)
(* access is a step of its own here.                                       *)
(*                                                                         *)
(* `ended`, `seen` and `steady` are history: the authority ended without a *)
(* stop, the deadline the newest poll read, and the clock never went back. *)
(***************************************************************************)
EXTENDS Integers

CONSTANTS
    Callers,        \* threads that may call Control::stop, once each
    Installers,     \* threads that may call Control::install_fence, once each
    Watch,          \* the watchdog as a caller of stop
    Causes,         \* the StopReasons the callers give
    CheckInterval,  \* CHECK_INTERVAL_NS
    MaxTime,        \* the last representable instant (u64::MAX nanoseconds)
    None

Threads == Callers \cup {Watch}

\* The causes the watchdog itself gives.
WatchCauses ==
    {"AuthorityEnded", "Cancelled", "ClockRegression", "ClockOverflow", "WatchdogDropped"}

ASSUME SignalAssumption ==
    /\ Watch \notin Callers
    /\ None \notin Callers \cup Installers \cup Causes \cup WatchCauses \cup Int
    /\ CheckInterval \in Nat \ {0}
    /\ MaxTime \in Nat

Times == 0..MaxTime

\* A deadline is kept in microseconds and may exceed the nanosecond range.
Deadlines == 0..(MaxTime + 1)

StopReasons == Causes \cup WatchCauses

VARIABLES
    reason,     \* Signal.reason
    revoked,    \* the InputMonitor's flag
    slot,       \* Signal.fence
    fenced,     \* the installers whose fence has run
    waker,      \* Signal.waker is set
    scheduled,  \* the runtime will poll the watchdog
    stop,       \* each thread's progress through Control::stop
    installer,  \* each thread's progress through Control::install_fence
    watch,      \* Watchdog: pc, last, timer, armed, done
    now,        \* the session clock
    deadline,   \* what InputMonitor::status answers while the lease is live
    cancelled,  \* the context is cancelled
    ended, seen, steady

signal == <<reason, revoked, slot, fenced, waker, scheduled>>
clock == <<now, deadline, cancelled>>
vars == <<signal, stop, installer, watch, clock, ended, seen, steady>>

StopSteps == {"idle", "name", "revoke", "fence", "wake", "done"}
InstallSteps == {"idle", "check", "refused", "done"}
WatchSteps ==
    {"new", "refused", "parked", "check", "sample", "recheck",
     "finishing", "done", "dropping", "gone"}

\* The type of every variable.
TypeOK ==
    /\ reason \in StopReasons \cup {None}
    /\ revoked \in BOOLEAN
    /\ slot \in Installers \cup {None}
    /\ fenced \in SUBSET Installers
    /\ waker \in BOOLEAN
    /\ scheduled \in BOOLEAN
    /\ stop \in [Threads -> [pc : StopSteps, cause : StopReasons \cup {None}]]
    /\ installer \in [Installers -> InstallSteps]
    /\ watch \in [pc : WatchSteps, last : Times, timer : Times \cup {None},
                  armed : BOOLEAN, done : StopReasons \cup {None}]
    /\ now \in Times
    /\ deadline \in Deadlines
    /\ cancelled \in BOOLEAN
    /\ ended \in BOOLEAN
    /\ seen \in Deadlines
    /\ steady \in BOOLEAN

Init ==
    /\ reason = None
    /\ revoked = FALSE
    /\ slot = None
    /\ fenced = {}
    /\ waker = FALSE
    /\ scheduled = FALSE
    /\ stop = [t \in Threads |-> [pc |-> "idle", cause |-> None]]
    /\ installer = [i \in Installers |-> "idle"]
    /\ watch = [pc |-> "new", last |-> 0, timer |-> None, armed |-> FALSE, done |-> None]
    /\ now \in Times
    /\ deadline \in Deadlines
    /\ cancelled = FALSE
    /\ ended = FALSE
    /\ seen = 0
    /\ steady = TRUE

Created == watch.pc \notin {"new", "refused"}

\* The lease as the monitor reports it: refused once revoked or past the end.
StatusIsLive == ~ revoked /\ now < deadline

-----------------------------------------------------------------------------
(* Control::stop, one step per atomic access or lock.                      *)

\* A bug that revokes before the cause is published.
StopOrderRevokeFirst ==
    [enter |-> "revoke", revoke |-> "name", name |-> "fence", fence |-> "wake", wake |-> "done"]

\* The order of the steps, each with the one that follows it.
StopOrder ==
    [enter |-> "name", name |-> "revoke", revoke |-> "fence", fence |-> "wake", wake |-> "done"]

At(t, step) == stop[t].pc = step
Past(t, step) == stop' = [stop EXCEPT ![t].pc = StopOrder[step]]
Entered(t, cause) == stop' = [stop EXCEPT ![t] = [pc |-> StopOrder.enter, cause |-> cause]]

\* A thread enters stop.
Stop(t, cause) ==
    /\ Created
    /\ At(t, "idle")
    /\ Entered(t, cause)
    /\ UNCHANGED <<signal, installer, watch, clock, ended, seen, steady>>

\* The cause is published by compare-and-exchange from "no cause".
StopName(t) ==
    /\ At(t, "name")
    /\ reason' = IF reason = None THEN stop[t].cause ELSE reason
    /\ Past(t, "name")
    /\ UNCHANGED <<revoked, slot, fenced, waker, scheduled, installer, watch, clock, ended, seen, steady>>

\* InputMonitor::revoke
StopRevoke(t) ==
    /\ At(t, "revoke")
    /\ revoked' = TRUE
    /\ Past(t, "revoke")
    /\ UNCHANGED <<reason, slot, fenced, waker, scheduled, installer, watch, clock, ended, seen, steady>>

\* The installed fence runs under its own lock.
StopFence(t) ==
    /\ At(t, "fence")
    /\ fenced' = IF slot = None THEN fenced ELSE fenced \cup {slot}
    /\ Past(t, "fence")
    /\ UNCHANGED <<reason, revoked, slot, waker, scheduled, installer, watch, clock, ended, seen, steady>>

\* The waker is taken out and woken.
StopWake(t) ==
    /\ At(t, "wake")
    /\ waker' = FALSE
    /\ scheduled' = (scheduled \/ waker)
    /\ Past(t, "wake")
    /\ UNCHANGED <<reason, revoked, slot, fenced, installer, watch, clock, ended, seen, steady>>

StopStep(t) == StopName(t) \/ StopRevoke(t) \/ StopFence(t) \/ StopWake(t)

-----------------------------------------------------------------------------
(* Control::install_fence.                                                 *)

\* The slot is filled, or found filled, under its lock.
InstallFence(i) ==
    /\ Created
    /\ installer[i] = "idle"
    /\ slot' = IF slot = None THEN i ELSE slot
    /\ installer' = [installer EXCEPT ![i] = IF slot = None THEN "check" ELSE "refused"]
    /\ UNCHANGED <<reason, revoked, fenced, waker, scheduled, stop, watch, clock, ended, seen, steady>>

\* A bug that trusts a stop that came first to have run the fence.
InstallCheckNothing(i) ==
    /\ installer[i] \in {"check", "refused"}
    /\ fenced' = IF installer[i] = "refused" THEN fenced \cup {i} ELSE fenced
    /\ installer' = [installer EXCEPT ![i] = "done"]
    /\ UNCHANGED <<reason, revoked, slot, waker, scheduled, stop, watch, clock, ended, seen, steady>>

\* A refused fence runs at once; an installed one runs if the lease is
\* already stopped.
InstallCheck(i) ==
    /\ installer[i] \in {"check", "refused"}
    /\ fenced' = IF installer[i] = "refused" \/ revoked THEN fenced \cup {i} ELSE fenced
    /\ installer' = [installer EXCEPT ![i] = "done"]
    /\ UNCHANGED <<reason, revoked, slot, waker, scheduled, stop, watch, clock, ended, seen, steady>>

-----------------------------------------------------------------------------
(* The watchdog future.                                                    *)

Unstopped == UNCHANGED <<reason, revoked, slot, fenced>>

\* Watchdog::new: without a timer, cancelled, or on a lease that is not live
\* it revokes and is refused; otherwise the task is spawned.  `timed` stands for
\* a timer driver and a lease that the monitor accepts (a suspended one it does
\* not).
Create(timed) ==
    /\ watch.pc = "new"
    /\ IF timed /\ ~ cancelled /\ StatusIsLive
       THEN /\ watch' = [watch EXCEPT !.pc = "parked", !.last = now]
            /\ scheduled' = TRUE
            /\ UNCHANGED revoked
       ELSE /\ watch' = [watch EXCEPT !.pc = "refused"]
            /\ revoked' = TRUE
            /\ UNCHANGED scheduled
    /\ UNCHANGED <<reason, slot, fenced, waker, stop, installer, clock, ended, seen, steady>>

\* Watchdog::finish up to its call of stop.
Finishing(cause) ==
    /\ watch' = [watch EXCEPT !.pc = "finishing"]
    /\ Entered(Watch, cause)

\* The cause of a stop somebody else made.
ObservedCause == IF reason = None THEN "AuthorityEnded" ELSE reason

\* A bug that leaves the waker of the poll before in the signal, if there is one.
PollBeginUnregistered ==
    /\ watch.pc = "parked"
    /\ scheduled
    /\ scheduled' = FALSE
    /\ watch' = [watch EXCEPT !.pc = "check"]
    /\ Unstopped
    /\ UNCHANGED <<waker, stop, installer, clock, ended, seen, steady>>

\* A poll starts by registering its waker.
PollBegin ==
    /\ watch.pc = "parked"
    /\ scheduled
    /\ scheduled' = FALSE
    /\ waker' = TRUE
    /\ watch' = [watch EXCEPT !.pc = "check"]
    /\ Unstopped
    /\ UNCHANGED <<stop, installer, clock, ended, seen, steady>>

\* The two places where a poll looks at the stop flag.
PollCheck(here, there) ==
    /\ watch.pc = here
    /\ IF revoked
       THEN Finishing(ObservedCause)
       ELSE /\ watch' = [watch EXCEPT !.pc = there]
            /\ UNCHANGED stop
    /\ UNCHANGED <<signal, installer, clock, ended, seen, steady>>

\* Why a poll that samples the clock and the monitor ends the lease.
SampleCause ==
    IF cancelled THEN "Cancelled"
    ELSE IF now < watch.last THEN "ClockRegression"
    ELSE IF ~ StatusIsLive THEN "AuthorityEnded"
    ELSE IF deadline > MaxTime \/ now + CheckInterval > MaxTime THEN "ClockOverflow"
    ELSE None

\* The smaller of two instants.
Earlier(a, b) == IF a <= b THEN a ELSE b

\* When the next poll is due at the latest.
WakeAt == Earlier(deadline, now + CheckInterval)

\* A bug that keeps a timer that has already fired, as a spent handle stays inactive.
KeepSpent(same) == watch.timer # None /\ watch.timer <= WakeAt /\ same

\* A timer that has not been reached, is early enough and wakes the same task is kept.
Keep(same) == watch.timer # None /\ now < watch.timer /\ watch.timer <= WakeAt /\ same

\* The instant a newly registered timer is set to.
Rearmed ==
    IF watch.timer # None /\ now < watch.timer THEN Earlier(WakeAt, watch.timer) ELSE WakeAt

\* Checkpoint, clock, monitor and timer, in the middle of a poll.  `same` stands for
\* a waker that will wake the task the timer was registered for.
PollSample(same) ==
    /\ watch.pc = "sample"
    /\ IF SampleCause # None
       THEN Finishing(SampleCause) /\ UNCHANGED seen
       ELSE /\ watch' = [watch EXCEPT !.pc = "recheck", !.last = now,
                                      !.timer = IF Keep(same) THEN watch.timer ELSE Rearmed,
                                      !.armed = IF Keep(same) THEN watch.armed ELSE TRUE]
            /\ seen' = deadline
            /\ UNCHANGED stop
    /\ ended' = (ended \/ (SampleCause = "AuthorityEnded" /\ now >= deadline))
    /\ UNCHANGED <<signal, installer, clock, steady>>

\* The rest of Watchdog::finish, after its stop.
Finished ==
    /\ watch.pc = "finishing"
    /\ At(Watch, "done")
    /\ watch' = [watch EXCEPT !.pc = "done", !.timer = None, !.armed = FALSE,
                              !.done = IF reason = None THEN stop[Watch].cause ELSE reason]
    /\ UNCHANGED <<signal, stop, installer, clock, ended, seen, steady>>

\* Watchdog::drop between two polls, even before the first.
Drop ==
    /\ watch.pc = "parked"
    /\ watch' = [watch EXCEPT !.pc = "dropping", !.timer = None, !.armed = FALSE]
    /\ Entered(Watch, "WatchdogDropped")
    /\ UNCHANGED <<signal, installer, clock, ended, seen, steady>>

Dropped ==
    /\ watch.pc = "dropping"
    /\ At(Watch, "done")
    /\ watch' = [watch EXCEPT !.pc = "gone"]
    /\ UNCHANGED <<signal, stop, installer, clock, ended, seen, steady>>

WatchStep ==
    \/ PollBegin
    \/ PollCheck("check", "sample")
    \/ \E same \in BOOLEAN : PollSample(same)
    \/ PollCheck("recheck", "parked")
    \/ Finished
    \/ Dropped

-----------------------------------------------------------------------------
(* The surroundings.                                                       *)

\* The runtime's timer fires: the task is scheduled and the handle is spent.
Fire ==
    /\ watch.armed
    /\ now >= watch.timer
    /\ watch' = [watch EXCEPT !.armed = FALSE]
    /\ scheduled' = TRUE
    /\ Unstopped
    /\ UNCHANGED <<waker, stop, installer, clock, ended, seen, steady>>

\* A wake from elsewhere.
SpuriousWake ==
    /\ watch.pc \in {"parked", "check", "sample", "recheck"}
    /\ scheduled' = TRUE
    /\ Unstopped
    /\ UNCHANGED <<waker, stop, installer, watch, clock, ended, seen, steady>>

\* The monitor revoked without this signal: the session is revoked, dropped,
\* or replaced.
RevokeDirectly ==
    /\ revoked' = TRUE
    /\ ended' = TRUE
    /\ UNCHANGED <<reason, slot, fenced, waker, scheduled, stop, installer, watch, clock, seen, steady>>

\* Renewal, suspension or a lost view move the deadline of a live lease.
MoveDeadline(until) ==
    /\ StatusIsLive
    /\ deadline' = until
    /\ UNCHANGED <<signal, stop, installer, watch, now, cancelled, ended, seen, steady>>

Cancel ==
    /\ cancelled' = TRUE
    /\ UNCHANGED <<signal, stop, installer, watch, now, deadline, ended, seen, steady>>

\* Time passes; a broken clock may also go back.
Tick(step) ==
    /\ now + step \in Times
    /\ now' = now + step
    /\ steady' = (steady /\ step > 0)
    /\ UNCHANGED <<signal, stop, installer, watch, deadline, cancelled, ended, seen>>

Next ==
    \/ \E t \in Callers, cause \in Causes : Stop(t, cause)
    \/ \E t \in Threads : StopStep(t)
    \/ \E i \in Installers : InstallFence(i) \/ InstallCheck(i)
    \/ \E timed \in BOOLEAN : Create(timed)
    \/ WatchStep
    \/ Drop
    \/ Fire
    \/ SpuriousWake
    \/ RevokeDirectly
    \/ \E until \in Deadlines : MoveDeadline(until)
    \/ Cancel
    \/ \E step \in {-1, 1} : Tick(step)

\* A thread inside stop finishes it, and the runtime polls a scheduled task.
\* Nothing is assumed of the clock or of its timers.
Fairness ==
    /\ \A t \in Threads : WF_vars(StopStep(t))
    /\ WF_vars(WatchStep)

Spec == Init /\ [][Next]_vars /\ Fairness

-----------------------------------------------------------------------------
(* Properties.                                                             *)

\* A watchdog that reports "AuthorityEnded" saw authority end by itself: a
\* stop that another thread made for its own cause is never reported as an
\* expiry, whatever step that thread has reached; what is reported is the
\* cause of record; and a watchdog that no longer watches, finished, dropped
\* even before its first poll, or never created, has revoked its lease.
CauseIsNamed ==
    /\ watch.pc \in {"refused", "done", "gone"} => revoked
    /\ watch.done # None =>
        /\ watch.done = reason
        /\ watch.done = "AuthorityEnded" =>
              ended \/ \E t \in Callers : stop[t].cause = "AuthorityEnded"

\* A fence is never missed: once its installation has returned and some stop
\* has run past its own fence step, the fence has run, in every order of the
\* two; also when it was refused because another was there first.
FenceNeverMissed ==
    \A i \in Installers, t \in Threads :
        installer[i] = "done" /\ stop[t].pc \in {"wake", "done"} => i \in fenced

\* A parked watchdog is either about to be polled or has a timer that is
\* still to fire, no later than the deadline it read and no later than one
\* check interval after its newest sample, as long as the clock is steady.
ParkedIsArmed ==
    watch.pc = "parked" /\ ~ scheduled /\ steady =>
        /\ watch.armed
        /\ watch.timer <= seen
        /\ watch.timer <= watch.last + CheckInterval

\* No stop is lost on the watchdog: after a stop has returned the watchdog
\* finishes, without waiting for any timer.
StopEndsWatch ==
    (\E t \in Callers : At(t, "done")) ~> (watch.pc \in {"done", "gone"})

=============================================================================
