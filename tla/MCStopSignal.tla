----------------------------- MODULE MCStopSignal -----------------------------
(***************************************************************************)
(* TLC instance of StopSignal.  The states are spent in two ways: "race"    *)
(* has a thread stop the lease and fences installed around one deadline,    *)
(* "timer" leaves the watchdog alone with its timers, renewals and the      *)
(* whole range of the clock.                                                *)
(***************************************************************************)
EXTENDS StopSignal

VARIABLE plan

Either == UNCHANGED plan
Race == plan = "race" /\ UNCHANGED plan
Timer == plan = "timer" /\ UNCHANGED plan

\* Before and at the one deadline of a race.
RaceTimes == {0, 1}

MCInit ==
    /\ Init
    /\ plan \in {"race", "timer"}
    /\ plan = "race" => now \in RaceTimes /\ deadline \in RaceTimes

\* The disjuncts of Next, each under the plans it is explored in.
MCNext ==
    \/ Race /\ \E t \in Callers, cause \in Causes : Stop(t, cause)
    \/ Either /\ \E t \in Threads : StopStep(t)
    \/ Race /\ \E i \in Installers : InstallFence(i) \/ InstallCheck(i)
    \/ Either /\ \E timed \in BOOLEAN : Create(timed)
    \/ Either /\ WatchStep
    \/ Either /\ Drop
    \/ Either /\ Fire
    \/ Either /\ SpuriousWake
    \/ Either /\ RevokeDirectly
    \/ Race /\ \E until \in RaceTimes : MoveDeadline(until)
    \/ Timer /\ \E until \in Deadlines : MoveDeadline(until)
    \/ Either /\ Cancel
    \/ Race /\ \E step \in {-1, 1} : now + step \in RaceTimes /\ Tick(step)
    \/ Timer /\ \E step \in {-1, 1} : Tick(step)

MCSpec == MCInit /\ [][MCNext]_<<vars, plan>> /\ Fairness
=============================================================================
