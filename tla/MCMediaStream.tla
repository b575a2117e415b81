---------------------------- MODULE MCMediaStream ----------------------------
(***************************************************************************)
(* TLC instance of MediaStream.  A picture lives for two instants, one     *)
(* more than a repair waits for, and the clock is long enough for another  *)
(* picture after one has expired.  The states are spent in three ways:     *)
(*   "late"        no datagram arrives: originals and repairs are asked    *)
(*                 for, prepared, held back and found expired;             *)
(*   "repaired"    predicted pictures, of which any datagram is lost,      *)
(*                 repeated, late and repaired;                            *)
(*   "independent" the last picture may be an independent one that         *)
(*                 supersedes what was lost; no repair is asked for.       *)
(* The last two start at the second instant.                               *)
(***************************************************************************)
EXTENDS MediaStream

VARIABLE plan

Plans == {"late", "repaired", "independent"}

\* A step that only the given plans explore.
In(plans) ==
    /\ plan \in plans
    /\ plan # "late" => now > 0
    /\ UNCHANGED plan

MCInit == Init /\ plan \in Plans

\* The disjuncts of Next, each under the plans it is explored in.
MCNext ==
    \/ In(Plans) /\ StartCapture
    \/ In(Plans) /\ CollectCapture(cache.last_inserted)
    \/ In({"late", "independent"}) /\ CollectCapture(None)
    \/ In(Plans) /\ EnqueueBootstrap
    \/ In(Plans) /\ DrainCapture
    \/ In(Plans) /\ Prepare
    \/ In(Plans) /\ Write
    \/ In(Plans) /\ HostTick
    \/ In({"late", "repaired"}) /\ ReceiveRepair
    \/ In(Plans) /\ ReceiveRequest
    \/ In(Plans) /\ Notify
    \/ In(Plans) /\ WaitExpires
    \/ In(Plans) /\ ReplaceGeneration
    \/ In(Plans) /\ FinishStartup
    \/ In({"repaired", "independent"}) /\ ReceiveVideo
    \/ In(Plans) /\ ReceiveProgress
    \/ In(Plans) /\ ReceiveRecovery
    \/ In(Plans) /\ TakePicture
    \/ In(Plans) /\ FinishDecode
    \/ In(Plans) /\ StartupExpires
    \/ In(Plans) /\ Service
    \/ In(Plans) /\ SendRequest
    \/ In(Plans) /\ Reconfigure
    \/ In({"late", "repaired"}) /\ PrepareRepair
    \/ In({"late", "repaired"}) /\ SendRepair
    \/ UNCHANGED plan /\ PassTime

MCSpec == MCInit /\ [][MCNext]_<<vars, plan>> /\ Fairness
=============================================================================
