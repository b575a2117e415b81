------------------------------ MODULE InputAgent ------------------------------
(***************************************************************************)
(* The owners of one seat (crates/frd/src/input_agent.rs): a broker that   *)
(* reserves the seat and starts a native thread, the thread's loop and its *)
(* cleanup, the one-slot mailbox between the thread and its Agent and      *)
(* Driver handles, and the barriers of local consent surfaces.             *)
(*                                                                         *)
(* Every lock or atomic access is a step.  `Control::stop` is one step     *)
(* here; its own steps are the subject of StopSignal.  The lease and its   *)
(* renewals are the subject of InputSubmission: here a lease is stopped at *)
(* any moment, for any of the reasons there are.                           *)
(*                                                                         *)
(* `overlapped`, and in `native` the fields `executed` and `panicked`, are *)
(* history; `held` and `dirty` are the truth of the machine: remote input  *)
(* that is down, and other native state that has to be restored.           *)
(***************************************************************************)
EXTENDS Seat, FiniteSets

CONSTANTS
    Guards,       \* Inhibition values, each used any number of times
    MaxCommands   \* bound: commands an Agent is given

VARIABLES
    seat,       \* seat.rs State
    guard,      \* each barrier: its step and the owner it has still to stop
    broker,     \* each owner's SeatReservation
    revoked,    \* each owner's Control::is_stopped
    box,        \* each owner's Mailbox
    native,     \* each owner's thread
    handle,     \* each owner's Agent and Driver
    overlapped  \* owners whose reservation a barrier overlapped

vars == <<seat, guard, broker, revoked, box, native, handle, overlapped>>

Commands == 1..MaxCommands
Replies == {"Done", "Refused", "GeometryChanged", "CancelledBeforeStart",
            "NativePanic", "InitializationFailed"}
Cleanups == [remaining : BOOLEAN, native_clean : BOOLEAN]
Exits == [cleanup : Cleanups \cup {None}, panicked : BOOLEAN]

ASSUME AgentAssumption ==
    /\ MaxCommands \in Nat
    /\ IsFiniteSet(Guards)
    /\ None \notin Commands
    /\ None \notin Replies
    /\ None \notin Cleanups
    /\ None \notin Exits
    /\ None \notin [n : Commands, kind : Replies]

BrokerSteps == {"idle", "reserved", "refusing", "installed", "spawned", "started", "ended"}
NativeSteps == {"none", "factory", "refused", "check", "take", "decide", "prepare", "submit",
                "fence", "answer", "teardown", "cleanup", "publish", "wait", "destroy",
                "final", "finish", "finished"}

\* The type of every variable.
TypeOK ==
    /\ seat \in SeatType
    /\ guard \in [Guards -> [pc : {"none", "stopping", "held"}, stops : Owners \cup {None}]]
    /\ broker \in [Owners -> [pc : BrokerSteps, epoch : Epochs]]
    /\ revoked \in [Owners -> BOOLEAN]
    /\ box \in [Owners ->
          [command : Commands \cup {None},
           reply : [n : Commands, kind : Replies] \cup {None},
           outstanding : BOOLEAN,
           phase : {"Starting", "Running", "Cleaning", "Finished"},
           abandoned : BOOLEAN, retry_cleanup : BOOLEAN,
           cleanup : Cleanups \cup {None}, exit : Exits \cup {None}]]
    /\ native \in [Owners ->
          [pc : NativeSteps, taken : Commands \cup {None}, result : Replies \cup {None},
           exit : Exits \cup {None}, held : BOOLEAN, dirty : BOOLEAN,
           executed : SUBSET Commands, panicked : BOOLEAN]]
    /\ handle \in [Owners ->
          [agent : {"none", "live", "dropping", "gone"},
           driver : {"none", "live", "dropping", "gone", "done"},
           sent : 0..MaxCommands, report : Exits \cup {None}]]
    /\ overlapped \in SUBSET Owners

NewBox == [command |-> None, reply |-> None, outstanding |-> FALSE, phase |-> "Starting",
           abandoned |-> FALSE, retry_cleanup |-> FALSE,
           cleanup |-> None, exit |-> None]

Init ==
    /\ seat = NewSeat
    /\ guard = [g \in Guards |-> [pc |-> "none", stops |-> None]]
    /\ broker = [o \in Owners |-> [pc |-> "idle", epoch |-> 0]]
    /\ revoked = [o \in Owners |-> FALSE]
    /\ box = [o \in Owners |-> NewBox]
    /\ native = [o \in Owners |->
          [pc |-> "none", taken |-> None, result |-> None, exit |-> None,
           held |-> FALSE, dirty |-> FALSE, executed |-> {}, panicked |-> FALSE]]
    /\ handle = [o \in Owners |->
          [agent |-> "none", driver |-> "none", sent |-> 0, report |-> None]]
    /\ overlapped = {}

-----------------------------------------------------------------------------
(* Barriers.                                                               *)

\* Seat::inhibit up to the end of its lock: the barrier counts from here,
\* and the active owner is stopped outside the lock.
Inhibit(g) ==
    /\ guard[g].pc = "none"
    /\ MayInhibit(seat)
    /\ seat' = Inhibited(seat)
    /\ guard' = [guard EXCEPT ![g] =
                    [pc |-> IF seat.active = None THEN "held" ELSE "stopping",
                     stops |-> seat.active]]
    /\ overlapped' = overlapped \cup {o \in Owners : broker[o].pc = "reserved"}
    /\ UNCHANGED <<broker, revoked, box, native, handle>>

InhibitStop(g) ==
    /\ guard[g].pc = "stopping"
    /\ revoked' = [revoked EXCEPT ![guard[g].stops] = TRUE]
    /\ guard' = [guard EXCEPT ![g] = [pc |-> "held", stops |-> None]]
    /\ UNCHANGED <<seat, broker, box, native, handle, overlapped>>

\* Drop for Inhibition, once its owner has the guard.
DropInhibition(g) ==
    /\ guard[g].pc = "held"
    /\ seat' = Uninhibited(seat)
    /\ guard' = [guard EXCEPT ![g] = [pc |-> "none", stops |-> None]]
    /\ UNCHANGED <<broker, revoked, box, native, handle, overlapped>>

-----------------------------------------------------------------------------
(* A reservation and its start.                                            *)

Reserve(o) ==
    /\ broker[o].pc = "idle"
    /\ MayReserve(seat)
    /\ seat' = Reserved(seat)
    /\ broker' = [broker EXCEPT ![o] = [pc |-> "reserved", epoch |-> seat.epoch]]
    /\ UNCHANGED <<guard, revoked, box, native, handle, overlapped>>

\* The preparation fails, or start refuses: no timer, a dead lease, or a
\* barrier since the reservation.
RefuseStart(o) ==
    /\ broker[o].pc = "reserved"
    /\ broker' = [broker EXCEPT ![o].pc = "refusing"]
    /\ UNCHANGED <<seat, guard, revoked, box, native, handle, overlapped>>

\* SeatReservation::start up to Seat::install.
Install(o) ==
    /\ broker[o].pc = "reserved"
    /\ MayInstall(seat, broker[o].epoch)
    /\ seat' = Installed(seat, o)
    /\ broker' = [broker EXCEPT ![o].pc = "installed"]
    /\ UNCHANGED <<guard, revoked, box, native, handle, overlapped>>

Spawn(o) ==
    /\ broker[o].pc = "installed"
    /\ broker' = [broker EXCEPT ![o].pc = "spawned"]
    /\ native' = [native EXCEPT ![o].pc = "factory"]
    /\ UNCHANGED <<seat, guard, revoked, box, handle, overlapped>>

\* No thread: the watchdog is dropped, which stops the lease, and then the
\* reservation.
SpawnFails(o) ==
    /\ broker[o].pc = "installed"
    /\ broker' = [broker EXCEPT ![o].pc = "refusing"]
    /\ revoked' = [revoked EXCEPT ![o] = TRUE]
    /\ UNCHANGED <<seat, guard, box, native, handle, overlapped>>

\* A bug that leaves the reservation with start: it is dropped on return.
HandOverStillOwned(o) ==
    /\ broker[o].pc = "spawned"
    /\ broker' = [broker EXCEPT ![o].pc = "started"]
    /\ handle' = [handle EXCEPT ![o].agent = "live", ![o].driver = "live"]
    /\ seat' = Released(seat)
    /\ UNCHANGED <<guard, revoked, box, native, overlapped>>

\* The thread owns the reservation now; it may even be gone already.
HandOver(o) ==
    /\ broker[o].pc = "spawned"
    /\ broker' = [broker EXCEPT ![o].pc = "started"]
    /\ handle' = [handle EXCEPT ![o].agent = "live", ![o].driver = "live"]
    /\ UNCHANGED <<seat, guard, revoked, box, native, overlapped>>

\* Drop for SeatReservation before a thread owns it.
DropReservation(o) ==
    /\ broker[o].pc = "refusing"
    /\ broker' = [broker EXCEPT ![o].pc = "ended"]
    /\ seat' = Released(seat)
    /\ UNCHANGED <<guard, revoked, box, native, handle, overlapped>>

BrokerStep(o) ==
    \/ Reserve(o) \/ RefuseStart(o) \/ Install(o) \/ Spawn(o) \/ SpawnFails(o)
    \/ HandOver(o) \/ DropReservation(o)

-----------------------------------------------------------------------------
(* The native thread.                                                      *)

At(o, step) == native[o].pc = step
Goto(o, step) == native' = [native EXCEPT ![o].pc = step]
Surroundings == UNCHANGED <<guard, broker, handle, overlapped>>
Stopped(o) == revoked' = [revoked EXCEPT ![o] = TRUE]

CleanExit == [cleanup |-> [remaining |-> FALSE, native_clean |-> TRUE], panicked |-> FALSE]
PanickedExit == [cleanup |-> None, panicked |-> TRUE]

\* Exit::handoff_safe
HandoffSafe(exit) ==
    /\ ~ exit.panicked
    /\ exit.cleanup # None
    /\ exit.cleanup.native_clean
    /\ ~ exit.cleanup.remaining

\* A native call panics outside execute: in the factory, in the checks and
\* maintenance at the top of the loop, in the cleanup or in a destructor.  It
\* unwinds the whole loop, and the outer finalizer catches it.
Unwind(o) ==
    /\ native[o].pc \in {"factory", "check", "cleanup", "destroy"}
    /\ native' = [native EXCEPT ![o].pc = "final", ![o].exit = PanickedExit,
                                ![o].panicked = TRUE]
    /\ UNCHANGED <<seat, revoked, box>> /\ Surroundings

\* The factory builds the sink or refuses.  It injects nothing, but a sink may
\* come with native state to restore.
FactoryBuilds(o) ==
    /\ At(o, "factory")
    /\ \E dirty \in BOOLEAN :
          native' = [native EXCEPT ![o].pc = "check", ![o].dirty = dirty]
    /\ box' = [box EXCEPT ![o].phase = "Running"]
    /\ UNCHANGED <<seat, revoked>> /\ Surroundings

FactoryRefuses(o) ==
    /\ At(o, "factory")
    /\ native' = [native EXCEPT ![o].pc = "refused", ![o].exit = CleanExit]
    /\ Stopped(o)
    /\ UNCHANGED <<seat, box>> /\ Surroundings

Answer(o, n, kind) == box' = [box EXCEPT ![o].reply = [n |-> n, kind |-> kind]]

\* The waiting command, if there is one, learns that there is no sink.
AnswerRefused(o) ==
    /\ At(o, "refused")
    /\ IF box[o].outstanding
       THEN Answer(o, handle[o].sent, "InitializationFailed")
       ELSE UNCHANGED box
    /\ Goto(o, "final")
    /\ UNCHANGED <<seat, revoked>> /\ Surroundings

\* The top of the loop: admission, cancellation, clock, indicator and native
\* failure each stop the lease (StopLease is that step); a suspended lease
\* is maintained, which may release what is held; a stopped one is stopped
\* again.
LoopCheck(o) ==
    /\ At(o, "check")
    /\ \E held \in IF revoked[o] THEN {native[o].held} ELSE {native[o].held, FALSE} :
          native' = [native EXCEPT ![o].pc = "take", ![o].held = held]
    /\ UNCHANGED <<seat, revoked, box>> /\ Surroundings

TakeCommand(o) ==
    /\ At(o, "take")
    /\ native' = [native EXCEPT ![o].pc = "decide", ![o].taken = box[o].command]
    /\ box' = [box EXCEPT ![o].command = None]
    /\ UNCHANGED <<seat, revoked>> /\ Surroundings

\* A bug that notices a stop only together with a command.
DecideWithCommand(o) ==
    /\ At(o, "decide")
    /\ IF revoked[o] /\ native[o].taken # None
       THEN /\ native' = [native EXCEPT ![o].pc = "teardown", ![o].taken = None]
            /\ Answer(o, native[o].taken, "CancelledBeforeStart")
       ELSE /\ Goto(o, IF native[o].taken # None THEN "prepare" ELSE "check")
            /\ UNCHANGED box
    /\ UNCHANGED <<seat, revoked>> /\ Surroundings

\* The stop flag is read after the mailbox: a stopped owner starts nothing
\* and leaves the loop; an idle one parks for a moment.
Decide(o) ==
    /\ At(o, "decide")
    /\ IF revoked[o]
       THEN /\ native' = [native EXCEPT ![o].pc = "teardown", ![o].taken = None]
            /\ IF native[o].taken # None
               THEN Answer(o, native[o].taken, "CancelledBeforeStart")
               ELSE UNCHANGED box
       ELSE /\ Goto(o, IF native[o].taken # None THEN "prepare" ELSE "check")
            /\ UNCHANGED box
    /\ UNCHANGED <<seat, revoked>> /\ Surroundings

\* execute: the final check after every native preparation.  A stopped lease
\* is refused, and a live one may be for another reason.
Prepare(o) ==
    /\ At(o, "prepare")
    /\ \E refused \in IF revoked[o] THEN {TRUE} ELSE BOOLEAN :
          native' = [native EXCEPT ![o].pc = IF refused THEN "answer" ELSE "submit",
                                   ![o].result = IF refused THEN "Refused" ELSE None]
    /\ UNCHANGED <<seat, revoked, box>> /\ Surroundings

\* The native call: it may press or release, disturb native state, find the
\* display changed, or panic.  An action may need more than one.
Submit(o) ==
    /\ At(o, "submit")
    /\ \E held, dirty, more \in BOOLEAN, result \in {"Done", "GeometryChanged", "NativePanic"} :
          native' = [native EXCEPT ![o] = [@ EXCEPT
              !.pc = IF result # "Done" THEN "fence" ELSE IF more THEN "prepare" ELSE "answer",
              !.result = result,
              !.held = held,
              !.dirty = native[o].dirty \/ dirty,
              !.executed = native[o].executed \cup {native[o].taken},
              !.panicked = native[o].panicked \/ result = "NativePanic"]]
    /\ UNCHANGED <<seat, revoked, box>> /\ Surroundings

\* A panic or a changed display stops the lease before it is published.
FenceResult(o) ==
    /\ At(o, "fence")
    /\ Stopped(o)
    /\ Goto(o, "answer")
    /\ UNCHANGED <<seat, box>> /\ Surroundings

PublishReply(o) ==
    /\ At(o, "answer")
    /\ Answer(o, native[o].taken, native[o].result)
    /\ native' = [native EXCEPT ![o].pc = "check", ![o].taken = None, ![o].result = None]
    /\ UNCHANGED <<seat, revoked>> /\ Surroundings

\* Every way out of the loop stops the lease and revokes the session.
Teardown(o) ==
    /\ At(o, "teardown")
    /\ Stopped(o)
    /\ Goto(o, "cleanup")
    /\ box' = [box EXCEPT ![o].phase = "Cleaning"]
    /\ UNCHANGED seat /\ Surroundings

\* One cleanup attempt: InputSession::cleanup, cancel_prepared and the native
\* layer's own cleanup.  Each resolves its part or not, and says which.
Cleanup(o) ==
    /\ At(o, "cleanup")
    /\ \E held \in {native[o].held, FALSE}, dirty \in {native[o].dirty, FALSE} :
          native' = [native EXCEPT
              ![o].pc = "publish",
              ![o].held = held,
              ![o].dirty = dirty,
              ![o].exit = [cleanup |-> [remaining |-> held, native_clean |-> ~ dirty],
                           panicked |-> FALSE]]
    /\ UNCHANGED <<seat, revoked, box>> /\ Surroundings

\* The attempt is published; a complete one, or an abandoned owner's, is the
\* last.
PublishCleanup(o) ==
    /\ At(o, "publish")
    /\ box' = [box EXCEPT ![o].cleanup = native[o].exit.cleanup]
    /\ Goto(o, IF HandoffSafe(native[o].exit) \/ box[o].abandoned THEN "destroy" ELSE "wait")
    /\ UNCHANGED <<seat, revoked>> /\ Surroundings

\* A bug that waits for a retry nobody can ask for any more.
AwaitRetryOnly(o) ==
    /\ At(o, "wait")
    /\ box[o].retry_cleanup
    /\ box' = [box EXCEPT ![o].retry_cleanup = FALSE]
    /\ Goto(o, "cleanup")
    /\ UNCHANGED <<seat, revoked>> /\ Surroundings

\* The wait for a local retry ends with one, or with the handles.
AwaitRetry(o) ==
    /\ At(o, "wait")
    /\ box[o].retry_cleanup \/ box[o].abandoned
    /\ box' = [box EXCEPT ![o].retry_cleanup = FALSE]
    /\ Goto(o, "cleanup")
    /\ UNCHANGED <<seat, revoked>> /\ Surroundings

\* Sink, cleanup closure and session are destroyed before the finalizer.
Destroy(o) ==
    /\ At(o, "destroy")
    /\ Goto(o, "final")
    /\ UNCHANGED <<seat, revoked, box>> /\ Surroundings

\* The finalizer stops the lease once more.
FinalStop(o) ==
    /\ At(o, "final")
    /\ Stopped(o)
    /\ Goto(o, "finish")
    /\ UNCHANGED <<seat, box>> /\ Surroundings

\* A bug that forgets a command that was never started.
FinishSilently(o) ==
    /\ At(o, "finish")
    /\ box' = [box EXCEPT ![o].exit = native[o].exit, ![o].phase = "Finished"]
    /\ seat' = IF HandoffSafe(native[o].exit) THEN Released(seat) ELSE seat
    /\ Goto(o, "finished")
    /\ UNCHANGED revoked /\ Surroundings

\* Under the mailbox lock: an unanswered command is answered, the exit is
\* published, and the seat is freed if handoff is safe.
Finish(o) ==
    /\ At(o, "finish")
    /\ box' = [box EXCEPT
          ![o].reply = IF box[o].outstanding /\ @ = None
                       THEN [n |-> handle[o].sent, kind |-> "NativePanic"] ELSE @,
          ![o].exit = native[o].exit,
          ![o].phase = "Finished"]
    /\ seat' = IF HandoffSafe(native[o].exit) THEN Released(seat) ELSE seat
    /\ Goto(o, "finished")
    /\ UNCHANGED revoked /\ Surroundings

NativeStep(o) ==
    \/ FactoryBuilds(o) \/ FactoryRefuses(o) \/ AnswerRefused(o)
    \/ LoopCheck(o) \/ TakeCommand(o) \/ Decide(o)
    \/ Prepare(o) \/ Submit(o) \/ FenceResult(o) \/ PublishReply(o)
    \/ Teardown(o) \/ Cleanup(o) \/ PublishCleanup(o) \/ AwaitRetry(o)
    \/ Destroy(o) \/ Unwind(o) \/ FinalStop(o) \/ Finish(o)

-----------------------------------------------------------------------------
(* The handles of a started owner.                                         *)

ThreadsAside == UNCHANGED <<seat, guard, broker, native, overlapped>>

\* Control::stop from anywhere: the watchdog, the transport, a local command,
\* a response nobody waits for any more; or the authority ends by itself.
StopLease(o) ==
    /\ broker[o].pc \in {"installed", "spawned", "started"}
    /\ ~ revoked[o]
    /\ Stopped(o)
    /\ UNCHANGED <<box, handle>> /\ ThreadsAside

\* Agent::enqueue: refused once stopped, and while a command is queued,
\* executing or uncollected.
Enqueue(o) ==
    /\ handle[o].agent = "live"
    /\ handle[o].sent < MaxCommands
    /\ ~ revoked[o] /\ box[o].exit = None
    /\ ~ box[o].outstanding
    /\ handle' = [handle EXCEPT ![o].sent = @ + 1]
    /\ box' = [box EXCEPT ![o].outstanding = TRUE, ![o].command = handle[o].sent + 1]
    /\ UNCHANGED revoked /\ ThreadsAside

\* Agent::try_reply and Response::poll
Collect(o) ==
    /\ handle[o].agent = "live"
    /\ box[o].outstanding /\ box[o].reply # None
    /\ box' = [box EXCEPT ![o].reply = None, ![o].outstanding = FALSE]
    /\ UNCHANGED <<revoked, handle>> /\ ThreadsAside

\* Agent::retry_cleanup
RetryCleanup(o) ==
    /\ handle[o].agent = "live"
    /\ revoked[o] /\ box[o].exit = None
    /\ box' = [box EXCEPT ![o].retry_cleanup = TRUE]
    /\ UNCHANGED <<revoked, handle>> /\ ThreadsAside

\* Drop for Agent, and for a Driver that has not reported: the lease is
\* stopped first, then the owner is marked abandoned under the mailbox lock.
DropHandle(o, which) ==
    /\ handle[o][which] = "live"
    /\ Stopped(o)
    /\ handle' = [handle EXCEPT ![o][which] = "dropping"]
    /\ UNCHANGED box /\ ThreadsAside

Abandon(o, which) ==
    /\ handle[o][which] = "dropping"
    /\ handle' = [handle EXCEPT ![o][which] = "gone"]
    /\ box' = [box EXCEPT ![o].abandoned = TRUE]
    /\ UNCHANGED revoked /\ ThreadsAside

\* A bug that takes the last published cleanup for the exit.
ReportOfCleanup(o) ==
    IF box[o].cleanup = None THEN box[o].exit
    ELSE [cleanup |-> box[o].cleanup, panicked |-> FALSE]

\* Shutdown.exit
Report(o) == box[o].exit

\* Driver::poll after the watchdog has ended: it reports the exit, or gives
\* up one second after the first stop it saw and reports none.
DriverReports(o) ==
    /\ handle[o].driver = "live"
    /\ revoked[o]
    /\ handle' = [handle EXCEPT ![o].driver = "done", ![o].report = Report(o)]
    /\ UNCHANGED <<revoked, box>> /\ ThreadsAside

HandleStep(o) ==
    \/ StopLease(o) \/ Enqueue(o) \/ Collect(o) \/ RetryCleanup(o) \/ DriverReports(o)
    \/ \E which \in {"agent", "driver"} : DropHandle(o, which) \/ Abandon(o, which)

Next ==
    \/ \E g \in Guards : Inhibit(g) \/ InhibitStop(g) \/ DropInhibition(g)
    \/ \E o \in Owners : BrokerStep(o) \/ NativeStep(o) \/ HandleStep(o)

\* Native calls return and parked threads time out.  Nothing is assumed of
\* brokers, handles, barriers, or of what a cleanup achieves.
Fairness == \A o \in Owners : WF_vars(NativeStep(o))

Spec == Init /\ [][Next]_vars /\ Fairness

-----------------------------------------------------------------------------
(* Properties.                                                             *)

\* Native resources, held input, native state to restore, or a reservation.
Owns(o) ==
    \/ broker[o].pc \in {"reserved", "refusing", "installed"}
    \/ native[o].pc \notin {"none", "finished"}
    \/ native[o].held
    \/ native[o].dirty

\* Whoever still has anything to do with the seat keeps it occupied, and
\* nobody else has: a successor never starts beside an owner's thread, its
\* destructors, its held input or its unrestored native state.
SeatIsExclusive ==
    /\ \A o \in Owners : Owns(o) => seat.occupied
    /\ \A o, p \in Owners : Owns(o) /\ Owns(p) => o = p

\* Once inhibit has returned, every owner that was ever installed is stopped
\* and stays so for as long as the barrier is up.
BarrierStopsOwners ==
    \A g \in Guards, o \in Owners :
        guard[g].pc = "held" /\ broker[o].pc \in {"installed", "spawned", "started"}
            => revoked[o]

\* A reservation that a barrier overlapped never becomes an owner, even when
\* the barrier is gone before it tries.
OverlappedNeverStarts ==
    \A o \in overlapped : broker[o].pc \in {"reserved", "refusing", "ended"}

\* Inhibition::is_ready is stable: once the seat is empty under a barrier,
\* nobody takes it while that barrier is up.
ReadyIsStable ==
    [][\A g \in Guards :
          guard[g].pc = "held" /\ guard'[g].pc = "held" /\ ~ seat.occupied
              => ~ seat'.occupied]_vars

\* The mailbox holds one command at a time: a reply is for the command its
\* Agent sent last and has not collected, and a command that was answered as
\* cancelled before it started was never executed.
ReplyIsOwn ==
    \A o \in Owners : box[o].reply # None =>
        /\ box[o].outstanding
        /\ box[o].reply.n = handle[o].sent
        /\ box[o].reply.kind = "CancelledBeforeStart" =>
              box[o].reply.n \notin native[o].executed

\* No command is left unanswered by a finished owner, whichever way it ended.
FinishedHasAnswered ==
    \A o \in Owners : box[o].phase = "Finished" /\ box[o].outstanding => box[o].reply # None

\* A reply that ends the lease is published only after the lease is stopped.
EndingReplyIsFenced ==
    \A o \in Owners : box[o].reply # None =>
        (box[o].reply.kind \in {"GeometryChanged", "NativePanic", "InitializationFailed"}
            => revoked[o])

\* What an Agent learns of its commands: every one is answered by the time the owner is
\* finished (the end of its thread, in start), and a panic, a changed display or a missing sink is
\* published only behind the stop (execute), so that no command follows it.
CommandsAreAnswered == FinishedHasAnswered /\ EndingReplyIsFenced

\* A shutdown report that calls the handoff safe is true: the thread is gone
\* and left nothing behind.
SafeReportIsTrue ==
    \A o \in Owners :
        handle[o].report # None /\ HandoffSafe(handle[o].report) => ~ Owns(o)

\* A stopped owner attempts its cleanup or ends: it does not need another
\* command, a poll, or a handle that is still there.
StoppedIsCleaned ==
    \A o \in Owners :
        (revoked[o] /\ native[o].pc # "none") ~>
            (box[o].cleanup # None \/ box[o].phase = "Finished")

\* An owner whose handles are gone finishes, even when its cleanup never
\* succeeds: nobody is left who could ask for a retry.
AbandonedFinishes ==
    \A o \in Owners : box[o].abandoned ~> box[o].phase = "Finished"

\* Seen from outside, the seat and its owners are ExclusiveSeat.
Contract == INSTANCE ExclusiveSeat WITH
    holder <- {o \in Owners : Owns(o)},
    live <- {o \in Owners : broker[o].pc \in {"installed", "spawned", "started"} /\ ~ revoked[o]},
    barriers <- {g \in Guards : guard[g].pc = "held"}

\* Reservation, start, native loop, cleanup and the lock-free gaps of
\* Seat::inhibit together implement the one-owner seat: nobody comes in
\* beside an owner or under a barrier, a returned barrier means a stopped
\* owner, and only a stopped owner leaves.
ImplementsExclusiveSeat == Contract!Spec

\* A command reported as a native panic met one.
PanicReplyMeansPanic ==
    \A o \in Owners :
        box[o].reply # None /\ box[o].reply.kind = "NativePanic" => native[o].panicked

=============================================================================
