------------------------------ MODULE FileLane ------------------------------
(***************************************************************************)
(* One file lane from end to end: the sender of a selection and its source  *)
(* thread (FileSender), two ordered streams, and the receiving end: the     *)
(* lane's owner (fr-files/src/quic.rs over wire.rs and atp/receive.rs), the *)
(* disk worker behind its one-slot mailbox (worker.rs over session.rs) and  *)
(* the drop directory (DropDirectory).                                      *)
(*                                                                         *)
(* A turn of the sender, or of the lane's owner, is one step; the worker    *)
(* takes a step per disk operation and per look at the authority.  Every    *)
(* failure but that of an unlink spends one of MaxFaults.                   *)
(***************************************************************************)
EXTENDS DropDirectory, Sequences, FiniteSets

CONSTANTS
    MaxFlight,          \* records the sender may have unacknowledged
    MaxFaults           \* failures in one behaviour, for each length of the selection

ASSUME LaneAssumption ==
    /\ Cardinality(Files) \in Nat /\ Files = 1..Cardinality(Files)
    /\ MaxFlight \in Nat \ {0} /\ MaxFaults \in [1..Cardinality(Files) -> Nat]

S == INSTANCE FileSender

Commands == {"begin", "chunk", "complete"}

Results == {"Begun", "Written", "Durable", "DurabilityUnknown", "Error", "Unknown"}

\* What travels on the two streams.
Records == [kind : S!Packets, file : Files]
Replies == [kind : {"Accept", "Refused", "Durable", "DurabilityUnknown", "Unknown"},
            file : Files]

\* None is none of the values it stands in for.
ASSUME NoneAssumption ==
    /\ None \notin Int
    /\ None \notin Kinds \cup Commands \cup Results
    /\ None \notin S!Packets \cup S!Outcomes \cup {"Local", "Cleanup"}
    /\ None \notin Pendings /\ None \notin S!Transfers /\ None \notin Replies
    /\ None \notin [file : Files, staged : Nat] /\ None \notin S!SenderType

VARIABLES
    tx,                 \* the sender
    rx,                 \* the lane's owner at the receiving end
    slot,               \* the worker's Inbox
    worker,             \* the worker thread and its session::HostReceiver
    disk,
    permit,             \* Permission, approved
    standing,           \* of the controller: "live", "revoked" or "late"
    toHost, toSender,   \* records on the two streams
    cut,                \* the connection is lost
    fence,              \* ghost: the files past their last look at each fence
    faults

vars == <<tx, rx, slot, worker, disk, permit, standing, toHost, toSender, cut, fence, faults>>

host == <<rx, slot, worker, disk, permit, standing, fence>>
lane == <<toHost, toSender, cut>>

OwnerType ==
    [state : {"Active", "Draining", "Retired"}, reply : Replies \cup {None}, sent : BOOLEAN,
     refusal : Files \cup {None}, active : [file : Files, staged : Nat] \cup {None},
     pending : Files \cup {None}, last : Nat]

SlotType ==
    [st : {"Idle", "Queued", "Executing", "Complete"}, op : Commands \cup {None},
     file : Nat, result : Results \cup {None}]

Idle == [st |-> "Idle", op |-> None, file |-> 0, result |-> None]

Init ==
    /\ \E n \in 1..Cardinality(Files) :
          tx = S!NewSender([i \in 1..n |-> i]) /\ faults = MaxFaults[n]
    /\ rx = [state |-> "Active", reply |-> None, sent |-> FALSE, refusal |-> None,
             active |-> None, pending |-> None, last |-> 0]
    /\ slot = Idle
    /\ worker = [pc |-> "loop", active |-> None, closed |-> FALSE, floor |-> 0, timely |-> TRUE]
    /\ disk = EmptyDirectory
    /\ permit = TRUE /\ standing = "live"
    /\ toHost = << >> /\ toSender = << >> /\ cut = FALSE
    /\ fence = [permit |-> None, revoked |-> None, late |-> None]

\* The spending of `cost` failures.
Spend(cost) == cost <= faults /\ faults' = faults - cost

----------------------------------------------------------------------------
(* Fences.  A file is past a fence once the worker has looked at it for the *)
(* last time, just before the publication.                                  *)

PastClock == {"sampled", "gated", "publish", "placed"}
PastPermit == {"gated", "publish", "placed"}
PastStanding == {"publish", "placed"}

Past(pcs) ==
    {f \in Files : Placed(disk, f) # {}}
        \cup (IF worker.pc \in pcs THEN {worker.active.file} ELSE {})

\* Permission::revoke, by whoever calls stop first.
Revoke ==
    /\ permit' = FALSE
    /\ fence' = IF permit THEN [fence EXCEPT !.permit = Past(PastPermit)] ELSE fence

Approved == UNCHANGED <<permit, fence>>

----------------------------------------------------------------------------
(* The disk worker.                                                        *)

Executing == {"begin", "begun", "chunk", "written", "complete", "verified", "sampled",
              "gated", "publish", "placed"}

WorkerType ==
    [pc : Executing \cup {"loop", "stop", "drain", "done", "dead"},
     active : Pendings \cup {None}, closed : BOOLEAN, floor : Nat, timely : BOOLEAN]

\* session::HostReceiver::check.
Passes == ~worker.closed /\ permit /\ standing = "live"

Done(result) == slot' = [slot EXCEPT !.st = "Complete", !.result = result]

\* The command's result is stored and the loop goes on.
Returns(w, result) == worker' = [w EXCEPT !.pc = "loop"] /\ Done(result)

\* The pending object is dropped, and its private names may stay behind.
Dropped(w) == [w EXCEPT !.active = None]

Drops(cost) ==
    /\ Spend(cost)
    /\ IF worker.active = None THEN UNCHANGED disk
       ELSE \E ok \in Unlinks(worker.active) : disk' = Drop(disk, ok)

\* run: the loop's own check comes before the mailbox, and ends the worker.
Loop ==
    /\ worker.pc = "loop"
    /\ IF Passes
       THEN /\ slot.st = "Queued"
            /\ slot' = [slot EXCEPT !.st = "Executing"]
            /\ worker' = [worker EXCEPT !.pc = slot.op]
            /\ UNCHANGED <<disk, faults>>
       ELSE /\ Drops(0)
            /\ worker' = [Dropped(worker) EXCEPT !.closed = TRUE, !.pc = "stop"]
            /\ UNCHANGED slot
    /\ Approved

StopWorker ==
    /\ worker.pc = "stop" /\ worker' = [worker EXCEPT !.pc = "drain"]
    /\ Revoke
    /\ UNCHANGED <<slot, disk, faults>>

\* A faulty end: a command that was queued behind the failed check is forgotten.
DrainUnanswered ==
    /\ worker.pc = "drain" /\ worker' = [worker EXCEPT !.pc = "done"]
    /\ UNCHANGED slot
    /\ Approved /\ UNCHANGED <<disk, faults>>

\* A command accepted before the revocation still gets its answer.
Drain ==
    /\ worker.pc = "drain" /\ worker' = [worker EXCEPT !.pc = "done"]
    /\ IF slot.st = "Queued" THEN Done("Error") ELSE UNCHANGED slot
    /\ Approved /\ UNCHANGED <<disk, faults>>

\* A failed check closes the receiver; begin, write and complete keep what is staged
\* for the loop to drop.
Refuses ==
    /\ ~Passes /\ Returns([worker EXCEPT !.closed = TRUE], "Error")
    /\ Approved /\ UNCHANGED <<disk, faults>>

\* The same check after slow work drops it at once.
Recheck(pc, holds, next) ==
    /\ worker.pc = pc /\ Approved
    /\ IF holds THEN next /\ UNCHANGED <<disk, faults>>
       ELSE Drops(0) /\ Returns([Dropped(worker) EXCEPT !.closed = TRUE], "Error")

\* begin_verified: quota, rate, reservation and staging may each refuse; a named
\* staging object that could not be set up may also stay behind.
Begin ==
    /\ worker.pc = "begin"
    /\ \/ Refuses
       \/ /\ Passes /\ Approved
          /\ LET admitted == [worker EXCEPT !.floor = slot.file]
             IN IF worker.active # None \/ slot.file <= worker.floor
                THEN Returns(worker, "Error") /\ UNCHANGED <<disk, faults>>
                ELSE \/ Spend(1) /\ Returns(worker, "Error") /\ UNCHANGED disk
                     \/ IF ~HasQuota(disk)
                        THEN Returns(admitted, "Error") /\ UNCHANGED <<disk, faults>>
                        ELSE \/ Spend(1) /\ Returns(admitted, "Error") /\ UNCHANGED disk
                             \/ /\ Spend(1) /\ Returns(admitted, "Error")
                                /\ disk' = HalfMade(disk)
                             \/ \E kind \in Kinds :
                                /\ disk' = Reserve(disk, kind)
                                /\ worker' = [admitted EXCEPT !.active = Pending(slot.file, kind),
                                                              !.pc = "begun"]
                                /\ UNCHANGED <<slot, faults>>

Begun == Recheck("begun", Passes, Returns(worker, "Begun"))

\* write_entry: the rate is charged before the disk is touched; a failed write is final.
Chunk ==
    /\ worker.pc = "chunk"
    /\ \/ Refuses
       \/ /\ Passes /\ Approved
          /\ \/ Spend(1) /\ Returns(worker, "Error") /\ UNCHANGED disk
             \/ Drops(1) /\ Returns(Dropped(worker), "Error")
             \/ /\ worker' = [worker EXCEPT !.active = Written(@), !.pc = "written"]
                /\ UNCHANGED <<slot, disk, faults>>

WrittenOut == Recheck("written", Passes, Returns(worker, "Written"))

\* complete, up to the verified and flushed object.
Verify ==
    /\ worker.pc = "complete"
    /\ \/ Refuses
       \/ /\ Passes /\ Approved
          /\ \/ Spend(1) /\ Returns(worker, "Error") /\ UNCHANGED disk
             \/ Drops(1) /\ Returns(Dropped(worker), "Error")
             \/ /\ Complete(worker.active)
                /\ worker' = [worker EXCEPT !.active = Verified(@), !.pc = "verified"]
                /\ UNCHANGED <<slot, disk, faults>>

\* A faulty gate: the authority of the first check is taken for good.
GateUnchecked(holds) == TRUE

\* The last check, after the flush: the clock is read first, then the permission, then
\* the controller's standing at the time that was read.
Gate(holds) == holds

Goes(pc) == worker' = [worker EXCEPT !.pc = pc] /\ UNCHANGED slot

Sample ==
    /\ worker.pc = "verified" /\ Approved
    /\ worker' = [worker EXCEPT !.timely = standing # "late", !.pc = "sampled"]
    /\ UNCHANGED <<slot, disk, faults>>

GatePermit == Recheck("sampled", Gate(~worker.closed /\ permit), Goes("gated"))

GateStanding == Recheck("gated", Gate(worker.timely /\ standing # "revoked"), Goes("publish"))

\* publish_named: one no-replace link or rename per candidate name.
PublishFile ==
    /\ worker.pc = "publish" /\ Approved
    /\ \/ Drops(1) /\ Returns(Dropped(worker), "Error")
       \/ /\ Occupied(disk, worker.active)
          /\ IF MayRename(worker.active)
             THEN /\ worker' = [worker EXCEPT !.active = Renamed(@)]
                  /\ UNCHANGED <<slot, disk, faults>>
             ELSE Drops(0) /\ Returns(Dropped(worker), "Error")
       \/ /\ ~Occupied(disk, worker.active)
          /\ disk' = Publish(disk, worker.active)
          /\ worker' = [worker EXCEPT !.active = Placing(@), !.pc = "placed"]
          /\ UNCHANGED <<slot, faults>>

\* The fsync of the directory only decides what is reported.
Sync ==
    /\ worker.pc = "placed" /\ Approved
    /\ \/ /\ disk' = Drop(SyncDirectory(disk), TRUE)
          /\ Returns(Dropped(worker), "Durable") /\ UNCHANGED faults
       \/ /\ Spend(1) /\ disk' = Drop(disk, TRUE)
          /\ Returns(Dropped(worker), "DurabilityUnknown")

\* catch_unwind in run: what complete had taken out of the receiver is dropped by the
\* unwinding, the rest by the loop.
Panic ==
    /\ worker.pc \in Executing /\ Revoke
    /\ IF worker.pc \in {"verified"} \cup PastClock
       THEN Drops(1) /\ Returns(Dropped(worker), "Unknown")
       ELSE Spend(1) /\ Returns(worker, "Unknown") /\ UNCHANGED disk

WorkerStep ==
    /\ \/ Loop \/ StopWorker \/ Drain \/ Begin \/ Begun \/ Chunk \/ WrittenOut \/ Verify
       \/ Sample \/ GatePermit \/ GateStanding \/ PublishFile \/ Sync
    /\ UNCHANGED <<tx, rx, standing, lane>>

WorkerPanics == Panic /\ UNCHANGED <<tx, rx, standing, lane>>

----------------------------------------------------------------------------
(* The lane's owner.  A turn maps what the owner touches to what it leaves: *)
(* h is [rx, slot, permit, toHost, toSender].                               *)

Answer(kind, file) == [kind |-> kind, file |-> file]

\* stop and retire_on: an unsent reply is dropped, a pending result is not.
Retired(h) ==
    [h EXCEPT !.permit = FALSE,
              !.rx = [@ EXCEPT !.state = "Retired", !.reply = None, !.sent = FALSE]]

\* The transport has handed over what was sent.
Cleared(h, drained) ==
    IF h.rx.sent /\ drained THEN [h EXCEPT !.rx.reply = None, !.rx.sent = FALSE] ELSE h

\* poll_reply: every result is taken once; an accepted offer whose lane was stopped in
\* the meantime is refused, and any failure stops the lane.
Replied(h) ==
    LET result == h.slot.result
        file == h.rx.pending
        reply == CASE result = "Written" -> None
                   [] result = "Begun" -> Answer(IF h.permit THEN "Accept" ELSE "Refused", file)
                   [] result = "Error" -> Answer("Refused", file)
                   [] OTHER -> Answer(result, file)
        active == CASE result = "Begun" -> [file |-> file, staged |-> 0]
                    [] result = "Written" -> [h.rx.active EXCEPT !.staged = @ + 1]
                    [] OTHER -> None
    IN [h EXCEPT !.slot = Idle,
                 !.permit = @ /\ result \notin {"Error", "Unknown"},
                 !.rx = [@ EXCEPT !.reply = reply, !.active = active,
                                  !.pending = None, !.last = file]]

Polls(h) ==
    IF h.rx.reply # None THEN h
    ELSE IF h.rx.refusal # None
         THEN [h EXCEPT !.rx.reply = Answer("Refused", h.rx.refusal), !.rx.refusal = None]
    ELSE IF h.rx.pending # None /\ h.slot.st = "Complete" THEN Replied(h) ELSE h

Fenced(h) == IF h.permit THEN h ELSE [h EXCEPT !.rx.state = "Draining"]

Answered(h, room) ==
    IF h.rx.sent \/ ~room THEN h
    ELSE [h EXCEPT !.toSender = Append(@, h.rx.reply), !.rx.sent = TRUE]

\* push_enveloped: what a record asks of the worker, or None where it is out of order.
Command(r, m) ==
    CASE m.kind = "Prepared" -> IF r.active = None THEN "begin" ELSE None
      [] m.kind = "Chunk" -> IF r.active # None /\ r.active.file = m.file THEN "chunk" ELSE None
      [] OTHER -> IF r.active # None /\ r.active.file = m.file /\ r.active.staged = Size[m.file]
                  THEN "complete" ELSE None

\* receive_one: a record is only taken when the worker's slot and the reply are free.
\* An offer refused before admission stops the lane and is answered; every other error
\* retires it.
Received(h, refuse) ==
    IF h.rx.pending # None \/ h.toHost = << >> THEN h
    ELSE LET m == Head(h.toHost)
             taken == [h EXCEPT !.toHost = Tail(@)]
             op == Command(h.rx, m)
         IN IF op = None THEN Retired(taken)
            ELSE IF refuse THEN [taken EXCEPT !.permit = FALSE, !.rx.refusal = m.file]
            ELSE [taken EXCEPT !.rx.pending = m.file,
                               !.slot = [Idle EXCEPT !.st = "Queued", !.op = op, !.file = m.file]]

\* A fresh offer can be refused before the disk hears of it.
Refusable(h) ==
    /\ h.rx.reply = None /\ h.rx.state = "Active" /\ h.rx.pending = None /\ h.toHost # << >>
    /\ h.rx.active = None
    /\ LET m == Head(h.toHost) IN m.kind = "Prepared" /\ m.file > h.rx.last

\* turn, after the poll.
Serves(h, room) ==
    IF h.rx.reply # None THEN Answered(h, room)
    ELSE IF h.rx.state # "Draining" THEN Received(h, FALSE)
    ELSE IF h.rx.refusal # None \/ h.rx.pending # None THEN h ELSE Retired(h)

Owned == [rx |-> rx, slot |-> slot, permit |-> permit, toHost |-> toHost, toSender |-> toSender]

Leaves(h) ==
    /\ rx' = h.rx /\ slot' = h.slot /\ toHost' = h.toHost /\ toSender' = h.toSender
    /\ IF permit /\ ~h.permit THEN Revoke ELSE Approved
    /\ UNCHANGED <<tx, worker, disk, standing, cut>>

\* The reset of the other end, or the loss of the connection, is noticed at any time.
Noticed == cut \/ tx.retired

\* HostReceiver::service.
OwnerTurn ==
    /\ rx.state # "Retired"
    /\ \/ /\ Noticed /\ UNCHANGED faults
          /\ Leaves(Retired(Polls(Owned)))
       \/ \E drained \in (IF rx.sent THEN BOOLEAN ELSE {FALSE}) :
          \E h \in {Fenced(Polls(Cleared(Owned, drained)))} :
             \/ \E room \in (IF h.rx.reply # None THEN BOOLEAN ELSE {FALSE}) :
                   Leaves(Serves(h, room)) /\ UNCHANGED faults
             \/ h.rx.reply # None /\ Spend(1) /\ Leaves(Retired(h))
             \/ Refusable(h) /\ Spend(1) /\ Leaves(Received(h, TRUE))

\* collect_after_close, from service of a retired lane.
OwnerCollects ==
    /\ rx.state = "Retired" /\ Leaves(Polls(Owned)) /\ UNCHANGED faults

\* HostReceiver::stop, by the session.
OwnerStops ==
    /\ rx.state = "Active" /\ Spend(1) /\ Revoke
    /\ rx' = [rx EXCEPT !.state = "Draining"]
    /\ UNCHANGED <<tx, slot, worker, disk, standing, lane>>

----------------------------------------------------------------------------
(* The sender.                                                             *)

Sends(s) == tx' = s /\ UNCHANGED toHost

\* A failed request of a source that has ended gives up.
Requests(s) ==
    \E q \in {S!Requested(s)} : tx' = IF q = None THEN S!GiveUp(s) ELSE q

\* prepare, one packet handed to the lane when it has room, and one read ahead.
Advances(s, tokens, room) ==
    \E p \in {S!Polled(s)} :
       IF p = None THEN Sends(S!GiveUp(s))
       ELSE \E k \in {S!Packed(p, tokens)} :
            IF k.transfer.packet = None THEN Requests(k) /\ UNCHANGED toHost
            ELSE IF room /\ S!Permits(k)
            THEN /\ toHost' = Append(toHost, Answer(k.transfer.packet, k.transfer.file))
                 /\ Requests(S!Admitted(k))
            ELSE Sends(k)

\* turn, after the dispatch of at most one reply.
Drives(s) ==
    \E d \in {s} \cup (IF s.flight > 0 THEN {[s EXCEPT !.flight = 0]} ELSE {}) :
       IF d.transfer = None THEN Sends(S!Settle(d))
       ELSE IF d.transfer.result # None THEN Sends(S!Settle(S!Concluded(d)))
       ELSE IF d.paused THEN Sends(d)
       ELSE \E tokens, room \in BOOLEAN : (room => tokens) /\ Advances(d, tokens, room)

\* service_batch up to the turn: nothing is started after a stop or the deadline.
Expires(s) == s.stop = None /\ (s.closed \/ s.late)

\* Sender::service.
SenderTurn ==
    /\ ~tx.complete
    /\ \/ /\ Expires(tx) /\ Sends(S!GiveUp(tx)) /\ UNCHANGED <<toSender, faults>>
       \/ /\ ~Expires(tx) /\ tx.closed
          /\ Sends(S!Settle(tx)) /\ UNCHANGED <<toSender, faults>>
       \/ /\ ~Expires(tx) /\ ~tx.closed
          /\ \E s \in {IF S!Starts(tx) THEN S!Started(tx) ELSE tx} :
             \/ /\ cut \/ rx.state = "Retired"
                /\ Sends(S!GiveUp(s)) /\ UNCHANGED <<toSender, faults>>
             \/ /\ UNCHANGED <<toSender, faults>> /\ Drives(s)
             \/ /\ toSender # << >> /\ toSender' = Tail(toSender)
                /\ \E h \in {S!Heard(s, Head(toSender))} :
                   IF h = None THEN Sends(S!GiveUp(s)) /\ UNCHANGED faults
                   ELSE \/ Drives(h) /\ UNCHANGED faults
                        \/ Spend(1) /\ Sends(S!GiveUp(h))
    /\ UNCHANGED <<host, cut>>

\* cancel, a lost authority, a record or file past its own deadline, a failed spawn.
SenderCancels ==
    /\ ~tx.closed /\ Spend(1) /\ Sends(S!GiveUp(tx))
    /\ UNCHANGED <<host, toSender, cut>>

\* set_paused.
SenderPauses ==
    /\ ~tx.closed
    /\ \/ ~tx.paused /\ Spend(1)
       \/ tx.paused /\ UNCHANGED faults
    /\ tx' = [tx EXCEPT !.paused = ~@]
    /\ UNCHANGED <<host, lane>>

SourceLives == tx.src.pc \in {"prepare", "wait"}

\* The source's own gate: stop or the deadline.
SourceStopped == tx.src.stop \/ tx.late

SourceStep ==
    /\ SourceLives
    /\ \/ /\ SourceStopped /\ UNCHANGED faults
          /\ tx' = [tx EXCEPT !.src = S!SourceFails(@)]
       \/ /\ ~SourceStopped /\ S!SourceReady(tx.src) /\ UNCHANGED faults
          /\ tx' = [tx EXCEPT !.src = S!SourceGives(@, tx.transfer.file)]
       \/ /\ S!SourceReady(tx.src) /\ Spend(1)
          /\ \E src \in {S!SourceFails(tx.src), S!SourcePanics(tx.src)} :
             tx' = [tx EXCEPT !.src = src]
    /\ UNCHANGED <<host, lane>>

\* The selection's absolute deadline passes.
Late ==
    /\ ~tx.late /\ tx' = [tx EXCEPT !.late = TRUE]
    /\ UNCHANGED <<host, lane, faults>>

----------------------------------------------------------------------------
(* What happens around the lane.                                           *)

\* At the receiving end the controller's authority is revoked, or its deadline or the
\* transfer's passes.
StandingLost ==
    /\ standing = "live" /\ Spend(1)
    /\ \/ /\ standing' = "revoked"
          /\ fence' = [fence EXCEPT !.revoked = Past(PastStanding)]
       \/ /\ standing' = "late"
          /\ fence' = [fence EXCEPT !.late = Past(PastClock)]
    /\ UNCHANGED <<tx, rx, slot, worker, disk, permit, lane>>

\* The connection is lost, or the receiving session's context is cancelled, which every
\* look at the clock turns into a revocation.
ConnectionLost ==
    /\ ~cut /\ Spend(1) /\ cut' = TRUE
    /\ Revoke \/ Approved
    /\ UNCHANGED <<tx, rx, slot, worker, disk, standing, toHost, toSender>>

\* The receiving process dies, alone or in a power failure.
Crash ==
    /\ worker.pc # "dead" /\ Spend(1)
    /\ \E gone \in SUBSET Unsynced(disk) : disk' = Crashed(disk, gone)
    /\ worker' = [worker EXCEPT !.pc = "dead", !.active = None]
    /\ rx' = [rx EXCEPT !.state = "Retired", !.reply = None, !.pending = None, !.sent = FALSE]
    /\ slot' = Idle /\ cut' = TRUE /\ Revoke
    /\ UNCHANGED <<tx, standing, toHost, toSender>>

\* Another program of the user makes a file in the drop directory, under a name that
\* may still be asked for.
Outstanding ==
    {tx.queue[i] : i \in DOMAIN tx.queue}
        \cup (IF tx.transfer = None THEN {} ELSE {tx.transfer.file})
        \cup (IF worker.active = None THEN {} ELSE {worker.active.file})

LocalFile ==
    /\ Spend(1)
    /\ \E n \in Outstanding \X (0..MaxConflicts) :
          disk.entry[n] = None /\ disk' = LocalCreate(disk, n)
    /\ UNCHANGED <<tx, rx, slot, worker, permit, standing, fence, lane>>

----------------------------------------------------------------------------

Next ==
    \/ WorkerStep \/ WorkerPanics
    \/ OwnerTurn \/ OwnerCollects \/ OwnerStops
    \/ SenderTurn \/ SenderCancels \/ SenderPauses \/ SourceStep \/ Late
    \/ StandingLost \/ ConnectionLost \/ Crash \/ LocalFile

\* What each thread owes when the lane is over: the sender's loop keeps calling
\* service, and the calls of the two disk threads return.
SenderOwes ==
    /\ tx.late /\ ~tx.complete
    /\ \/ tx.stop = None
       \/ tx.transfer # None /\ tx.transfer.result # None
          /\ (~tx.recorded \/ tx.src.pc = "done")

SourceOwes == SourceLives /\ SourceStopped

WorkerOwes ==
    /\ worker.pc \notin {"done", "dead"}
    /\ worker.pc # "loop" \/ ~Passes \/ slot.st = "Queued"

Fairness ==
    /\ WF_tx(Late)
    /\ []<>~SenderOwes \/ []<><<SenderTurn>>_tx
    /\ []<>~SourceOwes \/ []<><<SourceStep>>_tx
    /\ []<>~WorkerOwes \/ []<><<WorkerStep \/ WorkerPanics>>_worker

Spec == Init /\ [][Next]_vars

FairSpec == Spec /\ Fairness

----------------------------------------------------------------------------
(* Properties.                                                             *)

Whereabouts(f) ==
    LET at == Placed(disk, f)
    IN IF at = {} THEN IF f \in disk.lost THEN "lost" ELSE "no"
       ELSE IF \E m, n \in at : m # n THEN "twice"
       ELSE IF at \subseteq disk.synced THEN "durable" ELSE "placed"

Delivery == INSTANCE FileDelivery WITH
    placed <- [f \in Files |-> Whereabouts(f)],
    local <- Locals(disk),
    told <- tx.receipts

\* Whatever fails (a disk call, a thread, a process, the connection, the authority, or a
\* user who stops either end), the files of a selection are published in order, at most
\* once and never over another program's file, and the receipt the sender keeps of each
\* (Sender::fail, Transfer::reply) is true and stays true: "interrupted" and "refused"
\* mean that the file is not there and will not come, "durable" that it survives a
\* power failure; a completion that may have reached the host is only ever "unknown".
ImplementsFileDelivery == Delivery!Spec

\* A revocation, or an authority that ends, fences publication at once: no file appears
\* afterwards but the one whose last look at that fence (HostReceiver::complete, after
\* the flush of its content) was already behind it, however long the disk calls take and
\* whichever thread revoked.
FencedNotPublished ==
    \A f \in Files : Placed(disk, f) # {} =>
        /\ ~permit => f \in fence.permit
        /\ standing # "live" => f \in fence[standing]

\* Disk space and its charge are one: while the receiving process lives, a staging object
\* on the disk is charged against the directory's quota, and a worker that has ended
\* reports a failed cleanup (Task::try_finish_cleanup) exactly when it left one behind,
\* whose charge is then never given back.
CleanupReportIsTrue ==
    /\ worker.pc # "dead" /\ disk.part # None => disk.reserved > 0
    /\ worker.pc = "done" =>
        /\ disk.failed <=> disk.part # None
        /\ disk.reserved = IF disk.failed THEN 1 ELSE 0

\* Once the selection's deadline has passed its report is completed, unless the thread
\* of a source panicked, which is recorded and never called a cleanup; and a lane whose
\* permission or authority is gone ends its disk worker, whoever polls it.  A command
\* handed to that worker is answered, even one that was queued when the lane was stopped.
LaneSettles ==
    /\ <>(tx.complete \/ (tx.recorded /\ tx.src.pc = "panicked"))
    /\ (~permit \/ standing # "live") ~> (worker.pc \in {"done", "dead"})
    /\ []<>(slot.st \notin {"Queued", "Executing"})

=============================================================================
