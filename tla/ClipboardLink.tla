---------------------------- MODULE ClipboardLink ----------------------------
(***************************************************************************)
(* The shared clipboard of two desktops.  Each end runs a native worker     *)
(* (frd/src/clipboard_quic/worker.rs) that owns the synchronizer            *)
(* (fr-wire/src/clipboard/session/synchronize.rs) over the X11 clipboard    *)
(* (fr-native/src/clipboard.rs), and a bridge on the network thread         *)
(* (frd/src/clipboard_quic.rs) that moves records between the worker's two  *)
(* one-record slots and the ordered lane.  The users of both desktops copy, *)
(* turn sharing off and on, and the lane may be stopped, at any moment.     *)
(*                                                                         *)
(* A worker turn is cut where another thread or application can get in:     *)
(* native changes, read and pump, take and native changes, handle, publish. *)
(* Whether a fresh view permits work is chosen anew at every check.         *)
(***************************************************************************)
EXTENDS ClipboardChannel, Sequences, FiniteSets

CONSTANTS
    Host, Controller,
    MaxInflight,        \* permits the bridge keeps for records QUIC retains
    Plans               \* bounds on what the users do and on what befalls a lane

Ends == {Host, Controller}
Peer(e) == IF e = Host THEN Controller ELSE Host

Faults == {"item", "permit", "incoming", "handoff", "stop", "pause", "busy"}

\* A plan bounds, per end, the copies made and the generation of the off switch; it
\* gives the length of the copied texts and names the deadlines that may pass, and whether the lane is stopped, the view
\* pauses, or the X server has more events than one turn takes.
ASSUME PlansAssumption ==
    Plans \subseteq
        [copies : [Ends -> Nat], chunks : 0..Chunks, switch : [Ends -> Nat], faults : SUBSET Faults]

\* end: the worker with its slots and bridge; os: the selection of each desktop;
\* lane: the records QUIC took and the peer has not; sw, open: the off switch and the
\* lifetime flag of each end.  end.offered and tail are notes for the properties: the
\* copies a worker made items of, and the last record each lane took; plan is fixed.
VARIABLES end, os, lane, sw, open, tail, plan

vars == <<end, os, lane, sw, open, tail, plan>>

NewEnd ==
    [c |-> NewChannel, reading |-> None, candidate |-> None, deferred |-> None,
     seen |-> 0, watching |-> FALSE, started |-> FALSE, floor |-> 0,
     rev |-> 0, note |-> FALSE, serviced |-> 0, current |-> None,
     pc |-> "start", job |-> None,
     out |-> None, in |-> None, inflight |-> {}, retired |-> FALSE, offered |-> << >>]

Init ==
    /\ end = [e \in Ends |-> NewEnd]
    /\ os = [e \in Ends |-> [rev |-> 0, item |-> None, by |-> None, copies |-> 0]]
    /\ lane = [e \in Ends |-> << >>]
    /\ sw = [e \in Ends |-> 1]
    /\ open = [e \in Ends |-> TRUE]
    /\ tail = [e \in Ends |-> [seq |-> 0, step |-> Cancel, next |-> None]]
    /\ plan \in Plans

\* Whether a fresh view permits work, at each check of it.
Views == IF "pause" \in plan.faults THEN BOOLEAN ELSE {TRUE}

Env(e, ready) == [open |-> open[e], sw |-> sw[e], ready |-> ready]

----------------------------------------------------------------------------
(* The native clipboard.                                                   *)

\* X11Clipboard::pump: the queued ownership changes become revisions of the watched
\* subscription, and a selection that another owner replaced is no longer ours.
Service(w, o) ==
    LET events == o.rev - w.serviced
    IN [w EXCEPT !.serviced = o.rev,
                 !.rev = IF w.watching THEN @ + events ELSE @,
                 !.note = @ \/ (w.watching /\ events > 0),
                 !.current = IF o.by = @ THEN @ ELSE None]

\* start_watching: the current selection is the first revision of a subscription.
Watch(w, o) ==
    [w EXCEPT !.watching = TRUE, !.started = TRUE, !.serviced = o.rev, !.rev = @ + 1,
              !.note = TRUE, !.floor = IF w.started THEN w.rev + 1 ELSE 0]

\* poll_change_turn is settled unless a full turn of events is waiting.
Settled(e) == IF os[e].rev # end[e].serviced /\ "busy" \in plan.faults THEN BOOLEAN ELSE {TRUE}

\* A faulty desktop: a publication is not recognised as this end's own.
NoStamp(w, o) == None

\* The provenance of a change or a read: this end owns the selection it last published.
OwnStamp(w, o) == IF o.by # None /\ o.by = w.current THEN o.by ELSE None

----------------------------------------------------------------------------
(* The synchronizer.                                                       *)

Pause(w) == [w EXCEPT !.reading = None]

Suspend(w) ==
    [w EXCEPT !.reading = None, !.candidate = None, !.deferred = None,
              !.c.moved = FALSE, !.watching = FALSE,
              !.note = FALSE, !.current = IF w.watching THEN None ELSE @]

\* Synchronizer::admit: its result, and what it leaves.
Admission(w, env) ==
    LET st == Status(w.c, env)
    IN IF st # "Closed" /\ w.c.moved THEN "Disabled" ELSE st

Admitted(w, env) ==
    LET kept == [w EXCEPT !.c = Maintained(@, env)]
    IN CASE Admission(w, env) = "Disabled" -> Suspend(kept)
         [] Admission(w, env) = "Suspended" -> Pause(kept)
         [] OTHER -> kept

\* A newer revision retires the read of the older one; past the bootstrap it is a local
\* change, and a genuine one becomes the candidate of the next read.
Report(w) ==
    LET change == w.deferred
        told == LocalChange(w.c, change.origin)
        next == [w EXCEPT !.deferred = None, !.seen = change.rev, !.reading = None,
                          !.candidate = None]
    IN IF change = None THEN w
       ELSE IF change.rev <= w.seen THEN [w EXCEPT !.deferred = None]
       ELSE IF change.rev <= w.floor THEN next
       ELSE IF ~told.genuine THEN [next EXCEPT !.c = told.c]
       ELSE [next EXCEPT !.c = DiscardPending(told.c),
                         !.candidate = IF change.has THEN change.rev ELSE None]

\* The notification is consumed before the second admission: what was learnt is kept
\* for later, and the payload already handed off is fenced at once.
Learn(w, o, settled) ==
    LET served == Service(w, o)
        newer == served.note /\ served.rev > w.seen
    IN [served EXCEPT
           !.note = @ /\ ~settled,
           !.deferred = IF served.note
                        THEN [rev |-> served.rev, has |-> o.item # None,
                              origin |-> OwnStamp(served, o)]
                        ELSE @,
           !.c = IF newer THEN DiscardPending(@) ELSE @]

\* Synchronizer::native_changes between two checks of authority, and what follows it.
NativeChanges(e, w, Then(_, _)) ==
    \E ready, later \in Views, settled \in Settled(e) :
    \E st \in {Admission(w, Env(e, ready))}, first \in {Admitted(w, Env(e, ready))} :
    IF st # "Ready" /\ ~(st = "Suspended" /\ first.watching) THEN Then(first, st)
    ELSE \E watched \in {IF first.watching THEN first ELSE Watch(first, os[e])} :
         \E begun \in {IF first.watching \/ Admission(watched, Env(e, later)) = "Ready"
                       THEN Learn(watched, os[e], settled) ELSE watched} :
         \E second \in {Admitted(begun, Env(e, later))} :
         IF Admission(begun, Env(e, later)) # "Ready"
         THEN Then(second, Admission(begun, Env(e, later)))
         ELSE \E told \in {Report(second)} : Then(told, IF settled THEN "Ready" ELSE "Unsettled")

\* Synchronizer::read_step on an admitted turn: `result` is what the native read came
\* to.  A selection this end published is never an item of its own.
ReadStep(w, o, result) ==
    LET reading == IF w.reading = None
                   THEN [w EXCEPT !.reading = [rev |-> w.candidate, late |-> FALSE],
                                  !.candidate = None] ELSE w
        served == Service(reading, o)
        done == [served EXCEPT !.reading = None]
    IN IF reading.reading.late THEN [reading EXCEPT !.reading = None]
       ELSE IF served.rev # reading.reading.rev \/ result = "Refused" THEN done
       ELSE IF result = "Pending" THEN served
       ELSE IF OwnStamp(served, o) # None THEN done
       ELSE [done EXCEPT !.c = EnqueueObserved(@, o.item), !.offered = Append(@, o.item)]

\* ChannelSession::pump into the one outgoing slot, whose permit remembers the switch;
\* `w` has been maintained with the result `st`.
Pump(w, st, switch) ==
    LET r == NextRecord(w.c, st)
        next == IF r = None \/ w.out # None THEN w
                ELSE [w EXCEPT !.c = Accepted(@, r),
                               !.out = [rec |-> r, sw |-> switch, late |-> FALSE,
                                        taken |-> FALSE]]
    IN IF w.c.moved THEN Suspend(next) ELSE next

----------------------------------------------------------------------------
(* The slots between the worker and the bridge.                            *)

\* Egress::check_operation and Outgoing::check_operation.
Permit(e, p) ==
    IF ~open[e] THEN "Closed"
    ELSE IF p.late THEN "Expired"
    ELSE IF p.rec.step = Cancel THEN None
    ELSE IF end[e].c.live # p.rec.seq THEN "LocalChanged"
    ELSE IF sw[e] # p.sw \/ sw[e] % 2 = 0 THEN "Disabled" ELSE None

\* A faulty bridge: a Commit, after which no Cancel is owed, is dropped like any record.
DiscardCommit(e, p) ==
    Permit(e, p) = "LocalChanged" \/ (e = Host /\ Permit(e, p) = "Expired")

\* Outgoing::can_discard: the wire owner has fenced, or on the host's one clock is about
\* to fence, this incomplete item, and will send its Cancel.
CanDiscard(e, p) ==
    /\ p.rec.step < Commit
    /\ Permit(e, p) = "LocalChanged" \/ (e = Host /\ Permit(e, p) = "Expired")

\* Shared::expire_incoming: only a record still in the slot becomes a refusal.
ExpireIncoming(w) ==
    IF w.in # None /\ w.in.late /\ w.in.st = "queued" THEN [w EXCEPT !.in.st = "expired"] ELSE w

Overrun(w) == w.in # None /\ w.in.late /\ w.in.st = "executing"

\* Worker::check_handoffs: an outgoing record still in the slot may be discarded.
HandoffsFail(e) ==
    LET p == end[e].out
    IN p # None /\ ~p.taken /\ Permit(e, p) # None /\ ~CanDiscard(e, p)

CheckHandoffs(e) ==
    LET w == end[e]
        obsolete == w.out # None /\ ~w.out.taken /\ CanDiscard(e, w.out)
    IN ExpireIncoming(IF obsolete THEN [w EXCEPT !.out = None] ELSE w)

\* Worker::finish_incoming.
Finish(w, st) == [w EXCEPT !.in = IF st = "Ok" THEN None ELSE [@ EXCEPT !.st = "result"]]

----------------------------------------------------------------------------
(* The worker: Worker::step.                                               *)

Set(e, w) == end' = [end EXCEPT ![e] = w]

\* Any error, and the closed gate, end the worker: the channel and the native owner are
\* closed and the bridge finds the lane closed.
Die(e) ==
    /\ Set(e, [end[e] EXCEPT !.c = Close(@), !.reading = None, !.candidate = None,
                             !.deferred = None, !.watching = FALSE, !.current = None,
                             !.job = None, !.pc = "dead", !.in = None,
                             !.out = IF @ # None /\ @.taken THEN @ ELSE None])
    /\ open' = [open EXCEPT ![e] = FALSE]
    /\ UNCHANGED <<os, lane, sw, tail, plan>>

Keep == UNCHANGED <<os, lane, sw, open, tail, plan>>

\* Worker::finish_expired.
FinishExpired(e, w) ==
    \E ready \in Views : \E c \in {Maintained(w.c, Env(e, ready))} :
        IF Status(w.c, Env(e, ready)) \in {"Closed", "Disabled"} THEN Die(e)
        ELSE /\ Set(e, Finish([w EXCEPT !.c = ExpireReceive(c, w.in.rec).c, !.pc = "start"],
                              "Expired"))
             /\ Keep

\* The pump of a turn, after its own maintenance.
PumpTurn(e, w) ==
    \E ready \in Views : \E kept \in {[w EXCEPT !.c = Maintained(@, Env(e, ready))]} :
        IF Status(w.c, Env(e, ready)) = "Closed" THEN Die(e)
        ELSE Set(e, Pump([kept EXCEPT !.pc = "take"], Status(w.c, Env(e, ready)), sw[e])) /\ Keep

\* The top of a turn: handoffs, then the native changes.  While the switch is off only
\* a Cancel may go; an unsettled or paused desktop sends nothing.
AfterChanges(e, w, st) ==
    CASE st = "Closed" -> Die(e)
      [] st = "Ready" -> Set(e, [w EXCEPT !.pc = "read"]) /\ Keep
      [] st = "Disabled" -> PumpTurn(e, w)
      [] OTHER -> Set(e, [w EXCEPT !.pc = "take"]) /\ Keep

Start(e) ==
    /\ end[e].pc = "start"
    /\ \E w \in {CheckHandoffs(e)} :
       IF ~open[e] \/ HandoffsFail(e) THEN Die(e)
       ELSE IF w.in # None /\ w.in.st = "expired" THEN FinishExpired(e, w)
       ELSE NativeChanges(e, w, LAMBDA next, st : AfterChanges(e, next, st))

\* read_step, if there is something to read, and the pump; a read that met a newer
\* revision lets nothing older go.
Pumps(e, w) ==
    IF w.rev # w.seen
    THEN Set(e, [w EXCEPT !.pc = "take", !.reading = None, !.c = DiscardPending(@)]) /\ Keep
    ELSE PumpTurn(e, w)

ReadAndPump(e) ==
    /\ end[e].pc = "read"
    /\ IF end[e].reading = None /\ end[e].candidate = None THEN Pumps(e, end[e])
       ELSE \E ready \in Views, result \in {"Pending", "Refused", "Text"} :
            \E st \in {Admission(end[e], Env(e, ready))}, w \in {Admitted(end[e], Env(e, ready))} :
            CASE st = "Closed" -> Die(e)
              [] st = "Suspended" -> Set(e, [w EXCEPT !.pc = "take"]) /\ Keep
              [] st = "Disabled" -> Pumps(e, w)
              [] OTHER -> \E read \in {ReadStep(w, os[e], result)} : Pumps(e, read)

\* The second half of the turn takes the incoming record, after the native changes
\* again; a desktop that is not settled and watched leaves the record in its slot.
AfterSecondChanges(e, w, st) ==
    IF st = "Closed" THEN Die(e)
    ELSE /\ Set(e, IF st = "Ready" THEN [w EXCEPT !.pc = "handle", !.in.st = "executing"]
                   ELSE [w EXCEPT !.pc = "start"])
         /\ Keep

Take(e) ==
    /\ end[e].pc = "take"
    /\ \E w \in {CheckHandoffs(e)}, ready \in Views :
       IF ~open[e] \/ HandoffsFail(e) THEN Die(e)
       ELSE IF w.in # None /\ w.in.st = "expired" THEN FinishExpired(e, w)
       ELSE IF ~ready \/ w.in = None \/ w.in.st # "queued"
       THEN Set(e, [w EXCEPT !.pc = "start"]) /\ Keep
       ELSE NativeChanges(e, w, LAMBDA next, st : AfterSecondChanges(e, next, st))

\* PublicationGuard::prepare: the native owner services its changes and takes a server
\* timestamp; a revision the synchronizer has not reported refuses the item.
Prepare(w, o, r, seen) ==
    LET served == Service(w, o)
    IN IF served.rev # w.seen THEN Finish(served, "LocalChanged")
       ELSE [served EXCEPT !.pc = "publish",
                           !.job = [rec |-> r, late |-> FALSE, stamp |-> o.rev, seen |-> seen]]

\* Synchronizer::receive_before, up to the preparation of a complete item.
Received(c, r, env, in, seen) ==
    CASE r.step = Begin -> OnBegin(c, r, env, in.late, seen)
      [] r.step = Commit -> OnCommit(c, r, env)
      [] r.step = Cancel -> OnCancel(c, r)
      [] OTHER -> OnChunk(c, r, env)

Handle(e) ==
    /\ end[e].pc = "handle"
    /\ \E ready \in Views, available \in BOOLEAN, w \in {[end[e] EXCEPT !.pc = "start"]} :
       \E done \in {Received(w.c, w.in.rec, Env(e, ready), w.in,
                             [rev |-> w.serviced, sw |-> sw[e]])} :
       \E next \in {[w EXCEPT !.c = done.c]} :
       CASE done.st = "Closed" -> Die(e)
         [] done.st = "Suspended" -> Set(e, [Pause(next) EXCEPT !.in.st = "queued"]) /\ Keep
         [] done.st = "Prepare" /\ available ->
                Set(e, Prepare(next, os[e], w.in.rec, w.c.incoming.seen)) /\ Keep
         [] done.c.moved -> Set(e, Suspend(Finish(next, done.st))) /\ Keep
         [] OTHER -> Set(e, Finish(next, done.st)) /\ Keep

\* The last check of authority, switch and deadline, and the native publication.  The
\* server refuses a timestamp older than the selection it holds.
Publish(e) ==
    /\ end[e].pc = "publish"
    /\ \E ready \in Views, submitted, confirmed \in BOOLEAN, job \in {end[e].job} :
       \E st \in {Status(end[e].c, Env(e, ready))},
          w \in {[end[e] EXCEPT !.pc = "start", !.job = None, !.c = Checked(@, Env(e, ready))]},
          lands \in {submitted /\ os[e].rev = job.stamp} :
       IF st = "Closed" THEN Die(e)
       ELSE IF st = "Disabled" THEN Set(e, Suspend(Finish([w EXCEPT !.c = Disabled(@)], st))) /\ Keep
       ELSE IF st = "Suspended" \/ job.late THEN Set(e, Finish(w, "Refused")) /\ Keep
       ELSE LET outcome == IF ~submitted THEN "NotSubmitted"
                           ELSE IF lands /\ confirmed THEN "SubmittedToOs" ELSE "UnknownEffect"
                told == [Finish(w, outcome) EXCEPT !.c = OnPublication(@, job.rec.seq, outcome)]
            IN /\ Set(e, IF ~submitted THEN told
                         ELSE [told EXCEPT !.reading = None, !.candidate = None,
                                           !.current = IF lands THEN job.rec.seq ELSE None])
               /\ os' = IF lands THEN [os EXCEPT ![e].rev = @ + 1, ![e].item = job.rec.item,
                                                 ![e].by = job.rec.seq]
                        ELSE os
               /\ UNCHANGED <<lane, sw, open, tail, plan>>

----------------------------------------------------------------------------
(* The bridge: Bridge::service on the network thread.                      *)

\* Bridge::retire fences the worker first, then ends the lane.
Retire(e) ==
    /\ Set(e, [end[e] EXCEPT !.retired = TRUE, !.inflight = {},
                             !.out = IF @ # None /\ @.taken THEN None ELSE @])
    /\ open' = [open EXCEPT ![e] = FALSE]
    /\ UNCHANGED <<os, lane, sw, tail, plan>>

\* Bridge::admission, short of the view: the lane's owner, both switches, every permit
\* QUIC still retains, the record in hand and the incoming handoff.
Refusal(e, w) ==
    \/ ~open[e] \/ sw[e] # 1
    \/ \E p \in w.inflight : Permit(e, p) # None
    \/ w.out # None /\ w.out.taken /\ Permit(e, w.out) # None /\ ~CanDiscard(e, w.out)
    \/ Overrun(w)

\* The start of a turn: the drained witness, an obsolete record in hand, an expired one
\* in the slot.
Settles(e, drained) ==
    LET w == end[e]
        obsolete == w.out # None /\ w.out.taken /\ CanDiscard(e, w.out)
    IN ExpireIncoming([w EXCEPT !.inflight = IF drained THEN {} ELSE @,
                                !.out = IF obsolete THEN None ELSE @])

\* The record of the slot comes into the bridge's hand while its permit has room.
Holds(w) ==
    IF w.out # None /\ Cardinality(w.inflight) < MaxInflight THEN [w EXCEPT !.out.taken = TRUE]
    ELSE w

\* QUIC takes the record in hand, unless it has no room or the record may be dropped.
Sends(e, w, room) ==
    LET held == w.out # None /\ w.out.taken
        sent == held /\ room /\ Permit(e, w.out) = None
        dropped == held /\ CanDiscard(e, w.out)
    IN [w |-> [w EXCEPT !.inflight = IF sent THEN @ \cup {w.out} ELSE @,
                        !.out = IF sent \/ dropped THEN None ELSE @],
        rec |-> IF sent THEN w.out.rec ELSE None, ends |-> dropped]

\* The record the lane took, with the step that continues its item.
Note(r) ==
    [seq |-> r.seq, step |-> r.step,
     next |-> IF r.step = Begin THEN First(r.item)
              ELSE IF r.step < Commit THEN r.step + 1 ELSE None]

\* One turn: after its checks a record goes out and a record comes in.  The view may
\* pause the turn after the checks.
Bridge(e) ==
    /\ ~end[e].retired
    /\ \E ready \in Views, room \in BOOLEAN, reset \in {FALSE, end[Peer(e)].retired},
          drained \in {FALSE, end[e].inflight # {}} :
       \E w \in {Settles(e, drained)} :
       \E held \in {Holds(w)} :
       IF reset \/ Refusal(e, w) \/ (ready /\ Refusal(e, held)) THEN Retire(e)
       ELSE IF ~ready THEN Set(e, w) /\ Keep
       ELSE \E sent \in {Sends(e, held, room)} :
            \E takes \in {sent.w.in = None /\ lane[Peer(e)] # << >> /\ ~sent.ends} :
            /\ Set(e, IF takes THEN [sent.w EXCEPT !.in = [rec |-> Head(lane[Peer(e)]),
                                                          st |-> "queued", late |-> FALSE]]
                      ELSE sent.w)
            /\ lane' = [x \in Ends |->
                          IF x = e THEN IF sent.rec # None THEN Append(lane[e], sent.rec) ELSE lane[e]
                          ELSE IF takes THEN Tail(lane[x]) ELSE lane[x]]
            /\ tail' = IF sent.rec # None
                       THEN [tail EXCEPT ![e] = Note(sent.rec)]
                       ELSE tail
            /\ UNCHANGED <<os, sw, open, plan>>

\* Bridge::take_received: the application collects a terminal result.
TakeReceived(e) ==
    /\ end[e].in # None /\ end[e].in.st = "result"
    /\ Set(e, [end[e] EXCEPT !.in = None]) /\ Keep

----------------------------------------------------------------------------
(* The users, the clock, and whatever ends the lane from outside.          *)

Copy(e) ==
    /\ os[e].copies < plan.copies[e]
    /\ os' = [os EXCEPT ![e] = [rev |-> @.rev + 1, item |-> <<e, @.copies + 1, plan.chunks>>,
                                by |-> None, copies |-> @.copies + 1]]
    /\ UNCHANGED <<end, lane, sw, open, tail, plan>>

\* ClipboardSwitch::set_enabled: every transition advances the generation.
SetEnabled(e) ==
    /\ sw[e] < plan.switch[e]
    /\ sw' = [sw EXCEPT ![e] = @ + 1]
    /\ UNCHANGED <<end, os, lane, open, tail, plan>>

\* Shared::stop by the owner of the session, a failed native call or a lost authority.
Stop(e) ==
    /\ "stop" \in plan.faults /\ open[e]
    /\ open' = [open EXCEPT ![e] = FALSE]
    /\ UNCHANGED <<end, os, lane, sw, tail, plan>>

LatePermits(w, seq, cancel) ==
    LET Mark(p) == IF p.rec.seq = seq /\ (p.rec.step = Cancel) = cancel
                   THEN [p EXCEPT !.late = TRUE] ELSE p
    IN [w EXCEPT !.out = IF @ = None THEN None ELSE Mark(@), !.inflight = {Mark(p) : p \in @}]

\* The outgoing item's deadline passes.  The host has one clock for the item and its
\* permits; the controller's worker and bridge project the host's clock separately.
ItemLate(e) ==
    /\ "item" \in plan.faults /\ end[e].c.pending # None /\ ~end[e].c.pending.late
    /\ LET w == [end[e] EXCEPT !.c.pending.late = TRUE]
       IN Set(e, IF e = Host THEN LatePermits(w, w.c.pending.seq, FALSE) ELSE w)
    /\ Keep

\* The deadline of a permit passes for the bridge.
PermitLate(e) ==
    /\ "permit" \in plan.faults /\ open[e]
    /\ \E p \in end[e].inflight \cup ({end[e].out} \ {None}) :
          /\ ~p.late
          /\ IF e = Controller \/ p.rec.step = Cancel \/ end[e].c.pending = None THEN TRUE
             ELSE end[e].c.pending.seq # p.rec.seq
          /\ Set(e, LatePermits(end[e], p.rec.seq, p.rec.step = Cancel))
    /\ Keep

\* The deadline of the incoming item, of the item being published, or of a read.
IncomingLate(e) ==
    /\ "incoming" \in plan.faults
    /\ \/ /\ end[e].c.incoming # None /\ ~end[e].c.incoming.late
          /\ Set(e, [end[e] EXCEPT !.c.incoming.late = TRUE])
       \/ /\ end[e].job # None /\ ~end[e].job.late
          /\ Set(e, [end[e] EXCEPT !.job.late = TRUE])
       \/ /\ end[e].reading # None /\ ~end[e].reading.late
          /\ Set(e, [end[e] EXCEPT !.reading.late = TRUE])
    /\ Keep

\* The bound of the incoming handoff, fixed when the record left the lane.
HandoffLate(e) ==
    /\ "handoff" \in plan.faults /\ end[e].in # None /\ end[e].in.st \in {"queued", "executing"} /\ ~end[e].in.late
    /\ Set(e, [end[e] EXCEPT !.in.late = TRUE]) /\ Keep

Next ==
    \E e \in Ends :
        \/ Start(e) \/ ReadAndPump(e) \/ Take(e) \/ Handle(e) \/ Publish(e)
        \/ Bridge(e) \/ TakeReceived(e)
        \/ Copy(e) \/ SetEnabled(e) \/ Stop(e)
        \/ ItemLate(e) \/ PermitLate(e) \/ IncomingLate(e) \/ HandoffLate(e)

\* The worker thread parks for at most a millisecond between turns, so a worker that
\* lives keeps moving from step to step (weak fairness of Worker, whose steps are
\* enabled until it is dead), and time passes.
Runs(e) == []<><<end'[e].pc # end[e].pc>>_end \/ <>[](end[e].pc = "dead")

Fairness ==
    \A e \in Ends : Runs(e) /\ WF_vars(ItemLate(e)) /\ WF_vars(IncomingLate(e))

Spec == Init /\ [][Next]_vars
FairSpec == Spec /\ Fairness

----------------------------------------------------------------------------
(* Properties.                                                             *)

\* Every copy a user makes is offered to the peer at most once, and nothing else ever
\* is: an item this end published for its peer never travels back, whatever the order
\* of the publication, its echo, a pause and an off/on cycle (local_change, read_step).
OfferedOnce ==
    \A e \in Ends : LET items == end[e].offered IN
        /\ \A i \in DOMAIN items : items[i][1] = e
        /\ \A i, j \in DOMAIN items : items[i] = items[j] => i = j

\* A publication replaces only the selection that the desktop held when the item began
\* to arrive: a copy made after that survives it, even one made between the last look
\* at the desktop and the native call (native_changes, PublicationGuard).
NewerCopySurvives ==
    [][\A e \in Ends :
          os'[e].by # None /\ os'[e].rev # os[e].rev => os[e].rev = end[e].job.seen.rev]_vars

\* An item that began to arrive before the off switch moved is never published, even
\* when the switch is on again by then (ClipboardSession::check).
OffCancelsItem ==
    [][\A e \in Ends :
          os'[e].by # None /\ os'[e].rev # os[e].rev => sw[e] = end[e].job.seen.sw]_vars

\* The lane carries whole items: a record follows the one before it in its item, a new
\* Begin follows a Commit or a Cancel, and an item that was begun and given up is
\* cancelled first, although the bridge drops records that the wire owner counts as
\* sent (discard_pending, Outgoing::can_discard).
ItemsTravelWhole ==
    [][\A e \in Ends :
          LET old == tail[e] new == tail'[e]
              over == old.step \in {Commit, Cancel}
          IN new # old =>
             \/ new.step = Begin /\ over /\ new.seq > old.seq
             \/ new.step = Cancel /\ ~over /\ new.seq = old.seq
             \/ new.step = Cancel /\ over /\ new.seq > old.seq
             \/ new.step = old.next /\ ~over /\ new.seq = old.seq]_vars

\* Clipboard text is not kept for ever: an incoming or outgoing item is completed or
\* erased, also while the view stays paused and the peer is silent (maintain).
TextIsErased ==
    \A e \in Ends :
        (end[e].c.incoming # None \/ end[e].c.pending # None)
            ~> (end[e].c.incoming = None /\ end[e].c.pending = None)
=============================================================================
