-------------------------- MODULE ClipboardChannel --------------------------
(***************************************************************************)
(* One end of the clipboard lane of a controlled session: the incoming half *)
(* (fr-core/src/clipboard.rs, ClipboardSession) and the owner of both       *)
(* directions (fr-wire/src/clipboard/session.rs, ChannelSession), as one    *)
(* record and one operator per method.                                      *)
(*                                                                         *)
(* A record of the lane belongs to an item, named by its source sequence:   *)
(* step 0 is Begin, 1..Chunks are the chunks, then comes Commit; a Cancel   *)
(* may follow at any point.  Deadlines are flags (`late`) that another      *)
(* action raises, so an item may expire between any two steps.  The         *)
(* environment of a call is [open, sw, ready]: the lane's lifetime flag, the*)
(* generation of the off switch (odd is on) and whether a fresh view permits*)
(* clipboard work.                                                          *)
(***************************************************************************)
EXTENDS Naturals

CONSTANTS
    None,               \* an absent option
    Chunks              \* the chunks of the longest item

Begin == 0
Commit == Chunks + 1
Cancel == Chunks + 2

\* An item is <<end, copy, chunks>>: the step that follows its Begin.
First(item) == Chunks - item[3] + 1

\* `last` is last_publication, `moved` says that observation_generation has left the
\* synchronizer's copy of it, and `live` is the item whose payload_live flag is set.
NewChannel ==
    [closed |-> FALSE, switch_states |-> 1, incoming |-> None, received_floor |-> 0,
     local_revision |-> 0, published |-> None, sequence |-> 0, moved |-> FALSE,
     last |-> None, pending |-> None, cancel |-> None, live |-> None]

Close(c) ==
    [c EXCEPT !.closed = TRUE, !.incoming = None, !.published = None, !.last = None,
              !.pending = None, !.cancel = None, !.live = None]

\* Only an item whose Begin the transport took owes its peer a Cancel.
DiscardPending(c) ==
    [c EXCEPT !.live = None, !.pending = None,
              !.cancel = IF c.pending # None /\ c.pending.started THEN c.pending.seq ELSE @]

Disabled(c) == DiscardPending([c EXCEPT !.moved = TRUE])

\* A faulty check: only the present state of the switch counts.
StatusPresent(c, env) ==
    IF c.closed \/ ~env.open THEN "Closed"
    ELSE IF env.sw % 2 = 0 THEN "Disabled"
    ELSE IF env.ready THEN "Ready" ELSE "Suspended"

\* ClipboardSession::check: its result, and what it leaves.  An off/on cycle is seen
\* even while the view is not ready.
Status(c, env) ==
    IF c.closed \/ ~env.open THEN "Closed"
    ELSE IF env.sw # c.switch_states \/ env.sw % 2 = 0 THEN "Disabled"
    ELSE IF env.ready THEN "Ready" ELSE "Suspended"

Checked(c, env) ==
    CASE Status(c, env) = "Closed" -> Close(c)
      [] Status(c, env) = "Disabled" -> [c EXCEPT !.switch_states = env.sw, !.incoming = None]
      [] OTHER -> c

\* A faulty receiver: a paused view postpones expiry.
KeptWhenReady(c, env) ==
    [Checked(c, env) EXCEPT
        !.incoming = IF @ # None /\ @.late /\ Status(c, env) = "Ready" THEN None ELSE @]

\* ClipboardSession::maintain: expiry is served in every state of the view.
KeptReceiver(c, env) ==
    [Checked(c, env) EXCEPT !.incoming = IF @ # None /\ @.late THEN None ELSE @]

ReceiverStatus(c, env) ==
    IF Status(c, env) = "Ready" /\ c.incoming # None /\ c.incoming.late THEN "Expired"
    ELSE Status(c, env)

\* ChannelSession::maintain: an off switch and an expired deadline discard the pending
\* item; the expiry of the incoming item leaves the lane ready.
Maintained(c, env) ==
    LET off == Status(c, env) = "Disabled"
        discards == off \/ (c.pending # None /\ c.pending.late)
        owes == discards /\ c.pending # None /\ c.pending.started
    IN IF Status(c, env) = "Closed" THEN Close(c)
       ELSE [KeptReceiver(c, env) EXCEPT
                !.moved = @ \/ off,
                !.live = IF discards THEN None ELSE @,
                !.pending = IF discards THEN None ELSE @,
                !.cancel = IF owes THEN c.pending.seq ELSE @]

\* ClipboardSession::local_change: the stamp of a publication that may have reached
\* the clipboard is an echo; anything else is a new local revision.
Echo(c, origin) ==
    /\ origin # None /\ c.published # None
    /\ c.published.seq = origin /\ c.published.outcome # "NotSubmitted"

LocalChange(c, origin) ==
    IF Echo(c, origin) THEN [c |-> c, genuine |-> FALSE]
    ELSE [c |-> [c EXCEPT !.local_revision = @ + 1], genuine |-> TRUE]

\* ChannelSession::enqueue_observed, on a lane that is ready.
EnqueueObserved(c, item) ==
    LET next == DiscardPending(c)
        seq == c.sequence + 1
    IN [next EXCEPT !.sequence = seq, !.live = seq,
                    !.pending = [seq |-> seq, item |-> item, step |-> Begin,
                                 started |-> FALSE, late |-> FALSE]]

----------------------------------------------------------------------------
(* Records of the peer.                                                    *)

\* ClipboardSession::check_begin.
BeginRefusal(c, r) ==
    IF r.seq <= c.received_floor THEN "Replay"
    ELSE IF c.incoming # None THEN "Busy" ELSE None

\* The errors of the receiver that the owner acts on: ChannelSession::clipboard_error.
Refused(c, error) ==
    [c |-> IF error = "Disabled" THEN Disabled(c) ELSE c, st |-> error]

\* ClipboardSession::begin_before; `late` says that the ingress bound has passed and
\* `seen` is a note for the properties of the desktop and the switch at that moment.
OnBegin(c, r, env, late, seen) ==
    IF Status(c, env) # "Ready" THEN Refused(Checked(c, env), Status(c, env))
    ELSE IF BeginRefusal(c, r) # None THEN Refused(c, BeginRefusal(c, r))
    ELSE IF late THEN Refused([c EXCEPT !.received_floor = r.seq], "Expired")
    ELSE [c |-> [c EXCEPT !.received_floor = r.seq,
                          !.incoming = [seq |-> r.seq, next |-> First(r.item), late |-> FALSE,
                                        seen |-> seen, local_revision |-> c.local_revision]],
          st |-> "Ok"]

Transfer(c, r) == c.incoming # None /\ c.incoming.seq = r.seq

OnChunk(c, r, env) ==
    IF ReceiverStatus(c, env) # "Ready"
    THEN Refused(KeptReceiver(c, env), ReceiverStatus(c, env))
    ELSE IF ~Transfer(c, r) THEN Refused(c, "UnknownTransfer")
    ELSE IF c.incoming.next # r.step THEN Refused([c EXCEPT !.incoming = None], "ChunkOrder")
    ELSE [c |-> [c EXCEPT !.incoming.next = @ + 1], st |-> "Ok"]

\* Cancel is release-only: no authority is asked for.
OnCancel(c, r) ==
    IF Transfer(c, r) THEN [c |-> [c EXCEPT !.incoming = None], st |-> "Ok"]
    ELSE Refused(c, "UnknownTransfer")

\* A faulty commit: the desktop's revision is not compared.
CommitBlind(c, r, env) ==
    IF ReceiverStatus(c, env) # "Ready"
    THEN Refused(KeptReceiver(c, env), ReceiverStatus(c, env))
    ELSE IF ~Transfer(c, r) THEN Refused(c, "UnknownTransfer")
    ELSE [c |-> [c EXCEPT !.incoming = None],
          st |-> IF c.incoming.next # Commit THEN "Incomplete" ELSE "Prepare"]

\* commit, up to the native preparation: a complete item of an unchanged desktop.
OnCommit(c, r, env) ==
    IF ReceiverStatus(c, env) # "Ready"
    THEN Refused(KeptReceiver(c, env), ReceiverStatus(c, env))
    ELSE IF c.published # None /\ c.published.seq = r.seq THEN [c |-> c, st |-> "Receipt"]
    ELSE IF ~Transfer(c, r) THEN Refused(c, "UnknownTransfer")
    ELSE [c |-> [c EXCEPT !.incoming = None],
          st |-> IF c.incoming.next # Commit THEN "Incomplete"
                 ELSE IF c.incoming.local_revision # c.local_revision THEN "LocalChanged"
                 ELSE "Prepare"]

\* The receipt of a publication, and ChannelSession::receive_before after it: older
\* local work is retired before the echo of the publication can arrive.
OnPublication(c, seq, outcome) ==
    LET kept == [c EXCEPT !.published = [seq |-> seq, outcome |-> outcome]]
    IN IF outcome = "NotSubmitted" \/ c.last = seq THEN kept
       ELSE DiscardPending([kept EXCEPT !.last = seq])

\* ChannelSession::expire_receive of a record whose handoff expired unsubmitted, on a
\* maintained lane that is neither closed nor off.
ExpireReceive(c, r) ==
    IF r.step # Begin THEN OnCancel(c, r)
    ELSE IF BeginRefusal(c, r) # None THEN Refused(c, BeginRefusal(c, r))
    ELSE [c |-> [c EXCEPT !.received_floor = r.seq], st |-> "Ok"]

----------------------------------------------------------------------------
(* Records for the peer: ChannelSession::pump.                             *)

\* A Cancel goes first, and travels even while the switch is off.
NextRecord(c, st) ==
    IF st = "Suspended" THEN None
    ELSE IF c.cancel # None THEN [seq |-> c.cancel, step |-> Cancel, item |-> None]
    ELSE IF st = "Ready" /\ c.pending # None
    THEN [seq |-> c.pending.seq, step |-> c.pending.step, item |-> c.pending.item]
    ELSE None

\* The sink took the record: the cursor moves, and Commit ends the item.
Accepted(c, r) ==
    IF r.step = Cancel THEN [c EXCEPT !.cancel = None]
    ELSE IF r.step = Commit THEN [c EXCEPT !.pending = None]
    ELSE [c EXCEPT !.pending.started = TRUE,
                   !.pending.step = IF r.step = Begin THEN First(r.item) ELSE @ + 1]
=============================================================================
