----------------------------- MODULE FileSender -----------------------------
(***************************************************************************)
(* The sending end of a file lane (fr-files/src/sender.rs and sender/*.rs): *)
(* one selection of files under one deadline, the transfer it is at, and    *)
(* the thread that reads that transfer's source.  The operators map a       *)
(* sender to the sender after a call; an Err is None.                       *)
(***************************************************************************)
EXTENDS Integers, Sequences

CONSTANTS
    None,
    Files,              \* 1..n, in the order of the selection
    Size,               \* the number of chunks of each file
    MaxFlight           \* MAX_RECORDS of sender/flight.rs

Packets == {"Prepared", "Chunk", "End"}

Outcomes == {"Durable", "DurabilityUnknown", "Refused", "Interrupted", "Unknown"}

Stages == {"Preparing", "AwaitingAcceptance", "Streaming", "AwaitingProof", "Finished"}

Transfers ==
    [file : Files, stage : Stages, pending : BOOLEAN, ready : Packets \cup {None},
     packet : Packets \cup {None}, admitted : BOOLEAN, result : Outcomes \cup {None}]

SourceType ==
    [pc : {"none", "prepare", "wait", "done", "panicked"}, pos : Nat,
     mail : Packets \cup {"Error", None}, asked : BOOLEAN, stop : BOOLEAN]

SenderType ==
    [closed : BOOLEAN, retired : BOOLEAN, paused : BOOLEAN, late : BOOLEAN,
     queue : Seq(Files), stop : Outcomes \cup {"Local", "Cleanup", None}, complete : BOOLEAN,
     recorded : BOOLEAN, receipts : [Files -> Outcomes \cup {None}],
     transfer : Transfers \cup {None}, src : SourceType, flight : Nat]

\* A source thread that has not been spawned.
NoSource == [pc |-> "none", pos |-> 0, mail |-> None, asked |-> FALSE, stop |-> FALSE]

\* Source::spawn and the Transfer around it.
NewSource == [NoSource EXCEPT !.pc = "prepare"]

NewTransfer(file) ==
    [file |-> file, stage |-> "Preparing", pending |-> TRUE, ready |-> None,
     packet |-> None, admitted |-> FALSE, result |-> None]

\* `late`: the selection's deadline has passed.  `queue`: what has not been started.
\* `receipts`, `stop` and `complete` are the Report.
NewSender(selection) ==
    [closed |-> FALSE, retired |-> FALSE, paused |-> FALSE, late |-> FALSE,
     queue |-> selection, stop |-> None, complete |-> FALSE, recorded |-> FALSE,
     receipts |-> [f \in Files |-> None], transfer |-> None, src |-> NoSource, flight |-> 0]

----------------------------------------------------------------------------
(* The selection.                                                          *)

\* Batch::stop: the first reason stays, and nothing more is started.
BatchStop(s, reason) ==
    IF s.complete THEN s
    ELSE [s EXCEPT !.stop = IF @ = None THEN reason ELSE @, !.queue = << >>]

\* A faulty outcome: giving up is always reported as "not published".
GivenUpAsInterrupted(t) == "Interrupted"

\* What giving up means depends on whether the completion was ever handed to the lane.
GivenUp(t) == IF t.admitted THEN "Unknown" ELSE "Interrupted"

\* Sender::fail.
Fail(s) ==
    LET b == BatchStop(s, "Local")
        t == b.transfer
        closed == [b EXCEPT !.closed = TRUE, !.src.stop = TRUE]
    IN IF t = None THEN closed
       ELSE [closed EXCEPT !.transfer =
               [t EXCEPT !.ready = None, !.packet = None, !.stage = "Finished",
                         !.result = IF @ = None THEN GivenUp(t) ELSE @]]

Retire(s) == [s EXCEPT !.closed = TRUE, !.retired = TRUE]

\* The receipt enters the report once; anything but a durable file ends the selection.
Recorded(s) ==
    LET t == s.transfer
        r == [s EXCEPT !.receipts[t.file] = t.result, !.recorded = TRUE]
    IN IF s.recorded THEN s
       ELSE IF t.result = "Durable" THEN r ELSE BatchStop(r, t.result)

\* Sender::settle_batch: the report is complete when nothing is left to start and the
\* last source's thread has been joined.  A thread that panicked is never cleaned up.
Settle(s) ==
    IF s.transfer = None THEN [s EXCEPT !.complete = s.queue = << >>]
    ELSE IF s.transfer.result = None THEN s
    ELSE LET r == Recorded(s)
         IN CASE s.src.pc = "done" ->
                   [r EXCEPT !.transfer = None, !.complete = r.queue = << >>]
              [] s.src.pc = "panicked" -> BatchStop(r, "Cleanup")
              [] OTHER -> r

\* Sender::cancel_on, and a turn that ends with an error.
GiveUp(s) == Settle(Retire(Fail(s)))

\* Sender::start_selected.
Started(s) ==
    [s EXCEPT !.transfer = NewTransfer(Head(s.queue)), !.queue = Tail(@),
              !.src = NewSource, !.recorded = FALSE]

Starts(s) == s.stop = None /\ s.transfer = None /\ ~s.paused /\ s.queue # << >>

----------------------------------------------------------------------------
(* One turn on the lane.                                                   *)

Published == {"Durable", "DurabilityUnknown"}

\* Transfer::reply answers Err(Protocol).
Unexpected(t, r) ==
    \/ t = None
    \/ r.file # t.file \/ t.result # None \/ t.stage = "Preparing"
    \/ r.kind = "Accept" /\ t.stage # "AwaitingAcceptance"
    \/ r.kind \in Published /\ t.stage # "AwaitingProof"

\* Transfer::reply; r is None when nothing arrived.
Heard(s, r) ==
    IF r = None THEN s
    ELSE IF Unexpected(s.transfer, r) THEN None
    ELSE IF r.kind = "Accept" THEN [s EXCEPT !.transfer.stage = "Streaming"]
    ELSE [s EXCEPT !.transfer.stage = "Finished", !.transfer.result = r.kind]

\* A receipt stops the source, and all but a publication retire the lane.
Concluded(s) ==
    LET stopped == [s EXCEPT !.src.stop = TRUE]
    IN IF s.transfer.result \in Published THEN stopped ELSE Retire(stopped)

\* Source::poll: the event that is now ready, or an error of the source.
Polled(s) ==
    LET t == s.transfer
        m == s.src.mail
    IN IF ~t.pending \/ t.ready # None \/ t.packet # None THEN s
       ELSE IF m = "Error" \/ (m = None /\ s.src.pc \in {"done", "panicked"}) THEN None
       ELSE IF m = None THEN s
       ELSE [s EXCEPT !.transfer.ready = m, !.transfer.pending = FALSE, !.src.mail = None]

\* Transfer::prepare: an offer needs no tokens, a completion needs an empty flight.
MayPack(s, tokens) ==
    LET t == s.transfer
    IN /\ t.ready # None /\ t.packet = None
       /\ \/ t.ready = "Prepared"
          \/ t.stage = "Streaming" /\ tokens /\ (t.ready = "End" => s.flight = 0)

Packed(s, tokens) ==
    IF MayPack(s, tokens)
    THEN [s EXCEPT !.transfer.packet = s.transfer.ready, !.transfer.ready = None] ELSE s

Permits(s) == s.flight < MaxFlight

\* The lane took the packet.
Admitted(s) ==
    LET p == s.transfer.packet
    IN [s EXCEPT !.flight = @ + 1, !.transfer.packet = None,
                 !.transfer.admitted = @ \/ p = "End",
                 !.transfer.stage = CASE p = "Prepared" -> "AwaitingAcceptance"
                                      [] p = "End" -> "AwaitingProof"
                                      [] OTHER -> @]

\* Source::request: one read ahead, and none of a thread that has ended.
Requested(s) ==
    LET t == s.transfer
    IN IF t.stage = "Streaming" /\ Permits(s) /\ t.ready = None /\ t.packet = None
          /\ ~t.pending
       THEN IF s.src.pc \in {"done", "panicked"} THEN None
            ELSE [s EXCEPT !.transfer.pending = TRUE, !.src.asked = TRUE]
       ELSE s

----------------------------------------------------------------------------
(* The source thread.                                                      *)

\* The thread ends with an error; it never waits for an unread result to be taken.
SourceFails(src) == [src EXCEPT !.pc = "done", !.mail = IF @ = None THEN "Error" ELSE @]

SourcePanics(src) == [src EXCEPT !.pc = "panicked"]

SourceReady(src) == src.pc = "prepare" \/ (src.pc = "wait" /\ src.asked)

\* Source::run: the manifest, then one event per request.
SourceGives(src, file) ==
    IF src.pc = "prepare" THEN [src EXCEPT !.pc = "wait", !.mail = "Prepared"]
    ELSE IF src.pos < Size[file]
         THEN [src EXCEPT !.pos = @ + 1, !.mail = "Chunk", !.asked = FALSE]
         ELSE [src EXCEPT !.pc = "done", !.mail = "End", !.asked = FALSE]

=============================================================================
